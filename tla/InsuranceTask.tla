---------------------------- MODULE InsuranceTask ----------------------------
(***************************************************************************)
(* The travel insurance task: the panel of the agent, the insurance        *)
(* service behind it and the waiver link in the hands of the client.       *)
(*                                                                         *)
(* The panel decides what may be done from a status that it fetched, and   *)
(* from the quotes and the task result the workspace loaded: two pictures  *)
(* of one request, each of which may be late.  The server completes the    *)
(* task on request and checks nothing.                                     *)
(***************************************************************************)
EXTENDS Naturals, Sequences

CONSTANTS
    NQuotes,  \* quotes the request may hold
    NRuns,    \* handlers in flight at once
    Overlap   \* the kinds of handlers that may start while another one runs

VARIABLES
    srv,    \* the request, its insurance tracking and its waiver link
    props,  \* what the workspace loaded last
    panel,  \* the panel
    runs    \* the handlers in flight

vars == <<srv, props, panel, runs>>

Quotes == 1 .. NQuotes
Runs == 1 .. NRuns

(***************************************************************************)
(* A policy without number or date is an "expired" one, except that it can *)
(* not be removed.  A "lapsed" link is past its 48 hours and still marked  *)
(* pending.  "by" is a ghost: the track on which the task was completed.   *)
(***************************************************************************)
QuoteStates == {"absent", "proposed", "accepted", "declined"}

Server ==
    [annual : {"none", "expired", "valid"}, quotes : [Quotes -> QuoteStates],
     tracking : {"pending", "annual", "waiver"},
     link : {"none", "pending", "lapsed", "expired", "completed"},
     checked : BOOLEAN, task : {"Open", "Done"}, by : {"nobody", "annual", "trip"}]

Request(s) == [quotes |-> s.quotes, checked |-> s.checked, task |-> s.task]

Some(quotes, v) == \E q \in Quotes : quotes[q] = v
NoQuotes(quotes) == \A q \in Quotes : quotes[q] = "absent"
AllDeclined(quotes) ==
    ~ NoQuotes(quotes) /\ \A q \in Quotes : quotes[q] \in {"absent", "declined"}

\* The server's own opinion, which is part of the status it returns.
_completion_state(s) ==
    IF s.annual # "none" THEN s.annual = "valid"
    ELSE Some(s.quotes, "accepted") \/ s.tracking = "waiver"

\* Reading the status expires the links whose time is over.
Swept(s) == [s EXCEPT !.link = IF @ = "lapsed" THEN "expired" ELSE @]

_waiver_request_summary(s) ==
    CASE s.tracking = "waiver"  -> "completed"
      [] s.link = "completed"   -> "none"
      [] OTHER                  -> Swept(s).link

Status(s) ==
    [annual |-> s.annual, tracking |-> s.tracking, quotes |-> s.quotes,
     link |-> _waiver_request_summary(s), can |-> _completion_state(s)]

-----------------------------------------------------------------------------
(* The handlers, as the calls they make one after the other                *)
(*  call    the kind's own request      result  record the annual check    *)
(*  status  fetch the status and show   reload  the workspace's request    *)
(***************************************************************************)
Program ==
    [load     |-> <<"status">>,           poll    |-> <<"status">>,
     confirm  |-> <<"result", "reload">>, update  |-> <<"call", "reload">>,
     clear    |-> <<"call", "result", "reload">>,
     quote    |-> <<"call", "reload", "status">>,
     send     |-> <<"call", "status">>,   client  |-> <<"call", "status", "reload">>,
     complete |-> <<"call", "reload">>]

Kinds == DOMAIN Program
Idle == [kind |-> "idle"]
Unread == [task |-> "unread"]
NoStatus == [annual |-> "unknown"]

\* Handlers that set a flag which disables the footer, and the quote's own.
Footer == {"confirm", "update", "clear", "send", "complete"}
Flags == Footer \cup {"quote"}

TypeOK ==
    /\ srv \in Server /\ props.quotes \in [Quotes -> QuoteStates]
    /\ {panel.open, panel.loading, panel.checked, panel.editor} \subseteq BOOLEAN
    /\ panel.busy \subseteq Flags /\ panel.draft \in {"kept", "future"}
    /\ \A r \in Runs : runs[r] # Idle =>
          /\ runs[r].kind \in Kinds /\ runs[r].heard \in BOOLEAN
          /\ runs[r].todo # <<>>

Busy == panel.busy \cap Footer # {}
ReadOnly == props.task = "Done"
Ready == panel.open /\ ~ panel.loading /\ panel.status # NoStatus

-----------------------------------------------------------------------------
(* What the panel shows *)

OnAnnual == Ready /\ panel.status.annual # "none"
Gate == Ready /\ ~ ReadOnly /\ panel.status.annual = "none" /\ ~ panel.checked
PerTrip == Ready /\ panel.status.annual = "none" /\ (panel.checked \/ ReadOnly)
Signed == panel.status.tracking = "waiver"
Pending == panel.status # NoStatus /\ panel.status.link = "pending"

Preference == PerTrip /\ NoQuotes(props.quotes) /\ ~ Signed /\ ~ Pending
Declined ==
    PerTrip /\ ~ NoQuotes(props.quotes) /\ AllDeclined(panel.status.quotes) /\ ~ Signed

AnnualCompletes == OnAnnual /\ panel.status.annual = "valid" /\ panel.draft = "kept"
TripCompletes ==
    /\ PerTrip /\ ~ Preference /\ ~ Declined /\ ~ Some(props.quotes, "proposed")
    /\ Some(props.quotes, "accepted") \/ Signed

-----------------------------------------------------------------------------
(* Handlers start *)

Run(kind, arg) ==
    [kind |-> kind, todo |-> Program[kind], arg |-> arg, heard |-> TRUE, snap |-> Unread]

Free == {r \in Runs : runs[r] = Idle}

Start(run, p) ==
    /\ Free = Runs \/ run.kind \in Overlap
    /\ \E r \in Free : (\A q \in Free : r <= q) /\ runs' = [runs EXCEPT ![r] = run]
    /\ panel' = p
    /\ UNCHANGED <<srv, props>>

Flagged(kind) == [panel EXCEPT !.busy = @ \cup {kind}]
Begin(kind, arg) == Start(Run(kind, arg), Flagged(kind))

Mounted ==
    [open |-> TRUE, loading |-> TRUE, status |-> NoStatus, draft |-> "kept", busy |-> {},
     checked |-> props.checked, editor |-> FALSE]

Closed == [Mounted EXCEPT !.open = FALSE, !.loading = FALSE, !.checked = FALSE]

OpenTask == ~ panel.open /\ Start(Run("load", "none"), Mounted)

\* Nothing keeps the modal open while a handler runs.
CloseTask ==
    /\ panel.open /\ panel' = Closed
    /\ runs' = [r \in Runs |-> IF runs[r] = Idle THEN Idle ELSE [runs[r] EXCEPT !.heard = FALSE]]
    /\ UNCHANGED <<srv, props>>

\* Every 30 seconds while a waiver is pending; and aloud, when by the clock of the
\* browser its time is over.
Poll ==
    /\ panel.open /\ Pending
    /\ \A r \in Runs : runs[r] # Idle => runs[r].kind \notin {"poll", "load"}
    /\ \/ ~ ReadOnly /\ Start(Run("poll", "none"), panel)
       \/ srv.link = "lapsed" /\ Start(Run("load", "none"), [panel EXCEPT !.loading = TRUE])

handleConfirmAnnualCheck == Gate /\ ~ Busy /\ Begin("confirm", "none")

\* The client record, edited in a dialog on top of the task.
AddAnnualInsurance ==
    /\ Gate /\ ~ Busy /\ ~ panel.editor
    /\ panel' = [panel EXCEPT !.editor = TRUE]
    /\ UNCHANGED <<srv, props, runs>>

LeaveEditor ==
    /\ panel.editor /\ panel' = [panel EXCEPT !.editor = FALSE]
    /\ UNCHANGED <<srv, props, runs>>

SaveClient ==
    /\ panel.editor /\ \A r \in Runs : runs[r].kind # "client"
    /\ \E a \in {"expired", "valid"} : Start(Run("client", a), panel)

\* A date that is not in the future is refused when it is sent: typing it is left out.
EditAnnual ==
    /\ OnAnnual /\ ~ ReadOnly /\ panel.status.annual # "valid"
    /\ panel.busy \cap {"update", "complete", "clear"} = {}
    /\ panel' = [panel EXCEPT !.draft = "future"]
    /\ UNCHANGED <<srv, props, runs>>

handleUpdateAnnual ==
    /\ OnAnnual /\ ~ ReadOnly /\ ~ Busy /\ panel.status.annual # "valid"
    /\ panel.draft = "future"
    /\ Begin("update", "none")

handleRemoveAnnualInsurance ==
    /\ OnAnnual /\ ~ ReadOnly /\ ~ Busy /\ panel.status.annual = "expired"
    /\ Begin("clear", "none")

\* The buttons of a quote do not care for the footer.
handleQuoteStatusChange ==
    /\ PerTrip /\ ~ ReadOnly /\ "quote" \notin panel.busy
    /\ \E q \in Quotes, v \in {"accepted", "declined"} :
        /\ props.quotes[q] = "proposed"
        /\ Start([Run("quote", v) EXCEPT !.arg = <<q, v>>], Flagged("quote"))

handleSendWaiver ==
    /\ PerTrip /\ ~ ReadOnly /\ ~ Busy /\ ~ Signed
    /\ Preference \/ Declined \/ Pending \/ panel.status.link = "expired"
    /\ Begin("send", "none")

handleNavigateToQuotedInsurance == (Preference \/ Declined) /\ ~ Busy /\ CloseTask

handleCompleteTask ==
    /\ ~ ReadOnly /\ ~ Busy /\ panel.status # NoStatus /\ panel.status.can
    /\ \/ AnnualCompletes /\ Begin("complete", "annual")
       \/ TripCompletes /\ Begin("complete", "trip")

-----------------------------------------------------------------------------
(* Handlers go on *)

\* What the kind's own request does to the server.
Applied(run) ==
    CASE run.kind = "update" -> [srv EXCEPT !.annual = "valid", !.tracking = "annual"]
      [] run.kind = "clear"  -> [srv EXCEPT !.annual = "none", !.tracking = "pending"]
      [] run.kind = "client" -> [srv EXCEPT !.annual = run.arg]
      [] run.kind = "quote"  -> [srv EXCEPT !.quotes[run.arg[1]] = run.arg[2]]
      [] run.kind = "send"   -> [srv EXCEPT !.link = "pending"]
      [] OTHER               -> [srv EXCEPT !.task = "Done",
                                            !.by = IF @ = "nobody" THEN run.arg ELSE @]

\* Annual insurance cannot be updated or cleared where there is none, and a signed
\* waiver is not sent again.
Accepts(run) ==
    /\ run.kind \in {"update", "clear"} => srv.annual # "none"
    /\ run.kind = "send" => srv.tracking # "waiver"

Showing(p, s) == [p EXCEPT !.status = s, !.draft = "kept"]

\* Variant: the check counts as confirmed with the first answer of the handler.
AnsweredChecked(run, s, p) ==
    CASE run.kind \in {"update", "clear"} -> [Showing(p, Status(s)) EXCEPT !.checked = TRUE]
      [] run.kind = "client" -> [p EXCEPT !.editor = FALSE]
      [] OTHER -> p

\* What the handler does with the answer.
Answered(run, s, p) ==
    CASE run.kind \in {"update", "clear"} -> Showing(p, Status(s))
      [] run.kind = "client" -> [p EXCEPT !.editor = FALSE]
      [] OTHER -> p

\* Variant: the catch path leaves the flag on.
ReleasedOnce(run, p) ==
    IF run.todo = <<>> THEN [p EXCEPT !.busy = @ \ {run.kind}] ELSE p

\* The finally of the handler, after its last call and after a failure.
Released(run, p) == [p EXCEPT !.busy = @ \ {run.kind}]

\* A completed task closes the modal; the panel that is gone hears nothing.
Ended(r, run, p) ==
    IF run.heard /\ run.kind = "complete" /\ run.todo = <<>>
      THEN /\ panel' = Closed
           /\ runs' = [q \in Runs |-> IF q = r \/ runs[q] = Idle THEN Idle
                                      ELSE [runs[q] EXCEPT !.heard = FALSE]]
      ELSE /\ panel' = IF run.heard THEN Released(run, p) ELSE p
           /\ runs' = [runs EXCEPT ![r] = Idle]

\* The handler goes on with what it has left to do; a status is fetched aloud.
Advance(r, p) ==
    LET run == [runs[r] EXCEPT !.todo = Tail(@), !.snap = Unread]
    IN  IF run.todo = <<>> THEN Ended(r, run, p)
        ELSE /\ runs' = [runs EXCEPT ![r] = run]
             /\ panel' = IF run.heard /\ Head(run.todo) = "status"
                           THEN [p EXCEPT !.loading = TRUE] ELSE p

At(r, step) == runs[r] # Idle /\ Head(runs[r].todo) = step
Heard(r, p) == IF runs[r].heard THEN p ELSE panel

\* A request is refused, or fails, or its answer is lost.
Failed(r, s) ==
    /\ srv' \in {srv, s}
    /\ Ended(r, runs[r], panel)
    /\ UNCHANGED props

OwnCall(r) ==
    /\ At(r, "call")
    /\ \/ /\ Accepts(runs[r]) /\ srv' = Applied(runs[r])
          /\ Advance(r, Heard(r, Answered(runs[r], Applied(runs[r]), panel)))
          /\ UNCHANGED props
       \/ Failed(r, IF Accepts(runs[r]) THEN Applied(runs[r]) ELSE srv)

ResultCall(r) ==
    /\ At(r, "result")
    /\ \/ /\ srv' = [srv EXCEPT !.checked = TRUE]
          /\ Advance(r, Heard(r, [panel EXCEPT !.checked = TRUE]))
          /\ UNCHANGED props
       \/ Failed(r, [srv EXCEPT !.checked = TRUE])

\* Both reads are answered with what was true when the server read.  A failed one is
\* a message at most, and the handler goes on.
Read(r) ==
    /\ At(r, "status") \/ At(r, "reload")
    /\ runs[r].snap = Unread
    /\ runs' = [runs EXCEPT ![r].snap = IF At(r, "status") THEN Status(srv) ELSE Request(srv)]
    /\ srv' = IF At(r, "status") THEN Swept(srv) ELSE srv
    /\ UNCHANGED <<props, panel>>

Quiet(run, p) == IF run.kind = "poll" THEN p ELSE [p EXCEPT !.loading = FALSE]

StatusShown(r) ==
    /\ At(r, "status")
    /\ \/ /\ runs[r].snap # Unread
          /\ Advance(r, Heard(r, Quiet(runs[r], Showing(panel, runs[r].snap))))
       \/ Advance(r, Heard(r, Quiet(runs[r], panel)))
    /\ UNCHANGED <<srv, props>>

\* The workspace takes the request also when the panel is gone; an open panel takes
\* the recorded check from it.
ReloadShown(r) ==
    /\ At(r, "reload")
    /\ \/ /\ runs[r].snap # Unread /\ props' = runs[r].snap
          /\ Advance(r, [panel EXCEPT !.checked = IF panel.open THEN props'.checked ELSE @])
       \/ UNCHANGED props /\ Advance(r, panel)
    /\ UNCHANGED srv

-----------------------------------------------------------------------------
(* The client, the clock and other agents *)

\* The client opens the link and signs.
record_waiver_signature ==
    /\ srv.link = "pending"
    /\ srv' = [srv EXCEPT !.link = "completed", !.tracking = "waiver"]
    /\ UNCHANGED <<props, panel, runs>>

LinkLapses ==
    /\ srv.link = "pending" /\ srv' = [srv EXCEPT !.link = "lapsed"]
    /\ UNCHANGED <<props, panel, runs>>

\* Another agent adds a quote.
Elsewhere ==
    /\ \E q \in Quotes : srv.quotes[q] = "absent" /\ srv' = [srv EXCEPT !.quotes[q] = "proposed"]
    /\ UNCHANGED <<props, panel, runs>>

Init ==
    /\ srv \in [annual : {"none", "expired", "valid"},
                quotes : [Quotes -> {"absent", "proposed"}], tracking : {"pending"},
                link : {"none"}, checked : {FALSE}, task : {"Open"}, by : {"nobody"}]
    /\ props = Request(srv) /\ panel = Closed
    /\ runs = [r \in Runs |-> Idle]

Agent ==
    \/ OpenTask \/ CloseTask \/ Poll \/ handleConfirmAnnualCheck \/ AddAnnualInsurance
    \/ LeaveEditor \/ SaveClient \/ EditAnnual \/ handleUpdateAnnual
    \/ handleRemoveAnnualInsurance \/ handleQuoteStatusChange \/ handleSendWaiver
    \/ handleNavigateToQuotedInsurance \/ handleCompleteTask

Next ==
    \/ Agent \/ record_waiver_signature \/ LinkLapses \/ Elsewhere
    \/ \E r \in Runs : OwnCall(r) \/ ResultCall(r) \/ Read(r) \/ StatusShown(r) \/ ReloadShown(r)

Spec == Init /\ [][Next]_vars

-----------------------------------------------------------------------------
(* Properties *)

\* The panel is past the question for annual insurance only when the answer is on
\* record, and a task that was completed with per-trip insurance has it on record:
\* whatever failed in between, and whatever stale request or status was shown.
CheckIsOnRecord == panel.checked \/ srv.by = "trip" => srv.checked

\* A flag of the panel is on only while a handler that will take it off is running.
FlagsHaveCause ==
    LET heard == {r \in Runs : runs[r] # Idle /\ runs[r].heard}
    IN  /\ \A f \in panel.busy : \E r \in heard : runs[r].kind = f
        /\ panel.loading => \E r \in heard : At(r, "status") /\ runs[r].kind # "poll"
=============================================================================
