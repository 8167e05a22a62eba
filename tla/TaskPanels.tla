----------------------------- MODULE TaskPanels -----------------------------
(***************************************************************************)
(* The task panels of the client that save several records and then mark   *)
(* their task Done: passenger details, addresses, cabin holds, payment,    *)
(* client response and CRM entry, in the task modal of WorkflowsSection.   *)
(*                                                                         *)
(* A save is an asynchronous chain of calls: each record in turn, the      *)
(* follow-up task, the task itself, the close of the request, a silent     *)
(* reload, and the close of the modal.  The first call that fails ends the *)
(* chain.  The modal can be dismissed while a chain runs, and the panel    *)
(* mounted again knows nothing of it, so chains of one task overlap.       *)
(***************************************************************************)
EXTENDS Naturals, FiniteSets

CONSTANTS
    NItems,   \* records a panel may show (item 1 is the primary passenger)
    NRuns,    \* chains that may be in flight at once
    Single    \* panels that are studied with one chain at a time

ASSUME NItemsAssumption == NItems \in Nat \ {0}
ASSUME NRunsAssumption == NRuns \in Nat \ {0}

VARIABLES
    srv,    \* what the server stores of the request
    props,  \* the request the workspace loaded last
    ui,     \* the state of the panel, its modal and the section around it
    runs    \* the chains in flight

vars == <<srv, props, ui, runs>>

Items == 1 .. NItems
Runs == 1 .. NRuns

(***************************************************************************)
(* What a panel distinguishes in a record.  A payment draft is "deposited" *)
(* when every row of the cruise is ticked; the CRM checklist is ticked as  *)
(* a whole.                                                                *)
(***************************************************************************)
Values ==
    [verify    |-> {"undated", "dated"},
     addresses |-> {"none", "home"},
     holds     |-> {"unheld", "held"},
     payment   |-> {"unheld", "held", "deposited"},
     response  |-> {"proposed", "rejected", "accepted"},
     crm       |-> {"proposed", "accepted"}]

Unset ==
    [verify |-> "undated", addresses |-> "none", holds |-> "unheld",
     payment |-> "unheld", response |-> "proposed", crm |-> "proposed"]

Panels == DOMAIN Values

(***************************************************************************)
(* The request, as the server has it and as the workspace last saw it.     *)
(*   in      the records that exist                                        *)
(*   result  the task has a stored result (ticks of payment and CRM)       *)
(*   covered the records the save that completed the task had on screen    *)
(***************************************************************************)
Requests ==
    [in : SUBSET Items, val : [Items -> UNION {Values[p] : p \in Panels}],
     task : {"Open", "Done"}, follow : {"Open", "Done"}, result : BOOLEAN,
     status : {"Open", "Closed"}, covered : SUBSET Items]

\* "close_unexplained": closing is chosen, its reason is not picked yet.
Outcomes == {"new_research", "close_unexplained", "close_request"}

Idle == [at |-> "idle"]

(***************************************************************************)
(* A chain in flight, with the work it still has to do: an upload, records *)
(* (with the values captured when it began), the follow-up task, a status  *)
(* of the task, the close of the request, a reload, a snapshot to show.    *)
(*   shown  the records on screen when a save began                        *)
(*   hears  who is left to hear of its end: the panel that began it, the   *)
(*          section behind it, or nobody                                   *)
(***************************************************************************)
Kinds == {"save", "side", "reopen", "reload"}

NoValues == [i \in Items |-> "sent"]
NoSnap == [in |-> {}]

RunSet ==
    [kind : Kinds, upload : BOOLEAN, left : SUBSET Items, shown : SUBSET Items,
     val : {NoValues} \cup [Items -> UNION {Values[p] : p \in Panels}],
     follow : BOOLEAN, task : {"None", "Open", "Done"}, close : BOOLEAN,
     hears : {"panel", "section", "none"}, snap : {NoSnap} \cup Requests]

TypeOK ==
    /\ srv \in Requests
    /\ props \in Requests
    /\ ui.panel \in Panels /\ ui.open \in BOOLEAN /\ ui.busy \in BOOLEAN
    /\ \A i \in Items : ui.draft[i] \in Values[ui.panel]
    /\ ui.ticked \in BOOLEAN /\ ui.saving \in BOOLEAN
    /\ ui.side \in {"no", "sending", "yes"} /\ ui.outcome \in Outcomes
    /\ \A r \in Runs : runs[r] # Idle => runs[r] \in RunSet

-----------------------------------------------------------------------------
(* What a panel shows and where its local state comes from *)

\* The records of a panel: only undecided cruises await a response, only
\* accepted ones a payment (a deposited cruise is done with).
Shown(p, s) ==
    CASE p = "payment"  -> {i \in s.in : s.val[i] # "deposited"}
      [] p = "response" -> {i \in s.in : s.val[i] = "proposed"}
      [] p = "crm"      -> {i \in s.in : s.val[i] = "accepted"}
      [] OTHER          -> s.in

\* The local draft of a panel that is mounted on s.
Fresh(p, s) ==
    [i \in Items |->
        CASE p = "payment" -> IF s.result THEN "deposited" ELSE "unheld"
          [] p = "response" -> "proposed"
          [] OTHER -> s.val[i]]

\* Opening the modal mounts the panel.  busy is the panel's own flag; saving
\* belongs to the section; side is the panel's second activity: the upload of
\* the response panel, the acceptance of a cruise in the CRM panel.
Mounted(p, s) ==
    [panel |-> p, open |-> TRUE, busy |-> FALSE, draft |-> Fresh(p, s),
     ticked |-> IF p = "response" THEN s.follow = "Open" ELSE s.result,
     side |-> "no", outcome |-> "new_research", saving |-> FALSE]

Shut(u) == [u EXCEPT !.open = FALSE, !.busy = FALSE, !.side = "no"]

\* A reload hands the panel new records: the effects that depend on them
\* replace the drafts.  Payment and CRM follow the stored task result only.
Reset(u, s) ==
    IF u.panel \in {"payment", "crm"} /\ ~ s.result
      THEN u
      ELSE [u EXCEPT !.draft = Fresh(u.panel, s),
                     !.ticked = IF u.panel # "crm" THEN @ ELSE s.result]

Reloaded(u, s) ==
    IF ~ u.open THEN u
    ELSE LET v == Reset(u, s)
         IN  IF u.panel = "response" /\ props.follow # s.follow
               THEN [v EXCEPT !.ticked = s.follow = "Open"] ELSE v

\* An error message re-renders the workspace.  The cabin hold panel gets its
\* cruises as a new array on every render, and resets its drafts.
\* The same message twice renders nothing.
Errored(u) ==
    IF u.open /\ u.panel = "holds"
      THEN {u, [u EXCEPT !.draft = Fresh("holds", props)]} ELSE {u}

Disabled == props.status = "Closed"
Editable == ui.open /\ ~ ui.busy /\ ~ Disabled /\ props.task = "Open"

-----------------------------------------------------------------------------
(* The checks a panel makes before it saves *)

VerifyReady == props.in # {} /\ \A i \in props.in : ui.draft[i] # "undated"

AddressesReady == 1 \in props.in /\ ui.draft[1] # "none"

HoldsReady == props.in # {} /\ \A i \in props.in : ui.draft[i] # "unheld"

PaymentReady ==
    LET due == Shown("payment", props)
    IN  due # {} /\ \A i \in due : props.val[i] = "held" /\ ui.draft[i] = "deposited"

Undecided == {i \in Shown("response", props) : ui.draft[i] = "proposed"}

AllRejected ==
    /\ Shown("response", props) # {}
    /\ \A i \in Shown("response", props) : ui.draft[i] = "rejected"

ResponseReady ==
    /\ Shown("response", props) # {} /\ Undecided = {}
    /\ AllRejected => \/ ui.outcome = "new_research" /\ ui.side = "yes"
                      \/ ui.outcome = "close_request"

CrmReady == ui.ticked /\ Shown("crm", props) # {}

-----------------------------------------------------------------------------
(* Chains *)

Free == {r \in Runs : runs[r] = Idle}

\* A chain as its handler starts it: nothing to do but reload.
Chain(kind) ==
    [kind |-> kind, upload |-> FALSE, left |-> {}, shown |-> {}, val |-> NoValues,
     follow |-> FALSE, task |-> "None", close |-> FALSE,
     hears |-> IF kind \in {"save", "side"} THEN "panel" ELSE "section",
     snap |-> NoSnap]

Begin(run) ==
    \E r \in Free :
        /\ ui.panel \in Single => Free = Runs
        /\ \A q \in Free : r <= q
        /\ runs' = [runs EXCEPT ![r] = run]

Start(run) == Begin(run) /\ ui' = [ui EXCEPT !.busy = TRUE] /\ UNCHANGED <<srv, props>>

Invalid == ui' \in Errored(ui) /\ UNCHANGED <<srv, props, runs>>

\* Only records whose draft differs from what the workspace loaded are sent.
Changed == {i \in props.in : ui.draft[i] # props.val[i]}

Saving(left, shown) ==
    [Chain("save") EXCEPT !.left = left, !.shown = shown, !.task = "Done",
                          !.val = IF left = {} THEN NoValues ELSE ui.draft]

SaveVerify ==
    /\ ui.panel = "verify" /\ Editable /\ props.in # {}
    /\ \/ VerifyReady /\ Start(Saving(Changed, props.in))
       \/ ~ VerifyReady /\ Invalid

SaveAddresses ==
    /\ ui.panel = "addresses" /\ Editable /\ 1 \in props.in
    /\ \/ AddressesReady /\ Start(Saving(Changed, props.in))
       \/ ~ AddressesReady /\ Invalid

SaveHolds ==
    /\ ui.panel = "holds" /\ Editable /\ props.in # {}
    /\ \/ HoldsReady /\ Start(Saving(props.in, props.in))
       \/ ~ HoldsReady /\ Invalid

SavePayment ==
    /\ ui.panel = "payment" /\ Editable /\ PaymentReady
    /\ Start(Saving(Shown("payment", props), Shown("payment", props)))

SaveCrm ==
    /\ ui.panel = "crm" /\ Editable /\ CrmReady
    /\ Start(Saving({}, {}))

\* The decisions, then the tasks that the workspace saw open, then the close.
SaveResponse ==
    /\ ui.panel = "response" /\ Editable /\ ui.side # "sending"
    /\ Shown("response", props) # {} /\ Undecided = {}
    /\ \/ /\ ResponseReady
          /\ Start([Saving(Shown("response", props), Shown("response", props))
                     EXCEPT !.follow = ui.ticked /\ props.follow = "Open",
                            !.close = AllRejected /\ ui.outcome = "close_request"])
       \/ ~ ResponseReady /\ Invalid

\* Every cruise was decided elsewhere: the panel only completes the tasks.
MarkRecorded ==
    /\ ui.panel = "response" /\ Editable
    /\ Shown("response", props) = {} /\ props.in # {}
    /\ Start([Saving({}, props.in)
               EXCEPT !.follow = ui.ticked /\ props.follow = "Open"])

\* "Reopen task" belongs to the section: it survives the modal.
ReopenTask ==
    /\ ui.open /\ ~ ui.saving /\ ~ Disabled /\ props.task = "Done"
    /\ Begin([Chain("reopen") EXCEPT !.task = "Open"])
    /\ ui' = [ui EXCEPT !.saving = TRUE]
    /\ UNCHANGED <<srv, props>>

Aside(run) ==
    Begin(run) /\ ui' = [ui EXCEPT !.side = "sending"] /\ UNCHANGED <<srv, props>>

\* A cruise is accepted from inside the CRM panel.
AcceptHere ==
    /\ ui.panel = "crm" /\ Editable /\ ui.side # "sending"
    /\ \E i \in props.in :
        /\ props.val[i] = "proposed"
        /\ Aside([Chain("side") EXCEPT !.left = {i},
                                       !.val = [ui.draft EXCEPT ![i] = "accepted"]])

\* The response panel uploads new research, and reloads the request.
UploadResearch ==
    /\ ui.panel = "response" /\ Editable /\ AllRejected /\ ui.side # "sending"
    /\ ui.outcome = "new_research"
    /\ Aside([Chain("side") EXCEPT !.upload = TRUE])

\* Other parts of the workspace reload the request silently.
ReloadElsewhere ==
    /\ Begin(Chain("reload"))
    /\ UNCHANGED <<srv, props, ui>>

-----------------------------------------------------------------------------
(* The steps of a chain *)

Running(r) == runs[r] # Idle
Sends(r) == runs[r].upload \/ runs[r].left # {} \/ runs[r].follow \/ runs[r].task # "None"

Advance(r, run) == runs' = [runs EXCEPT ![r] = run]

\* The finally of the handler, where it is still heard.
Released(run, u) ==
    CASE run.hears = "none" -> u
      [] run.hears = "panel" /\ run.kind = "save" -> [u EXCEPT !.busy = FALSE]
      [] run.hears = "panel" /\ run.kind = "side" ->
            [u EXCEPT !.side = IF @ = "sending" THEN "no" ELSE @]
      [] run.hears # "none" /\ run.kind = "reopen" -> [u EXCEPT !.saving = FALSE]
      [] OTHER -> u

\* The catch of the handler: nothing after the failed call runs.  The call may
\* have reached the server all the same.
Failed(r, applied) ==
    /\ srv' \in {srv, applied}
    /\ runs' = [runs EXCEPT ![r] = Idle]
    /\ IF runs[r].hears = "none" THEN UNCHANGED ui
       ELSE ui' \in Errored(Released(runs[r], ui))
    /\ UNCHANGED props

\* One call of the chain: answered, after which the chain goes on, or failed.
Call(r, applied, run) ==
    \/ srv' = applied /\ Advance(r, run) /\ UNCHANGED <<props, ui>>
    \/ Failed(r, applied)

Uploaded(r) ==
    /\ Running(r) /\ runs[r].upload
    /\ \/ /\ ui' = IF runs[r].hears = "panel" THEN [ui EXCEPT !.side = "yes"] ELSE ui
          /\ Advance(r, [runs[r] EXCEPT !.upload = FALSE])
          /\ UNCHANGED <<srv, props>>
       \/ Failed(r, srv)

PutItem(r) ==
    /\ Running(r) /\ runs[r].left # {}
    /\ LET run == runs[r]
           i == CHOOSE x \in run.left : \A y \in run.left : x <= y
       IN  Call(r, [srv EXCEPT !.val[i] = run.val[i]],
                [run EXCEPT !.left = @ \ {i},
                            !.val = IF run.left = {i} THEN NoValues ELSE @])

FollowUpDone(r) ==
    /\ Running(r) /\ runs[r].left = {} /\ runs[r].follow
    /\ Call(r, [srv EXCEPT !.follow = "Done"], [runs[r] EXCEPT !.follow = FALSE])

\* Variant: the name of the handler is stored where the status belongs.
TaskStoredKind(run) == [srv EXCEPT !.task = run.kind, !.covered = run.shown]

\* Ghost: the save that completes the task leaves the records it had on screen.
TaskStored(run) ==
    [srv EXCEPT !.task = run.task, !.covered = run.shown,
                !.result = @ \/ (ui.panel \in {"payment", "crm"} /\ run.task = "Done")]

\* Variant: the records are sent, but not awaited.
TaskSetEarly(r) ==
    /\ Running(r) /\ runs[r].task # "None"
    /\ Call(r, TaskStored(runs[r]), [runs[r] EXCEPT !.task = "None", !.shown = {}])

TaskSet(r) ==
    /\ Running(r) /\ runs[r].left = {} /\ ~ runs[r].follow /\ runs[r].task # "None"
    /\ Call(r, TaskStored(runs[r]), [runs[r] EXCEPT !.task = "None", !.shown = {}])

\* The workspace catches its own error: the chain goes on either way.  When the
\* close succeeds the workspace is left for the dashboard; whoever comes back
\* loads the request again.
RequestClosed(r) ==
    /\ Running(r) /\ ~ Sends(r) /\ runs[r].close
    /\ LET closed == [srv EXCEPT !.status = "Closed"]
           done(q) == IF q = r THEN [runs[q] EXCEPT !.close = FALSE] ELSE runs[q]
       IN  \/ /\ srv' = closed
              /\ IF runs[r].hears = "none" THEN UNCHANGED <<props, ui>>
                 ELSE props' = closed /\ ui' = Shut(Mounted(ui.panel, closed))
              /\ runs' = [q \in Runs |-> IF runs[q] = Idle THEN Idle
                                         ELSE [done(q) EXCEPT !.hears = "none"]]
           \/ /\ srv' \in {srv, closed}
              /\ Advance(r, done(r))
              /\ UNCHANGED <<props, ui>>

\* A panel that is no longer mounted is not heard any more.
Deaf(run) ==
    IF run = Idle \/ run.hears = "none" THEN run ELSE [run EXCEPT !.hears = "section"]

\* The end of a chain.  onSaved closes the task modal, whatever it shows by now.
Finished(r, u) ==
    IF runs[r].kind = "save" /\ runs[r].hears # "none"
      THEN /\ ui' = Shut(u)
           /\ runs' = [q \in Runs |-> IF q = r THEN Idle ELSE Deaf(runs[q])]
      ELSE /\ ui' = Released(runs[r], u)
           /\ runs' = [runs EXCEPT ![r] = Idle]

\* A silent reload reads the request now and shows it later; its failure is a
\* message, and the handler that awaits it does not notice.
Load(r) ==
    /\ Running(r) /\ ~ Sends(r) /\ ~ runs[r].close /\ runs[r].snap = NoSnap
    /\ \/ Advance(r, [runs[r] EXCEPT !.snap = srv]) /\ UNCHANGED ui
       \/ Finished(r, ui)
    /\ UNCHANGED <<srv, props>>

Show(r) ==
    /\ Running(r) /\ runs[r].snap # NoSnap
    /\ IF runs[r].hears = "none" THEN Finished(r, ui) /\ UNCHANGED props
       ELSE /\ props' = runs[r].snap
            /\ Finished(r, Reloaded(ui, runs[r].snap))
    /\ UNCHANGED srv

-----------------------------------------------------------------------------
(* The agent *)

OpenTask ==
    /\ ~ ui.open /\ ui' = [Mounted(ui.panel, props) EXCEPT !.saving = ui.saving]
    /\ UNCHANGED <<srv, props, runs>>

\* The backdrop and "Close" are live while a panel saves.
CloseTask ==
    /\ ui.open /\ ui' = Shut(ui)
    /\ runs' = [q \in Runs |-> Deaf(runs[q])]
    /\ UNCHANGED <<srv, props>>

Edit ==
    /\ Editable /\ ui.panel \in {"verify", "addresses"}
    /\ \E i \in props.in, v \in Values[ui.panel] : ui' = [ui EXCEPT !.draft[i] = v]
    /\ UNCHANGED <<srv, props, runs>>

CopyPrimaryAddress ==
    /\ Editable /\ ui.panel = "addresses" /\ 1 \in props.in
    /\ \E i \in props.in \ {1} : ui' = [ui EXCEPT !.draft[i] = ui.draft[1]]
    /\ UNCHANGED <<srv, props, runs>>

\* Typing in one cabin keeps one number in every cabin of the cruise.
EditHold ==
    /\ Editable /\ ui.panel = "holds"
    /\ \E i \in props.in, v \in {"unheld", "held"} : ui' = [ui EXCEPT !.draft[i] = v]
    /\ UNCHANGED <<srv, props, runs>>

TickPayment ==
    /\ Editable /\ ui.panel = "payment"
    /\ \E i \in Shown("payment", props), v \in {"unheld", "deposited"} :
        props.val[i] = "held" /\ ui' = [ui EXCEPT !.draft[i] = v]
    /\ UNCHANGED <<srv, props, runs>>

Decide ==
    /\ Editable /\ ui.panel = "response"
    /\ \E i \in Shown("response", props), v \in {"rejected", "accepted"} :
        ui' = [ui EXCEPT !.draft[i] = v]
    /\ UNCHANGED <<srv, props, runs>>

ChooseOutcome ==
    /\ Editable /\ ui.panel = "response" /\ AllRejected
    /\ \E o \in Outcomes : ui' = [ui EXCEPT !.outcome = o]
    /\ UNCHANGED <<srv, props, runs>>

Tick ==
    /\ Editable /\ ui.panel \in {"crm", "response"}
    /\ ui.panel = "response" => props.follow = "Open"
    /\ ui' = [ui EXCEPT !.ticked = ~ @]
    /\ UNCHANGED <<srv, props, runs>>

(***************************************************************************)
(* Another agent, or another section of the workspace: records appear, and *)
(* are completed or decided.  Nobody blanks a record.                      *)
(***************************************************************************)
Elsewhere ==
    /\ \/ \E i \in Items \ srv.in : srv' = [srv EXCEPT !.in = @ \cup {i}]
       \/ \E i \in srv.in, v \in Values[ui.panel] \ {Unset[ui.panel]} :
            /\ srv.val[i] = Unset[ui.panel]
            /\ srv' = [srv EXCEPT !.val[i] = v]
    /\ UNCHANGED <<props, ui, runs>>

Init ==
    /\ \E p \in Panels, n \in 1 .. NItems :
        /\ \E v \in [Items -> Values[p]] :
            /\ \A i \in Items : i > n => v[i] = Unset[p]
            /\ srv = [in |-> 1 .. n, val |-> v, task |-> "Open", follow |-> "Open",
                      result |-> FALSE, status |-> "Open", covered |-> {}]
        /\ ui = Shut(Mounted(p, srv))
    /\ props = srv
    /\ runs = [r \in Runs |-> Idle]

Answer(r) ==
    \/ Uploaded(r) \/ PutItem(r) \/ FollowUpDone(r) \/ TaskSet(r)
    \/ RequestClosed(r) \/ Load(r) \/ Show(r)

Agent ==
    \/ OpenTask \/ CloseTask \/ Edit \/ CopyPrimaryAddress \/ EditHold \/ TickPayment
    \/ Decide \/ ChooseOutcome \/ Tick \/ UploadResearch
    \/ SaveVerify \/ SaveAddresses \/ SaveHolds \/ SavePayment \/ SaveResponse
    \/ MarkRecorded \/ SaveCrm \/ AcceptHere \/ ReopenTask \/ ReloadElsewhere

Next == Agent \/ Elsewhere \/ \E r \in Runs : Answer(r)

Spec == Init /\ [][Next]_vars

-----------------------------------------------------------------------------
(* Properties *)

\* What a completed task promises of a record that its save covered.
Settled(p, i, v) ==
    CASE p = "addresses" -> i = 1 => v # "none"
      [] p = "payment"   -> v = "deposited"
      [] p = "crm"       -> TRUE
      [] OTHER           -> v # Unset[p]

\* A task is Done only when every record that was on screen when the agent saved
\* is stored complete (dated, addressed, held, deposited, decided): through calls
\* that fail half-way, answers that are lost, retries on stale records, a modal
\* dismissed during a save and a second save that overlaps the first.
DoneIsStored == srv.task = "Done" => \A i \in srv.covered : Settled(ui.panel, i, srv.val[i])

\* A panel is busy exactly while a save of its own is in flight: no path of the
\* handler leaves it locked, and none lets it save twice at once.
BusyIsRunning ==
    LET own == {r \in Runs : Running(r) /\ runs[r].kind = "save" /\ runs[r].hears = "panel"}
    IN  ui.busy = (own # {}) /\ Cardinality(own) <= 1

\* Outside the cabin hold panel, what the agent typed in an open panel changes
\* only by typing or by a reload of the request: a refused or failed save keeps it.
KeepsTyped ==
    ui.open /\ ui'.open /\ ui.panel # "holds" /\ ui'.draft # ui.draft =>
        \/ Edit \/ CopyPrimaryAddress \/ TickPayment \/ Decide
        \/ \E r \in Runs : Running(r) /\ runs[r].snap # NoSnap /\ runs'[r] = Idle
=============================================================================
