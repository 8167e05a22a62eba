-------------------------------- MODULE Lists --------------------------------
(***************************************************************************)
(* The lists of the client that are searched, filtered and paged: the      *)
(* dashboard, the client registry, closed requests, the reports, the       *)
(* pickers and search fields, the histories and the yearly key metrics.    *)
(*                                                                         *)
(* Every one asks the server when what it depends on changes, and has its  *)
(* own way with answers that come late: the dashboard numbers its calls,   *)
(* pickers cancel theirs, the key metrics lock their menu, and the others  *)
(* show whatever arrives.                                                  *)
(***************************************************************************)
EXTENDS Naturals, FiniteSets

CONSTANTS
    NQueries,  \* things to ask for; 0 is the empty search
    MaxRows,   \* pages of the longest answer
    NCalls     \* calls in flight at once

VARIABLES
    rows,   \* pages the server has for each query
    view,   \* the list on screen
    calls   \* the calls in flight

vars == <<rows, view, calls>>

Queries == 0 .. NQueries
Calls == 1 .. NCalls

(***************************************************************************)
(* The habits of a list                                                    *)
(*  guard  what tells a late answer: "sequence", "cancelled" or "none"     *)
(*  delay  the query is the text that was left alone for 250 or 300 ms     *)
(*  pages  it has pages; clamps: and goes back to the last one             *)
(*  blank  an empty query "asks" for everything, or "clears" the list      *)
(*  opens  it is a dialog                                                  *)
(*  locks  its input is disabled while it loads                            *)
(*  caches it keeps every answer, and falls back to the first one          *)
(*  fails  a failure "keeps" the rows or "clears" them                     *)
(***************************************************************************)
List ==
    [guard |-> "none", delay |-> TRUE, pages |-> TRUE, clamps |-> TRUE, blank |-> "asks",
     opens |-> FALSE, locks |-> FALSE, caches |-> FALSE, fails |-> "keeps"]

Dashboard == [List EXCEPT !.guard = "sequence"]
ClientsList == List
ClosedRequests == List

FinancialReport == [List EXCEPT !.delay = FALSE, !.clamps = FALSE, !.fails = "clears"]
DiagnosticReport == FinancialReport

GroupPicker ==
    [List EXCEPT !.guard = "cancelled", !.pages = FALSE, !.clamps = FALSE, !.opens = TRUE,
                 !.fails = "clears"]

PassengerSearch == [GroupPicker EXCEPT !.blank = "clears"]
ClientSearch == [PassengerSearch EXCEPT !.opens = FALSE]

ChangeHistory == [ClientSearch EXCEPT !.delay = FALSE]

LedgerDialog == [PassengerSearch EXCEPT !.guard = "none", !.delay = FALSE]

\* Questions to the copilot: the query is the last question that was put.
Copilot ==
    [List EXCEPT !.delay = FALSE, !.pages = FALSE, !.clamps = FALSE, !.locks = TRUE,
                 !.blank = "clears"]

KeyMetrics == [Copilot EXCEPT !.blank = "asks", !.caches = TRUE]

Kinds ==
    {"dashboard", "clients", "closed", "financial", "diagnostic", "groups", "passengers", "client", "history", "ledger", "copilot", "metrics"}

HabitsOf(kind) ==
    CASE kind = "dashboard" -> Dashboard
      [] kind = "clients" -> ClientsList
      [] kind = "closed" -> ClosedRequests
      [] kind = "financial" -> FinancialReport
      [] kind = "diagnostic" -> DiagnosticReport
      [] kind = "groups" -> GroupPicker
      [] kind = "passengers" -> PassengerSearch
      [] kind = "client" -> ClientSearch
      [] kind = "history" -> ChangeHistory
      [] kind = "ledger" -> LedgerDialog
      [] kind = "copilot" -> Copilot
      [] kind = "metrics" -> KeyMetrics

Habits == HabitsOf(view.kind)

\* A search field asks for its text itself; a list for what the text was when
\* the agent last paused.
Searches == Habits.delay /\ Habits.blank = "clears"

-----------------------------------------------------------------------------
Idle == [kind |-> "idle"]
Nothing == [q |-> 0, page |-> 0, n |-> 0, ok |-> TRUE]

Answers == [q : Queries, page : 0 .. MaxRows, n : 0 .. MaxRows, ok : BOOLEAN]

TypeOK ==
    /\ rows \in [Queries -> 0 .. MaxRows]
    /\ view.kind \in Kinds
    /\ {view.open, view.timer, view.loading, view.error} \subseteq BOOLEAN
    /\ {view.input, view.query} \subseteq Queries /\ view.page \in 1 .. MaxRows
    /\ view.shown \in Answers /\ view.cached \subseteq Queries
    /\ \A r \in Calls : calls[r] # Idle =>
          calls[r] \in [kind : {"load", "reopen", "export"}, q : Queries,
                        page : 1 .. MaxRows, own : BOOLEAN]

Free == {r \in Calls : calls[r] = Idle}

\* A guarded list is deaf to the calls it began before.
Cancelled ==
    [r \in Calls |-> IF calls[r].kind = "load" /\ Habits.guard # "none"
                       THEN [calls[r] EXCEPT !.own = FALSE] ELSE calls[r]]

Call(kind, v) == [kind |-> kind, q |-> v.query, page |-> v.page, own |-> TRUE]

Loads(v) == [v EXCEPT !.loading = TRUE, !.error = FALSE]

\* The load effect, for what v depends on by now.
Ask(v) ==
    \E r \in Free : /\ \A q \in Free : r <= q
                    /\ calls' = [Cancelled EXCEPT ![r] = Call("load", v)]
                    /\ view' = Loads(v)

\* An emptied search field has no results, no error and no spinner.
Cleared(v) ==
    [v EXCEPT !.timer = FALSE, !.error = FALSE, !.loading = FALSE, !.shown = Nothing]

-----------------------------------------------------------------------------
(* The agent *)

Answered(v, i) == [v EXCEPT !.shown = [q |-> i, page |-> v.page, n |-> 1, ok |-> TRUE]]

\* Text in a search field, a filter of a report, a year of the key metrics, the
\* request of a history.  What is cached is shown at once.
Type(i) ==
    /\ view.open /\ i # view.input /\ view.kind # "ledger"
    /\ Habits.locks => ~ view.loading
    /\ view.kind = "copilot" => i # 0
    /\ LET v == [view EXCEPT !.input = i]
           asked == [v EXCEPT !.query = i, !.page = 1]
           emptied == i = 0 /\ Habits.blank = "clears"
       IN  \/ emptied /\ view' = Cleared(asked) /\ calls' = Cancelled
           \/ ~ emptied /\ Searches /\ view' = [asked EXCEPT !.timer = TRUE] /\ calls' = Cancelled
           \/ ~ emptied /\ Habits.delay /\ ~ Searches
              /\ view' = [v EXCEPT !.timer = TRUE] /\ UNCHANGED calls
           \/ ~ emptied /\ ~ Habits.delay /\ i \in view.cached
              /\ view' = Answered(asked, i) /\ UNCHANGED calls
           \/ ~ emptied /\ ~ Habits.delay /\ i \notin view.cached /\ Ask(asked)
    /\ UNCHANGED rows

TimerFires ==
    /\ view.timer
    /\ LET v == [view EXCEPT !.timer = FALSE]
           asked == [v EXCEPT !.query = view.input, !.page = 1]
       IN  IF Searches \/ asked.query # v.query \/ asked.page # v.page
             THEN Ask(asked) ELSE view' = v /\ UNCHANGED calls
    /\ UNCHANGED rows

TurnPage(p) ==
    /\ Habits.pages /\ ~ view.loading
    /\ \/ p = view.page + 1 /\ p <= view.shown.n
       \/ p = view.page - 1 /\ p >= 1
    /\ Ask([view EXCEPT !.page = p])
    /\ UNCHANGED rows

\* After a change made on the page itself: a status, a dialog, an import.  The same
\* question can be put to the copilot again.
Refresh ==
    /\ \/ view.kind \in {"dashboard", "clients"}
       \/ view.kind = "copilot" /\ view.query # 0 /\ ~ view.loading
    /\ Ask(view)
    /\ UNCHANGED rows

Begin(kind, v) ==
    /\ \A r \in Calls : calls[r].kind # kind
    /\ \E r \in Free : (\A q \in Free : r <= q) /\ calls' = [calls EXCEPT ![r] = Call(kind, v)]

Reopen ==
    /\ view.kind = "closed" /\ ~ view.loading /\ view.shown.n > 0
    /\ Begin("reopen", view) /\ view' = [view EXCEPT !.error = FALSE]
    /\ UNCHANGED rows

Export ==
    /\ view.kind \in {"financial", "diagnostic"}
    /\ Begin("export", [view EXCEPT !.page = 1]) /\ view' = [view EXCEPT !.error = FALSE]
    /\ UNCHANGED rows

\* The group picker asks for everything when it opens; the ledger for its group.
Open ==
    /\ Habits.opens /\ ~ view.open
    /\ LET v == [view EXCEPT !.open = TRUE]
       IN  \/ view.kind = "ledger" /\ \E i \in Queries \ {0} : Ask([v EXCEPT !.query = i])
           \/ view.kind # "ledger" /\ Searches /\ view' = v /\ UNCHANGED calls
           \/ view.kind # "ledger" /\ ~ Searches /\ Ask(v)
    /\ UNCHANGED rows

Close ==
    /\ Habits.opens /\ view.open
    /\ LET v == [view EXCEPT !.open = FALSE, !.input = 0, !.query = 0, !.timer = FALSE,
                             !.error = FALSE]
       IN  view' = IF Habits.blank = "clears" THEN Cleared(v) ELSE v
    /\ calls' = Cancelled
    /\ UNCHANGED rows

-----------------------------------------------------------------------------
(* Answers *)

\* Variant: whatever arrives is shown.
HeardAll(call) == TRUE

Heard(call) == call.own \/ Habits.guard = "none"

\* An answer that has fewer pages than were asked for moves the list back.
Clamped(v, call, n) ==
    IF Habits.clamps /\ n > 0 /\ call.page > n THEN [v EXCEPT !.page = n] ELSE v

Loaded(r) ==
    /\ calls[r].kind = "load"
    /\ LET call == calls[r]
           n == rows[call.q]
           answer == [q |-> call.q, page |-> call.page, n |-> n, ok |-> TRUE]
           v == [view EXCEPT !.shown = answer, !.loading = FALSE,
                             !.cached = IF Habits.caches THEN @ \cup {call.q} ELSE @]
           back == Clamped(v, call, n)
       IN  IF ~ Heard(call) THEN calls' = [calls EXCEPT ![r] = Idle] /\ UNCHANGED view
           ELSE IF back.page = view.page
             THEN calls' = [calls EXCEPT ![r] = Idle] /\ view' = v
             ELSE calls' = [Cancelled EXCEPT ![r] = Call("load", back)] /\ view' = Loads(back)
    /\ UNCHANGED rows

\* The key metrics go back to the current year.
LoadFailed(r) ==
    /\ calls[r].kind = "load"
    /\ LET call == calls[r]
           v == [view EXCEPT !.loading = FALSE, !.error = TRUE]
           emptied == [q |-> call.q, page |-> call.page, n |-> 0, ok |-> FALSE]
       IN  \/ ~ Heard(call) /\ view' = view
           \/ Heard(call) /\ Habits.caches
              /\ view' = [Answered([v EXCEPT !.input = 0, !.query = 0], 0) EXCEPT !.error = FALSE]
           \/ Heard(call) /\ ~ Habits.caches
              /\ view' = IF Habits.fails = "clears" THEN [v EXCEPT !.shown = emptied] ELSE v
    /\ calls' = [calls EXCEPT ![r] = Idle]
    /\ UNCHANGED rows

\* The list is reloaded with the query and the page the handler began with.
Reopened(r) ==
    /\ calls[r].kind = "reopen"
    /\ \/ /\ rows[calls[r].q] > 0
          /\ rows' = [rows EXCEPT ![calls[r].q] = @ - 1]
          /\ calls' = [calls EXCEPT ![r].kind = "load"]
          /\ view' = Loads(view)
       \/ /\ calls' = [calls EXCEPT ![r] = Idle]
          /\ view' = [view EXCEPT !.error = TRUE]
          /\ UNCHANGED rows

\* Page after page of one filter, up to the last one the server tells of.
Exported(r) ==
    /\ calls[r].kind = "export"
    /\ LET call == calls[r]
       IN  \/ /\ calls' = [calls EXCEPT ![r] = IF call.page < rows[call.q]
                                                 THEN [call EXCEPT !.page = @ + 1] ELSE Idle]
              /\ UNCHANGED view
           \/ /\ calls' = [calls EXCEPT ![r] = Idle]
              /\ view' = [view EXCEPT !.error = TRUE]
    /\ UNCHANGED rows

Elsewhere ==
    /\ \E i \in Queries, n \in 0 .. MaxRows : n # rows[i] /\ rows' = [rows EXCEPT ![i] = n]
    /\ UNCHANGED <<view, calls>>

-----------------------------------------------------------------------------
\* A list that is not a dialog asks when it is mounted; a search field is empty.  The
\* two reports have the same habits: one of them is studied.
Init ==
    /\ rows \in [Queries -> {0, MaxRows}]
    /\ \E k \in Kinds \ {"diagnostic"} :
        LET h == HabitsOf(k)
            asks == ~ h.opens /\ h.blank = "asks" /\ ~ h.caches
            v == [kind |-> k, open |-> ~ h.opens, input |-> 0, query |-> 0, page |-> 1,
                  timer |-> FALSE, loading |-> asks, error |-> FALSE, shown |-> Nothing,
                  cached |-> {}]
        IN  /\ view = IF h.caches THEN [Answered(v, 0) EXCEPT !.cached = {0}] ELSE v
            /\ calls = [r \in Calls |-> IF asks /\ r = 1 THEN Call("load", v) ELSE Idle]

Agent ==
    \/ \E i \in Queries : Type(i)
    \/ \E p \in 1 .. MaxRows : TurnPage(p)
    \/ Refresh \/ Reopen \/ Export \/ Open \/ Close

Answer(r) == Loaded(r) \/ LoadFailed(r) \/ Reopened(r) \/ Exported(r)

Next == Agent \/ TimerFires \/ Elsewhere \/ \E r \in Calls : Answer(r)

Spec == Init /\ [][Next]_vars

-----------------------------------------------------------------------------
(* Properties *)

Guarded == Habits.guard # "none" \/ Habits.locks
Settled == view.open /\ ~ view.loading /\ ~ view.timer /\ ~ view.error

\* A list that guards its calls, once nothing is pending and nothing failed, shows
\* the answer to exactly the query and the page its controls show.
ShownIsAsked ==
    Guarded /\ Settled /\ (view.query # 0 \/ Habits.blank = "asks")
        => view.shown.q = view.query /\ (Habits.pages => view.shown.page = view.page)

\* A spinner always has an end in sight: a call whose answer will be heard, or the
\* timer that starts one.
SpinnerHasCause ==
    view.open /\ view.loading
        => view.timer \/ \E r \in Calls : calls[r].kind = "load" /\ Heard(calls[r])

\* The dashboard never rests on a page beyond the last one it was told of.
PageInRange ==
    view.kind = "dashboard" /\ Settled /\ view.shown.n > 0 => view.page <= view.shown.n

SaysNoMatch ==
    /\ view.input # 0 /\ ~ view.loading /\ view.shown.q = view.input
    /\ ~ view.error /\ view.shown.n = 0

\* "No matching clients found." is said only when the server found none for the
\* text in the field: not after a failure, not for another text.
NoMatchIsTrue == view.kind \in {"passengers", "client"} /\ SaysNoMatch => view.shown.ok
=============================================================================
