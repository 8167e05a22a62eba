----------------------------- MODULE AgencyRollup -----------------------------
(***************************************************************************)
(* The per-agency dashboard rollup and report metadata cache, and the      *)
(* in-process queue that keeps them fresh                                  *)
(* (services/agency_rollup_service.py, agency_rollup_scheduler.py, and the *)
(* handlers that write what they summarise).                               *)
(*                                                                         *)
(* What a cached row summarises is a version number per column: data[a][c] *)
(* counts the committed writes to column c of agency a, and a cached row   *)
(* holds the versions its snapshot saw.  A transaction reads the snapshot  *)
(* of its first query; its UPDATE writes the columns it saw change, over   *)
(* whatever was committed meanwhile.  All threads share one process, whose *)
(* memory holds the queue.                                                 *)
(***************************************************************************)
EXTENDS Integers, FiniteSets

CONSTANTS
    Agencies,
    Handlers,   \* request threads
    Scheduler,  \* the agency-rollup-scheduler thread
    NoAgency,
    NoRow,      \* a cached row that was never inserted
    Unread,     \* a transaction without a snapshot
    Fresh,      \* agencies that start without cached rows
    Writes,     \* the writes the handlers make: column and what follows the commit
    MaxWrites,  \* bound on the writes to one column
    MaxFaults   \* bound on database errors and restarts

Tables == {"dashboard", "metadata"}

Columns == {"requests", "cruises", "campaigns", "team"}

Summarised(t) == IF t = "metadata" THEN {"team"} ELSE Columns \ {"team"}

\* Creating, updating or reopening a request and changing a team member queue a
\* refresh; so does a cruise that becomes Accepted, Deposited or Rejected, and no
\* other cruise status; a campaign handler refreshes the dashboard row itself.
HandlerWrites == {<<"requests", "schedule">>, <<"team", "schedule">>,
                  <<"cruises", "schedule">>, <<"cruises", "nothing">>,
                  <<"campaigns", "refresh">>}

Versions == [Columns -> 0..MaxWrites]

Rows == [Tables -> [Agencies -> Versions \cup {NoRow}]]

Snapshots == [data: [Agencies -> Versions], cache: Rows]

ASSUME RollupAssumption ==
    /\ Scheduler \notin Handlers
    /\ NoAgency \notin Agencies
    /\ Fresh \subseteq Agencies
    /\ Writes \subseteq HandlerWrites
    /\ MaxWrites \in Nat /\ MaxFaults \in Nat
    /\ NoRow \notin Versions /\ Unread \notin Snapshots

Workers == Handlers \cup {Scheduler}

VARIABLES
    data,      \* committed writes per agency and column
    cache,     \* committed rows of the two cache tables
    pending,   \* _pending_agency_ids
    owed,      \* the agency a handler has committed a write for and must still queue
    stage,     \* where the scheduler loop is
    todo,      \* agency ids its current pass has not started
    dailyDue,  \* now >= next_daily_refresh_at
    job,       \* the refresh each worker is running
    faults

vars == <<data, cache, pending, owed, stage, todo, dailyDue, job, faults>>

NoJob == [phase |-> "none", agency |-> NoAgency, table |-> "dashboard", snapshot |-> Unread]

Refresh(a) == [NoJob EXCEPT !.phase = "begun", !.agency = a]

Init ==
    /\ data = [a \in Agencies |-> [c \in Columns |-> 0]]
    /\ cache = [t \in Tables |-> [a \in Agencies |->
                  IF a \in Fresh THEN NoRow ELSE [c \in Columns |-> 0]]]
    /\ pending = {}
    /\ owed = [h \in Handlers |-> NoAgency]
    /\ stage = "waiting"
    /\ todo = {}
    /\ dailyDue = FALSE
    /\ job = [o \in Workers |-> NoJob]
    /\ faults = 0

Loop == <<stage, todo, dailyDue>>

-----------------------------------------------------------------------------
(* A refresh: one snapshot, then one committed row.                          *)

Snapshot == [data |-> data, cache |-> cache]

\* The transaction's first query.
Query(o) ==
    /\ job[o].phase = "begun"
    /\ job[o].snapshot = Unread
    /\ job' = [job EXCEPT ![o].snapshot = Snapshot]
    /\ UNCHANGED <<data, cache, pending, owed, Loop, faults>>

\* The row as another commit left it, with the columns this refresh changed.
Flushed(row, old, new) ==
    IF old = NoRow THEN new ELSE [c \in Columns |-> IF new[c] = old[c] THEN row[c] ELSE new[c]]

\* Mutant: the agency is forgotten between its two rows.
AfterSaveForgetting(o) ==
    IF o # Scheduler THEN NoJob
    ELSE IF job[o].table = "dashboard"
         THEN [NoJob EXCEPT !.phase = "begun", !.table = "metadata"]
         ELSE [NoJob EXCEPT !.phase = "saved"]

\* The dashboard row is followed by the metadata row only in
\* refresh_agency_rollups, which the scheduler calls.
AfterSave(o) ==
    IF o # Scheduler THEN NoJob
    ELSE IF job[o].table = "dashboard"
         THEN [job[o] EXCEPT !.table = "metadata", !.snapshot = Unread]
         ELSE [NoJob EXCEPT !.phase = "saved"]

Inserts(o) == job[o].snapshot.cache[job[o].table][job[o].agency] = NoRow

\* Mutant: the insert becomes an upsert.
SaveOver(o) ==
    LET j == job[o] IN
    /\ j.phase = "begun"
    /\ j.snapshot # Unread
    /\ cache' = [cache EXCEPT ![j.table][j.agency] =
                   Flushed(@, j.snapshot.cache[j.table][j.agency], j.snapshot.data[j.agency])]
    /\ job' = [job EXCEPT ![o] = AfterSave(o)]
    /\ UNCHANGED <<data, pending, owed, Loop, faults>>

\* db.commit(): an INSERT needs the primary key to be free still.
Save(o) ==
    LET j == job[o] IN
    /\ j.phase = "begun"
    /\ j.snapshot # Unread
    /\ Inserts(o) => cache[j.table][j.agency] = NoRow
    /\ cache' = [cache EXCEPT ![j.table][j.agency] =
                   Flushed(@, j.snapshot.cache[j.table][j.agency], j.snapshot.data[j.agency])]
    /\ job' = [job EXCEPT ![o] = AfterSave(o)]
    /\ UNCHANGED <<data, pending, owed, Loop, faults>>

\* Another worker inserted the row first: IntegrityError, which the scheduler
\* logs, going on to the next agency, and a handler returns as a 500.
InsertFailed(o) ==
    LET j == job[o] IN
    /\ j.phase = "begun"
    /\ j.snapshot # Unread
    /\ Inserts(o) /\ cache[j.table][j.agency] # NoRow
    /\ job' = [job EXCEPT ![o] = NoJob]
    /\ UNCHANGED <<data, cache, pending, owed, Loop, faults>>

\* db.refresh() of the saved row opens the transaction, and so the snapshot,
\* that the scheduler's next agency is read from.
Reload(o) ==
    /\ job[o].phase = "saved"
    /\ job' = [job EXCEPT ![o].phase = "idle", ![o].snapshot = Snapshot]
    /\ UNCHANGED <<data, cache, pending, owed, Loop, faults>>

\* Any other error of the refresh: its agency is dropped like InsertFailed's.
RefreshError(o) ==
    /\ faults < MaxFaults
    /\ job[o].phase \in {"begun", "saved"}
    /\ job' = [job EXCEPT ![o] = NoJob]
    /\ faults' = faults + 1
    /\ UNCHANGED <<data, cache, pending, owed, Loop>>

-----------------------------------------------------------------------------
(* Request handlers.                                                         *)

Available(h) == job[h] = NoJob /\ owed[h] = NoAgency

\* A handler's commit; what it does next is the second part of the write.
Write(h, a, w) ==
    /\ Available(h)
    /\ data[a][w[1]] < MaxWrites
    /\ data' = [data EXCEPT ![a][w[1]] = @ + 1]
    /\ owed' = [owed EXCEPT ![h] = IF w[2] = "schedule" THEN a ELSE NoAgency]
    /\ job' = [job EXCEPT ![h] = IF w[2] = "refresh" THEN Refresh(a) ELSE NoJob]
    /\ UNCHANGED <<cache, pending, Loop, faults>>

\* schedule_agency_rollup_refresh, under _refresh_lock.
Schedule(h) ==
    /\ owed[h] # NoAgency
    /\ pending' = pending \cup {owed[h]}
    /\ owed' = [owed EXCEPT ![h] = NoAgency]
    /\ UNCHANGED <<data, cache, Loop, job, faults>>

\* get_or_refresh_*: the query that finds no row opens the snapshot.
ViewMissing(h, a, t) ==
    /\ Available(h)
    /\ cache[t][a] = NoRow
    /\ job' = [job EXCEPT ![h] = [Refresh(a) EXCEPT !.table = t, !.snapshot = Snapshot]]
    /\ UNCHANGED <<data, cache, pending, owed, Loop, faults>>

-----------------------------------------------------------------------------
(* _run_rollup_scheduler_loop.                                               *)

\* One poll: drain the queue into this pass.
Poll ==
    /\ stage = "waiting"
    /\ stage' = "queued"
    /\ todo' = pending
    /\ pending' = {}
    /\ UNCHANGED <<data, cache, owed, dailyDue, job, faults>>

BetweenAgencies == job[Scheduler].phase \in {"none", "idle"}

\* Mutant: what was queued since the drain is cleared when an agency is taken.
TakeAndClear(a) ==
    /\ stage # "waiting"
    /\ BetweenAgencies
    /\ a \in todo
    /\ todo' = todo \ {a}
    /\ pending' = pending \ {a}
    /\ job' = [job EXCEPT ![Scheduler] =
                 [Refresh(a) EXCEPT !.snapshot = job[Scheduler].snapshot]]
    /\ UNCHANGED <<data, cache, owed, stage, dailyDue, faults>>

TakeNext(a) ==
    /\ stage # "waiting"
    /\ BetweenAgencies
    /\ a \in todo
    /\ todo' = todo \ {a}
    /\ job' = [job EXCEPT ![Scheduler] =
                 [Refresh(a) EXCEPT !.snapshot = job[Scheduler].snapshot]]
    /\ UNCHANGED <<data, cache, pending, owed, stage, dailyDue, faults>>

\* Mutant: a daily refresh is taken for done when the queue was.
SkipDaily ==
    /\ stage = "queued"
    /\ BetweenAgencies /\ todo = {}
    /\ stage' = "waiting"
    /\ dailyDue' = FALSE
    /\ job' = [job EXCEPT ![Scheduler] = NoJob]
    /\ UNCHANGED <<data, cache, pending, owed, todo, faults>>

EndQueued ==
    /\ stage = "queued"
    /\ BetweenAgencies /\ todo = {}
    /\ stage' = IF dailyDue THEN "daily" ELSE "waiting"
    /\ todo' = IF dailyDue THEN Agencies ELSE {}
    /\ job' = IF dailyDue THEN job ELSE [job EXCEPT ![Scheduler] = NoJob]
    /\ UNCHANGED <<data, cache, pending, owed, dailyDue, faults>>

\* next_daily_refresh_at moves on only now.
EndDaily ==
    /\ stage = "daily"
    /\ BetweenAgencies /\ todo = {}
    /\ stage' = "waiting"
    /\ dailyDue' = FALSE
    /\ job' = [job EXCEPT ![Scheduler] = NoJob]
    /\ UNCHANGED <<data, cache, pending, owed, todo, faults>>

\* The query for the agency ids fails: the iteration ends, its refresh still due.
DailyError ==
    /\ faults < MaxFaults
    /\ stage = "daily" /\ todo = Agencies /\ BetweenAgencies
    /\ stage' = "waiting"
    /\ todo' = {}
    /\ job' = [job EXCEPT ![Scheduler] = NoJob]
    /\ faults' = faults + 1
    /\ UNCHANGED <<data, cache, pending, owed, dailyDue>>

DayPasses ==
    /\ ~dailyDue
    /\ dailyDue' = TRUE
    /\ UNCHANGED <<data, cache, pending, owed, stage, todo, job, faults>>

\* The process restarts: the queue and every thread are gone, and the next
\* daily refresh is a day away again.
Restart ==
    /\ faults < MaxFaults
    /\ faults' = faults + 1
    /\ pending' = {}
    /\ owed' = [h \in Handlers |-> NoAgency]
    /\ stage' = "waiting"
    /\ todo' = {}
    /\ dailyDue' = FALSE
    /\ job' = [o \in Workers |-> NoJob]
    /\ UNCHANGED <<data, cache>>

-----------------------------------------------------------------------------

Work(o) == Query(o) \/ Save(o) \/ InsertFailed(o) \/ Reload(o)

SchedulerStep ==
    \/ Work(Scheduler)
    \/ Poll
    \/ \E a \in Agencies : TakeNext(a)
    \/ EndQueued
    \/ EndDaily

Next ==
    \/ \E h \in Handlers :
         \/ \E a \in Agencies, w \in Writes : Write(h, a, w)
         \/ \E a \in Agencies, t \in Tables : ViewMissing(h, a, t)
         \/ Schedule(h)
         \/ Work(h)
    \/ SchedulerStep
    \/ \E o \in Workers : RefreshError(o)
    \/ DailyError
    \/ DayPasses
    \/ Restart

Spec == Init /\ [][Next]_vars

\* Threads keep running and days pass.  Nothing is assumed of faults.
FairSpec ==
    /\ Spec
    /\ WF_vars(SchedulerStep)
    /\ WF_vars(DayPasses)
    /\ \A h \in Handlers : WF_vars(Schedule(h)) /\ WF_vars(Work(h))

-----------------------------------------------------------------------------
(* Properties.                                                               *)

\* Every variable holds values of its kind; a running refresh names its agency.
TypeOK ==
    /\ data \in [Agencies -> Versions]
    /\ cache \in Rows
    /\ pending \subseteq Agencies
    /\ owed \in [Handlers -> Agencies \cup {NoAgency}]
    /\ stage \in {"waiting", "queued", "daily"}
    /\ todo \subseteq Agencies
    /\ dailyDue \in BOOLEAN
    /\ job \in [Workers -> [phase: {"none", "begun", "saved", "idle"},
                            agency: Agencies \cup {NoAgency},
                            table: Tables, snapshot: Snapshots \cup {Unread}]]
    /\ faults \in 0..MaxFaults
    /\ \A o \in Workers : job[o].phase = "begun" => job[o].agency \in Agencies

Behind(t, a, c) == cache[t][a] # NoRow /\ cache[t][a][c] < data[a][c]

\* Columns whose every write queues a refresh.
ScheduledColumns == {c \in Columns : \A w \in Writes : w[1] = c => w[2] = "schedule"}

\* The scheduler's running refresh has yet to commit what is current now.
Refreshing(t, a, c) ==
    LET j == job[Scheduler] IN
    /\ j.phase = "begun" /\ j.agency = a
    /\ \/ j.table = "dashboard" /\ t = "metadata"
       \/ j.table = t /\ (j.snapshot = Unread \/ j.snapshot.data[a][c] = data[a][c])

\* A cached row that is behind a write which queues a refresh is never behind
\* for good: a handler is about to queue its agency, the agency is queued or in
\* the scheduler's current pass, or the running refresh has read that write.
NoLostRefresh ==
    \A a \in Agencies, t \in Tables : \A c \in Summarised(t) \cap ScheduledColumns :
        Behind(t, a, c) =>
            \/ \E h \in Handlers : owed[h] = a
            \/ a \in pending \cup todo
            \/ Refreshing(t, a, c)

\* Tables whose rows a handler refreshes beside the scheduler.
SharedTables == IF \E w \in Writes : w[2] = "refresh" THEN {"dashboard"} ELSE {}

\* The refresh that worker o saves has read the column before another refresh moved it on.
Overtaken(o, t, a, c) ==
    LET j == job[o]
        seen == j.snapshot.cache[t][a]
    IN  /\ j.phase = "begun" /\ j.agency = a /\ j.table = t
        /\ j.snapshot # Unread /\ seen # NoRow
        /\ seen[c] < j.snapshot.data[a][c]
        /\ j.snapshot.data[a][c] < cache[t][a][c]

\* What a dashboard shows is taken back by one thing only, a campaign handler's refresh that
\* races another of the same row (marketing_campaign_service.py:40): the refresh saved last
\* shows the counts that it read, which are newer than the row it read and older than the
\* row it replaces.  No other race, error or restart puts older counts over newer ones, no
\* first insert does, and no row is ever lost.
RowsRegressOnlyByRace ==
    [][\A t \in Tables, a \in Agencies : cache[t][a] # NoRow =>
          /\ cache'[t][a] # NoRow
          /\ \A c \in Summarised(t) :
                \/ cache'[t][a][c] >= cache[t][a][c]
                \/ /\ t \in SharedTables
                   /\ \E o \in Workers :
                         Overtaken(o, t, a, c) /\ cache'[t][a][c] = job[o].snapshot.data[a][c]]_vars

\* Every write is shown in the end, also those that queue nothing, and through
\* dropped refreshes and restarts: the daily refresh repairs them.
EveryWriteShows ==
    \A t \in Tables, a \in Agencies : \A c \in Summarised(t), v \in 1..MaxWrites :
        (cache[t][a] # NoRow /\ data[a][c] >= v) ~> (cache[t][a] # NoRow /\ cache[t][a][c] >= v)

=============================================================================
