----------------------------- MODULE RollupProofs -----------------------------
(***************************************************************************)
(* Proofs about AgencyRollup for any agencies, handlers and bounds: type   *)
(* correctness; that only a race of two refreshes takes back what a row    *)
(* shows; and that no queued refresh is lost.                              *)
(***************************************************************************)
EXTENDS AgencyRollup, TLAPS

Job == [phase: {"none", "begun", "saved", "idle"}, agency: Agencies \cup {NoAgency},
        table: Tables, snapshot: Snapshots \cup {Unread}]

\* A row that some snapshot has seen is there still.
RowsKept ==
    \A o \in Workers, t \in Tables, a \in Agencies :
        job[o].snapshot # Unread /\ job[o].snapshot.cache[t][a] # NoRow => cache[t][a] # NoRow

TypeInv == TypeOK /\ RowsKept

JobsTyped ==
    /\ job \in [Workers -> Job]
    /\ \A o \in Workers : job[o].phase = "begun" => job[o].agency \in Agencies

RestTyped ==
    /\ data \in [Agencies -> Versions]
    /\ cache \in Rows
    /\ pending \subseteq Agencies
    /\ owed \in [Handlers -> Agencies \cup {NoAgency}]
    /\ stage \in {"waiting", "queued", "daily"}
    /\ todo \subseteq Agencies
    /\ dailyDue \in BOOLEAN
    /\ faults \in 0..MaxFaults

-----------------------------------------------------------------------------
(* Type correctness.                                                         *)

LEMMA TypeParts == TypeInv <=> JobsTyped /\ RestTyped /\ RowsKept
BY DEF TypeInv, TypeOK, JobsTyped, RestTyped, Job

LEMMA PartsTyped == JobsTyped' /\ RestTyped' /\ RowsKept' => TypeInv'
BY DEF TypeInv, TypeOK, JobsTyped, RestTyped, Job

LEMMA SameJobs ==
    ASSUME TypeInv, UNCHANGED <<job, cache>>
    PROVE  JobsTyped' /\ RowsKept'
BY TypeParts DEF JobsTyped, RowsKept

LEMMA NoJobType ==
    /\ NoJob \in Job /\ NoJob.phase = "none" /\ NoJob.snapshot = Unread
    /\ \A a \in Agencies : Refresh(a) \in Job /\ Refresh(a).snapshot = Unread
                           /\ Refresh(a).phase = "begun" /\ Refresh(a).agency = a
                           /\ Refresh(a).table = "dashboard"
BY DEF NoJob, Job, Refresh, Tables

LEMMA SnapshotType ==
    ASSUME TypeOK
    PROVE  Snapshot \in Snapshots /\ Snapshot # Unread
           /\ Snapshot.data = data /\ Snapshot.cache = cache
<1>1. Snapshot \in Snapshots /\ Snapshot.data = data /\ Snapshot.cache = cache
  BY DEF TypeOK, Snapshot, Snapshots
<1>2. QED
  BY <1>1, RollupAssumption

\* What a refresh has read, and the row it writes.
LEMMA SaveFacts ==
    ASSUME TypeInv, NEW o \in Workers, Save(o)
    PROVE  LET j == job[o]
               old == j.snapshot.cache[j.table][j.agency]
               new == j.snapshot.data[j.agency]
               row == cache[j.table][j.agency]
           IN  /\ j \in Job /\ j.agency \in Agencies /\ j.table \in Tables
               /\ j.phase = "begun" /\ j.snapshot \in Snapshots
               /\ new \in Versions /\ row \in Versions \cup {NoRow}
               /\ old \in Versions \cup {NoRow}
               /\ old = NoRow => row = NoRow
               /\ old # NoRow => row \in Versions
               /\ Flushed(row, old, new) \in Versions
               /\ cache' = [cache EXCEPT ![j.table][j.agency] = Flushed(row, old, new)]
<1> DEFINE j == job[o]
           old == j.snapshot.cache[j.table][j.agency]
           new == j.snapshot.data[j.agency]
           row == cache[j.table][j.agency]
<1>1. j \in Job /\ j.phase = "begun" /\ j.agency \in Agencies
  BY DEF TypeInv, TypeOK, Save, Job
<1>2. j.table \in Tables /\ j.snapshot \in Snapshots
  BY <1>1 DEF Job, Save
<1>3. new \in Versions /\ old \in Versions \cup {NoRow}
  BY <1>1, <1>2 DEF Snapshots, Rows
<1>4. row \in Versions \cup {NoRow}
  BY <1>1, <1>2 DEF TypeInv, TypeOK, Rows
<1>5. old = NoRow => row = NoRow
  BY DEF Save, Inserts
<1>6. old # NoRow => row # NoRow
  BY <1>1, <1>2 DEF TypeInv, RowsKept, Save
<1>7. Flushed(row, old, new) \in Versions
  BY <1>3, <1>4, <1>6 DEF Flushed, Versions
<1>8. cache' = [cache EXCEPT ![j.table][j.agency] = Flushed(row, old, new)]
  BY DEF Save
<1>9. QED
  BY <1>1, <1>2, <1>3, <1>4, <1>5, <1>6, <1>7, <1>8

\* Saving writes the one row.
LEMMA SaveRow ==
    ASSUME TypeInv, NEW o \in Workers, Save(o)
    PROVE  LET j == job[o]
               old == j.snapshot.cache[j.table][j.agency]
               new == j.snapshot.data[j.agency]
           IN  /\ cache' \in Rows
               /\ \A t \in Tables, a \in Agencies :
                    cache'[t][a] = IF t = j.table /\ a = j.agency
                                   THEN Flushed(cache[t][a], old, new) ELSE cache[t][a]
<1> DEFINE j == job[o]
           new == Flushed(cache[j.table][j.agency], j.snapshot.cache[j.table][j.agency],
                          j.snapshot.data[j.agency])
<1>1. cache \in Rows
  BY DEF TypeInv, TypeOK
<1>2. /\ j.table \in Tables /\ j.agency \in Agencies /\ new \in Versions
      /\ cache' = [cache EXCEPT ![j.table][j.agency] = new]
  BY SaveFacts
<1> HIDE DEF new
<1>3. cache' \in Rows
  BY <1>1, <1>2 DEF Rows
<1>4. \A t \in Tables, a \in Agencies :
        cache'[t][a] = IF t = j.table /\ a = j.agency THEN new ELSE cache[t][a]
  BY <1>1, <1>2 DEF Rows
<1>5. QED
  BY <1>3, <1>4 DEF new

LEMMA AfterSaveType ==
    ASSUME TypeInv, NEW o \in Workers, Save(o)
    PROVE  /\ AfterSave(o) \in Job /\ AfterSave(o).snapshot = Unread
           /\ AfterSave(o).phase = "begun" => AfterSave(o).agency \in Agencies
<1>1. job[o] \in Job /\ job[o].agency \in Agencies
  BY SaveFacts
<1>2. [job[o] EXCEPT !.table = "metadata", !.snapshot = Unread] \in Job
  BY <1>1 DEF Job, Tables
<1>3. [NoJob EXCEPT !.phase = "saved"] \in Job
      /\ [NoJob EXCEPT !.phase = "saved"].snapshot = Unread
      /\ [NoJob EXCEPT !.phase = "saved"].phase = "saved"
  BY DEF NoJob, Job, Tables
<1>4. [job[o] EXCEPT !.table = "metadata", !.snapshot = Unread].snapshot = Unread
      /\ [job[o] EXCEPT !.table = "metadata", !.snapshot = Unread].agency = job[o].agency
  BY <1>1 DEF Job
<1>5. QED
  BY <1>1, <1>2, <1>3, <1>4, NoJobType DEF AfterSave

\* A step that changes one worker's job and no row.
LEMMA JobType ==
    ASSUME TypeInv, NEW o \in Workers, NEW j \in Job, job' = [job EXCEPT ![o] = j],
           j.phase = "begun" => j.agency \in Agencies,
           j.snapshot # Unread => j.snapshot.cache = cache \/ j.snapshot = job[o].snapshot,
           UNCHANGED cache
    PROVE  /\ job' \in [Workers -> Job] /\ RowsKept'
           /\ \A u \in Workers : job'[u].phase = "begun" => job'[u].agency \in Agencies
<1>1. job \in [Workers -> Job]
  BY DEF TypeInv, TypeOK, Job
<1>2. \A u \in Workers : job'[u] = IF u = o THEN j ELSE job[u]
  BY <1>1
<1>3. QED
  BY <1>1, <1>2 DEF TypeInv, TypeOK, RowsKept


LEMMA QueryType ==
    ASSUME TypeInv, NEW o \in Workers, Query(o) \/ Reload(o)
    PROVE  TypeInv'
<1>1. Snapshot \in Snapshots /\ Snapshot.cache = cache
  BY SnapshotType DEF TypeInv
<1>2. job \in [Workers -> Job] /\ job[o] \in Job
  BY DEF TypeInv, TypeOK, Job
<1>3. PICK j : /\ j \in {[job[o] EXCEPT !.snapshot = Snapshot],
                       [job[o] EXCEPT !.phase = "idle", !.snapshot = Snapshot]}
               /\ job' = [job EXCEPT ![o] = j]
  BY DEF Query, Reload
<1>4. /\ j \in Job /\ j.snapshot = Snapshot /\ j.agency = job[o].agency
      /\ j.phase = "begun" => job[o].phase = "begun"
  BY <1>1, <1>2, <1>3 DEF Job
<1>5. j.phase = "begun" => j.agency \in Agencies
  BY <1>4 DEF TypeInv, TypeOK
<1>6. UNCHANGED <<data, cache, pending, owed, Loop, faults>>
  BY DEF Query, Reload
<1>7. /\ job' \in [Workers -> Job] /\ RowsKept'
      /\ \A u \in Workers : job'[u].phase = "begun" => job'[u].agency \in Agencies
  BY <1>1, <1>3, <1>4, <1>5, <1>6, JobType
<1>8. QED
  BY <1>6, <1>7 DEF TypeInv, TypeOK, Loop, Job

LEMMA SaveType ==
    ASSUME TypeInv, NEW o \in Workers, Save(o)
    PROVE  TypeInv'
<1>1. job' = [job EXCEPT ![o] = AfterSave(o)] /\ UNCHANGED <<data, pending, owed, Loop, faults>>
  BY DEF Save
<1>2. job \in [Workers -> Job]
  BY DEF TypeInv, TypeOK, Job
<1>3. \A u \in Workers : job'[u] = IF u = o THEN AfterSave(o) ELSE job[u]
  BY <1>1, <1>2
<1>4. /\ job' \in [Workers -> Job]
      /\ \A u \in Workers : job'[u].phase = "begun" => job'[u].agency \in Agencies
  BY <1>1, <1>2, <1>3, AfterSaveType DEF TypeInv, TypeOK
<1>5. \A t \in Tables, a \in Agencies : cache[t][a] # NoRow => cache'[t][a] # NoRow
  <2> DEFINE j == job[o]
             new == Flushed(cache[j.table][j.agency], j.snapshot.cache[j.table][j.agency],
                            j.snapshot.data[j.agency])
  <2>1. /\ new # NoRow
        /\ \A t \in Tables, a \in Agencies :
             cache'[t][a] = IF t = j.table /\ a = j.agency THEN new ELSE cache[t][a]
    <3>1. new \in Versions
      BY SaveFacts
    <3>2. \A t \in Tables, a \in Agencies :
             cache'[t][a] = IF t = j.table /\ a = j.agency THEN new ELSE cache[t][a]
      BY SaveRow
    <3> HIDE DEF new
    <3>3. QED
      BY <3>1, <3>2, RollupAssumption
  <2> HIDE DEF new
  <2>2. QED
    BY <2>1
<1>6. RowsKept'
  BY <1>3, <1>5, AfterSaveType DEF TypeInv, RowsKept
<1>7. cache' \in Rows
  BY SaveRow
<1>8. QED
  BY <1>1, <1>4, <1>6, <1>7 DEF TypeInv, TypeOK, Loop, Job

\* Dropping a refresh.
LEMMA DropType ==
    ASSUME TypeInv, NEW o \in Workers, job' = [job EXCEPT ![o] = NoJob],
           UNCHANGED <<data, cache, pending, owed>>,
           stage' \in {"waiting", "queued", "daily"}, todo' \subseteq Agencies,
           dailyDue' \in BOOLEAN, faults' \in 0..MaxFaults
    PROVE  TypeInv'
<1>1. /\ job' \in [Workers -> Job] /\ RowsKept'
      /\ \A u \in Workers : job'[u].phase = "begun" => job'[u].agency \in Agencies
  BY NoJobType, JobType
<1>2. QED
  BY <1>1 DEF TypeInv, TypeOK, Job

LEMMA WriteType ==
    ASSUME TypeInv, NEW h \in Handlers, NEW a \in Agencies, NEW w \in Writes, Write(h, a, w)
    PROVE  TypeInv'
<1> DEFINE j == IF w[2] = "refresh" THEN Refresh(a) ELSE NoJob
<1>1. j \in Job /\ j.snapshot = Unread /\ (j.phase = "begun" => j.agency \in Agencies)
  BY NoJobType
<1>2. h \in Workers /\ job' = [job EXCEPT ![h] = j] /\ UNCHANGED <<cache, pending, Loop, faults>>
  BY DEF Write, Workers
<1> HIDE DEF j
<1>3. /\ job' \in [Workers -> Job] /\ RowsKept'
      /\ \A u \in Workers : job'[u].phase = "begun" => job'[u].agency \in Agencies
  BY <1>1, <1>2, JobType
<1>4. w[1] \in Columns
  BY RollupAssumption DEF HandlerWrites, Columns
<1>5. data' \in [Agencies -> Versions]
  <2>1. data[a][w[1]] + 1 \in 0..MaxWrites
    BY <1>4, RollupAssumption DEF Write, TypeInv, TypeOK, Versions
  <2>2. QED
    BY <1>4, <2>1 DEF Write, TypeInv, TypeOK, Versions
<1>6. owed' \in [Handlers -> Agencies \cup {NoAgency}]
  BY DEF Write, TypeInv, TypeOK
<1>7. QED
  BY <1>2, <1>3, <1>5, <1>6 DEF TypeInv, TypeOK, Loop, Job

LEMMA ViewMissingType ==
    ASSUME TypeInv, NEW h \in Handlers, NEW a \in Agencies, NEW t \in Tables, ViewMissing(h, a, t)
    PROVE  TypeInv'
<1> DEFINE j == [Refresh(a) EXCEPT !.table = t, !.snapshot = Snapshot]
<1>1. Snapshot \in Snapshots /\ Snapshot.cache = cache
  BY SnapshotType DEF TypeInv
<1>2. j \in Job /\ j.snapshot = Snapshot /\ j.agency = a
  <2>1. Refresh(a) \in Job /\ Refresh(a).agency = a
    BY NoJobType
  <2>2. QED
    BY <1>1, <2>1 DEF Job
<1>3. h \in Workers /\ job' = [job EXCEPT ![h] = j]
      /\ UNCHANGED <<data, cache, pending, owed, Loop, faults>>
  BY DEF ViewMissing, Workers
<1> HIDE DEF j
<1>4. /\ job' \in [Workers -> Job] /\ RowsKept'
      /\ \A u \in Workers : job'[u].phase = "begun" => job'[u].agency \in Agencies
  BY <1>1, <1>2, <1>3, JobType
<1>5. QED
  BY <1>3, <1>4 DEF TypeInv, TypeOK, Loop, Job

\* The next agency is read from the snapshot that is open.
LEMMA TakeNextType ==
    ASSUME TypeInv, NEW a \in Agencies, TakeNext(a)
    PROVE  TypeInv'
<1> DEFINE j == [Refresh(a) EXCEPT !.snapshot = job[Scheduler].snapshot]
<1>1. Scheduler \in Workers /\ job[Scheduler] \in Job
  BY DEF Workers, TypeInv, TypeOK, Job
<1>2. j \in Job /\ j.snapshot = job[Scheduler].snapshot /\ j.agency = a
  BY <1>1, NoJobType DEF Job
<1>3. job' = [job EXCEPT ![Scheduler] = j] /\ todo' = todo \ {a}
      /\ UNCHANGED <<data, cache, pending, owed, stage, dailyDue, faults>>
  BY DEF TakeNext
<1> HIDE DEF j
<1>4. /\ job' \in [Workers -> Job] /\ RowsKept'
      /\ \A u \in Workers : job'[u].phase = "begun" => job'[u].agency \in Agencies
  BY <1>1, <1>2, <1>3, JobType
<1>5. QED
  BY <1>3, <1>4 DEF TypeInv, TypeOK, Job

\* The queue, the clock and the end of a pass.
LEMMA LoopType ==
    ASSUME TypeInv,
           Poll \/ DayPasses \/ EndQueued \/ EndDaily \/ DailyError \/ Restart
              \/ \E h \in Handlers : Schedule(h)
    PROVE  TypeInv'
<1>1. Scheduler \in Workers
  BY DEF Workers
<1>2. CASE Poll \/ DayPasses
  <2>1. RestTyped'
    BY <1>2, TypeParts DEF Poll, DayPasses, RestTyped
  <2>2. QED
    BY <1>2, <2>1, SameJobs, PartsTyped DEF Poll, DayPasses
<1>3. ASSUME NEW h \in Handlers, Schedule(h) PROVE TypeInv'
  <2>1. RestTyped'
    BY <1>3, TypeParts DEF Schedule, RestTyped, Loop
  <2>2. QED
    BY <1>3, <2>1, SameJobs, PartsTyped DEF Schedule
<1>4. CASE EndQueued
  <2>1. CASE dailyDue
    <3>1. RestTyped'
      BY <1>4, <2>1, TypeParts DEF EndQueued, RestTyped
    <3>2. QED
      BY <1>4, <2>1, <3>1, SameJobs, PartsTyped DEF EndQueued
  <2>2. CASE ~ dailyDue
    BY <1>1, <1>4, <2>2, DropType DEF EndQueued, TypeInv, TypeOK
  <2>3. QED
    BY <2>1, <2>2
<1>5. CASE EndDaily
  BY <1>1, <1>5, DropType DEF EndDaily, TypeInv, TypeOK
<1>6. CASE DailyError
  <2>1. faults' \in 0..MaxFaults
    BY <1>6, RollupAssumption, TypeParts DEF DailyError, RestTyped
  <2>2. QED
    BY <1>1, <1>6, <2>1, DropType, TypeParts DEF DailyError, RestTyped
<1>7. CASE Restart
  <2>1. \A o \in Workers : job'[o] = NoJob
    BY <1>7 DEF Restart
  <2>2. RowsKept'
    BY <2>1, NoJobType DEF RowsKept
  <2>3. job' \in [Workers -> Job]
        /\ \A u \in Workers : job'[u].phase = "begun" => job'[u].agency \in Agencies
    BY <1>7, <2>1, NoJobType DEF Restart
  <2>4. QED
    <3>1. RestTyped'
      <4>1. owed' \in [Handlers -> Agencies \cup {NoAgency}]
        BY <1>7 DEF Restart
      <4>2. faults' \in 0..MaxFaults
        BY <1>7, RollupAssumption, TypeParts DEF Restart, RestTyped
      <4>3. QED
        BY <1>7, <4>1, <4>2, TypeParts DEF Restart, RestTyped
    <3>2. QED
      BY <2>2, <2>3, <3>1, PartsTyped DEF JobsTyped
<1>8. QED
  BY <1>2, <1>3, <1>4, <1>5, <1>6, <1>7

LEMMA RefreshFails ==
    ASSUME TypeInv, NEW o \in Workers, InsertFailed(o) \/ RefreshError(o)
    PROVE  TypeInv'
<1>1. /\ job' = [job EXCEPT ![o] = NoJob] /\ UNCHANGED <<data, cache, pending, owed, Loop>>
      /\ faults' \in 0..MaxFaults
  BY RollupAssumption DEF InsertFailed, RefreshError, TypeInv, TypeOK
<1>2. QED
  BY <1>1, DropType DEF Loop, TypeInv, TypeOK

LEMMA TypeInit == Init => TypeInv
<1> SUFFICES ASSUME Init PROVE TypeInv
  OBVIOUS
<1>1. [c \in Columns |-> 0] \in Versions
  BY RollupAssumption DEF Versions
<1>2. cache \in Rows /\ data \in [Agencies -> Versions]
  BY <1>1 DEF Init, Rows
<1>3. \A o \in Workers : job[o] = NoJob
  BY DEF Init
<1>4. QED
  <2>1. RestTyped
    <3>1. owed \in [Handlers -> Agencies \cup {NoAgency}]
      BY DEF Init
    <3>2. faults \in 0..MaxFaults
      BY RollupAssumption DEF Init
    <3>3. QED
      BY <1>2, <3>1, <3>2 DEF Init, RestTyped
  <2>2. JobsTyped /\ RowsKept
    BY <1>3, NoJobType DEF Init, JobsTyped, RowsKept
  <2>3. QED
    BY <2>1, <2>2, TypeParts

\* The steps, by what they change.
LEMMA Steps ==
    ASSUME [Next]_vars
    PROVE  \/ \E o \in Workers : Query(o) \/ Reload(o)
           \/ \E o \in Workers : Save(o)
           \/ \E o \in Workers : InsertFailed(o) \/ RefreshError(o)
           \/ \E h \in Handlers, a \in Agencies, w \in Writes : Write(h, a, w)
           \/ \E h \in Handlers, a \in Agencies, t \in Tables : ViewMissing(h, a, t)
           \/ \E a \in Agencies : TakeNext(a)
           \/ Poll \/ DayPasses \/ EndQueued \/ EndDaily \/ DailyError \/ Restart
           \/ \E h \in Handlers : Schedule(h)
           \/ UNCHANGED vars
BY DEF Next, Work, SchedulerStep, Workers

LEMMA TypeNext == TypeInv /\ [Next]_vars => TypeInv'
<1> SUFFICES ASSUME TypeInv, [Next]_vars PROVE TypeInv'
  OBVIOUS
<1>1. CASE UNCHANGED vars
  <2>1. RestTyped'
    BY <1>1, TypeParts DEF vars, Loop, RestTyped
  <2>2. QED
    BY <1>1, <2>1, SameJobs, PartsTyped DEF vars
<1>2. QED
  BY <1>1, Steps, QueryType, SaveType, RefreshFails, WriteType, ViewMissingType, TakeNextType,
     LoopType

\* Every variable keeps its type, whatever fails and whenever the process restarts.
THEOREM RollupTypeCorrect == Spec => []TypeOK
<1>1. TypeInv => TypeOK
  BY DEF TypeInv
<1>2. QED
  BY <1>1, TypeInit, TypeNext, PTL DEF Spec

-----------------------------------------------------------------------------
(* Rows regress only by a race of two refreshes.                             *)

\* The rows, and the counts of a snapshot, are never ahead of the data; in a snapshot the
\* rows are not ahead of the counts.
CacheBelow ==
    \A t \in Tables, a \in Agencies : cache[t][a] # NoRow =>
        \A c \in Columns : cache[t][a][c] <= data[a][c]

SnapshotBelow(snapshot) ==
    /\ \A a \in Agencies, c \in Columns : snapshot.data[a][c] <= data[a][c]
    /\ \A t \in Tables, a \in Agencies : snapshot.cache[t][a] # NoRow =>
          \A c \in Columns : snapshot.cache[t][a][c] <= snapshot.data[a][c]

Private == Tables \ SharedTables

\* A handler refreshes a private row only to insert it where it missed it.
HandlersInsert ==
    \A h \in Handlers :
        /\ job[h].phase \in {"none", "begun"}
        /\ job[h].phase = "begun" /\ job[h].table \in Private =>
              job[h].snapshot # Unread /\ Inserts(h)

\* The scheduler is alone in changing a private row, so what it has read of one is still there.
SchedulerSees ==
    LET snapshot == job[Scheduler].snapshot IN
    snapshot # Unread =>
        \A t \in Private, a \in Agencies :
            snapshot.cache[t][a] # NoRow => cache[t][a] = snapshot.cache[t][a]

RowsInv ==
    /\ TypeInv /\ CacheBelow /\ HandlersInsert /\ SchedulerSees
    /\ \A o \in Workers : job[o].snapshot # Unread => SnapshotBelow(job[o].snapshot)

NoHandlerRefreshes == \A w \in Writes : w[2] # "refresh"

LEMMA PrivateIs ==
  /\ Private \subseteq Tables
  /\ \A t \in Tables : t \notin Private => t \in SharedTables
  /\ \A w \in Writes : w[2] = "refresh" => "dashboard" \notin Private
  /\ NoHandlerRefreshes => Private = Tables
BY DEF Private, SharedTables, NoHandlerRefreshes

\* What a refresh saves in a column is what it read, or what is there already; and what it
\* changes it has read as older.
LEMMA SavedRow ==
    ASSUME RowsInv, NEW o \in Workers, Save(o)
    PROVE  LET j == job[o]
               old == j.snapshot.cache[j.table][j.agency]
               new == j.snapshot.data[j.agency]
               row == cache[j.table][j.agency]
               saved == cache'[j.table][j.agency]
           IN  /\ cache' \in Rows
               /\ j.table \in Tables /\ j.agency \in Agencies /\ j.phase = "begun"
               /\ new \in Versions /\ row \in Versions \cup {NoRow} /\ saved \in Versions
               /\ \A t \in Tables, a \in Agencies :
                    ~ (t = j.table /\ a = j.agency) => cache'[t][a] = cache[t][a]
               /\ \A c \in Columns : new[c] <= data[j.agency][c]
               /\ row = NoRow => saved = new
               /\ row # NoRow => old # NoRow
               /\ row # NoRow => \A c \in Columns :
                    saved[c] # row[c] => saved[c] = new[c] /\ old[c] < new[c]
<1> DEFINE j == job[o]
           old == j.snapshot.cache[j.table][j.agency]
           new == j.snapshot.data[j.agency]
           row == cache[j.table][j.agency]
           saved == Flushed(row, old, new)
<1>1. /\ j.agency \in Agencies /\ j.table \in Tables /\ j.snapshot \in Snapshots
      /\ j.phase = "begun" /\ new \in Versions /\ row \in Versions \cup {NoRow}
      /\ old \in Versions \cup {NoRow} /\ saved \in Versions
      /\ old = NoRow => row = NoRow
      /\ old # NoRow => row \in Versions
  BY SaveFacts DEF RowsInv
<1>2. cache' \in Rows
      /\ \A t \in Tables, a \in Agencies :
            cache'[t][a] = IF t = j.table /\ a = j.agency
                           THEN Flushed(cache[t][a], old, new) ELSE cache[t][a]
  BY SaveRow DEF RowsInv
<1>3. SnapshotBelow(j.snapshot)
  BY DEF RowsInv, Save
<1>4. \A c \in Columns : new[c] <= data[j.agency][c]
  BY <1>1, <1>3 DEF SnapshotBelow
<1>5. old # NoRow => \A c \in Columns : old[c] <= new[c] /\ old[c] \in Nat /\ new[c] \in Nat
  <2>1. old # NoRow => \A c \in Columns : old[c] <= new[c]
    BY <1>1, <1>3 DEF SnapshotBelow
  <2>2. old # NoRow => old \in Versions
    BY <1>1
  <2> HIDE DEF old, new
  <2>3. QED
    BY <1>1, <2>1, <2>2 DEF Versions
<1>6. row = NoRow => saved = new
  BY <1>1, RollupAssumption DEF Flushed
<1>7. row # NoRow => \A c \in Columns :
        saved[c] # row[c] => saved[c] = new[c] /\ old[c] < new[c]
  <2> SUFFICES ASSUME row # NoRow, NEW c \in Columns, saved[c] # row[c]
               PROVE  saved[c] = new[c] /\ old[c] < new[c]
    OBVIOUS
  <2>1. old # NoRow
    BY <1>1
  <2>2. saved[c] = IF new[c] = old[c] THEN row[c] ELSE new[c]
    BY <2>1 DEF Flushed
  <2> HIDE DEF saved, row, new, old
  <2>3. QED
    BY <1>5, <2>1, <2>2
<1>8. /\ cache'[j.table][j.agency] = saved
      /\ \A t \in Tables, a \in Agencies :
           ~ (t = j.table /\ a = j.agency) => cache'[t][a] = cache[t][a]
  BY <1>1, <1>2
<1> HIDE DEF saved
<1>9. QED
  BY <1>1, <1>2, <1>4, <1>6, <1>7, <1>8

\* A private row that is saved holds the counts of its snapshot, which are no older than
\* the row's.
LEMMA SavedIsSnapshot ==
    ASSUME RowsInv, NEW o \in Workers, Save(o), job[o].table \in Private
    PROVE  LET j == job[o]
               row == cache[j.table][j.agency]
               new == j.snapshot.data[j.agency]
           IN  /\ row # NoRow => o = Scheduler /\ \A c \in Columns : row[c] <= new[c]
               /\ \A t \in Tables, a \in Agencies :
                    cache'[t][a] = IF t = j.table /\ a = j.agency THEN new ELSE cache[t][a]
<1> DEFINE j == job[o]
           old == j.snapshot.cache[j.table][j.agency]
           new == j.snapshot.data[j.agency]
           row == cache[j.table][j.agency]
           saved == cache'[j.table][j.agency]
<1>1. /\ cache' \in Rows /\ j.agency \in Agencies /\ j.table \in Tables /\ j.phase = "begun"
      /\ new \in Versions /\ row \in Versions \cup {NoRow} /\ saved \in Versions
      /\ row = NoRow => saved = new
      /\ row # NoRow => old # NoRow
      /\ row # NoRow => \A c \in Columns : saved[c] # row[c] => saved[c] = new[c]
      /\ \A t \in Tables, a \in Agencies :
           ~ (t = j.table /\ a = j.agency) => cache'[t][a] = cache[t][a]
  BY SavedRow
<1>2. row # NoRow => o = Scheduler /\ row = old /\ \A c \in Columns : old[c] <= new[c]
  <2> SUFFICES ASSUME row # NoRow
               PROVE  o = Scheduler /\ row = old /\ \A c \in Columns : old[c] <= new[c]
    OBVIOUS
  <2>1. o = Scheduler
    BY <1>1 DEF RowsInv, HandlersInsert, Inserts, Workers
  <2>2. row = old
    BY <1>1, <2>1 DEF RowsInv, SchedulerSees, Save
  <2>3. SnapshotBelow(j.snapshot)
    BY DEF RowsInv, Save
  <2>4. QED
    BY <1>1, <2>1, <2>2, <2>3 DEF SnapshotBelow
<1>3. Flushed(row, old, new) = new
  <2>1. CASE old = NoRow
    BY <2>1 DEF Flushed
  <2>2. CASE old # NoRow /\ row # NoRow
    <3>1. Flushed(row, old, new) = [c \in Columns |-> new[c]]
      BY <1>2, <2>2 DEF Flushed
    <3>2. QED
      BY <1>1, <3>1 DEF Versions
  <2>3. CASE old # NoRow /\ row = NoRow
    BY <2>3, SaveFacts, RollupAssumption DEF RowsInv
  <2>4. QED
    BY <2>1, <2>2, <2>3
<1>4. saved = new
  BY <1>1, <1>3, SaveRow DEF RowsInv
<1> HIDE DEF old, new, saved
<1>5. row # NoRow => o = Scheduler /\ \A c \in Columns : row[c] <= new[c]
  BY <1>2
<1>6. \A t \in Tables, a \in Agencies :
        cache'[t][a] = IF t = j.table /\ a = j.agency THEN new ELSE cache[t][a]
  BY <1>1, <1>4 DEF saved
<1>7. QED
  BY <1>5, <1>6 DEF new

\* A step that changes no row and no data, and one worker's job at most.
LEMMA RowsJob ==
    ASSUME RowsInv, TypeInv', UNCHANGED <<data, cache>>, NEW o \in Workers, NEW j,
           job' = [job EXCEPT ![o] = j],
           j.snapshot \in {Unread, job[o].snapshot, Snapshot},
           o \in Handlers =>
              /\ j.phase \in {"none", "begun"}
              /\ j.phase = "begun" /\ j.table \in Private =>
                    j.snapshot # Unread /\ j.snapshot.cache[j.table][j.agency] = NoRow
    PROVE  RowsInv'
<1>1. job \in [Workers -> Job] /\ Snapshot.data = data /\ Snapshot.cache = cache
  BY SnapshotType, TypeParts DEF RowsInv, TypeInv, JobsTyped
<1>2. \A u \in Workers : job'[u] = IF u = o THEN j ELSE job[u]
  BY <1>1
<1>3. CacheBelow'
  BY DEF RowsInv, CacheBelow
<1>4. SnapshotBelow(Snapshot)
  <2>1. \A a \in Agencies, c \in Columns : data[a][c] \in Nat
    BY TypeParts DEF RowsInv, RestTyped, Versions
  <2>2. QED
    BY <1>1, <2>1 DEF RowsInv, CacheBelow, SnapshotBelow
<1>5. \A u \in Workers : (job[u].snapshot # Unread => SnapshotBelow(job[u].snapshot))'
  <2>1. \A u \in Workers : job'[u].snapshot # Unread => SnapshotBelow(job'[u].snapshot)
    BY <1>2, <1>4 DEF RowsInv
  <2>2. QED
    BY <2>1 DEF SnapshotBelow
<1>6. HandlersInsert'
  BY <1>2 DEF RowsInv, HandlersInsert, Inserts, Workers
<1>7. SchedulerSees'
  BY <1>1, <1>2, PrivateIs DEF RowsInv, SchedulerSees, Workers
<1>8. QED
  BY <1>3, <1>5, <1>6, <1>7 DEF RowsInv

LEMMA RowsSave ==
    ASSUME RowsInv, TypeInv', NEW o \in Workers, Save(o)
    PROVE  RowsInv'
<1> DEFINE j == job[o]
           new == j.snapshot.data[j.agency]
           row == cache[j.table][j.agency]
           saved == cache'[j.table][j.agency]
<1>1. /\ j.table \in Tables /\ j.agency \in Agencies /\ new \in Versions
      /\ \A t \in Tables, a \in Agencies :
           ~ (t = j.table /\ a = j.agency) => cache'[t][a] = cache[t][a]
      /\ \A c \in Columns : new[c] <= data[j.agency][c]
      /\ row = NoRow => saved = new
      /\ row # NoRow => \A c \in Columns : saved[c] # row[c] => saved[c] = new[c]
  BY SavedRow
<1>2. job \in [Workers -> Job] /\ data' = data /\ job' = [job EXCEPT ![o] = AfterSave(o)]
  BY TypeParts DEF RowsInv, TypeInv, JobsTyped, Save
<1>3. \A u \in Workers : job'[u] = IF u = o THEN AfterSave(o) ELSE job[u]
  BY <1>2
<1>4. AfterSave(o).snapshot = Unread /\ (o # Scheduler => AfterSave(o).phase = "none")
  BY AfterSaveType, NoJobType DEF RowsInv, AfterSave
<1>5. CacheBelow'
  <2> SUFFICES ASSUME NEW t \in Tables, NEW a \in Agencies, cache'[t][a] # NoRow, NEW c \in Columns
               PROVE  cache'[t][a][c] <= data[a][c]
    BY <1>2 DEF CacheBelow
  <2>1. CASE ~ (t = j.table /\ a = j.agency)
    BY <1>1, <2>1 DEF RowsInv, CacheBelow
  <2>2. CASE t = j.table /\ a = j.agency
    <3>1. row # NoRow => row[c] <= data[a][c]
      BY <1>1, <2>2 DEF RowsInv, CacheBelow
    <3>2. cache'[t][a] = saved
      BY <2>2
    <3> HIDE DEF saved, row, new
    <3>3. QED
      BY <1>1, <2>2, <3>1, <3>2
  <2>3. QED
    BY <2>1, <2>2
<1>6. \A u \in Workers : (job[u].snapshot # Unread => SnapshotBelow(job[u].snapshot))'
  BY <1>2, <1>3, <1>4 DEF RowsInv, SnapshotBelow
<1>7. HandlersInsert'
  BY <1>3, <1>4, RollupAssumption DEF RowsInv, HandlersInsert, Inserts, Workers
<1>8. SchedulerSees'
  <2>1. CASE o = Scheduler
    BY <1>3, <1>4, <2>1 DEF SchedulerSees, Workers
  <2>2. CASE o # Scheduler
    <3>1. j.table \in Private => row = NoRow
      BY <2>2, SavedIsSnapshot
    <3>2. job'[Scheduler] = job[Scheduler]
      BY <1>3, <2>2 DEF Workers
    <3>3. ASSUME NEW t \in Private, NEW a \in Agencies, job[Scheduler].snapshot # Unread,
                 job[Scheduler].snapshot.cache[t][a] # NoRow
          PROVE  cache'[t][a] = job[Scheduler].snapshot.cache[t][a]
      <4>1. cache[t][a] = job[Scheduler].snapshot.cache[t][a]
        BY <3>3 DEF RowsInv, SchedulerSees
      <4>2. ~ (t = j.table /\ a = j.agency)
        BY <3>1, <3>3, <4>1
      <4>3. QED
        BY <1>1, <4>1, <4>2, PrivateIs
    <3>4. QED
      BY <3>2, <3>3 DEF SchedulerSees
  <2>3. QED
    BY <2>1, <2>2
<1>9. QED
  BY <1>5, <1>6, <1>7, <1>8 DEF RowsInv

\* A step that leaves the rows, the data and the jobs alone.
LEMMA RowsSame ==
    ASSUME RowsInv, TypeInv', UNCHANGED <<data, cache, job>>
    PROVE  RowsInv'
<1>1. CacheBelow' /\ HandlersInsert' /\ SchedulerSees'
  BY DEF RowsInv, CacheBelow, HandlersInsert, Inserts, SchedulerSees
<1>2. \A u \in Workers : (job[u].snapshot # Unread => SnapshotBelow(job[u].snapshot))'
  BY DEF RowsInv, SnapshotBelow
<1>3. QED
  BY <1>1, <1>2 DEF RowsInv

LEMMA RowsDrop ==
    ASSUME RowsInv, TypeInv', UNCHANGED <<data, cache>>, NEW o \in Workers,
           job' = [job EXCEPT ![o] = NoJob]
    PROVE  RowsInv'
BY NoJobType, RowsJob

LEMMA RowsWrite ==
    ASSUME RowsInv, TypeInv', NEW h \in Handlers, NEW a \in Agencies,
           NEW w \in Writes, Write(h, a, w)
    PROVE  RowsInv'
<1>1. /\ job \in [Workers -> Job] /\ data \in [Agencies -> Versions] /\ cache \in Rows
      /\ w[1] \in Columns
  BY TypeParts, RollupAssumption
     DEF RowsInv, JobsTyped, RestTyped, HandlerWrites, Columns
<1> DEFINE j == IF w[2] = "refresh" THEN Refresh(a) ELSE NoJob
<1>2. cache' = cache /\ \A u \in Workers : job'[u] = IF u = h THEN j ELSE job[u]
  BY <1>1 DEF Write
<1>3. /\ j.snapshot = Unread /\ j.phase \in {"none", "begun"}
      /\ j.phase = "begun" => j.table \notin Private
  BY NoJobType, PrivateIs
<1> HIDE DEF j
<1>4. \A b \in Agencies, c \in Columns : data[b][c] \in Nat /\ data'[b][c] \in Nat /\ data[b][c] <= data'[b][c]
  BY <1>1 DEF Write, Versions
<1>5. CacheBelow'
  <2> SUFFICES ASSUME NEW t \in Tables, NEW b \in Agencies, cache[t][b] # NoRow, NEW c \in Columns
               PROVE  cache[t][b][c] <= data'[b][c]
    BY <1>2 DEF CacheBelow
  <2>1. cache[t][b] \in Versions
    BY <1>1 DEF Rows
  <2>2. cache[t][b][c] \in Nat /\ cache[t][b][c] <= data[b][c]
    BY <2>1 DEF RowsInv, CacheBelow, Versions
  <2>3. QED
    BY <1>4, <2>2
<1>6. \A u \in Workers : (job[u].snapshot # Unread => SnapshotBelow(job[u].snapshot))'
  <2> SUFFICES ASSUME NEW u \in Workers, job'[u].snapshot # Unread
               PROVE  SnapshotBelow(job[u].snapshot)'
    OBVIOUS
  <2>1. u # h /\ job'[u] = job[u]
    BY <1>2, <1>3
  <2>2. job[u].snapshot \in Snapshots
    BY <1>1, <2>1 DEF Job
  <2>3. \A b \in Agencies, c \in Columns : job[u].snapshot.data[b][c] \in Nat
    BY <2>2 DEF Snapshots, Versions
  <2>4. SnapshotBelow(job[u].snapshot)
    BY <2>1 DEF RowsInv
  <2>5. QED
    BY <1>4, <2>1, <2>3, <2>4 DEF SnapshotBelow
<1>7. HandlersInsert'
  BY <1>2, <1>3 DEF RowsInv, HandlersInsert, Inserts, Workers
<1>8. SchedulerSees'
  BY <1>2, RollupAssumption DEF RowsInv, SchedulerSees, Workers
<1>9. QED
  BY <1>5, <1>6, <1>7, <1>8 DEF RowsInv

LEMMA RowsNext ==
    ASSUME RowsInv, [Next]_vars
    PROVE  RowsInv'
<1>1. TypeInv' /\ Scheduler \in Workers
  BY TypeNext DEF RowsInv, Workers
<1>2. ASSUME NEW o \in Workers, Query(o) \/ Reload(o) PROVE RowsInv'
  <2>1. /\ job[o] \in Job
        /\ o \in Handlers => job[o].phase = "begun" /\ job[o].table \notin Private /\ Query(o)
    BY <1>2, TypeParts DEF RowsInv, JobsTyped, HandlersInsert, Query, Reload
  <2>2. PICK j : /\ \/ Query(o) /\ j = [job[o] EXCEPT !.snapshot = Snapshot]
                    \/ Reload(o) /\ j = [job[o] EXCEPT !.phase = "idle", !.snapshot = Snapshot]
                 /\ job' = [job EXCEPT ![o] = j]
    BY <1>2 DEF Query, Reload
  <2>3. j.snapshot = Snapshot /\ j.table = job[o].table
    BY <2>1, <2>2 DEF Job
  <2>4. o \in Handlers => j.phase = "begun"
    <3>1. ~ (Query(o) /\ Reload(o))
      BY DEF Query, Reload
    <3>2. QED
      BY <2>1, <2>2, <3>1 DEF Job
  <2>5. UNCHANGED <<data, cache>>
    BY <1>2 DEF Query, Reload
  <2>6. QED
    BY <1>1, <2>1, <2>2, <2>3, <2>4, <2>5, RowsJob
<1>3. ASSUME NEW o \in Workers, Save(o) PROVE RowsInv'
  BY <1>1, <1>3, RowsSave
<1>4. ASSUME NEW o \in Workers, InsertFailed(o) \/ RefreshError(o) PROVE RowsInv'
  BY <1>1, <1>4, RowsDrop DEF InsertFailed, RefreshError
<1>5. ASSUME NEW h \in Handlers, NEW a \in Agencies, NEW w \in Writes, Write(h, a, w) PROVE RowsInv'
  BY <1>1, <1>5, RowsWrite
<1>6. ASSUME NEW h \in Handlers, NEW a \in Agencies, NEW t \in Tables, ViewMissing(h, a, t)
      PROVE  RowsInv'
  <2> DEFINE j == [Refresh(a) EXCEPT !.table = t, !.snapshot = Snapshot]
  <2>1. Refresh(a) \in Job /\ Refresh(a).agency = a /\ Refresh(a).phase = "begun"
    BY NoJobType
  <2>2. /\ j.table = t /\ j.agency = a /\ j.phase = "begun" /\ j.snapshot = Snapshot
    BY <2>1 DEF Job
  <2>3. /\ Snapshot # Unread /\ Snapshot.cache[t][a] = NoRow /\ h \in Workers
        /\ job' = [job EXCEPT ![h] = j] /\ UNCHANGED <<data, cache>>
    BY <1>6, SnapshotType DEF ViewMissing, RowsInv, TypeInv, Workers
  <2> HIDE DEF j
  <2>4. QED
    BY <1>1, <2>2, <2>3, RowsJob
<1>7. ASSUME NEW a \in Agencies, TakeNext(a) PROVE RowsInv'
  <2> DEFINE j == [Refresh(a) EXCEPT !.snapshot = job[Scheduler].snapshot]
  <2>1. j.snapshot = job[Scheduler].snapshot
    BY NoJobType DEF Job
  <2>2. job' = [job EXCEPT ![Scheduler] = j] /\ UNCHANGED <<data, cache>> /\ Scheduler \notin Handlers
    BY <1>7, RollupAssumption DEF TakeNext
  <2> HIDE DEF j
  <2>3. QED
    BY <1>1, <2>1, <2>2, RowsJob
<1>8. CASE EndQueued \/ EndDaily \/ DailyError
  <2>1. UNCHANGED <<data, cache, job>> \/ (UNCHANGED <<data, cache>> /\ job' = [job EXCEPT ![Scheduler] = NoJob])
    BY <1>8 DEF EndQueued, EndDaily, DailyError
  <2>2. QED
    BY <1>1, <2>1, RowsSame, RowsDrop
<1>9. CASE Restart
  <2>1. UNCHANGED <<data, cache>> /\ \A o \in Workers : job'[o] = NoJob
    BY <1>9 DEF Restart
  <2>2. QED
    BY <1>1, <2>1, NoJobType DEF RowsInv, CacheBelow, HandlersInsert, SchedulerSees, Workers
<1>10. ASSUME Poll \/ DayPasses \/ (\E h \in Handlers : Schedule(h)) \/ UNCHANGED vars PROVE RowsInv'
  BY <1>1, <1>10, RowsSame DEF Poll, DayPasses, Schedule, vars
<1>11. QED
  BY <1>2, <1>3, <1>4, <1>5, <1>6, <1>7, <1>8, <1>9, <1>10, Steps

LEMMA RowsInit == Init => RowsInv
<1> SUFFICES ASSUME Init PROVE RowsInv
  OBVIOUS
<1>1. \A o \in Workers : job[o] = NoJob
  BY DEF Init
<1>2. CacheBelow
  BY DEF Init, CacheBelow
<1>3. QED
  BY <1>1, <1>2, TypeInit, NoJobType DEF RowsInv, HandlersInsert, SchedulerSees, Workers

\* Only a save changes a row.
LEMMA RowsChangeOnSave ==
    ASSUME [Next]_vars, \A o \in Workers : ~ Save(o)
    PROVE  cache' = cache
BY Steps DEF Query, Reload, InsertFailed, RefreshError, Write, ViewMissing, TakeNext, Poll,
    DayPasses, EndQueued, EndDaily, DailyError, Restart, Schedule, vars

\* A row that is saved goes back only where the refresh was overtaken.
LEMMA SaveRegresses ==
    ASSUME RowsInv, NEW o \in Workers, Save(o), NEW t \in Tables, NEW a \in Agencies,
           cache[t][a] # NoRow
    PROVE  /\ cache'[t][a] # NoRow
           /\ \A c \in Columns :
                \/ cache'[t][a][c] >= cache[t][a][c]
                \/ /\ t \in SharedTables /\ Overtaken(o, t, a, c)
                   /\ cache'[t][a][c] = job[o].snapshot.data[a][c]
<1> DEFINE j == job[o]
           old == j.snapshot.cache[t][a]
           new == j.snapshot.data[a]
<1>1. /\ cache[t][a] \in Versions /\ cache \in Rows
      /\ \A c \in Columns : cache[t][a][c] \in Nat
  <2>1. cache \in Rows /\ cache[t][a] \in Versions
    BY TypeParts DEF RowsInv, RestTyped, Rows
  <2>2. QED
    BY <2>1 DEF Versions
<1>2. CASE ~ (t = j.table /\ a = j.agency)
  <2>1. cache'[t][a] = cache[t][a]
    BY <1>2, SavedRow
  <2>2. QED
    BY <1>1, <2>1
<1>3. CASE t = j.table /\ a = j.agency
  <2>1. /\ cache'[t][a] \in Versions /\ new \in Versions /\ j.phase = "begun"
        /\ old # NoRow
        /\ \A c \in Columns :
             cache'[t][a][c] # cache[t][a][c] => cache'[t][a][c] = new[c] /\ old[c] < new[c]
    BY <1>3, SavedRow
  <2>2. t \in Private => \A c \in Columns : cache'[t][a][c] >= cache[t][a][c]
    <3>1. t \in Private => \A c \in Columns : cache[t][a][c] <= new[c] /\ cache'[t][a] = new
      BY <1>3, SavedIsSnapshot
    <3>2. \A c \in Columns : new[c] \in Nat
      BY <2>1 DEF Versions
    <3> HIDE DEF new
    <3>3. QED
      BY <1>1, <3>1, <3>2
  <2>3. ASSUME NEW c \in Columns, ~ cache'[t][a][c] >= cache[t][a][c]
        PROVE  t \in SharedTables /\ Overtaken(o, t, a, c) /\ cache'[t][a][c] = new[c]
    <3>1. t \in SharedTables
      BY <2>2, <2>3, PrivateIs
    <3>2. cache'[t][a][c] \in Nat /\ cache[t][a][c] \in Nat
      BY <1>1, <2>1 DEF Versions
    <3>3. cache'[t][a][c] = new[c] /\ old[c] < new[c]
      <4>1. cache'[t][a][c] # cache[t][a][c]
        BY <2>3, <3>2
      <4>2. QED
        BY <2>1, <4>1
    <3>4. new[c] < cache[t][a][c]
      <4> HIDE DEF new
      <4>1. QED
        BY <2>3, <3>2, <3>3
    <3>5. j.snapshot # Unread
      BY DEF Save
    <3>6. Overtaken(o, t, a, c)
      BY <1>3, <2>1, <3>3, <3>4, <3>5 DEF Overtaken
    <3>7. QED
      BY <3>1, <3>3, <3>6
  <2>4. cache'[t][a] # NoRow
    BY <2>1, RollupAssumption
  <2> HIDE DEF new, old
  <2>5. QED
    BY <2>3, <2>4 DEF new
<1>4. QED
  BY <1>2, <1>3

\* What a dashboard shows is taken back only by two refreshes of one row that race, one of
\* them a campaign handler's: whatever the handlers write and refresh, whatever fails, and
\* for any number of handlers and agencies.  The row of a table that only the scheduler
\* refreshes is never taken back, and no row is lost.
THEOREM RowsTakenBackOnlyByRace == Spec => RowsRegressOnlyByRace
<1> DEFINE Newer ==
             \A t \in Tables, a \in Agencies : cache[t][a] # NoRow =>
                /\ cache'[t][a] # NoRow
                /\ \A c \in Summarised(t) :
                      \/ cache'[t][a][c] >= cache[t][a][c]
                      \/ /\ t \in SharedTables
                         /\ \E o \in Workers :
                               Overtaken(o, t, a, c)
                               /\ cache'[t][a][c] = job[o].snapshot.data[a][c]
<1>1. RowsInv /\ [Next]_vars => RowsInv'
  BY RowsNext
<1>2. RowsInv /\ [Next]_vars => [Newer]_vars
  <2> DEFINE Kept(t, a, c) ==
               \/ cache'[t][a][c] >= cache[t][a][c]
               \/ /\ t \in SharedTables
                  /\ \E o \in Workers :
                        Overtaken(o, t, a, c) /\ cache'[t][a][c] = job[o].snapshot.data[a][c]
  <2> SUFFICES ASSUME RowsInv, [Next]_vars, NEW t \in Tables, NEW a \in Agencies,
                      cache[t][a] # NoRow
               PROVE  cache'[t][a] # NoRow /\ \A c \in Summarised(t) : Kept(t, a, c)
    OBVIOUS
  <2>1. /\ Summarised(t) \subseteq Columns
        /\ \A c \in Columns : cache[t][a][c] \in Nat
    BY TypeParts DEF RowsInv, RestTyped, Rows, Versions, Summarised, Columns
  <2>2. CASE \A o \in Workers : ~ Save(o)
    BY <2>1, <2>2, RowsChangeOnSave
  <2>3. ASSUME NEW o \in Workers, Save(o)
        PROVE  cache'[t][a] # NoRow /\ \A c \in Columns : Kept(t, a, c)
    BY <2>3, SaveRegresses
  <2> HIDE DEF Kept
  <2>4. QED
    BY <2>1, <2>2, <2>3
<1>3. QED
  BY <1>1, <1>2, RowsInit, PTL DEF Spec, RowsRegressOnlyByRace

-----------------------------------------------------------------------------
(* No refresh is lost, as long as nothing fails and every row is there.      *)

\* A handler is about to queue the agency, or it is queued.
Due(a) == (\E h \in Handlers : owed[h] = a) \/ a \in pending

\* A snapshot that the scheduler still works with misses no write but those that have
\* queued, or will queue, another refresh: the queue is drained only between passes.
StaleIsDue ==
    LET snapshot == job[Scheduler].snapshot IN
    snapshot # Unread =>
        \A a \in Agencies, c \in ScheduledColumns : snapshot.data[a][c] # data[a][c] => Due(a)

\* With all the rows there, only the scheduler refreshes, and it rests between passes.
SchedulerAlone ==
    /\ \A t \in Tables, a \in Agencies : cache[t][a] # NoRow
    /\ \A h \in Handlers : job[h] = NoJob
    /\ LET snapshot == job[Scheduler].snapshot IN
       snapshot # Unread => \A t \in Tables, a \in Agencies : snapshot.cache[t][a] # NoRow
    /\ stage = "waiting" => job[Scheduler] = NoJob /\ todo = {}

QueueInv == RowsInv /\ SchedulerAlone /\ StaleIsDue /\ NoLostRefresh

NothingFails == NoHandlerRefreshes /\ Fresh = {} /\ MaxFaults = 0

LEMMA RefreshingFacts ==
    ASSUME NEW t \in Tables, NEW a \in Agencies, NEW c \in Columns
    PROVE  /\ Refreshing(t, a, c) => job[Scheduler].phase = "begun" /\ job[Scheduler].agency = a
           /\ Summarised(t) \subseteq Columns
BY DEF Refreshing, Summarised, Columns

\* The scheduler takes its snapshot: what it has read is current.
LEMMA QueryQueue ==
    ASSUME QueueInv, RowsInv', NEW o \in Workers, Query(o) \/ Reload(o)
    PROVE  QueueInv'
<1>1. o = Scheduler /\ job[o] \in Job /\ job \in [Workers -> Job]
  BY TypeParts, NoJobType DEF QueueInv, SchedulerAlone, RowsInv, JobsTyped, Query, Reload, Workers
<1>2. PICK j : /\ \/ j = [job[o] EXCEPT !.snapshot = Snapshot] /\ j.phase = "begun"
                  \/ j = [job[o] EXCEPT !.phase = "idle", !.snapshot = Snapshot]
                     /\ job[o].phase = "saved"
               /\ job' = [job EXCEPT ![o] = j]
  BY <1>1 DEF Query, Reload, Job
<1>3. /\ UNCHANGED <<data, cache, pending, owed, stage, todo>>
      /\ Snapshot.data = data /\ Snapshot.cache = cache
      /\ stage # "waiting"
  BY <1>1, SnapshotType, NoJobType DEF Query, Reload, Loop, QueueInv, RowsInv, TypeInv, SchedulerAlone
<1>4. /\ j.snapshot = Snapshot /\ j.agency = job[o].agency /\ j.table = job[o].table
      /\ j.phase = job[o].phase \/ job[o].phase = "saved"
  BY <1>1, <1>2 DEF Job
<1>5. \A u \in Workers : job'[u] = IF u = Scheduler THEN j ELSE job[u]
  BY <1>1, <1>2
<1>6. SchedulerAlone'
  BY <1>3, <1>4, <1>5, RollupAssumption DEF QueueInv, SchedulerAlone, Workers
<1>7. StaleIsDue'
  BY <1>1, <1>3, <1>4, <1>5 DEF StaleIsDue
<1>8. NoLostRefresh'
  <2> SUFFICES ASSUME NEW t \in Tables, NEW a \in Agencies,
                      NEW c \in Summarised(t) \cap ScheduledColumns, Behind(t, a, c),
                      Refreshing(t, a, c)
               PROVE  Refreshing(t, a, c)'
    BY <1>3 DEF QueueInv, NoLostRefresh, Behind
  <2>1. job'[Scheduler] = j /\ job[Scheduler].phase = "begun"
    BY <1>1, <1>5 DEF Refreshing
  <2>2. QED
    BY <1>1, <1>3, <1>4, <2>1 DEF Refreshing
<1>9. QED
  BY <1>6, <1>7, <1>8 DEF QueueInv

\* The row that is saved is current, or its agency is due again; the metadata row follows.
LEMMA SaveQueue ==
    ASSUME NoHandlerRefreshes, QueueInv, RowsInv', NEW o \in Workers, Save(o)
    PROVE  QueueInv'
<1> DEFINE j == job[o]
           new == j.snapshot.data[j.agency]
<1>1. o = Scheduler /\ job[o] \in Job /\ job \in [Workers -> Job] /\ stage # "waiting"
      /\ j.phase = "begun" /\ j.snapshot # Unread
  BY TypeParts, NoJobType DEF QueueInv, SchedulerAlone, RowsInv, JobsTyped, Save, Workers
<1>2. /\ j.table \in Tables /\ j.agency \in Agencies /\ new \in Versions
      /\ \A t \in Tables, a \in Agencies :
           cache'[t][a] = IF t = j.table /\ a = j.agency THEN new ELSE cache[t][a]
      /\ \A c \in Columns : new[c] <= data[j.agency][c]
  BY SavedRow, SavedIsSnapshot, PrivateIs DEF QueueInv
<1>3. /\ UNCHANGED <<data, pending, owed, stage, todo>>
      /\ \A u \in Workers : job'[u] = IF u = Scheduler THEN AfterSave(Scheduler) ELSE job[u]
  BY <1>1 DEF Save, Loop
<1>4. /\ AfterSave(Scheduler).snapshot = Unread
      /\ j.table = "dashboard" => /\ AfterSave(Scheduler).phase = "begun"
                                 /\ AfterSave(Scheduler).agency = j.agency
                                 /\ AfterSave(Scheduler).table = "metadata"
  <2>1. AfterSave(Scheduler).snapshot = Unread
    BY <1>1, AfterSaveType DEF QueueInv, RowsInv
  <2>2. j.table = "dashboard" =>
          AfterSave(Scheduler) = [j EXCEPT !.table = "metadata", !.snapshot = Unread]
    BY <1>1 DEF AfterSave
  <2>3. QED
    BY <1>1, <2>1, <2>2 DEF Job
<1>5. SchedulerAlone'
  BY <1>1, <1>2, <1>3, <1>4, RollupAssumption DEF QueueInv, SchedulerAlone, Workers
<1>6. StaleIsDue'
  BY <1>1, <1>3, <1>4 DEF StaleIsDue
<1>7. NoLostRefresh'
  <2> SUFFICES ASSUME NEW t \in Tables, NEW a \in Agencies,
                      NEW c \in Summarised(t) \cap ScheduledColumns, Behind(t, a, c)'
               PROVE  Due(a) \/ a \in todo \/ Refreshing(t, a, c)'
    BY <1>3 DEF NoLostRefresh, Due
  <2>1. CASE t = j.table /\ a = j.agency
    <3>1. new[c] < data[a][c]
      BY <1>2, <1>3, <2>1 DEF Behind
    <3>2. new[c] # data[a][c]
      <4>1. c \in Columns
        BY DEF Summarised, Columns
      <4>2. new[c] \in Nat
        BY <1>2, <4>1 DEF Versions
      <4> HIDE DEF new
      <4>3. QED
        BY <3>1, <4>2
    <3>3. QED
      BY <1>1, <2>1, <3>2 DEF QueueInv, StaleIsDue
  <2>2. CASE ~ (t = j.table /\ a = j.agency)
    <3>1. Behind(t, a, c)
      BY <1>2, <1>3, <2>2 DEF Behind
    <3>2. CASE Due(a) \/ a \in todo
      BY <3>2
    <3>3. CASE Refreshing(t, a, c)
      <4>1. j.agency = a /\ j.table = "dashboard" /\ t = "metadata"
        BY <1>1, <2>2, <3>3 DEF Refreshing
      <4>2. job'[Scheduler] = AfterSave(Scheduler)
        BY <1>1, <1>3
      <4>3. QED
        BY <1>4, <4>1, <4>2 DEF Refreshing
    <3>4. QED
      BY <3>1, <3>2, <3>3 DEF QueueInv, NoLostRefresh, Due
  <2>3. QED
    BY <2>1, <2>2
<1>8. QED
  BY <1>5, <1>6, <1>7 DEF QueueInv

\* A handler's write is owed, and what was due stays so.
LEMMA WriteQueue ==
    ASSUME NoHandlerRefreshes, QueueInv, RowsInv', NEW h \in Handlers, NEW a \in Agencies,
           NEW w \in Writes, Write(h, a, w)
    PROVE  QueueInv'
<1>1. /\ UNCHANGED <<cache, pending, stage, todo>> /\ job[h] = NoJob /\ owed[h] = NoAgency
      /\ w[1] \in Columns /\ w[2] # "refresh" /\ job \in [Workers -> Job] /\ h # Scheduler
      /\ data \in [Agencies -> Versions] /\ owed \in [Handlers -> Agencies \cup {NoAgency}]
  BY TypeParts, RollupAssumption
     DEF Write, Loop, Available, QueueInv, RowsInv, JobsTyped, RestTyped, HandlerWrites,
         Columns, NoHandlerRefreshes
<1>2. job' = job
  BY <1>1 DEF Write
<1>3. \A b \in Agencies : Due(b) => Due(b)'
  BY <1>1, RollupAssumption DEF Write, Due
<1>4. \A b \in Agencies, c \in ScheduledColumns : data'[b][c] # data[b][c] => Due(b)'
  <2> SUFFICES ASSUME NEW b \in Agencies, NEW c \in ScheduledColumns, data'[b][c] # data[b][c]
               PROVE  Due(b)'
    OBVIOUS
  <2>1. b = a /\ c = w[1]
    BY <1>1 DEF Write, Versions, ScheduledColumns
  <2>2. w[2] = "schedule"
    BY <2>1 DEF ScheduledColumns
  <2>3. owed'[h] = a
    BY <1>1, <2>2 DEF Write
  <2>4. QED
    BY <2>1, <2>3 DEF Due
<1>5. SchedulerAlone'
  BY <1>1, <1>2 DEF QueueInv, SchedulerAlone
<1>6. StaleIsDue'
  BY <1>2, <1>3, <1>4 DEF QueueInv, StaleIsDue
<1>7. NoLostRefresh'
  <2> SUFFICES ASSUME NEW t \in Tables, NEW b \in Agencies,
                      NEW c \in Summarised(t) \cap ScheduledColumns, Behind(t, b, c)'
               PROVE  Due(b)' \/ b \in todo \/ Refreshing(t, b, c)'
    BY <1>1 DEF NoLostRefresh, Due
  <2>1. CASE data'[b][c] # data[b][c]
    BY <1>4, <2>1
  <2>2. CASE data'[b][c] = data[b][c]
    <3>1. Behind(t, b, c)
      BY <1>1, <2>2 DEF Behind
    <3>2. Refreshing(t, b, c) => Refreshing(t, b, c)'
      BY <1>2, <2>2 DEF Refreshing
    <3>3. QED
      BY <1>3, <3>1, <3>2 DEF QueueInv, NoLostRefresh, Due
  <2>3. QED
    BY <2>1, <2>2
<1>8. QED
  BY <1>5, <1>6, <1>7 DEF QueueInv

\* Queued, drained or taken, an agency stays due until its refresh has read the data.
LEMMA ScheduleQueue ==
    ASSUME QueueInv, RowsInv', NEW h \in Handlers, Schedule(h)
    PROVE  QueueInv'
<1>1. /\ UNCHANGED <<data, cache, stage, todo, job>>
      /\ \A a \in Agencies : Due(a) => Due(a)'
  BY TypeParts DEF Schedule, Loop, Due, QueueInv, RowsInv, RestTyped
<1>2. SchedulerAlone' /\ StaleIsDue'
  BY <1>1 DEF QueueInv, SchedulerAlone, StaleIsDue
<1>3. NoLostRefresh'
  BY <1>1 DEF QueueInv, NoLostRefresh, Due, Behind, Refreshing
<1>4. QED
  BY <1>2, <1>3 DEF QueueInv

LEMMA PollQueue ==
    ASSUME QueueInv, RowsInv', Poll
    PROVE  QueueInv'
<1>1. /\ UNCHANGED <<data, cache, owed, job>> /\ todo' = pending /\ pending' = {}
      /\ job[Scheduler] = NoJob /\ todo = {} /\ stage' # "waiting"
  BY DEF Poll, QueueInv, SchedulerAlone
<1>2. SchedulerAlone' /\ StaleIsDue'
  BY <1>1, NoJobType DEF QueueInv, SchedulerAlone, StaleIsDue
<1>3. NoLostRefresh'
  BY <1>1 DEF QueueInv, NoLostRefresh, Behind, Refreshing
<1>4. QED
  BY <1>2, <1>3 DEF QueueInv

LEMMA TakeQueue ==
    ASSUME QueueInv, RowsInv', NEW a \in Agencies, TakeNext(a)
    PROVE  QueueInv'
<1> DEFINE j == [Refresh(a) EXCEPT !.snapshot = job[Scheduler].snapshot]
<1>1. /\ j.snapshot = job[Scheduler].snapshot /\ j.agency = a /\ j.phase = "begun"
      /\ j.table = "dashboard"
  <2>1. /\ Refresh(a) \in Job /\ Refresh(a).agency = a /\ Refresh(a).phase = "begun"
        /\ Refresh(a).table = "dashboard"
    BY NoJobType
  <2>2. QED
    BY <2>1 DEF Job
<1>2. /\ job' = [job EXCEPT ![Scheduler] = j] /\ todo' = todo \ {a} /\ stage # "waiting"
      /\ job[Scheduler].phase # "begun"
      /\ UNCHANGED <<data, cache, pending, owed, stage>>
  BY DEF TakeNext, BetweenAgencies
<1> HIDE DEF j
<1>3. \A u \in Workers : job'[u] = IF u = Scheduler THEN j ELSE job[u]
  BY <1>2, TypeParts DEF QueueInv, RowsInv, JobsTyped
<1>4. job'[Scheduler] = j
  BY <1>3 DEF Workers
<1>5. SchedulerAlone'
  BY <1>1, <1>2, <1>3, <1>4, RollupAssumption DEF QueueInv, SchedulerAlone, Workers
<1>6. StaleIsDue'
  BY <1>1, <1>2, <1>4 DEF QueueInv, StaleIsDue, Due
<1>7. NoLostRefresh'
  <2> SUFFICES ASSUME NEW t \in Tables, NEW b \in Agencies,
                      NEW c \in Summarised(t) \cap ScheduledColumns, Behind(t, b, c)
               PROVE  Due(b) \/ b \in todo' \/ Refreshing(t, b, c)'
    BY <1>2 DEF NoLostRefresh, Due, Behind
  <2>1. Due(b) \/ b \in todo
    BY <1>2 DEF QueueInv, NoLostRefresh, Due, Refreshing
  <2>2. CASE b = a
    <3>1. CASE j.snapshot = Unread \/ j.snapshot.data[a][c] = data[a][c]
      BY <1>1, <1>2, <1>4, <2>2, <3>1 DEF Refreshing, Tables
    <3>2. CASE j.snapshot # Unread /\ j.snapshot.data[a][c] # data[a][c]
      BY <1>1, <2>2, <3>2 DEF QueueInv, StaleIsDue
    <3>3. QED
      BY <3>1, <3>2
  <2>3. QED
    BY <1>2, <2>1, <2>2
<1>8. QED
  BY <1>5, <1>6, <1>7 DEF QueueInv

\* The end of a pass.
LEMMA EndQueue ==
    ASSUME QueueInv, RowsInv', EndQueued \/ EndDaily
    PROVE  QueueInv'
<1>1. /\ UNCHANGED <<data, cache, pending, owed>> /\ todo = {}
      /\ job[Scheduler].phase # "begun" /\ todo' \subseteq Agencies
      /\ \/ job' = job /\ stage' # "waiting"
         \/ job' = [job EXCEPT ![Scheduler] = NoJob] /\ todo' = {}
  BY DEF EndQueued, EndDaily, BetweenAgencies
<1>2. job \in [Workers -> Job] /\ Scheduler \in Workers
  BY TypeParts DEF QueueInv, RowsInv, JobsTyped, Workers
<1>3. /\ \A h \in Handlers : job'[h] = job[h]
      /\ \/ job'[Scheduler] = job[Scheduler] /\ stage' # "waiting"
         \/ job'[Scheduler] = NoJob /\ todo' = {}
  BY <1>1, <1>2, RollupAssumption DEF Workers
<1>4. SchedulerAlone'
  BY <1>1, <1>3, NoJobType DEF QueueInv, SchedulerAlone
<1>5. StaleIsDue'
  BY <1>1, <1>3, NoJobType DEF QueueInv, StaleIsDue, Due
<1>6. NoLostRefresh'
  BY <1>1 DEF QueueInv, NoLostRefresh, Behind, Refreshing
<1>7. QED
  BY <1>4, <1>5, <1>6 DEF QueueInv

LEMMA QueueSame ==
    ASSUME QueueInv, RowsInv', UNCHANGED <<data, cache, pending, owed, stage, todo, job>>
    PROVE  QueueInv'
BY DEF QueueInv, SchedulerAlone, StaleIsDue, NoLostRefresh, Due, Behind, Refreshing

LEMMA QueueNext ==
    ASSUME NothingFails, QueueInv, [Next]_vars
    PROVE  QueueInv'
<1>1. RowsInv' /\ NoHandlerRefreshes
  BY RowsNext DEF QueueInv, NothingFails
<1>2. ~ faults < MaxFaults
  BY TypeParts DEF QueueInv, RowsInv, RestTyped, NothingFails
<1>3. ASSUME NEW o \in Workers, InsertFailed(o) PROVE FALSE
  <2>1. o = Scheduler
    BY <1>3, NoJobType DEF InsertFailed, QueueInv, SchedulerAlone, Workers
  <2>2. job[o] \in Job /\ job[o].agency \in Agencies
    BY <1>3, TypeParts DEF QueueInv, RowsInv, JobsTyped, InsertFailed
  <2>3. QED
    BY <1>3, <2>1, <2>2 DEF InsertFailed, Inserts, QueueInv, SchedulerAlone, Job
<1>4. ASSUME NEW h \in Handlers, NEW a \in Agencies, NEW t \in Tables, ViewMissing(h, a, t)
      PROVE  FALSE
  BY <1>4 DEF ViewMissing, QueueInv, SchedulerAlone
<1>5. ~ DailyError /\ ~ Restart /\ \A o \in Workers : ~ RefreshError(o)
  BY <1>2 DEF DailyError, Restart, RefreshError
<1>6. CASE DayPasses \/ UNCHANGED vars
  BY <1>1, <1>6, QueueSame DEF DayPasses, vars, Loop
<1>7. QED
  BY <1>1, <1>3, <1>4, <1>5, <1>6, Steps, QueryQueue, SaveQueue, WriteQueue, ScheduleQueue,
     PollQueue, TakeQueue, EndQueue

LEMMA QueueInit ==
    ASSUME NothingFails, Init
    PROVE  QueueInv
<1>1. \A t \in Tables, a \in Agencies : cache[t][a] = [c \in Columns |-> 0]
  BY DEF Init, NothingFails
<1>2. [c \in Columns |-> 0] \in Versions
  BY RollupAssumption DEF Versions
<1>3. \A o \in Workers : job[o] = NoJob
  BY DEF Init
<1>4. SchedulerAlone
  BY <1>1, <1>2, <1>3, NoJobType, RollupAssumption DEF Init, SchedulerAlone, Workers
<1>5. StaleIsDue
  BY <1>3, NoJobType DEF StaleIsDue, Workers
<1>6. \A t \in Tables, a \in Agencies : \A c \in Summarised(t) : ~ Behind(t, a, c)
  <2> SUFFICES ASSUME NEW t \in Tables, NEW a \in Agencies, NEW c \in Summarised(t)
               PROVE  cache[t][a][c] = 0 /\ data[a][c] = 0
    BY DEF Behind
  <2>1. c \in Columns
    BY DEF Summarised, Columns
  <2>2. QED
    BY <1>1, <2>1 DEF Init
<1>7. QED
  BY <1>4, <1>5, <1>6, RowsInit DEF QueueInv, NoLostRefresh

\* When nothing fails, however the writes of any number of handlers fall between the drain,
\* the snapshots and the saves of the scheduler, a row that is behind a write has a refresh
\* coming that will read it.
THEOREM NoRefreshLost ==
    ASSUME NothingFails
    PROVE  Spec => []NoLostRefresh
<1>1. Init => QueueInv
  BY QueueInit
<1>2. QueueInv /\ [Next]_vars => QueueInv'
  BY QueueNext
<1>3. QueueInv => NoLostRefresh
  BY DEF QueueInv
<1>4. QED
  BY <1>1, <1>2, <1>3, PTL DEF Spec
=============================================================================
