------------------------- MODULE RequestWorkflowProofs -------------------------
(***************************************************************************)
(* Proofs about RequestWorkflow for any sessions, workflows, templates and *)
(* payloads: type correctness, and that a request has at most one active   *)
(* workflow.                                                               *)
(*                                                                         *)
(* Then what handlers that run one after another promise of dates, of      *)
(* ended workflows, of closed requests and of archived templates.  With    *)
(* two handlers at once the snapshots grow stale and none of this is true. *)
(* One promise is kept for any number of them: a GET changes dates only.   *)
(***************************************************************************)
EXTENDS RequestWorkflow, TLAPS

Work == [Keys -> Task]

-----------------------------------------------------------------------------
(* The operators on tasks keep their types.                                  *)

\* _apply_task_status gives a task.
LEMMA MarkedType ==
    ASSUME NEW task \in Task, NEW status \in TaskStatuses
    PROVE  Marked(task, status) \in Task
BY DEF Marked, Task, Times, TaskStatuses

\* Scheduling a follow-up changes a due date only.
LEMMA ScheduledType ==
    ASSUME NEW work \in Work, NEW k \in Keys
    PROVE  Scheduled(work, k) \in Work
<1>1. FollowUp \in Keys
  BY DEF FollowUp, Keys
<1>2. [work[FollowUp] EXCEPT !.due = "now"] \in Task
  BY <1>1 DEF Work, Task, Times
<1>3. QED
  BY <1>1, <1>2 DEF Scheduled, Work

\* So does filling in a missing one.
LEMMA EnsuredType ==
    ASSUME NEW work \in Work
    PROVE  Ensured(work) \in Work
<1>1. FollowUp \in Keys
  BY DEF FollowUp, Keys
<1>2. [work[FollowUp] EXCEPT !.due = "now"] \in Task
  BY <1>1 DEF Work, Task, Times
<1>3. QED
  BY <1>1, <1>2 DEF Ensured, Work

\* Applying one status of a payload gives tasks.
LEMMA ApplyType ==
    ASSUME NEW work \in Work, NEW k \in Keys, NEW status \in TaskStatuses \cup {Unset}
    PROVE  Apply(work, k, status) \in Work
<1>1. CASE status = Unset
  BY <1>1 DEF Apply
<1>2. CASE status # Unset
  <2>1. status \in TaskStatuses
    BY <1>2
  <2>2. Marked(work[k], status) \in Task
    BY <2>1, MarkedType DEF Work
  <2>3. [work EXCEPT ![k] = Marked(@, status)] \in Work
    BY <2>2 DEF Work
  <2>4. QED
    BY <1>2, <2>3, ScheduledType DEF Apply
<1>3. QED
  BY <1>1, <1>2

\* A whole payload of update_task gives tasks.
LEMMA TaskAfterType ==
    ASSUME NEW work \in Work, NEW k \in Keys, NEW p \in TaskUpdate
    PROVE  TaskAfter(work, k, p) \in Work
<1> DEFINE marked == StatusApplied(work, k, p)
           reached == IF p.reachedOut THEN [marked EXCEPT ![k].due = "now"] ELSE marked
           dated == IF p.due = Unset THEN reached ELSE [reached EXCEPT ![k].due = p.due]
<1>1. /\ p.isCompleted \in TaskStatuses \cup {Unset}
      /\ p.status \in TaskStatuses \cup {Unset}
      /\ p.due # Unset => p.due \in Times
  BY DEF TaskUpdate, TaskStatuses, Times
<1>2. marked \in Work
  BY <1>1, ApplyType DEF StatusApplied
<1>3. reached \in Work
  <2>1. [marked[k] EXCEPT !.due = "now"] \in Task
    BY <1>2 DEF Work, Task, Times
  <2>2. QED
    BY <1>2, <2>1 DEF Work
<1>4. dated \in Work
  <2>1. p.due # Unset => [reached[k] EXCEPT !.due = p.due] \in Task
    BY <1>1, <1>3 DEF Work, Task
  <2>2. QED
    BY <1>3, <2>1 DEF Work
<1>5. QED
  BY <1>4, EnsuredType DEF TaskAfter

\* _maybe_auto_complete_workflow gives a workflow row.
LEMMA AutoCompletedType ==
    ASSUME NEW row \in Workflow, NEW work
    PROVE  AutoCompleted(row, work) \in Workflow
BY DEF AutoCompleted, Workflow

\* A flush writes no time that is still to come.
LEMMA FlushTaskType ==
    ASSUME NEW task \in Committed, NEW old \in Task, NEW new \in Task
    PROVE  FlushTask(task, old, new) \in Committed
BY DEF FlushTask, Committed, Task, Times, Landed, Dirty, TaskStatuses

LEMMA FlushRowType ==
    ASSUME NEW row \in Workflow, NEW old \in Workflow, NEW new \in Workflow
    PROVE  FlushRow(row, old, new) \in Workflow
BY DEF FlushRow, Workflow, Dirty

\* The records a handler starts from are of their types.
LEMMA EmptyTypes ==
    /\ Unborn \in Workflow
    /\ NoTasks \in Work
    /\ NoTasks \in [Keys -> Committed]
    /\ Idle \in Transaction
<1>1. Unborn \in Workflow
  BY DEF Unborn, Workflow
<1>2. NoTask \in Task /\ NoTask \in Committed
  BY DEF NoTask, Task, Committed, Times
<1>3. NoTasks \in Work /\ NoTasks \in [Keys -> Committed]
  BY <1>2 DEF NoTasks, Work
<1>4. Idle \in Transaction
  BY <1>1, <1>3 DEF Idle, Transaction, Work, Ops
<1>5. QED
  BY <1>1, <1>3, <1>4

\* Committed tasks are tasks.
LEMMA CommittedWork ==
    ASSUME TypeOK, NEW w \in Workflows
    PROVE  tasks[w] \in Work /\ workflows[w] \in Workflow
BY DEF TypeOK, Work, Committed, Task, Times

-----------------------------------------------------------------------------
(* Type correctness.                                                         *)

\* A handler that begins with a transaction of the right type keeps TypeOK.
LEMMA BeginType ==
    ASSUME TypeOK, NEW s \in Sessions, NEW t \in Transaction,
           t.op = "archive" => t.template \in Templates,
           Begin(s, t)
    PROVE  TypeOK'
BY DEF TypeOK, Begin

\* So does one that rewrites the tasks of a workflow.
LEMMA RewriteType ==
    ASSUME TypeOK, NEW s \in Sessions, NEW op \in Ops \ {"archive"}, NEW w \in Workflows,
           NEW row \in Workflow, NEW work \in Work,
           Rewrite(s, op, w, row, work)
    PROVE  TypeOK'
<1> DEFINE t == [Idle EXCEPT !.op = op, !.workflow = w, !.row = workflows[w], !.newRow = row,
                             !.work = tasks[w], !.newWork = work]
<1>1. t \in Transaction
  BY EmptyTypes, CommittedWork DEF Transaction, Work
<1>2. t.op = op
  BY DEF Idle
<1>3. Begin(s, t)
  BY DEF Rewrite
<1>4. QED
  BY <1>1, <1>2, <1>3, BeginType

\* The variables have their types initially.
LEMMA InitType == Init => TypeOK
<1> SUFFICES ASSUME Init PROVE TypeOK
  OBVIOUS
<1>1. Idle.op # "archive"
  BY DEF Idle
<1>2. QED
  BY <1>1, EmptyTypes DEF Init, TypeOK

\* A start transaction has its type: a snapshot of the template, all tasks open.
LEMMA StartType ==
    ASSUME TypeOK, NEW s \in Sessions, NEW w \in Workflows, NEW t \in Templates,
           StartBegin(s, w, t)
    PROVE  TypeOK'
<1> DEFINE row == [status |-> "Active", template |-> t]
           start == [Idle EXCEPT !.op = "start", !.workflow = w, !.newWork = NewWork(t),
                                 !.newRow = row]
<1>1. row \in Workflow
  BY DEF Workflow
<1>2. NewWork(t) \in Work
  <2>1. NoTask \in Task /\ [NoTask EXCEPT !.status = "Open"] \in Task
    BY DEF NoTask, Task, Times, TaskStatuses
  <2>2. QED
    BY <2>1 DEF NewWork, Work
<1>3. start \in Transaction /\ start.op = "start"
  BY <1>1, <1>2, EmptyTypes DEF Transaction, Work, Ops
<1>4. Begin(s, start)
  BY DEF StartBegin
<1>5. QED
  BY <1>3, <1>4, BeginType

\* update_workflow ends or reopens the workflow it names.
LEMMA UpdateWorkflowType ==
    ASSUME TypeOK, NEW s \in Sessions, NEW w \in Workflows, NEW status \in WorkflowStatuses,
           UpdateWorkflowBegin(s, w, status)
    PROVE  TypeOK'
<1> DEFINE row == [workflows[w] EXCEPT !.status = IF status = "Cancelled" THEN "Terminated" ELSE status]
<1>1. workflows[w] \in Workflow /\ tasks[w] \in Work
  BY CommittedWork
<1>2. status \in {"Active", "Completed", "Terminated", "Cancelled"}
  BY WorkflowAssumption
<1>3. row \in Workflow
  BY <1>1, <1>2 DEF Workflow
<1>4. Rewrite(s, "update", w, row, tasks[w])
  BY DEF UpdateWorkflowBegin
<1>5. QED
  BY <1>1, <1>3, <1>4, RewriteType DEF Ops

\* update_task.
LEMMA UpdateTaskType ==
    ASSUME TypeOK, NEW s \in Sessions, NEW w \in Workflows, NEW k \in Keys, NEW p \in TaskUpdates,
           UpdateTaskBegin(s, w, k, p)
    PROVE  TypeOK'
<1> DEFINE work == TaskAfter(tasks[w], k, p)
<1>1. p \in TaskUpdate
  BY WorkflowAssumption
<1>2. work \in Work
  BY <1>1, CommittedWork, TaskAfterType
<1>3. AutoCompleted(workflows[w], work) \in Workflow
  BY CommittedWork, AutoCompletedType
<1>4. Rewrite(s, "task", w, AutoCompleted(workflows[w], work), work)
  BY DEF UpdateTaskBegin
<1>5. QED
  BY <1>2, <1>3, <1>4, RewriteType DEF Ops

\* Completing the open terms task of a workflow.
LEMMA CompleteTermsType ==
    ASSUME TypeOK, NEW s \in Sessions, NEW op \in {"accept", "check"}, NEW w \in Workflows,
           CompleteTerms(s, op, w)
    PROVE  TypeOK'
<1> DEFINE work == [tasks[w] EXCEPT ![Terms] = Marked(@, "Done")]
<1>1. Terms \in Keys
  BY DEF Keys
<1>2. tasks[w] \in Work /\ workflows[w] \in Workflow
  BY CommittedWork
<1>3. Marked(tasks[w][Terms], "Done") \in Task
  BY <1>1, <1>2, MarkedType DEF Work, TaskStatuses
<1>4. work \in Work
  BY <1>2, <1>3 DEF Work
<1>5. AutoCompleted(workflows[w], work) \in Workflow
  BY <1>2, AutoCompletedType
<1>6. Rewrite(s, op, w, AutoCompleted(workflows[w], work), work)
  BY DEF CompleteTerms
<1>7. QED
  BY <1>4, <1>5, <1>6, RewriteType DEF Ops

\* The client's acceptance, with or without an open task.
LEMMA AcceptType ==
    ASSUME TypeOK, NEW s \in Sessions, AcceptBegin(s)
    PROVE  TypeOK'
<1>1. CASE \E w \in Workflows : CompleteTerms(s, "accept", w)
  BY <1>1, CompleteTermsType
<1>2. CASE Begin(s, [Idle EXCEPT !.op = "accept"])
  <2>1. [Idle EXCEPT !.op = "accept"] \in Transaction
    BY EmptyTypes DEF Transaction, Ops
  <2>2. [Idle EXCEPT !.op = "accept"].op = "accept"
    BY DEF Idle
  <2>3. QED
    BY <1>2, <2>1, <2>2, BeginType
<1>3. QED
  BY <1>1, <1>2 DEF AcceptBegin

\* An archive names its template, and the workflow it terminates if there is one.
LEMMA ArchiveType ==
    ASSUME TypeOK, NEW s \in Sessions, NEW t \in Templates, ArchiveBegin(s, t)
    PROVE  TypeOK'
<1>1. CASE \E w \in Workflows :
             Begin(s, [Idle EXCEPT !.op = "archive", !.template = t, !.workflow = w,
                                   !.row = workflows[w],
                                   !.newRow = [workflows[w] EXCEPT !.status = "Terminated"],
                                   !.work = tasks[w], !.newWork = tasks[w]])
  <2>1. PICK w \in Workflows :
             Begin(s, [Idle EXCEPT !.op = "archive", !.template = t, !.workflow = w,
                                   !.row = workflows[w],
                                   !.newRow = [workflows[w] EXCEPT !.status = "Terminated"],
                                   !.work = tasks[w], !.newWork = tasks[w]])
    BY <1>1
  <2> DEFINE archive == [Idle EXCEPT !.op = "archive", !.template = t, !.workflow = w,
                                     !.row = workflows[w],
                                     !.newRow = [workflows[w] EXCEPT !.status = "Terminated"],
                                     !.work = tasks[w], !.newWork = tasks[w]]
  <2>2. workflows[w] \in Workflow /\ tasks[w] \in Work
    BY CommittedWork
  <2>3. [workflows[w] EXCEPT !.status = "Terminated"] \in Workflow
    BY <2>2 DEF Workflow
  <2>4. archive \in Transaction /\ archive.template = t
    BY <2>2, <2>3, EmptyTypes DEF Transaction, Work, Ops
  <2>5. QED
    BY <2>1, <2>4, BeginType
<1>2. CASE Begin(s, [Idle EXCEPT !.op = "archive", !.template = t])
  <2> DEFINE archive == [Idle EXCEPT !.op = "archive", !.template = t]
  <2>1. archive \in Transaction /\ archive.template = t
    BY EmptyTypes DEF Transaction, Ops
  <2>2. QED
    BY <1>2, <2>1, BeginType
<1>3. QED
  BY <1>1, <1>2 DEF ArchiveBegin

\* A GET that fills in a missing due date.
LEMMA ViewType ==
    ASSUME TypeOK, NEW s \in Sessions, NEW w \in Workflows, ViewBegin(s, w)
    PROVE  TypeOK'
<1>1. Ensured(tasks[w]) \in Work /\ workflows[w] \in Workflow
  BY CommittedWork, EnsuredType
<1>2. Rewrite(s, "view", w, workflows[w], Ensured(tasks[w]))
  BY DEF ViewBegin
<1>3. QED
  BY <1>1, <1>2, RewriteType DEF Ops

\* A commit writes rows and tasks of their types.
LEMMA CommitType ==
    ASSUME TypeOK, NEW s \in Sessions, Commit(s)
    PROVE  TypeOK'
<1> DEFINE t == tx[s]
<1>1. t \in Transaction
  BY DEF TypeOK
<1>2. t.row \in Workflow /\ t.newRow \in Workflow /\ t.work \in Work /\ t.newWork \in Work
  BY <1>1 DEF Transaction, Work
<1>3. workflows' \in [Workflows -> Workflow]
  <2>1. \A w \in Workflows : FlushRow(workflows[w], t.row, t.newRow) \in Workflow
    BY <1>2, FlushRowType DEF TypeOK
  <2>2. QED
    BY <2>1 DEF Commit, TypeOK
<1>4. tasks' \in [Workflows -> [Keys -> Committed]]
  <2>1. ASSUME NEW w \in Workflows, NEW k \in Keys
        PROVE  FlushTask(tasks[w][k], t.work[k], t.newWork[k]) \in Committed
    BY <1>2, FlushTaskType DEF TypeOK, Work
  <2>2. QED
    BY <2>1 DEF Commit, TypeOK
<1>5. tx' \in [Sessions -> Transaction]
  BY EmptyTypes DEF Commit, TypeOK
<1>6. archived' \subseteq Templates
  BY DEF Commit, TypeOK
<1>7. open' \in BOOLEAN /\ accepted' \in BOOLEAN
  BY DEF Commit, TypeOK
<1>8. \A u \in Sessions : tx'[u].op = "archive" => tx'[u].template \in Templates
  BY DEF Commit, TypeOK, Idle
<1>9. QED
  BY <1>3, <1>4, <1>5, <1>6, <1>7, <1>8 DEF TypeOK

\* A handler that writes nothing leaves every row as it was.
LEMMA RollbackType ==
    ASSUME TypeOK, NEW s \in Sessions, Rollback(s)
    PROVE  TypeOK'
<1>1. Idle.op # "archive"
  BY DEF Idle
<1>2. QED
  BY <1>1, EmptyTypes DEF Rollback, TypeOK

\* Every step keeps the types.
LEMMA NextType == TypeOK /\ [Next]_vars => TypeOK'
<1> SUFFICES ASSUME TypeOK, [Next]_vars PROVE TypeOK'
  OBVIOUS
<1>1. CASE UNCHANGED vars
  BY <1>1 DEF vars, TypeOK, Committed, Transaction
<1>2. ASSUME NEW s \in Sessions, NEW w \in Workflows, NEW t \in Templates, StartBegin(s, w, t)
      PROVE  TypeOK'
  BY <1>2, StartType
<1>3. ASSUME NEW s \in Sessions, NEW w \in Workflows, NEW status \in WorkflowStatuses,
             UpdateWorkflowBegin(s, w, status)
      PROVE  TypeOK'
  BY <1>3, UpdateWorkflowType
<1>4. ASSUME NEW s \in Sessions, NEW w \in Workflows, NEW k \in Keys, NEW p \in TaskUpdates,
             UpdateTaskBegin(s, w, k, p)
      PROVE  TypeOK'
  BY <1>4, UpdateTaskType
<1>5. ASSUME NEW s \in Sessions, NEW w \in Workflows, CheckBegin(s, w) PROVE TypeOK'
  BY <1>5, CompleteTermsType DEF CheckBegin
<1>6. ASSUME NEW s \in Sessions, NEW w \in Workflows, ViewBegin(s, w) PROVE TypeOK'
  BY <1>6, ViewType
<1>7. ASSUME NEW s \in Sessions, AcceptBegin(s) PROVE TypeOK'
  BY <1>7, AcceptType
<1>8. ASSUME NEW s \in Sessions, NEW t \in Templates, ArchiveBegin(s, t) PROVE TypeOK'
  BY <1>8, ArchiveType
<1>9. ASSUME NEW s \in Sessions, Commit(s) PROVE TypeOK'
  BY <1>9, CommitType
<1>10. ASSUME NEW s \in Sessions, Refused(s) \/ Disconnect(s) PROVE TypeOK'
  BY <1>10, RollbackType DEF Refused, Disconnect
<1>11. ASSUME NEW s \in Sessions, CloseOrReopen(s) PROVE TypeOK'
  BY <1>11 DEF CloseOrReopen, TypeOK
<1>12. QED
  BY <1>1, <1>2, <1>3, <1>4, <1>5, <1>6, <1>7, <1>8, <1>9, <1>10, <1>11 DEF Next

\* Every variable keeps its type and no committed row holds a time that is still
\* to be written, whatever the handlers do.
THEOREM TypeCorrect == Spec => []TypeOK
<1>1. QED
  BY InitType, NextType, PTL DEF Spec

-----------------------------------------------------------------------------
(* One active workflow.                                                      *)

\* Only a commit changes a workflow row.
LEMMA RowsChangeOnCommit ==
    ASSUME [Next]_vars, \A s \in Sessions : ~Commit(s)
    PROVE  workflows' = workflows
BY DEF vars, Next, StartBegin, UpdateWorkflowBegin, UpdateTaskBegin, CheckBegin, AcceptBegin,
       CompleteTerms, ViewBegin, ArchiveBegin, Rewrite, Begin, Refused, Disconnect, Rollback,
       CloseOrReopen

\* A commit that makes a row active when it was not has passed the unique index.
LEMMA ActivatedByCommit ==
    ASSUME TypeOK, NEW s \in Sessions, Commit(s), NEW w \in Workflows,
           workflows'[w].status = "Active", ~Active(w)
    PROVE  w = tx[s].workflow /\ \A v \in Workflows \ {w} : ~Active(v)
<1> DEFINE t == tx[s]
<1>1. w = t.workflow
  BY DEF Commit, Active, TypeOK
<1>2. workflows'[w] = FlushRow(workflows[w], t.row, t.newRow)
  BY <1>1 DEF Commit, TypeOK
<1>3. t.newRow.status = "Active" /\ t.row.status # "Active"
  BY <1>2 DEF FlushRow, Dirty, Active
<1>4. SlotFree(s)
  BY DEF Commit
<1>5. QED
  BY <1>1, <1>3, <1>4 DEF SlotFree

\* A commit writes one row.
LEMMA CommitWritesOneRow ==
    ASSUME TypeOK, NEW s \in Sessions, Commit(s), NEW v \in Workflows, v # tx[s].workflow
    PROVE  workflows'[v] = workflows[v]
BY DEF Commit, TypeOK

\* Hence no step makes two rows active.
LEMMA NextOneActive == TypeOK /\ OneActive /\ [Next]_vars => OneActive'
<1> SUFFICES ASSUME TypeOK, OneActive, [Next]_vars, NEW v \in Workflows, NEW w \in Workflows,
                    workflows'[v].status = "Active", workflows'[w].status = "Active"
             PROVE  v = w
  BY DEF OneActive, Active
<1>1. CASE \A s \in Sessions : ~Commit(s)
  BY <1>1, RowsChangeOnCommit DEF OneActive, Active
<1>2. CASE \E s \in Sessions : Commit(s)
  <2>1. PICK s \in Sessions : Commit(s)
    BY <1>2
  <2>2. CASE Active(v) /\ Active(w)
    BY <2>2 DEF OneActive
  <2>3. CASE ~Active(v)
    <3>1. v = tx[s].workflow /\ \A u \in Workflows \ {v} : ~Active(u)
      BY <2>1, <2>3, ActivatedByCommit
    <3>2. w # v => workflows'[w] = workflows[w]
      BY <2>1, <3>1, CommitWritesOneRow
    <3>3. QED
      BY <3>1, <3>2 DEF Active
  <2>4. CASE ~Active(w)
    <3>1. w = tx[s].workflow /\ \A u \in Workflows \ {w} : ~Active(u)
      BY <2>1, <2>4, ActivatedByCommit
    <3>2. w # v => workflows'[v] = workflows[v]
      BY <2>1, <3>1, CommitWritesOneRow
    <3>3. QED
      BY <3>1, <3>2 DEF Active
  <2>5. QED
    BY <2>2, <2>3, <2>4
<1>3. QED
  BY <1>1, <1>2

\* A request has at most one active workflow, however many handlers start,
\* reactivate and end workflows at once.
THEOREM AtMostOneActive == Spec => []OneActive
<1>1. Init => OneActive
  BY DEF Init, OneActive, Active, Unborn
<1>2. QED
  BY <1>1, TypeCorrect, NextOneActive, PTL DEF Spec

-----------------------------------------------------------------------------
(* Dates.                                                                    *)

\* A time is there or is about to be, and only where the status asks for it.
Stamped(work) ==
    \A k \in Keys :
        /\ work[k].status = "Done" => work[k].completed # "null"
        /\ work[k].status = "Open" => work[k].completed = "null"

Dated(work) == work[Send].status = "Done" /\ FollowUpOpen(work) => work[FollowUp].due # "null"

LEMMA KeyFacts ==
    /\ Send \in Keys /\ FollowUp \in Keys /\ Terms \in Keys
    /\ Send # FollowUp /\ Send # Terms /\ FollowUp # Terms
BY DEF Send, FollowUp, Terms, Keys

\* _apply_task_status stamps what it marks.
LEMMA MarkedStamped ==
    ASSUME NEW work \in Work, NEW k \in Keys, NEW status \in TaskStatuses, Stamped(work)
    PROVE  Stamped([work EXCEPT ![k] = Marked(@, status)])
<1> DEFINE task == work[k]
           done == [work EXCEPT ![k] = Marked(@, status)]
<1>1. task \in Task
  BY DEF Work
<1>2. Marked(task, status).status = status
  BY <1>1 DEF Marked, Task
<1>3. /\ status = "Done" => Marked(task, status).completed = "now"
      /\ status = "Open" => Marked(task, status).completed = "null"
  BY <1>1 DEF Marked, Task
<1>4. done[k] = Marked(task, status) /\ \A j \in Keys \ {k} : done[j] = work[j]
  BY DEF Work
<1>5. QED
  BY <1>2, <1>3, <1>4 DEF Stamped

\* A due date disturbs no stamp.
LEMMA DueStamped ==
    ASSUME NEW work \in Work, NEW k \in Keys, NEW due \in Times, Stamped(work)
    PROVE  Stamped([work EXCEPT ![k].due = due])
<1> DEFINE later == [work EXCEPT ![k].due = due]
<1>1. work[k] \in Task
  BY DEF Work
<1>2. \A j \in Keys : later[j].status = work[j].status /\ later[j].completed = work[j].completed
  BY <1>1 DEF Work, Task
<1>3. QED
  BY <1>2 DEF Stamped

LEMMA ScheduledStamped ==
    ASSUME NEW work \in Work, NEW k \in Keys, Stamped(work)
    PROVE  Stamped(Scheduled(work, k))
BY DueStamped, KeyFacts DEF Scheduled, Times

\* ensure_follow_up_due_date leaves no follow-up of a sent communication without a date.
LEMMA EnsuredDated ==
    ASSUME NEW work \in Work, Stamped(work)
    PROVE  Stamped(Ensured(work)) /\ Dated(Ensured(work))
<1>1. Stamped(Ensured(work))
  BY DueStamped, KeyFacts DEF Ensured, Times
<1>2. CASE Ensured(work) = work
  <2>1. ~ (work[Send].status = "Done" /\ FollowUpOpen(work) /\ work[FollowUp].due = "null")
    <3>1. SUFFICES ASSUME work[Send].status = "Done", FollowUpOpen(work),
                          work[FollowUp].due = "null"
                   PROVE  FALSE
      OBVIOUS
    <3>2. Ensured(work) = [work EXCEPT ![FollowUp].due = "now"]
      BY <3>1, KeyFacts DEF Ensured, Stamped
    <3>3. work[FollowUp] \in Task
      BY KeyFacts DEF Work
    <3>4. Ensured(work)[FollowUp].due = "now"
      BY <3>2, <3>3, KeyFacts DEF Work, Task
    <3>5. QED
      BY <1>2, <3>1, <3>4
  <2>2. QED
    BY <1>1, <1>2, <2>1 DEF Dated
<1>3. CASE Ensured(work) = [work EXCEPT ![FollowUp].due = "now"]
  <2>1. work[FollowUp] \in Task
    BY KeyFacts DEF Work
  <2>2. Ensured(work)[FollowUp].due = "now"
    BY <1>3, <2>1, KeyFacts DEF Work, Task
  <2>3. QED
    BY <1>1, <2>2 DEF Dated
<1>4. QED
  BY <1>2, <1>3 DEF Ensured

LEMMA ApplyStamped ==
    ASSUME NEW work \in Work, NEW k \in Keys, NEW status \in TaskStatuses \cup {Unset},
           Stamped(work)
    PROVE  Stamped(Apply(work, k, status))
<1>1. CASE status = Unset
  BY <1>1 DEF Apply
<1>2. CASE status # Unset
  <2>1. status \in TaskStatuses
    BY <1>2
  <2>2. Marked(work[k], status) \in Task
    BY <2>1, MarkedType DEF Work
  <2>3. [work EXCEPT ![k] = Marked(@, status)] \in Work
    BY <2>2 DEF Work
  <2>4. QED
    BY <1>2, <2>1, <2>3, MarkedStamped, ScheduledStamped DEF Apply
<1>3. QED
  BY <1>1, <1>2

\* update_task, with any payload, leaves the dates right.
LEMMA TaskAfterDated ==
    ASSUME NEW work \in Work, NEW k \in Keys, NEW p \in TaskUpdate, Stamped(work)
    PROVE  Stamped(TaskAfter(work, k, p)) /\ Dated(TaskAfter(work, k, p))
<1> DEFINE marked == StatusApplied(work, k, p)
           reached == IF p.reachedOut THEN [marked EXCEPT ![k].due = "now"] ELSE marked
           dated == IF p.due = Unset THEN reached ELSE [reached EXCEPT ![k].due = p.due]
<1>1. /\ p.isCompleted \in TaskStatuses \cup {Unset}
      /\ p.status \in TaskStatuses \cup {Unset}
      /\ p.due # Unset => p.due \in Times
      /\ "now" \in Times
  BY DEF TaskUpdate, TaskStatuses, Times
<1>2. marked \in Work /\ Stamped(marked)
  BY <1>1, ApplyType, ApplyStamped DEF StatusApplied
<1>3. reached \in Work /\ Stamped(reached)
  <2>1. [marked[k] EXCEPT !.due = "now"] \in Task
    BY <1>2 DEF Work, Task, Times
  <2>2. reached \in Work
    BY <1>2, <2>1 DEF Work
  <2>3. QED
    BY <1>1, <1>2, <2>2, DueStamped
<1>4. dated \in Work /\ Stamped(dated)
  <2>1. p.due # Unset => [reached[k] EXCEPT !.due = p.due] \in Task
    BY <1>1, <1>3 DEF Work, Task
  <2>2. dated \in Work
    BY <1>3, <2>1 DEF Work
  <2>3. QED
    BY <1>1, <1>3, <2>2, DueStamped
<1>5. QED
  BY <1>4, EnsuredDated DEF TaskAfter

\* The client's terms touch no follow-up.
LEMMA TermsDated ==
    ASSUME NEW work \in Work, Stamped(work), Dated(work)
    PROVE  LET done == [work EXCEPT ![Terms] = Marked(@, "Done")]
           IN  Stamped(done) /\ Dated(done)
<1> DEFINE done == [work EXCEPT ![Terms] = Marked(@, "Done")]
<1>1. Stamped(done)
  BY MarkedStamped, KeyFacts DEF TaskStatuses
<1>2. done[Send] = work[Send] /\ done[FollowUp] = work[FollowUp]
  BY KeyFacts DEF Work
<1>3. QED
  BY <1>1, <1>2 DEF Dated, FollowUpOpen

\* What lands of a task is what the handler made of it.
LEMMA FlushLands ==
    ASSUME NEW old \in Committed, NEW new \in Task
    PROVE  LET task == FlushTask(old, old, new)
           IN  /\ task.status = new.status
               /\ (task.completed = "null") <=> (new.completed = "null")
               /\ (task.due = "null") <=> (new.due = "null")
               /\ new = old => task = old
<1>1. Dirty(old.status, old.status, new.status) = new.status
      /\ Dirty(old.completed, old.completed, new.completed) = new.completed
      /\ Dirty(old.due, old.due, new.due) = new.due
  BY DEF Dirty
<1>2. FlushTask(old, old, new) =
        [status |-> new.status, completed |-> Landed(new.completed), due |-> Landed(new.due)]
  BY <1>1 DEF FlushTask
<1>3. new = old => FlushTask(old, old, new) = old
  BY <1>2 DEF Landed, Committed
<1>4. QED
  BY <1>2, <1>3 DEF Landed

-----------------------------------------------------------------------------
(* One handler at a time.                                                    *)

\* What a handler has read is what is committed, and what it will write keeps the dates
\* right, leaves an ended workflow alone and activates none on a closed request.
Good(t) ==
    t.workflow \in Workflows =>
        /\ t.row = workflows[t.workflow] /\ t.work = tasks[t.workflow]
        /\ t.newRow.status # "None"
        /\ Stamped(t.newWork) /\ Dated(t.newWork)
        /\ t.row.status \in {"Completed", "Terminated"} => t.newWork = t.work
        /\ t.newRow.status = "Active" => t.row.status = "Active" \/ open

SerialInv(s) ==
    /\ TypeOK
    /\ \A w \in Workflows :
          /\ workflows[w].status = "None" => tasks[w] = NoTasks
          /\ Stamped(tasks[w]) /\ Dated(tasks[w])
    /\ Good(tx[s])

LEMMA BeginGood ==
    ASSUME NEW s \in Sessions, SerialInv(s), TypeOK', NEW t, Begin(s, t), Good(t)
    PROVE  SerialInv(s)'
<1>1. tx'[s] = t /\ UNCHANGED <<open, workflows, tasks>>
  BY DEF Begin, SerialInv, TypeOK
<1>2. Good(tx[s])'
  BY <1>1 DEF Good, Stamped, Dated, FollowUpOpen
<1>3. QED
  BY <1>1, <1>2 DEF SerialInv, Stamped, Dated, FollowUpOpen

LEMMA IdleGood == Good(Idle)
BY WorkflowAssumption DEF Good, Idle

LEMMA RewriteGood ==
    ASSUME NEW s \in Sessions, SerialInv(s), TypeOK', NEW op \in Ops, NEW w \in Workflows,
           NEW row, NEW work, Rewrite(s, op, w, row, work),
           Stamped(work), Dated(work), row.status # "None",
           workflows[w].status \in {"Completed", "Terminated"} => work = tasks[w],
           row.status = "Active" => workflows[w].status = "Active" \/ open
    PROVE  SerialInv(s)'
<1> DEFINE t == [Idle EXCEPT !.op = op, !.workflow = w, !.row = workflows[w], !.newRow = row,
                             !.work = tasks[w], !.newWork = work]
<1>1. Begin(s, t)
  BY DEF Rewrite
<1>2. /\ t.workflow = w /\ t.row = workflows[w] /\ t.newRow = row
      /\ t.work = tasks[w] /\ t.newWork = work
  BY DEF Idle
<1> HIDE DEF t
<1>3. Good(t)
  BY <1>2 DEF Good
<1>4. QED
  BY <1>1, <1>3, BeginGood

LEMMA StartGood ==
    ASSUME NEW s \in Sessions, SerialInv(s), TypeOK', NEW w \in Workflows, NEW t \in Templates,
           StartBegin(s, w, t)
    PROVE  SerialInv(s)'
<1> DEFINE row == [status |-> "Active", template |-> t]
           start == [Idle EXCEPT !.op = "start", !.workflow = w, !.newWork = NewWork(t),
                                 !.newRow = row]
<1>1. /\ Begin(s, start) /\ open /\ workflows[w] = Unborn
  BY DEF StartBegin
<1>2. /\ start.workflow = w /\ start.row = Unborn /\ start.newRow = row
      /\ start.work = NoTasks /\ start.newWork = NewWork(t)
  BY DEF Idle
<1>3. \A k \in Keys : NewWork(t)[k].status \in {"Open", "None"} /\ NewWork(t)[k].completed = "null"
  BY DEF NewWork, NoTask
<1>4. Stamped(NewWork(t)) /\ Dated(NewWork(t))
  BY <1>3, KeyFacts DEF Stamped, Dated
<1>5. tasks[w] = NoTasks
  BY <1>1 DEF SerialInv, Unborn
<1> HIDE DEF start
<1>6. Good(start)
  BY <1>1, <1>2, <1>4, <1>5 DEF Good, Unborn
<1>7. QED
  BY <1>1, <1>6, BeginGood

LEMMA UpdateWorkflowGood ==
    ASSUME NEW s \in Sessions, SerialInv(s), TypeOK', NEW w \in Workflows,
           NEW status \in WorkflowStatuses, UpdateWorkflowBegin(s, w, status)
    PROVE  SerialInv(s)'
<1> DEFINE row == [workflows[w] EXCEPT !.status = IF status = "Cancelled" THEN "Terminated" ELSE status]
<1>1. workflows[w] \in Workflow
  BY CommittedWork DEF SerialInv
<1>2. status \in {"Active", "Completed", "Terminated", "Cancelled"}
  BY WorkflowAssumption
<1>3. row.status # "None"
  BY <1>1, <1>2 DEF Workflow
<1>4. Rewrite(s, "update", w, row, tasks[w]) /\ open
  BY DEF UpdateWorkflowBegin
<1>5. QED
  BY <1>3, <1>4, RewriteGood DEF SerialInv, Ops

\* Completing a workflow on its last task activates nothing.
LEMMA AutoCompletedGood ==
    ASSUME NEW row \in Workflow, row.status = "Active", NEW work
    PROVE  /\ AutoCompleted(row, work).status \in {"Active", "Completed"}
           /\ AutoCompleted(row, work).template = row.template
           /\ AutoCompleted(row, work).status = "Active" => ~ AllDone(work)
BY DEF AutoCompleted, Workflow

LEMMA UpdateTaskGood ==
    ASSUME NEW s \in Sessions, SerialInv(s), TypeOK', NEW w \in Workflows, NEW k \in Keys,
           NEW p \in TaskUpdates, UpdateTaskBegin(s, w, k, p)
    PROVE  SerialInv(s)'
<1> DEFINE work == TaskAfter(tasks[w], k, p)
           row == AutoCompleted(workflows[w], work)
<1>1. p \in TaskUpdate
  BY WorkflowAssumption
<1>2. tasks[w] \in Work /\ workflows[w] \in Workflow /\ workflows[w].status = "Active"
  BY CommittedWork DEF SerialInv, UpdateTaskBegin, Active
<1>3. Stamped(work) /\ Dated(work)
  BY <1>1, <1>2, TaskAfterDated DEF SerialInv
<1>4. Rewrite(s, "task", w, row, work)
  BY DEF UpdateTaskBegin
<1>5. row.status # "None"
  BY <1>2, AutoCompletedGood
<1> HIDE DEF row, work
<1>6. QED
  BY <1>2, <1>3, <1>4, <1>5, RewriteGood DEF Ops

LEMMA CompleteTermsGood ==
    ASSUME NEW s \in Sessions, SerialInv(s), TypeOK', NEW op \in {"accept", "check"},
           NEW w \in Workflows, CompleteTerms(s, op, w)
    PROVE  SerialInv(s)'
<1> DEFINE work == [tasks[w] EXCEPT ![Terms] = Marked(@, "Done")]
           row == AutoCompleted(workflows[w], work)
<1>1. tasks[w] \in Work /\ workflows[w] \in Workflow /\ workflows[w].status = "Active"
  BY CommittedWork DEF SerialInv, CompleteTerms, TermsOpen, Active
<1>2. Stamped(work) /\ Dated(work)
  BY <1>1, TermsDated DEF SerialInv
<1>3. Rewrite(s, op, w, row, work)
  BY DEF CompleteTerms
<1>4. row.status # "None"
  BY <1>1, AutoCompletedGood
<1> HIDE DEF row, work
<1>5. QED
  BY <1>1, <1>2, <1>3, <1>4, RewriteGood DEF Ops

LEMMA ViewGood ==
    ASSUME NEW s \in Sessions, SerialInv(s), TypeOK', NEW w \in Workflows, ViewBegin(s, w)
    PROVE  SerialInv(s)'
<1>1. tasks[w] \in Work /\ workflows[w].status = "Active"
  BY CommittedWork DEF SerialInv, ViewBegin, Active
<1>2. Stamped(Ensured(tasks[w])) /\ Dated(Ensured(tasks[w]))
  BY <1>1, EnsuredDated DEF SerialInv
<1>3. Rewrite(s, "view", w, workflows[w], Ensured(tasks[w]))
  BY DEF ViewBegin
<1>4. QED
  BY <1>1, <1>2, <1>3, RewriteGood DEF Ops

LEMMA AcceptGood ==
    ASSUME NEW s \in Sessions, SerialInv(s), TypeOK', AcceptBegin(s)
    PROVE  SerialInv(s)'
<1>1. CASE \E w \in Workflows : CompleteTerms(s, "accept", w)
  BY <1>1, CompleteTermsGood
<1>2. CASE Begin(s, [Idle EXCEPT !.op = "accept"])
  <2>1. Good([Idle EXCEPT !.op = "accept"])
    BY WorkflowAssumption DEF Good, Idle
  <2>2. QED
    BY <1>2, <2>1, BeginGood
<1>3. QED
  BY <1>1, <1>2 DEF AcceptBegin

LEMMA ArchiveGood ==
    ASSUME NEW s \in Sessions, SerialInv(s), TypeOK', NEW t \in Templates, ArchiveBegin(s, t)
    PROVE  SerialInv(s)'
<1>1. ASSUME NEW w \in Workflows,
             Begin(s, [Idle EXCEPT !.op = "archive", !.template = t, !.workflow = w,
                                   !.row = workflows[w],
                                   !.newRow = [workflows[w] EXCEPT !.status = "Terminated"],
                                   !.work = tasks[w], !.newWork = tasks[w]])
      PROVE  SerialInv(s)'
  <2> DEFINE row == [workflows[w] EXCEPT !.status = "Terminated"]
             archive == [Idle EXCEPT !.op = "archive", !.template = t, !.workflow = w,
                                     !.row = workflows[w], !.newRow = row,
                                     !.work = tasks[w], !.newWork = tasks[w]]
  <2>1. workflows[w] \in Workflow
    BY CommittedWork DEF SerialInv
  <2>2. row.status = "Terminated"
    BY <2>1 DEF Workflow
  <2>3. /\ archive.workflow = w /\ archive.row = workflows[w] /\ archive.newRow = row
        /\ archive.work = tasks[w] /\ archive.newWork = tasks[w]
    BY DEF Idle
  <2>4. Begin(s, archive)
    BY <1>1
  <2> HIDE DEF archive, row
  <2>5. Good(archive)
    BY <2>2, <2>3 DEF Good, SerialInv
  <2>6. QED
    BY <2>4, <2>5, BeginGood
<1>2. CASE Begin(s, [Idle EXCEPT !.op = "archive", !.template = t])
  <2>1. Good([Idle EXCEPT !.op = "archive", !.template = t])
    BY WorkflowAssumption DEF Good, Idle
  <2>2. QED
    BY <1>2, <2>1, BeginGood
<1>3. QED
  BY <1>1, <1>2 DEF ArchiveBegin

\* Nobody else wrote: what is committed is what the handler made.
LEMMA CommitLands ==
    ASSUME NEW s \in Sessions, SerialInv(s), Commit(s), NEW w \in Workflows, w = tx[s].workflow
    PROVE  /\ workflows'[w] = tx[s].newRow
           /\ \A k \in Keys :
                 LET task == tasks'[w][k]
                     new == tx[s].newWork[k]
                 IN  /\ task.status = new.status
                     /\ (task.completed = "null") <=> (new.completed = "null")
                     /\ (task.due = "null") <=> (new.due = "null")
           /\ tx[s].newWork = tx[s].work => tasks'[w] = tasks[w]
<1> DEFINE t == tx[s]
<1>1. t \in Transaction /\ workflows[w] \in Workflow /\ tasks[w] \in [Keys -> Committed]
  BY DEF SerialInv, TypeOK
<1>2. t.row = workflows[w] /\ t.work = tasks[w]
  BY DEF SerialInv, Good
<1>3. t.newRow \in Workflow /\ t.newWork \in [Keys -> Task]
  BY <1>1 DEF Transaction
<1>4. workflows'[w] = t.newRow
  <2>1. workflows'[w] = FlushRow(t.row, t.row, t.newRow)
    BY <1>2 DEF Commit, SerialInv, TypeOK
  <2>2. FlushRow(t.row, t.row, t.newRow) = [status |-> t.newRow.status, template |-> t.newRow.template]
    BY DEF FlushRow, Dirty
  <2>3. t.newRow = [status |-> t.newRow.status, template |-> t.newRow.template]
    BY <1>3 DEF Workflow
  <2>4. QED
    BY <2>1, <2>2, <2>3
<1>5. tasks'[w] = [k \in Keys |-> FlushTask(t.work[k], t.work[k], t.newWork[k])]
  BY <1>2 DEF Commit, SerialInv, TypeOK
<1>6. \A k \in Keys : t.work[k] \in Committed /\ t.newWork[k] \in Task
  BY <1>1, <1>2, <1>3
<1>7. t.newWork = t.work => tasks'[w] = tasks[w]
  BY <1>1, <1>2, <1>5, <1>6, FlushLands
<1>8. QED
  BY <1>4, <1>5, <1>6, <1>7, FlushLands

LEMMA CommitElsewhere ==
    ASSUME TypeOK, NEW s \in Sessions, Commit(s), NEW w \in Workflows, w # tx[s].workflow
    PROVE  workflows'[w] = workflows[w] /\ tasks'[w] = tasks[w]
BY DEF Commit, TypeOK

LEMMA CommitGood ==
    ASSUME NEW s \in Sessions, SerialInv(s), TypeOK', Commit(s)
    PROVE  SerialInv(s)'
<1>1. ASSUME NEW w \in Workflows
      PROVE  /\ workflows'[w].status = "None" => tasks'[w] = NoTasks
             /\ Stamped(tasks'[w]) /\ Dated(tasks'[w])
  <2>1. CASE w = tx[s].workflow
    <3>1. /\ Stamped(tx[s].newWork) /\ Dated(tx[s].newWork) /\ tx[s].newRow.status # "None"
      BY <2>1 DEF SerialInv, Good
    <3>2. QED
      BY <2>1, <3>1, CommitLands, KeyFacts DEF Stamped, Dated, FollowUpOpen
  <2>2. CASE w # tx[s].workflow
    BY <2>2, CommitElsewhere DEF SerialInv
  <2>3. QED
    BY <2>1, <2>2
<1>2. tx'[s] = Idle
  BY DEF Commit, SerialInv, TypeOK
<1>3. Good(tx[s])'
  BY <1>2, WorkflowAssumption DEF Good, Idle
<1>4. QED
  BY <1>1, <1>3 DEF SerialInv, Stamped, Dated, FollowUpOpen

LEMMA SerialInit ==
    ASSUME NEW s \in Sessions, Init
    PROVE  SerialInv(s)
<1>1. tx[s] = Idle /\ \A w \in Workflows : tasks[w] = NoTasks
  BY DEF Init
<1>2. Stamped(NoTasks) /\ Dated(NoTasks)
  BY KeyFacts DEF Stamped, Dated, NoTasks, NoTask, FollowUpOpen
<1>3. QED
  BY <1>1, <1>2, InitType, IdleGood DEF SerialInv

\* The only session is s: it is the one that moves.
LEMMA SerialNext ==
    ASSUME NEW s, Sessions = {s}, SerialInv(s), [Next]_vars
    PROVE  SerialInv(s)'
<1>1. TypeOK' /\ s \in Sessions
  BY NextType DEF SerialInv
<1>2. CASE UNCHANGED vars
  <2>1. UNCHANGED <<open, workflows, tasks, tx>>
    BY <1>2 DEF vars
  <2>2. Good(tx[s])'
    BY <2>1 DEF SerialInv, Good, Stamped, Dated, FollowUpOpen
  <2>3. QED
    BY <1>1, <2>1, <2>2 DEF SerialInv, Stamped, Dated, FollowUpOpen
<1>3. ASSUME NEW w \in Workflows, NEW t \in Templates, StartBegin(s, w, t) PROVE SerialInv(s)'
  BY <1>1, <1>3, StartGood
<1>4. ASSUME NEW w \in Workflows, NEW status \in WorkflowStatuses, UpdateWorkflowBegin(s, w, status)
      PROVE  SerialInv(s)'
  BY <1>1, <1>4, UpdateWorkflowGood
<1>5. ASSUME NEW w \in Workflows, NEW k \in Keys, NEW p \in TaskUpdates, UpdateTaskBegin(s, w, k, p)
      PROVE  SerialInv(s)'
  BY <1>1, <1>5, UpdateTaskGood
<1>6. ASSUME NEW w \in Workflows, CheckBegin(s, w) PROVE SerialInv(s)'
  BY <1>1, <1>6, CompleteTermsGood DEF CheckBegin
<1>7. ASSUME NEW w \in Workflows, ViewBegin(s, w) PROVE SerialInv(s)'
  BY <1>1, <1>7, ViewGood
<1>8. CASE AcceptBegin(s)
  BY <1>1, <1>8, AcceptGood
<1>9. ASSUME NEW t \in Templates, ArchiveBegin(s, t) PROVE SerialInv(s)'
  BY <1>1, <1>9, ArchiveGood
<1>10. CASE Commit(s)
  BY <1>1, <1>10, CommitGood
<1>11. CASE Refused(s) \/ Disconnect(s) \/ CloseOrReopen(s)
  <2>1. tx'[s] = Idle /\ UNCHANGED <<workflows, tasks>>
    BY <1>1, <1>11 DEF Refused, Disconnect, Rollback, CloseOrReopen, SerialInv, TypeOK
  <2>2. Good(tx[s])'
    BY <2>1, WorkflowAssumption DEF Good, Idle
  <2>3. QED
    BY <1>1, <2>1, <2>2 DEF SerialInv, Stamped, Dated, FollowUpOpen
<1>12. QED
  BY <1>2, <1>3, <1>4, <1>5, <1>6, <1>7, <1>8, <1>9, <1>10, <1>11 DEF Next

\* Only a commit changes a task.
LEMMA TasksChangeOnCommit ==
    ASSUME [Next]_vars, \A s \in Sessions : ~Commit(s)
    PROVE  tasks' = tasks
BY DEF vars, Next, StartBegin, UpdateWorkflowBegin, UpdateTaskBegin, CheckBegin, AcceptBegin,
       CompleteTerms, ViewBegin, ArchiveBegin, Rewrite, Begin, Refused, Disconnect, Rollback,
       CloseOrReopen

\* One handler at a time, the follow-up of a sent communication has its due date and a
\* task its time of completion, whatever update_task, the terms and a GET are called with.
THEOREM SerialDates ==
    ASSUME NEW s, Sessions = {s}
    PROVE  Spec => []TaskDatesFollow
<1>1. Init => SerialInv(s)
  BY SerialInit
<1>2. SerialInv(s) /\ [Next]_vars => SerialInv(s)'
  BY SerialNext
<1>3. SerialInv(s) => TaskDatesFollow
  BY KeyFacts DEF SerialInv, TypeOK, Committed, Stamped, Dated, TaskDatesFollow,
     FollowUpHasDueDate, CompletionIsStamped
<1>4. QED
  BY <1>1, <1>2, <1>3, PTL DEF Spec

\* One handler at a time, what the tasks of a workflow record stays as it was when the
\* workflow has ended, also while it is reactivated.
THEOREM SerialEndedFrozen ==
    ASSUME NEW s, Sessions = {s}
    PROVE  Spec => EndedWorkflowFrozen
<1> DEFINE Frozen == \A w \in Workflows :
                       workflows[w].status \in {"Completed", "Terminated"} => tasks'[w] = tasks[w]
<1>1. Init => SerialInv(s)
  BY SerialInit
<1>2. SerialInv(s) /\ [Next]_vars => SerialInv(s)'
  BY SerialNext
<1>3. SerialInv(s) /\ [Next]_vars => [Frozen]_vars
  <2> SUFFICES ASSUME SerialInv(s), [Next]_vars, NEW w \in Workflows,
                      workflows[w].status \in {"Completed", "Terminated"}
               PROVE  tasks'[w] = tasks[w]
    OBVIOUS
  <2>1. CASE \A u \in Sessions : ~Commit(u)
    BY <2>1, TasksChangeOnCommit
  <2>2. CASE Commit(s) /\ w = tx[s].workflow
    <3>1. tx[s].newWork = tx[s].work
      BY <2>2 DEF SerialInv, Good
    <3>2. QED
      BY <2>2, <3>1, CommitLands
  <2>3. CASE Commit(s) /\ w # tx[s].workflow
    BY <2>3, CommitElsewhere DEF SerialInv
  <2>4. QED
    BY <2>1, <2>2, <2>3
<1>4. QED
  BY <1>1, <1>2, <1>3, PTL DEF Spec, EndedWorkflowFrozen

\* One handler at a time, no workflow becomes active on a closed request.
THEOREM SerialClosedStartsNothing ==
    ASSUME NEW s, Sessions = {s}
    PROVE  Spec => ClosedStartsNothing
<1> DEFINE Starts == ~open => \A w \in Workflows : Active(w)' => Active(w)
<1>1. Init => SerialInv(s)
  BY SerialInit
<1>2. SerialInv(s) /\ [Next]_vars => SerialInv(s)'
  BY SerialNext
<1>3. SerialInv(s) /\ [Next]_vars => [Starts]_vars
  <2> SUFFICES ASSUME SerialInv(s), [Next]_vars, ~open, NEW w \in Workflows, Active(w)'
               PROVE  Active(w)
    OBVIOUS
  <2>1. CASE \A u \in Sessions : ~Commit(u)
    BY <2>1, RowsChangeOnCommit DEF Active
  <2>2. CASE Commit(s) /\ w = tx[s].workflow
    <3>1. tx[s].newRow.status = "Active"
      BY <2>2, CommitLands DEF Active
    <3>2. QED
      BY <2>2, <3>1 DEF SerialInv, Good, Active
  <2>3. CASE Commit(s) /\ w # tx[s].workflow
    BY <2>3, CommitElsewhere DEF SerialInv, Active
  <2>4. QED
    BY <2>1, <2>2, <2>3
<1>4. QED
  BY <1>1, <1>2, <1>3, PTL DEF Spec, ClosedStartsNothing

\* With one handler at a time what is over stays over: both of the above.
THEOREM SerialOverStaysOver ==
    ASSUME NEW s, Sessions = {s}
    PROVE  Spec => OverStaysOver
BY SerialEndedFrozen, SerialClosedStartsNothing DEF OverStaysOver

-----------------------------------------------------------------------------
(* Workflows that have ended stay so: nobody reactivates one.                *)

\* A handler leaves no finished list active, and no workflow of an archived template;
\* one that archives has found the workflows of its template.
EndGood(t) ==
    /\ t.workflow \in Workflows /\ t.newRow.status = "Active" =>
          ~ AllDone(t.newWork) /\ t.newRow.template \notin archived
    /\ t.op = "archive" =>
          /\ t.workflow \in Workflows => t.newRow.status # "Active"
          /\ \A w \in Workflows : Active(w) /\ workflows[w].template = t.template => w = t.workflow

EndsInv(s) == SerialInv(s) /\ OneActive /\ DoneIsCompleted /\ ArchivedHasNoActive /\ EndGood(tx[s])

LEMMA IdleEnds == EndGood(Idle)
BY WorkflowAssumption DEF EndGood, Idle

\* Whether a list is done is a matter of statuses.
LEMMA SameStatus ==
    ASSUME NEW work, NEW other, \A k \in Keys : work[k].status = other[k].status, AllDone(work)
    PROVE  AllDone(other)
BY DEF AllDone, Present

LEMMA BeginEnds ==
    ASSUME NEW s \in Sessions, EndsInv(s), SerialInv(s)', NEW t, Begin(s, t), EndGood(t)
    PROVE  EndsInv(s)'
<1>1. tx'[s] = t /\ UNCHANGED <<open, workflows, tasks, archived>>
  BY DEF Begin, EndsInv, SerialInv, TypeOK
<1>2. EndGood(tx[s])'
  BY <1>1 DEF EndGood, AllDone, Present, Active
<1>3. OneActive' /\ DoneIsCompleted' /\ ArchivedHasNoActive'
  BY <1>1 DEF EndsInv, OneActive, DoneIsCompleted, ArchivedHasNoActive, Active, AllDone, Present
<1>4. QED
  BY <1>2, <1>3 DEF EndsInv

LEMMA RewriteEnds ==
    ASSUME NEW s \in Sessions, EndsInv(s), SerialInv(s)', NEW op \in Ops \ {"archive"},
           NEW w \in Workflows, NEW row, NEW work, Rewrite(s, op, w, row, work),
           row.status = "Active" => ~ AllDone(work) /\ row.template \notin archived
    PROVE  EndsInv(s)'
<1> DEFINE t == [Idle EXCEPT !.op = op, !.workflow = w, !.row = workflows[w], !.newRow = row,
                             !.work = tasks[w], !.newWork = work]
<1>1. Begin(s, t)
  BY DEF Rewrite
<1>2. t.workflow = w /\ t.newRow = row /\ t.newWork = work /\ t.op = op
  BY DEF Idle
<1> HIDE DEF t
<1>3. EndGood(t)
  BY <1>2 DEF EndGood
<1>4. QED
  BY <1>1, <1>3, BeginEnds

\* A new list has a task, and none of it is done.
LEMMA StartEnds ==
    ASSUME NEW s \in Sessions, EndsInv(s), SerialInv(s)', NEW w \in Workflows, NEW t \in Templates,
           StartBegin(s, w, t)
    PROVE  EndsInv(s)'
<1> DEFINE row == [status |-> "Active", template |-> t]
           start == [Idle EXCEPT !.op = "start", !.workflow = w, !.newWork = NewWork(t),
                                 !.newRow = row]
<1>1. Begin(s, start) /\ t \notin archived
  BY DEF StartBegin
<1>2. start.op = "start" /\ start.newRow = row /\ start.newWork = NewWork(t)
  BY DEF Idle
<1>3. \A k \in Keys : NewWork(t)[k].status # "Done"
  BY DEF NewWork, NoTask
<1>4. ~ AllDone(NewWork(t))
  BY <1>3 DEF AllDone, Present
<1> HIDE DEF start
<1>5. EndGood(start)
  BY <1>1, <1>2, <1>4 DEF EndGood
<1>6. QED
  BY <1>1, <1>5, BeginEnds

LEMMA UpdateWorkflowEnds ==
    ASSUME "Active" \notin WorkflowStatuses,
           NEW s \in Sessions, EndsInv(s), SerialInv(s)', NEW w \in Workflows,
           NEW status \in WorkflowStatuses, UpdateWorkflowBegin(s, w, status)
    PROVE  EndsInv(s)'
<1> DEFINE row == [workflows[w] EXCEPT !.status = IF status = "Cancelled" THEN "Terminated" ELSE status]
<1>1. workflows[w] \in Workflow
  BY CommittedWork DEF SerialInv, EndsInv
<1>2. row.status # "Active"
  BY <1>1 DEF Workflow
<1>3. Rewrite(s, "update", w, row, tasks[w])
  BY DEF UpdateWorkflowBegin
<1> HIDE DEF row
<1>4. QED
  BY <1>2, <1>3, RewriteEnds DEF Ops

\* Completing the workflow with its last task.
LEMMA AutoCompleteEnds ==
    ASSUME NEW s \in Sessions, EndsInv(s), SerialInv(s)', NEW op \in {"task", "accept", "check"},
           NEW w \in Workflows, Active(w), NEW work,
           Rewrite(s, op, w, AutoCompleted(workflows[w], work), work)
    PROVE  EndsInv(s)'
<1> DEFINE row == AutoCompleted(workflows[w], work)
<1>1. row.status = "Active" => ~ AllDone(work) /\ row.template \notin archived
  BY CommittedWork, AutoCompletedGood DEF EndsInv, SerialInv, ArchivedHasNoActive, Active
<1> HIDE DEF row
<1>2. QED
  BY <1>1, RewriteEnds DEF Ops, row

LEMMA AcceptEnds ==
    ASSUME NEW s \in Sessions, EndsInv(s), SerialInv(s)', AcceptBegin(s)
    PROVE  EndsInv(s)'
<1>1. ASSUME NEW w \in Workflows, CompleteTerms(s, "accept", w) PROVE EndsInv(s)'
  BY <1>1, AutoCompleteEnds DEF CompleteTerms, TermsOpen
<1>2. CASE Begin(s, [Idle EXCEPT !.op = "accept"])
  <2>1. EndGood([Idle EXCEPT !.op = "accept"])
    BY WorkflowAssumption DEF EndGood, Idle
  <2>2. QED
    BY <1>2, <2>1, BeginEnds
<1>3. QED
  BY <1>1, <1>2 DEF AcceptBegin

\* A GET changes no status.
LEMMA EnsuredStatus ==
    ASSUME NEW work \in Work
    PROVE  \A k \in Keys : /\ Ensured(work)[k].status = work[k].status
                           /\ Ensured(work)[k].completed = work[k].completed
<1>1. work[FollowUp] \in Task
  BY KeyFacts DEF Work
<1>2. QED
  BY <1>1 DEF Ensured, Work, Task

LEMMA ViewEnds ==
    ASSUME NEW s \in Sessions, EndsInv(s), SerialInv(s)', NEW w \in Workflows, ViewBegin(s, w)
    PROVE  EndsInv(s)'
<1>1. Active(w) /\ Rewrite(s, "view", w, workflows[w], Ensured(tasks[w]))
  BY DEF ViewBegin
<1>2. tasks[w] \in Work
  BY CommittedWork DEF EndsInv, SerialInv
<1>3. ~ AllDone(Ensured(tasks[w]))
  BY <1>1, <1>2, EnsuredStatus, SameStatus DEF EndsInv, DoneIsCompleted
<1>4. workflows[w].template \notin archived
  BY <1>1 DEF EndsInv, ArchivedHasNoActive
<1>5. QED
  BY <1>1, <1>3, <1>4, RewriteEnds DEF Ops

\* There is one active workflow at most, so the one an archive finds is all there is.
LEMMA ArchiveEnds ==
    ASSUME NEW s \in Sessions, EndsInv(s), SerialInv(s)', NEW t \in Templates, ArchiveBegin(s, t)
    PROVE  EndsInv(s)'
<1>1. ASSUME NEW w \in Workflows, Active(w),
             Begin(s, [Idle EXCEPT !.op = "archive", !.template = t, !.workflow = w,
                                   !.row = workflows[w],
                                   !.newRow = [workflows[w] EXCEPT !.status = "Terminated"],
                                   !.work = tasks[w], !.newWork = tasks[w]])
      PROVE  EndsInv(s)'
  <2> DEFINE row == [workflows[w] EXCEPT !.status = "Terminated"]
             archive == [Idle EXCEPT !.op = "archive", !.template = t, !.workflow = w,
                                     !.row = workflows[w], !.newRow = row,
                                     !.work = tasks[w], !.newWork = tasks[w]]
  <2>1. workflows[w] \in Workflow
    BY CommittedWork DEF SerialInv, EndsInv
  <2>2. row.status = "Terminated"
    BY <2>1 DEF Workflow
  <2>3. archive.workflow = w /\ archive.newRow = row
    BY DEF Idle
  <2>4. Begin(s, archive)
    BY <1>1
  <2> HIDE DEF archive, row
  <2>5. \A v \in Workflows : Active(v) => v = w
    BY <1>1 DEF EndsInv, OneActive
  <2>6. EndGood(archive)
    BY <2>2, <2>3, <2>5 DEF EndGood
  <2>7. QED
    BY <2>4, <2>6, BeginEnds
<1>2. ASSUME \A w \in Workflows : ~(Active(w) /\ workflows[w].template = t),
             Begin(s, [Idle EXCEPT !.op = "archive", !.template = t])
      PROVE  EndsInv(s)'
  <2> DEFINE archive == [Idle EXCEPT !.op = "archive", !.template = t]
  <2>1. archive.workflow = NoWorkflow /\ archive.template = t
    BY DEF Idle
  <2>2. Begin(s, archive)
    BY <1>2
  <2> HIDE DEF archive
  <2>3. EndGood(archive)
    BY <1>2, <2>1, WorkflowAssumption DEF EndGood
  <2>4. QED
    BY <2>2, <2>3, BeginEnds
<1>3. QED
  BY <1>1, <1>2 DEF ArchiveBegin

LEMMA CommitEnds ==
    ASSUME NEW s \in Sessions, EndsInv(s), SerialInv(s)', OneActive', Commit(s)
    PROVE  EndsInv(s)'
<1>1. tx'[s] = Idle /\ archived' = IF tx[s].op = "archive" THEN archived \cup {tx[s].template} ELSE archived
  BY DEF Commit, EndsInv, SerialInv, TypeOK
<1>2. ASSUME NEW w \in Workflows, Active(w)'
      PROVE  ~ AllDone(tasks'[w]) /\ workflows'[w].template \notin archived'
  <2>1. CASE w = tx[s].workflow
    <3>1. /\ workflows'[w] = tx[s].newRow
          /\ \A k \in Keys : tasks'[w][k].status = tx[s].newWork[k].status
      BY <2>1, CommitLands DEF EndsInv
    <3>2. tx[s].newRow.status = "Active"
      BY <1>2, <3>1 DEF Active
    <3>3. /\ ~ AllDone(tx[s].newWork) /\ tx[s].newRow.template \notin archived
          /\ tx[s].op # "archive"
      BY <2>1, <3>2 DEF EndsInv, EndGood
    <3>4. QED
      BY <1>1, <3>1, <3>3, SameStatus
  <2>2. CASE w # tx[s].workflow
    <3>1. workflows'[w] = workflows[w] /\ tasks'[w] = tasks[w]
      BY <2>2, CommitElsewhere DEF EndsInv, SerialInv
    <3>2. Active(w)
      BY <1>2, <3>1 DEF Active
    <3>3. tx[s].op = "archive" => workflows[w].template # tx[s].template
      BY <2>2, <3>2 DEF EndsInv, EndGood
    <3>4. ~ AllDone(tasks[w]) /\ workflows[w].template \notin archived
      BY <3>2 DEF EndsInv, DoneIsCompleted, ArchivedHasNoActive
    <3>5. QED
      BY <1>1, <3>1, <3>3, <3>4
  <2>3. QED
    BY <2>1, <2>2
<1>3. DoneIsCompleted' /\ ArchivedHasNoActive'
  BY <1>2 DEF DoneIsCompleted, ArchivedHasNoActive, Active, AllDone, Present
<1>4. EndGood(tx[s])'
  BY <1>1, WorkflowAssumption DEF EndGood, Idle
<1>5. QED
  BY <1>3, <1>4 DEF EndsInv

LEMMA EndsInit ==
    ASSUME NEW s \in Sessions, Init
    PROVE  EndsInv(s)
<1>1. \A w \in Workflows : ~ Active(w)
  BY DEF Init, Active, Unborn
<1>2. EndGood(tx[s])
  BY IdleEnds DEF Init
<1>3. QED
  BY <1>1, <1>2, SerialInit DEF EndsInv, OneActive, DoneIsCompleted, ArchivedHasNoActive

LEMMA EndsNext ==
    ASSUME NEW s, Sessions = {s}, "Active" \notin WorkflowStatuses, EndsInv(s), [Next]_vars
    PROVE  EndsInv(s)'
<1>1. SerialInv(s)' /\ OneActive' /\ s \in Sessions
  BY SerialNext, NextOneActive DEF EndsInv, SerialInv
<1>2. CASE UNCHANGED vars
  <2>1. UNCHANGED <<workflows, tasks, archived, tx>>
    BY <1>2 DEF vars
  <2>2. EndGood(tx[s])'
    BY <2>1 DEF EndsInv, EndGood, AllDone, Present, Active
  <2>3. QED
    BY <1>1, <2>1, <2>2 DEF EndsInv, DoneIsCompleted, ArchivedHasNoActive, Active, AllDone, Present
<1>3. ASSUME NEW w \in Workflows, NEW t \in Templates, StartBegin(s, w, t) PROVE EndsInv(s)'
  BY <1>1, <1>3, StartEnds
<1>4. ASSUME NEW w \in Workflows, NEW status \in WorkflowStatuses, UpdateWorkflowBegin(s, w, status)
      PROVE  EndsInv(s)'
  BY <1>1, <1>4, UpdateWorkflowEnds
<1>5. ASSUME NEW w \in Workflows, NEW k \in Keys, NEW p \in TaskUpdates, UpdateTaskBegin(s, w, k, p)
      PROVE  EndsInv(s)'
  BY <1>1, <1>5, AutoCompleteEnds DEF UpdateTaskBegin
<1>6. ASSUME NEW w \in Workflows, CheckBegin(s, w) PROVE EndsInv(s)'
  BY <1>1, <1>6, AutoCompleteEnds DEF CheckBegin, CompleteTerms, TermsOpen
<1>7. ASSUME NEW w \in Workflows, ViewBegin(s, w) PROVE EndsInv(s)'
  BY <1>1, <1>7, ViewEnds
<1>8. CASE AcceptBegin(s)
  BY <1>1, <1>8, AcceptEnds
<1>9. ASSUME NEW t \in Templates, ArchiveBegin(s, t) PROVE EndsInv(s)'
  BY <1>1, <1>9, ArchiveEnds
<1>10. CASE Commit(s)
  BY <1>1, <1>10, CommitEnds
<1>11. CASE Refused(s) \/ Disconnect(s) \/ CloseOrReopen(s)
  <2>1. tx'[s] = Idle /\ UNCHANGED <<workflows, tasks, archived>>
    BY <1>1, <1>11 DEF Refused, Disconnect, Rollback, CloseOrReopen, EndsInv, SerialInv, TypeOK
  <2>2. EndGood(tx[s])'
    BY <2>1, WorkflowAssumption DEF EndGood, Idle
  <2>3. QED
    BY <1>1, <2>1, <2>2 DEF EndsInv, DoneIsCompleted, ArchivedHasNoActive, Active, AllDone, Present
<1>12. QED
  BY <1>2, <1>3, <1>4, <1>5, <1>6, <1>7, <1>8, <1>9, <1>10, <1>11 DEF Next

\* One handler at a time and nothing reactivated, a workflow whose last task is done is
\* completed with it, whoever did it.
THEOREM SerialDoneIsCompleted ==
    ASSUME NEW s, Sessions = {s}, "Active" \notin WorkflowStatuses
    PROVE  Spec => []DoneIsCompleted
<1>1. Init => EndsInv(s)
  BY EndsInit
<1>2. EndsInv(s) /\ [Next]_vars => EndsInv(s)'
  BY EndsNext
<1>3. EndsInv(s) => DoneIsCompleted
  BY DEF EndsInv
<1>4. QED
  BY <1>1, <1>2, <1>3, PTL DEF Spec

\* One handler at a time and nothing reactivated, no active workflow comes from an
\* archived template: archiving ends the one that does.
THEOREM SerialArchivedHasNoActive ==
    ASSUME NEW s, Sessions = {s}, "Active" \notin WorkflowStatuses
    PROVE  Spec => []ArchivedHasNoActive
<1>1. Init => EndsInv(s)
  BY EndsInit
<1>2. EndsInv(s) /\ [Next]_vars => EndsInv(s)'
  BY EndsNext
<1>3. EndsInv(s) => ArchivedHasNoActive
  BY DEF EndsInv
<1>4. QED
  BY <1>1, <1>2, <1>3, PTL DEF Spec

-----------------------------------------------------------------------------
(* Any number of handlers: a GET changes dates only.                         *)

\* A GET means to write nothing but due dates.
ViewWrites(t) ==
    t.op = "view" =>
        /\ t.newRow = t.row
        /\ \A k \in Keys : /\ t.newWork[k].status = t.work[k].status
                           /\ t.newWork[k].completed = t.work[k].completed

ViewInv == TypeOK /\ \A s \in Sessions : ViewWrites(tx[s])

LEMMA BeginView ==
    ASSUME ViewInv, TypeOK', NEW s \in Sessions, NEW t, Begin(s, t), ViewWrites(t)
    PROVE  ViewInv'
BY DEF ViewInv, TypeOK, Begin, ViewWrites

LEMMA RewriteView ==
    ASSUME ViewInv, TypeOK', NEW s \in Sessions, NEW op \in Ops \ {"view"}, NEW w \in Workflows,
           NEW row, NEW work, Rewrite(s, op, w, row, work)
    PROVE  ViewInv'
<1> DEFINE t == [Idle EXCEPT !.op = op, !.workflow = w, !.row = workflows[w], !.newRow = row,
                             !.work = tasks[w], !.newWork = work]
<1>1. Begin(s, t) /\ t.op = op
  BY DEF Rewrite, Idle
<1> HIDE DEF t
<1>2. QED
  BY <1>1, BeginView DEF ViewWrites

LEMMA ViewView ==
    ASSUME ViewInv, TypeOK', NEW s \in Sessions, NEW w \in Workflows, ViewBegin(s, w)
    PROVE  ViewInv'
<1> DEFINE t == [Idle EXCEPT !.op = "view", !.workflow = w, !.row = workflows[w],
                             !.newRow = workflows[w], !.work = tasks[w],
                             !.newWork = Ensured(tasks[w])]
<1>1. Begin(s, t)
  BY DEF ViewBegin, Rewrite
<1>2. /\ t.row = workflows[w] /\ t.newRow = workflows[w]
      /\ t.work = tasks[w] /\ t.newWork = Ensured(tasks[w])
  BY DEF Idle
<1>3. tasks[w] \in Work
  BY CommittedWork DEF ViewInv
<1> HIDE DEF t
<1>4. ViewWrites(t)
  BY <1>2, <1>3, EnsuredStatus DEF ViewWrites
<1>5. QED
  BY <1>1, <1>4, BeginView

LEMMA ViewNext == ViewInv /\ [Next]_vars => ViewInv'
<1> SUFFICES ASSUME ViewInv, [Next]_vars PROVE ViewInv'
  OBVIOUS
<1>1. TypeOK'
  BY NextType DEF ViewInv
<1>2. CASE UNCHANGED vars
  BY <1>1, <1>2 DEF vars, ViewInv, ViewWrites
<1>3. ASSUME NEW s \in Sessions, NEW w \in Workflows, NEW t \in Templates, StartBegin(s, w, t)
      PROVE  ViewInv'
  <2> DEFINE start == [Idle EXCEPT !.op = "start", !.workflow = w, !.newWork = NewWork(t),
                                   !.newRow = [status |-> "Active", template |-> t]]
  <2>1. Begin(s, start) /\ start.op = "start"
    BY <1>3 DEF StartBegin, Idle
  <2> HIDE DEF start
  <2>2. QED
    BY <1>1, <2>1, BeginView DEF ViewWrites
<1>4. ASSUME NEW s \in Sessions, NEW w \in Workflows, NEW status \in WorkflowStatuses,
             UpdateWorkflowBegin(s, w, status)
      PROVE  ViewInv'
  BY <1>1, <1>4, RewriteView DEF UpdateWorkflowBegin, Ops
<1>5. ASSUME NEW s \in Sessions, NEW w \in Workflows, NEW k \in Keys, NEW p \in TaskUpdates,
             UpdateTaskBegin(s, w, k, p)
      PROVE  ViewInv'
  BY <1>1, <1>5, RewriteView DEF UpdateTaskBegin, Ops
<1>6. ASSUME NEW s \in Sessions, NEW w \in Workflows, CheckBegin(s, w) PROVE ViewInv'
  BY <1>1, <1>6, RewriteView DEF CheckBegin, CompleteTerms, Ops
<1>7. ASSUME NEW s \in Sessions, NEW w \in Workflows, ViewBegin(s, w) PROVE ViewInv'
  BY <1>1, <1>7, ViewView
<1>8. ASSUME NEW s \in Sessions, AcceptBegin(s) PROVE ViewInv'
  <2>1. ASSUME NEW w \in Workflows, CompleteTerms(s, "accept", w) PROVE ViewInv'
    BY <1>1, <2>1, RewriteView DEF CompleteTerms, Ops
  <2>2. CASE Begin(s, [Idle EXCEPT !.op = "accept"])
    <3>1. ViewWrites([Idle EXCEPT !.op = "accept"])
      BY DEF ViewWrites, Idle
    <3>2. QED
      BY <1>1, <2>2, <3>1, BeginView
  <2>3. QED
    BY <1>8, <2>1, <2>2 DEF AcceptBegin
<1>9. ASSUME NEW s \in Sessions, NEW t \in Templates, ArchiveBegin(s, t) PROVE ViewInv'
  <2>1. ASSUME NEW w \in Workflows,
               Begin(s, [Idle EXCEPT !.op = "archive", !.template = t, !.workflow = w,
                                     !.row = workflows[w],
                                     !.newRow = [workflows[w] EXCEPT !.status = "Terminated"],
                                     !.work = tasks[w], !.newWork = tasks[w]])
        PROVE  ViewInv'
    <3> DEFINE a == [Idle EXCEPT !.op = "archive", !.template = t, !.workflow = w,
                                 !.row = workflows[w],
                                 !.newRow = [workflows[w] EXCEPT !.status = "Terminated"],
                                 !.work = tasks[w], !.newWork = tasks[w]]
    <3>1. Begin(s, a) /\ a.op = "archive"
      BY <2>1 DEF Idle
    <3> HIDE DEF a
    <3>2. QED
      BY <1>1, <3>1, BeginView DEF ViewWrites
  <2>2. CASE Begin(s, [Idle EXCEPT !.op = "archive", !.template = t])
    <3>1. ViewWrites([Idle EXCEPT !.op = "archive", !.template = t])
      BY DEF ViewWrites, Idle
    <3>2. QED
      BY <1>1, <2>2, <3>1, BeginView
  <2>3. QED
    BY <1>9, <2>1, <2>2 DEF ArchiveBegin
<1>10. ASSUME NEW s \in Sessions,
              Commit(s) \/ Refused(s) \/ Disconnect(s) \/ CloseOrReopen(s)
       PROVE  ViewInv'
  <2>1. \A u \in Sessions : tx'[u] = IF u = s THEN Idle ELSE tx[u]
    BY <1>10 DEF Commit, Refused, Disconnect, Rollback, CloseOrReopen, ViewInv, TypeOK
  <2>2. ViewWrites(Idle)
    BY DEF ViewWrites, Idle
  <2>3. QED
    BY <1>1, <2>1, <2>2 DEF ViewInv, ViewWrites
<1>11. QED
  BY <1>2, <1>3, <1>4, <1>5, <1>6, <1>7, <1>8, <1>9, <1>10 DEF Next

\* However many handlers run, a GET of the request adds due dates and undoes nothing that
\* was committed after it read the tasks.
THEOREM ViewsChangeDatesOnly == Spec => ViewChangesDatesOnly
<1> DEFINE DatesOnly ==
      \A s \in Sessions :
         (tx[s].op = "view" /\ tx'[s] = Idle) =>
            /\ workflows' = workflows
            /\ \A w \in Workflows, k \in Keys :
                 /\ tasks'[w][k].status = tasks[w][k].status
                 /\ tasks'[w][k].completed = tasks[w][k].completed
<1>1. Init => ViewInv
  BY InitType DEF Init, ViewInv, ViewWrites, Idle
<1>2. ViewInv /\ [Next]_vars => [DatesOnly]_vars
  <2> SUFFICES ASSUME ViewInv, [Next]_vars, NEW s \in Sessions, tx[s].op = "view", tx'[s] = Idle
               PROVE  /\ workflows' = workflows
                      /\ \A w \in Workflows, k \in Keys :
                           /\ tasks'[w][k].status = tasks[w][k].status
                           /\ tasks'[w][k].completed = tasks[w][k].completed
    OBVIOUS
  <2>1. CASE \A u \in Sessions : ~Commit(u)
    BY <2>1, RowsChangeOnCommit, TasksChangeOnCommit
  <2>2. ASSUME NEW u \in Sessions, Commit(u) PROVE u = s
    <3>1. u # s => tx'[s] = tx[s]
      BY <2>2 DEF Commit, ViewInv, TypeOK
    <3>2. tx'[s] # tx[s]
      BY DEF Idle
    <3>3. QED
      BY <3>1, <3>2
  <2>3. CASE Commit(s)
    <3> DEFINE t == tx[s]
    <3>1. /\ t.newRow = t.row
          /\ \A k \in Keys : /\ t.newWork[k].status = t.work[k].status
                             /\ t.newWork[k].completed = t.work[k].completed
      BY DEF ViewInv, ViewWrites
    <3>2. \A w \in Workflows : FlushRow(workflows[w], t.row, t.newRow) = workflows[w]
      BY <3>1 DEF FlushRow, Dirty, ViewInv, TypeOK, Workflow
    <3>3. workflows' = workflows
      BY <2>3, <3>2 DEF Commit, ViewInv, TypeOK
    <3>4. ASSUME NEW w \in Workflows, NEW k \in Keys
          PROVE  LET task == FlushTask(tasks[w][k], t.work[k], t.newWork[k])
                 IN  /\ task.status = tasks[w][k].status
                     /\ task.completed = tasks[w][k].completed
      BY <3>1 DEF FlushTask, Dirty, Landed, ViewInv, TypeOK, Committed
    <3>5. QED
      BY <2>3, <3>3, <3>4 DEF Commit, ViewInv, TypeOK
  <2>4. QED
    BY <2>1, <2>2, <2>3
<1>3. QED
  BY <1>1, <1>2, ViewNext, PTL DEF Spec, ViewChangesDatesOnly
================================================================================
