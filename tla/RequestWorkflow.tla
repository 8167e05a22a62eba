---------------------------- MODULE RequestWorkflow ----------------------------
(***************************************************************************)
(* The live workflows of one travel request, their tasks, and everyone who *)
(* changes them: agents (services/workflow_service.py), a client accepting *)
(* the Master Terms (services/tc_service.py, tc_workflow_service.py), an   *)
(* owner archiving the template a workflow was started from                *)
(* (services/workflow_template_service.py), and a GET of the request       *)
(* (services/request_service.py).                                          *)
(*                                                                         *)
(* No handler locks a row: each reads a snapshot when it begins (Begin     *)
(* actions) and its commit writes the columns it changed over whatever was *)
(* committed meanwhile.  Only the unique index on the active workflow of a *)
(* request, and the foreign key to a template's tasks, can refuse it.      *)
(***************************************************************************)
EXTENDS FiniteSets

CONSTANTS
    Sessions,     \* handler threads: one database session each
    Workflows,    \* request_workflows_live primary keys
    Templates,    \* agency_workflow_templates primary keys
    TaskKeys,     \* the task keys of each template
    EnterTrip,    \* the template of type Enter Trip in CRM, or NoTemplate
    NoTemplate,
    NoWorkflow,
    Unset,        \* a field the PATCH payload leaves out
    TaskUpdates,  \* payloads of PATCH /requests/{id}/tasks/{task_id}
    WorkflowStatuses  \* payloads of PATCH /requests/{id}/workflows/{workflow_id}

Send     == "send_research_communication"
FollowUp == "follow_up_research"
Terms    == "accept_master_terms_and_conditions"
Response == "client_response"
Keys     == {Send, FollowUp, Terms, Response}

TaskStatuses == {"Open", "Done", "Cancelled", "Blocked"}

\* due_at and completed_at: NULL, a time, or the time this handler writes.
Times == {"null", "set", "now"}

Task == [status: TaskStatuses \cup {"None"}, completed: Times, due: Times]

Workflow == [status: {"None", "Active", "Completed", "Terminated"},
             template: Templates \cup {NoTemplate}]

\* isCompleted: the payload's flag as the status it stands for.
TaskUpdate == [isCompleted: {"Done", "Open", Unset}, status: TaskStatuses \cup {Unset},
               reachedOut: BOOLEAN, due: {"null", "now", Unset}]

ASSUME WorkflowAssumption ==
    /\ NoTemplate \notin Templates
    /\ NoWorkflow \notin Workflows
    /\ TaskKeys \in [Templates -> SUBSET Keys]
    /\ TaskUpdates \subseteq TaskUpdate
    /\ WorkflowStatuses \subseteq {"Active", "Completed", "Terminated", "Cancelled"}

VARIABLES
    open,       \* the travel request is not closed
    workflows,  \* committed request_workflows_live rows of the request
    tasks,      \* committed request_tasks_live rows, by workflow and task key
    archived,   \* templates whose archived_at is set; their tasks are deleted
    accepted,   \* the client's Master Terms agreement is on file
    tx          \* what each session's handler has read and means to write

vars == <<open, workflows, tasks, archived, accepted, tx>>

NoTask == [status |-> "None", completed |-> "null", due |-> "null"]
NoTasks == [k \in Keys |-> NoTask]
Unborn == [status |-> "None", template |-> NoTemplate]

Ops == {"idle", "start", "update", "task", "accept", "check", "archive", "view"}

\* row, work and newRow, newWork: the workflow and its tasks as read and as
\* modified; template is the one an archive handler removes.
Idle == [op |-> "idle", workflow |-> NoWorkflow, row |-> Unborn, newRow |-> Unborn,
         work |-> NoTasks, newWork |-> NoTasks, template |-> NoTemplate]

Init ==
    /\ open = TRUE
    /\ workflows = [w \in Workflows |-> Unborn]
    /\ tasks = [w \in Workflows |-> NoTasks]
    /\ archived = {}
    /\ accepted = FALSE
    /\ tx = [s \in Sessions |-> Idle]

-----------------------------------------------------------------------------
(* Tasks.                                                                    *)

Active(w) == workflows[w].status = "Active"

Present(work) == {k \in Keys : work[k].status # "None"}

\* Mutant: a task that is opened again keeps its completion time.
MarkedOnly(task, status) ==
    [task EXCEPT !.status = status, !.completed = IF status = "Done" THEN "now" ELSE @]

\* _apply_task_status; Blocked and Cancelled leave completed_at alone.
Marked(task, status) ==
    [task EXCEPT !.status = status,
                 !.completed = CASE status = "Done" -> "now"
                                 [] status = "Open" -> "null"
                                 [] OTHER -> @]

FollowUpOpen(work) == work[FollowUp].status = "Open"

\* apply_task_completion_side_effects: three days from now, also if one is set.
Scheduled(work, k) ==
    IF k = Send /\ work[Send].status = "Done" /\ FollowUpOpen(work)
    THEN [work EXCEPT ![FollowUp].due = "now"] ELSE work

\* ensure_follow_up_due_date: only where there is none.
Ensured(work) ==
    IF /\ work[Send].status = "Done" /\ work[Send].completed # "null"
       /\ FollowUpOpen(work) /\ work[FollowUp].due = "null"
    THEN [work EXCEPT ![FollowUp].due = "now"] ELSE work

AllDone(work) ==
    /\ Present(work) # {}
    /\ \A k \in Present(work) : work[k].status = "Done"

\* Mutant: the workflow of a finished list stays active.
NeverCompleted(row, work) == row

\* _maybe_auto_complete_workflow.
AutoCompleted(row, work) ==
    IF row.status = "Active" /\ AllDone(work) THEN [row EXCEPT !.status = "Completed"] ELSE row

-----------------------------------------------------------------------------
(* Handlers: what they read and what they commit.                            *)

Begin(s, transaction) ==
    /\ tx[s] = Idle
    /\ tx' = [tx EXCEPT ![s] = transaction]
    /\ UNCHANGED <<open, workflows, tasks, archived, accepted>>

\* A handler that changes the tasks of w to work, and then perhaps its status.
Rewrite(s, op, w, row, work) ==
    Begin(s, [Idle EXCEPT !.op = op, !.workflow = w,
                          !.row = workflows[w], !.newRow = row,
                          !.work = tasks[w], !.newWork = work])

NewWork(t) == [k \in Keys |-> IF k \in TaskKeys[t] THEN [NoTask EXCEPT !.status = "Open"] ELSE NoTask]

\* start_workflow.  For Enter Trip in CRM it then completes the open Master
\* Terms tasks if an agreement is on file, but the session does not autoflush:
\* the query for them does not see the tasks this handler has just added.
StartBegin(s, w, t) ==
    /\ open
    /\ workflows[w] = Unborn
    /\ \A u \in Sessions : tx[u].workflow # w
    /\ \A v \in Workflows : ~Active(v)
    /\ t \notin archived /\ TaskKeys[t] # {}
    /\ Begin(s, [Idle EXCEPT !.op = "start", !.workflow = w, !.newWork = NewWork(t),
                             !.newRow = [status |-> "Active", template |-> t]])

\* update_workflow; a status equal to the current one changes nothing, and
\* Active reopens a workflow that has ended.
UpdateWorkflowBegin(s, w, status) ==
    /\ open
    /\ workflows[w] # Unborn
    /\ Rewrite(s, "update", w,
               [workflows[w] EXCEPT !.status = IF status = "Cancelled" THEN "Terminated" ELSE status],
               tasks[w])

Apply(work, k, status) ==
    IF status = Unset THEN work ELSE Scheduled([work EXCEPT ![k] = Marked(@, status)], k)

\* The flag first, then the status.
StatusApplied(work, k, p) == Apply(Apply(work, k, p.isCompleted), k, p.status)

TaskAfter(work, k, p) ==
    LET marked == StatusApplied(work, k, p)
        reached == IF p.reachedOut THEN [marked EXCEPT ![k].due = "now"] ELSE marked
    IN  Ensured(IF p.due = Unset THEN reached ELSE [reached EXCEPT ![k].due = p.due])

\* record_follow_up_reached_out refuses any other task, and one that is not open.
ReachedOutAllowed(work, k, p) ==
    p.reachedOut => k = FollowUp /\ StatusApplied(work, k, p)[k].status = "Open"

\* Mutant: the tasks of an ended workflow may be updated.
TaskOfAnyWorkflowBegin(s, w, k, p) ==
    LET work == TaskAfter(tasks[w], k, p) IN
    /\ open
    /\ k \in Present(tasks[w])
    /\ ReachedOutAllowed(tasks[w], k, p)
    /\ Rewrite(s, "task", w, AutoCompleted(workflows[w], work), work)

\* update_task.
UpdateTaskBegin(s, w, k, p) ==
    LET work == TaskAfter(tasks[w], k, p) IN
    /\ open
    /\ Active(w)
    /\ k \in Present(tasks[w])
    /\ ReachedOutAllowed(tasks[w], k, p)
    /\ Rewrite(s, "task", w, AutoCompleted(workflows[w], work), work)

TermsOpen(w) == Active(w) /\ tasks[w][Terms].status = "Open"

\* complete_open_master_terms_tasks.
CompleteTerms(s, op, w) ==
    LET work == [tasks[w] EXCEPT ![Terms] = Marked(@, "Done")] IN
    /\ TermsOpen(w)
    /\ Rewrite(s, op, w, AutoCompleted(workflows[w], work), work)

\* record_acceptance on the portal, whether or not the task is open.
AcceptBegin(s) ==
    \/ \E w \in Workflows : CompleteTerms(s, "accept", w)
    \/ (\A w \in Workflows : ~TermsOpen(w)) /\ Begin(s, [Idle EXCEPT !.op = "accept"])

\* check_request_status, once an agreement is on file.
CheckBegin(s, w) == accepted /\ CompleteTerms(s, "check", w)

\* Mutant: archiving leaves the workflows in flight.
ArchiveOnlyBegin(s, t) ==
    /\ t \notin archived
    /\ Begin(s, [Idle EXCEPT !.op = "archive", !.template = t])

\* archive_agency_workflow_template terminates the workflows started from it.
ArchiveBegin(s, t) ==
    /\ t \notin archived
    /\ \/ \E w \in Workflows :
            /\ Active(w) /\ workflows[w].template = t
            /\ Begin(s, [Idle EXCEPT !.op = "archive", !.template = t, !.workflow = w,
                                     !.row = workflows[w],
                                     !.newRow = [workflows[w] EXCEPT !.status = "Terminated"],
                                     !.work = tasks[w], !.newWork = tasks[w]])
       \/ /\ \A w \in Workflows : ~(Active(w) /\ workflows[w].template = t)
          /\ Begin(s, [Idle EXCEPT !.op = "archive", !.template = t])

\* get_request_detail fills in missing due dates, and commits if it did.
ViewBegin(s, w) ==
    /\ Active(w)
    /\ Ensured(tasks[w]) # tasks[w]
    /\ Rewrite(s, "view", w, workflows[w], Ensured(tasks[w]))

-----------------------------------------------------------------------------
(* Commit.                                                                   *)

Landed(time) == IF time = "now" THEN "set" ELSE time

\* The unit of work writes a column only where the handler changed it.
Dirty(current, old, new) == IF new = old THEN current ELSE new

FlushRow(row, old, new) ==
    [status   |-> Dirty(row.status, old.status, new.status),
     template |-> Dirty(row.template, old.template, new.template)]

\* Mutant: the whole task is written, times and all, as the handler left it.
FlushWholeTask(task, old, new) == new

\* Mutant: a changed task is written with all its columns.
FlushChangedTask(task, old, new) ==
    IF new = old THEN task
    ELSE [new EXCEPT !.completed = Landed(@), !.due = Landed(@)]

FlushTask(task, old, new) ==
    [status    |-> Dirty(task.status, old.status, new.status),
     completed |-> Landed(Dirty(task.completed, old.completed, new.completed)),
     due       |-> Landed(Dirty(task.due, old.due, new.due))]

\* Mutant: a database made from models.py alone, without the unique index.
NoIndex(s) == TRUE

\* uq_request_workflows_live_one_active: a row that becomes Active is the only one.
SlotFree(s) ==
    LET t == tx[s] IN
    t.newRow.status = "Active" /\ t.row.status # "Active" =>
        \A w \in Workflows \ {t.workflow} : ~Active(w)

\* The new tasks refer to the template's tasks, which archiving deletes.
TemplateKept(s) == tx[s].op = "start" => tx[s].newRow.template \notin archived

Commit(s) ==
    LET t == tx[s] IN
    /\ t # Idle
    /\ SlotFree(s) /\ TemplateKept(s)
    /\ workflows' = [w \in Workflows |->
                       IF w = t.workflow THEN FlushRow(workflows[w], t.row, t.newRow)
                       ELSE workflows[w]]
    /\ tasks' = [w \in Workflows |->
                   IF w = t.workflow
                   THEN [k \in Keys |-> FlushTask(tasks[w][k], t.work[k], t.newWork[k])]
                   ELSE tasks[w]]
    /\ archived' = IF t.op = "archive" THEN archived \cup {t.template} ELSE archived
    /\ accepted' = (accepted \/ t.op = "accept")
    /\ tx' = [tx EXCEPT ![s] = Idle]
    /\ UNCHANGED open

Rollback(s) ==
    /\ tx' = [tx EXCEPT ![s] = Idle]
    /\ UNCHANGED <<open, workflows, tasks, archived, accepted>>

\* IntegrityError.
Refused(s) ==
    /\ tx[s] # Idle
    /\ ~(SlotFree(s) /\ TemplateKept(s))
    /\ Rollback(s)

\* The handler fails or its connection is lost.
Disconnect(s) ==
    /\ tx[s] # Idle
    /\ Rollback(s)

\* update_request and reopen_request, as far as workflows see them: closing
\* leaves an active workflow active.
CloseOrReopen(s) ==
    /\ tx[s] = Idle
    /\ open' = ~open
    /\ UNCHANGED <<workflows, tasks, archived, accepted, tx>>

Next ==
    \/ \E s \in Sessions, w \in Workflows :
         \/ \E t \in Templates : StartBegin(s, w, t)
         \/ \E status \in WorkflowStatuses : UpdateWorkflowBegin(s, w, status)
         \/ \E k \in Keys, p \in TaskUpdates : UpdateTaskBegin(s, w, k, p)
         \/ CheckBegin(s, w)
         \/ ViewBegin(s, w)
    \/ \E s \in Sessions :
         \/ AcceptBegin(s)
         \/ \E t \in Templates : ArchiveBegin(s, t)
         \/ Commit(s)
         \/ Refused(s)
         \/ Disconnect(s)
         \/ CloseOrReopen(s)

Spec == Init /\ [][Next]_vars

-----------------------------------------------------------------------------
(* Properties.                                                               *)

Transaction == [op: Ops, workflow: Workflows \cup {NoWorkflow},
                row: Workflow, newRow: Workflow,
                work: [Keys -> Task], newWork: [Keys -> Task],
                template: Templates \cup {NoTemplate}]

Committed == [status: TaskStatuses \cup {"None"}, completed: {"null", "set"}, due: {"null", "set"}]

\* Every variable holds values of its kind; a committed row holds no time that
\* is still to be written, and an archive handler names its template.
TypeOK ==
    /\ open \in BOOLEAN
    /\ workflows \in [Workflows -> Workflow]
    /\ tasks \in [Workflows -> [Keys -> Committed]]
    /\ archived \subseteq Templates
    /\ accepted \in BOOLEAN
    /\ tx \in [Sessions -> Transaction]
    /\ \A s \in Sessions : tx[s].op = "archive" => tx[s].template \in Templates

\* README: "Each open request has at most one active workflow at a time",
\* however starts, reactivations and terminations interleave.
OneActive ==
    \A v, w \in Workflows : Active(v) /\ Active(w) => v = w

\* update_task: "Tasks can only be updated on active workflows."  What a task of
\* an ended workflow records stays as it was.
EndedWorkflowFrozen ==
    [][\A w \in Workflows :
         workflows[w].status \in {"Completed", "Terminated"} => tasks'[w] = tasks[w]]_vars

\* A workflow whose last task is done, by an agent or by the client's terms
\* acceptance, is completed with it.
DoneIsCompleted ==
    \A w \in Workflows : Active(w) => ~AllDone(tasks[w])

\* README: completing Send research communication "schedules the follow-up due
\* date": an open follow-up of a sent communication always has one.
FollowUpHasDueDate ==
    \A w \in Workflows :
        tasks[w][Send].status = "Done" /\ FollowUpOpen(tasks[w]) => tasks[w][FollowUp].due # "null"

\* get_request_detail is a GET that writes: it adds a due date and never undoes a
\* status that another handler committed after it read the tasks.
ViewChangesDatesOnly ==
    [][\A s \in Sessions :
         (tx[s].op = "view" /\ tx'[s] = Idle) =>
            /\ workflows' = workflows
            /\ \A w \in Workflows, k \in Keys :
                 /\ tasks'[w][k].status = tasks[w][k].status
                 /\ tasks'[w][k].completed = tasks[w][k].completed]_vars

\* A completed task has its completion time, an open one has none.
CompletionIsStamped ==
    \A w \in Workflows, k \in Keys :
        /\ tasks[w][k].status = "Done" => tasks[w][k].completed = "set"
        /\ tasks[w][k].status = "Open" => tasks[w][k].completed = "null"

\* The dates of the tasks follow what was done with them, in whatever order
\* update_task is called with whatever payloads: the follow-up of a sent
\* communication has a due date, and a task its time of completion.
TaskDatesFollow == FollowUpHasDueDate /\ CompletionIsStamped

\* get_open_request: "Closed requests cannot be updated."  No workflow becomes
\* active on a closed request.
ClosedStartsNothing ==
    [][~open => \A w \in Workflows : Active(w)' => Active(w)]_vars

\* What is over stays over: the record of an ended workflow does not change, and a closed
\* request gets no workflow.
OverStaysOver == EndedWorkflowFrozen /\ ClosedStartsNothing

\* terminate_active_live_workflows_for_template: "End in-flight request workflows
\* that were started from this agency template."
ArchivedHasNoActive ==
    \A w \in Workflows : Active(w) => workflows[w].template \notin archived

\* sync_master_terms_tasks_for_request: "Complete open Master T&C tasks when the
\* client already has an accepted agreement", which start_workflow calls for
\* Enter Trip in CRM.  The code does not keep it (README).
EnterTripStartsSynced ==
    [][\A w \in Workflows :
         (workflows[w] = Unborn /\ workflows'[w].template = EnterTrip /\ Active(w)' /\ accepted) =>
            tasks'[w][Terms].status # "Open"]_vars

=============================================================================
