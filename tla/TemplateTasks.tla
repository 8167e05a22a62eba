---------------------------- MODULE TemplateTasks -----------------------------
(***************************************************************************)
(* The tasks of an agency's workflow templates.  A template's tasks are    *)
(* rows with a sequence number; inserting shifts the numbers behind it,    *)
(* and most handlers number the rows of a template anew.  A task that has  *)
(* a key, built in or defined by the agency, is placed on one template.    *)
(*                                                                         *)
(* Each action is a whole handler: one super user edits at a time.  Every  *)
(* handler reads the rows without a lock, so what two do to one template   *)
(* at the same time is not a list (see the README).                        *)
(***************************************************************************)
EXTENDS Integers, SequencesExt

CONSTANTS
    Templates,
    Defaults,     \* WORKFLOW_TASK_TEMPLATES: the keys of a recommended template, in order
    Successors,   \* WORKFLOW_SUCCESSORS, as a function into Templates and NoTemplate
    CustomKeys,   \* keys of tasks the agency may define
    NoKey, NoTemplate,
    NTasks        \* bound: rows at one time

VARIABLES
    status,     \* of a template: not there yet, live, or archived_at is set
    tasks,      \* the rows of agency_task_templates, by id
    custom,     \* the agency's task definitions, by key
    successor   \* successor_template_id

vars == <<status, tasks, custom, successor>>

Ids == 1 .. NTasks
Recommended == {t \in Templates : Defaults[t] # <<>>}
Catalog == UNION {ToSet(Defaults[t]) : t \in Recommended}
Live(t) == status[t] = "live"

Task == [at : Templates, order : 1 .. 2 * NTasks, key : Catalog \cup CustomKeys \cup {NoKey}]

TypeOK ==
    /\ status \in [Templates -> {"unborn", "live", "archived"}]
    /\ DOMAIN tasks \subseteq Ids /\ tasks \in [DOMAIN tasks -> Task]
    /\ custom \in [CustomKeys -> {"unborn", "kept", "deleted"}]
    /\ successor \in [Templates -> Templates \cup {NoTemplate}]

\* An agency before its workflows are listed for the first time.
Init ==
    /\ status = [t \in Templates |-> "unborn"]
    /\ tasks = <<>>
    /\ custom = [k \in CustomKeys |-> "unborn"]
    /\ successor = [t \in Templates |-> NoTemplate]

-----------------------------------------------------------------------------
(* Rows of one template *)

OfTemplate(rows, t) == {i \in DOMAIN rows : rows[i].at = t}
Before(rows, i, j) ==
    rows[i].order < rows[j].order \/ (rows[i].order = rows[j].order /\ i < j)
Place(rows, i) == 1 + Cardinality({j \in OfTemplate(rows, rows[i].at) : Before(rows, j, i)})
Ordered(rows, t) ==
    [n \in 1 .. Cardinality(OfTemplate(rows, t)) |->
        CHOOSE i \in OfTemplate(rows, t) : Place(rows, i) = n]

MaxOrder(rows, t) == Max({0} \cup {rows[i].order : i \in OfTemplate(rows, t)})

\* The rows of the templates S are numbered anew.
Renumbered(rows, S) ==
    [i \in DOMAIN rows |->
        IF rows[i].at \in S THEN [rows[i] EXCEPT !.order = Place(rows, i)] ELSE rows[i]]

\* No position, which is 0 here, or one beyond the end: the task goes last.
AtEnd(rows, t, position) == position = 0 \/ position > Cardinality(OfTemplate(rows, t)) + 1
OrderFor(rows, t, position) == IF AtEnd(rows, t, position) THEN MaxOrder(rows, t) + 1 ELSE position

\* Mutant: the rows behind the position keep their numbers.
Unshifted(rows, t, position) == rows

\* The rows from the position on move one further.
Shifted(rows, t, position) ==
    IF AtEnd(rows, t, position) THEN rows
    ELSE [i \in DOMAIN rows |->
             IF rows[i].at = t /\ rows[i].order >= position
             THEN [rows[i] EXCEPT !.order = @ + 1] ELSE rows[i]]

\* The rows and the new ones, whose ids are random.
Inserted(rows, news) ==
    {[i \in DOMAIN rows \cup DOMAIN new |-> IF i \in DOMAIN rows THEN rows[i] ELSE new[i]] :
        new \in UNION {Bijection(ids, news) : ids \in SUBSET (Ids \ DOMAIN rows)}}
Without(rows, gone) == Restrict(rows, DOMAIN rows \ gone)

\* The default tasks of t whose keys are not among those present, each with its sort_order.
DefaultTasks(t, present) ==
    LET missing == {n \in DOMAIN Defaults[t] : Defaults[t][n] \notin present}
    IN  {[at |-> t, order |-> n, key |-> Defaults[t][n]] : n \in missing}

\* Of the tasks of a template with one key the first stays.
Deduped(rows, S) ==
    LET later == {i \in DOMAIN rows :
                    /\ rows[i].at \in S /\ rows[i].key # NoKey
                    /\ \E j \in OfTemplate(rows, rows[i].at) :
                          rows[j].key = rows[i].key /\ Before(rows, j, i)}
    IN  Renumbered(Without(rows, later), {rows[i].at : i \in later})

\* assert_task_key_available_for_agency
KeyAvailable(k, except) ==
    k # NoKey => \A i \in DOMAIN tasks \ except : Live(tasks[i].at) => tasks[i].key # k

-----------------------------------------------------------------------------
(* Templates *)

CreateTemplate(t) ==
    /\ status[t] = "unborn" /\ t \notin Recommended
    /\ status' = [status EXCEPT ![t] = "live"]
    /\ UNCHANGED <<tasks, custom, successor>>

(***************************************************************************)
(* seed_agency_workflow_templates, on every GET of the list: a recommended *)
(* template that was never there is created, and linked to its successor;  *)
(* a live one without tasks gets the default tasks, whatever other         *)
(* template their keys are on; one with tasks is rid of duplicates.        *)
(***************************************************************************)
Seed ==
    LET born == {t \in Recommended : status[t] = "unborn"}
        alive == {t \in Recommended : status[t] # "archived"}
        empty == {t \in alive : OfTemplate(tasks, t) = {}}
    IN  /\ status' = [t \in Templates |-> IF t \in born THEN "live" ELSE status[t]]
        /\ tasks' \in Inserted(Deduped(tasks, alive), UNION {DefaultTasks(t, {}) : t \in empty})
        /\ successor' = [t \in Templates |->
              IF t \in born /\ Successors[t] \in alive THEN Successors[t] ELSE successor[t]]
        /\ UNCHANGED custom

\* archive_agency_workflow_template; what runs from it is ended too (RequestWorkflow).
Archive(t) ==
    /\ Live(t)
    /\ status' = [status EXCEPT ![t] = "archived"]
    /\ tasks' = Without(tasks, OfTemplate(tasks, t))
    /\ successor' = [u \in Templates |->
          IF u = t \/ successor[u] = t THEN NoTemplate ELSE successor[u]]
    /\ UNCHANGED custom

(***************************************************************************)
(* reset_agency_workflow_template_to_default deletes the tasks and adds    *)
(* the default ones whose keys it does not see on the template.  It looks  *)
(* in the collection it loaded before, in which SQLAlchemy keeps deleted   *)
(* rows until it is expired: what is added is what was missing before.     *)
(***************************************************************************)
Reset(t) ==
    LET present == {tasks[i].key : i \in OfTemplate(tasks, t)}
    IN  /\ Live(t) /\ t \in Recommended
        /\ tasks' \in Inserted(Without(tasks, OfTemplate(tasks, t)), DefaultTasks(t, present))
        /\ successor' = [successor EXCEPT ![t] =
              IF Successors[t] \in Templates /\ Live(Successors[t]) THEN Successors[t] ELSE NoTemplate]
        /\ UNCHANGED <<status, custom>>

-----------------------------------------------------------------------------
(* Tasks *)

Positions(t) == 0 .. Cardinality(OfTemplate(tasks, t)) + 1

\* create_agency_task_template: a task that is typed in goes last.
CreateTask(t) ==
    /\ Live(t)
    /\ tasks' \in Inserted(tasks, {[at |-> t, order |-> MaxOrder(tasks, t) + 1, key |-> NoKey]})
    /\ UNCHANGED <<status, custom, successor>>

\* create_agency_task_from_catalog, create_agency_task_from_custom_definition
PlaceTask(t, k, position) ==
    /\ Live(t)
    /\ k \in Catalog \/ (k \in CustomKeys /\ custom[k] = "kept")
    /\ KeyAvailable(k, {})
    /\ LET new == [at |-> t, order |-> OrderFor(tasks, t, position), key |-> k]
        IN  \E all \in Inserted(Shifted(tasks, t, position), {new}) : tasks' = Renumbered(all, {t})
    /\ UNCHANGED <<status, custom, successor>>

\* _set_task_sequence_order
SetOrder(i, position) ==
    LET t == tasks[i].at
        rows == Ordered(tasks, t)
        current == Place(tasks, i)
        moved == InsertAt(RemoveAt(rows, current), position, i)
    IN  /\ position \in 1 .. Len(rows) /\ position # current
        /\ tasks' = [j \in DOMAIN tasks |->
              IF tasks[j].at = t
              THEN [tasks[j] EXCEPT !.order = SelectInSeq(moved, LAMBDA l : l = j)] ELSE tasks[j]]
        /\ UNCHANGED <<status, custom, successor>>

\* move_agency_task_template: up or down, the numbers of two neighbours are exchanged.
MoveTask(i, step) ==
    LET rows == Ordered(tasks, tasks[i].at)
        place == Place(tasks, i) + step
    IN  /\ place \in 1 .. Len(rows)
        /\ tasks' = [tasks EXCEPT ![i].order = tasks[rows[place]].order,
                                 ![rows[place]].order = tasks[i].order]
        /\ UNCHANGED <<status, custom, successor>>

DeleteTask(i) ==
    /\ tasks' = Renumbered(Without(tasks, {i}), {tasks[i].at})
    /\ UNCHANGED <<status, custom, successor>>

\* transfer_agency_task_to_workflow
Transfer(i, t, position) ==
    LET source == tasks[i].at
        moved == [Shifted(tasks, t, position) EXCEPT
                     ![i] = [@ EXCEPT !.at = t, !.order = OrderFor(tasks, t, position)]]
    IN  /\ t # source /\ Live(t)
        /\ KeyAvailable(tasks[i].key, {i})
        /\ tasks' = Renumbered(moved, {source, t})
        /\ UNCHANGED <<status, custom, successor>>

-----------------------------------------------------------------------------
(* Definitions of the agency *)

\* The key is made from a new identifier: none returns.
Define(k) ==
    /\ custom[k] = "unborn"
    /\ custom' = [custom EXCEPT ![k] = "kept"]
    /\ UNCHANGED <<status, tasks, successor>>

\* The placed task goes with its definition; one_or_none fails if two were placed.
DeleteDefinition(k) ==
    LET placed == {i \in DOMAIN tasks : tasks[i].key = k /\ Live(tasks[i].at)}
    IN  /\ custom[k] = "kept" /\ Cardinality(placed) <= 1
        /\ custom' = [custom EXCEPT ![k] = "deleted"]
        /\ tasks' = Renumbered(Without(tasks, placed), {tasks[i].at : i \in placed})
        /\ UNCHANGED <<status, successor>>

-----------------------------------------------------------------------------
Next ==
    \/ Seed
    \/ \E t \in Templates :
          \/ CreateTemplate(t) \/ Archive(t) \/ Reset(t) \/ CreateTask(t)
          \/ \E k \in Catalog \cup CustomKeys : \E p \in Positions(t) : PlaceTask(t, k, p)
          \/ \E i \in DOMAIN tasks : \E p \in Positions(t) : Transfer(i, t, p)
    \/ \E i \in DOMAIN tasks :
          \/ \E p \in Positions(tasks[i].at) : SetOrder(i, p)
          \/ MoveTask(i, 1) \/ MoveTask(i, -1) \/ DeleteTask(i)
    \/ \E k \in CustomKeys : Define(k) \/ DeleteDefinition(k)

Spec == Init /\ [][Next]_vars

-----------------------------------------------------------------------------
(* Properties *)

ListOf(t) ==
    LET rows == Ordered(tasks, t)
    IN  [n \in DOMAIN rows |-> [id |-> rows[n], key |-> tasks[rows[n]].key]]
Numbered(t) == {tasks[i].order : i \in OfTemplate(tasks, t)} = 1 .. Cardinality(OfTemplate(tasks, t))

\* What the page shows of every template.
Lists == [t \in Templates |-> ListOf(t)]

\* A task is where it was asked to go, if the numbers of that template had no gaps: a reset
\* leaves gaps, and a position behind one counts it.
PlacedWhereAsked ==
    \A i \in DOMAIN tasks' :
        LET t == tasks'[i].at
            Asked(p) ==
                IF i \in DOMAIN tasks THEN Transfer(i, t, p) ELSE PlaceTask(t, tasks'[i].key, p)
        IN  Numbered(t) =>
                \A p \in 1 .. Cardinality(OfTemplate(tasks, t)) + 1 : Asked(p) => Place(tasks', i) = p

\* "Workflow restored to the product default title, description, successor link, and
\* task sequence.  Prior template task customizations were replaced."
ResetRestoresDefaults ==
    \A t \in Templates :
        Reset(t) => [n \in DOMAIN ListOf(t)' |-> ListOf(t)'[n].key] = Defaults[t]
=============================================================================
