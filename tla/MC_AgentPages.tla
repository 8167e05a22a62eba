---------------------------- MODULE MC_AgentPages -----------------------------
(***************************************************************************)
(* Model checking of the pages of the agent's browser: the records of a    *)
(* page with their dialogs (RecordPages), the lists with their search and  *)
(* pagination (Lists), and the tasks of the workflow templates that the    *)
(* Workflows page edits (TemplateTasks).  They share no state: one is      *)
(* studied per behaviour, and the state of the others is Off.              *)
(***************************************************************************)
EXTENDS RecordPages, Sequences

CONSTANTS
    NQueries, MaxRows, NCalls,
    Templates, Defaults, Successors, CustomKeys, NoKey, NoTemplate, NTasks

\* A list has a first page, even when the server has no rows for it, and a call to ask with.
ASSUME ListSizesAssumption == NQueries \in Nat /\ {NCalls, MaxRows} \subseteq Nat \ {0}

\* WORKFLOW_TASK_TEMPLATES has a key once in the list of a template.
ASSUME DefaultsAssumption ==
    \A t \in Templates :
        /\ Defaults[t] \in Seq({Defaults[t][n] : n \in DOMAIN Defaults[t]})
        /\ \A m, n \in DOMAIN Defaults[t] : Defaults[t][m] = Defaults[t][n] => m = n

\* There is room for the default tasks of a template.
ASSUME RoomAssumption == NTasks \in Nat /\ \A t \in Templates : DOMAIN Defaults[t] \subseteq 1 .. NTasks

VARIABLES
    screen,                             \* what is studied
    rows, view, calls,                  \* the state of Lists
    status, tasks, custom, successor,   \* the state of TemplateTasks
    lists                               \* what the Workflows page shows of it

L == INSTANCE Lists
T == INSTANCE TemplateTasks
A == INSTANCE TaskLists WITH next <- successor

listVars == <<rows, view, calls>>
templateVars == <<status, tasks, custom, successor, lists>>
pageVars == <<screen, vars, listVars, templateVars>>

Off == "off"
RecordsOff == srv = Off /\ props = Off /\ ui = Off /\ runs = Off
ListsOff == rows = Off /\ view = Off /\ calls = Off
TemplatesOff == status = Off /\ tasks = Off /\ custom = Off /\ successor = Off /\ lists = Off

MCInit ==
    \/ screen = "records" /\ Init /\ ListsOff /\ TemplatesOff
    \/ screen = "list" /\ L!Init /\ RecordsOff /\ TemplatesOff
    \/ screen = "templates" /\ T!Init /\ lists = T!Lists /\ RecordsOff /\ ListsOff

MCNext ==
    /\ UNCHANGED screen
    /\ \/ screen = "records" /\ Next /\ UNCHANGED <<listVars, templateVars>>
       \/ screen = "list" /\ L!Next /\ UNCHANGED <<vars, templateVars>>
       \/ screen = "templates" /\ T!Next /\ lists' = T!Lists' /\ UNCHANGED <<vars, listVars>>

MCSpec == MCInit /\ [][MCNext]_pageVars

\* For TLC: two recommended templates, the second the successor of the first, and the
\* agency's own.
MCDefaults ==
    [t \in Templates |-> CASE t = "research" -> <<"options", "upload">>
                         [] t = "communicate" -> <<"send">>
                         [] OTHER -> <<>>]
MCSuccessors == [t \in Templates |-> IF t = "research" THEN "communicate" ELSE NoTemplate]

-----------------------------------------------------------------------------
(* Properties *)

\* Every record has its fields in their ranges, on each screen.
PagesTypeOK ==
    /\ screen = "records" => TypeOK
    /\ screen = "list" => L!TypeOK
    /\ screen = "templates" => T!TypeOK

\* What the dialogs of the pages store (RecordPages): no record gets the text of another,
\* and one save is in flight at most where the page keeps the flag.
SavesAreRight == screen = "records" => NoCrossWrite /\ SavesOnce

\* What is on screen is what was asked for: the dialog shows the record whose row was
\* clicked (RecordPages); a list at rest shows the answer to what its controls ask, on a
\* page that exists, its spinner has an end in sight, and it says that nothing matched
\* only when the server found nothing (Lists).
ShownIsWhatWasAsked ==
    /\ screen = "records" => ShownIsAsked
    /\ screen = "list" =>
          L!ShownIsAsked /\ L!PageInRange /\ L!SpinnerHasCause /\ L!NoMatchIsTrue

\* What was typed in a dialog is lost only by what the agent did to it (RecordPages).
DialogKeepsTyped == [][screen = "records" => KeepsTyped]_pageVars

\* The numbered rows of a template implement the lists of TaskLists: nothing but the task
\* of an edit is put, moved, lost or doubled, it is where it was asked to go (TemplateTasks),
\* a key is put on one template only, and what is archived stays empty.
TemplatesAreLists ==
    [][screen = "templates" => [A!Next]_A!vars /\ T!PlacedWhereAsked]_pageVars

\* What a reset promises (TemplateTasks).
ResetRestoresDefaults == [][screen = "templates" => T!ResetRestoresDefaults]_pageVars
=============================================================================
