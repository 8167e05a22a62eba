-------------------------- MODULE MC_RequestWorkflow ---------------------------
(***************************************************************************)
(* Templates and payloads for model checking RequestWorkflow.              *)
(***************************************************************************)
EXTENDS RequestWorkflow, TLC

CONSTANTS research, trip

\* The follow-up pair on one template, its terms task on the other.
MCTaskKeys == [t \in Templates |->
                 IF t = trip THEN {Send, FollowUp, Terms} ELSE {Send, FollowUp}]

MCTermsOnly == [t \in Templates |-> IF t = trip THEN {Terms} ELSE {Send, FollowUp}]

\* One task for the agent, one that the client's acceptance completes.
MCTermsAndResponse == [t \in Templates |-> {Terms, Response}]

Nothing == [isCompleted |-> Unset, status |-> Unset, reachedOut |-> FALSE, due |-> Unset]

Mark(status) == [Nothing EXCEPT !.status = status]

MCTaskUpdates ==
    {Mark(status) : status \in TaskStatuses} \cup
    {[Mark("Blocked") EXCEPT !.isCompleted = "Done"],
     [Nothing EXCEPT !.reachedOut = TRUE], [Nothing EXCEPT !.due = "null"]}

MCFinish == {Mark("Done")}

\* What sets and clears the date of a follow-up.
MCDates == MCFinish \cup {[Nothing EXCEPT !.reachedOut = TRUE], [Nothing EXCEPT !.due = "null"]}

MCTerminate == {"Terminated"}

MCReactivate == {"Active", "Terminated"}

\* Without Active, a workflow that has ended stays ended.
MCEndings == {"Completed", "Terminated", "Cancelled"}

Symmetry == Permutations(Sessions) \cup Permutations(Workflows)
================================================================================
