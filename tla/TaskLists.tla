------------------------------ MODULE TaskLists -------------------------------
(***************************************************************************)
(* What the pages that edit an agency's workflow templates promise: a      *)
(* template is a list of tasks; an edit puts, moves or removes one task,   *)
(* and the other tasks of every list keep their order.  TemplateTasks      *)
(* implements it with numbered rows.                                       *)
(***************************************************************************)
EXTENDS Naturals, SequencesExt

CONSTANTS
    Templates,
    Defaults,     \* the keys of the default tasks of a template, <<>> if it has none
    NoKey,        \* the key of a task that was typed in
    NoTemplate

VARIABLES
    status,  \* of a template: "unborn", "live" or "archived"
    lists,   \* the tasks of a template, each with its id and its key
    next     \* the template that is named as the successor of another

vars == <<status, lists, next>>

Init ==
    /\ status = [t \in Templates |-> "unborn"]
    /\ lists = [t \in Templates |-> <<>>]
    /\ next = [t \in Templates |-> NoTemplate]

KeysOf(list) == [n \in DOMAIN list |-> list[n].key]
Increasing(D, R) == {f \in [D -> R] : \A m, n \in D : m < n => f[m] < f[n]}
Elsewhere(x) == (UNION {ToSet(lists[t]) : t \in Templates}) \ {x}
KeyFree(x) == x.key # NoKey => \A y \in Elsewhere(x) : y.key # x.key

-----------------------------------------------------------------------------
Create(t) ==
    /\ status[t] = "unborn" /\ Defaults[t] = <<>>
    /\ status' = [status EXCEPT ![t] = "live"]
    /\ UNCHANGED <<lists, next>>

\* The recommended templates appear, and those without any task get the default ones.
Recommend ==
    /\ status' = [t \in Templates |->
                     IF Defaults[t] # <<>> /\ status[t] = "unborn" THEN "live" ELSE status[t]]
    /\ \A t \in Templates :
          next'[t] = next[t] \/ (status[t] = "unborn" /\ status'[next'[t]] = "live")
    /\ \A t \in Templates :
          IF Defaults[t] # <<>> /\ status'[t] = "live" /\ lists[t] = <<>>
          THEN KeysOf(lists'[t]) = Defaults[t]
          ELSE lists'[t] = lists[t]

\* One task more, whose key no other list has.
Put(t) ==
    /\ status[t] = "live" /\ UNCHANGED <<status, next>>
    /\ Len(lists'[t]) = Len(lists[t]) + 1
    /\ \E n \in DOMAIN lists'[t] :
          /\ KeyFree(lists'[t][n])
          /\ lists' = [lists EXCEPT ![t] = InsertAt(@, n, lists'[t][n])]

Drop(t) ==
    /\ UNCHANGED <<status, next>>
    /\ Len(lists'[t]) = Len(lists[t]) - 1
    /\ \E n \in DOMAIN lists[t] : lists' = [lists EXCEPT ![t] = RemoveAt(@, n)]

\* One task goes to another place of its list.
Move(t) ==
    /\ UNCHANGED <<status, next>>
    /\ Len(lists'[t]) = Len(lists[t])
    /\ \E n, p \in DOMAIN lists[t] :
          lists' = [lists EXCEPT ![t] = InsertAt(RemoveAt(@, n), p, @[n])]

\* One task goes to another list, if no third task has its key.
Transfer(t, u) ==
    /\ status[u] = "live" /\ t # u /\ UNCHANGED <<status, next>>
    /\ Len(lists'[u]) = Len(lists[u]) + 1 /\ Len(lists'[t]) = Len(lists[t]) - 1
    /\ \E n \in DOMAIN lists[t], p \in DOMAIN lists'[u] :
          /\ KeyFree(lists[t][n])
          /\ lists' = [lists EXCEPT ![t] = RemoveAt(@, n), ![u] = InsertAt(@, p, lists[t][n])]

\* An archived template has no tasks, and nothing follows to it or from it.
Archive(t) ==
    /\ status[t] = "live"
    /\ status' = [status EXCEPT ![t] = "archived"]
    /\ next' = [u \in Templates |-> IF u = t \/ next[u] = t THEN NoTemplate ELSE next[u]]
    /\ lists' = [lists EXCEPT ![t] = <<>>]

\* Nothing stays of what was in the list; what replaces it are default tasks in their order.
Reset(t) ==
    /\ status[t] = "live" /\ Defaults[t] # <<>> /\ UNCHANGED status
    /\ next'[t] = NoTemplate \/ status[next'[t]] = "live"
    /\ \A u \in Templates \ {t} : next'[u] = next[u] /\ lists'[u] = lists[u]
    /\ \E f \in Increasing(DOMAIN lists'[t], DOMAIN Defaults[t]) :
          \A n \in DOMAIN lists'[t] : lists'[t][n].key = Defaults[t][f[n]]

Next ==
    \/ Recommend
    \/ \E t \in Templates :
          \/ Create(t) \/ Put(t) \/ Drop(t) \/ Move(t) \/ Archive(t) \/ Reset(t)
          \/ \E u \in Templates : Transfer(t, u)

Spec == Init /\ [][Next]_vars
=============================================================================
