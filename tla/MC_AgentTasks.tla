---------------------------- MODULE MC_AgentTasks -----------------------------
(***************************************************************************)
(* Model checking of what an agent works on inside one request: the panel  *)
(* of a task (TaskPanels), its travel insurance (InsuranceTask), and the   *)
(* rooms of a proposed cruise (CruiseRooms).  They share no state here:    *)
(* one is studied per behaviour, and the state of the others is Off.       *)
(***************************************************************************)
EXTENDS TaskPanels

CONSTANTS NRooms, NPassengers, MaxLimit, Resized, NQuotes, Overlap

\* A stored cruise keeps the rules of its rooms: the first one holds all passengers.
ASSUME RoomsAssumption ==
    /\ NRooms \in Nat \ {0} /\ NPassengers \in Nat /\ MaxLimit \in Nat \ {0}
    /\ NPassengers <= MaxLimit /\ 1 \in Resized

VARIABLES
    screen,                             \* what is studied
    cruises, party, modal, page, saves, \* the state of CruiseRooms
    waivers, shown, panel, handlers     \* the state of InsuranceTask

C == INSTANCE CruiseRooms WITH srv <- cruises, calls <- saves
I == INSTANCE InsuranceTask WITH srv <- waivers, props <- shown, runs <- handlers

roomVars == <<cruises, party, modal, page, saves>>
insuranceVars == <<waivers, shown, panel, handlers>>
taskVars == <<screen, vars, roomVars, insuranceVars>>

Off == "off"
PanelOff == srv = Off /\ props = Off /\ ui = Off /\ runs = Off
RoomsOff == cruises = Off /\ party = Off /\ modal = Off /\ page = Off /\ saves = Off
InsuranceOff == waivers = Off /\ shown = Off /\ panel = Off /\ handlers = Off

MCInit ==
    \/ screen = "panel" /\ Init /\ RoomsOff /\ InsuranceOff
    \/ screen = "rooms" /\ C!Init /\ PanelOff /\ InsuranceOff
    \/ screen = "insurance" /\ I!Init /\ PanelOff /\ RoomsOff

MCNext ==
    /\ UNCHANGED screen
    /\ \/ screen = "panel" /\ Next /\ UNCHANGED <<roomVars, insuranceVars>>
       \/ screen = "rooms" /\ C!Next /\ UNCHANGED <<vars, insuranceVars>>
       \/ screen = "insurance" /\ I!Next /\ UNCHANGED <<vars, roomVars>>

MCSpec == MCInit /\ [][MCNext]_taskVars

-----------------------------------------------------------------------------
(* Properties *)

\* Every record has its fields in their ranges, on each screen.
TasksTypeOK ==
    /\ screen = "panel" => TypeOK
    /\ screen = "rooms" => C!TypeOK
    /\ screen = "insurance" => I!TypeOK

\* A task that is Done has every record its save covered stored complete
\* (TaskPanels): the save handlers of the task panels.
TaskDoneIsStored == screen = "panel" => DoneIsStored

\* What says "saving" or "loading" has an end in sight: a panel is busy exactly while
\* its one save runs (TaskPanels), and no flag of the insurance panel is on without a
\* handler that will take it off (InsuranceTask).
BusyHasCause ==
    /\ screen = "panel" => BusyIsRunning
    /\ screen = "insurance" => I!FlagsHaveCause

\* The insurance panel goes on only with the check on record (InsuranceTask): the
\* handlers that save the annual policy and the result of the check.
InsuranceCheckIsOnRecord == screen = "insurance" => I!CheckIsOnRecord

\* No save of the cruise dialog breaks the rules of the server for rooms, and no stored
\* cruise holds a passenger that was removed from the request (CruiseRooms).
RoomSavesAreLegal == screen = "rooms" => C!SavesAreLegal

\* What was typed in a task panel or in a room is taken only by the agent, by a save
\* that stored it or by a reload of the request (TaskPanels, CruiseRooms).
TypedIsKept ==
    [][/\ screen = "panel" => KeepsTyped
       /\ screen = "rooms" => C!KeepsTyped]_taskVars
=============================================================================
