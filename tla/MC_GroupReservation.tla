------------------------- MODULE MC_GroupReservation --------------------------
(***************************************************************************)
(* Payload sets for model checking GroupReservation on two inventories.    *)
(***************************************************************************)
EXTENDS GroupReservation, TLC

CONSTANTS i1, i2

Booking(a, b) == [i \in Inventories |-> IF i = i1 THEN a ELSE b]

\* An intake for both inventories, one for the first, one with no group.
MCIntakes ==
    {[grouped |-> TRUE, link |-> NoInventory, booked |-> Booking(1, 1), needed |-> 1],
     [grouped |-> TRUE, link |-> i1, booked |-> NoDemand, needed |-> 1],
     [grouped |-> FALSE, link |-> NoInventory, booked |-> NoDemand, needed |-> 1]}

MCGroupIntakes == {p \in MCIntakes : p.grouped}

Nothing == [status |-> Unset, reason |-> Unset, grouped |-> Unset, link |-> Unset, needed |-> Unset]

Close(reason) == [Nothing EXCEPT !.status = "Closed", !.reason = reason]

MCClosings == {Close(Primary), Close(Other)}

\* Closings, and edits of every column the reservation depends on.
MCUpdates ==
    MCClosings \cup
    {[Nothing EXCEPT !.needed = MaxCabins],
     [Nothing EXCEPT !.grouped = FALSE],
     [Nothing EXCEPT !.link = NoInventory],
     [Nothing EXCEPT !.grouped = TRUE, !.link = i2],
     [Nothing EXCEPT !.reason = Primary],
     [Nothing EXCEPT !.status = "Closed"],
     [Close(Primary) EXCEPT !.grouped = TRUE, !.link = i1]}

\* No payload that relinks and closes at once.
MCEditsThenCloses == {u \in MCUpdates : u.status = Unset \/ u.link = Unset}

MCBothIntake == {p \in MCIntakes : Demanded(p.booked) # {}}

MCPurchase == {Close(Primary)}

MCBlocks == {[allocated |-> 2, reserved |-> 0]}

MCEdits ==
    {[allocated |-> 1, reserved |-> Unset],
     [allocated |-> 2, reserved |-> Unset],
     [allocated |-> Unset, reserved |-> 0],
     [allocated |-> Unset, reserved |-> 1]}

\* Edits that leave the reserved count to the purchases.
MCAllocationEdits == {e \in MCEdits : e.reserved = Unset}

NoEdits == {}

Symmetry == Permutations(Sessions) \cup Permutations(Requests)
=============================================================================
