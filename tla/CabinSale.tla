------------------------------- MODULE CabinSale -------------------------------
(***************************************************************************)
(* What the purchase path promises about a block of cabins, with no locks  *)
(* and no database: a sale offers a number of cabins per inventory and     *)
(* then, in one step, either takes all of them out of what remains or      *)
(* takes none.  Staff set the counts of one inventory at a time.           *)
(***************************************************************************)
EXTENDS Integers

CONSTANTS Sellers, Inventories, MaxCabins

VARIABLES
    blocks, \* [phase, allocated, reserved] of each inventory
    offer   \* the cabins each seller means to take; none when it sells nothing

NoOffer == [i \in Inventories |-> 0]

Offers == [Inventories -> 0..MaxCabins]

Init ==
    /\ \A i \in Inventories : blocks[i].phase = "Unborn"
    /\ offer = [q \in Sellers |-> NoOffer]

Offer(q) ==
    /\ offer[q] = NoOffer
    /\ \E d \in Offers : offer' = [offer EXCEPT ![q] = d]
    /\ UNCHANGED blocks

\* The whole offer, within what remains of every inventory it names.
Take(q) ==
    /\ offer[q] # NoOffer
    /\ \A i \in Inventories : offer[q][i] > 0 =>
         /\ blocks[i].phase = "Live"
         /\ blocks[i].reserved + offer[q][i] <= blocks[i].allocated
    /\ blocks' = [i \in Inventories |->
                    [blocks[i] EXCEPT !.reserved = @ + offer[q][i]]]
    /\ offer' = [offer EXCEPT ![q] = NoOffer]

Decline(q) ==
    /\ offer' = [offer EXCEPT ![q] = NoOffer]
    /\ UNCHANGED blocks

\* A new, changed or deleted inventory; no sale ends in this step.
StaffWrites(i) ==
    /\ blocks' = [blocks EXCEPT ![i] = blocks'[i]]
    /\ blocks'[i].phase \in {"Live", "Gone"}
    /\ UNCHANGED offer

Next ==
    \/ \E q \in Sellers : Offer(q) \/ Take(q) \/ Decline(q)
    \/ \E i \in Inventories : StaffWrites(i)

Spec == Init /\ [][Next]_<<blocks, offer>>

=============================================================================
