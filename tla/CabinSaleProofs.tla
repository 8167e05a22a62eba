---------------------------- MODULE CabinSaleProofs ----------------------------
(***************************************************************************)
(* What the sessions of GroupReservation promise a sale, for any number of *)
(* sessions, requests and inventories and any payloads.                    *)
(*                                                                         *)
(* They implement CabinSale: what happens between the reads and the commit *)
(* of update_request cannot be seen in the counts.  And marking a          *)
(* reservation applied reserves exactly the bookings the request has at    *)
(* that moment, although update_request reads them before it waits for its *)
(* row locks and inventories are deleted meanwhile.                        *)
(*                                                                         *)
(* Where staff edits no counts, no sale is lost to another session, and    *)
(* with one handler at a time the count of an inventory is what was sold.  *)
(* Cabins are counted as a set of pairs, a request and one of its cabins.  *)
(***************************************************************************)
EXTENDS GroupReservationProofs, FiniteSetTheorems

-----------------------------------------------------------------------------
(* The sessions implement the atomic sale.                                   *)

Offered(t) == IF t.op = "update" THEN t.demand ELSE NoDemand

\* The values of CabinSale's offer.
AllOffers == [s \in Sessions |-> Offered(tx[s])]

SaleStep == Sale!Next \/ UNCHANGED <<blocks, AllOffers>>

LEMMA SaleStepDef ==
    SaleStep <=> [Sale!Next]_<<blocks, [s \in Sessions |->
                                 IF tx[s].op = "update" THEN tx[s].demand ELSE NoDemand]>>
  BY DEF SaleStep, AllOffers, Offered

LEMMA NoOfferIsNoDemand == Sale!NoOffer = NoDemand
  BY DEF Sale!NoOffer, NoDemand

LEMMA OfferedType ==
  ASSUME NEW t \in Transaction
  PROVE  Offered(t) \in Demand
  BY NoDemandType DEF Offered, Transaction

\* A handler that starts, whatever it is, offers what it will reserve.
LEMMA StartOffers ==
  ASSUME TypeOK, TypeOK', NEW s \in Sessions, NEW t, Start(s, t)
  PROVE  SaleStep
<1>1. tx[s] = Idle /\ tx' = [tx EXCEPT ![s] = t] /\ tx' \in [Sessions -> Transaction]
  BY DEF Start, TypeOK
<1>2. Offered(tx[s]) = NoDemand
  BY <1>1 DEF Offered, Idle
<1>3. Offered(tx'[s]) \in Demand
  BY <1>1, OfferedType
<1>4. AllOffers' = [AllOffers EXCEPT ![s] = Offered(tx'[s])]
  BY <1>1 DEF AllOffers, TypeOK
<1>5. Sale!Offer(s)
  BY <1>2, <1>3, <1>4, NoOfferIsNoDemand
  DEF Sale!Offer, Sale!Offers, Demand, AllOffers, Offered, Start
<1>6. QED  BY <1>5 DEF SaleStep, Sale!Next

\* The session that finishes withdraws its offer, and only its own.
LEMMA FinishOffers ==
  ASSUME TypeOK, NEW s \in Sessions, Finish(s)
  PROVE  /\ AllOffers' = [AllOffers EXCEPT ![s] = NoDemand]
         /\ tx[s].op # "update" => AllOffers' = AllOffers
<1>1. tx' = [tx EXCEPT ![s] = Idle] /\ tx \in [Sessions -> Transaction]
  BY DEF Finish, TypeOK
<1>2. Offered(Idle) = NoDemand
  BY DEF Offered, Idle
<1>3. AllOffers' = [AllOffers EXCEPT ![s] = NoDemand]
  BY <1>1, <1>2 DEF AllOffers
<1>4. ASSUME tx[s].op # "update"
      PROVE  AllOffers' = AllOffers
  BY <1>3, <1>4 DEF AllOffers, Offered
<1>5. QED  BY <1>3, <1>4

LEMMA RollbackDeclines ==
  ASSUME TypeOK, NEW s \in Sessions, Rollback(s)
  PROVE  SaleStep
<1>1. AllOffers' = [AllOffers EXCEPT ![s] = NoDemand] /\ blocks' = blocks
  BY FinishOffers DEF Rollback
<1>2. Sale!Decline(s)
  BY <1>1, NoOfferIsNoDemand DEF Sale!Decline, AllOffers, Offered
<1>3. QED  BY <1>2 DEF SaleStep, Sale!Next

LEMMA ReserveStutters ==
  ASSUME TypeOK, NEW s \in Sessions, NEW i \in Inventories, ReserveInventory(s, i)
  PROVE  SaleStep
<1>1. tx[s] \in Transaction
  BY DEF TypeOK
<1> DEFINE t == [tx[s] EXCEPT !.held = @ \cup {i}, !.read[i] = blocks[i].reserved]
<1>2. Offered(t) = Offered(tx[s])
  BY <1>1 DEF Offered, Transaction
<1>3. tx' = [tx EXCEPT ![s] = t] /\ blocks' = blocks
  BY <1>1 DEF ReserveInventory
<1>4. AllOffers' = AllOffers
  <2> HIDE DEF t
  <2> QED  BY <1>2, <1>3 DEF AllOffers, TypeOK
<1>5. QED  BY <1>3, <1>4 DEF SaleStep

\* The commit of update_request takes its whole offer: it holds every inventory
\* it demands, so the counts it read there are the committed ones.
LEMMA CommitTakes ==
  ASSUME TypeOK, LocksProtectReads, NEW s \in Sessions, UpdateRequestCommit(s)
  PROVE  SaleStep
<1> DEFINE t == tx[s]
           d == t.demand
<1>1. t \in Transaction /\ d \in Demand /\ t.op = "update"
  BY DEF TypeOK, Transaction, UpdateRequestCommit
<1>2. AllOffers' = [AllOffers EXCEPT ![s] = NoDemand] /\ AllOffers[s] = d
  BY <1>1, FinishOffers DEF UpdateRequestCommit, AllOffers, Offered
<1>3. \A i \in Inventories : i \in t.held <=> d[i] > 0
  BY <1>1 DEF LocksProtectReads, UpdateRequestCommit, Unreserved, Demanded
<1>4. \A i \in Inventories : d[i] > 0 =>
        /\ Live(i)
        /\ t.read[i] = blocks[i].reserved
        /\ blocks[i].reserved + d[i] <= blocks[i].allocated
  BY <1>3 DEF LocksProtectReads
<1>5. \A i \in Inventories : d[i] \in Nat /\ blocks[i] \in BlockRow
  BY <1>1, SentinelAssumption DEF Demand, TypeOK
<1>6. blocks' = [i \in Inventories |-> [blocks[i] EXCEPT !.reserved = @ + d[i]]]
  <2>1. ASSUME NEW i \in Inventories, d[i] > 0
        PROVE  blocks'[i] = [blocks[i] EXCEPT !.reserved = @ + d[i]]
    BY <1>3, <1>4, <1>5, <2>1 DEF UpdateRequestCommit, BlockRow
  <2>2. ASSUME NEW i \in Inventories, ~(d[i] > 0)
        PROVE  blocks'[i] = [blocks[i] EXCEPT !.reserved = @ + d[i]]
    <3>1. d[i] = 0 /\ blocks[i].reserved \in Nat
      BY <1>5, <2>2 DEF BlockRow
    <3>2. blocks'[i] = blocks[i]
      BY <1>3, <2>2 DEF UpdateRequestCommit
    <3>3. [blocks[i] EXCEPT !.reserved = blocks[i].reserved] = blocks[i]
      BY <1>5 DEF BlockRow
    <3>4. QED  BY <3>1, <3>2, <3>3
  <2>3. QED  BY <2>1, <2>2 DEF UpdateRequestCommit
<1>7. CASE d = NoDemand
  <2>1. AllOffers' = AllOffers
    BY <1>2, <1>7 DEF AllOffers
  <2>2. blocks' = blocks
    BY <1>3, <1>7 DEF UpdateRequestCommit, NoDemand, TypeOK
  <2>3. QED  BY <2>1, <2>2 DEF SaleStep
<1>8. CASE d # NoDemand
  <2>1. Sale!Take(s)
    BY <1>1, <1>2, <1>4, <1>6, <1>8, NoOfferIsNoDemand
    DEF Sale!Take, Live, AllOffers, Offered
  <2>2. QED  BY <2>1 DEF SaleStep, Sale!Next
<1>9. QED  BY <1>7, <1>8

\* What staff writes is one present or deleted inventory.
LEMMA StaffWrite ==
  ASSUME TypeOK, NEW i \in Inventories, NEW b, blocks' = [blocks EXCEPT ![i] = b],
         b.phase \in {"Live", "Gone"}, AllOffers' = AllOffers
  PROVE  SaleStep
<1>1. Sale!StaffWrites(i)
  BY DEF Sale!StaffWrites, TypeOK, AllOffers, Offered
<1>2. QED  BY <1>1 DEF SaleStep, Sale!Next

LEMMA CommitWrites ==
  ASSUME TypeOK, NEW s \in Sessions,
         CreateRequestCommit(s) \/ EditBlockCommit(s) \/ DeleteBlockCommit(s)
  PROVE  SaleStep
<1> DEFINE t == tx[s]
<1>1. tx[s].op # "update" /\ Finish(s)
  BY DEF CreateRequestCommit, EditBlockCommit, DeleteBlockCommit
<1>2. AllOffers' = AllOffers
  BY <1>1, FinishOffers
<1>3. CASE CreateRequestCommit(s)
  BY <1>2, <1>3 DEF CreateRequestCommit, SaleStep
<1>4. CASE EditBlockCommit(s)
  <2>1. /\ t \in Transaction /\ t.block \in Inventories /\ blocks[t.block] \in BlockRow
        /\ t.oldBlock \in BlockRow /\ t.newBlock \in BlockRow
    BY <1>4 DEF TypeOK, EditBlockCommit, Transaction
  <2> DEFINE b == FlushBlock(blocks[t.block], t.oldBlock, t.newBlock)
  <2>2. blocks' = [blocks EXCEPT ![t.block] = b]
    BY <1>4, <2>1 DEF EditBlockCommit, TypeOK
  <2>3. CASE t.newBlock = t.oldBlock
    <3>1. b = blocks[t.block]
      BY <2>1, <2>3 DEF FlushBlock, Dirty, BlockRow
    <3>2. blocks' = blocks
      BY <2>2, <3>1 DEF TypeOK
    <3>3. QED  BY <1>2, <3>2 DEF SaleStep
  <2>4. CASE t.newBlock # t.oldBlock
    <3>1. b.phase = "Live"
      BY <1>4, <2>4 DEF EditBlockCommit, Live, FlushBlock
    <3>2. QED  BY <1>2, <2>1, <2>2, <3>1, StaffWrite
  <2>5. QED  BY <2>3, <2>4
<1>5. CASE DeleteBlockCommit(s)
  <2>1. t.block \in Inventories /\ blocks[t.block] \in BlockRow
    BY <1>5 DEF TypeOK, DeleteBlockCommit
  <2> DEFINE b == [blocks[t.block] EXCEPT !.phase = "Gone"]
  <2>2. blocks' = [blocks EXCEPT ![t.block] = b] /\ b.phase = "Gone"
    BY <1>5, <2>1 DEF DeleteBlockCommit, TypeOK, BlockRow
  <2>3. QED  BY <1>2, <2>1, <2>2, StaffWrite
<1>6. QED  BY <1>3, <1>4, <1>5

LEMMA StepImplementsSale ==
  ASSUME TypeOK, TypeOK', LocksProtectReads, Next
  PROVE  SaleStep
<1>1. ASSUME NEW s \in Sessions, NEW r \in Requests, NEW p \in Intakes,
             CreateRequestBegin(s, r, p)
      PROVE  SaleStep
  BY <1>1, StartOffers DEF CreateRequestBegin
<1>2. ASSUME NEW s \in Sessions, NEW r \in Requests, NEW u \in RequestUpdates,
             UpdateRequestBegin(s, r, u)
      PROVE  SaleStep
  BY <1>2, StartOffers DEF UpdateRequestBegin
<1>3. ASSUME NEW s \in Sessions, NEW r \in Requests, ReopenRequestBegin(s, r)
      PROVE  SaleStep
  BY <1>3, StartOffers DEF ReopenRequestBegin
<1>4. ASSUME NEW i \in Inventories, NEW b \in NewBlocks, CreateBlock(i, b)
      PROVE  SaleStep
  BY <1>4, StaffWrite DEF CreateBlock, AllOffers
<1>5. ASSUME NEW i \in Inventories, NEW s \in Sessions, NEW e \in InventoryEdits,
             EditBlockBegin(s, i, e)
      PROVE  SaleStep
  BY <1>5, StartOffers DEF EditBlockBegin
<1>6. ASSUME NEW i \in Inventories, NEW s \in Sessions, DeleteBlockBegin(s, i)
      PROVE  SaleStep
  BY <1>6, StartOffers DEF DeleteBlockBegin
<1>7. ASSUME NEW s \in Sessions, Advance(s) \/ Disconnect(s)
      PROVE  SaleStep
  BY <1>7, CommitWrites, CommitTakes, ReserveStutters, RollbackDeclines
  DEF Advance, Disconnect, LockWaitAborted, RowGone, ReserveRefused
<1>8. QED  BY <1>1, <1>2, <1>3, <1>4, <1>5, <1>6, <1>7 DEF Next

\* The reservation path implements CabinSale: however the handlers of any number
\* of sessions interleave, roll back or disappear, a purchase takes its whole
\* demand in one step, within what remains at that step, or nothing.
THEOREM ImplementsCabinSale == Spec => SaleSpec
<1>1. Init => Sale!Init
  <2>1. ASSUME Init
        PROVE  AllOffers = [q \in Sessions |-> NoDemand]
    BY <2>1 DEF Init, AllOffers, Offered, Idle
  <2>2. QED  BY <2>1, NoOfferIsNoDemand DEF Init, Sale!Init, UnbornBlock, AllOffers, Offered
<1>2. TypeOK /\ TypeOK' /\ LocksProtectReads /\ [Next]_vars => SaleStep
  <2>1. ASSUME UNCHANGED vars
        PROVE  SaleStep
    BY <2>1 DEF vars, SaleStep, AllOffers
  <2>2. QED  BY <2>1, StepImplementsSale
<1>3. QED
  BY <1>1, <1>2, SaleStepDef, TypeCorrect, ReadsProtected, PTL DEF Spec, SaleSpec, Sale!Spec

-----------------------------------------------------------------------------
(* A purchase reserves what is booked.                                       *)

Booked(r) == Demanded(bookings[r]) # {}

\* Only the handler that creates a request knows of it.
CreatesAlone(s) ==
    tx[s].op = "create" =>
        /\ requests[tx[s].request].status = "Unborn"
        /\ ~tx[s].new.applied
        /\ \A q \in Sessions : q # s => tx[q].request # tx[s].request

\* The bookings update_request read are still those of the request, but for the
\* ones of inventories that were deleted.
Current(s, i) ==
    LET t == tx[s] IN
    \/ bookings[t.request][i] = t.demand[i]
    \/ bookings[t.request][i] = 0 /\ blocks[i].phase = "Gone"

MeansBookings(s) ==
    tx[s].op = "update" =>
        /\ requests[tx[s].request].status # "Unborn"
        /\ tx[s].new.status # "Unborn"
        /\ tx[s].new.applied /\ ~tx[s].old.applied /\ Booked(tx[s].request) =>
             \A i \in Inventories : Current(s, i)

Intentions == \A s \in Sessions : CreatesAlone(s) /\ MeansBookings(s)

-----------------------------------------------------------------------------
(* What one step may do to the rows the other sessions rely on.              *)

Kept ==
    /\ \A i \in Inventories : blocks[i].phase = "Gone" => blocks'[i].phase = "Gone"
    /\ \A r \in Requests : requests[r].status # "Unborn" =>
         /\ requests'[r].status # "Unborn"
         /\ \A i \in Inventories :
              \/ bookings'[r][i] = bookings[r][i]
              \/ bookings'[r][i] = 0 /\ blocks'[i].phase = "Gone"

LEMMA MeansKept ==
  ASSUME TypeOK, NEW q \in Sessions, MeansBookings(q), Kept,
         tx'[q].op = tx[q].op, tx'[q].request = tx[q].request, tx'[q].demand = tx[q].demand,
         tx'[q].old = tx[q].old, tx'[q].new = tx[q].new
  PROVE  MeansBookings(q)'
<1> SUFFICES ASSUME tx[q].op = "update"
             PROVE  MeansBookings(q)'
  BY DEF MeansBookings
<1> DEFINE r == tx[q].request
<1>1. r \in Requests /\ requests[r].status # "Unborn" /\ tx[q].new.status # "Unborn"
  BY DEF TypeOK, MeansBookings
<1>2. requests'[r].status # "Unborn"
  BY <1>1 DEF Kept
<1>3. ASSUME Booked(r)'
      PROVE  Booked(r)
  <2>1. PICK i \in Inventories : bookings'[r][i] > 0
    BY <1>3 DEF Booked, Demanded
  <2>2. bookings[r][i] > 0
    BY <1>1, <2>1 DEF Kept
  <2>3. QED  BY <2>2 DEF Booked, Demanded
<1>4. ASSUME NEW i \in Inventories, Current(q, i)
      PROVE  Current(q, i)'
  BY <1>1, <1>4 DEF Kept, Current
<1>5. QED  BY <1>1, <1>2, <1>3, <1>4 DEF MeansBookings

\* A handler that starts knows its request is unborn and its own, or present.
LEMMA StartIntends ==
  ASSUME TypeOK, Intentions, NEW s \in Sessions, NEW t, Start(s, t),
         t.op = "create" =>
           /\ requests[t.request].status = "Unborn"
           /\ ~t.new.applied
           /\ \A q \in Sessions : tx[q].request # t.request,
         t.op = "update" =>
           /\ requests[t.request].status # "Unborn"
           /\ t.new.status # "Unborn"
           /\ t.new.applied /\ ~t.old.applied /\ Booked(t.request) =>
                t.demand = bookings[t.request],
         t.op \in {"create", "update"} \/ t.request = NoRequest
  PROVE  Intentions'
<1>1. UNCHANGED <<requests, bookings, blocks>> /\ tx'[s] = t
  BY DEF Start, TypeOK
<1>2. \A q \in Sessions : q # s => tx'[q] = tx[q]
  BY DEF Start, TypeOK
<1>3. Kept
  BY <1>1 DEF Kept
<1>4. CreatesAlone(s)' /\ MeansBookings(s)'
  BY <1>1, <1>2 DEF CreatesAlone, MeansBookings, Booked, Current
<1>5. ASSUME NEW q \in Sessions, q # s
      PROVE  CreatesAlone(q)' /\ MeansBookings(q)'
  <2>1. tx'[q] = tx[q] /\ CreatesAlone(q) /\ MeansBookings(q)
    BY <1>2, <1>5 DEF Intentions
  <2>2. MeansBookings(q)'
    BY <1>3, <2>1, MeansKept
  <2>3. tx[q].op = "create" => tx[q].request # t.request
    BY <2>1, SentinelAssumption DEF TypeOK, CreatesAlone
  <2>4. CreatesAlone(q)'
    BY <1>1, <1>2, <2>1, <2>3 DEF CreatesAlone
  <2>5. QED  BY <2>2, <2>4
<1>6. QED  BY <1>4, <1>5 DEF Intentions

LEMMA FinishIntends ==
  ASSUME TypeOK, Intentions, NEW s \in Sessions, Finish(s), Kept,
         \A q \in Sessions : q # s /\ tx[q].op = "create" =>
           requests'[tx[q].request].status = "Unborn"
  PROVE  Intentions'
<1>1. tx'[s] = Idle /\ \A q \in Sessions : q # s => tx'[q] = tx[q]
  BY DEF Finish, TypeOK
<1>2. CreatesAlone(s)' /\ MeansBookings(s)'
  BY <1>1 DEF CreatesAlone, MeansBookings, Idle
<1>3. ASSUME NEW q \in Sessions, q # s
      PROVE  CreatesAlone(q)' /\ MeansBookings(q)'
  <2>1. tx'[q] = tx[q] /\ CreatesAlone(q) /\ MeansBookings(q)
    BY <1>1, <1>3 DEF Intentions
  <2>2. MeansBookings(q)'
    BY <2>1, MeansKept
  <2>3. tx[q].op = "create" => tx[q].request # tx'[s].request
    BY <1>1, SentinelAssumption DEF TypeOK, Idle
  <2>4. CreatesAlone(q)'
    BY <1>1, <1>3, <2>1, <2>3 DEF CreatesAlone
  <2>5. QED  BY <2>2, <2>4
<1>4. QED  BY <1>2, <1>3 DEF Intentions

-----------------------------------------------------------------------------
(* Intentions is inductive, given the types.                                 *)

LEMMA BeginIntends ==
  ASSUME TypeOK, Intentions, NEW s \in Sessions,
         \/ \E r \in Requests, p \in Intakes : CreateRequestBegin(s, r, p)
         \/ \E r \in Requests, u \in RequestUpdates : UpdateRequestBegin(s, r, u)
         \/ \E r \in Requests : ReopenRequestBegin(s, r)
         \/ \E i \in Inventories, e \in InventoryEdits : EditBlockBegin(s, i, e)
         \/ \E i \in Inventories : DeleteBlockBegin(s, i)
  PROVE  Intentions'
<1>1. ASSUME NEW r \in Requests, NEW p \in Intakes, CreateRequestBegin(s, r, p)
      PROVE  Intentions'
  <2>1. PICK link, needed :
          Start(s, [Idle EXCEPT
                      !.op = "create", !.request = r, !.demand = IntakeDemand(p),
                      !.new = [status |-> "Open", reason |-> NoReason, applied |-> FALSE,
                               grouped |-> p.grouped, link |-> link, needed |-> needed]])
    BY <1>1 DEF CreateRequestBegin
  <2>2. requests[r].status = "Unborn" /\ \A q \in Sessions : tx[q].request # r
    BY <1>1 DEF CreateRequestBegin
  <2> DEFINE t == [Idle EXCEPT
                      !.op = "create", !.request = r, !.demand = IntakeDemand(p),
                      !.new = [status |-> "Open", reason |-> NoReason, applied |-> FALSE,
                               grouped |-> p.grouped, link |-> link, needed |-> needed]]
  <2>3. t.op = "create" /\ t.request = r /\ ~t.new.applied
    BY DEF Idle
  <2>4. Start(s, t)
    BY <2>1
  <2> HIDE DEF t
  <2>5. QED  BY <2>2, <2>3, <2>4, StartIntends
<1>2. ASSUME NEW r \in Requests, NEW u \in RequestUpdates, UpdateRequestBegin(s, r, u)
      PROVE  Intentions'
  <2> DEFINE old == requests[r]
             new == AppliedUpdate(old, u)
             demand == IF ClosesAsPurchased(new) /\ ~old.applied
                       THEN Increments(old, bookings[r]) ELSE NoDemand
             t == [Idle EXCEPT !.op = "update", !.request = r, !.old = old, !.demand = demand,
                               !.new = [new EXCEPT !.applied = old.applied
                                                                \/ Demanded(demand) # {}]]
  <2>1. old \in RequestRow /\ new \in RequestRow /\ old.status = "Open"
    BY <1>2, UpdateType, PayloadAssumption DEF TypeOK, UpdateRequestBegin
  <2>2. new.status # "Unborn"
    BY <2>1, PayloadAssumption DEF AppliedUpdate, Given, RequestUpdate, RequestRow
  <2> HIDE DEF new
  <2>3. /\ t.op = "update" /\ t.request = r /\ t.old = old /\ t.demand = demand
        /\ t.new.status = new.status
        /\ t.new.applied = (old.applied \/ Demanded(demand) # {})
    BY <2>1 DEF Idle, RequestRow
  <2>4. ASSUME Demanded(demand) # {}, Booked(r)
        PROVE  demand = bookings[r]
    BY <2>4 DEF Demanded, NoDemand, Booked, Increments
  <2>5. Start(s, t)
    BY <1>2 DEF UpdateRequestBegin, new
  <2> HIDE DEF t, demand
  <2>6. QED  BY <2>1, <2>2, <2>3, <2>4, <2>5, StartIntends
<1>3. ASSUME NEW r \in Requests, ReopenRequestBegin(s, r)
      PROVE  Intentions'
  <2> DEFINE t == [Idle EXCEPT
                     !.op = "update", !.request = r, !.old = requests[r],
                     !.new = [requests[r] EXCEPT !.status = "Open", !.reason = NoReason]]
  <2>1. requests[r] \in RequestRow /\ requests[r].status = "Closed"
    BY <1>3 DEF TypeOK, ReopenRequestBegin
  <2>2. /\ t.op = "update" /\ t.request = r /\ t.new.status = "Open"
        /\ t.new.applied = t.old.applied
    BY <2>1 DEF Idle, RequestRow
  <2>3. Start(s, t)
    BY <1>3 DEF ReopenRequestBegin
  <2> HIDE DEF t
  <2>4. QED  BY <2>1, <2>2, <2>3, StartIntends
<1>4. ASSUME NEW i \in Inventories, NEW e \in InventoryEdits, EditBlockBegin(s, i, e)
      PROVE  Intentions'
  BY <1>4, StartIntends DEF EditBlockBegin, Idle
<1>5. ASSUME NEW i \in Inventories, DeleteBlockBegin(s, i)
      PROVE  Intentions'
  BY <1>5, StartIntends DEF DeleteBlockBegin, Idle
<1>6. QED  BY <1>1, <1>2, <1>3, <1>4, <1>5

LEMMA CommitIntends ==
  ASSUME TypeOK, Intentions, NEW s \in Sessions,
         CreateRequestCommit(s) \/ UpdateRequestCommit(s) \/ EditBlockCommit(s)
           \/ DeleteBlockCommit(s)
  PROVE  Intentions'
<1> DEFINE t == tx[s]
           r == t.request
<1>1. CASE CreateRequestCommit(s)
  <2>1. r \in Requests /\ requests[r].status = "Unborn"
        /\ \A q \in Sessions : q # s => tx[q].request # r
    BY <1>1 DEF TypeOK, CreateRequestCommit, Intentions, CreatesAlone
  <2>2. /\ blocks' = blocks
        /\ \A p \in Requests : p # r => requests'[p] = requests[p] /\ bookings'[p] = bookings[p]
    BY <1>1 DEF CreateRequestCommit, TypeOK
  <2>3. Kept
    BY <2>1, <2>2 DEF Kept
  <2>4. \A q \in Sessions : q # s /\ tx[q].op = "create" =>
          requests'[tx[q].request].status = "Unborn"
    BY <2>1, <2>2 DEF TypeOK, Intentions, CreatesAlone
  <2>5. QED  BY <1>1, <2>3, <2>4, FinishIntends DEF CreateRequestCommit
<1>2. CASE UpdateRequestCommit(s)
  <2>1. r \in Requests /\ requests[r].status # "Unborn" /\ t.new.status # "Unborn"
    BY <1>2 DEF TypeOK, UpdateRequestCommit, Intentions, MeansBookings
  <2>2. /\ bookings' = bookings
        /\ \A p \in Requests : p # r => requests'[p] = requests[p]
        /\ requests'[r].status # "Unborn"
    BY <1>2, <2>1 DEF UpdateRequestCommit, TypeOK, FlushRequest, Dirty
  <2>3. \A i \in Inventories : blocks'[i].phase = blocks[i].phase
    BY <1>2 DEF UpdateRequestCommit, TypeOK, BlockRow
  <2>4. Kept
    BY <2>1, <2>2, <2>3 DEF Kept
  <2>5. \A q \in Sessions : q # s /\ tx[q].op = "create" =>
          requests'[tx[q].request].status = "Unborn"
    BY <2>1, <2>2 DEF TypeOK, Intentions, CreatesAlone
  <2>6. QED  BY <1>2, <2>4, <2>5, FinishIntends DEF UpdateRequestCommit
<1>3. CASE EditBlockCommit(s)
  <2>1. \A i \in Inventories : blocks'[i].phase = blocks[i].phase
    BY <1>3 DEF EditBlockCommit, TypeOK, FlushBlock
  <2>2. Kept
    BY <1>3, <2>1 DEF Kept, EditBlockCommit
  <2>3. QED  BY <1>3, <2>2, FinishIntends DEF EditBlockCommit, Intentions, CreatesAlone
<1>4. CASE DeleteBlockCommit(s)
  <2>1. t.block \in Inventories
    BY <1>4 DEF TypeOK, DeleteBlockCommit
  <2>2. \A i \in Inventories : blocks'[i].phase = IF i = t.block THEN "Gone" ELSE blocks[i].phase
    BY <1>4, <2>1 DEF DeleteBlockCommit, TypeOK, BlockRow
  <2>3. \A p \in Requests : requests'[p].status = requests[p].status
    BY <1>4 DEF DeleteBlockCommit, TypeOK, RequestRow
  <2>4. \A p \in Requests, i \in Inventories :
          bookings'[p][i] = IF i = t.block THEN 0 ELSE bookings[p][i]
    BY <1>4, <2>1 DEF DeleteBlockCommit, TypeOK, Demand
  <2>5. Kept
    BY <2>2, <2>3, <2>4 DEF Kept
  <2>6. \A q \in Sessions : tx[q].op = "create" => requests'[tx[q].request].status = "Unborn"
    BY <2>3 DEF TypeOK, Intentions, CreatesAlone
  <2>7. QED  BY <1>4, <2>5, <2>6, FinishIntends DEF DeleteBlockCommit
<1>5. QED  BY <1>1, <1>2, <1>3, <1>4

LEMMA RollbackIntends ==
  ASSUME TypeOK, Intentions, NEW s \in Sessions, Rollback(s)
  PROVE  Intentions'
<1>1. Kept
  BY DEF Rollback, Kept
<1>2. QED  BY <1>1, FinishIntends DEF Rollback, Intentions, CreatesAlone

LEMMA ReserveIntends ==
  ASSUME TypeOK, Intentions, NEW s \in Sessions, NEW i \in Inventories, ReserveInventory(s, i)
  PROVE  Intentions'
<1>1. UNCHANGED <<requests, bookings, blocks>>
  BY DEF ReserveInventory
<1>2. Kept
  BY <1>1 DEF Kept
<1>3. ASSUME NEW q \in Sessions
      PROVE  /\ tx'[q].op = tx[q].op /\ tx'[q].request = tx[q].request
             /\ tx'[q].demand = tx[q].demand
             /\ tx'[q].old = tx[q].old /\ tx'[q].new = tx[q].new
  BY DEF ReserveInventory, TypeOK, Transaction
<1>4. ASSUME NEW q \in Sessions
      PROVE  CreatesAlone(q)'
  BY <1>1, <1>3 DEF Intentions, CreatesAlone
<1>5. ASSUME NEW q \in Sessions
      PROVE  MeansBookings(q)'
  BY <1>2, <1>3, MeansKept DEF Intentions
<1>6. QED  BY <1>4, <1>5 DEF Intentions

LEMMA NextIntends ==
  ASSUME TypeOK, Intentions, Next
  PROVE  Intentions'
<1>1. ASSUME NEW i \in Inventories, NEW b \in NewBlocks, CreateBlock(i, b)
      PROVE  Intentions'
  <2>1. UNCHANGED <<requests, bookings, tx>>
    BY <1>1 DEF CreateBlock
  <2>2. Kept
    BY <1>1 DEF Kept, CreateBlock, TypeOK
  <2>3. \A q \in Sessions : MeansBookings(q)'
    BY <2>1, <2>2, MeansKept DEF Intentions
  <2>4. QED  BY <2>1, <2>3 DEF Intentions, CreatesAlone
<1>2. ASSUME NEW s \in Sessions, Advance(s) \/ Disconnect(s)
      PROVE  Intentions'
  BY <1>2, CommitIntends, ReserveIntends, RollbackIntends
  DEF Advance, Disconnect, LockWaitAborted, RowGone, ReserveRefused
<1>3. QED  BY <1>1, <1>2, BeginIntends DEF Next

-----------------------------------------------------------------------------

\* Where a reservation is first marked applied, the bookings go into the counts.
Reserves(r) ==
    (requests'[r].applied /\ ~requests[r].applied /\ Booked(r)) =>
        \A i \in Inventories : blocks'[i].reserved = blocks[i].reserved + bookings[r][i]

LEMMA CommitReserves ==
  ASSUME TypeOK, LocksProtectReads, Intentions, NEW s \in Sessions, NEW r \in Requests,
         UpdateRequestCommit(s)
  PROVE  Reserves(r)
<1> SUFFICES ASSUME requests'[r].applied, ~requests[r].applied, Booked(r),
                    NEW i \in Inventories
             PROVE  blocks'[i].reserved = blocks[i].reserved + bookings[r][i]
  BY DEF Reserves
<1> DEFINE t == tx[s]
<1>1. /\ t \in Transaction /\ t.op = "update" /\ t.demand[i] \in Nat
      /\ blocks[i] \in BlockRow /\ bookings[r][i] \in Nat
  BY SentinelAssumption DEF TypeOK, Transaction, Demand, UpdateRequestCommit
<1>2. r = t.request /\ t.new.applied /\ ~t.old.applied
  BY <1>1 DEF UpdateRequestCommit, TypeOK, FlushRequest, Dirty, Transaction, RequestRow
<1>3. Current(s, i)
  BY <1>1, <1>2 DEF Intentions, MeansBookings
<1>4. i \in t.held <=> t.demand[i] > 0
  BY <1>1 DEF LocksProtectReads, UpdateRequestCommit, Unreserved, Demanded
<1>5. CASE i \in t.held
  <2>1. Live(i) /\ t.read[i] = blocks[i].reserved
    BY <1>5 DEF LocksProtectReads
  <2>2. bookings[r][i] = t.demand[i]
    BY <1>2, <1>3, <2>1 DEF Current, Live
  <2>3. QED  BY <1>1, <1>5, <2>1, <2>2 DEF UpdateRequestCommit, BlockRow
<1>6. CASE i \notin t.held
  <2>1. bookings[r][i] = 0
    BY <1>1, <1>2, <1>3, <1>4, <1>6 DEF Current
  <2>2. blocks'[i] = blocks[i]
    BY <1>6 DEF UpdateRequestCommit
  <2>3. QED  BY <1>1, <2>1, <2>2 DEF BlockRow
<1>7. QED  BY <1>5, <1>6

LEMMA NextReserves ==
  ASSUME TypeOK, LocksProtectReads, Intentions, Next, NEW r \in Requests
  PROVE  Reserves(r)
<1>1. ASSUME NEW s \in Sessions, CreateRequestCommit(s)
      PROVE  Reserves(r)
  BY <1>1 DEF CreateRequestCommit, TypeOK, Intentions, CreatesAlone, Reserves
<1>2. ASSUME NEW s \in Sessions, DeleteBlockCommit(s)
      PROVE  Reserves(r)
  BY <1>2 DEF DeleteBlockCommit, TypeOK, RequestRow, Reserves
<1>3. requests' = requests => Reserves(r)
  BY DEF Reserves
<1>4. ASSUME NEW s \in Sessions, Advance(s) \/ Disconnect(s)
      PROVE  Reserves(r)
  BY <1>1, <1>2, <1>3, <1>4, CommitReserves
  DEF Advance, Disconnect, LockWaitAborted, RowGone, ReserveRefused, ReserveInventory, Rollback,
      EditBlockCommit
<1>5. QED
  BY <1>3, <1>4
  DEF Next, CreateRequestBegin, UpdateRequestBegin, ReopenRequestBegin, CreateBlock,
      EditBlockBegin, DeleteBlockBegin, Start

LEMMA IntentionsInvariant == Spec => []Intentions
<1>1. Init => Intentions
  BY DEF Init, Intentions, CreatesAlone, MeansBookings, Idle
<1>2. TypeOK /\ Intentions /\ [Next]_vars => Intentions'
  <2>1. ASSUME Intentions, UNCHANGED vars
        PROVE  Intentions'
    BY <2>1 DEF vars, Intentions, CreatesAlone, MeansBookings, Booked, Current
  <2>2. QED  BY <2>1, NextIntends
<1>3. QED  BY <1>1, <1>2, TypeCorrect, PTL DEF Spec

\* update_request reserves what is booked: the step that marks a reservation
\* applied adds the request's bookings of that moment, all of them and nothing
\* else, although they were read before the row locks were waited for.
THEOREM ReservesBookings == Spec => BookingsReservedOnClose
<1>1. TypeOK /\ LocksProtectReads /\ Intentions /\ [Next]_vars =>
        [\A r \in Requests :
           (requests'[r].applied /\ ~requests[r].applied /\ Demanded(bookings[r]) # {}) =>
              \A i \in Inventories :
                  blocks'[i].reserved = blocks[i].reserved + bookings[r][i]]_vars
  BY NextReserves DEF Reserves, Booked
<1>2. QED
  BY <1>1, TypeCorrect, ReadsProtected, IntentionsInvariant, PTL
  DEF Spec, BookingsReservedOnClose

-----------------------------------------------------------------------------
(* Counting cabins one by one.                                               *)

LEMMA CabinIn ==
  ASSUME NEW f
  PROVE  \A p : p \in Cabins(f) <=> \E r \in Requests : \E n \in 1 .. f[r] : p = <<r, n>>
  BY DEF Cabins

LEMMA CabinsOfOne ==
  ASSUME NEW r, NEW n \in Nat
  PROVE  IsFiniteSet({r} \X (1 .. n)) /\ Cardinality({r} \X (1 .. n)) = n
<1>1. IsFiniteSet(1 .. n) /\ Cardinality(1 .. n) = n
  BY FS_Interval
<1>2. IsFiniteSet({r}) /\ Cardinality({r}) = 1
  BY FS_Singleton
<1>3. Cardinality({r} \X (1 .. n)) = 1 * n /\ IsFiniteSet({r} \X (1 .. n))
  BY <1>1, <1>2, FS_Product
<1>4. QED  BY <1>3

\* No request has more cabins than before.
LEMMA CabinsShrink ==
  ASSUME NEW f \in [Requests -> Nat], NEW g \in [Requests -> Nat], IsFiniteSet(Cabins(f)),
         \A q \in Requests : g[q] <= f[q]
  PROVE  IsFiniteSet(Cabins(g)) /\ Cardinality(Cabins(g)) <= Cardinality(Cabins(f))
<1>1. Cabins(g) \subseteq Cabins(f)
  BY CabinIn
<1>2. QED  BY <1>1, FS_Subset

\* One request has up to n cabins now.
LEMMA CabinsGrow ==
  ASSUME NEW f \in [Requests -> Nat], NEW g \in [Requests -> Nat], IsFiniteSet(Cabins(f)),
         NEW r \in Requests, NEW n \in Nat, g[r] <= n,
         \A q \in Requests \ {r} : g[q] <= f[q]
  PROVE  IsFiniteSet(Cabins(g)) /\ Cardinality(Cabins(g)) <= Cardinality(Cabins(f)) + n
<1> DEFINE more == {r} \X (1 .. n)
<1>1. IsFiniteSet(more) /\ Cardinality(more) = n
  BY CabinsOfOne
<1>2. Cabins(g) \subseteq Cabins(f) \cup more
  <2>1. ASSUME NEW p \in Cabins(g)
        PROVE  p \in Cabins(f) \cup more
    <3>1. PICK q \in Requests : \E m \in 1 .. g[q] : p = <<q, m>>
      BY <2>1, CabinIn
    <3>2. PICK m \in 1 .. g[q] : p = <<q, m>>
      BY <3>1
    <3>3. CASE q = r
      <4>1. m \in 1 .. n /\ g[r] \in Nat
        BY <3>2, <3>3
      <4>2. QED  BY <3>2, <3>3, <4>1
    <3>4. CASE q # r
      <4>1. m \in 1 .. f[q]
        BY <3>2, <3>4
      <4>2. p \in Cabins(f)
        BY <3>2, <4>1, CabinIn
      <4>3. QED  BY <4>2
    <3>5. QED  BY <3>3, <3>4
  <2>2. QED  BY <2>1
<1> HIDE DEF more
<1>3. /\ IsFiniteSet(Cabins(f) \cup more)
      /\ Cardinality(Cabins(f) \cup more) =
           Cardinality(Cabins(f)) + Cardinality(more) - Cardinality(Cabins(f) \cap more)
  BY <1>1, FS_Union
<1>4. IsFiniteSet(Cabins(f) \cap more)
  BY FS_Intersection
<1>5. /\ Cardinality(Cabins(f)) \in Nat /\ Cardinality(Cabins(f) \cap more) \in Nat
      /\ Cardinality(Cabins(f) \cup more) \in Nat
  BY <1>3, <1>4, FS_CardinalityType
<1>6. IsFiniteSet(Cabins(g)) /\ Cardinality(Cabins(g)) <= Cardinality(Cabins(f) \cup more)
  BY <1>2, <1>3, FS_Subset
<1>7. Cardinality(Cabins(g)) \in Nat
  BY <1>6, FS_CardinalityType
<1>8. QED  BY <1>1, <1>3, <1>5, <1>6, <1>7

\* One request that had no cabins has n, and nothing else changes.
LEMMA CabinsAdd ==
  ASSUME NEW f \in [Requests -> Nat], NEW g \in [Requests -> Nat], IsFiniteSet(Cabins(f)),
         NEW r \in Requests, f[r] = 0, \A q \in Requests \ {r} : g[q] = f[q]
  PROVE  IsFiniteSet(Cabins(g)) /\ Cardinality(Cabins(g)) = Cardinality(Cabins(f)) + g[r]
<1> DEFINE more == {r} \X (1 .. g[r])
<1>1. IsFiniteSet(more) /\ Cardinality(more) = g[r]
  BY CabinsOfOne
<1>2. Cabins(g) = Cabins(f) \cup more
  <2>1. ASSUME NEW p \in Cabins(g)
        PROVE  p \in Cabins(f) \cup more
    <3>1. PICK q \in Requests : \E m \in 1 .. g[q] : p = <<q, m>>
      BY <2>1, CabinIn
    <3>2. PICK m \in 1 .. g[q] : p = <<q, m>>
      BY <3>1
    <3>3. CASE q = r
      BY <3>2, <3>3
    <3>4. CASE q # r
      <4>1. m \in 1 .. f[q]
        BY <3>2, <3>4
      <4>2. QED  BY <3>2, <4>1, CabinIn
    <3>5. QED  BY <3>3, <3>4
  <2>2. ASSUME NEW p \in Cabins(f)
        PROVE  p \in Cabins(g)
    <3>1. PICK q \in Requests : \E m \in 1 .. f[q] : p = <<q, m>>
      BY <2>2, CabinIn
    <3>2. PICK m \in 1 .. f[q] : p = <<q, m>>
      BY <3>1
    <3>3. q # r
      BY <3>2
    <3>4. m \in 1 .. g[q]
      BY <3>2, <3>3
    <3>5. QED  BY <3>2, <3>4, CabinIn
  <2>3. more \subseteq Cabins(g)
    BY CabinIn
  <2>4. QED  BY <2>1, <2>2, <2>3
<1>3. Cabins(f) \cap more = {}
  BY CabinIn
<1> HIDE DEF more
<1>4. IsFiniteSet(Cabins(g)) /\ Cardinality(Cabins(g)) = Cardinality(Cabins(f)) + g[r] - 0
  BY <1>1, <1>2, <1>3, FS_Union, FS_EmptySet
<1>5. Cardinality(Cabins(f)) \in Nat
  BY FS_CardinalityType
<1>6. QED  BY <1>4, <1>5

LEMMA CabinsNone ==
  ASSUME NEW f, \A r \in Requests : f[r] = 0
  PROVE  IsFiniteSet(Cabins(f)) /\ Cardinality(Cabins(f)) = 0
<1>1. Cabins(f) = {}
  BY CabinIn
<1>2. QED  BY <1>1, FS_EmptySet

-----------------------------------------------------------------------------
(* What requests refer to is present.                                        *)

\* A request is linked to present inventories and books present ones only: the
\* foreign keys of travel_requests and of its bookings.
Refers(r) ==
    /\ requests[r].link # NoInventory => Live(requests[r].link)
    /\ \A i \in Inventories : bookings[r][i] > 0 => Live(i)

\* A new request is linked to an inventory it books.
LinksBooked(t) ==
    t.op = "create" => t.new.link = NoInventory \/ t.demand[t.new.link] > 0

References ==
    /\ \A r \in Requests : Refers(r)
    /\ \A s \in Sessions : LinksBooked(tx[s])

LEMMA StartRefers ==
  ASSUME TypeOK, References, NEW s \in Sessions, NEW t, Start(s, t), LinksBooked(t)
  PROVE  References'
<1>1. UNCHANGED <<requests, bookings, blocks>>
  BY DEF Start
<1>2. \A q \in Sessions : tx'[q] = t \/ tx'[q] = tx[q]
  BY DEF Start, TypeOK
<1>3. ASSUME NEW q \in Sessions
      PROVE  LinksBooked(tx[q])'
  BY <1>2 DEF References, LinksBooked
<1>4. QED  BY <1>1, <1>3 DEF References, Refers, Live

LEMMA FinishRefers ==
  ASSUME TypeOK, References, NEW s \in Sessions, Finish(s), \A r \in Requests : Refers(r)'
  PROVE  References'
<1>1. \A q \in Sessions : tx'[q] = Idle \/ tx'[q] = tx[q]
  BY DEF Finish, TypeOK
<1>2. ASSUME NEW q \in Sessions
      PROVE  LinksBooked(tx[q])'
  BY <1>1 DEF References, LinksBooked, Idle
<1>3. QED  BY <1>2 DEF References

LEMMA BeginRefers ==
  ASSUME TypeOK, References,
         \/ \E s \in Sessions, r \in Requests :
              \/ \E p \in Intakes : CreateRequestBegin(s, r, p)
              \/ \E u \in RequestUpdates : UpdateRequestBegin(s, r, u)
              \/ ReopenRequestBegin(s, r)
         \/ \E s \in Sessions, i \in Inventories :
              \/ \E e \in InventoryEdits : EditBlockBegin(s, i, e)
              \/ DeleteBlockBegin(s, i)
  PROVE  References'
<1>1. ASSUME NEW s \in Sessions, NEW r \in Requests, NEW p \in Intakes,
             CreateRequestBegin(s, r, p)
      PROVE  References'
  <2> DEFINE d == IntakeDemand(p)
  <2>1. PICK link \in (IF Demanded(d) = {} THEN {NoInventory} ELSE Demanded(d)),
             needed \in 1..MaxCabins :
          Start(s, [Idle EXCEPT
                      !.op = "create", !.request = r, !.demand = d,
                      !.new = [status |-> "Open", reason |-> NoReason, applied |-> FALSE,
                               grouped |-> p.grouped, link |-> link, needed |-> needed]])
    BY <1>1 DEF CreateRequestBegin
  <2> DEFINE row == [status |-> "Open", reason |-> NoReason, applied |-> FALSE,
                     grouped |-> p.grouped, link |-> link, needed |-> needed]
             t == [Idle EXCEPT !.op = "create", !.request = r, !.demand = d, !.new = row]
  <2>2. link = NoInventory \/ d[link] > 0
    BY <2>1 DEF Demanded
  <2>3. row.link = link
    OBVIOUS
  <2>4. LinksBooked(t)
    <3> HIDE DEF row, d
    <3>1. t.new = row /\ t.demand = d
      BY DEF Idle
    <3>2. QED  BY <2>2, <2>3, <3>1 DEF LinksBooked
  <2>5. Start(s, t)
    BY <2>1
  <2>6. QED
    <3> HIDE DEF t
    <3> QED  BY <2>4, <2>5, StartRefers
<1>2. ASSUME NEW s \in Sessions, NEW t, Start(s, t), t.op # "create"
      PROVE  References'
  BY <1>2, StartRefers DEF LinksBooked
<1>3. ASSUME NEW s \in Sessions, NEW r \in Requests, NEW u \in RequestUpdates,
             UpdateRequestBegin(s, r, u)
      PROVE  References'
  BY <1>2, <1>3 DEF UpdateRequestBegin, Idle
<1>4. ASSUME NEW s \in Sessions, NEW r \in Requests, ReopenRequestBegin(s, r)
      PROVE  References'
  BY <1>2, <1>4 DEF ReopenRequestBegin, Idle
<1>5. ASSUME NEW s \in Sessions, NEW i \in Inventories, NEW e \in InventoryEdits,
             EditBlockBegin(s, i, e)
      PROVE  References'
  BY <1>2, <1>5 DEF EditBlockBegin, Idle
<1>6. ASSUME NEW s \in Sessions, NEW i \in Inventories, DeleteBlockBegin(s, i)
      PROVE  References'
  BY <1>2, <1>6 DEF DeleteBlockBegin, Idle
<1>7. QED  BY <1>1, <1>3, <1>4, <1>5, <1>6

\* The counts a commit writes leave every inventory in the phase it was in.
LEMMA CommitPhases ==
  ASSUME TypeOK, NEW s \in Sessions, NEW i \in Inventories
  PROVE  /\ CreateRequestCommit(s) => blocks' = blocks
         /\ UpdateRequestCommit(s) \/ EditBlockCommit(s) => blocks'[i].phase = blocks[i].phase
         /\ DeleteBlockCommit(s) =>
              blocks'[i] = IF i = tx[s].block THEN [blocks[i] EXCEPT !.phase = "Gone"]
                                              ELSE blocks[i]
<1>1. UpdateRequestCommit(s) => blocks'[i].phase = blocks[i].phase
  BY DEF UpdateRequestCommit, TypeOK, BlockRow
<1>2. EditBlockCommit(s) => blocks'[i].phase = blocks[i].phase
  BY DEF EditBlockCommit, TypeOK, FlushBlock
<1>3. CreateRequestCommit(s) => blocks' = blocks
  BY DEF CreateRequestCommit
<1>4. DeleteBlockCommit(s) =>
        blocks'[i] = IF i = tx[s].block THEN [blocks[i] EXCEPT !.phase = "Gone"] ELSE blocks[i]
  BY DEF DeleteBlockCommit, TypeOK
<1>5. QED  BY <1>1, <1>2, <1>3, <1>4

LEMMA CommitRefers ==
  ASSUME TypeOK, References, NEW s \in Sessions,
         CreateRequestCommit(s) \/ UpdateRequestCommit(s) \/ EditBlockCommit(s)
           \/ DeleteBlockCommit(s)
  PROVE  References'
<1> DEFINE t == tx[s]
<1>0. Finish(s) /\ t \in Transaction
  BY DEF TypeOK, CreateRequestCommit, UpdateRequestCommit, EditBlockCommit, DeleteBlockCommit
<1>1. CASE CreateRequestCommit(s)
  <2>1. t.request \in Requests /\ LinksBooked(t) /\ t.op = "create"
    BY <1>1 DEF TypeOK, CreateRequestCommit, References
  <2>2. \A i \in Inventories : Live(i)' <=> Live(i)
    BY <1>1 DEF CreateRequestCommit, Live
  <2>3. \A i \in Inventories : t.demand[i] > 0 => Live(i)
    BY <1>1 DEF CreateRequestCommit, Demanded
  <2>4. t.new.link \in Links
    BY <1>0 DEF Transaction, RequestRow
  <2>5. t.new.link # NoInventory => Live(t.new.link)
    BY <2>1, <2>3, <2>4 DEF LinksBooked, Links
  <2>6. ASSUME NEW r \in Requests
        PROVE  Refers(r)'
    <3>1. Refers(r) /\ requests[r].link \in Links
      BY DEF References, TypeOK, RequestRow
    <3>2. CASE r = t.request
      <4>1. requests'[r] = t.new /\ bookings'[r] = t.demand
        BY <1>1, <2>1, <3>2 DEF CreateRequestCommit, TypeOK
      <4>2. QED  BY <1>1, <2>3, <2>5, <4>1 DEF CreateRequestCommit, Refers, Live
    <3>3. CASE r # t.request
      <4>1. requests'[r] = requests[r] /\ bookings'[r] = bookings[r]
        BY <1>1, <2>1, <3>3 DEF CreateRequestCommit, TypeOK
      <4>2. QED  BY <1>1, <3>1, <4>1 DEF CreateRequestCommit, Refers, Live
    <3>4. QED  BY <3>2, <3>3
  <2>7. QED  BY <1>0, <2>6, FinishRefers
<1>2. CASE UpdateRequestCommit(s)
  <2>1. t.request \in Requests /\ t.new \in RequestRow /\ t.old \in RequestRow
    BY <1>0, <1>2 DEF TypeOK, UpdateRequestCommit, Transaction
  <2>2. \A i \in Inventories : Live(i)' <=> Live(i)
    BY <1>2, CommitPhases DEF Live
  <2>3. t.new.link # t.old.link /\ t.new.link # NoInventory => Live(t.new.link)
    BY <1>2 DEF UpdateRequestCommit, Relinks
  <2>4. t.new.link \in Links
    BY <2>1 DEF RequestRow
  <2>5. ASSUME NEW r \in Requests
        PROVE  Refers(r)'
    <3>1. Refers(r) /\ requests[r].link \in Links /\ requests'[r].link \in Links
      BY <1>2, <2>1, <2>4 DEF References, TypeOK, RequestRow, UpdateRequestCommit, FlushRequest,
                              Dirty
    <3>2. bookings'[r] = bookings[r]
      BY <1>2 DEF UpdateRequestCommit
    <3>3. \/ requests'[r].link = requests[r].link
          \/ requests'[r].link = t.new.link /\ t.new.link # t.old.link
      BY <1>2, <2>1 DEF UpdateRequestCommit, TypeOK, FlushRequest, Dirty
    <3>4. requests'[r].link # NoInventory => Live(requests'[r].link)
      BY <2>3, <3>1, <3>3 DEF Refers
    <3>5. requests'[r].link # NoInventory => blocks'[requests'[r].link].phase = "Live"
      BY <2>2, <3>1, <3>4 DEF Live, Links
    <3>6. QED  BY <2>2, <3>1, <3>2, <3>5 DEF Refers, Live
  <2>6. QED  BY <1>0, <2>5, FinishRefers
<1>3. CASE EditBlockCommit(s)
  <2>1. \A i \in Inventories : Live(i)' <=> Live(i)
    BY <1>3, CommitPhases DEF Live
  <2>2. ASSUME NEW r \in Requests
        PROVE  Refers(r)'
    <3>1. Refers(r) /\ requests[r].link \in Links
      BY DEF References, TypeOK, RequestRow
    <3>2. requests' = requests /\ bookings' = bookings
      BY <1>3 DEF EditBlockCommit
    <3>3. requests[r].link # NoInventory => blocks'[requests[r].link].phase = "Live"
      BY <2>1, <3>1 DEF Refers, Live, Links
    <3>4. QED  BY <2>1, <3>1, <3>2, <3>3 DEF Refers, Live
  <2>3. QED  BY <1>0, <2>2, FinishRefers
<1>4. CASE DeleteBlockCommit(s)
  <2>1. t.block \in Inventories
    BY <1>4 DEF TypeOK, DeleteBlockCommit
  <2>2. \A i \in Inventories : i # t.block => (Live(i)' <=> Live(i))
    BY <1>4, CommitPhases DEF Live
  <2>3. ASSUME NEW r \in Requests
        PROVE  Refers(r)'
    <3>1. Refers(r) /\ requests[r] \in RequestRow /\ bookings[r] \in Demand
      BY DEF References, TypeOK
    <3>2. \/ requests'[r].link = NoInventory
          \/ requests'[r].link = requests[r].link /\ requests[r].link # t.block
      BY <1>4, <3>1 DEF DeleteBlockCommit, RequestRow
    <3>3. \A i \in Inventories : bookings'[r][i] = IF i = t.block THEN 0 ELSE bookings[r][i]
      BY <1>4, <2>1, <3>1 DEF DeleteBlockCommit, Demand
    <3>4. requests[r].link \in Links
      BY <3>1 DEF RequestRow
    <3>5. requests'[r].link # NoInventory => blocks'[requests'[r].link].phase = "Live"
      BY <2>2, <3>1, <3>2, <3>4 DEF Refers, Live, Links
    <3>6. QED  BY <2>2, <3>1, <3>3, <3>5 DEF Refers, Live
  <2>4. QED  BY <1>0, <2>3, FinishRefers
<1>5. QED  BY <1>1, <1>2, <1>3, <1>4

LEMMA NextRefers ==
  ASSUME TypeOK, References, Next
  PROVE  References'
<1>1. ASSUME NEW i \in Inventories, NEW b \in NewBlocks, CreateBlock(i, b)
      PROVE  References'
  <2>1. UNCHANGED <<requests, bookings, tx>>
    BY <1>1 DEF CreateBlock
  <2>2. \A j \in Inventories : Live(j) => Live(j)'
    BY <1>1 DEF CreateBlock, TypeOK, Live
  <2>3. \A r \in Requests : requests[r].link \in Links
    BY DEF TypeOK, RequestRow
  <2>4. ASSUME NEW r \in Requests
        PROVE  Refers(r)'
    <3>1. requests[r].link # NoInventory => blocks'[requests[r].link].phase = "Live"
      BY <2>2, <2>3 DEF References, Refers, Live, Links
    <3>2. QED  BY <2>1, <2>2, <3>1 DEF References, Refers, Live
  <2>5. QED  BY <2>1, <2>4 DEF References, LinksBooked
<1>2. ASSUME NEW s \in Sessions, NEW i \in Inventories, ReserveInventory(s, i)
      PROVE  References'
  <2>1. UNCHANGED <<requests, bookings, blocks>>
    BY <1>2 DEF ReserveInventory
  <2>2. \A q \in Sessions :
          tx'[q].op = tx[q].op /\ tx'[q].new = tx[q].new /\ tx'[q].demand = tx[q].demand
    BY <1>2 DEF ReserveInventory, TypeOK, Transaction
  <2>3. QED  BY <2>1, <2>2 DEF References, Refers, LinksBooked, Live
<1>3. ASSUME NEW s \in Sessions, Rollback(s)
      PROVE  References'
  <2>1. UNCHANGED <<requests, bookings, blocks>> /\ Finish(s)
    BY <1>3 DEF Rollback
  <2>2. \A r \in Requests : Refers(r)'
    BY <2>1 DEF References, Refers, Live
  <2>3. QED  BY <2>1, <2>2, FinishRefers
<1>4. ASSUME NEW s \in Sessions, Advance(s) \/ Disconnect(s)
      PROVE  References'
  BY <1>2, <1>3, <1>4, CommitRefers
  DEF Advance, Disconnect, LockWaitAborted, RowGone, ReserveRefused
<1>5. QED  BY <1>1, <1>4, BeginRefers DEF Next

LEMMA ReferencesInvariant == Spec => []References
<1>1. Init => References
  BY DEF Init, References, Refers, LinksBooked, Idle, NoDemand, UnbornRequest
<1>2. TypeOK /\ References /\ [Next]_vars => References'
  <2>1. ASSUME References, UNCHANGED vars
        PROVE  References'
    BY <2>1 DEF vars, References, Refers, LinksBooked, Live
  <2>2. QED  BY <2>1, NextRefers
<1>3. QED  BY <1>1, <1>2, TypeCorrect, PTL DEF Spec

-----------------------------------------------------------------------------
(* A purchase is never lost.                                                 *)

\* No PATCH payload of staff sets cabins_reserved.
CountsNotEdited == \A e \in InventoryEdits : e.reserved = Unset

\* A staff edit in flight means to leave the count as it read it.
CountKept(t) == t.op = "edit" => t.newBlock.reserved = t.oldBlock.reserved

LEMMA NextKeepsCounts ==
  ASSUME TypeOK, CountsNotEdited, Next, \A s \in Sessions : CountKept(tx[s])
  PROVE  \A s \in Sessions : CountKept(tx'[s])
<1>1. ASSUME NEW s \in Sessions, NEW t, Start(s, t), CountKept(t)
      PROVE  \A q \in Sessions : CountKept(tx'[q])
  BY <1>1 DEF Start, TypeOK
<1>2. ASSUME NEW s \in Sessions, NEW t, Start(s, t), t.op # "edit"
      PROVE  \A q \in Sessions : CountKept(tx'[q])
  BY <1>1, <1>2 DEF CountKept
<1>3. ASSUME NEW s \in Sessions, NEW r \in Requests, NEW p \in Intakes,
             CreateRequestBegin(s, r, p)
      PROVE  \A q \in Sessions : CountKept(tx'[q])
  BY <1>2, <1>3 DEF CreateRequestBegin, Idle
<1>4. ASSUME NEW s \in Sessions, NEW r \in Requests, NEW u \in RequestUpdates,
             UpdateRequestBegin(s, r, u)
      PROVE  \A q \in Sessions : CountKept(tx'[q])
  BY <1>2, <1>4 DEF UpdateRequestBegin, Idle
<1>5. ASSUME NEW s \in Sessions, NEW r \in Requests, ReopenRequestBegin(s, r)
      PROVE  \A q \in Sessions : CountKept(tx'[q])
  BY <1>2, <1>5 DEF ReopenRequestBegin, Idle
<1>6. ASSUME NEW s \in Sessions, NEW i \in Inventories, NEW e \in InventoryEdits,
             EditBlockBegin(s, i, e)
      PROVE  \A q \in Sessions : CountKept(tx'[q])
  <2> DEFINE row == [blocks[i] EXCEPT !.allocated = Given(e.allocated, @),
                                      !.reserved = Given(e.reserved, @)]
             t == [Idle EXCEPT !.op = "edit", !.block = i, !.oldBlock = blocks[i],
                               !.newBlock = row]
  <2>1. row.reserved = blocks[i].reserved
    BY DEF TypeOK, BlockRow, CountsNotEdited, Given
  <2>2. t.newBlock = row /\ t.oldBlock = blocks[i]
    <3> HIDE DEF row
    <3> QED  BY DEF Idle
  <2>3. Start(s, t)
    BY <1>6 DEF EditBlockBegin
  <2>4. QED
    <3> HIDE DEF t, row
    <3> QED  BY <1>1, <2>1, <2>2, <2>3 DEF CountKept
<1>7. ASSUME NEW s \in Sessions, NEW i \in Inventories, DeleteBlockBegin(s, i)
      PROVE  \A q \in Sessions : CountKept(tx'[q])
  BY <1>2, <1>7 DEF DeleteBlockBegin, Idle
<1>8. ASSUME NEW i \in Inventories, NEW b \in NewBlocks, CreateBlock(i, b)
      PROVE  \A q \in Sessions : CountKept(tx'[q])
  BY <1>8 DEF CreateBlock
<1>9. ASSUME NEW s \in Sessions, Finish(s)
      PROVE  \A q \in Sessions : CountKept(tx'[q])
  BY <1>9 DEF Finish, TypeOK, CountKept, Idle
<1>10. ASSUME NEW s \in Sessions, NEW i \in Inventories, ReserveInventory(s, i)
       PROVE  \A q \in Sessions : CountKept(tx'[q])
  BY <1>10 DEF ReserveInventory, TypeOK, CountKept
<1>11. ASSUME NEW s \in Sessions, Advance(s) \/ Disconnect(s)
       PROVE  \A q \in Sessions : CountKept(tx'[q])
  BY <1>9, <1>10, <1>11
  DEF Advance, Disconnect, LockWaitAborted, RowGone, ReserveRefused, Rollback,
      CreateRequestCommit, UpdateRequestCommit, EditBlockCommit, DeleteBlockCommit
<1>12. QED  BY <1>3, <1>4, <1>5, <1>6, <1>7, <1>8, <1>11 DEF Next

\* The cabins of inventory i that each request has bought.
Bought(i) == [r \in Requests |-> IF requests[r].applied THEN bookings[r][i] ELSE 0]

LEMMA BoughtType ==
  ASSUME TypeOK, NEW i \in Inventories
  PROVE  Bought(i) \in [Requests -> Nat] /\ Purchased(i) = Cabins(Bought(i))
  BY SentinelAssumption DEF TypeOK, Demand, Bought, Purchased

\* Purchases of one inventory are finitely many, and its count covers them.
Covered(i) ==
    /\ IsFiniteSet(Purchased(i))
    /\ Live(i) => blocks[i].reserved >= Cardinality(Purchased(i))

\* Fewer cabins bought, and no smaller count.
LEMMA CoveredKept ==
  ASSUME TypeOK, TypeOK', NEW i \in Inventories, Covered(i),
         \A r \in Requests : Bought(i)'[r] <= Bought(i)[r],
         Live(i)' => Live(i) /\ blocks'[i].reserved >= blocks[i].reserved
  PROVE  Covered(i)'
<1> DEFINE f == Bought(i)
           g == Bought(i)'
<1>1. f \in [Requests -> Nat] /\ Purchased(i) = Cabins(f)
  BY BoughtType
<1>2. g \in [Requests -> Nat] /\ Purchased(i)' = Cabins(g)
  BY SentinelAssumption DEF TypeOK, Demand, Bought, Purchased, Cabins
<1>3. IsFiniteSet(Cabins(f)) /\ \A q \in Requests : g[q] <= f[q]
  BY <1>1 DEF Covered
<1>4. IsFiniteSet(Cabins(g)) /\ Cardinality(Cabins(g)) <= Cardinality(Cabins(f))
  <2> HIDE DEF f, g
  <2> QED  BY <1>1, <1>2, <1>3, CabinsShrink
<1>5. Cardinality(Cabins(f)) \in Nat /\ Cardinality(Cabins(g)) \in Nat
  BY <1>3, <1>4, FS_CardinalityType
<1>6. blocks[i].reserved \in Nat /\ blocks'[i].reserved \in Nat
  BY DEF TypeOK, BlockRow
<1>7. QED
  <2> HIDE DEF f, g
  <2>1. IsFiniteSet(Purchased(i)')
    BY <1>2, <1>4
  <2>2. Live(i)' => blocks'[i].reserved >= Cardinality(Purchased(i)')
    BY <1>1, <1>2, <1>4, <1>5, <1>6 DEF Covered
  <2>3. QED  BY <2>1, <2>2 DEF Covered

\* The commit that first marks a purchase adds its bookings to the count.
LEMMA CommitCovers ==
  ASSUME TypeOK, TypeOK', LocksProtectReads, Intentions, NEW s \in Sessions,
         UpdateRequestCommit(s), NEW i \in Inventories, Covered(i)
  PROVE  Covered(i)'
<1> DEFINE t == tx[s]
           r == t.request
           f == Bought(i)
           g == Bought(i)'
<1>1. r \in Requests /\ t \in Transaction /\ bookings' = bookings
  BY DEF TypeOK, UpdateRequestCommit
<1>2. \A q \in Requests : q # r => requests'[q] = requests[q]
  BY DEF UpdateRequestCommit, TypeOK
<1>3. Live(i)' <=> Live(i)
  BY CommitPhases DEF Live
<1>4. blocks[i].reserved \in Nat /\ blocks'[i].reserved >= blocks[i].reserved
  <2>1. blocks[i] \in BlockRow /\ t.demand[i] \in Nat
    BY <1>1, SentinelAssumption DEF TypeOK, Transaction, Demand
  <2>2. CASE i \in t.held
    <3>1. t.read[i] = blocks[i].reserved
      BY <2>2 DEF LocksProtectReads
    <3>2. QED  BY <2>1, <2>2, <3>1 DEF UpdateRequestCommit, BlockRow
  <2>3. CASE i \notin t.held
    BY <2>1, <2>3 DEF UpdateRequestCommit, BlockRow
  <2>4. QED  BY <2>2, <2>3
<1>5. CASE \A q \in Requests : g[q] <= f[q]
  BY <1>3, <1>4, <1>5, CoveredKept
<1>6. CASE ~ \A q \in Requests : g[q] <= f[q]
  <2>1. f \in [Requests -> Nat] /\ Purchased(i) = Cabins(f)
    BY BoughtType
  <2>2. g \in [Requests -> Nat] /\ Purchased(i)' = Cabins(g)
    BY SentinelAssumption DEF TypeOK, Demand, Bought, Purchased, Cabins
  <2>3. \A q \in Requests : q # r => g[q] = f[q]
    BY <1>1, <1>2 DEF Bought
  <2>4. ~(g[r] <= f[r])
    BY <1>1, <1>6, <2>1, <2>2, <2>3
  <2>5. bookings[r][i] \in Nat
    BY <1>1, SentinelAssumption DEF TypeOK, Demand
  <2>6. requests'[r].applied /\ ~requests[r].applied /\ bookings[r][i] > 0
    BY <1>1, <2>4, <2>5 DEF Bought, TypeOK, RequestRow
  <2>7. Booked(r)
    BY <2>6 DEF Booked, Demanded
  <2>8. blocks'[i].reserved = blocks[i].reserved + bookings[r][i]
    BY <1>1, <2>6, <2>7, CommitReserves DEF Reserves
  <2>9. g[r] = bookings[r][i]
    BY <1>1, <2>6 DEF Bought
  <2>10. IsFiniteSet(Cabins(f))
    BY <2>1 DEF Covered
  <2>11. /\ IsFiniteSet(Cabins(g))
         /\ Cardinality(Cabins(g)) <= Cardinality(Cabins(f)) + bookings[r][i]
    <3> DEFINE n == bookings[r][i]
    <3>1. n \in Nat /\ g[r] <= n /\ \A q \in Requests \ {r} : g[q] <= f[q]
      BY <2>1, <2>2, <2>3, <2>5, <2>9
    <3> HIDE DEF f, g, n, r
    <3>2. QED
      BY <1>1, <2>1, <2>2, <2>10, <3>1, CabinsGrow DEF n
  <2>12. Cardinality(Cabins(f)) \in Nat /\ Cardinality(Cabins(g)) \in Nat
    BY <2>10, <2>11, FS_CardinalityType
  <2>13. QED
    <3> HIDE DEF f, g
    <3>1. IsFiniteSet(Purchased(i)')
      BY <2>2, <2>11
    <3>2. Live(i)' => blocks'[i].reserved >= Cardinality(Purchased(i)')
      BY <1>3, <1>4, <2>1, <2>2, <2>5, <2>8, <2>11, <2>12 DEF Covered
    <3>3. QED  BY <3>1, <3>2 DEF Covered
<1>7. QED  BY <1>5, <1>6

LEMMA CreateCovers ==
  ASSUME TypeOK, TypeOK', References, NEW j \in Inventories, NEW b \in NewBlocks,
         CreateBlock(j, b), NEW i \in Inventories, Covered(i)
  PROVE  Covered(i)'
<1>1. UNCHANGED <<requests, bookings>>
  BY DEF CreateBlock
<1>2. CASE i = j
  <2>1. ~Live(i)
    BY <1>2 DEF CreateBlock, Live
  <2>2. ASSUME NEW r \in Requests
        PROVE  bookings[r][i] = 0
    <3>1. bookings[r][i] \in Nat /\ ~(bookings[r][i] > 0)
      BY <2>1, SentinelAssumption DEF References, Refers, TypeOK, Demand
    <3>2. QED  BY <3>1
  <2> DEFINE g == Bought(i)'
  <2>3. \A r \in Requests : g[r] = 0
    BY <1>1, <2>2 DEF Bought
  <2>4. Purchased(i)' = Cabins(g)
    BY DEF Bought, Purchased, Cabins
  <2>5. IsFiniteSet(Cabins(g)) /\ Cardinality(Cabins(g)) = 0
    <3> HIDE DEF g
    <3> QED  BY <2>3, CabinsNone
  <2>6. blocks'[i].reserved \in Nat
    BY DEF TypeOK, BlockRow
  <2>7. QED
    <3> HIDE DEF g
    <3> QED  BY <2>4, <2>5, <2>6 DEF Covered
<1>3. CASE i # j
  <2>1. blocks'[i] = blocks[i]
    BY <1>3 DEF CreateBlock, TypeOK
  <2>2. QED  BY <1>1, <2>1 DEF Covered, Live, Purchased, Cabins
<1>4. QED  BY <1>2, <1>3

LEMMA NextCovers ==
  ASSUME TypeOK, TypeOK', LocksProtectReads, Intentions, References, Next,
         \A s \in Sessions : CountKept(tx[s]), NEW i \in Inventories, Covered(i)
  PROVE  Covered(i)'
<1>1. UNCHANGED <<requests, bookings, blocks>> => Covered(i)'
  BY DEF Covered, Live, Purchased, Cabins
<1>2. ASSUME NEW s \in Sessions, CreateRequestCommit(s)
      PROVE  Covered(i)'
  <2>1. tx[s].request \in Requests /\ ~tx[s].new.applied /\ blocks' = blocks
    BY <1>2 DEF TypeOK, CreateRequestCommit, Intentions, CreatesAlone
  <2>2. \A r \in Requests :
          IF r = tx[s].request THEN ~requests'[r].applied
          ELSE requests'[r] = requests[r] /\ bookings'[r] = bookings[r]
    BY <1>2, <2>1 DEF CreateRequestCommit, TypeOK
  <2>3. \A r \in Requests : bookings[r][i] \in Nat
    BY SentinelAssumption DEF TypeOK, Demand
  <2>4. \A r \in Requests : Bought(i)'[r] <= Bought(i)[r]
    BY <2>2, <2>3 DEF Bought
  <2>5. Live(i)' => Live(i) /\ blocks'[i].reserved >= blocks[i].reserved
    BY <2>1 DEF Live, TypeOK, BlockRow
  <2>6. QED  BY <2>4, <2>5, CoveredKept
<1>3. ASSUME NEW s \in Sessions, EditBlockCommit(s)
      PROVE  Covered(i)'
  <2>1. UNCHANGED <<requests, bookings>>
    BY <1>3 DEF EditBlockCommit
  <2>2. blocks'[i].phase = blocks[i].phase /\ blocks'[i].reserved = blocks[i].reserved
    BY <1>3 DEF EditBlockCommit, TypeOK, FlushBlock, Dirty, CountKept
  <2>3. QED  BY <2>1, <2>2 DEF Covered, Live, Purchased, Cabins
<1>4. ASSUME NEW s \in Sessions, DeleteBlockCommit(s)
      PROVE  Covered(i)'
  <2>1. \A r \in Requests : requests'[r].applied = requests[r].applied
    BY <1>4 DEF DeleteBlockCommit, TypeOK, RequestRow
  <2>2. ASSUME NEW r \in Requests
        PROVE  bookings'[r][i] \in Nat /\ bookings'[r][i] <= bookings[r][i]
    <3>1. bookings[r][i] \in Nat /\ bookings[r] \in Demand
      BY SentinelAssumption DEF TypeOK, Demand
    <3>2. bookings'[r][i] = bookings[r][i] \/ bookings'[r][i] = 0
      BY <1>4, <3>1 DEF DeleteBlockCommit, Demand
    <3>3. QED  BY <3>1, <3>2
  <2>3. \A r \in Requests : Bought(i)'[r] <= Bought(i)[r]
    BY <2>1, <2>2 DEF Bought
  <2>4. Live(i)' => Live(i) /\ blocks'[i].reserved >= blocks[i].reserved
    BY <1>4, CommitPhases DEF Live, TypeOK, BlockRow
  <2>5. QED  BY <2>3, <2>4, CoveredKept
<1>5. ASSUME NEW s \in Sessions, Advance(s) \/ Disconnect(s)
      PROVE  Covered(i)'
  BY <1>1, <1>2, <1>3, <1>4, <1>5, CommitCovers
  DEF Advance, Disconnect, LockWaitAborted, RowGone, ReserveRefused, ReserveInventory, Rollback
<1>6. QED
  BY <1>1, <1>5, CreateCovers
  DEF Next, CreateRequestBegin, UpdateRequestBegin, ReopenRequestBegin, EditBlockBegin,
      DeleteBlockBegin, Start

CountsAreKept == \A s \in Sessions : CountKept(tx[s])

LEMMA CountsInvariant ==
  ASSUME CountsNotEdited
  PROVE  Spec => []CountsAreKept
<1>1. Init => CountsAreKept
  BY DEF Init, CountsAreKept, CountKept, Idle
<1>2. TypeOK /\ CountsAreKept /\ [Next]_vars => CountsAreKept'
  <2>1. ASSUME CountsAreKept, UNCHANGED vars
        PROVE  CountsAreKept'
    BY <2>1 DEF vars, CountsAreKept
  <2>2. QED  BY <2>1, NextKeepsCounts DEF CountsAreKept
<1>3. QED  BY <1>1, <1>2, TypeCorrect, PTL DEF Spec

AllCovered == \A i \in Inventories : Covered(i)

\* A sale is kept: where staff edits no counts, cabins_reserved of a present
\* inventory covers every cabin that requests booked and bought, however many
\* sessions close requests, write inventories or fail at the same time.
THEOREM SalesAreKept ==
  ASSUME CountsNotEdited
  PROVE  Spec => []SalesKept
<1>1. Init => AllCovered
  <2>1. ASSUME Init, NEW i \in Inventories
        PROVE  Covered(i)
    <3>1. \A r \in Requests : Bought(i)[r] = 0
      BY <2>1 DEF Init, Bought, UnbornRequest
    <3>2. Purchased(i) = Cabins(Bought(i))
      BY DEF Purchased, Bought
    <3>3. IsFiniteSet(Purchased(i))
      BY <3>1, <3>2, CabinsNone
    <3>4. ~Live(i)
      BY <2>1 DEF Init, Live, UnbornBlock
    <3>5. QED  BY <3>3, <3>4 DEF Covered
  <2>2. QED  BY <2>1 DEF AllCovered
<1>2. /\ TypeOK /\ TypeOK' /\ LocksProtectReads /\ Intentions /\ References /\ CountsAreKept
      /\ AllCovered /\ [Next]_vars
      => AllCovered'
  <2>1. ASSUME AllCovered, UNCHANGED vars
        PROVE  AllCovered'
    BY <2>1 DEF vars, AllCovered, Covered, Live, Purchased, Cabins
  <2>2. QED  BY <2>1, NextCovers DEF AllCovered, CountsAreKept
<1>3. AllCovered => SalesKept
  BY DEF AllCovered, Covered, SalesKept
<1>4. QED
  BY <1>1, <1>2, <1>3, TypeCorrect, ReadsProtected, IntentionsInvariant, ReferencesInvariant,
     CountsInvariant, PTL
  DEF Spec

-----------------------------------------------------------------------------
(* One handler at a time: the count is what was sold.                        *)

\* At most one session, so that no two handlers overlap.
Sequential == \A p, q \in Sessions : p = q

\* Inventories start without sales.
NothingReservedYet == \A b \in NewBlocks : b.reserved = 0

\* A payload that closes a request leaves its inventory and its cabins alone.
ClosesKeepLink ==
    \A u \in RequestUpdates : u.status = "Closed" => u.link = Unset /\ u.needed = Unset

\* An update in flight: the row is the one it read, and it is marked applied
\* exactly if its demand is what closing the modified row as purchased takes.
MeansToSell(t) ==
    t.op = "update" =>
        /\ requests[t.request] = t.old
        /\ ~t.old.applied
        /\ t.new.applied <=> Demanded(t.demand) # {}
        /\ t.new.applied =>
             /\ ClosesAsPurchased(t.new)
             /\ t.demand = Increments(t.new, bookings[t.request])

\* A deletion in flight: nobody has booked the inventory since, and the requests
\* to unlink are still linked to it.
DeletesUnbooked(t) ==
    t.op = "delete" =>
        /\ \A r \in Requests : bookings[r][t.block] = 0
        /\ \A r \in t.unlink : requests[r].link = t.block

AppliedIsPurchased ==
    \A r \in Requests : requests[r].applied => ClosesAsPurchased(requests[r])

SellsOnce ==
    /\ AppliedIsPurchased
    /\ \A s \in Sessions : MeansToSell(tx[s]) /\ DeletesUnbooked(tx[s])

LEMMA StartSellsOnce ==
  ASSUME TypeOK, SellsOnce, Sequential, NEW s \in Sessions, NEW t, Start(s, t),
         MeansToSell(t), DeletesUnbooked(t)
  PROVE  SellsOnce'
<1>1. UNCHANGED <<requests, bookings, blocks>>
  BY DEF Start
<1>2. \A q \in Sessions : tx'[q] = t
  BY DEF Start, TypeOK, Sequential
<1>3. AppliedIsPurchased'
  BY <1>1 DEF SellsOnce, AppliedIsPurchased, ClosesAsPurchased
<1>4. ASSUME NEW q \in Sessions
      PROVE  MeansToSell(tx[q])' /\ DeletesUnbooked(tx[q])'
  <2>1. tx'[q] = t
    BY <1>2
  <2>2. MeansToSell(tx[q])'
    BY <1>1, <2>1 DEF MeansToSell, ClosesAsPurchased, Increments
  <2>3. DeletesUnbooked(tx[q])'
    BY <1>1, <2>1 DEF DeletesUnbooked
  <2>4. QED  BY <2>2, <2>3
<1>5. QED  BY <1>3, <1>4 DEF SellsOnce

LEMMA FinishSellsOnce ==
  ASSUME TypeOK, SellsOnce, Sequential, NEW s \in Sessions, Finish(s), AppliedIsPurchased'
  PROVE  SellsOnce'
<1>1. \A q \in Sessions : tx'[q] = Idle
  BY DEF Finish, TypeOK, Sequential
<1>2. ASSUME NEW q \in Sessions
      PROVE  MeansToSell(tx[q])' /\ DeletesUnbooked(tx[q])'
  BY <1>1 DEF MeansToSell, DeletesUnbooked, Idle
<1>3. QED  BY <1>2 DEF SellsOnce

\* What update_request means to reserve when it starts.
LEMMA UpdateMeansToSell ==
  ASSUME TypeOK, SellsOnce, ClosesKeepLink, NEW s \in Sessions, NEW r \in Requests,
         NEW u \in RequestUpdates, UpdateRequestBegin(s, r, u)
  PROVE  \E t : Start(s, t) /\ t.op = "update" /\ MeansToSell(t)
<1> DEFINE old == requests[r]
           new == AppliedUpdate(old, u)
           d == IF ClosesAsPurchased(new) /\ ~old.applied
                THEN Increments(old, bookings[r]) ELSE NoDemand
           row == [new EXCEPT !.applied = old.applied \/ Demanded(d) # {}]
           t == [Idle EXCEPT !.op = "update", !.request = r, !.old = old,
                             !.demand = d, !.new = row]
<1>1. old \in RequestRow /\ new \in RequestRow
  BY UpdateType, PayloadAssumption DEF TypeOK
<1>2. old.status = "Open" /\ Start(s, t)
  BY DEF UpdateRequestBegin
<1>3. ~old.applied
  BY <1>2 DEF SellsOnce, AppliedIsPurchased, ClosesAsPurchased
<1>4. ClosesAsPurchased(new) => new.link = old.link /\ new.needed = old.needed
  <2>1. ASSUME ClosesAsPurchased(new)
        PROVE  u.status = "Closed"
    BY <1>1, <1>2, <2>1 DEF ClosesAsPurchased, AppliedUpdate, Given, RequestRow
  <2>2. QED  BY <1>1, <2>1 DEF ClosesKeepLink, AppliedUpdate, Given, RequestRow
<1>5. Demanded(NoDemand) = {}
  BY DEF Demanded, NoDemand
<1>6. /\ row.applied <=> Demanded(d) # {}
      /\ row.status = new.status /\ row.reason = new.reason
      /\ row.link = new.link /\ row.needed = new.needed
  <2> HIDE DEF new, d
  <2> QED  BY <1>1, <1>3 DEF RequestRow
<1>7. Demanded(d) # {} => ClosesAsPurchased(new) /\ d = Increments(old, bookings[r])
  BY <1>5
<1>8. row.applied => ClosesAsPurchased(row) /\ d = Increments(row, bookings[r])
  <2> HIDE DEF new, d, row
  <2> QED  BY <1>4, <1>6, <1>7 DEF ClosesAsPurchased, Increments
<1>9. t.op = "update" /\ t.request = r /\ t.old = old /\ t.new = row /\ t.demand = d
  <2> HIDE DEF row, d, old
  <2> QED  BY DEF Idle
<1>10. MeansToSell(t)
  <2> HIDE DEF t, row, d
  <2> QED  BY <1>3, <1>6, <1>8, <1>9 DEF MeansToSell
<1>11. QED
  <2> HIDE DEF t
  <2> QED  BY <1>2, <1>9, <1>10

LEMMA BeginSellsOnce ==
  ASSUME TypeOK, SellsOnce, Sequential, ClosesKeepLink,
         \/ \E s \in Sessions, r \in Requests :
              \/ \E p \in Intakes : CreateRequestBegin(s, r, p)
              \/ \E u \in RequestUpdates : UpdateRequestBegin(s, r, u)
              \/ ReopenRequestBegin(s, r)
         \/ \E s \in Sessions, i \in Inventories :
              \/ \E e \in InventoryEdits : EditBlockBegin(s, i, e)
              \/ DeleteBlockBegin(s, i)
  PROVE  SellsOnce'
<1>1. ASSUME NEW s \in Sessions, NEW t, Start(s, t), t.op \notin {"update", "delete"}
      PROVE  SellsOnce'
  BY <1>1, StartSellsOnce DEF MeansToSell, DeletesUnbooked
<1>2. ASSUME NEW s \in Sessions, NEW r \in Requests, NEW p \in Intakes,
             CreateRequestBegin(s, r, p)
      PROVE  SellsOnce'
  BY <1>1, <1>2 DEF CreateRequestBegin, Idle
<1>3. ASSUME NEW s \in Sessions, NEW r \in Requests, NEW u \in RequestUpdates,
             UpdateRequestBegin(s, r, u)
      PROVE  SellsOnce'
  <2>1. PICK t : Start(s, t) /\ t.op = "update" /\ MeansToSell(t)
    BY <1>3, UpdateMeansToSell
  <2>2. DeletesUnbooked(t)
    BY <2>1 DEF DeletesUnbooked
  <2>3. QED  BY <2>1, <2>2, StartSellsOnce
<1>4. ASSUME NEW s \in Sessions, NEW r \in Requests, ReopenRequestBegin(s, r)
      PROVE  SellsOnce'
  <2> DEFINE row == [requests[r] EXCEPT !.status = "Open", !.reason = NoReason]
             t == [Idle EXCEPT !.op = "update", !.request = r, !.old = requests[r],
                               !.new = row]
  <2>1. requests[r] \in RequestRow /\ Start(s, t)
    BY <1>4 DEF ReopenRequestBegin, TypeOK
  <2>2. ~requests[r].applied
    BY <1>4 DEF ReopenRequestBegin, SellsOnce, AppliedIsPurchased, ClosesAsPurchased
  <2>3. row.applied = requests[r].applied
    BY <2>1 DEF RequestRow
  <2>4. /\ t.op = "update" /\ t.request = r /\ t.old = requests[r] /\ t.new = row
        /\ t.demand = NoDemand
    <3> HIDE DEF row
    <3> QED  BY DEF Idle
  <2>5. Demanded(NoDemand) = {}
    BY DEF Demanded, NoDemand
  <2>6. MeansToSell(t) /\ DeletesUnbooked(t)
    <3> HIDE DEF t, row
    <3> QED  BY <2>2, <2>3, <2>4, <2>5 DEF MeansToSell, DeletesUnbooked
  <2>7. QED
    <3> HIDE DEF t
    <3> QED  BY <2>1, <2>6, StartSellsOnce
<1>5. ASSUME NEW s \in Sessions, NEW i \in Inventories, NEW e \in InventoryEdits,
             EditBlockBegin(s, i, e)
      PROVE  SellsOnce'
  BY <1>1, <1>5 DEF EditBlockBegin, Idle
<1>6. ASSUME NEW s \in Sessions, NEW i \in Inventories, DeleteBlockBegin(s, i)
      PROVE  SellsOnce'
  <2> DEFINE t == [Idle EXCEPT !.op = "delete", !.block = i,
                               !.unlink = {r \in Requests : requests[r].link = i}]
  <2>1. Start(s, t) /\ \A r \in Requests : bookings[r][i] = 0
    BY <1>6 DEF DeleteBlockBegin
  <2>2. t.op = "delete" /\ t.block = i /\ \A r \in t.unlink : requests[r].link = i
    BY DEF Idle
  <2>3. MeansToSell(t) /\ DeletesUnbooked(t)
    <3> HIDE DEF t
    <3> QED  BY <2>1, <2>2 DEF MeansToSell, DeletesUnbooked
  <2>4. QED
    <3> HIDE DEF t
    <3> QED  BY <2>1, <2>3, StartSellsOnce
<1>7. QED  BY <1>2, <1>3, <1>4, <1>5, <1>6

\* Nothing wrote the row since update_request read it: it becomes what was meant.
LEMMA CommitWritesNew ==
  ASSUME TypeOK, SellsOnce, NEW s \in Sessions, UpdateRequestCommit(s)
  PROVE  /\ tx[s].request \in Requests
         /\ requests'[tx[s].request] = tx[s].new
         /\ \A q \in Requests : q # tx[s].request => requests'[q] = requests[q]
<1> DEFINE t == tx[s]
<1>1. t.request \in Requests /\ t.new \in RequestRow /\ t.op = "update"
  BY DEF TypeOK, Transaction, UpdateRequestCommit
<1>2. requests[t.request] = t.old /\ t.old \in RequestRow
  BY <1>1 DEF SellsOnce, MeansToSell, TypeOK
<1>3. FlushRequest(t.old, t.old, t.new) = t.new
  BY <1>1, <1>2 DEF FlushRequest, Dirty, RequestRow
<1>4. QED  BY <1>1, <1>2, <1>3 DEF UpdateRequestCommit, TypeOK

LEMMA NextSellsOnce ==
  ASSUME TypeOK, SellsOnce, Intentions, Sequential, ClosesKeepLink, Next
  PROVE  SellsOnce'
<1>1. requests' = requests => AppliedIsPurchased'
  BY DEF SellsOnce, AppliedIsPurchased, ClosesAsPurchased
<1>2. ASSUME NEW s \in Sessions, CreateRequestCommit(s)
      PROVE  SellsOnce'
  <2>1. tx[s].request \in Requests /\ ~tx[s].new.applied /\ Finish(s)
    BY <1>2 DEF TypeOK, CreateRequestCommit, Intentions, CreatesAlone
  <2>2. AppliedIsPurchased'
    BY <1>2, <2>1
    DEF CreateRequestCommit, TypeOK, SellsOnce, AppliedIsPurchased, ClosesAsPurchased
  <2>3. QED  BY <2>1, <2>2, FinishSellsOnce
<1>3. ASSUME NEW s \in Sessions, UpdateRequestCommit(s)
      PROVE  SellsOnce'
  <2>1. tx[s].new.applied => ClosesAsPurchased(tx[s].new)
    BY <1>3 DEF SellsOnce, MeansToSell, UpdateRequestCommit
  <2>2. AppliedIsPurchased'
    BY <1>3, <2>1, CommitWritesNew DEF SellsOnce, AppliedIsPurchased, ClosesAsPurchased
  <2>3. QED  BY <1>3, <2>2, FinishSellsOnce DEF UpdateRequestCommit
<1>4. ASSUME NEW s \in Sessions, EditBlockCommit(s)
      PROVE  SellsOnce'
  BY <1>1, <1>4, FinishSellsOnce DEF EditBlockCommit
<1>5. ASSUME NEW s \in Sessions, DeleteBlockCommit(s)
      PROVE  SellsOnce'
  <2>1. \A r \in Requests : /\ requests'[r].applied = requests[r].applied
                            /\ requests'[r].status = requests[r].status
                            /\ requests'[r].reason = requests[r].reason
    BY <1>5 DEF DeleteBlockCommit, TypeOK, RequestRow
  <2>2. AppliedIsPurchased'
    BY <2>1 DEF SellsOnce, AppliedIsPurchased, ClosesAsPurchased
  <2>3. QED  BY <1>5, <2>2, FinishSellsOnce DEF DeleteBlockCommit
<1>6. ASSUME NEW s \in Sessions, Rollback(s)
      PROVE  SellsOnce'
  BY <1>1, <1>6, FinishSellsOnce DEF Rollback
<1>7. ASSUME NEW s \in Sessions, NEW i \in Inventories, ReserveInventory(s, i)
      PROVE  SellsOnce'
  <2>1. UNCHANGED <<requests, bookings>>
    BY <1>7 DEF ReserveInventory
  <2>2. ASSUME NEW q \in Sessions
        PROVE  /\ tx'[q].op = tx[q].op /\ tx'[q].request = tx[q].request
               /\ tx'[q].demand = tx[q].demand /\ tx'[q].block = tx[q].block
               /\ tx'[q].old = tx[q].old /\ tx'[q].new = tx[q].new
               /\ tx'[q].unlink = tx[q].unlink
    BY <1>7 DEF ReserveInventory, TypeOK, Transaction
  <2>3. ASSUME NEW q \in Sessions
        PROVE  MeansToSell(tx[q])' /\ DeletesUnbooked(tx[q])'
    BY <2>1, <2>2 DEF SellsOnce, MeansToSell, DeletesUnbooked, ClosesAsPurchased, Increments
  <2>4. QED  BY <1>1, <2>1, <2>3 DEF SellsOnce
<1>8. ASSUME NEW s \in Sessions, Advance(s) \/ Disconnect(s)
      PROVE  SellsOnce'
  BY <1>2, <1>3, <1>4, <1>5, <1>6, <1>7, <1>8
  DEF Advance, Disconnect, LockWaitAborted, RowGone, ReserveRefused
<1>9. ASSUME NEW i \in Inventories, NEW b \in NewBlocks, CreateBlock(i, b)
      PROVE  SellsOnce'
  <2>1. UNCHANGED <<requests, bookings, tx>>
    BY <1>9 DEF CreateBlock
  <2>2. QED  BY <1>1, <2>1 DEF SellsOnce, MeansToSell, DeletesUnbooked, ClosesAsPurchased, Increments
<1>10. QED  BY <1>8, <1>9, BeginSellsOnce DEF Next

-----------------------------------------------------------------------------

SoldOf(i) == [r \in Requests |-> Sold(r, i)]

\* The count of a present inventory is the number of cabins sold on it.
Balanced(i) ==
    Live(i) =>
        /\ IsFiniteSet(Cabins(SoldOf(i)))
        /\ blocks[i].reserved = Cardinality(Cabins(SoldOf(i)))

LEMMA SoldType ==
  ASSUME TypeOK, NEW i \in Inventories
  PROVE  SoldOf(i) \in [Requests -> Nat]
<1> SUFFICES ASSUME NEW r \in Requests
             PROVE  Sold(r, i) \in Nat
  BY DEF SoldOf
<1>1. requests[r].needed \in 1..MaxCabins /\ bookings[r] \in Demand
  BY DEF TypeOK, RequestRow
<1>2. Increments(requests[r], bookings[r]) \in Demand
  BY <1>1, IncrementsType
<1>3. QED  BY <1>2, SentinelAssumption DEF Sold, Demand

\* Neither the count nor what is sold changes.
LEMMA BalanceKept ==
  ASSUME NEW i \in Inventories, Balanced(i), SoldOf(i)' = SoldOf(i),
         Live(i)' => Live(i) /\ blocks'[i].reserved = blocks[i].reserved
  PROVE  Balanced(i)'
<1> DEFINE g == SoldOf(i)'
<1>1. Live(i)' => IsFiniteSet(Cabins(g)) /\ blocks'[i].reserved = Cardinality(Cabins(g))
  BY DEF Balanced
<1>2. QED  BY <1>1 DEF Balanced, SoldOf, Sold, Cabins

LEMMA CommitBalances ==
  ASSUME TypeOK, TypeOK', LocksProtectReads, SellsOnce, NEW s \in Sessions,
         UpdateRequestCommit(s), NEW i \in Inventories, Balanced(i)
  PROVE  Balanced(i)'
<1> DEFINE t == tx[s]
           r == t.request
           f == SoldOf(i)
           g == SoldOf(i)'
<1>1. r \in Requests /\ requests'[r] = t.new /\ bookings' = bookings
  BY CommitWritesNew DEF UpdateRequestCommit
<1>2. f \in [Requests -> Nat]
  BY SoldType
<1>3. \A q \in Requests \ {r} : g[q] = f[q]
  BY <1>1, CommitWritesNew DEF SoldOf, Sold, Increments
<1>4. t \in Transaction /\ t.op = "update" /\ t.demand \in Demand
  BY DEF TypeOK, Transaction, UpdateRequestCommit
<1>5. t.demand[i] \in Nat
  BY <1>4, SentinelAssumption DEF Demand
<1>6. f[r] = 0
  BY <1>1, <1>4 DEF SellsOnce, MeansToSell, SoldOf, Sold
<1>7. g[r] = t.demand[i]
  <2>1. MeansToSell(t)
    BY DEF SellsOnce
  <2>2. g[r] = IF t.new.applied THEN Increments(t.new, bookings[r])[i] ELSE 0
    BY <1>1 DEF SoldOf, Sold, Increments
  <2>3. CASE t.new.applied
    BY <1>4, <2>1, <2>2, <2>3 DEF MeansToSell
  <2>4. CASE ~t.new.applied
    <3>1. Demanded(t.demand) = {}
      BY <1>4, <2>1, <2>4 DEF MeansToSell
    <3>2. t.demand[i] = 0
      BY <1>5, <3>1 DEF Demanded
    <3>3. QED  BY <2>2, <2>4, <3>2
  <2>5. QED  BY <2>3, <2>4
<1>8. g \in [Requests -> Nat]
  <2>1. g = [q \in Requests |-> g[q]]
    BY DEF SoldOf
  <2>2. \A q \in Requests : g[q] \in Nat
    BY <1>2, <1>3, <1>5, <1>7
  <2> HIDE DEF g
  <2>3. QED  BY <2>1, <2>2
<1>9. Live(i)' <=> Live(i)
  BY CommitPhases DEF Live
<1>10. Live(i) => blocks'[i].reserved = blocks[i].reserved + t.demand[i]
  <2>1. blocks[i] \in BlockRow
    BY DEF TypeOK
  <2>2. i \in t.held <=> t.demand[i] > 0
    BY <1>4 DEF LocksProtectReads, UpdateRequestCommit, Unreserved, Demanded
  <2>3. CASE i \in t.held
    <3>1. t.read[i] = blocks[i].reserved
      BY <2>3 DEF LocksProtectReads
    <3>2. QED  BY <2>1, <2>3, <3>1 DEF UpdateRequestCommit, BlockRow
  <2>4. CASE i \notin t.held
    BY <1>5, <2>1, <2>2, <2>4 DEF UpdateRequestCommit, BlockRow
  <2>5. QED  BY <2>3, <2>4
<1>11. ASSUME Live(i)
       PROVE  /\ IsFiniteSet(Cabins(g))
              /\ blocks'[i].reserved = Cardinality(Cabins(g))
  <2>1. IsFiniteSet(Cabins(f)) /\ blocks[i].reserved = Cardinality(Cabins(f))
    BY <1>11 DEF Balanced
  <2>2. /\ IsFiniteSet(Cabins(g))
        /\ Cardinality(Cabins(g)) = Cardinality(Cabins(f)) + g[r]
    <3> HIDE DEF f, g, r
    <3> QED  BY <1>1, <1>2, <1>3, <1>6, <1>8, <2>1, CabinsAdd
  <2> HIDE DEF f, g
  <2>3. QED  BY <1>7, <1>10, <1>11, <2>1, <2>2
<1>12. QED  BY <1>9, <1>11 DEF Balanced, SoldOf, Sold, Cabins

LEMMA CreateBalances ==
  ASSUME TypeOK, References, NothingReservedYet, NEW j \in Inventories, NEW b \in NewBlocks,
         CreateBlock(j, b), NEW i \in Inventories, Balanced(i)
  PROVE  Balanced(i)'
<1>1. UNCHANGED <<requests, bookings>>
  BY DEF CreateBlock
<1>2. CASE i = j
  <2>1. ~Live(i)
    BY <1>2 DEF CreateBlock, Live
  <2>2. ASSUME NEW r \in Requests
        PROVE  Sold(r, i) = 0
    <3>1. bookings[r][i] \in Nat /\ ~(bookings[r][i] > 0) /\ requests[r].link # i
      BY <2>1, SentinelAssumption DEF References, Refers, TypeOK, Demand
    <3>2. Increments(requests[r], bookings[r])[i] = 0
      BY <3>1 DEF Increments
    <3>3. QED  BY <3>2 DEF Sold
  <2> DEFINE g == SoldOf(i)
  <2>3. \A r \in Requests : g[r] = 0
    BY <2>2 DEF SoldOf
  <2>4. IsFiniteSet(Cabins(g)) /\ Cardinality(Cabins(g)) = 0
    <3> HIDE DEF g
    <3> QED  BY <2>3, CabinsNone
  <2>5. blocks'[i].reserved = 0
    BY <1>2 DEF CreateBlock, NothingReservedYet, TypeOK
  <2>6. QED  BY <1>1, <2>4, <2>5 DEF Balanced, SoldOf, Sold, Increments, Cabins
<1>3. CASE i # j
  <2>1. blocks'[i] = blocks[i] /\ SoldOf(i)' = SoldOf(i)
    BY <1>1, <1>3 DEF CreateBlock, TypeOK, SoldOf, Sold, Increments
  <2>2. QED  BY <2>1, BalanceKept DEF Live
<1>4. QED  BY <1>2, <1>3

\* The deletion of an inventory that nobody booked takes nothing from the others.
LEMMA DeleteBalances ==
  ASSUME TypeOK, SellsOnce, NEW s \in Sessions, DeleteBlockCommit(s),
         NEW i \in Inventories, Balanced(i)
  PROVE  Balanced(i)'
<1> DEFINE j == tx[s].block
<1>1. /\ j \in Inventories
      /\ \A r \in Requests : bookings[r][j] = 0
      /\ \A r \in tx[s].unlink : requests[r].link = j
  BY DEF TypeOK, DeleteBlockCommit, SellsOnce, DeletesUnbooked
<1>2. CASE i = j
  <2>1. ~Live(i)'
    BY <1>2, CommitPhases DEF Live, TypeOK, BlockRow
  <2>2. QED  BY <2>1 DEF Balanced
<1>3. CASE i # j
  <2>1. bookings' = bookings
    <3>1. ASSUME NEW r \in Requests
          PROVE  [bookings[r] EXCEPT ![j] = 0] = bookings[r]
      BY <1>1 DEF TypeOK, Demand
    <3>2. QED  BY <3>1 DEF DeleteBlockCommit, TypeOK
  <2>2. ASSUME NEW r \in Requests
        PROVE  Sold(r, i)' = Sold(r, i)
    <3>1. requests[r] \in RequestRow
      BY DEF TypeOK
    <3>2. /\ requests'[r].applied = requests[r].applied
          /\ requests'[r].needed = requests[r].needed
          /\ \/ requests'[r].link = requests[r].link
             \/ requests'[r].link = NoInventory /\ requests[r].link = j
      BY <1>1, <3>1 DEF DeleteBlockCommit, RequestRow
    <3>3. QED  BY <1>3, <2>1, <3>2, SentinelAssumption DEF Sold, Increments
  <2>3. SoldOf(i)' = SoldOf(i)
    BY <2>2 DEF SoldOf
  <2>4. Live(i)' => Live(i) /\ blocks'[i].reserved = blocks[i].reserved
    BY <1>3, CommitPhases DEF Live
  <2>5. QED  BY <2>3, <2>4, BalanceKept
<1>4. QED  BY <1>2, <1>3

LEMMA NextBalances ==
  ASSUME TypeOK, TypeOK', LocksProtectReads, Intentions, References, SellsOnce, CountsAreKept,
         NothingReservedYet, Next, NEW i \in Inventories, Balanced(i)
  PROVE  Balanced(i)'
<1>1. UNCHANGED <<requests, bookings, blocks>> => Balanced(i)'
  BY DEF Balanced, Live, SoldOf, Sold, Increments, Cabins
<1>2. ASSUME NEW s \in Sessions, CreateRequestCommit(s)
      PROVE  Balanced(i)'
  <2> DEFINE p == tx[s].request
  <2>1. /\ p \in Requests /\ blocks' = blocks
        /\ requests[p].status = "Unborn" /\ ~tx[s].new.applied
    BY <1>2 DEF TypeOK, CreateRequestCommit, Intentions, CreatesAlone
  <2>2. ~requests[p].applied
    BY <2>1 DEF SellsOnce, AppliedIsPurchased, ClosesAsPurchased
  <2>3. \A r \in Requests :
          IF r = p THEN ~requests'[r].applied
          ELSE requests'[r] = requests[r] /\ bookings'[r] = bookings[r]
    BY <1>2, <2>1 DEF CreateRequestCommit, TypeOK
  <2>4. ASSUME NEW r \in Requests
        PROVE  Sold(r, i)' = Sold(r, i)
    BY <2>2, <2>3 DEF Sold, Increments
  <2>5. SoldOf(i)' = SoldOf(i)
    BY <2>4 DEF SoldOf
  <2>6. Live(i)' => Live(i) /\ blocks'[i].reserved = blocks[i].reserved
    BY <2>1 DEF Live
  <2>7. QED  BY <2>5, <2>6, BalanceKept
<1>3. ASSUME NEW s \in Sessions, EditBlockCommit(s)
      PROVE  Balanced(i)'
  <2>1. blocks'[i].phase = blocks[i].phase /\ blocks'[i].reserved = blocks[i].reserved
    BY <1>3 DEF EditBlockCommit, TypeOK, FlushBlock, Dirty, CountsAreKept, CountKept
  <2>2. SoldOf(i)' = SoldOf(i)
    BY <1>3 DEF EditBlockCommit, SoldOf, Sold, Increments
  <2>3. QED  BY <2>1, <2>2, BalanceKept DEF Live
<1>4. ASSUME NEW s \in Sessions, Advance(s) \/ Disconnect(s)
      PROVE  Balanced(i)'
  BY <1>1, <1>2, <1>3, <1>4, CommitBalances, DeleteBalances
  DEF Advance, Disconnect, LockWaitAborted, RowGone, ReserveRefused, ReserveInventory, Rollback
<1>5. QED
  BY <1>1, <1>4, CreateBalances
  DEF Next, CreateRequestBegin, UpdateRequestBegin, ReopenRequestBegin, EditBlockBegin,
      DeleteBlockBegin, Start

LEMMA SellsOnceInvariant ==
  ASSUME Sequential, ClosesKeepLink
  PROVE  Spec => []SellsOnce
<1>1. Init => SellsOnce
  BY DEF Init, SellsOnce, AppliedIsPurchased, MeansToSell, DeletesUnbooked, Idle, UnbornRequest
<1>2. TypeOK /\ Intentions /\ SellsOnce /\ [Next]_vars => SellsOnce'
  <2>1. ASSUME SellsOnce, UNCHANGED vars
        PROVE  SellsOnce'
    BY <2>1 DEF vars, SellsOnce, AppliedIsPurchased, MeansToSell, DeletesUnbooked,
                ClosesAsPurchased, Increments
  <2>2. QED  BY <2>1, NextSellsOnce
<1>3. QED  BY <1>1, <1>2, TypeCorrect, IntentionsInvariant, PTL DEF Spec

AllBalanced == \A i \in Inventories : Balanced(i)

\* Nothing is sold twice and nothing is forgotten: where handlers do not overlap
\* and staff edits no counts, cabins_reserved of a present inventory is exactly
\* the cabins of the requests closed as purchased, through any sequence of
\* creations, updates, reopenings, edits, deletions and failed handlers.
THEOREM SerialCountsWhatIsSold ==
  ASSUME Sequential, CountsNotEdited, NothingReservedYet, ClosesKeepLink
  PROVE  Spec => []ReservedIsSold
<1>1. Init => AllBalanced
  BY DEF Init, AllBalanced, Balanced, Live, UnbornBlock
<1>2. /\ TypeOK /\ TypeOK' /\ LocksProtectReads /\ Intentions /\ References /\ CountsAreKept
      /\ SellsOnce /\ AllBalanced /\ [Next]_vars
      => AllBalanced'
  <2>1. ASSUME AllBalanced, UNCHANGED vars
        PROVE  AllBalanced'
    <3>1. ASSUME NEW i \in Inventories
          PROVE  SoldOf(i)' = SoldOf(i) /\ Live(i)' = Live(i) /\ blocks'[i] = blocks[i]
      BY <2>1 DEF vars, SoldOf, Sold, Increments, Live
    <3>2. ASSUME NEW i \in Inventories
          PROVE  Balanced(i)'
      BY <2>1, <3>1, BalanceKept DEF AllBalanced
    <3>3. QED  BY <3>2 DEF AllBalanced
  <2>2. QED  BY <2>1, NextBalances DEF AllBalanced
<1>3. AllBalanced => ReservedIsSold
  BY DEF AllBalanced, Balanced, SoldOf, ReservedIsSold
<1>4. QED
  BY <1>1, <1>2, <1>3, TypeCorrect, ReadsProtected, IntentionsInvariant, ReferencesInvariant,
     CountsInvariant, SellsOnceInvariant, PTL
  DEF Spec
================================================================================
