------------------------ MODULE GroupReservationProofs ------------------------
(***************************************************************************)
(* Proofs about GroupReservation for any number of sessions, requests and  *)
(* inventories and any payloads.                                           *)
(***************************************************************************)
EXTENDS GroupReservation, TLAPS

LEMMA IdleType == Idle \in Transaction
  BY SentinelAssumption
  DEF Idle, Transaction, Ops, UnbornRequest, UnbornBlock, NoDemand, RequestRow, BlockRow,
      Demand, Links, Reasons, NoReason

LEMMA UpdateType ==
  ASSUME NEW row \in RequestRow, NEW u \in RequestUpdate
  PROVE  AppliedUpdate(row, u) \in RequestRow
  BY DEF AppliedUpdate, Given, RequestRow, RequestUpdate, Reasons, Links

LEMMA FlushRequestType ==
  ASSUME NEW row \in RequestRow, NEW old \in RequestRow, NEW new \in RequestRow
  PROVE  FlushRequest(row, old, new) \in RequestRow
  BY DEF FlushRequest, Dirty, RequestRow

LEMMA FlushBlockType ==
  ASSUME NEW row \in BlockRow, NEW old \in BlockRow, NEW new \in BlockRow
  PROVE  FlushBlock(row, old, new) \in BlockRow
  BY DEF FlushBlock, Dirty, BlockRow

LEMMA IncrementsType ==
  ASSUME NEW row, row.needed \in 1..MaxCabins, NEW booked \in Demand
  PROVE  Increments(row, booked) \in Demand
  BY SentinelAssumption DEF Increments, Demand, Demanded

LEMMA NoDemandType == NoDemand \in Demand
  BY SentinelAssumption DEF NoDemand, Demand

-----------------------------------------------------------------------------
(* What the steps that start or end a handler do to the types.               *)

LEMMA StartType ==
  ASSUME TypeOK, NEW s \in Sessions, NEW t \in Transaction, Start(s, t),
         t.op \in {"create", "update"} => t.request \in Requests,
         t.op \in {"edit", "delete"} => t.block \in Inventories
  PROVE  TypeOK'
  BY DEF TypeOK, Start

\* Rows of the next state that have their types give TypeOK' once s finishes.
LEMMA FinishType ==
  ASSUME TypeOK, NEW s \in Sessions, Finish(s),
         requests' \in [Requests -> RequestRow],
         bookings' \in [Requests -> Demand],
         blocks' \in [Inventories -> BlockRow]
  PROVE  TypeOK'
<1>1. tx' \in [Sessions -> Transaction]
  BY IdleType DEF TypeOK, Finish
<1>2. lock' \in [Inventories -> Sessions \cup {NoSession}]
  BY DEF TypeOK, Finish
<1>3. ASSUME NEW q \in Sessions
      PROVE  /\ tx'[q].op \in {"create", "update"} => tx'[q].request \in Requests
             /\ tx'[q].op \in {"edit", "delete"} => tx'[q].block \in Inventories
  <2>1. CASE q = s
    BY <2>1 DEF TypeOK, Finish, Idle
  <2>2. CASE q # s
    BY <2>2 DEF TypeOK, Finish
  <2>3. QED  BY <2>1, <2>2
<1>4. QED  BY <1>1, <1>2, <1>3 DEF TypeOK

LEMMA RollbackType ==
  ASSUME TypeOK, NEW s \in Sessions, Rollback(s)
  PROVE  TypeOK'
  BY FinishType DEF TypeOK, Rollback

-----------------------------------------------------------------------------
(* TypeOK is inductive: one lemma per action that writes something typed.    *)

LEMMA CreateRequestBeginType ==
  ASSUME TypeOK, NEW s \in Sessions, NEW r \in Requests, NEW p \in Intakes,
         CreateRequestBegin(s, r, p)
  PROVE  TypeOK'
<1> DEFINE demand == IntakeDemand(p)
<1>1. p \in Intake
  BY PayloadAssumption
<1>2. demand \in Demand
  BY <1>1, IncrementsType, NoDemandType DEF IntakeDemand, Intake
<1>3. PICK link \in (IF Demanded(demand) = {} THEN {NoInventory} ELSE Demanded(demand)),
           needed \in 1..MaxCabins :
        Start(s, [Idle EXCEPT
                    !.op = "create", !.request = r, !.demand = demand,
                    !.new = [status |-> "Open", reason |-> NoReason, applied |-> FALSE,
                             grouped |-> p.grouped, link |-> link, needed |-> needed]])
  BY DEF CreateRequestBegin
<1> DEFINE row == [status |-> "Open", reason |-> NoReason, applied |-> FALSE,
                   grouped |-> p.grouped, link |-> link, needed |-> needed]
           t == [Idle EXCEPT !.op = "create", !.request = r, !.demand = demand, !.new = row]
<1>4. link \in Links
  BY <1>3 DEF Links, Demanded
<1>5. row \in RequestRow
  BY <1>1, <1>3, <1>4 DEF RequestRow, Reasons, Intake
<1>6. t \in Transaction /\ t.op = "create" /\ t.request = r
  <2> HIDE DEF row, demand
  <2> QED  BY <1>2, <1>5, IdleType DEF Transaction, Ops, Idle
<1>7. Start(s, t)
  BY <1>3
<1>8. QED
  <2> HIDE DEF t
  <2> QED  BY <1>6, <1>7, StartType

LEMMA UpdateRequestBeginType ==
  ASSUME TypeOK, NEW s \in Sessions, NEW r \in Requests, NEW u \in RequestUpdates,
         UpdateRequestBegin(s, r, u)
  PROVE  TypeOK'
<1> DEFINE old == requests[r]
           new == AppliedUpdate(old, u)
           demand == IF ClosesAsPurchased(new) /\ ~old.applied
                     THEN Increments(old, bookings[r]) ELSE NoDemand
           row == [new EXCEPT !.applied = old.applied \/ Demanded(demand) # {}]
           t == [Idle EXCEPT !.op = "update", !.request = r, !.old = old,
                             !.demand = demand, !.new = row]
<1>1. old \in RequestRow /\ bookings[r] \in Demand
  BY DEF TypeOK
<1>2. new \in RequestRow
  BY <1>1, UpdateType, PayloadAssumption
<1>3. demand \in Demand
  <2>1. old.needed \in 1..MaxCabins
    BY <1>1 DEF RequestRow
  <2>2. QED  BY <1>1, <2>1, IncrementsType, NoDemandType
<1>4. old.applied \in BOOLEAN
  BY <1>1 DEF RequestRow
<1>5. row \in RequestRow
  <2> HIDE DEF new, old, demand
  <2> QED  BY <1>2, <1>4 DEF RequestRow
<1>6. t \in Transaction /\ t.op = "update" /\ t.request = r
  <2> HIDE DEF row, old, demand
  <2> QED  BY <1>1, <1>3, <1>5, IdleType DEF Transaction, Ops, Idle
<1>7. Start(s, t)
  BY DEF UpdateRequestBegin
<1>8. QED
  <2> HIDE DEF t
  <2> QED  BY <1>6, <1>7, StartType

LEMMA ReopenRequestBeginType ==
  ASSUME TypeOK, NEW s \in Sessions, NEW r \in Requests, ReopenRequestBegin(s, r)
  PROVE  TypeOK'
<1> DEFINE row == [requests[r] EXCEPT !.status = "Open", !.reason = NoReason]
           t == [Idle EXCEPT !.op = "update", !.request = r, !.old = requests[r], !.new = row]
<1>1. requests[r] \in RequestRow
  BY DEF TypeOK
<1>2. row \in RequestRow
  BY <1>1 DEF RequestRow, Reasons
<1>3. t \in Transaction /\ t.op = "update" /\ t.request = r
  <2> HIDE DEF row
  <2> QED  BY <1>1, <1>2, IdleType DEF Transaction, Ops, Idle
<1>4. Start(s, t)
  BY DEF ReopenRequestBegin
<1>5. QED
  <2> HIDE DEF t
  <2> QED  BY <1>3, <1>4, StartType

LEMMA ReserveInventoryType ==
  ASSUME TypeOK, NEW s \in Sessions, NEW i \in Inventories, ReserveInventory(s, i)
  PROVE  TypeOK'
<1>1. tx[s] \in Transaction /\ blocks[i] \in BlockRow
  BY DEF TypeOK
<1> DEFINE t == [tx[s] EXCEPT !.held = @ \cup {i}, !.read[i] = blocks[i].reserved]
<1>2. t \in Transaction
  BY <1>1 DEF Transaction, BlockRow
<1>3. t.op = tx[s].op /\ t.request = tx[s].request /\ t.block = tx[s].block
  BY <1>1 DEF Transaction
<1>4. tx' = [tx EXCEPT ![s] = t]
  BY <1>1 DEF ReserveInventory
<1>5. QED
  <2> HIDE DEF t
  <2> QED  BY <1>2, <1>3, <1>4 DEF TypeOK, ReserveInventory

LEMMA CommitType ==
  ASSUME TypeOK, NEW s \in Sessions,
         CreateRequestCommit(s) \/ UpdateRequestCommit(s) \/ EditBlockCommit(s)
           \/ DeleteBlockCommit(s)
  PROVE  TypeOK'
<1> DEFINE t == tx[s]
<1>0. t \in Transaction
  BY DEF TypeOK
<1>1. CASE CreateRequestCommit(s)
  <2>1. t.new \in RequestRow /\ t.demand \in Demand
    BY <1>0 DEF Transaction
  <2>2. requests' \in [Requests -> RequestRow] /\ bookings' \in [Requests -> Demand]
    BY <1>1, <2>1 DEF TypeOK, CreateRequestCommit
  <2>3. QED  BY <1>1, <2>2, FinishType DEF TypeOK, CreateRequestCommit
<1>2. CASE UpdateRequestCommit(s)
  <2>1. t.old \in RequestRow /\ t.new \in RequestRow /\ t.request \in Requests
    BY <1>0, <1>2 DEF Transaction, TypeOK, UpdateRequestCommit
  <2>2. requests[t.request] \in RequestRow
    BY <2>1 DEF TypeOK
  <2>3. requests' = [requests EXCEPT ![t.request] =
                       FlushRequest(requests[t.request], t.old, t.new)]
    BY <1>2, <2>1 DEF UpdateRequestCommit, TypeOK
  <2>4. requests' \in [Requests -> RequestRow]
    BY <2>1, <2>2, <2>3, FlushRequestType DEF TypeOK
  <2>5. blocks' \in [Inventories -> BlockRow]
    <3>1. ASSUME NEW i \in Inventories
          PROVE  [blocks[i] EXCEPT !.reserved = t.read[i] + t.demand[i]] \in BlockRow
      <4>1. t.read[i] \in Nat /\ t.demand[i] \in Nat /\ blocks[i] \in BlockRow
        BY <1>0, SentinelAssumption DEF Transaction, Demand, TypeOK
      <4>2. t.read[i] + t.demand[i] \in Nat
        BY <4>1
      <4>3. QED  BY <4>1, <4>2 DEF BlockRow
    <3>2. QED  BY <1>2, <3>1 DEF UpdateRequestCommit, TypeOK
  <2>6. QED  BY <1>2, <2>4, <2>5, FinishType DEF TypeOK, UpdateRequestCommit
<1>3. CASE EditBlockCommit(s)
  <2>1. t.oldBlock \in BlockRow /\ t.newBlock \in BlockRow /\ t.block \in Inventories
    BY <1>0, <1>3 DEF Transaction, TypeOK, EditBlockCommit
  <2>2. blocks' = [blocks EXCEPT ![t.block] =
                     FlushBlock(blocks[t.block], t.oldBlock, t.newBlock)]
    BY <1>3, <2>1 DEF EditBlockCommit, TypeOK
  <2>3. blocks' \in [Inventories -> BlockRow]
    BY <2>1, <2>2, FlushBlockType DEF TypeOK
  <2>4. QED  BY <1>3, <2>3, FinishType DEF TypeOK, EditBlockCommit
<1>4. CASE DeleteBlockCommit(s)
  <2>1. t.block \in Inventories
    BY <1>4 DEF TypeOK, DeleteBlockCommit
  <2>2. blocks' \in [Inventories -> BlockRow]
    BY <1>4, <2>1 DEF TypeOK, DeleteBlockCommit, BlockRow
  <2>3. requests' \in [Requests -> RequestRow]
    BY <1>4 DEF TypeOK, DeleteBlockCommit, RequestRow, Links
  <2>4. bookings' \in [Requests -> Demand]
    BY <1>4, <2>1, SentinelAssumption DEF TypeOK, DeleteBlockCommit, Demand
  <2>5. QED  BY <1>4, <2>2, <2>3, <2>4, FinishType DEF DeleteBlockCommit
<1>5. QED  BY <1>1, <1>2, <1>3, <1>4

LEMMA StaffType ==
  ASSUME TypeOK, NEW i \in Inventories,
         \/ \E b \in NewBlocks : CreateBlock(i, b)
         \/ \E s \in Sessions, e \in InventoryEdits : EditBlockBegin(s, i, e)
         \/ \E s \in Sessions : DeleteBlockBegin(s, i)
  PROVE  TypeOK'
<1>1. CASE \E b \in NewBlocks : CreateBlock(i, b)
  BY <1>1, PayloadAssumption DEF TypeOK, CreateBlock, NewBlock, BlockRow
<1>2. ASSUME NEW s \in Sessions, NEW e \in InventoryEdits, EditBlockBegin(s, i, e)
      PROVE  TypeOK'
  <2> DEFINE row == [blocks[i] EXCEPT !.allocated = Given(e.allocated, @),
                                      !.reserved = Given(e.reserved, @)]
             t == [Idle EXCEPT !.op = "edit", !.block = i, !.oldBlock = blocks[i],
                               !.newBlock = row]
  <2>1. blocks[i] \in BlockRow
    BY DEF TypeOK
  <2>2. row \in BlockRow
    BY <2>1, PayloadAssumption DEF BlockRow, Given, InventoryEdit
  <2>3. t \in Transaction /\ t.op = "edit" /\ t.block = i
    <3> HIDE DEF row
    <3> QED  BY <2>1, <2>2, IdleType DEF Transaction, Ops, Idle, Links
  <2>4. Start(s, t)
    BY <1>2 DEF EditBlockBegin
  <2>5. QED
    <3> HIDE DEF t
    <3> QED  BY <2>3, <2>4, StartType
<1>3. ASSUME NEW s \in Sessions, DeleteBlockBegin(s, i)
      PROVE  TypeOK'
  <2> DEFINE t == [Idle EXCEPT !.op = "delete", !.block = i,
                               !.unlink = {r \in Requests : requests[r].link = i}]
  <2>1. t \in Transaction /\ t.op = "delete" /\ t.block = i
    BY IdleType DEF Transaction, Ops, Idle, Links
  <2>2. Start(s, t)
    BY <1>3 DEF DeleteBlockBegin
  <2>3. QED
    <3> HIDE DEF t
    <3> QED  BY <2>1, <2>2, StartType
<1>4. QED  BY <1>1, <1>2, <1>3

LEMMA NextType ==
  ASSUME TypeOK, Next
  PROVE  TypeOK'
<1>1. ASSUME NEW s \in Sessions, Advance(s) \/ Disconnect(s)
      PROVE  TypeOK'
  BY <1>1, ReserveInventoryType, RollbackType, CommitType
  DEF Advance, Disconnect, LockWaitAborted, RowGone, ReserveRefused
<1>2. QED
  BY <1>1, CreateRequestBeginType, UpdateRequestBeginType, ReopenRequestBeginType, StaffType
  DEF Next

\* Every reachable state has the types of TypeOK.
THEOREM TypeCorrect == Spec => []TypeOK
<1>1. Init => TypeOK
  <2>1. UnbornRequest \in RequestRow /\ UnbornBlock \in BlockRow
    BY SentinelAssumption
    DEF UnbornRequest, UnbornBlock, RequestRow, BlockRow, Reasons, Links, NoReason
  <2>2. Idle.op = "idle"
    BY DEF Idle
  <2>3. QED  BY <2>1, <2>2, IdleType, NoDemandType DEF Init, TypeOK
<1>2. TypeOK /\ [Next]_vars => TypeOK'
  <2>1. ASSUME TypeOK, UNCHANGED vars
        PROVE  TypeOK'
    BY <2>1 DEF TypeOK, vars
  <2>2. QED  BY <2>1, NextType
<1>3. QED  BY <1>1, <1>2, PTL DEF Spec

-----------------------------------------------------------------------------
(* The row locks protect what was read under them.                           *)

Held(s, i) ==
    /\ i \in tx[s].held <=> lock[i] = s
    /\ i \in tx[s].held =>
         /\ tx[s].op = "update"
         /\ Live(i)
         /\ tx[s].demand[i] > 0
         /\ tx[s].read[i] = blocks[i].reserved
         /\ blocks[i].reserved + tx[s].demand[i] <= blocks[i].allocated

LEMMA HeldDef == LocksProtectReads <=> \A s \in Sessions : \A i \in Inventories : Held(s, i)
  BY DEF LocksProtectReads, Held

\* What the other lemmas use of a handler's first step.
Opens(s) ==
    /\ tx[s] = Idle
    /\ tx'[s].held = {}
    /\ \A q \in Sessions : q # s => tx'[q] = tx[q]
    /\ UNCHANGED <<blocks, lock>>

LEMMA StartOpens ==
  ASSUME TypeOK, NEW s \in Sessions, NEW t, Start(s, t), t.held = {}
  PROVE  Opens(s)
  BY DEF TypeOK, Start, Opens

\* A handler that starts holds no lock, and none is taken from another.
LEMMA OpenKeepsLocks ==
  ASSUME LocksProtectReads, NEW s \in Sessions, Opens(s)
  PROVE  LocksProtectReads'
<1> SUFFICES ASSUME NEW q \in Sessions, NEW i \in Inventories
             PROVE  Held(q, i)'
  BY DEF LocksProtectReads, Held
<1>1. Held(q, i)
  BY HeldDef
<1>2. tx[s].held = {}
  BY DEF Opens, Idle
<1>3. CASE q = s
  BY <1>1, <1>2, <1>3 DEF Held, Opens
<1>4. CASE q # s
  BY <1>1, <1>4 DEF Held, Opens, Live
<1>5. QED  BY <1>3, <1>4

\* A session that ends may change only inventories no other session holds.
LEMMA FinishKeepsLocks ==
  ASSUME TypeOK, LocksProtectReads, NEW s \in Sessions, Finish(s),
         \A i \in Inventories : lock[i] \notin {NoSession, s} => blocks'[i] = blocks[i]
  PROVE  LocksProtectReads'
<1> SUFFICES ASSUME NEW q \in Sessions, NEW i \in Inventories
             PROVE  Held(q, i)'
  BY DEF LocksProtectReads, Held
<1>1. Held(q, i)
  BY HeldDef
<1>2. q # NoSession /\ s # NoSession
  BY SentinelAssumption
<1>3. CASE q = s
  <2>1. tx'[q].held = {}
    BY <1>3 DEF Finish, TypeOK, Idle
  <2>2. lock'[i] # q
    BY <1>2, <1>3 DEF Finish
  <2>3. QED  BY <2>1, <2>2 DEF Held
<1>4. CASE q # s
  <2>1. tx'[q] = tx[q]
    BY <1>4 DEF Finish, TypeOK
  <2>2. lock'[i] = q <=> lock[i] = q
    BY <1>2, <1>4 DEF Finish
  <2>3. lock[i] = q => blocks'[i] = blocks[i]
    BY <1>2, <1>4
  <2>4. QED  BY <1>1, <2>1, <2>2, <2>3 DEF Held, Live
<1>5. QED  BY <1>3, <1>4

LEMMA ReserveKeepsLocks ==
  ASSUME TypeOK, LocksProtectReads, NEW s \in Sessions, NEW j \in Inventories,
         ReserveInventory(s, j)
  PROVE  LocksProtectReads'
<1> SUFFICES ASSUME NEW q \in Sessions, NEW i \in Inventories
             PROVE  Held(q, i)'
  BY DEF LocksProtectReads, Held
<1>1. Held(q, i)
  BY HeldDef
<1>2. q # NoSession /\ s # NoSession
  BY SentinelAssumption
<1>3. blocks' = blocks /\ tx[q] \in Transaction /\ tx[s] \in Transaction
      /\ blocks[j] \in BlockRow
  BY DEF ReserveInventory, TypeOK
<1>4. CASE q # s
  <2>1. tx'[q] = tx[q]
    BY <1>4 DEF ReserveInventory, TypeOK
  <2>2. lock'[i] = q <=> lock[i] = q
    BY <1>2, <1>4 DEF ReserveInventory, TypeOK
  <2>3. QED  BY <1>1, <1>3, <2>1, <2>2 DEF Held, Live
<1>5. CASE q = s /\ i # j
  <2>1. lock'[i] = lock[i]
    BY <1>5 DEF ReserveInventory, TypeOK
  <2>2. /\ tx'[q].held = tx[q].held \cup {j}
        /\ tx'[q].op = tx[q].op /\ tx'[q].demand = tx[q].demand
        /\ tx'[q].read[i] = tx[q].read[i]
    BY <1>3, <1>5 DEF ReserveInventory, TypeOK, Transaction
  <2>3. QED  BY <1>1, <1>3, <1>5, <2>1, <2>2 DEF Held, Live
<1>6. CASE q = s /\ i = j
  <2>1. lock'[i] = s
    BY <1>6 DEF ReserveInventory, TypeOK
  <2>2. /\ i \in tx'[q].held
        /\ tx'[q].op = tx[q].op /\ tx'[q].demand = tx[q].demand
        /\ tx'[q].read[i] = blocks[i].reserved
    BY <1>3, <1>6 DEF ReserveInventory, TypeOK, Transaction
  <2>3. tx[s].demand[i] > 0 /\ tx[s].demand[i] <= Remaining(blocks[i]) /\ Live(i)
        /\ tx[s].op = "update"
    BY <1>6 DEF ReserveInventory, Unreserved, Demanded
  <2>4. /\ blocks[i].allocated \in Nat /\ blocks[i].reserved \in Nat
        /\ tx[s].demand[i] \in Nat
    BY <1>3, <1>6, SentinelAssumption DEF BlockRow, Transaction, Demand
  <2>5. blocks[i].reserved + tx[s].demand[i] <= blocks[i].allocated
    BY <2>3, <2>4 DEF Remaining
  <2>6. QED  BY <1>3, <1>6, <2>1, <2>2, <2>3, <2>5 DEF Held, Live
<1>7. QED  BY <1>4, <1>5, <1>6

\* A flush that changes nothing leaves the row as it is.
LEMMA CleanFlush ==
  ASSUME NEW row \in BlockRow, NEW old \in BlockRow
  PROVE  FlushBlock(row, old, old) = row
  BY DEF FlushBlock, Dirty, BlockRow

LEMMA BeginsOpen ==
  ASSUME TypeOK, NEW s \in Sessions,
         \/ \E r \in Requests :
              \/ \E p \in Intakes : CreateRequestBegin(s, r, p)
              \/ \E u \in RequestUpdates : UpdateRequestBegin(s, r, u)
              \/ ReopenRequestBegin(s, r)
         \/ \E i \in Inventories :
              \/ \E e \in InventoryEdits : EditBlockBegin(s, i, e)
              \/ DeleteBlockBegin(s, i)
  PROVE  Opens(s)
<1>1. ASSUME NEW r \in Requests, NEW p \in Intakes, CreateRequestBegin(s, r, p)
      PROVE  Opens(s)
  BY <1>1, StartOpens DEF CreateRequestBegin, Idle
<1>2. ASSUME NEW r \in Requests, NEW u \in RequestUpdates, UpdateRequestBegin(s, r, u)
      PROVE  Opens(s)
  BY <1>2, StartOpens DEF UpdateRequestBegin, Idle
<1>3. ASSUME NEW r \in Requests, ReopenRequestBegin(s, r)
      PROVE  Opens(s)
  BY <1>3, StartOpens DEF ReopenRequestBegin, Idle
<1>4. ASSUME NEW i \in Inventories, NEW e \in InventoryEdits, EditBlockBegin(s, i, e)
      PROVE  Opens(s)
  BY <1>4, StartOpens DEF EditBlockBegin, Idle
<1>5. ASSUME NEW i \in Inventories, DeleteBlockBegin(s, i)
      PROVE  Opens(s)
  BY <1>5, StartOpens DEF DeleteBlockBegin, Idle
<1>6. QED  BY <1>1, <1>2, <1>3, <1>4, <1>5

LEMMA CommitKeepsLocks ==
  ASSUME TypeOK, LocksProtectReads, NEW s \in Sessions,
         CreateRequestCommit(s) \/ UpdateRequestCommit(s) \/ EditBlockCommit(s)
           \/ DeleteBlockCommit(s)
  PROVE  LocksProtectReads'
<1>1. CASE CreateRequestCommit(s)
  BY <1>1, FinishKeepsLocks DEF CreateRequestCommit
<1>2. CASE UpdateRequestCommit(s)
  <2>1. ASSUME NEW i \in Inventories, lock[i] \notin {NoSession, s}
        PROVE  blocks'[i] = blocks[i]
    <3>1. i \notin tx[s].held
      BY <2>1, HeldDef DEF Held
    <3>2. QED  BY <1>2, <3>1 DEF UpdateRequestCommit
  <2>2. QED  BY <1>2, <2>1, FinishKeepsLocks DEF UpdateRequestCommit
<1>3. CASE EditBlockCommit(s)
  <2>1. tx[s] \in Transaction /\ tx[s].block \in Inventories
    BY <1>3 DEF TypeOK, EditBlockCommit
  <2>2. ASSUME NEW i \in Inventories, lock[i] \notin {NoSession, s}
        PROVE  blocks'[i] = blocks[i]
    <3>1. CASE i # tx[s].block
      BY <1>3, <3>1 DEF EditBlockCommit, TypeOK
    <3>2. CASE i = tx[s].block
      <4>1. tx[s].newBlock = tx[s].oldBlock
        BY <1>3, <2>2, <3>2 DEF EditBlockCommit, Free
      <4>2. blocks'[i] = FlushBlock(blocks[i], tx[s].oldBlock, tx[s].oldBlock)
        BY <1>3, <3>2, <4>1 DEF EditBlockCommit, TypeOK
      <4>3. blocks[i] \in BlockRow /\ tx[s].oldBlock \in BlockRow
        BY <2>1 DEF TypeOK, Transaction
      <4>4. QED  BY <4>2, <4>3, CleanFlush
    <3>3. QED  BY <3>1, <3>2
  <2>3. QED  BY <1>3, <2>2, FinishKeepsLocks DEF EditBlockCommit
<1>4. CASE DeleteBlockCommit(s)
  <2>1. ASSUME NEW i \in Inventories, lock[i] \notin {NoSession, s}
        PROVE  blocks'[i] = blocks[i]
    BY <1>4, <2>1 DEF DeleteBlockCommit, Free, TypeOK
  <2>2. QED  BY <1>4, <2>1, FinishKeepsLocks DEF DeleteBlockCommit
<1>5. QED  BY <1>1, <1>2, <1>3, <1>4

LEMMA CreateBlockKeepsLocks ==
  ASSUME TypeOK, LocksProtectReads, NEW i \in Inventories, NEW b \in NewBlocks,
         CreateBlock(i, b)
  PROVE  LocksProtectReads'
<1> SUFFICES ASSUME NEW q \in Sessions, NEW j \in Inventories
             PROVE  Held(q, j)'
  BY DEF LocksProtectReads, Held
<1>1. Held(q, j)
  BY HeldDef
<1>2. i = j => j \notin tx[q].held
  BY <1>1 DEF CreateBlock, Held, Live
<1>3. i # j => blocks'[j] = blocks[j]
  BY DEF CreateBlock, TypeOK
<1>4. tx' = tx /\ lock' = lock
  BY DEF CreateBlock
<1>5. QED  BY <1>1, <1>2, <1>3, <1>4 DEF Held, Live

LEMMA RollbackKeepsLocks ==
  ASSUME TypeOK, LocksProtectReads, NEW s \in Sessions, Rollback(s)
  PROVE  LocksProtectReads'
  BY FinishKeepsLocks DEF Rollback

LEMMA NextKeepsLocks ==
  ASSUME TypeOK, LocksProtectReads, Next
  PROVE  LocksProtectReads'
<1>1. ASSUME NEW s \in Sessions, Advance(s) \/ Disconnect(s)
      PROVE  LocksProtectReads'
  BY <1>1, ReserveKeepsLocks, RollbackKeepsLocks, CommitKeepsLocks
  DEF Advance, Disconnect, LockWaitAborted, RowGone, ReserveRefused
<1>2. QED
  BY <1>1, BeginsOpen, OpenKeepsLocks, CreateBlockKeepsLocks DEF Next

\* However sessions, staff edits and deletions interleave, an inventory that
\* update_request holds keeps the count it read, and its cabins still fit.
THEOREM ReadsProtected == Spec => []LocksProtectReads
<1>1. Init => LocksProtectReads
  <2>1. Idle.held = {}
    BY DEF Idle
  <2>2. QED  BY <2>1, SentinelAssumption DEF Init, LocksProtectReads
<1>2. TypeOK /\ LocksProtectReads /\ [Next]_vars => LocksProtectReads'
  <2>1. ASSUME LocksProtectReads, UNCHANGED vars
        PROVE  LocksProtectReads'
    BY <2>1 DEF LocksProtectReads, vars, Live
  <2>2. QED  BY <2>1, NextKeepsLocks
<1>3. QED  BY <1>1, <1>2, TypeCorrect, PTL DEF Spec

-----------------------------------------------------------------------------
(***************************************************************************)
(* One session at a time: what the checks of the handlers promise of       *)
(* counts, purchases and deletions.  With two sessions a check is made on  *)
(* a row that the other one then changes, and none of it is true.          *)
(***************************************************************************)


\* What the handler checked is still so, because nothing came in between.
Fresh(t) ==
    /\ t.op = "create" => requests[t.request].status = "Unborn" /\ t.new.status = "Open"
    /\ t.op = "update" =>
         /\ t.old = requests[t.request]
         /\ ~ ClosesAsPurchased(t.old)
         /\ (ClosesAsPurchased(t.new) /\ Demanded(bookings[t.request]) # {}) => t.new.applied
    /\ t.op = "edit" =>
         /\ t.oldBlock = blocks[t.block]
         /\ t.newBlock.phase = "Live" /\ Live(t.block)
         /\ ValidCounts(t.newBlock)
    /\ t.op = "delete" => Live(t.block) /\ blocks[t.block].reserved = 0

StillChecked(s) == Fresh(tx[s]) /\ ReservedWithinAllocated /\ PurchasedBookingsReserved

SerialInv(s) == TypeOK /\ LocksProtectReads /\ StillChecked(s)

\* What a step may do to the rows: a purchase stays, and only an unreserved inventory goes.
StepsRight ==
    /\ \A r \in Requests : ClosesAsPurchased(requests[r]) => ClosesAsPurchased(requests'[r])
    /\ \A i \in Inventories : Live(i) /\ blocks'[i].phase = "Gone" => blocks[i].reserved = 0

LEMMA SameRows ==
  ASSUME UNCHANGED <<requests, blocks>>
  PROVE  StepsRight
  BY DEF StepsRight, Live

-----------------------------------------------------------------------------
(* How a handler starts and ends.                                            *)

LEMMA StartKept ==
  ASSUME NEW s \in Sessions, TypeOK, StillChecked(s), NEW t, Start(s, t), Fresh(t)
  PROVE  StillChecked(s)' /\ StepsRight
<1>1. tx'[s] = t /\ UNCHANGED <<requests, bookings, blocks>>
  BY DEF Start, TypeOK
<1>2. Fresh(tx[s])'
  BY <1>1 DEF Fresh, Live
<1>3. QED
  BY <1>1, <1>2, SameRows DEF StillChecked, ReservedWithinAllocated, PurchasedBookingsReserved, Live

LEMMA FinishFresh ==
  ASSUME NEW s \in Sessions, TypeOK, Finish(s)
  PROVE  Fresh(tx[s])'
<1>1. tx'[s] = Idle /\ Idle.op = "idle"
  BY DEF Finish, TypeOK, Idle
<1>2. QED
  BY <1>1 DEF Fresh

LEMMA RollbackKept ==
  ASSUME NEW s \in Sessions, TypeOK, StillChecked(s), Rollback(s)
  PROVE  StillChecked(s)' /\ StepsRight
  BY FinishFresh, SameRows
  DEF Rollback, StillChecked, ReservedWithinAllocated, PurchasedBookingsReserved, Live

-----------------------------------------------------------------------------
(* What the handlers check before they start.                                *)

LEMMA CreateRequestFresh ==
  ASSUME NEW s \in Sessions, TypeOK, StillChecked(s), NEW r \in Requests, NEW p \in Intakes,
         CreateRequestBegin(s, r, p)
  PROVE  StillChecked(s)' /\ StepsRight
<1> DEFINE demand == IntakeDemand(p)
           row(link, needed) == [status |-> "Open", reason |-> NoReason, applied |-> FALSE,
                                 grouped |-> p.grouped, link |-> link, needed |-> needed]
           t(link, needed) == [Idle EXCEPT !.op = "create", !.request = r, !.demand = demand,
                                           !.new = row(link, needed)]
<1>1. PICK link, needed : Start(s, t(link, needed))
  BY DEF CreateRequestBegin
<1>2. Fresh(t(link, needed))
  BY DEF Fresh, Idle, CreateRequestBegin
<1>3. QED
  <2> HIDE DEF t
  <2> QED  BY <1>1, <1>2, StartKept

LEMMA UpdateRequestFresh ==
  ASSUME NEW s \in Sessions, TypeOK, StillChecked(s), NEW r \in Requests, NEW u \in RequestUpdates,
         UpdateRequestBegin(s, r, u)
  PROVE  StillChecked(s)' /\ StepsRight
<1> DEFINE old == requests[r]
           new == AppliedUpdate(old, u)
           demand == IF ClosesAsPurchased(new) /\ ~old.applied
                     THEN Increments(old, bookings[r]) ELSE NoDemand
           row == [new EXCEPT !.applied = old.applied \/ Demanded(demand) # {}]
           t == [Idle EXCEPT !.op = "update", !.request = r, !.old = old,
                             !.demand = demand, !.new = row]
<1>1. old \in RequestRow /\ new \in RequestRow
  BY UpdateType, PayloadAssumption DEF TypeOK
<1>2. /\ row.status = new.status /\ row.reason = new.reason
      /\ row.applied = (old.applied \/ Demanded(demand) # {})
  <2> HIDE DEF new, old, demand
  <2> QED  BY <1>1 DEF RequestRow
<1>3. ClosesAsPurchased(row) /\ Demanded(bookings[r]) # {} => row.applied
  <2> SUFFICES ASSUME ClosesAsPurchased(row), Demanded(bookings[r]) # {}, ~ old.applied
               PROVE  Demanded(demand) # {}
    BY <1>2
  <2>1. ClosesAsPurchased(new)
    <3> HIDE DEF new, row
    <3> QED  BY <1>2 DEF ClosesAsPurchased
  <2>2. demand = bookings[r]
    <3> HIDE DEF new
    <3> QED  BY <2>1 DEF Increments
  <2>3. QED  BY <2>2
<1>4. ~ ClosesAsPurchased(old)
  BY DEF UpdateRequestBegin, ClosesAsPurchased
<1>5. t.op = "update" /\ t.request = r /\ t.old = old /\ t.new = row
  <2> HIDE DEF row, old, demand
  <2> QED  BY DEF Idle
<1>6. Fresh(t)
  <2> HIDE DEF t, row
  <2> QED  BY <1>3, <1>4, <1>5 DEF Fresh
<1>7. Start(s, t)
  BY DEF UpdateRequestBegin
<1>8. QED
  <2> HIDE DEF t
  <2> QED  BY <1>6, <1>7, StartKept

LEMMA ReopenRequestFresh ==
  ASSUME NEW s \in Sessions, TypeOK, StillChecked(s), NEW r \in Requests, ReopenRequestBegin(s, r)
  PROVE  StillChecked(s)' /\ StepsRight
<1> DEFINE row == [requests[r] EXCEPT !.status = "Open", !.reason = NoReason]
           t == [Idle EXCEPT !.op = "update", !.request = r, !.old = requests[r], !.new = row]
<1>1. row.status = "Open"
  BY DEF TypeOK, RequestRow
<1>2. t.op = "update" /\ t.request = r /\ t.old = requests[r] /\ t.new = row
  <2> HIDE DEF row
  <2> QED  BY DEF Idle
<1>3. Fresh(t)
  <2> HIDE DEF t, row
  <2> QED  BY <1>1, <1>2 DEF Fresh, ReopenRequestBegin, ClosesAsPurchased
<1>4. Start(s, t)
  BY DEF ReopenRequestBegin
<1>5. QED
  <2> HIDE DEF t
  <2> QED  BY <1>3, <1>4, StartKept

LEMMA StaffFresh ==
  ASSUME NEW s \in Sessions, TypeOK, StillChecked(s), NEW i \in Inventories,
         (\E e \in InventoryEdits : EditBlockBegin(s, i, e)) \/ DeleteBlockBegin(s, i)
  PROVE  StillChecked(s)' /\ StepsRight
<1>1. ASSUME NEW e \in InventoryEdits, EditBlockBegin(s, i, e)
      PROVE  StillChecked(s)' /\ StepsRight
  <2> DEFINE row == [blocks[i] EXCEPT !.allocated = Given(e.allocated, @),
                                      !.reserved = Given(e.reserved, @)]
             t == [Idle EXCEPT !.op = "edit", !.block = i, !.oldBlock = blocks[i],
                               !.newBlock = row]
  <2>1. row.phase = "Live" /\ ValidCounts(row)
    BY <1>1 DEF EditBlockBegin, Live, TypeOK, BlockRow
  <2>2. t.op = "edit" /\ t.block = i /\ t.oldBlock = blocks[i] /\ t.newBlock = row
    <3> HIDE DEF row
    <3> QED  BY DEF Idle
  <2>3. Fresh(t)
    <3> HIDE DEF t, row
    <3> QED  BY <1>1, <2>1, <2>2 DEF Fresh, EditBlockBegin
  <2>4. Start(s, t)
    BY <1>1 DEF EditBlockBegin
  <2>5. QED
    <3> HIDE DEF t
    <3> QED  BY <2>3, <2>4, StartKept
<1>2. ASSUME DeleteBlockBegin(s, i)
      PROVE  StillChecked(s)' /\ StepsRight
  <2> DEFINE t == [Idle EXCEPT !.op = "delete", !.block = i,
                               !.unlink = {r \in Requests : requests[r].link = i}]
  <2>1. Fresh(t) /\ Start(s, t)
    BY <1>2 DEF Fresh, Idle, DeleteBlockBegin
  <2>2. QED
    <3> HIDE DEF t
    <3> QED  BY <2>1, StartKept
<1>3. QED  BY <1>1, <1>2

-----------------------------------------------------------------------------
(* What the handlers write.                                                  *)

LEMMA CreateRequestKept ==
  ASSUME NEW s \in Sessions, SerialInv(s), CreateRequestCommit(s)
  PROVE  StillChecked(s)' /\ StepsRight
<1> DEFINE r == tx[s].request
<1>1. /\ r \in Requests /\ requests[r].status = "Unborn" /\ tx[s].new.status = "Open"
      /\ UNCHANGED blocks /\ Finish(s)
  BY DEF SerialInv, StillChecked, Fresh, TypeOK, CreateRequestCommit
<1>2. requests' = [requests EXCEPT ![r] = tx[s].new]
      /\ \A q \in Requests \ {r} : bookings'[q] = bookings[q]
  BY DEF CreateRequestCommit, SerialInv, TypeOK
<1>3. ASSUME NEW q \in Requests
      PROVE  IF q = r THEN requests'[q] = tx[s].new
                      ELSE requests'[q] = requests[q] /\ bookings'[q] = bookings[q]
  BY <1>1, <1>2 DEF SerialInv, TypeOK
<1>4. PurchasedBookingsReserved'
  BY <1>1, <1>3 DEF SerialInv, StillChecked, PurchasedBookingsReserved, ClosesAsPurchased
<1>5. StepsRight
  BY <1>1, <1>3 DEF StepsRight, ClosesAsPurchased, Live
<1>6. QED
  BY <1>1, <1>4, <1>5, FinishFresh DEF SerialInv, StillChecked, ReservedWithinAllocated, Live

LEMMA UpdateRequestKept ==
  ASSUME NEW s \in Sessions, SerialInv(s), UpdateRequestCommit(s)
  PROVE  StillChecked(s)' /\ StepsRight
<1> DEFINE t == tx[s]
           r == t.request
<1>1. /\ r \in Requests /\ t.old = requests[r] /\ Finish(s) /\ UNCHANGED bookings
      /\ t.old \in RequestRow /\ t.new \in RequestRow
      /\ ~ ClosesAsPurchased(requests[r])
      /\ (ClosesAsPurchased(t.new) /\ Demanded(bookings[r]) # {}) => t.new.applied
  BY DEF SerialInv, StillChecked, Fresh, TypeOK, Transaction, UpdateRequestCommit
<1>2. FlushRequest(t.old, t.old, t.new) = t.new
  BY <1>1 DEF FlushRequest, Dirty, RequestRow
<1>3. ASSUME NEW q \in Requests
      PROVE  requests'[q] = IF q = r THEN t.new ELSE requests[q]
  BY <1>1, <1>2 DEF UpdateRequestCommit, SerialInv, TypeOK
<1>4. PurchasedBookingsReserved'
  BY <1>1, <1>3 DEF SerialInv, StillChecked, PurchasedBookingsReserved
<1>5. ASSUME NEW i \in Inventories
      PROVE  /\ blocks'[i].phase = blocks[i].phase
             /\ Live(i) => ValidCounts(blocks'[i])
  <2>1. blocks[i] \in BlockRow /\ t.read[i] \in Nat /\ t.demand[i] \in Nat
    BY SentinelAssumption DEF SerialInv, TypeOK, Transaction, Demand
  <2>2. CASE i \in t.held
    <3>1. blocks'[i] = [blocks[i] EXCEPT !.reserved = t.read[i] + t.demand[i]]
      BY <2>2 DEF UpdateRequestCommit
    <3>2. /\ t.read[i] = blocks[i].reserved
          /\ blocks[i].reserved + t.demand[i] <= blocks[i].allocated
      BY <2>2 DEF SerialInv, LocksProtectReads
    <3>3. /\ blocks'[i].phase = blocks[i].phase /\ blocks'[i].allocated = blocks[i].allocated
          /\ blocks'[i].reserved = t.read[i] + t.demand[i]
      BY <2>1, <3>1 DEF BlockRow
    <3>4. QED  BY <3>2, <3>3 DEF ValidCounts
  <2>3. CASE i \notin t.held
    BY <2>3 DEF UpdateRequestCommit, SerialInv, StillChecked, ReservedWithinAllocated
  <2>4. QED  BY <2>2, <2>3
<1>6. ReservedWithinAllocated'
  BY <1>5 DEF ReservedWithinAllocated, Live
<1>7. StepsRight
  BY <1>1, <1>3, <1>5 DEF StepsRight, Live
<1>8. QED
  BY <1>1, <1>4, <1>6, <1>7, FinishFresh DEF SerialInv, StillChecked

LEMMA EditBlockKept ==
  ASSUME NEW s \in Sessions, SerialInv(s), EditBlockCommit(s)
  PROVE  StillChecked(s)' /\ StepsRight
<1> DEFINE t == tx[s]
<1>1. /\ t.block \in Inventories /\ t.oldBlock = blocks[t.block] /\ Finish(s)
      /\ t.oldBlock \in BlockRow /\ t.newBlock \in BlockRow
      /\ t.newBlock.phase = "Live" /\ Live(t.block) /\ ValidCounts(t.newBlock)
      /\ UNCHANGED <<requests, bookings>>
  BY DEF SerialInv, StillChecked, Fresh, TypeOK, Transaction, EditBlockCommit
<1>2. FlushBlock(t.oldBlock, t.oldBlock, t.newBlock) = t.newBlock
  BY <1>1 DEF FlushBlock, Dirty, BlockRow, Live
<1>3. ASSUME NEW i \in Inventories
      PROVE  blocks'[i] = IF i = t.block THEN t.newBlock ELSE blocks[i]
  BY <1>1, <1>2 DEF EditBlockCommit, SerialInv, TypeOK
<1>4. ReservedWithinAllocated'
  BY <1>1, <1>3 DEF SerialInv, StillChecked, ReservedWithinAllocated, Live
<1>5. StepsRight
  BY <1>1, <1>3 DEF StepsRight, Live
<1>6. QED
  BY <1>1, <1>4, <1>5, FinishFresh DEF SerialInv, StillChecked, PurchasedBookingsReserved

LEMMA DeleteBlockKept ==
  ASSUME NEW s \in Sessions, SerialInv(s), DeleteBlockCommit(s)
  PROVE  StillChecked(s)' /\ StepsRight
<1> DEFINE b == tx[s].block
<1>1. b \in Inventories /\ Finish(s) /\ blocks[b].reserved = 0
  BY DEF SerialInv, StillChecked, Fresh, TypeOK, DeleteBlockCommit
<1>2. ASSUME NEW i \in Inventories
      PROVE  IF i = b THEN blocks'[i].phase = "Gone" ELSE blocks'[i] = blocks[i]
  BY <1>1 DEF DeleteBlockCommit, SerialInv, TypeOK, BlockRow
<1>3. ASSUME NEW r \in Requests
      PROVE  /\ requests'[r].status = requests[r].status
             /\ requests'[r].reason = requests[r].reason
             /\ requests'[r].applied = requests[r].applied
             /\ Demanded(bookings'[r]) \subseteq Demanded(bookings[r])
  <2>1. requests[r] \in RequestRow /\ bookings[r] \in Demand
    BY DEF SerialInv, TypeOK
  <2>2. requests'[r] \in {requests[r], [requests[r] EXCEPT !.link = NoInventory]}
        /\ bookings'[r] = [bookings[r] EXCEPT ![b] = 0]
    BY DEF DeleteBlockCommit
  <2>3. Demanded(bookings'[r]) \subseteq Demanded(bookings[r])
    BY <1>1, <2>1, <2>2, SentinelAssumption DEF Demanded, Demand
  <2>4. QED  BY <2>1, <2>2, <2>3 DEF RequestRow
<1>4. PurchasedBookingsReserved'
  BY <1>3 DEF SerialInv, StillChecked, PurchasedBookingsReserved, ClosesAsPurchased
<1>5. ReservedWithinAllocated'
  BY <1>2 DEF SerialInv, StillChecked, ReservedWithinAllocated, Live
<1>6. StepsRight
  BY <1>1, <1>2, <1>3 DEF StepsRight, ClosesAsPurchased, Live
<1>7. QED
  BY <1>1, <1>4, <1>5, <1>6, FinishFresh DEF SerialInv, StillChecked

LEMMA ReserveKept ==
  ASSUME NEW s \in Sessions, SerialInv(s), NEW i \in Inventories, ReserveInventory(s, i)
  PROVE  StillChecked(s)' /\ StepsRight
<1>1. UNCHANGED <<requests, bookings, blocks>>
  BY DEF ReserveInventory
<1>2. /\ tx'[s].op = tx[s].op /\ tx'[s].request = tx[s].request
      /\ tx'[s].old = tx[s].old /\ tx'[s].new = tx[s].new
      /\ tx[s].op = "update"
  BY DEF ReserveInventory, SerialInv, TypeOK, Transaction
<1>3. Fresh(tx[s])'
  BY <1>1, <1>2 DEF Fresh, SerialInv, StillChecked
<1>4. QED
  BY <1>1, <1>3, SameRows
  DEF SerialInv, StillChecked, ReservedWithinAllocated, PurchasedBookingsReserved, Live

\* A new inventory is none that a handler has read.
LEMMA CreateBlockKept ==
  ASSUME NEW s \in Sessions, SerialInv(s), NEW i \in Inventories, NEW b \in NewBlocks,
         CreateBlock(i, b)
  PROVE  StillChecked(s)' /\ StepsRight
<1>1. UNCHANGED <<requests, bookings, tx>>
  BY DEF CreateBlock
<1>2. ASSUME NEW j \in Inventories
      PROVE  IF j = i
             THEN ~ Live(j) /\ blocks'[j].phase = "Live" /\ ValidCounts(blocks'[j])
             ELSE blocks'[j] = blocks[j]
  BY DEF CreateBlock, SerialInv, TypeOK, Live, ValidCounts
<1>3. tx[s].op \in {"edit", "delete"} => tx[s].block \in Inventories
  BY DEF SerialInv, TypeOK
<1>4. Fresh(tx[s])'
  BY <1>1, <1>2, <1>3 DEF Fresh, SerialInv, StillChecked, Live
<1>5. ReservedWithinAllocated'
  BY <1>2 DEF SerialInv, StillChecked, ReservedWithinAllocated, Live
<1>6. StepsRight
  BY <1>1, <1>2 DEF StepsRight, Live
<1>7. QED
  BY <1>1, <1>4, <1>5, <1>6 DEF SerialInv, StillChecked, PurchasedBookingsReserved

LEMMA SerialNext ==
  ASSUME NEW s, Sessions = {s}, SerialInv(s), [Next]_vars
  PROVE  StillChecked(s)' /\ StepsRight
<1> s \in Sessions /\ TypeOK /\ StillChecked(s)
  BY DEF SerialInv
<1>1. CASE UNCHANGED vars
  BY <1>1, SameRows
  DEF vars, StillChecked, Fresh, ReservedWithinAllocated, PurchasedBookingsReserved, Live
<1>2. CASE Advance(s) \/ Disconnect(s)
  BY <1>2, CreateRequestKept, UpdateRequestKept, EditBlockKept, DeleteBlockKept, ReserveKept,
     RollbackKept
  DEF Advance, Disconnect, LockWaitAborted, RowGone, ReserveRefused
<1>3. ASSUME NEW r \in Requests,
             \/ \E p \in Intakes : CreateRequestBegin(s, r, p)
             \/ \E u \in RequestUpdates : UpdateRequestBegin(s, r, u)
             \/ ReopenRequestBegin(s, r)
      PROVE  StillChecked(s)' /\ StepsRight
  BY <1>3, CreateRequestFresh, UpdateRequestFresh, ReopenRequestFresh
<1>4. ASSUME NEW i \in Inventories,
             \/ \E b \in NewBlocks : CreateBlock(i, b)
             \/ \E e \in InventoryEdits : EditBlockBegin(s, i, e)
             \/ DeleteBlockBegin(s, i)
      PROVE  StillChecked(s)' /\ StepsRight
  BY <1>4, CreateBlockKept, StaffFresh
<1>5. QED
  BY <1>1, <1>2, <1>3, <1>4 DEF Next

LEMMA SerialInit ==
  ASSUME NEW s, Sessions = {s}, Init
  PROVE  StillChecked(s)
<1>1. \A r \in Requests : requests[r].status = "Unborn"
  BY DEF Init, UnbornRequest
<1>2. \A i \in Inventories : ~ Live(i)
  BY DEF Init, UnbornBlock, Live
<1>3. tx[s].op = "idle"
  BY DEF Init, Idle
<1>4. QED
  BY <1>1, <1>2, <1>3
  DEF StillChecked, Fresh, ReservedWithinAllocated, PurchasedBookingsReserved, ClosesAsPurchased

\* One session at a time keeps what its handlers check, and takes only right steps.
LEMMA SerialInductive ==
  ASSUME NEW s, Sessions = {s}
  PROVE  Spec => []StillChecked(s) /\ [][StepsRight]_vars
<1>1. Init => StillChecked(s)
  BY SerialInit
<1>2. TypeOK /\ LocksProtectReads /\ StillChecked(s) /\ [Next]_vars => StillChecked(s)' /\ StepsRight
  BY SerialNext DEF SerialInv
<1>3. QED
  BY <1>1, <1>2, TypeCorrect, ReadsProtected, PTL DEF Spec

\* One session at a time, edits of staff included, never reserves more cabins of an
\* inventory than are allocated to it: validate_inventory_counts and the check for the
\* cabins that remain are enough.
THEOREM SerialWithinAllocated ==
  ASSUME NEW s, Sessions = {s}
  PROVE  Spec => []ReservedWithinAllocated
<1>1. StillChecked(s) => ReservedWithinAllocated
  BY DEF StillChecked
<1>2. QED  BY <1>1, SerialInductive, PTL

\* One session at a time, whatever columns its calls set in whatever order, closes no
\* request with bookings as purchased without having reserved them.
THEOREM SerialPurchasesReserved ==
  ASSUME NEW s, Sessions = {s}
  PROVE  Spec => []PurchasedBookingsReserved
<1>1. StillChecked(s) => PurchasedBookingsReserved
  BY DEF StillChecked
<1>2. QED  BY <1>1, SerialInductive, PTL

\* One session at a time never reopens or rewrites a purchase.
THEOREM SerialPurchasedStaysClosed ==
  ASSUME NEW s, Sessions = {s}
  PROVE  Spec => PurchasedStaysClosed
<1>1. StepsRight => \A r \in Requests :
                      ClosesAsPurchased(requests[r]) => ClosesAsPurchased(requests'[r])
  BY DEF StepsRight
<1>2. QED  BY <1>1, SerialInductive, PTL DEF PurchasedStaysClosed

\* One session at a time deletes no inventory that has reserved cabins.
THEOREM SerialDeletesUnreserved ==
  ASSUME NEW s, Sessions = {s}
  PROVE  Spec => DeletesOnlyUnreserved
<1>1. StepsRight => \A i \in Inventories :
                      Live(i) /\ blocks'[i].phase = "Gone" => blocks[i].reserved = 0
  BY DEF StepsRight
<1>2. QED  BY <1>1, SerialInductive, PTL DEF DeletesOnlyUnreserved

=============================================================================
