--------------------------- MODULE GroupReservation ---------------------------
(***************************************************************************)
(* Group-block cabin inventory and the travel requests that buy from it    *)
(* (services/group_inventory_reservation_service.py, the inventory         *)
(* handlers of services/agency_group_service.py and create / update /      *)
(* reopen of services/request_service.py).                                 *)
(*                                                                         *)
(* FastAPI runs each handler on a thread with a SQLAlchemy session of its  *)
(* own, so a handler is a MySQL transaction: its plain reads come from the *)
(* snapshot of its first read (the Begin action), SELECT ... FOR UPDATE    *)
(* reads the committed row and keeps it locked, and commit() flushes only  *)
(* the columns whose value the handler changed.  A row lock that another   *)
(* session holds makes a step wait (its guard is false).                   *)
(***************************************************************************)
EXTENDS Integers, FiniteSets, Functions

CONSTANTS
    Sessions,       \* handler threads: one database session each
    Requests,       \* travel_requests primary keys
    Inventories,    \* agency_group_inventory primary keys, all of one group
    NoSession,      \* owner of a row that is not locked
    NoRequest,
    NoInventory,    \* NULL in travel_requests.group_inventory_id
    Unset,          \* a field the PATCH payload leaves out
    Intakes,        \* payloads of POST /requests
    RequestUpdates, \* payloads of PATCH /requests/{id}
    NewBlocks,      \* payloads of POST /agency-groups/{id}/inventory
    InventoryEdits, \* payloads of PATCH /agency-groups/inventory/{id}
    MaxCabins       \* bound on the cabins of one request

Primary  == "Purchased - Trip Created"
Other    == "Other"
NoReason == "None"
Reasons  == {Primary, Other, NoReason}

Demand == [Inventories -> 0..MaxCabins]
NoDemand == [i \in Inventories |-> 0]
Demanded(d) == {i \in Inventories : d[i] > 0}

Links == Inventories \cup {NoInventory}

\* A travel_requests row, as far as reservation reads or writes it.
RequestRow == [status: {"Unborn", "Open", "Closed"}, reason: Reasons, applied: BOOLEAN,
               grouped: BOOLEAN, link: Links, needed: 1..MaxCabins]

\* An agency_group_inventory row: not inserted yet, present, or deleted.
BlockRow == [phase: {"Unborn", "Live", "Gone"}, allocated: Nat, reserved: Nat]

Intake == [grouped: BOOLEAN, link: Links, booked: Demand, needed: 1..MaxCabins]

RequestUpdate == [status: {"Open", "Closed", Unset}, reason: Reasons \cup {Unset},
                  grouped: BOOLEAN \cup {Unset}, link: Links \cup {Unset},
                  needed: (1..MaxCabins) \cup {Unset}]

InventoryEdit == [allocated: Nat \cup {Unset}, reserved: Nat \cup {Unset}]

NewBlock == [allocated: Nat, reserved: Nat]

ASSUME SentinelAssumption ==
    /\ NoSession \notin Sessions
    /\ NoRequest \notin Requests
    /\ NoInventory \notin Inventories
    /\ MaxCabins \in Nat \ {0}

ASSUME PayloadAssumption ==
    /\ Intakes \subseteq Intake
    /\ RequestUpdates \subseteq RequestUpdate
    /\ NewBlocks \subseteq NewBlock
    /\ InventoryEdits \subseteq InventoryEdit

VARIABLES
    requests,   \* committed travel_requests rows
    bookings,   \* committed travel_request_group_bookings: cabins per inventory
    blocks,     \* committed agency_group_inventory rows
    lock,       \* the session that holds the row lock of an inventory
    tx          \* what each session's handler has read and means to write

vars == <<requests, bookings, blocks, lock, tx>>

UnbornRequest == [status |-> "Unborn", reason |-> NoReason, applied |-> FALSE,
                  grouped |-> FALSE, link |-> NoInventory, needed |-> 1]
UnbornBlock == [phase |-> "Unborn", allocated |-> 0, reserved |-> 0]

\* "update" is update_request and reopen_request: both rewrite one request row.
Ops == {"idle", "create", "update", "edit", "delete"}

\* old and new are the request row as loaded and as modified (oldBlock and
\* newBlock for an inventory); demand is what is booked or to be reserved, and
\* read[i] the cabins_reserved a FOR UPDATE on i returned, for i in held.
Idle == [op |-> "idle", request |-> NoRequest, old |-> UnbornRequest, new |-> UnbornRequest,
         block |-> NoInventory, oldBlock |-> UnbornBlock, newBlock |-> UnbornBlock,
         demand |-> NoDemand, held |-> {}, read |-> NoDemand, unlink |-> {}]

-----------------------------------------------------------------------------
(* Columns and counts.                                                       *)

Given(value, current) == IF value = Unset THEN current ELSE value

\* The unit of work writes a column only where the handler changed it.
Dirty(current, old, new) == IF new = old THEN current ELSE new

FlushRequest(row, old, new) ==
    [status  |-> Dirty(row.status, old.status, new.status),
     reason  |-> Dirty(row.reason, old.reason, new.reason),
     applied |-> Dirty(row.applied, old.applied, new.applied),
     grouped |-> Dirty(row.grouped, old.grouped, new.grouped),
     link    |-> Dirty(row.link, old.link, new.link),
     needed  |-> Dirty(row.needed, old.needed, new.needed)]

\* Mutant: the counts are written as increments, as in SET c = c + delta.
FlushBlockByDelta(row, old, new) ==
    [phase     |-> row.phase,
     allocated |-> row.allocated + (new.allocated - old.allocated),
     reserved  |-> row.reserved + (new.reserved - old.reserved)]

FlushBlock(row, old, new) ==
    [phase     |-> row.phase,
     allocated |-> Dirty(row.allocated, old.allocated, new.allocated),
     reserved  |-> Dirty(row.reserved, old.reserved, new.reserved)]

\* Mutant: what remains ignores what is already reserved.
RemainingOfAllocation(block) == block.allocated

Remaining(block) == IF block.allocated > block.reserved
                    THEN block.allocated - block.reserved ELSE 0

ValidCounts(block) == block.reserved <= block.allocated

Live(i) == blocks[i].phase = "Live"

\* Mutant: the linked inventory comes before the bookings.
LinkIncrementFirst(row, booked) ==
    IF row.link = NoInventory THEN booked
    ELSE [i \in Inventories |-> IF i = row.link THEN row.needed ELSE 0]

\* What closing the request as purchased reserves: its bookings, and only
\* without any the linked inventory times cabins_needed.
Increments(row, booked) ==
    IF Demanded(booked) # {} THEN booked
    ELSE [i \in Inventories |-> IF i = row.link THEN row.needed ELSE 0]

-----------------------------------------------------------------------------
(* Sessions: how a handler starts, waits, rolls back.                        *)

Init ==
    /\ requests = [r \in Requests |-> UnbornRequest]
    /\ bookings = [r \in Requests |-> NoDemand]
    /\ blocks = [i \in Inventories |-> UnbornBlock]
    /\ lock = [i \in Inventories |-> NoSession]
    /\ tx = [s \in Sessions |-> Idle]

Start(s, transaction) ==
    /\ tx[s] = Idle
    /\ tx' = [tx EXCEPT ![s] = transaction]
    /\ UNCHANGED <<requests, bookings, blocks, lock>>

\* Commit or rollback: the session lets go of its row locks.
Finish(s) ==
    /\ tx' = [tx EXCEPT ![s] = Idle]
    /\ lock' = [i \in Inventories |-> IF lock[i] = s THEN NoSession ELSE lock[i]]

Rollback(s) ==
    /\ Finish(s)
    /\ UNCHANGED <<requests, bookings, blocks>>

Free(i, s) == lock[i] \in {NoSession, s}

-----------------------------------------------------------------------------
(* POST /requests: create_request with normalize_group_booking_inputs.        *)

\* The bookings an intake asks for: those listed, or the linked inventory.
IntakeDemand(p) ==
    IF ~p.grouped THEN NoDemand
    ELSE Increments([link |-> p.link, needed |-> p.needed], p.booked)

CabinTotal(d) == FoldFunction(+, 0, d)

CreateRequestBegin(s, r, p) ==
    LET demand == IntakeDemand(p)
        booked == Demanded(demand)
    IN  /\ requests[r].status = "Unborn"
        /\ \A t \in Sessions : tx[t].request # r
        /\ p.grouped \/ (p.link = NoInventory /\ Demanded(p.booked) = {})
        /\ p.link # NoInventory => Live(p.link)
        /\ \A i \in booked : Live(i) /\ demand[i] <= Remaining(blocks[i])
        /\ \E link \in (IF booked = {} THEN {NoInventory} ELSE booked),
              needed \in 1..MaxCabins :
             /\ needed = (IF booked = {} THEN p.needed ELSE CabinTotal(demand))
             /\ Start(s, [Idle EXCEPT
                    !.op = "create", !.request = r, !.demand = demand,
                    !.new = [status |-> "Open", reason |-> NoReason, applied |-> FALSE,
                             grouped |-> p.grouped, link |-> link, needed |-> needed]])

\* The inserted bookings share-lock their inventory rows and must find them.
CreateRequestCommit(s) ==
    LET t == tx[s] IN
    /\ t.op = "create"
    /\ \A i \in Demanded(t.demand) : Free(i, s) /\ Live(i)
    /\ requests' = [requests EXCEPT ![t.request] = t.new]
    /\ bookings' = [bookings EXCEPT ![t.request] = t.demand]
    /\ Finish(s)
    /\ UNCHANGED blocks

-----------------------------------------------------------------------------
(* PATCH /requests/{id} and POST /requests/{id}/reopen.                       *)

AppliedUpdate(row, u) ==
    [row EXCEPT !.status = Given(u.status, @), !.reason = Given(u.reason, @),
                !.grouped = Given(u.grouped, @), !.link = Given(u.link, @),
                !.needed = Given(u.needed, @)]

ClosesAsPurchased(row) == row.status = "Closed" /\ row.reason = Primary

\* validate_travel_request_group_linkage on what update_request hands it: an
\* explicit group_id of None stands for no inventory either, whatever the row
\* already received.
LinkageAllowed(u, new) ==
    \/ u.grouped = Unset /\ u.link = Unset
    \/ u.grouped = FALSE
    \/ ~new.grouped /\ new.link = NoInventory
    \/ new.grouped /\ (new.link # NoInventory => Live(new.link))

\* Mutant: only the payload's own close_reason counts as purchased.
ReserveOnPayloadReason(s, r, u) ==
    LET old == requests[r]
        new == AppliedUpdate(old, u)
        demand == IF new.status = "Closed" /\ u.reason = Primary /\ ~old.applied
                  THEN Increments(old, bookings[r]) ELSE NoDemand
    IN  /\ old.status = "Open"
        /\ LinkageAllowed(u, new)
        /\ Start(s, [Idle EXCEPT
               !.op = "update", !.request = r, !.old = old, !.demand = demand,
               !.new = [new EXCEPT !.applied = old.applied \/ Demanded(demand) # {}]])

\* Mutant: the reservation is made but not recorded on the request.
ReserveWithoutFlag(s, r, u) ==
    LET old == requests[r]
        new == AppliedUpdate(old, u)
        demand == IF ClosesAsPurchased(new) /\ ~old.applied
                  THEN Increments(old, bookings[r]) ELSE NoDemand
    IN  /\ old.status = "Open"
        /\ LinkageAllowed(u, new)
        /\ Start(s, [Idle EXCEPT
               !.op = "update", !.request = r, !.old = old, !.new = new, !.demand = demand])

\* The reservation is computed from the row as it was before the update.
UpdateRequestBegin(s, r, u) ==
    LET old == requests[r]
        new == AppliedUpdate(old, u)
        demand == IF ClosesAsPurchased(new) /\ ~old.applied
                  THEN Increments(old, bookings[r]) ELSE NoDemand
    IN  /\ old.status = "Open"
        /\ LinkageAllowed(u, new)
        /\ Start(s, [Idle EXCEPT
               !.op = "update", !.request = r, !.old = old, !.demand = demand,
               !.new = [new EXCEPT !.applied = old.applied \/ Demanded(demand) # {}]])

\* Mutant: any closed request may be reopened.
ReopenAnyBegin(s, r) ==
    /\ requests[r].status = "Closed"
    /\ Start(s, [Idle EXCEPT
           !.op = "update", !.request = r, !.old = requests[r],
           !.new = [requests[r] EXCEPT !.status = "Open", !.reason = NoReason]])

ReopenRequestBegin(s, r) ==
    /\ requests[r].status = "Closed"
    /\ requests[r].reason # Primary
    /\ Start(s, [Idle EXCEPT
           !.op = "update", !.request = r, !.old = requests[r],
           !.new = [requests[r] EXCEPT !.status = "Open", !.reason = NoReason]])

Unreserved(s) == Demanded(tx[s].demand) \ tx[s].held

\* Mutant: the inventory is read without FOR UPDATE.
ReadInventoryUnlocked(s, i) ==
    /\ tx[s].op = "update"
    /\ i \in Unreserved(s)
    /\ Live(i)
    /\ tx[s].demand[i] <= Remaining(blocks[i])
    /\ tx' = [tx EXCEPT ![s].held = @ \cup {i}, ![s].read[i] = blocks[i].reserved]
    /\ UNCHANGED <<requests, bookings, blocks, lock>>

\* SELECT ... FOR UPDATE of one demanded inventory, then the remaining check.
ReserveInventory(s, i) ==
    /\ tx[s].op = "update"
    /\ i \in Unreserved(s)
    /\ lock[i] = NoSession
    /\ Live(i)
    /\ tx[s].demand[i] <= Remaining(blocks[i])
    /\ lock' = [lock EXCEPT ![i] = s]
    /\ tx' = [tx EXCEPT ![s].held = @ \cup {i}, ![s].read[i] = blocks[i].reserved]
    /\ UNCHANGED <<requests, bookings, blocks>>

\* Mutant: an inventory with too few cabins is skipped, the others reserved.
SkipRefused(s, i) ==
    /\ tx[s].op = "update"
    /\ i \in Unreserved(s)
    /\ lock[i] = NoSession
    /\ ~Live(i) \/ tx[s].demand[i] > Remaining(blocks[i])
    /\ tx' = [tx EXCEPT ![s].demand[i] = 0]
    /\ UNCHANGED <<requests, bookings, blocks, lock>>

\* The inventory is gone or has too few cabins: GroupInventoryReservationError.
ReserveRefused(s, i) ==
    /\ tx[s].op = "update"
    /\ i \in Unreserved(s)
    /\ lock[i] = NoSession
    /\ ~Live(i) \/ tx[s].demand[i] > Remaining(blocks[i])
    /\ Rollback(s)

\* A changed group_inventory_id share-locks the row it refers to.
Relinks(t) == t.new.link # t.old.link /\ t.new.link # NoInventory

UpdateRequestCommit(s) ==
    LET t == tx[s] IN
    /\ t.op = "update"
    /\ Unreserved(s) = {}
    /\ Relinks(t) => Free(t.new.link, s) /\ Live(t.new.link)
    /\ requests' = [requests EXCEPT ![t.request] = FlushRequest(@, t.old, t.new)]
    /\ blocks' = [i \in Inventories |->
                    IF i \in t.held
                    THEN [blocks[i] EXCEPT !.reserved = t.read[i] + t.demand[i]]
                    ELSE blocks[i]]
    /\ Finish(s)
    /\ UNCHANGED bookings

-----------------------------------------------------------------------------
(* Staff handlers of the agency-groups router.                                *)

CreateBlock(i, b) ==
    /\ blocks[i].phase = "Unborn"
    /\ ValidCounts(b)
    /\ blocks' = [blocks EXCEPT ![i] =
                    [phase |-> "Live", allocated |-> b.allocated, reserved |-> b.reserved]]
    /\ UNCHANGED <<requests, bookings, lock, tx>>

EditBlockBegin(s, i, e) ==
    LET old == blocks[i]
        new == [old EXCEPT !.allocated = Given(e.allocated, @), !.reserved = Given(e.reserved, @)]
    IN  /\ Live(i)
        /\ ValidCounts(new)
        /\ Start(s, [Idle EXCEPT !.op = "edit", !.block = i, !.oldBlock = old, !.newBlock = new])

\* Mutant: the staff write does not wait for the row lock.
EditBlockIgnoringLock(s) ==
    LET t == tx[s] IN
    /\ t.op = "edit"
    /\ t.newBlock # t.oldBlock => Live(t.block)
    /\ blocks' = [blocks EXCEPT ![t.block] = FlushBlock(@, t.oldBlock, t.newBlock)]
    /\ Finish(s)
    /\ UNCHANGED <<requests, bookings>>

\* Without a changed column no UPDATE is sent; an UPDATE of a deleted row fails.
EditBlockCommit(s) ==
    LET t == tx[s] IN
    /\ t.op = "edit"
    /\ t.newBlock # t.oldBlock => Free(t.block, s) /\ Live(t.block)
    /\ blocks' = [blocks EXCEPT ![t.block] = FlushBlock(@, t.oldBlock, t.newBlock)]
    /\ Finish(s)
    /\ UNCHANGED <<requests, bookings>>

\* Mutant: an inventory is deleted whatever is reserved on it.
DeleteReservedBegin(s, i) ==
    /\ Live(i)
    /\ \A r \in Requests : bookings[r][i] = 0
    /\ Start(s, [Idle EXCEPT !.op = "delete", !.block = i,
                             !.unlink = {r \in Requests : requests[r].link = i}])

\* Bookings the session sees make the flush fail: the ORM sets their NOT NULL
\* group_inventory_id to NULL before it deletes the inventory.
DeleteBlockBegin(s, i) ==
    /\ Live(i)
    /\ blocks[i].reserved = 0
    /\ \A r \in Requests : bookings[r][i] = 0
    /\ Start(s, [Idle EXCEPT !.op = "delete", !.block = i,
                             !.unlink = {r \in Requests : requests[r].link = i}])

\* The ORM unlinks the requests it saw linked, the foreign keys unlink the
\* others (SET NULL) and delete the bookings made since (CASCADE).
DeleteBlockCommit(s) ==
    LET t == tx[s] IN
    /\ t.op = "delete"
    /\ Free(t.block, s)
    /\ blocks' = [blocks EXCEPT ![t.block].phase = "Gone"]
    /\ requests' = [r \in Requests |->
                      IF r \in t.unlink \/ requests[r].link = t.block
                      THEN [requests[r] EXCEPT !.link = NoInventory] ELSE requests[r]]
    /\ bookings' = [r \in Requests |-> [bookings[r] EXCEPT ![t.block] = 0]]
    /\ Finish(s)

-----------------------------------------------------------------------------
(* What ends a handler from outside.                                          *)

\* Inventory rows the session's next statement needs.
Wanted(s) ==
    LET t == tx[s] IN
    CASE t.op = "update" /\ Unreserved(s) # {} -> Unreserved(s)
      [] t.op = "update" /\ Unreserved(s) = {} -> IF Relinks(t) THEN {t.new.link} ELSE {}
      [] t.op = "create" -> Demanded(t.demand)
      [] t.op \in {"edit", "delete"} -> {t.block}
      [] OTHER -> {}

\* Mutant: a session waits for a row lock for ever.
NoLockWaitAbort(s) == FALSE

\* Picked as a deadlock victim, or innodb_lock_wait_timeout: the error reaches
\* get_db, which closes the session.
LockWaitAborted(s) ==
    /\ \E i \in Wanted(s) : ~Free(i, s)
    /\ Rollback(s)

\* A foreign key to, or an UPDATE of, a row deleted since it was read.
RowGone(s) ==
    /\ tx[s].op # "delete"
    /\ tx[s].op = "update" => Unreserved(s) = {}
    /\ \E i \in Wanted(s) : Free(i, s) /\ ~Live(i)
    /\ Rollback(s)

\* The process stops or the connection drops with the handler in flight.
Disconnect(s) ==
    /\ tx[s] # Idle
    /\ Rollback(s)

Advance(s) ==
    \/ CreateRequestCommit(s)
    \/ \E i \in Inventories : ReserveInventory(s, i)
    \/ \E i \in Inventories : ReserveRefused(s, i)
    \/ UpdateRequestCommit(s)
    \/ EditBlockCommit(s)
    \/ DeleteBlockCommit(s)
    \/ LockWaitAborted(s)
    \/ RowGone(s)

Next ==
    \/ \E s \in Sessions, r \in Requests :
         \/ \E p \in Intakes : CreateRequestBegin(s, r, p)
         \/ \E u \in RequestUpdates : UpdateRequestBegin(s, r, u)
         \/ ReopenRequestBegin(s, r)
    \/ \E i \in Inventories :
         \/ \E b \in NewBlocks : CreateBlock(i, b)
         \/ \E s \in Sessions, e \in InventoryEdits : EditBlockBegin(s, i, e)
         \/ \E s \in Sessions : DeleteBlockBegin(s, i)
    \/ \E s \in Sessions : Advance(s) \/ Disconnect(s)

Spec == Init /\ [][Next]_vars

\* A handler thread keeps running and InnoDB bounds every lock wait; that the
\* process stays up (no Disconnect) is not assumed.
FairSpec == Spec /\ \A s \in Sessions : WF_vars(Advance(s))

-----------------------------------------------------------------------------
(* Properties.                                                                *)

Transaction == [op: Ops, request: Requests \cup {NoRequest}, old: RequestRow, new: RequestRow,
                block: Links, oldBlock: BlockRow, newBlock: BlockRow,
                demand: Demand, held: SUBSET Inventories, read: [Inventories -> Nat],
                unlink: SUBSET Requests]

\* Every variable holds values of its kind; a handler in flight names the row
\* it will write.
TypeOK ==
    /\ requests \in [Requests -> RequestRow]
    /\ bookings \in [Requests -> Demand]
    /\ blocks \in [Inventories -> BlockRow]
    /\ lock \in [Inventories -> Sessions \cup {NoSession}]
    /\ tx \in [Sessions -> Transaction]
    /\ \A s \in Sessions :
         /\ tx[s].op \in {"create", "update"} => tx[s].request \in Requests
         /\ tx[s].op \in {"edit", "delete"} => tx[s].block \in Inventories

\* The row locks make FOR UPDATE reads last: as long as update_request holds an
\* inventory, the cabins_reserved it read is the committed one and its cabins
\* still fit, whatever other sessions, staff edits and deletions do meanwhile.
LocksProtectReads ==
    \A s \in Sessions : \A i \in Inventories :
        /\ i \in tx[s].held <=> lock[i] = s
        /\ i \in tx[s].held =>
             /\ tx[s].op = "update"
             /\ Live(i)
             /\ tx[s].demand[i] > 0
             /\ tx[s].read[i] = blocks[i].reserved
             /\ blocks[i].reserved + tx[s].demand[i] <= blocks[i].allocated

\* Seen from outside, update_request sells cabins in one step, all of its
\* demand or nothing, and never more than remain: the sessions implement
\* CabinSale, with what an update means to reserve as its offer.
Sale == INSTANCE CabinSale WITH
    Sellers <- Sessions,
    offer <- [s \in Sessions |-> IF tx[s].op = "update" THEN tx[s].demand ELSE NoDemand]

SaleSpec == Sale!Spec

\* The step that marks a request's reservation applied adds exactly the cabins
\* of the bookings the request has at that moment to their inventories.
BookingsReservedOnClose ==
    [][\A r \in Requests :
         (requests'[r].applied /\ ~requests[r].applied /\ Demanded(bookings[r]) # {}) =>
            \A i \in Inventories :
                blocks'[i].reserved = blocks[i].reserved + bookings[r][i]]_vars

\* validate_inventory_counts: "Cabins reserved cannot exceed cabins allocated."
ReservedWithinAllocated ==
    \A i \in Inventories : Live(i) => ValidCounts(blocks[i])

\* One by one, the cabins of requests that have so many each.
Cabins(count) == UNION {{r} \X (1 .. count[r]) : r \in Requests}

\* Cabins of inventory i that closing r as purchased has taken.
Sold(r, i) == IF requests[r].applied THEN Increments(requests[r], bookings[r])[i] ELSE 0

\* Where no staff member edits counts, cabins_reserved is the number of cabins of the
\* requests that were closed as purchased: each reserved once and for good.
ReservedIsSold ==
    \A i \in Inventories : Live(i) =>
        blocks[i].reserved = Cardinality(Cabins([r \in Requests |-> Sold(r, i)]))

\* The booked cabins of inventory i that purchases have taken.
Purchased(i) ==
    Cabins([r \in Requests |-> IF requests[r].applied THEN bookings[r][i] ELSE 0])

\* Where no staff member edits counts, a purchase of booked cabins is never lost
\* to another session's write: cabins_reserved covers all of them, also where
\* two sessions close the same request at once.
SalesKept ==
    \A i \in Inventories : Live(i) => blocks[i].reserved >= Cardinality(Purchased(i))

\* reopen_request: "Requests closed as purchased trips cannot be reopened."
PurchasedStaysClosed ==
    [][\A r \in Requests : ClosesAsPurchased(requests[r]) => ClosesAsPurchased(requests'[r])]_vars

\* A request with group bookings is never closed as purchased without its
\* reservation having been applied.
PurchasedBookingsReserved ==
    \A r \in Requests :
        ClosesAsPurchased(requests[r]) /\ Demanded(bookings[r]) # {} => requests[r].applied

\* The same for a request that is only linked to an inventory.
PurchasedLinkReserved ==
    \A r \in Requests :
        ClosesAsPurchased(requests[r]) /\ requests[r].link # NoInventory => requests[r].applied

\* delete_agency_group_inventory: "Cannot remove inventory with reserved cabins."
DeletesOnlyUnreserved ==
    [][\A i \in Inventories : Live(i) /\ blocks'[i].phase = "Gone" => blocks[i].reserved = 0]_vars

\* A handler that started always ends: no cycle of row locks outlives InnoDB's
\* deadlock detection, and a failed reservation frees its rows for the others.
EveryHandlerEnds ==
    \A s \in Sessions : tx[s] # Idle ~> tx[s] = Idle

=============================================================================
