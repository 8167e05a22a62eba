----------------------------- MODULE CruiseRooms -----------------------------
(***************************************************************************)
(* The dialog of a proposed cruise, which saves the cruise as a whole or   *)
(* one room of it, and the assignment of passengers to rooms.              *)
(*                                                                         *)
(* A room save sends all rooms: the room of the form, and for the others   *)
(* what the dialog believes to be stored (persistedRef), with the room's   *)
(* passengers taken out of them.  Its handlers are two, one inside the     *)
(* other: the page's handler stores, turns the dialog to what was stored   *)
(* and reloads; then the dialog's own merges the answer into the form.     *)
(***************************************************************************)
EXTENDS Naturals, FiniteSets

CONSTANTS
    NRooms, NPassengers, MaxLimit,
    Resized   \* the rooms whose limit the agent edits

VARIABLES
    srv,    \* rooms and assignments the server has, for two cruises
    party,  \* the passengers of the request, and those the page shows as such
    modal,  \* the dialog
    page,   \* the saving flags of the section around it
    calls   \* the save in flight of each kind

vars == <<srv, party, modal, page, calls>>

Rooms == 1 .. NRooms
Passengers == 1 .. NPassengers
Limits == 1 .. MaxLimit

\* It stays in the request; the others another agent can remove.
Primary == 1

\* Cruise 0 is the one that is being added.
Cruises == {1, 2}

\* What a room says, apart from its passengers, is its limit and whether the
\* agent has typed in it.
Assignments == [Rooms -> SUBSET Passengers]
Stored == [limit : [Rooms -> Limits], who : Assignments]

Empty == [limit |-> [k \in Rooms |-> IF k \in Resized THEN MaxLimit ELSE 1], who |-> [k \in Rooms |-> {}]]

-----------------------------------------------------------------------------
(* The rules of a room *)

Assigned(who) == UNION {who[k] : k \in Rooms}

\* Each passenger is in one room, and no room is above its limit: checked by the
\* form, and again by sync_proposed_cruise_room_passengers on the server.
validateRoomPassengerIds(who, limit) ==
    /\ \A j, k \in Rooms : j # k => who[j] \cap who[k] = {}
    /\ \A k \in Rooms : Cardinality(who[k]) <= limit[k]

\* A tick puts a passenger in the room and takes it out of every other, unless
\* the room is full.
toggleRoomPassengerId(who, k, p, limit) ==
    IF p \in who[k] THEN [who EXCEPT ![k] = @ \ {p}]
    ELSE IF Cardinality(who[k]) >= limit[k] THEN who
    ELSE [j \in Rooms |-> IF j = k THEN who[j] \cup {p} ELSE who[j] \ {p}]

-----------------------------------------------------------------------------
Idle == [kind |-> "idle"]
Kinds == {"room", "full"}

TypeOK ==
    /\ srv \in [Cruises -> Stored]
    /\ party \in [members : SUBSET Passengers, shown : SUBSET Passengers]
    /\ modal.open \in BOOLEAN /\ modal.cruise \in {0} \cup Cruises
    /\ modal.limit \in [Rooms -> Limits] /\ modal.who \in Assignments
    /\ modal.typed \subseteq Rooms /\ modal.persisted \in Stored
    /\ page.saving \in BOOLEAN /\ page.savingRoom \in BOOLEAN
    /\ \A x \in Kinds : calls[x] # Idle =>
          /\ calls[x].kind = x /\ calls[x].cruise \in {0} \cup Cruises
          /\ calls[x].room \in {0} \cup Rooms
          /\ calls[x].payload \in Stored /\ calls[x].done \in BOOLEAN

\* A session of the dialog begins: form and persistedRef take the cruise.
Begun(c, s) ==
    [open |-> TRUE, cruise |-> c, limit |-> s.limit, who |-> s.who, typed |-> {}, persisted |-> s]

Shut == [Begun(0, Empty) EXCEPT !.open = FALSE]

Busy == page.saving \/ page.savingRoom
Editable == modal.open /\ ~ Busy

\* Variant: the passengers of the room stay where they were, too.
MergedTwice(k) ==
    [limit |-> [modal.persisted.limit EXCEPT ![k] = modal.limit[k]],
     who |-> [modal.persisted.who EXCEPT ![k] = modal.who[k]]]

\* The room of the form in the rooms that are stored.
mergeRoomIntoCabinRooms(k) ==
    [limit |-> [modal.persisted.limit EXCEPT ![k] = modal.limit[k]],
     who |-> [j \in Rooms |-> IF j = k THEN modal.who[k]
                              ELSE modal.persisted.who[j] \ modal.who[k]]]

-----------------------------------------------------------------------------
(* The agent *)

\* The page reads the request, and its passengers are those that can be ticked.
Reload == party' = [party EXCEPT !.shown = party.members]

Open ==
    /\ ~ modal.open
    /\ modal' \in {Begun(0, Empty)} \cup {Begun(c, srv[c]) : c \in Cruises}
    /\ Reload /\ UNCHANGED <<srv, page, calls>>

\* Cancel and the backdrop, during a save as well.
Cancel ==
    /\ modal.open /\ modal' = Shut
    /\ UNCHANGED <<srv, party, page, calls>>

EditRoom(k) ==
    /\ Editable
    /\ \E n \in Limits :
        /\ k \in Resized \/ n = modal.limit[k]
        /\ modal' = [modal EXCEPT !.limit[k] = n, !.typed = @ \cup {k}]
    /\ UNCHANGED <<srv, party, page, calls>>

TickPassenger(k) ==
    /\ Editable
    /\ \E p \in party.shown :
        /\ p \in modal.who[k] \/ Cardinality(modal.who[k]) < modal.limit[k]
        /\ modal' = [modal EXCEPT !.who = toggleRoomPassengerId(@, k, p, modal.limit)]
    /\ UNCHANGED <<srv, party, page, calls>>

Send(x, k, payload) ==
    /\ calls' = [calls EXCEPT ![x] = [kind |-> x, cruise |-> modal.cruise, room |-> k,
                                      payload |-> payload, done |-> FALSE]]
    /\ page' = IF x = "room" THEN [page EXCEPT !.savingRoom = TRUE]
                             ELSE [page EXCEPT !.saving = TRUE]
    /\ UNCHANGED <<srv, party, modal>>

SaveRoom(k) ==
    /\ Editable /\ modal.cruise # 0
    /\ Cardinality(modal.who[k]) <= modal.limit[k]
    /\ \A j \in Rooms \ {k} : modal.who[j] \cap modal.who[k] = {}
    /\ Send("room", k, mergeRoomIntoCabinRooms(k))

SaveCruise ==
    /\ Editable
    /\ validateRoomPassengerIds(modal.who, modal.limit)
    /\ Send("full", 0, [limit |-> modal.limit, who |-> modal.who])

-----------------------------------------------------------------------------
(* The server and its answers *)

Legal(s) == validateRoomPassengerIds(s.who, s.limit)

\* Every passenger of a room is one of the request by now.
validate_proposed_cruise_passengers(who) == Assigned(who) \subseteq party.members

Accepted(s) == Legal(s) /\ validate_proposed_cruise_passengers(s.who)

Applied(x) ==
    IF calls[x].cruise = 0 THEN srv
    ELSE [srv EXCEPT ![calls[x].cruise] = calls[x].payload]

\* setEditingCruise(updated): the dialog that shows another cruise by now turns to
\* the one that was saved.  Then the page reloads the request.
RoomStored ==
    /\ calls["room"] # Idle /\ ~ calls["room"].done
    /\ LET call == calls["room"]
       IN  /\ Accepted(call.payload)
           /\ srv' = Applied("room")
           /\ modal' = IF modal.open /\ modal.cruise # call.cruise
                         THEN Begun(call.cruise, call.payload) ELSE modal
           /\ calls' = [calls EXCEPT !["room"].done = TRUE]
    /\ UNCHANGED <<party, page>>

\* Variant: the whole form is replaced by what was stored.
MergedAll(call) == Begun(modal.cruise, call.payload)

\* The answer in the form: the room's text, and the passengers of every room.
Merged(call) ==
    [modal EXCEPT !.limit[call.room] = call.payload.limit[call.room],
                  !.typed = @ \ {call.room}, !.who = call.payload.who,
                  !.persisted = call.payload]

\* The page has reloaded, and the dialog's handler goes on, whatever it shows by now.
RoomReturned ==
    /\ calls["room"] # Idle /\ calls["room"].done
    /\ modal' = IF modal.open THEN Merged(calls["room"]) ELSE modal
    /\ calls' = [calls EXCEPT !["room"] = Idle]
    /\ page' = [page EXCEPT !.savingRoom = FALSE]
    /\ Reload /\ UNCHANGED srv

\* A whole save closes the dialog, whatever it shows, and reloads.
CruiseStored ==
    /\ calls["full"] # Idle /\ ~ calls["full"].done
    /\ Accepted(calls["full"].payload)
    /\ srv' = Applied("full") /\ modal' = Shut
    /\ calls' = [calls EXCEPT !["full"].done = TRUE]
    /\ UNCHANGED <<party, page>>

CruiseReturned ==
    /\ calls["full"] # Idle /\ calls["full"].done
    /\ calls' = [calls EXCEPT !["full"] = Idle]
    /\ page' = [page EXCEPT !.saving = FALSE]
    /\ Reload /\ UNCHANGED <<srv, modal>>

\* A save is refused, or its answer is lost.
Failed(x) ==
    /\ calls[x] # Idle /\ ~ calls[x].done
    /\ srv' = srv \/ (Accepted(calls[x].payload) /\ srv' = Applied(x))
    /\ calls' = [calls EXCEPT ![x] = Idle]
    /\ page' = IF x = "room" THEN [page EXCEPT !.savingRoom = FALSE]
                             ELSE [page EXCEPT !.saving = FALSE]
    /\ UNCHANGED <<party, modal>>

\* Another agent takes a passenger out of a room.
Elsewhere ==
    /\ \E k \in Rooms, p \in Passengers :
        p \in srv[1].who[k] /\ srv' = [srv EXCEPT ![1].who[k] = @ \ {p}]
    /\ UNCHANGED <<party, modal, page, calls>>

\* Another agent removes a passenger from the request: out of the rooms of every
\* cruise, in the same transaction.
delete_passenger(p) ==
    /\ p \in party.members \ {Primary}
    /\ party' = [party EXCEPT !.members = @ \ {p}]
    /\ srv' = [c \in Cruises |->
                [srv[c] EXCEPT !.who = [k \in Rooms |-> srv[c].who[k] \ {p}]]]
    /\ UNCHANGED <<modal, page, calls>>

Init ==
    /\ srv = [c \in Cruises |-> IF c = 1 THEN [Empty EXCEPT !.who[1] = Passengers] ELSE Empty]
    /\ party = [members |-> Passengers, shown |-> Passengers]
    /\ modal = Shut
    /\ page = [saving |-> FALSE, savingRoom |-> FALSE]
    /\ calls = [x \in Kinds |-> Idle]

Next ==
    \/ Open \/ Cancel \/ SaveCruise \/ Elsewhere
    \/ \E k \in Rooms : EditRoom(k) \/ TickPassenger(k) \/ SaveRoom(k)
    \/ RoomStored \/ RoomReturned \/ CruiseStored \/ CruiseReturned
    \/ \E x \in Kinds : Failed(x)
    \/ \E p \in Passengers : delete_passenger(p)

Spec == Init /\ [][Next]_vars

-----------------------------------------------------------------------------
(* Properties *)

\* No save the dialog lets through breaks the rules of the server for rooms: whatever
\* was moved between rooms and not saved, and whatever cruise the stored rooms the
\* dialog merges into belong to.  Nor does a save that is late, or stale, put back into
\* a stored cruise a passenger that was removed from the request.
SavesAreLegal ==
    /\ \A x \in Kinds : calls[x] # Idle => Legal(calls[x].payload)
    /\ \A c \in Cruises : Assigned(srv[c].who) \subseteq party.members

\* Text typed in a room is lost only when the agent closes the dialog, or stored by
\* the save of that room or of the cruise: saving one room never takes the text of
\* another, also when the answer arrives in the dialog of another cruise.
KeepsTyped ==
    \A k \in modal.typed \ modal'.typed :
        \/ Cancel
        \/ calls["room"] # Idle /\ calls["room"].room = k
        \/ calls["full"] # Idle
=============================================================================
