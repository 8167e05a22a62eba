---------------------------- MODULE AgentTasksProofs ----------------------------
(***************************************************************************)
(* What the task panels, the insurance panel and the dialog of a cruise    *)
(* promise, in the composition that is model-checked, for any number of    *)
(* records, rooms, passengers, quotes and handlers in flight.              *)
(***************************************************************************)
EXTENDS MC_AgentTasks, FiniteSetTheorems, WellFoundedInduction, TLAPS

-----------------------------------------------------------------------------
(* The rooms of a proposed cruise.                                           *)

Dialog ==
    [open : BOOLEAN, cruise : {0} \cup C!Cruises, limit : [C!Rooms -> C!Limits],
     who : C!Assignments, typed : SUBSET C!Rooms, persisted : C!Stored]

RoomCall ==
    [kind : C!Kinds, cruise : {0} \cup C!Cruises, room : {0} \cup C!Rooms,
     payload : C!Stored, done : BOOLEAN]

RoomsTyped ==
    /\ party \in [members : SUBSET C!Passengers, shown : SUBSET C!Passengers]
    /\ cruises \in [C!Cruises -> C!Stored]
    /\ modal \in Dialog
    /\ page \in [saving : BOOLEAN, savingRoom : BOOLEAN]
    /\ saves \in [C!Kinds -> {C!Idle} \cup RoomCall]
    /\ \A x \in C!Kinds : saves[x] # C!Idle => saves[x] \in RoomCall /\ saves[x].kind = x
    /\ saves["room"] # C!Idle => saves["room"].room \in C!Rooms

\* Whatever is stored, or believed to be, or sent, keeps the rules of the rooms.
RoomsLegal ==
    /\ \A c \in C!Cruises : C!Legal(cruises[c])
    /\ C!Legal(modal.persisted)
    /\ \A x \in C!Kinds : saves[x] # C!Idle => C!Legal(saves[x].payload)

\* While a room is saved nobody types, and the dialog of another cruise is untouched.
RoomsUntouched ==
    saves["room"] # C!Idle =>
        /\ page.savingRoom
        /\ modal.open /\ modal.cruise # saves["room"].cruise => modal.typed = {}

RoomsQuiet == ~ modal.open => modal.typed = {}

\* What is stored is of the passengers of the request.
RoomsOfParty == \A c \in C!Cruises : C!Assigned(cruises[c].who) \subseteq party.members

RoomsInv == RoomsTyped /\ RoomsLegal /\ RoomsOfParty /\ RoomsUntouched /\ RoomsQuiet

\* A reload only changes what is shown.
LEMMA ReloadKeeps ==
  ASSUME RoomsTyped, C!Reload \/ UNCHANGED party
  PROVE  /\ party' \in [members : SUBSET C!Passengers, shown : SUBSET C!Passengers]
         /\ party'.members = party.members
BY DEF RoomsTyped, C!Reload

LEMMA PartyKeeps ==
  ASSUME RoomsTyped, RoomsOfParty, C!Reload \/ UNCHANGED party, cruises' = cruises
  PROVE  RoomsOfParty'
BY ReloadKeeps DEF RoomsOfParty

LEMMA CardinalityIs == \A S : C!Cardinality(S) = Cardinality(S)
BY DEF C!Cardinality, Cardinality

LEMMA PassengersFinite == IsFiniteSet(C!Passengers) /\ Cardinality(C!Passengers) = NPassengers
BY FS_Interval, RoomsAssumption DEF C!Passengers

\* Fewer passengers in a room are legal where more were.
LEMMA FewerIsLegal ==
  ASSUME NEW s \in C!Stored, NEW who \in C!Assignments, NEW limit \in [C!Rooms -> C!Limits],
         C!Legal(s), \A k \in C!Rooms : who[k] \subseteq s.who[k] /\ limit[k] = s.limit[k]
  PROVE  C!validateRoomPassengerIds(who, limit)
<1>1. ASSUME NEW k \in C!Rooms
      PROVE  Cardinality(who[k]) <= limit[k]
  <2>1. s.who[k] \subseteq C!Passengers
    BY DEF C!Stored, C!Assignments
  <2>2. IsFiniteSet(s.who[k])
    BY <2>1, PassengersFinite, FS_Subset
  <2>3. /\ IsFiniteSet(who[k])
        /\ Cardinality(who[k]) <= Cardinality(s.who[k])
    BY <2>2, FS_Subset
  <2>4. Cardinality(s.who[k]) \in Nat /\ Cardinality(who[k]) \in Nat
    BY <2>2, <2>3, FS_CardinalityType
  <2>5. Cardinality(s.who[k]) <= s.limit[k] /\ s.limit[k] \in Nat
    BY CardinalityIs DEF C!Legal, C!validateRoomPassengerIds, C!Stored, C!Limits
  <2>6. QED  BY <2>3, <2>4, <2>5
<1>2. \A j, k \in C!Rooms : j # k => who[j] \cap who[k] = {}
  BY DEF C!Legal, C!validateRoomPassengerIds
<1>3. QED  BY <1>1, <1>2, CardinalityIs DEF C!validateRoomPassengerIds

\* The room of the form, merged into what is stored, is legal when it is so by itself:
\* its passengers leave the rooms they are stored in.
LEMMA MergeIsLegal ==
  ASSUME RoomsTyped, C!Legal(modal.persisted), NEW k \in C!Rooms,
         Cardinality(modal.who[k]) <= modal.limit[k]
  PROVE  /\ C!mergeRoomIntoCabinRooms(k) \in C!Stored
         /\ C!Legal(C!mergeRoomIntoCabinRooms(k))
<1> DEFINE m == C!mergeRoomIntoCabinRooms(k)
           s == modal.persisted
           bare == [j \in C!Rooms |-> IF j = k THEN {} ELSE s.who[j] \ modal.who[k]]
<1>1. /\ modal.who \in C!Assignments /\ modal.limit \in [C!Rooms -> C!Limits]
      /\ s \in C!Stored
  BY DEF RoomsTyped, Dialog
<1>2. /\ m.limit = [s.limit EXCEPT ![k] = modal.limit[k]]
      /\ m.who = [j \in C!Rooms |-> IF j = k THEN modal.who[k] ELSE s.who[j] \ modal.who[k]]
      /\ m = [limit |-> m.limit, who |-> m.who]
  BY DEF C!mergeRoomIntoCabinRooms
<1>3. m.limit \in [C!Rooms -> C!Limits] /\ m.who \in C!Assignments
  BY <1>1, <1>2 DEF C!Stored, C!Assignments
<1>4. m \in C!Stored
  BY <1>2, <1>3 DEF C!Stored
<1>5. bare \in C!Assignments
  BY <1>1 DEF C!Stored, C!Assignments
<1>6. C!validateRoomPassengerIds(bare, s.limit)
  <2>1. \A j \in C!Rooms : bare[j] \subseteq s.who[j]
    OBVIOUS
  <2>2. s.limit \in [C!Rooms -> C!Limits]
    BY <1>1 DEF C!Stored
  <2>3. QED  BY <1>1, <1>5, <2>1, <2>2, FewerIsLegal
<1>7. \A j \in C!Rooms : Cardinality(m.who[j]) <= m.limit[j]
  <2>1. \A j \in C!Rooms \ {k} : m.who[j] = bare[j] /\ m.limit[j] = s.limit[j]
    BY <1>1, <1>2 DEF C!Stored
  <2>2. m.who[k] = modal.who[k] /\ m.limit[k] = modal.limit[k]
    BY <1>1, <1>2 DEF C!Stored
  <2>3. QED  BY <1>6, <2>1, <2>2, CardinalityIs DEF C!validateRoomPassengerIds
<1>8. \A i, j \in C!Rooms : i # j => m.who[i] \cap m.who[j] = {}
  <2>1. \A j \in C!Rooms \ {k} : m.who[j] = s.who[j] \ modal.who[k]
    BY <1>2
  <2>2. m.who[k] = modal.who[k]
    BY <1>2
  <2>3. \A i, j \in C!Rooms : i # j => s.who[i] \cap s.who[j] = {}
    BY DEF C!Legal, C!validateRoomPassengerIds
  <2>4. QED  BY <2>1, <2>2, <2>3
<1>9. QED  BY <1>4, <1>7, <1>8, CardinalityIs DEF C!Legal, C!validateRoomPassengerIds

LEMMA EmptyIsLegal == C!Empty \in C!Stored /\ C!Legal(C!Empty)
<1>1. C!Empty.limit \in [C!Rooms -> C!Limits] /\ C!Empty.who \in C!Assignments
  BY RoomsAssumption DEF C!Empty, C!Limits, C!Assignments
<1>2. C!Empty \in C!Stored
  BY <1>1 DEF C!Stored, C!Empty
<1>3. C!Legal(C!Empty)
  BY <1>1, FS_EmptySet, CardinalityIs
  DEF C!Legal, C!validateRoomPassengerIds, C!Empty, C!Limits
<1>4. QED  BY <1>2, <1>3

\* The agent opens, cancels and types.
LEMMA DialogKeeps ==
  ASSUME RoomsInv, C!Open \/ C!Cancel \/ \E k \in C!Rooms : C!EditRoom(k) \/ C!TickPassenger(k)
  PROVE  RoomsInv' /\ C!KeepsTyped
<1> USE DEF RoomsInv
<1>0. /\ UNCHANGED <<cruises, page, saves>> /\ (C!Reload \/ UNCHANGED party) /\ modal \in Dialog
      /\ C!Empty \in C!Stored /\ C!Legal(C!Empty)
  BY EmptyIsLegal DEF C!Open, C!Cancel, C!EditRoom, C!TickPassenger, RoomsTyped
<1>a. /\ party' \in [members : SUBSET C!Passengers, shown : SUBSET C!Passengers]
      /\ RoomsOfParty'
  BY <1>0, ReloadKeeps, PartyKeeps
<1>1. CASE C!Open
  <2>1. PICK c \in {0} \cup C!Cruises, s \in C!Stored : modal' = C!Begun(c, s) /\ C!Legal(s)
    BY <1>0, <1>1 DEF C!Open, RoomsTyped, RoomsLegal
  <2>2. modal' \in Dialog /\ modal'.typed = {} /\ modal'.open /\ modal'.persisted = s
    BY <2>1 DEF C!Begun, Dialog, C!Stored
  <2>3. RoomsTyped' /\ RoomsLegal' /\ RoomsUntouched' /\ RoomsQuiet'
    BY <1>0, <1>a, <2>1, <2>2 DEF RoomsTyped, RoomsLegal, RoomsUntouched, RoomsQuiet
  <2>4. C!KeepsTyped
    BY <1>1 DEF C!KeepsTyped, C!Open, RoomsQuiet
  <2>5. QED  BY <1>a, <2>3, <2>4
<1>2. CASE C!Cancel
  <2>1. modal' = C!Shut /\ C!KeepsTyped
    BY <1>2 DEF C!Cancel, C!KeepsTyped
  <2>2. modal' \in Dialog /\ modal'.typed = {} /\ ~ modal'.open /\ modal'.persisted = C!Empty
    BY <1>0, <2>1 DEF C!Shut, C!Begun, Dialog, C!Stored
  <2>3. RoomsTyped' /\ RoomsLegal' /\ RoomsUntouched' /\ RoomsQuiet'
    BY <1>0, <1>a, <2>2 DEF RoomsTyped, RoomsLegal, RoomsUntouched, RoomsQuiet
  <2>4. QED  BY <1>a, <2>1, <2>3
<1>3. ASSUME NEW k \in C!Rooms, C!EditRoom(k)
      PROVE  RoomsInv' /\ C!KeepsTyped
  <2>1. PICK n \in C!Limits : modal' = [modal EXCEPT !.limit[k] = n, !.typed = @ \cup {k}]
    BY <1>3 DEF C!EditRoom
  <2>2. modal' \in Dialog /\ modal'.persisted = modal.persisted /\ modal'.open = modal.open
        /\ modal.typed \subseteq modal'.typed
    BY <1>0, <2>1 DEF Dialog
  <2>3. saves["room"] = C!Idle /\ modal.open
    BY <1>3 DEF C!EditRoom, C!Editable, C!Busy, RoomsUntouched
  <2>4. RoomsTyped' /\ RoomsLegal' /\ RoomsUntouched' /\ RoomsQuiet' /\ C!KeepsTyped
    BY <1>0, <1>a, <2>2, <2>3
    DEF RoomsTyped, RoomsLegal, RoomsUntouched, RoomsQuiet, C!KeepsTyped
  <2>5. QED  BY <1>a, <2>4
<1>4. ASSUME NEW k \in C!Rooms, C!TickPassenger(k)
      PROVE  RoomsInv' /\ C!KeepsTyped
  <2>0. party.shown \subseteq C!Passengers
    BY DEF RoomsTyped
  <2>1. PICK p \in C!Passengers :
          modal' = [modal EXCEPT !.who = C!toggleRoomPassengerId(@, k, p, modal.limit)]
    BY <1>4, <2>0 DEF C!TickPassenger
  <2>2. C!toggleRoomPassengerId(modal.who, k, p, modal.limit) \in C!Assignments
    BY <1>0 DEF Dialog, C!toggleRoomPassengerId, C!Assignments
  <2>3. modal' \in Dialog /\ modal'.persisted = modal.persisted /\ modal'.open = modal.open
        /\ modal.typed = modal'.typed /\ modal'.cruise = modal.cruise
    BY <1>0, <2>1, <2>2 DEF Dialog
  <2>4. RoomsTyped' /\ RoomsLegal' /\ RoomsUntouched' /\ RoomsQuiet' /\ C!KeepsTyped
    BY <1>0, <1>a, <2>3
    DEF RoomsTyped, RoomsLegal, RoomsUntouched, RoomsQuiet, C!KeepsTyped
  <2>5. QED  BY <1>a, <2>4
<1>5. QED  BY <1>1, <1>2, <1>3, <1>4

\* The agent saves: what is sent is legal.
LEMMA SendKeeps ==
  ASSUME RoomsInv, C!SaveCruise \/ \E k \in C!Rooms : C!SaveRoom(k)
  PROVE  RoomsInv' /\ C!KeepsTyped
<1> USE DEF RoomsInv
<1>1. PICK x \in C!Kinds, k \in {0} \cup C!Rooms, s \in C!Stored :
        /\ C!Legal(s) /\ C!Send(x, k, s) /\ (x = "room" => k \in C!Rooms) /\ C!Editable
  <2>1. CASE C!SaveCruise
    <3>1. [limit |-> modal.limit, who |-> modal.who] \in C!Stored
      BY DEF RoomsTyped, Dialog, C!Stored
    <3>2. C!Legal([limit |-> modal.limit, who |-> modal.who])
      BY <2>1 DEF C!SaveCruise, C!Legal
    <3>3. QED  BY <2>1, <3>1, <3>2 DEF C!SaveCruise, C!Kinds
  <2>2. ASSUME NEW k \in C!Rooms, C!SaveRoom(k)
        PROVE  /\ C!mergeRoomIntoCabinRooms(k) \in C!Stored
               /\ C!Legal(C!mergeRoomIntoCabinRooms(k))
               /\ C!Send("room", k, C!mergeRoomIntoCabinRooms(k)) /\ C!Editable
    <3>1. Cardinality(modal.who[k]) <= modal.limit[k]
      BY <2>2, CardinalityIs DEF C!SaveRoom
    <3>2. QED  BY <2>2, <3>1, MergeIsLegal DEF C!SaveRoom, RoomsLegal
  <2>3. QED  BY <2>1, <2>2 DEF C!Kinds
<1> DEFINE call == [kind |-> x, cruise |-> modal.cruise, room |-> k, payload |-> s, done |-> FALSE]
<1>2. call \in RoomCall /\ call.kind = x /\ call.payload = s /\ call.room = k
      /\ call.cruise = modal.cruise
  BY DEF RoomCall, RoomsTyped, Dialog
<1>3. /\ saves' = [saves EXCEPT ![x] = call] /\ UNCHANGED <<cruises, party, modal>>
      /\ page' = IF x = "room" THEN [page EXCEPT !.savingRoom = TRUE]
                               ELSE [page EXCEPT !.saving = TRUE]
  BY <1>1 DEF C!Send
<1> HIDE DEF call
<1>4. /\ saves' \in [C!Kinds -> {C!Idle} \cup RoomCall] /\ saves'[x] = call
      /\ \A y \in C!Kinds \ {x} : saves'[y] = saves[y]
  BY <1>2, <1>3 DEF RoomsTyped
<1>5. /\ page' \in [saving : BOOLEAN, savingRoom : BOOLEAN]
      /\ page.savingRoom \/ x = "room" => page'.savingRoom
  BY <1>3 DEF RoomsTyped
<1>6. RoomsTyped'
  BY <1>1, <1>2, <1>3, <1>4, <1>5 DEF RoomsTyped, C!Kinds
<1>7. RoomsLegal'
  BY <1>1, <1>2, <1>3, <1>4 DEF RoomsLegal
<1>8. RoomsUntouched' /\ RoomsQuiet'
  BY <1>2, <1>3, <1>4, <1>5 DEF RoomsUntouched, RoomsQuiet, C!Kinds
<1>9. C!KeepsTyped
  BY <1>3 DEF C!KeepsTyped
<1>10. RoomsOfParty'
  BY <1>3 DEF RoomsOfParty
<1>11. QED  BY <1>6, <1>7, <1>8, <1>9, <1>10

\* What a save makes of the rooms that are stored.
LEMMA AppliedIsLegal ==
  ASSUME RoomsInv, NEW x \in C!Kinds, saves[x] # C!Idle
  PROVE  /\ C!Applied(x) \in [C!Cruises -> C!Stored]
         /\ \A c \in C!Cruises : C!Legal(C!Applied(x)[c])
<1>1. saves[x].payload \in C!Stored /\ C!Legal(saves[x].payload)
  BY DEF RoomsInv, RoomsTyped, RoomsLegal, RoomCall
<1>2. CASE saves[x].cruise = 0
  BY <1>2 DEF C!Applied, RoomsInv, RoomsTyped, RoomsLegal
<1>3. CASE saves[x].cruise # 0
  <2>1. C!Applied(x) = [cruises EXCEPT ![saves[x].cruise] = saves[x].payload]
    BY <1>3 DEF C!Applied
  <2>2. QED  BY <1>1, <2>1 DEF RoomsInv, RoomsTyped, RoomsLegal
<1>4. QED  BY <1>2, <1>3

\* What a save that is accepted puts in the rooms is of the request.
LEMMA AppliedIsOfParty ==
  ASSUME RoomsInv, NEW x \in C!Kinds, saves[x] # C!Idle, C!Accepted(saves[x].payload),
         cruises' = C!Applied(x), UNCHANGED party
  PROVE  RoomsOfParty'
<1>1. C!Assigned(saves[x].payload.who) \subseteq party.members
  BY DEF C!Accepted, C!validate_proposed_cruise_passengers
<1>2. \A c \in C!Cruises : cruises'[c] = cruises[c] \/ cruises'[c] = saves[x].payload
  BY DEF C!Applied, RoomsInv, RoomsTyped
<1>3. QED  BY <1>1, <1>2 DEF RoomsInv, RoomsOfParty

\* A save is answered, or is not.
LEMMA AnswerKeeps ==
  ASSUME RoomsInv, C!RoomStored \/ C!RoomReturned \/ C!CruiseStored \/ C!CruiseReturned
  PROVE  RoomsInv' /\ C!KeepsTyped
<1> USE DEF RoomsInv
<1>0. /\ "room" \in C!Kinds /\ "full" \in C!Kinds /\ modal \in Dialog
      /\ \A x \in C!Kinds : saves[x] # C!Idle => saves[x] \in RoomCall
  BY DEF C!Kinds, RoomsTyped
<1>1. CASE C!RoomStored
  <2> DEFINE call == saves["room"]
  <2>1. /\ call # C!Idle /\ cruises' = C!Applied("room") /\ UNCHANGED <<party, page>>
        /\ modal' = IF modal.open /\ modal.cruise # call.cruise
                      THEN C!Begun(call.cruise, call.payload) ELSE modal
        /\ saves' = [saves EXCEPT !["room"].done = TRUE] /\ C!Accepted(call.payload)
    BY <1>1 DEF C!RoomStored
  <2>2. call \in RoomCall
    BY <1>0, <2>1
  <2>3. /\ saves' \in [C!Kinds -> {C!Idle} \cup RoomCall] /\ saves'["full"] = saves["full"]
        /\ saves'["room"] = [call EXCEPT !.done = TRUE]
    BY <1>0, <2>1, <2>2 DEF RoomsTyped, RoomCall, C!Kinds
  <2>4. /\ saves'["room"] \in RoomCall /\ saves'["room"].kind = call.kind
        /\ saves'["room"].room = call.room /\ saves'["room"].cruise = call.cruise
        /\ saves'["room"].payload = call.payload
    BY <2>2, <2>3 DEF RoomCall
  <2> HIDE DEF call
  <2>5. /\ modal' \in Dialog /\ C!Legal(modal'.persisted) /\ modal'.open = modal.open
        /\ modal'.typed = modal.typed
        /\ modal'.open => modal'.cruise = call.cruise
    <3>1. CASE modal.open /\ modal.cruise # call.cruise
      <4>1. modal' = C!Begun(call.cruise, call.payload)
        BY <2>1, <3>1
      <4>2. modal.typed = {}
        BY <2>1, <3>1 DEF RoomsUntouched, call
      <4>3. QED  BY <2>1, <2>2, <3>1, <4>1, <4>2
             DEF C!Accepted, C!Begun, Dialog, RoomCall, C!Stored
    <3>2. CASE ~ (modal.open /\ modal.cruise # call.cruise)
      BY <1>0, <2>1, <3>2 DEF RoomsLegal
    <3>3. QED  BY <3>1, <3>2
  <2>6. RoomsTyped'
    BY <1>0, <2>1, <2>3, <2>4, <2>5, AppliedIsLegal DEF RoomsTyped, C!Kinds, call
  <2>7. RoomsLegal'
    BY <1>0, <2>1, <2>3, <2>4, <2>5, AppliedIsLegal DEF RoomsLegal, C!Kinds, call
  <2>8. RoomsUntouched' /\ RoomsQuiet' /\ C!KeepsTyped
    BY <2>1, <2>4, <2>5 DEF RoomsUntouched, RoomsQuiet, C!KeepsTyped, call
  <2>9. RoomsOfParty'
    BY <1>0, <2>1, AppliedIsOfParty DEF call
  <2>10. QED  BY <2>6, <2>7, <2>8, <2>9
<1>2. CASE C!RoomReturned
  <2> DEFINE call == saves["room"]
  <2>1. /\ call # C!Idle /\ cruises' = cruises /\ C!Reload
        /\ page' = [page EXCEPT !.savingRoom = FALSE]
        /\ modal' = IF modal.open THEN C!Merged(call) ELSE modal
        /\ saves' = [saves EXCEPT !["room"] = C!Idle]
    BY <1>2 DEF C!RoomReturned
  <2>2. call \in RoomCall /\ call.room \in C!Rooms /\ C!Legal(call.payload)
    BY <1>0, <2>1 DEF RoomsTyped, RoomsLegal
  <2>3. /\ saves' \in [C!Kinds -> {C!Idle} \cup RoomCall] /\ saves'["full"] = saves["full"]
        /\ saves'["room"] = C!Idle
    BY <1>0, <2>1 DEF RoomsTyped, C!Kinds
  <2> HIDE DEF call
  <2>4. /\ modal' \in Dialog /\ C!Legal(modal'.persisted) /\ modal'.open = modal.open
        /\ modal.typed \ modal'.typed \subseteq {call.room}
        /\ modal.typed = {} => modal'.typed = {}
    <3>1. CASE modal.open
      <4>1. modal' = [modal EXCEPT !.limit[call.room] = call.payload.limit[call.room],
                          !.typed = @ \ {call.room}, !.who = call.payload.who,
                          !.persisted = call.payload]
        BY <2>1, <3>1 DEF C!Merged
      <4>2. /\ call.payload.limit[call.room] \in C!Limits /\ call.payload.who \in C!Assignments
            /\ call.payload \in C!Stored
        BY <2>2 DEF RoomCall, C!Stored
      <4>3. QED  BY <1>0, <2>2, <4>1, <4>2 DEF Dialog
    <3>2. CASE ~ modal.open
      BY <1>0, <2>1, <3>2 DEF RoomsLegal
    <3>3. QED  BY <3>1, <3>2
  <2>5. RoomsTyped' /\ RoomsOfParty'
    BY <2>1, <2>3, <2>4, ReloadKeeps, PartyKeeps DEF RoomsTyped, C!Kinds
  <2>6. RoomsLegal'
    BY <2>1, <2>3, <2>4 DEF RoomsLegal, C!Kinds
  <2>7. RoomsUntouched' /\ RoomsQuiet' /\ C!KeepsTyped
    BY <2>1, <2>3, <2>4 DEF RoomsUntouched, RoomsQuiet, C!KeepsTyped, call
  <2>8. QED  BY <2>5, <2>6, <2>7
<1>3. CASE C!CruiseStored
  <2> DEFINE call == saves["full"]
  <2>1. /\ call # C!Idle /\ cruises' = C!Applied("full") /\ UNCHANGED <<party, page>>
        /\ modal' = C!Shut /\ C!Accepted(call.payload)
        /\ saves' = [saves EXCEPT !["full"].done = TRUE]
    BY <1>3 DEF C!CruiseStored
  <2>2. /\ saves' \in [C!Kinds -> {C!Idle} \cup RoomCall] /\ saves'["room"] = saves["room"]
        /\ saves'["full"] = [call EXCEPT !.done = TRUE]
    BY <1>0, <2>1 DEF RoomsTyped, RoomCall, C!Kinds
  <2>3. /\ saves'["full"] \in RoomCall /\ saves'["full"].kind = call.kind
        /\ saves'["full"].payload = call.payload
    BY <1>0, <2>1, <2>2 DEF RoomCall
  <2>4. C!Empty \in C!Stored /\ C!Legal(C!Empty)
    BY EmptyIsLegal
  <2>5. modal' \in Dialog /\ modal'.typed = {} /\ ~ modal'.open /\ modal'.persisted = C!Empty
    BY <2>1, <2>4 DEF C!Shut, C!Begun, Dialog, C!Stored
  <2>6. RoomsTyped'
    BY <1>0, <2>1, <2>2, <2>3, <2>5, AppliedIsLegal DEF RoomsTyped, C!Kinds
  <2>7. RoomsLegal'
    BY <1>0, <2>1, <2>2, <2>3, <2>4, <2>5, AppliedIsLegal DEF RoomsLegal, C!Kinds
  <2>8. RoomsUntouched' /\ RoomsQuiet' /\ C!KeepsTyped
    BY <2>1, <2>2, <2>5 DEF RoomsUntouched, RoomsQuiet, C!KeepsTyped
  <2>9. RoomsOfParty'
    BY <1>0, <2>1, AppliedIsOfParty
  <2>10. QED  BY <2>6, <2>7, <2>8, <2>9
<1>4. CASE C!CruiseReturned
  <2>1. /\ cruises' = cruises /\ modal' = modal /\ C!Reload /\ page' = [page EXCEPT !.saving = FALSE]
        /\ saves' = [saves EXCEPT !["full"] = C!Idle]
    BY <1>4 DEF C!CruiseReturned
  <2>2. /\ saves' \in [C!Kinds -> {C!Idle} \cup RoomCall] /\ saves'["room"] = saves["room"]
        /\ saves'["full"] = C!Idle
        /\ page' \in [saving : BOOLEAN, savingRoom : BOOLEAN] /\ page'.savingRoom = page.savingRoom
    BY <1>0, <2>1 DEF RoomsTyped, C!Kinds
  <2>3. RoomsTyped' /\ RoomsLegal' /\ RoomsOfParty' /\ RoomsUntouched' /\ RoomsQuiet'
        /\ C!KeepsTyped
    BY <2>1, <2>2, ReloadKeeps, PartyKeeps
    DEF RoomsTyped, RoomsLegal, RoomsUntouched, RoomsQuiet, C!KeepsTyped, C!Kinds
  <2>4. QED  BY <2>3
<1>5. QED  BY <1>1, <1>2, <1>3, <1>4

LEMMA RoomFailureKeeps ==
  ASSUME RoomsInv, NEW x \in C!Kinds, C!Failed(x)
  PROVE  RoomsInv' /\ C!KeepsTyped
<1> USE DEF RoomsInv
<1>1. /\ saves[x] # C!Idle /\ modal' = modal /\ saves' = [saves EXCEPT ![x] = C!Idle]
      /\ \/ cruises' = cruises
         \/ cruises' = C!Applied(x) /\ C!Accepted(saves[x].payload)
      /\ UNCHANGED party
      /\ page' = IF x = "room" THEN [page EXCEPT !.savingRoom = FALSE]
                               ELSE [page EXCEPT !.saving = FALSE]
  BY DEF C!Failed
<1>2. /\ saves' \in [C!Kinds -> {C!Idle} \cup RoomCall] /\ saves'[x] = C!Idle
      /\ \A y \in C!Kinds \ {x} : saves'[y] = saves[y]
      /\ page' \in [saving : BOOLEAN, savingRoom : BOOLEAN]
      /\ x # "room" => page'.savingRoom = page.savingRoom
  BY <1>1 DEF RoomsTyped
<1>3. /\ cruises' \in [C!Cruises -> C!Stored]
      /\ \A c \in C!Cruises : C!Legal(cruises'[c])
  BY <1>1, AppliedIsLegal DEF RoomsTyped, RoomsLegal
<1>4. RoomsTyped' /\ RoomsLegal' /\ RoomsUntouched' /\ RoomsQuiet' /\ C!KeepsTyped
  BY <1>1, <1>2, <1>3
  DEF RoomsTyped, RoomsLegal, RoomsUntouched, RoomsQuiet, C!KeepsTyped, C!Kinds
<1>5. RoomsOfParty'
  BY <1>1, AppliedIsOfParty, PartyKeeps
<1>6. QED  BY <1>4, <1>5

\* Others take passengers out of rooms: fewer are legal, and of the request, where more
\* were.
LEMMA FewerKeep ==
  ASSUME RoomsInv, UNCHANGED <<modal, page, saves>>,
         cruises' \in [C!Cruises -> C!Stored],
         party' \in [members : SUBSET C!Passengers, shown : SUBSET C!Passengers],
         \A c \in C!Cruises :
            /\ cruises'[c].limit = cruises[c].limit
            /\ \A k \in C!Rooms :
                 /\ cruises'[c].who[k] \subseteq cruises[c].who[k]
                 /\ cruises'[c].who[k] \cap party.members \subseteq party'.members
  PROVE  RoomsInv' /\ C!KeepsTyped
<1> USE DEF RoomsInv
<1>1. ASSUME NEW c \in C!Cruises  PROVE C!Legal(cruises'[c])
  <2>1. /\ cruises[c] \in C!Stored /\ C!Legal(cruises[c])
        /\ cruises'[c].who \in C!Assignments /\ cruises'[c].limit \in [C!Rooms -> C!Limits]
    BY <1>1 DEF RoomsTyped, RoomsLegal, C!Stored
  <2>2. QED  BY <1>1, <2>1, FewerIsLegal DEF C!Legal
<1>2. RoomsTyped' /\ RoomsLegal' /\ RoomsUntouched' /\ RoomsQuiet' /\ C!KeepsTyped
  BY <1>1 DEF RoomsTyped, RoomsLegal, RoomsUntouched, RoomsQuiet, C!KeepsTyped
<1>3. RoomsOfParty'
  <2>1. ASSUME NEW c \in C!Cruises, NEW k \in C!Rooms
        PROVE  cruises'[c].who[k] \subseteq party'.members
    <3>1. cruises[c].who[k] \subseteq party.members
      BY DEF RoomsOfParty, C!Assigned
    <3>2. QED  BY <3>1
  <2>2. QED  BY <2>1 DEF RoomsOfParty, C!Assigned
<1>4. QED  BY <1>2, <1>3

LEMMA RoomElsewhereKeeps ==
  ASSUME RoomsInv, C!Elsewhere \/ \E p \in C!Passengers : C!delete_passenger(p)
  PROVE  RoomsInv' /\ C!KeepsTyped
<1> USE DEF RoomsInv
<1>0. cruises \in [C!Cruises -> C!Stored]
  BY DEF RoomsTyped
<1>1. CASE C!Elsewhere
  <2>1. PICK k \in C!Rooms, p \in C!Passengers : cruises' = [cruises EXCEPT ![1].who[k] = @ \ {p}]
    BY <1>1 DEF C!Elsewhere
  <2>2. UNCHANGED <<party, modal, page, saves>> /\ 1 \in C!Cruises /\ cruises[1] \in C!Stored
    BY <1>0, <1>1 DEF C!Elsewhere, C!Cruises
  <2>3. /\ cruises'[1] \in C!Stored /\ cruises'[1].limit = cruises[1].limit
        /\ \A j \in C!Rooms : cruises'[1].who[j] \subseteq cruises[1].who[j]
        /\ \A c \in C!Cruises \ {1} : cruises'[c] = cruises[c]
        /\ cruises' \in [C!Cruises -> C!Stored]
    BY <1>0, <2>1, <2>2 DEF C!Stored, C!Assignments
  <2>4. /\ party' \in [members : SUBSET C!Passengers, shown : SUBSET C!Passengers]
        /\ party'.members = party.members
    BY <2>2 DEF RoomsTyped
  <2>5. QED  BY <2>2, <2>3, <2>4, FewerKeep
<1>2. ASSUME NEW p \in C!Passengers, C!delete_passenger(p)
      PROVE  RoomsInv' /\ C!KeepsTyped
  <2>1. /\ UNCHANGED <<modal, page, saves>>
        /\ party' = [party EXCEPT !.members = @ \ {p}]
        /\ cruises' = [c \in C!Cruises |->
               [cruises[c] EXCEPT !.who = [k \in C!Rooms |-> cruises[c].who[k] \ {p}]]]
    BY <1>2 DEF C!delete_passenger
  <2>2. /\ party' \in [members : SUBSET C!Passengers, shown : SUBSET C!Passengers]
        /\ party'.members = party.members \ {p}
    BY <2>1 DEF RoomsTyped
  <2>3. ASSUME NEW c \in C!Cruises
        PROVE  /\ cruises'[c] \in C!Stored /\ cruises'[c].limit = cruises[c].limit
               /\ \A k \in C!Rooms : cruises'[c].who[k] = cruises[c].who[k] \ {p}
    <3>1. cruises'[c] = [cruises[c] EXCEPT !.who = [k \in C!Rooms |-> cruises[c].who[k] \ {p}]]
      BY <2>1
    <3>2. cruises[c] \in C!Stored
      BY <1>0
    <3>3. QED  BY <3>1, <3>2 DEF C!Stored, C!Assignments
  <2>4. cruises' \in [C!Cruises -> C!Stored]
    <3>1. cruises' = [c \in C!Cruises |-> cruises'[c]]
      BY <2>1
    <3>2. \A c \in C!Cruises : cruises'[c] \in C!Stored
      BY <2>3
    <3>3. QED  BY <3>1, <3>2
  <2>5. ASSUME NEW c \in C!Cruises
        PROVE  /\ cruises'[c].limit = cruises[c].limit
               /\ \A k \in C!Rooms :
                    /\ cruises'[c].who[k] \subseteq cruises[c].who[k]
                    /\ cruises'[c].who[k] \cap party.members \subseteq party'.members
    BY <2>2, <2>3
  <2>6. QED  BY <2>1, <2>2, <2>4, <2>5, FewerKeep
<1>3. QED  BY <1>1, <1>2

LEMMA RoomsStart == C!Init => RoomsInv
<1> SUFFICES ASSUME C!Init  PROVE RoomsInv
  OBVIOUS
<1>1. C!Empty \in C!Stored /\ C!Legal(C!Empty)
  BY EmptyIsLegal
<1>2. 1 \in C!Rooms /\ MaxLimit \in C!Limits
  BY RoomsAssumption DEF C!Rooms, C!Limits
<1> DEFINE s == [C!Empty EXCEPT !.who[1] = C!Passengers]
<1>3. s \in C!Stored
  BY <1>1, <1>2 DEF C!Stored, C!Assignments
<1>4. C!Legal(s)
  <2>1. /\ s.limit = C!Empty.limit /\ s.who[1] = C!Passengers
        /\ \A k \in C!Rooms \ {1} : s.who[k] = {}
    BY <1>2 DEF C!Empty
  <2>2. C!Empty.limit[1] = MaxLimit /\ \A k \in C!Rooms : C!Empty.limit[k] >= 0
    BY <1>2, RoomsAssumption DEF C!Empty
  <2>3. \A k \in C!Rooms : Cardinality(s.who[k]) <= s.limit[k]
    BY <2>1, <2>2, PassengersFinite, FS_EmptySet, RoomsAssumption
  <2>4. QED  BY <2>1, <2>3, CardinalityIs DEF C!Legal, C!validateRoomPassengerIds
<1>5. cruises = [c \in C!Cruises |-> IF c = 1 THEN s ELSE C!Empty]
  BY DEF C!Init
<1> HIDE DEF s
<1>6. /\ cruises \in [C!Cruises -> C!Stored] /\ \A c \in C!Cruises : C!Legal(cruises[c])
  BY <1>1, <1>3, <1>4, <1>5
<1>7. modal \in Dialog /\ modal.typed = {} /\ ~ modal.open /\ modal.persisted = C!Empty
  BY <1>1 DEF C!Init, C!Shut, C!Begun, Dialog, C!Stored
<1>8. saves = [x \in C!Kinds |-> C!Idle] /\ page = [saving |-> FALSE, savingRoom |-> FALSE]
  BY DEF C!Init
<1>9. /\ party \in [members : SUBSET C!Passengers, shown : SUBSET C!Passengers]
      /\ party.members = C!Passengers
  BY DEF C!Init
<1>10. RoomsOfParty
  <2>1. \A c \in C!Cruises : cruises[c].who \in C!Assignments
    BY <1>6 DEF C!Stored
  <2>2. QED  BY <1>9, <2>1 DEF RoomsOfParty, C!Assigned, C!Assignments
<1>11. QED
  BY <1>1, <1>6, <1>7, <1>8, <1>9, <1>10
  DEF RoomsInv, RoomsTyped, RoomsLegal, RoomsUntouched, RoomsQuiet, C!Kinds

LEMMA RoomsStep ==
  ASSUME RoomsInv, C!Next
  PROVE  RoomsInv' /\ C!KeepsTyped
BY DialogKeeps, SendKeeps, AnswerKeeps, RoomFailureKeeps, RoomElsewhereKeeps DEF C!Next

LEMMA RoomsStutter ==
  ASSUME RoomsInv, UNCHANGED roomVars
  PROVE  RoomsInv' /\ C!KeepsTyped
BY DEF roomVars, RoomsInv, RoomsTyped, RoomsLegal, RoomsOfParty, RoomsUntouched, RoomsQuiet, C!KeepsTyped

LEMMA RoomsHold == RoomsInv => C!TypeOK /\ C!SavesAreLegal
BY DEF RoomsInv, RoomsTyped, RoomsLegal, RoomsOfParty, Dialog, RoomCall, C!TypeOK,
       C!SavesAreLegal

-----------------------------------------------------------------------------
(* The insurance panel.                                                      *)

\* What a handler of each kind may have left to do.
Rest ==
    [load     |-> {<<"status">>},           poll    |-> {<<"status">>},
     confirm  |-> {<<"result", "reload">>, <<"reload">>},
     update   |-> {<<"call", "reload">>, <<"reload">>},
     clear    |-> {<<"call", "result", "reload">>, <<"result", "reload">>, <<"reload">>},
     quote    |-> {<<"call", "reload", "status">>, <<"reload", "status">>, <<"status">>},
     send     |-> {<<"call", "status">>, <<"status">>},
     client   |-> {<<"call", "status", "reload">>, <<"status", "reload">>, <<"reload">>},
     complete |-> {<<"call", "reload">>, <<"reload">>}]

\* What it was started with.
Args(kind) ==
    CASE kind = "client"   -> {"expired", "valid"}
      [] kind = "quote"    -> I!Quotes \X {"accepted", "declined"}
      [] kind = "complete" -> {"annual", "trip"}
      [] OTHER             -> {"none"}

Statuses ==
    [annual : {"none", "expired", "valid"}, tracking : {"pending", "annual", "waiver"},
     quotes : [I!Quotes -> I!QuoteStates], link : {"none", "pending", "expired", "completed"},
     can : BOOLEAN]

Reloads ==
    [quotes : [I!Quotes -> I!QuoteStates], checked : BOOLEAN, task : {"Open", "Done"}]

Panel ==
    [open : BOOLEAN, loading : BOOLEAN, status : {I!NoStatus} \cup Statuses,
     draft : {"kept", "future"}, busy : SUBSET I!Flags, checked : BOOLEAN, editor : BOOLEAN]

IsHandler(run) ==
    /\ run = [kind |-> run.kind, todo |-> run.todo, arg |-> run.arg, heard |-> run.heard,
              snap |-> run.snap]
    /\ run.kind \in I!Kinds /\ run.todo \in Rest[run.kind] /\ run.arg \in Args(run.kind)
    /\ run.heard \in BOOLEAN
    /\ run.snap # I!Unread =>
          /\ I!Head(run.todo) = "status" => run.snap \in Statuses
          /\ I!Head(run.todo) = "reload" => run.snap \in Reloads

InsuranceTyped ==
    /\ waivers \in I!Server /\ shown \in Reloads /\ panel \in Panel
    /\ handlers = [r \in I!Runs |-> handlers[r]]
    /\ \A r \in I!Runs : handlers[r] # I!Idle => IsHandler(handlers[r])

\* The answer is on record where anybody goes by it: the panel, the request that was
\* loaded or is about to be shown, a task that is being completed or was.
Knows(run, checked) ==
    /\ run.kind = "complete" /\ run.arg = "trip" => checked
    /\ I!Head(run.todo) = "reload" /\ run.snap # I!Unread /\ run.snap.checked => checked

Recorded ==
    /\ panel.checked => waivers.checked
    /\ shown.checked => waivers.checked
    /\ waivers.by = "trip" => waivers.checked
    /\ \A r \in I!Runs : handlers[r] # I!Idle => Knows(handlers[r], waivers.checked)

\* A handler that will take the flag of its kind off, and one that will end the loading.
Frees(r, f) == handlers[r] # I!Idle /\ handlers[r].heard /\ handlers[r].kind = f
Loads(r) ==
    /\ handlers[r] # I!Idle /\ handlers[r].heard
    /\ I!Head(handlers[r].todo) = "status" /\ handlers[r].kind # "poll"

Caused ==
    /\ \A f \in panel.busy : \E r \in I!Runs : Frees(r, f)
    /\ panel.loading => \E r \in I!Runs : Loads(r)

InsuranceInv == InsuranceTyped /\ Recorded /\ Caused

LEMMA KindsAre ==
  I!Kinds = {"load", "poll", "confirm", "update", "clear", "quote", "send", "client", "complete"}
BY DEF I!Kinds, I!Program

LEMMA Suffixes ==
  /\ I!Head(<<"status">>) = "status" /\ I!Tail(<<"status">>) = <<>>
  /\ I!Head(<<"reload">>) = "reload" /\ I!Tail(<<"reload">>) = <<>>
  /\ I!Head(<<"result", "reload">>) = "result" /\ I!Tail(<<"result", "reload">>) = <<"reload">>
  /\ I!Head(<<"call", "reload">>) = "call" /\ I!Tail(<<"call", "reload">>) = <<"reload">>
  /\ I!Head(<<"call", "result", "reload">>) = "call" /\ I!Tail(<<"call", "result", "reload">>) = <<"result", "reload">>
  /\ I!Head(<<"reload", "status">>) = "reload" /\ I!Tail(<<"reload", "status">>) = <<"status">>
  /\ I!Head(<<"call", "reload", "status">>) = "call" /\ I!Tail(<<"call", "reload", "status">>) = <<"reload", "status">>
  /\ I!Head(<<"call", "status">>) = "call" /\ I!Tail(<<"call", "status">>) = <<"status">>
  /\ I!Head(<<"status", "reload">>) = "status" /\ I!Tail(<<"status", "reload">>) = <<"reload">>
  /\ I!Head(<<"call", "status", "reload">>) = "call" /\ I!Tail(<<"call", "status", "reload">>) = <<"status", "reload">>
OBVIOUS

LEMMA Nonempty ==
  ASSUME NEW kind \in I!Kinds, NEW todo \in Rest[kind]
  PROVE  todo # <<>>
BY KindsAre DEF Rest

\* What is left, step by step.
LEMMA RestOf ==
  ASSUME NEW kind \in I!Kinds, NEW todo \in Rest[kind]
  PROVE  /\ todo # <<>> /\ I!Head(todo) \in {"call", "result", "status", "reload"}
         /\ I!Tail(todo) = <<>> \/ I!Tail(todo) \in Rest[kind]
         /\ I!Head(todo) = "call" => kind \notin {"load", "poll", "confirm"}
         /\ kind = "poll" => I!Head(todo) = "status" /\ I!Tail(todo) = <<>>
         /\ kind = "load" => I!Head(todo) = "status"
<1> HIDE DEF I!Kinds
<1>1. kind \in {"load", "poll"} => todo = <<"status">>
  BY DEF Rest
<1>2. kind = "confirm" => todo \in {<<"result", "reload">>, <<"reload">>}
  BY DEF Rest
<1>3. kind = "update" => todo \in {<<"call", "reload">>, <<"reload">>}
  BY DEF Rest
<1>4. kind = "clear" => todo \in {<<"call", "result", "reload">>, <<"result", "reload">>, <<"reload">>}
  BY DEF Rest
<1>5. kind = "quote" => todo \in {<<"call", "reload", "status">>, <<"reload", "status">>, <<"status">>}
  BY DEF Rest
<1>6. kind = "send" => todo \in {<<"call", "status">>, <<"status">>}
  BY DEF Rest
<1>7. kind = "client" => todo \in {<<"call", "status", "reload">>, <<"status", "reload">>, <<"reload">>}
  BY DEF Rest
<1>8. kind = "complete" => todo \in {<<"call", "reload">>, <<"reload">>}
  BY DEF Rest
<1>9. CASE kind \in {"load", "poll"}
  BY <1>1, <1>9, Suffixes, Nonempty
<1>10. CASE kind = "confirm"
  BY <1>2, <1>10, Suffixes, Nonempty DEF Rest
<1>11. CASE kind = "update"
  BY <1>3, <1>11, Suffixes, Nonempty DEF Rest
<1>12. CASE kind = "clear"
  BY <1>4, <1>12, Suffixes, Nonempty DEF Rest
<1>13. CASE kind = "quote"
  BY <1>5, <1>13, Suffixes, Nonempty DEF Rest
<1>14. CASE kind = "send"
  BY <1>6, <1>14, Suffixes, Nonempty DEF Rest
<1>15. CASE kind = "client"
  BY <1>7, <1>15, Suffixes, Nonempty DEF Rest
<1>16. CASE kind = "complete"
  BY <1>8, <1>16, Suffixes, Nonempty DEF Rest
<1>17. QED
  BY <1>9, <1>10, <1>11, <1>12, <1>13, <1>14, <1>15, <1>16, KindsAre

LEMMA ProgramIsRest ==
  ASSUME NEW kind \in I!Kinds
  PROVE  I!Program[kind] \in Rest[kind]
BY KindsAre DEF I!Program, Rest

\* The server and the workspace forget no check.
ServerGoes ==
    /\ waivers' \in I!Server /\ shown' \in Reloads
    /\ waivers.checked => waivers'.checked
    /\ shown'.checked \/ waivers'.by = "trip" => waivers'.checked

\* A panel a handler may leave behind: it loads for another one only.
Leaves(r, p) ==
    /\ p \in Panel /\ p.busy = panel.busy
    /\ p.checked => waivers'.checked
    /\ p.loading => \E q \in I!Runs \ {r} : Loads(q)

LEMMA KnownStays ==
  ASSUME InsuranceInv, ServerGoes, NEW q \in I!Runs, handlers[q] # I!Idle
  PROVE  Knows(handlers[q], waivers'.checked)
BY DEF InsuranceInv, Recorded, ServerGoes, Knows

\* The panel of a handler is gone.
LEMMA Unheard ==
  ASSUME InsuranceInv, NEW q \in I!Runs, handlers[q] # I!Idle,
         NEW h, h = [handlers[q] EXCEPT !.heard = FALSE]
  PROVE  /\ IsHandler(h) /\ h.kind = handlers[q].kind /\ h.arg = handlers[q].arg
         /\ h.todo = handlers[q].todo /\ h.snap = handlers[q].snap
<1>1. IsHandler(handlers[q])
  BY DEF InsuranceInv, InsuranceTyped
<1>2. handlers[q] = [kind |-> handlers[q].kind, todo |-> handlers[q].todo,
                     arg |-> handlers[q].arg, heard |-> handlers[q].heard,
                     snap |-> handlers[q].snap]
  BY <1>1 DEF IsHandler
<1>3. /\ h = [kind |-> h.kind, todo |-> h.todo, arg |-> h.arg, heard |-> h.heard, snap |-> h.snap]
      /\ h.kind = handlers[q].kind /\ h.todo = handlers[q].todo /\ h.arg = handlers[q].arg
      /\ h.heard = FALSE /\ h.snap = handlers[q].snap
  BY <1>2
<1>4. QED  BY <1>1, <1>3 DEF IsHandler

LEMMA EndedKeeps ==
  ASSUME InsuranceInv, ServerGoes, NEW r \in I!Runs, handlers[r] # I!Idle, NEW p, Leaves(r, p),
         NEW run, run.heard = handlers[r].heard, run.kind = handlers[r].kind, I!Ended(r, run, p)
  PROVE  InsuranceInv'
<1> USE DEF InsuranceInv
<1>1. CASE run.heard /\ run.kind = "complete" /\ run.todo = <<>>
  <2>1. /\ panel' = I!Closed
        /\ handlers' = [q \in I!Runs |-> IF q = r \/ handlers[q] = I!Idle THEN I!Idle
                                         ELSE [handlers[q] EXCEPT !.heard = FALSE]]
    BY <1>1 DEF I!Ended
  <2>2. panel' \in Panel /\ ~ panel'.checked /\ ~ panel'.loading /\ panel'.busy = {}
    BY <2>1 DEF I!Closed, I!Mounted, Panel, InsuranceTyped, Reloads
  <2>3. ASSUME NEW q \in I!Runs, handlers'[q] # I!Idle
        PROVE  /\ handlers[q] # I!Idle /\ IsHandler(handlers'[q])
               /\ handlers'[q].kind = handlers[q].kind /\ handlers'[q].arg = handlers[q].arg
               /\ handlers'[q].todo = handlers[q].todo /\ handlers'[q].snap = handlers[q].snap
    BY <2>1, <2>3, Unheard
  <2>4. InsuranceTyped'
    BY <2>1, <2>2, <2>3 DEF InsuranceTyped, ServerGoes
  <2>5. Recorded'
    <3>1. \A q \in I!Runs : handlers'[q] # I!Idle => Knows(handlers'[q], waivers'.checked)
      BY <2>3, KnownStays DEF Knows
    <3>2. QED  BY <2>2, <3>1 DEF Recorded, ServerGoes
  <2>6. Caused'
    BY <2>2 DEF Caused
  <2>7. QED  BY <2>4, <2>5, <2>6
<1>2. CASE ~ (run.heard /\ run.kind = "complete" /\ run.todo = <<>>)
  <2>1. /\ panel' = IF run.heard THEN I!Released(run, p) ELSE p
        /\ handlers' = [handlers EXCEPT ![r] = I!Idle]
    BY <1>2 DEF I!Ended
  <2>2. /\ handlers' = [q \in I!Runs |-> handlers'[q]] /\ handlers'[r] = I!Idle
        /\ \A q \in I!Runs \ {r} : handlers'[q] = handlers[q]
    BY <2>1 DEF InsuranceTyped
  <2>3. /\ panel' \in Panel /\ panel'.checked = p.checked /\ panel'.loading = p.loading
        /\ panel'.busy = IF handlers[r].heard THEN panel.busy \ {handlers[r].kind} ELSE panel.busy
    <3>1. p \in Panel /\ p.busy = panel.busy
      BY DEF Leaves
    <3>2. CASE handlers[r].heard
      <4>1. panel' = [p EXCEPT !.busy = @ \ {handlers[r].kind}]
        BY <2>1, <3>2 DEF I!Released
      <4>2. QED  BY <3>1, <3>2, <4>1 DEF Panel
    <3>3. CASE ~ handlers[r].heard
      BY <2>1, <3>1, <3>3
    <3>4. QED  BY <3>2, <3>3
  <2>4. InsuranceTyped'
    BY <2>2, <2>3 DEF InsuranceTyped, ServerGoes
  <2>5. Recorded'
    <3>1. \A q \in I!Runs : handlers'[q] # I!Idle => Knows(handlers'[q], waivers'.checked)
      BY <2>2, KnownStays
    <3>2. panel'.checked => waivers'.checked
      BY <2>3 DEF Leaves
    <3>3. QED  BY <3>1, <3>2 DEF Recorded, ServerGoes
  <2>6. Caused'
    BY <2>2, <2>3 DEF Caused, Leaves, Frees, Loads
  <2>7. QED  BY <2>4, <2>5, <2>6
<1>3. QED  BY <1>1, <1>2

LEMMA HandlerShape ==
  ASSUME NEW h, NEW next,
         h = [kind |-> h.kind, todo |-> h.todo, arg |-> h.arg, heard |-> h.heard, snap |-> h.snap]
  PROVE  [h EXCEPT !.todo = next, !.snap = I!Unread] =
         [kind |-> h.kind, todo |-> next, arg |-> h.arg, heard |-> h.heard, snap |-> I!Unread]
<1>1. [h EXCEPT !.todo = next] =
      [kind |-> h.kind, todo |-> next, arg |-> h.arg, heard |-> h.heard, snap |-> h.snap]
  OBVIOUS
<1>2. [h EXCEPT !.todo = next, !.snap = I!Unread] =
      [[h EXCEPT !.todo = next] EXCEPT !.snap = I!Unread]
  OBVIOUS
<1>3. \A k, t, a, d, n : [[kind |-> k, todo |-> t, arg |-> a, heard |-> d, snap |-> n]
                            EXCEPT !.snap = I!Unread] =
                         [kind |-> k, todo |-> t, arg |-> a, heard |-> d, snap |-> I!Unread]
  OBVIOUS
<1> DEFINE g == [h EXCEPT !.todo = next]
<1>4. g = [kind |-> h.kind, todo |-> next, arg |-> h.arg, heard |-> h.heard, snap |-> h.snap]
  BY <1>1
<1>5. [h EXCEPT !.todo = next, !.snap = I!Unread] = [g EXCEPT !.snap = I!Unread]
  BY <1>2
<1> HIDE DEF g
<1>6. QED  BY <1>3, <1>4, <1>5

LEMMA AdvanceKeeps ==
  ASSUME InsuranceInv, ServerGoes, NEW r \in I!Runs, handlers[r] # I!Idle, NEW p, Leaves(r, p),
         I!Advance(r, p)
  PROVE  InsuranceInv'
<1> USE DEF InsuranceInv
<1> DEFINE run == [handlers[r] EXCEPT !.todo = I!Tail(@), !.snap = I!Unread]
<1>1. IsHandler(handlers[r])
  BY DEF InsuranceTyped
<1>2. /\ run = [kind |-> handlers[r].kind, todo |-> I!Tail(handlers[r].todo), arg |-> handlers[r].arg,
                heard |-> handlers[r].heard, snap |-> I!Unread]
      /\ run.kind = handlers[r].kind /\ run.heard = handlers[r].heard
      /\ run.todo = I!Tail(handlers[r].todo) /\ run.arg = handlers[r].arg /\ run.snap = I!Unread
  <2>1. handlers[r] = [kind |-> handlers[r].kind, todo |-> handlers[r].todo,
                       arg |-> handlers[r].arg, heard |-> handlers[r].heard,
                       snap |-> handlers[r].snap]
    BY <1>1 DEF IsHandler
  <2>2. QED  BY <2>1, HandlerShape
<1> HIDE DEF run
<1>3. CASE run.todo = <<>>
  <2>1. I!Ended(r, run, p)
    BY <1>3 DEF I!Advance, run
  <2>2. QED  BY <1>2, <2>1, EndedKeeps
<1>4. CASE run.todo # <<>>
  <2>1. /\ handlers' = [handlers EXCEPT ![r] = run]
        /\ panel' = IF run.heard /\ I!Head(run.todo) = "status"
                      THEN [p EXCEPT !.loading = TRUE] ELSE p
    BY <1>4 DEF I!Advance, run
  <2>2. run.todo \in Rest[run.kind] /\ run.kind # "poll"
    BY <1>1, <1>2, <1>4, RestOf DEF IsHandler
  <2>3. IsHandler(run) /\ run # I!Idle
    BY <1>1, <1>2, <2>2, KindsAre DEF IsHandler, I!Idle
  <2>4. /\ handlers' = [q \in I!Runs |-> handlers'[q]] /\ handlers'[r] = run
        /\ \A q \in I!Runs \ {r} : handlers'[q] = handlers[q]
    BY <2>1 DEF InsuranceTyped
  <2>5. /\ panel' \in Panel /\ panel'.checked = p.checked /\ panel'.busy = panel.busy
        /\ panel'.loading => p.loading \/ (run.heard /\ I!Head(run.todo) = "status")
    <3>1. p \in Panel /\ p.busy = panel.busy
      BY DEF Leaves
    <3>2. /\ [p EXCEPT !.loading = TRUE] \in Panel
          /\ [p EXCEPT !.loading = TRUE].checked = p.checked
          /\ [p EXCEPT !.loading = TRUE].busy = p.busy
      BY <3>1 DEF Panel
    <3>3. CASE run.heard /\ I!Head(run.todo) = "status"
      BY <2>1, <3>1, <3>2, <3>3
    <3>4. CASE ~ (run.heard /\ I!Head(run.todo) = "status")
      BY <2>1, <3>1, <3>4
    <3>5. QED  BY <3>3, <3>4
  <2>6. InsuranceTyped'
    BY <2>3, <2>4, <2>5 DEF InsuranceTyped, ServerGoes
  <2>7. Recorded'
    <3>1. Knows(run, waivers'.checked)
      BY <1>2, KnownStays DEF Knows
    <3>2. \A q \in I!Runs : handlers'[q] # I!Idle => Knows(handlers'[q], waivers'.checked)
      BY <2>4, <3>1, KnownStays
    <3>3. panel'.checked => waivers'.checked
      BY <2>5 DEF Leaves
    <3>4. QED  BY <3>2, <3>3 DEF Recorded, ServerGoes
  <2>8. Caused'
    <3>1. \A f \in panel'.busy : \E q \in I!Runs : Frees(q, f)'
      <4>1. \A f : \A q \in I!Runs : Frees(q, f) => Frees(q, f)'
        BY <1>2, <2>3, <2>4 DEF Frees
      <4>2. QED  BY <2>5, <4>1 DEF Caused
    <3>2. panel'.loading => \E q \in I!Runs : Loads(q)'
      BY <2>2, <2>3, <2>4, <2>5 DEF Leaves, Loads
    <3>3. QED  BY <3>1, <3>2 DEF Caused
  <2>9. QED  BY <2>6, <2>7, <2>8
<1>5. QED  BY <1>3, <1>4

\* A step of the server or of the client, away from the panel.
LEMMA OutsideKeeps ==
  ASSUME InsuranceInv, ServerGoes, UNCHANGED <<panel, handlers>>
  PROVE  InsuranceInv'
BY DEF InsuranceInv, InsuranceTyped, Recorded, Knows, Caused, ServerGoes, Frees, Loads

\* A panel that changes by itself.
LEMMA PanelGoes ==
  ASSUME InsuranceInv, UNCHANGED <<waivers, shown, handlers>>, panel' \in Panel,
         panel'.busy \subseteq panel.busy, panel'.loading => panel.loading,
         panel'.checked => panel.checked
  PROVE  InsuranceInv'
BY DEF InsuranceInv, InsuranceTyped, Recorded, Caused, Frees, Loads

\* A handler starts.
LEMMA StartKeeps ==
  ASSUME InsuranceInv, NEW kind \in I!Kinds, NEW arg \in Args(kind), NEW p \in Panel, NEW run,
         run = I!Run(kind, arg), I!Start(run, p),
         p.checked => waivers.checked,
         p.busy \subseteq panel.busy \cup {kind},
         p.loading => panel.loading \/ kind = "load",
         kind = "complete" /\ arg = "trip" => waivers.checked
  PROVE  InsuranceInv'
<1> USE DEF InsuranceInv
<1>1. /\ run = [kind |-> kind, todo |-> I!Program[kind], arg |-> arg, heard |-> TRUE,
                snap |-> I!Unread]
      /\ run.kind = kind /\ run.todo = I!Program[kind] /\ run.arg = arg /\ run.heard
      /\ run.snap = I!Unread
  BY DEF I!Run
<1>2. IsHandler(run) /\ run # I!Idle
  BY <1>1, ProgramIsRest, KindsAre DEF IsHandler, I!Idle
<1>3. PICK r \in I!Free : handlers' = [handlers EXCEPT ![r] = run]
  BY DEF I!Start
<1>4. /\ r \in I!Runs /\ handlers[r] = I!Idle /\ handlers' = [q \in I!Runs |-> handlers'[q]]
      /\ handlers'[r] = run /\ \A q \in I!Runs \ {r} : handlers'[q] = handlers[q]
  BY <1>3 DEF I!Free, InsuranceTyped
<1>5. panel' = p /\ UNCHANGED <<waivers, shown>>
  BY DEF I!Start
<1>6. InsuranceTyped'
  BY <1>2, <1>4, <1>5 DEF InsuranceTyped
<1>7. Recorded'
  <2>1. Knows(run, waivers.checked)
    BY <1>1 DEF Knows
  <2>2. QED  BY <1>4, <1>5, <2>1 DEF Recorded
<1>8. Caused'
  <2>1. \A q \in I!Runs : q # r => handlers'[q] = handlers[q]
    BY <1>4
  <2>2. \A f \in p.busy : \E q \in I!Runs : Frees(q, f)'
    <3>1. \A f : \A q \in I!Runs : Frees(q, f) => Frees(q, f)'
      BY <1>4, <2>1 DEF Frees
    <3>2. Frees(r, kind)'
      BY <1>1, <1>2, <1>4 DEF Frees
    <3>3. QED  BY <1>4, <3>1, <3>2 DEF Caused
  <2>3. kind = "load" => I!Head(run.todo) = "status"
    BY <1>1, RestOf, ProgramIsRest
  <2>4. p.loading => \E q \in I!Runs : Loads(q)'
    <3>1. \A q \in I!Runs : Loads(q) => Loads(q)'
      BY <1>4, <2>1 DEF Loads
    <3>2. kind = "load" => Loads(r)'
      BY <1>1, <1>2, <1>4, <2>3 DEF Loads
    <3>3. QED  BY <1>4, <3>1, <3>2 DEF Caused
  <2>5. QED  BY <1>5, <2>2, <2>4 DEF Caused
<1>9. QED  BY <1>6, <1>7, <1>8

LEMMA RunWith ==
  ASSUME NEW kind, NEW a, NEW b, NEW run, run = I!Run(kind, a)
  PROVE  [run EXCEPT !.arg = b] = I!Run(kind, b)
<1>1. run = [kind |-> run.kind, todo |-> run.todo, arg |-> run.arg, heard |-> run.heard,
             snap |-> run.snap]
  BY DEF I!Run
<1>2. [run EXCEPT !.arg = b] = [kind |-> run.kind, todo |-> run.todo, arg |-> b,
                                heard |-> run.heard, snap |-> run.snap]
  BY <1>1
<1>3. /\ run.kind = kind /\ run.todo = I!Program[kind] /\ run.heard = TRUE
      /\ run.snap = I!Unread
  BY DEF I!Run
<1>4. QED  BY <1>2, <1>3 DEF I!Run

LEMMA AgentKeeps ==
  ASSUME InsuranceInv, I!Agent
  PROVE  InsuranceInv'
<1> USE DEF InsuranceInv
<1>0. /\ panel \in Panel /\ shown \in Reloads
      /\ panel.checked => waivers.checked
      /\ shown.checked => waivers.checked
  BY DEF InsuranceTyped, Recorded
<1>1. /\ I!Mounted \in Panel /\ I!Mounted.busy = {} /\ I!Mounted.checked = shown.checked
      /\ I!Closed \in Panel /\ I!Closed.busy = {} /\ ~ I!Closed.checked /\ ~ I!Closed.loading
  BY <1>0 DEF I!Mounted, I!Closed, Panel, Reloads
<1>2. \A kind \in I!Flags :
        /\ I!Flagged(kind) \in Panel /\ I!Flagged(kind).busy = panel.busy \cup {kind}
        /\ I!Flagged(kind).checked = panel.checked /\ I!Flagged(kind).loading = panel.loading
  BY <1>0 DEF I!Flagged, Panel
<1>3. I!Flags \subseteq I!Kinds /\ {"load", "poll", "client"} \subseteq I!Kinds
  BY KindsAre DEF I!Flags, I!Footer
\* A handler with a flag of its own.
<1>4. ASSUME NEW kind \in I!Flags, NEW arg \in Args(kind), I!Begin(kind, arg),
             kind = "complete" /\ arg = "trip" => waivers.checked
      PROVE  InsuranceInv'
  <2>1. I!Start(I!Run(kind, arg), I!Flagged(kind))
    BY <1>4 DEF I!Begin
  <2>2. QED  BY <1>0, <1>2, <1>3, <1>4, <2>1, StartKeeps
<1>5. CASE I!OpenTask
  <2>1. I!Start(I!Run("load", "none"), I!Mounted) /\ "none" \in Args("load")
    BY <1>5 DEF I!OpenTask, Args
  <2>2. QED  BY <1>0, <1>1, <1>3, <2>1, StartKeeps
<1>6. CASE I!CloseTask
  <2>1. /\ panel' = I!Closed /\ UNCHANGED <<waivers, shown>>
        /\ handlers' = [r \in I!Runs |-> IF handlers[r] = I!Idle THEN I!Idle
                                         ELSE [handlers[r] EXCEPT !.heard = FALSE]]
    BY <1>6 DEF I!CloseTask
  <2>2. ASSUME NEW q \in I!Runs, handlers'[q] # I!Idle
        PROVE  /\ handlers[q] # I!Idle /\ IsHandler(handlers'[q])
               /\ handlers'[q].kind = handlers[q].kind /\ handlers'[q].arg = handlers[q].arg
               /\ handlers'[q].todo = handlers[q].todo /\ handlers'[q].snap = handlers[q].snap
    BY <2>1, <2>2, Unheard
  <2>3. InsuranceTyped'
    BY <1>1, <2>1, <2>2 DEF InsuranceTyped
  <2>4. Recorded'
    BY <1>1, <2>1, <2>2 DEF Recorded, Knows
  <2>5. Caused'
    BY <1>1, <2>1 DEF Caused
  <2>6. QED  BY <2>3, <2>4, <2>5
<1>7. CASE I!Poll
  <2>1. CASE I!Start(I!Run("poll", "none"), panel)
    <3>1. "none" \in Args("poll")
      BY DEF Args
    <3>2. QED  BY <1>0, <1>3, <2>1, <3>1, StartKeeps
  <2>2. CASE I!Start(I!Run("load", "none"), [panel EXCEPT !.loading = TRUE])
    <3>1. "none" \in Args("load")
      BY DEF Args
    <3>2. /\ [panel EXCEPT !.loading = TRUE] \in Panel
          /\ [panel EXCEPT !.loading = TRUE].busy = panel.busy
          /\ [panel EXCEPT !.loading = TRUE].checked = panel.checked
      BY <1>0 DEF Panel
    <3>3. QED  BY <1>0, <1>3, <2>2, <3>1, <3>2, StartKeeps
  <2>3. QED  BY <1>7, <2>1, <2>2 DEF I!Poll
<1>8. CASE I!handleConfirmAnnualCheck
  BY <1>4, <1>8 DEF I!handleConfirmAnnualCheck, I!Flags, I!Footer, Args
<1>9. CASE I!AddAnnualInsurance \/ I!LeaveEditor \/ I!EditAnnual
  <2>1. /\ UNCHANGED <<waivers, shown, handlers>>
        /\ \/ panel' = [panel EXCEPT !.editor = TRUE]
           \/ panel' = [panel EXCEPT !.editor = FALSE]
           \/ panel' = [panel EXCEPT !.draft = "future"]
    BY <1>9 DEF I!AddAnnualInsurance, I!LeaveEditor, I!EditAnnual
  <2>2. /\ panel' \in Panel /\ panel'.busy = panel.busy
        /\ panel'.loading = panel.loading /\ panel'.checked = panel.checked
    BY <1>0, <2>1 DEF Panel
  <2>3. QED  BY <2>1, <2>2, PanelGoes
<1>10. CASE I!SaveClient
  <2>1. PICK a \in {"expired", "valid"} : I!Start(I!Run("client", a), panel)
    BY <1>10 DEF I!SaveClient
  <2>2. a \in Args("client")
    BY DEF Args
  <2>3. QED  BY <1>0, <1>3, <2>1, <2>2, StartKeeps
<1>11. CASE I!handleUpdateAnnual
  BY <1>4, <1>11 DEF I!handleUpdateAnnual, I!Flags, I!Footer, Args
<1>12. CASE I!handleRemoveAnnualInsurance
  BY <1>4, <1>12 DEF I!handleRemoveAnnualInsurance, I!Flags, I!Footer, Args
<1>13. CASE I!handleQuoteStatusChange
  <2>1. PICK q \in I!Quotes, v \in {"accepted", "declined"} :
          I!Start([I!Run("quote", v) EXCEPT !.arg = <<q, v>>], I!Flagged("quote"))
    BY <1>13 DEF I!handleQuoteStatusChange
  <2>2. <<q, v>> \in Args("quote") /\ "quote" \in I!Flags
    BY DEF Args, I!Flags
  <2>3. \A a : [I!Run("quote", v) EXCEPT !.arg = a] = I!Run("quote", a)
    BY RunWith
  <2>4. QED  BY <1>0, <1>2, <1>3, <2>1, <2>2, <2>3, StartKeeps
<1>14. CASE I!handleSendWaiver
  BY <1>4, <1>14 DEF I!handleSendWaiver, I!Flags, I!Footer, Args
<1>15. CASE I!handleNavigateToQuotedInsurance
  BY <1>6, <1>15 DEF I!handleNavigateToQuotedInsurance
<1>16. CASE I!handleCompleteTask
  <2>1. {"annual", "trip"} \subseteq Args("complete") /\ "complete" \in I!Flags
    BY DEF Args, I!Flags, I!Footer
  <2>2. CASE I!Begin("complete", "annual")
    BY <1>4, <2>1, <2>2
  <2>3. CASE I!TripCompletes /\ I!Begin("complete", "trip")
    <3>1. panel.checked
      BY <1>16, <2>3 DEF I!handleCompleteTask, I!TripCompletes, I!PerTrip
    <3>2. QED  BY <1>0, <1>4, <2>1, <2>3, <3>1
  <2>4. QED  BY <1>16, <2>2, <2>3 DEF I!handleCompleteTask
<1>17. QED
  BY <1>5, <1>6, <1>7, <1>8, <1>9, <1>10, <1>11, <1>12, <1>13, <1>14, <1>15, <1>16 DEF I!Agent

\* What the own request of a handler does, if it comes through.
LEMMA CallGoes ==
  ASSUME InsuranceInv, NEW r \in I!Runs, I!At(r, "call")
  PROVE  /\ I!Applied(handlers[r]) \in I!Server
         /\ waivers.checked = I!Applied(handlers[r]).checked
         /\ I!Applied(handlers[r]).by = "trip" => waivers.checked
<1> DEFINE run == handlers[r]
<1>1. /\ IsHandler(run) /\ waivers \in I!Server
      /\ waivers.by = "trip" => waivers.checked
      /\ run.kind = "complete" /\ run.arg = "trip" => waivers.checked
  BY DEF InsuranceInv, InsuranceTyped, Recorded, Knows, I!At
<1>2. /\ run.kind \in I!Kinds /\ run.kind \notin {"load", "poll", "confirm"}
      /\ run.arg \in Args(run.kind)
  BY <1>1, RestOf DEF IsHandler, I!At
<1> HIDE DEF run
<1>3. CASE run.kind = "update"
  BY <1>1, <1>3 DEF I!Applied, I!Server, run
<1>4. CASE run.kind = "clear"
  BY <1>1, <1>4 DEF I!Applied, I!Server, run
<1>5. CASE run.kind = "client"
  BY <1>1, <1>2, <1>5 DEF I!Applied, I!Server, Args, run
<1>6. CASE run.kind = "quote"
  <2>1. PICK q \in I!Quotes, v \in {"accepted", "declined"} : run.arg = <<q, v>>
    BY <1>2, <1>6 DEF Args
  <2>2. I!Applied(run) = [waivers EXCEPT !.quotes[q] = v]
    BY <1>6, <2>1 DEF I!Applied
  <2>3. [waivers.quotes EXCEPT ![q] = v] \in [I!Quotes -> I!QuoteStates]
    BY <1>1 DEF I!Server, I!QuoteStates
  <2>4. QED  BY <1>1, <2>2, <2>3 DEF I!Server, run
<1>7. CASE run.kind = "send"
  BY <1>1, <1>7 DEF I!Applied, I!Server, run
<1>8. CASE run.kind = "complete"
  <2>1. I!Applied(run) = [waivers EXCEPT !.task = "Done",
                                         !.by = IF @ = "nobody" THEN run.arg ELSE @]
    BY <1>8 DEF I!Applied
  <2>2. run.arg \in {"annual", "trip"}
    BY <1>2, <1>8 DEF Args
  <2>3. QED  BY <1>1, <1>8, <2>1, <2>2 DEF I!Server, run
<1>9. QED
  BY <1>2, <1>3, <1>4, <1>5, <1>6, <1>7, <1>8, KindsAre

LEMMA StatusType ==
  ASSUME waivers \in I!Server, NEW s \in I!Server
  PROVE  /\ I!Status(s) \in Statuses
         /\ I!Swept(s) \in I!Server /\ I!Swept(s).checked = s.checked /\ I!Swept(s).by = s.by
<1>1. /\ I!Swept(s) \in I!Server /\ I!Swept(s).checked = s.checked /\ I!Swept(s).by = s.by
      /\ I!Swept(s).link \in {"none", "pending", "expired", "completed"}
  BY DEF I!Swept, I!Server
<1>2. I!_waiver_request_summary(s) \in {"none", "pending", "expired", "completed"}
  BY <1>1 DEF I!_waiver_request_summary
<1>3. I!_completion_state(s) \in BOOLEAN
  BY DEF I!_completion_state, I!Some
<1>4. QED  BY <1>1, <1>2, <1>3 DEF I!Status, Statuses, I!Server

LEMMA FailedKeeps ==
  ASSUME InsuranceInv, NEW r \in I!Runs, I!At(r, "call") \/ I!At(r, "result"),
         NEW s \in I!Server, waivers.checked => s.checked, s.by = "trip" => s.checked,
         I!Failed(r, s)
  PROVE  InsuranceInv'
<1>1. handlers[r] # I!Idle /\ waivers' \in {waivers, s} /\ shown' = shown
      /\ I!Ended(r, handlers[r], panel)
  BY DEF I!At, I!Failed
<1>2. ServerGoes
  BY <1>1 DEF ServerGoes, InsuranceInv, InsuranceTyped, Recorded
<1>3. Leaves(r, panel)
  BY <1>1, <1>2 DEF Leaves, InsuranceInv, InsuranceTyped, Recorded, Caused, ServerGoes, Loads, I!At
<1>4. QED  BY <1>1, <1>2, <1>3, EndedKeeps

LEMMA HandlerKeeps ==
  ASSUME InsuranceInv, NEW r \in I!Runs,
         I!OwnCall(r) \/ I!ResultCall(r) \/ I!Read(r) \/ I!StatusShown(r) \/ I!ReloadShown(r)
  PROVE  InsuranceInv'
<1> USE DEF InsuranceInv
<1>0. /\ handlers[r] # I!Idle /\ IsHandler(handlers[r])
      /\ panel \in Panel /\ shown \in Reloads /\ waivers \in I!Server
      /\ panel.checked => waivers.checked
      /\ shown.checked => waivers.checked
      /\ waivers.by = "trip" => waivers.checked
      /\ panel.loading => \E q \in I!Runs : Loads(q)
  BY DEF I!OwnCall, I!ResultCall, I!Read, I!StatusShown, I!ReloadShown, I!At,
         InsuranceTyped, Recorded, Caused
<1>1. CASE I!OwnCall(r)
  <2>0. I!At(r, "call")
    BY <1>1 DEF I!OwnCall
  <2>1. CASE I!Failed(r, IF I!Accepts(handlers[r]) THEN I!Applied(handlers[r]) ELSE waivers)
    BY <1>0, <2>0, <2>1, CallGoes, FailedKeeps
  <2>2. CASE /\ waivers' = I!Applied(handlers[r]) /\ shown' = shown
             /\ I!Advance(r, I!Heard(r, I!Answered(handlers[r], I!Applied(handlers[r]), panel)))
    <3> DEFINE p == I!Heard(r, I!Answered(handlers[r], I!Applied(handlers[r]), panel))
    <3>1. ServerGoes
      BY <1>0, <2>0, <2>2, CallGoes DEF ServerGoes
    <3>2. I!Status(waivers') \in Statuses
      BY <1>0, <2>0, <2>2, CallGoes, StatusType
    <3>3. \/ p = panel
          \/ p = [panel EXCEPT !.status = I!Status(waivers'), !.draft = "kept"]
          \/ p = [panel EXCEPT !.editor = FALSE]
      BY <2>2 DEF I!Heard, I!Answered, I!Showing
    <3> HIDE DEF p
    <3>4. /\ p \in Panel /\ p.busy = panel.busy /\ p.checked = panel.checked
          /\ p.loading = panel.loading
      BY <1>0, <3>2, <3>3 DEF Panel
    <3>5. Leaves(r, p)
      BY <1>0, <2>0, <3>1, <3>4 DEF Leaves, ServerGoes, Loads, I!At
    <3>6. QED  BY <1>0, <2>2, <3>1, <3>5, AdvanceKeeps DEF p
  <2>3. QED  BY <1>1, <2>1, <2>2 DEF I!OwnCall
<1>2. CASE I!ResultCall(r)
  <2>0. /\ I!At(r, "result") /\ [waivers EXCEPT !.checked = TRUE] \in I!Server
        /\ [waivers EXCEPT !.checked = TRUE].checked
    BY <1>0, <1>2 DEF I!ResultCall, I!Server
  <2>1. CASE I!Failed(r, [waivers EXCEPT !.checked = TRUE])
    BY <2>0, <2>1, FailedKeeps
  <2>2. CASE /\ waivers' = [waivers EXCEPT !.checked = TRUE] /\ shown' = shown
             /\ I!Advance(r, I!Heard(r, [panel EXCEPT !.checked = TRUE]))
    <3> DEFINE p == I!Heard(r, [panel EXCEPT !.checked = TRUE])
    <3>1. ServerGoes
      BY <1>0, <2>0, <2>2 DEF ServerGoes
    <3>2. p \in Panel /\ p.busy = panel.busy /\ p.loading = panel.loading
      BY <1>0 DEF I!Heard, Panel
    <3>3. Leaves(r, p)
      BY <1>0, <2>0, <2>2, <3>2 DEF Leaves, Loads, I!At
    <3>4. QED  BY <1>0, <2>2, <3>1, <3>3, AdvanceKeeps
  <2>3. QED  BY <1>2, <2>1, <2>2 DEF I!ResultCall
<1>3. CASE I!Read(r)
  <2> DEFINE run == handlers[r]
             snap == IF I!At(r, "status") THEN I!Status(waivers) ELSE I!Request(waivers)
  <2>1. /\ I!At(r, "status") \/ I!At(r, "reload")
        /\ handlers' = [handlers EXCEPT ![r].snap = snap]
        /\ waivers' = IF I!At(r, "status") THEN I!Swept(waivers) ELSE waivers
        /\ UNCHANGED <<shown, panel>>
    BY <1>3 DEF I!Read
  <2>2. /\ I!At(r, "status") => snap \in Statuses
        /\ ~ I!At(r, "status") => snap \in Reloads /\ snap.checked = waivers.checked
    BY <1>0, StatusType DEF I!Request, Reloads, I!Server
  <2>3. handlers' = [handlers EXCEPT ![r] = [run EXCEPT !.snap = snap]]
    BY <2>1
  <2> HIDE DEF snap
  <2>4. [run EXCEPT !.snap = snap] = [kind |-> run.kind, todo |-> run.todo, arg |-> run.arg,
                                      heard |-> run.heard, snap |-> snap]
    BY <1>0 DEF IsHandler
  <2>5. /\ handlers' = [q \in I!Runs |-> handlers'[q]]
        /\ handlers'[r] = [run EXCEPT !.snap = snap]
        /\ \A q \in I!Runs \ {r} : handlers'[q] = handlers[q]
    BY <2>3 DEF InsuranceTyped
  <2>6. /\ handlers'[r].kind = run.kind /\ handlers'[r].todo = run.todo
        /\ handlers'[r].arg = run.arg /\ handlers'[r].heard = run.heard
        /\ handlers'[r].snap = snap
    BY <2>4, <2>5
  <2>7. IsHandler(handlers'[r]) /\ handlers'[r] # I!Idle
    <3>1. handlers'[r] # I!Idle
      BY <1>0, <2>6, KindsAre DEF I!Idle, IsHandler
    <3>2. I!At(r, "status") \/ I!Head(run.todo) = "reload"
      BY <2>1 DEF I!At
    <3>3. I!At(r, "status") => I!Head(run.todo) = "status"
      BY DEF I!At
    <3>4. I!Head(run.todo) = "status" => I!At(r, "status")
      BY <1>0 DEF I!At
    <3>5. QED  BY <1>0, <2>2, <2>4, <2>5, <2>6, <3>1, <3>2, <3>3, <3>4 DEF IsHandler
  <2>8. /\ waivers' \in I!Server /\ waivers'.checked = waivers.checked /\ waivers'.by = waivers.by
    BY <1>0, <2>1, StatusType
  <2>9. InsuranceTyped'
    BY <1>0, <2>1, <2>5, <2>7, <2>8 DEF InsuranceTyped
  <2>10. Recorded'
    <3>1. Knows(handlers'[r], waivers.checked)
      BY <1>0, <2>1, <2>2, <2>6 DEF Knows, Recorded, I!At
    <3>2. QED  BY <2>1, <2>5, <2>8, <3>1 DEF Recorded
  <2>11. Caused'
    <3>1. \A f : \A q \in I!Runs : Frees(q, f) => Frees(q, f)'
      BY <2>5, <2>6, <2>7 DEF Frees
    <3>2. \A q \in I!Runs : Loads(q) => Loads(q)'
      BY <2>5, <2>6, <2>7 DEF Loads
    <3>3. QED  BY <2>1, <3>1, <3>2 DEF Caused
  <2>12. QED  BY <2>9, <2>10, <2>11
<1>4. CASE I!StatusShown(r)
  <2>1. I!At(r, "status") /\ UNCHANGED <<waivers, shown>>
    BY <1>4 DEF I!StatusShown
  <2>2. ServerGoes
    BY <1>0, <2>1 DEF ServerGoes
  <2>3. PICK q \in Panel :
          /\ q.busy = panel.busy /\ q.checked = panel.checked /\ q.loading = panel.loading
          /\ I!Advance(r, I!Heard(r, I!Quiet(handlers[r], q)))
          /\ ~ handlers[r].heard => I!Heard(r, I!Quiet(handlers[r], q)) = panel
    <3>1. CASE I!Advance(r, I!Heard(r, I!Quiet(handlers[r], panel)))
      BY <1>0, <3>1 DEF I!Heard
    <3>2. CASE /\ handlers[r].snap # I!Unread
               /\ I!Advance(r, I!Heard(r, I!Quiet(handlers[r], I!Showing(panel, handlers[r].snap))))
      <4>1. handlers[r].snap \in Statuses
        BY <1>0, <2>1, <3>2 DEF IsHandler, I!At
      <4>2. /\ I!Showing(panel, handlers[r].snap) \in Panel
            /\ I!Showing(panel, handlers[r].snap).busy = panel.busy
            /\ I!Showing(panel, handlers[r].snap).checked = panel.checked
            /\ I!Showing(panel, handlers[r].snap).loading = panel.loading
        BY <1>0, <4>1 DEF I!Showing, Panel
      <4>3. QED  BY <3>2, <4>2 DEF I!Heard
    <3>3. QED  BY <1>4, <3>1, <3>2 DEF I!StatusShown
  <2> DEFINE p == I!Heard(r, I!Quiet(handlers[r], q))
  <2>4. /\ p \in Panel /\ p.busy = panel.busy /\ p.checked = panel.checked
        /\ p.loading => panel.loading /\ ~ (handlers[r].heard /\ handlers[r].kind # "poll")
    <3>1. CASE ~ handlers[r].heard
      BY <1>0, <2>3, <3>1
    <3>2. CASE handlers[r].heard /\ handlers[r].kind = "poll"
      <4>1. p = q
        BY <3>2 DEF I!Heard, I!Quiet
      <4>2. QED  BY <2>3, <3>2, <4>1
    <3>3. CASE handlers[r].heard /\ handlers[r].kind # "poll"
      <4>1. p = [q EXCEPT !.loading = FALSE]
        BY <3>3 DEF I!Heard, I!Quiet
      <4>2. QED  BY <2>3, <4>1 DEF Panel
    <3>4. QED  BY <3>1, <3>2, <3>3
  <2> HIDE DEF p
  <2>5. Leaves(r, p)
    BY <1>0, <2>1, <2>4 DEF Leaves, Loads
  <2>6. QED  BY <1>0, <2>2, <2>3, <2>5, AdvanceKeeps DEF p
<1>5. CASE I!ReloadShown(r)
  <2>1. I!At(r, "reload") /\ waivers' = waivers
    BY <1>5 DEF I!ReloadShown
  <2>2. CASE UNCHANGED shown /\ I!Advance(r, panel)
    <3>1. ServerGoes /\ Leaves(r, panel)
      BY <1>0, <2>1, <2>2 DEF ServerGoes, Leaves, Loads, I!At
    <3>2. QED  BY <1>0, <2>2, <3>1, AdvanceKeeps
  <2>3. CASE /\ handlers[r].snap # I!Unread /\ shown' = handlers[r].snap
             /\ I!Advance(r, [panel EXCEPT !.checked = IF panel.open THEN shown'.checked ELSE @])
    <3> DEFINE p == [panel EXCEPT !.checked = IF panel.open THEN shown'.checked ELSE @]
    <3>1. /\ shown' \in Reloads
          /\ shown'.checked => waivers.checked
      BY <1>0, <2>1, <2>3 DEF IsHandler, I!At, Recorded, Knows
    <3>2. ServerGoes
      BY <1>0, <2>1, <3>1 DEF ServerGoes
    <3>3. shown'.checked \in BOOLEAN
      BY <3>1 DEF Reloads
    <3>4. /\ p \in Panel /\ p.busy = panel.busy /\ p.loading = panel.loading
          /\ p.checked => waivers.checked
      BY <1>0, <3>1, <3>3 DEF Panel
    <3> HIDE DEF p
    <3>5. Leaves(r, p)
      BY <1>0, <2>1, <3>4 DEF Leaves, Loads, I!At
    <3>6. QED  BY <1>0, <2>3, <3>2, <3>5, AdvanceKeeps DEF p
  <2>4. QED  BY <1>5, <2>2, <2>3 DEF I!ReloadShown
<1>6. QED  BY <1>1, <1>2, <1>3, <1>4, <1>5

LEMMA ClientKeeps ==
  ASSUME InsuranceInv, I!record_waiver_signature \/ I!LinkLapses \/ I!Elsewhere
  PROVE  InsuranceInv'
<1>0. /\ waivers \in I!Server /\ shown \in Reloads
      /\ shown.checked => waivers.checked
      /\ waivers.by = "trip" => waivers.checked
  BY DEF InsuranceInv, InsuranceTyped, Recorded
<1>1. UNCHANGED <<shown, panel, handlers>>
  BY DEF I!record_waiver_signature, I!LinkLapses, I!Elsewhere
<1>2. /\ waivers' \in I!Server /\ waivers'.checked = waivers.checked /\ waivers'.by = waivers.by
  <2>1. CASE I!record_waiver_signature
    BY <1>0, <2>1 DEF I!record_waiver_signature, I!Server
  <2>2. CASE I!LinkLapses
    BY <1>0, <2>2 DEF I!LinkLapses, I!Server
  <2>3. CASE I!Elsewhere
    <3>1. PICK q \in I!Quotes : waivers' = [waivers EXCEPT !.quotes[q] = "proposed"]
      BY <2>3 DEF I!Elsewhere
    <3>2. [waivers.quotes EXCEPT ![q] = "proposed"] \in [I!Quotes -> I!QuoteStates]
      BY <1>0 DEF I!Server, I!QuoteStates
    <3>3. QED  BY <1>0, <3>1, <3>2 DEF I!Server
  <2>4. QED  BY <2>1, <2>2, <2>3
<1>3. ServerGoes
  BY <1>0, <1>1, <1>2 DEF ServerGoes
<1>4. QED  BY <1>1, <1>3, OutsideKeeps

LEMMA InsuranceStep ==
  ASSUME InsuranceInv, I!Next
  PROVE  InsuranceInv'
BY AgentKeeps, HandlerKeeps, ClientKeeps DEF I!Next

LEMMA InsuranceStutter ==
  ASSUME InsuranceInv, UNCHANGED insuranceVars
  PROVE  InsuranceInv'
<1>1. UNCHANGED <<waivers, shown, panel, handlers>>
  BY DEF insuranceVars
<1>2. ServerGoes
  BY <1>1 DEF InsuranceInv, InsuranceTyped, Recorded, ServerGoes
<1>3. QED  BY <1>1, <1>2, OutsideKeeps

LEMMA InsuranceStart == I!Init => InsuranceInv
<1> SUFFICES ASSUME I!Init  PROVE InsuranceInv
  OBVIOUS
<1>1. waivers \in I!Server /\ ~ waivers.checked /\ waivers.by = "nobody"
  <2>1. waivers.quotes \in [I!Quotes -> I!QuoteStates]
    BY DEF I!Init, I!QuoteStates
  <2>2. waivers \in [annual : {"none", "expired", "valid"},
                     quotes : [I!Quotes -> {"absent", "proposed"}], tracking : {"pending"},
                     link : {"none"}, checked : {FALSE}, task : {"Open"}, by : {"nobody"}]
    BY DEF I!Init
  <2>3. QED  BY <2>1, <2>2 DEF I!Server
<1>2. shown = I!Request(waivers) /\ shown \in Reloads /\ ~ shown.checked
  BY <1>1 DEF I!Init, I!Request, I!Server, Reloads
<1>3. panel = I!Closed /\ panel \in Panel /\ panel.busy = {} /\ ~ panel.loading /\ ~ panel.checked
  BY <1>2 DEF I!Init, I!Closed, I!Mounted, Panel, Reloads
<1>4. handlers = [r \in I!Runs |-> I!Idle]
  BY DEF I!Init
<1>5. QED  BY <1>1, <1>2, <1>3, <1>4 DEF InsuranceInv, InsuranceTyped, Recorded, Caused

LEMMA InsuranceHolds == InsuranceInv => I!TypeOK /\ I!CheckIsOnRecord /\ I!FlagsHaveCause
<1> SUFFICES ASSUME InsuranceInv  PROVE I!TypeOK /\ I!CheckIsOnRecord /\ I!FlagsHaveCause
  OBVIOUS
<1>1. I!TypeOK
  <2>1. \A r \in I!Runs : handlers[r] # I!Idle =>
           /\ handlers[r].kind \in I!Kinds /\ handlers[r].heard \in BOOLEAN
           /\ handlers[r].todo # <<>>
    BY Nonempty DEF InsuranceInv, InsuranceTyped, IsHandler
  <2>2. /\ panel.open \in BOOLEAN /\ panel.loading \in BOOLEAN /\ panel.checked \in BOOLEAN
        /\ panel.editor \in BOOLEAN /\ panel.busy \subseteq I!Flags
        /\ panel.draft \in {"kept", "future"}
    BY DEF InsuranceInv, InsuranceTyped, Panel
  <2>3. waivers \in I!Server /\ shown.quotes \in [I!Quotes -> I!QuoteStates]
    BY DEF InsuranceInv, InsuranceTyped, Reloads
  <2>4. QED  BY <2>1, <2>2, <2>3 DEF I!TypeOK
<1>2. I!CheckIsOnRecord
  BY DEF InsuranceInv, Recorded, I!CheckIsOnRecord
<1>3. I!FlagsHaveCause
  BY DEF InsuranceInv, Caused, Frees, Loads, I!FlagsHaveCause, I!At
<1>4. QED  BY <1>1, <1>2, <1>3

-----------------------------------------------------------------------------
(* The task panels.                                                          *)

PanelRequests(p) ==
    [in : SUBSET Items, val : [Items -> Values[p]],
     task : {"Open", "Done"}, follow : {"Open", "Done"}, result : BOOLEAN,
     status : {"Open", "Closed"}, covered : SUBSET Items]

PanelStates(p) ==
    [panel : {p}, open : BOOLEAN, busy : BOOLEAN, draft : [Items -> Values[p]],
     ticked : BOOLEAN, side : {"no", "sending", "yes"}, outcome : Outcomes, saving : BOOLEAN]

PanelRuns(p) ==
    [kind : Kinds, upload : BOOLEAN, left : SUBSET Items, shown : SUBSET Items,
     val : {NoValues} \cup [Items -> Values[p]],
     follow : BOOLEAN, task : {"None", "Open", "Done"}, close : BOOLEAN,
     hears : {"panel", "section", "none"}, snap : {NoSnap} \cup PanelRequests(p)]

\* What is settled in s is settled in t: nobody takes a value back to one that settles
\* nothing, and a save sends only what settles the record.
StaysSettled(p, s, t) == \A i \in Items : Settled(p, i, s.val[i]) => Settled(p, i, t.val[i])

StoredWhole(p, s) == s.task = "Done" => \A i \in s.covered : Settled(p, i, s.val[i])

\* A chain has yet to send the records on screen that are not settled, with values that
\* settle them.
RunFine(p, s, run) ==
    /\ run \in PanelRuns(p)
    /\ run.left # {} => run.val \in [Items -> Values[p]]
    /\ \A i \in run.left : Settled(p, i, run.val[i])
    /\ run.task = "Done" => \A i \in run.shown : i \in run.left \/ Settled(p, i, s.val[i])
    /\ run.snap # NoSnap => StaysSettled(p, run.snap, s)

PanelsFine ==
    /\ ui.panel \in Panels /\ ui \in PanelStates(ui.panel)
    /\ srv \in PanelRequests(ui.panel) /\ props \in PanelRequests(ui.panel)
    /\ runs = [r \in Runs |-> runs[r]]
    /\ \A r \in Runs : runs[r] # Idle => RunFine(ui.panel, srv, runs[r])
    /\ StaysSettled(ui.panel, props, srv)
    /\ StoredWhole(ui.panel, srv)

IsOwn(run) == run # Idle /\ run.kind = "save" /\ run.hears = "panel"

\* A panel is busy with one save of its own, and open.
OneSave ==
    /\ ui.busy => ui.open /\ \E r \in Runs : IsOwn(runs[r])
    /\ \A q, r \in Runs : IsOwn(runs[q]) /\ IsOwn(runs[r]) => q = r
    /\ \A r \in Runs : IsOwn(runs[r]) => ui.busy

\* What a chain may still do once the workspace was left because the request closed.
Late(run) ==
    run # Idle /\ run.hears # "none" =>
        /\ run.kind = "reload"
        /\ run.snap # NoSnap => run.snap.status = "Closed"

LeftForGood ==
    (\E r \in Runs : runs[r] # Idle /\ runs[r].hears = "none") =>
        /\ props.status = "Closed" /\ srv.status = "Closed" /\ ~ ui.busy
        /\ \A r \in Runs : Late(runs[r])

PanelInv == PanelsFine /\ OneSave /\ LeftForGood

LEMMA PanelsAre ==
  /\ Panels = {"verify", "addresses", "holds", "payment", "response", "crm"}
  /\ \A p \in Panels : Unset[p] \in Values[p]
BY DEF Panels, Values, Unset

LEMMA RunIsNotIdle ==
  ASSUME NEW p, NEW run \in PanelRuns(p)
  PROVE  run # Idle
BY DEF PanelRuns, Idle

LEMMA ValuesOf ==
  /\ {"unheld", "held", "deposited"} = Values["payment"]
  /\ {"proposed", "rejected", "accepted"} = Values["response"]
  /\ {"proposed", "accepted"} = Values["crm"]
  /\ {"unheld", "held"} = Values["holds"]
  /\ {"undated", "dated"} = Values["verify"]
  /\ {"none", "home"} = Values["addresses"]
BY DEF Values

LEMMA FreshType ==
  ASSUME NEW p \in Panels, NEW s \in PanelRequests(p)
  PROVE  Fresh(p, s) \in [Items -> Values[p]]
<1>1. s.val \in [Items -> Values[p]]
  BY DEF PanelRequests
<1>2. CASE p = "payment"
  BY <1>2, ValuesOf DEF Fresh
<1>3. CASE p = "response"
  BY <1>3, ValuesOf DEF Fresh
<1>4. CASE p # "payment" /\ p # "response"
  BY <1>1, <1>4 DEF Fresh
<1>5. QED  BY <1>2, <1>3, <1>4

LEMMA MountedType ==
  ASSUME NEW p \in Panels, NEW s \in PanelRequests(p)
  PROVE  /\ Mounted(p, s) \in PanelStates(p) /\ Mounted(p, s).open /\ ~ Mounted(p, s).busy
         /\ Mounted(p, s).panel = p
BY FreshType DEF Mounted, PanelStates, PanelRequests, Outcomes

LEMMA ShutType ==
  ASSUME NEW p, NEW u \in PanelStates(p)
  PROVE  Shut(u) \in PanelStates(p) /\ ~ Shut(u).open /\ ~ Shut(u).busy
BY DEF Shut, PanelStates

\* A reload changes drafts and ticks.
LEMMA ReloadedType ==
  ASSUME NEW p \in Panels, NEW u \in PanelStates(p), NEW s \in PanelRequests(p)
  PROVE  Reloaded(u, s) \in PanelStates(p) /\ Reloaded(u, s).busy = u.busy
         /\ Reloaded(u, s).open = u.open
<1>1. u.panel = p /\ Fresh(p, s) \in [Items -> Values[p]]
  BY FreshType DEF PanelStates
<1> DEFINE v == Reset(u, s)
<1>2. v \in PanelStates(p) /\ v.busy = u.busy /\ v.open = u.open
  <2>1. CASE u.panel \in {"payment", "crm"} /\ ~ s.result
    BY <2>1 DEF Reset
  <2>2. CASE ~ (u.panel \in {"payment", "crm"} /\ ~ s.result)
    <3>1. v = [u EXCEPT !.draft = Fresh(p, s), !.ticked = IF p # "crm" THEN @ ELSE s.result]
      BY <1>1, <2>2 DEF Reset
    <3>2. s.result \in BOOLEAN
      BY DEF PanelRequests
    <3>3. QED  BY <1>1, <3>1, <3>2 DEF PanelStates
  <2>3. QED  BY <2>1, <2>2
<1> HIDE DEF v
<1>3. [v EXCEPT !.ticked = s.follow = "Open"] \in PanelStates(p)
      /\ [v EXCEPT !.ticked = s.follow = "Open"].busy = v.busy
      /\ [v EXCEPT !.ticked = s.follow = "Open"].open = v.open
  BY <1>2 DEF PanelStates
<1>4. Reloaded(u, s) \in {u, v, [v EXCEPT !.ticked = s.follow = "Open"]}
  BY DEF Reloaded, v
<1>5. QED  BY <1>2, <1>3, <1>4

LEMMA ErroredType ==
  ASSUME PanelsFine, NEW u \in PanelStates(ui.panel), NEW w \in Errored(u)
  PROVE  /\ w \in PanelStates(ui.panel) /\ w.busy = u.busy /\ w.open = u.open
         /\ ui.panel # "holds" => w.draft = u.draft
<1>1. u.panel = ui.panel
  BY DEF PanelStates
<1>2. CASE u.open /\ ui.panel = "holds"
  <2>1. Fresh("holds", props) \in [Items -> Values[ui.panel]]
    BY <1>2, FreshType DEF PanelsFine
  <2>2. w = u \/ w = [u EXCEPT !.draft = Fresh("holds", props)]
    BY <1>1, <1>2 DEF Errored
  <2>3. QED  BY <1>2, <2>1, <2>2 DEF PanelStates
<1>3. CASE ~ (u.open /\ ui.panel = "holds")
  <2>1. w = u
    BY <1>1, <1>3 DEF Errored
  <2>2. QED  BY <2>1
<1>4. QED  BY <1>2, <1>3

LEMMA ReleasedType ==
  ASSUME NEW p, NEW u \in PanelStates(p), NEW run \in PanelRuns(p)
  PROVE  /\ Released(run, u) \in PanelStates(p) /\ Released(run, u).open = u.open
         /\ Released(run, u).draft = u.draft
         /\ IsOwn(run) => ~ Released(run, u).busy
         /\ ~ IsOwn(run) => Released(run, u).busy = u.busy
<1>1. CASE run.hears = "none"
  <2>1. Released(run, u) = u /\ ~ IsOwn(run)
    BY <1>1 DEF Released, IsOwn
  <2>2. QED  BY <2>1
<1>2. CASE run.hears = "panel" /\ run.kind = "save"
  <2>1. Released(run, u) = [u EXCEPT !.busy = FALSE] /\ IsOwn(run)
    BY <1>2, RunIsNotIdle DEF Released, IsOwn
  <2>2. QED  BY <2>1 DEF PanelStates
<1>3. CASE run.hears = "panel" /\ run.kind = "side"
  <2>1. Released(run, u) = [u EXCEPT !.side = IF @ = "sending" THEN "no" ELSE @] /\ ~ IsOwn(run)
    BY <1>3 DEF Released, IsOwn
  <2>2. QED  BY <2>1 DEF PanelStates
<1>4. CASE /\ run.hears # "none" /\ ~ (run.hears = "panel" /\ run.kind \in {"save", "side"})
           /\ run.kind = "reopen"
  <2>1. Released(run, u) = [u EXCEPT !.saving = FALSE] /\ ~ IsOwn(run)
    BY <1>4 DEF Released, IsOwn
  <2>2. QED  BY <2>1 DEF PanelStates
<1>5. CASE /\ run.hears # "none" /\ ~ (run.hears = "panel" /\ run.kind \in {"save", "side"})
           /\ run.kind # "reopen"
  <2>1. Released(run, u) = u /\ ~ IsOwn(run)
    BY <1>5 DEF Released, IsOwn
  <2>2. QED  BY <2>1
<1>6. QED  BY <1>1, <1>2, <1>3, <1>4, <1>5

-----------------------------------------------------------------------------
(* How the server, the workspace and the chains may go on.                   *)

SrvGoes ==
    /\ srv' \in PanelRequests(ui.panel)
    /\ StaysSettled(ui.panel, srv, srv') /\ StoredWhole(ui.panel, srv')
    /\ srv.status = "Closed" => srv'.status = "Closed"

PropsGo ==
    /\ props' \in PanelRequests(ui.panel) /\ StaysSettled(ui.panel, props', srv')
    /\ (\E r \in Runs : runs[r] # Idle /\ runs[r].hears = "none") => props'.status = "Closed"

LEMMA FineStays ==
  ASSUME NEW p, NEW s, NEW t, NEW run, RunFine(p, s, run), StaysSettled(p, s, t)
  PROVE  RunFine(p, t, run)
<1>1. \A i \in run.shown : i \in Items
  BY DEF RunFine, PanelRuns
<1>2. run.snap # NoSnap => StaysSettled(p, run.snap, t)
  BY DEF RunFine, StaysSettled
<1>3. QED  BY <1>1, <1>2 DEF RunFine, StaysSettled

LEMMA SrvStays ==
  ASSUME PanelsFine, UNCHANGED srv
  PROVE  SrvGoes
BY DEF SrvGoes, PanelsFine, StaysSettled

LEMMA PropsStay ==
  ASSUME PanelsFine, LeftForGood, SrvGoes, UNCHANGED props
  PROVE  PropsGo
BY DEF PropsGo, SrvGoes, PanelsFine, StaysSettled, LeftForGood

\* The panel that is studied stays, and what is fine of the chains stays fine.
LEMMA PanelsStayFine ==
  ASSUME PanelsFine, SrvGoes, PropsGo, ui' \in PanelStates(ui.panel),
         runs' = [r \in Runs |-> runs'[r]],
         \A r \in Runs : runs'[r] # Idle => RunFine(ui.panel, srv', runs'[r])
  PROVE  PanelsFine'
<1>1. ui'.panel = ui.panel
  BY DEF PanelStates
<1>2. QED  BY <1>1 DEF PanelsFine, SrvGoes, PropsGo

LEMMA UiGoes ==
  ASSUME PanelInv, UNCHANGED <<srv, props, runs>>, ui' \in PanelStates(ui.panel),
         ui'.busy = ui.busy,
         ui.busy => ui'.open
  PROVE  PanelInv'
<1>1. PanelsFine /\ OneSave /\ LeftForGood
  BY DEF PanelInv
<1>2. PanelsFine'
  BY <1>1, SrvStays, PropsStay, PanelsStayFine DEF PanelsFine
<1>3. OneSave' /\ LeftForGood'
  BY <1>1 DEF OneSave, LeftForGood
<1>4. QED  BY <1>2, <1>3 DEF PanelInv

\* A chain begins: the one save of an open panel, or another activity.
LEMMA BeginKeeps ==
  ASSUME PanelInv, UNCHANGED <<srv, props>>, NEW run, Begin(run),
         RunFine(ui.panel, srv, run), run.hears # "none", ui' \in PanelStates(ui.panel),
         ui'.open = ui.open,
         \/ IsOwn(run) /\ ~ ui.busy /\ ui'.busy /\ ui.open
         \/ ~ IsOwn(run) /\ ui'.busy = ui.busy,
         \/ run.kind = "reload" /\ run.snap = NoSnap
         \/ props.status # "Closed"
  PROVE  PanelInv'
<1>1. PanelsFine /\ OneSave /\ LeftForGood
  BY DEF PanelInv
<1>2. PICK r \in Runs : runs[r] = Idle /\ runs' = [runs EXCEPT ![r] = run]
  BY DEF Begin, Free
<1>3. /\ runs' = [q \in Runs |-> runs'[q]] /\ runs'[r] = run
      /\ \A q \in Runs \ {r} : runs'[q] = runs[q]
  BY <1>1, <1>2 DEF PanelsFine
<1>4. run # Idle
  BY RunIsNotIdle DEF RunFine
<1>5. PanelsFine'
  BY <1>1, <1>3, SrvStays, PropsStay, PanelsStayFine DEF PanelsFine
<1>6. OneSave'
  <2>1. \A q \in Runs : IsOwn(runs'[q]) => (q = r /\ IsOwn(run)) \/ (q # r /\ IsOwn(runs[q]))
    BY <1>3
  <2>2. IsOwn(run) => \A q \in Runs : ~ IsOwn(runs[q])
    BY <1>1 DEF OneSave, IsOwn
  <2>3. ~ IsOwn(runs[r])
    BY <1>2 DEF IsOwn
  <2>4. \A q \in Runs : q # r => (IsOwn(runs[q]) <=> IsOwn(runs'[q]))
    BY <1>3
  <2>5. (IsOwn(run) <=> IsOwn(runs'[r])) /\ r \in Runs
    BY <1>3
  <2>6. CASE IsOwn(run)
    <3>1. ui'.busy /\ ui'.open
      BY <2>6
    <3>2. \A q \in Runs : IsOwn(runs'[q]) => q = r
      BY <2>1, <2>2, <2>6
    <3>3. QED  BY <2>5, <2>6, <3>1, <3>2 DEF OneSave
  <2>7. CASE ~ IsOwn(run)
    <3>1. \A q \in Runs : IsOwn(runs[q]) <=> IsOwn(runs'[q])
      BY <2>3, <2>4, <2>5, <2>7
    <3>2. ui'.busy = ui.busy /\ ui'.open = ui.open
      BY <2>7
    <3>3. QED  BY <1>1, <3>1, <3>2 DEF OneSave
  <2>8. QED  BY <2>6, <2>7
<1>7. LeftForGood'
  <2>1. SUFFICES ASSUME NEW q \in Runs, runs'[q] # Idle, runs'[q].hears = "none"
                 PROVE  /\ props'.status = "Closed" /\ srv'.status = "Closed" /\ ~ ui'.busy
                        /\ \A x \in Runs : Late(runs'[x])
    BY DEF LeftForGood
  <2>2. q # r /\ runs[q] # Idle /\ runs[q].hears = "none"
    BY <1>3, <2>1
  <2>3. /\ props.status = "Closed" /\ srv.status = "Closed" /\ ~ ui.busy
        /\ \A x \in Runs : Late(runs[x])
    BY <1>1, <2>2 DEF LeftForGood
  <2>4. Late(run) /\ ~ IsOwn(run)
    BY <2>3 DEF Late, IsOwn
  <2>5. QED  BY <1>3, <2>3, <2>4
<1>8. QED  BY <1>5, <1>6, <1>7 DEF PanelInv

\* A chain goes on.
LEMMA ChainKeeps ==
  ASSUME PanelInv, NEW r \in Runs, runs[r] # Idle, NEW run, Advance(r, run), SrvGoes,
         RunFine(ui.panel, srv', run),
         run.kind = runs[r].kind, run.hears = runs[r].hears,
         run.snap # NoSnap => run.snap \in {runs[r].snap, srv},
         UNCHANGED props, ui' \in PanelStates(ui.panel), ui'.busy = ui.busy, ui'.open = ui.open
  PROVE  PanelInv'
<1>1. PanelsFine /\ OneSave /\ LeftForGood
  BY DEF PanelInv
<1>2. /\ runs' = [q \in Runs |-> runs'[q]] /\ runs'[r] = run
      /\ \A q \in Runs \ {r} : runs'[q] = runs[q]
  BY <1>1 DEF Advance, PanelsFine
<1>3. run # Idle
  BY RunIsNotIdle DEF RunFine
<1>4. PanelsFine'
  <2>1. \A q \in Runs : runs'[q] # Idle => RunFine(ui.panel, srv', runs'[q])
    BY <1>1, <1>2, FineStays DEF PanelsFine, SrvGoes
  <2>2. QED  BY <1>1, <1>2, <2>1, PropsStay, PanelsStayFine
<1>5. OneSave'
  <2>1. \A q \in Runs : IsOwn(runs'[q]) <=> IsOwn(runs[q])
    BY <1>2, <1>3 DEF IsOwn
  <2>2. QED  BY <1>1, <2>1 DEF OneSave
<1>6. LeftForGood'
  <2>1. SUFFICES ASSUME NEW q \in Runs, runs'[q] # Idle, runs'[q].hears = "none"
                 PROVE  /\ props'.status = "Closed" /\ srv'.status = "Closed" /\ ~ ui'.busy
                        /\ \A x \in Runs : Late(runs'[x])
    BY DEF LeftForGood
  <2>2. runs[q] # Idle /\ runs[q].hears = "none"
    BY <1>2, <2>1
  <2>3. /\ props.status = "Closed" /\ srv.status = "Closed" /\ ~ ui.busy
        /\ \A x \in Runs : Late(runs[x])
    BY <1>1, <2>2 DEF LeftForGood
  <2>4. Late(run)
    BY <2>3 DEF Late
  <2>5. QED  BY <1>2, <2>3, <2>4 DEF SrvGoes
<1>7. QED  BY <1>4, <1>5, <1>6 DEF PanelInv

\* A chain ends, and releases what it held.
LEMMA EndKeeps ==
  ASSUME PanelInv, NEW r \in Runs, runs[r] # Idle, SrvGoes, PropsGo,
         runs' = [runs EXCEPT ![r] = Idle], ui' \in PanelStates(ui.panel), ui'.open = ui.open,
         IsOwn(runs[r]) => ~ ui'.busy,
         ~ IsOwn(runs[r]) => ui'.busy = ui.busy
  PROVE  PanelInv'
<1>1. PanelsFine /\ OneSave /\ LeftForGood
  BY DEF PanelInv
<1>2. /\ runs' = [q \in Runs |-> runs'[q]] /\ runs'[r] = Idle
      /\ \A q \in Runs \ {r} : runs'[q] = runs[q]
  BY <1>1 DEF PanelsFine
<1>3. PanelsFine'
  <2>1. \A q \in Runs : runs'[q] # Idle => RunFine(ui.panel, srv', runs'[q])
    BY <1>1, <1>2, FineStays DEF PanelsFine, SrvGoes
  <2>2. QED  BY <1>1, <1>2, <2>1, PanelsStayFine
<1>4. OneSave'
  <2>1. \A q \in Runs : IsOwn(runs'[q]) <=> q # r /\ IsOwn(runs[q])
    BY <1>2 DEF IsOwn
  <2>2. QED  BY <1>1, <2>1 DEF OneSave
<1>5. LeftForGood'
  BY <1>1, <1>2 DEF LeftForGood, Late, SrvGoes, PropsGo, OneSave
<1>6. QED  BY <1>3, <1>4, <1>5 DEF PanelInv

\* A panel that is gone is not heard, and holds nobody.
LEMMA DeafKeeps ==
  ASSUME PanelInv, SrvGoes, PropsGo, ui' \in PanelStates(ui.panel), ~ ui'.busy,
         runs' = [q \in Runs |-> runs'[q]],
         \A q \in Runs : runs'[q] \in {Idle, Deaf(runs[q])}
  PROVE  PanelInv'
<1>1. PanelsFine /\ OneSave /\ LeftForGood
  BY DEF PanelInv
<1>2. ASSUME NEW q \in Runs, runs'[q] # Idle
      PROVE  /\ runs[q] # Idle /\ RunFine(ui.panel, srv, runs'[q])
             /\ runs'[q].hears # "panel" /\ runs'[q].kind = runs[q].kind
             /\ runs'[q].snap = runs[q].snap
             /\ runs'[q].hears = "none" <=> runs[q].hears = "none"
  <2>1. runs'[q] = Deaf(runs[q]) /\ runs[q] # Idle
    BY <1>2 DEF Deaf
  <2>2. RunFine(ui.panel, srv, runs[q])
    BY <1>1, <2>1 DEF PanelsFine
  <2>3. CASE runs[q].hears = "none"
    BY <2>1, <2>2, <2>3 DEF Deaf
  <2>4. CASE runs[q].hears # "none"
    <3>1. runs'[q] = [runs[q] EXCEPT !.hears = "section"]
      BY <2>1, <2>4 DEF Deaf
    <3>2. runs[q] \in PanelRuns(ui.panel)
      BY <2>2 DEF RunFine
    <3>3. /\ runs'[q] \in PanelRuns(ui.panel) /\ runs'[q].hears = "section"
          /\ runs'[q].kind = runs[q].kind /\ runs'[q].snap = runs[q].snap
          /\ runs'[q].left = runs[q].left /\ runs'[q].val = runs[q].val
          /\ runs'[q].task = runs[q].task /\ runs'[q].shown = runs[q].shown
      BY <3>1, <3>2 DEF PanelRuns
    <3>4. QED  BY <2>1, <2>2, <2>4, <3>3 DEF RunFine
  <2>5. QED  BY <2>3, <2>4
<1>3. PanelsFine'
  <2>1. \A q \in Runs : runs'[q] # Idle => RunFine(ui.panel, srv', runs'[q])
    BY <1>2, FineStays DEF SrvGoes
  <2>2. QED  BY <1>1, <2>1, PanelsStayFine
<1>4. OneSave'
  BY <1>2 DEF OneSave, IsOwn
<1>5. LeftForGood'
  BY <1>1, <1>2 DEF LeftForGood, Late, SrvGoes, PropsGo
<1>6. QED  BY <1>3, <1>4, <1>5 DEF PanelInv

LEMMA FinishKeeps ==
  ASSUME PanelInv, NEW r \in Runs, runs[r] # Idle, SrvGoes, PropsGo,
         NEW u \in PanelStates(ui.panel), u.busy = ui.busy, u.open = ui.open, Finished(r, u)
  PROVE  /\ PanelInv' /\ runs'[r] = Idle
         /\ ui'.open => ui'.draft = u.draft
<1>1. PanelsFine /\ r \in Runs /\ runs[r] \in PanelRuns(ui.panel)
  BY DEF PanelInv, PanelsFine, RunFine
<1>2. CASE runs[r].kind = "save" /\ runs[r].hears # "none"
  <2>1. ui' = Shut(u) /\ runs' = [q \in Runs |-> IF q = r THEN Idle ELSE Deaf(runs[q])]
    BY <1>2 DEF Finished
  <2>2. ui' \in PanelStates(ui.panel) /\ ~ ui'.busy /\ ~ ui'.open
    BY <2>1, ShutType
  <2>3. QED  BY <2>1, <2>2, DeafKeeps
<1>3. CASE ~ (runs[r].kind = "save" /\ runs[r].hears # "none")
  <2>1. ui' = Released(runs[r], u) /\ runs' = [runs EXCEPT ![r] = Idle]
    BY <1>3 DEF Finished
  <2>2. /\ ui' \in PanelStates(ui.panel) /\ ui'.open = u.open /\ ui'.draft = u.draft
        /\ IsOwn(runs[r]) => ~ ui'.busy
        /\ ~ IsOwn(runs[r]) => ui'.busy = ui.busy
    BY <1>1, <2>1, ReleasedType
  <2>3. runs'[r] = Idle
    BY <1>1, <2>1 DEF PanelsFine
  <2>4. QED  BY <2>1, <2>2, <2>3, EndKeeps
<1>4. QED  BY <1>2, <1>3

-----------------------------------------------------------------------------
(* The agent at a task panel.                                                *)

LEMMA SameDraftKeeps ==
  ASSUME ui'.open /\ ui.panel # "holds" => ui'.draft = ui.draft
  PROVE  KeepsTyped
BY DEF KeepsTyped

LEMMA ChainType ==
  ASSUME NEW p \in Panels, NEW kind \in Kinds
  PROVE  /\ Chain(kind) \in PanelRuns(p)
         /\ Chain(kind).kind = kind /\ Chain(kind).left = {} /\ Chain(kind).shown = {}
         /\ Chain(kind).task = "None" /\ Chain(kind).snap = NoSnap
         /\ Chain(kind).hears = IF kind \in {"save", "side"} THEN "panel" ELSE "section"
BY DEF Chain, PanelRuns, Kinds

LEMMA SavingType ==
  ASSUME PanelInv, NEW left \in SUBSET Items, NEW shows \in SUBSET Items
  PROVE  /\ Saving(left, shows) \in PanelRuns(ui.panel) /\ IsOwn(Saving(left, shows))
         /\ Saving(left, shows).left = left /\ Saving(left, shows).shown = shows
         /\ left # {} => Saving(left, shows).val = ui.draft
         /\ Saving(left, shows).snap = NoSnap
<1>1. /\ Chain("save") \in PanelRuns(ui.panel) /\ Chain("save").kind = "save"
      /\ Chain("save").hears = "panel" /\ Chain("save").snap = NoSnap
  BY ChainType DEF PanelInv, PanelsFine, Kinds
<1>2. ui.draft \in [Items -> Values[ui.panel]]
  BY DEF PanelInv, PanelsFine, PanelStates
<1> DEFINE val == IF left = {} THEN NoValues ELSE ui.draft
<1>3. val \in {NoValues} \cup [Items -> Values[ui.panel]]
  BY <1>2
<1>4. Saving(left, shows) =
        [Chain("save") EXCEPT !.left = left, !.shown = shows, !.task = "Done", !.val = val]
  BY DEF Saving
<1> HIDE DEF val
<1>5. /\ Saving(left, shows) \in PanelRuns(ui.panel) /\ Saving(left, shows).kind = "save"
      /\ Saving(left, shows).hears = "panel" /\ Saving(left, shows).left = left
      /\ Saving(left, shows).shown = shows /\ Saving(left, shows).val = val
      /\ Saving(left, shows).snap = NoSnap
  BY <1>1, <1>3, <1>4 DEF PanelRuns
<1>6. QED  BY <1>5, RunIsNotIdle DEF IsOwn, val

\* A chain with an upload, with a record to send.
WithUpload(d, c, upload) == d = [c EXCEPT !.upload = upload]
WithItem(d, c, left, val) == d = [c EXCEPT !.left = left, !.val = val]

LEMMA UploadType ==
  ASSUME NEW p, NEW c \in PanelRuns(p), NEW upload \in BOOLEAN,
         NEW d, WithUpload(d, c, upload)
  PROVE  /\ d \in PanelRuns(p) /\ d.kind = c.kind /\ d.left = c.left /\ d.shown = c.shown
         /\ d.val = c.val /\ d.task = c.task /\ d.hears = c.hears /\ d.snap = c.snap
BY DEF PanelRuns, WithUpload

LEMMA SendType ==
  ASSUME NEW p, NEW c \in PanelRuns(p), NEW left \in SUBSET Items,
         NEW val \in {NoValues} \cup [Items -> Values[p]],
         NEW d, WithItem(d, c, left, val)
  PROVE  /\ d \in PanelRuns(p) /\ d.kind = c.kind /\ d.left = left /\ d.shown = c.shown
         /\ d.val = val /\ d.task = c.task /\ d.hears = c.hears /\ d.snap = c.snap
BY DEF PanelRuns, WithItem

\* A save begins: what it sends settles its records, and it sends all that are not settled.
LEMMA SaveKeeps ==
  ASSUME PanelInv, Editable, NEW run \in PanelRuns(ui.panel), IsOwn(run), run.snap = NoSnap,
         run.left # {} => run.val = ui.draft,
         \A i \in run.left : Settled(ui.panel, i, ui.draft[i]),
         \A i \in run.shown : i \in run.left \/ Settled(ui.panel, i, props.val[i]),
         Start(run)
  PROVE  PanelInv' /\ KeepsTyped
<1>1. PanelsFine /\ ui.draft \in [Items -> Values[ui.panel]] /\ ui \in PanelStates(ui.panel)
  BY DEF PanelInv, PanelsFine, PanelStates
<1>2. /\ Begin(run) /\ ui' = [ui EXCEPT !.busy = TRUE] /\ UNCHANGED <<srv, props>>
      /\ ui.open /\ ~ ui.busy /\ props.status # "Closed"
  BY DEF Start, Editable, Disabled
<1>3. /\ ui' \in PanelStates(ui.panel) /\ ui'.busy /\ ui'.open = ui.open /\ ui'.draft = ui.draft
  BY <1>1, <1>2 DEF PanelStates
<1>4. RunFine(ui.panel, srv, run)
  <2>1. \A i \in run.shown : i \in run.left \/ Settled(ui.panel, i, srv.val[i])
    BY <1>1 DEF PanelsFine, StaysSettled, PanelRuns
  <2>2. QED  BY <1>1, <2>1 DEF RunFine
<1>5. run.hears # "none"
  BY DEF IsOwn
<1>6. QED  BY <1>2, <1>3, <1>4, <1>5, BeginKeeps, SameDraftKeeps

\* Another activity begins: a side job of the panel, a reopening, a reload.
LEMMA AsideKeeps ==
  ASSUME PanelInv, NEW run, RunFine(ui.panel, srv, run), run.kind # "save", run.hears # "none",
         Begin(run), UNCHANGED <<srv, props>>, ui' \in PanelStates(ui.panel),
         ui'.busy = ui.busy, ui'.open = ui.open, ui'.draft = ui.draft,
         \/ run.kind = "reload" /\ run.snap = NoSnap
         \/ props.status # "Closed"
  PROVE  PanelInv' /\ KeepsTyped
BY BeginKeeps, SameDraftKeeps DEF IsOwn

\* A refused save is a message.
LEMMA InvalidKeeps ==
  ASSUME PanelInv, Invalid
  PROVE  PanelInv' /\ KeepsTyped
<1>1. PanelsFine /\ ui \in PanelStates(ui.panel) /\ UNCHANGED <<srv, props, runs>>
      /\ ui' \in Errored(ui) /\ (ui.busy => ui.open)
  BY DEF PanelInv, PanelsFine, OneSave, Invalid
<1>2. QED  BY <1>1, ErroredType, UiGoes, SameDraftKeeps

LEMMA SettledIs ==
  ASSUME NEW i, NEW v
  PROVE  /\ Settled("verify", i, v) <=> v # "undated"
         /\ Settled("addresses", i, v) <=> (i = 1 => v # "none")
         /\ Settled("holds", i, v) <=> v # "unheld"
         /\ Settled("payment", i, v) <=> v = "deposited"
         /\ Settled("response", i, v) <=> v # "proposed"
         /\ Settled("crm", i, v)
BY DEF Settled, Unset

LEMMA SavePanelKeeps ==
  ASSUME PanelInv, SaveVerify \/ SaveAddresses \/ SaveHolds
  PROVE  PanelInv' /\ KeepsTyped
<1>1. /\ props.in \in SUBSET Items /\ Changed \in SUBSET Items
      /\ \A i \in props.in \ Changed : ui.draft[i] = props.val[i]
      /\ Changed \subseteq props.in
  BY DEF PanelInv, PanelsFine, PanelRequests, Changed
<1>2. CASE Invalid
  BY <1>2, InvalidKeeps
<1>3. ASSUME NEW left \in {Changed, props.in}, Editable, Start(Saving(left, props.in)),
             \A i \in props.in : Settled(ui.panel, i, ui.draft[i])
      PROVE  PanelInv' /\ KeepsTyped
  <2> DEFINE run == Saving(left, props.in)
  <2>1. /\ run \in PanelRuns(ui.panel) /\ IsOwn(run) /\ run.left = left /\ run.shown = props.in
        /\ left # {} => run.val = ui.draft
        /\ run.snap = NoSnap
    BY <1>1, SavingType
  <2> HIDE DEF run
  <2>2. \A i \in run.left : Settled(ui.panel, i, ui.draft[i])
    BY <1>1, <1>3, <2>1
  <2>3. \A i \in run.shown : i \in run.left \/ Settled(ui.panel, i, props.val[i])
    BY <1>1, <1>3, <2>1
  <2>4. QED  BY <1>3, <2>1, <2>2, <2>3, SaveKeeps DEF run
<1>4. CASE SaveVerify
  <2>1. CASE VerifyReady /\ Start(Saving(Changed, props.in))
    <3>1. \A i \in props.in : Settled(ui.panel, i, ui.draft[i])
      BY <1>4, <2>1, SettledIs DEF VerifyReady, SaveVerify
    <3>2. QED  BY <1>3, <1>4, <2>1, <3>1 DEF SaveVerify
  <2>2. QED  BY <1>2, <1>4, <2>1 DEF SaveVerify
<1>5. CASE SaveAddresses
  <2>1. CASE AddressesReady /\ Start(Saving(Changed, props.in))
    <3>1. \A i \in props.in : Settled(ui.panel, i, ui.draft[i])
      BY <1>5, <2>1, SettledIs DEF AddressesReady, SaveAddresses
    <3>2. QED  BY <1>3, <1>5, <2>1, <3>1 DEF SaveAddresses
  <2>2. QED  BY <1>2, <1>5, <2>1 DEF SaveAddresses
<1>6. CASE SaveHolds
  <2>1. CASE HoldsReady /\ Start(Saving(props.in, props.in))
    <3>1. \A i \in props.in : Settled(ui.panel, i, ui.draft[i])
      BY <1>6, <2>1, SettledIs DEF HoldsReady, SaveHolds
    <3>2. QED  BY <1>3, <1>6, <2>1, <3>1 DEF SaveHolds
  <2>2. QED  BY <1>2, <1>6, <2>1 DEF SaveHolds
<1>7. QED  BY <1>4, <1>5, <1>6

\* A save that may complete the follow-up and close the request as well.
IsSaving(run, left, shows) ==
    \/ run = Saving(left, shows)
    \/ \E follow \in BOOLEAN : run = [Saving(left, shows) EXCEPT !.follow = follow]
    \/ \E follow \in BOOLEAN, close \in BOOLEAN :
          run = [Saving(left, shows) EXCEPT !.follow = follow, !.close = close]

LEMMA SaveDecisionsKeeps ==
  ASSUME PanelInv, SavePayment \/ SaveCrm \/ SaveResponse \/ MarkRecorded
  PROVE  PanelInv' /\ KeepsTyped
<1> DEFINE due == Shown(ui.panel, props)
<1>1. props.in \in SUBSET Items /\ due \in SUBSET Items /\ {} \in SUBSET Items
  BY DEF PanelInv, PanelsFine, PanelRequests, Shown
\* A save that sends all it shows.
<1>2. ASSUME NEW run \in PanelRuns(ui.panel), IsOwn(run), run.snap = NoSnap,
             run.left # {} => run.val = ui.draft,
             Editable, Start(run),
             \A i \in run.left : Settled(ui.panel, i, ui.draft[i]),
             \A i \in run.shown : i \in run.left \/ Settled(ui.panel, i, props.val[i])
      PROVE  PanelInv' /\ KeepsTyped
  BY <1>2, SaveKeeps
<1>3. ASSUME NEW left \in SUBSET Items, NEW shows \in SUBSET Items,
             NEW run, IsSaving(run, left, shows)
      PROVE  /\ run \in PanelRuns(ui.panel) /\ IsOwn(run) /\ run.left = left /\ run.shown = shows
             /\ left # {} => run.val = ui.draft
             /\ run.snap = NoSnap
  <2> DEFINE save == Saving(left, shows)
  <2>1. /\ save \in PanelRuns(ui.panel) /\ IsOwn(save) /\ save.left = left /\ save.shown = shows
        /\ left # {} => save.val = ui.draft
        /\ save.snap = NoSnap
    BY SavingType
  <2> HIDE DEF save
  <2>2. /\ run \in PanelRuns(ui.panel) /\ run.left = save.left /\ run.shown = save.shown
        /\ run.val = save.val /\ run.snap = save.snap /\ run.kind = save.kind
        /\ run.hears = save.hears
    BY <1>3, <2>1 DEF PanelRuns, save, IsSaving
  <2>3. QED  BY <2>1, <2>2, RunIsNotIdle DEF IsOwn
<1>4. ui.ticked \in BOOLEAN
  BY DEF PanelInv, PanelsFine, PanelStates
<1>5. CASE SavePayment
  <2>1. ui.panel = "payment" /\ Editable /\ Start(Saving(due, due)) /\ PaymentReady
    BY <1>5 DEF SavePayment
  <2>2. \A i \in due : Settled(ui.panel, i, ui.draft[i])
    BY <2>1, SettledIs DEF PaymentReady
  <2> DEFINE run == Saving(due, due)
  <2>3. /\ run \in PanelRuns(ui.panel) /\ IsOwn(run) /\ run.left = due /\ run.shown = due
        /\ due # {} => run.val = ui.draft
        /\ run.snap = NoSnap
    <3>1. IsSaving(run, due, due)
      BY DEF IsSaving
    <3> HIDE DEF run, due
    <3>2. QED  BY <1>1, <1>3, <3>1
  <2>4. Start(run)
    BY <2>1
  <2> HIDE DEF run, due
  <2>5. QED  BY <1>2, <2>1, <2>2, <2>3, <2>4
<1>6. CASE SaveCrm
  <2>1. Editable /\ Start(Saving({}, {}))
    BY <1>6 DEF SaveCrm
  <2> DEFINE run == Saving({}, {})
  <2>2. /\ run \in PanelRuns(ui.panel) /\ IsOwn(run) /\ run.left = {} /\ run.shown = {}
        /\ run.snap = NoSnap
    <3>1. IsSaving(run, {}, {})
      BY DEF IsSaving
    <3> HIDE DEF run
    <3>2. QED  BY <1>1, <1>3, <3>1
  <2>3. Start(run)
    BY <2>1
  <2> HIDE DEF run
  <2>4. QED  BY <1>2, <2>1, <2>2, <2>3
<1>7. CASE SaveResponse
  <2>1. ui.panel = "response" /\ Editable /\ Undecided = {}
    BY <1>7 DEF SaveResponse
  <2>2. \A i \in due : Settled(ui.panel, i, ui.draft[i])
    BY <2>1, SettledIs DEF Undecided
  <2>3. CASE Invalid
    BY <2>3, InvalidKeeps
  <2>4. CASE Start([Saving(due, due) EXCEPT !.follow = ui.ticked /\ props.follow = "Open",
                       !.close = AllRejected /\ ui.outcome = "close_request"])
    <3>1. (ui.ticked /\ props.follow = "Open") \in BOOLEAN
          /\ (AllRejected /\ ui.outcome = "close_request") \in BOOLEAN
      BY <1>4
    <3> DEFINE run == [Saving(due, due) EXCEPT !.follow = ui.ticked /\ props.follow = "Open",
                         !.close = AllRejected /\ ui.outcome = "close_request"]
    <3>2. /\ run \in PanelRuns(ui.panel) /\ IsOwn(run) /\ run.left = due /\ run.shown = due
          /\ due # {} => run.val = ui.draft
          /\ run.snap = NoSnap
      <4>1. IsSaving(run, due, due)
        BY <3>1 DEF IsSaving
      <4> HIDE DEF run, due
      <4>2. QED  BY <1>1, <1>3, <4>1
    <3>3. Start(run)
      BY <2>4
    <3> HIDE DEF run, due
    <3>4. QED  BY <1>2, <2>1, <2>2, <3>2, <3>3
  <2>5. QED  BY <1>7, <2>1, <2>3, <2>4 DEF SaveResponse
<1>8. CASE MarkRecorded
  <2>1. /\ ui.panel = "response" /\ Editable /\ due = {}
        /\ Start([Saving({}, props.in) EXCEPT !.follow = ui.ticked /\ props.follow = "Open"])
    BY <1>8 DEF MarkRecorded
  <2>2. \A i \in props.in : Settled(ui.panel, i, props.val[i])
    BY <2>1, SettledIs DEF Shown
  <2>3. (ui.ticked /\ props.follow = "Open") \in BOOLEAN
    BY <1>4
  <2> DEFINE run == [Saving({}, props.in) EXCEPT !.follow = ui.ticked /\ props.follow = "Open"]
  <2>4. /\ run \in PanelRuns(ui.panel) /\ IsOwn(run) /\ run.left = {} /\ run.shown = props.in
        /\ run.snap = NoSnap
    <3>1. IsSaving(run, {}, props.in)
      BY <2>3 DEF IsSaving
    <3> HIDE DEF run
    <3>2. QED  BY <1>1, <1>3, <3>1
  <2>5. Start(run)
    BY <2>1
  <2> HIDE DEF run, due
  <2>6. QED  BY <1>2, <2>1, <2>2, <2>4, <2>5
<1>9. QED  BY <1>5, <1>6, <1>7, <1>8

LEMMA ActivityKeeps ==
  ASSUME PanelInv, ReopenTask \/ AcceptHere \/ UploadResearch \/ ReloadElsewhere
  PROVE  PanelInv' /\ KeepsTyped
<1>0. /\ ui.panel \in Panels /\ ui \in PanelStates(ui.panel) /\ props \in PanelRequests(ui.panel)
      /\ ui.draft \in [Items -> Values[ui.panel]]
  BY DEF PanelInv, PanelsFine, PanelStates
<1>1. \A kind \in Kinds :
        /\ Chain(kind) \in PanelRuns(ui.panel)
        /\ Chain(kind).kind = kind /\ Chain(kind).left = {} /\ Chain(kind).shown = {}
        /\ Chain(kind).task = "None" /\ Chain(kind).snap = NoSnap
        /\ Chain(kind).hears = IF kind \in {"save", "side"} THEN "panel" ELSE "section"
  BY <1>0, ChainType
<1>2. {"side", "reopen", "reload"} \subseteq Kinds
  BY DEF Kinds
<1>3. CASE ReopenTask
  <2> DEFINE run == [Chain("reopen") EXCEPT !.task = "Open"]
  <2>1. Begin(run) /\ ui' = [ui EXCEPT !.saving = TRUE] /\ UNCHANGED <<srv, props>>
        /\ props.status # "Closed"
    BY <1>3 DEF ReopenTask, Disabled
  <2>2. run \in PanelRuns(ui.panel) /\ run.kind = "reopen" /\ run.left = {} /\ run.task = "Open"
        /\ run.snap = NoSnap /\ run.hears = "section"
    BY <1>1, <1>2 DEF PanelRuns
  <2> HIDE DEF run
  <2>3. ui' \in PanelStates(ui.panel) /\ ui'.busy = ui.busy /\ ui'.open = ui.open
        /\ ui'.draft = ui.draft
    BY <1>0, <2>1 DEF PanelStates
  <2>4. RunFine(ui.panel, srv, run)
    BY <2>2 DEF RunFine
  <2>5. QED  BY <2>1, <2>2, <2>3, <2>4, AsideKeeps
<1>4. ASSUME NEW run, Aside(run), Editable, run.kind = "side", run.hears = "panel",
             RunFine(ui.panel, srv, run)
      PROVE  PanelInv' /\ KeepsTyped
  <2>1. Begin(run) /\ ui' = [ui EXCEPT !.side = "sending"] /\ UNCHANGED <<srv, props>>
        /\ props.status # "Closed"
    BY <1>4 DEF Aside, Editable, Disabled
  <2>2. ui' \in PanelStates(ui.panel) /\ ui'.busy = ui.busy /\ ui'.open = ui.open
        /\ ui'.draft = ui.draft
    BY <1>0, <2>1 DEF PanelStates
  <2>3. QED  BY <1>4, <2>1, <2>2, AsideKeeps
<1>5. CASE AcceptHere
  <2>1. PICK i \in props.in :
          Aside([Chain("side") EXCEPT !.left = {i}, !.val = [ui.draft EXCEPT ![i] = "accepted"]])
    BY <1>5 DEF AcceptHere
  <2>2. ui.panel = "crm" /\ Editable /\ i \in Items
    BY <1>0, <1>5 DEF AcceptHere, PanelRequests
  <2> DEFINE val == [ui.draft EXCEPT ![i] = "accepted"]
  <2>3. val \in [Items -> Values[ui.panel]]
    BY <1>0, <2>2, ValuesOf
  <2> HIDE DEF val
  <2> DEFINE run == [Chain("side") EXCEPT !.left = {i}, !.val = val]
  <2>4. run \in PanelRuns(ui.panel) /\ run.kind = "side" /\ run.left = {i} /\ run.task = "None"
        /\ run.snap = NoSnap /\ run.hears = "panel" /\ run.val = val
    <3>1. {i} \in SUBSET Items /\ val \in {NoValues} \cup [Items -> Values[ui.panel]]
          /\ "side" \in Kinds
      BY <1>2, <2>2, <2>3
    <3> DEFINE c == Chain("side")
    <3>2. /\ c \in PanelRuns(ui.panel) /\ c.kind = "side" /\ c.task = "None"
          /\ c.snap = NoSnap /\ c.hears = "panel"
      BY <1>1, <3>1
    <3>3. WithItem(run, c, {i}, val)
      BY DEF WithItem
    <3> HIDE DEF c, run
    <3>4. QED  BY <3>1, <3>2, <3>3, SendType
  <2> HIDE DEF run
  <2>5. RunFine(ui.panel, srv, run)
    BY <2>2, <2>3, <2>4, SettledIs DEF RunFine
  <2>6. Aside(run)
    BY <2>1 DEF run, val
  <2>7. QED  BY <1>4, <2>2, <2>4, <2>5, <2>6
<1>6. CASE UploadResearch
  <2> DEFINE run == [Chain("side") EXCEPT !.upload = TRUE]
  <2>1. Aside(run) /\ Editable
    BY <1>6 DEF UploadResearch
  <2>2. run \in PanelRuns(ui.panel) /\ run.kind = "side" /\ run.left = {} /\ run.task = "None"
        /\ run.snap = NoSnap /\ run.hears = "panel"
    <3> DEFINE c == Chain("side")
    <3>1. /\ c \in PanelRuns(ui.panel) /\ c.kind = "side" /\ c.left = {} /\ c.task = "None"
          /\ c.snap = NoSnap /\ c.hears = "panel"
      BY <1>1, <1>2
    <3>2. \E upload \in BOOLEAN : WithUpload(run, c, upload)
      BY DEF WithUpload
    <3> HIDE DEF c, run
    <3>3. QED  BY <3>1, <3>2, UploadType
  <2> HIDE DEF run
  <2>3. RunFine(ui.panel, srv, run)
    BY <2>2 DEF RunFine
  <2>4. QED  BY <1>4, <2>1, <2>2, <2>3
<1>7. CASE ReloadElsewhere
  <2> DEFINE run == Chain("reload")
  <2>1. Begin(run) /\ UNCHANGED <<srv, props, ui>>
    BY <1>7 DEF ReloadElsewhere
  <2>2. run \in PanelRuns(ui.panel) /\ run.kind = "reload" /\ run.left = {} /\ run.task = "None"
        /\ run.snap = NoSnap /\ run.hears = "section"
    BY <1>1, <1>2
  <2> HIDE DEF run
  <2>3. RunFine(ui.panel, srv, run)
    BY <2>2 DEF RunFine
  <2>4. QED  BY <1>0, <2>1, <2>2, <2>3, AsideKeeps
<1>8. QED  BY <1>3, <1>5, <1>6, <1>7

\* The agent types, ticks, opens and closes.
LEMMA TypingKeeps ==
  ASSUME PanelInv, \/ OpenTask \/ CloseTask \/ Edit \/ CopyPrimaryAddress \/ EditHold
                   \/ TickPayment \/ Decide \/ ChooseOutcome \/ Tick
  PROVE  PanelInv' /\ KeepsTyped
<1>0. /\ ui.panel \in Panels /\ ui \in PanelStates(ui.panel) /\ props \in PanelRequests(ui.panel)
      /\ props.in \subseteq Items /\ (ui.busy => ui.open) /\ ui.ticked \in BOOLEAN
  BY DEF PanelInv, PanelsFine, OneSave, PanelRequests, PanelStates
<1>1. CASE OpenTask
  <2> DEFINE u == Mounted(ui.panel, props)
  <2>1. ~ ui.open /\ ui' = [u EXCEPT !.saving = ui.saving] /\ UNCHANGED <<srv, props, runs>>
    BY <1>1 DEF OpenTask
  <2>2. u \in PanelStates(ui.panel) /\ u.open /\ ~ u.busy /\ ui.saving \in BOOLEAN
    BY <1>0, MountedType DEF PanelStates
  <2> HIDE DEF u
  <2>3. ui' \in PanelStates(ui.panel) /\ ~ ui'.busy /\ ui'.open /\ ui'.busy \in BOOLEAN
        /\ ui.busy \in BOOLEAN
    BY <1>0, <2>1, <2>2 DEF PanelStates
  <2>4. PanelInv'
    BY <1>0, <2>1, <2>3, UiGoes
  <2>5. QED  BY <2>1, <2>4 DEF KeepsTyped
<1>2. CASE CloseTask
  <2>1. /\ ui' = Shut(ui) /\ UNCHANGED <<srv, props>>
        /\ runs' = [q \in Runs |-> Deaf(runs[q])]
    BY <1>2 DEF CloseTask
  <2>2. ui' \in PanelStates(ui.panel) /\ ~ ui'.busy /\ ~ ui'.open
    BY <1>0, <2>1, ShutType
  <2>3. SrvGoes /\ PropsGo
    BY <2>1, SrvStays, PropsStay DEF PanelInv
  <2>4. PanelInv'
    BY <2>1, <2>2, <2>3, DeafKeeps
  <2>5. QED  BY <2>2, <2>4 DEF KeepsTyped
\* A draft that is typed.
<1>3. ASSUME NEW i \in Items, NEW v \in Values[ui.panel], ui' = [ui EXCEPT !.draft[i] = v],
             UNCHANGED <<srv, props, runs>>
      PROVE  PanelInv'
  <2>1. [ui.draft EXCEPT ![i] = v] \in [Items -> Values[ui.panel]]
    BY <1>0 DEF PanelStates
  <2>2. ui' \in PanelStates(ui.panel) /\ ui'.busy = ui.busy /\ ui'.open = ui.open
    BY <1>0, <1>3, <2>1 DEF PanelStates
  <2>3. QED  BY <1>0, <1>3, <2>2, UiGoes
<1>4. CASE Edit
  <2>1. PanelInv'
    BY <1>0, <1>3, <1>4 DEF Edit
  <2>2. QED  BY <1>4, <2>1 DEF KeepsTyped
<1>5. CASE CopyPrimaryAddress
  <2>1. PICK i \in props.in : ui' = [ui EXCEPT !.draft[i] = ui.draft[1]]
    BY <1>5 DEF CopyPrimaryAddress
  <2>2. ui.draft[1] \in Values[ui.panel] /\ UNCHANGED <<srv, props, runs>>
    BY <1>0, <1>5 DEF CopyPrimaryAddress, PanelStates
  <2>3. PanelInv'
    BY <1>0, <1>3, <2>1, <2>2
  <2>4. QED  BY <1>5, <2>3 DEF KeepsTyped
<1>6. CASE EditHold
  <2>1. PanelInv'
    BY <1>0, <1>3, <1>6, ValuesOf DEF EditHold
  <2>2. QED  BY <1>6, <2>1 DEF KeepsTyped, EditHold
<1>7. CASE TickPayment
  <2>1. Shown("payment", props) \subseteq Items
    BY <1>0 DEF Shown
  <2>2. PanelInv'
    BY <1>0, <1>3, <1>7, <2>1, ValuesOf DEF TickPayment
  <2>3. QED  BY <1>7, <2>2 DEF KeepsTyped
<1>8. CASE Decide
  <2>1. Shown("response", props) \subseteq Items
    BY <1>0 DEF Shown
  <2>2. PanelInv'
    BY <1>0, <1>3, <1>8, <2>1, ValuesOf DEF Decide
  <2>3. QED  BY <1>8, <2>2 DEF KeepsTyped
<1>9. CASE ChooseOutcome \/ Tick
  <2>1. /\ UNCHANGED <<srv, props, runs>>
        /\ \/ \E o \in Outcomes : ui' = [ui EXCEPT !.outcome = o]
           \/ ui' = [ui EXCEPT !.ticked = ~ @]
    BY <1>9 DEF ChooseOutcome, Tick
  <2>2. ui' \in PanelStates(ui.panel) /\ ui'.busy = ui.busy /\ ui'.open = ui.open
        /\ ui'.draft = ui.draft
    BY <1>0, <2>1 DEF PanelStates
  <2>3. QED  BY <1>0, <2>1, <2>2, UiGoes, SameDraftKeeps
<1>10. QED  BY <1>1, <1>2, <1>4, <1>5, <1>6, <1>7, <1>8, <1>9

LEMMA PanelAgentKeeps ==
  ASSUME PanelInv, Agent
  PROVE  PanelInv' /\ KeepsTyped
BY TypingKeeps, ActivityKeeps, SavePanelKeeps, SaveDecisionsKeeps DEF Agent

-----------------------------------------------------------------------------
(* The calls of a chain, and what others store.                              *)

ChainIn(r) ==
    /\ PanelsFine /\ OneSave /\ LeftForGood
    /\ ui.panel \in Panels /\ ui \in PanelStates(ui.panel)
    /\ srv \in PanelRequests(ui.panel) /\ props \in PanelRequests(ui.panel)
    /\ runs[r] \in PanelRuns(ui.panel) /\ RunFine(ui.panel, srv, runs[r])

LEMMA ChainFacts ==
  ASSUME PanelInv, NEW r \in Runs, Running(r)
  PROVE  ChainIn(r) /\ runs[r] # Idle
BY DEF PanelInv, PanelsFine, RunFine, ChainIn, Running

\* A call that failed: stored or not, the chain ends and the drafts stay.
LEMMA PanelFailed ==
  ASSUME PanelInv, NEW r \in Runs, Running(r), NEW applied, Failed(r, applied),
         srv' = applied => SrvGoes
  PROVE  PanelInv' /\ KeepsTyped
<1>1. ChainIn(r) /\ runs[r] # Idle
  BY ChainFacts
<1>2. SrvGoes
  BY <1>1, SrvStays DEF Failed, ChainIn
<1>3. PropsGo /\ runs' = [runs EXCEPT ![r] = Idle]
  BY <1>1, <1>2, PropsStay DEF Failed, ChainIn
<1>4. CASE runs[r].hears = "none"
  <2>1. ui' = ui /\ ~ IsOwn(runs[r])
    BY <1>4 DEF Failed, IsOwn
  <2>2. QED  BY <1>1, <1>2, <1>3, <2>1, EndKeeps, SameDraftKeeps DEF ChainIn
<1>5. CASE runs[r].hears # "none"
  <2> DEFINE u == Released(runs[r], ui)
  <2>1. /\ u \in PanelStates(ui.panel) /\ u.open = ui.open /\ u.draft = ui.draft
        /\ IsOwn(runs[r]) => ~ u.busy
        /\ ~ IsOwn(runs[r]) => u.busy = ui.busy
    BY <1>1, ReleasedType DEF ChainIn
  <2>2. ui' \in Errored(u)
    BY <1>5 DEF Failed
  <2> HIDE DEF u
  <2>3. /\ ui' \in PanelStates(ui.panel) /\ ui'.busy = u.busy /\ ui'.open = u.open
        /\ ui.panel # "holds" => ui'.draft = u.draft
    BY <1>1, <2>1, <2>2, ErroredType DEF ChainIn
  <2>4. QED  BY <1>1, <1>2, <1>3, <2>1, <2>3, EndKeeps, SameDraftKeeps
<1>6. QED  BY <1>4, <1>5

\* A call that was answered, or failed.
LEMMA CallKeeps ==
  ASSUME PanelInv, NEW r \in Runs, Running(r), NEW applied, NEW run, Call(r, applied, run),
         srv' = applied => SrvGoes,
         srv' = applied => RunFine(ui.panel, srv', run),
         run.kind = runs[r].kind, run.hears = runs[r].hears, run.snap = runs[r].snap
  PROVE  PanelInv' /\ KeepsTyped
<1>1. ChainIn(r) /\ runs[r] # Idle
  BY ChainFacts
<1>2. CASE Failed(r, applied)
  BY <1>2, PanelFailed
<1>3. CASE srv' = applied /\ Advance(r, run) /\ UNCHANGED <<props, ui>>
  <2>1. SrvGoes /\ RunFine(ui.panel, srv', run)
    BY <1>3
  <2>2. ui' \in PanelStates(ui.panel) /\ ui'.busy = ui.busy /\ ui'.open = ui.open
    BY <1>1, <1>3 DEF ChainIn
  <2>3. PanelInv'
    BY <1>1, <1>3, <2>1, <2>2, ChainKeeps
  <2>4. QED  BY <1>3, <2>3, SameDraftKeeps
<1>4. QED  BY <1>2, <1>3 DEF Call

LEMMA UploadedKeeps ==
  ASSUME PanelInv, NEW r \in Runs, Uploaded(r)
  PROVE  PanelInv' /\ KeepsTyped
<1>1. ChainIn(r) /\ runs[r] # Idle /\ Running(r)
  BY ChainFacts DEF Uploaded
<1>2. CASE Failed(r, srv)
  BY <1>1, <1>2, PanelFailed, SrvStays DEF ChainIn
<1>3. CASE /\ ui' = IF runs[r].hears = "panel" THEN [ui EXCEPT !.side = "yes"] ELSE ui
           /\ Advance(r, [runs[r] EXCEPT !.upload = FALSE])
           /\ UNCHANGED <<srv, props>>
  <2> DEFINE c == runs[r]
             run == [c EXCEPT !.upload = FALSE]
  <2>1. /\ run \in PanelRuns(ui.panel) /\ run.kind = c.kind /\ run.left = c.left
        /\ run.shown = c.shown /\ run.val = c.val /\ run.task = c.task
        /\ run.hears = c.hears /\ run.snap = c.snap
    <3>1. c \in PanelRuns(ui.panel) /\ \E upload \in BOOLEAN : WithUpload(run, c, upload)
      BY <1>1 DEF ChainIn, WithUpload
    <3> HIDE DEF c, run
    <3>2. QED  BY <3>1, UploadType
  <2>2. Advance(r, run)
    BY <1>3
  <2> HIDE DEF run
  <2>3. RunFine(ui.panel, srv, run)
    BY <1>1, <2>1 DEF ChainIn, RunFine
  <2>4. /\ ui' \in PanelStates(ui.panel) /\ ui'.busy = ui.busy /\ ui'.open = ui.open
        /\ ui'.draft = ui.draft
    BY <1>1, <1>3 DEF ChainIn, PanelStates
  <2>5. SrvGoes
    BY <1>1, <1>3, SrvStays DEF ChainIn
  <2>6. PanelInv'
    BY <1>1, <1>3, <2>1, <2>2, <2>3, <2>4, <2>5, ChainKeeps
  <2>7. QED  BY <2>4, <2>6, SameDraftKeeps
<1>4. QED  BY <1>2, <1>3 DEF Uploaded

LEMMA SmallestOf ==
  ASSUME NEW S, S \subseteq Nat, S # {}
  PROVE  \E x \in S : \A y \in S : x <= y
<1>1. PICK x \in S : \A y \in S : ~ (<<y, x>> \in OpToRel(<, Nat))
  BY WFMin, NatLessThanWellFounded
<1>2. \A y \in S : ~ (y < x) /\ x \in Nat /\ y \in Nat
  BY <1>1 DEF OpToRel
<1>3. QED  BY <1>2

LEMMA LeastOf ==
  ASSUME NEW S \in SUBSET Items, S # {}
  PROVE  (CHOOSE x \in S : \A y \in S : x <= y) \in S
<1>1. S \subseteq Nat
  BY NItemsAssumption DEF Items
<1>2. \E x \in S : \A y \in S : x <= y
  BY <1>1, SmallestOf
<1>3. QED  BY <1>2

LEMMA PutItemKeeps ==
  ASSUME PanelInv, NEW r \in Runs, PutItem(r)
  PROVE  PanelInv' /\ KeepsTyped
<1>1. ChainIn(r) /\ runs[r] # Idle /\ Running(r) /\ runs[r].left # {}
  BY ChainFacts DEF PutItem
<1> DEFINE c == runs[r]
           i == CHOOSE x \in c.left : \A y \in c.left : x <= y
           stored == [srv EXCEPT !.val[i] = c.val[i]]
           left == c.left \ {i}
           val == IF c.left = {i} THEN NoValues ELSE c.val
           run == [c EXCEPT !.left = left, !.val = val]
<1>2. c.left \in SUBSET Items
  BY <1>1 DEF ChainIn, PanelRuns
<1>3. i \in c.left
  BY <1>1, <1>2, LeastOf
<1>4. Call(r, stored, run)
  BY DEF PutItem
<1>5. c.val \in [Items -> Values[ui.panel]] /\ Settled(ui.panel, i, c.val[i])
  BY <1>1, <1>3 DEF ChainIn, RunFine
<1> HIDE DEF i
<1>6. /\ left \in SUBSET Items /\ val \in {NoValues} \cup [Items -> Values[ui.panel]]
      /\ left # {} => val = c.val
  BY <1>2, <1>3, <1>5
<1>7. c \in PanelRuns(ui.panel) /\ RunFine(ui.panel, srv, c)
  BY <1>1 DEF ChainIn
<1>8. WithItem(run, c, left, val)
  BY DEF WithItem
<1> HIDE DEF val, run, c
<1>9. /\ run \in PanelRuns(ui.panel) /\ run.kind = c.kind /\ run.left = left
      /\ run.shown = c.shown /\ run.val = val /\ run.task = c.task
      /\ run.hears = c.hears /\ run.snap = c.snap
  BY <1>6, <1>7, <1>8, SendType
<1>10. ASSUME srv' = stored
       PROVE  SrvGoes /\ RunFine(ui.panel, srv', run)
  <2>1. i \in Items /\ c.val[i] \in Values[ui.panel]
    BY <1>2, <1>3, <1>5
  <2>2. srv.val \in [Items -> Values[ui.panel]]
    BY <1>1 DEF ChainIn, PanelRequests
  <2>3. srv'.val = [srv.val EXCEPT ![i] = c.val[i]] /\ srv' \in PanelRequests(ui.panel)
        /\ srv'.task = srv.task /\ srv'.covered = srv.covered /\ srv'.status = srv.status
    BY <1>1, <1>10, <2>1 DEF ChainIn, PanelRequests
  <2>4. srv'.val[i] = c.val[i] /\ \A j \in Items \ {i} : srv'.val[j] = srv.val[j]
    BY <2>1, <2>2, <2>3
  <2>5. StaysSettled(ui.panel, srv, srv') /\ Settled(ui.panel, i, srv'.val[i])
    BY <1>5, <2>4 DEF StaysSettled
  <2>6. StoredWhole(ui.panel, srv')
    BY <1>1, <2>3, <2>5 DEF StoredWhole, StaysSettled, ChainIn, PanelsFine, PanelRequests
  <2>7. RunFine(ui.panel, srv', c)
    BY <1>7, <2>5, FineStays
  <2>8. RunFine(ui.panel, srv', run)
    BY <1>3, <1>5, <1>6, <1>9, <2>5, <2>7 DEF RunFine
  <2>9. QED  BY <2>3, <2>5, <2>6, <2>8 DEF SrvGoes
<1>11. run.kind = runs[r].kind /\ run.hears = runs[r].hears /\ run.snap = runs[r].snap
  BY <1>9 DEF c
<1> HIDE DEF stored
<1>12. QED  BY <1>1, <1>4, <1>10, <1>11, CallKeeps

LEMMA FollowUpDoneKeeps ==
  ASSUME PanelInv, NEW r \in Runs, FollowUpDone(r)
  PROVE  PanelInv' /\ KeepsTyped
<1>1. ChainIn(r) /\ runs[r] # Idle /\ Running(r)
  BY ChainFacts DEF FollowUpDone
<1> DEFINE c == runs[r]
           stored == [srv EXCEPT !.follow = "Done"]
           run == [c EXCEPT !.follow = FALSE]
<1>2. Call(r, stored, run)
  BY DEF FollowUpDone
<1>3. c \in PanelRuns(ui.panel) /\ RunFine(ui.panel, srv, c)
  BY <1>1 DEF ChainIn
<1>4. ASSUME NEW follow \in BOOLEAN, NEW d, d = [c EXCEPT !.follow = follow]
      PROVE  /\ d \in PanelRuns(ui.panel) /\ d.kind = c.kind /\ d.left = c.left
             /\ d.shown = c.shown /\ d.val = c.val /\ d.task = c.task
             /\ d.hears = c.hears /\ d.snap = c.snap
  BY <1>3, <1>4 DEF PanelRuns
<1>5. \E follow \in BOOLEAN : run = [c EXCEPT !.follow = follow]
  OBVIOUS
<1> HIDE DEF run
<1>6. /\ run \in PanelRuns(ui.panel) /\ run.kind = c.kind /\ run.left = c.left
      /\ run.shown = c.shown /\ run.val = c.val /\ run.task = c.task
      /\ run.hears = c.hears /\ run.snap = c.snap
  BY <1>4, <1>5
<1>7. ASSUME srv' = stored
      PROVE  SrvGoes /\ RunFine(ui.panel, srv', run)
  <2>1. srv' \in PanelRequests(ui.panel) /\ srv'.val = srv.val /\ srv'.task = srv.task
        /\ srv'.covered = srv.covered /\ srv'.status = srv.status
    BY <1>1, <1>7 DEF ChainIn, PanelRequests
  <2>2. SrvGoes
    BY <1>1, <2>1 DEF SrvGoes, StaysSettled, StoredWhole, ChainIn, PanelsFine
  <2>3. RunFine(ui.panel, srv', c)
    BY <1>3, <2>2, FineStays DEF SrvGoes
  <2>4. QED  BY <1>6, <2>2, <2>3 DEF RunFine
<1> HIDE DEF stored
<1>8. run.kind = runs[r].kind /\ run.hears = runs[r].hears /\ run.snap = runs[r].snap
  BY <1>6
<1> HIDE DEF c
<1>9. QED  BY <1>1, <1>2, <1>7, <1>8, CallKeeps

LEMMA TaskSetKeeps ==
  ASSUME PanelInv, NEW r \in Runs, TaskSet(r)
  PROVE  PanelInv' /\ KeepsTyped
<1>1. ChainIn(r) /\ runs[r] # Idle /\ Running(r) /\ runs[r].left = {} /\ runs[r].task # "None"
  BY ChainFacts DEF TaskSet
<1> DEFINE c == runs[r]
           run == [c EXCEPT !.task = "None", !.shown = {}]
<1>2. Call(r, TaskStored(c), run)
  BY DEF TaskSet
<1>3. c \in PanelRuns(ui.panel) /\ RunFine(ui.panel, srv, c)
  BY <1>1 DEF ChainIn
<1>4. /\ run \in PanelRuns(ui.panel) /\ run.kind = c.kind /\ run.left = c.left
      /\ run.shown = {} /\ run.val = c.val /\ run.task = "None"
      /\ run.hears = c.hears /\ run.snap = c.snap
  BY <1>3 DEF PanelRuns
<1> HIDE DEF run
<1>5. ASSUME srv' = TaskStored(c)
      PROVE  SrvGoes /\ RunFine(ui.panel, srv', run)
  <2> DEFINE result == srv.result \/ (ui.panel \in {"payment", "crm"} /\ c.task = "Done")
  <2>1. result \in BOOLEAN /\ c.task \in {"Open", "Done"} /\ c.shown \in SUBSET Items
    BY <1>1, <1>3 DEF PanelRuns, ChainIn, PanelRequests
  <2>2. srv' = [srv EXCEPT !.task = c.task, !.covered = c.shown, !.result = result]
    BY <1>5 DEF TaskStored
  <2> HIDE DEF result
  <2>3. srv' \in PanelRequests(ui.panel) /\ srv'.val = srv.val /\ srv'.task = c.task
        /\ srv'.covered = c.shown /\ srv'.status = srv.status
    BY <1>1, <2>1, <2>2 DEF ChainIn, PanelRequests
  <2>4. StoredWhole(ui.panel, srv')
    BY <1>1, <1>3, <2>3 DEF StoredWhole, RunFine
  <2>5. SrvGoes
    BY <2>3, <2>4 DEF SrvGoes, StaysSettled
  <2>6. RunFine(ui.panel, srv', c)
    BY <1>3, <2>5, FineStays DEF SrvGoes
  <2>7. QED  BY <1>4, <2>5, <2>6 DEF RunFine
<1>6. run.kind = runs[r].kind /\ run.hears = runs[r].hears /\ run.snap = runs[r].snap
  BY <1>4
<1> HIDE DEF c
<1>7. QED  BY <1>1, <1>2, <1>5, <1>6, CallKeeps

\* What the close of the request leaves of a chain.
LeftBehind(d, c) ==
    \/ d = [c EXCEPT !.hears = "none"]
    \/ \E close \in BOOLEAN : d = [[c EXCEPT !.close = close] EXCEPT !.hears = "none"]

LEMMA LeftBehindType ==
  ASSUME NEW p, NEW s, NEW c, RunFine(p, s, c), NEW d, LeftBehind(d, c)
  PROVE  RunFine(p, s, d) /\ d.hears = "none"
<1>1. c \in PanelRuns(p)
  BY DEF RunFine
<1>2. /\ d \in PanelRuns(p) /\ d.kind = c.kind /\ d.left = c.left /\ d.shown = c.shown
      /\ d.val = c.val /\ d.task = c.task /\ d.hears = "none" /\ d.snap = c.snap
  <2>1. CASE d = [c EXCEPT !.hears = "none"]
    BY <1>1, <2>1 DEF PanelRuns
  <2>2. CASE \E close \in BOOLEAN : d = [[c EXCEPT !.close = close] EXCEPT !.hears = "none"]
    BY <1>1, <2>2 DEF PanelRuns
  <2>3. QED  BY <2>1, <2>2 DEF LeftBehind
<1>3. QED  BY <1>1, <1>2 DEF RunFine

LEMMA RequestClosedKeeps ==
  ASSUME PanelInv, NEW r \in Runs, RequestClosed(r)
  PROVE  PanelInv' /\ KeepsTyped
<1>1. ChainIn(r) /\ runs[r] # Idle /\ Running(r)
  BY ChainFacts DEF RequestClosed
<1> DEFINE closed == [srv EXCEPT !.status = "Closed"]
           done(q) == IF q = r THEN [runs[q] EXCEPT !.close = FALSE] ELSE runs[q]
<1>2. closed \in PanelRequests(ui.panel) /\ closed.val = srv.val /\ closed.task = srv.task
      /\ closed.covered = srv.covered /\ closed.status = "Closed"
  BY <1>1 DEF ChainIn, PanelRequests
<1>3. CASE srv' \in {srv, closed} /\ Advance(r, done(r)) /\ UNCHANGED <<props, ui>>
  <2>1. SrvGoes
    BY <1>1, <1>2, <1>3 DEF SrvGoes, StaysSettled, StoredWhole, ChainIn, PanelsFine
  <2>2. RunFine(ui.panel, srv', runs[r])
    BY <1>1, <2>1, FineStays DEF SrvGoes, ChainIn
  <2> DEFINE run == done(r)
  <2>3. RunFine(ui.panel, srv', run) /\ run.hears = runs[r].hears /\ run.kind = runs[r].kind
        /\ run.snap = runs[r].snap
    <3> DEFINE c == runs[r]
    <3>1. c = [c EXCEPT !.hears = c.hears] /\ c \in PanelRuns(ui.panel)
      BY <1>1 DEF ChainIn, PanelRuns
    <3>2. \E close \in BOOLEAN : run = [c EXCEPT !.close = close]
      OBVIOUS
    <3>3. RunFine(ui.panel, srv', c)
      BY <2>2
    <3> HIDE DEF c, run
    <3>4. PICK close \in BOOLEAN : run = [c EXCEPT !.close = close]
      BY <3>2
    <3>5. /\ run \in PanelRuns(ui.panel) /\ run.kind = c.kind /\ run.left = c.left
          /\ run.shown = c.shown /\ run.val = c.val /\ run.task = c.task
          /\ run.hears = c.hears /\ run.snap = c.snap
      BY <3>1, <3>4 DEF PanelRuns
    <3>6. QED  BY <3>3, <3>5 DEF RunFine, c
  <2>4. Advance(r, run)
    BY <1>3
  <2> HIDE DEF run
  <2>5. ui' \in PanelStates(ui.panel) /\ ui'.busy = ui.busy /\ ui'.open = ui.open
    BY <1>1, <1>3 DEF ChainIn
  <2>6. PanelInv'
    BY <1>1, <1>3, <2>1, <2>3, <2>4, <2>5, ChainKeeps
  <2>7. QED  BY <1>3, <2>6, SameDraftKeeps
<1>4. CASE /\ srv' = closed
           /\ IF runs[r].hears = "none" THEN UNCHANGED <<props, ui>>
              ELSE props' = closed /\ ui' = Shut(Mounted(ui.panel, closed))
           /\ runs' = [q \in Runs |-> IF runs[q] = Idle THEN Idle
                                      ELSE [done(q) EXCEPT !.hears = "none"]]
  <2>1. SrvGoes
    BY <1>1, <1>2, <1>4 DEF SrvGoes, StaysSettled, StoredWhole, ChainIn, PanelsFine
  <2>2. /\ props' \in PanelRequests(ui.panel) /\ props'.status = "Closed"
        /\ StaysSettled(ui.panel, props', srv')
        /\ ui' \in PanelStates(ui.panel) /\ ~ ui'.busy
        /\ ui' = ui \/ ~ ui'.open
    <3>1. CASE runs[r].hears = "none"
      BY <1>1, <1>2, <1>4, <3>1 DEF ChainIn, LeftForGood, PanelsFine, StaysSettled
    <3>2. CASE runs[r].hears # "none"
      <4> HIDE DEF closed
      <4>1. Mounted(ui.panel, closed) \in PanelStates(ui.panel)
        BY <1>1, <1>2, MountedType DEF ChainIn
      <4>2. props' = closed /\ ui' = Shut(Mounted(ui.panel, closed)) /\ srv' = closed
        BY <1>4, <3>2
      <4>3. QED  BY <1>2, <4>1, <4>2, ShutType DEF StaysSettled
    <3>3. QED  BY <3>1, <3>2
  <2>3. PropsGo
    BY <2>2 DEF PropsGo
  <2>4. \A q \in Runs : runs'[q] = IF runs[q] = Idle THEN Idle
                                   ELSE [done(q) EXCEPT !.hears = "none"]
    BY <1>4
  <2>5. ASSUME NEW q \in Runs, runs'[q] # Idle
        PROVE  RunFine(ui.panel, srv', runs'[q]) /\ runs'[q].hears = "none"
    <3>1. runs[q] # Idle /\ runs'[q] = [done(q) EXCEPT !.hears = "none"]
      BY <2>4, <2>5
    <3>2. RunFine(ui.panel, srv', runs[q]) /\ runs[q] \in PanelRuns(ui.panel)
      BY <1>1, <2>1, <3>1, FineStays DEF SrvGoes, ChainIn, PanelsFine, RunFine
    <3> DEFINE c == runs[q]
               d == runs'[q]
    <3>3. LeftBehind(d, c)
      BY <3>1 DEF LeftBehind
    <3>4. RunFine(ui.panel, srv', c)
      BY <3>2
    <3> HIDE DEF c, d
    <3>5. RunFine(ui.panel, srv', d) /\ d.hears = "none"
      BY <3>3, <3>4, LeftBehindType
    <3>6. QED  BY <3>5 DEF d
  <2>6. PanelsFine'
    <3>1. runs' = [q \in Runs |-> runs'[q]]
      BY <1>4
    <3>2. QED  BY <1>1, <2>1, <2>2, <2>3, <2>5, <3>1, PanelsStayFine DEF ChainIn
  <2>7. OneSave' /\ LeftForGood'
    BY <1>2, <1>4, <2>2, <2>5 DEF OneSave, LeftForGood, Late, IsOwn
  <2>8. QED  BY <2>2, <2>6, <2>7, SameDraftKeeps DEF PanelInv
<1>5. QED  BY <1>3, <1>4 DEF RequestClosed

LEMMA LoadKeeps ==
  ASSUME PanelInv, NEW r \in Runs, Load(r)
  PROVE  PanelInv' /\ KeepsTyped
<1>1. ChainIn(r) /\ runs[r] # Idle /\ UNCHANGED <<srv, props>>
  BY ChainFacts DEF Load
<1>2. SrvGoes /\ PropsGo
  BY <1>1, SrvStays, PropsStay DEF ChainIn
<1>3. CASE Finished(r, ui)
  <2>1. PanelInv' /\ (ui'.open => ui'.draft = ui.draft)
    BY <1>1, <1>2, <1>3, FinishKeeps DEF ChainIn
  <2>2. QED  BY <2>1, SameDraftKeeps
<1>4. CASE Advance(r, [runs[r] EXCEPT !.snap = srv]) /\ UNCHANGED ui
  <2> DEFINE c == runs[r]
             run == [c EXCEPT !.snap = srv]
  <2>1. RunFine(ui.panel, srv, c) /\ c \in PanelRuns(ui.panel)
        /\ srv \in PanelRequests(ui.panel)
    BY <1>1 DEF ChainIn
  <2>2. Advance(r, run)
    BY <1>4
  <2> HIDE DEF c
  <2>3. /\ run \in PanelRuns(ui.panel) /\ run.kind = c.kind /\ run.left = c.left
        /\ run.shown = c.shown /\ run.val = c.val /\ run.task = c.task
        /\ run.hears = c.hears /\ run.snap = srv
    BY <2>1 DEF PanelRuns
  <2> HIDE DEF run
  <2>4. RunFine(ui.panel, srv, run)
    BY <2>1, <2>3 DEF RunFine, StaysSettled
  <2>5. run.kind = runs[r].kind /\ run.hears = runs[r].hears
    BY <2>3 DEF c
  <2>6. PanelInv'
    BY <1>1, <1>2, <1>4, <2>2, <2>3, <2>4, <2>5, ChainKeeps DEF ChainIn
  <2>7. QED  BY <1>4, <2>6, SameDraftKeeps
<1>5. QED  BY <1>3, <1>4 DEF Load

LEMMA ShowKeeps ==
  ASSUME PanelInv, NEW r \in Runs, Show(r)
  PROVE  PanelInv' /\ KeepsTyped
<1>1. ChainIn(r) /\ runs[r] # Idle /\ Running(r) /\ runs[r].snap # NoSnap /\ UNCHANGED srv
  BY ChainFacts DEF Show
<1>2. SrvGoes
  BY <1>1, SrvStays DEF ChainIn
<1>3. CASE runs[r].hears = "none"
  <2>1. Finished(r, ui) /\ PropsGo
    BY <1>1, <1>2, <1>3, PropsStay DEF Show, ChainIn
  <2>2. PanelInv' /\ (ui'.open => ui'.draft = ui.draft)
    BY <1>1, <1>2, <2>1, FinishKeeps DEF ChainIn
  <2>3. QED  BY <2>2, SameDraftKeeps
<1>4. CASE runs[r].hears # "none"
  <2> DEFINE s == runs[r].snap
  <2>1. s \in PanelRequests(ui.panel) /\ StaysSettled(ui.panel, s, srv)
    BY <1>1 DEF ChainIn, PanelRuns, RunFine
  <2>2. props' = s /\ Finished(r, Reloaded(ui, s))
    BY <1>4 DEF Show
  <2>3. (\E q \in Runs : runs[q] # Idle /\ runs[q].hears = "none") => s.status = "Closed"
    BY <1>1, <1>4 DEF ChainIn, LeftForGood, Late
  <2> HIDE DEF s
  <2>4. PropsGo
    BY <1>1, <2>1, <2>2, <2>3 DEF PropsGo
  <2> DEFINE u == Reloaded(ui, s)
  <2>5. u \in PanelStates(ui.panel) /\ u.busy = ui.busy /\ u.open = ui.open
    BY <1>1, <2>1, ReloadedType DEF ChainIn
  <2>6. Finished(r, u)
    BY <2>2
  <2> HIDE DEF u
  <2>7. PanelInv' /\ runs'[r] = Idle
    BY <1>1, <1>2, <2>4, <2>5, <2>6, FinishKeeps
  <2>8. QED  BY <1>1, <2>7 DEF KeepsTyped
<1>5. QED  BY <1>3, <1>4

LEMMA ServerKeeps ==
  ASSUME PanelInv, SrvGoes, PropsGo, UNCHANGED <<props, ui, runs>>
  PROVE  PanelInv'
<1>1. PanelsFine /\ OneSave /\ LeftForGood
  BY DEF PanelInv
<1>2. \A r \in Runs : runs'[r] # Idle => RunFine(ui.panel, srv', runs'[r])
  BY <1>1, FineStays DEF PanelsFine, SrvGoes
<1>3. PanelsFine'
  BY <1>1, <1>2, PanelsStayFine DEF PanelsFine
<1>4. OneSave' /\ LeftForGood'
  BY <1>1 DEF OneSave, LeftForGood, SrvGoes
<1>5. QED  BY <1>3, <1>4 DEF PanelInv

LEMMA UnsetIs ==
  /\ Unset["verify"] = "undated" /\ Unset["addresses"] = "none" /\ Unset["holds"] = "unheld"
  /\ Unset["payment"] = "unheld" /\ Unset["response"] = "proposed" /\ Unset["crm"] = "proposed"
BY DEF Unset

\* Others add and complete records.
LEMMA ElsewhereKeeps ==
  ASSUME PanelInv, Elsewhere
  PROVE  PanelInv' /\ KeepsTyped
<1>1. /\ PanelsFine /\ OneSave /\ LeftForGood /\ UNCHANGED <<props, ui, runs>>
      /\ ui.panel \in Panels /\ ui \in PanelStates(ui.panel)
      /\ srv \in PanelRequests(ui.panel)
  BY DEF PanelInv, PanelsFine, Elsewhere
<1>2. CASE \E i \in Items \ srv.in : srv' = [srv EXCEPT !.in = @ \cup {i}]
  <2>1. /\ srv' \in PanelRequests(ui.panel) /\ srv'.val = srv.val /\ srv'.task = srv.task
        /\ srv'.covered = srv.covered /\ srv'.status = srv.status
    BY <1>1, <1>2 DEF PanelRequests
  <2>2. SrvGoes
    BY <1>1, <2>1 DEF SrvGoes, StaysSettled, StoredWhole, PanelsFine
  <2>3. QED  BY <1>1, <2>2, PropsStay, ServerKeeps, SameDraftKeeps
<1>3. CASE \E i \in srv.in, v \in Values[ui.panel] \ {Unset[ui.panel]} :
             /\ srv.val[i] = Unset[ui.panel]
             /\ srv' = [srv EXCEPT !.val[i] = v]
  <2>1. PICK i \in srv.in, v \in Values[ui.panel] \ {Unset[ui.panel]} :
             /\ srv.val[i] = Unset[ui.panel]
             /\ srv' = [srv EXCEPT !.val[i] = v]
    BY <1>3
  <2>2. i \in Items /\ srv.val \in [Items -> Values[ui.panel]]
    BY <1>1 DEF PanelRequests
  <2>3. /\ srv' \in PanelRequests(ui.panel) /\ srv'.val = [srv.val EXCEPT ![i] = v]
        /\ srv'.task = srv.task /\ srv'.covered = srv.covered /\ srv'.status = srv.status
    BY <1>1, <2>1, <2>2 DEF PanelRequests
  <2>4. Settled(ui.panel, i, srv.val[i]) => Settled(ui.panel, i, v)
    BY <1>1, <2>1, PanelsAre, SettledIs, UnsetIs
  <2>5. StaysSettled(ui.panel, srv, srv')
    BY <2>2, <2>3, <2>4 DEF StaysSettled
  <2>6. StoredWhole(ui.panel, srv')
    BY <1>1, <2>3, <2>5 DEF StoredWhole, StaysSettled, PanelsFine, PanelRequests
  <2>7. SrvGoes
    BY <2>3, <2>5, <2>6 DEF SrvGoes
  <2>8. QED  BY <1>1, <2>7, PropsStay, ServerKeeps, SameDraftKeeps
<1>4. QED  BY <1>2, <1>3 DEF Elsewhere

-----------------------------------------------------------------------------
(* A task panel, step by step.                                               *)

LEMMA PanelStep ==
  ASSUME PanelInv, Next
  PROVE  PanelInv' /\ KeepsTyped
BY PanelAgentKeeps, ElsewhereKeeps, UploadedKeeps, PutItemKeeps, FollowUpDoneKeeps,
   TaskSetKeeps, RequestClosedKeeps, LoadKeeps, ShowKeeps DEF Next, Answer

LEMMA PanelStutter ==
  ASSUME PanelInv, UNCHANGED vars
  PROVE  PanelInv'
BY DEF PanelInv, PanelsFine, OneSave, LeftForGood, vars

LEMMA PanelStart == Init => PanelInv
<1>1. SUFFICES ASSUME Init  PROVE PanelInv
  OBVIOUS
<1>2. PICK p \in Panels, n \in 1 .. NItems :
        /\ \E v \in [Items -> Values[p]] :
             srv = [in |-> 1 .. n, val |-> v, task |-> "Open", follow |-> "Open",
                    result |-> FALSE, status |-> "Open", covered |-> {}]
        /\ ui = Shut(Mounted(p, srv))
  BY <1>1 DEF Init
<1>3. 1 .. n \subseteq Items
  BY NItemsAssumption DEF Items
<1>4. srv \in PanelRequests(p) /\ srv.task = "Open"
  BY <1>2, <1>3 DEF PanelRequests
<1>5. ui \in PanelStates(p) /\ ~ ui.busy
  BY <1>2, <1>4, MountedType, ShutType
<1>6. ui.panel = p
  BY <1>5 DEF PanelStates
<1>7. props = srv /\ runs = [r \in Runs |-> Idle]
  BY <1>1 DEF Init
<1>8. PanelsFine
  BY <1>4, <1>5, <1>6, <1>7 DEF PanelsFine, StaysSettled, StoredWhole
<1>9. OneSave /\ LeftForGood
  BY <1>5, <1>7 DEF OneSave, LeftForGood, IsOwn
<1>10. QED  BY <1>8, <1>9 DEF PanelInv

\* The invariant gives what is said of a task panel.
LEMMA PanelHolds == PanelInv => TypeOK /\ DoneIsStored /\ BusyIsRunning
<1>1. SUFFICES ASSUME PanelInv  PROVE TypeOK /\ DoneIsStored /\ BusyIsRunning
  OBVIOUS
<1>2. PanelsFine /\ OneSave /\ ui.panel \in Panels
  BY <1>1 DEF PanelInv, PanelsFine
<1>3. Values[ui.panel] \subseteq UNION {Values[p] : p \in Panels}
  BY <1>2
<1> DEFINE every == UNION {Values[p] : p \in Panels}
<1>4. PanelRequests(ui.panel) \subseteq Requests
  <2>1. Values[ui.panel] \subseteq every
    BY <1>3
  <2> HIDE DEF every
  <2>2. [Items -> Values[ui.panel]] \subseteq [Items -> every]
    BY <2>1
  <2>3. QED  BY <2>2 DEF PanelRequests, Requests, every
<1>5. PanelRuns(ui.panel) \subseteq RunSet
  <2>1. Values[ui.panel] \subseteq every
    BY <1>3
  <2> HIDE DEF every
  <2>2. [Items -> Values[ui.panel]] \subseteq [Items -> every]
    BY <2>1
  <2>3. QED  BY <1>4, <2>2 DEF PanelRuns, RunSet, every
<1>6. TypeOK
  <2>1. srv \in Requests /\ props \in Requests
    BY <1>2, <1>4 DEF PanelsFine
  <2>2. \A r \in Runs : runs[r] # Idle => runs[r] \in RunSet
    BY <1>2, <1>5 DEF PanelsFine, RunFine
  <2>3. QED  BY <1>2, <2>1, <2>2 DEF TypeOK, PanelsFine, PanelStates
<1>7. DoneIsStored
  BY <1>2 DEF DoneIsStored, PanelsFine, StoredWhole
<1>8. BusyIsRunning
  <2> DEFINE own == {r \in Runs : Running(r) /\ runs[r].kind = "save" /\ runs[r].hears = "panel"}
  <2>1. own = {r \in Runs : IsOwn(runs[r])}
    BY DEF IsOwn, Running
  <2>2. ui.busy \in BOOLEAN
    BY <1>2 DEF PanelsFine, PanelStates
  <2>3. (ui.busy <=> own # {}) /\ \A q, r \in own : q = r
    BY <1>2, <2>1 DEF OneSave
  <2>4. own = {} \/ \E r \in own : own = {r}
    BY <2>3
  <2>5. Cardinality(own) <= 1
    <3> HIDE DEF own
    <3>1. CASE own = {}
      BY <3>1, FS_EmptySet
    <3>2. CASE \E r \in own : own = {r}
      <4>1. PICK r \in own : own = {r}
        BY <3>2
      <4>2. Cardinality({r}) = 1
        BY FS_Singleton
      <4>3. QED  BY <4>1, <4>2
    <3>3. QED  BY <2>4, <3>1, <3>2
  <2>6. QED  BY <2>2, <2>3, <2>5 DEF BusyIsRunning
<1>9. QED  BY <1>6, <1>7, <1>8

-----------------------------------------------------------------------------
(* The request: one of the three is worked on.                               *)

\* The inductive invariant: each screen keeps its own.
TasksInv ==
    /\ screen \in {"panel", "rooms", "insurance"}
    /\ screen = "panel" => PanelInv
    /\ screen = "rooms" => RoomsInv
    /\ screen = "insurance" => InsuranceInv

\* A screen that is Off stays Off while another is studied, so its share of the
\* invariant is about the screen that runs.
LEMMA TasksStep ==
  ASSUME TasksInv, MCNext
  PROVE  /\ TasksInv'
         /\ screen = "panel" => KeepsTyped
         /\ screen = "rooms" => C!KeepsTyped
<1>1. screen \in {"panel", "rooms", "insurance"} /\ screen' = screen
  BY DEF TasksInv, MCNext
<1>2. CASE screen = "panel"
  <2>1. PanelInv /\ Next
    BY <1>2 DEF TasksInv, MCNext
  <2>2. QED  BY <1>1, <1>2, <2>1, PanelStep DEF TasksInv
<1>3. CASE screen = "rooms"
  <2>1. RoomsInv /\ C!Next
    BY <1>3 DEF TasksInv, MCNext
  <2>2. QED  BY <1>1, <1>3, <2>1, RoomsStep DEF TasksInv
<1>4. CASE screen = "insurance"
  <2>1. InsuranceInv /\ I!Next
    BY <1>4 DEF TasksInv, MCNext
  <2>2. QED  BY <1>1, <1>4, <2>1, InsuranceStep DEF TasksInv
<1>5. QED  BY <1>1, <1>2, <1>3, <1>4

LEMMA TasksStutter ==
  ASSUME TasksInv, UNCHANGED taskVars
  PROVE  TasksInv'
<1>1. UNCHANGED <<screen, vars, roomVars, insuranceVars>>
  BY DEF taskVars
<1>2. QED  BY <1>1, PanelStutter, RoomsStutter, InsuranceStutter DEF TasksInv

LEMMA TasksInductive == MCSpec => []TasksInv
<1>1. MCInit => TasksInv
  BY PanelStart, RoomsStart, InsuranceStart DEF MCInit, TasksInv
<1>2. TasksInv /\ [MCNext]_taskVars => TasksInv'
  BY TasksStep, TasksStutter
<1>3. QED  BY <1>1, <1>2, PTL DEF MCSpec

\* Every record of the client's task screens has its fields in their ranges, whatever
\* the number of records, chains, rooms, passengers and quotes.
THEOREM TasksAreTyped == MCSpec => []TasksTypeOK
<1>1. TasksInv => TasksTypeOK
  BY PanelHolds, RoomsHold, InsuranceHolds DEF TasksInv, TasksTypeOK
<1>2. QED  BY <1>1, TasksInductive, PTL

\* A task that is Done has every record stored complete that its save had on screen: the
\* save handlers of the six task panels (WorkflowsSection), with any number of records
\* and of overlapping chains.
THEOREM DoneTasksAreStored == MCSpec => []TaskDoneIsStored
<1>1. TasksInv => TaskDoneIsStored
  BY PanelHolds DEF TasksInv, TaskDoneIsStored
<1>2. QED  BY <1>1, TasksInductive, PTL

\* A panel is busy exactly while its one save runs, and no flag of the insurance panel
\* is on without a handler that takes it off.
THEOREM BusyTasksHaveCause == MCSpec => []BusyHasCause
<1>1. TasksInv => BusyHasCause
  BY PanelHolds, InsuranceHolds DEF TasksInv, BusyHasCause
<1>2. QED  BY <1>1, TasksInductive, PTL

\* The insurance panel goes on only with the check on record, with any number of quotes.
THEOREM CheckedInsuranceIsOnRecord == MCSpec => []InsuranceCheckIsOnRecord
<1>1. TasksInv => InsuranceCheckIsOnRecord
  BY InsuranceHolds DEF TasksInv, InsuranceCheckIsOnRecord
<1>2. QED  BY <1>1, TasksInductive, PTL

\* No save of the cruise dialog breaks the server's rules for rooms, and no stored cruise
\* holds a passenger that was removed from the request, whatever the number of rooms and
\* passengers and the largest room.
THEOREM RoomsAreSavedLegally == MCSpec => []RoomSavesAreLegal
<1>1. TasksInv => RoomSavesAreLegal
  BY RoomsHold DEF TasksInv, RoomSavesAreLegal
<1>2. QED  BY <1>1, TasksInductive, PTL

\* What was typed in a task panel or in a room is taken only by the agent, by a save that
\* stored it or by a reload.
THEOREM TypedStays == MCSpec => TypedIsKept
<1>1. TasksInv /\ [MCNext]_taskVars =>
        [/\ screen = "panel" => KeepsTyped
         /\ screen = "rooms" => C!KeepsTyped]_taskVars
  BY TasksStep
<1>2. QED  BY <1>1, TasksInductive, PTL DEF MCSpec, TypedIsKept
=============================================================================
