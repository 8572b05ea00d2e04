------------------------ MODULE HotelInventoryProofs ------------------------
(***************************************************************************)
(* The hotel that only grows implements the inventory of beds, for every    *)
(* set of rooms, guests, capacities and bed counts and every length of the  *)
(* calendar: its first state maps to a first state of the inventory, and    *)
(* each of its steps to a step of the inventory or to none.                 *)
(***************************************************************************)
EXTENDS HotelInventory, HotelManagerProofs

(* The nights a room gives away, as the mapping counts them. *)
TakenIn(room) == [d \in Days |-> BedsOf(staying(room, d))]

(* Nobody in its books has fewer beds than none, as FitInv says of each.    *)
Plain(room) == \A u \in room.users : u.number_of_reservation >= 0

(* It says so because a bed is the least anybody may ask for.               *)
LEMMA AllPlain ==
    ASSUME HotelInv, FitInv
    PROVE  \A r \in DOMAIN rooms : Plain(rooms[r])
  <1>1. \A r \in DOMAIN rooms : \A u \in rooms[r].users :
            u.number_of_reservation \in Int /\ u.number_of_reservation > 0
    BY DEF HotelInv, FitInv, FitRoom, SoundRoom, BookedRoom, Room, RoomUser
  <1>2. QED
    BY <1>1 DEF Plain

(* A room with no new reservation gives no night away.                      *)
LEMMA FewerTaken ==
    ASSUME NEW room, BookedRoom(room), Plain(room),
           NEW after, after.users \subseteq room.users, NEW d
    PROVE  BedsOf(staying(after, d)) <= BedsOf(staying(room, d))
  <1>1. staying(after, d) \subseteq staying(room, d)
    BY DEF staying
  <1>2. Countable(staying(room, d)) /\ TakeBeds(staying(room, d))
    BY StayingCountable DEF Plain, TakeBeds, staying
  <1>3. QED
    BY <1>1, <1>2, BedsOfSubset

(* A room just added, or just read, has nobody in it.                       *)
LEMMA NewRoomTaken ==
    ASSUME NEW c, NEW p
    PROVE  /\ new_room(c, p).max_capacity = c
           /\ TakenIn(new_room(c, p)) = [d \in Days |-> 0]
  <1>1. new_room(c, p).max_capacity = c /\ new_room(c, p).users = {}
    BY DEF new_room
  <1>2. \A d : staying(new_room(c, p), d) = {}
    BY <1>1 DEF staying
  <1>3. QED
    BY <1>1, <1>2, BedsOfNone DEF TakenIn

(* A change of the date leaves the nights to come as they are.              *)
LEMMA RefreshTaken ==
    ASSUME NEW room, BookedRoom(room), Plain(room), NEW day \in Days, NEW d \in Days
    PROVE  /\ refresh(room, day).max_capacity = room.max_capacity
           /\ BedsOf(staying(refresh(room, day), d)) <= BedsOf(staying(room, d))
           /\ d >= day => BedsOf(staying(refresh(room, day), d)) = BedsOf(staying(room, d))
  <1> DEFINE after == refresh(room, day)
  <1>1. /\ after.users = {u \in room.users : day < u.checkout_date}
        /\ after.max_capacity = room.max_capacity
    BY DEF refresh, BookedRoom, Room
  <1>2. \A u \in room.users : u.checkout_date \in Int
    BY DaysAreInts DEF BookedRoom, Room, RoomUser
  <1>3. day \in Int /\ d \in Int
    BY DaysAreInts
  <1> HIDE DEF after
  <1>4. d >= day => staying(after, d) = staying(room, d)
    BY <1>1, <1>2, <1>3 DEF staying
  <1>5. BedsOf(staying(after, d)) <= BedsOf(staying(room, d))
    BY <1>1, FewerTaken
  <1>6. QED
    BY <1>1, <1>4, <1>5 DEF after

(* Refreshing a room on a day on which none of its stays is over changes    *)
(* nothing that the inventory sees.                                         *)
LEMMA RefreshTodayTaken ==
    ASSUME NEW room, BookedRoom(room), NEW day \in Days,
           \A u \in room.users : day < u.checkout_date
    PROVE  /\ refresh(room, day).max_capacity = room.max_capacity
           /\ TakenIn(refresh(room, day)) = TakenIn(room)
  <1>1. /\ refresh(room, day).users = room.users
        /\ refresh(room, day).max_capacity = room.max_capacity
    BY DEF refresh, BookedRoom, Room
  <1>2. QED
    BY <1>1 DEF TakenIn, staying

-----------------------------------------------------------------------------
(* Lemmas about the hotel.                                                  *)

(* The mapping, in terms of TakenIn, before and after a step.               *)
LEMMA Mapped ==
    /\ DOMAIN beds_of = DOMAIN rooms /\ DOMAIN taken_of = DOMAIN rooms
    /\ DOMAIN beds_of' = DOMAIN rooms' /\ DOMAIN taken_of' = DOMAIN rooms'
    /\ \A r \in DOMAIN rooms :
           beds_of[r] = rooms[r].max_capacity /\ taken_of[r] = TakenIn(rooms[r])
    /\ \A r \in DOMAIN rooms' :
           beds_of'[r] = rooms'[r].max_capacity /\ taken_of'[r] = TakenIn(rooms'[r])
  BY DEF beds_of, taken_of, TakenIn

(* A hotel as it is read has given nothing away.                            *)
LEMMA InitMaps == HotelInit => Inventory!InventoryInit
  <1> SUFFICES ASSUME HotelInit PROVE Inventory!InventoryInit
    OBVIOUS
  <1>1. PICK S \in SUBSET RoomNumbers :
            rooms \in [S -> {new_room(c, p) : c \in Capacities, p \in Prices}]
    BY DEF HotelInit
  <1>2. \A r \in S : /\ rooms[r].max_capacity \in Capacities
                     /\ TakenIn(rooms[r]) = [d \in Days |-> 0]
    BY <1>1, NewRoomTaken
  <1>3. DOMAIN rooms = S
    BY <1>1
  <1>4. beds_of \in [S -> Capacities]
    BY <1>2, <1>3 DEF beds_of
  <1>5. taken_of = [r \in S |-> [d \in Days |-> 0]]
    BY <1>2, <1>3 DEF taken_of, TakenIn
  <1>6. QED
    BY <1>4, <1>5 DEF Inventory!InventoryInit, HotelInit

(* Changing one room, and no bed of it, so that no night has more beds      *)
(* taken, is a release.                                                     *)
LEMMA ReleaseMaps ==
    ASSUME HotelInv, NEW r \in RoomNumbers, r \in DOMAIN rooms, NEW after,
           after.max_capacity = rooms[r].max_capacity,
           \A d \in Days : BedsOf(staying(after, d)) <= BedsOf(staying(rooms[r], d)),
           rooms' = [rooms EXCEPT ![r] = after], today_date' = today_date
    PROVE  Inventory!InventoryNext
  <1>1. /\ DOMAIN rooms' = DOMAIN rooms /\ rooms'[r] = after
        /\ \A s \in DOMAIN rooms \ {r} : rooms'[s] = rooms[s]
    OBVIOUS
  <1>2. beds_of' = beds_of
    BY <1>1 DEF beds_of
  <1>3. \A s \in DOMAIN taken_of \ {r} : taken_of'[s] = taken_of[s]
    BY <1>1, Mapped
  <1>4. \A d \in Days : taken_of'[r][d] <= taken_of[r][d]
    BY <1>1, Mapped DEF TakenIn
  <1>5. Inventory!Release(r)
    BY <1>1, <1>2, <1>3, <1>4, Mapped DEF Inventory!Release
  <1>6. QED
    BY <1>5 DEF Inventory!InventoryNext

(* A booking is a reservation, also when it refreshes every room.           *)
LEMMA BookMaps ==
    ASSUME RequestsFit, HotelInv, NEW r \in RoomNumbers, NEW g \in Guests,
           NEW n \in BedCounts, NEW i \in Days, NEW o \in Days,
           NEW order \in orders_of(r), book(r, order, g, n, i, o)
    PROVE  Inventory!InventoryNext
  <1> DEFINE after == add_reservation(rooms[r], g, n, i, o)
             booked == [rooms EXCEPT ![r] = after]
             nights(t) == [d \in Days |-> IF d \in i .. (o - 1) THEN t[d] + n ELSE t[d]]
  <1>1. /\ r \in DOMAIN rooms /\ ~check_user_reserved(rooms[r], g)
        /\ today_date <= i /\ i < o
        /\ order \in orders(rooms[r])
        /\ check_room_available(rooms[r], order, i, o, n)
        /\ rooms' = booked \/ rooms' = update_date(booked, today_date)
        /\ today_date' = today_date
    BY DEF book, bookable, room_num_exist, booking_date_validation, orders_of
  <1>2. /\ today_date \in Days
        /\ \A s \in DOMAIN rooms :
               /\ BookedRoom(rooms[s])
               /\ \A u \in rooms[s].users : today_date < u.checkout_date
    BY DEF HotelInv, SoundRoom
  <1>3. /\ BookedRoom(after)
        /\ after.max_capacity = rooms[r].max_capacity
        /\ \A u \in after.users : today_date < u.checkout_date
    <2>1. BookedRoom(after)
      BY <1>1, <1>2, AddedBooked
    <2>2. after.max_capacity = rooms[r].max_capacity
      BY <1>1, <1>2 DEF add_reservation, BookedRoom, Room
    <2>3. \A u \in after.users : u \in rooms[r].users \/ u.checkout_date = o
      BY <1>1, <1>2 DEF add_reservation, BookedRoom, Room
    <2>4. today_date < o
      BY <1>1, <1>2, DaysAreInts
    <2>5. QED
      BY <1>1, <1>2, <2>1, <2>2, <2>3, <2>4
  <1>4. \A d \in Days : d \in i .. (o - 1) <=> i <= d /\ d < o
    BY DaysAreInts
  <1>5. TakenIn(after) = nights(TakenIn(rooms[r]))
    BY <1>1, <1>2, <1>4, AddedTaken DEF TakenIn
  <1>6. \A d \in i .. (o - 1) :
            d \in Days /\ TakenIn(rooms[r])[d] + n <= rooms[r].max_capacity
    <2>1. \A d \in i .. (o - 1) : d \in Days
      BY HotelAssumption DEF Days
    <2>2. QED
      BY <1>1, <1>2, <1>4, <2>1, AddedTaken DEF TakenIn
  <1>7. /\ DOMAIN booked = DOMAIN rooms /\ booked[r] = after
        /\ \A s \in DOMAIN rooms \ {r} : booked[s] = rooms[s]
    BY <1>1
  <1> HIDE DEF after, booked
  <1>8. /\ DOMAIN rooms' = DOMAIN rooms
        /\ \A s \in DOMAIN rooms :
               /\ rooms'[s].max_capacity = booked[s].max_capacity
               /\ TakenIn(rooms'[s]) = TakenIn(booked[s])
    <2>1. \A s \in DOMAIN booked :
              /\ BookedRoom(booked[s])
              /\ \A u \in booked[s].users : today_date < u.checkout_date
      BY <1>2, <1>3, <1>7
    <2>2. CASE rooms' = booked
      BY <1>7, <2>2
    <2>3. CASE rooms' = update_date(booked, today_date)
      BY <1>2, <1>7, <2>1, <2>3, RefreshTodayTaken DEF update_date
    <2>4. QED
      BY <1>1, <2>2, <2>3
  <1>9. beds_of' = beds_of
    BY <1>3, <1>7, <1>8 DEF beds_of
  <1>10. taken_of' = [taken_of EXCEPT ![r] = nights(@)]
    <2>1. taken_of' = [s \in DOMAIN rooms |-> TakenIn(rooms'[s])]
      BY <1>8 DEF taken_of, TakenIn
    <2>2. taken_of = [s \in DOMAIN rooms |-> TakenIn(rooms[s])]
      BY DEF taken_of, TakenIn
    <2> HIDE DEF nights
    <2>3. QED
      BY <1>1, <1>5, <1>7, <1>8, <2>1, <2>2
  <1>11. \A d \in i .. (o - 1) : taken_of[r][d] + n <= beds_of[r]
    BY <1>1, <1>6, Mapped
  <1>12. Inventory!Reserve(r, n, i, o)
    BY <1>1, <1>9, <1>10, <1>11, Mapped DEF Inventory!Reserve, Inventory!Nights
  <1>13. QED
    BY <1>12 DEF Inventory!InventoryNext

(* A change of the date keeps the nights to come.                           *)
LEMMA DateMaps ==
    ASSUME HotelInv, FitInv, NEW day \in Days, today_date' = day,
           rooms' = update_date(rooms, day)
    PROVE  Inventory!InventoryNext
  <1>1. \A r \in DOMAIN rooms : BookedRoom(rooms[r]) /\ Plain(rooms[r])
    BY AllPlain DEF HotelInv, SoundRoom
  <1>2. /\ DOMAIN rooms' = DOMAIN rooms
        /\ \A r \in DOMAIN rooms : rooms'[r] = refresh(rooms[r], day)
    BY DEF update_date
  <1>3. beds_of' = beds_of
    BY <1>1, <1>2, RefreshTaken, HotelAssumption DEF beds_of
  <1>4. \A r \in DOMAIN rooms, d \in Days :
            /\ taken_of'[r][d] <= taken_of[r][d]
            /\ d >= day => taken_of'[r][d] = taken_of[r][d]
    BY <1>1, <1>2, Mapped, RefreshTaken DEF TakenIn
  <1>5. Inventory!SetDate(day)
    BY <1>2, <1>3, <1>4, Mapped DEF Inventory!SetDate
  <1>6. QED
    BY <1>5 DEF Inventory!InventoryNext

(* Every step of that hotel is a step of the inventory, or none.            *)
LEMMA StepMaps ==
    RequestsFit /\ HotelInv /\ FitInv /\ [HotelNext /\ NoBedsTaken]_hotelVars
        => [Inventory!InventoryNext]_(Inventory!inventory)
  <1> SUFFICES ASSUME RequestsFit, HotelInv, FitInv,
                      [HotelNext /\ NoBedsTaken]_hotelVars
               PROVE  [Inventory!InventoryNext]_(Inventory!inventory)
    OBVIOUS
  <1>0. \A r \in DOMAIN rooms :
            BookedRoom(rooms[r]) /\ SoundRoom(rooms[r], today_date) /\ Plain(rooms[r])
    BY AllPlain DEF HotelInv, SoundRoom
  <1>1. ASSUME NEW r \in RoomNumbers, NEW g \in Guests, NEW n \in BedCounts,
               NEW i \in Days, NEW o \in Days,
               NEW order \in orders_of(r), book(r, order, g, n, i, o)
        PROVE  Inventory!InventoryNext
    BY <1>1, BookMaps
  <1>2. ASSUME NEW r \in RoomNumbers, NEW g \in Guests, NEW n \in BedCounts,
               cancel_reservation(r, g, n)
        PROVE  Inventory!InventoryNext
    <2>1. /\ r \in DOMAIN rooms /\ check_user_reserved(rooms[r], g)
          /\ n <= get_user_reservation(rooms[r], g).number_of_reservation
          /\ rooms' = [rooms EXCEPT ![r] = cancel_beds(rooms[r], g, n)]
          /\ today_date' = today_date
      BY <1>2 DEF cancel_reservation, cancelable, room_num_exist,
                  cancelation_capacity_validation
    <2>2. cancel_beds(rooms[r], g, n).max_capacity = rooms[r].max_capacity
      BY <1>0, <2>1 DEF cancel_beds, BookedRoom, Room
    <2>3. \A d \in Days : BedsOf(staying(cancel_beds(rooms[r], g, n), d))
                              <= BedsOf(staying(rooms[r], d))
      <3>1. rooms[r].max_capacity \in Capacities
        BY <1>0, <2>1 DEF BookedRoom, Room
      <3>2. 0 <= n
        <4>1. n \in Int /\ 0 < n
          BY <3>1, HotelAssumption DEF RequestsFit
        <4>2. QED
          BY <4>1
      <3>3. QED
        BY <1>0, <2>1, <3>2, CancelTaken DEF Plain
    <2>4. QED
      BY <2>1, <2>2, <2>3, ReleaseMaps
  <1>3. ASSUME NEW r \in RoomNumbers, NEW g \in Guests, left_user_room(r, g)
        PROVE  Inventory!InventoryNext
    <2>1. /\ r \in DOMAIN rooms
          /\ rooms' = [rooms EXCEPT ![r] = left_user(rooms[r], g)]
          /\ today_date' = today_date
      BY <1>3 DEF left_user_room, room_num_exist
    <2>2. /\ left_user(rooms[r], g).max_capacity = rooms[r].max_capacity
          /\ left_user(rooms[r], g).users \subseteq rooms[r].users
      BY <1>0, <2>1 DEF left_user, BookedRoom, Room
    <2>3. QED
      BY <1>0, <2>1, <2>2, FewerTaken, ReleaseMaps
  <1>4. ASSUME NEW r \in RoomNumbers, make_room_empty(r)
        PROVE  Inventory!InventoryNext
    <2>1. /\ r \in DOMAIN rooms
          /\ rooms' = [rooms EXCEPT ![r] = make_empty(rooms[r], today_date)]
          /\ today_date' = today_date
      BY <1>4 DEF make_room_empty, room_num_exist
    <2>2. /\ make_empty(rooms[r], today_date).max_capacity = rooms[r].max_capacity
          /\ make_empty(rooms[r], today_date).users \subseteq rooms[r].users
      BY <1>0, <2>1 DEF make_empty, BookedRoom, Room
    <2>3. QED
      BY <1>0, <2>1, <2>2, FewerTaken, ReleaseMaps
  <1>5. ASSUME NEW r \in RoomNumbers, NEW c \in Capacities, NEW p \in Prices,
               add_room(r, c, p)
        PROVE  Inventory!InventoryNext
    <2>1. /\ r \notin DOMAIN rooms /\ today_date' = today_date
          /\ rooms' = [s \in DOMAIN rooms \cup {r} |->
                          IF s = r THEN new_room(c, p) ELSE rooms[s]]
      BY <1>5 DEF add_room, room_num_exist
    <2>2. beds_of' = [s \in DOMAIN beds_of \cup {r} |->
                         IF s = r THEN c ELSE beds_of[s]]
      BY <2>1, NewRoomTaken DEF beds_of
    <2>3. taken_of' = [s \in DOMAIN beds_of \cup {r} |->
                          IF s = r THEN [d \in Days |-> 0] ELSE taken_of[s]]
      <3>1. taken_of' = [s \in DOMAIN rooms' |-> TakenIn(rooms'[s])]
        BY DEF taken_of, TakenIn
      <3>2. DOMAIN rooms' = DOMAIN beds_of \cup {r}
        BY <2>1, Mapped
      <3>3. \A s \in DOMAIN rooms' :
                TakenIn(rooms'[s]) = IF s = r THEN [d \in Days |-> 0] ELSE taken_of[s]
        BY <2>1, Mapped, NewRoomTaken
      <3>4. QED
        BY <3>1, <3>2, <3>3
    <2>4. Inventory!Open(r, c)
      BY <2>1, <2>2, <2>3, Mapped DEF Inventory!Open
    <2>5. QED
      BY <2>4 DEF Inventory!InventoryNext
  <1>6. ASSUME NEW r \in RoomNumbers, NEW c \in Capacities, NEW p \in Prices,
               modify_room(r, c, p), NoBedsTaken
        PROVE  Inventory!InventoryNext
    <2>1. /\ r \in DOMAIN rooms /\ today_date' = today_date
          /\ rooms' = [rooms EXCEPT ![r] = resize(@, c, p)]
      BY <1>6 DEF modify_room, modifiable, room_num_exist
    <2>2. /\ resize(rooms[r], c, p).max_capacity = c
          /\ resize(rooms[r], c, p).users = rooms[r].users
      BY <1>0, <2>1 DEF resize, BookedRoom, Room
    <2>3. c >= beds_of[r]
      <3>1. rooms[r].max_capacity <= c
        BY <1>6, <2>1, <2>2 DEF NoBedsTaken
      <3>2. QED
        BY <1>0, <2>1, <3>1, Mapped, StayingCountable, HotelAssumption
    <2>4. beds_of' = [beds_of EXCEPT ![r] = c]
      BY <2>1, <2>2 DEF beds_of
    <2>5. taken_of' = taken_of
      BY <2>1, <2>2 DEF taken_of, staying
    <2>6. Inventory!Enlarge(r, c)
      BY <2>1, <2>3, <2>4, <2>5, Mapped DEF Inventory!Enlarge
    <2>7. QED
      BY <2>6 DEF Inventory!InventoryNext
  <1>7. ASSUME NEW r \in RoomNumbers, remove_room(r)
        PROVE  Inventory!InventoryNext
    <2>1. /\ r \in DOMAIN rooms /\ today_date' = today_date
          /\ rooms[r].current_capacity = rooms[r].max_capacity
          /\ rooms' = [s \in DOMAIN rooms \ {r} |-> rooms[s]]
      BY <1>7 DEF remove_room, room_num_exist, room_is_empty
    <2>2. BedsOf(staying(rooms[r], today_date)) = 0
      BY <1>0, <2>1, StayingCountable DEF SoundRoom
    <2>3. taken_of[r][today_date] = 0
      BY <2>1, <2>2, Mapped DEF TakenIn, HotelInv
    <2>4. /\ beds_of' = [s \in DOMAIN beds_of \ {r} |-> beds_of[s]]
          /\ taken_of' = [s \in DOMAIN beds_of \ {r} |-> taken_of[s]]
      BY <2>1 DEF beds_of, taken_of
    <2>5. Inventory!Close(r)
      BY <2>1, <2>3, <2>4, Mapped DEF Inventory!Close
    <2>6. QED
      BY <2>5 DEF Inventory!InventoryNext
  <1>8. ASSUME NEW d \in DaySteps, advance_date(d)
        PROVE  Inventory!InventoryNext
    BY <1>8, DateMaps DEF advance_date
  <1>9. ASSUME NEW d \in Days, restart_hotel(d)
        PROVE  Inventory!InventoryNext
    BY <1>9, DateMaps DEF restart_hotel
  <1>10. CASE UNCHANGED hotelVars
    BY <1>10 DEF hotelVars, Inventory!inventory, beds_of, taken_of
  <1>11. QED
    BY <1>1, <1>2, <1>3, <1>4, <1>5, <1>6, <1>7, <1>8, <1>9, <1>10 DEF HotelNext

-----------------------------------------------------------------------------

(* Whatever is asked of the hotel, its lists of stays and its cached number *)
(* of free beds keep what an inventory of beds promises, as long as the     *)
(* administrator takes no beds out and requests are within every room.      *)
THEOREM HotelKeepsInventory ==
    ASSUME RequestsFit
    PROVE  GrowingHotelSpec => KeepsInventory
  <1>1. RequestsFit
    OBVIOUS
  <1>2. HotelInv /\ FitInv /\ [HotelNext /\ NoBedsTaken]_hotelVars
            => [Inventory!InventoryNext]_(Inventory!inventory)
    BY <1>1, StepMaps
  <1>3. GrowingHotelSpec => [](HotelInv /\ FitInv)
    BY <1>1, GrowingInvariance
  <1>4. QED
    BY <1>2, <1>3, InitMaps, PTL
       DEF GrowingHotelSpec, KeepsInventory, Inventory!InventorySpec
=============================================================================
