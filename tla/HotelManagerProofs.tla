------------------------- MODULE HotelManagerProofs -------------------------
(***************************************************************************)
(* Proofs about HotelManager, for every set of rooms, guests, capacities,   *)
(* prices and bed counts and every length of the calendar.                  *)
(*                                                                          *)
(* The inductive invariant says of each room that it is sound on the        *)
(* current day; every operation on a room has a lemma of its own, and the   *)
(* proof that a step preserves the invariant only has to say which room the *)
(* step touches.                                                            *)
(***************************************************************************)
EXTENDS HotelManager, FiniteSetTheorems, TLAPS

(* Counting the beds of a finite set of reservations.                       *)

(* What the counting lemmas need of a set of reservations. *)
Countable(R) ==
    /\ IsFiniteSet(R)
    /\ \A u \in R : u.number_of_reservation \in Int

(* The reservations of a set take beds and give none. *)
TakeBeds(R) == \A u \in R : u.number_of_reservation \in Nat

(* The slots of one reservation, taken or given, are finitely many.         *)
LEMMA OneReservationSlots ==
    ASSUME NEW u, NEW n \in Int
    PROVE  /\ IsFiniteSet({u} \X (1 .. n))
           /\ Cardinality({u} \X (1 .. n)) = IF n >= 0 THEN n ELSE 0
  <1>1. IsFiniteSet({u}) /\ Cardinality({u}) = 1
    BY FS_Singleton
  <1>2. IsFiniteSet(1 .. n) /\ Cardinality(1 .. n) = IF n >= 0 THEN n ELSE 0
    <2>1. IsFiniteSet(1 .. n)
      BY FS_Interval
    <2>2. Cardinality(1 .. n) = IF 1 > n THEN 0 ELSE n - 1 + 1
      BY FS_Interval
    <2>3. QED
      BY <2>1, <2>2
  <1>3. /\ IsFiniteSet({u} \X (1 .. n))
        /\ Cardinality({u} \X (1 .. n)) = Cardinality({u}) * Cardinality(1 .. n)
    BY <1>1, <1>2, FS_Product
  <1>4. QED
    BY <1>1, <1>2, <1>3

(* Finitely many sets of slots, one for each reservation, are a finite set. *)
LEMMA UnionOfSlotsFinite ==
    ASSUME NEW R, IsFiniteSet(R), NEW n \in [R -> Int]
    PROVE  IsFiniteSet(UNION {{u} \X (1 .. n[u]) : u \in R})
  <1> DEFINE slots(u) == {u} \X (1 .. n[u])
             Image == {slots(u) : u \in R}
             f == [u \in R |-> slots(u)]
  <1>1. f \in Surjection(R, Image)
    BY DEF Surjection
  <1>2. IsFiniteSet(Image)
    BY <1>1, FS_Surjection
  <1>3. \A u \in R : IsFiniteSet(slots(u))
    BY OneReservationSlots
  <1>4. \A T \in Image : IsFiniteSet(T)
    BY <1>3
  <1>5. QED
    BY <1>2, <1>4, FS_UNION

(* Finitely many reservations have finitely many slots, so that the number  *)
(* of their beds is an integer, and a natural if none of them gives beds.   *)
LEMMA SlotsFinite ==
    ASSUME NEW R, Countable(R)
    PROVE  /\ IsFiniteSet(BedSlots(R)) /\ IsFiniteSet(BedsGiven(R))
           /\ Cardinality(BedSlots(R)) \in Nat /\ Cardinality(BedsGiven(R)) \in Nat
           /\ BedsOf(R) \in Int
           /\ TakeBeds(R) => /\ BedsOf(R) = Cardinality(BedSlots(R))
                             /\ BedsOf(R) \in Nat
  <1> DEFINE taken == [u \in R |-> u.number_of_reservation]
             given == [u \in R |-> -u.number_of_reservation]
  <1>1. IsFiniteSet(R) /\ taken \in [R -> Int] /\ given \in [R -> Int]
    BY DEF Countable
  <1>2. /\ BedSlots(R) = UNION {{u} \X (1 .. taken[u]) : u \in R}
        /\ BedsGiven(R) = UNION {{u} \X (1 .. given[u]) : u \in R}
    BY DEF BedSlots, BedsGiven
  <1> HIDE DEF taken, given
  <1>3. IsFiniteSet(BedSlots(R)) /\ IsFiniteSet(BedsGiven(R))
    BY <1>1, <1>2, UnionOfSlotsFinite
  <1>4. Cardinality(BedSlots(R)) \in Nat /\ Cardinality(BedsGiven(R)) \in Nat
    BY <1>3, FS_CardinalityType
  <1>5. ASSUME TakeBeds(R) PROVE Cardinality(BedsGiven(R)) = 0
    <2>1. ASSUME NEW u \in R, NEW k \in 1 .. -u.number_of_reservation PROVE FALSE
      BY <1>5 DEF TakeBeds
    <2>2. BedsGiven(R) = {}
      BY <2>1 DEF BedsGiven
    <2>3. QED
      BY <2>2, FS_EmptySet
  <1>6. QED
    BY <1>3, <1>4, <1>5 DEF BedsOf

(* No reservation takes no bed.                                             *)
LEMMA BedsOfNone == BedsOf({}) = 0
  <1>1. BedSlots({}) = {} /\ BedsGiven({}) = {}
    BY DEF BedSlots, BedsGiven
  <1>2. Cardinality({}) = 0
    BY FS_EmptySet
  <1>3. QED
    BY <1>1, <1>2 DEF BedsOf

(* The slots of one more element are disjoint from those there are. *)
LEMMA OneMoreSlots ==
    ASSUME NEW S, IsFiniteSet(S), NEW u, NEW n \in Int,
           \A s \in S : s[1] # u
    PROVE  Cardinality(S \cup ({u} \X (1 .. n)))
               = Cardinality(S) + (IF n >= 0 THEN n ELSE 0)
  <1> DEFINE own == {u} \X (1 .. n)
  <1>1. IsFiniteSet(own) /\ Cardinality(own) = IF n >= 0 THEN n ELSE 0
    BY OneReservationSlots
  <1>2. S \cap own = {}
    OBVIOUS
  <1>3. Cardinality(S \cap own) = 0
    BY <1>2, FS_EmptySet
  <1> HIDE DEF own
  <1>4. Cardinality(S \cup own)
            = Cardinality(S) + Cardinality(own) - Cardinality(S \cap own)
    BY <1>1, FS_Union
  <1>5. Cardinality(S) \in Nat
    BY FS_CardinalityType
  <1>6. QED
    BY <1>1, <1>3, <1>4, <1>5 DEF own

(* One more reservation takes just its own beds. *)
LEMMA BedsOfAdd ==
    ASSUME NEW R, Countable(R), NEW u, u \notin R,
           u.number_of_reservation \in Int
    PROVE  /\ Countable(R \cup {u})
           /\ BedsOf(R \cup {u}) = BedsOf(R) + u.number_of_reservation
  <1> DEFINE n == u.number_of_reservation
  <1>1. Countable(R \cup {u})
    BY FS_AddElement DEF Countable
  <1>2. /\ BedSlots(R \cup {u}) = BedSlots(R) \cup ({u} \X (1 .. n))
        /\ BedsGiven(R \cup {u}) = BedsGiven(R) \cup ({u} \X (1 .. -n))
    BY DEF BedSlots, BedsGiven
  <1>3. /\ \A s \in BedSlots(R) : s[1] # u
        /\ \A s \in BedsGiven(R) : s[1] # u
    BY DEF BedSlots, BedsGiven
  <1>4. /\ IsFiniteSet(BedSlots(R)) /\ IsFiniteSet(BedsGiven(R))
        /\ Cardinality(BedSlots(R)) \in Nat /\ Cardinality(BedsGiven(R)) \in Nat
    BY SlotsFinite
  <1>5. n \in Int /\ -n \in Int
    OBVIOUS
  <1> HIDE DEF n
  <1>6. /\ Cardinality(BedSlots(R) \cup ({u} \X (1 .. n)))
               = Cardinality(BedSlots(R)) + (IF n >= 0 THEN n ELSE 0)
        /\ Cardinality(BedsGiven(R) \cup ({u} \X (1 .. -n)))
               = Cardinality(BedsGiven(R)) + (IF -n >= 0 THEN -n ELSE 0)
    <2>1. \A k \in Int : Cardinality(BedSlots(R) \cup ({u} \X (1 .. k)))
                             = Cardinality(BedSlots(R)) + (IF k >= 0 THEN k ELSE 0)
      BY <1>3, <1>4, OneMoreSlots
    <2>2. \A k \in Int : Cardinality(BedsGiven(R) \cup ({u} \X (1 .. k)))
                             = Cardinality(BedsGiven(R)) + (IF k >= 0 THEN k ELSE 0)
      BY <1>3, <1>4, OneMoreSlots
    <2>3. QED
      BY <1>5, <2>1, <2>2
  <1>7. BedsOf(R \cup {u}) = BedsOf(R) + n
    <2> DEFINE taken == Cardinality(BedSlots(R))
               given == Cardinality(BedsGiven(R))
               moreTaken == Cardinality(BedSlots(R \cup {u}))
               moreGiven == Cardinality(BedsGiven(R \cup {u}))
    <2>1. /\ BedsOf(R) = taken - given
          /\ BedsOf(R \cup {u}) = moreTaken - moreGiven
      BY DEF BedsOf
    <2>2. /\ moreTaken = taken + (IF n >= 0 THEN n ELSE 0)
          /\ moreGiven = given + (IF -n >= 0 THEN -n ELSE 0)
      BY <1>2, <1>6, Zenon
    <2>3. taken \in Nat /\ given \in Nat
      BY <1>4
    <2> HIDE DEF taken, given, moreTaken, moreGiven
    <2>4. QED
      BY <1>5, <2>1, <2>2, <2>3
  <1>8. QED
    BY <1>1, <1>7 DEF n

(* One reservation less frees just its own beds. *)
LEMMA BedsOfRemove ==
    ASSUME NEW R, Countable(R), NEW u \in R
    PROVE  /\ Countable(R \ {u})
           /\ BedsOf(R \ {u}) = BedsOf(R) - u.number_of_reservation
  <1>1. Countable(R \ {u})
    BY FS_RemoveElement DEF Countable
  <1>2. (R \ {u}) \cup {u} = R
    OBVIOUS
  <1>3. BedsOf(R) = BedsOf(R \ {u}) + u.number_of_reservation
    BY <1>1, <1>2, BedsOfAdd DEF Countable
  <1>4. BedsOf(R \ {u}) \in Int /\ u.number_of_reservation \in Int
    BY <1>1, SlotsFinite DEF Countable
  <1>5. QED
    BY <1>1, <1>3, <1>4

(* Fewer reservations take no more beds, if none of them gives beds. *)
LEMMA BedsOfSubset ==
    ASSUME NEW R, Countable(R), NEW S \in SUBSET R
    PROVE  /\ Countable(S)
           /\ TakeBeds(R) => TakeBeds(S) /\ BedsOf(S) <= BedsOf(R)
  <1>1. Countable(S) /\ (TakeBeds(R) => TakeBeds(S))
    BY FS_Subset DEF Countable, TakeBeds
  <1>2. BedSlots(S) \subseteq BedSlots(R)
    BY DEF BedSlots
  <1>3. IsFiniteSet(BedSlots(R))
    BY SlotsFinite
  <1>4. Cardinality(BedSlots(S)) <= Cardinality(BedSlots(R))
    BY <1>2, <1>3, FS_Subset
  <1>5. QED
    BY <1>1, <1>4, SlotsFinite

(* A reservation that takes part in a set takes at most what the set takes. *)
LEMMA BedsOfMember ==
    ASSUME NEW R, Countable(R), TakeBeds(R), NEW u \in R
    PROVE  u.number_of_reservation <= BedsOf(R)
  <1>1. BedsOf(R \ {u}) = BedsOf(R) - u.number_of_reservation
    BY BedsOfRemove
  <1>2. BedsOf(R \ {u}) \in Nat /\ BedsOf(R) \in Nat
    BY BedsOfRemove, BedsOfSubset, SlotsFinite
  <1>3. QED
    BY <1>1, <1>2 DEF Countable

-----------------------------------------------------------------------------
(* The invariant of the hotel.                                             *)

(* What holds of a room whatever the day is. *)
BookedRoom(room) ==
    /\ room \in Room
    /\ IsFiniteSet(room.users)
    /\ \A u, v \in room.users : u.id = v.id => u = v
    /\ \A u \in room.users : u.reserve_date < u.checkout_date

(* What holds of a room on a day: nothing in its books is over, and its     *)
(* free beds are those the reservations leave.                              *)
SoundRoom(room, day) ==
    /\ BookedRoom(room)
    /\ \A u \in room.users : day < u.checkout_date
    /\ room.current_capacity = room.max_capacity - BedsOf(staying(room, day))

HotelInv ==
    /\ today_date \in Days
    /\ DOMAIN rooms \subseteq RoomNumbers
    /\ rooms = [r \in DOMAIN rooms |-> rooms[r]]
    /\ \A r \in DOMAIN rooms : SoundRoom(rooms[r], today_date)

-----------------------------------------------------------------------------
(* Lemmas about one room.                                                  *)

(* The days of the calendar are integers.                                   *)
LEMMA DaysAreInts == Days \subseteq Int
  BY HotelAssumption DEF Days

(* The guests of a night are finitely many, and their beds an integer; a    *)
(* natural, if no guest has fewer beds than none.                           *)
LEMMA StayingCountable ==
    ASSUME NEW room, BookedRoom(room), NEW day
    PROVE  /\ Countable(room.users)
           /\ Countable(staying(room, day))
           /\ BedsOf(staying(room, day)) \in Int
           /\ (\A u \in room.users : u.number_of_reservation >= 0) =>
                  TakeBeds(room.users) /\ BedsOf(staying(room, day)) \in Nat
           /\ room.max_capacity \in Int /\ room.current_capacity \in Int
  <1>1. Countable(room.users)
    BY DEF BookedRoom, Room, RoomUser, Countable
  <1>2. Countable(staying(room, day))
    BY <1>1, BedsOfSubset DEF staying
  <1>3. room.max_capacity \in Int /\ room.current_capacity \in Int
    BY HotelAssumption DEF BookedRoom, Room
  <1>4. ASSUME \A u \in room.users : u.number_of_reservation >= 0
        PROVE  TakeBeds(room.users) /\ TakeBeds(staying(room, day))
    BY <1>1, <1>4 DEF Countable, TakeBeds, staying
  <1>5. QED
    BY <1>1, <1>2, <1>3, <1>4, SlotsFinite

(* What is searched by the id of a guest who has reserved is found.         *)
LEMMA ReservationFound ==
    ASSUME NEW room, NEW id, check_user_reserved(room, id)
    PROVE  /\ get_user_reservation(room, id) \in room.users
           /\ get_user_reservation(room, id).id = id
  BY DEF check_user_reserved, get_user_reservation

(* A room just added, or just read, has sound books.                        *)
LEMMA NewRoomSound ==
    ASSUME NEW c \in Capacities, NEW p \in Prices, NEW day
    PROVE  SoundRoom(new_room(c, p), day)
  <1> DEFINE room == new_room(c, p)
  <1>1. /\ room \in Room
        /\ room.users = {}
        /\ room.max_capacity = c /\ room.current_capacity = c
    BY HotelAssumption DEF new_room, Room
  <1>2. staying(room, day) = {}
    BY <1>1 DEF staying
  <1>3. BedsOf(staying(room, day)) = 0
    BY <1>2, BedsOfNone
  <1>4. IsFiniteSet(room.users)
    BY <1>1, FS_EmptySet
  <1> HIDE DEF room
  <1>5. BookedRoom(room)
    BY <1>1, <1>4 DEF BookedRoom
  <1>6. QED
    BY <1>1, <1>3, <1>5, HotelAssumption DEF SoundRoom, room

(* Whatever was cached before, a refreshed room is sound on its new day.    *)
LEMMA RefreshSound ==
    ASSUME NEW room, BookedRoom(room), NEW day \in Days
    PROVE  SoundRoom(refresh(room, day), day)
  <1> DEFINE after == refresh(room, day)
             kept == {u \in room.users : day < u.checkout_date}
             free == room.max_capacity - BedsOf(staying(room, day))
  <1>1. free \in Int
    BY StayingCountable
  <1>2. /\ after \in Room
        /\ after.users = kept
        /\ after.max_capacity = room.max_capacity
        /\ after.current_capacity = free
    BY <1>1 DEF refresh, BookedRoom, Room
  <1>3. staying(after, day) = staying(room, day)
    BY <1>2 DEF staying
  <1>4. IsFiniteSet(kept)
    BY FS_Subset DEF BookedRoom
  <1> HIDE DEF after
  <1>5. BookedRoom(after)
    BY <1>2, <1>4 DEF BookedRoom
  <1>6. QED
    BY <1>2, <1>3, <1>5 DEF SoundRoom, after

(* One more reservation, by a guest who has none, keeps the books distinct. *)
LEMMA AddedBooked ==
    ASSUME NEW room, BookedRoom(room), NEW id \in Guests, NEW n \in BedCounts,
           NEW i \in Days, NEW o \in Days, i < o,
           ~check_user_reserved(room, id)
    PROVE  BookedRoom(add_reservation(room, id, n, i, o))
  <1> DEFINE u == [id |-> id, number_of_reservation |-> n,
                   reserve_date |-> i, checkout_date |-> o]
             after == add_reservation(room, id, n, i, o)
  <1>1. u \in RoomUser
    BY HotelAssumption DEF RoomUser
  <1>2. after \in Room /\ after.users = room.users \cup {u}
    BY <1>1 DEF add_reservation, BookedRoom, Room
  <1>3. IsFiniteSet(room.users \cup {u})
    BY FS_AddElement DEF BookedRoom
  <1>4. u.id = id /\ u.reserve_date < u.checkout_date
    OBVIOUS
  <1>5. \A v \in room.users : v.id # id
    BY DEF check_user_reserved
  <1> HIDE DEF u, after
  <1>6. QED
    BY <1>2, <1>3, <1>4, <1>5 DEF BookedRoom, after

(* A booking for a later day leaves the books of today as they are.         *)
LEMMA AddedSound ==
    ASSUME NEW room, NEW day \in Days, SoundRoom(room, day),
           NEW id \in Guests, NEW n \in BedCounts,
           NEW i \in Days, NEW o \in Days, day < i, i < o,
           ~check_user_reserved(room, id)
    PROVE  SoundRoom(add_reservation(room, id, n, i, o), day)
  <1> DEFINE u == [id |-> id, number_of_reservation |-> n,
                   reserve_date |-> i, checkout_date |-> o]
             after == add_reservation(room, id, n, i, o)
  <1>1. BookedRoom(after)
    BY AddedBooked DEF SoundRoom
  <1>2. /\ after.users = room.users \cup {u}
        /\ after.max_capacity = room.max_capacity
        /\ after.current_capacity = room.current_capacity
    BY DEF add_reservation, SoundRoom, BookedRoom, Room
  <1>3. day < u.checkout_date /\ ~(u.reserve_date <= day)
    BY DaysAreInts
  <1> HIDE DEF u, after
  <1>4. staying(after, day) = staying(room, day)
    BY <1>2, <1>3 DEF staying
  <1>5. QED
    BY <1>1, <1>2, <1>3, <1>4 DEF SoundRoom, after

(* A cancellation touches only a stay that has not begun.                   *)
LEMMA CancelSound ==
    ASSUME NEW room, NEW day \in Days, SoundRoom(room, day),
           NEW id, check_user_reserved(room, id), NEW num \in BedCounts,
           num <= get_user_reservation(room, id).number_of_reservation,
           day < get_user_reservation(room, id).reserve_date
    PROVE  SoundRoom(cancel_beds(room, id, num), day)
  <1> DEFINE u == get_user_reservation(room, id)
             w == [u EXCEPT !.number_of_reservation = @ - num]
             kept == IF num = u.number_of_reservation THEN {} ELSE {w}
             after == cancel_beds(room, id, num)
  <1>1. u \in room.users /\ u \in RoomUser
    BY ReservationFound DEF SoundRoom, BookedRoom, Room
  <1>2. /\ w \in RoomUser
        /\ w.id = u.id /\ w.reserve_date = u.reserve_date
        /\ w.checkout_date = u.checkout_date
    BY <1>1, HotelAssumption DEF RoomUser
  <1>3. /\ after \in Room
        /\ after.users = (room.users \ {u}) \cup kept
        /\ after.max_capacity = room.max_capacity
        /\ after.current_capacity = room.current_capacity
    BY <1>1, <1>2 DEF cancel_beds, SoundRoom, BookedRoom, Room
  <1>4. IsFiniteSet(room.users \ {u}) /\ IsFiniteSet(kept)
    BY FS_RemoveElement, FS_EmptySet, FS_Singleton DEF SoundRoom, BookedRoom
  <1>5. IsFiniteSet(after.users)
    BY <1>3, <1>4, FS_Union
  <1>6. ~(u.reserve_date <= day) /\ ~(w.reserve_date <= day)
    BY <1>1, <1>2, DaysAreInts DEF RoomUser
  <1>7. \A v \in kept : v = w
    OBVIOUS
  <1> HIDE DEF u, w, kept, after
  <1>8. staying(after, day) = staying(room, day)
    BY <1>1, <1>3, <1>6, <1>7 DEF staying
  <1>9. \A v \in after.users : v = w \/ (v \in room.users /\ v # u)
    BY <1>3, <1>7
  <1>10. \A x, y \in after.users : x.id = y.id => x = y
    BY <1>1, <1>2, <1>9 DEF SoundRoom, BookedRoom
  <1>11. \A x \in after.users :
             x.reserve_date < x.checkout_date /\ day < x.checkout_date
    BY <1>1, <1>2, <1>9 DEF SoundRoom, BookedRoom
  <1>12. QED
    BY <1>3, <1>5, <1>8, <1>10, <1>11 DEF SoundRoom, BookedRoom, after

(* A guest who leaves gives back exactly the beds the guest was counted for.*)
LEMMA LeftSound ==
    ASSUME NEW room, NEW day \in Days, SoundRoom(room, day),
           NEW id, is_user_in(room, day, id)
    PROVE  SoundRoom(left_user(room, id), day)
  <1> DEFINE u == get_user_reservation(room, id)
             after == left_user(room, id)
  <1>1. u \in room.users /\ u \in RoomUser /\ u \in staying(room, day)
    BY ReservationFound DEF is_user_in, SoundRoom, BookedRoom, Room
  <1>2. /\ u.number_of_reservation \in Int
        /\ room.current_capacity + u.number_of_reservation \in Int
    BY <1>1 DEF RoomUser, SoundRoom, BookedRoom, Room
  <1>3. /\ after \in Room
        /\ after.users = room.users \ {u}
        /\ after.max_capacity = room.max_capacity
        /\ after.current_capacity = room.current_capacity + u.number_of_reservation
    BY <1>2 DEF left_user, SoundRoom, BookedRoom, Room
  <1>4. IsFiniteSet(after.users)
    BY <1>3, FS_RemoveElement DEF SoundRoom, BookedRoom
  <1> HIDE DEF u, after
  <1>5. staying(after, day) = staying(room, day) \ {u}
    BY <1>3 DEF staying
  <1>6. /\ BedsOf(staying(after, day)) = BedsOf(staying(room, day)) - u.number_of_reservation
        /\ BedsOf(staying(room, day)) \in Int
    BY <1>1, <1>5, BedsOfRemove, StayingCountable DEF SoundRoom
  <1>7. after.current_capacity = after.max_capacity - BedsOf(staying(after, day))
    BY <1>2, <1>3, <1>6, StayingCountable DEF SoundRoom
  <1>8. QED
    BY <1>3, <1>4, <1>7 DEF SoundRoom, BookedRoom, after

(* Emptying a room drops just the stays of today, and frees every bed.      *)
LEMMA EmptySound ==
    ASSUME NEW room, NEW day \in Days, SoundRoom(room, day)
    PROVE  SoundRoom(make_empty(room, day), day)
  <1> DEFINE after == make_empty(room, day)
  <1>1. /\ after \in Room
        /\ after.users = room.users \ staying(room, day)
        /\ after.max_capacity = room.max_capacity
        /\ after.current_capacity = room.max_capacity
    BY HotelAssumption DEF make_empty, SoundRoom, BookedRoom, Room
  <1>2. IsFiniteSet(after.users)
    <2>1. IsFiniteSet(room.users)
      BY DEF SoundRoom, BookedRoom
    <2>2. IsFiniteSet(room.users \ staying(room, day))
      BY <2>1, FS_Difference
    <2>3. QED
      BY <1>1, <2>2
  <1> HIDE DEF after
  <1>3. staying(after, day) = {}
    BY <1>1 DEF staying
  <1>4. after.current_capacity = after.max_capacity - BedsOf(staying(after, day))
    <2>1. BedsOf(staying(after, day)) = 0
      BY <1>3, BedsOfNone
    <2>2. room.max_capacity \in Int
      BY StayingCountable DEF SoundRoom
    <2>3. QED
      BY <1>1, <2>1, <2>2
  <1>5. QED
    BY <1>1, <1>2, <1>4 DEF SoundRoom, BookedRoom, after

(* A change of capacity moves the free beds by the same amount.             *)
LEMMA ResizeSound ==
    ASSUME NEW room, NEW day \in Days, SoundRoom(room, day),
           NEW c \in Capacities, NEW p \in Prices
    PROVE  SoundRoom(resize(room, c, p), day)
  <1> DEFINE after == resize(room, c, p)
  <1>0. room.current_capacity + (c - room.max_capacity) \in Int
    BY StayingCountable, HotelAssumption DEF SoundRoom
  <1>1. /\ after \in Room
        /\ after.users = room.users
        /\ after.max_capacity = c
        /\ after.current_capacity = room.current_capacity + (c - room.max_capacity)
    BY <1>0 DEF resize, SoundRoom, BookedRoom, Room
  <1> HIDE DEF after
  <1>2. staying(after, day) = staying(room, day)
    BY <1>1 DEF staying
  <1>3. after.current_capacity = after.max_capacity - BedsOf(staying(after, day))
    BY <1>1, <1>2, StayingCountable, HotelAssumption DEF SoundRoom
  <1>4. QED
    BY <1>1, <1>2, <1>3 DEF SoundRoom, BookedRoom, after

-----------------------------------------------------------------------------
(* The invariant of the hotel.                                             *)

(* The invariant holds when the rooms' file has been read.                  *)
LEMMA HotelInitInv == HotelInit => HotelInv
  <1> SUFFICES ASSUME HotelInit PROVE HotelInv
    OBVIOUS
  <1>1. PICK S \in SUBSET RoomNumbers :
            rooms \in [S -> {new_room(c, p) : c \in Capacities, p \in Prices}]
    BY DEF HotelInit
  <1>2. \A r \in S : SoundRoom(rooms[r], today_date)
    BY <1>1, NewRoomSound
  <1>3. QED
    BY <1>1, <1>2 DEF HotelInv, HotelInit

(* Refreshing every room, whatever the calendar does.                       *)
LEMMA RefreshAll ==
    ASSUME NEW all, \A r \in DOMAIN all : BookedRoom(all[r]),
           NEW day \in Days
    PROVE  /\ DOMAIN update_date(all, day) = DOMAIN all
           /\ update_date(all, day)
                  = [r \in DOMAIN update_date(all, day) |-> update_date(all, day)[r]]
           /\ \A r \in DOMAIN all : SoundRoom(update_date(all, day)[r], day)
  BY RefreshSound DEF update_date

(* Every request, date change and restart preserves the invariant.          *)
LEMMA HotelStepInv == HotelInv /\ [HotelNext]_hotelVars => HotelInv'
  <1> SUFFICES ASSUME HotelInv, [HotelNext]_hotelVars PROVE HotelInv'
    OBVIOUS
  <1> USE DEF room_num_exist, bookable, cancelable, modifiable
  <1>1. ASSUME NEW r \in RoomNumbers, NEW g \in Guests, NEW n \in BedCounts,
               NEW i \in Days, NEW o \in Days,
               NEW order \in orders_of(r), book(r, order, g, n, i, o)
        PROVE  HotelInv'
    <2> DEFINE booked == [rooms EXCEPT ![r] = add_reservation(@, g, n, i, o)]
    <2>1. /\ r \in DOMAIN rooms /\ SoundRoom(rooms[r], today_date)
          /\ ~check_user_reserved(rooms[r], g)
          /\ today_date <= i /\ i < o /\ today_date' = today_date
      BY <1>1 DEF book, booking_date_validation, HotelInv
    <2>2. /\ DOMAIN booked = DOMAIN rooms
          /\ booked = [x \in DOMAIN booked |-> booked[x]]
          /\ booked[r] = add_reservation(rooms[r], g, n, i, o)
          /\ \A x \in DOMAIN rooms \ {r} : booked[x] = rooms[x]
      BY <2>1
    <2>3. CASE i = today_date
      <3>1. BookedRoom(booked[r])
        BY <2>1, <2>2, AddedBooked DEF SoundRoom
      <3>2. \A x \in DOMAIN booked : BookedRoom(booked[x])
        BY <2>2, <3>1 DEF HotelInv, SoundRoom
      <3>3. rooms' = update_date(booked, today_date)
        BY <1>1, <2>3 DEF book
      <3> HIDE DEF booked
      <3>4. QED
        BY <2>1, <2>2, <3>2, <3>3, RefreshAll DEF HotelInv
    <2>4. CASE i # today_date
      <3>1. today_date < i
        BY <2>1, <2>4, DaysAreInts DEF HotelInv
      <3>2. SoundRoom(booked[r], today_date)
        BY <2>1, <2>2, <3>1, AddedSound DEF HotelInv
      <3>3. rooms' = booked
        BY <1>1, <2>4 DEF book
      <3> HIDE DEF booked
      <3>4. QED
        BY <2>1, <2>2, <3>2, <3>3 DEF HotelInv
    <2>5. QED
      BY <2>3, <2>4
  <1>2. ASSUME NEW r \in RoomNumbers, NEW g \in Guests, NEW n \in BedCounts,
               cancel_reservation(r, g, n)
        PROVE  HotelInv'
    <2>1. SoundRoom(cancel_beds(rooms[r], g, n), today_date)
      BY <1>2, CancelSound DEF HotelInv, cancel_reservation,
         cancelation_capacity_validation, cancelation_date_validation
    <2>2. QED
      BY <1>2, <2>1 DEF HotelInv, cancel_reservation
  <1>3. ASSUME NEW r \in RoomNumbers, NEW g \in Guests, left_user_room(r, g)
        PROVE  HotelInv'
    BY <1>3, LeftSound DEF HotelInv, left_user_room
  <1>4. ASSUME NEW r \in RoomNumbers, make_room_empty(r)
        PROVE  HotelInv'
    BY <1>4, EmptySound DEF HotelInv, make_room_empty
  <1>5. ASSUME NEW r \in RoomNumbers, NEW c \in Capacities, NEW p \in Prices,
               add_room(r, c, p)
        PROVE  HotelInv'
    BY <1>5, NewRoomSound DEF HotelInv, add_room
  <1>6. ASSUME NEW r \in RoomNumbers, NEW c \in Capacities, NEW p \in Prices,
               modify_room(r, c, p)
        PROVE  HotelInv'
    BY <1>6, ResizeSound DEF HotelInv, modify_room
  <1>7. ASSUME NEW r \in RoomNumbers, remove_room(r)
        PROVE  HotelInv'
    BY <1>7 DEF HotelInv, remove_room
  <1>8. ASSUME NEW d, d \in Days, today_date' = d, rooms' = update_date(rooms, d)
        PROVE  HotelInv'
    BY <1>8, RefreshAll DEF HotelInv, SoundRoom
  <1>9. ASSUME NEW d \in DaySteps, advance_date(d)
        PROVE  HotelInv'
    BY <1>8, <1>9 DEF advance_date
  <1>10. ASSUME NEW d \in Days, restart_hotel(d)
         PROVE  HotelInv'
    BY <1>8, <1>10 DEF restart_hotel
  <1>11. CASE UNCHANGED hotelVars
    BY <1>11 DEF HotelInv, hotelVars
  <1>12. QED
    BY <1>1, <1>2, <1>3, <1>4, <1>5, <1>6, <1>7, <1>9, <1>10, <1>11 DEF HotelNext

(* The books of every room are sound in every reachable state.              *)
THEOREM HotelInvariance == HotelSpec => []HotelInv
  <1>1. QED
    BY HotelInitInv, HotelStepInv, PTL DEF HotelSpec

(* The variables keep their types, whatever is booked, modified or restarted.*)
THEOREM HotelTypeCorrect == HotelSpec => []HotelTypeOK
  <1>1. HotelInv => HotelTypeOK
    BY DEF HotelInv, HotelTypeOK, SoundRoom, BookedRoom
  <1>2. QED
    BY <1>1, HotelInvariance, PTL

(* No guest ever holds two reservations in one room.                        *)
THEOREM HotelOneReservation == HotelSpec => []OneReservationPerGuest
  <1>1. HotelInv => OneReservationPerGuest
    BY DEF HotelInv, OneReservationPerGuest, SoundRoom, BookedRoom
  <1>2. QED
    BY <1>1, HotelInvariance, PTL

(* The books never keep a stay that is over.                                *)
THEOREM HotelNoExpiredStay == HotelSpec => []NoExpiredStay
  <1>1. HotelInv => NoExpiredStay
    BY DEF HotelInv, NoExpiredStay, SoundRoom, BookedRoom
  <1>2. QED
    BY <1>1, HotelInvariance, PTL

(* The cached number of free beds is always the one the books give.         *)
THEOREM HotelCapacityAccurate == HotelSpec => []CapacityAccurate
  <1>1. HotelInv => CapacityAccurate
    BY DEF HotelInv, CapacityAccurate, SoundRoom
  <1>2. QED
    BY <1>1, HotelInvariance, PTL

-----------------------------------------------------------------------------
(* Stays that have begun.                                                  *)

(* Among reservations with distinct guests, to lose one is to lose the guest.*)
LEMMA LostGuest ==
    ASSUME NEW room, BookedRoom(room), NEW u \in room.users,
           NEW after, after.users \subseteq room.users
    PROVE  u \in after.users \/ ~check_user_reserved(after, u.id)
  BY DEF BookedRoom, check_user_reserved

(* No single step takes a stay that has begun away from its guest.          *)
LEMMA StartedStayStep ==
    HotelInv /\ [HotelNext]_hotelVars => [StartedStayKept]_hotelVars
  <1> DEFINE Plain(r) ==
                 \A v \in staying(rooms[r], today_date) : v.number_of_reservation >= 0
  <1> SUFFICES ASSUME HotelInv, HotelNext,
                      NEW r \in DOMAIN rooms,
                      NEW u \in staying(rooms[r], today_date)
               PROVE  /\ r \in DOMAIN rooms' =>
                             \/ u \in rooms'[r].users
                             \/ ~check_user_reserved(rooms'[r], u.id)
                      /\ u.number_of_reservation > 0 /\ Plain(r) => r \in DOMAIN rooms'
    BY DEF StartedStayKept
  <1> DEFINE Kept == /\ r \in DOMAIN rooms' =>
                            \/ u \in rooms'[r].users
                            \/ ~check_user_reserved(rooms'[r], u.id)
                     /\ u.number_of_reservation > 0 /\ Plain(r) => r \in DOMAIN rooms'
  <1>1. /\ u \in rooms[r].users /\ u \in RoomUser
        /\ u.reserve_date <= today_date /\ today_date < u.checkout_date
        /\ SoundRoom(rooms[r], today_date) /\ BookedRoom(rooms[r])
        /\ today_date \in Days
    BY DEF HotelInv, SoundRoom, BookedRoom, Room, staying
  (* Steps that keep the room and take reservations out of it, at most. *)
  <1>2. ASSUME r \in DOMAIN rooms', rooms'[r].users \subseteq rooms[r].users
        PROVE  Kept
    BY <1>1, <1>2, LostGuest
  (* Steps that keep the room and every reservation in it. *)
  <1>3. ASSUME r \in DOMAIN rooms', rooms[r].users \subseteq rooms'[r].users
        PROVE  Kept
    BY <1>1, <1>3
  <1>4. ASSUME NEW q \in RoomNumbers, NEW g \in Guests, NEW n \in BedCounts,
               NEW i \in Days, NEW o \in Days,
               NEW order \in orders_of(q), book(q, order, g, n, i, o)
        PROVE  Kept
    <2> DEFINE booked == [rooms EXCEPT ![q] = add_reservation(@, g, n, i, o)]
    <2>1. /\ DOMAIN booked = DOMAIN rooms
          /\ u \in booked[r].users
      BY <1>1, <1>4 DEF book, bookable, add_reservation, room_num_exist, BookedRoom, Room
    <2>2. rooms' = booked \/ rooms' = update_date(booked, today_date)
      BY <1>4 DEF book
    <2>3. booked[r] = rooms[r] \/ booked[r] = add_reservation(rooms[r], g, n, i, o)
      BY <2>1
    <2>4. refresh(booked[r], today_date).users
              = {v \in booked[r].users : today_date < v.checkout_date}
      BY <1>1, <2>3 DEF refresh, add_reservation, BookedRoom, Room
    <2> HIDE DEF booked
    <2>5. QED
      BY <1>1, <2>1, <2>2, <2>4 DEF update_date
  <1>5. ASSUME NEW q \in RoomNumbers, NEW g \in Guests, NEW n \in BedCounts,
               cancel_reservation(q, g, n)
        PROVE  Kept
    <2> DEFINE v == get_user_reservation(rooms[q], g)
    <2>1. q \in DOMAIN rooms /\ v \in rooms[q].users /\ today_date < v.reserve_date
      BY <1>5, ReservationFound DEF cancel_reservation, cancelable,
         cancelation_date_validation, room_num_exist
    <2>2. v \in RoomUser
      BY <2>1 DEF HotelInv, SoundRoom, BookedRoom, Room
    <2>3. u # v
      <3>1. v.reserve_date \in Int /\ today_date \in Int
        BY <1>1, <2>2, DaysAreInts DEF RoomUser
      <3>2. ~(v.reserve_date <= today_date)
        BY <2>1, <3>1
      <3>3. QED
        BY <1>1, <3>2
    <2>4. rooms' = [rooms EXCEPT ![q] = cancel_beds(@, g, n)]
      BY <1>5 DEF cancel_reservation
    <2>5. CASE q # r
      BY <1>1, <2>4, <2>5
    <2>6. CASE q = r
      <3>1. rooms[r].users \ {v} \subseteq cancel_beds(rooms[r], g, n).users
        BY <1>1, <2>6 DEF cancel_beds, BookedRoom, Room
      <3>2. QED
        BY <1>1, <2>3, <2>4, <2>6, <3>1
    <2>7. QED
      BY <2>5, <2>6
  <1>6. ASSUME NEW q \in RoomNumbers, NEW g \in Guests, left_user_room(q, g)
        PROVE  Kept
    BY <1>1, <1>2, <1>6 DEF left_user_room, left_user, BookedRoom, Room
  <1>7. ASSUME NEW q \in RoomNumbers, make_room_empty(q)
        PROVE  Kept
    BY <1>1, <1>2, <1>7 DEF make_room_empty, make_empty, BookedRoom, Room
  <1>8. ASSUME NEW q \in RoomNumbers, NEW c \in Capacities, NEW p \in Prices,
               add_room(q, c, p)
        PROVE  Kept
    BY <1>1, <1>3, <1>8 DEF add_room, room_num_exist
  <1>9. ASSUME NEW q \in RoomNumbers, NEW c \in Capacities, NEW p \in Prices,
               modify_room(q, c, p)
        PROVE  Kept
    BY <1>1, <1>3, <1>9 DEF modify_room, modifiable, resize, BookedRoom, Room
  <1>10. ASSUME NEW q \in RoomNumbers, remove_room(q)
         PROVE  Kept
    <2>1. rooms' = [s \in DOMAIN rooms \ {q} |-> rooms[s]]
      BY <1>10 DEF remove_room
    <2>2. CASE q # r
      BY <1>1, <2>1, <2>2
    <2>3. CASE q = r
      <3>1. r \notin DOMAIN rooms'
        BY <2>1, <2>3
      <3>2. ASSUME u.number_of_reservation > 0, Plain(r) PROVE FALSE
        <4> DEFINE today == staying(rooms[r], today_date)
        <4>1. Countable(today) /\ BedsOf(today) \in Int
          BY <1>1, StayingCountable
        <4>2. TakeBeds(today)
          BY <3>2, <4>1 DEF Countable, TakeBeds
        <4>3. u.number_of_reservation <= BedsOf(today)
          BY <4>1, <4>2, BedsOfMember
        <4>4. BedsOf(today) > 0
          BY <1>1, <3>2, <4>1, <4>3 DEF RoomUser
        <4>5. rooms[r].current_capacity # rooms[r].max_capacity
          BY <1>1, <4>1, <4>4, StayingCountable DEF SoundRoom
        <4>6. QED
          BY <1>10, <2>3, <4>5 DEF remove_room, room_is_empty
      <3>3. QED
        BY <3>1, <3>2
    <2>4. QED
      BY <2>2, <2>3
  <1>11. ASSUME NEW d, rooms' = update_date(rooms, d)
         PROVE  Kept
    <2>1. refresh(rooms[r], d).users \subseteq rooms[r].users
      BY <1>1 DEF refresh, BookedRoom, Room
    <2>2. QED
      BY <1>2, <1>11, <2>1 DEF update_date
  <1>12. QED
    BY <1>4, <1>5, <1>6, <1>7, <1>8, <1>9, <1>10, <1>11
       DEF HotelNext, advance_date, restart_hotel

(* A stay that has begun is never shrunk, and its room is not removed as    *)
(* long as nobody in it has fewer beds than none.                           *)
THEOREM HotelStartedStay == HotelSpec => StartedStayIntact
  <1>1. QED
    BY HotelInvariance, StartedStayStep, PTL DEF HotelSpec, StartedStayIntact

(* A room computed afresh is flagged full only when no bed is free. *)
LEMMA RefreshedFlag ==
    ASSUME NEW room, BookedRoom(room), NEW day \in Days
    PROVE  ~flag_is_stale(refresh(room, day))
  <1> DEFINE free == room.max_capacity - BedsOf(staying(room, day))
             after == refresh(room, day)
  <1>1. free \in Int
    BY StayingCountable
  <1>2. after.current_capacity = free /\ after.is_full = (free = 0)
    BY DEF refresh, BookedRoom, Room
  <1> HIDE DEF free, after
  <1>3. free = 0 => ~(free > 0)
    BY <1>1
  <1>4. after.is_full => free = 0
    BY <1>2
  <1>5. ~flag_is_stale(after)
    BY <1>2, <1>3, <1>4 DEF flag_is_stale
  <1>6. QED
    BY <1>5 DEF after

(* No step makes a full flag stale but one that enlarges the room.          *)
LEMMA FlagStep ==
    HotelInv /\ [HotelNext]_hotelVars => [StaleFlagFromEnlarging]_hotelVars
  <1> DEFINE Told(r) == flag_is_stale(rooms'[r]) =>
                            /\ r \in DOMAIN rooms /\ rooms[r].is_full
                            /\ \/ flag_is_stale(rooms[r])
                               \/ rooms'[r].max_capacity > rooms[r].max_capacity
  <1> SUFFICES ASSUME HotelInv, HotelNext, NEW r \in DOMAIN rooms' PROVE Told(r)
    BY DEF StaleFlagFromEnlarging
  <1>1. /\ today_date \in Days
        /\ \A q \in DOMAIN rooms : BookedRoom(rooms[q]) /\ rooms[q] \in Room
    BY DEF HotelInv, SoundRoom, BookedRoom
  (* Steps that leave the flag and the numbers of the room alone. *)
  <1>2. ASSUME r \in DOMAIN rooms,
               rooms'[r].is_full = rooms[r].is_full,
               rooms'[r].current_capacity = rooms[r].current_capacity
        PROVE  Told(r)
    BY <1>2 DEF flag_is_stale
  <1>3. ASSUME NEW q \in RoomNumbers, NEW g \in Guests, NEW n \in BedCounts,
               NEW i \in Days, NEW o \in Days,
               NEW order \in orders_of(q), book(q, order, g, n, i, o)
        PROVE  Told(r)
    <2> DEFINE booked == [rooms EXCEPT ![q] = add_reservation(@, g, n, i, o)]
    <2>1. q \in DOMAIN rooms /\ ~check_user_reserved(rooms[q], g) /\ i < o
      BY <1>3 DEF book, bookable, room_num_exist, booking_date_validation
    <2>2. CASE rooms' = booked
      BY <1>1, <1>2, <2>1, <2>2 DEF add_reservation, Room
    <2>3. CASE rooms' = update_date(booked, today_date)
      <3>1. \A s \in DOMAIN booked : BookedRoom(booked[s])
        BY <1>1, <1>3, <2>1, AddedBooked
      <3>2. r \in DOMAIN booked /\ rooms'[r] = refresh(booked[r], today_date)
        BY <2>3 DEF update_date
      <3>3. QED
        BY <1>1, <3>1, <3>2, RefreshedFlag
    <2>4. QED
      BY <1>3, <2>2, <2>3 DEF book
  <1>4. ASSUME NEW q \in RoomNumbers, NEW g \in Guests, NEW n \in BedCounts,
               cancel_reservation(q, g, n)
        PROVE  Told(r)
    <2>1. rooms' = [rooms EXCEPT ![q] = cancel_beds(@, g, n)]
      BY <1>4 DEF cancel_reservation
    <2>2. QED
      BY <1>1, <1>2, <2>1 DEF cancel_beds, Room
  <1>5. ASSUME NEW q \in RoomNumbers, NEW g \in Guests, left_user_room(q, g)
        PROVE  Told(r)
    BY <1>1, <1>2, <1>5 DEF left_user_room, left_user, Room, flag_is_stale
  <1>6. ASSUME NEW q \in RoomNumbers, make_room_empty(q)
        PROVE  Told(r)
    BY <1>1, <1>2, <1>6 DEF make_room_empty, make_empty, Room, flag_is_stale
  <1>7. ASSUME NEW q \in RoomNumbers, NEW c \in Capacities, NEW p \in Prices,
               add_room(q, c, p)
        PROVE  Told(r)
    BY <1>2, <1>7 DEF add_room, room_num_exist, new_room, flag_is_stale
  <1>8. ASSUME NEW q \in RoomNumbers, NEW c \in Capacities, NEW p \in Prices,
               modify_room(q, c, p)
        PROVE  Told(r)
    <2>1. q \in DOMAIN rooms /\ rooms' = [rooms EXCEPT ![q] = resize(@, c, p)]
      BY <1>8 DEF modify_room, modifiable, room_num_exist
    <2>2. CASE r # q
      BY <1>2, <2>1, <2>2
    <2>3. CASE r = q
      <3>1. /\ rooms'[r].is_full = rooms[r].is_full /\ rooms'[r].max_capacity = c
            /\ rooms'[r].current_capacity
                   = rooms[r].current_capacity + (c - rooms[r].max_capacity)
        BY <1>1, <2>1, <2>3 DEF resize, Room
      <3>2. /\ rooms[r].current_capacity \in Int /\ rooms[r].max_capacity \in Int
            /\ c \in Int
        BY <1>1, <2>1, <2>3, HotelAssumption DEF Room
      <3>3. QED
        BY <2>1, <2>3, <3>1, <3>2 DEF flag_is_stale
    <2>4. QED
      BY <2>2, <2>3
  <1>9. ASSUME NEW q \in RoomNumbers, remove_room(q)
        PROVE  Told(r)
    BY <1>2, <1>9 DEF remove_room
  <1>10. ASSUME NEW d \in Days, rooms' = update_date(rooms, d)
         PROVE  Told(r)
    BY <1>1, <1>10, RefreshedFlag DEF update_date
  <1>11. QED
    BY <1>3, <1>4, <1>5, <1>6, <1>7, <1>8, <1>9, <1>10
       DEF HotelNext, advance_date, restart_hotel

(* A full flag is stale only where the room was enlarged while it was full. *)
THEOREM HotelFullUnlessEnlarged == HotelSpec => FullUnlessEnlarged
  <1>1. QED
    BY HotelInvariance, FlagStep, PTL DEF HotelSpec, FullUnlessEnlarged

-----------------------------------------------------------------------------
(***************************************************************************)
(* The hotel that only grows: where no request exceeds a room and nobody    *)
(* takes beds out of one, no night is overbooked and the full flag is set   *)
(* on every room that is sold out.                                          *)
(***************************************************************************)

FitRoom(room) ==
    /\ \A day \in Days : BedsOf(staying(room, day)) <= room.max_capacity
    /\ \A u \in room.users : u.number_of_reservation > 0
    /\ room.current_capacity = 0 => room.is_full

FitInv == \A r \in DOMAIN rooms : FitRoom(rooms[r])

(* A room with the same beds and no new reservation is no fuller.           *)
LEMMA FewerStillFit ==
    ASSUME NEW room, BookedRoom(room), FitRoom(room),
           NEW after, after.users \subseteq room.users,
           room.max_capacity <= after.max_capacity,
           after.max_capacity \in Int
    PROVE  /\ \A day \in Days : BedsOf(staying(after, day)) <= after.max_capacity
           /\ \A u \in after.users : u.number_of_reservation > 0
  <1>1. ASSUME NEW day \in Days
        PROVE  BedsOf(staying(after, day)) <= after.max_capacity
    <2>1. staying(after, day) \subseteq staying(room, day)
      BY DEF staying
    <2>2. /\ Countable(staying(room, day)) /\ room.max_capacity \in Int
          /\ \A u \in room.users : u.number_of_reservation \in Int
      BY StayingCountable DEF Countable
    <2>3. TakeBeds(staying(room, day))
      BY <2>2 DEF FitRoom, TakeBeds, staying
    <2>4. /\ BedsOf(staying(after, day)) <= BedsOf(staying(room, day))
          /\ BedsOf(staying(after, day)) \in Int
          /\ BedsOf(staying(room, day)) \in Int
      BY <2>1, <2>2, <2>3, BedsOfSubset, SlotsFinite
    <2>5. QED
      BY <2>2, <2>4 DEF FitRoom
  <1>2. QED
    BY <1>1 DEF FitRoom

(* A room without reservations is not overbooked.                           *)
LEMMA NewRoomFits ==
    ASSUME RequestsFit, NEW c \in Capacities, NEW p \in Prices
    PROVE  FitRoom(new_room(c, p))
  <1> DEFINE room == new_room(c, p)
  <1>1. room.users = {} /\ room.max_capacity = c /\ room.current_capacity = c
    BY DEF new_room
  <1>2. c \in Int /\ c > 0
    BY HotelAssumption DEF RequestsFit
  <1> HIDE DEF room
  <1>3. \A day \in Days : BedsOf(staying(room, day)) = 0
    BY <1>1, BedsOfNone DEF staying
  <1>4. QED
    BY <1>1, <1>2, <1>3 DEF FitRoom, room

(* A date change forgets stays that are over and flags the sold out room.   *)
LEMMA RefreshFits ==
    ASSUME NEW room, BookedRoom(room), NEW day \in Days,
           \A d \in Days : BedsOf(staying(room, d)) <= room.max_capacity,
           \A u \in room.users : u.number_of_reservation > 0
    PROVE  FitRoom(refresh(room, day))
  <1> DEFINE after == refresh(room, day)
             trimmed == [room EXCEPT !.is_full = TRUE]
  <1>1. /\ trimmed.users = room.users /\ trimmed.max_capacity = room.max_capacity
        /\ trimmed.is_full = TRUE /\ trimmed \in Room
    BY DEF BookedRoom, Room
  <1>2. /\ after.users \subseteq room.users
        /\ after.max_capacity = room.max_capacity
        /\ after.is_full = (after.current_capacity = 0)
    BY DEF refresh, BookedRoom, Room
  <1> HIDE DEF after, trimmed
  <1>3. \A d \in Days : staying(trimmed, d) = staying(room, d)
    BY <1>1 DEF staying
  <1>4. BookedRoom(trimmed) /\ FitRoom(trimmed)
    BY <1>1, <1>3 DEF BookedRoom, FitRoom
  <1>5. room.max_capacity \in Int
    BY StayingCountable
  <1>6. /\ \A d \in Days : BedsOf(staying(after, d)) <= after.max_capacity
        /\ \A u \in after.users : u.number_of_reservation > 0
    BY <1>1, <1>2, <1>4, <1>5, FewerStillFit
  <1>7. QED
    BY <1>2, <1>6 DEF FitRoom, after

(* The last of the tests made of a room that has reservations counts all of *)
(* them, in whatever order they are.                                        *)
LEMMA LastTest ==
    ASSUME NEW room, BookedRoom(room), room.users # {},
           NEW order \in orders(room), NEW i, NEW o, NEW n,
           check_room_available(room, order, i, o, n), NEW d \in i .. (o - 1)
    PROVE  n + BedsOf(staying(room, d)) <= room.max_capacity
  <1> DEFINE last == Cardinality(room.users)
             all == {order[j] : j \in 1 .. last}
  <1>1. last \in Nat /\ last # 0
    BY FS_CardinalityType, FS_EmptySet DEF BookedRoom
  <1>2. order \in [1 .. last -> room.users] /\ last \in DOMAIN order
    BY <1>1 DEF orders
  <1>3. all = room.users
    BY <1>2 DEF orders
  <1>4. all \cap staying(room, d) = staying(room, d)
    BY <1>3 DEF staying
  <1>5. n + BedsOf(all \cap staying(room, d)) <= room.max_capacity
    BY <1>2 DEF check_room_available
  <1>6. QED
    BY <1>4, <1>5

(* A booking takes its beds on its own nights, and finds them free there.   *)
LEMMA AddedTaken ==
    ASSUME RequestsFit, NEW room, BookedRoom(room),
           NEW id \in Guests, NEW n \in BedCounts,
           NEW i \in Days, NEW o \in Days,
           ~check_user_reserved(room, id), NEW order \in orders(room),
           check_room_available(room, order, i, o, n), NEW d \in Days
    PROVE  LET before == BedsOf(staying(room, d))
               after == BedsOf(staying(add_reservation(room, id, n, i, o), d))
           IN  IF i <= d /\ d < o
               THEN after = before + n /\ before + n <= room.max_capacity
               ELSE after = before
  <1> DEFINE u == [id |-> id, number_of_reservation |-> n,
                   reserve_date |-> i, checkout_date |-> o]
             after == add_reservation(room, id, n, i, o)
             old == staying(room, d)
  <1>1. after.users = room.users \cup {u}
    BY DEF add_reservation, BookedRoom, Room
  <1>2. /\ u.number_of_reservation = n /\ u.id = id
        /\ u.reserve_date = i /\ u.checkout_date = o
    OBVIOUS
  <1>3. n \in Int /\ n > 0 /\ n <= room.max_capacity /\ room.max_capacity \in Int
    BY HotelAssumption DEF RequestsFit, BookedRoom, Room
  <1>4. Countable(old) /\ BedsOf(old) \in Int
    BY StayingCountable
  <1> HIDE DEF u, after
  <1>5. CASE i <= d /\ d < o
    <2>1. staying(after, d) = old \cup {u} /\ u \notin old
      BY <1>1, <1>2, <1>5 DEF staying, check_user_reserved
    <2>2. BedsOf(staying(after, d)) = BedsOf(old) + n
      BY <1>2, <1>3, <1>4, <2>1, BedsOfAdd
    <2>3. BedsOf(old) + n <= room.max_capacity
      <3>1. CASE room.users = {}
        <4>1. BedsOf(old) = 0
          BY <3>1, BedsOfNone DEF staying
        <4>2. QED
          BY <1>3, <4>1
      <3>2. CASE room.users # {}
        <4>1. d \in i .. (o - 1)
          BY <1>5, DaysAreInts
        <4>2. n + BedsOf(old) <= room.max_capacity
          BY <3>2, <4>1, LastTest
        <4>3. QED
          BY <1>3, <1>4, <4>2
      <3>3. QED
        BY <3>1, <3>2
    <2>4. QED
      BY <1>5, <2>2, <2>3 DEF after
  <1>6. CASE ~(i <= d /\ d < o)
    <2>1. staying(after, d) = old
      BY <1>1, <1>2, <1>6 DEF staying
    <2>2. QED
      BY <1>6, <2>1 DEF after
  <1>7. QED
    BY <1>5, <1>6

(* What the availability test of a booking buys.                            *)
LEMMA AddedFits ==
    ASSUME RequestsFit, NEW room, BookedRoom(room), FitRoom(room),
           NEW id \in Guests, NEW n \in BedCounts,
           NEW i \in Days, NEW o \in Days, i < o,
           ~check_user_reserved(room, id), NEW order \in orders(room),
           check_room_available(room, order, i, o, n)
    PROVE  LET after == add_reservation(room, id, n, i, o)
           IN  /\ \A d \in Days : BedsOf(staying(after, d)) <= after.max_capacity
               /\ \A u \in after.users : u.number_of_reservation > 0
               /\ after.current_capacity = room.current_capacity
               /\ after.is_full = room.is_full
  <1> DEFINE u == [id |-> id, number_of_reservation |-> n,
                   reserve_date |-> i, checkout_date |-> o]
             after == add_reservation(room, id, n, i, o)
  <1>1. /\ after.users = room.users \cup {u}
        /\ after.max_capacity = room.max_capacity
        /\ after.current_capacity = room.current_capacity
        /\ after.is_full = room.is_full
    BY DEF add_reservation, BookedRoom, Room
  <1>2. u.number_of_reservation = n /\ n > 0
    BY DEF RequestsFit, BookedRoom, Room
  <1>3. ASSUME NEW d \in Days
        PROVE  BedsOf(staying(after, d)) <= room.max_capacity
    BY AddedTaken DEF FitRoom
  <1> HIDE DEF u, after
  <1>4. \A v \in after.users : v.number_of_reservation > 0
    BY <1>1, <1>2 DEF FitRoom
  <1>5. QED
    BY <1>1, <1>3, <1>4 DEF after

(* Giving up beds of one reservation frees them on each of its nights.      *)
LEMMA CancelTaken ==
    ASSUME NEW room, BookedRoom(room),
           NEW id, check_user_reserved(room, id), NEW num \in BedCounts,
           0 <= num, num <= get_user_reservation(room, id).number_of_reservation,
           \A v \in room.users : v.number_of_reservation >= 0, NEW d
    PROVE  /\ BedsOf(staying(cancel_beds(room, id, num), d)) \in Int
           /\ BedsOf(staying(cancel_beds(room, id, num), d)) <= BedsOf(staying(room, d))
  <1> DEFINE u == get_user_reservation(room, id)
             w == [u EXCEPT !.number_of_reservation = @ - num]
             kept == IF num = u.number_of_reservation THEN {} ELSE {w}
             after == cancel_beds(room, id, num)
             old == staying(room, d)
  <1>1. /\ u \in room.users /\ u \in RoomUser
        /\ u.number_of_reservation \in Nat /\ num \in Nat
        /\ num <= u.number_of_reservation
    BY ReservationFound, HotelAssumption DEF BookedRoom, Room, RoomUser
  <1>2. /\ w.number_of_reservation = u.number_of_reservation - num
        /\ w.number_of_reservation \in Nat
        /\ w.id = u.id /\ w.reserve_date = u.reserve_date
        /\ w.checkout_date = u.checkout_date
    BY <1>1 DEF RoomUser
  <1>3. after.users = (room.users \ {u}) \cup kept
    BY DEF cancel_beds, BookedRoom, Room
  <1>4. kept = {} \/ kept = {w}
    OBVIOUS
  <1>5. w \notin room.users \ {u}
    BY <1>1, <1>2 DEF BookedRoom
  <1>6. Countable(old) /\ BedsOf(old) \in Int /\ TakeBeds(old)
    BY StayingCountable DEF TakeBeds, staying
  <1> HIDE DEF u, w, kept, after
  <1>7. CASE u \notin old
    <2>1. staying(after, d) \subseteq old
      BY <1>1, <1>2, <1>3, <1>4, <1>7 DEF staying
    <2>2. QED
      BY <1>6, <2>1, BedsOfSubset, SlotsFinite DEF after
  <1>8. CASE u \in old
    <2>1. /\ Countable(old \ {u})
          /\ BedsOf(old \ {u}) = BedsOf(old) - u.number_of_reservation
          /\ BedsOf(old \ {u}) \in Int
      BY <1>6, <1>8, BedsOfRemove, SlotsFinite
    <2>2. CASE kept = {}
      <3>1. staying(after, d) = old \ {u}
        BY <1>3, <2>2 DEF staying
      <3>2. QED
        BY <1>1, <1>6, <2>1, <3>1 DEF after
    <2>3. CASE kept = {w}
      <3>1. staying(after, d) = (old \ {u}) \cup {w}
        BY <1>2, <1>3, <1>8, <2>3 DEF staying
      <3>2. w \notin old \ {u}
        BY <1>5 DEF staying
      <3>3. BedsOf(staying(after, d)) = BedsOf(old \ {u}) + w.number_of_reservation
        BY <1>2, <2>1, <3>1, <3>2, BedsOfAdd
      <3>4. QED
        BY <1>1, <1>2, <1>6, <2>1, <3>3 DEF after
    <2>4. QED
      BY <1>4, <2>2, <2>3
  <1>9. QED
    BY <1>7, <1>8

(* A cancellation makes no room fuller and leaves no reservation of no bed. *)
LEMMA CancelFits ==
    ASSUME RequestsFit, NEW room, BookedRoom(room), FitRoom(room),
           NEW id, check_user_reserved(room, id), NEW num \in BedCounts,
           num <= get_user_reservation(room, id).number_of_reservation
    PROVE  FitRoom(cancel_beds(room, id, num))
  <1> DEFINE u == get_user_reservation(room, id)
             w == [u EXCEPT !.number_of_reservation = @ - num]
             kept == IF num = u.number_of_reservation THEN {} ELSE {w}
             after == cancel_beds(room, id, num)
  <1>0. room.max_capacity \in Capacities
    BY DEF BookedRoom, Room
  <1>1. /\ u.number_of_reservation \in Nat /\ num \in Nat /\ num > 0
        /\ num <= u.number_of_reservation /\ u \in RoomUser
        /\ \A v \in room.users : v.number_of_reservation >= 0
    <2>1. num \in Int /\ num > 0
      BY <1>0, HotelAssumption DEF RequestsFit
    <2>2. \A v \in room.users : v \in RoomUser /\ v.number_of_reservation \in Int
      BY DEF BookedRoom, Room, RoomUser
    <2>3. u \in room.users
      BY ReservationFound
    <2> HIDE DEF u
    <2>4. \A v \in room.users : v.number_of_reservation > 0
      BY DEF FitRoom
    <2>5. num <= u.number_of_reservation
      BY DEF u
    <2>6. QED
      BY <2>1, <2>2, <2>3, <2>4, <2>5
  <1>2. w.number_of_reservation = u.number_of_reservation - num
    BY <1>1 DEF RoomUser
  <1>3. /\ after.users = (room.users \ {u}) \cup kept
        /\ after.max_capacity = room.max_capacity
        /\ after.current_capacity = room.current_capacity
        /\ after.is_full = room.is_full
    BY DEF cancel_beds, BookedRoom, Room
  <1>4. kept = {} \/ (kept = {w} /\ w.number_of_reservation > 0)
    BY <1>1, <1>2
  <1>5. room.max_capacity \in Int
    BY StayingCountable
  <1>6. ASSUME NEW day \in Days
        PROVE  BedsOf(staying(after, day)) <= after.max_capacity
    BY <1>1, <1>3, <1>5, CancelTaken, StayingCountable DEF FitRoom
  <1> HIDE DEF u, w, kept, after
  <1>7. \A v \in after.users : v.number_of_reservation > 0
    BY <1>3, <1>4 DEF FitRoom
  <1>8. QED
    BY <1>3, <1>6, <1>7 DEF FitRoom, after

(* A guest who leaves frees beds on every night.                            *)
LEMMA LeftFits ==
    ASSUME NEW room, NEW day \in Days, SoundRoom(room, day), FitRoom(room),
           NEW id, is_user_in(room, day, id)
    PROVE  FitRoom(left_user(room, id))
  <1> DEFINE u == get_user_reservation(room, id)
             after == left_user(room, id)
  <1>1. /\ u \in room.users /\ u.number_of_reservation \in Nat
        /\ u.number_of_reservation > 0
    BY ReservationFound DEF is_user_in, SoundRoom, BookedRoom, Room, RoomUser, FitRoom
  <1>2. /\ after.users = room.users \ {u}
        /\ after.max_capacity = room.max_capacity
        /\ after.current_capacity = room.current_capacity + u.number_of_reservation
    BY DEF left_user, SoundRoom, BookedRoom, Room
  <1>3. /\ room.max_capacity \in Int /\ BookedRoom(room)
        /\ BedsOf(staying(room, day)) \in Int
        /\ BedsOf(staying(room, day)) <= room.max_capacity
        /\ room.current_capacity = room.max_capacity - BedsOf(staying(room, day))
    BY StayingCountable DEF SoundRoom, FitRoom
  <1> HIDE DEF u, after
  <1>4. /\ \A d \in Days : BedsOf(staying(after, d)) <= after.max_capacity
        /\ \A v \in after.users : v.number_of_reservation > 0
    BY <1>2, <1>3, FewerStillFit
  <1>5. after.current_capacity # 0
    BY <1>1, <1>2, <1>3
  <1>6. QED
    BY <1>4, <1>5 DEF FitRoom, after

(* An emptied room is no fuller on any night.                               *)
LEMMA EmptyFits ==
    ASSUME RequestsFit, NEW room, BookedRoom(room), FitRoom(room), NEW day \in Days
    PROVE  FitRoom(make_empty(room, day))
  <1> DEFINE after == make_empty(room, day)
  <1>1. /\ after.users \subseteq room.users
        /\ after.max_capacity = room.max_capacity
        /\ after.current_capacity = room.max_capacity
    BY DEF make_empty, BookedRoom, Room
  <1>2. room.max_capacity \in Int /\ room.max_capacity # 0
    <2>1. room.max_capacity \in Capacities
      BY DEF BookedRoom, Room
    <2>2. room.max_capacity > 0
      BY <2>1 DEF RequestsFit
    <2>3. room.max_capacity \in Int
      BY <2>1, HotelAssumption
    <2>4. QED
      BY <2>2, <2>3
  <1> HIDE DEF after
  <1>3. /\ \A d \in Days : BedsOf(staying(after, d)) <= after.max_capacity
        /\ \A v \in after.users : v.number_of_reservation > 0
    BY <1>1, <1>2, FewerStillFit
  <1>4. QED
    BY <1>1, <1>2, <1>3 DEF FitRoom, after

(* A room that loses no beds is not overbooked by the change.               *)
LEMMA ResizeFits ==
    ASSUME NEW room, NEW day \in Days, SoundRoom(room, day), FitRoom(room),
           NEW c \in Capacities, NEW p \in Prices, room.max_capacity <= c
    PROVE  FitRoom(resize(room, c, p))
  <1> DEFINE after == resize(room, c, p)
  <1>1. /\ after.users = room.users
        /\ after.max_capacity = c
        /\ after.is_full = room.is_full
        /\ after.current_capacity = room.current_capacity + (c - room.max_capacity)
    BY DEF resize, SoundRoom, BookedRoom, Room
  <1>2. /\ room.max_capacity \in Int /\ BookedRoom(room) /\ c \in Int
        /\ BedsOf(staying(room, day)) \in Int
        /\ BedsOf(staying(room, day)) <= room.max_capacity
        /\ room.current_capacity = room.max_capacity - BedsOf(staying(room, day))
    BY StayingCountable, HotelAssumption DEF SoundRoom, FitRoom
  <1> HIDE DEF after
  <1>3. /\ \A d \in Days : BedsOf(staying(after, d)) <= after.max_capacity
        /\ \A v \in after.users : v.number_of_reservation > 0
    BY <1>1, <1>2, FewerStillFit
  <1>4. after.current_capacity = 0 => room.current_capacity = 0
    BY <1>1, <1>2
  <1>5. QED
    BY <1>1, <1>3, <1>4 DEF FitRoom, after

(* The same for all the rooms at once.                                      *)
LEMMA RefreshAllFits ==
    ASSUME NEW all, NEW day \in Days,
           \A r \in DOMAIN all :
               /\ BookedRoom(all[r])
               /\ \A d \in Days : BedsOf(staying(all[r], d)) <= all[r].max_capacity
               /\ \A u \in all[r].users : u.number_of_reservation > 0
    PROVE  \A r \in DOMAIN update_date(all, day) : FitRoom(update_date(all, day)[r])
  BY RefreshFits DEF update_date

(* Every step that takes no beds out of a room keeps every night within it. *)
LEMMA FitStep ==
    RequestsFit /\ HotelInv /\ FitInv /\ [HotelNext /\ NoBedsTaken]_hotelVars => FitInv'
  <1> SUFFICES ASSUME RequestsFit, HotelInv, FitInv,
                      [HotelNext /\ NoBedsTaken]_hotelVars
               PROVE  FitInv'
    OBVIOUS
  <1> USE DEF room_num_exist, bookable, cancelable, modifiable
  <1>0. \A r \in DOMAIN rooms : BookedRoom(rooms[r]) /\ SoundRoom(rooms[r], today_date)
    BY DEF HotelInv, SoundRoom
  <1>1. ASSUME NEW r \in RoomNumbers, NEW g \in Guests, NEW n \in BedCounts,
               NEW i \in Days, NEW o \in Days,
               NEW order \in orders_of(r), book(r, order, g, n, i, o)
        PROVE  FitInv'
    <2> DEFINE after == add_reservation(rooms[r], g, n, i, o)
               booked == [rooms EXCEPT ![r] = add_reservation(@, g, n, i, o)]
    <2>1. /\ r \in DOMAIN rooms /\ ~check_user_reserved(rooms[r], g) /\ i < o
          /\ check_room_available(rooms[r], order, i, o, n) /\ order \in orders(rooms[r])
      BY <1>1 DEF book, booking_date_validation, orders_of
    <2>2. /\ \A d \in Days : BedsOf(staying(after, d)) <= after.max_capacity
          /\ \A u \in after.users : u.number_of_reservation > 0
          /\ after.current_capacity = rooms[r].current_capacity
          /\ after.is_full = rooms[r].is_full
      BY <1>0, <2>1, AddedFits DEF FitInv
    <2>3. BookedRoom(after)
      BY <1>0, <2>1, AddedBooked
    <2>4. /\ DOMAIN booked = DOMAIN rooms /\ booked[r] = after
          /\ \A x \in DOMAIN rooms \ {r} : booked[x] = rooms[x]
      BY <2>1
    <2>5. rooms' = booked \/ rooms' = update_date(booked, today_date)
      BY <1>1 DEF book
    <2> HIDE DEF after, booked
    <2>6. \A x \in DOMAIN booked :
              /\ BookedRoom(booked[x])
              /\ \A d \in Days : BedsOf(staying(booked[x], d)) <= booked[x].max_capacity
              /\ \A u \in booked[x].users : u.number_of_reservation > 0
              /\ booked[x].current_capacity = 0 => booked[x].is_full
      BY <1>0, <2>1, <2>2, <2>3, <2>4 DEF FitInv, FitRoom
    <2>7. CASE rooms' = booked
      BY <2>6, <2>7 DEF FitInv, FitRoom
    <2>8. CASE rooms' = update_date(booked, today_date)
      BY <2>6, <2>8, RefreshAllFits DEF FitInv, HotelInv
    <2>9. QED
      BY <2>5, <2>7, <2>8
  <1>2. ASSUME NEW r \in RoomNumbers, NEW g \in Guests, NEW n \in BedCounts,
               cancel_reservation(r, g, n)
        PROVE  FitInv'
    <2>1. FitRoom(cancel_beds(rooms[r], g, n))
      BY <1>0, <1>2, CancelFits
         DEF FitInv, cancel_reservation, cancelation_capacity_validation
    <2>2. QED
      BY <1>2, <2>1 DEF FitInv, cancel_reservation
  <1>3. ASSUME NEW r \in RoomNumbers, NEW g \in Guests, left_user_room(r, g)
        PROVE  FitInv'
    BY <1>0, <1>3, LeftFits DEF HotelInv, FitInv, left_user_room
  <1>4. ASSUME NEW r \in RoomNumbers, make_room_empty(r)
        PROVE  FitInv'
    BY <1>0, <1>4, EmptyFits DEF HotelInv, FitInv, make_room_empty
  <1>5. ASSUME NEW r \in RoomNumbers, NEW c \in Capacities, NEW p \in Prices,
               add_room(r, c, p)
        PROVE  FitInv'
    BY <1>5, NewRoomFits DEF FitInv, add_room
  <1>6. ASSUME NEW r \in RoomNumbers, NEW c \in Capacities, NEW p \in Prices,
               modify_room(r, c, p), NoBedsTaken
        PROVE  FitInv'
    <2>1. r \in DOMAIN rooms /\ rooms' = [rooms EXCEPT ![r] = resize(@, c, p)]
      BY <1>6 DEF modify_room
    <2>2. resize(rooms[r], c, p).max_capacity = c
      BY <1>0, <2>1 DEF resize, BookedRoom, Room
    <2>3. rooms[r].max_capacity <= c
      BY <1>6, <2>1, <2>2 DEF NoBedsTaken
    <2>4. FitRoom(resize(rooms[r], c, p))
      BY <1>0, <2>1, <2>3, ResizeFits DEF HotelInv, FitInv
    <2>5. QED
      BY <2>1, <2>4 DEF FitInv
  <1>7. ASSUME NEW r \in RoomNumbers, remove_room(r)
        PROVE  FitInv'
    BY <1>7 DEF FitInv, remove_room
  <1>8. ASSUME NEW d \in Days, rooms' = update_date(rooms, d)
        PROVE  FitInv'
    BY <1>0, <1>8, RefreshAllFits DEF FitInv, FitRoom
  <1>9. ASSUME NEW d \in DaySteps, advance_date(d)
        PROVE  FitInv'
    BY <1>8, <1>9 DEF advance_date
  <1>10. ASSUME NEW d \in Days, restart_hotel(d)
         PROVE  FitInv'
    BY <1>8, <1>10 DEF restart_hotel
  <1>11. CASE UNCHANGED hotelVars
    BY <1>11 DEF FitInv, hotelVars
  <1>12. QED
    BY <1>1, <1>2, <1>3, <1>4, <1>5, <1>6, <1>7, <1>9, <1>10, <1>11 DEF HotelNext

(* No overbooking and the full flag, as one invariant of that hotel.        *)
LEMMA GrowingInvariance ==
    ASSUME RequestsFit
    PROVE  GrowingHotelSpec => [](HotelInv /\ FitInv)
  <1>1. HotelInit => FitInv
    <2> SUFFICES ASSUME HotelInit PROVE FitInv
      OBVIOUS
    <2>1. PICK S \in SUBSET RoomNumbers :
              rooms \in [S -> {new_room(c, p) : c \in Capacities, p \in Prices}]
      BY DEF HotelInit
    <2>2. QED
      BY <2>1, NewRoomFits DEF FitInv
  <1>2. HotelInv /\ [HotelNext /\ NoBedsTaken]_hotelVars => HotelInv'
    BY HotelStepInv
  <1>3. HotelInv /\ FitInv /\ [HotelNext /\ NoBedsTaken]_hotelVars => FitInv'
    BY FitStep
  <1>4. QED
    BY <1>1, <1>2, <1>3, HotelInitInv, PTL DEF GrowingHotelSpec

(* As long as no room loses beds, no night of any room is overbooked.       *)
THEOREM HotelNeverOverbooked ==
    ASSUME RequestsFit
    PROVE  GrowingHotelSpec => []NeverOverbooked
  <1>1. FitInv => NeverOverbooked
    BY DEF FitInv, FitRoom, NeverOverbooked
  <1>2. QED
    BY <1>1, GrowingInvariance, PTL

(* ... and a room without a free bed is flagged full.                       *)
THEOREM HotelSoldOutIsFlagged ==
    ASSUME RequestsFit
    PROVE  GrowingHotelSpec => []SoldOutIsFlagged
  <1>1. FitInv => SoldOutIsFlagged
    BY DEF FitInv, FitRoom, SoldOutIsFlagged
  <1>2. QED
    BY <1>1, GrowingInvariance, PTL
=============================================================================
