------------------------- MODULE ServerMoneyProofs --------------------------
(***************************************************************************)
(* What guests hold is paid for: a proof about Server for every number of   *)
(* users, rooms, beds and days, in a plain trade: every room has the same   *)
(* price and nobody asks for fewer beds than none.                          *)
(***************************************************************************)
EXTENDS ServerProofs

(* Nobody holds fewer beds than none.                                      *)
NaturalStays ==
    \A r \in DOMAIN rooms : \A u \in rooms[r].users : u.number_of_reservation \in Nat

(* What a stay costs at price p. *)
cost(p, u) == u.number_of_reservation * p * (u.checkout_date - u.reserve_date)

PaidInv == ServerInv /\ AtMostHalfBack /\ NothingOwed /\ NaturalStays

(* In a plain trade there is a price that every room has.                   *)
LEMMA PriceOfPlainTrade ==
    ASSUME PlainTrade
    PROVE  BedCounts \subseteq Nat /\ \E p \in Nat : Prices \subseteq {p}
  <1>1. CASE Prices = {}
    BY <1>1 DEF PlainTrade
  <1>2. CASE Prices # {}
    BY <1>2 DEF PlainTrade
  <1>3. QED
    BY <1>1, <1>2

-----------------------------------------------------------------------------
(* The arithmetic of prices.                                               *)

(* Beds given up cost their share of the whole.                             *)
LEMMA ShareOfCost ==
    ASSUME NEW n \in Nat, NEW k \in Nat, NEW p \in Nat, NEW d \in Nat, k <= n
    PROVE  /\ k * p * d \in Nat /\ n * p * d \in Nat
           /\ (n - k) * p * d = n * p * d - k * p * d
           /\ k * p * d <= n * p * d
  <1>1. k * p \in Nat /\ n * p \in Nat /\ (n - k) * p \in Nat
    OBVIOUS
  <1>2. (n - k) * p = n * p - k * p
    OBVIOUS
  <1> DEFINE a == k * p
             b == n * p
             c == (n - k) * p
  <1>3. a \in Nat /\ b \in Nat /\ c \in Nat /\ c = b - a
    BY <1>1, <1>2
  <1> HIDE DEF a, b, c
  <1>4. a * d \in Nat /\ b * d \in Nat /\ c * d \in Nat /\ c * d = b * d - a * d
    BY <1>3
  <1>5. a * d <= b * d
    BY <1>4
  <1>6. QED
    BY <1>4, <1>5 DEF a, b, c

(* Half an amount is at most half of it.                                    *)
LEMMA HalfFits ==
    ASSUME NEW x \in Nat
    PROVE  half(x) \in Nat /\ 2 * half(x) <= x
  BY DEF half

(* Under one price every room has it, before and after a step.              *)
LEMMA PriceOfAll ==
    ASSUME HotelInv, NEW p \in Nat, Prices \subseteq {p}, NEW r \in DOMAIN rooms
    PROVE  /\ rooms[r].price_per_bed = p
           /\ \A n, i, o : get_total_price(r, n, i, o) = n * p * (o - i)
  <1>1. rooms[r].price_per_bed = p
    BY DEF HotelInv, SoundRoom, BookedRoom, Room
  <1>2. QED
    BY <1>1 DEF get_total_price

(* So that what is held is what the stays cost.                             *)
LEMMA HeldAtPrice ==
    ASSUME HotelInv, NEW p \in Nat, Prices \subseteq {p}
    PROVE  NothingOwed <=>
               \A r \in DOMAIN rooms : \A u \in rooms[r].users :
                   cost(p, u) + 2 * ledger[<<u.id, r>>].refunded
                       <= ledger[<<u.id, r>>].spent
  <1>1. \A r \in DOMAIN rooms : \A u \in rooms[r].users :
            get_total_price(r, u.number_of_reservation, u.reserve_date, u.checkout_date)
                = cost(p, u)
    BY PriceOfAll DEF cost
  <1>2. QED
    BY <1>1 DEF NothingOwed

(* The same after a step.                                                   *)
LEMMA HeldAtNewPrice ==
    ASSUME HotelInv', NEW p \in Nat, Prices \subseteq {p},
           \A r \in DOMAIN rooms' : \A u \in rooms'[r].users :
               cost(p, u) + 2 * ledger'[<<u.id, r>>].refunded
                   <= ledger'[<<u.id, r>>].spent
    PROVE  NothingOwed'
  <1>1. \A r \in DOMAIN rooms' : rooms'[r].price_per_bed = p
    BY DEF HotelInv, SoundRoom, BookedRoom, Room
  <1>2. QED
    BY <1>1 DEF NothingOwed, get_total_price, cost

(* A stay in the books has an account, a length and a cost.                 *)
LEMMA StayTyped ==
    ASSUME HotelInv, NaturalStays, NEW r \in DOMAIN rooms, NEW u \in rooms[r].users
    PROVE  /\ u \in RoomUser /\ u.number_of_reservation \in Nat
           /\ u.checkout_date - u.reserve_date \in Nat
           /\ <<u.id, r>> \in Accounts
  <1>1. u \in RoomUser /\ u.reserve_date < u.checkout_date /\ r \in RoomNumbers
    BY DEF HotelInv, SoundRoom, BookedRoom, Room
  <1>2. /\ u.id \in Guests /\ u.number_of_reservation \in Nat
        /\ u.reserve_date \in Days /\ u.checkout_date \in Days
    BY <1>1 DEF RoomUser, NaturalStays
  <1>3. u.reserve_date \in Int /\ u.checkout_date \in Int
    BY <1>2, DaysAreInts
  <1>4. u.checkout_date - u.reserve_date \in Nat
    BY <1>1, <1>3
  <1>5. QED
    BY <1>1, <1>2, <1>4 DEF Accounts

-----------------------------------------------------------------------------
(* The invariant of the accounts.                                          *)

(* At first nothing is held and nothing was paid.                           *)
LEMMA PaidInitInv == ServerInit => PaidInv
  <1> SUFFICES ASSUME ServerInit PROVE PaidInv
    OBVIOUS
  <1>1. ServerInv
    BY ServerInitInv
  <1>2. AtMostHalfBack
    BY DEF ServerInit, AtMostHalfBack
  <1>3. PICK S \in SUBSET RoomNumbers :
            rooms \in [S -> {new_room(c, pr) : c \in Capacities, pr \in Prices}]
    BY DEF ServerInit, HotelInit
  <1>4. \A r \in DOMAIN rooms : rooms[r].users = {}
    <2>1. \A r \in DOMAIN rooms :
              \E c \in Capacities, pr \in Prices : rooms[r] = new_room(c, pr)
      BY <1>3
    <2>2. QED
      BY <2>1 DEF new_room
  <1>5. NothingOwed /\ NaturalStays
    BY <1>4 DEF NothingOwed, NaturalStays
  <1>6. QED
    BY <1>1, <1>2, <1>5 DEF PaidInv

(* A booking takes its whole cost, and the guest had no other stay there.   *)
LEMMA BookingPaid ==
    ASSUME PaidInv, BedCounts \subseteq Nat, NEW p \in Nat, Prices \subseteq {p}, HotelInv',
           NEW t, NEW r \in RoomNumbers, NEW n \in BedCounts,
           NEW i \in Days, NEW o \in Days, GrantedBooking(t, r, n, i, o)
    PROVE  AtMostHalfBack' /\ NothingOwed'
  <1> DEFINE g == get_id(t)
             new == [id |-> g, number_of_reservation |-> n,
                     reserve_date |-> i, checkout_date |-> o]
             paidNow == n * p * (o - i)
  <1>1. HotelInv /\ UsersInv /\ ledger \in [Accounts -> [spent : Int, refunded : Int]]
    BY DEF PaidInv, ServerInv, AccountsTyped
  <1>2. /\ g \in Guests /\ r \in DOMAIN rooms
        /\ ledger' = [ledger EXCEPT ![<<g, r>>].spent = @ + get_total_price(r, n, i, o)]
    BY <1>1, Booked DEF GrantedBooking
  <1>3. get_total_price(r, n, i, o) = paidNow
    BY <1>1, <1>2, PriceOfAll
  <1>4. paidNow \in Nat
    <2>1. i \in Int /\ o \in Int /\ n \in Nat
      BY DaysAreInts, HotelAssumption
    <2>2. i < o
      BY DEF GrantedBooking, bookable, booking_date_validation
    <2>3. o - i \in Nat /\ n <= n
      BY <2>1, <2>2
    <2>4. QED
      BY <2>1, <2>3, ShareOfCost
  <1>5. \A u \in rooms[r].users : u.id # g
    BY DEF GrantedBooking, bookable, check_user_reserved
  <1>6. \A s \in DOMAIN rooms' : \A u \in rooms'[s].users :
            s \in DOMAIN rooms /\ (u \in rooms[s].users \/ (s = r /\ u = new))
    BY <1>1, <1>2, BookingStays DEF GrantedBooking
  <1>7. cost(p, new) = paidNow /\ new.id = g
    BY DEF cost
  <1> HIDE DEF g, new, paidNow
  <1>8. <<g, r>> \in Accounts
    BY <1>2 DEF Accounts
  <1>9. /\ ledger'[<<g, r>>].spent = ledger[<<g, r>>].spent + paidNow
        /\ ledger'[<<g, r>>].refunded = ledger[<<g, r>>].refunded
        /\ \A a \in Accounts : a # <<g, r>> => ledger'[a] = ledger[a]
        /\ \A a \in Accounts : ledger[a].spent \in Int /\ ledger[a].refunded \in Int
    BY <1>1, <1>2, <1>3, <1>8
  <1>10. AtMostHalfBack'
    <2>1. Accounts' = Accounts /\ AtMostHalfBack
      BY DEF Accounts, PaidInv
    <2>2. QED
      BY <1>4, <1>9, <2>1 DEF AtMostHalfBack
  <1>11. \A s \in DOMAIN rooms' : \A u \in rooms'[s].users :
             cost(p, u) + 2 * ledger'[<<u.id, s>>].refunded <= ledger'[<<u.id, s>>].spent
    <2>1. SUFFICES ASSUME NEW s \in DOMAIN rooms', NEW u \in rooms'[s].users
                   PROVE  cost(p, u) + 2 * ledger'[<<u.id, s>>].refunded
                              <= ledger'[<<u.id, s>>].spent
      OBVIOUS
    <2>2. CASE s \in DOMAIN rooms /\ u \in rooms[s].users
      <3>1. <<u.id, s>> \in Accounts /\ <<u.id, s>> # <<g, r>>
        BY <1>1, <1>5, <2>2, StayTyped DEF PaidInv
      <3>2. cost(p, u) + 2 * ledger[<<u.id, s>>].refunded <= ledger[<<u.id, s>>].spent
        BY <1>1, <2>2, HeldAtPrice DEF PaidInv
      <3>3. QED
        BY <1>9, <3>1, <3>2
    <2>3. CASE s = r /\ u = new
      <3>1. u.id = g /\ cost(p, u) = paidNow
        BY <1>7, <2>3
      <3>2. 2 * ledger[<<g, r>>].refunded <= ledger[<<g, r>>].spent
        BY <1>8 DEF PaidInv, AtMostHalfBack
      <3>3. QED
        BY <1>4, <1>8, <1>9, <2>3, <3>1, <3>2
    <2>4. QED
      BY <1>6, <2>2, <2>3
  <1>12. QED
    BY <1>10, <1>11, HeldAtNewPrice

(* A cancellation pays back at most half of what the beds given up cost.    *)
LEMMA CancellationPaid ==
    ASSUME PaidInv, BedCounts \subseteq Nat, NEW p \in Nat, Prices \subseteq {p}, HotelInv',
           NEW t, NEW r \in RoomNumbers, NEW n \in BedCounts,
           GrantedCancellation(t, r, n)
    PROVE  AtMostHalfBack' /\ NothingOwed'
  <1> DEFINE g == get_id(t)
             old == get_user_reservation(rooms[r], g)
             share == n * p * (old.checkout_date - old.reserve_date)
             left == [old EXCEPT !.number_of_reservation = @ - n]
             here == <<g, r>>
  <1>1. HotelInv /\ UsersInv /\ ledger \in [Accounts -> [spent : Int, refunded : Int]]
    BY DEF PaidInv, ServerInv, AccountsTyped
  <1>2. /\ g \in Guests /\ r \in DOMAIN rooms
        /\ old \in rooms[r].users /\ old \in RoomUser
        /\ ledger' = [ledger EXCEPT ![<<g, r>>].refunded =
                @ + half(get_total_price(r, n, old.reserve_date, old.checkout_date))]
    BY <1>1, Cancelled DEF GrantedCancellation
  <1>3. get_total_price(r, n, old.reserve_date, old.checkout_date) = share
    BY <1>1, <1>2, PriceOfAll
  <1>4. old.id = g
    <2>1. check_user_reserved(rooms[r], g)
      BY DEF GrantedCancellation, cancelable
    <2>2. QED
      BY <2>1 DEF check_user_reserved, get_user_reservation
  <1>5. /\ n \in Nat /\ old.number_of_reservation \in Nat
        /\ n <= old.number_of_reservation
        /\ old.checkout_date - old.reserve_date \in Nat
    <2>1. n \in Nat
      OBVIOUS
    <2>2. n <= get_user_reservation(rooms[r], get_id(t)).number_of_reservation
      BY DEF GrantedCancellation, cancelable, cancelation_capacity_validation
    <2>3. old.number_of_reservation \in Nat /\ old.checkout_date - old.reserve_date \in Nat
      BY <1>1, <1>2, StayTyped DEF PaidInv
    <2>4. QED
      BY <2>1, <2>2, <2>3
  <1>6. \A s \in DOMAIN rooms' : \A u \in rooms'[s].users :
            /\ s \in DOMAIN rooms
            /\ \/ u \in rooms[s].users /\ ~(s = r /\ u = old)
               \/ s = r /\ u = left
    <2>1. cancel_reservation(r, g, n)
      BY DEF GrantedCancellation
    <2> HIDE DEF g
    <2>2. QED
      BY <1>1, <1>2, <2>1, CancellationStays
  <1>7. /\ left.id = old.id
        /\ left.number_of_reservation = old.number_of_reservation - n
        /\ left.reserve_date = old.reserve_date /\ left.checkout_date = old.checkout_date
    <2> HIDE DEF old
    <2>1. QED
      BY <1>2 DEF RoomUser
  <1>8. \A u \in rooms[r].users : u.id = g => u = old
    BY <1>1, <1>2, <1>4 DEF HotelInv, SoundRoom, BookedRoom
  <1>9. /\ share \in Nat /\ cost(p, old) \in Nat /\ share <= cost(p, old)
        /\ cost(p, left) = cost(p, old) - share
    <2> HIDE DEF old, left
    <2>1. QED
      BY <1>5, <1>7, ShareOfCost DEF cost
  <1> HIDE DEF g, old, left
  <1>10. here \in Accounts
    BY <1>2 DEF Accounts
  <1> HIDE DEF share, here
  <1>11. half(share) \in Nat /\ 2 * half(share) <= share
    BY <1>9, HalfFits
  <1>12. /\ ledger'[here].spent = ledger[here].spent
         /\ ledger'[here].refunded = ledger[here].refunded + half(share)
         /\ \A a \in Accounts : a # here => ledger'[a] = ledger[a]
         /\ \A a \in Accounts : ledger[a].spent \in Int /\ ledger[a].refunded \in Int
    BY <1>1, <1>2, <1>3, <1>10 DEF here
  <1>13. cost(p, old) + 2 * ledger[here].refunded <= ledger[here].spent
    BY <1>1, <1>2, <1>4, HeldAtPrice DEF PaidInv, here
  <1>14. cost(p, left) + 2 * ledger'[here].refunded <= ledger'[here].spent
    BY <1>9, <1>10, <1>11, <1>12, <1>13
  <1>15. 2 * ledger'[here].refunded <= ledger'[here].spent
    BY <1>9, <1>10, <1>11, <1>12, <1>13
  <1>16. AtMostHalfBack'
    <2>1. Accounts' = Accounts /\ AtMostHalfBack
      BY DEF Accounts, PaidInv
    <2>2. QED
      BY <1>12, <1>15, <2>1 DEF AtMostHalfBack
  <1>17. \A s \in DOMAIN rooms' : \A u \in rooms'[s].users :
             cost(p, u) + 2 * ledger'[<<u.id, s>>].refunded <= ledger'[<<u.id, s>>].spent
    <2>1. SUFFICES ASSUME NEW s \in DOMAIN rooms', NEW u \in rooms'[s].users
                   PROVE  cost(p, u) + 2 * ledger'[<<u.id, s>>].refunded
                              <= ledger'[<<u.id, s>>].spent
      OBVIOUS
    <2>2. CASE s \in DOMAIN rooms /\ u \in rooms[s].users /\ ~(s = r /\ u = old)
      <3>1. <<u.id, s>> \in Accounts /\ <<u.id, s>> # here
        BY <1>1, <1>8, <2>2, StayTyped DEF PaidInv, here
      <3>2. cost(p, u) + 2 * ledger[<<u.id, s>>].refunded <= ledger[<<u.id, s>>].spent
        BY <1>1, <2>2, HeldAtPrice DEF PaidInv
      <3>3. QED
        BY <1>12, <3>1, <3>2
    <2>3. CASE s = r /\ u = left
      <3>1. <<u.id, s>> = here
        BY <1>4, <1>7, <2>3 DEF here
      <3>2. QED
        BY <1>14, <2>3, <3>1
    <2>4. QED
      BY <1>6, <2>2, <2>3
  <1>18. QED
    BY <1>16, <1>17, HeldAtNewPrice

(* A step that leaves the accounts as they are lets no stay begin.          *)
LEMMA OtherPaid ==
    ASSUME PaidInv, NEW p \in Nat, Prices \subseteq {p}, HotelInv', OtherStep
    PROVE  AtMostHalfBack' /\ NothingOwed'
  <1>1. AtMostHalfBack'
    BY DEF PaidInv, OtherStep, AtMostHalfBack, Accounts
  <1>2. \A s \in DOMAIN rooms' : \A u \in rooms'[s].users :
            cost(p, u) + 2 * ledger'[<<u.id, s>>].refunded <= ledger'[<<u.id, s>>].spent
    <2>1. \A s \in DOMAIN rooms : \A u \in rooms[s].users :
              cost(p, u) + 2 * ledger[<<u.id, s>>].refunded <= ledger[<<u.id, s>>].spent
      BY HeldAtPrice DEF PaidInv, ServerInv
    <2>2. QED
      BY <2>1 DEF OtherStep, StaysKept
  <1>3. QED
    BY <1>1, <1>2, HeldAtNewPrice

(* Where nobody asks for fewer beds than none, nobody comes to hold them.   *)
LEMMA NaturalStepInv ==
    ASSUME BedCounts \subseteq Nat, ServerInv, NaturalStays, [ServerNext]_serverVars
    PROVE  NaturalStays'
  <1>1. HotelInv /\ UsersInv /\ SessionHasConnection
    BY DEF ServerInv
  <1>2. CASE OtherStep
    BY <1>2 DEF OtherStep, StaysKept, NaturalStays
  <1>3. ASSUME NEW t \in AnyToken, NEW r \in RoomNumbers, NEW n \in BedCounts,
               NEW i \in Days, NEW o \in Days, GrantedBooking(t, r, n, i, o)
        PROVE  NaturalStays'
    <2>1. r \in DOMAIN rooms
      BY <1>3 DEF GrantedBooking, bookable, room_num_exist
    <2>2. n \in Nat
      OBVIOUS
    <2>3. QED
      BY <1>1, <1>3, <2>1, <2>2, BookingStays DEF GrantedBooking, NaturalStays
  <1>4. ASSUME NEW t \in AnyToken, NEW r \in RoomNumbers, NEW n \in BedCounts,
               GrantedCancellation(t, r, n)
        PROVE  NaturalStays'
    <2> DEFINE g == get_id(t)
               old == get_user_reservation(rooms[r], g)
               left == [old EXCEPT !.number_of_reservation = @ - n]
    <2>1. /\ r \in DOMAIN rooms /\ check_user_reserved(rooms[r], g)
          /\ n <= old.number_of_reservation /\ cancel_reservation(r, g, n)
      BY <1>4 DEF GrantedCancellation, cancelable, room_num_exist,
                  cancelation_capacity_validation
    <2>2. old \in rooms[r].users /\ old \in RoomUser /\ old.number_of_reservation \in Nat
      BY <1>1, <2>1, ReservationFound
         DEF HotelInv, SoundRoom, BookedRoom, Room, NaturalStays
    <2>3. n \in Nat
      OBVIOUS
    <2>4. left.number_of_reservation \in Nat
      <3> HIDE DEF old
      <3>1. left.number_of_reservation = old.number_of_reservation - n
        BY <2>2 DEF RoomUser
      <3>2. QED
        BY <2>1, <2>2, <2>3, <3>1
    <2>5. \A s \in DOMAIN rooms' : \A u \in rooms'[s].users :
              s \in DOMAIN rooms /\ (u \in rooms[s].users \/ u = left)
      <3> HIDE DEF g
      <3>1. QED
        BY <1>1, <2>1, <2>2, CancellationStays
    <2>6. QED
      BY <2>4, <2>5 DEF NaturalStays
  <1>5. QED
    BY <1>1, <1>2, <1>3, <1>4, ServerKinds

(* Every step keeps the accounts in order.                                  *)
LEMMA PaidStepInv ==
    ASSUME PlainTrade, PaidInv, [ServerNext]_serverVars
    PROVE  PaidInv'
  <1>1. ServerInv /\ HotelInv /\ UsersInv /\ SessionHasConnection
    BY DEF PaidInv, ServerInv
  <1>2. ServerInv'
    BY <1>1, ServerStepInv
  <1>3. HotelInv'
    BY <1>2 DEF ServerInv
  <1>0. BedCounts \subseteq Nat
    BY PriceOfPlainTrade
  <1>4. PICK p \in Nat : Prices \subseteq {p}
    BY PriceOfPlainTrade
  <1>9. NaturalStays'
    BY <1>0, <1>1, NaturalStepInv DEF PaidInv
  <1>5. CASE OtherStep
    BY <1>2, <1>3, <1>4, <1>5, <1>9, OtherPaid DEF PaidInv
  <1>6. ASSUME NEW t \in AnyToken, NEW r \in RoomNumbers, NEW n \in BedCounts,
               NEW i \in Days, NEW o \in Days, GrantedBooking(t, r, n, i, o)
        PROVE  PaidInv'
    BY <1>0, <1>2, <1>3, <1>4, <1>6, <1>9, BookingPaid DEF PaidInv
  <1>7. ASSUME NEW t \in AnyToken, NEW r \in RoomNumbers, NEW n \in BedCounts,
               GrantedCancellation(t, r, n)
        PROVE  PaidInv'
    BY <1>0, <1>2, <1>3, <1>4, <1>7, <1>9, CancellationPaid DEF PaidInv
  <1>8. QED
    BY <1>1, <1>5, <1>6, <1>7, ServerKinds

(* In a plain trade what guests hold is paid for, and nobody gets more than *)
(* half back.                                                               *)
THEOREM ServerHeldIsPaid == ServerSpec => []HeldIsPaid
  <1>1. CASE PlainTrade
    <2>1. PaidInv /\ [ServerNext]_serverVars => PaidInv'
      BY <1>1, PaidStepInv
    <2>2. PaidInv => HeldIsPaid
      BY DEF PaidInv, HeldIsPaid
    <2>3. QED
      BY PaidInitInv, <2>1, <2>2, PTL DEF ServerSpec
  <1>2. CASE ~PlainTrade
    <2>1. HeldIsPaid
      BY <1>2 DEF HeldIsPaid
    <2>2. QED
      BY <2>1, PTL
  <1>3. QED
    BY <1>1, <1>2
=============================================================================
