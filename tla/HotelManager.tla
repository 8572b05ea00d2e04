---------------------------- MODULE HotelManager ----------------------------
(***************************************************************************)
(* The hotel: class HotelManager of codes/infra/hotel.cpp with the calendar *)
(* day of the Server that owns it.  One action per request that changes the *)
(* rooms, guarded by the questions the Server's handler asks the manager    *)
(* before it makes the change (server.cpp).  Who may send which request,    *)
(* and what it costs, is the matter of module Server.                       *)
(***************************************************************************)
EXTENDS HotelRoom

CONSTANTS
    RoomNumbers,    \* the room numbers an administrator may use
    Guests,         \* ids of the users who book
    Capacities,     \* capacities an administrator types
    Prices,         \* prices per bed and night an administrator types
    BedCounts,      \* numbers of beds a guest types, negative too
    DaySteps,       \* numbers of days an administrator passes, negative too
    LastDay,        \* bound: the calendar is 0 .. LastDay
    MostBeds        \* bound: no cancellation leaves a reservation more beds

ASSUME HotelAssumption ==
    /\ Capacities \subseteq Int
    /\ Prices \subseteq Int
    /\ BedCounts \subseteq Int
    /\ DaySteps \subseteq Int
    /\ LastDay \in Nat
    /\ MostBeds \in Nat

VARIABLES
    rooms,          \* the rooms that exist: room number -> room
    today_date      \* the Server's calendar day

hotelVars == <<rooms, today_date>>

Days == 0 .. LastDay

RoomUser == [id : Guests, number_of_reservation : Int,
             reserve_date : Days, checkout_date : Days]

Room == [is_full : BOOLEAN, price_per_bed : Prices, max_capacity : Capacities,
         current_capacity : Int, users : SUBSET RoomUser]

HotelTypeOK ==
    /\ today_date \in Days
    /\ DOMAIN rooms \subseteq RoomNumbers
    /\ rooms \in [DOMAIN rooms -> Room]

-----------------------------------------------------------------------------

(***************************************************************************)
(* Seeded faults (see HotelRoom).                                           *)
(***************************************************************************)

(* Lets a stay end on the day it begins. *)
Faulty_booking_date_validation(check_in, check_out) ==
    today_date <= check_in /\ check_in <= check_out

(* Still cancels on the day of arrival. *)
Faulty_cancelation_date_validation(room_num, id) ==
    today_date <= get_user_reservation(rooms[room_num], id).reserve_date

-----------------------------------------------------------------------------

room_num_exist(room_num) == room_num \in DOMAIN rooms

booking_date_validation(check_in, check_out) ==
    today_date <= check_in /\ check_in < check_out

cancelation_date_validation(room_num, id) ==
    today_date < get_user_reservation(rooms[room_num], id).reserve_date

cancelation_capacity_validation(room_num, id, num) ==
    num <= get_user_reservation(rooms[room_num], id).number_of_reservation

room_is_empty(room_num) ==
    rooms[room_num].current_capacity = rooms[room_num].max_capacity

modify_validation(room_num, capacity) ==
    room_is_empty(room_num) \/ rooms[room_num].max_capacity <= capacity

update_date(all, day) == [r \in DOMAIN all |-> refresh(all[r], day)]

-----------------------------------------------------------------------------

(* A rooms' file without reservations, read on any date: a file that holds  *)
(* some was saved by a server, and restart_hotel reads it back.             *)
HotelInit ==
    /\ today_date \in Days
    /\ \E S \in SUBSET RoomNumbers :
           rooms \in [S -> {new_room(c, p) : c \in Capacities, p \in Prices}]

(* The order of a room's reservations, which the books do not keep. *)
orders_of(room_num) ==
    IF room_num_exist(room_num) THEN orders(rooms[room_num]) ELSE {<<>>}

(* What the Server's handlers ask before they book, cancel or modify.       *)
bookable(room_num, order, id, beds, check_in, check_out) ==
    /\ room_num_exist(room_num)
    /\ ~check_user_reserved(rooms[room_num], id)
    /\ booking_date_validation(check_in, check_out)
    /\ check_room_available(rooms[room_num], order, check_in, check_out, beds)

cancelable(room_num, id, num) ==
    /\ room_num_exist(room_num)
    /\ check_user_reserved(rooms[room_num], id)
    /\ cancelation_capacity_validation(room_num, id, num)
    /\ cancelation_date_validation(room_num, id)

modifiable(room_num, capacity, price) ==
    /\ room_num_exist(room_num)
    /\ modify_validation(room_num, capacity)
    /\ capacity_validation(rooms[room_num], capacity)
    /\ price > 0 /\ capacity > 0

(* A booking that starts today refreshes every room, a later one none. *)
book(room_num, order, id, beds, check_in, check_out) ==
    LET booked == [rooms EXCEPT ![room_num] =
                      add_reservation(@, id, beds, check_in, check_out)]
    IN  /\ bookable(room_num, order, id, beds, check_in, check_out)
        /\ rooms' = IF check_in = today_date
                    THEN update_date(booked, today_date)
                    ELSE booked
        /\ UNCHANGED today_date

(* Cancelling a negative number of beds adds beds; MostBeds bounds them. *)
cancel_reservation(room_num, id, num) ==
    /\ cancelable(room_num, id, num)
    /\ get_user_reservation(rooms[room_num], id).number_of_reservation - num <= MostBeds
    /\ rooms' = [rooms EXCEPT ![room_num] = cancel_beds(@, id, num)]
    /\ UNCHANGED today_date

left_user_room(room_num, id) ==
    /\ room_num_exist(room_num)
    /\ is_user_in(rooms[room_num], today_date, id)
    /\ rooms' = [rooms EXCEPT ![room_num] = left_user(@, id)]
    /\ UNCHANGED today_date

make_room_empty(room_num) ==
    /\ room_num_exist(room_num)
    /\ rooms' = [rooms EXCEPT ![room_num] = make_empty(@, today_date)]
    /\ UNCHANGED today_date

add_room(room_num, capacity, price) ==
    /\ ~room_num_exist(room_num)
    /\ rooms' = [r \in DOMAIN rooms \cup {room_num} |->
                    IF r = room_num THEN new_room(capacity, price)
                                    ELSE rooms[r]]
    /\ UNCHANGED today_date

modify_room(room_num, capacity, price) ==
    /\ modifiable(room_num, capacity, price)
    /\ rooms' = [rooms EXCEPT ![room_num] = resize(@, capacity, price)]
    /\ UNCHANGED today_date

remove_room(room_num) ==
    /\ room_num_exist(room_num)
    /\ room_is_empty(room_num)
    /\ rooms' = [r \in DOMAIN rooms \ {room_num} |-> rooms[r]]
    /\ UNCHANGED today_date

(* Passing days, backwards too; LastDay bounds the calendar. *)
advance_date(days) ==
    /\ today_date + days \in Days
    /\ today_date' = today_date + days
    /\ rooms' = update_date(rooms, today_date + days)

(* "exit" saves every room and the next start reads them back and asks the  *)
(* operator for the date, which may be any.                                 *)
restart_hotel(day) ==
    /\ today_date' = day
    /\ rooms' = update_date(rooms, day)

HotelNext ==
    \/ \E r \in RoomNumbers, g \in Guests, n \in BedCounts, i, o \in Days :
           \E order \in orders_of(r) : book(r, order, g, n, i, o)
    \/ \E r \in RoomNumbers, g \in Guests, n \in BedCounts :
           cancel_reservation(r, g, n)
    \/ \E r \in RoomNumbers, g \in Guests : left_user_room(r, g)
    \/ \E r \in RoomNumbers : make_room_empty(r)
    \/ \E r \in RoomNumbers, c \in Capacities, p \in Prices : add_room(r, c, p)
    \/ \E r \in RoomNumbers, c \in Capacities, p \in Prices : modify_room(r, c, p)
    \/ \E r \in RoomNumbers : remove_room(r)
    \/ \E d \in DaySteps : advance_date(d)
    \/ \E d \in Days : restart_hotel(d)

HotelSpec == HotelInit /\ [][HotelNext]_hotelVars

-----------------------------------------------------------------------------
(***************************************************************************)
(* Properties.                                                             *)
(***************************************************************************)

(* A guest holds at most one reservation in a room: book_a_room refuses a   *)
(* second one, and no other step of a long history brings it about.  This   *)
(* is what makes "search by user id" mean something.                        *)
OneReservationPerGuest ==
    \A r \in DOMAIN rooms : \A u, v \in rooms[r].users : u.id = v.id => u = v

(* The books never keep a stay that is over, nor one without a night,       *)
(* whichever way the calendar is moved and whenever the server restarts.    *)
NoExpiredStay ==
    \A r \in DOMAIN rooms : \A u \in rooms[r].users :
        u.reserve_date < u.checkout_date /\ today_date < u.checkout_date

(* The cached number of free beds is what the reservations of the day say:  *)
(* booking, leaving, emptying, modifying and passing days each maintain it  *)
(* in their own way, sometimes by a delta and sometimes afresh.             *)
CapacityAccurate ==
    \A r \in DOMAIN rooms :
        rooms[r].current_capacity =
            rooms[r].max_capacity - BedsOf(staying(rooms[r], today_date))

(* A stay that has begun keeps its beds until the guest leaves, the room is *)
(* emptied or the calendar moves: it is never shrunk by a cancellation.  It *)
(* keeps its room too, provided the guest has a bed and nobody who stays    *)
(* there today has a negative number of them.  Neither condition can be     *)
(* left out: a room is empty to remove_room when its free beds are as many  *)
(* as it has, and a negative number makes up for the beds of another.       *)
StartedStayKept ==
    \A r \in DOMAIN rooms : LET today == staying(rooms[r], today_date) IN
        \A u \in today :
            /\ r \in DOMAIN rooms' =>
                   u \in rooms'[r].users \/ ~check_user_reserved(rooms'[r], u.id)
            /\ /\ u.number_of_reservation > 0
               /\ \A v \in today : v.number_of_reservation >= 0
               => r \in DOMAIN rooms'

StartedStayIntact == [][StartedStayKept]_hotelVars

(* A room is flagged full while it has a free bed for one reason only: it   *)
(* was full and got more beds, which modify_room does not tell the flag.    *)
(* Departures, cancellations, bookings, date changes and restarts do not    *)
(* bring it about.                                                          *)
flag_is_stale(room) == room.is_full /\ room.current_capacity > 0

StaleFlagFromEnlarging ==
    \A r \in DOMAIN rooms' : flag_is_stale(rooms'[r]) =>
        /\ r \in DOMAIN rooms /\ rooms[r].is_full
        /\ \/ flag_is_stale(rooms[r])
           \/ rooms'[r].max_capacity > rooms[r].max_capacity

FullUnlessEnlarged == [][StaleFlagFromEnlarging]_hotelVars

(* No night has more beds reserved in a room than the room has.             *)
NeverOverbooked ==
    \A r \in DOMAIN rooms : \A day \in Days :
        BedsOf(staying(rooms[r], day)) <= rooms[r].max_capacity

(* A room whose beds are all taken today is flagged full.                   *)
SoldOutIsFlagged ==
    \A r \in DOMAIN rooms : rooms[r].current_capacity = 0 => rooms[r].is_full

(***************************************************************************)
(* The hotel of an administrator who never takes beds out of a room; both   *)
(* the overbooking and the full flag are sound there, provided nobody asks  *)
(* for no bed or for more beds than a room can have.                        *)
(***************************************************************************)
NoBedsTaken ==
    \A r \in DOMAIN rooms \cap DOMAIN rooms' :
        rooms[r].max_capacity <= rooms'[r].max_capacity

GrowingHotelSpec == HotelInit /\ [][HotelNext /\ NoBedsTaken]_hotelVars

RequestsFit ==
    \A c \in Capacities : c > 0 /\ \A n \in BedCounts : 0 < n /\ n <= c
=============================================================================
