----------------------------- MODULE HotelRoom -----------------------------
(***************************************************************************)
(* One room of the hotel: the struct HotelRoom of codes/infra/hotel.h and   *)
(* its member functions in hotel.cpp, as operators on a room record.        *)
(*                                                                          *)
(* A calendar date is the number of its day.  The vector "users" is the set *)
(* of its elements, in which no guest occurs twice (OneReservationPerGuest  *)
(* of HotelManager); its order, which check_room_available alone depends    *)
(* on, is a parameter there.  A number of beds is any int the client sends: *)
(* nothing refuses none, or fewer than none.                                *)
(***************************************************************************)
EXTENDS Integers, FiniteSets

(* The pairs <<reservation, k>>, one for each bed of each reservation in R, *)
(* and one for each bed a reservation of a negative number adds to the room.*)
BedSlots(R) == UNION {{u} \X (1 .. u.number_of_reservation) : u \in R}
BedsGiven(R) == UNION {{u} \X (1 .. -u.number_of_reservation) : u \in R}

(* How many beds the reservations in R take together. *)
BedsOf(R) == Cardinality(BedSlots(R)) - Cardinality(BedsGiven(R))

(* The reservations whose stay covers the night of this day. *)
staying(room, day) ==
    {u \in room.users : u.reserve_date <= day /\ day < u.checkout_date}

check_user_reserved(room, id) == \E u \in room.users : u.id = id

get_user_reservation(room, id) == CHOOSE u \in room.users : u.id = id

is_user_in(room, day, id) ==
    /\ check_user_reserved(room, id)
    /\ get_user_reservation(room, id) \in staying(room, day)

-----------------------------------------------------------------------------
(***************************************************************************)
(* Seeded faults.  Each is what a plausible slip would make of the operator *)
(* it is named after; the properties have to notice when it is put in its   *)
(* place.                                                                   *)
(***************************************************************************)

(* Looks at the night of arrival only. *)
Faulty_check_room_available(room, order, check_in, check_out, number_of_bed) ==
    number_of_bed + BedsOf(staying(room, check_in)) <= room.max_capacity

(* Forgets to take the old reservation out when it keeps a smaller one. *)
Faulty_cancel_beds(room, id, num) ==
    LET u == get_user_reservation(room, id)
    IN  IF num = u.number_of_reservation
        THEN [room EXCEPT !.users = @ \ {u}]
        ELSE [room EXCEPT !.users = @ \cup {[u EXCEPT !.number_of_reservation = @ - num]}]

(* Never sets the full flag. *)
Faulty_refresh(room, day) ==
    [room EXCEPT !.users = {u \in @ : day < u.checkout_date},
                 !.current_capacity = room.max_capacity - BedsOf(staying(room, day)),
                 !.is_full = FALSE]

(* Takes the day of arrival for the day of departure. *)
Faulty_refresh_by_arrival(room, day) ==
    LET free == room.max_capacity - BedsOf(staying(room, day))
    IN  [room EXCEPT !.users = {u \in @ : day < u.reserve_date},
                     !.current_capacity = free,
                     !.is_full = (free = 0)]

(* Gives back one bed, however many the guest had. *)
Faulty_left_user(room, id) ==
    [room EXCEPT !.users = @ \ {get_user_reservation(room, id)},
                 !.current_capacity = @ + 1,
                 !.is_full = FALSE]

(* Takes the capacity for the price and the price for the capacity. *)
Faulty_resize(room, capacity, price) ==
    [room EXCEPT !.current_capacity = @ + (price - room.max_capacity),
                 !.max_capacity = price,
                 !.price_per_bed = capacity]

(* Leaves the full flag to the next change of the date. *)
Faulty_left_user_flag(room, id) ==
    LET u == get_user_reservation(room, id)
    IN  [room EXCEPT !.users = @ \ {u},
                     !.current_capacity = @ + u.number_of_reservation]

-----------------------------------------------------------------------------

(* The orders in which the vector of a room may hold its reservations.      *)
orders(room) ==
    {order \in [1 .. Cardinality(room.users) -> room.users] :
        \A u \in room.users : \E i \in DOMAIN order : order[i] = u}

(* The capacity test sits inside the loop over the reservations: it is made *)
(* after each of them, and a room that has none accepts any number of beds. *)
check_room_available(room, order, check_in, check_out, number_of_bed) ==
    \A day \in check_in .. (check_out - 1), k \in DOMAIN order :
        number_of_bed + BedsOf({order[i] : i \in 1 .. k} \cap staying(room, day))
            <= room.max_capacity

(* Each reservation alone has to fit the new capacity. *)
capacity_validation(room, new_capacity) ==
    \A u \in room.users : u.number_of_reservation <= new_capacity

-----------------------------------------------------------------------------

new_room(capacity, price) ==
    [is_full |-> FALSE, price_per_bed |-> price, max_capacity |-> capacity,
     current_capacity |-> capacity, users |-> {}]

add_reservation(room, id, beds, check_in, check_out) ==
    [room EXCEPT !.users = @ \cup
        {[id |-> id, number_of_reservation |-> beds,
          reserve_date |-> check_in, checkout_date |-> check_out]}]

(* Giving up all the beds drops the reservation; giving up some shrinks it. *)
cancel_beds(room, id, num) ==
    LET u == get_user_reservation(room, id)
        kept == IF num = u.number_of_reservation THEN {}
                ELSE {[u EXCEPT !.number_of_reservation = @ - num]}
    IN  [room EXCEPT !.users = (@ \ {u}) \cup kept]

(* What moving the calendar to this day makes of one room: past stays are   *)
(* forgotten, and the free beds and the full flag are computed afresh.      *)
refresh(room, day) ==
    LET free == room.max_capacity - BedsOf(staying(room, day))
    IN  [room EXCEPT !.users = {u \in @ : day < u.checkout_date},
                     !.current_capacity = free,
                     !.is_full = (free = 0)]

left_user(room, id) ==
    LET u == get_user_reservation(room, id)
    IN  [room EXCEPT !.users = @ \ {u},
                     !.current_capacity = @ + u.number_of_reservation,
                     !.is_full = FALSE]

make_empty(room, day) ==
    [room EXCEPT !.users = @ \ staying(room, day),
                 !.current_capacity = room.max_capacity,
                 !.is_full = FALSE]

(* The full flag is not touched by a change of capacity. *)
resize(room, capacity, price) ==
    [room EXCEPT !.current_capacity = @ + (capacity - room.max_capacity),
                 !.max_capacity = capacity,
                 !.price_per_bed = price]
=============================================================================
