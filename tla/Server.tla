------------------------------- MODULE Server -------------------------------
(***************************************************************************)
(* The server: the request handlers of codes/infra/server.cpp over the      *)
(* hotel and its users, driven by the connections codes/server/main.cpp     *)
(* accepts and drops.  The loop handles one readable socket at a time, so   *)
(* that each handler, with every call it makes, is one step.                *)
(*                                                                          *)
(* A request names its sender by a token only; any token a client may hold, *)
(* an old one or none included, can come with any request.  What a handler  *)
(* answers is kept as the kind of its last response.                        *)
(***************************************************************************)
EXTENDS HotelManager, UserManager

VARIABLES
    connected,      \* the open client sockets in the server's master set
    answer,         \* kind of the last response
    ledger          \* history: what each guest paid and got back for a room

serverVars == <<rooms, today_date, users, connected, answer, ledger>>

(* The ids the file may hold, and those create_Id may return, may book. *)
ASSUME ServerAssumption == Ids \cup 0 .. (Cardinality(Usernames) - 1) \subseteq Guests

Accounts == Guests \X RoomNumbers

ServerTypeOK ==
    /\ HotelTypeOK
    /\ UserTypeOK
    /\ connected \subseteq Fds
    /\ answer \in {"none", "success", "error"}
    /\ ledger \in [Accounts -> [spent : Int, refunded : Int]]

-----------------------------------------------------------------------------
(* Seeded faults (see HotelRoom).                                          *)

(* Gives all the money back. *)
Faulty_half(amount) == amount

(* Closes the socket and tells nobody. *)
Faulty_drop_client(fd) ==
    /\ fd \in connected
    /\ connected' = connected \ {fd}
    /\ UNCHANGED <<rooms, today_date, users, answer, ledger>>

-----------------------------------------------------------------------------

get_total_price(room_num, beds, check_in, check_out) ==
    beds * rooms[room_num].price_per_bed * (check_out - check_in)

(* 0.5 * amount, converted back to an int. *)
half(amount) == IF amount >= 0 THEN amount \div 2 ELSE -((-amount) \div 2)

is_guest(token) == get_role(token) = "USER"
is_admin(token) == get_role(token) = "ADMIN"

balance_of(token) == users[search_by_token(token)].account_balance

(* The history follows the change a handler makes to the sender's purse.    *)
paid(token, room_num) ==
    ledger' = [ledger EXCEPT ![<<get_id(token), room_num>>].spent =
                  @ + (balance_of(token)
                         - users'[search_by_token(token)].account_balance)]

repaid(token, room_num) ==
    ledger' = [ledger EXCEPT ![<<get_id(token), room_num>>].refunded =
                  @ + (users'[search_by_token(token)].account_balance
                         - balance_of(token))]

succeed == answer' = "success" /\ UNCHANGED connected
fail == answer' = "error" /\ UNCHANGED connected

(* A request that is refused changes nothing. *)
refuse == fail /\ UNCHANGED <<rooms, today_date, users, ledger>>

-----------------------------------------------------------------------------

ServerInit ==
    /\ HotelInit
    /\ UserInit
    /\ connected = {}
    /\ answer = "none"
    /\ ledger = [a \in Accounts |-> [spent |-> 0, refunded |-> 0]]

accept_client(fd) ==
    /\ fd \notin connected
    /\ connected' = connected \cup {fd}
    /\ UNCHANGED <<rooms, today_date, users, answer, ledger>>

(* A readable socket with nothing to read: the user behind it, if any, is   *)
(* logged out before the socket is closed.                                  *)
drop_client(fd) ==
    /\ fd \in connected
    /\ client_dead(fd)
         \/ /\ ~\E n \in DOMAIN users : users[n].socket_fd = fd /\ users[n].is_logged_in
            /\ UNCHANGED users
    /\ connected' = connected \ {fd}
    /\ UNCHANGED <<rooms, today_date, answer, ledger>>

(* The client's menu offers signing in only while it is not signed in, so   *)
(* that no connection has two sessions.                                     *)
sign_in(name, password, fd) ==
    /\ fd \in connected
    /\ ~\E n \in DOMAIN users : users[n].is_logged_in /\ users[n].socket_fd = fd
    /\ \/ /\ user_validation(name, password)
          /\ \E t \in Tokens : login(name, fd, t)
          /\ succeed
          /\ UNCHANGED <<rooms, today_date, ledger>>
       \/ ~user_validation(name, password) /\ refuse

is_uname_available(name) ==
    /\ answer' = IF username_exist(name) THEN "error" ELSE "success"
    /\ UNCHANGED <<rooms, today_date, users, connected, ledger>>

sign_up(name, password, balance, phone, addr) ==
    \/ /\ signup(name, password, balance, phone, addr)
       /\ succeed
       /\ UNCHANGED <<rooms, today_date, ledger>>
    \/ /\ \/ Blank \in {name, password, addr}
          \/ phone \notin ValidPhones
          \/ username_exist(name)
       /\ refuse

(* Answers success whether or not there was a session to end. *)
log_out(token) ==
    /\ logout(token) \/ (sessions(token) = {} /\ UNCHANGED users)
    /\ succeed
    /\ UNCHANGED <<rooms, today_date, ledger>>

(* The four requests that only read. *)
view_user_information(token) == sessions(token) # {}
view_all_users(token) == ~is_guest(token)
view_rooms_info(token) == get_role(token) # "NONE"
view_reservations(token) == is_guest(token)

view(granted) ==
    /\ answer' = IF granted THEN "success" ELSE "error"
    /\ UNCHANGED <<rooms, today_date, users, connected, ledger>>

(* The cost is reckoned before the room is booked and taken afterwards.     *)
book_a_room(token, room_num, beds, check_in, check_out) ==
    \E order \in orders_of(room_num) :
    LET granted ==
            /\ is_guest(token)
            /\ bookable(room_num, order, get_id(token), beds, check_in, check_out)
            /\ have_enough_money(token,
                   get_total_price(room_num, beds, check_in, check_out))
    IN  \/ /\ granted
           /\ book(room_num, order, get_id(token), beds, check_in, check_out)
           /\ reduce_balance(token,
                  get_total_price(room_num, beds, check_in, check_out))
           /\ paid(token, room_num)
           /\ succeed
        \/ ~granted /\ refuse

(* The refund is reckoned at the price of the day, not at the price paid.   *)
cancel_a_room(token, room_num, num) ==
    LET granted == is_guest(token) /\ cancelable(room_num, get_id(token), num)
        u == get_user_reservation(rooms[room_num], get_id(token))
    IN  \/ /\ granted
           /\ cancel_reservation(room_num, get_id(token), num)
           /\ increase_balance(token,
                  half(get_total_price(room_num, num, u.reserve_date, u.checkout_date)))
           /\ repaid(token, room_num)
           /\ succeed
        \/ ~granted /\ refuse

pass_days(token, days) ==
    \/ /\ is_admin(token)
       /\ advance_date(days)
       /\ succeed
       /\ UNCHANGED <<users, ledger>>
    \/ ~is_admin(token) /\ refuse

(* A failing edit may have changed the password.                            *)
edit_user_info(token, password, phone, addr) ==
    /\ \/ edit_information(token, password, phone, addr)
       \/ sessions(token) = {} /\ UNCHANGED users
    /\ IF edit_succeeds(token, phone) THEN succeed ELSE fail
    /\ UNCHANGED <<rooms, today_date, ledger>>

leave_room(token, room_num) ==
    LET granted == /\ is_guest(token)
                   /\ room_num_exist(room_num)
                   /\ is_user_in(rooms[room_num], today_date, get_id(token))
    IN  \/ /\ granted
           /\ left_user_room(room_num, get_id(token))
           /\ succeed
           /\ UNCHANGED <<users, ledger>>
        \/ ~granted /\ refuse

empty_room(token, room_num) ==
    LET granted == is_admin(token) /\ room_num_exist(room_num)
    IN  \/ granted /\ make_room_empty(room_num) /\ succeed /\ UNCHANGED <<users, ledger>>
        \/ ~granted /\ refuse

add_a_room(token, room_num, capacity, price) ==
    LET granted == is_admin(token) /\ ~room_num_exist(room_num)
    IN  \/ /\ granted
           /\ add_room(room_num, capacity, price)
           /\ succeed
           /\ UNCHANGED <<users, ledger>>
        \/ ~granted /\ refuse

modify_a_room(token, room_num, capacity, price) ==
    LET granted == is_admin(token) /\ modifiable(room_num, capacity, price)
    IN  \/ /\ granted
           /\ modify_room(room_num, capacity, price)
           /\ succeed
           /\ UNCHANGED <<users, ledger>>
        \/ ~granted /\ refuse

remove_a_room(token, room_num) ==
    LET granted == /\ is_admin(token)
                   /\ room_num_exist(room_num)
                   /\ room_is_empty(room_num)
    IN  \/ granted /\ remove_room(room_num) /\ succeed /\ UNCHANGED <<users, ledger>>
        \/ ~granted /\ refuse

(* "exit" at the console saves users and rooms and closes every socket; the *)
(* next start reads both files and asks for the date.                       *)
restart(day) ==
    /\ restart_users
    /\ restart_hotel(day)
    /\ connected' = {}
    /\ answer' = "none"
    /\ UNCHANGED ledger

-----------------------------------------------------------------------------

AnyToken == Tokens \cup {Blank}

(* The requests about the hotel ... *)
HotelRequest ==
    \E t \in AnyToken, r \in RoomNumbers :
        \/ \E n \in BedCounts, i, o \in Days : book_a_room(t, r, n, i, o)
        \/ \E n \in BedCounts : cancel_a_room(t, r, n)
        \/ leave_room(t, r)
        \/ empty_room(t, r)
        \/ \E c \in Capacities, p \in Prices : add_a_room(t, r, c, p)
        \/ \E c \in Capacities, p \in Prices : modify_a_room(t, r, c, p)
        \/ remove_a_room(t, r)

(* ... and those about users and sessions.                                  *)
UserRequest ==
    \/ \E n \in Usernames, pw \in Passwords, b \in Balances, ph \in Phones,
          a \in Addresses \cup {Blank} : sign_up(n, pw, b, ph, a)
    \/ \E n \in Usernames : is_uname_available(n)
    \/ \E t \in AnyToken : log_out(t)
    \/ \E t \in AnyToken, pw \in Passwords \cup {Blank}, ph \in Phones \cup {Blank},
          a \in Addresses \cup {Blank} : edit_user_info(t, pw, ph, a)
    \/ \E t \in AnyToken : view(view_user_information(t))
    \/ \E t \in AnyToken : view(view_all_users(t))
    \/ \E t \in AnyToken : view(view_rooms_info(t))
    \/ \E t \in AnyToken : view(view_reservations(t))

ServerStep ==
    \/ connected # {} /\ (HotelRequest \/ UserRequest)
    \/ connected # {} /\ \E t \in AnyToken, d \in DaySteps : pass_days(t, d)
    \/ \E fd \in Fds : accept_client(fd) \/ drop_client(fd)
    \/ \E n \in Usernames, pw \in Passwords, fd \in Fds : sign_in(n, pw, fd)

ServerNext == ServerStep \/ \E d \in Days : restart(d)

ServerSpec == ServerInit /\ [][ServerNext]_serverVars

-----------------------------------------------------------------------------
(***************************************************************************)
(* Properties.                                                             *)
(***************************************************************************)

(* Nobody asks for fewer beds than none, and every room has one price, not  *)
(* a negative one.  The server refuses neither: it is the client that has   *)
(* no use for the first, and the administrator who chooses the prices.      *)
PlainTrade ==
    /\ BedCounts \subseteq Nat
    /\ Prices \subseteq Nat /\ \A p, q \in Prices : p = q

NothingOwed ==
    \A r \in DOMAIN rooms : \A u \in rooms[r].users :
        get_total_price(r, u.number_of_reservation, u.reserve_date, u.checkout_date)
            + 2 * ledger[<<u.id, r>>].refunded <= ledger[<<u.id, r>>].spent

AtMostHalfBack ==
    \A a \in Accounts : 2 * ledger[a].refunded <= ledger[a].spent

(* In a plain trade nobody gets more than half of the money back, as        *)
(* README.md promises, and what a guest still holds in a room is paid for   *)
(* besides: no sequence of bookings, partial cancellations, departures and  *)
(* restarts gives a bed away.  Outside it both happen: who books fewer beds *)
(* than none is paid for it, who cancels them gets beds at half their       *)
(* price, and a refund follows the price when an administrator raises it.   *)
HeldIsPaid == PlainTrade => AtMostHalfBack /\ NothingOwed

(* Every reservation in the books, which know an id only, belongs to just   *)
(* one user, and no administrator, across sign-ups and restarts and however *)
(* the ids in the users' file are numbered.                                 *)
ReservationsHaveOneOwner ==
    \A r \in DOMAIN rooms : \A u \in rooms[r].users :
        \E n \in DOMAIN users :
            /\ ~users[n].privilege
            /\ \A m \in DOMAIN users : users[m].id = u.id <=> m = n

(* A session does not outlive its connection, and no connection has two:    *)
(* a user whose client died can sign in again.                              *)
SessionHasConnection ==
    /\ \A n \in DOMAIN users : users[n].is_logged_in => users[n].socket_fd \in connected
    /\ \A m, n \in DOMAIN users :
           /\ users[m].is_logged_in /\ users[n].is_logged_in
           /\ users[m].socket_fd = users[n].socket_fd
           => m = n
=============================================================================
