---------------------------- MODULE ServerProofs ----------------------------
(***************************************************************************)
(* Proofs about Server, for every set of users, tokens, sockets, rooms and  *)
(* amounts and every length of the calendar.  The hotel's half of a step is *)
(* a step of HotelManager, so that its invariant holds; what a request does *)
(* to the users is said by three formulas that relate the users before and  *)
(* after it.                                                                *)
(***************************************************************************)
EXTENDS Server, HotelManagerProofs, UserManagerProofs

(* Nobody disappears or becomes somebody else, and who comes is a guest. *)
SameUsers ==
    /\ DOMAIN users \subseteq DOMAIN users'
    /\ \A n \in DOMAIN users : /\ users'[n].id = users[n].id
                               /\ users'[n].privilege = users[n].privilege
    /\ \A n \in DOMAIN users' \ DOMAIN users : ~users'[n].privilege

(* No session begins. *)
NobodyComes ==
    \A n \in DOMAIN users' : users'[n].is_logged_in =>
        /\ n \in DOMAIN users
        /\ users[n].is_logged_in
        /\ users'[n].socket_fd = users[n].socket_fd

(* Every user may book. *)
IdsAreGuests == \A n \in DOMAIN users : users[n].id \in Guests

UsersInv == UserInv /\ IdsAreGuests

-----------------------------------------------------------------------------
(* What requests do to the users.                                          *)

(* Nothing, most of them.                                                   *)
LEMMA NobodyChanged ==
    ASSUME UsersInv, UNCHANGED users
    PROVE  UsersInv' /\ SameUsers /\ NobodyComes
  BY DEF UsersInv, UserInv, UserTypeOK, SessionPerToken, DistinctIds, IdsAreGuests,
         SameUsers, NobodyComes

(* Those that change one user change neither id nor role, and leave the     *)
(* session as it was or end it.                                             *)
LEMMA OneUserChanged ==
    ASSUME UsersInv, NEW name \in DOMAIN users, NEW user \in UserData,
           users' = [users EXCEPT ![name] = user],
           user.id = users[name].id, user.privilege = users[name].privilege,
           \/ ~user.is_logged_in /\ user.token = Blank
           \/ /\ user.is_logged_in = users[name].is_logged_in
              /\ user.token = users[name].token
              /\ user.socket_fd = users[name].socket_fd
    PROVE  UsersInv' /\ SameUsers /\ NobodyComes
  <1>1. UserInv /\ IdsAreGuests
    BY DEF UsersInv
  <1>2. user.is_logged_in <=> user.token # Blank
    BY <1>1 DEF UserInv, SessionPerToken
  <1>3. \A n \in DOMAIN users \ {name} :
            users[n].token = user.token => user.token = Blank
    BY <1>1 DEF UserInv, SessionPerToken
  <1>4. UserInv'
    BY <1>1, <1>2, <1>3, ChangedUser
  <1>5. /\ DOMAIN users' = DOMAIN users
        /\ \A n \in DOMAIN users : users'[n] = IF n = name THEN user ELSE users[n]
    OBVIOUS
  <1>6. SameUsers /\ NobodyComes
    BY <1>5 DEF SameUsers, NobodyComes
  <1>7. IdsAreGuests'
    BY <1>1, <1>5 DEF IdsAreGuests
  <1>8. QED
    BY <1>4, <1>6, <1>7 DEF UsersInv

(* The session of a token is one of the users, and of their type.           *)
LEMMA SenderTyped ==
    ASSUME UsersInv, NEW token, sessions(token) # {}
    PROVE  /\ search_by_token(token) \in DOMAIN users
           /\ users[search_by_token(token)] \in UserData
           /\ get_id(token) = users[search_by_token(token)].id
           /\ get_id(token) \in Guests
  BY TokenFound DEF UsersInv, UserInv, UserTypeOK, IdsAreGuests, get_id

(* Paying or being paid back changes a purse only.                          *)
LEMMA PurseChanged ==
    ASSUME UsersInv, NEW name \in DOMAIN users, NEW amount \in Int,
           users' = [users EXCEPT ![name].account_balance = amount]
    PROVE  /\ UsersInv' /\ SameUsers /\ NobodyComes
           /\ users'[name].account_balance = amount
  <1> DEFINE user == [users[name] EXCEPT !.account_balance = amount]
  <1>1. users[name] \in UserData
    BY DEF UsersInv, UserInv, UserTypeOK
  <1>2. /\ user \in UserData /\ user.account_balance = amount
        /\ user.id = users[name].id /\ user.privilege = users[name].privilege
        /\ user.is_logged_in = users[name].is_logged_in
        /\ user.token = users[name].token
        /\ user.socket_fd = users[name].socket_fd
    BY <1>1 DEF UserData
  <1>3. users' = [users EXCEPT ![name] = user]
    OBVIOUS
  <1>4. users'[name] = user
    BY <1>3
  <1> HIDE DEF user
  <1>5. QED
    BY <1>2, <1>3, <1>4, OneUserChanged

(* Signing up adds somebody who has no session.                             *)
LEMMA SignedUp ==
    ASSUME UsersInv, NEW name \in Usernames, NEW password \in Passwords,
           NEW balance \in Balances, NEW phone \in Phones,
           NEW addr \in Addresses \cup {Blank},
           signup(name, password, balance, phone, addr)
    PROVE  UsersInv' /\ SameUsers /\ NobodyComes
  <1>1. UserInv /\ IdsAreGuests
    BY DEF UsersInv
  <1>2. UserInv'
    BY <1>1, SignupInv
  <1>3. /\ name \notin DOMAIN users
        /\ DOMAIN users' = DOMAIN users \cup {name}
        /\ \A n \in DOMAIN users : users'[n] = users[n]
        /\ users'[name].id = create_Id /\ ~users'[name].is_logged_in
        /\ ~users'[name].privilege
    BY DEF signup, username_exist
  <1>4. create_Id \in Guests
    <2> DEFINE names == DOMAIN users
    <2>1. names \subseteq Usernames /\ names # Usernames
      BY <1>1, <1>3 DEF UserInv, UserTypeOK
    <2>2. /\ IsFiniteSet(names)
          /\ Cardinality(names) \in Nat /\ Cardinality(Usernames) \in Nat
          /\ Cardinality(names) < Cardinality(Usernames)
      <3>1. /\ IsFiniteSet(names) /\ Cardinality(names) <= Cardinality(Usernames)
            /\ Cardinality(names) # Cardinality(Usernames)
        BY <2>1, UserAssumption, FS_Subset
      <3>2. Cardinality(names) \in Nat /\ Cardinality(Usernames) \in Nat
        BY <3>1, UserAssumption, FS_CardinalityType
      <3>3. QED
        BY <3>1, <3>2
    <2>3. create_Id \in 0 .. Cardinality(names)
      BY <1>1, CreatedIdIsFree DEF UserInv
    <2>4. create_Id \in 0 .. (Cardinality(Usernames) - 1)
      BY <2>2, <2>3
    <2>5. QED
      BY <2>4, ServerAssumption
  <1>5. SameUsers /\ NobodyComes
    BY <1>3 DEF SameUsers, NobodyComes
  <1>6. IdsAreGuests'
    BY <1>1, <1>3, <1>4 DEF IdsAreGuests
  <1>7. QED
    BY <1>2, <1>5, <1>6 DEF UsersInv

(* Nor does anybody come when the users' file is read back.                 *)
LEMMA UsersRestarted ==
    ASSUME UsersInv, restart_users
    PROVE  UsersInv' /\ SameUsers /\ NobodyComes
  <1>1. UserInv /\ IdsAreGuests
    BY DEF UsersInv
  <1>2. UserInv'
    BY <1>1, RestartInv
  <1>3. \A n \in DOMAIN users : users[n] \in UserData
    BY <1>1 DEF UserInv, UserTypeOK
  <1>4. /\ DOMAIN users' = DOMAIN users
        /\ \A n \in DOMAIN users :
              /\ users'[n].id = users[n].id /\ users'[n].privilege = users[n].privilege
              /\ ~users'[n].is_logged_in
    BY <1>3 DEF restart_users, UserData
  <1>5. QED
    BY <1>1, <1>2, <1>4 DEF UsersInv, SameUsers, NobodyComes, IdsAreGuests

-----------------------------------------------------------------------------
(* What a booking costs, and what a cancellation pays back.                 *)

(* Prices are integers, and so are the halves of integers.                  *)
LEMMA PriceTyped ==
    ASSUME HotelInv, NEW r \in DOMAIN rooms, NEW n \in Int, NEW i \in Int, NEW o \in Int
    PROVE  /\ get_total_price(r, n, i, o) \in Int
           /\ half(get_total_price(r, n, i, o)) \in Int
  <1>1. rooms[r].price_per_bed \in Int
    BY HotelAssumption DEF HotelInv, SoundRoom, BookedRoom, Room
  <1>2. n * rooms[r].price_per_bed \in Int /\ o - i \in Int
    BY <1>1
  <1>3. get_total_price(r, n, i, o) \in Int
    BY <1>2 DEF get_total_price
  <1>4. QED
    BY <1>3 DEF half

(* A booking that is granted is paid by the one who asked, and entered.     *)
LEMMA Booked ==
    ASSUME HotelInv, UsersInv, NEW t, NEW r \in RoomNumbers, NEW n \in BedCounts,
           NEW i \in Days, NEW o \in Days, NEW order,
           is_guest(t), bookable(r, order, get_id(t), n, i, o),
           have_enough_money(t, get_total_price(r, n, i, o)),
           reduce_balance(t, get_total_price(r, n, i, o)), paid(t, r)
    PROVE  /\ sessions(t) # {} /\ get_id(t) \in Guests /\ r \in DOMAIN rooms
           /\ UsersInv' /\ SameUsers /\ NobodyComes
           /\ get_total_price(r, n, i, o) \in Int
           /\ ledger' = [ledger EXCEPT ![<<get_id(t), r>>].spent =
                             @ + get_total_price(r, n, i, o)]
  <1> DEFINE cost == get_total_price(r, n, i, o)
             name == search_by_token(t)
             rest == users[name].account_balance - cost
  <1>1. sessions(t) # {} /\ r \in DOMAIN rooms
    BY DEF have_enough_money, bookable, room_num_exist
  <1>2. name \in DOMAIN users /\ users[name] \in UserData /\ get_id(t) \in Guests
    BY <1>1, SenderTyped
  <1>3. cost \in Int
    <2>1. n \in Int /\ i \in Int /\ o \in Int
      BY HotelAssumption, DaysAreInts
    <2>2. QED
      BY <1>1, <2>1, PriceTyped
  <1>4. users' = [users EXCEPT ![name].account_balance = @ - cost]
    BY <1>1 DEF reduce_balance, have_enough_money
  <1> HIDE DEF cost, name
  <1>5. users[name].account_balance \in Int /\ rest \in Int
    BY <1>2, <1>3 DEF UserData
  <1>6. users' = [users EXCEPT ![name].account_balance = rest]
    BY <1>4
  <1>7. /\ UsersInv' /\ SameUsers /\ NobodyComes
        /\ users'[name].account_balance = rest
    BY <1>2, <1>5, <1>6, PurseChanged
  <1>8. users[name].account_balance - users'[name].account_balance = cost
    BY <1>3, <1>5, <1>7
  <1>9. ledger' = [ledger EXCEPT ![<<get_id(t), r>>].spent = @ + cost]
    BY <1>8 DEF paid, balance_of, name
  <1>10. QED
    BY <1>1, <1>2, <1>3, <1>7, <1>9 DEF cost

(* So is what a cancellation pays back: half the price of the day.          *)
LEMMA Cancelled ==
    ASSUME HotelInv, UsersInv, NEW t, NEW r \in RoomNumbers, NEW n \in BedCounts,
           NEW u, u = get_user_reservation(rooms[r], get_id(t)),
           is_guest(t), cancelable(r, get_id(t), n),
           increase_balance(t,
               half(get_total_price(r, n, u.reserve_date, u.checkout_date))),
           repaid(t, r)
    PROVE  /\ sessions(t) # {} /\ get_id(t) \in Guests /\ r \in DOMAIN rooms
           /\ u \in rooms[r].users /\ u \in RoomUser
           /\ UsersInv' /\ SameUsers /\ NobodyComes
           /\ ledger' = [ledger EXCEPT ![<<get_id(t), r>>].refunded =
                  @ + half(get_total_price(r, n, u.reserve_date, u.checkout_date))]
  <1> DEFINE refund == half(get_total_price(r, n, u.reserve_date, u.checkout_date))
             name == search_by_token(t)
             rest == users[name].account_balance + refund
  <1>1. sessions(t) # {} /\ r \in DOMAIN rooms
    BY DEF increase_balance, cancelable, room_num_exist
  <1>2. name \in DOMAIN users /\ users[name] \in UserData /\ get_id(t) \in Guests
    BY <1>1, SenderTyped
  <1>3. u \in rooms[r].users /\ u \in RoomUser
    BY <1>1, ReservationFound DEF cancelable, HotelInv, SoundRoom, BookedRoom, Room
  <1>4. refund \in Int
    <2>1. u.reserve_date \in Days /\ u.checkout_date \in Days
      BY <1>3 DEF RoomUser
    <2>2. u.reserve_date \in Int /\ u.checkout_date \in Int
      BY <2>1, DaysAreInts
    <2>3. n \in Int
      BY HotelAssumption
    <2>4. QED
      BY <1>1, <2>2, <2>3, PriceTyped
  <1>5. users' = [users EXCEPT ![name].account_balance = @ + refund]
    BY DEF increase_balance
  <1> HIDE DEF refund, name
  <1>6. users[name].account_balance \in Int /\ rest \in Int
    BY <1>2, <1>4 DEF UserData
  <1>7. users' = [users EXCEPT ![name].account_balance = rest]
    BY <1>5
  <1>8. /\ UsersInv' /\ SameUsers /\ NobodyComes
        /\ users'[name].account_balance = rest
    BY <1>2, <1>6, <1>7, PurseChanged
  <1>9. users'[name].account_balance - users[name].account_balance = refund
    BY <1>4, <1>6, <1>8
  <1>10. ledger' = [ledger EXCEPT ![<<get_id(t), r>>].refunded = @ + refund]
    BY <1>9 DEF repaid, balance_of, name
  <1>11. QED
    BY <1>1, <1>2, <1>3, <1>8, <1>10 DEF refund

-----------------------------------------------------------------------------
(* The kinds of steps.                                                      *)

(* Nobody gets a reservation, and none is changed; some may be given up. *)
StaysKept ==
    \A r \in DOMAIN rooms' : \A u \in rooms'[r].users :
        r \in DOMAIN rooms /\ u \in rooms[r].users

GrantedBooking(t, r, n, i, o) ==
    \E order \in orders_of(r) :
    /\ is_guest(t) /\ bookable(r, order, get_id(t), n, i, o)
    /\ have_enough_money(t, get_total_price(r, n, i, o))
    /\ book(r, order, get_id(t), n, i, o)
    /\ reduce_balance(t, get_total_price(r, n, i, o))
    /\ paid(t, r)

GrantedCancellation(t, r, n) ==
    LET u == get_user_reservation(rooms[r], get_id(t))
    IN  /\ is_guest(t) /\ cancelable(r, get_id(t), n)
        /\ cancel_reservation(r, get_id(t), n)
        /\ increase_balance(t,
               half(get_total_price(r, n, u.reserve_date, u.checkout_date)))
        /\ repaid(t, r)

OtherStep == StaysKept /\ UNCHANGED ledger /\ UsersInv' /\ SameUsers

(* Another date leaves the stays that remain as they were.                  *)
LEMMA DateKeepsStays ==
    ASSUME HotelInv, NEW d, advance_date(d) \/ restart_hotel(d)
    PROVE  StaysKept
  <1>1. \A s \in DOMAIN rooms : rooms[s] \in Room
    BY DEF HotelInv, SoundRoom, BookedRoom
  <1>2. ASSUME NEW day, rooms' = update_date(rooms, day) PROVE StaysKept
    BY <1>1, <1>2 DEF update_date, refresh, StaysKept, Room
  <1>3. QED
    BY <1>2 DEF advance_date, restart_hotel

(* So do a departure, an emptied, added, changed or removed room.           *)
LEMMA RoomKeepsStays ==
    ASSUME HotelInv, NEW r, NEW g, NEW c, NEW p,
           \/ left_user_room(r, g) \/ make_room_empty(r)
           \/ add_room(r, c, p) \/ modify_room(r, c, p) \/ remove_room(r)
    PROVE  StaysKept
  <1>1. \A s \in DOMAIN rooms : rooms[s] \in Room
    BY DEF HotelInv, SoundRoom, BookedRoom
  <1>2. CASE left_user_room(r, g)
    BY <1>1, <1>2 DEF left_user_room, left_user, StaysKept, Room
  <1>3. CASE make_room_empty(r)
    BY <1>1, <1>3 DEF make_room_empty, make_empty, StaysKept, Room
  <1>4. CASE add_room(r, c, p)
    BY <1>1, <1>4 DEF add_room, new_room, StaysKept, Room
  <1>5. CASE modify_room(r, c, p)
    BY <1>1, <1>5 DEF modify_room, resize, StaysKept, Room
  <1>6. CASE remove_room(r)
    BY <1>1, <1>6 DEF remove_room, StaysKept
  <1>7. QED
    BY <1>2, <1>3, <1>4, <1>5, <1>6

(* A request that is refused, or only read, touches nothing.                *)
LEMMA NothingDone ==
    ASSUME UsersInv, UNCHANGED <<rooms, users, ledger>>
    PROVE  OtherStep
  BY NobodyChanged DEF OtherStep, StaysKept

(* Each request about the hotel is of one of the kinds.                     *)
LEMMA HotelRequestKinds ==
    ASSUME HotelInv, UsersInv, HotelRequest
    PROVE  /\ \/ OtherStep /\ NobodyComes
              \/ \E t \in AnyToken, r \in RoomNumbers, n \in BedCounts, i, o \in Days :
                     GrantedBooking(t, r, n, i, o)
              \/ \E t \in AnyToken, r \in RoomNumbers, n \in BedCounts :
                     GrantedCancellation(t, r, n)
           /\ UNCHANGED connected
  <1>1. PICK t \in AnyToken, r \in RoomNumbers :
            \/ \E n \in BedCounts, i, o \in Days : book_a_room(t, r, n, i, o)
            \/ \E n \in BedCounts : cancel_a_room(t, r, n)
            \/ leave_room(t, r)
            \/ empty_room(t, r)
            \/ \E c \in Capacities, p \in Prices : add_a_room(t, r, c, p)
            \/ \E c \in Capacities, p \in Prices : modify_a_room(t, r, c, p)
            \/ remove_a_room(t, r)
    BY DEF HotelRequest
  <1>2. ASSUME refuse PROVE OtherStep /\ NobodyComes /\ UNCHANGED connected
    BY <1>2, NothingDone, NobodyChanged DEF refuse, fail
  <1>3. ASSUME succeed, UNCHANGED <<users, ledger>>, StaysKept
        PROVE  OtherStep /\ NobodyComes /\ UNCHANGED connected
    BY <1>3, NobodyChanged DEF OtherStep, succeed
  <1>4. ASSUME NEW n \in BedCounts, NEW i \in Days, NEW o \in Days,
               book_a_room(t, r, n, i, o)
        PROVE  (GrantedBooking(t, r, n, i, o) /\ UNCHANGED connected) \/ refuse
    BY <1>4 DEF book_a_room, GrantedBooking, succeed
  <1>5. ASSUME NEW n \in BedCounts, cancel_a_room(t, r, n)
        PROVE  (GrantedCancellation(t, r, n) /\ UNCHANGED connected) \/ refuse
    BY <1>5 DEF cancel_a_room, GrantedCancellation, succeed
  <1>6. CASE leave_room(t, r)
    BY <1>2, <1>3, <1>6, RoomKeepsStays DEF leave_room
  <1>7. CASE empty_room(t, r)
    BY <1>2, <1>3, <1>7, RoomKeepsStays DEF empty_room
  <1>8. ASSUME NEW c \in Capacities, NEW p \in Prices, add_a_room(t, r, c, p)
        PROVE  OtherStep /\ NobodyComes /\ UNCHANGED connected
    BY <1>2, <1>3, <1>8, RoomKeepsStays DEF add_a_room
  <1>9. ASSUME NEW c \in Capacities, NEW p \in Prices, modify_a_room(t, r, c, p)
        PROVE  OtherStep /\ NobodyComes /\ UNCHANGED connected
    BY <1>2, <1>3, <1>9, RoomKeepsStays DEF modify_a_room
  <1>10. CASE remove_a_room(t, r)
    BY <1>2, <1>3, <1>10, RoomKeepsStays DEF remove_a_room
  <1>11. QED
    BY <1>1, <1>2, <1>4, <1>5, <1>6, <1>7, <1>8, <1>9, <1>10

(* An edit changes one user, and nothing the sessions depend on.            *)
LEMMA Edited ==
    ASSUME UsersInv, NEW t, NEW pw \in Passwords \cup {Blank},
           NEW ph \in Phones \cup {Blank}, NEW a \in Addresses \cup {Blank},
           edit_information(t, pw, ph, a)
    PROVE  UsersInv' /\ SameUsers /\ NobodyComes
  <1> DEFINE name == search_by_token(t)
             user == edited(users[name], pw, ph, a)
  <1>1. name \in DOMAIN users /\ users[name] \in UserData
    BY SenderTyped DEF edit_information
  <1>2. users' = [users EXCEPT ![name] = user]
    BY DEF edit_information
  <1>3. /\ user \in UserData /\ user.id = users[name].id
        /\ user.token = users[name].token
        /\ user.is_logged_in = users[name].is_logged_in
        /\ user.socket_fd = users[name].socket_fd
    BY <1>1, EditedUser
  <1>4. user.privilege = users[name].privilege
    BY <1>1 DEF edited, UserData
  <1> HIDE DEF name, user
  <1>5. QED
    BY <1>1, <1>2, <1>3, <1>4, OneUserChanged

(* A session that ends leaves its user without a token.                     *)
LEMMA SessionEnded ==
    ASSUME UsersInv, NEW name \in DOMAIN users, NEW fd \in Fds \cup {NoFd},
           users' = [users EXCEPT ![name] = [logged_out(@) EXCEPT !.socket_fd = fd]]
    PROVE  /\ UsersInv' /\ SameUsers /\ NobodyComes
           /\ ~users'[name].is_logged_in
  <1> DEFINE user == [logged_out(users[name]) EXCEPT !.socket_fd = fd]
  <1>1. users[name] \in UserData
    BY DEF UsersInv, UserInv, UserTypeOK
  <1>2. /\ user \in UserData /\ user.id = users[name].id
        /\ user.privilege = users[name].privilege
        /\ ~user.is_logged_in /\ user.token = Blank
    BY <1>1 DEF UserData, logged_out
  <1>3. users' = [users EXCEPT ![name] = user] /\ users'[name] = user
    OBVIOUS
  <1> HIDE DEF user
  <1>4. QED
    BY <1>2, <1>3, OneUserChanged

(* Logging out is such an end.                                              *)
LEMMA LoggedOut ==
    ASSUME UsersInv, NEW t, logout(t)
    PROVE  UsersInv' /\ SameUsers /\ NobodyComes
  <1> DEFINE name == search_by_token(t)
  <1>1. name \in DOMAIN users /\ users[name] \in UserData
    BY SenderTyped DEF logout
  <1>2. users' = [users EXCEPT ![name] = logged_out(@)]
    BY DEF logout
  <1> HIDE DEF name
  <1>3. /\ users[name].socket_fd \in Fds \cup {NoFd}
        /\ [logged_out(users[name]) EXCEPT !.socket_fd = users[name].socket_fd]
              = logged_out(users[name])
    BY <1>1 DEF UserData, logged_out
  <1>4. QED
    BY <1>1, <1>2, <1>3, SessionEnded

(* The requests about users touch no room and let nobody in.                *)
LEMMA UserRequestKinds ==
    ASSUME UsersInv, UserRequest
    PROVE  OtherStep /\ NobodyComes /\ UNCHANGED connected
  <1>1. ASSUME UNCHANGED <<rooms, ledger>>, UsersInv', SameUsers
        PROVE  OtherStep
    BY <1>1 DEF OtherStep, StaysKept
  <1>2. ASSUME UNCHANGED <<rooms, users, ledger, connected>>
        PROVE  OtherStep /\ NobodyComes /\ UNCHANGED connected
    BY <1>2, NothingDone, NobodyChanged
  <1>3. ASSUME NEW n \in Usernames, NEW pw \in Passwords, NEW b \in Balances,
               NEW ph \in Phones, NEW a \in Addresses \cup {Blank},
               sign_up(n, pw, b, ph, a)
        PROVE  OtherStep /\ NobodyComes /\ UNCHANGED connected
    <2>1. CASE signup(n, pw, b, ph, a) /\ succeed /\ UNCHANGED <<rooms, ledger>>
      BY <1>1, <2>1, SignedUp DEF succeed
    <2>2. CASE refuse
      BY <1>2, <2>2 DEF refuse, fail
    <2>3. QED
      BY <1>3, <2>1, <2>2 DEF sign_up
  <1>4. ASSUME NEW n \in Usernames, is_uname_available(n)
        PROVE  OtherStep /\ NobodyComes /\ UNCHANGED connected
    BY <1>2, <1>4 DEF is_uname_available
  <1>5. ASSUME NEW t \in AnyToken, log_out(t)
        PROVE  OtherStep /\ NobodyComes /\ UNCHANGED connected
    BY <1>1, <1>2, <1>5, LoggedOut DEF log_out, succeed
  <1>6. ASSUME NEW t \in AnyToken, NEW pw \in Passwords \cup {Blank},
               NEW ph \in Phones \cup {Blank}, NEW a \in Addresses \cup {Blank},
               edit_user_info(t, pw, ph, a)
        PROVE  OtherStep /\ NobodyComes /\ UNCHANGED connected
    BY <1>1, <1>2, <1>6, Edited DEF edit_user_info, succeed, fail
  <1>7. ASSUME NEW granted, view(granted)
        PROVE  OtherStep /\ NobodyComes /\ UNCHANGED connected
    BY <1>2, <1>7 DEF view
  <1>8. QED
    BY <1>3, <1>4, <1>5, <1>6, <1>7 DEF UserRequest

(* Another day is a matter of the rooms.                                    *)
LEMMA PassDaysKind ==
    ASSUME HotelInv, UsersInv, NEW t, NEW d, pass_days(t, d)
    PROVE  OtherStep /\ NobodyComes /\ UNCHANGED connected
  <1>1. CASE advance_date(d) /\ succeed /\ UNCHANGED <<users, ledger>>
    <2>1. StaysKept
      BY <1>1, DateKeepsStays
    <2>2. QED
      BY <1>1, <2>1, NobodyChanged DEF OtherStep, succeed
  <1>2. CASE refuse
    BY <1>2, NothingDone, NobodyChanged DEF refuse, fail
  <1>3. QED
    BY <1>1, <1>2 DEF pass_days

-----------------------------------------------------------------------------
(* Sessions and connections.                                               *)

(* Where nobody comes and each session that goes on keeps a connection, no  *)
(* connection gets a second session.                                        *)
LEMMA SessionsGoOn ==
    ASSUME SessionHasConnection, NobodyComes,
           \A n \in DOMAIN users' : users'[n].is_logged_in => users'[n].socket_fd \in connected'
    PROVE  SessionHasConnection'
  <1>1. \A m, n \in DOMAIN users' :
            /\ users'[m].is_logged_in /\ users'[n].is_logged_in
            /\ users'[m].socket_fd = users'[n].socket_fd
            => m = n
    BY DEF SessionHasConnection, NobodyComes
  <1>2. QED
    BY <1>1 DEF SessionHasConnection

(* A request that lets nobody in is such a step ...                         *)
LEMMA SessionsServed ==
    ASSUME SessionHasConnection, NobodyComes, UNCHANGED connected
    PROVE  SessionHasConnection'
  <1>1. \A n \in DOMAIN users' : users'[n].is_logged_in => users'[n].socket_fd \in connected'
    BY DEF SessionHasConnection, NobodyComes
  <1>2. QED
    BY <1>1, SessionsGoOn

(* ... and so is the end of a connection: its session is the only one on it,*)
(* so that ending the first that is found is enough.                        *)
LEMMA ConnectionDropped ==
    ASSUME UsersInv, SessionHasConnection, NEW fd \in Fds, drop_client(fd)
    PROVE  OtherStep /\ SessionHasConnection'
  <1>1. UNCHANGED <<rooms, ledger>> /\ connected' = connected \ {fd}
    BY DEF drop_client
  <1>2. CASE client_dead(fd)
    <2>1. PICK name \in {m \in DOMAIN users : users[m].socket_fd = fd /\ users[m].is_logged_in} :
              users' = [users EXCEPT ![name] = [logged_out(@) EXCEPT !.socket_fd = NoFd]]
      BY <1>2 DEF client_dead
    <2>2. /\ name \in DOMAIN users
          /\ users[name].socket_fd = fd /\ users[name].is_logged_in
      BY <2>1
    <2>3. UsersInv' /\ SameUsers /\ NobodyComes /\ ~users'[name].is_logged_in
      BY <2>1, <2>2, SessionEnded
    <2>4. \A n \in DOMAIN users' : users'[n].is_logged_in => users'[n].socket_fd \in connected'
      BY <1>1, <2>2, <2>3 DEF SessionHasConnection, NobodyComes
    <2>5. QED
      BY <1>1, <2>3, <2>4, SessionsGoOn DEF OtherStep, StaysKept
  <1>3. CASE /\ ~\E n \in DOMAIN users : users[n].socket_fd = fd /\ users[n].is_logged_in
             /\ UNCHANGED users
    <2>1. UsersInv' /\ SameUsers /\ NobodyComes
      BY <1>3, NobodyChanged
    <2>2. \A n \in DOMAIN users' : users'[n].is_logged_in => users'[n].socket_fd \in connected'
      BY <1>1, <1>3 DEF SessionHasConnection
    <2>3. QED
      BY <1>1, <2>1, <2>2, SessionsGoOn DEF OtherStep, StaysKept
  <1>4. QED
    BY <1>2, <1>3 DEF drop_client

(* Whoever signs in does so on a connection that has no session yet.        *)
LEMMA SignedIn ==
    ASSUME UsersInv, SessionHasConnection,
           NEW name \in Usernames, NEW pw, NEW fd \in Fds, sign_in(name, pw, fd)
    PROVE  OtherStep /\ UNCHANGED connected /\ SessionHasConnection'
  <1>1. CASE refuse
    BY <1>1, NothingDone, NobodyChanged, SessionsServed DEF refuse, fail
  <1>2. CASE /\ \E t \in Tokens : login(name, fd, t)
             /\ succeed /\ UNCHANGED <<rooms, today_date, ledger>>
    <2>1. PICK t \in Tokens : login(name, fd, t)
      BY <1>2
    <2>2. /\ fd \in connected
          /\ ~\E n \in DOMAIN users : users[n].is_logged_in /\ users[n].socket_fd = fd
      BY DEF sign_in
    <2>3. \A n \in DOMAIN users : users[n] \in UserData
      BY DEF UsersInv, UserInv, UserTypeOK
    <2>4. /\ name \in DOMAIN users /\ DOMAIN users' = DOMAIN users
          /\ \A n \in DOMAIN users \ {name} : users'[n] = users[n]
          /\ users'[name].id = users[name].id
          /\ users'[name].privilege = users[name].privilege
          /\ users'[name].socket_fd = fd
      BY <2>1, <2>3 DEF login, username_exist, UserData
    <2>5. UserInv'
      BY <2>1, LoginInv DEF UsersInv
    <2>6. UsersInv' /\ SameUsers
      BY <2>4, <2>5 DEF UsersInv, IdsAreGuests, SameUsers
    <2>7. SessionHasConnection'
      BY <1>2, <2>2, <2>4 DEF SessionHasConnection, succeed
    <2>8. QED
      BY <1>2, <2>6, <2>7 DEF OtherStep, StaysKept, succeed
  <1>3. QED
    BY <1>1, <1>2 DEF sign_in

-----------------------------------------------------------------------------
(* Every step of the server.                                                *)

(* What it does to the hotel is what HotelManager allows: whoever books,    *)
(* cancels or leaves is one of the guests.                                  *)
LEMMA HotelPart ==
    ASSUME UsersInv, [ServerNext]_serverVars
    PROVE  [HotelNext]_hotelVars
  <1>1. ASSUME UNCHANGED <<rooms, today_date>> PROVE [HotelNext]_hotelVars
    BY <1>1 DEF hotelVars
  <1>2. ASSUME refuse PROVE [HotelNext]_hotelVars
    BY <1>1, <1>2 DEF refuse
  <1>3. ASSUME NEW t, is_guest(t) PROVE get_id(t) \in Guests
    <2>1. sessions(t) # {}
      BY <1>3 DEF is_guest, get_role
    <2>2. QED
      BY <2>1, SenderTyped
  <1>4. CASE HotelRequest
    <2>1. PICK t \in AnyToken, r \in RoomNumbers :
              \/ \E n \in BedCounts, i, o \in Days : book_a_room(t, r, n, i, o)
              \/ \E n \in BedCounts : cancel_a_room(t, r, n)
              \/ leave_room(t, r)
              \/ empty_room(t, r)
              \/ \E c \in Capacities, p \in Prices : add_a_room(t, r, c, p)
              \/ \E c \in Capacities, p \in Prices : modify_a_room(t, r, c, p)
              \/ remove_a_room(t, r)
      BY <1>4 DEF HotelRequest
    <2>2. ASSUME NEW n \in BedCounts, NEW i \in Days, NEW o \in Days,
                 book_a_room(t, r, n, i, o)
          PROVE  [HotelNext]_hotelVars
      BY <1>2, <1>3, <2>2 DEF book_a_room, HotelNext
    <2>3. ASSUME NEW n \in BedCounts, cancel_a_room(t, r, n)
          PROVE  [HotelNext]_hotelVars
      BY <1>2, <1>3, <2>3 DEF cancel_a_room, HotelNext
    <2>4. CASE leave_room(t, r)
      BY <1>2, <1>3, <2>4 DEF leave_room, HotelNext
    <2>5. CASE empty_room(t, r)
      BY <1>2, <2>5 DEF empty_room, HotelNext
    <2>6. ASSUME NEW c \in Capacities, NEW p \in Prices, add_a_room(t, r, c, p)
          PROVE  [HotelNext]_hotelVars
      BY <1>2, <2>6 DEF add_a_room, HotelNext
    <2>7. ASSUME NEW c \in Capacities, NEW p \in Prices, modify_a_room(t, r, c, p)
          PROVE  [HotelNext]_hotelVars
      BY <1>2, <2>7 DEF modify_a_room, HotelNext
    <2>8. CASE remove_a_room(t, r)
      BY <1>2, <2>8 DEF remove_a_room, HotelNext
    <2>9. QED
      BY <2>1, <2>2, <2>3, <2>4, <2>5, <2>6, <2>7, <2>8
  <1>5. CASE UserRequest
    BY <1>1, <1>5 DEF UserRequest, sign_up, refuse, is_uname_available, log_out,
                      edit_user_info, view
  <1>6. ASSUME NEW t \in AnyToken, NEW d \in DaySteps, pass_days(t, d)
        PROVE  [HotelNext]_hotelVars
    BY <1>2, <1>6 DEF pass_days, HotelNext
  <1>7. ASSUME NEW fd \in Fds, accept_client(fd) \/ drop_client(fd)
        PROVE  [HotelNext]_hotelVars
    BY <1>1, <1>7 DEF accept_client, drop_client
  <1>8. ASSUME NEW n, NEW pw, NEW fd, sign_in(n, pw, fd)
        PROVE  [HotelNext]_hotelVars
    BY <1>1, <1>8 DEF sign_in, refuse
  <1>9. ASSUME NEW d \in Days, restart(d) PROVE [HotelNext]_hotelVars
    BY <1>9 DEF restart, HotelNext
  <1>10. CASE UNCHANGED serverVars
    BY <1>1, <1>10 DEF serverVars
  <1>11. QED
    BY <1>4, <1>5, <1>6, <1>7, <1>8, <1>9, <1>10 DEF ServerNext, ServerStep

(* A step books for somebody, cancels for somebody, or leaves the stays and *)
(* the accounts as they are; no session outlives its connection.            *)
LEMMA ServerKinds ==
    ASSUME HotelInv, UsersInv, SessionHasConnection, [ServerNext]_serverVars
    PROVE  /\ SessionHasConnection'
           /\ \/ OtherStep
              \/ \E t \in AnyToken, r \in RoomNumbers, n \in BedCounts, i, o \in Days :
                     GrantedBooking(t, r, n, i, o)
              \/ \E t \in AnyToken, r \in RoomNumbers, n \in BedCounts :
                     GrantedCancellation(t, r, n)
  <1>1. CASE HotelRequest
    <2>1. UNCHANGED connected
      BY <1>1, HotelRequestKinds
    <2>2. NobodyComes
      <3>1. ASSUME NEW t, NEW r \in RoomNumbers, NEW n \in BedCounts,
                   NEW i \in Days, NEW o \in Days, GrantedBooking(t, r, n, i, o)
            PROVE  NobodyComes
        BY <3>1, Booked DEF GrantedBooking
      <3>2. ASSUME NEW t, NEW r \in RoomNumbers, NEW n \in BedCounts,
                   GrantedCancellation(t, r, n)
            PROVE  NobodyComes
        BY <3>2, Cancelled DEF GrantedCancellation
      <3>3. QED
        BY <1>1, <3>1, <3>2, HotelRequestKinds
    <2>3. QED
      BY <1>1, <2>1, <2>2, HotelRequestKinds, SessionsServed
  <1>2. CASE UserRequest
    BY <1>2, UserRequestKinds, SessionsServed
  <1>3. ASSUME NEW t \in AnyToken, NEW d \in DaySteps, pass_days(t, d)
        PROVE  OtherStep /\ SessionHasConnection'
    BY <1>3, PassDaysKind, SessionsServed
  <1>4. ASSUME NEW fd \in Fds, accept_client(fd)
        PROVE  OtherStep /\ SessionHasConnection'
    <2>1. UNCHANGED <<rooms, users, ledger>> /\ connected \subseteq connected'
      BY <1>4 DEF accept_client
    <2>2. SessionHasConnection'
      BY <2>1 DEF SessionHasConnection
    <2>3. QED
      BY <2>1, <2>2, NothingDone
  <1>5. ASSUME NEW fd \in Fds, drop_client(fd)
        PROVE  OtherStep /\ SessionHasConnection'
    BY <1>5, ConnectionDropped
  <1>6. ASSUME NEW n \in Usernames, NEW pw, NEW fd \in Fds, sign_in(n, pw, fd)
        PROVE  OtherStep /\ SessionHasConnection'
    BY <1>6, SignedIn
  <1>7. ASSUME NEW d \in Days, restart(d)
        PROVE  OtherStep /\ SessionHasConnection'
    <2>1. UsersInv' /\ SameUsers
      BY <1>7, UsersRestarted DEF restart
    <2>2. \A n \in DOMAIN users' : ~users'[n].is_logged_in
      BY <1>7 DEF restart, restart_users, UsersInv, UserInv, UserTypeOK, UserData
    <2>3. SessionHasConnection'
      BY <2>2 DEF SessionHasConnection
    <2>4. QED
      BY <1>7, <2>1, <2>3, DateKeepsStays DEF OtherStep, restart
  <1>8. CASE UNCHANGED serverVars
    BY <1>8, NothingDone, NobodyChanged, SessionsServed DEF serverVars
  <1>9. QED
    BY <1>1, <1>2, <1>3, <1>4, <1>5, <1>6, <1>7, <1>8 DEF ServerNext, ServerStep

(* Answers are of the three kinds, and only connections are connected.      *)
LEMMA AnswersTyped ==
    ASSUME connected \subseteq Fds, answer \in {"none", "success", "error"},
           [ServerNext]_serverVars
    PROVE  connected' \subseteq Fds /\ answer' \in {"none", "success", "error"}
  <1> DEFINE Typed == connected' \subseteq Fds /\ answer' \in {"none", "success", "error"}
  <1>1. ASSUME succeed \/ fail \/ refuse PROVE Typed
    BY <1>1 DEF succeed, fail, refuse
  <1>2. CASE HotelRequest
    BY <1>1, <1>2 DEF HotelRequest, book_a_room, cancel_a_room, leave_room, empty_room,
                      add_a_room, modify_a_room, remove_a_room
  <1>3. CASE UserRequest
    <2>1. ASSUME NEW granted, view(granted) PROVE Typed
      BY <2>1 DEF view
    <2>2. ASSUME NEW n, is_uname_available(n) PROVE Typed
      BY <2>2 DEF is_uname_available
    <2>3. QED
      BY <1>1, <1>3, <2>1, <2>2 DEF UserRequest, sign_up, log_out, edit_user_info
  <1>4. ASSUME NEW t, NEW d, pass_days(t, d) PROVE Typed
    BY <1>1, <1>4 DEF pass_days
  <1>5. ASSUME NEW fd \in Fds, accept_client(fd) \/ drop_client(fd) PROVE Typed
    BY <1>5 DEF accept_client, drop_client
  <1>6. ASSUME NEW n, NEW pw, NEW fd, sign_in(n, pw, fd) PROVE Typed
    BY <1>1, <1>6 DEF sign_in
  <1>7. ASSUME NEW d, restart(d) PROVE Typed
    BY <1>7 DEF restart
  <1>8. CASE UNCHANGED serverVars
    BY <1>8 DEF serverVars
  <1>9. QED
    BY <1>2, <1>3, <1>4, <1>5, <1>6, <1>7, <1>8 DEF ServerNext, ServerStep

-----------------------------------------------------------------------------
(* What a booking and a cancellation do to the stays.                       *)

(* The new reservation is the only one that is new.                         *)
LEMMA BookingStays ==
    ASSUME HotelInv, NEW g, NEW r \in DOMAIN rooms, NEW n, NEW i, NEW o,
           NEW order, book(r, order, g, n, i, o)
    PROVE  \A s \in DOMAIN rooms' : \A u \in rooms'[s].users :
               /\ s \in DOMAIN rooms
               /\ \/ u \in rooms[s].users
                  \/ s = r /\ u = [id |-> g, number_of_reservation |-> n,
                                   reserve_date |-> i, checkout_date |-> o]
  <1> DEFINE new == [id |-> g, number_of_reservation |-> n,
                     reserve_date |-> i, checkout_date |-> o]
             booked == [rooms EXCEPT ![r] = add_reservation(@, g, n, i, o)]
  <1>1. \A s \in DOMAIN rooms : rooms[s] \in Room
    BY DEF HotelInv, SoundRoom, BookedRoom
  <1>2. rooms' = booked \/ rooms' = update_date(booked, today_date)
    BY DEF book
  <1>3. add_reservation(rooms[r], g, n, i, o).users = rooms[r].users \cup {new}
    BY <1>1 DEF add_reservation, Room
  <1>4. /\ DOMAIN booked = DOMAIN rooms
        /\ \A s \in DOMAIN rooms \ {r} : booked[s] = rooms[s]
        /\ booked[r].users = rooms[r].users \cup {new}
    BY <1>3
  <1>5. /\ refresh(booked[r], today_date).users \subseteq booked[r].users
        /\ \A s \in DOMAIN rooms \ {r} :
               refresh(booked[s], today_date).users \subseteq booked[s].users
    BY <1>1, <1>4 DEF refresh, add_reservation, Room
  <1>6. /\ DOMAIN rooms' = DOMAIN booked
        /\ \A s \in DOMAIN booked : rooms'[s].users \subseteq booked[s].users
    <2> HIDE DEF booked
    <2>1. QED
      BY <1>2, <1>4, <1>5 DEF update_date
  <1> HIDE DEF booked
  <1>7. QED
    BY <1>4, <1>6

(* Cancelling takes the guest's reservation out and may put a smaller one   *)
(* of the same stay in its place.                                           *)
LEMMA CancellationStays ==
    ASSUME HotelInv, NEW g, NEW r \in DOMAIN rooms, NEW n,
           NEW old \in rooms[r].users, old = get_user_reservation(rooms[r], g),
           cancel_reservation(r, g, n)
    PROVE  \A s \in DOMAIN rooms' : \A u \in rooms'[s].users :
               /\ s \in DOMAIN rooms
               /\ \/ u \in rooms[s].users /\ ~(s = r /\ u = old)
                  \/ /\ s = r /\ n # old.number_of_reservation
                     /\ u = [old EXCEPT !.number_of_reservation = @ - n]
  <1>1. rooms[r] \in Room
    BY DEF HotelInv, SoundRoom, BookedRoom
  <1>2. rooms' = [rooms EXCEPT ![r] = cancel_beds(@, g, n)]
    BY DEF cancel_reservation
  <1>3. cancel_beds(rooms[r], g, n).users =
            (rooms[r].users \ {old})
                \cup (IF n = old.number_of_reservation THEN {}
                      ELSE {[old EXCEPT !.number_of_reservation = @ - n]})
    BY <1>1 DEF cancel_beds, Room
  <1>4. QED
    BY <1>2, <1>3

-----------------------------------------------------------------------------
(* The invariant of the server.                                            *)

(* Every reservation is some guest's. *)
Owned ==
    \A r \in DOMAIN rooms : \A u \in rooms[r].users :
        \E n \in DOMAIN users : ~users[n].privilege /\ users[n].id = u.id

AccountsTyped ==
    /\ connected \subseteq Fds /\ answer \in {"none", "success", "error"}
    /\ ledger \in [Accounts -> [spent : Int, refunded : Int]]

ServerInv == HotelInv /\ UsersInv /\ SessionHasConnection /\ Owned /\ AccountsTyped

(* The sender of a booking or a cancellation is a guest.                    *)
LEMMA SenderIsGuest ==
    ASSUME NEW t, is_guest(t)
    PROVE  \E n \in DOMAIN users : ~users[n].privilege /\ users[n].id = get_id(t)
  <1>1. sessions(t) # {} /\ ~users[search_by_token(t)].privilege
    BY DEF is_guest, get_role
  <1>2. QED
    BY <1>1, TokenFound DEF get_id

(* The invariant holds when both files have been read.                      *)
LEMMA ServerInitInv == ServerInit => ServerInv
  <1> SUFFICES ASSUME ServerInit PROVE ServerInv
    OBVIOUS
  <1>1. HotelInv /\ UserInv
    BY HotelInitInv, UserInitInv DEF ServerInit
  <1>2. \A r \in DOMAIN rooms : rooms[r].users = {}
    <2>1. PICK S \in SUBSET RoomNumbers :
              rooms \in [S -> {new_room(c, p) : c \in Capacities, p \in Prices}]
      BY DEF ServerInit, HotelInit
    <2>2. \A c \in Capacities, p \in Prices : new_room(c, p).users = {}
      BY DEF new_room
    <2>3. QED
      BY <2>1, <2>2
  <1>3. \A n \in DOMAIN users : users[n].id \in Ids /\ ~users[n].is_logged_in
    BY DEF ServerInit, UserInit
  <1>4. UsersInv
    BY <1>1, <1>3, ServerAssumption DEF UsersInv, IdsAreGuests
  <1>5. SessionHasConnection
    BY <1>3 DEF SessionHasConnection
  <1>6. Owned
    BY <1>2 DEF Owned
  <1>7. AccountsTyped
    BY DEF ServerInit, AccountsTyped
  <1>8. QED
    BY <1>1, <1>4, <1>5, <1>6, <1>7 DEF ServerInv

(* A booking keeps it: the newcomer is the sender's.                        *)
LEMMA BookingInv ==
    ASSUME ServerInv, NEW t, NEW r \in RoomNumbers, NEW n \in BedCounts,
           NEW i \in Days, NEW o \in Days, GrantedBooking(t, r, n, i, o)
    PROVE  UsersInv' /\ Owned' /\ ledger' \in [Accounts -> [spent : Int, refunded : Int]]
  <1>1. /\ get_id(t) \in Guests /\ r \in DOMAIN rooms
        /\ UsersInv' /\ SameUsers
        /\ get_total_price(r, n, i, o) \in Int
        /\ ledger' = [ledger EXCEPT ![<<get_id(t), r>>].spent =
                          @ + get_total_price(r, n, i, o)]
    BY Booked DEF GrantedBooking, ServerInv
  <1>2. \A s \in DOMAIN rooms' : \A u \in rooms'[s].users :
            s \in DOMAIN rooms /\ (u \in rooms[s].users \/ u.id = get_id(t))
    BY <1>1, BookingStays DEF GrantedBooking, ServerInv
  <1>3. \E m \in DOMAIN users : ~users[m].privilege /\ users[m].id = get_id(t)
    BY SenderIsGuest DEF GrantedBooking
  <1>4. Owned'
    BY <1>1, <1>2, <1>3 DEF Owned, SameUsers, ServerInv
  <1>5. <<get_id(t), r>> \in Accounts
    BY <1>1 DEF Accounts
  <1>6. ledger' \in [Accounts -> [spent : Int, refunded : Int]]
    BY <1>1, <1>5 DEF ServerInv, AccountsTyped
  <1>7. QED
    BY <1>1, <1>4, <1>6

(* So does a cancellation: what is left of a reservation is still the       *)
(* guest's.                                                                 *)
LEMMA CancellationInv ==
    ASSUME ServerInv, NEW t, NEW r \in RoomNumbers, NEW n \in BedCounts,
           GrantedCancellation(t, r, n)
    PROVE  UsersInv' /\ Owned' /\ ledger' \in [Accounts -> [spent : Int, refunded : Int]]
  <1> DEFINE u == get_user_reservation(rooms[r], get_id(t))
             refund == half(get_total_price(r, n, u.reserve_date, u.checkout_date))
  <1>1. /\ get_id(t) \in Guests /\ r \in DOMAIN rooms
        /\ u \in rooms[r].users /\ u \in RoomUser
        /\ UsersInv' /\ SameUsers
        /\ ledger' = [ledger EXCEPT ![<<get_id(t), r>>].refunded = @ + refund]
    BY Cancelled DEF GrantedCancellation, ServerInv
  <1>2. refund \in Int
    <2>1. u.reserve_date \in Days /\ u.checkout_date \in Days
      BY <1>1 DEF RoomUser
    <2>2. u.reserve_date \in Int /\ u.checkout_date \in Int
      BY <2>1, DaysAreInts
    <2>3. n \in Int
      BY HotelAssumption
    <2>4. QED
      BY <1>1, <2>2, <2>3, PriceTyped DEF ServerInv
  <1> HIDE DEF refund
  <1>3. \A s \in DOMAIN rooms' : \A v \in rooms'[s].users :
            /\ s \in DOMAIN rooms
            /\ \/ v \in rooms[s].users
               \/ s = r /\ v = [u EXCEPT !.number_of_reservation = @ - n]
    <2> HIDE DEF u
    <2>1. u = get_user_reservation(rooms[r], get_id(t)) /\ cancel_reservation(r, get_id(t), n)
      BY DEF u, GrantedCancellation
    <2>2. QED
      BY <1>1, <2>1, CancellationStays DEF ServerInv
  <1>4. [u EXCEPT !.number_of_reservation = @ - n].id = u.id
    <2> HIDE DEF u
    <2>1. QED
      BY <1>1 DEF RoomUser
  <1>5. \A s \in DOMAIN rooms' : \A v \in rooms'[s].users :
            s \in DOMAIN rooms /\ \E w \in rooms[s].users : v.id = w.id
    <2> DEFINE rest == [u EXCEPT !.number_of_reservation = @ - n]
    <2>1. rest.id = u.id
      BY <1>4
    <2> HIDE DEF u, rest
    <2>2. SUFFICES ASSUME NEW s \in DOMAIN rooms', NEW v \in rooms'[s].users
                   PROVE  s \in DOMAIN rooms /\ \E w \in rooms[s].users : v.id = w.id
      OBVIOUS
    <2>3. s \in DOMAIN rooms /\ (v \in rooms[s].users \/ (s = r /\ v = rest))
      BY <1>3 DEF rest
    <2>4. QED
      BY <1>1, <2>1, <2>3
  <1> HIDE DEF u
  <1>6. Owned'
    <2>1. SUFFICES ASSUME NEW s \in DOMAIN rooms', NEW v \in rooms'[s].users
                   PROVE  \E m \in DOMAIN users' : /\ ~users'[m].privilege
                                                  /\ users'[m].id = v.id
      BY DEF Owned
    <2>2. PICK w \in rooms[s].users : s \in DOMAIN rooms /\ v.id = w.id
      BY <1>5
    <2>3. PICK m \in DOMAIN users : ~users[m].privilege /\ users[m].id = w.id
      BY <2>2 DEF Owned, ServerInv
    <2>4. QED
      BY <1>1, <2>2, <2>3 DEF SameUsers
  <1>7. <<get_id(t), r>> \in Accounts
    BY <1>1 DEF Accounts
  <1>8. ledger' \in [Accounts -> [spent : Int, refunded : Int]]
    BY <1>1, <1>2, <1>7 DEF ServerInv, AccountsTyped
  <1>9. QED
    BY <1>1, <1>6, <1>8

(* Every step keeps it.                                                     *)
LEMMA ServerStepInv == ServerInv /\ [ServerNext]_serverVars => ServerInv'
  <1> SUFFICES ASSUME ServerInv, [ServerNext]_serverVars PROVE ServerInv'
    OBVIOUS
  <1>1. HotelInv'
    BY HotelPart, HotelStepInv DEF ServerInv
  <1>2. SessionHasConnection'
    BY ServerKinds DEF ServerInv
  <1>3. connected' \subseteq Fds /\ answer' \in {"none", "success", "error"}
    BY AnswersTyped DEF ServerInv, AccountsTyped
  <1>4. CASE OtherStep
    <2>1. UsersInv' /\ ledger' = ledger
      BY <1>4 DEF OtherStep
    <2>2. Owned'
      BY <1>4 DEF OtherStep, StaysKept, SameUsers, Owned, ServerInv
    <2>3. QED
      BY <1>1, <1>2, <1>3, <2>1, <2>2 DEF ServerInv, AccountsTyped
  <1>5. ASSUME NEW t \in AnyToken, NEW r \in RoomNumbers, NEW n \in BedCounts,
               NEW i \in Days, NEW o \in Days, GrantedBooking(t, r, n, i, o)
        PROVE  ServerInv'
    BY <1>1, <1>2, <1>3, <1>5, BookingInv DEF ServerInv, AccountsTyped
  <1>6. ASSUME NEW t \in AnyToken, NEW r \in RoomNumbers, NEW n \in BedCounts,
               GrantedCancellation(t, r, n)
        PROVE  ServerInv'
    BY <1>1, <1>2, <1>3, <1>6, CancellationInv DEF ServerInv, AccountsTyped
  <1>7. QED
    BY <1>4, <1>5, <1>6, ServerKinds DEF ServerInv

-----------------------------------------------------------------------------
(* What is saved, and read again.                                           *)

(* Users as save writes them: distinct, able to book, and in no session. *)
SavedUsers(us) ==
    /\ DOMAIN us \subseteq Usernames
    /\ us \in [DOMAIN us -> UserData]
    /\ \A m, n \in DOMAIN us : us[m].id = us[n].id => m = n
    /\ \A n \in DOMAIN us : us[n].id \in Guests
    /\ \A n \in DOMAIN us : ~us[n].is_logged_in /\ us[n].token = Blank

(* Rooms as save writes them, sound on some day or other. *)
SavedRooms(rs) ==
    /\ DOMAIN rs \subseteq RoomNumbers
    /\ rs = [r \in DOMAIN rs |-> rs[r]]
    /\ \A r \in DOMAIN rs : BookedRoom(rs[r])

(* All of these users are among those, under their ids and in their roles. *)
Among(us, vs) ==
    /\ DOMAIN us \subseteq DOMAIN vs
    /\ \A n \in DOMAIN us : vs[n].id = us[n].id /\ vs[n].privilege = us[n].privilege

OwnedBy(rs, us) ==
    \A r \in DOMAIN rs : \A u \in rs[r].users :
        \E n \in DOMAIN us : ~us[n].privilege /\ us[n].id = u.id

(* Users read from a file are in order ...                                  *)
LEMMA UsersRead ==
    ASSUME SavedUsers(users)
    PROVE  UsersInv
  BY DEF SavedUsers, UsersInv, UserInv, UserTypeOK, SessionPerToken, DistinctIds,
         IdsAreGuests

(* ... and those that are written are the users of the moment, without their*)
(* sessions.                                                                *)
LEMMA UsersWritten ==
    ASSUME UsersInv, NEW us,
           us = [n \in DOMAIN users |-> [logged_out(users[n]) EXCEPT !.socket_fd = NoFd]]
    PROVE  SavedUsers(us) /\ Among(users, us) /\ Among(us, users)
  <1>1. \A n \in DOMAIN users : users[n] \in UserData
    BY DEF UsersInv, UserInv, UserTypeOK
  <1>2. \A n \in DOMAIN users :
            /\ us[n] \in UserData
            /\ us[n].id = users[n].id /\ us[n].privilege = users[n].privilege
            /\ ~us[n].is_logged_in /\ us[n].token = Blank
    BY <1>1 DEF logged_out, UserData
  <1>3. DOMAIN us = DOMAIN users /\ us \in [DOMAIN us -> UserData]
    BY <1>2
  <1>4. SavedUsers(us)
    BY <1>2, <1>3 DEF SavedUsers, UsersInv, UserInv, UserTypeOK, DistinctIds, IdsAreGuests
  <1>5. QED
    BY <1>2, <1>3, <1>4 DEF Among

(* More users own no less.                                                  *)
LEMMA StillOwned ==
    ASSUME NEW rs, NEW us, NEW vs, OwnedBy(rs, us), Among(us, vs)
    PROVE  OwnedBy(rs, vs)
  BY DEF OwnedBy, Among

(* No step makes anybody disappear.                                         *)
LEMMA ServedSameUsers ==
    ASSUME ServerInv, [ServerNext]_serverVars
    PROVE  SameUsers
  <1>1. ASSUME NEW t \in AnyToken, NEW r \in RoomNumbers, NEW n \in BedCounts,
               NEW i \in Days, NEW o \in Days, GrantedBooking(t, r, n, i, o)
        PROVE  SameUsers
    BY <1>1, Booked DEF GrantedBooking, ServerInv
  <1>2. ASSUME NEW t \in AnyToken, NEW r \in RoomNumbers, NEW n \in BedCounts,
               GrantedCancellation(t, r, n)
        PROVE  SameUsers
    BY <1>2, Cancelled DEF GrantedCancellation, ServerInv
  <1>3. QED
    BY <1>1, <1>2, ServerKinds DEF ServerInv, OtherStep

(* The books of a server in order can be saved.                             *)
LEMMA RoomsWritten ==
    ASSUME HotelInv
    PROVE  SavedRooms(rooms)
  BY DEF HotelInv, SoundRoom, SavedRooms

(* Whatever the day, saved rooms are refreshed to sound ones, in which      *)
(* nobody stays who was not in the file, and nothing else has changed.      *)
LEMMA RoomsRead ==
    ASSUME NEW rs, SavedRooms(rs), NEW day \in Days,
           today_date' = day, rooms' = update_date(rs, day)
    PROVE  /\ HotelInv' /\ DOMAIN rooms' = DOMAIN rs
           /\ \A r \in DOMAIN rs : /\ rooms'[r].users \subseteq rs[r].users
                                   /\ rooms'[r].price_per_bed = rs[r].price_per_bed
  <1>1. rooms' = [r \in DOMAIN rs |-> refresh(rs[r], day)]
    BY DEF update_date
  <1>2. \A r \in DOMAIN rs : SoundRoom(refresh(rs[r], day), day)
    BY RefreshSound DEF SavedRooms
  <1>3. HotelInv'
    BY <1>1, <1>2 DEF HotelInv, SavedRooms
  <1>4. \A r \in DOMAIN rs :
            /\ refresh(rs[r], day).users \subseteq rs[r].users
            /\ refresh(rs[r], day).price_per_bed = rs[r].price_per_bed
    BY DEF SavedRooms, BookedRoom, refresh, Room
  <1>5. QED
    BY <1>1, <1>3, <1>4

-----------------------------------------------------------------------------
(* The theorems.                                                           *)

(* What is known of the server in every reachable state.                    *)
THEOREM ServerInvariance == ServerSpec => []ServerInv
  <1>1. QED
    BY ServerInitInv, ServerStepInv, PTL DEF ServerSpec

(* The server keeps its types under every request of every client.          *)
THEOREM ServerTypeCorrect == ServerSpec => []ServerTypeOK
  <1>1. ServerInv => ServerTypeOK
    BY DEF ServerInv, HotelInv, SoundRoom, BookedRoom, HotelTypeOK, UsersInv, UserInv,
           AccountsTyped, ServerTypeOK
  <1>2. QED
    BY <1>1, ServerInvariance, PTL

(* A session ends with its connection, and no connection has two.           *)
THEOREM ServerSessionHasConnection == ServerSpec => []SessionHasConnection
  <1>1. ServerInv => SessionHasConnection
    BY DEF ServerInv
  <1>2. QED
    BY <1>1, ServerInvariance, PTL

(* Every reservation belongs to just one user, and no administrator.        *)
THEOREM ServerOneOwner == ServerSpec => []ReservationsHaveOneOwner
  <1>1. ServerInv => ReservationsHaveOneOwner
    BY DEF ServerInv, UsersInv, UserInv, DistinctIds, Owned, ReservationsHaveOneOwner
  <1>2. QED
    BY <1>1, ServerInvariance, PTL
=============================================================================
