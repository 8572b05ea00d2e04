------------------------- MODULE HotelSystemProofs --------------------------
(***************************************************************************)
(* Proofs about HotelSystem, for every number of clients, users, tokens,    *)
(* descriptors and rooms.  What a client's program, the message on its      *)
(* connection and the connection itself have to do with one another is said *)
(* of the three values (Control), and so is what they have to do with the   *)
(* users of the server (Agreement).                                         *)
(***************************************************************************)
EXTENDS HotelSystem, ServerMoneyProofs

Answers == {"success", "error"}

(* The calls that are made before signing in, and after it.                 *)
GuestCalls == {"free_username", "sign_up", "sign_in"}
MemberCalls == {"recover", "logout", "profile", "reservations", "user_info", "rooms",
                "other"}

(* The messages of the calls of kind "other". *)
OtherRequest(p, w) ==
    \/ w = Cli!decode!get_users(p.token)
    \/ \E r \in RoomNumbers, n \in BedCounts :
           \/ \E i, o \in Days : w = Cli!decode!book_room(p.token, r, n, i, o)
           \/ w = Cli!decode!cancel_booking(p.token, r, n)
    \/ \E d \in DaySteps : w = Cli!decode!passing_time(p.token, d)
    \/ \E pw \in NewPasswords \cup {Blank}, ph \in Phones \cup {Blank},
          a \in Addresses \cup {Blank} :
           w = Cli!decode!edit_information(p.token, pw, ph, a)
    \/ \E r \in RoomNumbers :
           \/ ~p.privilege_access /\ w = Cli!decode!leave_room(p.token, r)
           \/ p.privilege_access /\ w = Cli!decode!empty_room(p.token, r)
           \/ p.privilege_access /\ w = Cli!decode!remove_room(p.token, r)
           \/ /\ p.privilege_access
              /\ \E n \in Capacities, b \in Prices :
                     \/ w = Cli!decode!add_room(p.token, r, n, b)
                     \/ w = Cli!decode!modify_room(p.token, r, n, b)

(* A request on its way is that of the call the program waits for, with     *)
(* what the program remembers.                                              *)
Asked(p, w) ==
    \/ /\ p.call \in {"sign_in", "recover"}
       /\ w = Cli!decode!sign_in(p.username, p.password)
    \/ /\ p.call = "free_username"
       /\ w = Cli!decode!check_username_is_free(p.username)
    \/ /\ p.call = "sign_up"
       /\ \E pw \in Passwords, b \in Balances, ph \in Phones, a \in Addresses :
              w = Cli!decode!sign_up(p.username, pw, b, ph, a)
    \/ p.call = "logout" /\ w = Cli!decode!logout(p.token)
    \/ p.call \in {"user_info", "profile"} /\ w = Cli!decode!get_user_info(p.token)
    \/ p.call = "reservations" /\ w = Cli!decode!get_reservations(p.token)
    \/ p.call = "rooms" /\ w = Cli!decode!get_rooms_info(p.token)
    \/ p.call = "other" /\ OtherRequest(p, w)

(* Where the program stands, what it has asked and what it remembers.       *)
Standing(p) ==
    /\ p.at \in {"prompt", "enter", "poll", "drain", "connect", "recover"}
           => p.call = "none"
    /\ p.at = "form" => p.call \in {"free_username", "profile", "reservations"}
    /\ p.at = "waiting" => p.call \in GuestCalls \cup MemberCalls
    /\ p.at = "aborted" => p.call = "recover"
    /\ p.call \in MemberCalls => p.logged_in
    /\ p.call \in GuestCalls => ~p.logged_in /\ p.username \in Usernames
    /\ p.logged_in \/ p.call = "sign_in"
           => p.username \in Usernames /\ p.password \in Passwords

(* What can be on the connection.                                           *)
OnTheWire(p, w, l) ==
    /\ w.kind \in Cli!decode!RequestKinds \cup Answers \cup {"silence"}
    /\ p.at # "waiting" => w.kind = "silence"
    /\ w.kind \in Cli!decode!RequestKinds => l # NoFd /\ Asked(p, w)
    /\ p.call \in {"user_info", "profile", "rooms", "logout"} => w.kind # "error"
    /\ p.call \in {"sign_in", "recover"} /\ w.kind = "success"
           => w.token \in Tokens /\ w.privilege \in BOOLEAN

Control(p, w, l) ==
    /\ p \in Cli!Command /\ l \in Fds \cup {NoFd}
    /\ Standing(p)
    /\ OnTheWire(p, w, l)
    /\ p.at \in {"connect", "gone", "aborted"} => l = NoFd
    /\ p.logged_in /\ l # NoFd /\ ~p.is_server_up
           => p.at = "recover" \/ p.call = "recover"

(* Whether the server holds a session on the connection, and its token.     *)
Signed(p, w) ==
    \/ p.logged_in /\ p.at \notin {"connect", "recover"} /\ p.call \notin {"recover", "logout"}
    \/ p.call = "logout" /\ w.kind # "success"
    \/ p.call \in {"sign_in", "recover"} /\ w.kind = "success"

token_of(p, w) == IF p.call \in {"sign_in", "recover"} THEN w.token ELSE p.token

SessionOn(n, tk, l) ==
    /\ n \in DOMAIN users
    /\ users[n].is_logged_in /\ users[n].token = tk /\ users[n].socket_fd = l

Vacant(l) == \A n \in DOMAIN users : ~(users[n].is_logged_in /\ users[n].socket_fd = l)

(* The user's role; who is unknown, after an interrupt, can only be a guest. *)
HasRole(n, admin) ==
    /\ n \in DOMAIN users => (users[n].privilege <=> admin)
    /\ n \notin DOMAIN users => ~admin

(* The privilege is the user's, also while nobody is signed in. *)
PrivilegeAgrees(p, w) ==
    /\ p.logged_in => HasRole(p.username, p.privilege_access)
    /\ p.call = "sign_in" /\ w.kind = "success" => HasRole(p.username, w.privilege)

(* The connection is one of the server's, with the client's session on it   *)
(* or none.                                                                 *)
ConnectionAgrees(p, w, l) ==
    l # NoFd => /\ l \in connected
                /\ Signed(p, w) => SessionOn(p.username, token_of(p, w), l)
                /\ ~Signed(p, w) => Vacant(l)

Agreement(p, w, l) == PrivilegeAgrees(p, w) /\ ConnectionAgrees(p, w, l)

(* No descriptor has two clients. *)
OneEach == \A c, d \in Clients : link[c] = link[d] /\ link[c] # NoFd => c = d

SystemInv ==
    /\ ServerInv
    /\ serving \in BOOLEAN
    /\ client = [c \in Clients |-> client[c]]
    /\ wire = [c \in Clients |-> wire[c]]
    /\ link = [c \in Clients |-> link[c]]
    /\ \A c \in Clients : Control(client[c], wire[c], link[c])
    /\ \A c \in Clients : Agreement(client[c], wire[c], link[c])
    /\ OneEach

-----------------------------------------------------------------------------
(* Steps of a client.                                                       *)

(* A step of one client leaves the others as they were.                     *)
LEMMA ClientMoves ==
    ASSUME SystemInv, UNCHANGED <<serverVars, serving>>, NEW c \in Clients,
           NEW q, NEW w, NEW l \in {link[c], NoFd},
           client' = [client EXCEPT ![c] = q], wire' = [wire EXCEPT ![c] = w],
           link' = [link EXCEPT ![c] = l],
           Control(q, w, l), Agreement(q, w, l)
    PROVE  SystemInv'
  <1>1. ServerInv'
    <2>1. [ServerNext]_serverVars
      OBVIOUS
    <2>2. QED
      BY <2>1, ServerStepInv DEF SystemInv
  <1>2. /\ client = [d \in Clients |-> client[d]] /\ wire = [d \in Clients |-> wire[d]]
        /\ link = [d \in Clients |-> link[d]]
    BY DEF SystemInv
  <1>3. /\ client' = [d \in Clients |-> client'[d]] /\ wire' = [d \in Clients |-> wire'[d]]
        /\ link' = [d \in Clients |-> link'[d]]
        /\ client'[c] = q /\ wire'[c] = w /\ link'[c] = l
        /\ \A d \in Clients \ {c} : /\ client'[d] = client[d] /\ wire'[d] = wire[d]
                                    /\ link'[d] = link[d]
    BY <1>2
  <1>4. users' = users /\ connected' = connected /\ serving' = serving
    BY DEF serverVars
  <1>5. \A d \in Clients : Control(client'[d], wire'[d], link'[d])
    BY <1>3 DEF SystemInv
  <1>6. \A d \in Clients : Agreement(client'[d], wire'[d], link'[d])
    BY <1>3 DEF SystemInv
  <1>7. (\A d \in Clients : Agreement(client[d], wire[d], link[d]))'
    BY <1>4, <1>6
       DEF Agreement, PrivilegeAgrees, HasRole, ConnectionAgrees, SessionOn, Vacant
  <1>8. OneEach'
    BY <1>3 DEF SystemInv, OneEach
  <1>9. serving' \in BOOLEAN
    BY <1>4 DEF SystemInv
  <1>10. QED
    BY <1>1, <1>3, <1>5, <1>7, <1>8, <1>9 DEF SystemInv

(* No request is an answer, and silence is neither.                         *)
LEMMA KindsDiffer ==
    /\ "silence" \notin Cli!decode!RequestKinds
    /\ \A k \in Answers : k \notin Cli!decode!RequestKinds /\ k # "silence"
    /\ Cli!decode!silence.kind = "silence"
  BY DEF Cli!decode!RequestKinds, Cli!decode!silence, Answers

(* A step that only the program takes.                                      *)
LEMMA GoesOn ==
    ASSUME SystemInv, UNCHANGED <<serverVars, serving>>, NEW c \in Clients, NEW q,
           Cli!goes_on(c, q), UNCHANGED <<wire, link>>,
           Control(q, wire[c], link[c]), Agreement(q, wire[c], link[c])
    PROVE  SystemInv'
  <1>1. wire' = [wire EXCEPT ![c] = wire[c]] /\ link' = [link EXCEPT ![c] = link[c]]
    BY DEF SystemInv
  <1>2. client' = [client EXCEPT ![c] = q]
    BY DEF Cli!goes_on
  <1>3. QED
    BY <1>1, <1>2, ClientMoves

(* One that closes the connection.                                          *)
LEMMA HungUp ==
    ASSUME SystemInv, UNCHANGED <<serverVars, serving>>, NEW c \in Clients, NEW q,
           Cli!goes_on(c, q), Cli!hang_up(c),
           Control(q, Cli!decode!silence, NoFd), PrivilegeAgrees(q, Cli!decode!silence)
    PROVE  SystemInv'
  <1>1. client' = [client EXCEPT ![c] = q]
    BY DEF Cli!goes_on
  <1>2. Agreement(q, Cli!decode!silence, NoFd)
    BY DEF Agreement, ConnectionAgrees
  <1>3. QED
    BY <1>1, <1>2, ClientMoves DEF Cli!hang_up

(* One that makes a request.  A program that asks has nothing on its way;   *)
(* it recovers when it has just been connected, and only then.              *)
LEMMA Requested ==
    ASSUME SystemInv, UNCHANGED <<serverVars, serving>>, NEW c \in Clients,
           NEW p \in Cli!Command, NEW call \in GuestCalls \cup MemberCalls, NEW m,
           NEW otherwise \in {"poll", "prompt", "enter"},
           Cli!request(c, p, call, m, otherwise),
           client[c].at \in {"prompt", "form", "recover"},
           call = "recover" <=> client[c].at = "recover",
           p.logged_in = client[c].logged_in, p.token = client[c].token,
           p.privilege_access = client[c].privilege_access,
           p.is_server_up = client[c].is_server_up,
           p.logged_in => p.username = client[c].username,
           Standing([p EXCEPT !.at = "waiting", !.call = call]),
           m.kind \in Cli!decode!RequestKinds,
           Asked([p EXCEPT !.at = "waiting", !.call = call], m)
    PROVE  SystemInv'
  <1> DEFINE old == client[c]
             l == link[c]
             q == [p EXCEPT !.at = "waiting", !.call = call]
             r == [p EXCEPT !.at = otherwise, !.call = "none"]
  <1>1. Control(old, wire[c], l) /\ Agreement(old, wire[c], l)
    BY DEF SystemInv
  <1>2. /\ wire[c].kind = "silence" /\ old.call # "recover"
        /\ old.call \notin {"logout", "sign_in", "recover"}
    BY <1>1 DEF Control, OnTheWire, Standing
  <1>3. /\ q \in Cli!Command /\ q.at = "waiting" /\ q.call = call
        /\ q.username = p.username /\ q.password = p.password
        /\ q.token = p.token /\ q.logged_in = p.logged_in
        /\ q.privilege_access = p.privilege_access
        /\ q.is_server_up = p.is_server_up
    <2>1. "waiting" \in Cli!Places /\ call \in Cli!Calls
      BY DEF Cli!Places, Cli!Calls, GuestCalls, MemberCalls
    <2>2. q = [p EXCEPT !.at = "waiting", !.call = call]
      OBVIOUS
    <2> HIDE DEF q
    <2>3. QED
      BY <2>1, <2>2 DEF Cli!Command
  <1>4. /\ r \in Cli!Command /\ r.at = otherwise /\ r.call = "none"
        /\ r.username = p.username /\ r.password = p.password
        /\ r.token = p.token /\ r.logged_in = p.logged_in
        /\ r.privilege_access = p.privilege_access
        /\ r.is_server_up = p.is_server_up
    <2>1. otherwise \in Cli!Places /\ "none" \in Cli!Calls
      BY DEF Cli!Places, Cli!Calls
    <2>2. r = [p EXCEPT !.at = otherwise, !.call = "none"]
      OBVIOUS
    <2> HIDE DEF r
    <2>3. QED
      BY <2>1, <2>2 DEF Cli!Command
  <1>5. Standing(q) /\ Asked(q, m)
    OBVIOUS
  <1>6. call \in MemberCalls => p.logged_in
    BY <1>3, <1>5 DEF Standing
  <1>7. \/ l # NoFd /\ Cli!goes_on(c, q) /\ wire' = [wire EXCEPT ![c] = m]
        \/ l = NoFd /\ (Cli!goes_on(c, q) \/ Cli!goes_on(c, r)) /\ UNCHANGED wire
    BY DEF Cli!request
  <1>8. UNCHANGED link
    BY DEF Cli!request
  <1> HIDE DEF q, r
  <1>9. CASE l # NoFd /\ Cli!goes_on(c, q) /\ wire' = [wire EXCEPT ![c] = m]
    <2>1. Control(q, m, l)
      <3>1. OnTheWire(q, m, l)
        BY <1>3, <1>5, <1>9, KindsDiffer DEF OnTheWire, Answers
      <3>2. p.logged_in /\ l # NoFd /\ ~p.is_server_up => call = "recover"
        BY <1>1, <1>2 DEF Control
      <3>3. QED
        BY <1>1, <1>3, <1>5, <3>1, <3>2 DEF Control
    <2>2. m.kind \notin Answers
      BY KindsDiffer
    <2>3. PrivilegeAgrees(q, m)
      BY <1>1, <1>3, <2>2 DEF Agreement, PrivilegeAgrees, Answers
    <2>4. ConnectionAgrees(q, m, l)
      <3>1. Signed(q, m) <=> p.logged_in /\ call # "recover"
        BY <1>3, <1>6, <2>2 DEF Signed, MemberCalls, Answers
      <3>2. Signed(old, wire[c]) <=> p.logged_in /\ call # "recover"
        BY <1>2 DEF Signed
      <3>3. Signed(q, m) => /\ token_of(q, m) = token_of(old, wire[c])
                            /\ q.username = old.username
        <4>1. p.logged_in => call # "sign_in"
          BY <1>3, <1>5 DEF Standing, GuestCalls
        <4>2. QED
          BY <1>2, <1>3, <3>1, <4>1 DEF token_of
      <3>4. QED
        BY <1>1, <3>1, <3>2, <3>3 DEF Agreement, ConnectionAgrees
    <2>5. link' = [link EXCEPT ![c] = l]
      BY <1>8 DEF SystemInv
    <2>6. client' = [client EXCEPT ![c] = q]
      BY <1>9 DEF Cli!goes_on
    <2>7. QED
      BY <1>9, <2>1, <2>3, <2>4, <2>5, <2>6, ClientMoves DEF Agreement
  <1>10. CASE l = NoFd /\ (Cli!goes_on(c, q) \/ Cli!goes_on(c, r)) /\ UNCHANGED wire
    <2>1. OnTheWire(q, wire[c], l) /\ OnTheWire(r, wire[c], l)
      BY <1>2, <1>3, <1>4, KindsDiffer DEF OnTheWire, Answers
    <2>2. Standing(r)
      BY <1>3, <1>4, <1>5 DEF Standing, GuestCalls, MemberCalls
    <2>3. Control(q, wire[c], l) /\ Control(r, wire[c], l)
      BY <1>1, <1>3, <1>4, <1>5, <1>10, <2>1, <2>2 DEF Control
    <2>4. Agreement(q, wire[c], l) /\ Agreement(r, wire[c], l)
      BY <1>1, <1>2, <1>3, <1>4, <1>10 DEF Agreement, PrivilegeAgrees, ConnectionAgrees
    <2>5. QED
      BY <1>8, <1>10, <2>3, <2>4, GoesOn
  <1>11. QED
    BY <1>7, <1>9, <1>10

(* A step that takes an answer: the program then remembers a session if and *)
(* only if the answer has left one on the connection.                       *)
LEMMA Heard ==
    ASSUME SystemInv, UNCHANGED <<serverVars, serving>>, NEW c \in Clients,
           NEW call, NEW kind, NEW p, NEW q, q = [p EXCEPT !.is_server_up = TRUE],
           Cli!hear(c, call, kind, p), p.at # "aborted",
           q \in Cli!Command, q.at \in {"poll", "form", "prompt", "enter"}, q.is_server_up,
           Standing(q), q.call \notin {"sign_in", "recover", "logout"},
           q.logged_in <=> Signed(client[c], wire[c]),
           q.logged_in => /\ q.username = client[c].username
                          /\ q.token = token_of(client[c], wire[c])
                          /\ HasRole(q.username, q.privilege_access)
    PROVE  SystemInv'
  <1> DEFINE l == link[c]
             w == Cli!decode!silence
  <1>1. Control(client[c], wire[c], l) /\ Agreement(client[c], wire[c], l)
    BY DEF SystemInv
  <1>2. /\ client' = [client EXCEPT ![c] = q] /\ wire' = [wire EXCEPT ![c] = w]
        /\ link' = [link EXCEPT ![c] = l]
    BY DEF Cli!hear, Cli!goes_on
  <1>3. w.kind = "silence" /\ w.kind \notin Cli!decode!RequestKinds
    BY KindsDiffer
  <1> HIDE DEF l, w
  <1>4. Control(q, w, l)
    BY <1>1, <1>3 DEF Control, OnTheWire
  <1>5. Agreement(q, w, l)
    <2>1. PrivilegeAgrees(q, w)
      BY <1>3 DEF PrivilegeAgrees
    <2>2. Signed(q, w) <=> Signed(client[c], wire[c])
      BY DEF Signed
    <2>3. q.logged_in => token_of(q, w) = token_of(client[c], wire[c])
      BY DEF token_of
    <2>4. Signed(q, w) => q.logged_in
      BY DEF Signed
    <2>5. ConnectionAgrees(q, w, l)
      BY <1>1, <2>2, <2>3, <2>4 DEF Agreement, ConnectionAgrees
    <2>6. QED
      BY <2>1, <2>5 DEF Agreement
  <1>6. QED
    BY <1>2, <1>4, <1>5, ClientMoves DEF l

(* The answers to requests of someone who has not signed in.                *)
LEMMA GuestHears ==
    ASSUME SystemInv, UNCHANGED <<serverVars, serving>>, NEW c \in Clients,
           \/ Cli!name_is_free(c) \/ Cli!name_is_taken(c)
           \/ \E kind \in Answers :
                  Cli!hear(c, "sign_up", kind, Cli!idle(client[c]))
           \/ Cli!sign_in_refused(c)
    PROVE  SystemInv'
  <1> DEFINE old == client[c]
             form == [Cli!form(old) EXCEPT !.is_server_up = TRUE]
             idle == [Cli!idle(old) EXCEPT !.is_server_up = TRUE]
  <1>1. Control(old, wire[c], link[c])
    BY DEF SystemInv
  <1>2. /\ form \in Cli!Command /\ form.at = "form" /\ form.is_server_up
        /\ form.call = old.call /\ form.username = old.username
        /\ form.logged_in = old.logged_in /\ form.password = old.password
        /\ idle \in Cli!Command /\ idle.at \in {"poll", "enter"} /\ idle.is_server_up
        /\ idle.call = "none" /\ idle.username = old.username
        /\ idle.logged_in = old.logged_in /\ idle.password = old.password
        /\ Cli!form(old).at = "form" /\ Cli!idle(old).at \in {"poll", "enter"}
    <2>1. old \in Cli!Command
      BY <1>1 DEF Control
    <2> HIDE DEF old
    <2>2. QED
      BY <2>1 DEF Cli!form, Cli!idle, Cli!Command, Cli!Places, Cli!Calls
  <1> HIDE DEF form, idle
  <1>3. CASE Cli!name_is_free(c)
    <2>1. old.at = "waiting" /\ old.call = "free_username"
      BY <1>3 DEF Cli!name_is_free, Cli!hear
    <2>2. Standing(form) /\ ~form.logged_in /\ ~Signed(old, wire[c])
      BY <1>1, <1>2, <2>1 DEF Control, Standing, Signed, GuestCalls, MemberCalls
    <2>3. form.call \notin {"sign_in", "recover", "logout"}
      BY <1>2, <2>1
    <2>4. QED
      BY <1>2, <1>3, <2>2, <2>3, Heard DEF Cli!name_is_free, form
  <1>4. ASSUME NEW call \in {"free_username", "sign_up", "sign_in"}, NEW kind \in Answers,
               call = "sign_in" => kind = "error",
               Cli!hear(c, call, kind, Cli!idle(client[c]))
        PROVE  SystemInv'
    <2>1. old.at = "waiting" /\ old.call = call /\ wire[c].kind = kind
      BY <1>4 DEF Cli!hear
    <2>2. Standing(idle) /\ ~idle.logged_in /\ ~Signed(old, wire[c])
      BY <1>1, <1>2, <1>4, <2>1 DEF Control, Standing, Signed, GuestCalls, MemberCalls
    <2>3. QED
      BY <1>2, <1>4, <2>2, Heard DEF idle
  <1>5. QED
    BY <1>3, <1>4 DEF Cli!name_is_taken, Cli!sign_in_refused, Answers

(* The answers to requests of someone who has: an error is never what is    *)
(* said to a request for one's own data.                                    *)
LEMMA MemberHears ==
    ASSUME SystemInv, UNCHANGED <<serverVars, serving>>, NEW c \in Clients,
           \/ Cli!user_info_shown(c) \/ Cli!profile_shown(c) \/ Cli!rooms_shown(c)
           \/ Cli!reservations_shown(c) \/ Cli!no_reservations(c) \/ Cli!answered_other(c)
    PROVE  SystemInv'
  <1> DEFINE old == client[c]
             form == [Cli!form(old) EXCEPT !.is_server_up = TRUE]
             idle == [Cli!idle(old) EXCEPT !.is_server_up = TRUE]
  <1>1. Control(old, wire[c], link[c]) /\ PrivilegeAgrees(old, wire[c])
    BY DEF SystemInv, Agreement
  <1>2. /\ form \in Cli!Command /\ form.at = "form" /\ form.is_server_up
        /\ form.call = old.call /\ form.username = old.username
        /\ form.logged_in = old.logged_in /\ form.password = old.password
        /\ form.token = old.token /\ form.privilege_access = old.privilege_access
        /\ idle \in Cli!Command /\ idle.at \in {"poll", "enter"} /\ idle.is_server_up
        /\ idle.call = "none" /\ idle.username = old.username
        /\ idle.logged_in = old.logged_in /\ idle.password = old.password
        /\ idle.token = old.token /\ idle.privilege_access = old.privilege_access
        /\ Cli!form(old).at = "form" /\ Cli!idle(old).at \in {"poll", "enter"}
    <2>1. old \in Cli!Command
      BY <1>1 DEF Control
    <2> HIDE DEF old
    <2>2. QED
      BY <2>1 DEF Cli!form, Cli!idle, Cli!Command, Cli!Places, Cli!Calls
  <1> HIDE DEF form, idle
  <1>3. ASSUME NEW call \in {"profile", "reservations", "user_info", "rooms", "other"},
               old.at = "waiting", old.call = call
        PROVE  /\ old.logged_in /\ Signed(old, wire[c])
               /\ token_of(old, wire[c]) = old.token
               /\ HasRole(old.username, old.privilege_access)
    BY <1>1, <1>3 DEF Control, Standing, Signed, token_of, MemberCalls, PrivilegeAgrees
  <1>4. ASSUME NEW call \in {"profile", "reservations"}, NEW kind \in Answers,
               Cli!hear(c, call, kind, Cli!form(client[c]))
        PROVE  SystemInv'
    <2>1. old.at = "waiting" /\ old.call = call
      BY <1>4 DEF Cli!hear
    <2>2. Standing(form) /\ form.call \notin {"sign_in", "recover", "logout"}
      BY <1>1, <1>2, <2>1 DEF Control, Standing, GuestCalls, MemberCalls
    <2>3. QED
      BY <1>2, <1>3, <1>4, <2>1, <2>2, Heard DEF form
  <1>5. ASSUME NEW call \in {"reservations", "user_info", "rooms", "other"},
               NEW kind \in Answers,
               Cli!hear(c, call, kind, Cli!idle(client[c]))
        PROVE  SystemInv'
    <2>1. old.at = "waiting" /\ old.call = call
      BY <1>5 DEF Cli!hear
    <2>2. Standing(idle) /\ idle.call \notin {"sign_in", "recover", "logout"}
      BY <1>1, <1>2, <2>1 DEF Control, Standing, GuestCalls, MemberCalls
    <2>3. QED
      BY <1>2, <1>3, <1>5, <2>1, <2>2, Heard DEF idle
  <1>6. ASSUME NEW call \in {"profile", "user_info", "rooms"}, NEW p,
               Cli!hear(c, call, "error", p)
        PROVE  FALSE
    BY <1>1, <1>6 DEF Cli!hear, Control, OnTheWire
  <1>7. QED
    BY <1>4, <1>5, <1>6 DEF Cli!user_info_shown, Cli!profile_shown, Cli!rooms_shown,
                            Cli!reservations_shown, Cli!no_reservations,
                            Cli!answered_other, Answers

(* The answers that begin or end what a program takes for its session.      *)
LEMMA SessionHeard ==
    ASSUME SystemInv, UNCHANGED <<serverVars, serving>>, NEW c \in Clients,
           \/ Cli!signed_in(c) \/ Cli!logged_out(c)
           \/ Cli!recovered(c) \/ Cli!recovery_refused(c)
    PROVE  SystemInv'
  <1> DEFINE old == client[c]
             w == wire[c]
  <1>1. /\ Control(old, w, link[c]) /\ PrivilegeAgrees(old, w)
        /\ old \in Cli!Command
    BY DEF SystemInv, Agreement, Control
  <1>2. CASE Cli!signed_in(c)
    <2> DEFINE p == Cli!idle([old EXCEPT !.token = w.token, !.logged_in = TRUE,
                                         !.privilege_access = w.privilege])
               q == [p EXCEPT !.is_server_up = TRUE]
    <2>1. /\ old.at = "waiting" /\ old.call = "sign_in" /\ w.kind = "success"
          /\ Cli!hear(c, "sign_in", "success", p)
      BY <1>2 DEF Cli!signed_in, Cli!hear
    <2>2. w.token \in Tokens /\ w.privilege \in BOOLEAN
      BY <1>1, <2>1 DEF Control, OnTheWire
    <2>3. /\ q \in Cli!Command /\ q.at \in {"poll", "enter"} /\ q.is_server_up
          /\ q.call = "none"
          /\ q.username = old.username /\ q.password = old.password
          /\ q.logged_in /\ q.token = w.token /\ q.privilege_access = w.privilege
          /\ p.at \in {"poll", "enter"}
      <3> HIDE DEF old, w
      <3>1. QED
        BY <1>1, <2>2 DEF Cli!idle, Cli!Command, Cli!Places, Cli!Calls
    <2>4. q = [p EXCEPT !.is_server_up = TRUE]
      OBVIOUS
    <2> HIDE DEF p, q
    <2>5. Standing(q) /\ Signed(old, w) /\ token_of(old, w) = w.token
      BY <1>1, <2>1, <2>3 DEF Control, Standing, Signed, token_of, GuestCalls, MemberCalls
    <2>6. HasRole(old.username, w.privilege)
      BY <1>1, <2>1 DEF PrivilegeAgrees
    <2>7. QED
      BY <2>1, <2>3, <2>4, <2>5, <2>6, Heard
  <1>3. CASE Cli!logged_out(c)
    <2> DEFINE p == Cli!idle([old EXCEPT !.token = Blank, !.logged_in = FALSE,
                                         !.username = Blank])
               q == [p EXCEPT !.is_server_up = TRUE]
    <2>1. /\ old.at = "waiting" /\ old.call = "logout" /\ w.kind = "success"
          /\ Cli!hear(c, "logout", "success", p)
      BY <1>3 DEF Cli!logged_out, Cli!hear
    <2>2. /\ q \in Cli!Command /\ q.at \in {"poll", "enter"} /\ q.is_server_up
          /\ q.call = "none" /\ ~q.logged_in /\ p.at \in {"poll", "enter"}
      <3> HIDE DEF old, w
      <3>1. QED
        BY <1>1 DEF Cli!idle, Cli!Command, Cli!Places, Cli!Calls
    <2>3. q = [p EXCEPT !.is_server_up = TRUE]
      OBVIOUS
    <2> HIDE DEF p, q
    <2>4. Standing(q) /\ ~Signed(old, w)
      BY <2>1, <2>2 DEF Standing, Signed, GuestCalls, MemberCalls
    <2>5. QED
      BY <2>1, <2>2, <2>3, <2>4, Heard
  <1>4. CASE Cli!recovered(c)
    <2> DEFINE p == [old EXCEPT !.at = "prompt", !.call = "none", !.token = w.token]
               q == [p EXCEPT !.is_server_up = TRUE]
    <2>1. /\ old.at = "waiting" /\ old.call = "recover" /\ w.kind = "success"
          /\ Cli!hear(c, "recover", "success", p)
      BY <1>4 DEF Cli!recovered, Cli!hear
    <2>2. w.token \in Tokens
      BY <1>1, <2>1 DEF Control, OnTheWire
    <2>3. /\ q \in Cli!Command /\ q.at = "prompt" /\ q.is_server_up /\ q.call = "none"
          /\ q.username = old.username /\ q.password = old.password
          /\ q.logged_in = old.logged_in /\ q.token = w.token
          /\ q.privilege_access = old.privilege_access /\ p.at = "prompt"
      <3> HIDE DEF old, w
      <3>1. QED
        BY <1>1, <2>2 DEF Cli!Command, Cli!Places, Cli!Calls
    <2>4. q = [p EXCEPT !.is_server_up = TRUE]
      OBVIOUS
    <2> HIDE DEF p, q
    <2>5. /\ Standing(q) /\ Signed(old, w) /\ token_of(old, w) = w.token
          /\ old.logged_in
      BY <1>1, <2>1, <2>3 DEF Control, Standing, Signed, token_of, GuestCalls, MemberCalls
    <2>6. HasRole(old.username, old.privilege_access)
      BY <1>1, <2>5 DEF PrivilegeAgrees
    <2>7. QED
      BY <2>1, <2>3, <2>4, <2>5, <2>6, Heard
  <1>5. CASE Cli!recovery_refused(c)
    <2> DEFINE p == [old EXCEPT !.at = "prompt", !.call = "none", !.token = Blank,
                                !.logged_in = FALSE]
               q == [p EXCEPT !.is_server_up = TRUE]
    <2>1. /\ old.at = "waiting" /\ old.call = "recover" /\ w.kind = "error"
          /\ Cli!hear(c, "recover", "error", p)
      BY <1>5 DEF Cli!recovery_refused, Cli!hear
    <2>2. /\ q \in Cli!Command /\ q.at = "prompt" /\ q.is_server_up /\ q.call = "none"
          /\ ~q.logged_in /\ p.at = "prompt"
      <3> HIDE DEF old, w
      <3>1. QED
        BY <1>1 DEF Cli!Command, Cli!Places, Cli!Calls
    <2>3. q = [p EXCEPT !.is_server_up = TRUE]
      OBVIOUS
    <2> HIDE DEF p, q
    <2>4. Standing(q) /\ ~Signed(old, w)
      BY <2>1, <2>2 DEF Standing, Signed, GuestCalls, MemberCalls
    <2>5. QED
      BY <2>1, <2>2, <2>3, <2>4, Heard
  <1>6. QED
    BY <1>2, <1>3, <1>4, <1>5

(* A command that ends without an answer, or a prompt: what is remembered   *)
(* stays.                                                                   *)
LEMMA Returned ==
    ASSUME SystemInv, UNCHANGED <<serverVars, serving>>, NEW c \in Clients, NEW q,
           Cli!goes_on(c, q), UNCHANGED <<wire, link>>,
           q \in Cli!Command, q.at \in {"poll", "prompt", "drain", "enter"}, q.call = "none",
           q.username = client[c].username, q.password = client[c].password,
           q.token = client[c].token, q.logged_in = client[c].logged_in,
           q.privilege_access = client[c].privilege_access,
           wire[c].kind = "silence", client[c].at \notin {"connect", "gone"},
           client[c].at = "recover" => ~q.logged_in,
           \/ link[c] = NoFd
           \/ client[c].at # "waiting" /\ q.is_server_up = client[c].is_server_up
    PROVE  SystemInv'
  <1> DEFINE old == client[c]
             w == wire[c]
             l == link[c]
  <1>1. Control(old, w, l) /\ Agreement(old, w, l)
    BY DEF SystemInv
  <1>2. w.kind \notin Cli!decode!RequestKinds
    BY KindsDiffer
  <1> HIDE DEF old, w, l
  <1>3. Standing(q)
    BY <1>1 DEF Control, Standing, GuestCalls, MemberCalls, old
  <1>4. old.at # "waiting" /\ l # NoFd
        => old.call \notin {"recover", "logout", "sign_in"}
    BY <1>1 DEF Control, Standing, Cli!Command, Cli!Places, l
  <1>5. Control(q, w, l)
    <2>1. OnTheWire(q, w, l)
      BY <1>2 DEF OnTheWire, w
    <2>2. q.logged_in /\ l # NoFd => q.is_server_up
      BY <1>1, <1>4 DEF Control, old, l
    <2>3. QED
      BY <1>1, <1>3, <2>1, <2>2 DEF Control
  <1>6. Agreement(q, w, l)
    <2>1. PrivilegeAgrees(q, w)
      BY <1>1 DEF Agreement, PrivilegeAgrees, old, w
    <2>2. l # NoFd => (Signed(q, w) <=> Signed(old, w))
      BY <1>4 DEF Signed, old, w, l
    <2>3. l # NoFd => token_of(q, w) = token_of(old, w) /\ q.username = old.username
      BY <1>4 DEF token_of, old, w, l
    <2>4. QED
      BY <1>1, <2>1, <2>2, <2>3 DEF Agreement, ConnectionAgrees
  <1>7. QED
    BY <1>5, <1>6, GoesOn DEF w, l

(* A program that closes its connection: to make another, or for good.      *)
LEMMA Closed ==
    ASSUME SystemInv, UNCHANGED <<serverVars, serving>>, NEW c \in Clients,
           \/ Cli!quit(c)
           \/ Cli!reconnect(c) /\ client[c].at \in {"poll", "drain"}
    PROVE  SystemInv'
  <1> DEFINE old == client[c]
             left == [old EXCEPT !.at = "gone"]
             back == [old EXCEPT !.at = "connect", !.attempt = 1]
  <1>1. Control(old, wire[c], link[c]) /\ PrivilegeAgrees(old, wire[c])
    BY DEF SystemInv, Agreement
  <1>2. /\ left \in Cli!Command /\ left.at = "gone"
        /\ left.call = old.call /\ left.username = old.username
        /\ left.password = old.password /\ left.logged_in = old.logged_in
        /\ left.privilege_access = old.privilege_access
        /\ back \in Cli!Command /\ back.at = "connect"
        /\ back.call = old.call /\ back.username = old.username
        /\ back.password = old.password /\ back.logged_in = old.logged_in
        /\ back.privilege_access = old.privilege_access
    <2>1. old \in Cli!Command /\ 1 \in 1 .. MaxAttempts
      BY <1>1, SystemAssumption DEF Control
    <2> HIDE DEF old
    <2>2. QED
      BY <2>1 DEF Cli!Command, Cli!Places
  <1> HIDE DEF left, back
  <1>3. ASSUME NEW q \in {left, back}, Standing(q), Cli!goes_on(c, q), Cli!hang_up(c)
        PROVE  SystemInv'
    <2>1. OnTheWire(q, Cli!decode!silence, NoFd)
      BY <1>2, KindsDiffer DEF OnTheWire
    <2>2. Control(q, Cli!decode!silence, NoFd)
      BY <1>2, <1>3, <2>1 DEF Control
    <2>3. PrivilegeAgrees(q, Cli!decode!silence)
      BY <1>1, <1>2, KindsDiffer DEF PrivilegeAgrees
    <2>4. QED
      BY <1>3, <2>2, <2>3, HungUp
  <1>4. Standing(left)
    BY <1>1, <1>2 DEF Control, Standing, GuestCalls, MemberCalls
  <1>5. old.at \in {"poll", "drain"} => Standing(back)
    BY <1>1, <1>2 DEF Control, Standing, GuestCalls, MemberCalls
  <1>6. QED
    BY <1>3, <1>4, <1>5 DEF Cli!quit, Cli!reconnect, left, back

(* The program's steps that are no answers.                                 *)
LEMMA LostOrLooked ==
    ASSUME SystemInv, UNCHANGED <<serverVars, serving>>, NEW c \in Clients,
           \/ Cli!answer_lost(c) \/ Cli!poll(c) \/ Cli!drained(c)
           \/ Cli!local_command(c) \/ Cli!press_enter(c) \/ Cli!leave_form(c)
           \/ /\ client[c].at = "waiting" /\ client[c].call = "sign_up"
              /\ Cli!is_lost(c)
              /\ Cli!goes_on(c, [Cli!idle(client[c]) EXCEPT !.is_server_up = FALSE])
              /\ UNCHANGED <<wire, link>>
           \/ /\ client[c].at = "recover" /\ ~client[c].logged_in
              /\ Cli!goes_on(c, [client[c] EXCEPT !.at = "prompt"])
              /\ UNCHANGED <<wire, link>>
    PROVE  SystemInv'
  <1> DEFINE old == client[c]
             w == wire[c]
             l == link[c]
             idle == Cli!idle(old)
             lost == [idle EXCEPT !.is_server_up = FALSE]
             to(at) == [old EXCEPT !.at = at]
             Like(q) == /\ q \in Cli!Command
                        /\ q.username = old.username /\ q.password = old.password
                        /\ q.token = old.token /\ q.logged_in = old.logged_in
                        /\ q.privilege_access = old.privilege_access
  <1>1. Control(old, w, l)
    BY DEF SystemInv
  <1>2. /\ Like(idle) /\ idle.at \in {"poll", "enter"} /\ idle.call = "none"
        /\ idle.is_server_up = old.is_server_up
        /\ Like(lost) /\ lost.at \in {"poll", "enter"} /\ lost.call = "none"
        /\ \A at \in {"drain", "prompt", "poll", "enter"} :
              /\ Like(to(at)) /\ to(at).at = at /\ to(at).call = old.call
              /\ to(at).is_server_up = old.is_server_up
    <2>1. old \in Cli!Command
      BY <1>1 DEF Control
    <2> HIDE DEF old
    <2>2. /\ Like(idle) /\ idle.at \in {"poll", "enter"} /\ idle.call = "none"
          /\ idle.is_server_up = old.is_server_up
      <3> DEFINE place == IF old.call \in {"free_username", "sign_up", "sign_in"}
                          THEN "poll" ELSE "enter"
      <3>1. place \in {"poll", "enter"}
        OBVIOUS
      <3>2. idle = [old EXCEPT !.at = place, !.call = "none"]
        BY DEF Cli!idle
      <3> HIDE DEF place, idle
      <3>3. QED
        BY <2>1, <3>1, <3>2 DEF Cli!Command, Cli!Places, Cli!Calls
    <2> HIDE DEF idle
    <2>3. Like(lost) /\ lost.at \in {"poll", "enter"} /\ lost.call = "none"
      BY <2>2 DEF Cli!Command
    <2>4. \A at \in {"drain", "prompt", "poll", "enter"} :
              /\ Like(to(at)) /\ to(at).at = at /\ to(at).call = old.call
              /\ to(at).is_server_up = old.is_server_up
      BY <2>1 DEF Cli!Command, Cli!Places
    <2>5. QED
      BY <2>2, <2>3, <2>4
  <1>3. /\ old.at # "waiting" => w.kind = "silence"
        /\ Cli!is_lost(c) => l = NoFd /\ w.kind = "silence"
        /\ old.at \in {"prompt", "enter", "poll", "recover"} => old.call = "none"
    BY <1>1, KindsDiffer DEF Control, OnTheWire, Standing, Cli!is_lost, Cli!is_answered,
                             Answers
  <1> HIDE DEF idle, lost, to
  <1>4. ASSUME old.at = "waiting", Cli!is_lost(c), Cli!goes_on(c, lost),
               UNCHANGED <<wire, link>>
        PROVE  SystemInv'
    BY <1>2, <1>3, <1>4, Returned
  <1>5. ASSUME old.at = "form", Cli!goes_on(c, idle), UNCHANGED <<wire, link>>
        PROVE  SystemInv'
    BY <1>2, <1>3, <1>5, Returned
  <1>6. ASSUME \/ old.at \in {"prompt", "enter", "poll"}
               \/ old.at = "recover" /\ ~old.logged_in,
               NEW at \in {"drain", "prompt", "poll", "enter"}, Cli!goes_on(c, to(at)),
               UNCHANGED <<wire, link>>
        PROVE  SystemInv'
    <2>1. to(at).call = "none"
      BY <1>2, <1>3, <1>6
    <2>2. QED
      BY <1>2, <1>3, <1>6, <2>1, Returned
  <1>7. CASE Cli!answer_lost(c)
    BY <1>4, <1>7 DEF Cli!answer_lost, lost, idle
  <1>8. CASE Cli!poll(c)
    BY <1>6, <1>8, Closed DEF Cli!poll, to
  <1>9. CASE Cli!drained(c)
    BY <1>9, Closed DEF Cli!drained
  <1>10. CASE Cli!local_command(c) \/ Cli!press_enter(c)
    BY <1>6, <1>10 DEF Cli!local_command, Cli!press_enter, to
  <1>11. CASE Cli!leave_form(c)
    BY <1>5, <1>11 DEF Cli!leave_form, idle
  <1>12. QED
    BY <1>4, <1>6, <1>7, <1>8, <1>9, <1>10, <1>11 DEF lost, idle, to

(* Somebody who is signed in asks: the message is one of that call, of      *)
(* whatever program remembers the same.                                     *)
LEMMA MemberAsks ==
    ASSUME SystemInv, UNCHANGED <<serverVars, serving>>, NEW c \in Clients,
           NEW call \in MemberCalls \ {"recover"}, NEW m,
           client[c].at \in {"prompt", "form"}, client[c].logged_in,
           Cli!request(c, client[c], call, m, "enter"),
           m.kind \in Cli!decode!RequestKinds,
           \A q : /\ q.call = call /\ q.token = client[c].token
                  /\ q.privilege_access = client[c].privilege_access
                  => Asked(q, m)
    PROVE  SystemInv'
  <1> DEFINE old == client[c]
             q == [old EXCEPT !.at = "waiting", !.call = call]
  <1>1. Control(old, wire[c], link[c])
    BY DEF SystemInv
  <1>2. old \in Cli!Command /\ Standing(old)
    BY <1>1 DEF Control
  <1>3. /\ q.at = "waiting" /\ q.call = call /\ q.token = old.token
        /\ q.username = old.username /\ q.password = old.password
        /\ q.logged_in = old.logged_in /\ q.privilege_access = old.privilege_access
    <2> HIDE DEF old
    <2>1. QED
      BY <1>2 DEF Cli!Command
  <1> HIDE DEF q
  <1>4. Asked(q, m)
    BY <1>3
  <1>5. Standing(q)
    BY <1>2, <1>3 DEF Standing, GuestCalls, MemberCalls
  <1>6. QED
    BY <1>2, <1>4, <1>5, Requested DEF q

(* Somebody who is not asks: with a name, and a password, that may be new.  *)
LEMMA GuestAsks ==
    ASSUME SystemInv, UNCHANGED <<serverVars, serving>>, NEW c \in Clients,
           NEW call \in GuestCalls, NEW m, NEW n \in Usernames,
           NEW pw \in Passwords \cup {Blank},
           client[c].at \in {"prompt", "form"}, ~client[c].logged_in,
           call = "sign_in" => pw \in Passwords,
           Cli!request(c, [client[c] EXCEPT !.username = n, !.password = pw], call, m,
                       "poll"),
           m.kind \in Cli!decode!RequestKinds,
           \A q : /\ q.call = call /\ q.username = n /\ q.password = pw
                  => Asked(q, m)
    PROVE  SystemInv'
  <1> DEFINE old == client[c]
             p == [old EXCEPT !.username = n, !.password = pw]
             q == [p EXCEPT !.at = "waiting", !.call = call]
  <1>1. Control(old, wire[c], link[c])
    BY DEF SystemInv
  <1>2. old \in Cli!Command /\ Standing(old)
    BY <1>1 DEF Control
  <1>3. /\ p \in Cli!Command /\ p.username = n /\ p.password = pw
        /\ p.logged_in = old.logged_in /\ p.token = old.token
        /\ p.privilege_access = old.privilege_access
        /\ p.is_server_up = old.is_server_up
        /\ q.at = "waiting" /\ q.call = call
        /\ q.username = n /\ q.password = pw /\ q.logged_in = old.logged_in
    <2> HIDE DEF old
    <2>1. QED
      BY <1>2 DEF Cli!Command
  <1>7. Cli!request(c, p, call, m, "poll")
    OBVIOUS
  <1> HIDE DEF p, q
  <1>4. Asked(q, m)
    BY <1>3
  <1>5. Standing(q)
    BY <1>2, <1>3 DEF Standing, GuestCalls, MemberCalls
  <1>6. QED
    BY <1>2, <1>3, <1>4, <1>5, <1>7, Requested DEF q, GuestCalls

(* The commands of someone who has not signed in.                           *)
LEMMA GuestTypes ==
    ASSUME SystemInv, UNCHANGED <<serverVars, serving>>, NEW c \in Clients,
           Cli!signup(c) \/ Cli!signup_form(c) \/ Cli!login(c)
    PROVE  SystemInv'
  <1> DEFINE old == client[c]
  <1>1. Control(old, wire[c], link[c])
    BY DEF SystemInv
  <1>2. old \in Cli!Command /\ Standing(old)
    BY <1>1 DEF Control
  <1>3. /\ old.password \in Passwords \cup {Blank}
        /\ old = [old EXCEPT !.username = old.username, !.password = old.password]
        /\ \A n : [old EXCEPT !.username = n]
                      = [old EXCEPT !.username = n, !.password = old.password]
    <2> HIDE DEF old
    <2>1. QED
      BY <1>2 DEF Cli!Command
  <1>4. CASE Cli!signup(c)
    <2>1. PICK n \in Usernames :
              Cli!request(c, [old EXCEPT !.username = n], "free_username",
                          Cli!decode!check_username_is_free(n), "poll")
      BY <1>4 DEF Cli!signup
    <2>2. old.at = "prompt" /\ ~old.logged_in
      BY <1>4 DEF Cli!signup, Cli!initial_state
    <2> DEFINE m == Cli!decode!check_username_is_free(n)
    <2>3. /\ m.kind \in Cli!decode!RequestKinds
          /\ \A q : q.call = "free_username" /\ q.username = n => Asked(q, m)
      BY DEF Cli!decode!check_username_is_free, Cli!decode!RequestKinds, Asked
    <2>4. Cli!request(c, [client[c] EXCEPT !.username = n, !.password = old.password],
                      "free_username", m, "poll")
      BY <1>3, <2>1
    <2> HIDE DEF m
    <2>5. QED
      BY <1>3, <2>2, <2>3, <2>4, GuestAsks DEF GuestCalls
  <1>5. CASE Cli!signup_form(c)
    <2>1. PICK pw \in Passwords, b \in Balances, ph \in Phones, a \in Addresses :
              Cli!request(c, old, "sign_up",
                          Cli!decode!sign_up(old.username, pw, b, ph, a), "poll")
      BY <1>5 DEF Cli!signup_form
    <2>2. old.at = "form" /\ old.call = "free_username"
      BY <1>5 DEF Cli!signup_form
    <2>3. ~old.logged_in /\ old.username \in Usernames
      BY <1>2, <2>2 DEF Standing, GuestCalls
    <2> DEFINE m == Cli!decode!sign_up(old.username, pw, b, ph, a)
    <2>4. /\ m.kind \in Cli!decode!RequestKinds
          /\ \A q : q.call = "sign_up" /\ q.username = old.username => Asked(q, m)
      BY DEF Cli!decode!sign_up, Cli!decode!RequestKinds, Asked
    <2>5. Cli!request(c, [client[c] EXCEPT !.username = old.username,
                                           !.password = old.password],
                      "sign_up", m, "poll")
      BY <1>3, <2>1
    <2> HIDE DEF m
    <2>6. QED
      BY <1>3, <2>2, <2>3, <2>4, <2>5, GuestAsks DEF GuestCalls
  <1>6. CASE Cli!login(c)
    <2>1. PICK n \in Usernames, pw \in Passwords :
              Cli!request(c, [old EXCEPT !.username = n, !.password = pw], "sign_in",
                          Cli!decode!sign_in(n, pw), "poll")
      BY <1>6 DEF Cli!login
    <2>2. old.at = "prompt" /\ ~old.logged_in
      BY <1>6 DEF Cli!login, Cli!initial_state
    <2> DEFINE m == Cli!decode!sign_in(n, pw)
    <2>3. /\ m.kind \in Cli!decode!RequestKinds
          /\ \A q : /\ q.call = "sign_in" /\ q.username = n /\ q.password = pw
                    => Asked(q, m)
      BY DEF Cli!decode!sign_in, Cli!decode!RequestKinds, Asked
    <2>4. Cli!request(c, [client[c] EXCEPT !.username = n, !.password = pw],
                      "sign_in", m, "poll")
      BY <2>1
    <2> HIDE DEF m
    <2>5. QED
      BY <2>2, <2>3, <2>4, GuestAsks DEF GuestCalls
  <1>7. QED
    BY <1>4, <1>5, <1>6

(* The commands of someone who has, of the kinds that are no "other".       *)
LEMMA MemberTypes ==
    ASSUME SystemInv, UNCHANGED <<serverVars, serving>>, NEW c \in Clients,
           \/ Cli!logout(c) \/ Cli!view_user_info(c) \/ Cli!view_rooms(c)
           \/ Cli!edit_information(c) \/ Cli!cancel_reservation(c)
    PROVE  SystemInv'
  <1> DEFINE tk == client[c].token
  <1>1. ASSUME NEW call \in {"logout", "user_info", "profile", "reservations", "rooms"},
               NEW m, Cli!ask(c, call, m),
               \/ call = "logout" /\ m = Cli!decode!logout(tk)
               \/ call \in {"user_info", "profile"} /\ m = Cli!decode!get_user_info(tk)
               \/ call = "reservations" /\ m = Cli!decode!get_reservations(tk)
               \/ call = "rooms" /\ m = Cli!decode!get_rooms_info(tk)
        PROVE  SystemInv'
    <2>1. /\ m.kind \in Cli!decode!RequestKinds
          /\ \A q : q.call = call /\ q.token = tk => Asked(q, m)
      BY <1>1 DEF Cli!decode!logout, Cli!decode!get_user_info,
                  Cli!decode!get_reservations, Cli!decode!get_rooms_info,
                  Cli!decode!RequestKinds, Asked
    <2>2. /\ client[c].at = "prompt" /\ client[c].logged_in
          /\ Cli!request(c, client[c], call, m, "enter")
      BY <1>1 DEF Cli!ask, Cli!reservation_state
    <2>3. call \in MemberCalls \ {"recover"}
      BY DEF MemberCalls
    <2>4. QED
      BY <2>1, <2>2, <2>3, MemberAsks
  <1>2. QED
    BY <1>1 DEF Cli!logout, Cli!view_user_info, Cli!view_rooms, Cli!edit_information,
                Cli!cancel_reservation

(* The messages of kind "other" are requests, to sign in or out none.       *)
LEMMA OtherKinds ==
    ASSUME NEW p, NEW m, OtherRequest(p, m)
    PROVE  m.kind \in Cli!decode!RequestKinds \ {"sign_in", "logout"}
  BY DEF OtherRequest, Cli!decode!RequestKinds, Cli!decode!get_users,
         Cli!decode!book_room, Cli!decode!cancel_booking,
         Cli!decode!passing_time, Cli!decode!edit_information, Cli!decode!leave_room,
         Cli!decode!empty_room, Cli!decode!remove_room, Cli!decode!add_room,
         Cli!decode!modify_room

(* What kind of message a call sends. *)
LEMMA KindOfCall ==
    ASSUME NEW p, NEW w, Asked(p, w)
    PROVE  \/ p.call \in {"sign_in", "recover"} /\ w.kind = "sign_in"
           \/ p.call \in {"free_username", "sign_up", "logout"} /\ w.kind = p.call
           \/ p.call \in {"user_info", "profile"} /\ w.kind = "user_info"
           \/ p.call = "reservations" /\ w.kind = "view_reservations"
           \/ p.call = "rooms" /\ w.kind = "view_rooms_info"
           \/ /\ p.call = "other" /\ OtherRequest(p, w)
              /\ w.kind \notin {"sign_in", "logout"}
  <1>1. CASE p.call = "sign_up"
    BY <1>1 DEF Asked, Cli!decode!sign_up
  <1>2. CASE p.call = "other"
    BY <1>2, OtherKinds DEF Asked
  <1>3. CASE p.call \notin {"sign_up", "other"}
    BY <1>3 DEF Asked, Cli!decode!sign_in, Cli!decode!check_username_is_free,
                Cli!decode!logout, Cli!decode!get_user_info, Cli!decode!get_reservations,
                Cli!decode!get_rooms_info
  <1>4. QED
    BY <1>1, <1>2, <1>3

(* The others, from the menu or from a form.                                *)
LEMMA OthersTyped ==
    ASSUME SystemInv, UNCHANGED <<serverVars, serving>>, NEW c \in Clients,
           \/ Cli!view_users(c) \/ Cli!edit_form(c)
           \/ Cli!book_room(c) \/ Cli!cancel_form(c) \/ Cli!pass_day(c)
           \/ Cli!leave_room(c) \/ Cli!hotel_management(c)
    PROVE  SystemInv'
  <1> DEFINE old == client[c]
  <1>1. Standing(old)
    BY DEF SystemInv, Control
  <1>2. ASSUME NEW m, OtherRequest(old, m), Cli!request(c, old, "other", m, "enter"),
               \/ old.at = "prompt" /\ old.logged_in
               \/ old.at = "form" /\ old.call \in {"profile", "reservations"}
        PROVE  SystemInv'
    <2>1. old.logged_in /\ old.at \in {"prompt", "form"}
      BY <1>1, <1>2 DEF Standing, MemberCalls
    <2>2. \A q : /\ q.call = "other" /\ q.token = old.token
                 /\ q.privilege_access = old.privilege_access
                 => Asked(q, m)
      BY <1>2 DEF Asked, OtherRequest
    <2>3. m.kind \in Cli!decode!RequestKinds
      BY <1>2, OtherKinds
    <2>4. QED
      BY <1>2, <2>1, <2>2, <2>3, MemberAsks DEF MemberCalls
  <1>3. ASSUME NEW m, OtherRequest(old, m), Cli!ask(c, "other", m) PROVE SystemInv'
    BY <1>2, <1>3 DEF Cli!ask, Cli!reservation_state
  <1>4. CASE Cli!view_users(c)
    BY <1>3, <1>4 DEF Cli!view_users, OtherRequest
  <1>5. CASE Cli!edit_form(c)
    BY <1>2, <1>5 DEF Cli!edit_form, OtherRequest
  <1>6. CASE Cli!book_room(c)
    BY <1>3, <1>6 DEF Cli!book_room, OtherRequest
  <1>7. CASE Cli!cancel_form(c)
    BY <1>2, <1>7 DEF Cli!cancel_form, OtherRequest
  <1>8. CASE Cli!pass_day(c)
    BY <1>3, <1>8 DEF Cli!pass_day, OtherRequest
  <1>9. CASE Cli!leave_room(c)
    BY <1>3, <1>9 DEF Cli!leave_room, OtherRequest
  <1>10. CASE Cli!hotel_management(c)
    BY <1>3, <1>10 DEF Cli!hotel_management, OtherRequest
  <1>11. QED
    BY <1>4, <1>5, <1>6, <1>7, <1>8, <1>9, <1>10

(* The recovery, and the attempts to connect.                               *)
LEMMA Recovering ==
    ASSUME SystemInv, UNCHANGED <<serverVars, serving>>, NEW c \in Clients,
           \/ Cli!recover_state(c) \/ Cli!recovery_unanswered(c)
           \/ Cli!connection_refused(c)
    PROVE  SystemInv'
  <1> DEFINE old == client[c]
             w == wire[c]
             l == link[c]
  <1>1. Control(old, w, l) /\ Agreement(old, w, l)
    BY DEF SystemInv
  <1>2. old \in Cli!Command /\ Standing(old) /\ OnTheWire(old, w, l)
    BY <1>1 DEF Control
  <1>3. ASSUME NEW q, Cli!goes_on(c, q), UNCHANGED <<wire, link>>, q \in Cli!Command,
               q.call = old.call, q.username = old.username,
               q.password = old.password, q.logged_in = old.logged_in,
               q.privilege_access = old.privilege_access,
               l = NoFd, w.kind = "silence",
               \/ old.at = "connect" /\ q.at \in {"connect", "gone"}
               \/ old.call = "recover" /\ q.at = "aborted"
        PROVE  SystemInv'
    <2>1. Standing(q)
      BY <1>2, <1>3 DEF Standing, GuestCalls, MemberCalls
    <2>2. OnTheWire(q, w, l)
      BY <1>3, KindsDiffer DEF OnTheWire
    <2>3. Control(q, w, l)
      BY <1>3, <2>1, <2>2, <1>1 DEF Control
    <2>4. Agreement(q, w, l)
      BY <1>1, <1>3, KindsDiffer DEF Agreement, PrivilegeAgrees, ConnectionAgrees
    <2>5. QED
      BY <1>3, <2>3, <2>4, GoesOn
  <1>4. CASE Cli!recover_state(c) /\ ~old.logged_in
    BY <1>4, LostOrLooked DEF Cli!recover_state
  <1>5. CASE Cli!recover_state(c) /\ old.logged_in
    <2> DEFINE m == Cli!decode!sign_in(old.username, old.password)
               q == [old EXCEPT !.at = "waiting", !.call = "recover"]
    <2>1. old.at = "recover" /\ Cli!request(c, old, "recover", m, "prompt")
      BY <1>5 DEF Cli!recover_state
    <2>2. /\ q.at = "waiting" /\ q.call = "recover"
          /\ q.username = old.username /\ q.password = old.password
          /\ q.logged_in = old.logged_in
      <3> HIDE DEF old
      <3>1. QED
        BY <1>2 DEF Cli!Command
    <2>3. m.kind \in Cli!decode!RequestKinds
      BY DEF Cli!decode!sign_in, Cli!decode!RequestKinds
    <2> HIDE DEF q
    <2>4. Standing(q) /\ Asked(q, m)
      BY <1>2, <1>5, <2>2 DEF Standing, Asked, GuestCalls, MemberCalls
    <2> HIDE DEF m
    <2>5. QED
      BY <1>2, <2>1, <2>3, <2>4, Requested DEF q, MemberCalls
  <1>6. CASE Cli!recovery_unanswered(c)
    <2> DEFINE q == Cli!aborted(old)
    <2>1. /\ q \in Cli!Command /\ q.at = "aborted" /\ q.call = old.call
          /\ q.username = old.username /\ q.password = old.password
          /\ q.logged_in = old.logged_in
          /\ q.privilege_access = old.privilege_access
      <3> HIDE DEF old
      <3>1. QED
        BY <1>2 DEF Cli!Command, Cli!Places, Cli!aborted
    <2>2. /\ old.call = "recover" /\ l = NoFd /\ w.kind = "silence"
          /\ Cli!goes_on(c, q) /\ UNCHANGED <<wire, link>>
      BY <1>2, <1>6 DEF Cli!recovery_unanswered, Cli!is_lost, Cli!is_answered, OnTheWire,
                        Answers
    <2> HIDE DEF q
    <2>3. QED
      BY <1>3, <2>1, <2>2
  <1>7. CASE Cli!connection_refused(c)
    <2> DEFINE again == [old EXCEPT !.attempt = @ + 1]
               left == [old EXCEPT !.at = "gone"]
    <2>1. /\ left \in Cli!Command /\ left.at = "gone" /\ left.call = old.call
          /\ left.username = old.username /\ left.password = old.password
          /\ left.logged_in = old.logged_in
          /\ left.privilege_access = old.privilege_access
      <3> HIDE DEF old
      <3>1. QED
        BY <1>2 DEF Cli!Command, Cli!Places
    <2>2. /\ again.at = old.at /\ again.call = old.call
          /\ again.username = old.username /\ again.password = old.password
          /\ again.logged_in = old.logged_in
          /\ again.privilege_access = old.privilege_access
          /\ old.attempt < MaxAttempts => again \in Cli!Command
      <3>1. MaxAttempts \in Int
        BY SystemAssumption
      <3> HIDE DEF old
      <3>2. QED
        BY <1>2, <3>1 DEF Cli!Command
    <2>3. /\ old.at = "connect" /\ l = NoFd /\ w.kind = "silence"
          /\ Cli!goes_on(c, IF old.attempt < MaxAttempts THEN again ELSE left)
          /\ UNCHANGED <<wire, link>>
      BY <1>1, <1>2, <1>7 DEF Cli!connection_refused, Control, OnTheWire
    <2> HIDE DEF again, left
    <2>4. CASE old.attempt < MaxAttempts
      BY <1>3, <2>2, <2>3, <2>4
    <2>5. CASE ~(old.attempt < MaxAttempts)
      BY <1>3, <2>1, <2>3, <2>5
    <2>6. QED
      BY <2>4, <2>5
  <1>8. QED
    BY <1>4, <1>5, <1>6, <1>7 DEF Cli!recover_state

(* What the user types ... *)
LEMMA LineTyped ==
    ASSUME SystemInv, UNCHANGED <<serverVars, serving>>, NEW c \in Clients,
           Cli!line_typed(c)
    PROVE  SystemInv'
  BY LostOrLooked, Closed, GuestTypes, MemberTypes, OthersTyped DEF Cli!line_typed

(* ... and what the program then does by itself keep the invariant.         *)
LEMMA ProgramStep ==
    ASSUME SystemInv, UNCHANGED <<serverVars, serving>>, NEW c \in Clients,
           Cli!program_step(c)
    PROVE  SystemInv'
  <1>1. CASE Cli!signup_shown(c)
    BY <1>1, GuestHears, LostOrLooked DEF Cli!signup_shown, Answers
  <1>2. QED
    BY <1>1, GuestHears, MemberHears, SessionHeard, LostOrLooked, Recovering
       DEF Cli!program_step

-----------------------------------------------------------------------------
(* Steps of the server.                                                     *)

(* Every session lasts, with its token, on its connection. *)
NobodyLeaves ==
    \A n \in DOMAIN users : users[n].is_logged_in =>
        /\ n \in DOMAIN users' /\ users'[n].is_logged_in
        /\ users'[n].token = users[n].token
        /\ users'[n].socket_fd = users[n].socket_fd

SessionsKept == SameUsers /\ NobodyComes /\ NobodyLeaves

PasswordsKept ==
    \A n \in DOMAIN users : n \in DOMAIN users' /\ users'[n].password = users[n].password

(* The sessions on one connection stay what they were. *)
KeptOn(l) ==
    /\ \A n \in DOMAIN users : users[n].is_logged_in /\ users[n].socket_fd = l =>
          /\ n \in DOMAIN users' /\ users'[n].is_logged_in
          /\ users'[n].token = users[n].token /\ users'[n].socket_fd = l
    /\ \A n \in DOMAIN users' : users'[n].is_logged_in /\ users'[n].socket_fd = l =>
          n \in DOMAIN users /\ users[n].is_logged_in /\ users[n].socket_fd = l

(* A client on whose connection nothing changes agrees with the server as   *)
(* before.                                                                  *)
LEMMA OthersAgree ==
    ASSUME SystemInv, SameUsers, NEW S, S \subseteq Clients,
           \A d \in S : /\ client'[d] = client[d] /\ wire'[d] = wire[d]
                        /\ link'[d] = link[d]
                        /\ link[d] # NoFd => link[d] \in connected' /\ KeptOn(link[d])
    PROVE  (\A d \in S : /\ Control(client[d], wire[d], link[d])
                         /\ Agreement(client[d], wire[d], link[d]))'
  <1> SUFFICES ASSUME NEW d \in S
               PROVE  /\ Control(client[d], wire[d], link[d])'
                      /\ Agreement(client[d], wire[d], link[d])'
    OBVIOUS
  <1>1. /\ Control(client[d], wire[d], link[d])
        /\ Agreement(client[d], wire[d], link[d])
        /\ client'[d] = client[d] /\ wire'[d] = wire[d] /\ link'[d] = link[d]
    BY DEF SystemInv
  <1>2. Control(client[d], wire[d], link[d])'
    BY <1>1 DEF Control, Standing, OnTheWire, Asked, OtherRequest
  <1>3. PrivilegeAgrees(client[d], wire[d])'
    BY <1>1 DEF Agreement, PrivilegeAgrees, HasRole, SameUsers
  <1>4. ConnectionAgrees(client[d], wire[d], link[d])'
    <2> SUFFICES ASSUME link[d] # NoFd
                 PROVE  /\ link[d] \in connected'
                        /\ Signed(client[d], wire[d])
                              => SessionOn(client[d].username,
                                           token_of(client[d], wire[d]), link[d])'
                        /\ ~Signed(client[d], wire[d]) => Vacant(link[d])'
      BY <1>1 DEF ConnectionAgrees, Signed, token_of
    <2>1. link[d] \in connected' /\ KeptOn(link[d])
      OBVIOUS
    <2>2. ConnectionAgrees(client[d], wire[d], link[d])
      BY <1>1 DEF Agreement
    <2>3. QED
      BY <1>1, <2>1, <2>2 DEF ConnectionAgrees, KeptOn, SessionOn, Vacant, token_of
  <1>5. QED
    BY <1>2, <1>3, <1>4 DEF Agreement

(* Where nobody's session is touched, none on any connection is.            *)
LEMMA KeptEverywhere ==
    ASSUME NobodyComes, NobodyLeaves, NEW l
    PROVE  KeptOn(l)
  BY DEF NobodyComes, NobodyLeaves, KeptOn

(* A descriptor that was free carries no session, and no client has it.     *)
LEMMA ConnectionMade ==
    ASSUME SystemInv, UNCHANGED serving, NEW c \in Clients, NEW fd \in Fds,
           accept_client(fd), Cli!connection_made(c, fd)
    PROVE  SystemInv'
  <1> DEFINE old == client[c]
             q == [old EXCEPT !.at = "recover", !.attempt = 1]
             w == wire[c]
  <1>1. Control(old, w, link[c]) /\ Agreement(old, w, link[c])
    BY DEF SystemInv
  <1>2. /\ old.at = "connect" /\ client' = [client EXCEPT ![c] = q]
        /\ link' = [link EXCEPT ![c] = fd] /\ wire' = wire
    BY DEF Cli!connection_made, Cli!goes_on
  <1>3. /\ fd \notin connected /\ connected' = connected \cup {fd} /\ users' = users
    BY DEF accept_client
  <1>4. /\ q \in Cli!Command /\ q.at = "recover" /\ q.call = old.call
        /\ q.username = old.username /\ q.password = old.password
        /\ q.logged_in = old.logged_in /\ q.privilege_access = old.privilege_access
    <2>1. 1 \in 1 .. MaxAttempts /\ old \in Cli!Command
      BY <1>1, SystemAssumption DEF Control
    <2> HIDE DEF old
    <2>2. QED
      BY <2>1 DEF Cli!Command, Cli!Places
  <1>5. /\ client' = [d \in Clients |-> client'[d]] /\ client'[c] = q
        /\ wire' = [d \in Clients |-> wire'[d]] /\ wire'[c] = w
        /\ link' = [d \in Clients |-> link'[d]] /\ link'[c] = fd
        /\ \A d \in Clients \ {c} : /\ client'[d] = client[d] /\ wire'[d] = wire[d]
                                    /\ link'[d] = link[d]
    BY <1>2 DEF SystemInv
  <1> HIDE DEF old, q, w
  <1>6. old.call = "none" /\ w.kind = "silence"
    BY <1>1, <1>2 DEF Control, Standing, OnTheWire
  <1>7. Control(q, w, fd)
    <2>1. Standing(q)
      BY <1>1, <1>4, <1>6 DEF Control, Standing, GuestCalls, MemberCalls
    <2>2. OnTheWire(q, w, fd)
      BY <1>4, <1>6, KindsDiffer DEF OnTheWire
    <2>3. QED
      BY <1>4, <2>1, <2>2 DEF Control
  <1>8. Control(client[c], wire[c], link[c])'
    BY <1>5, <1>7 DEF Control, Standing, OnTheWire, Asked, OtherRequest
  <1>9. Agreement(client[c], wire[c], link[c])'
    <2>1. PrivilegeAgrees(client[c], wire[c])'
      BY <1>1, <1>3, <1>4, <1>5, <1>6 DEF Agreement, PrivilegeAgrees, HasRole
    <2>2. ~Signed(client[c], wire[c])'
      BY <1>4, <1>5, <1>6 DEF Signed
    <2>3. Vacant(link[c])'
      BY <1>3, <1>5 DEF SystemInv, ServerInv, SessionHasConnection, Vacant
    <2>4. link'[c] \in connected'
      BY <1>3, <1>5
    <2>5. QED
      BY <2>1, <2>2, <2>3, <2>4 DEF Agreement, ConnectionAgrees
  <1>10. SessionsKept
    BY <1>3 DEF SessionsKept, SameUsers, NobodyComes, NobodyLeaves
  <1>11. \A d \in Clients : link[d] # NoFd => link[d] \in connected
    BY DEF SystemInv, Agreement, ConnectionAgrees
  <1>12. (\A d \in Clients \ {c} : /\ Control(client[d], wire[d], link[d])
                                   /\ Agreement(client[d], wire[d], link[d]))'
    <2>1. \A d \in Clients \ {c} : link[d] # NoFd =>
              link[d] \in connected' /\ KeptOn(link[d])
      BY <1>3, <1>10, <1>11, KeptEverywhere DEF SessionsKept
    <2>2. QED
      BY <1>5, <1>10, <2>1, OthersAgree DEF SessionsKept
  <1>13. OneEach'
    BY <1>3, <1>5, <1>11 DEF SystemInv, OneEach
  <1>14. ServerInv'
    <2>1. ServerNext
      BY DEF ServerNext, ServerStep
    <2>2. QED
      BY <2>1, ServerStepInv DEF SystemInv
  <1>15. serving' \in BOOLEAN
    BY DEF SystemInv
  <1>16. QED
    BY <1>5, <1>8, <1>9, <1>12, <1>13, <1>14, <1>15 DEF SystemInv

(* The server hears of a connection that no client has any more.            *)
LEMMA EndHeard ==
    ASSUME SystemInv, NEW fd \in Fds, hear_the_end(fd)
    PROVE  SystemInv'
  <1>1. /\ fd \notin linked /\ drop_client(fd) /\ connected' = connected \ {fd}
        /\ UNCHANGED <<client, wire, link, serving>>
    BY DEF hear_the_end, drop_client
  <1>2. UsersInv /\ SessionHasConnection
    BY DEF SystemInv, ServerInv
  <1>3. SameUsers
    BY <1>1, <1>2, ConnectionDropped DEF OtherStep
  <1>4. ASSUME NEW l, l # fd PROVE KeptOn(l)
    <2>1. CASE users' = users
      BY <2>1 DEF KeptOn
    <2>2. CASE client_dead(fd)
      <3>1. PICK name \in DOMAIN users :
                /\ users[name].socket_fd = fd
                /\ users' = [users EXCEPT ![name] =
                                [logged_out(@) EXCEPT !.socket_fd = NoFd]]
        BY <2>2 DEF client_dead
      <3>2. users[name] \in UserData
        BY <1>2 DEF UsersInv, UserInv, UserTypeOK
      <3>3. ~users'[name].is_logged_in
        BY <1>2, <3>1, SessionEnded
      <3>4. \A n \in DOMAIN users \ {name} : users'[n] = users[n]
        BY <3>1
      <3>5. DOMAIN users' = DOMAIN users
        BY <3>1
      <3>6. QED
        BY <1>4, <3>1, <3>3, <3>4, <3>5 DEF KeptOn
    <2>3. QED
      BY <1>1, <2>1, <2>2 DEF drop_client
  <1>5. \A d \in Clients : link[d] # NoFd =>
            link[d] \in connected' /\ KeptOn(link[d])
    BY <1>1, <1>4 DEF linked, SystemInv, Agreement, ConnectionAgrees
  <1>6. (\A d \in Clients : /\ Control(client[d], wire[d], link[d])
                            /\ Agreement(client[d], wire[d], link[d]))'
    BY <1>1, <1>3, <1>5, OthersAgree
  <1>7. ServerInv'
    <2>1. ServerNext
      BY <1>1 DEF ServerNext, ServerStep
    <2>2. QED
      BY <2>1, ServerStepInv DEF SystemInv
  <1>8. OneEach' /\ serving' \in BOOLEAN
    BY <1>1 DEF SystemInv, OneEach
  <1>9. /\ client' = [d \in Clients |-> client'[d]]
        /\ wire' = [d \in Clients |-> wire'[d]]
        /\ link' = [d \in Clients |-> link'[d]]
    BY <1>1 DEF SystemInv
  <1>10. QED
    BY <1>6, <1>7, <1>8, <1>9 DEF SystemInv

(* The roles of those who stay are what they were, and only guests come or  *)
(* go.                                                                      *)
RolesKept ==
    /\ \A n \in DOMAIN users \cap DOMAIN users' : users'[n].privilege = users[n].privilege
    /\ \A n \in DOMAIN users' \ DOMAIN users : ~users'[n].privilege
    /\ \A n \in DOMAIN users \ DOMAIN users' : ~users[n].privilege

(* The server ends: what a client has been given can still be read.         *)
LEMMA ServerEnded ==
    ASSUME SystemInv, server_ends, ServerInv', RolesKept
    PROVE  SystemInv'
  <1>1. /\ serving' = FALSE /\ client' = client
        /\ link' = [c \in Clients |-> NoFd]
        /\ wire' = [c \in Clients |-> IF Cli!is_answered(c) THEN wire[c]
                                      ELSE Cli!decode!silence]
    BY DEF server_ends
  <1>2. ASSUME NEW c \in Clients
        PROVE  Control(client[c], wire[c], link[c])' /\ Agreement(client[c], wire[c], link[c])'
    <2>1. /\ Control(client[c], wire[c], link[c])
          /\ PrivilegeAgrees(client[c], wire[c])
      BY DEF SystemInv, Agreement
    <2>2. /\ link'[c] = NoFd /\ client'[c] = client[c]
          /\ \/ wire'[c] = wire[c] /\ wire[c].kind \in Answers
             \/ wire'[c] = Cli!decode!silence
      BY <1>1 DEF Cli!is_answered, Answers
    <2>3. OnTheWire(client[c], wire[c], link[c])'
      BY <2>1, <2>2, KindsDiffer DEF Control, OnTheWire
    <2>4. Control(client[c], wire[c], link[c])'
      BY <2>1, <2>2, <2>3 DEF Control, Standing
    <2>5. PrivilegeAgrees(client[c], wire[c])'
      BY <2>1, <2>2, KindsDiffer DEF PrivilegeAgrees, HasRole, RolesKept
    <2>6. ConnectionAgrees(client[c], wire[c], link[c])'
      BY <2>2 DEF ConnectionAgrees
    <2>7. QED
      BY <2>4, <2>5, <2>6 DEF Agreement
  <1>3. OneEach' /\ serving' \in BOOLEAN
    BY <1>1 DEF OneEach
  <1>4. client' = [c \in Clients |-> client'[c]]
    BY <1>1 DEF SystemInv
  <1>5. wire' = [c \in Clients |-> wire'[c]] /\ link' = [c \in Clients |-> link'[c]]
    BY <1>1
  <1>6. QED
    BY <1>2, <1>3, <1>4, <1>5 DEF SystemInv

(* Nothing but the server's program itself.                                 *)
LEMMA ServerStarted ==
    ASSUME SystemInv, UNCHANGED <<serverVars, client, wire, link>>, serving' \in BOOLEAN
    PROVE  SystemInv'
  <1>1. users' = users /\ connected' = connected
    BY DEF serverVars
  <1>2. SameUsers /\ \A l : KeptOn(l)
    BY <1>1 DEF SameUsers, KeptOn
  <1>3. \A c \in Clients : link[c] # NoFd => link[c] \in connected'
    BY <1>1 DEF SystemInv, Agreement, ConnectionAgrees
  <1>4. (\A c \in Clients : /\ Control(client[c], wire[c], link[c])
                            /\ Agreement(client[c], wire[c], link[c]))'
    BY <1>2, <1>3, OthersAgree
  <1>5. ServerInv'
    BY ServerStepInv DEF SystemInv
  <1>6. QED
    BY <1>4, <1>5 DEF SystemInv, OneEach

(* The network takes a connection, and what was on it.                      *)
LEMMA ConnectionLost ==
    ASSUME SystemInv, NEW c \in Clients, lose_connection(c)
    PROVE  SystemInv'
  <1> DEFINE w == Cli!decode!silence
  <1>1. /\ UNCHANGED <<serverVars, client, serving>>
        /\ link' = [link EXCEPT ![c] = NoFd] /\ wire' = [wire EXCEPT ![c] = w]
    BY DEF lose_connection, Cli!hang_up
  <1>2. client' = [client EXCEPT ![c] = client[c]]
    BY <1>1 DEF SystemInv
  <1>3. Control(client[c], wire[c], link[c]) /\ PrivilegeAgrees(client[c], wire[c])
    BY DEF SystemInv, Agreement
  <1>4. Control(client[c], w, NoFd)
    BY <1>3, KindsDiffer DEF Control, OnTheWire
  <1>5. Agreement(client[c], w, NoFd)
    BY <1>3, KindsDiffer DEF Agreement, PrivilegeAgrees, ConnectionAgrees
  <1> HIDE DEF w
  <1>6. UNCHANGED <<serverVars, serving>>
    BY <1>1
  <1>7. QED
    BY <1>1, <1>2, <1>4, <1>5, <1>6, ClientMoves

(* At first nobody is connected.                                            *)
LEMMA SystemInitInv == SystemInit => SystemInv
  <1> SUFFICES ASSUME SystemInit PROVE SystemInv
    OBVIOUS
  <1>1. ServerInv
    BY ServerInitInv DEF SystemInit
  <1> DEFINE p == [at |-> "connect", call |-> "none", username |-> Blank,
                   password |-> Blank, token |-> Blank, logged_in |-> FALSE,
                   privilege_access |-> FALSE, is_server_up |-> TRUE, attempt |-> 1]
  <1>2. /\ client = [c \in Clients |-> p] /\ wire = [c \in Clients |-> Cli!decode!silence]
        /\ link = [c \in Clients |-> NoFd]
    BY DEF SystemInit, Cli!ClientInit
  <1>3. Control(p, Cli!decode!silence, NoFd)
    <2>1. p \in Cli!Command
      BY SystemAssumption DEF Cli!Command, Cli!Places, Cli!Calls
    <2>2. QED
      BY <2>1, KindsDiffer DEF Control, Standing, OnTheWire, GuestCalls, MemberCalls
  <1>4. Agreement(p, Cli!decode!silence, NoFd)
    BY KindsDiffer DEF Agreement, PrivilegeAgrees, ConnectionAgrees
  <1> HIDE DEF p
  <1>5. QED
    BY <1>1, <1>2, <1>3, <1>4 DEF SystemInv, SystemInit, OneEach

-----------------------------------------------------------------------------
(* Requests of the clients.                                                 *)

(* The requests that neither begin nor end a session.                       *)
QuietRequest ==
    \/ HotelRequest
    \/ \E n \in Usernames, pw \in Passwords, b \in Balances, ph \in Phones,
          a \in Addresses \cup {Blank} : sign_up(n, pw, b, ph, a)
    \/ \E n \in Usernames : is_uname_available(n)
    \/ \E t \in AnyToken, pw \in NewPasswords \cup {Blank}, ph \in Phones \cup {Blank},
          a \in Addresses \cup {Blank} : edit_user_info(t, pw, ph, a)
    \/ \E t \in AnyToken : \/ view(view_user_information(t)) \/ view(view_all_users(t))
                           \/ view(view_rooms_info(t)) \/ view(view_reservations(t))
    \/ \E t \in AnyToken, d \in DaySteps : pass_days(t, d)

(* The handler a message of kind "other" leads to.                          *)
LEMMA OtherDiagnosed ==
    ASSUME NEW p \in Cli!Command, NEW w, NEW fd, OtherRequest(p, w), diagnose(w, fd)
    PROVE  QuietRequest
  <1> DEFINE t == p.token
  <1>1. t \in AnyToken
    BY DEF Cli!Command, AnyToken
  <1>2. CASE w = Cli!decode!get_users(t)
    BY <1>1, <1>2 DEF Cli!decode!get_users, diagnose, QuietRequest
  <1>3. ASSUME NEW r \in RoomNumbers, NEW n \in BedCounts, NEW i \in Days, NEW o \in Days,
               w = Cli!decode!book_room(t, r, n, i, o)
        PROVE  QuietRequest
    <2>1. book_a_room(t, r, n, i, o)
      BY <1>3 DEF Cli!decode!book_room, diagnose
    <2>2. QED
      BY <1>1, <2>1 DEF QuietRequest, HotelRequest
  <1>4. ASSUME NEW r \in RoomNumbers, NEW n \in BedCounts,
               w = Cli!decode!cancel_booking(t, r, n)
        PROVE  QuietRequest
    <2>1. cancel_a_room(t, r, n)
      BY <1>4 DEF Cli!decode!cancel_booking, diagnose
    <2>2. QED
      BY <1>1, <2>1 DEF QuietRequest, HotelRequest
  <1>5. ASSUME NEW d \in DaySteps, w = Cli!decode!passing_time(t, d)
        PROVE  QuietRequest
    BY <1>1, <1>5 DEF Cli!decode!passing_time, diagnose, QuietRequest
  <1>6. ASSUME NEW pw \in NewPasswords \cup {Blank}, NEW ph \in Phones \cup {Blank},
               NEW a \in Addresses \cup {Blank},
               w = Cli!decode!edit_information(t, pw, ph, a)
        PROVE  QuietRequest
    <2>1. edit_user_info(t, pw, ph, a)
      BY <1>6 DEF Cli!decode!edit_information, diagnose
    <2>2. QED
      BY <1>1, <1>6, <2>1 DEF QuietRequest
  <1>7. ASSUME NEW r \in RoomNumbers,
               \/ w = Cli!decode!leave_room(t, r)
               \/ w = Cli!decode!empty_room(t, r)
               \/ w = Cli!decode!remove_room(t, r)
        PROVE  QuietRequest
    <2>1. leave_room(t, r) \/ empty_room(t, r) \/ remove_a_room(t, r)
      BY <1>7 DEF Cli!decode!leave_room, Cli!decode!empty_room, Cli!decode!remove_room,
                  diagnose
    <2>2. QED
      BY <1>1, <2>1 DEF QuietRequest, HotelRequest
  <1>8. ASSUME NEW r \in RoomNumbers, NEW n \in Capacities, NEW b \in Prices,
               \/ w = Cli!decode!add_room(t, r, n, b)
               \/ w = Cli!decode!modify_room(t, r, n, b)
        PROVE  QuietRequest
    <2>1. add_a_room(t, r, n, b) \/ modify_a_room(t, r, n, b)
      BY <1>8 DEF Cli!decode!add_room, Cli!decode!modify_room, diagnose
    <2>2. QED
      BY <1>1, <2>1 DEF QuietRequest, HotelRequest
  <1> HIDE DEF t
  <1>9. QED
    BY <1>2, <1>3, <1>4, <1>5, <1>6, <1>7, <1>8 DEF OtherRequest, t

(* The handler of a request is the one the client's program asked for.      *)
LEMMA Diagnosed ==
    ASSUME NEW p \in Cli!Command, Standing(p), NEW w, Asked(p, w), NEW fd,
           diagnose(w, fd)
    PROVE  \/ /\ p.call \in {"sign_in", "recover"} /\ w.kind = "sign_in"
              /\ w.username = p.username
              /\ sign_in(p.username, p.password, fd)
           \/ p.call = "logout" /\ w.kind = "logout" /\ log_out(p.token)
           \/ /\ p.call \in {"user_info", "profile"} /\ w.kind = "user_info"
              /\ view(view_user_information(p.token))
           \/ /\ p.call = "rooms" /\ w.kind = "view_rooms_info"
              /\ view(view_rooms_info(p.token))
           \/ /\ p.call \notin {"sign_in", "recover", "logout", "user_info", "profile",
                               "rooms"}
              /\ w.kind \notin {"sign_in", "logout"}
              /\ QuietRequest
  <1>0. p.token \in AnyToken
    BY DEF Cli!Command, AnyToken
  <1>1. CASE p.call \in {"sign_in", "recover"}
             /\ w = Cli!decode!sign_in(p.username, p.password)
    BY <1>1 DEF Cli!decode!sign_in, diagnose
  <1>2. CASE p.call = "free_username"
             /\ w = Cli!decode!check_username_is_free(p.username)
    <2>1. is_uname_available(p.username) /\ w.kind = "free_username"
      BY <1>2 DEF Cli!decode!check_username_is_free, diagnose
    <2>2. p.username \in Usernames
      BY <1>2 DEF Standing, GuestCalls
    <2>3. QED
      BY <1>2, <2>1, <2>2 DEF QuietRequest
  <1>3. CASE p.call = "sign_up"
             /\ \E pw \in Passwords, b \in Balances, ph \in Phones, a \in Addresses :
                    w = Cli!decode!sign_up(p.username, pw, b, ph, a)
    <2>1. PICK pw \in Passwords, b \in Balances, ph \in Phones, a \in Addresses :
              w = Cli!decode!sign_up(p.username, pw, b, ph, a)
      BY <1>3
    <2>2. sign_up(p.username, pw, b, ph, a) /\ w.kind = "sign_up"
      BY <2>1 DEF Cli!decode!sign_up, diagnose
    <2>3. p.username \in Usernames
      BY <1>3 DEF Standing, GuestCalls
    <2>4. QED
      BY <1>3, <2>2, <2>3 DEF QuietRequest
  <1>4. CASE p.call = "logout" /\ w = Cli!decode!logout(p.token)
    BY <1>4 DEF Cli!decode!logout, diagnose
  <1>5. CASE p.call \in {"user_info", "profile"} /\ w = Cli!decode!get_user_info(p.token)
    BY <1>5 DEF Cli!decode!get_user_info, diagnose
  <1>6. CASE p.call = "reservations" /\ w = Cli!decode!get_reservations(p.token)
    <2>1. view(view_reservations(p.token)) /\ w.kind = "view_reservations"
      BY <1>6 DEF Cli!decode!get_reservations, diagnose
    <2>2. QED
      BY <1>0, <1>6, <2>1 DEF QuietRequest
  <1>7. CASE p.call = "other" /\ OtherRequest(p, w)
    <2>1. QuietRequest
      BY <1>7, OtherDiagnosed
    <2>2. w.kind \notin {"sign_in", "logout"}
      BY <1>7, OtherKinds
    <2>3. QED
      BY <1>7, <2>1, <2>2
  <1>8. CASE p.call = "rooms" /\ w = Cli!decode!get_rooms_info(p.token)
    BY <1>8 DEF Cli!decode!get_rooms_info, diagnose
  <1>9. QED
    BY <1>1, <1>2, <1>3, <1>4, <1>5, <1>6, <1>7, <1>8 DEF Asked

(* A user who is changed, but not the session.                              *)
LEMMA SessionUntouched ==
    ASSUME UsersInv, NEW name \in DOMAIN users, NEW user,
           users' = [users EXCEPT ![name] = user],
           user.id = users[name].id, user.privilege = users[name].privilege,
           user.is_logged_in = users[name].is_logged_in,
           user.token = users[name].token, user.socket_fd = users[name].socket_fd
    PROVE  /\ SessionsKept
           /\ user.password = users[name].password => PasswordsKept
  BY DEF SessionsKept, SameUsers, NobodyComes, NobodyLeaves, PasswordsKept

LEMMA PurseUntouchedSession ==
    ASSUME UsersInv, NEW name \in DOMAIN users, NEW amount,
           users' = [users EXCEPT ![name].account_balance = amount]
    PROVE  SessionsKept /\ PasswordsKept
  <1> DEFINE user == [users[name] EXCEPT !.account_balance = amount]
  <1>1. users[name] \in UserData
    BY DEF UsersInv, UserInv, UserTypeOK
  <1>2. /\ user.id = users[name].id /\ user.privilege = users[name].privilege
        /\ user.is_logged_in = users[name].is_logged_in
        /\ user.token = users[name].token /\ user.socket_fd = users[name].socket_fd
        /\ user.password = users[name].password
    BY <1>1 DEF UserData
  <1>3. users' = [users EXCEPT ![name] = user]
    OBVIOUS
  <1> HIDE DEF user
  <1>4. QED
    BY <1>2, <1>3, SessionUntouched

LEMMA NobodyTouched ==
    ASSUME UNCHANGED users
    PROVE  SessionsKept /\ PasswordsKept
  BY DEF SessionsKept, SameUsers, NobodyComes, NobodyLeaves, PasswordsKept

(* Booking and cancelling change purses, the rest of the hotel nobody.      *)
LEMMA HotelKeepsSessions ==
    ASSUME UsersInv, HotelRequest
    PROVE  SessionsKept /\ PasswordsKept /\ answer' \in Answers /\ UNCHANGED connected
  <1> DEFINE Kept == /\ SessionsKept /\ PasswordsKept
                     /\ answer' \in Answers /\ UNCHANGED connected
  <1>1. ASSUME refuse \/ (UNCHANGED users /\ succeed) PROVE Kept
    BY <1>1, NobodyTouched DEF refuse, fail, succeed, Answers
  <1>2. PICK t \in AnyToken, r \in RoomNumbers :
            \/ \E n \in BedCounts, i, o \in Days : book_a_room(t, r, n, i, o)
            \/ \E n \in BedCounts : cancel_a_room(t, r, n)
            \/ leave_room(t, r)
            \/ empty_room(t, r)
            \/ \E c \in Capacities, p \in Prices : add_a_room(t, r, c, p)
            \/ \E c \in Capacities, p \in Prices : modify_a_room(t, r, c, p)
            \/ remove_a_room(t, r)
    BY DEF HotelRequest
  <1>3. ASSUME is_guest(t) PROVE search_by_token(t) \in DOMAIN users
    BY <1>3, TokenFound DEF is_guest, get_role
  <1>4. ASSUME NEW n, NEW i, NEW o, book_a_room(t, r, n, i, o) PROVE Kept
    <2>1. CASE refuse
      BY <1>1, <2>1
    <2>2. CASE /\ is_guest(t) /\ succeed
               /\ reduce_balance(t, get_total_price(r, n, i, o))
      <3> DEFINE charge == get_total_price(r, n, i, o)
                 name == search_by_token(t)
      <3>1. \/ users' = users
            \/ users' = [users EXCEPT ![name].account_balance = @ - charge]
        BY <2>2 DEF reduce_balance
      <3> HIDE DEF charge
      <3>2. SessionsKept /\ PasswordsKept
        BY <1>3, <2>2, <3>1, NobodyTouched, PurseUntouchedSession
      <3>3. QED
        BY <2>2, <3>2 DEF succeed, Answers
    <2>3. PICK order : \/ refuse
                       \/ /\ is_guest(t) /\ succeed
                          /\ reduce_balance(t, get_total_price(r, n, i, o))
      BY <1>4 DEF book_a_room
    <2>4. QED
      BY <2>1, <2>2, <2>3
  <1>5. ASSUME NEW n, cancel_a_room(t, r, n) PROVE Kept
    <2>1. CASE refuse
      BY <1>1, <2>1
    <2>2. ASSUME NEW amount, is_guest(t), succeed, increase_balance(t, amount)
          PROVE  Kept
      <3> DEFINE name == search_by_token(t)
      <3>1. users' = [users EXCEPT ![name].account_balance = @ + amount]
        BY <2>2 DEF increase_balance
      <3>2. SessionsKept /\ PasswordsKept
        BY <1>3, <2>2, <3>1, PurseUntouchedSession
      <3>3. QED
        BY <2>2, <3>2 DEF succeed, Answers
    <2>3. QED
      BY <1>5, <2>1, <2>2 DEF cancel_a_room
  <1>6. ASSUME \/ leave_room(t, r) \/ empty_room(t, r) \/ remove_a_room(t, r)
               \/ \E c \in Capacities, p \in Prices :
                      add_a_room(t, r, c, p) \/ modify_a_room(t, r, c, p)
        PROVE  Kept
    BY <1>1, <1>6 DEF leave_room, empty_room, remove_a_room, add_a_room, modify_a_room
  <1>7. QED
    BY <1>2, <1>4, <1>5, <1>6

(* So do the other quiet requests: an edit changes no session, a new user   *)
(* has none.                                                                *)
LEMMA QuietKept ==
    ASSUME UsersInv, QuietRequest
    PROVE  /\ SessionsKept /\ answer' \in Answers /\ UNCHANGED connected
           /\ NewPasswords = {} => PasswordsKept
  <1> DEFINE Kept == /\ SessionsKept /\ answer' \in Answers /\ UNCHANGED connected
                     /\ NewPasswords = {} => PasswordsKept
  <1>1. ASSUME refuse \/ (UNCHANGED users /\ succeed) PROVE Kept
    BY <1>1, NobodyTouched DEF refuse, fail, succeed, Answers
  <1>2. CASE HotelRequest
    BY <1>2, HotelKeepsSessions
  <1>3. ASSUME NEW n \in Usernames, NEW pw \in Passwords, NEW b \in Balances,
               NEW ph \in Phones, NEW a \in Addresses \cup {Blank},
               sign_up(n, pw, b, ph, a)
        PROVE  Kept
    <2>1. CASE signup(n, pw, b, ph, a) /\ succeed
      <3>1. SameUsers /\ NobodyComes
        BY <2>1, SignedUp
      <3>2. NobodyLeaves /\ PasswordsKept
        BY <2>1 DEF signup, NobodyLeaves, PasswordsKept, username_exist
      <3>3. QED
        BY <2>1, <3>1, <3>2 DEF SessionsKept, succeed, Answers
    <2>2. QED
      BY <1>1, <1>3, <2>1 DEF sign_up
  <1>4. ASSUME NEW n, is_uname_available(n) PROVE Kept
    BY <1>4, NobodyTouched DEF is_uname_available, Answers
  <1>5. ASSUME NEW granted, view(granted) PROVE Kept
    BY <1>5, NobodyTouched DEF view, Answers
  <1>6. ASSUME NEW t, NEW d, pass_days(t, d) PROVE Kept
    BY <1>1, <1>6 DEF pass_days
  <1>7. ASSUME NEW t, NEW pw \in NewPasswords \cup {Blank}, NEW ph, NEW a,
               edit_user_info(t, pw, ph, a)
        PROVE  Kept
    <2>1. answer' \in Answers /\ UNCHANGED connected
      BY <1>7 DEF edit_user_info, succeed, fail, Answers
    <2>2. CASE UNCHANGED users
      BY <2>1, <2>2, NobodyTouched
    <2>3. CASE edit_information(t, pw, ph, a)
      <3> DEFINE name == search_by_token(t)
                 user == edited(users[name], pw, ph, a)
      <3>1. name \in DOMAIN users /\ users[name] \in UserData
        BY <2>3, SenderTyped DEF edit_information
      <3>2. users' = [users EXCEPT ![name] = user]
        BY <2>3 DEF edit_information
      <3>3. /\ user.id = users[name].id /\ user.privilege = users[name].privilege
            /\ user.is_logged_in = users[name].is_logged_in
            /\ user.token = users[name].token /\ user.socket_fd = users[name].socket_fd
            /\ pw = Blank => user.password = users[name].password
        BY <3>1 DEF edited, UserData
      <3> HIDE DEF user, name
      <3>4. QED
        BY <2>1, <3>1, <3>2, <3>3, SessionUntouched
    <2>4. QED
      BY <1>7, <2>2, <2>3 DEF edit_user_info
  <1>8. QED
    BY <1>2, <1>3, <1>4, <1>5, <1>6, <1>7 DEF QuietRequest

(* Signing in, over a connection that has no session: one begins on it, or  *)
(* nothing happens.                                                         *)
LEMMA LetIn ==
    ASSUME UsersInv, NEW name \in Usernames, NEW pw, NEW fd \in Fds, sign_in(name, pw, fd)
    PROVE  /\ UNCHANGED connected
           /\ \/ answer' = "error" /\ users' = users
              \/ /\ answer' = "success"
                 /\ name \in DOMAIN users /\ ~users[name].is_logged_in
                 /\ users[name].password = pw /\ users[name].privilege \in BOOLEAN
                 /\ DOMAIN users' = DOMAIN users
                 /\ users'[name].token \in Tokens /\ users'[name].is_logged_in
                 /\ users'[name].socket_fd = fd
                 /\ \A n \in DOMAIN users \ {name} : users'[n] = users[n]
                 /\ SameUsers /\ PasswordsKept
  <1>1. CASE refuse
    BY <1>1 DEF refuse, fail
  <1>2. CASE user_validation(name, pw) /\ (\E t \in Tokens : login(name, fd, t)) /\ succeed
    <2>1. PICK t \in Tokens : login(name, fd, t)
      BY <1>2
    <2>2. /\ name \in DOMAIN users /\ ~users[name].is_logged_in
          /\ users[name].password = pw
      BY <1>2 DEF user_validation, username_exist
    <2>3. users[name] \in UserData
      BY <2>2 DEF UsersInv, UserInv, UserTypeOK
    <2> DEFINE user == [users[name] EXCEPT !.is_logged_in = TRUE, !.token = t,
                                           !.socket_fd = fd]
    <2>4. /\ user.is_logged_in /\ user.token = t /\ user.socket_fd = fd
          /\ user.id = users[name].id /\ user.privilege = users[name].privilege
          /\ users[name].privilege \in BOOLEAN
          /\ user.password = users[name].password
      BY <2>3 DEF UserData
    <2>5. users' = [users EXCEPT ![name] = user]
      BY <2>1, <2>2 DEF login
    <2> HIDE DEF user
    <2>6. DOMAIN users' = DOMAIN users /\ users'[name] = user
          /\ \A n \in DOMAIN users \ {name} : users'[n] = users[n]
      BY <2>2, <2>5
    <2>7. SameUsers /\ PasswordsKept
      BY <2>4, <2>6 DEF SameUsers, PasswordsKept
    <2>8. QED
      BY <1>2, <2>2, <2>4, <2>6, <2>7 DEF succeed
  <1>3. QED
    BY <1>1, <1>2 DEF sign_in

(* Logging out with the token of a session ends just that session.          *)
LEMMA ShownOut ==
    ASSUME UsersInv, NEW name \in DOMAIN users, users[name].is_logged_in, NEW tk,
           users[name].token = tk, log_out(tk)
    PROVE  /\ answer' = "success" /\ UNCHANGED connected
           /\ SameUsers /\ PasswordsKept /\ DOMAIN users' = DOMAIN users
           /\ ~users'[name].is_logged_in
           /\ \A n \in DOMAIN users \ {name} : users'[n] = users[n]
  <1>1. name \in sessions(tk) /\ succeed
    BY DEF sessions, log_out
  <1>2. logout(tk)
    BY <1>1 DEF log_out
  <1>3. search_by_token(tk) \in sessions(tk)
    BY <1>1, TokenFound DEF sessions
  <1>4. search_by_token(tk) = name
    BY <1>3 DEF sessions, UsersInv, UserInv, SessionPerToken
  <1>5. users' = [users EXCEPT ![name] = logged_out(@)]
    BY <1>2, <1>4 DEF logout
  <1>6. /\ ~logged_out(users[name]).is_logged_in
        /\ logged_out(users[name]).password = users[name].password
    <2>1. users[name] \in UserData
      BY DEF UsersInv, UserInv, UserTypeOK
    <2>2. QED
      BY <2>1 DEF logged_out, UserData
  <1>7. SameUsers
    BY <1>2, LoggedOut
  <1>8. QED
    BY <1>1, <1>5, <1>6, <1>7 DEF succeed, PasswordsKept

(* What a client's request is, and the connection it comes over.            *)
LEMMA ToBeServed ==
    ASSUME SystemInv, NEW c \in Clients, serve(c)
    PROVE  /\ client[c] \in Cli!Command /\ Standing(client[c])
           /\ client[c].at = "waiting"
           /\ Asked(client[c], wire[c]) /\ diagnose(wire[c], link[c])
           /\ link[c] \in Fds /\ link[c] \in connected
           /\ wire[c].kind \notin Answers
  <1>1. /\ Control(client[c], wire[c], link[c])
        /\ ConnectionAgrees(client[c], wire[c], link[c])
    BY DEF SystemInv, Agreement
  <1>2. link[c] # NoFd /\ wire[c].kind \in Cli!decode!RequestKinds
        /\ diagnose(wire[c], link[c])
    BY DEF serve
  <1>3. QED
    BY <1>1, <1>2, KindsDiffer DEF Control, OnTheWire, ConnectionAgrees

(* It is a request the server expects.                                      *)
LEMMA ServedStep ==
    ASSUME SystemInv, NEW c \in Clients, serve(c)
    PROVE  ServerNext
  <1> DEFINE p == client[c]
  <1>1. /\ p \in Cli!Command /\ Standing(p) /\ link[c] \in Fds /\ connected # {}
    BY ToBeServed
  <1>2. p.token \in AnyToken
    BY <1>1 DEF Cli!Command, AnyToken
  <1>3. CASE p.call \in {"sign_in", "recover"} /\ sign_in(p.username, p.password, link[c])
    <2>1. p.username \in Usernames /\ p.password \in Passwords
      BY <1>1, <1>3 DEF Standing, MemberCalls
    <2>2. QED
      BY <1>1, <1>3, <2>1 DEF ServerNext, ServerStep
  <1>4. CASE \/ log_out(p.token) \/ view(view_user_information(p.token))
             \/ view(view_rooms_info(p.token)) \/ QuietRequest
    <2>1. NewPasswords \cup {Blank} \subseteq Passwords \cup {Blank}
      BY SystemAssumption
    <2>2. QED
      BY <1>1, <1>2, <1>4, <2>1 DEF QuietRequest, UserRequest, ServerNext, ServerStep
  <1>5. QED
    BY <1>3, <1>4, ToBeServed, Diagnosed

(* After any request the client and the server agree.  For the client that  *)
(* asked it is a question of its call: a quiet one touches no session, a    *)
(* sign-in finds none on the connection, and a logout ends the only one.    *)
LEMMA Served ==
    ASSUME SystemInv, NEW c \in Clients, serve(c)
    PROVE  SystemInv'
  <1> DEFINE p == client[c]
             w == wire[c]
             l == link[c]
             a == wire'[c]
  <1>1. /\ p \in Cli!Command /\ Standing(p) /\ p.at = "waiting"
        /\ l \in Fds /\ l \in connected /\ l # NoFd /\ w.kind \notin Answers
    BY ToBeServed DEF serve
  <1>2. /\ Control(p, w, l) /\ PrivilegeAgrees(p, w) /\ ConnectionAgrees(p, w, l)
        /\ UsersInv /\ SessionHasConnection
    BY DEF SystemInv, Agreement, ServerInv
  <1>3. /\ a = answer_to(w) /\ a.kind = answer'
        /\ client' = client /\ link' = link /\ serving' = serving
        /\ wire' = [d \in Clients |-> wire'[d]]
        /\ \A d \in Clients \ {c} : wire'[d] = wire[d]
    <2>1. wire' = [wire EXCEPT ![c] = answer_to(w)] /\ UNCHANGED <<client, link, serving>>
      BY DEF serve
    <2>2. answer_to(w).kind = answer'
      BY DEF answer_to, Cli!decode!response
    <2>3. wire = [d \in Clients |-> wire[d]]
      BY DEF SystemInv
    <2>4. wire'[c] = answer_to(w)
      BY <2>1, <2>3
    <2>5. QED
      BY <2>1, <2>2, <2>3, <2>4
  <1>4. ServerInv'
    BY ServedStep, ServerStepInv DEF SystemInv
  <1>5. ASSUME SameUsers, answer' \in Answers, UNCHANGED connected,
               p.call \in {"user_info", "profile", "rooms", "logout"} => answer' = "success",
               p.call \in {"sign_in", "recover"} /\ answer' = "success"
                   => a.token \in Tokens /\ a.privilege \in BOOLEAN,
               p.call = "sign_in" /\ answer' = "success"
                   => HasRole(p.username, a.privilege),
               Signed(p, a) =>
                   /\ p.username \in DOMAIN users' /\ users'[p.username].is_logged_in
                   /\ users'[p.username].token = token_of(p, a)
                   /\ users'[p.username].socket_fd = l,
               ~Signed(p, a) =>
                   \A n \in DOMAIN users' :
                       ~(users'[n].is_logged_in /\ users'[n].socket_fd = l),
               \A d \in Clients \ {c} : link[d] # NoFd => KeptOn(link[d])
        PROVE  SystemInv'
    <2>1. OnTheWire(p, a, l)
      BY <1>1, <1>3, <1>5, KindsDiffer DEF OnTheWire, Answers
    <2>2. Control(p, a, l)
      BY <1>2, <2>1 DEF Control
    <2>3. Control(client[c], wire[c], link[c])'
      BY <1>3, <2>2 DEF Control, Standing, OnTheWire, Asked, OtherRequest
    <2>4. PrivilegeAgrees(client[c], wire[c])'
      BY <1>2, <1>3, <1>5 DEF PrivilegeAgrees, HasRole, SameUsers
    <2>5. ConnectionAgrees(client[c], wire[c], link[c])'
      BY <1>1, <1>3, <1>5 DEF ConnectionAgrees, Signed, token_of, SessionOn, Vacant
    <2>6. (\A d \in Clients \ {c} : /\ Control(client[d], wire[d], link[d])
                                    /\ Agreement(client[d], wire[d], link[d]))'
      <3>1. \A d \in Clients : link[d] # NoFd => link[d] \in connected'
        BY <1>5 DEF SystemInv, Agreement, ConnectionAgrees
      <3>2. QED
        BY <1>3, <1>5, <3>1, OthersAgree
    <2>7. OneEach' /\ serving' \in BOOLEAN
      BY <1>3 DEF SystemInv, OneEach
    <2>8. client' = [d \in Clients |-> client'[d]] /\ link' = [d \in Clients |-> link'[d]]
      BY <1>3 DEF SystemInv
    <2>9. QED
      BY <1>3, <1>4, <2>3, <2>4, <2>5, <2>6, <2>7, <2>8 DEF SystemInv, Agreement
  <1>6. \A d \in Clients \ {c} : link[d] # l
    BY <1>1 DEF SystemInv, OneEach
  <1>7. CASE /\ p.call \notin {"sign_in", "recover", "logout"}
             /\ SessionsKept /\ answer' \in Answers /\ UNCHANGED connected
             /\ p.call \in {"user_info", "profile", "rooms"} => answer' = "success"
    <2>1. (Signed(p, a) <=> Signed(p, w)) /\ token_of(p, a) = token_of(p, w)
      BY <1>7 DEF Signed, token_of
    <2>2. \A k : KeptOn(k)
      BY <1>7, KeptEverywhere DEF SessionsKept
    <2>3. /\ Signed(p, a) => SessionOn(p.username, token_of(p, a), l)
          /\ ~Signed(p, a) => Vacant(l)
      BY <1>1, <1>2, <2>1 DEF ConnectionAgrees
    <2> HIDE DEF p, a, l
    <2>4. /\ Signed(p, a) =>
                /\ p.username \in DOMAIN users' /\ users'[p.username].is_logged_in
                /\ users'[p.username].token = token_of(p, a)
                /\ users'[p.username].socket_fd = l
          /\ ~Signed(p, a) =>
                \A n \in DOMAIN users' :
                    ~(users'[n].is_logged_in /\ users'[n].socket_fd = l)
      BY <2>2, <2>3 DEF SessionOn, Vacant, KeptOn
    <2>5. QED
      BY <1>5, <1>7, <2>2, <2>4 DEF SessionsKept
  <1>8. CASE /\ p.call \in {"sign_in", "recover"} /\ w.kind = "sign_in"
             /\ w.username = p.username
             /\ sign_in(p.username, p.password, l)
    <2>1. p.username \in Usernames
      BY <1>1, <1>8 DEF Standing, MemberCalls
    <2>2. ~Signed(p, w)
      BY <1>1, <1>8 DEF Signed, Standing, GuestCalls
    <2>3. Vacant(l)
      BY <1>1, <1>2, <2>2 DEF ConnectionAgrees
    <2>4. UNCHANGED connected /\ token_of(p, a) = a.token
      BY <1>1, <1>2, <1>8, <2>1, LetIn DEF token_of
    <2>5. CASE answer' = "error" /\ users' = users
      <3>1. ~Signed(p, a)
        BY <1>1, <1>3, <1>8, <2>5 DEF Signed, Standing, GuestCalls
      <3>2. SameUsers /\ \A k : KeptOn(k)
        BY <2>5 DEF SameUsers, KeptOn
      <3>3. \A n \in DOMAIN users' : ~(users'[n].is_logged_in /\ users'[n].socket_fd = l)
        BY <2>3, <2>5 DEF Vacant
      <3> HIDE DEF p, a, l
      <3>4. QED
        BY <1>5, <1>8, <2>4, <2>5, <3>1, <3>2, <3>3 DEF Answers
    <2>6. CASE answer' # "error"
      <3>1. /\ answer' = "success"
            /\ p.username \in DOMAIN users /\ ~users[p.username].is_logged_in
            /\ users[p.username].privilege \in BOOLEAN
            /\ DOMAIN users' = DOMAIN users
            /\ users'[p.username].token \in Tokens /\ users'[p.username].is_logged_in
            /\ users'[p.username].socket_fd = l
            /\ \A n \in DOMAIN users \ {p.username} : users'[n] = users[n]
            /\ SameUsers
        BY <1>1, <1>2, <1>8, <2>1, <2>6, LetIn
      <3>2. /\ a.token = users'[p.username].token
            /\ a.privilege = users[p.username].privilege
        BY <1>3, <1>8, <3>1 DEF answer_to, Cli!decode!response
      <3>3. \A k : k # l => KeptOn(k)
        BY <3>1 DEF KeptOn
      <3>4. Signed(p, a)
        BY <1>3, <1>8, <3>1 DEF Signed
      <3> HIDE DEF p, a, l
      <3>5. QED
        BY <1>5, <1>6, <1>8, <2>4, <3>1, <3>2, <3>3, <3>4 DEF Answers, HasRole
    <2>7. QED
      BY <1>1, <1>2, <1>8, <2>1, <2>5, <2>6, LetIn
  <1>9. CASE p.call = "logout" /\ w.kind = "logout" /\ log_out(p.token)
    <2>1. SessionOn(p.username, p.token, l)
      BY <1>1, <1>2, <1>9 DEF ConnectionAgrees, Signed, token_of
    <2>2. /\ answer' = "success" /\ UNCHANGED connected
          /\ SameUsers /\ DOMAIN users' = DOMAIN users
          /\ ~users'[p.username].is_logged_in
          /\ \A n \in DOMAIN users \ {p.username} : users'[n] = users[n]
      BY <1>2, <1>9, <2>1, ShownOut DEF SessionOn
    <2>3. \A k : k # l => KeptOn(k)
      BY <2>1, <2>2 DEF KeptOn, SessionOn
    <2>4. \A n \in DOMAIN users' : ~(users'[n].is_logged_in /\ users'[n].socket_fd = l)
      BY <1>2, <2>1, <2>2 DEF SessionHasConnection, SessionOn
    <2>5. ~Signed(p, a)
      BY <1>3, <1>9, <2>2 DEF Signed
    <2> HIDE DEF p, a, l
    <2>6. QED
      BY <1>5, <1>6, <1>9, <2>2, <2>3, <2>4, <2>5 DEF Answers
  <1>10. CASE \/ /\ p.call \in {"user_info", "profile"}
                 /\ view(view_user_information(p.token))
              \/ p.call = "rooms" /\ view(view_rooms_info(p.token))
    <2>1. Signed(p, w) /\ token_of(p, w) = p.token
      BY <1>1, <1>10 DEF Signed, token_of, Standing, MemberCalls
    <2>2. SessionOn(p.username, p.token, l)
      BY <1>1, <1>2, <2>1 DEF ConnectionAgrees
    <2>3. sessions(p.token) # {}
      BY <2>2 DEF SessionOn, sessions
    <2>4. answer' = "success" /\ UNCHANGED <<users, connected>>
      BY <1>10, <2>3 DEF view, view_user_information, view_rooms_info, get_role
    <2>5. QED
      BY <1>7, <1>10, <2>4, NobodyTouched DEF Answers
  <1>11. CASE p.call \notin {"sign_in", "recover", "logout", "user_info", "profile", "rooms"}
              /\ QuietRequest
    BY <1>2, <1>7, <1>11, QuietKept
  <1>12. QED
    BY <1>8, <1>9, <1>10, <1>11, ToBeServed, Diagnosed

-----------------------------------------------------------------------------
(* What was saved, and an interrupt that goes back to it.                   *)

(* What was saved is of users and rooms that fit together; whoever was      *)
(* saved is still there, and who has come since is a guest.                 *)
SavedInv ==
    /\ SavedUsers(files.users) /\ SavedRooms(files.rooms)
    /\ files.ledger \in [Accounts -> [spent : Int, refunded : Int]]
    /\ OwnedBy(files.rooms, files.users)
    /\ Among(files.users, users)
    /\ \A n \in DOMAIN users \ DOMAIN files.users : ~users[n].privilege
    /\ undone \subseteq Usernames

(* What the server does in memory leaves it so.                             *)
LEMMA FilesLeft ==
    ASSUME SystemInv, SavedInv, [ServerNext]_serverVars, UNCHANGED fileVars
    PROVE  SavedInv'
  <1>1. SameUsers
    BY ServedSameUsers DEF SystemInv
  <1>2. files' = files /\ undone' = undone
    BY DEF fileVars
  <1>3. /\ Among(files.users, users')
        /\ \A n \in DOMAIN users' \ DOMAIN files.users : ~users'[n].privilege
    BY <1>1 DEF SavedInv, Among, SameUsers
  <1>4. QED
    BY <1>2, <1>3 DEF SavedInv, Accounts

(* "exit" saves everything.                                                 *)
LEMMA ShutDown ==
    ASSUME SystemInv, SavedInv, NEW day \in Days, shut_down(day)
    PROVE  SystemInv' /\ SavedInv' /\ ServerNext
  <1>1. restart(day) /\ server_ends /\ ServerNext /\ undone' = undone
    BY DEF shut_down, ServerNext
  <1>2. ServerInv /\ ServerInv'
    BY <1>1, ServerStepInv DEF SystemInv
  <1>3. SameUsers
    BY <1>1, <1>2, ServedSameUsers
  <1>4. DOMAIN users' = DOMAIN users
    BY <1>1 DEF restart, restart_users
  <1>5. SystemInv'
    <2>1. RolesKept
      BY <1>3, <1>4 DEF RolesKept, SameUsers
    <2>2. QED
      BY <1>1, <1>2, <2>1, ServerEnded
  <1>6. CASE ~Interrupts
    <2>1. UNCHANGED fileVars
      BY <1>1, <1>6 DEF shut_down, fileVars
    <2>2. QED
      BY <1>1, <1>5, <2>1, FilesLeft
  <1>7. CASE Interrupts
    <2>1. files'.users = users' /\ files'.rooms = rooms /\ files'.ledger = ledger
      BY <1>7 DEF shut_down
    <2>2. SavedUsers(users')
      <3>1. \A n \in DOMAIN users : users[n] \in UserData
        BY <1>2 DEF ServerInv, UsersInv, UserInv, UserTypeOK
      <3>2. \A n \in DOMAIN users' : ~users'[n].is_logged_in /\ users'[n].token = Blank
        BY <1>1, <3>1 DEF restart, restart_users, UserData
      <3>3. QED
        BY <1>2, <3>2 DEF ServerInv, UsersInv, UserInv, UserTypeOK, DistinctIds, IdsAreGuests,
                          SavedUsers
    <2>3. SavedRooms(rooms) /\ OwnedBy(rooms, users')
      <3>1. OwnedBy(rooms, users) /\ Among(users, users')
        BY <1>2, <1>3 DEF ServerInv, Owned, OwnedBy, SameUsers, Among
      <3>2. QED
        BY <1>2, <3>1, RoomsWritten, StillOwned DEF ServerInv
    <2>4. ledger \in [Accounts -> [spent : Int, refunded : Int]]
      BY <1>2 DEF ServerInv, AccountsTyped
    <2>5. Among(users', users')
      BY DEF Among
    <2>6. SavedInv'
      BY <1>1, <2>1, <2>2, <2>3, <2>4, <2>5 DEF SavedInv, Accounts
    <2>7. QED
      BY <1>1, <1>5, <2>6
  <1>8. QED
    BY <1>6, <1>7

(* An interrupt leaves the server in order as of the last exit, and nobody  *)
(* with a role that is not the one the clients remember.                    *)
LEMMA Interrupted ==
    ASSUME SystemInv, SavedInv, NEW day \in Days, interrupt(day)
    PROVE  SystemInv' /\ SavedInv'
  <1>1. /\ server_ends
        /\ users' = files.users /\ ledger' = files.ledger
        /\ today_date' = day /\ rooms' = update_date(files.rooms, day)
        /\ connected' = {} /\ answer' = "none"
        /\ files' = files
    BY DEF interrupt
  <1>2. SavedUsers(users')
    BY <1>1 DEF SavedInv
  <1>3. UsersInv'
    BY <1>2 DEF SavedUsers, UsersInv, UserInv, UserTypeOK, SessionPerToken, DistinctIds,
                IdsAreGuests
  <1>4. /\ HotelInv' /\ DOMAIN rooms' = DOMAIN files.rooms
        /\ \A r \in DOMAIN files.rooms : rooms'[r].users \subseteq files.rooms[r].users
    BY <1>1, RoomsRead DEF SavedInv
  <1>5. SessionHasConnection'
    BY <1>2 DEF SavedUsers, SessionHasConnection
  <1>6. Owned'
    BY <1>1, <1>4 DEF SavedInv, OwnedBy, Owned
  <1>7. AccountsTyped'
    BY <1>1 DEF SavedInv, AccountsTyped, Accounts
  <1>8. ServerInv'
    BY <1>3, <1>4, <1>5, <1>6, <1>7 DEF ServerInv
  <1>9. RolesKept
    BY <1>1 DEF SavedInv, Among, RolesKept
  <1>10. SystemInv'
    BY <1>1, <1>8, <1>9, ServerEnded
  <1>11. undone' \subseteq Usernames
    BY DEF interrupt, SavedInv, SystemInv, ServerInv, UsersInv, UserInv, UserTypeOK
  <1>12. Among(users', users')
    BY DEF Among
  <1>13. SavedInv'
    BY <1>1, <1>11, <1>12 DEF SavedInv, Accounts
  <1>14. QED
    BY <1>10, <1>13

-----------------------------------------------------------------------------
(* The inductive invariant, and what follows from it.                       *)

(* Every step of the system keeps the invariant, and is to the server one   *)
(* of its own steps or none, unless it is an interrupt.                     *)
LEMMA SystemStepInv ==
    ASSUME SystemInv, SavedInv, [SystemNext]_systemVars
    PROVE  /\ SystemInv' /\ SavedInv'
           /\ ~Interrupts => [ServerNext]_serverVars
  <1>1. ASSUME SystemInv', [ServerNext]_serverVars, UNCHANGED fileVars
        PROVE  SystemInv' /\ SavedInv' /\ [ServerNext]_serverVars
    BY <1>1, FilesLeft
  <1>2. ASSUME NEW c \in Clients, type_line(c) \/ run(c) PROVE SystemInv' /\ SavedInv'
    BY <1>1, <1>2, LineTyped, ProgramStep DEF type_line, run
  <1>3. ASSUME NEW c \in Clients, connect_to_server(c)
        PROVE  SystemInv' /\ SavedInv' /\ [ServerNext]_serverVars
    <2>1. UNCHANGED fileVars
      BY <1>3 DEF connect_to_server
    <2>2. CASE Cli!connection_refused(c) /\ UNCHANGED <<serverVars, serving>>
      BY <1>1, <2>1, <2>2, Recovering
    <2>3. ASSUME NEW fd \in Fds, accept_client(fd), Cli!connection_made(c, fd),
                 UNCHANGED serving
          PROVE  SystemInv' /\ ServerNext
      BY <2>3, ConnectionMade DEF ServerNext, ServerStep
    <2>4. QED
      BY <1>1, <1>3, <2>1, <2>2, <2>3 DEF connect_to_server
  <1>4. ASSUME NEW c \in Clients, serve(c)
        PROVE  SystemInv' /\ SavedInv' /\ [ServerNext]_serverVars
    BY <1>1, <1>4, Served, ServedStep DEF serve
  <1>5. ASSUME NEW c \in Clients, lose_connection(c) PROVE SystemInv' /\ SavedInv'
    BY <1>1, <1>5, ConnectionLost DEF lose_connection
  <1>6. ASSUME NEW fd \in Fds, hear_the_end(fd)
        PROVE  SystemInv' /\ SavedInv' /\ [ServerNext]_serverVars
    BY <1>1, <1>6, EndHeard DEF hear_the_end, ServerNext, ServerStep
  <1>7. ASSUME NEW d \in Days, shut_down(d)
        PROVE  SystemInv' /\ SavedInv' /\ [ServerNext]_serverVars
    BY <1>7, ShutDown
  <1>8. ASSUME NEW d \in Days, interrupt(d)
        PROVE  SystemInv' /\ SavedInv' /\ Interrupts
    BY <1>8, Interrupted DEF interrupt
  <1>9. CASE start \/ UNCHANGED systemVars
    <2>1. /\ UNCHANGED <<serverVars, client, wire, link>> /\ UNCHANGED fileVars
          /\ serving' \in BOOLEAN
      BY <1>9 DEF start, systemVars, SystemInv
    <2>2. QED
      BY <1>1, <2>1, ServerStarted
  <1>10. \A c \in Clients : type_line(c) \/ run(c) \/ lose_connection(c)
             => UNCHANGED serverVars
    BY DEF type_line, run, lose_connection
  <1>11. start \/ UNCHANGED systemVars => UNCHANGED serverVars
    BY DEF start, systemVars
  <1>12. QED
    BY <1>2, <1>3, <1>4, <1>5, <1>6, <1>7, <1>8, <1>9, <1>10, <1>11 DEF SystemNext

(* At first both files have just been read.                                 *)
LEMMA SavedInitInv == SystemInit => SavedInv
  <1> SUFFICES ASSUME SystemInit PROVE SavedInv
    OBVIOUS
  <1>1. /\ ServerInv
        /\ files.users = users /\ files.rooms = rooms /\ files.ledger = ledger
        /\ undone = {}
    BY ServerInitInv DEF SystemInit
  <1>2. \A n \in DOMAIN users : ~users[n].is_logged_in /\ users[n].token = Blank
    BY DEF SystemInit, ServerInit, UserInit
  <1>3. SavedUsers(users) /\ Among(users, users)
    BY <1>1, <1>2 DEF ServerInv, UsersInv, UserInv, UserTypeOK, DistinctIds, IdsAreGuests,
                      SavedUsers, Among
  <1>4. OwnedBy(rooms, users) /\ SavedRooms(rooms)
    BY <1>1, RoomsWritten DEF ServerInv, Owned, OwnedBy
  <1>5. QED
    BY <1>1, <1>3, <1>4 DEF SavedInv, ServerInv, AccountsTyped

THEOREM SystemInvariance == SystemSpec => [](SystemInv /\ SavedInv)
  <1>1. SystemInit => SystemInv /\ SavedInv
    BY SystemInitInv, SavedInitInv
  <1>2. SystemInv /\ SavedInv /\ [SystemNext]_systemVars => (SystemInv /\ SavedInv)'
    BY SystemStepInv
  <1>3. QED
    BY <1>1, <1>2, PTL DEF SystemSpec

(* The server among its clients does nothing but what the server does for   *)
(* the requests of anybody, as long as it ends at "exit" only: what is      *)
(* proved of it alone holds in the system.                                  *)
THEOREM SystemRefinesServer ==
    ASSUME ~Interrupts
    PROVE  SystemSpec => ServerSpec
  <1>1. SystemInit => ServerInit
    BY DEF SystemInit
  <1>2. SystemInv /\ SavedInv /\ [SystemNext]_systemVars => [ServerNext]_serverVars
    BY SystemStepInv
  <1>3. QED
    BY <1>1, <1>2, SystemInvariance, PTL DEF SystemSpec, ServerSpec

(* So in a plain trade nobody among the clients gets a bed that was not     *)
(* paid for, or more than half back, as long as nobody interrupts the       *)
(* server.                                                                  *)
THEOREM SystemHeldIsPaid ==
    ASSUME ~Interrupts
    PROVE  SystemSpec => []HeldIsPaid
  <1>1. QED
    BY SystemRefinesServer, ServerHeldIsPaid, PTL

(* Every reservation has its owner and no session outlives its connection,  *)
(* in whatever way the server ends.                                         *)
THEOREM SystemOneOwner ==
    SystemSpec => [](ReservationsHaveOneOwner /\ SessionHasConnection)
  <1>1. SystemInv => ReservationsHaveOneOwner /\ SessionHasConnection
    BY DEF SystemInv, ServerInv, UsersInv, UserInv, DistinctIds, Owned,
           ReservationsHaveOneOwner
  <1>2. QED
    BY <1>1, SystemInvariance, PTL

(* The server, the programs, the messages, the connections and what was     *)
(* saved keep their types.                                                  *)
THEOREM SystemTypeCorrect == SystemSpec => []SystemTypeOK
  <1>1. SystemInv => ServerTypeOK
    BY DEF SystemInv, ServerInv, HotelInv, SoundRoom, BookedRoom, HotelTypeOK, UsersInv,
           UserInv, AccountsTyped, ServerTypeOK
  <1>2. SystemInv => Cli!ClientTypeOK /\ serving \in BOOLEAN
    <2> SUFFICES ASSUME SystemInv PROVE Cli!ClientTypeOK
      BY DEF SystemInv
    <2>1. \A c \in Clients : /\ client[c] \in Cli!Command
                             /\ link[c] \in Fds \cup {NoFd}
                             /\ wire[c].kind \in Cli!decode!RequestKinds \cup
                                                 {"silence", "success", "error"}
      BY DEF SystemInv, Control, OnTheWire, Answers
    <2>2. client \in [Clients -> Cli!Command] /\ link \in [Clients -> Fds \cup {NoFd}]
      BY <2>1 DEF SystemInv
    <2>3. QED
      BY <2>1, <2>2 DEF Cli!ClientTypeOK
  <1>3. SystemInv /\ SavedInv => SystemTypeOK
    <2> SUFFICES ASSUME SystemInv, SavedInv
                 PROVE  /\ DOMAIN files.users \subseteq Usernames
                        /\ DOMAIN files.rooms \subseteq RoomNumbers
                        /\ files.users \in [DOMAIN files.users -> UserData]
                        /\ files.rooms \in [DOMAIN files.rooms -> Room]
                        /\ files.ledger \in [Accounts -> [spent : Int, refunded : Int]]
                        /\ undone \subseteq Usernames
      BY <1>1, <1>2 DEF SystemTypeOK
    <2>1. files.rooms \in [DOMAIN files.rooms -> Room]
      BY DEF SavedInv, SavedRooms, BookedRoom
    <2>2. QED
      BY <2>1 DEF SavedInv, SavedUsers, SavedRooms
  <1>4. QED
    BY <1>3, SystemInvariance, PTL

(* A program that is signed in and connected holds the session the server   *)
(* has for its user, on that connection and with that user's privilege,     *)
(* whatever was lost, restarted and recovered before.                       *)
THEOREM SystemSessionsAgree == SystemSpec => []SessionsAgree
  <1>1. SystemInv => SessionsAgree
    <2> SUFFICES ASSUME SystemInv, NEW c \in Clients, believes(c)
                 PROVE  /\ SessionOn(client[c].username, client[c].token, link[c])
                        /\ users[client[c].username].privilege = client[c].privilege_access
      BY DEF SessionsAgree, SessionOn
    <2>1. Standing(client[c]) /\ Agreement(client[c], wire[c], link[c])
      BY DEF SystemInv, Control
    <2>2. client[c].call # "sign_in"
      BY <2>1 DEF believes, Standing, GuestCalls
    <2>3. /\ Signed(client[c], wire[c])
          /\ token_of(client[c], wire[c]) = client[c].token
      BY <2>2 DEF believes, Signed, token_of
    <2>4. QED
      <3>1. /\ client[c].logged_in
            /\ SessionOn(client[c].username, client[c].token, link[c])
        BY <2>1, <2>3 DEF believes, Agreement, ConnectionAgrees
      <3>2. users[client[c].username].privilege <=> client[c].privilege_access
        BY <2>1, <3>1 DEF Agreement, PrivilegeAgrees, HasRole, SessionOn
      <3>3. client[c] \in Cli!Command /\ users[client[c].username] \in UserData
        BY <3>1 DEF SystemInv, Control, ServerInv, UsersInv, UserInv, UserTypeOK, SessionOn
      <3>4. QED
        BY <3>1, <3>2, <3>3 DEF Cli!Command, UserData
  <1>2. QED
    BY <1>1, SystemInvariance, PTL

(* Nobody asks to sign in over a connection that has a session, which is    *)
(* what the server's handler relies on.                                     *)
THEOREM SystemSignsInAsNobody == SystemSpec => []SignsInAsNobody
  <1>1. SystemInv => SignsInAsNobody
    <2> SUFFICES ASSUME SystemInv, NEW c \in Clients, wire[c].kind = "sign_in"
                 PROVE  Vacant(link[c])
      BY DEF SignsInAsNobody, Vacant
    <2> DEFINE p == client[c]
               w == wire[c]
    <2>1. Control(p, w, link[c]) /\ ConnectionAgrees(p, w, link[c])
      BY DEF SystemInv, Agreement
    <2>2. w.kind \in Cli!decode!RequestKinds /\ w.kind # "success"
      BY DEF Cli!decode!RequestKinds
    <2>3. link[c] # NoFd /\ Asked(p, w) /\ Standing(p)
      BY <2>1, <2>2 DEF Control, OnTheWire
    <2>4. p.call \in {"sign_in", "recover"}
      BY <2>3, KindOfCall
    <2>5. ~Signed(p, w)
      BY <2>2, <2>3, <2>4 DEF Signed, Standing, GuestCalls
    <2>6. QED
      BY <2>1, <2>3, <2>5 DEF ConnectionAgrees
  <1>2. QED
    BY <1>1, SystemInvariance, PTL

(* No answer without data is parsed as data, but in a recovery.             *)
THEOREM SystemAbortsOnlyRecovering == SystemSpec => []AbortsOnlyRecovering
  <1>1. SystemInv => AbortsOnlyRecovering
    BY DEF SystemInv, Control, Standing, AbortsOnlyRecovering
  <1>2. QED
    BY <1>1, SystemInvariance, PTL

(* What only an administrator may do is asked for with the token of an      *)
(* administrator's session, and a departure with a guest's, also after the  *)
(* program recovered.                                                       *)
THEOREM SystemAsksWhatItsUserMay == SystemSpec => []AsksWhatItsUserMay
  <1> DEFINE ForAdmins == {"emptying", "add_room", "modify_room", "remove_room"}
  <1>1. ASSUME NEW p, NEW w, OtherRequest(p, w), w.kind \in ForAdmins \cup {"leaving"}
        PROVE  /\ w.token = p.token
               /\ w.kind \in ForAdmins => p.privilege_access
               /\ w.kind = "leaving" => ~p.privilege_access
    BY <1>1 DEF OtherRequest, Cli!decode!get_users,
             Cli!decode!book_room, Cli!decode!cancel_booking,
             Cli!decode!passing_time, Cli!decode!edit_information, Cli!decode!leave_room,
             Cli!decode!empty_room, Cli!decode!remove_room, Cli!decode!add_room,
             Cli!decode!modify_room
  <1>2. SystemInv => AsksWhatItsUserMay
    <2> SUFFICES ASSUME SystemInv, NEW c \in Clients,
                        wire[c].kind \in ForAdmins \cup {"leaving"}
                 PROVE  /\ wire[c].kind \in ForAdmins => is_admin(wire[c].token)
                        /\ wire[c].kind = "leaving" => is_guest(wire[c].token)
      BY DEF AsksWhatItsUserMay
    <2> DEFINE p == client[c]
               w == wire[c]
    <2>1. Control(p, w, link[c]) /\ Agreement(p, w, link[c])
      BY DEF SystemInv
    <2>2. w.kind \in Cli!decode!RequestKinds /\ w.kind # "silence"
      BY DEF Cli!decode!RequestKinds
    <2>3. link[c] # NoFd /\ Asked(p, w) /\ Standing(p) /\ p.at = "waiting"
      BY <2>1, <2>2 DEF Control, OnTheWire
    <2>4. p.call = "other" /\ OtherRequest(p, w)
      BY <2>3, KindOfCall
    <2>5. /\ w.token = p.token
          /\ w.kind \in ForAdmins => p.privilege_access
          /\ w.kind = "leaving" => ~p.privilege_access
      BY <1>1, <2>4
    <2>6. p.logged_in /\ Signed(p, w) /\ token_of(p, w) = p.token
      BY <2>3, <2>4 DEF Standing, Signed, token_of, MemberCalls
    <2>7. /\ SessionOn(p.username, p.token, link[c])
          /\ users[p.username].privilege <=> p.privilege_access
      BY <2>1, <2>3, <2>6 DEF Agreement, PrivilegeAgrees, HasRole, ConnectionAgrees,
                             SessionOn
    <2>8. p.username \in sessions(p.token)
      BY <2>7 DEF SessionOn, sessions
    <2>9. search_by_token(p.token) \in sessions(p.token)
      BY <2>8, TokenFound DEF sessions
    <2>10. search_by_token(p.token) = p.username
      BY <2>8, <2>9
         DEF sessions, SystemInv, ServerInv, UsersInv, UserInv, SessionPerToken
    <2>11. get_role(p.token) = IF p.privilege_access THEN "ADMIN" ELSE "USER"
      BY <2>7, <2>8, <2>10 DEF get_role
    <2>12. QED
      BY <2>5, <2>11 DEF is_admin, is_guest
  <1>3. QED
    BY <1>2, SystemInvariance, PTL

-----------------------------------------------------------------------------
(* What a step may never do.                                                *)

(* A step of one client's program is no step of another's.                  *)
LEMMA OneProgram ==
    ASSUME SystemInv, NEW c \in Clients, NEW d \in Clients, c # d,
           \/ Cli!line_typed(d) \/ Cli!program_step(d) \/ Cli!connection_refused(d)
           \/ \E fd \in Fds : Cli!connection_made(d, fd)
    PROVE  client'[c] = client[c] /\ wire'[c] = wire[c]
  <1>1. client = [k \in Clients |-> client[k]] /\ wire = [k \in Clients |-> wire[k]]
    BY DEF SystemInv
  <1>2. ASSUME NEW q, Cli!goes_on(d, q) PROVE client'[c] = client[c]
    BY <1>1, <1>2 DEF Cli!goes_on
  <1>3. ASSUME NEW m, wire' = wire \/ wire' = [wire EXCEPT ![d] = m]
        PROVE  wire'[c] = wire[c]
    BY <1>1, <1>3
  <1> DEFINE Done == client'[c] = client[c] /\ wire'[c] = wire[c]
  <1>4. ASSUME NEW p, NEW call, NEW m, NEW otherwise,
               Cli!request(d, p, call, m, otherwise)
        PROVE  Done
    BY <1>2, <1>3, <1>4 DEF Cli!request
  <1>5. ASSUME NEW call, NEW m, Cli!ask(d, call, m) PROVE Done
    BY <1>4, <1>5 DEF Cli!ask
  <1>6. ASSUME NEW call, NEW kind, NEW p, Cli!hear(d, call, kind, p) PROVE Done
    BY <1>2, <1>3, <1>6 DEF Cli!hear
  <1>7. ASSUME NEW q, Cli!goes_on(d, q), Cli!hang_up(d) \/ UNCHANGED wire PROVE Done
    BY <1>2, <1>3, <1>7 DEF Cli!hang_up
  <1> HIDE DEF Done
  <1> SUFFICES Done
    BY DEF Done
  <1>8. CASE \/ Cli!signup(d) \/ Cli!signup_form(d) \/ Cli!login(d)
             \/ Cli!edit_form(d) \/ Cli!cancel_form(d)
    BY <1>4, <1>8 DEF Cli!signup, Cli!signup_form, Cli!login, Cli!edit_form,
                      Cli!cancel_form
  <1>9. CASE \/ Cli!logout(d) \/ Cli!view_user_info(d) \/ Cli!view_users(d)
             \/ Cli!view_rooms(d) \/ Cli!edit_information(d) \/ Cli!book_room(d)
             \/ Cli!cancel_reservation(d) \/ Cli!pass_day(d) \/ Cli!leave_room(d)
             \/ Cli!hotel_management(d)
    BY <1>5, <1>9 DEF Cli!logout, Cli!view_user_info, Cli!view_users, Cli!view_rooms,
                      Cli!edit_information, Cli!book_room, Cli!cancel_reservation,
                      Cli!pass_day, Cli!leave_room, Cli!hotel_management
  <1>10. CASE \/ Cli!local_command(d) \/ Cli!press_enter(d)
              \/ Cli!quit(d) \/ Cli!leave_form(d)
              \/ Cli!answer_lost(d) \/ Cli!drained(d) \/ Cli!recovery_unanswered(d)
              \/ Cli!connection_refused(d)
              \/ \E fd \in Fds : Cli!connection_made(d, fd)
    BY <1>7, <1>10 DEF Cli!local_command, Cli!press_enter, Cli!quit, Cli!leave_form,
                       Cli!answer_lost, Cli!drained, Cli!reconnect, Cli!recovery_unanswered,
                       Cli!connection_refused, Cli!connection_made
  <1>11. CASE Cli!poll(d)
    BY <1>7, <1>11 DEF Cli!poll, Cli!reconnect
  <1>12. CASE \/ Cli!name_is_free(d) \/ Cli!name_is_taken(d)
              \/ Cli!signed_in(d) \/ Cli!sign_in_refused(d) \/ Cli!logged_out(d)
              \/ Cli!user_info_shown(d) \/ Cli!profile_shown(d) \/ Cli!rooms_shown(d)
              \/ Cli!reservations_shown(d) \/ Cli!no_reservations(d)
              \/ Cli!answered_other(d) \/ Cli!recovered(d) \/ Cli!recovery_refused(d)
    BY <1>6, <1>12 DEF Cli!name_is_free, Cli!name_is_taken, Cli!signed_in,
                       Cli!sign_in_refused, Cli!logged_out, Cli!user_info_shown,
                       Cli!profile_shown, Cli!rooms_shown, Cli!reservations_shown,
                       Cli!no_reservations, Cli!answered_other, Cli!recovered,
                       Cli!recovery_refused
  <1>13. CASE Cli!signup_shown(d)
    BY <1>6, <1>7, <1>13 DEF Cli!signup_shown
  <1>14. CASE Cli!recover_state(d)
    BY <1>4, <1>7, <1>14 DEF Cli!recover_state
  <1>15. QED
    BY <1>8, <1>9, <1>10, <1>11, <1>12, <1>13, <1>14
       DEF Cli!line_typed, Cli!program_step

(* A program that looks at its connection can only look, or be ended.       *)
LEMMA LooksOnly ==
    ASSUME NEW c \in Clients, client[c].at = "poll",
           Cli!line_typed(c) \/ Cli!program_step(c)
    PROVE  Cli!quit(c) \/ Cli!poll(c)
  BY DEF Cli!line_typed, Cli!program_step, Cli!local_command, Cli!press_enter,
         Cli!rooms_shown, Cli!signup, Cli!signup_form, Cli!login, Cli!logout, Cli!view_user_info, Cli!view_users,
         Cli!view_rooms, Cli!edit_information, Cli!edit_form, Cli!leave_form,
         Cli!book_room, Cli!cancel_reservation, Cli!cancel_form, Cli!pass_day,
         Cli!leave_room, Cli!hotel_management, Cli!ask, Cli!initial_state,
         Cli!reservation_state, Cli!name_is_free, Cli!name_is_taken, Cli!signup_shown,
         Cli!signed_in, Cli!sign_in_refused, Cli!logged_out, Cli!user_info_shown,
         Cli!profile_shown, Cli!reservations_shown, Cli!no_reservations,
         Cli!answered_other, Cli!answer_lost, Cli!drained, Cli!recover_state,
         Cli!recovered, Cli!recovery_refused, Cli!recovery_unanswered, Cli!hear

(* A program does not give up a connection that carries its session: what   *)
(* it believes of the server is out of date only while it recovers.         *)
THEOREM SystemKeepsSession == SystemSpec => KeepsSession
  <1>1. ASSUME SystemInv, [SystemNext]_systemVars, NEW c \in Clients,
               client[c].logged_in, client[c].at = "poll", client'[c].at = "connect"
        PROVE  link[c] = NoFd
    <2>1. Control(client[c], wire[c], link[c])
      BY <1>1 DEF SystemInv
    <2>2. client[c].call = "none" /\ client[c] \in Cli!Command
      BY <1>1, <2>1 DEF Control, Standing
    <2>3. client'[c] # client[c]
      BY <1>1
    <2>4. ~(client' = client)
      BY <2>3
    <2>5. PICK d \in Clients : type_line(d) \/ run(d) \/ connect_to_server(d)
      BY <1>1, <2>4 DEF SystemNext, systemVars, serve, lose_connection, hear_the_end,
                        shut_down, interrupt, server_ends, start
    <2>6. d = c
      BY <1>1, <2>3, <2>5, OneProgram DEF type_line, run, connect_to_server
    <2>7. Cli!quit(c) \/ Cli!poll(c)
      <3>1. ~connect_to_server(c)
        BY <1>1 DEF connect_to_server, Cli!connection_made, Cli!connection_refused
      <3>2. QED
        BY <1>1, <2>5, <2>6, <3>1, LooksOnly DEF type_line, run
    <2>8. client = [k \in Clients |-> client[k]]
      BY <1>1 DEF SystemInv
    <2>9. CASE Cli!quit(c)
      <3>1. client'[c].at = "gone"
        BY <2>2, <2>8, <2>9 DEF Cli!quit, Cli!goes_on, Cli!Command
      <3>2. QED
        BY <1>1, <3>1
    <2>10. CASE Cli!poll(c)
      <3>1. ASSUME NEW at \in {"drain", "prompt"},
                   Cli!goes_on(c, [client[c] EXCEPT !.at = at])
            PROVE  FALSE
        <4>1. client'[c].at = at
          BY <2>2, <2>8, <3>1 DEF Cli!goes_on, Cli!Command
        <4>2. QED
          BY <1>1, <4>1
      <3>2. Cli!is_lost(c) \/ ~client[c].is_server_up
        BY <2>10, <3>1 DEF Cli!poll
      <3>3. QED
        BY <1>1, <2>1, <2>2, <3>2 DEF Control, Cli!is_lost
    <2>11. QED
      BY <2>7, <2>9, <2>10
  <1>2. SystemInv /\ [SystemNext]_systemVars
          => [\A c \in Clients :
                 client[c].logged_in /\ client[c].at = "poll" /\ client'[c].at = "connect"
                     => link[c] = NoFd]_systemVars
    BY <1>1
  <1>3. QED
    BY <1>2, SystemInvariance, PTL DEF SystemSpec, KeepsSession

(* Whose name and password the program holds for good: of the user it is    *)
(* signed in as, or has just been let in as.                                *)
Knows(c) ==
    \/ client[c].logged_in
    \/ client[c].call = "sign_in" /\ wire[c].kind = "success"

(* They are the server's, unless an interrupt has undone the user.          *)
Remembered ==
    \A c \in Clients : Knows(c) /\ client[c].username \notin undone
        => /\ client[c].username \in DOMAIN users
           /\ users[client[c].username].password = client[c].password

(* Nothing a client sends is an answer.                                     *)
LEMMA MessageKinds ==
    /\ \A n, pw : Cli!decode!sign_in(n, pw).kind \notin Answers
    /\ \A n : Cli!decode!check_username_is_free(n).kind \notin Answers
    /\ \A n, pw, b, ph, a : Cli!decode!sign_up(n, pw, b, ph, a).kind \notin Answers
    /\ \A t : /\ Cli!decode!logout(t).kind \notin Answers
              /\ Cli!decode!get_user_info(t).kind \notin Answers
              /\ Cli!decode!get_users(t).kind \notin Answers
              /\ Cli!decode!get_rooms_info(t).kind \notin Answers
              /\ Cli!decode!get_reservations(t).kind \notin Answers
    /\ \A t, r, n, i, o : Cli!decode!book_room(t, r, n, i, o).kind \notin Answers
    /\ \A t, r, n : Cli!decode!cancel_booking(t, r, n).kind \notin Answers
    /\ \A t, d : Cli!decode!passing_time(t, d).kind \notin Answers
    /\ \A t, pw, ph, a : Cli!decode!edit_information(t, pw, ph, a).kind \notin Answers
    /\ \A t, r : /\ Cli!decode!leave_room(t, r).kind \notin Answers
                 /\ Cli!decode!empty_room(t, r).kind \notin Answers
                 /\ Cli!decode!remove_room(t, r).kind \notin Answers
    /\ \A t, r, n, b : /\ Cli!decode!add_room(t, r, n, b).kind \notin Answers
                       /\ Cli!decode!modify_room(t, r, n, b).kind \notin Answers
  BY DEF Answers, Cli!decode!sign_in, Cli!decode!check_username_is_free,
         Cli!decode!sign_up, Cli!decode!logout, Cli!decode!get_user_info,
         Cli!decode!get_users, Cli!decode!get_rooms_info, Cli!decode!get_reservations,
         Cli!decode!book_room, Cli!decode!cancel_booking, Cli!decode!passing_time,
         Cli!decode!edit_information, Cli!decode!leave_room, Cli!decode!empty_room,
         Cli!decode!remove_room, Cli!decode!add_room, Cli!decode!modify_room

(* A step of the program learns no other name and no other password.        *)
LEMMA LearnsNothing ==
    ASSUME SystemInv, NEW c \in Clients,
           \/ Cli!line_typed(c) \/ Cli!program_step(c) \/ Cli!connection_refused(c)
           \/ \E fd \in Fds : Cli!connection_made(c, fd)
    PROVE  /\ Knows(c)' => /\ Knows(c) /\ client'[c].username = client[c].username
                           /\ client'[c].password = client[c].password
           /\ wire'[c].kind = "error" => wire'[c] = wire[c]
  <1> DEFINE old == client[c]
             w == wire[c]
             Like(p) == /\ p.logged_in = old.logged_in
                        /\ p.logged_in => /\ p.username = old.username
                                          /\ p.password = old.password
             Done == /\ Knows(c)' => /\ Knows(c) /\ client'[c].username = old.username
                                     /\ client'[c].password = old.password
                     /\ wire'[c].kind = "error" => wire'[c] = w
  <1>1. old \in Cli!Command /\ OnTheWire(old, w, link[c]) /\ Standing(old)
    BY DEF SystemInv, Control
  <1>2. client = [k \in Clients |-> client[k]] /\ wire = [k \in Clients |-> wire[k]]
    BY DEF SystemInv
  <1>3. ASSUME NEW p \in Cli!Command, Like(p), NEW call, NEW m, NEW otherwise,
               Cli!request(c, p, call, m, otherwise),
               old.at \in {"prompt", "form", "recover"}, m.kind \notin Answers
        PROVE  Done
    <2>1. w.kind \notin Answers
      BY <1>1, <1>3, KindsDiffer DEF OnTheWire
    <2>2. wire'[c] \in {m, w}
      BY <1>2, <1>3 DEF Cli!request
    <2>3. /\ client'[c].logged_in = p.logged_in /\ client'[c].username = p.username
          /\ client'[c].password = p.password
      <3>1. PICK at, k : client' = [client EXCEPT ![c] = [p EXCEPT !.at = at, !.call = k]]
        BY <1>3 DEF Cli!request, Cli!goes_on
      <3>2. client'[c] = [p EXCEPT !.at = at, !.call = k]
        BY <1>2, <3>1
      <3>3. QED
        BY <3>2 DEF Cli!Command
    <2>4. QED
      BY <1>3, <2>1, <2>2, <2>3 DEF Knows, Answers
  <1>4. ASSUME NEW p \in Cli!Command, NEW call, NEW kind, Cli!hear(c, call, kind, p),
               p.logged_in => /\ Knows(c) /\ p.username = old.username
                              /\ p.password = old.password
        PROVE  Done
    <2>1. wire'[c].kind = "silence"
      BY <1>2, <1>4, KindsDiffer DEF Cli!hear
    <2>2. /\ client'[c].logged_in = p.logged_in /\ client'[c].username = p.username
          /\ client'[c].password = p.password
      <3>1. client'[c] = [p EXCEPT !.is_server_up = TRUE]
        BY <1>2, <1>4 DEF Cli!hear, Cli!goes_on
      <3>2. QED
        BY <3>1 DEF Cli!Command
    <2>3. QED
      BY <1>4, <2>1, <2>2 DEF Knows
  <1>5. ASSUME NEW q, Cli!goes_on(c, q), Cli!hang_up(c) \/ UNCHANGED wire,
               q.logged_in = old.logged_in, q.username = old.username,
               q.password = old.password, q.call \in {old.call, "none"}
        PROVE  Done
    <2>1. client'[c] = q
      BY <1>2, <1>5 DEF Cli!goes_on
    <2>2. wire'[c] = w \/ wire'[c].kind = "silence"
      BY <1>2, <1>5, KindsDiffer DEF Cli!hang_up
    <2>3. QED
      BY <1>5, <2>1, <2>2 DEF Knows
  <1> HIDE DEF Done
  <1> SUFFICES Done
    BY DEF Done
  <1>6. /\ Cli!idle(old) \in Cli!Command /\ Cli!form(old) \in Cli!Command
        /\ Cli!aborted(old) \in Cli!Command
        /\ Cli!idle(old).logged_in = old.logged_in
        /\ Cli!idle(old).username = old.username
        /\ Cli!idle(old).password = old.password /\ Cli!idle(old).call = "none"
        /\ Cli!form(old).logged_in = old.logged_in
        /\ Cli!form(old).username = old.username
        /\ Cli!form(old).password = old.password
        /\ Cli!aborted(old).logged_in = old.logged_in
        /\ Cli!aborted(old).username = old.username
        /\ Cli!aborted(old).password = old.password /\ Cli!aborted(old).call = old.call
    <2> HIDE DEF old
    <2>1. QED
      BY <1>1 DEF Cli!idle, Cli!form, Cli!aborted, Cli!Command, Cli!Places, Cli!Calls
  <1>7. ASSUME NEW call, NEW m, Cli!ask(c, call, m), m.kind \notin Answers PROVE Done
    BY <1>1, <1>3, <1>7 DEF Cli!ask, Cli!reservation_state
  <1>8. CASE Cli!signup(c) \/ Cli!login(c)
    <2>1. old.at = "prompt" /\ ~old.logged_in
      BY <1>8 DEF Cli!signup, Cli!login, Cli!initial_state
    <2>2. PICK n \in Usernames, pw \in Passwords \cup {Blank} : \E call, m :
              /\ m.kind \notin Answers
              /\ \/ Cli!request(c, [old EXCEPT !.username = n], call, m, "poll")
                 \/ Cli!request(c, [old EXCEPT !.username = n, !.password = pw], call, m,
                                "poll")
      BY <1>8 DEF Cli!signup, Cli!login, Answers, Cli!decode!sign_in,
                  Cli!decode!check_username_is_free
    <2>3. \A p \in {[old EXCEPT !.username = n],
                    [old EXCEPT !.username = n, !.password = pw]} :
              p \in Cli!Command /\ p.logged_in = old.logged_in
      <3> HIDE DEF old
      <3>1. QED
        BY <1>1 DEF Cli!Command
    <2>4. QED
      BY <1>3, <2>1, <2>2, <2>3
  <1>9. CASE Cli!signup_form(c) \/ Cli!edit_form(c) \/ Cli!cancel_form(c)
    <2>1. old.at = "form"
      BY <1>9 DEF Cli!signup_form, Cli!edit_form, Cli!cancel_form
    <2>2. ASSUME NEW call, NEW m, NEW otherwise, Cli!request(c, old, call, m, otherwise),
                 m.kind \notin Answers
          PROVE  Done
      BY <1>1, <1>3, <2>1, <2>2
    <2>3. QED
      BY <1>9, <2>2, MessageKinds DEF Cli!signup_form, Cli!edit_form, Cli!cancel_form
  <1>10. CASE \/ Cli!logout(c) \/ Cli!view_user_info(c) \/ Cli!view_users(c)
              \/ Cli!view_rooms(c) \/ Cli!edit_information(c) \/ Cli!book_room(c)
              \/ Cli!cancel_reservation(c) \/ Cli!pass_day(c) \/ Cli!leave_room(c)
              \/ Cli!hotel_management(c)
    <2>1. CASE \/ Cli!logout(c) \/ Cli!view_user_info(c) \/ Cli!view_users(c)
               \/ Cli!view_rooms(c) \/ Cli!edit_information(c)
               \/ Cli!cancel_reservation(c)
      BY <1>7, <2>1, MessageKinds
         DEF Cli!logout, Cli!view_user_info, Cli!view_users, Cli!view_rooms,
             Cli!edit_information, Cli!cancel_reservation
    <2>2. CASE Cli!book_room(c) \/ Cli!pass_day(c)
      BY <1>7, <2>2, MessageKinds DEF Cli!book_room, Cli!pass_day
    <2>3. CASE Cli!leave_room(c)
      BY <1>7, <2>3, MessageKinds DEF Cli!leave_room
    <2>4. CASE Cli!hotel_management(c)
      BY <1>7, <2>4, MessageKinds DEF Cli!hotel_management
    <2>5. QED
      BY <1>10, <2>1, <2>2, <2>3, <2>4
  <1>11. CASE Cli!leave_form(c) \/ Cli!answer_lost(c) \/ Cli!recovery_unanswered(c)
    <2>1. /\ [Cli!idle(old) EXCEPT !.is_server_up = FALSE].logged_in = old.logged_in
          /\ [Cli!idle(old) EXCEPT !.is_server_up = FALSE].username = old.username
          /\ [Cli!idle(old) EXCEPT !.is_server_up = FALSE].password = old.password
          /\ [Cli!idle(old) EXCEPT !.is_server_up = FALSE].call = "none"
      BY <1>6 DEF Cli!Command
    <2>2. QED
      BY <1>5, <1>6, <1>11, <2>1 DEF Cli!leave_form, Cli!answer_lost,
                                    Cli!recovery_unanswered
  <1>12. CASE \/ Cli!local_command(c) \/ Cli!press_enter(c) \/ Cli!quit(c)
              \/ Cli!drained(c) \/ Cli!poll(c) \/ Cli!connection_refused(c)
              \/ \E fd \in Fds : Cli!connection_made(c, fd)
    <2>1. \A at, k : /\ [old EXCEPT !.at = at].logged_in = old.logged_in
                     /\ [old EXCEPT !.at = at].username = old.username
                     /\ [old EXCEPT !.at = at].password = old.password
                     /\ [old EXCEPT !.at = at].call = old.call
                     /\ [old EXCEPT !.at = at, !.attempt = k].logged_in = old.logged_in
                     /\ [old EXCEPT !.at = at, !.attempt = k].username = old.username
                     /\ [old EXCEPT !.at = at, !.attempt = k].password = old.password
                     /\ [old EXCEPT !.at = at, !.attempt = k].call = old.call
                     /\ [old EXCEPT !.attempt = k].logged_in = old.logged_in
                     /\ [old EXCEPT !.attempt = k].username = old.username
                     /\ [old EXCEPT !.attempt = k].password = old.password
                     /\ [old EXCEPT !.attempt = k].call = old.call
      <3> HIDE DEF old
      <3>1. QED
        BY <1>1 DEF Cli!Command
    <2>2. CASE Cli!connection_refused(c)
      <3>1. /\ UNCHANGED wire
            /\ \/ Cli!goes_on(c, [old EXCEPT !.attempt = old.attempt + 1])
               \/ Cli!goes_on(c, [old EXCEPT !.at = "gone"])
        BY <2>2 DEF Cli!connection_refused
      <3>2. QED
        BY <1>5, <2>1, <3>1
    <2>3. ASSUME NEW at, NEW k,
                 \/ Cli!goes_on(c, [old EXCEPT !.at = at])
                 \/ Cli!goes_on(c, [old EXCEPT !.at = at, !.attempt = k]),
                 Cli!hang_up(c) \/ UNCHANGED wire
          PROVE  Done
      BY <1>5, <2>1, <2>3
    <2>4. CASE \/ Cli!local_command(c) \/ Cli!press_enter(c) \/ Cli!quit(c)
               \/ \E fd \in Fds : Cli!connection_made(c, fd)
      BY <2>3, <2>4 DEF Cli!local_command, Cli!press_enter, Cli!quit, Cli!connection_made
    <2>5. CASE Cli!drained(c) \/ Cli!poll(c)
      BY <2>3, <2>5 DEF Cli!drained, Cli!poll, Cli!reconnect
    <2>6. QED
      BY <1>12, <2>2, <2>4, <2>5
  <1>13. CASE \/ Cli!name_is_free(c) \/ Cli!name_is_taken(c) \/ Cli!sign_in_refused(c)
              \/ Cli!user_info_shown(c) \/ Cli!profile_shown(c) \/ Cli!rooms_shown(c)
              \/ Cli!reservations_shown(c) \/ Cli!no_reservations(c)
              \/ Cli!answered_other(c)
    <2>1. ASSUME NEW call, NEW kind,
                 NEW p \in {Cli!idle(old), Cli!form(old), Cli!aborted(old)},
                 Cli!hear(c, call, kind, p)
          PROVE  Done
      BY <1>4, <1>6, <2>1 DEF Knows
    <2>2. CASE Cli!user_info_shown(c) \/ Cli!profile_shown(c) \/ Cli!rooms_shown(c)
      BY <2>1, <2>2 DEF Cli!user_info_shown, Cli!profile_shown, Cli!rooms_shown
    <2>3. QED
      BY <1>13, <2>1, <2>2
         DEF Cli!name_is_free, Cli!name_is_taken, Cli!sign_in_refused,
             Cli!reservations_shown, Cli!no_reservations, Cli!answered_other
  <1>14. CASE Cli!signup_shown(c)
    <2>1. [Cli!idle(old) EXCEPT !.is_server_up = FALSE].logged_in = old.logged_in
          /\ [Cli!idle(old) EXCEPT !.is_server_up = FALSE].username = old.username
          /\ [Cli!idle(old) EXCEPT !.is_server_up = FALSE].password = old.password
          /\ [Cli!idle(old) EXCEPT !.is_server_up = FALSE].call = "none"
      BY <1>6 DEF Cli!Command
    <2>2. ASSUME NEW kind, Cli!hear(c, "sign_up", kind, Cli!idle(old)) PROVE Done
      BY <1>4, <1>6, <2>2 DEF Knows
    <2>3. QED
      BY <1>5, <1>14, <2>1, <2>2 DEF Cli!signup_shown
  <1>15. CASE Cli!signed_in(c)
    <2> DEFINE p == Cli!idle([old EXCEPT !.token = w.token, !.logged_in = TRUE,
                                         !.privilege_access = w.privilege])
    <2>1. Cli!hear(c, "sign_in", "success", p) /\ Knows(c)
      BY <1>15 DEF Cli!signed_in, Cli!hear, Knows
    <2>2. w.token \in Tokens /\ w.privilege \in BOOLEAN
      BY <1>1, <2>1 DEF OnTheWire, Cli!hear
    <2>3. p \in Cli!Command /\ p.username = old.username /\ p.password = old.password
      <3> HIDE DEF old, w
      <3>1. QED
        BY <1>1, <2>2 DEF Cli!idle, Cli!Command, Cli!Places, Cli!Calls
    <2> HIDE DEF p
    <2>4. QED
      BY <1>4, <2>1, <2>3
  <1>16. CASE Cli!logged_out(c)
    <2> DEFINE p == Cli!idle([old EXCEPT !.token = Blank, !.logged_in = FALSE,
                                         !.username = Blank])
    <2>1. Cli!hear(c, "logout", "success", p)
      BY <1>16 DEF Cli!logged_out
    <2>2. p \in Cli!Command /\ ~p.logged_in
      <3> HIDE DEF old
      <3>1. QED
        BY <1>1 DEF Cli!idle, Cli!Command, Cli!Places, Cli!Calls
    <2> HIDE DEF p
    <2>3. QED
      BY <1>4, <2>1, <2>2
  <1>17. CASE Cli!recovered(c)
    <2> DEFINE p == [old EXCEPT !.at = "prompt", !.call = "none", !.token = w.token]
    <2>1. Cli!hear(c, "recover", "success", p)
      BY <1>17 DEF Cli!recovered
    <2>2. w.token \in Tokens
      BY <1>1, <2>1 DEF OnTheWire, Cli!hear
    <2>3. /\ p \in Cli!Command /\ p.username = old.username
          /\ p.password = old.password /\ p.logged_in = old.logged_in
      <3> HIDE DEF old, w
      <3>1. QED
        BY <1>1, <2>2 DEF Cli!Command, Cli!Places, Cli!Calls
    <2> HIDE DEF p
    <2>4. QED
      BY <1>4, <2>1, <2>3 DEF Knows
  <1>18. CASE Cli!recovery_refused(c)
    <2> DEFINE p == [old EXCEPT !.at = "prompt", !.call = "none", !.token = Blank,
                                !.logged_in = FALSE]
    <2>1. Cli!hear(c, "recover", "error", p)
      BY <1>18 DEF Cli!recovery_refused
    <2>2. p \in Cli!Command /\ ~p.logged_in
      <3> HIDE DEF old
      <3>1. QED
        BY <1>1 DEF Cli!Command, Cli!Places, Cli!Calls
    <2> HIDE DEF p
    <2>3. QED
      BY <1>4, <2>1, <2>2
  <1>19. CASE Cli!recover_state(c)
    <2>1. old.at = "recover"
      BY <1>19 DEF Cli!recover_state
    <2>2. /\ [old EXCEPT !.at = "prompt"].logged_in = old.logged_in
          /\ [old EXCEPT !.at = "prompt"].username = old.username
          /\ [old EXCEPT !.at = "prompt"].password = old.password
          /\ [old EXCEPT !.at = "prompt"].call = old.call
      <3> HIDE DEF old
      <3>1. QED
        BY <1>1 DEF Cli!Command
    <2>3. ASSUME NEW m, Cli!request(c, old, "recover", m, "prompt"), m.kind \notin Answers
          PROVE  Done
      BY <1>1, <1>3, <2>1, <2>3
    <2>4. CASE Cli!goes_on(c, [old EXCEPT !.at = "prompt"]) /\ UNCHANGED wire
      BY <1>5, <2>2, <2>4
    <2>5. QED
      BY <1>19, <2>3, <2>4, MessageKinds DEF Cli!recover_state
  <1>20. QED
    BY <1>8, <1>9, <1>10, <1>11, <1>12, <1>13, <1>14, <1>15, <1>16, <1>17, <1>18, <1>19
       DEF Cli!line_typed, Cli!program_step

(* While passwords are not changed on purpose nothing changes them: no      *)
(* request, no end of a session and no restart.                             *)
LEMMA PasswordsStay ==
    ASSUME SystemInv, NewPasswords = {},
           \/ \E c \in Clients : serve(c)
           \/ \E fd \in Fds : drop_client(fd) \/ accept_client(fd)
           \/ \E d \in Days : restart(d)
           \/ UNCHANGED serverVars
    PROVE  PasswordsKept
  <1>1. UsersInv /\ \A n \in DOMAIN users : users[n] \in UserData
    BY DEF SystemInv, ServerInv, UsersInv, UserInv, UserTypeOK
  <1>2. ASSUME UNCHANGED users PROVE PasswordsKept
    BY <1>2, NobodyTouched
  <1>3. ASSUME NEW c \in Clients, serve(c) PROVE PasswordsKept
    <2> DEFINE p == client[c]
    <2>1. /\ p \in Cli!Command /\ Standing(p) /\ Asked(p, wire[c])
          /\ diagnose(wire[c], link[c]) /\ link[c] \in Fds /\ link[c] # NoFd
          /\ p.at = "waiting" /\ wire[c].kind \notin Answers
      BY <1>3, ToBeServed DEF serve
    <2>2. CASE p.call \in {"sign_in", "recover"}
               /\ sign_in(p.username, p.password, link[c])
      <3>1. p.username \in Usernames
        BY <2>1, <2>2 DEF Standing, MemberCalls
      <3>2. QED
        BY <1>1, <1>2, <2>1, <2>2, <3>1, LetIn
    <2>3. CASE p.call = "logout" /\ log_out(p.token)
      <3>1. ConnectionAgrees(p, wire[c], link[c])
        BY DEF SystemInv, Agreement
      <3>2. SessionOn(p.username, p.token, link[c])
        BY <2>1, <2>3, <3>1 DEF ConnectionAgrees, Signed, token_of, Answers
      <3>3. QED
        BY <1>1, <2>3, <3>2, ShownOut DEF SessionOn
    <2>4. CASE view(view_user_information(p.token)) \/ view(view_rooms_info(p.token))
      BY <1>2, <2>4 DEF view
    <2>5. CASE QuietRequest
      BY <1>1, <2>5, QuietKept
    <2>6. QED
      BY <2>1, <2>2, <2>3, <2>4, <2>5, Diagnosed
  <1>4. ASSUME NEW fd \in Fds, drop_client(fd) PROVE PasswordsKept
    <2>1. CASE client_dead(fd)
      <3>1. PICK n \in DOMAIN users :
                users' = [users EXCEPT ![n] = [logged_out(@) EXCEPT !.socket_fd = NoFd]]
        BY <2>1 DEF client_dead
      <3>2. [logged_out(users[n]) EXCEPT !.socket_fd = NoFd].password = users[n].password
        BY <1>1 DEF logged_out, UserData
      <3>3. QED
        BY <3>1, <3>2 DEF PasswordsKept
    <2>2. QED
      BY <1>2, <1>4, <2>1 DEF drop_client
  <1>5. ASSUME NEW d, restart(d) PROVE PasswordsKept
    BY <1>1, <1>5 DEF restart, restart_users, PasswordsKept, UserData
  <1>6. QED
    BY <1>2, <1>3, <1>4, <1>5 DEF accept_client, serverVars

(* What a program remembers stays true of the server's user, and a sign-in  *)
(* of a program that recovers fails for one of two reasons only.            *)
LEMMA RememberStep ==
    ASSUME SystemInv, Remembered, NewPasswords = {}, [SystemNext]_systemVars
    PROVE  /\ Remembered'
           /\ \A c \in Clients :
                  client[c].call = "recover" /\ wire[c].kind = "sign_in"
                      /\ wire'[c].kind = "error"
                  => \/ /\ client[c].username \in DOMAIN users
                        /\ users[client[c].username].is_logged_in
                     \/ client[c].username \in undone
  <1>1. \A c \in Clients : Knows(c) /\ client[c].username \notin undone =>
            /\ client[c].username \in DOMAIN users
            /\ users[client[c].username].password = client[c].password
    BY DEF Remembered
  <1>2. /\ undone \subseteq undone'
        /\ \A n \in DOMAIN users \ undone' :
              n \in DOMAIN users' /\ users'[n].password = users[n].password
    <2>1. CASE \E d \in Days : interrupt(d)
      BY <2>1 DEF interrupt
    <2>2. CASE ~\E d \in Days : interrupt(d)
      <3>1. \/ \E c \in Clients : serve(c)
            \/ \E fd \in Fds : drop_client(fd) \/ accept_client(fd)
            \/ \E d \in Days : restart(d)
            \/ UNCHANGED serverVars
        <4>1. CASE \E c \in Clients : type_line(c) \/ run(c) \/ lose_connection(c)
          BY <4>1 DEF type_line, run, lose_connection
        <4>2. CASE \E c \in Clients : connect_to_server(c)
          BY <4>2 DEF connect_to_server
        <4>3. CASE \E fd \in Fds : hear_the_end(fd)
          BY <4>3 DEF hear_the_end
        <4>4. CASE \E d \in Days : shut_down(d)
          BY <4>4 DEF shut_down
        <4>5. CASE start \/ UNCHANGED systemVars
          BY <4>5 DEF start, systemVars
        <4>6. QED
          BY <2>2, <4>1, <4>2, <4>3, <4>4, <4>5 DEF SystemNext
      <3>2. PasswordsKept
        BY <3>1, PasswordsStay
      <3>3. undone' = undone
        BY <2>2 DEF SystemNext, type_line, run, connect_to_server, hear_the_end, shut_down,
                    start, lose_connection, serve, systemVars, fileVars
      <3>4. QED
        BY <3>2, <3>3 DEF PasswordsKept
    <2>3. QED
      BY <2>1, <2>2
  <1> DEFINE Same(c) == /\ Knows(c)' => /\ Knows(c)
                                        /\ client'[c].username = client[c].username
                                        /\ client'[c].password = client[c].password
                        /\ wire'[c].kind = "error" => wire'[c] = wire[c]
             True(c) == Knows(c)' /\ client'[c].username \notin undone' =>
                            /\ client'[c].username \in DOMAIN users'
                            /\ users'[client'[c].username].password = client'[c].password
             Refused(c) == client[c].call = "recover" /\ wire[c].kind = "sign_in"
                               /\ wire'[c].kind = "error"
                           => \/ /\ client[c].username \in DOMAIN users
                                 /\ users[client[c].username].is_logged_in
                              \/ client[c].username \in undone
  <1>3. ASSUME NEW c \in Clients, Same(c) PROVE True(c) /\ Refused(c)
    BY <1>1, <1>2, <1>3
  <1>4. ASSUME NEW c \in Clients, client'[c] = client[c],
               wire'[c] = wire[c] \/ wire'[c] = Cli!decode!silence
        PROVE  Same(c)
    BY <1>4, KindsDiffer DEF Knows
  <1>5. ASSUME NEW c \in Clients, serve(c) PROVE True(c) /\ Refused(c)
    <2> DEFINE p == client[c]
    <2>1. /\ p \in Cli!Command /\ Standing(p) /\ Asked(p, wire[c])
          /\ diagnose(wire[c], link[c]) /\ link[c] \in Fds
      BY <1>5, ToBeServed
    <2>2. client' = client /\ wire'[c].kind = answer'
      <3>1. wire = [d \in Clients |-> wire[d]]
        BY DEF SystemInv
      <3>2. wire' = [wire EXCEPT ![c] = answer_to(wire[c])] /\ client' = client
        BY <1>5 DEF serve
      <3>3. QED
        BY <3>1, <3>2 DEF answer_to, Cli!decode!response
    <2>3. CASE p.call \in {"sign_in", "recover"} /\ sign_in(p.username, p.password, link[c])
      <3>1. p.username \in Usernames /\ UsersInv
        BY <2>1, <2>3 DEF Standing, MemberCalls, SystemInv, ServerInv
      <3>2. \/ answer' = "error"
            \/ /\ answer' = "success" /\ p.username \in DOMAIN users
               /\ users[p.username].password = p.password
        BY <2>1, <2>3, <3>1, LetIn
      <3>3. True(c)
        BY <1>1, <1>2, <2>2, <3>2 DEF Knows
      <3>4. Refused(c)
        <4> SUFFICES ASSUME p.call = "recover", answer' = "error", p.username \notin undone
                     PROVE  p.username \in DOMAIN users /\ users[p.username].is_logged_in
          BY <2>2
        <4>1. p.logged_in
          BY <2>1 DEF Standing, MemberCalls
        <4>2. ~user_validation(p.username, p.password)
          BY <2>3 DEF sign_in, succeed
        <4>3. QED
          BY <1>1, <4>1, <4>2 DEF Knows, user_validation, username_exist
      <3>5. QED
        BY <3>3, <3>4
    <2>4. CASE p.call \notin {"sign_in", "recover"}
      <3>1. Refused(c)
        BY <2>4
      <3>2. Knows(c)' => Knows(c)
        BY <2>2, <2>4 DEF Knows
      <3>3. True(c)
        BY <1>1, <1>2, <2>2, <3>2
      <3>4. QED
        BY <3>1, <3>3
    <2>5. \/ p.call \in {"sign_in", "recover"} /\ sign_in(p.username, p.password, link[c])
          \/ p.call \notin {"sign_in", "recover"}
      BY <2>1, Diagnosed
    <2>6. QED
      BY <2>3, <2>4, <2>5
  <1>6. client = [c \in Clients |-> client[c]] /\ wire = [c \in Clients |-> wire[c]]
    BY DEF SystemInv
  <1> HIDE DEF Same, True, Refused
  <1>7. ASSUME NEW c \in Clients PROVE True(c) /\ Refused(c)
    <2>1. ASSUME NEW d \in Clients, type_line(d) \/ run(d) \/ connect_to_server(d)
          PROVE  Same(c)
      <3>1. \/ Cli!line_typed(d) \/ Cli!program_step(d) \/ Cli!connection_refused(d)
            \/ \E fd \in Fds : Cli!connection_made(d, fd)
        BY <2>1 DEF type_line, run, connect_to_server
      <3>2. CASE d = c
        BY <3>1, <3>2, LearnsNothing DEF Same
      <3>3. CASE d # c
        BY <1>4, <3>1, <3>3, OneProgram
      <3>4. QED
        BY <3>2, <3>3
    <2>2. ASSUME NEW d \in Clients, serve(d) PROVE True(c) /\ Refused(c)
      <3>1. CASE d = c
        BY <1>5, <2>2, <3>1
      <3>2. CASE d # c
        <4>1. client'[c] = client[c] /\ wire'[c] = wire[c]
          BY <1>6, <2>2, <3>2 DEF serve
        <4>2. QED
          BY <1>3, <1>4, <4>1
      <3>3. QED
        BY <3>1, <3>2
    <2>3. ASSUME NEW d \in Clients, lose_connection(d) PROVE Same(c)
      <3>1. /\ client'[c] = client[c]
            /\ wire'[c] = wire[c] \/ wire'[c] = Cli!decode!silence
        BY <1>6, <2>3 DEF lose_connection, Cli!hang_up
      <3>2. QED
        BY <1>4, <3>1
    <2>4. ASSUME NEW d, shut_down(d) \/ interrupt(d) PROVE Same(c)
      <3>1. /\ client'[c] = client[c]
            /\ wire'[c] = wire[c] \/ wire'[c] = Cli!decode!silence
        BY <2>4 DEF shut_down, interrupt, server_ends
      <3>2. QED
        BY <1>4, <3>1
    <2>5. ASSUME start \/ UNCHANGED systemVars \/ \E fd \in Fds : hear_the_end(fd)
          PROVE  Same(c)
      BY <1>4, <2>5 DEF start, systemVars, hear_the_end
    <2>6. QED
      BY <1>3, <2>1, <2>2, <2>3, <2>4, <2>5 DEF SystemNext, Same
  <1>8. QED
    BY <1>7 DEF True, Refused, Remembered

(* A program that recovers is refused only while somebody is signed in as   *)
(* its user or after an interrupt has undone that user, as long as nobody   *)
(* changes a password: after a change it would be refused for the old one.  *)
THEOREM SystemRefusedOnlyWhileSignedIn ==
    ASSUME NewPasswords = {}
    PROVE  SystemSpec => RefusedOnlyWhileSignedIn
  <1>1. SystemInit => Remembered
    BY KindsDiffer DEF SystemInit, Cli!ClientInit, Remembered, Knows
  <1>2. SystemInv /\ Remembered /\ [SystemNext]_systemVars => Remembered'
    BY RememberStep
  <1>3. SystemInv /\ Remembered /\ [SystemNext]_systemVars
          => [\A c \in Clients :
                 /\ client[c].call = "recover"
                 /\ wire[c].kind = "sign_in" /\ wire'[c].kind = "error"
                 => \/ /\ client[c].username \in DOMAIN users
                       /\ users[client[c].username].is_logged_in
                    \/ client[c].username \in undone]_systemVars
    BY RememberStep
  <1>4. QED
    BY <1>1, <1>2, <1>3, SystemInvariance, PTL DEF SystemSpec, RefusedOnlyWhileSignedIn
=============================================================================
