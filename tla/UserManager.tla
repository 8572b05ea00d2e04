---------------------------- MODULE UserManager ----------------------------
(***************************************************************************)
(* The users and their sessions: class UserManager of codes/infra/user.cpp. *)
(* One action per member function that changes the users, guarded by what   *)
(* the function itself tests; a call that changes nothing is a stuttering   *)
(* step.  The vector of users is a function from the usernames in use,      *)
(* which signup keeps distinct.                                             *)
(***************************************************************************)
EXTENDS Integers, FiniteSets

CONSTANTS
    Usernames,      \* names a person may sign up with
    Passwords,
    Phones,         \* phone numbers as typed; the valid ones have 11, 13 or
    ValidPhones,    \*   14 characters
    Addresses,
    Balances,       \* opening balances
    Ids,            \* user ids the users' file may hold
    Tokens,         \* tokens generate_token may draw
    Fds,            \* socket descriptors of the clients
    Blank,          \* the empty string
    BalanceLimit    \* bound: the largest balance UserSpec pays up to

NoFd == -1

ASSUME UserAssumption ==
    /\ IsFiniteSet(Usernames)
    /\ Blank \notin Usernames \cup Passwords \cup ValidPhones \cup Addresses \cup Tokens
    /\ ValidPhones \subseteq Phones
    /\ Balances \subseteq Int
    /\ Ids \subseteq Nat
    /\ Fds \subseteq Nat
    /\ BalanceLimit \in Int

VARIABLE users      \* username -> UserData, for the users that exist

UserData == [id : Nat, password : Passwords, privilege : BOOLEAN,
             account_balance : Int,
             phone_number : ValidPhones \cup {Blank},
             address : Addresses \cup {Blank},
             is_logged_in : BOOLEAN, socket_fd : Fds \cup {NoFd},
             token : Tokens \cup {Blank}]

UserTypeOK ==
    /\ DOMAIN users \subseteq Usernames
    /\ users \in [DOMAIN users -> UserData]

-----------------------------------------------------------------------------
(***************************************************************************)
(* Seeded faults: slips a property has to notice when the operator named    *)
(* after "Faulty_" is replaced by it.                                       *)
(***************************************************************************)

(* Counts the users instead of looking for an id nobody has. *)
Faulty_create_Id == Cardinality(DOMAIN users)

(* Ends the session but leaves its token behind. *)
Faulty_logged_out(user) == [user EXCEPT !.is_logged_in = FALSE]

(* Does not ask whether the user is logged in already. *)
Faulty_user_validation(name, password) ==
    name \in DOMAIN users /\ users[name].password = password

(* Stores the phone number before it looks at it. *)
Faulty_edited(user, password, phone, addr) ==
    [user EXCEPT !.password = IF password = Blank THEN @ ELSE password,
                 !.phone_number = IF user.privilege \/ phone = Blank THEN @ ELSE phone,
                 !.address = IF user.privilege \/ addr = Blank THEN @ ELSE addr]

-----------------------------------------------------------------------------

username_exist(name) == name \in DOMAIN users

user_validation(name, password) ==
    /\ username_exist(name)
    /\ users[name].password = password
    /\ ~users[name].is_logged_in

id_exists(id) == \E n \in DOMAIN users : users[n].id = id

(* The least id nobody has. *)
create_Id ==
    CHOOSE id \in 0 .. Cardinality(DOMAIN users) :
        /\ ~id_exists(id)
        /\ \A j \in 0 .. (id - 1) : id_exists(j)

(* The users a token is the session of: search_by_token finds the first.    *)
sessions(token) ==
    {n \in DOMAIN users : users[n].is_logged_in /\ users[n].token = token}

search_by_token(token) == CHOOSE n \in sessions(token) : TRUE

get_role(token) ==
    IF sessions(token) = {} THEN "NONE"
    ELSE IF users[search_by_token(token)].privilege THEN "ADMIN" ELSE "USER"

get_id(token) == users[search_by_token(token)].id

have_enough_money(token, price) ==
    /\ sessions(token) # {}
    /\ users[search_by_token(token)].account_balance >= price

(* What ends a session: the socket is forgotten only when the client died.  *)
logged_out(user) == [user EXCEPT !.is_logged_in = FALSE, !.token = Blank]

-----------------------------------------------------------------------------

(* The users' file holds distinct ids and no session; it gives no purse, no *)
(* phone number and no address for an administrator.                        *)
UserInit ==
    \E S \in SUBSET Usernames :
    \E id \in [S -> Ids], admin \in [S -> BOOLEAN], balance \in [S -> Balances],
       password \in [S -> Passwords], phone \in [S -> ValidPhones],
       address \in [S -> Addresses] :
        /\ \A m, n \in S : id[m] = id[n] => m = n
        /\ users = [n \in S |->
               [id |-> id[n], password |-> password[n], privilege |-> admin[n],
                account_balance |-> IF admin[n] THEN 0 ELSE balance[n],
                phone_number |-> IF admin[n] THEN Blank ELSE phone[n],
                address |-> IF admin[n] THEN Blank ELSE address[n],
                is_logged_in |-> FALSE, socket_fd |-> NoFd, token |-> Blank]]

signup(name, password, balance, phone, addr) ==
    /\ name # Blank /\ password # Blank /\ addr # Blank
    /\ phone \in ValidPhones
    /\ ~username_exist(name)
    /\ users' = [n \in DOMAIN users \cup {name} |->
           IF n # name THEN users[n]
           ELSE [id |-> create_Id, password |-> password, privilege |-> FALSE,
                 account_balance |-> balance, phone_number |-> phone,
                 address |-> addr,
                 is_logged_in |-> FALSE, socket_fd |-> NoFd, token |-> Blank]]

(* A token of 128 random bits is taken to differ from those in use. *)
login(name, fd, token) ==
    /\ username_exist(name)
    /\ \A n \in DOMAIN users : users[n].token # token
    /\ users' = [users EXCEPT ![name].is_logged_in = TRUE,
                              ![name].token = token,
                              ![name].socket_fd = fd]

logout(token) ==
    /\ sessions(token) # {}
    /\ users' = [users EXCEPT ![search_by_token(token)] = logged_out(@)]

(* Only one session is ended, whichever user with that socket comes first.  *)
client_dead(fd) ==
    \E n \in {m \in DOMAIN users : users[m].socket_fd = fd /\ users[m].is_logged_in} :
        users' = [users EXCEPT ![n] = [logged_out(@) EXCEPT !.socket_fd = NoFd]]

(* Refuses by itself what the balance does not cover. *)
reduce_balance(token, price) ==
    users' = IF sessions(token) # {}
                /\ users[search_by_token(token)].account_balance >= price
             THEN [users EXCEPT ![search_by_token(token)].account_balance = @ - price]
             ELSE users

increase_balance(token, amount) ==
    /\ sessions(token) # {}
    /\ users' = [users EXCEPT ![search_by_token(token)].account_balance = @ + amount]

(* The password is set before the phone number is looked at, and stays set  *)
(* when the call then fails; for an administrator nothing else is looked at.*)
edit_succeeds(token, phone) ==
    /\ sessions(token) # {}
    /\ \/ users[search_by_token(token)].privilege
       \/ phone \in ValidPhones \cup {Blank}

edited(user, password, phone, addr) ==
    LET secured == [user EXCEPT !.password = IF password = Blank THEN @ ELSE password]
    IN  IF user.privilege \/ phone \notin ValidPhones \cup {Blank}
        THEN secured
        ELSE [secured EXCEPT !.phone_number = IF phone = Blank THEN @ ELSE phone,
                             !.address = IF addr = Blank THEN @ ELSE addr]

edit_information(token, password, phone, addr) ==
    /\ sessions(token) # {}
    /\ users' = [users EXCEPT ![search_by_token(token)] =
                     edited(@, password, phone, addr)]

(* save writes neither sessions nor tokens, so that a user manager that     *)
(* reads the file has none.                                                 *)
restart_users ==
    users' = [n \in DOMAIN users |->
                 [users[n] EXCEPT !.is_logged_in = FALSE, !.socket_fd = NoFd,
                                  !.token = Blank]]

UserNext ==
    \/ \E n \in Usernames, pw \in Passwords \cup {Blank}, b \in Balances,
          ph \in Phones, a \in Addresses \cup {Blank} : signup(n, pw, b, ph, a)
    \/ \E n \in Usernames, pw \in Passwords, fd \in Fds, t \in Tokens :
          user_validation(n, pw) /\ login(n, fd, t)
    \/ \E t \in Tokens : logout(t)
    \/ \E fd \in Fds : client_dead(fd)
    \/ \E t \in Tokens, price \in Balances : reduce_balance(t, price)
    \/ \E t \in Tokens, amount \in Balances :
          /\ increase_balance(t, amount)
          /\ users[search_by_token(t)].account_balance + amount <= BalanceLimit
    \/ \E t \in Tokens, pw \in Passwords \cup {Blank}, ph \in Phones \cup {Blank},
          a \in Addresses \cup {Blank} : edit_information(t, pw, ph, a)
    \/ restart_users

UserSpec == UserInit /\ [][UserNext]_users

-----------------------------------------------------------------------------
(***************************************************************************)
(* Properties.                                                             *)
(***************************************************************************)

(* A token is held exactly by those who are logged in, and each is the      *)
(* session of one user: what search_by_token finds first is the only one,   *)
(* and a client that has no token, or an old one, is nobody.                *)
SessionPerToken ==
    /\ \A n \in DOMAIN users : users[n].is_logged_in <=> users[n].token # Blank
    /\ \A m, n \in DOMAIN users :
           users[m].token = users[n].token /\ users[m].token # Blank => m = n

(* Ids tell the users apart, also when the file has gaps in its numbering   *)
(* and create_Id fills them: the hotel's books know a guest only by the id. *)
DistinctIds ==
    \A m, n \in DOMAIN users : users[m].id = users[n].id => m = n

(* A user is in the system with one client only: a session keeps its token  *)
(* and its connection as long as it lasts (another sign-in is refused).     *)
SessionNotTakenOver ==
    [][\A n \in DOMAIN users :
           users[n].is_logged_in /\ users'[n].is_logged_in =>
               /\ users'[n].token = users[n].token
               /\ users'[n].socket_fd = users[n].socket_fd]_users
=============================================================================
