-------------------------- MODULE UserManagerProofs --------------------------
(***************************************************************************)
(* Proofs about UserManager, for every set of usernames, tokens, sockets    *)
(* and ids the users' file may hold.                                        *)
(***************************************************************************)
EXTENDS UserManager, FiniteSetTheorems, WellFoundedInduction, TLAPS

UserInv == UserTypeOK /\ SessionPerToken /\ DistinctIds

-----------------------------------------------------------------------------
(* A new id.                                                               *)

(* More numbers than users: one of them is nobody's id.                     *)
LEMMA FreeIdExists ==
    ASSUME UserTypeOK
    PROVE  /\ Cardinality(DOMAIN users) \in Nat
           /\ \E id \in 0 .. Cardinality(DOMAIN users) : ~id_exists(id)
  <1> DEFINE names == DOMAIN users
             count == Cardinality(names)
             holder == [id \in 0 .. count |-> CHOOSE n \in names : users[n].id = id]
  <1>1. IsFiniteSet(names) /\ count \in Nat
    BY UserAssumption, FS_Subset, FS_CardinalityType DEF UserTypeOK
  <1>2. IsFiniteSet(0 .. count) /\ count < Cardinality(0 .. count)
    <2>1. 0 \in Int /\ count \in Int /\ ~(0 > count)
      BY <1>1
    <2>2. IsFiniteSet(0 .. count) /\ Cardinality(0 .. count) = count - 0 + 1
      BY <2>1, FS_Interval
    <2>3. QED
      BY <1>1, <2>2
  <1>3. ASSUME \A id \in 0 .. count : id_exists(id) PROVE FALSE
    <2>1. \A id \in 0 .. count : holder[id] \in names /\ users[holder[id]].id = id
      BY <1>3 DEF id_exists
    <2>2. holder \in [0 .. count -> names]
      BY <2>1
    <2> HIDE DEF holder
    <2>3. \E i, j \in 0 .. count : i # j /\ holder[i] = holder[j]
      BY <1>1, <1>2, <2>2, FS_PigeonHole
    <2>4. QED
      BY <2>1, <2>3
  <1>4. QED
    BY <1>1, <1>3

(* create_Id finds it: among the free ones there is a least.                *)
LEMMA CreatedIdIsFree ==
    ASSUME UserTypeOK
    PROVE  /\ create_Id \in Nat /\ ~id_exists(create_Id)
           /\ create_Id \in 0 .. Cardinality(DOMAIN users)
  <1> DEFINE count == Cardinality(DOMAIN users)
             free == {id \in 0 .. count : ~id_exists(id)}
  <1>1. count \in Nat /\ free # {} /\ free \subseteq Nat
    BY FreeIdExists
  <1>2. \E below \in {0 .. (i - 1) : i \in free} :
            \A other \in {0 .. (i - 1) : i \in free} :
                ~(<<other, below>> \in StrictSubsetOrdering(Nat))
    <2> DEFINE segments == {0 .. (i - 1) : i \in free}
    <2>1. \A i \in free : 0 .. (i - 1) \subseteq Nat /\ IsFiniteSet(0 .. (i - 1))
      BY <1>1, FS_Interval
    <2>2. segments \subseteq FiniteSubsetsOf(Nat) /\ segments # {}
      BY <1>1, <2>1 DEF FiniteSubsetsOf
    <2> HIDE DEF segments
    <2>3. \E below \in segments : \A other \in segments :
              ~(<<other, below>> \in StrictSubsetOrdering(Nat))
      BY <2>2, WFMin, FS_StrictSubsetOrderingWellFounded
    <2>4. QED
      BY <2>3 DEF segments
  <1>3. PICK id \in free : \A j \in free :
            ~(<<0 .. (j - 1), 0 .. (id - 1)>> \in StrictSubsetOrdering(Nat))
    BY <1>2
  <1>4. \A j \in 0 .. (id - 1) : id_exists(j)
    <2> SUFFICES ASSUME NEW j \in 0 .. (id - 1), ~id_exists(j) PROVE FALSE
      OBVIOUS
    <2>1. j \in free /\ j \in Nat /\ id \in Nat /\ j < id
      BY <1>1
    <2>2. 0 .. (j - 1) \subseteq 0 .. (id - 1) /\ 0 .. (j - 1) # 0 .. (id - 1)
      BY <2>1
    <2>3. 0 .. (j - 1) \subseteq Nat /\ 0 .. (id - 1) \subseteq Nat
      BY <2>1
    <2>4. QED
      BY <1>3, <2>1, <2>2, <2>3 DEF StrictSubsetOrdering
  <1>5. id \in 0 .. count /\ ~id_exists(id)
    OBVIOUS
  <1>6. \E i \in 0 .. count : ~id_exists(i) /\ \A j \in 0 .. (i - 1) : id_exists(j)
    BY <1>4, <1>5
  <1>7. create_Id \in 0 .. count /\ ~id_exists(create_Id)
    BY <1>6 DEF create_Id
  <1>8. QED
    BY <1>1, <1>7
-----------------------------------------------------------------------------
(* The invariant of the users.                                             *)

(* The session a token resolves to is one of those the token is held by.    *)
LEMMA TokenFound ==
    ASSUME NEW token, sessions(token) # {}
    PROVE  /\ search_by_token(token) \in DOMAIN users
           /\ users[search_by_token(token)].is_logged_in
           /\ users[search_by_token(token)].token = token
  BY DEF search_by_token, sessions

(* One record changed in place: what has to be shown of it alone.           *)
LEMMA ChangedUser ==
    ASSUME UserInv, NEW name \in DOMAIN users, NEW user \in UserData,
           users' = [users EXCEPT ![name] = user],
           user.id = users[name].id,
           user.is_logged_in <=> user.token # Blank,
           \A n \in DOMAIN users \ {name} :
               users[n].token = user.token => user.token = Blank
    PROVE  UserInv'
  <1>1. DOMAIN users' = DOMAIN users
    OBVIOUS
  <1>2. \A n \in DOMAIN users : users'[n] = IF n = name THEN user ELSE users[n]
    OBVIOUS
  <1>3. UserTypeOK'
    <2>1. users' \in [DOMAIN users -> UserData]
      BY DEF UserInv, UserTypeOK
    <2>2. QED
      BY <1>1, <2>1 DEF UserInv, UserTypeOK
  <1>4. SessionPerToken'
    BY <1>1, <1>2 DEF UserInv, SessionPerToken
  <1>5. DistinctIds'
    BY <1>1, <1>2 DEF UserInv, DistinctIds
  <1>6. QED
    BY <1>3, <1>4, <1>5 DEF UserInv

(* What a users' file says, for the PICK below. *)
FiledUsers(S, id, admin, balance, password, phone, address) ==
    /\ \A m, n \in S : id[m] = id[n] => m = n
    /\ users = [n \in S |->
           [id |-> id[n], password |-> password[n], privilege |-> admin[n],
            account_balance |-> IF admin[n] THEN 0 ELSE balance[n],
            phone_number |-> IF admin[n] THEN Blank ELSE phone[n],
            address |-> IF admin[n] THEN Blank ELSE address[n],
            is_logged_in |-> FALSE, socket_fd |-> NoFd, token |-> Blank]]

(* The invariant holds when the users' file has been read.                  *)
LEMMA UserInitInv == UserInit => UserInv
  <1> SUFFICES ASSUME UserInit PROVE UserInv
    OBVIOUS
  <1>1. PICK S \in SUBSET Usernames :
            \E id \in [S -> Ids], admin \in [S -> BOOLEAN],
               balance \in [S -> Balances], password \in [S -> Passwords],
               phone \in [S -> ValidPhones], address \in [S -> Addresses] :
                FiledUsers(S, id, admin, balance, password, phone, address)
    BY DEF UserInit, FiledUsers
  <1>2. PICK id \in [S -> Ids], admin \in [S -> BOOLEAN],
             balance \in [S -> Balances], password \in [S -> Passwords],
             phone \in [S -> ValidPhones], address \in [S -> Addresses] :
                FiledUsers(S, id, admin, balance, password, phone, address)
    BY <1>1
  <1>3. DOMAIN users = S
    BY <1>2 DEF FiledUsers
  <1>4. ASSUME NEW n \in S PROVE users[n] \in UserData
    <2>1. id[n] \in Nat /\ password[n] \in Passwords /\ admin[n] \in BOOLEAN
      BY UserAssumption
    <2>2. (IF admin[n] THEN 0 ELSE balance[n]) \in Int
      <3>1. balance[n] \in Balances /\ 0 \in Int
        OBVIOUS
      <3>2. balance[n] \in Int
        BY <3>1, UserAssumption
      <3>3. QED
        BY <3>1, <3>2, Zenon
    <2>3. /\ (IF admin[n] THEN Blank ELSE phone[n]) \in ValidPhones \cup {Blank}
          /\ (IF admin[n] THEN Blank ELSE address[n]) \in Addresses \cup {Blank}
      OBVIOUS
    <2>4. users[n] =
           [id |-> id[n], password |-> password[n], privilege |-> admin[n],
            account_balance |-> IF admin[n] THEN 0 ELSE balance[n],
            phone_number |-> IF admin[n] THEN Blank ELSE phone[n],
            address |-> IF admin[n] THEN Blank ELSE address[n],
            is_logged_in |-> FALSE, socket_fd |-> NoFd, token |-> Blank]
      BY <1>2 DEF FiledUsers
    <2>5. QED
      BY <2>1, <2>2, <2>3, <2>4 DEF UserData
  <1>5. UserTypeOK
    BY <1>2, <1>3, <1>4 DEF UserTypeOK, FiledUsers
  <1>6. SessionPerToken
    BY <1>2, <1>3 DEF SessionPerToken, FiledUsers
  <1>7. DistinctIds
    BY <1>2, <1>3 DEF DistinctIds, FiledUsers
  <1>8. QED
    BY <1>5, <1>6, <1>7 DEF UserInv

(* Signing up gives the newcomer an id of their own and no session.         *)
LEMMA SignupInv ==
    ASSUME UserInv, NEW name \in Usernames, NEW password \in Passwords \cup {Blank},
           NEW balance \in Balances, NEW phone \in Phones,
           NEW addr \in Addresses \cup {Blank},
           signup(name, password, balance, phone, addr)
    PROVE  UserInv'
  <1> DEFINE newcomer ==
          [id |-> create_Id, password |-> password, privilege |-> FALSE,
           account_balance |-> balance, phone_number |-> phone, address |-> addr,
           is_logged_in |-> FALSE, socket_fd |-> NoFd, token |-> Blank]
  <1>1. users' = [n \in DOMAIN users \cup {name} |->
                     IF n # name THEN users[n] ELSE newcomer]
    BY DEF signup
  <1>2. name \notin DOMAIN users
    BY DEF signup, username_exist
  <1>3. create_Id \in Nat /\ \A n \in DOMAIN users : users[n].id # create_Id
    BY CreatedIdIsFree DEF UserInv, id_exists
  <1>4. newcomer \in UserData
    BY <1>3, UserAssumption DEF signup, UserData
  <1>5. newcomer.id = create_Id /\ ~newcomer.is_logged_in /\ newcomer.token = Blank
    OBVIOUS
  <1> HIDE DEF newcomer
  <1>6. DOMAIN users' = DOMAIN users \cup {name}
    BY <1>1
  <1>7. users'[name] = newcomer /\ \A n \in DOMAIN users : users'[n] = users[n]
    BY <1>1, <1>2
  <1>8. UserTypeOK'
    BY <1>1, <1>4, <1>6 DEF UserInv, UserTypeOK
  <1>9. SessionPerToken'
    BY <1>5, <1>6, <1>7 DEF UserInv, SessionPerToken
  <1>10. DistinctIds'
    BY <1>3, <1>5, <1>6, <1>7 DEF UserInv, DistinctIds
  <1>11. QED
    BY <1>8, <1>9, <1>10 DEF UserInv

(* Reading the file back ends every session and changes nobody.             *)
LEMMA RestartInv ==
    ASSUME UserInv, restart_users
    PROVE  UserInv'
  <1> DEFINE filed(n) == [users[n] EXCEPT !.is_logged_in = FALSE, !.socket_fd = NoFd,
                                          !.token = Blank]
  <1>1. users' = [n \in DOMAIN users |-> filed(n)]
    BY DEF restart_users
  <1>2. \A n \in DOMAIN users :
            /\ filed(n) \in UserData
            /\ filed(n).id = users[n].id
            /\ ~filed(n).is_logged_in
            /\ filed(n).token = Blank
    BY DEF UserInv, UserTypeOK, UserData
  <1> HIDE DEF filed
  <1>3. UserTypeOK'
    BY <1>1, <1>2 DEF UserInv, UserTypeOK
  <1>4. SessionPerToken'
    BY <1>1, <1>2 DEF SessionPerToken
  <1>5. DistinctIds'
    BY <1>1, <1>2 DEF UserInv, DistinctIds
  <1>6. QED
    BY <1>3, <1>4, <1>5 DEF UserInv

(* A login draws a token that nobody has.                                   *)
LEMMA LoginInv ==
    ASSUME UserInv, NEW name \in Usernames, NEW fd \in Fds, NEW token \in Tokens,
           login(name, fd, token)
    PROVE  UserInv'
  <1> DEFINE user == [users[name] EXCEPT !.is_logged_in = TRUE, !.token = token,
                                         !.socket_fd = fd]
  <1>1. name \in DOMAIN users /\ users[name] \in UserData
    BY DEF login, username_exist, UserInv, UserTypeOK
  <1>2. users' = [users EXCEPT ![name] = user]
    BY <1>1 DEF login, UserData
  <1>3. /\ user \in UserData /\ user.id = users[name].id
        /\ user.is_logged_in /\ user.token = token /\ token # Blank
    BY <1>1, UserAssumption DEF UserData
  <1>4. \A n \in DOMAIN users \ {name} : users[n].token # token
    BY DEF login
  <1> HIDE DEF user
  <1>5. QED
    BY <1>1, <1>2, <1>3, <1>4, ChangedUser

(* Ending a session, in either way, leaves its token with nobody.           *)
LEMMA EndedInv ==
    ASSUME UserInv, NEW name \in DOMAIN users, NEW fd \in Fds \cup {NoFd},
           users' = [users EXCEPT ![name] = [logged_out(@) EXCEPT !.socket_fd = fd]]
    PROVE  UserInv'
  <1> DEFINE user == [logged_out(users[name]) EXCEPT !.socket_fd = fd]
  <1>1. users[name] \in UserData
    BY DEF UserInv, UserTypeOK
  <1>2. /\ user \in UserData /\ user.id = users[name].id
        /\ ~user.is_logged_in /\ user.token = Blank
    BY <1>1 DEF UserData, logged_out
  <1>3. users' = [users EXCEPT ![name] = user]
    OBVIOUS
  <1> HIDE DEF user
  <1>4. QED
    BY <1>2, <1>3, ChangedUser

(* What is paid, paid back or edited leaves id and session alone.           *)
LEMMA KeptSessionInv ==
    ASSUME UserInv, NEW name \in DOMAIN users, NEW user \in UserData,
           users' = [users EXCEPT ![name] = user],
           user.id = users[name].id, user.token = users[name].token,
           user.is_logged_in = users[name].is_logged_in
    PROVE  UserInv'
  <1>1. user.is_logged_in <=> user.token # Blank
    BY DEF UserInv, SessionPerToken
  <1>2. \A n \in DOMAIN users \ {name} :
            users[n].token = user.token => user.token = Blank
    BY DEF UserInv, SessionPerToken
  <1>3. QED
    BY <1>1, <1>2, ChangedUser

(* An edited user is still one, with the same id and session.               *)
LEMMA EditedUser ==
    ASSUME NEW user \in UserData, NEW password \in Passwords \cup {Blank},
           NEW phone \in Phones \cup {Blank}, NEW addr \in Addresses \cup {Blank}
    PROVE  /\ edited(user, password, phone, addr) \in UserData
           /\ edited(user, password, phone, addr).id = user.id
           /\ edited(user, password, phone, addr).token = user.token
           /\ edited(user, password, phone, addr).is_logged_in = user.is_logged_in
           /\ edited(user, password, phone, addr).socket_fd = user.socket_fd
  <1> DEFINE secured == [user EXCEPT !.password = IF password = Blank THEN @ ELSE password]
  <1>1. /\ secured \in UserData /\ secured.id = user.id
        /\ secured.token = user.token /\ secured.is_logged_in = user.is_logged_in
        /\ secured.socket_fd = user.socket_fd
    BY DEF UserData
  <1> DEFINE moved == [secured EXCEPT !.phone_number = IF phone = Blank THEN @ ELSE phone,
                                      !.address = IF addr = Blank THEN @ ELSE addr]
  <1>3. CASE edited(user, password, phone, addr) = secured
    BY <1>1, <1>3
  <1>4. CASE /\ edited(user, password, phone, addr) = moved
             /\ phone \in ValidPhones \cup {Blank}
    <2> HIDE DEF secured
    <2>1. /\ moved \in UserData /\ moved.id = secured.id
          /\ moved.token = secured.token /\ moved.is_logged_in = secured.is_logged_in
          /\ moved.socket_fd = secured.socket_fd
      BY <1>1, <1>4 DEF UserData
    <2> HIDE DEF moved
    <2>2. QED
      BY <1>1, <1>4, <2>1
  <1>5. \/ edited(user, password, phone, addr) = secured
        \/ /\ edited(user, password, phone, addr) = moved
           /\ phone \in ValidPhones \cup {Blank}
    BY DEF edited
  <1>6. QED
    BY <1>3, <1>4, <1>5

(* Every operation on the users preserves the invariant.                    *)
LEMMA UserStepInv == UserInv /\ [UserNext]_users => UserInv'
  <1> SUFFICES ASSUME UserInv, [UserNext]_users PROVE UserInv'
    OBVIOUS
  <1>1. \A n \in DOMAIN users : users[n] \in UserData
    BY DEF UserInv, UserTypeOK
  <1>2. ASSUME NEW n \in Usernames, NEW pw \in Passwords \cup {Blank}, NEW b \in Balances,
               NEW ph \in Phones, NEW a \in Addresses \cup {Blank},
               signup(n, pw, b, ph, a)
        PROVE  UserInv'
    BY <1>2, SignupInv
  <1>3. ASSUME NEW n \in Usernames, NEW fd \in Fds, NEW t \in Tokens, login(n, fd, t)
        PROVE  UserInv'
    BY <1>3, LoginInv
  <1>4. ASSUME NEW t \in Tokens, logout(t) PROVE UserInv'
    <2> DEFINE name == search_by_token(t)
    <2>1. name \in DOMAIN users /\ users' = [users EXCEPT ![name] = logged_out(@)]
      BY <1>4, TokenFound DEF logout
    <2> HIDE DEF name
    <2>2. /\ users[name].socket_fd \in Fds \cup {NoFd}
          /\ [logged_out(users[name]) EXCEPT !.socket_fd = users[name].socket_fd]
                = logged_out(users[name])
      BY <1>1, <2>1 DEF UserData, logged_out
    <2>3. QED
      BY <2>1, <2>2, EndedInv
  <1>5. ASSUME NEW fd \in Fds, client_dead(fd) PROVE UserInv'
    BY <1>5, EndedInv DEF client_dead
  <1>6. ASSUME NEW t \in Tokens, NEW price \in Balances, reduce_balance(t, price)
        PROVE  UserInv'
    <2> DEFINE name == search_by_token(t)
    <2>1. CASE /\ sessions(t) # {}
               /\ users' = [users EXCEPT ![name].account_balance = @ - price]
      <3> DEFINE user == [users[name] EXCEPT !.account_balance = @ - price]
      <3>1. name \in DOMAIN users
        BY <2>1, TokenFound
      <3>2. users[name] \in UserData /\ price \in Int
        BY <1>1, <3>1, UserAssumption
      <3> HIDE DEF name
      <3>3. /\ user \in UserData /\ user.id = users[name].id
            /\ user.token = users[name].token
            /\ user.is_logged_in = users[name].is_logged_in
        BY <3>2 DEF UserData
      <3>4. users' = [users EXCEPT ![name] = user]
        BY <2>1
      <3> HIDE DEF user
      <3>5. QED
        BY <3>1, <3>3, <3>4, KeptSessionInv
    <2>2. CASE UNCHANGED users
      BY <2>2 DEF UserInv, UserTypeOK, SessionPerToken, DistinctIds
    <2>3. QED
      BY <1>6, <2>1, <2>2 DEF reduce_balance
  <1>7. ASSUME NEW t \in Tokens, NEW amount \in Balances, increase_balance(t, amount)
        PROVE  UserInv'
    <2> DEFINE name == search_by_token(t)
               user == [users[name] EXCEPT !.account_balance = @ + amount]
    <2>1. name \in DOMAIN users /\ users' = [users EXCEPT ![name] = user]
      BY <1>7, TokenFound DEF increase_balance
    <2>2. users[name] \in UserData /\ amount \in Int
      BY <1>1, <2>1, UserAssumption
    <2> HIDE DEF name
    <2>3. /\ user \in UserData /\ user.id = users[name].id
          /\ user.token = users[name].token
          /\ user.is_logged_in = users[name].is_logged_in
      BY <2>2 DEF UserData
    <2> HIDE DEF user
    <2>4. QED
      BY <2>1, <2>3, KeptSessionInv
  <1>8. ASSUME NEW t \in Tokens, NEW pw \in Passwords \cup {Blank},
               NEW ph \in Phones \cup {Blank}, NEW a \in Addresses \cup {Blank},
               edit_information(t, pw, ph, a)
        PROVE  UserInv'
    <2> DEFINE name == search_by_token(t)
               user == edited(users[name], pw, ph, a)
    <2>1. name \in DOMAIN users /\ users' = [users EXCEPT ![name] = user]
      BY <1>8, TokenFound DEF edit_information
    <2>2. users[name] \in UserData
      BY <1>1, <2>1
    <2>3. /\ user \in UserData /\ user.id = users[name].id
          /\ user.token = users[name].token
          /\ user.is_logged_in = users[name].is_logged_in
      BY <2>2, EditedUser
    <2> HIDE DEF name, user
    <2>4. QED
      BY <2>1, <2>3, KeptSessionInv
  <1>9. ASSUME restart_users PROVE UserInv'
    BY <1>9, RestartInv
  <1>10. CASE UNCHANGED users
    BY <1>10 DEF UserInv, UserTypeOK, SessionPerToken, DistinctIds
  <1>11. QED
    BY <1>2, <1>3, <1>4, <1>5, <1>6, <1>7, <1>8, <1>9, <1>10 DEF UserNext

(* Users, tokens and ids are sound in every reachable state.                *)
THEOREM UserInvariance == UserSpec => []UserInv
  <1>1. QED
    BY UserInitInv, UserStepInv, PTL DEF UserSpec

(* The users keep their types, whatever is typed at sign-up and in edits.   *)
THEOREM UserTypeCorrect == UserSpec => []UserTypeOK
  <1>1. UserInv => UserTypeOK
    BY DEF UserInv
  <1>2. QED
    BY <1>1, UserInvariance, PTL

(* A token never resolves to two users, nor to one without a session.       *)
THEOREM UserSessionPerToken == UserSpec => []SessionPerToken
  <1>1. UserInv => SessionPerToken
    BY DEF UserInv
  <1>2. QED
    BY <1>1, UserInvariance, PTL

(* No two users ever have the same id, whatever gaps the file has.          *)
THEOREM UserDistinctIds == UserSpec => []DistinctIds
  <1>1. UserInv => DistinctIds
    BY DEF UserInv
  <1>2. QED
    BY <1>1, UserInvariance, PTL

-----------------------------------------------------------------------------
(* A session is not taken over.                                            *)

(* A session that goes on keeps its token and its connection.               *)
Untouched(old, new) ==
    old.is_logged_in /\ new.is_logged_in =>
        new.token = old.token /\ new.socket_fd = old.socket_fd

(* Where one record changes, only its session can.                          *)
LEMMA OneUntouched ==
    ASSUME NEW name \in DOMAIN users, NEW user, users' = [users EXCEPT ![name] = user],
           Untouched(users[name], user), UserTypeOK
    PROVE  \A n \in DOMAIN users : Untouched(users[n], users'[n])
  BY DEF Untouched, UserTypeOK

(* No operation replaces a session that goes on.                            *)
LEMMA SessionStep ==
    ASSUME UserInv, UserNext
    PROVE  \A n \in DOMAIN users : Untouched(users[n], users'[n])
  <1>1. UserTypeOK /\ \A n \in DOMAIN users : users[n] \in UserData
    BY DEF UserInv, UserTypeOK
  <1>2. ASSUME NEW n \in Usernames, NEW pw \in Passwords \cup {Blank}, NEW b \in Balances,
               NEW ph \in Phones, NEW a \in Addresses \cup {Blank},
               signup(n, pw, b, ph, a)
        PROVE  \A m \in DOMAIN users : users'[m] = users[m]
    BY <1>2 DEF signup, username_exist
  <1>3. ASSUME NEW n \in Usernames, NEW pw \in Passwords, NEW fd \in Fds, NEW t \in Tokens,
               user_validation(n, pw), login(n, fd, t)
        PROVE  \A m \in DOMAIN users : Untouched(users[m], users'[m])
    BY <1>1, <1>3 DEF user_validation, login, username_exist, Untouched, UserTypeOK
  <1>4. ASSUME NEW t \in Tokens, logout(t)
        PROVE  \A m \in DOMAIN users : Untouched(users[m], users'[m])
    <2> DEFINE name == search_by_token(t)
               user == logged_out(users[name])
    <2>1. name \in DOMAIN users /\ users' = [users EXCEPT ![name] = user]
      BY <1>4, TokenFound DEF logout
    <2>2. users[name] \in UserData
      BY <1>1, <2>1
    <2> HIDE DEF name
    <2>3. ~user.is_logged_in
      BY <2>2 DEF logged_out, UserData
    <2> HIDE DEF user
    <2>4. QED
      BY <1>1, <2>1, <2>3, OneUntouched DEF Untouched
  <1>5. ASSUME NEW fd \in Fds, client_dead(fd)
        PROVE  \A m \in DOMAIN users : Untouched(users[m], users'[m])
    <2>1. PICK name \in DOMAIN users :
              users' = [users EXCEPT ![name] = [logged_out(@) EXCEPT !.socket_fd = NoFd]]
      BY <1>5 DEF client_dead
    <2> DEFINE user == [logged_out(users[name]) EXCEPT !.socket_fd = NoFd]
    <2>2. users' = [users EXCEPT ![name] = user]
      BY <2>1
    <2>3. ~user.is_logged_in
      BY <1>1 DEF logged_out, UserData
    <2> HIDE DEF user
    <2>4. QED
      BY <1>1, <2>2, <2>3, OneUntouched DEF Untouched
  <1>6. ASSUME NEW t \in Tokens, NEW price \in Balances, reduce_balance(t, price)
        PROVE  \A m \in DOMAIN users : Untouched(users[m], users'[m])
    <2> DEFINE name == search_by_token(t)
    <2>1. CASE /\ sessions(t) # {}
               /\ users' = [users EXCEPT ![name].account_balance = @ - price]
      <3> DEFINE user == [users[name] EXCEPT !.account_balance = @ - price]
      <3>1. name \in DOMAIN users
        BY <2>1, TokenFound
      <3>2. users[name] \in UserData
        BY <1>1, <3>1
      <3> HIDE DEF name
      <3>3. Untouched(users[name], user)
        BY <3>2 DEF UserData, Untouched
      <3>4. users' = [users EXCEPT ![name] = user]
        BY <2>1
      <3> HIDE DEF user
      <3>5. QED
        BY <1>1, <3>1, <3>3, <3>4, OneUntouched
    <2>2. CASE UNCHANGED users
      BY <2>2 DEF Untouched
    <2>3. QED
      BY <1>6, <2>1, <2>2 DEF reduce_balance
  <1>7. ASSUME NEW t \in Tokens, NEW amount \in Balances, increase_balance(t, amount)
        PROVE  \A m \in DOMAIN users : Untouched(users[m], users'[m])
    <2> DEFINE name == search_by_token(t)
               user == [users[name] EXCEPT !.account_balance = @ + amount]
    <2>1. name \in DOMAIN users /\ users' = [users EXCEPT ![name] = user]
      BY <1>7, TokenFound DEF increase_balance
    <2>2. users[name] \in UserData
      BY <1>1, <2>1
    <2> HIDE DEF name
    <2>3. Untouched(users[name], user)
      BY <2>2 DEF UserData, Untouched
    <2> HIDE DEF user
    <2>4. QED
      BY <1>1, <2>1, <2>3, OneUntouched
  <1>8. ASSUME NEW t \in Tokens, NEW pw \in Passwords \cup {Blank},
               NEW ph \in Phones \cup {Blank}, NEW a \in Addresses \cup {Blank},
               edit_information(t, pw, ph, a)
        PROVE  \A m \in DOMAIN users : Untouched(users[m], users'[m])
    <2> DEFINE name == search_by_token(t)
               user == edited(users[name], pw, ph, a)
    <2>1. name \in DOMAIN users /\ users' = [users EXCEPT ![name] = user]
      BY <1>8, TokenFound DEF edit_information
    <2>2. users[name] \in UserData
      BY <1>1, <2>1
    <2>3. Untouched(users[name], user)
      BY <2>2, EditedUser DEF Untouched
    <2> HIDE DEF name, user
    <2>4. QED
      BY <1>1, <2>1, <2>3, OneUntouched
  <1>9. ASSUME restart_users
        PROVE  \A m \in DOMAIN users : Untouched(users[m], users'[m])
    <2>1. \A m \in DOMAIN users : ~users'[m].is_logged_in
      BY <1>1, <1>9 DEF restart_users, UserData
    <2>2. QED
      BY <2>1 DEF Untouched
  <1>10. QED
    BY <1>2, <1>3, <1>4, <1>5, <1>6, <1>7, <1>8, <1>9 DEF UserNext, Untouched

(* A user is in the system with one client only, for as long as the session *)
(* lasts.                                                                   *)
THEOREM UserSessionNotTakenOver == UserSpec => SessionNotTakenOver
  <1>1. UserInv /\ [UserNext]_users =>
            [\A n \in DOMAIN users :
                users[n].is_logged_in /\ users'[n].is_logged_in =>
                    /\ users'[n].token = users[n].token
                    /\ users'[n].socket_fd = users[n].socket_fd]_users
    BY SessionStep DEF Untouched
  <1>2. QED
    BY <1>1, UserInvariance, PTL DEF UserSpec, SessionNotTakenOver
=============================================================================
