------------------------- MODULE PersistenceProofs --------------------------
(***************************************************************************)
(* What survives in the files: a proof about Persistence for every number   *)
(* of starts and every moment of an interruption.  While the program is up  *)
(* the invariant of the server holds, and the users that were written last  *)
(* are among those it has; while it is down the two files stand for it.     *)
(***************************************************************************)
EXTENDS Persistence, ServerMoneyProofs

HeldIn(rs, accounts) ==
    \A r \in DOMAIN rs : \A u \in rs[r].users :
        u.number_of_reservation * rs[r].price_per_bed * (u.checkout_date - u.reserve_date)
            + 2 * accounts[<<u.id, r>>].refunded <= accounts[<<u.id, r>>].spent

NaturalIn(rs) ==
    \A r \in DOMAIN rs : \A u \in rs[r].users : u.number_of_reservation \in Nat

HalfIn(accounts) == \A a \in Accounts : 2 * accounts[a].refunded <= accounts[a].spent

-----------------------------------------------------------------------------
(* The invariant.                                                          *)

(* Where the program and its files stand. *)
Stages ==
    /\ mode \in {"up", "saving", "down"} /\ saved \in 0 .. 2
    /\ whole \subseteq Files /\ starts \in 0 .. MaxStarts
    /\ apart \in BOOLEAN /\ split \in BOOLEAN
    /\ mode = "up" => whole = Files
    /\ mode # "saving" => saved = 0
    /\ mode = "saving" /\ whole # Files => saved < 2

(* The files hold users and rooms that fit together, of whatever moments. *)
Written ==
    /\ SavedUsers(users_file.users) /\ SavedRooms(rooms_file)
    /\ users_file.ledger \in [Accounts -> [spent : Int, refunded : Int]]
    /\ OwnedBy(rooms_file, users_file.users)

(* A program that runs has everybody who is in the file, and the file has   *)
(* everybody as soon as the users are saved.                                *)
Running ==
    mode # "down" =>
        /\ ServerInv
        /\ Among(users_file.users, users)
        /\ saved > 0 => Among(users, users_file.users) /\ users_file.ledger = ledger

Stopped ==
    mode = "down" =>
        /\ users = users_file.users /\ ledger = users_file.ledger
        /\ rooms = rooms_file
        /\ today_date \in Days /\ connected = {} /\ answer = "none"
        /\ split = apart

(* Memory and files are in order as long as they are of one moment; nobody  *)
(* holds fewer beds than none in any case.                                  *)
Accounted ==
    /\ mode # "down" /\ ~split => AtMostHalfBack /\ NothingOwed
    /\ ~apart => HalfIn(users_file.ledger) /\ HeldIn(rooms_file, users_file.ledger)
    /\ NaturalStays /\ NaturalIn(rooms_file)

FilesInv == Stages /\ Written /\ Running /\ Stopped

-----------------------------------------------------------------------------
(* The steps.                                                              *)

(* Both files have just been read.                                          *)
LEMMA FilesInitInv == PersistenceInit => FilesInv /\ Accounted
  <1> SUFFICES ASSUME PersistenceInit PROVE FilesInv /\ Accounted
    OBVIOUS
  <1>1. /\ ServerInit /\ starts = 0 /\ mode = "up" /\ saved = 0 /\ whole = Files
        /\ users_file.users = users /\ users_file.ledger = ledger
        /\ rooms_file = rooms /\ apart = FALSE /\ split = FALSE
    BY DEF PersistenceInit
  <1>2. ServerInv /\ HotelInv /\ UsersInv
    BY <1>1, ServerInitInv DEF ServerInv
  <1>3. \A n \in DOMAIN users : ~users[n].is_logged_in /\ users[n].token = Blank
    BY <1>1 DEF ServerInit, UserInit
  <1>4. SavedUsers(users) /\ Among(users, users)
    BY <1>2, <1>3 DEF UsersInv, UserInv, UserTypeOK, DistinctIds, IdsAreGuests,
                      SavedUsers, Among
  <1>5. OwnedBy(rooms, users) /\ SavedRooms(rooms)
    BY <1>2, RoomsWritten DEF ServerInv, Owned, OwnedBy
  <1>6. ledger = [a \in Accounts |-> [spent |-> 0, refunded |-> 0]]
    BY <1>1 DEF ServerInit
  <1>7. ledger \in [Accounts -> [spent : Int, refunded : Int]]
    BY <1>6
  <1>8. Stages
    <2>1. starts \in 0 .. MaxStarts /\ saved \in 0 .. 2
      BY <1>1, PersistenceAssumption
    <2>2. apart \in BOOLEAN /\ split \in BOOLEAN
      BY <1>1
    <2>3. QED
      BY <1>1, <2>1, <2>2 DEF Stages
  <1>9. Written
    BY <1>1, <1>4, <1>5, <1>7 DEF Written
  <1>10. Running /\ Stopped
    BY <1>1, <1>2, <1>4 DEF Running, Stopped
  <1>11. \A r \in DOMAIN rooms : rooms[r].users = {}
    <2>1. PICK S \in SUBSET RoomNumbers :
              rooms \in [S -> {new_room(c, p) : c \in Capacities, p \in Prices}]
      BY <1>1 DEF ServerInit, HotelInit
    <2>2. \A c \in Capacities, p \in Prices : new_room(c, p).users = {}
      BY DEF new_room
    <2>3. QED
      BY <2>1, <2>2
  <1>12. AtMostHalfBack /\ NothingOwed /\ HalfIn(ledger) /\ HeldIn(rooms, ledger)
    BY <1>6, <1>11 DEF AtMostHalfBack, NothingOwed, HalfIn, HeldIn
  <1>13. NaturalStays /\ NaturalIn(rooms)
    BY <1>11 DEF NaturalStays, NaturalIn
  <1>14. Accounted
    BY <1>1, <1>12, <1>13 DEF Accounted
  <1>15. QED
    BY <1>8, <1>9, <1>10, <1>14 DEF FilesInv

(* A request is served from memory.                                         *)
LEMMA ServedFromMemory ==
    ASSUME FilesInv, serve
    PROVE  FilesInv'
  <1>1. mode = "up" /\ ServerStep /\ ServerInv /\ Among(users_file.users, users)
    BY DEF serve, FilesInv, Running
  <1>2. /\ mode' = mode /\ saved' = saved /\ whole' = whole /\ starts' = starts
        /\ users_file' = users_file /\ rooms_file' = rooms_file
        /\ apart' = apart /\ split' = split
    BY DEF serve, fileVars
  <1>3. ServerInv'
    BY <1>1, ServerStepInv DEF ServerNext
  <1>4. Among(users_file.users, users')
    BY <1>1, ServedSameUsers DEF Among, SameUsers, ServerNext
  <1>5. saved = 0
    BY <1>1 DEF FilesInv, Stages
  <1>6. Running' /\ Stopped'
    BY <1>1, <1>2, <1>3, <1>4, <1>5 DEF Running, Stopped
  <1>7. Stages' /\ Written'
    BY <1>2 DEF FilesInv, Stages, Written, Files, Accounts
  <1>8. QED
    BY <1>6, <1>7 DEF FilesInv

(* Words and opened files change nothing that is written.                   *)
LEMMA SavingBegins ==
    ASSUME FilesInv, shout_down \/ open_file
    PROVE  FilesInv'
  <1>1. /\ UNCHANGED <<starts, saved, users_file, rooms_file, apart, split>>
        /\ UNCHANGED serverVars
        /\ mode # "down" /\ mode' = "saving" /\ whole' \subseteq Files
        /\ mode = "up" \/ saved < 2
    BY DEF shout_down, open_file, FilesInv, Stages
  <1>2. Stages'
    BY <1>1 DEF FilesInv, Stages
  <1>3. Written' /\ Running' /\ Stopped'
    <2>1. ServerInv'
      BY <1>1, ServerStepInv DEF FilesInv, Running
    <2>2. QED
      BY <1>1, <2>1 DEF FilesInv, Written, Running, Stopped, Accounts, serverVars
  <1>4. QED
    BY <1>2, <1>3 DEF FilesInv

(* The users come first, so that the rooms in the file have their owners,   *)
(* and the rooms that follow have theirs.                                   *)
LEMMA FileWritten ==
    ASSUME FilesInv, write_file
    PROVE  FilesInv'
  <1>1. /\ UNCHANGED starts /\ UNCHANGED split /\ UNCHANGED serverVars
        /\ mode = "saving" /\ mode' = "saving" /\ saved \in {0, 1}
        /\ saved' = saved + 1 /\ whole' = Files /\ apart' = (saved = 0 \/ split)
    BY DEF write_file, FilesInv, Stages
  <1>2. Stages'
    BY <1>1 DEF FilesInv, Stages
  <1>3. ServerInv /\ Among(users_file.users, users)
        /\ (saved > 0 => Among(users, users_file.users) /\ users_file.ledger = ledger)
    BY <1>1 DEF FilesInv, Running
  <1>4. ServerInv'
    BY <1>1, <1>3, ServerStepInv
  <1>5. Stopped'
    BY <1>1 DEF Stopped
  <1>6. users' = users /\ rooms' = rooms /\ ledger' = ledger
    BY <1>1 DEF serverVars
  <1>7. CASE saved = 0
    <2> DEFINE us == [n \in DOMAIN users |-> [logged_out(users[n]) EXCEPT !.socket_fd = NoFd]]
    <2>1. /\ users_file' = [ledger |-> ledger, users |-> us]
          /\ rooms_file' = rooms_file
      BY <1>1, <1>7 DEF write_file, rewrite_data
    <2>2. SavedUsers(us) /\ Among(users, us) /\ Among(us, users)
      BY <1>3, UsersWritten DEF ServerInv
    <2>3. users_file'.users = us /\ users_file'.ledger = ledger
      BY <2>1
    <2> HIDE DEF us
    <2>4. OwnedBy(rooms_file, us)
      <3>1. OwnedBy(rooms_file, users_file.users)
        BY DEF FilesInv, Written
      <3>2. OwnedBy(rooms_file, users)
        BY <1>3, <3>1, StillOwned
      <3>3. QED
        BY <2>2, <3>2, StillOwned
    <2>5. Written'
      BY <1>3, <1>6, <2>1, <2>2, <2>3, <2>4
         DEF FilesInv, Written, ServerInv, AccountsTyped, Accounts
    <2>6. Running'
      BY <1>4, <1>6, <2>2, <2>3 DEF Running
    <2>7. QED
      BY <1>2, <1>5, <2>5, <2>6 DEF FilesInv
  <1>8. CASE saved = 1
    <2>1. users_file' = users_file /\ rooms_file' = rooms
      BY <1>1, <1>8 DEF write_file, rewrite_data
    <2>2. SavedRooms(rooms) /\ OwnedBy(rooms, users)
      BY <1>3, RoomsWritten DEF ServerInv, Owned, OwnedBy
    <2>3. OwnedBy(rooms, users_file.users)
      BY <1>3, <1>8, <2>2, StillOwned
    <2>4. Written'
      BY <2>1, <2>2, <2>3 DEF FilesInv, Written, Accounts
    <2>5. Running'
      BY <1>3, <1>4, <1>6, <1>8, <2>1 DEF Running
    <2>6. QED
      BY <1>2, <1>5, <2>4, <2>5 DEF FilesInv
  <1>9. QED
    BY <1>1, <1>7, <1>8

(* The memory is lost, and what the files hold is all there is.             *)
LEMMA MemoryLost ==
    ASSUME FilesInv, mode # "down", ends
    PROVE  FilesInv'
  <1>1. /\ mode' = "down" /\ saved' = 0 /\ UNCHANGED <<starts, today_date, whole>>
        /\ users' = users_file.users /\ ledger' = users_file.ledger /\ rooms' = rooms_file
        /\ split' = apart /\ connected' = {} /\ answer' = "none"
        /\ UNCHANGED <<users_file, rooms_file, apart>>
    BY DEF ends
  <1>2. today_date \in Days
    BY DEF FilesInv, Running, ServerInv, HotelInv
  <1>3. Stages'
    BY <1>1 DEF FilesInv, Stages
  <1>4. Written'
    BY <1>1 DEF FilesInv, Written, Accounts
  <1>5. Running' /\ Stopped'
    BY <1>1, <1>2 DEF Running, Stopped, Days
  <1>6. QED
    BY <1>3, <1>4, <1>5 DEF FilesInv

(* A start has the server in order again, whatever the day.                 *)
LEMMA StartedAgain ==
    ASSUME FilesInv, NEW day \in Days, start(day)
    PROVE  /\ FilesInv'
           /\ \A r \in DOMAIN rooms' : /\ r \in DOMAIN rooms
                                       /\ rooms'[r].users \subseteq rooms[r].users
                                       /\ rooms'[r].price_per_bed = rooms[r].price_per_bed
  <1>1. /\ mode = "down" /\ mode' = "up" /\ whole = Files
        /\ starts < MaxStarts /\ starts' = starts + 1
        /\ UNCHANGED <<saved, whole, users_file, rooms_file, apart, split>>
        /\ restart_users /\ restart_hotel(day)
        /\ connected' = {} /\ answer' = "none" /\ UNCHANGED ledger
    BY DEF start, restart
  <1>2. /\ users = users_file.users /\ rooms = rooms_file /\ ledger = users_file.ledger
        /\ saved = 0 /\ Written
    BY <1>1 DEF FilesInv, Stopped, Stages
  <1>3. UsersInv
    BY <1>2, UsersRead DEF Written
  <1>4. UsersInv' /\ SameUsers /\ NobodyComes
    BY <1>1, <1>3, UsersRestarted
  <1>5. /\ HotelInv' /\ DOMAIN rooms' = DOMAIN rooms
        /\ \A r \in DOMAIN rooms : /\ rooms'[r].users \subseteq rooms[r].users
                                   /\ rooms'[r].price_per_bed = rooms[r].price_per_bed
    BY <1>1, <1>2, RoomsRead DEF Written, restart_hotel
  <1>6. SessionHasConnection'
    <2>1. \A n \in DOMAIN users' : ~users'[n].is_logged_in
      BY <1>2, <1>4 DEF NobodyComes, Written, SavedUsers
    <2>2. QED
      BY <2>1 DEF SessionHasConnection
  <1>7. Owned'
    <2>1. OwnedBy(rooms, users)
      BY <1>2 DEF Written
    <2>2. SUFFICES ASSUME NEW r \in DOMAIN rooms', NEW u \in rooms'[r].users
                   PROVE  \E n \in DOMAIN users' : ~users'[n].privilege /\ users'[n].id = u.id
      BY DEF Owned
    <2>3. PICK n \in DOMAIN users : ~users[n].privilege /\ users[n].id = u.id
      BY <1>5, <2>1 DEF OwnedBy
    <2>4. QED
      BY <1>4, <2>3 DEF SameUsers
  <1>8. AccountsTyped'
    BY <1>1, <1>2 DEF AccountsTyped, Written, Accounts
  <1>9. ServerInv'
    BY <1>4, <1>5, <1>6, <1>7, <1>8 DEF ServerInv
  <1>10. Running' /\ Stopped'
    BY <1>1, <1>2, <1>4, <1>9 DEF Running, Stopped, Among, SameUsers
  <1>11. Stages'
    BY <1>1, PersistenceAssumption DEF FilesInv, Stages
  <1>12. Written'
    BY <1>1, <1>2 DEF Written, Accounts
  <1>13. QED
    BY <1>5, <1>10, <1>11, <1>12 DEF FilesInv

(* Every step leaves memory and files in order.                             *)
LEMMA FilesStepInv ==
    ASSUME FilesInv, [PersistenceNext]_persistenceVars
    PROVE  FilesInv'
  <1>1. CASE serve
    BY <1>1, ServedFromMemory
  <1>2. CASE shout_down \/ open_file
    BY <1>2, SavingBegins
  <1>3. CASE write_file
    BY <1>3, FileWritten
  <1>4. CASE exit \/ interrupt
    BY <1>4, MemoryLost DEF exit, interrupt
  <1>5. ASSUME NEW d \in Days, start(d) PROVE FilesInv'
    BY <1>5, StartedAgain
  <1>6. CASE UNCHANGED persistenceVars
    <2>1. UNCHANGED fileVars /\ UNCHANGED serverVars
      BY <1>6 DEF persistenceVars
    <2>2. mode # "down" => ServerInv'
      BY <2>1, ServerStepInv DEF FilesInv, Running
    <2>3. QED
      BY <2>1, <2>2 DEF fileVars, serverVars, FilesInv, Stages, Written, Running, Stopped,
                        Files, Accounts, Days
  <1>7. QED
    BY <1>1, <1>2, <1>3, <1>4, <1>5, <1>6 DEF PersistenceNext

THEOREM FilesInvariance == PersistenceSpec => []FilesInv
  <1>1. PersistenceInit => FilesInv
    BY FilesInitInv
  <1>2. FilesInv /\ [PersistenceNext]_persistenceVars => FilesInv'
    BY FilesStepInv
  <1>3. QED
    BY <1>1, <1>2, PTL DEF PersistenceSpec

-----------------------------------------------------------------------------
(* The money in the files.                                                 *)

(* What guests hold is paid for, said of the memory.                        *)
LEMMA HeldInMemory == NothingOwed <=> HeldIn(rooms, ledger)
  BY DEF NothingOwed, HeldIn, get_total_price

LEMMA HalfInMemory == AtMostHalfBack <=> HalfIn(ledger)
  BY DEF AtMostHalfBack, HalfIn

(* Nobody comes to hold fewer beds than none, in the memory or through what *)
(* is read from the files.                                                  *)
LEMMA NaturalSteps ==
    ASSUME PlainTrade, FilesInv, NaturalStays, NaturalIn(rooms_file),
           [PersistenceNext]_persistenceVars
    PROVE  NaturalStays'
  <1>1. CASE serve
    <2>1. mode = "up" /\ ServerStep
      BY <1>1 DEF serve
    <2>2. ServerInv /\ BedCounts \subseteq Nat
      BY <2>1, PriceOfPlainTrade DEF FilesInv, Running
    <2>3. QED
      BY <2>1, <2>2, NaturalStepInv DEF ServerNext
  <1>2. CASE rooms' = rooms
    BY <1>2 DEF NaturalStays
  <1>3. CASE exit \/ interrupt
    BY <1>3 DEF exit, interrupt, ends, NaturalStays, NaturalIn
  <1>4. ASSUME NEW d \in Days, start(d) PROVE NaturalStays'
    <2>1. \A r \in DOMAIN rooms' : r \in DOMAIN rooms /\ rooms'[r].users \subseteq rooms[r].users
      BY <1>4, StartedAgain
    <2>2. QED
      BY <2>1 DEF NaturalStays
  <1>5. CASE shout_down \/ open_file \/ write_file \/ UNCHANGED persistenceVars
    BY <1>2, <1>5 DEF shout_down, open_file, write_file, persistenceVars, serverVars
  <1>6. QED
    BY <1>1, <1>3, <1>4, <1>5 DEF PersistenceNext

(* Every step keeps the accounts in order, or is known to have torn them.   *)
LEMMA AccountedStepInv ==
    ASSUME PlainTrade, FilesInv, Accounted, [PersistenceNext]_persistenceVars
    PROVE  Accounted'
  <1> DEFINE InFiles == ~apart => HalfIn(users_file.ledger) /\ HeldIn(rooms_file, users_file.ledger)
             InMemory == mode # "down" /\ ~split => AtMostHalfBack /\ NothingOwed
  <1>1. InFiles /\ InMemory
    BY DEF Accounted
  <1>2. ASSUME UNCHANGED <<users_file, rooms_file, apart>> PROVE InFiles'
    BY <1>1, <1>2 DEF HalfIn, HeldIn, Accounts
  <1>3. ASSUME UNCHANGED <<rooms, ledger, split>>, mode # "down" PROVE InMemory'
    BY <1>1, <1>3 DEF AtMostHalfBack, NothingOwed, get_total_price, Accounts
  <1> DEFINE Natural == NaturalStays /\ NaturalIn(rooms_file)
  <1>11. NaturalStays'
    BY NaturalSteps DEF Accounted
  <1>12. Natural'
    <2>1. rooms_file' = rooms_file \/ rooms_file' = rooms
      BY DEF PersistenceNext, serve, shout_down, open_file, write_file, exit, interrupt,
             ends, start, persistenceVars, fileVars
    <2>2. QED
      BY <1>11, <2>1 DEF Accounted, NaturalIn, NaturalStays
  <1>4. CASE serve
    <2>1. /\ mode = "up" /\ ServerStep /\ UNCHANGED <<split, users_file, rooms_file, apart>>
      BY <1>4 DEF serve, fileVars
    <2>2. ServerInv
      BY <2>1 DEF FilesInv, Running
    <2>3. ~split => PaidInv'
      BY <1>1, <2>1, <2>2, PaidStepInv DEF PaidInv, ServerNext, Accounted
    <2>4. InMemory'
      BY <2>1, <2>3 DEF PaidInv
    <2>5. QED
      BY <1>2, <1>12, <2>1, <2>4 DEF Accounted
  <1>5. CASE shout_down \/ open_file
    <2>1. /\ UNCHANGED <<rooms, ledger, split>> /\ mode # "down"
          /\ UNCHANGED <<users_file, rooms_file, apart>>
      BY <1>5 DEF shout_down, open_file, serverVars
    <2>2. QED
      BY <1>2, <1>3, <1>12, <2>1 DEF Accounted
  <1>6. CASE write_file
    <2>1. /\ UNCHANGED <<rooms, ledger, split>> /\ mode = "saving"
          /\ saved \in {0, 1} /\ apart' = (saved = 0 \/ split)
      BY <1>6 DEF write_file, serverVars, FilesInv, Stages
    <2>2. InMemory'
      BY <1>3, <2>1
    <2>3. CASE saved = 0
      BY <1>12, <2>1, <2>2, <2>3 DEF Accounted
    <2>4. CASE saved = 1
      <3>1. users_file' = users_file /\ rooms_file' = rooms /\ users_file.ledger = ledger
        BY <1>6, <2>1, <2>4 DEF write_file, rewrite_data, FilesInv, Running
      <3>2. ~split => HalfIn(ledger) /\ HeldIn(rooms, ledger)
        BY <1>1, <2>1, HeldInMemory, HalfInMemory
      <3>3. InFiles'
        BY <2>1, <2>4, <3>1, <3>2 DEF HalfIn, HeldIn, Accounts
      <3>4. QED
        BY <1>12, <2>2, <3>3 DEF Accounted
    <2>5. QED
      BY <2>1, <2>3, <2>4
  <1>7. CASE exit \/ interrupt
    <2>1. mode' = "down" /\ UNCHANGED <<users_file, rooms_file, apart>>
      BY <1>7 DEF exit, interrupt, ends
    <2>2. QED
      BY <1>2, <1>12, <2>1 DEF Accounted
  <1>8. ASSUME NEW d \in Days, start(d) PROVE Accounted'
    <2>1. /\ mode = "down" /\ UNCHANGED <<users_file, rooms_file, apart, split, ledger>>
      BY <1>8 DEF start, restart
    <2>2. rooms = rooms_file /\ ledger = users_file.ledger /\ split = apart
      BY <2>1 DEF FilesInv, Stopped
    <2>3. ~split => HalfIn(ledger) /\ HeldIn(rooms, ledger)
      BY <1>1, <2>2
    <2>4. \A r \in DOMAIN rooms' : /\ r \in DOMAIN rooms
                                   /\ rooms'[r].users \subseteq rooms[r].users
                                   /\ rooms'[r].price_per_bed = rooms[r].price_per_bed
      BY <1>8, StartedAgain
    <2>5. InMemory'
      BY <2>1, <2>3, <2>4 DEF HalfIn, HeldIn, AtMostHalfBack, NothingOwed, get_total_price, Accounts
    <2>6. QED
      BY <1>2, <1>12, <2>1, <2>5 DEF Accounted
  <1>9. CASE UNCHANGED persistenceVars
    <2>1. UNCHANGED <<rooms, ledger, split, mode>> /\ UNCHANGED <<users_file, rooms_file, apart>>
      BY <1>9 DEF persistenceVars, serverVars, fileVars
    <2>2. InMemory'
      BY <1>1, <2>1 DEF AtMostHalfBack, NothingOwed, get_total_price, Accounts
    <2>3. QED
      BY <1>2, <1>12, <2>1, <2>2 DEF Accounted
  <1>10. QED
    BY <1>4, <1>5, <1>6, <1>7, <1>8, <1>9 DEF PersistenceNext

-----------------------------------------------------------------------------
(* The theorems.                                                           *)

(* Server and files keep their types, through every save, interruption and  *)
(* start.                                                                   *)
THEOREM FilesTypeCorrect == PersistenceSpec => []PersistenceTypeOK
  <1>1. FilesInv => PersistenceTypeOK
    <2> SUFFICES ASSUME FilesInv PROVE PersistenceTypeOK
      OBVIOUS
    <2>1. HotelTypeOK
      <3>1. CASE mode = "down"
        BY <3>1 DEF FilesInv, Stopped, Written, SavedRooms, BookedRoom, HotelTypeOK
      <3>2. CASE mode # "down"
        BY <3>2 DEF FilesInv, Running, ServerInv, HotelInv, SoundRoom, BookedRoom, HotelTypeOK
      <3>3. QED
        BY <3>1, <3>2
    <2>2. UserTypeOK
      BY DEF FilesInv, Stopped, Running, Written, SavedUsers, ServerInv, UsersInv, UserInv,
             UserTypeOK
    <2>3. AccountsTyped
      BY DEF FilesInv, Stopped, Running, Written, ServerInv, AccountsTyped
    <2>4. QED
      BY <2>1, <2>2, <2>3
         DEF AccountsTyped, ServerTypeOK, FilesInv, Stages, PersistenceTypeOK
  <1>2. QED
    BY <1>1, FilesInvariance, PTL

(* Users are written before rooms and never removed: whenever a save is     *)
(* interrupted, in the memory and in what the next start reads every        *)
(* reservation belongs to just one user, who is a guest.                    *)
THEOREM FilesOneOwner == PersistenceSpec => []ReservationsHaveOneOwner
  <1>1. FilesInv => ReservationsHaveOneOwner
    <2> SUFFICES ASSUME FilesInv PROVE Owned /\ DistinctIds
      BY DEF Owned, DistinctIds, ReservationsHaveOneOwner
    <2>1. CASE mode = "down"
      BY <2>1 DEF FilesInv, Stopped, Written, SavedUsers, OwnedBy, Owned, DistinctIds
    <2>2. CASE mode # "down"
      BY <2>2 DEF FilesInv, Running, ServerInv, UsersInv, UserInv
    <2>3. QED
      BY <2>1, <2>2
  <1>2. QED
    BY <1>1, FilesInvariance, PTL

(* In a plain trade an interruption takes from purses and books alike,      *)
(* unless it came between the two files.                                    *)
THEOREM FilesMoneySurvives == PersistenceSpec => []MoneySurvives
  <1>5. CASE ~PlainTrade
    <2>1. MoneySurvives
      BY <1>5 DEF MoneySurvives, HeldIsPaid
    <2>2. QED
      BY <2>1, PTL
  <1> SUFFICES ASSUME PlainTrade PROVE PersistenceSpec => []MoneySurvives
    BY <1>5
  <1>1. PersistenceInit => FilesInv /\ Accounted
    BY FilesInitInv
  <1>2. FilesInv /\ Accounted /\ [PersistenceNext]_persistenceVars => FilesInv' /\ Accounted'
    BY FilesStepInv, AccountedStepInv
  <1>3. FilesInv /\ Accounted => MoneySurvives
    <2> SUFFICES ASSUME FilesInv, Accounted, ~split
                 PROVE  AtMostHalfBack /\ NothingOwed
      BY DEF MoneySurvives, HeldIsPaid
    <2>1. CASE mode = "down"
      BY <2>1, HalfInMemory, HeldInMemory DEF FilesInv, Stopped, Accounted
    <2>2. CASE mode # "down"
      BY <2>2 DEF Accounted
    <2>3. QED
      BY <2>1, <2>2
  <1>4. QED
    BY <1>1, <1>2, <1>3, PTL DEF PersistenceSpec
=============================================================================
