---------------------------- MODULE Persistence ----------------------------
(***************************************************************************)
(* The server and its two files.  "exit" writes the users and then the      *)
(* rooms (Server::rewrite_data), each by opening its file, which empties    *)
(* it, and writing it whole.  An interrupt from the keyboard ends the       *)
(* program anywhere in that, and loses what was not saved.  The next start  *)
(* reads both files and fails over one that is not whole.                   *)
(*                                                                          *)
(* While the program is down, "users" and "rooms" stand for what the next   *)
(* start would read.                                                        *)
(***************************************************************************)
EXTENDS Server, Sequences

CONSTANT MaxStarts      \* bound: how often the server is started again

ASSUME PersistenceAssumption == MaxStarts \in Nat

VARIABLES
    starts,         \* times the server was started again
    mode,           \* the program is up, saving or down
    saved,          \* how many files this save has written
    whole,          \* files that can be read
    users_file,     \* users written last, and the history up to then
    rooms_file,     \* rooms written last
    apart,          \* history: the files hold users and rooms of two moments
    split           \* history: so do the program's users and rooms

fileVars == <<starts, mode, saved, whole, users_file, rooms_file, apart, split>>
persistenceVars == <<serverVars, fileVars>>

Files == {"users", "rooms"}

PersistenceTypeOK ==
    /\ ServerTypeOK
    /\ mode \in {"up", "saving", "down"} /\ saved \in 0 .. 2
    /\ whole \subseteq Files /\ starts \in 0 .. MaxStarts
    /\ apart \in BOOLEAN /\ split \in BOOLEAN
    /\ mode = "up" => whole = Files /\ saved = 0

-----------------------------------------------------------------------------
(***************************************************************************)
(* Seeded faults: slips a property has to notice when the operator named    *)
(* after "Faulty_" is replaced by it.                                       *)
(***************************************************************************)

(* Saves the rooms first. *)
Faulty_rewrite_data == <<"rooms", "users">>

(* Saves the users at least. *)
Faulty_interrupt ==
    /\ mode = "up" /\ mode' = "down" /\ saved' = 0
    /\ users_file' = [users |-> users, ledger |-> ledger]
    /\ rooms' = rooms_file /\ split' = apart
    /\ connected' = {} /\ answer' = "none"
    /\ UNCHANGED <<starts, users, ledger, today_date, whole, rooms_file, apart>>

(* Starts with whichever file it can read. *)
Faulty_start(day) ==
    /\ mode = "down" /\ starts < MaxStarts /\ starts' = starts + 1 /\ mode' = "up"
    /\ restart(day)
    /\ UNCHANGED <<saved, whole, users_file, rooms_file, apart, split>>

-----------------------------------------------------------------------------

(* The files in the order they are written. *)
rewrite_data == <<"users", "rooms">>

PersistenceInit ==
    /\ ServerInit
    /\ starts = 0 /\ mode = "up" /\ saved = 0 /\ whole = Files
    /\ users_file = [users |-> users, ledger |-> ledger] /\ rooms_file = rooms
    /\ apart = FALSE /\ split = FALSE

serve == mode = "up" /\ ServerStep /\ UNCHANGED fileVars

shout_down ==
    /\ mode = "up" /\ mode' = "saving"
    /\ UNCHANGED <<starts, serverVars, saved, whole, users_file, rooms_file, apart, split>>

open_file ==
    /\ mode = "saving" /\ saved < 2 /\ whole = Files
    /\ whole' = Files \ {rewrite_data[saved + 1]}
    /\ UNCHANGED <<starts, serverVars, mode, saved, users_file, rooms_file, apart, split>>

(* Neither sessions nor the date are saved. *)
write_file ==
    /\ mode = "saving" /\ whole # Files
    /\ \/ /\ rewrite_data[saved + 1] = "users"
          /\ users_file' = [ledger |-> ledger, users |->
                 [n \in DOMAIN users |-> [logged_out(users[n]) EXCEPT !.socket_fd = NoFd]]]
          /\ UNCHANGED rooms_file
       \/ /\ rewrite_data[saved + 1] = "rooms"
          /\ rooms_file' = rooms
          /\ UNCHANGED users_file
    /\ saved' = saved + 1 /\ whole' = Files
    /\ apart' = (saved = 0 \/ split)
    /\ UNCHANGED <<starts, serverVars, mode, split>>

(* The memory goes, the files stay. *)
ends ==
    /\ mode' = "down" /\ saved' = 0
    /\ users' = users_file.users /\ ledger' = users_file.ledger
    /\ rooms' = rooms_file
    /\ split' = apart
    /\ connected' = {} /\ answer' = "none"
    /\ UNCHANGED <<starts, today_date, whole, users_file, rooms_file, apart>>

exit == mode = "saving" /\ saved = 2 /\ ends

interrupt == mode # "down" /\ ends

start(day) ==
    /\ mode = "down" /\ whole = Files /\ mode' = "up"
    /\ starts < MaxStarts /\ starts' = starts + 1
    /\ restart(day)
    /\ UNCHANGED <<saved, whole, users_file, rooms_file, apart, split>>

PersistenceNext ==
    \/ serve \/ shout_down \/ open_file \/ write_file \/ exit \/ interrupt
    \/ \E d \in Days : start(d)

PersistenceSpec == PersistenceInit /\ [][PersistenceNext]_persistenceVars

-----------------------------------------------------------------------------
(***************************************************************************)
(* Properties (see also ReservationsHaveOneOwner).                         *)
(***************************************************************************)

(* In a plain trade (see HeldIsPaid) purses and reservations agree after    *)
(* every start from files of one moment: an interrupt costs what was not    *)
(* saved, and takes it from both.                                           *)
MoneySurvives == split \/ HeldIsPaid
=============================================================================
