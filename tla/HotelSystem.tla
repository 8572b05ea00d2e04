----------------------------- MODULE HotelSystem -----------------------------
(***************************************************************************)
(* The whole system: the server with its hotel and users, the clients, and  *)
(* the connections between them.  The server answers one request in a step, *)
(* by the handler its kind names (Server::diagnose).  Connections are lost  *)
(* with the server, which saves and ends at "exit", or ends without saving  *)
(* at an interrupt, and is started again, or by the network; a message      *)
(* under way is lost with its connection, except an answer the client has   *)
(* already been given.  An interrupt in the middle of saving is the matter  *)
(* of module Persistence.                                                   *)
(***************************************************************************)
EXTENDS Server

CONSTANTS
    Clients,
    NewPasswords,   \* passwords a user may change to
    MaxAttempts,    \* attempts to connect before a client gives up
    TypesAhead,     \* whether standard input may be readable after a command
    LossyNetwork,   \* whether connections are lost while the server runs
    Interrupts      \* whether the server may end without saving

ASSUME SystemAssumption ==
    /\ IsFiniteSet(Clients)
    /\ NewPasswords \subseteq Passwords
    /\ MaxAttempts \in Nat \ {0}
    /\ TypesAhead \in BOOLEAN /\ LossyNetwork \in BOOLEAN
    /\ Interrupts \in BOOLEAN

VARIABLES client, wire, link,
          serving,      \* the server's program runs
          files,        \* users and rooms as last saved, the ledger of then
          undone        \* history: users whom an interrupt has undone

Cli == INSTANCE Client

fileVars == <<files, undone>>
systemVars == <<serverVars, client, wire, link, serving, fileVars>>

SystemTypeOK ==
    /\ ServerTypeOK
    /\ Cli!ClientTypeOK
    /\ serving \in BOOLEAN
    /\ DOMAIN files.users \subseteq Usernames /\ DOMAIN files.rooms \subseteq RoomNumbers
    /\ files.users \in [DOMAIN files.users -> UserData]
    /\ files.rooms \in [DOMAIN files.rooms -> Room]
    /\ files.ledger \in [Accounts -> [spent : Int, refunded : Int]]
    /\ undone \subseteq Usernames

linked == {link[c] : c \in Clients} \ {NoFd}

-----------------------------------------------------------------------------
(* Seeded faults (see Client).                                             *)

(* Closes the socket and does not end the session behind it. *)
Faulty_hear_the_end(fd) ==
    /\ serving /\ fd \in connected \ linked
    /\ connected' = connected \ {fd}
    /\ UNCHANGED <<rooms, today_date, users, answer, ledger>>
    /\ UNCHANGED <<client, wire, link, serving, fileVars>>

-----------------------------------------------------------------------------

SystemInit ==
    /\ ServerInit
    /\ Cli!ClientInit
    /\ serving = TRUE
    /\ files = [users |-> users, rooms |-> rooms, ledger |-> ledger]
    /\ undone = {}

(* Server::diagnose: which handler a request is for. *)
diagnose(q, fd) ==
    \/ q.kind = "sign_in" /\ sign_in(q.username, q.password, fd)
    \/ q.kind = "free_username" /\ is_uname_available(q.username)
    \/ /\ q.kind = "sign_up"
       /\ sign_up(q.username, q.password, q.balance, q.phone, q.addr)
    \/ q.kind = "logout" /\ log_out(q.token)
    \/ q.kind = "user_info" /\ view(view_user_information(q.token))
    \/ q.kind = "view_users_info" /\ view(view_all_users(q.token))
    \/ q.kind = "view_rooms_info" /\ view(view_rooms_info(q.token))
    \/ q.kind = "view_reservations" /\ view(view_reservations(q.token))
    \/ /\ q.kind = "booking"
       /\ book_a_room(q.token, q.roomID, q.beds_count, q.check_in, q.check_out)
    \/ q.kind = "canceling" /\ cancel_a_room(q.token, q.roomID, q.beds_count)
    \/ q.kind = "passing_time" /\ pass_days(q.token, q.days)
    \/ q.kind = "edit_information" /\ edit_user_info(q.token, q.pass, q.phone, q.addr)
    \/ q.kind = "leaving" /\ leave_room(q.token, q.roomID)
    \/ q.kind = "emptying" /\ empty_room(q.token, q.roomID)
    \/ q.kind = "add_room" /\ add_a_room(q.token, q.roomID, q.max_cap, q.price)
    \/ q.kind = "modify_room" /\ modify_a_room(q.token, q.roomID, q.max_cap, q.price)
    \/ q.kind = "remove_room" /\ remove_a_room(q.token, q.roomID)

(* The answer says who has signed in. *)
answer_to(q) ==
    IF q.kind = "sign_in" /\ answer' = "success"
    THEN Cli!decode!response(answer', users'[q.username].token, users[q.username].privilege)
    ELSE Cli!decode!response(answer', Blank, FALSE)

(* A token that is drawn is not one that was drawn before. *)
token_is_new ==
    \A c \in Clients : client[c].token # Blank /\ sessions(client[c].token) = {}
        => \A n \in DOMAIN users' : users'[n].token # client[c].token

(* One request of a client, from its socket back to its socket. *)
serve(c) ==
    /\ serving /\ link[c] # NoFd
    /\ wire[c].kind \in Cli!decode!RequestKinds
    /\ diagnose(wire[c], link[c])
    /\ token_is_new
    /\ wire' = [wire EXCEPT ![c] = answer_to(wire[c])]
    /\ UNCHANGED <<client, link, serving, fileVars>>

(* The server reads the end of a connection its client has closed or lost. *)
hear_the_end(fd) ==
    /\ serving /\ fd \notin linked
    /\ drop_client(fd)
    /\ UNCHANGED <<client, wire, link, serving, fileVars>>

connect_to_server(c) ==
    \/ /\ serving
       /\ \E fd \in Fds : accept_client(fd) /\ Cli!connection_made(c, fd)
       /\ UNCHANGED <<serving, fileVars>>
    \/ /\ ~serving
       /\ Cli!connection_refused(c)
       /\ UNCHANGED <<serverVars, serving, fileVars>>

(* The server's program is gone; what it has sent can still be read. *)
server_ends ==
    /\ serving /\ serving' = FALSE
    /\ link' = [c \in Clients |-> NoFd]
    /\ wire' = [c \in Clients |-> IF Cli!is_answered(c) THEN wire[c] ELSE Cli!decode!silence]
    /\ UNCHANGED client

(* "exit": everything is saved, for the next start and, which matters only  *)
(* where there are interrupts, for those after it.                          *)
shut_down(day) ==
    /\ server_ends
    /\ restart(day)
    /\ files' = IF Interrupts
                THEN [users |-> users', rooms |-> rooms, ledger |-> ledger]
                ELSE files
    /\ UNCHANGED undone

(* An interrupt saves nothing: the next start reads what the last exit has  *)
(* written, and whoever signed up or changed the password since then has    *)
(* not.                                                                     *)
interrupt(day) ==
    /\ Interrupts /\ server_ends
    /\ users' = files.users /\ ledger' = files.ledger
    /\ today_date' = day /\ rooms' = update_date(files.rooms, day)
    /\ connected' = {} /\ answer' = "none"
    /\ undone' = undone \cup
           {n \in DOMAIN users : \/ n \notin DOMAIN files.users
                                \/ files.users[n].password # users[n].password}
    /\ UNCHANGED files

start ==
    /\ ~serving /\ serving' = TRUE
    /\ UNCHANGED <<serverVars, client, wire, link, fileVars>>

(* The network takes a connection with the message on it.  The server only  *)
(* hears of it later.                                                       *)
lose_connection(c) ==
    /\ LossyNetwork /\ link[c] # NoFd
    /\ Cli!hang_up(c)
    /\ UNCHANGED <<serverVars, client, serving, fileVars>>

(* An administrator does not pass days beyond the bound of the calendar. *)
within_calendar ==
    \A c \in Clients : wire'[c].kind = "passing_time" => today_date + wire'[c].days \in Days

type_line(c) ==
    /\ Cli!line_typed(c) /\ within_calendar
    /\ UNCHANGED <<serverVars, serving, fileVars>>

run(c) == Cli!program_step(c) /\ UNCHANGED <<serverVars, serving, fileVars>>

SystemNext ==
    \/ \E c \in Clients :
           type_line(c) \/ run(c) \/ connect_to_server(c) \/ serve(c) \/ lose_connection(c)
    \/ \E fd \in Fds : hear_the_end(fd)
    \/ \E d \in Days : shut_down(d) \/ interrupt(d)
    \/ start

(* The loop of the server handles every socket that can be read, the client *)
(* goes on when it can.  Nobody has to type, Enter included, to end or      *)
(* start the server, or to lose a connection.  connect() itself never waits *)
(* for a descriptor: that Fds may be used up is a bound of the model, which *)
(* the strong fairness of connecting makes up for.                          *)
SystemFairness ==
    /\ \A c \in Clients : WF_systemVars(run(c)) /\ WF_systemVars(serve(c))
                            /\ SF_systemVars(connect_to_server(c))
    /\ \A fd \in Fds : WF_systemVars(hear_the_end(fd))

SystemSpec == SystemInit /\ [][SystemNext]_systemVars
FairSystemSpec == SystemSpec /\ SystemFairness

-----------------------------------------------------------------------------
(***************************************************************************)
(* Properties.                                                             *)
(***************************************************************************)

(* What a client believes is so: while it is signed in and its connection   *)
(* holds, its token is the session the server has for its user, on that     *)
(* very connection, and with that user's privilege.  Requests in flight,    *)
(* lost answers, restarts and recoveries come in between.                   *)
believes(c) ==
    /\ client[c].logged_in /\ link[c] # NoFd
    /\ client[c].at \notin {"connect", "recover"}
    /\ client[c].call \notin {"logout", "recover"}

SessionsAgree ==
    \A c \in Clients : believes(c) =>
        /\ client[c].username \in DOMAIN users
        /\ LET user == users[client[c].username]
           IN  /\ user.is_logged_in
               /\ user.token = client[c].token
               /\ user.socket_fd = link[c]
               /\ user.privilege = client[c].privilege_access

(* Nobody asks to sign in over a connection that has a session: neither the *)
(* menu nor the recovery after a loss leads there.  The handler of sign_in  *)
(* relies on it (see Server).                                               *)
SignsInAsNobody ==
    \A c \in Clients : wire[c].kind = "sign_in" =>
        ~\E n \in DOMAIN users : users[n].is_logged_in /\ users[n].socket_fd = link[c]

(* The answers that carry data are parsed before their kind is looked at.   *)
(* It goes well because no client asks for data it is refused; a program    *)
(* ends itself over a recovery only.                                        *)
AbortsOnlyRecovering ==
    \A c \in Clients : client[c].at = "aborted" => client[c].call = "recover"

(* What only an administrator may do is asked for by an administrator's     *)
(* client, and a guest's departure by a guest's, also after a recovery,     *)
(* which leaves the privilege the client remembers as it is.                *)
AsksWhatItsUserMay ==
    \A c \in Clients :
        /\ wire[c].kind \in {"emptying", "add_room", "modify_room", "remove_room"}
               => is_admin(wire[c].token)
        /\ wire[c].kind = "leaving" => is_guest(wire[c].token)

(* A client that recovers is refused only while somebody is signed in as    *)
(* its user (another client came first, or the server has not heard of the  *)
(* loss yet), or after an interrupt has undone its user, who had signed up  *)
(* since the last exit.  A password that was changed is another cause (see  *)
(* NewPasswords): the client remembers the old one.                         *)
RefusedOnlyWhileSignedIn ==
    [][\A c \in Clients :
           /\ client[c].call = "recover"
           /\ wire[c].kind = "sign_in" /\ wire'[c].kind = "error"
           => \/ /\ client[c].username \in DOMAIN users
                 /\ users[client[c].username].is_logged_in
              \/ client[c].username \in undone]_systemVars

(* A client never gives up a connection that carries its session, though    *)
(* it asks an answer of long ago, from before it reconnected perhaps,       *)
(* whether the server is up.                                                *)
KeepsSession ==
    [][\A c \in Clients :
           client[c].logged_in /\ client[c].at = "poll" /\ client'[c].at = "connect"
               => link[c] = NoFd]_systemVars

(* A program that was given something to do comes back to its user, whom it *)
(* prompts or asks for Enter, or ends: no loss of a connection, no server   *)
(* that stays away, no exit, no interrupt and no start leaves it waiting    *)
(* for an answer for ever.  One wait is left out: after a line typed ahead  *)
(* the loop, which asks whether the socket or standard input can be read,   *)
(* waits on a live connection for what nobody is going to send.  That wait  *)
(* ends with the connection.                                                *)
PromptReturns ==
    \A c \in Clients :
        client[c].at \in {"waiting", "poll", "drain", "connect", "recover"}
            ~> \/ client[c].at \in {"prompt", "form", "enter", "gone", "aborted"}
               \/ client[c].at = "drain" /\ link[c] # NoFd

(* A session whose client is gone or lost its connection ends, so that its  *)
(* user is not locked out.                                                  *)
LostSessionEnds ==
    \A n \in Usernames :
        (n \in DOMAIN users /\ users[n].is_logged_in /\ users[n].socket_fd \notin linked)
            ~> ~(n \in DOMAIN users /\ users[n].is_logged_in
                    /\ users[n].socket_fd \notin linked)
=============================================================================
