------------------------------- MODULE Client -------------------------------
(***************************************************************************)
(* The client program: class Command of codes/front/cli.cpp and the loop of *)
(* codes/client/main.cpp, once for each client.  A command runs from the    *)
(* line that starts it to the next prompt and has one request under way at  *)
(* most.  It is cut into steps where the program waits: for a line or the   *)
(* fields of a form, for Enter, for an answer, for a connection.            *)
(*                                                                          *)
(* The other end of a connection is not in this module: "link" names the    *)
(* descriptor the server has for it and "wire" holds the message on its     *)
(* way.  A send on a lost connection fails or seems to succeed; a receive   *)
(* reports the loss unless an answer was there before it.                   *)
(***************************************************************************)
EXTENDS Integers

CONSTANTS
    Clients,
    Usernames, Passwords, Phones, Addresses, Balances,
    Tokens, Fds, Blank, NoFd,
    NewPasswords,   \* passwords a user may change to
    RoomNumbers, Capacities, Prices, BedCounts, Days, DaySteps,
    MaxAttempts,    \* attempts to connect before the client gives up (10)
    TypesAhead      \* whether standard input may be readable after a command

VARIABLES
    client,         \* the state of each client's program
    wire,           \* the message under way on each client's connection
    link            \* the server's descriptor of it, NoFd when it is lost

clientVars == <<client, wire, link>>

decode == INSTANCE Requests

(* Where the program stands, and the request it has made. *)
Places == {"prompt", "waiting", "form", "enter", "poll", "drain", "connect",
           "recover", "gone", "aborted"}

Calls == {"none", "free_username", "sign_up", "sign_in", "recover", "logout",
          "profile", "reservations", "user_info", "rooms", "other"}

Command == [at : Places, call : Calls,
            username : Usernames \cup {Blank}, password : Passwords \cup {Blank},
            token : Tokens \cup {Blank}, logged_in : BOOLEAN,
            privilege_access : BOOLEAN, is_server_up : BOOLEAN,
            attempt : 1 .. MaxAttempts]

ClientTypeOK ==
    /\ client \in [Clients -> Command]
    /\ link \in [Clients -> Fds \cup {NoFd}]
    /\ \A c \in Clients : wire[c].kind \in decode!RequestKinds \cup
                                           {"silence", "success", "error"}

-----------------------------------------------------------------------------

is_answered(c) == wire[c].kind \in {"success", "error"}

(* The client's end is closed and nothing is left to be read from it. *)
is_lost(c) == link[c] = NoFd /\ ~is_answered(c)

(* The program of c goes on as p. *)
goes_on(c, p) == client' = [client EXCEPT ![c] = p]

hang_up(c) ==
    /\ link' = [link EXCEPT ![c] = NoFd]
    /\ wire' = [wire EXCEPT ![c] = decode!silence]

(* send_message and the wait for the answer; a call that cannot be sent     *)
(* returns, and the program is back where "otherwise" says.                 *)
request(c, p, call, message, otherwise) ==
    /\ \/ /\ link[c] # NoFd
          /\ goes_on(c, [p EXCEPT !.at = "waiting", !.call = call])
          /\ wire' = [wire EXCEPT ![c] = message]
       \/ /\ link[c] = NoFd
          /\ \/ goes_on(c, [p EXCEPT !.at = "waiting", !.call = call])
             \/ goes_on(c, [p EXCEPT !.at = otherwise, !.call = "none"])
          /\ UNCHANGED wire
    /\ UNCHANGED link

(* execute_command: which menu a line is looked up in. *)
initial_state(c) == client[c].at = "prompt" /\ ~client[c].logged_in
reservation_state(c) == client[c].at = "prompt" /\ client[c].logged_in

ask(c, call, message) ==
    /\ reservation_state(c)
    /\ request(c, client[c], call, message, "enter")

(* Seeded fault (see below): does not notice that the server is up again. *)
Faulty_hear(c, call, kind, p) ==
    /\ client[c].at = "waiting" /\ client[c].call = call
    /\ wire[c].kind = kind
    /\ goes_on(c, p)
    /\ wire' = [wire EXCEPT ![c] = decode!silence]
    /\ link' = [link EXCEPT ![c] = IF p.at = "aborted" THEN NoFd ELSE @]

(* receive_data with an answer of this kind to this call; the system closes *)
(* the socket of a program that aborts over it.                             *)
hear(c, call, kind, p) ==
    /\ client[c].at = "waiting" /\ client[c].call = call
    /\ wire[c].kind = kind
    /\ goes_on(c, [p EXCEPT !.is_server_up = TRUE])
    /\ wire' = [wire EXCEPT ![c] = decode!silence]
    /\ link' = [link EXCEPT ![c] = IF p.at = "aborted" THEN NoFd ELSE @]

(* A command returns to the loop; that of somebody who was signed in when   *)
(* it was typed waits for Enter before it does.                             *)
idle(p) ==
    [p EXCEPT !.at = IF p.call \in {"free_username", "sign_up", "sign_in"}
                     THEN "poll" ELSE "enter",
              !.call = "none"]

form(p) == [p EXCEPT !.at = "form"]
aborted(p) == [p EXCEPT !.at = "aborted"]

-----------------------------------------------------------------------------
(***************************************************************************)
(* Seeded faults: slips a property has to notice when the operator named    *)
(* after "Faulty_" is replaced by it.                                       *)
(***************************************************************************)

(* Offers signing in to a user who is signed in. *)
Faulty_login(c) ==
    /\ client[c].at = "prompt"
    /\ \E n \in Usernames, pw \in Passwords :
           request(c, [client[c] EXCEPT !.username = n, !.password = pw],
                   "sign_in", decode!sign_in(n, pw), "poll")

(* Does not remember the password. *)
Faulty_signed_in(c) ==
    hear(c, "sign_in", "success",
         idle([client[c] EXCEPT !.token = wire[c].token, !.logged_in = TRUE,
                                !.password = Blank,
                                !.privilege_access = wire[c].privilege]))

(* Keeps the token of the session that was lost. *)
Faulty_recovered(c) ==
    hear(c, "recover", "success",
         [client[c] EXCEPT !.at = "prompt", !.call = "none"])

(* Goes on as if it were still signed in. *)
Faulty_recovery_refused(c) ==
    hear(c, "recover", "error",
         [client[c] EXCEPT !.at = "prompt", !.call = "none", !.token = Blank])

(* Leaves it to the server to refuse. *)
Faulty_hotel_management(c) ==
    \E r \in RoomNumbers :
        ask(c, "other", decode!remove_room(client[c].token, r))

(* Counts the attempts and does not look at their number. *)
Faulty_connection_refused(c) ==
    /\ client[c].at = "connect"
    /\ goes_on(c, [client[c] EXCEPT !.attempt = IF @ = MaxAttempts THEN 1 ELSE @ + 1])
    /\ UNCHANGED <<wire, link>>

(* Looks at the number of attempts one attempt too late. *)
Faulty_last_attempt(c) ==
    /\ client[c].at = "connect"
    /\ goes_on(c, IF client[c].attempt <= MaxAttempts
                  THEN [client[c] EXCEPT !.attempt = @ + 1]
                  ELSE [client[c] EXCEPT !.at = "gone"])
    /\ UNCHANGED <<wire, link>>

-----------------------------------------------------------------------------
(* The commands of someone who has not signed in.                          *)

ClientInit ==
    /\ client = [c \in Clients |->
           [at |-> "connect", call |-> "none", username |-> Blank,
            password |-> Blank, token |-> Blank, logged_in |-> FALSE,
            privilege_access |-> FALSE, is_server_up |-> TRUE, attempt |-> 1]]
    /\ wire = [c \in Clients |-> decode!silence]
    /\ link = [c \in Clients |-> NoFd]

(* help, clear, verbose, a line that is no command or wrongly written, the  *)
(* end of the input: nothing is sent.  Only the end of the input and clear  *)
(* return at once to somebody who is signed in.                             *)
local_command(c) ==
    /\ client[c].at = "prompt"
    /\ \/ goes_on(c, [client[c] EXCEPT !.at = "poll"])
       \/ client[c].logged_in /\ goes_on(c, [client[c] EXCEPT !.at = "enter"])
    /\ UNCHANGED <<wire, link>>

(* What was typed before the program asked for Enter answers it as well.    *)
press_enter(c) ==
    /\ client[c].at = "enter"
    /\ goes_on(c, [client[c] EXCEPT !.at = "poll"])
    /\ UNCHANGED <<wire, link>>

(* At the prompt by a command, anywhere by an interrupt. *)
quit(c) ==
    /\ client[c].at \notin {"gone", "aborted"}
    /\ goes_on(c, [client[c] EXCEPT !.at = "gone"])
    /\ hang_up(c)

signup(c) ==
    /\ initial_state(c)
    /\ \E n \in Usernames :
           request(c, [client[c] EXCEPT !.username = n], "free_username",
                   decode!check_username_is_free(n), "poll")

name_is_free(c) == hear(c, "free_username", "success", form(client[c]))
name_is_taken(c) == hear(c, "free_username", "error", idle(client[c]))

signup_form(c) ==
    /\ client[c].at = "form" /\ client[c].call = "free_username"
    /\ \E pw \in Passwords, b \in Balances, ph \in Phones, a \in Addresses :
           request(c, client[c], "sign_up",
                   decode!sign_up(client[c].username, pw, b, ph, a), "poll")

(* The outcome is shown and nothing else happens; when no answer came the   *)
(* last one, about the free name, is shown in its place.                    *)
signup_shown(c) ==
    \/ \E kind \in {"success", "error"} : hear(c, "sign_up", kind, idle(client[c]))
    \/ /\ client[c].at = "waiting" /\ client[c].call = "sign_up"
       /\ is_lost(c)
       /\ goes_on(c, [idle(client[c]) EXCEPT !.is_server_up = FALSE])
       /\ UNCHANGED <<wire, link>>

(* The name and the password are remembered before the answer is known. *)
login(c) ==
    /\ initial_state(c)
    /\ \E n \in Usernames, pw \in Passwords :
           request(c, [client[c] EXCEPT !.username = n, !.password = pw],
                   "sign_in", decode!sign_in(n, pw), "poll")

signed_in(c) ==
    hear(c, "sign_in", "success",
         idle([client[c] EXCEPT !.token = wire[c].token, !.logged_in = TRUE,
                                !.privilege_access = wire[c].privilege]))

sign_in_refused(c) == hear(c, "sign_in", "error", idle(client[c]))

-----------------------------------------------------------------------------
(* The commands of someone who has.                                        *)

answered_other(c) ==
    \E kind \in {"success", "error"} : hear(c, "other", kind, idle(client[c]))

logout(c) == ask(c, "logout", decode!logout(client[c].token))

logged_out(c) ==
    hear(c, "logout", "success",
         idle([client[c] EXCEPT !.token = Blank, !.logged_in = FALSE, !.username = Blank]))

view_user_info(c) == ask(c, "user_info", decode!get_user_info(client[c].token))

(* An error comes without data, and no data is not a JSON text: the parser  *)
(* throws before the kind of the answer is looked at.                       *)
user_info_shown(c) ==
    \E kind \in {"success", "error"} :
        hear(c, "user_info", kind,
             IF kind = "success" THEN idle(client[c]) ELSE aborted(client[c]))

edit_information(c) == ask(c, "profile", decode!get_user_info(client[c].token))

profile_shown(c) ==
    \E kind \in {"success", "error"} :
        hear(c, "profile", kind,
             IF kind = "success" THEN form(client[c]) ELSE aborted(client[c]))

(* One of the three is changed; an administrator has a password only.       *)
(* What the client remembers of the password stays as it was.               *)
edit_form(c) ==
    /\ client[c].at = "form" /\ client[c].call = "profile"
    /\ LET edit(pw, ph, a) ==
               request(c, client[c], "other",
                       decode!edit_information(client[c].token, pw, ph, a), "enter")
       IN  \/ \E pw \in NewPasswords : edit(pw, Blank, Blank)
           \/ /\ ~client[c].privilege_access
              /\ \/ \E ph \in Phones : edit(Blank, ph, Blank)
                 \/ \E a \in Addresses : edit(Blank, Blank, a)

cancel_reservation(c) ==
    ask(c, "reservations", decode!get_reservations(client[c].token))

reservations_shown(c) == hear(c, "reservations", "success", form(client[c]))

no_reservations(c) == hear(c, "reservations", "error", idle(client[c]))

cancel_form(c) ==
    /\ client[c].at = "form" /\ client[c].call = "reservations"
    /\ \E r \in RoomNumbers, n \in BedCounts :
           request(c, client[c], "other",
                   decode!cancel_booking(client[c].token, r, n), "enter")

(* A line that is not what the two forms ask for ends the command. *)
leave_form(c) ==
    /\ client[c].at = "form" /\ client[c].call \in {"profile", "reservations"}
    /\ goes_on(c, idle(client[c]))
    /\ UNCHANGED <<wire, link>>

view_users(c) == ask(c, "other", decode!get_users(client[c].token))

view_rooms(c) == ask(c, "rooms", decode!get_rooms_info(client[c].token))

(* The refusal of somebody who is nobody has no data at all, and to take it *)
(* for a string throws.                                                     *)
rooms_shown(c) ==
    \E kind \in {"success", "error"} :
        hear(c, "rooms", kind,
             IF kind = "success" THEN idle(client[c]) ELSE aborted(client[c]))

book_room(c) ==
    \E r \in RoomNumbers, n \in BedCounts, i, o \in Days :
        ask(c, "other", decode!book_room(client[c].token, r, n, i, o))

pass_day(c) ==
    \E d \in DaySteps : ask(c, "other", decode!passing_time(client[c].token, d))

(* What leaving means depends on who the client thinks its user is. *)
leave_room(c) ==
    \E r \in RoomNumbers :
        ask(c, "other", IF client[c].privilege_access
                        THEN decode!empty_room(client[c].token, r)
                        ELSE decode!leave_room(client[c].token, r))

hotel_management(c) ==
    /\ client[c].privilege_access
    /\ \E r \in RoomNumbers, n \in Capacities, p \in Prices :
           \/ ask(c, "other", decode!add_room(client[c].token, r, n, p))
           \/ ask(c, "other", decode!modify_room(client[c].token, r, n, p))
           \/ ask(c, "other", decode!remove_room(client[c].token, r))

-----------------------------------------------------------------------------
(* The connection.                                                         *)

(* No answer comes any more: every command but signup_form's returns.       *)
answer_lost(c) ==
    /\ client[c].at = "waiting" /\ client[c].call \notin {"recover", "sign_up"}
    /\ is_lost(c)
    /\ goes_on(c, [idle(client[c]) EXCEPT !.is_server_up = FALSE])
    /\ UNCHANGED <<wire, link>>

(* The socket is closed and a new one is connected. *)
reconnect(c) ==
    /\ goes_on(c, [client[c] EXCEPT !.at = "connect", !.attempt = 1])
    /\ hang_up(c)

(* After a command the loop looks at the socket, but asks whether anything  *)
(* can be read from the socket or from standard input.  It waits on the     *)
(* socket in either case, and a loss ends the wait.  Then it asks what the  *)
(* last command that received something found.                              *)
poll(c) ==
    /\ client[c].at = "poll"
    /\ \E stdin_ready \in BOOLEAN :
        /\ stdin_ready => TypesAhead
        /\ \/ is_lost(c) /\ reconnect(c)
           \/ /\ ~is_lost(c) /\ stdin_ready
              /\ goes_on(c, [client[c] EXCEPT !.at = "drain"])
              /\ UNCHANGED <<wire, link>>
           \/ ~is_lost(c) /\ ~stdin_ready /\ ~client[c].is_server_up /\ reconnect(c)
           \/ /\ ~is_lost(c) /\ ~stdin_ready /\ client[c].is_server_up
              /\ goes_on(c, [client[c] EXCEPT !.at = "prompt"])
              /\ UNCHANGED <<wire, link>>

drained(c) == client[c].at = "drain" /\ is_lost(c) /\ reconnect(c)

connection_made(c, fd) ==
    /\ client[c].at = "connect"
    /\ goes_on(c, [client[c] EXCEPT !.at = "recover", !.attempt = 1])
    /\ link' = [link EXCEPT ![c] = fd]
    /\ UNCHANGED wire

(* The program ends itself after the last attempt. *)
connection_refused(c) ==
    /\ client[c].at = "connect"
    /\ goes_on(c, IF client[c].attempt < MaxAttempts
                  THEN [client[c] EXCEPT !.attempt = @ + 1]
                  ELSE [client[c] EXCEPT !.at = "gone"])
    /\ UNCHANGED <<wire, link>>

(* Whoever was signed in signs in again with what the client remembers; the *)
(* loop then prompts without looking at the socket.                         *)
recover_state(c) ==
    /\ client[c].at = "recover"
    /\ \/ /\ ~client[c].logged_in
          /\ goes_on(c, [client[c] EXCEPT !.at = "prompt"])
          /\ UNCHANGED <<wire, link>>
       \/ /\ client[c].logged_in
          /\ request(c, client[c], "recover",
                 decode!sign_in(client[c].username, client[c].password), "prompt")

recovered(c) ==
    hear(c, "recover", "success",
         [client[c] EXCEPT !.at = "prompt", !.call = "none", !.token = wire[c].token])

recovery_refused(c) ==
    hear(c, "recover", "error",
         [client[c] EXCEPT !.at = "prompt", !.call = "none", !.token = Blank,
                           !.logged_in = FALSE])

(* What did not come is parsed nevertheless, which throws. *)
recovery_unanswered(c) ==
    /\ client[c].at = "waiting" /\ client[c].call = "recover"
    /\ is_lost(c)
    /\ goes_on(c, aborted(client[c]))
    /\ UNCHANGED <<wire, link>>

-----------------------------------------------------------------------------

(* What the user does ... *)
line_typed(c) ==
    \/ local_command(c) \/ press_enter(c) \/ quit(c)
    \/ signup(c) \/ signup_form(c) \/ login(c)
    \/ logout(c) \/ view_user_info(c) \/ view_users(c) \/ view_rooms(c)
    \/ edit_information(c) \/ edit_form(c) \/ leave_form(c)
    \/ book_room(c) \/ cancel_reservation(c) \/ cancel_form(c)
    \/ pass_day(c) \/ leave_room(c) \/ hotel_management(c)

(* ... and what the program then does by itself, connecting aside.          *)
program_step(c) ==
    \/ name_is_free(c) \/ name_is_taken(c) \/ signup_shown(c)
    \/ signed_in(c) \/ sign_in_refused(c) \/ logged_out(c)
    \/ user_info_shown(c) \/ profile_shown(c) \/ rooms_shown(c)
    \/ reservations_shown(c) \/ no_reservations(c) \/ answered_other(c)
    \/ answer_lost(c) \/ poll(c) \/ drained(c)
    \/ recover_state(c) \/ recovered(c) \/ recovery_refused(c)
    \/ recovery_unanswered(c)
=============================================================================
