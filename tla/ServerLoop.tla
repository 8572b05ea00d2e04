----------------------------- MODULE ServerLoop -----------------------------
(***************************************************************************)
(* The loop of codes/server/main.cpp: select over the console, the listening*)
(* socket and the clients' sockets, and a pass over what it found, in the   *)
(* order of the descriptors.  Reading the console waits for a word; every   *)
(* other step is taken at once.  What a request means is left to the module *)
(* Server: here it is a text that comes and is answered.                    *)
(*                                                                          *)
(* The system gives a new connection the lowest descriptor that is free     *)
(* (POSIX accept).  A connection asks its next question only after it has   *)
(* been answered (see Client), and its texts have no spaces in them, so that*)
(* to std::cin each is the beginning of a word.                             *)
(***************************************************************************)
EXTENDS Integers, Sequences, FiniteSetsExt, SequencesExt

CONSTANTS
    Connections,    \* connections of clients, used again when they are over
    Listener,       \* descriptor of the listening socket
    Lines,          \* what the operator may type: kinds of lines
    MaxTyped        \* bound: lines typed and not yet read

STDIN_FILENO == 0

(* The standard input, output and error are open before the program runs.   *)
ASSUME LoopAssumption ==
    /\ IsFiniteSet(Connections) /\ Connections \cap {"console", "listener"} = {}
    /\ Listener \in Nat \ 0 .. 2
    /\ Lines \subseteq {"exit", "word", "blank", "end"}
    /\ MaxTyped \in Nat

VARIABLES
    at,             \* where the program is: select, pass, console, ended
    working,        \* descriptors select reported and the pass has not handled
    watched,        \* master set: open descriptor -> what is behind it
    cin_good,       \* std::cin has not met the end of its input
    console,        \* lines typed and not yet read
    backlog,        \* connections not yet accepted
    unread,         \* connections with a request on their socket
    waiting,        \* connections whose client waits for an answer
    closed          \* connections their client has closed

program == <<at, working, watched, cin_good>>
traffic == <<console, backlog, unread, waiting, closed>>
loopVars == <<program, traffic>>

Places == {"select", "pass", "console", "ended"}

accepted == Range(watched) \cap Connections

(* Enough for every connection; 1 and 2 are standard output and error. *)
Descriptors == 0 .. Listener + Cardinality(Connections)

open == accepted \cup ToSet(backlog)

LoopTypeOK ==
    /\ at \in Places /\ cin_good \in BOOLEAN
    /\ DOMAIN watched \subseteq Descriptors
    /\ Range(watched) \subseteq Connections \cup {"console", "listener"}
    /\ working \subseteq DOMAIN watched
    /\ console \in BoundedSeq(Lines, MaxTyped)
    /\ unread \cup closed \subseteq open /\ waiting \subseteq open \ closed
    /\ IsInjective(backlog) /\ ToSet(backlog) \cap accepted = {}

-----------------------------------------------------------------------------

(* select: something can be read from fd, or it has come to its end. *)
readable(fd) ==
    \/ watched[fd] = "console" /\ console # <<>>
    \/ watched[fd] = "listener" /\ backlog # <<>>
    \/ watched[fd] \in unread \cup closed

(* Seeded fault (see below): handles the lowest descriptor and selects again. *)
Faulty_handled(fds) == working' = {} /\ at' = "select"

(* The pass goes on behind the descriptors it has handled. *)
handled(fds) ==
    /\ working' = working \ fds
    /\ at' = IF working' = {} THEN "select" ELSE "pass"

ended == at' = "ended" /\ working' = {}

next_fd == Min(working)

(* FD_CLR and close. *)
forget(fd) == watched' = [d \in DOMAIN watched \ {fd} |-> watched[d]]

free_fd == Min(Descriptors \ (DOMAIN watched \cup {1, 2}))

-----------------------------------------------------------------------------
(***************************************************************************)
(* Seeded faults: slips a property has to notice when the operator named    *)
(* after "Faulty_" is replaced by it.                                       *)
(***************************************************************************)

(* Looks at a new socket in the same pass. *)
Faulty_accept_client ==
    /\ at = "pass" /\ next_fd = Listener
    /\ watched' = [fd \in DOMAIN watched \cup {free_fd} |->
                      IF fd = free_fd THEN Head(backlog) ELSE watched[fd]]
    /\ backlog' = Tail(backlog)
    /\ working' = (working \ {Listener}) \cup {free_fd} /\ at' = "pass"
    /\ UNCHANGED <<cin_good, console, unread, waiting, closed>>

(* Goes on with an empty word instead of waiting for one. *)
Faulty_read_blank ==
    /\ at = "pass" /\ working # {} /\ next_fd = STDIN_FILENO /\ cin_good
    /\ watched[STDIN_FILENO] = "console"
    /\ console # <<>> /\ Head(console) = "blank"
    /\ console' = Tail(console)
    /\ forget(STDIN_FILENO) /\ handled({STDIN_FILENO})
    /\ UNCHANGED <<cin_good, backlog, unread, waiting, closed>>

(* Closes the console and leaves it among the descriptors of the pass. *)
Faulty_read_word ==
    /\ at \in {"pass", "console"} /\ working # {}
    /\ next_fd = STDIN_FILENO /\ cin_good
    /\ watched[STDIN_FILENO] = "console"
    /\ console # <<>> /\ Head(console) = "word"
    /\ console' = Tail(console)
    /\ forget(STDIN_FILENO) /\ at' = "pass"
    /\ UNCHANGED <<working, cin_good, backlog, unread, waiting, closed>>

-----------------------------------------------------------------------------
(* Clients and the operator.                                               *)

LoopInit ==
    /\ at = "select" /\ working = {} /\ cin_good = TRUE
    /\ watched = [fd \in {STDIN_FILENO, Listener} |->
                     IF fd = Listener THEN "listener" ELSE "console"]
    /\ console = <<>> /\ backlog = <<>>
    /\ unread = {} /\ waiting = {} /\ closed = {}

type_line(l) ==
    /\ "console" \in Range(watched) /\ at # "ended"
    /\ Len(console) < MaxTyped
    /\ console' = Append(console, l)
    /\ UNCHANGED <<program, backlog, unread, waiting, closed>>

connect(c) ==
    /\ c \notin open /\ at # "ended"
    /\ backlog' = Append(backlog, c)
    /\ UNCHANGED <<program, console, unread, waiting, closed>>

ask(c) ==
    /\ c \in open \ (waiting \cup closed) /\ at # "ended"
    /\ unread' = unread \cup {c} /\ waiting' = waiting \cup {c}
    /\ UNCHANGED <<program, console, backlog, closed>>

leave(c) ==
    /\ c \in open \ closed
    /\ closed' = closed \cup {c} /\ waiting' = waiting \ {c}
    /\ UNCHANGED <<program, console, backlog, unread>>

-----------------------------------------------------------------------------
(* The program.                                                            *)

select ==
    /\ at = "select"
    /\ working' = {fd \in DOMAIN watched : readable(fd)}
    /\ working' # {}
    /\ at' = "pass"
    /\ UNCHANGED <<watched, cin_good, traffic>>

accept_client ==
    /\ at = "pass" /\ next_fd = Listener
    /\ watched' = [fd \in DOMAIN watched \cup {free_fd} |->
                      IF fd = free_fd THEN Head(backlog) ELSE watched[fd]]
    /\ backlog' = Tail(backlog)
    /\ handled({Listener})
    /\ UNCHANGED <<cin_good, console, unread, waiting, closed>>

(* Descriptor 0 is read with std::cin first, whatever is behind it; at the  *)
(* end of its input that gives no word and does not wait.                   *)
receives(fd) ==
    /\ at = "pass" /\ next_fd = fd
    /\ watched[fd] \in Connections
    /\ fd = STDIN_FILENO => ~cin_good

serve(fd) ==
    /\ receives(fd) /\ watched[fd] \in unread
    /\ unread' = unread \ {watched[fd]} /\ waiting' = waiting \ {watched[fd]}
    /\ handled({fd})
    /\ UNCHANGED <<watched, cin_good, console, backlog, closed>>

(* A connection that has come to its end is given up. *)
drop(fd) ==
    /\ watched[fd] \in closed \ unread
    /\ closed' = closed \ {watched[fd]}
    /\ forget(fd)
    /\ handled({fd})
    /\ UNCHANGED <<console, backlog, unread, waiting>>

client_gone(fd) == receives(fd) /\ drop(fd) /\ UNCHANGED cin_good

(* std::cin >> command, from the console or from what has its descriptor.   *)
reads_console ==
    /\ at \in {"pass", "console"} /\ working # {}
    /\ next_fd = STDIN_FILENO /\ cin_good

takes_line(l) ==
    /\ reads_console /\ watched[STDIN_FILENO] = "console"
    /\ console # <<>> /\ Head(console) = l
    /\ console' = Tail(console)
    /\ UNCHANGED <<backlog, unread, waiting, closed>>

read_exit ==
    /\ takes_line("exit")
    /\ ended
    /\ UNCHANGED <<watched, cin_good>>

(* White space is skipped, and the word still to come is waited for. *)
read_blank ==
    /\ takes_line("blank")
    /\ at' = "console"
    /\ UNCHANGED <<working, watched, cin_good>>

(* Any other word: the loop goes on to receive from the console as from a   *)
(* client, which fails, and closes it.                                      *)
read_word ==
    /\ takes_line("word")
    /\ forget(STDIN_FILENO) /\ handled({STDIN_FILENO})
    /\ UNCHANGED cin_good

read_end ==
    /\ takes_line("end")
    /\ forget(STDIN_FILENO) /\ handled({STDIN_FILENO})
    /\ cin_good' = FALSE

(* A client has got the descriptor of the console: its request is taken for *)
(* the beginning of a word, which only the end of the connection completes. *)
swallow ==
    /\ reads_console /\ watched[STDIN_FILENO] \in unread
    /\ unread' = unread \ {watched[STDIN_FILENO]}
    /\ at' = "console"
    /\ UNCHANGED <<working, watched, cin_good, console, backlog, waiting, closed>>

swallow_end ==
    /\ reads_console /\ drop(STDIN_FILENO)
    /\ cin_good' = FALSE

(* An interrupt from the keyboard. *)
interrupt ==
    /\ at # "ended" /\ ended
    /\ UNCHANGED <<watched, cin_good, traffic>>

LoopStep ==
    \/ select \/ accept_client
    \/ \E fd \in DOMAIN watched : serve(fd) \/ client_gone(fd)
    \/ read_exit \/ read_blank \/ read_word \/ read_end
    \/ swallow \/ swallow_end

LoopNext ==
    \/ LoopStep \/ interrupt
    \/ \E l \in Lines : type_line(l)
    \/ \E c \in Connections : connect(c) \/ ask(c) \/ leave(c)

(* The program runs whenever it can; nobody else has to do anything. *)
LoopSpec == LoopInit /\ [][LoopNext]_loopVars /\ WF_loopVars(LoopStep)

-----------------------------------------------------------------------------
(***************************************************************************)
(* Properties.                                                             *)
(***************************************************************************)

(* recv and accept never wait: what select reported is still there when the *)
(* pass comes to it, though clients come, ask and leave and descriptors are *)
(* closed and given out again in between.                                   *)
ReadsOnlyWhatIsThere ==
    \A fd \in working : readable(fd) \/ (at = "console" /\ fd = STDIN_FILENO)

(* No client starves, however busy the others and the operator are: only    *)
(* while the server waits for a word to be completed is a request left.     *)
OnlyTheConsoleStalls ==
    \A c \in Connections :
        c \in waiting ~> c \notin waiting \/ at \in {"console", "ended"}

(* Nor does a client wait for ever to be accepted, or a connection that is  *)
(* over keep its descriptor.                                                *)
ConnectionsComeAndGo ==
    \A c \in Connections :
        (c \in ToSet(backlog) \cup closed)
            ~> (c \notin ToSet(backlog) \cup closed \/ at \in {"console", "ended"})

(* The first word typed is obeyed: blank lines before it do no harm.        *)
exit_is_next ==
    /\ "console" \in Range(watched)
    /\ \E i \in 1 .. Len(console) :
           console[i] = "exit" /\ \A j \in 1 .. (i - 1) : console[j] = "blank"

ExitAloneEnds == exit_is_next ~> at = "ended"

(* "exit" ends the server whatever was typed before it.                     *)
ExitIsHeard == "exit" \in ToSet(console) ~> at = "ended"
=============================================================================
