-------------------------- MODULE ServerLoopProofs --------------------------
(***************************************************************************)
(* The loop never waits where it should not: a proof about ServerLoop for   *)
(* every number of connections and lines.  What has to be known is who is   *)
(* behind each descriptor, that no connection is behind two, and that there *)
(* is a free descriptor for each connection that waits to be accepted.      *)
(***************************************************************************)
EXTENDS ServerLoop, FiniteSetTheorems, TLAPS

(* Who is behind each descriptor: one party behind each, and the console    *)
(* behind no other than its own.                                            *)
Wired ==
    /\ DOMAIN watched \subseteq Descriptors
    /\ Listener \in DOMAIN watched
    /\ \A fd \in DOMAIN watched :
           /\ watched[fd] \in Connections \cup {"console", "listener"}
           /\ watched[fd] = "listener" => fd = Listener
           /\ watched[fd] = "console" => fd = STDIN_FILENO
    /\ watched[Listener] = "listener"
    /\ \A d, e \in DOMAIN watched : watched[d] = watched[e] => d = e

(* Who waits to be accepted, each once. *)
Queued ==
    /\ backlog \in Seq(Connections) /\ IsInjective(backlog)
    /\ ToSet(backlog) \cap accepted = {}

(* Requests and ends come from connections that are open. *)
Known == unread \cup closed \subseteq open /\ waiting \subseteq open \ closed

Typed == console \in Seq(Lines) /\ Len(console) <= MaxTyped

(* How far the pass has come. *)
Passing ==
    /\ at \in Places /\ cin_good \in BOOLEAN
    /\ working \subseteq DOMAIN watched
    /\ at = "pass" => working # {}
    /\ at = "console" => STDIN_FILENO \in working
    /\ at \in {"select", "ended"} => working = {}

LoopInv == Wired /\ Queued /\ Known /\ Typed /\ Passing /\ ReadsOnlyWhatIsThere

-----------------------------------------------------------------------------
(* Least numbers and sequences.                                            *)

(* Of a set of numbers Min finds the least.                                 *)
LEMMA LeastFound ==
    ASSUME NEW S \in SUBSET Nat, S # {}
    PROVE  Min(S) \in S /\ \A y \in S : Min(S) <= y
  <1> DEFINE segments == {0 .. (i - 1) : i \in S}
  <1>1. \A i \in S : 0 .. (i - 1) \subseteq Nat /\ IsFiniteSet(0 .. (i - 1))
    BY FS_Interval
  <1>2. segments \subseteq FiniteSubsetsOf(Nat) /\ segments # {}
    BY <1>1 DEF FiniteSubsetsOf
  <1>3. \E below \in segments : \A other \in segments :
            ~(<<other, below>> \in StrictSubsetOrdering(Nat))
    <2> HIDE DEF segments
    <2>1. QED
      BY <1>2, WFMin, FS_StrictSubsetOrderingWellFounded
  <1>4. PICK x \in S : \A y \in S :
            ~(<<0 .. (y - 1), 0 .. (x - 1)>> \in StrictSubsetOrdering(Nat))
    BY <1>3
  <1>5. \A y \in S : x <= y
    <2> SUFFICES ASSUME NEW y \in S, ~(x <= y) PROVE FALSE
      OBVIOUS
    <2>1. x \in Nat /\ y \in Nat /\ y < x
      OBVIOUS
    <2>2. 0 .. (y - 1) \subseteq 0 .. (x - 1) /\ 0 .. (y - 1) # 0 .. (x - 1)
      BY <2>1
    <2>3. 0 .. (y - 1) \subseteq Nat /\ 0 .. (x - 1) \subseteq Nat
      BY <2>1
    <2>4. QED
      BY <1>4, <2>2, <2>3 DEF StrictSubsetOrdering
  <1>6. QED
    BY <1>5 DEF Min

(* The first of a sequence without repetitions is not in the rest.          *)
LEMMA FirstAndRest ==
    ASSUME NEW S, NEW s \in Seq(S), s # <<>>
    PROVE  /\ Head(s) \in S /\ Tail(s) \in Seq(S) /\ Len(Tail(s)) <= Len(s)
           /\ ToSet(s) = {Head(s)} \cup ToSet(Tail(s))
           /\ IsInjective(s) => IsInjective(Tail(s)) /\ Head(s) \notin ToSet(Tail(s))
  <1>1. Len(s) \in Nat \ {0} /\ DOMAIN s = 1 .. Len(s)
    OBVIOUS
  <1>2. /\ Head(s) = s[1] /\ Head(s) \in S
        /\ Tail(s) \in Seq(S) /\ Len(Tail(s)) = Len(s) - 1
        /\ DOMAIN Tail(s) = 1 .. (Len(s) - 1)
        /\ \A i \in 1 .. (Len(s) - 1) : Tail(s)[i] = s[i + 1]
    OBVIOUS
  <1>3. \A i \in 1 .. Len(s) : i = 1 \/ (i - 1 \in 1 .. (Len(s) - 1) /\ s[i] = Tail(s)[i - 1])
    BY <1>1, <1>2
  <1>4. ToSet(s) = {Head(s)} \cup ToSet(Tail(s))
    <2>1. ASSUME NEW i \in 1 .. Len(s) PROVE s[i] \in {Head(s)} \cup ToSet(Tail(s))
      <3>1. CASE i = 1
        BY <1>2, <3>1
      <3>2. CASE i - 1 \in 1 .. (Len(s) - 1) /\ s[i] = Tail(s)[i - 1]
        BY <1>2, <3>2 DEF ToSet
      <3>3. QED
        BY <1>3, <3>1, <3>2
    <2>2. {Head(s)} \cup ToSet(Tail(s)) \subseteq ToSet(s)
      BY <1>1, <1>2 DEF ToSet
    <2>3. QED
      BY <1>1, <2>1, <2>2 DEF ToSet
  <1>5. ASSUME IsInjective(s)
        PROVE  IsInjective(Tail(s)) /\ Head(s) \notin ToSet(Tail(s))
    <2>1. \A i, j \in 1 .. Len(s) : s[i] = s[j] => i = j
      BY <1>1, <1>5 DEF IsInjective
    <2>2. \A i, j \in 1 .. (Len(s) - 1) : Tail(s)[i] = Tail(s)[j] => i = j
      BY <1>1, <1>2, <2>1
    <2>3. \A i \in 1 .. (Len(s) - 1) : Tail(s)[i] # s[1]
      BY <1>1, <1>2, <2>1
    <2>4. QED
      BY <1>2, <2>2, <2>3 DEF IsInjective, ToSet
  <1>6. QED
    BY <1>1, <1>2, <1>4, <1>5

(* A newcomer at the end of a sequence.                                     *)
LEMMA OneMore ==
    ASSUME NEW S, NEW s \in Seq(S), NEW e \in S
    PROVE  /\ Append(s, e) \in Seq(S) /\ Len(Append(s, e)) = Len(s) + 1
           /\ Append(s, e) # <<>>
           /\ ToSet(Append(s, e)) = ToSet(s) \cup {e}
           /\ IsInjective(s) /\ e \notin ToSet(s) => IsInjective(Append(s, e))
  <1>1. /\ Append(s, e) \in Seq(S) /\ Len(Append(s, e)) = Len(s) + 1
        /\ Len(s) \in Nat /\ DOMAIN s = 1 .. Len(s)
        /\ DOMAIN Append(s, e) = 1 .. (Len(s) + 1)
        /\ \A i \in 1 .. Len(s) : Append(s, e)[i] = s[i]
        /\ Append(s, e)[Len(s) + 1] = e
    OBVIOUS
  <1>2. \A i \in 1 .. (Len(s) + 1) : i \in 1 .. Len(s) \/ i = Len(s) + 1
    BY <1>1
  <1>3. ToSet(Append(s, e)) = ToSet(s) \cup {e}
    <2>1. ToSet(Append(s, e)) \subseteq ToSet(s) \cup {e}
      BY <1>1, <1>2 DEF ToSet
    <2>2. ToSet(s) \cup {e} \subseteq ToSet(Append(s, e))
      BY <1>1 DEF ToSet
    <2>3. QED
      BY <2>1, <2>2
  <1>4. ASSUME IsInjective(s), e \notin ToSet(s)
        PROVE  IsInjective(Append(s, e))
    <2>1. \A i \in 1 .. Len(s) : s[i] # e
      BY <1>1, <1>4 DEF ToSet
    <2>2. \A i, j \in 1 .. Len(s) : s[i] = s[j] => i = j
      BY <1>1, <1>4 DEF IsInjective
    <2>3. QED
      BY <1>1, <1>2, <2>1, <2>2 DEF IsInjective
  <1>5. Append(s, e) # <<>>
    BY <1>1
  <1>6. QED
    BY <1>1, <1>3, <1>4, <1>5

-----------------------------------------------------------------------------
(* Descriptors.                                                            *)

(* One more is at most one more.                                            *)
LEMMA OneAdded ==
    ASSUME NEW S, IsFiniteSet(S), NEW x
    PROVE  /\ IsFiniteSet(S \cup {x}) /\ Cardinality(S \cup {x}) \in Nat
           /\ Cardinality(S) \in Nat /\ Cardinality(S \cup {x}) <= Cardinality(S) + 1
  <1>1. Cardinality(S) \in Nat
    BY FS_CardinalityType
  <1>2. /\ IsFiniteSet(S \cup {x})
        /\ Cardinality(S \cup {x}) = IF x \in S THEN Cardinality(S) ELSE Cardinality(S) + 1
    BY FS_AddElement
  <1>3. QED
    BY <1>1, <1>2

(* There is a descriptor for everybody who waits to be accepted.            *)
LEMMA FreeFdFound ==
    ASSUME Wired, Queued, backlog # <<>>
    PROVE  free_fd \in Descriptors /\ free_fd \notin DOMAIN watched
  <1> DEFINE count == Cardinality(Connections)
             next == Head(backlog)
             others == Connections \ {next}
             taken == {fd \in DOMAIN watched : watched[fd] \in Connections}
             behind == [fd \in taken |-> watched[fd]]
             free == Descriptors \ (DOMAIN watched \cup {1, 2})
  <1>1. Listener \in Nat /\ Listener >= 3 /\ IsFiniteSet(Connections) /\ count \in Nat
    BY LoopAssumption, FS_CardinalityType
  <1>2. next \in Connections /\ next \notin accepted
    BY FirstAndRest DEF Queued
  <1>3. IsFiniteSet(others) /\ Cardinality(others) = count - 1
    BY <1>1, <1>2, FS_RemoveElement
  <1>4. behind \in Injection(taken, others)
    <2>1. \A fd \in taken : watched[fd] \in others
      BY <1>2 DEF accepted, Range
    <2>2. \A d, e \in taken : behind[d] = behind[e] => d = e
      BY DEF Wired
    <2>3. behind \in [taken -> others]
      BY <2>1
    <2> HIDE DEF behind, taken, others
    <2>4. DOMAIN behind = taken
      BY <2>3
    <2>5. QED
      BY <2>2, <2>3, <2>4 DEF Injection, IsInjective
  <1>5. IsFiniteSet(taken) /\ Cardinality(taken) <= count - 1 /\ Cardinality(taken) \in Nat
    <2> HIDE DEF behind, taken, others
    <2>1. QED
      BY <1>3, <1>4, FS_Injection, FS_CardinalityType
  <1> DEFINE busy == taken \cup {0} \cup {1} \cup {2} \cup {Listener}
  <1>6. IsFiniteSet(busy) /\ Cardinality(busy) \in Nat /\ Cardinality(busy) <= count + 3
    <2> HIDE DEF taken
    <2> DEFINE b0 == taken \cup {0}
               b1 == b0 \cup {1}
               b2 == b1 \cup {2}
               b3 == b2 \cup {Listener}
    <2>1. IsFiniteSet(b0) /\ Cardinality(b0) \in Nat /\ Cardinality(b0) <= Cardinality(taken) + 1
      BY <1>5, OneAdded
    <2> HIDE DEF b0
    <2>2. IsFiniteSet(b1) /\ Cardinality(b1) \in Nat /\ Cardinality(b1) <= Cardinality(b0) + 1
      BY <2>1, OneAdded
    <2> HIDE DEF b1
    <2>3. IsFiniteSet(b2) /\ Cardinality(b2) \in Nat /\ Cardinality(b2) <= Cardinality(b1) + 1
      BY <2>2, OneAdded
    <2> HIDE DEF b2
    <2>4. IsFiniteSet(b3) /\ Cardinality(b3) \in Nat /\ Cardinality(b3) <= Cardinality(b2) + 1
      BY <2>3, OneAdded
    <2>5. b3 = busy
      BY DEF b2, b1, b0
    <2> HIDE DEF b3, busy
    <2>6. QED
      BY <1>1, <1>5, <2>1, <2>2, <2>3, <2>4, <2>5
  <1>7. Cardinality(Descriptors) = Listener + count + 1
    BY <1>1, FS_Interval DEF Descriptors
  <1>8. ~(Descriptors \subseteq busy)
    <2> HIDE DEF busy
    <2>1. Descriptors \subseteq busy => Cardinality(Descriptors) <= Cardinality(busy)
      BY <1>6, FS_Subset
    <2>2. QED
      BY <1>1, <1>6, <1>7, <2>1
  <1>9. DOMAIN watched \cup {1, 2} \subseteq busy
    BY DEF Wired, STDIN_FILENO
  <1>10. free # {} /\ free \subseteq Nat
    <2> HIDE DEF busy
    <2>1. QED
      BY <1>1, <1>8, <1>9 DEF Descriptors
  <1>11. free_fd \in free
    BY <1>10, LeastFound DEF free_fd
  <1>12. QED
    BY <1>11

-----------------------------------------------------------------------------
(* Clients and the operator.                                               *)

(* Descriptors are numbers, so that a pass that is not over has a next one. *)
LEMMA NextFd ==
    ASSUME Wired, Passing, working # {}
    PROVE  /\ next_fd \in working /\ next_fd \in DOMAIN watched
           /\ STDIN_FILENO \in working => next_fd = STDIN_FILENO
  <1>1. Descriptors \subseteq Nat
    <2>1. Cardinality(Connections) \in Nat /\ Listener \in Nat
      BY LoopAssumption, FS_CardinalityType
    <2>2. QED
      BY <2>1 DEF Descriptors
  <1>2. working \subseteq Nat /\ working \subseteq DOMAIN watched
    BY <1>1 DEF Wired, Passing
  <1>3. next_fd \in working /\ \A fd \in working : next_fd <= fd
    BY <1>2, LeastFound DEF next_fd
  <1>4. QED
    BY <1>2, <1>3 DEF STDIN_FILENO

(* The console and the listening socket are nobody's connection.            *)
LEMMA NotAClient ==
    ASSUME Wired
    PROVE  /\ "console" \notin Connections /\ "listener" \notin Connections
           /\ Listener # STDIN_FILENO
           /\ \A c \in accepted : \E fd \in DOMAIN watched : watched[fd] = c
           /\ \A fd \in DOMAIN watched : watched[fd] \in Connections => watched[fd] \in accepted
  BY LoopAssumption DEF accepted, Range, STDIN_FILENO

(* Both queues hold what the clients and the operator put there.            *)
LEMMA QueuesTyped ==
    ASSUME Queued
    PROVE  ToSet(backlog) \subseteq Connections /\ open \subseteq Connections
  <1>1. backlog \in Seq(Connections)
    BY DEF Queued
  <1>2. \A i \in DOMAIN backlog : backlog[i] \in Connections
    BY <1>1
  <1>3. ToSet(backlog) \subseteq Connections
    BY <1>2 DEF ToSet
  <1>4. QED
    BY <1>3 DEF open, accepted

(* The program does not move when somebody types ...                        *)
LEMMA LineTyped ==
    ASSUME LoopInv, NEW l \in Lines, type_line(l)
    PROVE  LoopInv'
  <1>1. /\ Len(console) < MaxTyped /\ console' = Append(console, l)
        /\ UNCHANGED <<at, working, watched, cin_good>>
        /\ UNCHANGED <<backlog, unread, waiting, closed>>
    BY DEF type_line, program
  <1>2. console \in Seq(Lines) /\ console' \in Seq(Lines)
        /\ Len(console') = Len(console) + 1 /\ console' # <<>>
    BY <1>1, OneMore DEF LoopInv, Typed
  <1>3. Typed'
    BY <1>1, <1>2, LoopAssumption DEF Typed
  <1>4. Wired' /\ Queued' /\ Known' /\ Passing'
    BY <1>1 DEF LoopInv, Wired, Queued, Known, Passing, accepted, open, Descriptors
  <1>5. ReadsOnlyWhatIsThere'
    BY <1>1, <1>2 DEF LoopInv, ReadsOnlyWhatIsThere, readable
  <1>6. QED
    BY <1>3, <1>4, <1>5 DEF LoopInv

(* ... or when clients come, ask and leave: more can be read, not less.     *)
LEMMA ClientActs ==
    ASSUME LoopInv, NEW c \in Connections, connect(c) \/ ask(c) \/ leave(c)
    PROVE  LoopInv'
  <1>1. UNCHANGED <<at, working, watched, cin_good, console>>
    BY DEF connect, ask, leave, program
  <1>2. Wired' /\ Passing' /\ Typed'
    BY <1>1 DEF LoopInv, Wired, Passing, Typed, Descriptors
  <1>3. accepted' = accepted
    BY <1>1 DEF accepted
  <1>4. CASE connect(c)
    <2>1. /\ c \notin open /\ backlog' = Append(backlog, c)
          /\ UNCHANGED <<unread, waiting, closed>>
      BY <1>4 DEF connect
    <2>2. /\ backlog \in Seq(Connections) /\ IsInjective(backlog)
          /\ ToSet(backlog) \cap accepted = {}
      BY DEF LoopInv, Queued
    <2>3. c \notin ToSet(backlog) /\ c \notin accepted
      BY <2>1 DEF open
    <2>4. /\ backlog' \in Seq(Connections) /\ IsInjective(backlog') /\ backlog' # <<>>
          /\ ToSet(backlog') = ToSet(backlog) \cup {c}
      BY <2>1, <2>2, <2>3, OneMore
    <2>5. Queued'
      BY <1>3, <2>2, <2>3, <2>4 DEF Queued
    <2>6. Known'
      BY <1>3, <2>1, <2>4 DEF LoopInv, Known, open
    <2>7. ReadsOnlyWhatIsThere'
      BY <1>1, <2>1, <2>4 DEF LoopInv, ReadsOnlyWhatIsThere, readable
    <2>8. QED
      BY <1>2, <2>5, <2>6, <2>7 DEF LoopInv
  <1>5. CASE ask(c) \/ leave(c)
    <2>1. /\ UNCHANGED backlog /\ c \in open \ closed
          /\ unread \subseteq unread' /\ closed \subseteq closed'
          /\ unread' \subseteq unread \cup {c} /\ closed' \subseteq closed \cup {c}
      BY <1>5 DEF ask, leave
    <2>2. open' = open
      BY <1>3, <2>1 DEF open
    <2>3. Known'
      <3>1. unread' \cup closed' \subseteq open
        BY <2>1 DEF LoopInv, Known
      <3>2. waiting' \subseteq open \ closed'
        BY <1>5, <2>1 DEF LoopInv, Known, ask, leave
      <3>3. QED
        BY <2>2, <3>1, <3>2 DEF Known
    <2>4. Queued'
      BY <1>3, <2>1 DEF LoopInv, Queued
    <2>5. ReadsOnlyWhatIsThere'
      BY <1>1, <2>1 DEF LoopInv, ReadsOnlyWhatIsThere, readable
    <2>6. QED
      BY <1>2, <2>3, <2>4, <2>5 DEF LoopInv
  <1>6. QED
    BY <1>4, <1>5

-----------------------------------------------------------------------------
(* The program.                                                            *)

(* select reports what is there.                                            *)
LEMMA Selected ==
    ASSUME LoopInv, select
    PROVE  LoopInv'
  <1>1. /\ at = "select" /\ at' = "pass" /\ working' # {}
        /\ working' = {fd \in DOMAIN watched : readable(fd)}
        /\ UNCHANGED <<watched, cin_good, console, backlog, unread, waiting, closed>>
    BY DEF select, traffic
  <1>2. Wired' /\ Queued' /\ Known' /\ Typed'
    BY <1>1 DEF LoopInv, Wired, Queued, Known, Typed, accepted, open, Descriptors
  <1>3. Passing'
    BY <1>1 DEF LoopInv, Passing, Places
  <1>4. ReadsOnlyWhatIsThere'
    BY <1>1 DEF ReadsOnlyWhatIsThere, readable
  <1>5. QED
    BY <1>2, <1>3, <1>4 DEF LoopInv

(* A descriptor that is handled leaves the others to the pass.              *)
LEMMA PassGoesOn ==
    ASSUME Passing, NEW fd, handled({fd}), cin_good' \in BOOLEAN,
           working \ {fd} \subseteq DOMAIN watched'
    PROVE  /\ Passing' /\ working' = working \ {fd} /\ at' # "console"
  BY DEF Passing, handled, Places

(* Nobody who is accepted gets a descriptor that the pass still has to      *)
(* handle.                                                                  *)
LEMMA Accepted ==
    ASSUME LoopInv, accept_client
    PROVE  LoopInv'
  <1>1. /\ at = "pass" /\ next_fd = Listener
        /\ watched' = [fd \in DOMAIN watched \cup {free_fd} |->
                          IF fd = free_fd THEN Head(backlog) ELSE watched[fd]]
        /\ backlog' = Tail(backlog) /\ handled({Listener})
        /\ UNCHANGED <<cin_good, console, unread, waiting, closed>>
    BY DEF accept_client
  <1>2. Wired /\ Queued /\ Known /\ Typed /\ Passing
    BY DEF LoopInv
  <1>3. Listener \in working
    BY <1>1, <1>2, NextFd DEF Passing
  <1>4. backlog # <<>>
    <2>1. readable(Listener)
      BY <1>1, <1>3 DEF LoopInv, ReadsOnlyWhatIsThere
    <2>2. watched[Listener] = "listener"
      BY <1>2 DEF Wired
    <2>3. "listener" \notin unread \cup closed
      BY <1>2, NotAClient, QueuesTyped DEF Known
    <2>4. QED
      BY <2>1, <2>2, <2>3 DEF readable
  <1> DEFINE new == Head(backlog)
             fd0 == free_fd
  <1>5. fd0 \in Descriptors /\ fd0 \notin DOMAIN watched
    BY <1>2, <1>4, FreeFdFound
  <1>6. /\ new \in Connections /\ Tail(backlog) \in Seq(Connections)
        /\ ToSet(backlog) = {new} \cup ToSet(Tail(backlog))
        /\ IsInjective(Tail(backlog)) /\ new \notin ToSet(Tail(backlog))
    BY <1>2, <1>4, FirstAndRest DEF Queued
  <1>7. new \notin accepted
    BY <1>2, <1>6 DEF Queued
  <1>8. /\ DOMAIN watched' = DOMAIN watched \cup {fd0} /\ watched'[fd0] = new
        /\ \A fd \in DOMAIN watched : watched'[fd] = watched[fd]
    BY <1>1, <1>5
  <1> HIDE DEF new, fd0
  <1>9. accepted' = accepted \cup {new}
    BY <1>6, <1>8 DEF accepted, Range
  <1>10. Wired'
    <2>1. \A fd \in DOMAIN watched : watched[fd] # new
      BY <1>2, <1>6, <1>7, NotAClient
    <2>2. new # "console" /\ new # "listener"
      BY <1>2, <1>6, NotAClient
    <2>3. QED
      BY <1>2, <1>5, <1>6, <1>8, <2>1, <2>2 DEF Wired, Descriptors
  <1>11. Queued'
    BY <1>1, <1>2, <1>6, <1>9 DEF Queued
  <1>12. open' = open
    BY <1>1, <1>6, <1>9 DEF open
  <1>13. Known' /\ Typed'
    BY <1>1, <1>2, <1>12 DEF Known, Typed
  <1>14. Passing' /\ working' = working \ {Listener} /\ at' # "console"
    BY <1>1, <1>2, <1>8, PassGoesOn DEF Passing
  <1>15. ReadsOnlyWhatIsThere'
    <2>1. SUFFICES ASSUME NEW fd \in working \ {Listener} PROVE readable(fd)'
      BY <1>14 DEF ReadsOnlyWhatIsThere
    <2>2. fd \in DOMAIN watched /\ readable(fd) /\ watched[fd] # "listener"
      BY <1>1, <1>2 DEF LoopInv, ReadsOnlyWhatIsThere, Passing, Wired
    <2>3. QED
      BY <1>1, <1>8, <2>2 DEF readable
  <1>16. QED
    BY <1>10, <1>11, <1>13, <1>14, <1>15 DEF LoopInv

(* A request that is answered, or lost to the console, was one connection's.*)
LEMMA RequestTaken ==
    ASSUME LoopInv, at \in {"pass", "console"},
           NEW fd \in working, fd = next_fd, watched[fd] \in unread,
           unread' = unread \ {watched[fd]}, waiting' \subseteq waiting,
           UNCHANGED <<watched, cin_good, console, backlog, closed>>,
           \/ handled({fd}) /\ (at = "console" => fd = STDIN_FILENO)
           \/ fd = STDIN_FILENO /\ at' = "console" /\ UNCHANGED working
    PROVE  LoopInv'
  <1>1. Wired /\ Queued /\ Known /\ Typed /\ Passing
    BY DEF LoopInv
  <1>2. Wired' /\ Queued' /\ Typed'
    BY <1>1 DEF Wired, Queued, Typed, accepted, Descriptors
  <1>3. open' = open
    BY DEF open, accepted
  <1>4. Known'
    BY <1>1, <1>3 DEF Known
  <1>5. \A d \in working \ {fd} : readable(d)'
    <2> SUFFICES ASSUME NEW d \in working \ {fd} PROVE readable(d)'
      OBVIOUS
    <2>1. d \in DOMAIN watched /\ fd \in DOMAIN watched /\ watched[d] # watched[fd]
      BY <1>1 DEF Passing, Wired
    <2>2. readable(d)
      <3>1. at = "console" => fd = STDIN_FILENO
        BY <1>1, NextFd DEF Passing
      <3>2. QED
        BY <3>1 DEF LoopInv, ReadsOnlyWhatIsThere
    <2>3. QED
      BY <2>1, <2>2 DEF readable
  <1>6. CASE handled({fd})
    <2>1. Passing' /\ working' = working \ {fd}
      BY <1>1, <1>6, PassGoesOn DEF Passing
    <2>2. QED
      BY <1>2, <1>4, <1>5, <2>1 DEF LoopInv, ReadsOnlyWhatIsThere
  <1>7. CASE fd = STDIN_FILENO /\ at' = "console" /\ UNCHANGED working
    <2>1. Passing'
      BY <1>1, <1>7 DEF Passing, Places
    <2>2. QED
      BY <1>2, <1>4, <1>5, <1>7, <2>1 DEF LoopInv, ReadsOnlyWhatIsThere
  <1>8. QED
    BY <1>6, <1>7

(* A descriptor that is closed is out of the pass.                          *)
LEMMA Forgotten ==
    ASSUME LoopInv, at \in {"pass", "console"},
           NEW fd \in working, fd = next_fd, watched[fd] # "listener",
           forget(fd), handled({fd}), cin_good' \in BOOLEAN,
           UNCHANGED <<backlog, unread, waiting>>,
           \/ /\ watched[fd] \in closed \ unread /\ closed' = closed \ {watched[fd]}
              /\ UNCHANGED console
           \/ watched[fd] = "console" /\ UNCHANGED closed /\ Typed'
    PROVE  LoopInv'
  <1>1. Wired /\ Queued /\ Known /\ Typed /\ Passing
    BY DEF LoopInv
  <1>2. fd \in DOMAIN watched /\ fd # Listener
    BY <1>1 DEF Passing, Wired
  <1>3. /\ DOMAIN watched' = DOMAIN watched \ {fd}
        /\ \A d \in DOMAIN watched \ {fd} : watched'[d] = watched[d]
    BY DEF forget
  <1>4. \A d \in DOMAIN watched \ {fd} : watched[d] # watched[fd]
    BY <1>1, <1>2 DEF Wired
  <1>5. accepted' = accepted \ {watched[fd]}
    BY <1>3, <1>4 DEF accepted, Range
  <1>6. Wired'
    BY <1>1, <1>2, <1>3 DEF Wired, Descriptors
  <1>7. Queued'
    BY <1>1, <1>5 DEF Queued
  <1>8. watched[fd] \notin unread' \cup closed' \cup waiting'
    BY <1>1, NotAClient, QueuesTyped DEF Known
  <1>9. open \ {watched[fd]} \subseteq open'
    BY <1>5 DEF open
  <1>10. unread' \subseteq unread /\ closed' \subseteq closed /\ waiting' = waiting
    OBVIOUS
  <1>11. Known'
    BY <1>1, <1>8, <1>9, <1>10 DEF Known
  <1>12. Typed'
    BY <1>1 DEF Typed
  <1>13. Passing' /\ working' = working \ {fd}
    BY <1>1, <1>3, PassGoesOn DEF Passing
  <1>14. ReadsOnlyWhatIsThere'
    <2>1. SUFFICES ASSUME NEW d \in working \ {fd} PROVE readable(d)'
      BY <1>13 DEF ReadsOnlyWhatIsThere
    <2>2. d \in DOMAIN watched /\ watched'[d] = watched[d] /\ watched[d] # watched[fd]
      BY <1>1, <1>3, <1>4 DEF Passing
    <2>3. readable(d)
      <3>1. at = "console" => fd = STDIN_FILENO
        BY <1>1, NextFd DEF Passing
      <3>2. QED
        BY <3>1 DEF LoopInv, ReadsOnlyWhatIsThere
    <2>4. QED
      BY <2>2, <2>3 DEF readable
  <1>15. QED
    BY <1>6, <1>7, <1>11, <1>12, <1>13, <1>14 DEF LoopInv

(* The console is read where the pass finds it.                             *)
LEMMA AtTheConsole ==
    ASSUME LoopInv, reads_console
    PROVE  /\ at \in {"pass", "console"} /\ STDIN_FILENO \in working
           /\ STDIN_FILENO = next_fd
  BY NextFd DEF reads_console, LoopInv

(* A line that is taken is gone.                                            *)
LEMMA LineTaken ==
    ASSUME LoopInv, NEW l, takes_line(l)
    PROVE  Typed'
  <1>1. console \in Seq(Lines) /\ Len(console) <= MaxTyped /\ console # <<>>
        /\ console' = Tail(console)
    BY DEF LoopInv, Typed, takes_line
  <1>2. Tail(console) \in Seq(Lines) /\ Len(Tail(console)) <= Len(console)
    BY <1>1, FirstAndRest
  <1>3. Len(Tail(console)) \in Nat /\ Len(console) \in Nat /\ MaxTyped \in Nat
    BY <1>1, <1>2, LoopAssumption
  <1>4. QED
    BY <1>1, <1>2, <1>3 DEF Typed

(* The end of the program leaves nothing to handle.                         *)
LEMMA Ended ==
    ASSUME LoopInv, ended, Typed',
           UNCHANGED <<watched, cin_good, backlog, unread, waiting, closed>>
    PROVE  LoopInv'
  <1>1. Wired' /\ Queued' /\ Known'
    BY DEF LoopInv, Wired, Queued, Known, accepted, open, Descriptors
  <1>2. Passing' /\ ReadsOnlyWhatIsThere'
    BY DEF LoopInv, Passing, Places, ended, ReadsOnlyWhatIsThere
  <1>3. QED
    BY <1>1, <1>2 DEF LoopInv

(* A blank line leaves the program at its console.                          *)
LEMMA BlankTaken ==
    ASSUME LoopInv, read_blank
    PROVE  LoopInv'
  <1>1. /\ STDIN_FILENO \in working /\ watched[STDIN_FILENO] = "console"
        /\ at \in {"pass", "console"} /\ at' = "console"
        /\ UNCHANGED <<working, watched, cin_good, backlog, unread, waiting, closed>>
    BY AtTheConsole DEF read_blank, takes_line
  <1>2. Wired' /\ Queued' /\ Known' /\ Typed'
    BY <1>1, LineTaken
       DEF read_blank, LoopInv, Wired, Queued, Known, accepted, open, Descriptors
  <1>3. Passing'
    BY <1>1 DEF LoopInv, Passing, Places
  <1>4. ReadsOnlyWhatIsThere'
    <2>1. SUFFICES ASSUME NEW d \in working, d # STDIN_FILENO PROVE readable(d)'
      BY <1>1 DEF ReadsOnlyWhatIsThere
    <2>2. readable(d) /\ watched[d] # "console"
      BY <2>1 DEF LoopInv, ReadsOnlyWhatIsThere, Passing, Wired
    <2>3. QED
      BY <1>1, <2>2 DEF readable
  <1>5. QED
    BY <1>2, <1>3, <1>4 DEF LoopInv

(* Every step of the program keeps the invariant.                           *)
LEMMA LoopStepInv ==
    ASSUME LoopInv, LoopStep
    PROVE  LoopInv'
  <1>1. CASE select \/ accept_client
    BY <1>1, Selected, Accepted
  <1>2. ASSUME NEW fd \in DOMAIN watched, serve(fd) PROVE LoopInv'
    <2>1. /\ at = "pass" /\ fd = next_fd /\ fd \in working
      BY <1>2, NextFd DEF serve, receives, LoopInv, Passing
    <2>2. QED
      BY <1>2, <2>1, RequestTaken DEF serve
  <1>3. ASSUME NEW fd \in DOMAIN watched, client_gone(fd) PROVE LoopInv'
    <2>1. at = "pass" /\ fd = next_fd /\ fd \in working /\ watched[fd] # "listener"
      BY <1>3, NextFd, NotAClient DEF client_gone, receives, LoopInv, Passing
    <2>2. QED
      BY <1>3, <2>1, Forgotten DEF client_gone, drop, LoopInv, Passing
  <1>4. CASE read_exit
    BY <1>4, LineTaken, Ended DEF read_exit, takes_line
  <1>5. CASE read_blank
    BY <1>5, BlankTaken
  <1>6. CASE read_word \/ read_end
    <2>1. PICK l : takes_line(l)
      BY <1>6 DEF read_word, read_end
    <2>2. /\ STDIN_FILENO \in working /\ STDIN_FILENO = next_fd
          /\ at \in {"pass", "console"} /\ watched[STDIN_FILENO] = "console"
          /\ UNCHANGED <<backlog, unread, waiting, closed>> /\ Typed'
      BY <2>1, AtTheConsole, LineTaken DEF takes_line
    <2>3. forget(STDIN_FILENO) /\ handled({STDIN_FILENO}) /\ cin_good' \in BOOLEAN
      BY <1>6 DEF read_word, read_end, LoopInv, Passing
    <2>4. QED
      BY <2>2, <2>3, Forgotten
  <1>7. CASE swallow
    <2>1. /\ STDIN_FILENO \in working /\ STDIN_FILENO = next_fd
          /\ at \in {"pass", "console"}
      BY <1>7, AtTheConsole DEF swallow
    <2>2. QED
      BY <1>7, <2>1, RequestTaken DEF swallow
  <1>8. CASE swallow_end
    <2>1. /\ STDIN_FILENO \in working /\ STDIN_FILENO = next_fd
          /\ at \in {"pass", "console"} /\ watched[STDIN_FILENO] # "listener"
      BY <1>8, AtTheConsole, NotAClient DEF swallow_end, LoopInv, Passing, Wired
    <2>2. QED
      BY <1>8, <2>1, Forgotten DEF swallow_end, drop
  <1>9. QED
    BY <1>1, <1>2, <1>3, <1>4, <1>5, <1>6, <1>7, <1>8 DEF LoopStep

(* So does whatever else happens.                                           *)
LEMMA LoopNextInv ==
    ASSUME LoopInv, [LoopNext]_loopVars
    PROVE  LoopInv'
  <1>1. CASE LoopStep
    BY <1>1, LoopStepInv
  <1>2. CASE interrupt
    <2>1. Typed'
      BY <1>2 DEF interrupt, traffic, LoopInv, Typed
    <2>2. QED
      BY <1>2, <2>1, Ended DEF interrupt, traffic
  <1>3. ASSUME NEW l \in Lines, type_line(l) PROVE LoopInv'
    BY <1>3, LineTyped
  <1>4. ASSUME NEW c \in Connections, connect(c) \/ ask(c) \/ leave(c) PROVE LoopInv'
    BY <1>4, ClientActs
  <1>5. CASE UNCHANGED loopVars
    <2>1. UNCHANGED <<at, working, watched, cin_good, console, backlog, unread, waiting, closed>>
      BY <1>5 DEF loopVars, program, traffic
    <2>2. Wired' /\ Queued' /\ Known' /\ Typed' /\ Passing'
      BY <2>1 DEF LoopInv, Wired, Queued, Known, Typed, Passing, accepted, open, Descriptors
    <2>3. ReadsOnlyWhatIsThere'
      BY <2>1 DEF LoopInv, ReadsOnlyWhatIsThere, readable
    <2>4. QED
      BY <2>2, <2>3 DEF LoopInv
  <1>6. QED
    BY <1>1, <1>2, <1>3, <1>4, <1>5 DEF LoopNext

(* At first only the console and the listening socket are there.            *)
LEMMA LoopInitInv == LoopInit => LoopInv
  <1> SUFFICES ASSUME LoopInit PROVE LoopInv
    OBVIOUS
  <1>1. /\ at = "select" /\ working = {} /\ cin_good = TRUE
        /\ DOMAIN watched = {STDIN_FILENO, Listener}
        /\ watched[Listener] = "listener"
        /\ Listener # STDIN_FILENO => watched[STDIN_FILENO] = "console"
        /\ console = <<>> /\ backlog = <<>> /\ unread = {} /\ waiting = {} /\ closed = {}
    BY DEF LoopInit
  <1>2. Listener \in Nat /\ Listener # 0 /\ MaxTyped \in Nat
        /\ Cardinality(Connections) \in Nat
    BY LoopAssumption, FS_CardinalityType
  <1>3. Wired
    <2>1. {STDIN_FILENO, Listener} \subseteq Descriptors
      BY <1>2 DEF Descriptors, STDIN_FILENO
    <2>2. QED
      BY <1>1, <1>2, <2>1 DEF Wired, STDIN_FILENO
  <1>4. backlog \in Seq(Connections) /\ console \in Seq(Lines) /\ Len(console) = 0
        /\ DOMAIN backlog = {}
    BY <1>1
  <1>5. Queued /\ Known /\ Typed
    BY <1>1, <1>2, <1>4 DEF Queued, Known, Typed, IsInjective, ToSet
  <1>6. Passing /\ ReadsOnlyWhatIsThere
    BY <1>1 DEF Passing, Places, ReadsOnlyWhatIsThere
  <1>7. QED
    BY <1>3, <1>5, <1>6 DEF LoopInv

THEOREM LoopInvariance == LoopSpec => []LoopInv
  <1>1. LoopInv /\ [LoopNext]_loopVars => LoopInv'
    BY LoopNextInv
  <1>2. QED
    BY LoopInitInv, <1>1, PTL DEF LoopSpec

-----------------------------------------------------------------------------
(* The theorems.                                                           *)

(* The loop, its descriptors and its queues keep their types: there is a    *)
(* descriptor for every connection, each is open or not yet accepted, and   *)
(* nobody has asked or left who is neither.                                 *)
THEOREM LoopTypeCorrect == LoopSpec => []LoopTypeOK
  <1>1. LoopInv => LoopTypeOK
    <2> SUFFICES ASSUME LoopInv PROVE LoopTypeOK
      OBVIOUS
    <2>1. console \in BoundedSeq(Lines, MaxTyped)
      <3>1. console \in [1 .. Len(console) -> Lines] /\ Len(console) \in 0 .. MaxTyped
        BY LoopAssumption DEF LoopInv, Typed
      <3>2. QED
        BY <3>1 DEF BoundedSeq, SeqOf
    <2>2. Range(watched) \subseteq Connections \cup {"console", "listener"}
      BY DEF LoopInv, Wired, Range
    <2>3. QED
      BY <2>1, <2>2 DEF LoopInv, Wired, Queued, Known, Passing, LoopTypeOK
  <1>2. QED
    BY <1>1, LoopInvariance, PTL

(* Neither accept nor recv ever waits, however many connections come, ask,  *)
(* leave and get each other's descriptors.                                  *)
THEOREM LoopReadsOnlyWhatIsThere == LoopSpec => []ReadsOnlyWhatIsThere
  <1>1. LoopInv => ReadsOnlyWhatIsThere
    BY DEF LoopInv
  <1>2. QED
    BY <1>1, LoopInvariance, PTL
=============================================================================
