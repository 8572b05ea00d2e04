# A verification project for HotelReservation

HotelReservation is a hotel's booking service in C++: one server process keeps
the rooms, the reservations and the users in memory, and command line clients
talk to it over TCP with JSON requests. This directory holds TLA+ models of the
server's logic, of its main loop, its files and the client program, TLC
configurations that check them on small instances, and proofs, checked by
TLAPS, that the safety properties hold for every size of the instance.

## 1. The system

| component | code | state | operations |
|---|---|---|---|
| HotelRoom | `codes/infra/hotel.{h,cpp}` | full flag, price, capacity, cached free beds, reservations | add, cancel, leave, empty, move the date, availability test |
| HotelManager | `codes/infra/hotel.{h,cpp}` | the vector of rooms | add, modify, remove, book, cancel, leave, empty, move the date, load, save |
| UserManager | `codes/infra/user.{h,cpp}` | users: id, password, role, purse, phone, address, session | sign up, log in and out, connection lost, pay, refund, edit, load, save |
| Server | `codes/infra/server.{h,cpp}` | the two managers and the calendar day | sixteen requests, exit |
| server loop | `codes/server/main.cpp` | the set of open descriptors, the console | select, accept, drop, dispatch, read a command |
| client | `codes/front/cli.{h,cpp}`, `codes/client/main.cpp` | name, password, token, role, connection, whether the server is up | menus and forms, reconnection, recovery |
| encoders, sockets | `codes/infra/{decode,socketUtils}.cpp` | none that outlives a call | encode, send, receive, connect |
| files | `Server::rewrite_data`, `save` and `load` of the managers | two JSON files | write at exit, read at start |
| dates, logs, configuration, manual driver | the rest of `codes/` | none that matters to the service | - |

*How they interact.* A client sends one request, which names its sender by the
token that signing in returned, and waits for the answer. The server's `select`
loop takes one readable descriptor at a time, the console among them, and runs
the handler to its end, so handlers never overlap; what interleaves are the
requests of different clients, the connections that come and go, the
administrator who moves the calendar or changes rooms, and the operator who
stops the server and starts it again on any date. A handler asks the two
managers a series of questions and then calls the operations that change them: a
booking reads the user, the room and the date, then changes the room and after
it the purse. The rooms and the users are tied only by the number in
`UserData::id` and `RoomUser::id`. A client that loses its connection tries to
connect again for a while and, when it was signed in, signs in once more with the
name and the password it remembers. After each command of a user who is signed in
it asks for Enter before it looks at its connection again.

*What is hard in it.* The number of free beds and the full flag are cached and
each operation maintains them in its own way. Dates can go backwards. Halves of
prices are paid back at the price of the day. Sessions are found by token, by
socket and by name, and end in three ways; the client keeps its own idea of its
session, and corrects it when it notices a loss. The server reads its console
with a call that waits, in the loop that serves the clients, and descriptors are
used again. The two files are saved one after the other, and only on `exit`: an
interrupt from the keyboard forgets reservations, payments, users and passwords.
Numbers of beds are whatever integers the client is given, negative ones too.
`PROJECT.json` lists the hazards one by one.

*What makes each component correct.*

- Room and hotel: no night is overbooked; a guest has one reservation in a
  room; stays that are over are forgotten; the caches agree with the books; a
  stay that has begun is not taken away; all in all, the books are an
  inventory of beds.
- Users: a token is one user's session; ids tell users apart; a session is not
  taken over by a second sign-in.
- Server: nobody holds a bed that was not paid for, nor gets back more than
  half; every reservation has an owner; a session ends with its connection.
- Client and server: what a client believes of its session is what the server
  holds; what it asks, its user may ask; after a loss it is signed in again, or
  refused for a reason; it comes back to its prompt; a lost session ends.
- Server loop: it waits on no socket, starves no client, and obeys its operator.
- Files: what a start reads is a state the server was in, or is known not to be.

## 2. Modules

| module | models | built on |
|---|---|---|
| `HotelRoom` | one room: its member functions as operators on a record | - |
| `HotelManager` | the hotel and the date: one action per operation | `HotelRoom` |
| `BedInventory` | abstract: the beds of each room and how many are taken each night | - |
| `HotelInventory` | the refinement mapping from the books to the inventory | `HotelManager`, `INSTANCE BedInventory` |
| `UserManager` | users and sessions: one action per operation | - |
| `Server` | the request handlers, connections, exit and restart | `HotelManager`, `UserManager` |
| `Persistence` | the two files, a save cut short, starts | `Server` |
| `Requests` | what the encoders make: a record for each kind of request and answer | - |
| `Client` | the client program, cut where it waits | `INSTANCE Requests` |
| `HotelSystem` | clients, server, connections, losses, restarts, fairness | `Server`, `INSTANCE Client` |
| `ServerLoop` | `select`, its passes, descriptors, the console | - |
| `HotelManagerProofs` | counting beds; the hotel's invariants for all constants | `HotelManager` |
| `HotelInventoryProofs` | the refinement of the inventory for all constants | `HotelInventory`, `HotelManagerProofs` |
| `UserManagerProofs` | the users' invariants for all constants | `UserManager` |
| `ServerProofs` | owners, sessions and types for all constants | `Server`, `HotelManagerProofs`, `UserManagerProofs` |
| `ServerMoneyProofs` | what is held is paid, at one price | `ServerProofs` |
| `HotelSystemProofs` | clients and server for all constants, the refinement of the server | `HotelSystem`, `ServerMoneyProofs` |
| `PersistenceProofs` | what survives in the files, for any number of starts | `Persistence`, `ServerMoneyProofs` |
| `ServerLoopProofs` | the loop never waits on a socket, for any number of connections | `ServerLoop` |
| `MC...` | instances for TLC | |

**The server's data.** Names are those of the code. A date is the number of its
day. `rooms` is a function from the numbers of the rooms that exist; a room's
vector of reservations is the set of its elements, in which, as
`OneReservationPerGuest` shows, no guest occurs twice. One decision depends on the
order: `check_room_available` tests the sum after each reservation, and where some
take a negative number of beds a partial sum may exceed the whole. The order is
therefore a parameter there, and a booking may meet any of `orders`. `users` is a
function from the names in use. An action's guard is what the code tests before
it changes anything: for the hotel that includes the questions the server's
handler asks (`bookable`, `cancelable`, `modifiable`), and `Server` adds who is
asking and what it costs. A refused request is the second disjunct of its
action, which only sets `answer` (an edit that is refused may have changed the
password first, as in the code). Free beds are the capacity less `BedsOf` the
reservations of the day; `BedsOf` is the cardinality of a set of slots, one for
each bed of each reservation, less that of the beds that negative reservations
give, which needs no recursion and can be reasoned about with the theorems on
finite sets.

`ledger` is a history variable that no code keeps: what each guest has paid and
got back for each room. Its updates read the change that the step made to the
purse, not the cost the handler computed, so that a payment that silently
failed would show.

**The client.** `client[c]` is the program of one client: where it stands
(`at`), the request it has made (`call`) and the members of class `Command`. A
command runs from the line that starts it to the next look at the socket, in as
many steps as it waits: for the answer, for the fields of a form, for a
connection, and, when its user was signed in, for Enter (`enter`,
`press_enter`). The three commands that parse the data of an answer before they
look at its kind (`user_info_shown`, `profile_shown`, `rooms_shown`) end the
program when they are refused, for a refusal has no data. Every send may find
the connection lost, and then either fails or seems to succeed; every receive
may report the loss. `hear` is a receive with an answer, `answer_lost` one
without. `poll` is the turn of the loop in `client/main.cpp` before the prompt,
with its wait on the socket when standard input is what can be read
(`TypesAhead`). `recover_state` is asked of every new connection and sends a
request only for a client that was signed in.

**The composition.** `HotelSystem` joins the two through `link` (the server's
descriptor of a client's connection, `NoFd` when it is lost) and `wire` (the
message under way). `serve(c)` takes the request from `wire`, is the handler
`Server::diagnose` picks, and puts the answer back. A connection is lost by a
crash of the client, by the end of the server, or by the network, with the
message on it; the server hears of it later, in `hear_the_end`. The server ends
in two ways: `shut_down` saves, `interrupt` (`codes/server/main.cpp:20`) does
not, and the next start reads `files`, what the last exit wrote. `undone` is a
history variable: the users who have signed up or changed their password since
the file was written and were forgotten so. Whether the network loses
connections is `LossyNetwork`, whether there are interrupts `Interrupts`;
without them a start reads what an exit has just written and `files` stays as it
was. The token a sign-in draws is not one that a client still remembers
(`token_is_new`): tokens are 128 random bits.

**The loop.** `ServerLoop` keeps what `select` reported (`working`), what is
behind each descriptor (`watched`) and what can be read there. `LoopStep` is the
program; clients and the operator do what they like in between, also while the
program waits for a word. What a request means is `Server`'s business: in
`ServerLoop` it is a text that comes and is answered.

**The files.** `Persistence` has the server serve, save, end and start. A file
that was opened and not written is not `whole`, and the next start fails over it.
`apart` and `split` are history variables: whether the files, and what was read
from them, hold the users of one moment and the rooms of another.

**Operators named `Faulty_...`** are plausible slips, one for each property:
when the operator of the same name without the prefix is replaced by it, TLC
finds the property violated. They are never used by the specifications.

## 3. Runs

| run | configuration | result |
|---|---|---|
| `hotel_books` | two rooms, two guests, capacities 1 and 2, bookings and cancellations of -1, 1 and 2 beds, four days, steps of -1, 1 and 2 days | holds: types, `OneReservationPerGuest`, `NoExpiredStay`, `CapacityAccurate`, `StartedStayIntact`, `FullUnlessEnlarged` |
| `hotel_growing` | one room, three guests, capacities 2 and 3, five days, no beds taken out | holds: `NeverOverbooked`, `SoldOutIsFlagged`, and the refinement `KeepsInventory` |
| `hotel_fresh_room` | bookings of three beds in a room of two | `NeverOverbooked` violated |
| `user_sessions` | three users, three tokens, two sockets, ids 0 and 2 in the file | holds: types, `SessionPerToken`, `DistinctIds`, `SessionNotTakenOver` |
| `server_requests` | two users, two tokens, two sockets, one room of two beds in a plain trade, three days | holds: types, `SessionHasConnection`, `HeldIsPaid`, `ReservationsHaveOneOwner` |
| `system_sessions` | two clients of one user, three tokens, two descriptors, lossy network, exits, interrupts and restarts | holds: types, `SessionsAgree`, `SignsInAsNobody`, `AbortsOnlyRecovering`, `RefusedOnlyWhileSignedIn`, `KeepsSession` |
| `system_hotel` | one client, a guest and an administrator, one room, two days, typed-ahead lines | holds: `AsksWhatItsUserMay` and the refinement `ServerSpec` |
| `system_progress` | one client of one user, three attempts, lossy network, exits, interrupts, typed-ahead lines, fairness | holds: `PromptReturns`, `LostSessionEnds` |
| `system_recovery` | one client whose user changes the password | `RefusedOnlyWhileSignedIn` violated |
| `loop_busy` | two connections, any two lines at the console, fairness | holds: types, `ReadsOnlyWhatIsThere`, `OnlyTheConsoleStalls`, `ConnectionsComeAndGo`, `ExitAloneEnds` |
| `loop_exit` | one connection, words and `exit` | `ExitIsHeard` violated |
| `persistence_crash` | two users, a room of one bed, three days, up to three more starts, interrupts anywhere | holds: types, `ReservationsHaveOneOwner`, `MoneySurvives` |

The largest, `system_sessions`, has 2.1 million distinct states and takes about
three minutes.

**Why the bounds are enough.**

- Rooms do not influence one another except that a booking for today refreshes
  all of them, which two rooms show. Two guests give overlapping, nested and
  adjacent stays; three are needed for the availability test, which sums two
  against a third. Four or five days leave room for a past, a present and two
  future nights and for dates that go back.
- Guests, rooms, users, tokens and clients are interchangeable wherever the
  properties do not name one, so symmetry over them is sound. The runs with
  liveness properties use no symmetry; `hotel_growing` and `system_hotel` check
  their refinements, which are safety properties, under it.
- Ids 0 and 2 leave the gap that `create_Id` fills.
- A purse of 3 pays for one long stay or several short ones, and its halves are
  rounded.
- Two clients that contend for one user meet every case of a session that is
  somebody else's: a second sign-in, a recovery that comes too late, a
  descriptor that is given out again. With three tokens one is always left to be
  drawn while the other two are remembered. Where one client is enough
  (`system_progress`), it is because it competes only with its own past: the
  descriptor the server has not yet given up.
- Two attempts to connect, or three, stand for the ten of the code: the first,
  one in between, and the last.
- Two lines at the console show one that spoils the next; two connections, one
  whose descriptor is given to the other.
- Three starts are enough for a start over torn files, a clean save of what was
  read, and a start over that.

`LastDay` bounds the calendar (`within_calendar` keeps a client's administrator
from passing more days), `MostBeds` the beds that cancelling a negative number of
them may lead to, `BalanceLimit` the purse in `UserSpec`, `MaxStarts` the
starts in `Persistence`, `MaxTyped` the lines typed and not yet read; they bound
guards only. Deadlock is checked everywhere except in the two `ServerLoop` runs,
where the server may end, and in `persistence_crash`, where a file that is cut
short or the last of the starts leaves nothing to do.

**Fairness.**

- `SystemFairness`: the client's program goes on when it can (`run`), the server
  handles a request or the end of a connection that is there (`serve`,
  `hear_the_end`): weak fairness, which the server's loop provides, as
  `loop_busy` shows (`OnlyTheConsoleStalls`, `ConnectionsComeAndGo`), as long as
  its console is quiet. `connect_to_server` is under strong fairness: in the
  code, `connect` returns with success or a refusal and never waits for a
  descriptor, but in the model a connection needs one of `Fds`, which the
  server may not have given up yet.
- `LoopSpec`: weak fairness of the program's own step, as a process that is
  scheduled has. Nothing is said about which branch is taken, because a pass
  handles what `select` reported in one order.
- Nobody has to type a line or press Enter, to start or end the server, or to
  lose or keep a connection. A program that asks for Enter has come back to its
  user, and that is all `PromptReturns` asks of it.

**Refinements.**

- `HotelSystem` without interrupts implements `ServerSpec` (`system_hotel`, and
  proved for all other constants as `SystemRefinesServer`): whatever the clients
  do, the server they talk to goes through the states of the module in which
  every request may come from anyone at any time. So `HeldIsPaid` holds of the
  system as well. The mapping is the identity on the server's variables. An
  interrupt is no step of `ServerSpec`, which forgets nothing; what it does to
  books and purses is the subject of `Persistence`, and
  `ReservationsHaveOneOwner` and `SessionHasConnection` are proved of the system
  with interrupts too (`SystemOneOwner`).
- `HotelManager` under `GrowingHotelSpec` implements `BedInventory`
  (`hotel_growing`), in which reservations, names, prices, the full flag and the
  cached free beds are gone and only beds and nights are left: a booking needs
  room on each of its nights, a change of the date touches no night to come, a
  room is closed only when nobody is in it. The mapping counts `BedsOf` the
  reservations of each night.

**What the violations show.**

- `hotel_fresh_room`: the availability test is inside the loop over the
  reservations, so a room without any accepts any number of beds; the refresh
  then leaves a negative number of free beds. (`Docs/HotelManager.md:216`)
- `system_recovery`: the client recovers with the password it remembers from
  signing in; changing the password does not change what it remembers, and after
  a restart of the server the client is refused and back at its first menu.
  (`README.md:48`)
- `loop_exit`: after any word that is no command the loop goes on to receive from
  the console as from a client, which fails, and closes it; an `exit` typed later
  is never read, and only an interrupt, which saves nothing, ends the server.
  (`README.md:185`)

**Other behaviour worth knowing.** The models do what the code does here too;
no run asks for the contrary.

- `modify_room` leaves the full flag alone: a sold out room that gets one more
  bed is reported full until the next change of the date
  (`codes/infra/hotel.cpp:394`). `FullUnlessEnlarged` shows that nothing else
  makes a full flag stale.
- `capacity_validation` looks at one reservation at a time: a room that two
  guests have reserved for the same night can be reduced to one bed
  (`codes/infra/hotel.cpp:173`). This is why `GrowingHotelSpec` excludes it.
- Refunds are computed from the price of the day, not from what was paid: after a
  rise of the price more than half comes back (`codes/infra/hotel.cpp:305`,
  `README.md:153`). This is why one price is a part of `PlainTrade`.
- An edit with a new password and a phone number of the wrong length is answered
  with an error and has changed the password (`codes/infra/user.cpp:211`).
- A line typed ahead makes the client wait on its socket, where nothing comes,
  until the connection is lost (`codes/client/main.cpp:119`): `Client`'s
  `drain`. `PromptReturns` is checked with lines typed ahead; it leaves this wait
  out while the connection lives and has it end with the connection.
- `is_server_up` is set again only by an answer; a client that was not signed in
  when it lost the server has nothing to recover, and reconnects from a live
  server after each of its commands until one of them has been answered
  (`codes/client/main.cpp:116`). `KeepsSession` shows that no session is lost so.
- A client that recovers and gets no answer parses an empty text and aborts
  (`codes/front/cli.cpp:197`). Three commands would abort over a refusal, which
  has no data to parse (`codes/front/cli.cpp:402`, `460`, `746`);
  `AbortsOnlyRecovering` shows that they are never refused.
- A sign-up whose answer is lost is shown as a success: what is parsed is the
  answer before it, about the free name (`codes/front/cli.cpp:141`).
- When the console has been closed, the next client gets descriptor 0, and
  `std::cin` waits for the end of its first word (`codes/server/main.cpp:57`):
  `ServerLoop`'s `swallow`.
- An interrupt between the two files leaves the users of one moment and the rooms
  of another: a guest may have paid for a bed that nobody has reserved, or hold
  one that is not paid for. `MoneySurvives` says that nothing else does it, and
  `ReservationsHaveOneOwner` that even then every reservation has its owner:
  users are written first and never removed.
- An interrupt forgets whoever signed up, and whatever password was changed, since
  the last exit (`codes/server/main.cpp:20`). The client of such a user recovers
  with what it remembers and is refused with nobody signed in; the users are
  `undone`, and `RefusedOnlyWhileSignedIn` names them.
- The client sends any integer as a number of beds, and nothing on the way refuses
  a negative one (`codes/front/cli.cpp:502`, `648`, `codes/infra/server.cpp:248`,
  `334`). The models do the same. A negative booking counts as extra capacity in
  every sum and makes up for the beds of another guest, so that a room can be
  removed with both in it: `StartedStayIntact` promises the room only where nobody
  in it has a negative number of beds. It also pays its guest, and cancelling a
  negative number adds beds at half the price: `HeldIsPaid` is about a
  `PlainTrade`, in which nobody asks for fewer beds than none.

## 4. Proofs

`HotelManagerProofs` proves, for every set of rooms, guests, capacities, prices
and bed counts and every length of the calendar, from `HotelAssumption` only
(prices, capacities, bed counts and steps of the date are integers, of any sign):

- `HotelTypeCorrect`, `HotelOneReservation`, `HotelNoExpiredStay`,
  `HotelCapacityAccurate`: the invariants of the run `hotel_books`;
- `HotelStartedStay` and `HotelFullUnlessEnlarged`: its action properties. The first
  says that a cancellation never shrinks a stay that has begun, and that its room
  is not removed as long as its guest has a bed and nobody who stays there has a
  negative number of them;
- `HotelNeverOverbooked`, `HotelSoldOutIsFlagged`: the invariants of
  `hotel_growing`, under `RequestsFit` (each booking asks for at least one and
  at most as many beds as any room has) and for the administrator of
  `GrowingHotelSpec`, who takes no beds out of a room. `hotel_fresh_room` is
  what happens without the first; the tests of `capacity_validation` and
  `modify_room` described above are why the second is there.

The argument: `HotelInv` says of each room that it is *sound* on the current
day (`SoundRoom`): its type; finitely many reservations; distinct guests; each
stay has a night and is not over; and the cached free beds are those the
reservations leave. `CapacityAccurate` is not inductive without the others: a
leaving guest gives back the beds of the reservation that a search by id finds,
which are the beds counted for the day only if that reservation is the guest's
only one and is one of today's; and a cancellation keeps the cache right only
because it comes before the arrival. Each operation on a room has a lemma
(`RefreshSound`, `CancelSound`, `LeftSound` ...), and a step of the hotel then
only names the room it touches. For overbooking, `FitInv` adds that no night
exceeds the capacity and that a room without free beds is flagged; the lemma
`AddedFits` is what the night-by-night availability test buys. The lemmas at the
head of the module (`BedsOfAdd`, `BedsOfRemove`, `BedsOfSubset` ...) are facts
about the number of slots of a set of reservations, those that are taken and those
that are given.

`UserManagerProofs` proves, for every set of usernames, tokens, sockets and ids
in the file, from `UserAssumption` (finitely many names, and the empty string is
none of the other values), the four properties of the run `user_sessions`:
`UserTypeCorrect`, `UserSessionPerToken`, `UserDistinctIds` and
`UserSessionNotTakenOver`. The invariant `UserInv` is the conjunction of the
first three and is inductive as it stands. Its one arithmetical part is
`CreatedIdIsFree`: the numbers from 0 to the count of the users are more than
the users, so one of them is free (the pigeonhole theorem), and the least such
number, which the code's loop returns, exists because strict inclusion of the
finite initial segments is well founded. `ChangedUser` reduces an operation that
changes one record to what it does to that record. That a session is not taken
over then follows step by step: only a login replaces a token or a socket, and
`user_validation` refuses it to a user who is logged in.

`HotelInventoryProofs` proves the refinement of `hotel_growing` for all
constants: `HotelKeepsInventory`, that under `RequestsFit` every behaviour of
`GrowingHotelSpec` is one of the abstract inventory of beds. The initial books
map to an empty inventory, and each action of the hotel maps to one of
`Reserve`, `Release`, `SetDate`, `Open`, `Enlarge`, `Close` or to a stutter
(`StepMaps`). The steps need nothing but `HotelInv` and `FitInv`: what is taken
on each night after a booking or a cancellation is arithmetic on slots
(`AddedTaken`, `CancelTaken`), and the refresh that a booking for today and a
change of the date bring about forgets only what is over, which leaves every
night from today on as it was (`RefreshTaken`).

`ServerProofs` proves the invariants of `server_requests` that are not about
money, for every number of users, sockets, tokens and rooms:
`ServerTypeCorrect`, `ServerSessionHasConnection` and `ServerOneOwner`. To the
assumptions of the two managers, `ServerAssumption` adds that every id a user
may have, from the file or from `create_Id`, is one the hotel knows. The
invariant `ServerInv` joins `HotelInv`, `UserInv`, the types of the rest,
`SessionHasConnection` and `Owned` (each reservation's id is some guest's, which
with `DistinctIds` makes the guest the only one). The proof is layered as the
code is: `HotelPart` shows that what any request does to the hotel is a step of
`HotelManager`, whose invariant is then preserved by the lemma already proved;
for the rest, `ServerKinds` sorts all the steps into a granted booking, a
granted cancellation, and the others, of which it is enough to know that no
stay begins (`StaysKept`), the accounts stand still and users keep their ids
(`SameUsers`). Sessions are kept apart in the same way: all requests but a
sign-in let nobody in (`NobodyComes`). A connection's session is the only one on
it, so that `client_dead`, which ends the first it finds, ends them all.

`ServerMoneyProofs` proves `ServerHeldIsPaid`: in a plain trade nobody holds a bed
that was not paid for (`NothingOwed`) or gets back more than half
(`AtMostHalfBack`). The condition is part of the property: `PlainTrade` is one
price, not negative, and no request for a negative number of beds; the server
enforces neither, and section 3 says what happens without. `NothingOwed` speaks of
those who hold something, and is not inductive alone: a guest who cancelled
everything can book again, and what the account has paid back by then must be
known to be at most half. A partial
cancellation is where it all meets: the beds given up cost their share of the
whole (`ShareOfCost`), at most half the share is paid back (`HalfFits`), and the
reservation that is left still fits into what was paid. That the purse pays what
the handler reckoned is `Booked` and `Cancelled`: the ledger reads the purse, and
`have_enough_money` was asked of the same user first.

`HotelSystemProofs` proves the safety properties of the three runs of
`HotelSystem` for every number of clients, users, tokens, descriptors, rooms and
attempts, from the managers' assumptions and `SystemAssumption`:

- `SystemRefinesServer`, without interrupts: every behaviour of the system is one
  of `ServerSpec`, so that everything proved of the server alone holds of the
  server among its clients; `SystemHeldIsPaid` carries the money over;
- `SystemOneOwner`, with interrupts too: reservations have their owners and no
  session outlives its connection;
- `SystemTypeCorrect`, `SystemSessionsAgree`, `SystemSignsInAsNobody`,
  `SystemAbortsOnlyRecovering`, `SystemAsksWhatItsUserMay`: the invariants;
- `SystemKeepsSession` and `SystemRefusedOnlyWhileSignedIn`: the action
  properties. The second is proved under `NewPasswords = {}`, users who change no
  password: `system_recovery` is what happens otherwise. So a recovery that is
  refused while nobody is signed in as its user has one of two causes, a changed
  password or an interrupt that has undone the user.

The refinement is not for nothing: `Server`'s `sign_in` takes for granted that
the connection has no session (the client's menu is what provides it), so the
step simulation needs `SignsInAsNobody` in every reachable state, and that
property is a matter of both sides. The invariant `SystemInv` is `ServerInv` and
three parts more. `Control` relates the three values of one client, its program,
the message under way and its descriptor: which call is out at each place, that
the message belongs to it and carries the program's own name, password and
token, and that a signed-in program that takes a live server for dead is one
that is recovering (which is what `KeepsSession` comes from). `Agreement`
relates them to the server's users: the connection of a program that is signed
in carries just its session (`SessionOn`), an answer to a sign-in that is under
way carries the token of the session it began, all other connections are
`Vacant`, and the privilege a program remembers is that of its user wherever
that user still exists (`HasRole`: whom an interrupt has taken away, can only
have been a guest). `OneEach` says that no descriptor has two clients.
`SessionsAgree` alone is not inductive: it is lost as soon as a program signs in
over a connection whose old session the server still has, and only `Vacant`
excludes that. For the interrupts, `SavedInv` says that what the files hold is
what a server may start from, users and rooms of one moment, and that whoever is
in them is still a user, under the same id and role, and whoever came since is a
guest. The steps go in two layers: each move of a program is classified by what
it asks, hears or gives up (`ClientMoves`, `GoesOn`, `HungUp`, `Requested`,
`Heard`), and each request the server serves by what it does to sessions, of
which there are three kinds, one that lets somebody in (`LetIn`), one that shows
somebody out (`ShownOut`) and the quiet ones (`QuietRequest`, `QuietKept`); the
other clients keep what they had because their descriptors are others and the
server's sessions differ in theirs (`OthersAgree`). For the recovery,
`Remembered` adds that what a signed-in program knows is its user's password on
the server.

`PersistenceProofs` proves the three invariants of `persistence_crash`, for any
number of starts and an interruption at any moment (`PersistenceAssumption`: the
bound on starts is a natural): `FilesTypeCorrect`, `FilesOneOwner` and
`FilesMoneySurvives`, which like `HeldIsPaid` is about a `PlainTrade`. The
invariant `FilesInv` says what the memory is while the program runs
(`ServerInv`; everybody in the file is still a user, under the same id and role;
once the users are written, the converse too), what the files hold at every
moment (`Written`: rooms whose reservations are owned by users in the file), and
that the two are the same while it is down. That every reservation in the files
has an owner is where the order of the two writes matters: the rooms that were
written before belong to users who are all written again (`StillOwned`), and the
rooms written next to users who already are. A start then refreshes rooms that
were sound on another day to rooms sound on this one (`RoomsRead`). `Accounted`
says that memory and files are paid for unless they are of two moments (`split`,
`apart`).

`ServerLoopProofs` proves `LoopTypeCorrect` and `LoopReadsOnlyWhatIsThere` for any
number of connections and lines, from `LoopAssumption` (finitely many
connections, which are neither the console nor the listener, and a listening
socket behind the three standard descriptors). What `select` reported stays
true until the pass comes to it because no connection is behind two descriptors
(`Wired`), so that a request that is taken is missed by nobody else, and because
a new connection gets a descriptor outside the pass: `free_fd` is proved to exist
by counting the descriptors that can be busy, and `Min` to find it by
well-foundedness of the finite initial segments.

*Only model-checked.* `PromptReturns`, `LostSessionEnds`, `OnlyTheConsoleStalls`,
`ConnectionsComeAndGo` and `ExitAloneEnds` are liveness under fairness, which the
prover cannot treat. Of the properties that hold, they are the only ones without
a theorem. Those proved under a condition are `NeverOverbooked`,
`SoldOutIsFlagged` and `KeepsInventory` (`RequestsFit` and an administrator who
takes no beds out), `SystemRefinesServer` and `SystemHeldIsPaid` (no interrupts)
and `RefusedOnlyWhileSignedIn` (`NewPasswords = {}`). `StartedStayIntact`,
`HeldIsPaid` and `MoneySurvives` carry their conditions in themselves. The runs
`hotel_fresh_room` and `system_recovery` show two of them to be needed, and
section 3 says why the others are.

## 5. Not modelled, and why

- JSON parsing, wording of answers, logs, tables and autocompletion: no property
  is about them. Dates are taken as valid. Of `Server`'s answers only success or
  error is kept, and what `sign_in` returns.
- The width of `int` in prices and in numbers of beds: the models use unbounded
  integers.
- TCP below the level of a message: a text is received whole or not at all, a
  message under way is lost with its connection, an answer that has arrived can
  be read after the loss; a send on a lost connection fails or is never
  answered. Texts are far shorter than the buffers, and client and server
  strictly alternate on a connection.
- In `HotelSystem` a connection is accepted in the step that makes it, and the
  console is quiet until it ends the server; what happens in between is the
  subject of `ServerLoop`. There, the texts of clients have no spaces in them, and
  a terminal delivers one line at a read.
- Two tokens of 128 random bits are taken to differ; `login` draws an unused
  one.
- A rooms' file starts without reservations: one that holds some was saved by a
  server, and `restart_hotel` reads it back. In `Server` and `HotelSystem`
  `restart` stands for `exit` followed by a start on any date, and an interrupt
  in `HotelSystem` for one that does not come in the middle of a save;
  `Persistence` takes both apart.
- The balance of an administrator is not read from the file and never read by
  the code; it is 0 here.
- The activity logs, which nothing reads; the configuration data, which the
  initial states stand for; the manual driver, which is not part of the service.

## 6. Plan

Done: every part of the service that keeps state, alone and composed; liveness;
two refinements, both proved; a proof of every safety property the runs check.
Next:

1. Cost and refund with the width of `int`, against the exact values: within which
   bounds on prices, beds and days the two agree.
2. That a running server between a start and the next end implements `ServerSpec`
   in `Persistence` as well, so that its action properties carry over.
3. What an administrator may still do to a guest who has paid: a room removed
   before a future stay.
4. For rooms with negative reservations, which partial sums the availability test
   meets, and what is left of `NeverOverbooked` there.
