# A specification of the chat-room server

This directory specifies the concurrent core of the chat server in `src/` and of the
page it serves: TLA+ modules translated from the Go and JavaScript code, TLC
configurations that check them on small instances, and TLAPS proofs of all the safety
properties of the passing runs, for every number of clients, rooms, requests and sockets and every
buffer size. `PROJECT.json` maps every definition to the source lines
it stands for; this file says what is modelled, why it is modelled that way, and
what the checks and the proofs show.

    tlc -workers 2 -config MCHub.cfg MCHub     # one run
    tlapm HubProofs.tla                        # proofs, about a minute a module
    tlapm HubOrderProofs.tla                   # likewise BusProofs, ColdPathProofs,
                                               # HistoryProofs, ServerProofs,
                                               # AuthProofs, WebClientProofs

## The system

| Part | State | Operations | Talks to |
|---|---|---|---|
| Hub (`internal/hub/hub.go`, `room.go`) | `clients`, `rooms` with their members, message counters; all owned by the goroutine in `Run` | register, unregister, join, leave, broadcast, disconnect, snapshot, sampler tick | read pumps (three unbuffered channels and `done`), write pumps (one bounded channel each), persister (bounded channel) |
| Client pumps (`internal/hub/client.go`, `internal/web/conn.go`) | per client: socket, `send` channel, what the read pump is doing | read a frame, fetch history, submit; write a frame, ping, close | hub, message store, the peer |
| Persister (`internal/persist/persist.go`) | queue, whether it drains | receive, save, drain | hub, message store |
| Message store (`internal/store`) | the `messages` table | `SaveMessage`, `RecentByRoom`, `Close` | persister, read pumps, main |
| Start and stop (`cmd/chat/main.go`) | the root context, the error group and its first error | signal, a member's failure, drain the HTTP servers within the grace period, wait, close the store | everything |
| Bus (`internal/bus/bus.go`) | subscriber set under a mutex, one bounded channel per subscription | publish, subscribe, cancel | nobody yet: the hub does not use it at this commit, although its package comment says so |
| Accounts and sessions (`internal/auth`, `internal/web/auth.go`) | `users` and `sessions` tables, the browser's cookie | register, login, logout, authenticate | auth store, the browser |
| Web server (`internal/web/server.go`) | the HTTP server, requests in flight | upgrade (`handleWS`), room list (`handleRooms`, which asks the hub for a snapshot), `Serve`, `Shutdown`, static files | hub, auth |
| Browser client (`internal/web/static/app.js`) | user, room, current socket, back-off, timers | log in, log out, connect, reconnect, join, send, poll | web server |
| Configuration (`internal/config`) | limits | `Validate` | main |

What is hard here, and what makes each part correct:

* **Hub and pumps.** The slow path may drop a client while its read pump is
  anywhere: reading, waiting for the database, waiting in `Submit`. Disconnecting
  takes several steps (each room, each presence broadcast, the close), with the
  pumps running in between, and may be triggered twice. Correct means: no send on
  or second close of a closed channel; members are connected clients; rooms exist
  exactly while somebody is in them; a member gets every message in accept order
  or is dropped, never skipped; every goroutine ends.
* **Cold path.** Messages go through a bounded queue beside delivery. Correct
  means: the hub never waits, nothing disappears unaccounted for, the stored order
  is the accept order, the store is not closed under a save, and history and live
  stream fit together for a client, however often it joins and leaves.
* **The process.** HTTP servers, hub and persister are told to stop at the same time and
  stop in any order, while requests wait for the hub. Correct means: `run` returns
  although a request may outlast the grace period, and only when everybody else has; a clean exit leaves no request behind;
  a request neither waits for a hub that has stopped nor holds up one that runs.
* **Bus.** The channel of a cancelled subscription is closed outside the lock under
  which the publisher sends.
* **Accounts.** Every operation is several store calls, each of which can fail
  after or before it took effect, concurrently with other requests.
* **Browser.** Close events, timers and responses arrive after the state they were
  meant for is gone. Correct means: the room the server has for the connection is the one
  on the page; a user is never left without a connection or a timer; nothing runs twice.

`PROJECT.json` lists each of these hazards at its line, with the properties that
cover it or the reason why none does.

## The modules

| Module | Models | |
|---|---|---|
| `Message` | frames and commands | parameters `Client`, `Room` |
| `Hub` | hub, rooms, both pumps, the life of a connection | one action per case of a select or step of a handler |
| `RoomService` | what the hub promises, without channels or goroutines | implemented by `Hub` |
| `HubProofs`, `HubOrderProofs` | theorems about `Hub`: types, membership and life cycle; order, loss, roster and the refinement of `RoomService` | |
| `ColdPath` | hand-off, persister, store, history fetch, shutdown order | |
| `MessageLog` | what the message store promises, without queue, goroutines or tables | implemented by `ColdPath` |
| `ColdPathProofs`, `HistoryProofs` | theorems about `ColdPath`: the way of a message to the table; what a joining client is sent, and the refinement of `MessageLog` | |
| `Server` | the process: error group, HTTP servers, grace period, room list, snapshots, rate sampler | extends `ColdPath`, whose steps it schedules |
| `ServerProofs` | theorems about `Server`, and that it implements `ColdPath` | |
| `Bus` | `LocalBus` | independent of the hub |
| `BusProofs` | theorems about `Bus` | |
| `Auth` | accounts, sessions, the middleware, the cookie | one action per store call or step of a handler |
| `AuthProofs` | theorems about `Auth` | |
| `WebClient` | the page: login, logout, sockets, timers, pollers, rooms, and the server's side of its sockets | one action per callback |
| `WebClientProofs` | theorems about `WebClient` | |
| `MCHub`, `MCColdPath`, `MCBus`, `MCAuth`, `MCServer`, `MCWebClient` | what TLC needs beside the `.cfg` files, which hold the values | symmetry, where it is sound |

### Hub

`hub`, `clients`, `rooms`, `members` are `Run`'s state. The unbuffered channels
`register`, `unregister` and `inbound` are rendezvous, so handing a client or a
command over is one step of the hub and the read pump together; the `send`
channels are bounded sequences, with `closed`. `reader[c]` and `writer[c]` say where
the pumps of `c` are, `conn[c]` whether its socket is open, closed, or open with
a peer that is gone. `Failing` and `Leaving` bound the faults: whose reads and
writes may fail on an open connection, and whose peer may close or vanish (a
closed connection, a stalled peer and a cancelled context make reads and writes
fail whatever these sets are). `slow` and `gone` are the local state of `deliverMessage`
and `disconnect` between two of their steps; while they are in use the hub takes
nothing from its channels.

*Granularity.* The pass of the hub over the members of one room is one step: it
touches each channel once, and a write pump that takes a frame before or after
does not change what the pass does to the other channels. Everything between two
passes (the message, then for each slow member and each of its rooms a presence,
then the close) is a step of its own, since pumps run between them.

*Heartbeat.* The WebSocket library hands a pong to whoever reads, so a ping fails for a dead peer, and also for a
healthy one while its read pump waits for the database (`PingFails`).

*History variables.* `accepted` numbers the messages, `joinedAt` says how many had
been accepted when a member joined, `wire` what each write pump has taken. They
never guard an action.

*A panic* of the hub's goroutine ends the process, since nothing recovers it
(`hub = "sendPanic"`, `"closePanic"`). One of a read pump runs its deferred
`Unregister` and is recovered by `net/http`, which called `handleWS`.

*Left out.* Texts, names, time stamps; frames that the read pump ignores;
`Snapshot` and the rate sampler (module `Server`); the cold path (module `ColdPath`, which
broadcast cannot tell from a no-op).

### RoomService

The promise behind `Hub`: a post is handed, in one step, to every live member of
the room but its sender, or the member is dropped, and then it has left all its rooms
and is handed nothing more. `Hub!Service` is the refinement mapping. A client is live
until the hub *decides* to drop it (`Kept`), although `disconnect` works through
its rooms later, room by room; a message is handed over when it enters the
send buffer. `ImplementsService` says that every step of the hub is a step of
`RoomService` or a stutter; run `hub` checks it and `HubImplementsService` proves it.

### ColdPath

The persister's queue, its saves, each of which may fail, and its drain on cancellation; the
`messages` table as the sequence of message numbers in id order, with `RecentByRoom`
as the query is written (by time, then id, limited, reversed); main, which closes the
store when the hub and the persister have returned. Delivery to a member is immediate
here. The clock is assumed not to step back.

The read pump of a client runs `handleJoin` for every join frame, so a client may ask at any
time, as a member, from outside, or again after a leave: it fetches (`Fetch`), sends the history frame
(`SendHistory`) and submits the join (`HubJoin`, or `JoinAborted` when the hub has stopped), which makes it a
`member` if it was none. `HubLeave` ends that. Each client has one room (`target`). History variables say what
the latest frame was (`hist`), how it was asked for (`asked`: from outside, from inside, or
in vain), what came live since the client came in (`live`), and how much of that came before the frame
(`before`). The page asks again as a member when an old socket opens late (`app.js:238-245`); the
second frame then repeats messages that came live.

### MessageLog

The promise behind `ColdPath`: a log of accepted messages, of which some are kept, in
order and for good, others lost, for good, and the rest undecided. Nothing is kept after the
log is closed. Each time a client asks to join it is sent at one moment the latest that is kept of its room (or
nothing), and while it is inside everything that is accepted. `ColdPath!Log` is the refinement mapping: a message
is kept when its row is written, lost when it is given up, and nowhere in particular while it is
in hand, queued or being saved; time stamps do not exist. `ImplementsLog` says that every step is a
step of `MessageLog` or a stutter; run `cold_path` checks it and `PathImplementsLog` proves it.

### Server

`run` starts an error group: the hub, the persister, and per HTTP server a goroutine that
listens (`listener`) and one that waits for the group's context and then drains
(`drainer`). Whoever fails first cancels the context and is what `run` returns (`runErr`). A
server drains until no request is in flight or `shutdownGrace` is over (`GraceEnds`), which
is an error too. `store` is closed when all have returned (`GroupDone`). `Pooled` says which store it
is: the close of Postgres' pool waits until it has back the connections that lookups hold
(`ClosesAtOnce`), the close of SQLite's handle does not. The requests are those for
`/api/rooms` (`at`): a connection (`Accepts`), which may bring its request until the drain is over
(`Arrives`), the middleware's lookup, which may never be answered, `Snapshot` with
its three ways out (the reply, `h.done` before the query is taken, the caller's own context),
and the answer. Making a snapshot is a step of the hub of its own (`answering`), so that the
caller can go away before the reply comes; the reply channel has a capacity of one. The
sampler is one more case of the hub's select. `Server` extends `ColdPath` and takes its
actions as they are: `HubTurn` when the hub is at its select, `RunReturns` for the closing of the store.
The joining clients of `ColdPath` do not take part: no goroutine of the group waits for a read pump, and
the history queries of read pumps run in a context that the shutdown cancels.

### Bus

`mu` is the set of the publishers inside the mutex, of whom there is one at a time: each has its own
`message` and the channels its loop has yet to visit (`todo`), and sends to them one by one. Consumers receive
without the mutex; the goroutine of a cancelled subscription takes it to remove the
channel and closes the channel after the unlock. A `Subscribe` is one map assignment
under the lock and one step. `got`, `missed` and `since` are history.

### Auth

Every request is a goroutine (`at[q]` is its place): the browser sends it with the
cookie it has, the middleware resolves the cookie, the handler makes its store calls one
by one, the answer reaches the browser or not. Requests share the tables `account` and
`session` only. A store call may fail before or after it took effect (`Failures`; a
timed-out write may have been committed), and `Crash` ends all requests between any
two of their steps and keeps the tables, as a restarted process does. A token is the request
that minted it: tokens are 32 random bytes, so that no two are equal is assumed, and so is that
a hash matches its password only. `openedAt` and `revoked` are history.

### WebClient

A page is one event loop, so every callback is one action: a click, the answer to a fetch, a
timer, an event of a socket. `user`, `ws`, `room`, `held` are `state`'s fields,
`timers` and `pollers` what the browser still runs, `probing`, `auths` and `logouts` the
answers that are outstanding. Every call of `connect` makes a new socket; `phase[s]` is its
life, in which `"lost"` is a connection that is gone and still reads as open, and `up[s]`,
`member[s]` are the frames under way from it and the rooms the server has it in. Handlers
of all sockets share `state.ws`, as in the code: the close event of an old one forgets the
new one, and an open event joins over whichever is the page's. `spoiled` is history: a
login that began with something left over (a pending timer, a socket whose close event has
not come, a user already logged in). The code lets that happen, after a quick login behind a
logout for instance, and then has two sockets for a while; `NothingTwice` is about the other
pages, `JoinedWhatIsShown` and `NeverStranded` about all of them.

## The runs

Passing runs:

| Run | Instance | Shows |
|---|---|---|
| `hub` | 2 clients, 2 rooms, buffer 1, 4 frames, connections that fail at any step, cancellation | channels are closed once, exactly for removed clients; members are connected; rooms are reclaimed; the roster is announced; `Hub` implements `RoomService` |
| `hub_crowd` | 3 clients, 1 room, buffer 2, 5 frames, a history frame at every join, healthy connections | several slow members in one delivery; order; no silent loss |
| `hub_live` | 2 clients, 1 room, buffer 1, 2 frames, history, one peer that may leave or vanish, cancellation | pumps end, the hub forgets the client, nobody waits on the hub for ever, shutdown completes |
| `cold_path` | 3 messages, 2 rooms, queue 2, history 2, 2 clock readings, 1 client that joins and leaves without a bound | stored order; the account of losses; history and live stream fit together; the query returns the end of what is stored; `ColdPath` implements `MessageLog` (so that nothing is saved after the close) |
| `server` | 1 HTTP server that may fail, 1 request whose caller may go away, Postgres' pool, queue 1, 2 messages, sampling up to 1 message, no joining client | a clean exit leaves no request behind; snapshots are current; the hub always comes back to its select, whatever the database and the callers do; nobody waits for a snapshot for ever; with a database that answers saves and lookups, a signal or a failed server ends in the return of `run` |
| `bus` | 2 publishers, 2 subscriptions, buffer 2, 4 messages | no send on a closed channel; order; who misses what; a cancelled subscription is closed |
| `auth` | 3 requests, 2 browsers, 1 name, passwords of each kind, sessions of one tick | one owner per name; promised sessions stand; who is let in |
| `web_client` | 2 rooms, 6 sockets, 1 login, 2 logouts, 2 failures, 3 rooms chosen, 1 message | the room of the connection is the room on the page; messages reach it; nobody is stranded; nothing runs twice; the page reconnects |

*Why these bounds.* A buffer of one frame is full after one presence or message, so
the slow path is met within two frames (in `hub_live` a join and one post to it);
two clients are enough for a post that finds a slow member; `hub_crowd` has a third
for two slow members at once and for a bystander who is told of both, and a buffer of two so that
order inside a buffer matters. Two rooms make `disconnect` take two turns, with steps of the pumps
between them. A queue of two and three messages let the queue fill while the persister saves
or one message is in hand, and order inside the queue matters; a history of two of three messages has
something to cut off. Three requests are two that race and a third, from either
browser, that retries, logs out or shows what the others left behind; one name
makes them meet, and a session of one tick in a clock of two readings expires
while they run. In `server` one request meets every moment of a shutdown, and a queue of one is
full while the hub hands the second message over; the pool is the harder store, whose close can wait (with
`Pooled = FALSE` the same properties hold, and the lookups need not be answered). In `web_client` a session that the page
begins with, a login behind a logout and two failures leave two sockets and a timer behind
each other, which is what every property but `NothingTwice` has to withstand; six sockets are all
that these can make (`SocketAssumption`). What `hub` leaves to the other runs (the history frame, leaving peers,
more than two clients) is checked there; the state space of all at once is out of reach.

Runs that TLC must find violated, each a disagreement between a document and the code:

| Run | The document | The code |
|---|---|---|
| `hub_panics` | NFR-R3: a panic handling one connection must not crash the server | a join of a client dropped meanwhile sends on its closed channel, on the hub's goroutine |
| `reader_panics` | `client.go:45`: the hub is the sole sender | `handleJoin` sends too, and may find the channel closed |
| `shutdown_loss` | `persist.go:49`: no accepted message is lost on shutdown | the hub may accept after the persister has drained |
| `history_gap` | FR-7: a joining client receives the last N messages | a message stored after the fetch and delivered before the join is in neither |

Since the hub's panic is real, the other properties of `Hub` are stated for the
life of the process (`Process`): they say that up to the panic nothing else went wrong.

Further disagreements seen while reading, for which no run was spent: `MaxRooms`
(`config.go:40`) is never consulted by `join` (`hub.go:219`); a logout answers 204 although
the deletion failed (`web/auth.go:110-116`; `LogoutFails` has it, and `AdmittedRightly` speaks
of deletions that succeeded); a login answers a failing store like a wrong password
(`auth.go:117-128`, `LoginRefused`); expired sessions are never pruned, although
`0002_auth.sql:21` has an index for it; the hub does not use the bus (`bus.go:1-5`); bcrypt refuses
passwords of more than 72 bytes, so that those up to the cap of 128 (`auth.go:28`) end in a server
error (`HashFails`); and `teardownApp`'s comment in `app.js`, that clearing the user stops the close
handler from reconnecting, and `connect`'s, that it is a no-op once logged out, fail when the
next login is quicker than the close event or the timer (`spoiled` in `WebClient`); `handleJoin`'s comment
(`client.go:114-118`), that history comes before any live message, holds for a client from
outside the room only (`asked` in `HistoryBeforeLive`); and `shutdownGrace`'s (`main.go:33-34`), that shutdown
gives up after it, does not hold with Postgres while a lookup has a connection, for which the deferred
close waits (without the lookups in `StoreFairness`, `ShutdownCompletes` fails in that way).

Every property of a passing run has a *mutant*, an operator beside the definition
it replaces (`QueueFullTooLate` for `QueueFull`, and so on), which is a bug someone could write
there and which breaks the property under the run's own configuration.

`CHECK_DEADLOCK FALSE` is said in `hub_crowd`, where with the frames used up and
healthy connections everybody rightly waits, in `bus`, which may
have nothing left to do, and in `web_client`, where a page may be left alone. In the other modules rightful ends are states of their own (`Terminated`),
and anything else that stops is an error.

## Fairness

`Hub!Fairness`: a Go `select` picks at random among its ready cases, so a client that
keeps waiting in a rendezvous is served in the end (strong fairness per client, and for
`ctx.Done()`); a goroutine that can go on does (weak fairness); the store answers, a write ends
within `writeWait`, a ping to a peer that is gone fails within `writeWait`. No peer has to
send or leave, no process has to be stopped: `ReadFrame`, `PeerCloses`, `PeerVanishes`, `Cancel`
and failures of a healthy connection have no fairness.
`Server!HubFairness` and `EdgeFairness` say the same of the hub, of the goroutines of the error
group and of the requests, and that `shutdownGrace` runs out; they ask nothing of the database, and
`HubReturns` and `SnapshotReturns` hold without it. `StoreFairness`, that each save and
each of the middleware's lookups is answered, is a premise of `ShutdownCompletes` alone: neither query has a timeout
of its own, and `run` waits for the saves and, with Postgres, for the lookups.
`Bus!Fairness`: a publisher that holds the lock goes on, and a mutex is not withheld for ever
from one waiter (Go's mutex has a starvation mode).
`WebClient!FairSpec`: a browser fires its timers and events and the server answers handshakes and
reads; users need do nothing and fetches need not be answered.
`Auth` has no fairness: its properties are safety properties. So are those of `ColdPath`; what is
live about the cold path is checked in `Server`.

## The proofs

`HubProofs` proves for all `Client`, `Room`, `SendBuffer`, `MaxFrames` and every choice of the
other constants, from the named assumptions of `Message` and `Hub` only:

* `TypeCorrect`: `Spec => []TypeOK`. It holds the bound on the send buffers.
* `MembershipCorrect`, `RoomsReclaimed`, `ClosedOnce`, `LifecycleCorrect`: the invariants
  `MembersAreConnected`, `NoEmptyRooms`, `NoDoubleClose` and `Lifecycle`.
* `OnlyJoinsPanic`: the panic of run `hub_panics` has one cause, a join of a client that the hub has
  removed. No broadcast, presence frame, departure or disconnect can make the hub panic.

None of these four invariants is inductive alone. That a channel is not closed twice needs
that `disconnect`'s guard tells the truth, that is, that a client in `h.clients` has an open
channel and that one is not registered a second time; that members are connected needs
that `disconnect` closes the channel only when the client has left every room, and that a join of a
removed client meets a closed channel, so that the process ends there. The inductive
invariant `HubInv` is the conjunction of `TypeOK`, `MembersAreConnected`, `NoEmptyRooms`,
`NoDoubleClose` and `Lifecycle`; each action has its own
step, and the theorems about one operation (`Announce`, `Disconnect`) are lemmas.

`HubOrderProofs` goes on from `HubInv`:

* `DeliveryInOrder` (`InOrder`), from the invariant `OrderInv`: what is on a client's wire rises, what
  is in its buffer rises and comes after it, and none is beyond the last message accepted. A frame
  appended is newer than both, and a write pump only moves the border.
* `NothingIsLost` (`NoSilentLoss`): a step other than a broadcast hands nobody less (`HandedQuietly`), and who
  joins is owed nothing yet; a broadcast hands its message to the members who have room and
  drops the others (`HandedByBroadcast`).
* `HubImplementsService` (`ImplementsService`): the initial state maps to an initial state, a broadcast
  to a `Post` that drops the slow members, the other handlers to their counterparts, and
  everything `disconnect` does afterwards to a stutter. A removed client that joins (the
  case of `hub_panics`) is a stutter as well, since it is not among the `Kept`.
* `RosterIsAnnounced` (`RosterAnnounced`).

`BusProofs` proves for all `Publisher`, `Subscription`, `Buffer` and `MaxMessages`:

* `TypeCorrect`: `Spec => []TypeOK`, with the bound on the channels.
* `LoopCorrect`, `SendsAreSafe`: `LoopSeesOpenChannels` and `NoSendOnClosed`.
* `DeliveryInOrder`, `EverybodyServedOrSkipped`: `InOrder` and `ServedOrSkipped`.

`NoSendOnClosed` rests on `LoopSeesOpenChannels`: the channels that the loop has before it
are in the map, and a channel in the map is open, since removal needs the lock that the
publisher holds and the close comes after the removal. The inductive invariant
`BusInv` adds to these `TypeOK` and `HolderPublishes`: one publisher at a time is inside the mutex, with the
newest message. A second one, on top of it, says of each subscription that what it received and what is in its
channel rise together and that they and what it missed are all that was published since its
`Subscribe`, the message of a loop that is still before it excepted. Without `HolderPublishes` neither holds: two
publishers in their loops at once, as under the read lock of the mutant, put their messages into two channels in
two orders.

`ColdPathProofs` proves `StoredInAcceptOrder` (`StoredInOrder`), `EveryMessageAccountedFor`
(`AccountedFor`), `StoreClosedLast` (no save meets a closed store) and `OnlyTheLateAreLost`: when the
persister returns, all that was accepted is stored or given up, but for the message in the hub's hand,
so that what run `shutdown_loss` loses is what comes after the drain. The
invariant `PathInv` is about the four parts of the pipe one by one (rows, the message in
`save`, the queue, the message in hand): each rises, each is before the next, and with what was
given up they are all the messages, each in one place. That the whole pipe rises
and holds them is then a matter of concatenation. `NothingHeld` adds that a persister
that has returned is not in a save.

`HistoryProofs` proves what a joining client is sent, for every table, limit and tie between time stamps:

* `TypeCorrect`: `Spec => []TypeOK`, the joining clients included.
* `HistoryIsTheTail` (`HistoryIsTail`): `RecentByRoom` returns the end of what is stored of the room.
  The query is written with `CHOOSE` over ranks (the number of rows of the set that come before one), and
  its result is found without induction: the ranks of a finite set are distinct and less than its
  size, so by the library's facts on finite sets they are all the numbers below it (`Ranks`). That the sort by
  time stamp does not show needs `TimesRise`: stamps do not fall along the table.
* `LiveFollowsHistory` (`HistoryBeforeLive`).
* `NothingElseIsMissed`: the counterpart of run `history_gap`. Of the last `HistoryLimit` messages of
  its room a client misses only those that the cold path gave up and those that were not stored when it
  fetched, and these lie between its history and its first live message.
* `PathImplementsLog` (`ImplementsLog`): a broadcast maps to `Accept`, a row to `Keep`, each way of giving
  up to `Lose`, a fetch to `Fetch` or `FetchFails`, and everything else to a stutter.

Its invariant `HistInv` stands on `PathInv` and says of each client that its history is the tail of the rows
it saw (`FrameIsTail`), that only a member has anything live (`LiveInside`), from the first of it on without a
gap, that what came after the frame is newer than the frame (`LiveFollows`), and that nothing came before
it if the client asked from outside (`FrameFirst`). The rows a client
saw are a prefix of the table, and `StoredStays` and `FrameStays` say that later steps leave what is said of them alone.

`ServerProofs` composes and extends `HistoryProofs`. `ProcessImplementsColdPath` is `ProcessSpec => Spec`: every step of the
process is one of `ColdPath` or leaves its variables alone, a failing server being `Cancel`; so
`ProcessKeepsThePath`, that the invariants of `ColdPathProofs` hold of the process, follows without another
one, and `ProcessTypeCorrect` (`ProcessTypeOK`) takes the types of the path from `HistoryProofs`. `ExitsCleanly` (`CleanExit`) and `SnapshotsAreCurrent` (`AnswersAreCurrent`) have
one, `EdgeInv`: a server that has drained without an error has no request in flight and
admits none, and a reply or answer lies between the count at the call and the count now.

`AuthProofs` proves `TypeCorrect`, `NamesHaveOneOwner` (`OneOwner`), `PromisedSessionsStand`
(`SessionsStand`) and `OnlyHoldersAdmitted` (`AdmittedRightly`) for every set of requests, browsers,
names and passwords and every way store calls fail. The invariant `AuthInv` says what each place of a
handler knows: whoever is about to open a session has shown the account's password; of the registrations of a name at
most one is past its `CreateUser`; a session in the table is of the request that minted its
token and of that request's user. `SessionsStand` needs besides that a promised session's row stands
until a logout has taken its token (`RowsStand`); it speaks of sessions that have not expired, as expired ones
may be pruned.

`WebClientProofs` proves all safety properties of `WebClient`, for every number of rooms, sockets,
logins and failures: `TypeCorrect`, `NobodyIsStranded` (`NeverStranded`), `TheRoomIsTheOneShown`
(`JoinedWhatIsShown`), `PostsArriveInTheRoom` (`PostsReachTheRoom`) and `NothingRunsTwice`
(`NothingTwice`). The invariant behind the rooms, `RoomInv`, follows every prefix of the frames under way:
at no point of reading them is the connection in two rooms, at each message it is in the message's
room, and at the end of those of the page's socket it is in the room shown. `UptoAppend` and
`UptoTake`, the lemmas about the last frame for a room, are what sending and reading do to that.

Only model-checked: the liveness properties of `hub_live`, `server`, `bus` and `web_client`, since the prover
does not do fairness and `ENABLED`. Every other property of a passing run is a theorem.

## Not modelled

* Static files and the page's markup, flags and the choice of the database, `Validate` and the other
  checks of the configuration, schema set-up, the contents of the pprof server: start-up
  code, declarations and I/O without interleavings of their own.
* What the page draws: messages, presence and the room list, the frames from the server to the
  page, and the length of the back-off. That a frame of a room the page has left may still be
  drawn is listed as a hazard without a property.
* Cryptography: a token is unguessable and a password hash matches its password.
* The metrics that only the room list shows besides totals and rate (names and sizes of rooms):
  they are read in one step of the hub.

## State of the plan

Done: `Message`, `Hub`, `RoomService`, `ColdPath`, `MessageLog`, `Server`, `Bus`, `Auth`, `WebClient`, and the
proofs of their safety properties named above.

What would come next, in this order: frames from the server to the page, for the hazard of the
room that was left; a hub that publishes on the bus, when the code does.
