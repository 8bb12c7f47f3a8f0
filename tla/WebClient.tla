------------------------------ MODULE WebClient ------------------------------
(***************************************************************************)
(* The page (internal/web/static/app.js): who is logged in, the WebSocket   *)
(* it holds, its reconnection timers and its poller, and what the server    *)
(* makes of the frames it sends.                                            *)
(*                                                                          *)
(* The page is one event loop: each action is a callback (a click, the      *)
(* answer to a fetch, a timer, an event of a socket).  Answers, timers and  *)
(* events of different sockets come in any order.  Sockets are numbered as  *)
(* they are made.  Rendering, the content of the room list and the length   *)
(* of the backoff are left out; whose session the cookie names is in module *)
(* Auth.                                                                    *)
(***************************************************************************)
EXTENDS Naturals, Sequences, FiniteSets

CONSTANTS
    Room, NoRoom,
    MaxSockets,     \* the sockets
    MaxSubmits,     \* bound of the model: submissions of the login form
    MaxLogouts,     \* bound of the model: clicks on logout
    MaxFailures,    \* bound of the model: handshakes refused, connections lost
    MaxMoves,       \* bound of the model: rooms chosen
    MaxPosts        \* bound of the model: messages submitted

ASSUME RoomAssumption == NoRoom \notin Room
ASSUME BoundAssumption ==
    \A n \in {MaxSockets, MaxSubmits, MaxLogouts, MaxFailures, MaxMoves, MaxPosts} :
        n \in Nat
\* Each entry into the application makes a socket, and each that ends another.
ASSUME SocketAssumption == MaxSockets >= 1 + MaxSubmits + MaxLogouts + MaxFailures

NoSocket == 0
Socket   == 1..MaxSockets

VARIABLES
    user,       \* state.user is set
    inApp,      \* the chat is shown, not the login screen
    ws,         \* state.ws
    room,       \* state.room
    canSend,    \* the composer is enabled
    timers,     \* the pending setTimeout(connect, ...)
    pollers,    \* the running intervals of refreshRooms
    held,       \* state.roomsTimer holds one of them
    probing,    \* the answer to checkSession is outstanding
    auths,      \* the answers to submitAuth that are outstanding
    logouts,    \* the answers to logout that are outstanding
    phase,      \* each socket; "lost" is a connection lost before the page knows
    up,         \* the frames under way from each socket to the server
    member,     \* the rooms the server has each socket in
    left,       \* how much of each bound is left
    spoiled     \* history: the application was entered with something left over

pageVars    == <<user, inApp, ws, room, canSend, timers, pollers, held>>
requestVars == <<probing, auths, logouts>>
socketVars  == <<phase, up, member>>
vars == <<pageVars, requestVars, socketVars, left, spoiled>>

Kinds  == {"submit", "logout", "failure", "move", "post"}
Phases == {"none", "connecting", "open", "lost", "closing", "closed"}
Frames == [type : {"join", "leave", "message"}, room : Room]

TypeOK ==
    /\ user \in BOOLEAN /\ inApp \in BOOLEAN /\ canSend \in BOOLEAN
    /\ ws \in Socket \cup {NoSocket}
    /\ room \in Room \cup {NoRoom}
    /\ timers \in Nat /\ pollers \in Nat /\ held \in BOOLEAN
    /\ probing \in BOOLEAN /\ auths \in Nat /\ logouts \in Nat
    /\ phase \in [Socket -> Phases]
    /\ up \in [Socket -> Seq(Frames)]
    /\ member \in [Socket -> SUBSET Room]
    /\ left \in [Kinds -> Nat]
    /\ spoiled \in BOOLEAN

Init ==
    /\ user = FALSE /\ inApp = FALSE
    /\ ws = NoSocket
    /\ room = NoRoom
    /\ canSend = FALSE
    /\ timers = 0 /\ pollers = 0 /\ held = FALSE
    /\ probing = TRUE
    /\ auths = 0 /\ logouts = 0
    /\ phase = [s \in Socket |-> "none"]
    /\ up = [s \in Socket |-> <<>>]
    /\ member = [s \in Socket |-> {}]
    /\ left = [k \in Kinds |->
                 CASE k = "submit"  -> MaxSubmits
                   [] k = "logout"  -> MaxLogouts
                   [] k = "failure" -> MaxFailures
                   [] k = "move"    -> MaxMoves
                   [] k = "post"    -> MaxPosts]
    /\ spoiled = FALSE

Spend(k) == left[k] > 0 /\ left' = [left EXCEPT ![k] = @ - 1]

-----------------------------------------------------------------------------
\* connected, send and connect.

\* A lost connection still reads as OPEN.
Connected == ws # NoSocket /\ phase[ws] \in {"open", "lost"}

\* send(frames): to state.ws, whichever socket the caller belongs to.  What goes
\* into a lost connection is lost.
Send(frames) ==
    up' = IF Connected /\ phase[ws] = "open"
          THEN [up EXCEPT ![ws] = @ \o frames] ELSE up

Join(r)  == [type |-> "join", room |-> r]
Leave(r) == [type |-> "leave", room |-> r]
Post(r)  == [type |-> "message", room |-> r]

InRoom == room # NoRoom

Unused == {s \in Socket : phase[s] = "none"}

Connect ==
    \E s \in Unused :
        /\ \A t \in Unused : s <= t
        /\ phase' = [phase EXCEPT ![s] = "connecting"]
        /\ ws' = s

\* enterApp
EnterApp ==
    /\ user' = TRUE /\ inApp' = TRUE
    /\ Connect
    /\ pollers' = pollers + 1 /\ held' = TRUE
    /\ spoiled' = (\/ spoiled \/ user \/ timers > 0
                   \/ \E s \in Socket : phase[s] \notin {"none", "closed"})
    /\ UNCHANGED <<room, canSend, timers, up, member, left>>

-----------------------------------------------------------------------------
\* Clicks, and the answers to the fetches they start.

Submit ==
    /\ ~inApp
    /\ Spend("submit")
    /\ auths' = auths + 1
    /\ UNCHANGED <<pageVars, probing, logouts, socketVars, spoiled>>

AuthAccepted ==
    /\ auths > 0
    /\ auths' = auths - 1
    /\ EnterApp
    /\ UNCHANGED <<probing, logouts>>

AuthRefused ==
    /\ auths > 0
    /\ auths' = auths - 1
    /\ UNCHANGED <<pageVars, probing, logouts, socketVars, left, spoiled>>

\* checkSession is told of a session.
ProbeAccepted ==
    /\ probing
    /\ probing' = FALSE
    /\ EnterApp
    /\ UNCHANGED <<auths, logouts>>

\* It is told of none: the login screen, also when a login was quicker.
ProbeRefused ==
    /\ probing
    /\ probing' = FALSE
    /\ inApp' = FALSE
    /\ UNCHANGED <<user, ws, room, canSend, timers, pollers, held, auths, logouts,
                   socketVars, left, spoiled>>

Logout ==
    /\ inApp
    /\ Spend("logout")
    /\ logouts' = logouts + 1
    /\ UNCHANGED <<pageVars, probing, auths, socketVars, spoiled>>

\* ws.close() of a socket that may have lost its connection.
Shut(s) == phase' = [phase EXCEPT ![s] = "closing"]

\* teardownApp and showAuth, once the answer is there or the fetch has failed.
LoggedOut ==
    /\ logouts > 0
    /\ logouts' = logouts - 1
    /\ user' = FALSE /\ inApp' = FALSE
    /\ room' = NoRoom
    /\ pollers' = IF held THEN pollers - 1 ELSE pollers
    /\ held' = FALSE
    /\ IF ws = NoSocket THEN UNCHANGED phase ELSE Shut(ws)
    /\ ws' = NoSocket
    /\ UNCHANGED <<canSend, timers, probing, auths, up, member, left, spoiled>>

\* joinRoom, of a room in the list or a new one.
\* Mutants of JoinRoom: leaves also when in no room yet; leaves what is already
\* the new room.
JoinRoomLeavesAlways(r) ==
    /\ inApp
    /\ r # room
    /\ Spend("move")
    /\ room' = r
    /\ Send(<<Leave(room), Join(r)>>)
    /\ canSend' = Connected
    /\ UNCHANGED <<user, inApp, ws, timers, pollers, held, requestVars, phase, member, spoiled>>

JoinRoomFirst(r) ==
    /\ inApp
    /\ r # room
    /\ Spend("move")
    /\ room' = r
    /\ Send((IF InRoom THEN <<Leave(r)>> ELSE <<>>) \o <<Join(r)>>)
    /\ canSend' = Connected
    /\ UNCHANGED <<user, inApp, ws, timers, pollers, held, requestVars, phase, member, spoiled>>

JoinRoom(r) ==
    /\ inApp
    /\ r # room
    /\ Spend("move")
    /\ room' = r
    /\ Send((IF InRoom THEN <<Leave(room)>> ELSE <<>>) \o <<Join(r)>>)
    /\ canSend' = Connected
    /\ UNCHANGED <<user, inApp, ws, timers, pollers, held, requestVars, phase, member, spoiled>>

\* The submit handler of the composer.
SubmitMessage ==
    /\ inApp /\ canSend
    /\ InRoom /\ Connected
    /\ Spend("post")
    /\ Send(<<Post(room)>>)
    /\ UNCHANGED <<pageVars, requestVars, phase, member, spoiled>>

-----------------------------------------------------------------------------
\* Timers and the events of sockets.

\* connect, a no-op when logged out.
TimerFires ==
    /\ timers > 0
    /\ timers' = timers - 1
    /\ IF user THEN Connect ELSE UNCHANGED <<phase, ws>>
    /\ UNCHANGED <<user, inApp, room, canSend, pollers, held, requestVars, up, member,
                   left, spoiled>>

\* The open event of s, whose handler sends over state.ws.
\* Mutant of OpenEvent: does not join again.
OpenEventSilent(s) ==
    /\ phase[s] = "connecting"
    /\ phase' = [phase EXCEPT ![s] = "open"]
    /\ canSend' = InRoom
    /\ UNCHANGED <<user, inApp, ws, room, timers, pollers, held, requestVars, up, member,
                   left, spoiled>>

OpenEvent(s) ==
    /\ phase[s] = "connecting"
    /\ phase' = [phase EXCEPT ![s] = "open"]
    /\ canSend' = InRoom
    /\ up' = IF InRoom /\ ws # NoSocket /\ phase'[ws] = "open"
             THEN [up EXCEPT ![ws] = Append(@, Join(room))] ELSE up
    /\ UNCHANGED <<user, inApp, ws, room, timers, pollers, held, requestVars, member,
                   left, spoiled>>

Ends(s) ==
    /\ up' = [up EXCEPT ![s] = <<>>]
    /\ member' = [member EXCEPT ![s] = {}]

\* The network or the server ends a connection; the page learns it later.
Lose(s) ==
    /\ phase[s] = "open"
    /\ Spend("failure")
    /\ phase' = [phase EXCEPT ![s] = "lost"]
    /\ Ends(s)
    /\ UNCHANGED <<pageVars, requestVars, spoiled>>

\* The handler of the close event of s, whichever socket state.ws is by now.
\* Mutants of CloseHandler: no new attempt after a close; one from the handler
\* of the error event as well.
CloseHandlerOnly(s) ==
    /\ phase' = [phase EXCEPT ![s] = "closed"]
    /\ Ends(s)
    /\ ws' = NoSocket
    /\ canSend' = FALSE
    /\ UNCHANGED <<user, inApp, room, timers, pollers, held, requestVars, spoiled>>

CloseHandlerTwice(s) ==
    /\ phase' = [phase EXCEPT ![s] = "closed"]
    /\ Ends(s)
    /\ ws' = NoSocket
    /\ canSend' = FALSE
    /\ timers' = IF user THEN timers + 2 ELSE timers
    /\ UNCHANGED <<user, inApp, room, pollers, held, requestVars, spoiled>>

CloseHandler(s) ==
    /\ phase' = [phase EXCEPT ![s] = "closed"]
    /\ Ends(s)
    /\ ws' = NoSocket
    /\ canSend' = FALSE
    /\ timers' = IF user THEN timers + 1 ELSE timers
    /\ UNCHANGED <<user, inApp, room, pollers, held, requestVars, spoiled>>

CloseEvent(s) ==
    /\ phase[s] \in {"lost", "closing"}
    /\ CloseHandler(s)
    /\ UNCHANGED left

\* The handshake fails: no server, or no session any more.
Refused(s) ==
    /\ phase[s] = "connecting"
    /\ Spend("failure")
    /\ CloseHandler(s)

-----------------------------------------------------------------------------
\* The server reads a frame; those sent before a close come before it.
After(rooms, f) ==
    CASE f.type = "join"    -> rooms \cup {f.room}
      [] f.type = "leave"   -> rooms \ {f.room}
      [] f.type = "message" -> rooms

ServerReads(s) ==
    /\ up[s] # <<>>
    /\ member' = [member EXCEPT ![s] = After(@, Head(up[s]))]
    /\ up' = [up EXCEPT ![s] = Tail(@)]
    /\ UNCHANGED <<pageVars, requestVars, phase, left, spoiled>>

-----------------------------------------------------------------------------
Next ==
    \/ Submit \/ AuthAccepted \/ AuthRefused \/ ProbeAccepted \/ ProbeRefused
    \/ Logout \/ LoggedOut \/ SubmitMessage \/ TimerFires
    \/ \E r \in Room : JoinRoom(r)
    \/ \E s \in Socket : OpenEvent(s) \/ Refused(s) \/ Lose(s) \/ CloseEvent(s) \/ ServerReads(s)

Spec == Init /\ [][Next]_vars

(***************************************************************************)
(* Fairness: a browser fires timers and events, a server answers handshakes *)
(* and reads.  Users need do nothing, fetches need not be answered.         *)
(***************************************************************************)
FairSpec ==
    /\ Spec
    /\ WF_vars(TimerFires)
    /\ \A s \in Socket :
         WF_vars(OpenEvent(s)) /\ WF_vars(CloseEvent(s)) /\ WF_vars(ServerReads(s))

-----------------------------------------------------------------------------
(***************************************************************************)
(* Properties.                                                              *)
(***************************************************************************)

\* The rooms the server will have a connection in once it has read the frames
\* under way: for each room the last frame about it decides.
AfterAll(rooms, frames) ==
    {r \in Room :
       LET about == {i \in DOMAIN frames : frames[i].room = r /\ frames[i].type # "message"}
       IN  IF about = {} THEN r \in rooms
           ELSE \E i \in about : frames[i].type = "join" /\ \A j \in about : j <= i}

Shown == IF InRoom THEN {room} ELSE {}

\* FR-3, FR-4, NFR-U2: while the page holds an open connection, the server has
\* it in the room the page shows and in no other, as soon as it has read what is
\* under way, and the composer is enabled if there is one: through logouts,
\* reconnections and stale events of other sockets.  No connection is ever in two
\* rooms, not even one that the page has forgotten.
JoinedWhatIsShown ==
    /\ ws # NoSocket /\ phase[ws] = "open" =>
         /\ AfterAll(member[ws], up[ws]) = Shown
         /\ InRoom => canSend
    /\ \A s \in Socket : Cardinality(member[s]) <= 1

\* What a user posts reaches the server when the connection is in its room.
PostsReachTheRoom ==
    [][\A s \in Socket :
         ServerReads(s) /\ Head(up[s]).type = "message" => Head(up[s]).room \in member[s]]_vars

\* A page with a user has a connection or is about to make one.
NeverStranded ==
    user => timers > 0 \/ (ws # NoSocket /\ phase[ws] \in {"connecting", "open", "lost"})

\* A page whose logins all began with nothing left over, no timer, no socket
\* that has not reported its end and nobody logged in, has one connection or one
\* timer, one poller, and neither poller nor connection once it is logged out.
Alive == {s \in Socket : phase[s] \in {"connecting", "open", "lost", "closing"}}

NothingTwice ==
    ~spoiled =>
        /\ Cardinality(Alive) + timers <= 1
        /\ pollers = IF user THEN 1 ELSE 0
        /\ \A s \in Alive : s = ws \/ phase[s] = "closing"

\* NFR-U2: when the failures end and the user stays, the page is connected again,
\* in its room and with the composer enabled, and stays so.
Synced ==
    /\ ws # NoSocket /\ phase[ws] = "open"
    /\ member[ws] = Shown
    /\ InRoom => canSend

Reconnects == <>[]user => <>[]Synced
=============================================================================
