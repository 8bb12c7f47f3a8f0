--------------------------------- MODULE Hub ---------------------------------
(***************************************************************************)
(* The hub actor and the clients it serves: internal/hub/hub.go, room.go    *)
(* and client.go, with the life of a connection in handleWS                 *)
(* (internal/web/server.go).                                                *)
(*                                                                          *)
(* Three kinds of goroutine run here: the hub (Run), and for each client a  *)
(* read pump and a write pump.  They share nothing but channels: register,  *)
(* unregister and inbound are unbuffered, so a send is one step with the    *)
(* hub's receive; send is a bounded queue per client.  The cold path of     *)
(* broadcast, which hands the message to the persister without waiting and  *)
(* touches nothing of this module, is in module ColdPath.                   *)
(*                                                                          *)
(* A pass of the hub over the members of ONE room touches each send channel *)
(* once and everything else it touches is its own, so it is one step.       *)
(* Between two passes (the message, then for each slow member and each of   *)
(* its rooms a presence, then the close of the channel) the pumps run:      *)
(* these are steps of their own, and the hub takes nothing from its         *)
(* channels before it has finished them (Idle).                             *)
(***************************************************************************)
EXTENDS Message

CONSTANTS
    SendBuffer,     \* config.SendBuffer, the capacity of a send channel
    MaxFrames,      \* bound of the model: frames ever read from all clients
    Answers,        \* bound of the model: how the store may answer a join
    Failing,        \* bound of the model: whose connection may fail while open
    Leaving,        \* bound of the model: whose peer may close or vanish
    Cancels         \* bound of the model: whether the process may be stopped

ASSUME SendBufferAssumption == SendBuffer \in Nat \ {0}
ASSUME MaxFramesAssumption  == MaxFrames \in Nat
ASSUME AnswersAssumption    == Answers \subseteq {"none", "history", "error"}
ASSUME FaultAssumption      == Failing \subseteq Client /\ Leaving \subseteq Client
ASSUME CancelsAssumption    == Cancels \in BOOLEAN

VARIABLES
    hub,        \* "running", "stopped" (Run returned), or how it panicked
    clients,    \* h.clients
    rooms,      \* the keys of h.rooms
    members,    \* h.rooms[r].members, empty for a room that is no key
    slow,       \* deliverMessage: the slow members not yet disconnected
    gone,       \* disconnect: the client being removed, or NoClient
    send,       \* the frames in each send channel
    closed,     \* whether each send channel is closed
    reader,     \* where each read pump is
    cmd,        \* the command each read pump is working on, or NoCommand
    answer,     \* what the store answered to it: the frame type to enqueue
    writer,     \* where each write pump is
    conn,       \* each socket: "open", "dead" (no peer), "closed"
    ctxDone,    \* the root context is cancelled
    reads,      \* the frames read so far, for the bound MaxFrames
    accepted,   \* history: the messages accepted so far, in order
    joinedAt,   \* history: Len(accepted) when each member joined
    wire        \* history: the message numbers each write pump took

hubVars    == <<hub, clients, rooms, members, slow, gone>>
chanVars   == <<send, closed>>
pumpVars   == <<reader, cmd, answer, writer, conn>>
ghostVars  == <<accepted, joinedAt, wire>>
vars == <<hubVars, chanVars, pumpVars, ctxDone, reads, ghostVars>>

Process == hub \in {"running", "stopped"}       \* a panic ends the process
Idle    == slow = {} /\ gone = NoClient
Ready   == hub = "running" /\ Idle              \* the hub is at its select

TypeOK ==
    /\ hub \in {"running", "stopped", "sendPanic", "closePanic"}
    /\ clients \subseteq Client
    /\ rooms \subseteq Room
    /\ members \in [Room -> SUBSET Client]
    /\ slow \subseteq Client
    /\ gone \in Client \cup {NoClient}
    /\ send \in [Client -> Seq(Frame)]
    /\ \A c \in Client : Len(send[c]) <= SendBuffer
    /\ closed \in [Client -> BOOLEAN]
    /\ reader \in [Client -> {"register", "read", "load", "loaded",
                              "submit", "unregister", "panic", "done"}]
    /\ cmd \in [Client -> Command \cup {NoCommand}]
    /\ answer \in [Client -> {"none", "history", "error"}]
    /\ \A c \in Client :
         /\ reader[c] \in {"load", "loaded"} => cmd[c].kind = "join"
         /\ reader[c] = "loaded" => answer[c] # "none"
    /\ writer \in [Client -> {"off", "run", "done"}]
    /\ conn \in [Client -> {"open", "dead", "closed"}]
    /\ ctxDone \in BOOLEAN
    /\ reads \in 0..MaxFrames
    /\ accepted \in Seq([room : Room, sender : Client])
    /\ joinedAt \in [Client -> [Room -> Nat]]
    /\ wire \in [Client -> Seq(Nat)]

Init ==
    /\ hub = "running"
    /\ clients = {}
    /\ rooms = {}
    /\ members = [r \in Room |-> {}]
    /\ slow = {}
    /\ gone = NoClient
    /\ send = [c \in Client |-> <<>>]
    /\ closed = [c \in Client |-> FALSE]
    /\ reader = [c \in Client |-> "register"]
    /\ cmd = [c \in Client |-> NoCommand]
    /\ answer = [c \in Client |-> "none"]
    /\ writer = [c \in Client |-> "off"]
    /\ conn = [c \in Client |-> "open"]
    /\ ctxDone = FALSE
    /\ reads = 0
    /\ accepted = <<>>
    /\ joinedAt = [c \in Client |-> [r \in Room |-> 0]]
    /\ wire = [c \in Client |-> <<>>]
-----------------------------------------------------------------------------
\* enqueue: a non-blocking send, FALSE (and no effect) on a full buffer.
\* Mutant of Full: one frame too many.
FullTooLate(c) == Len(send[c]) > SendBuffer

Full(c) == Len(send[c]) = SendBuffer

Enqueue(M, f) ==
    [c \in Client |-> IF c \in M /\ ~closed[c] /\ ~Full(c)
                      THEN Append(send[c], f) ELSE send[c]]

\* A send on a closed channel panics, full or not; on the hub's goroutine
\* nothing recovers, and the process ends.
\* Mutant of HubAfterSendTo: the hub recovers from the panic and goes on.
HubRecovers(M) == hub

HubAfterSendTo(M) == IF \E c \in M : closed[c] THEN "sendPanic" ELSE hub

InRoom(c) == {r \in Room : c \in members[r]}

\* h.rooms once room r has the members M: an empty room is deleted.
\* Mutant of Reclaimed: the empty room stays.
Unreclaimed(r, M) == rooms \cup {r}

Reclaimed(r, M) == IF M = {} THEN rooms \ {r} ELSE rooms \cup {r}

\* The members of r become M, and M is told (broadcastPresence).  The frame is
\* best effort: a full buffer misses it.
\* Mutant of Announce: the list is taken before the change.
AnnounceOld(r, M) ==
    /\ members' = [members EXCEPT ![r] = M]
    /\ send' = Enqueue(M, PresenceFrame(r, members[r]))
    /\ hub' = HubAfterSendTo(M)

Announce(r, M) ==
    /\ members' = [members EXCEPT ![r] = M]
    /\ send' = Enqueue(M, PresenceFrame(r, M))
    /\ hub' = HubAfterSendTo(M)

\* disconnect, up to its loop over the rooms.
\* Mutant of Disconnect: without the membership guard.
DisconnectAgain(c) == clients' = clients \ {c} /\ gone' = c

Disconnect(c) ==
    IF c \in clients
    THEN clients' = clients \ {c} /\ gone' = c
    ELSE UNCHANGED <<clients, gone>>

\* The read pump of c has handed its command to the hub and reads on.
BackToRead(c) ==
    /\ reader' = [reader EXCEPT ![c] = "read"]
    /\ cmd' = [cmd EXCEPT ![c] = NoCommand]

\* Run receives a command of kind k from the read pump of c.
Receives(c, k) ==
    /\ Ready
    /\ reader[c] = "submit"
    /\ cmd[c].kind = k
    /\ BackToRead(c)

-----------------------------------------------------------------------------
\* The hub goroutine: Run and the handlers it calls.

\* case c := <-h.register.  handleWS then starts the two pumps.
HubRegister(c) ==
    /\ Ready
    /\ reader[c] = "register"
    /\ clients' = clients \cup {c}
    /\ reader' = [reader EXCEPT ![c] = "read"]
    /\ writer' = [writer EXCEPT ![c] = "run"]
    /\ UNCHANGED <<hub, rooms, members, slow, gone, chanVars,
                   cmd, answer, conn, ctxDone, reads, ghostVars>>

\* case c := <-h.unregister, also sent by the deferred call of a read pump
\* that panicked.
HubUnregister(c) ==
    /\ Ready
    /\ reader[c] \in {"unregister", "panic"}
    /\ Disconnect(c)
    /\ reader' = [reader EXCEPT ![c] = "done"]
    /\ UNCHANGED <<hub, rooms, members, slow, chanVars,
                   cmd, answer, writer, conn, ctxDone, reads, ghostVars>>

\* join: nothing asks whether c is still one of the clients.
HubJoin(c) ==
    /\ Receives(c, "join")
    /\ LET r == cmd[c].room IN
         /\ rooms' = rooms \cup {r}
         /\ Announce(r, members[r] \cup {c})
         /\ joinedAt' = IF c \in members[r] THEN joinedAt
                        ELSE [joinedAt EXCEPT ![c][r] = Len(accepted)]
    /\ UNCHANGED <<clients, slow, gone, closed, answer, writer, conn,
                   ctxDone, reads, accepted, wire>>

\* leave, of a room that exists; c need not be in it.
HubLeave(c) ==
    /\ Receives(c, "leave")
    /\ cmd[c].room \in rooms
    /\ LET r == cmd[c].room IN
         /\ Announce(r, members[r] \ {c})
         /\ rooms' = Reclaimed(r, members[r] \ {c})
    /\ UNCHANGED <<clients, slow, gone, closed, answer, writer, conn,
                   ctxDone, reads, ghostVars>>

\* leave and broadcast return at once when the room does not exist.
HubIgnores(c) ==
    /\ \E k \in {"leave", "message"} : Receives(c, k)
    /\ cmd[c].room \notin rooms
    /\ UNCHANGED <<hubVars, chanVars, answer, writer, conn, ctxDone, reads,
                   ghostVars>>

\* broadcast up to the end of deliverMessage's first loop: number the message
\* and offer it to every member but the sender, who need not be a member.
\* Mutant of HubBroadcast: the sender is not excepted.
HubBroadcastEchoes(c) ==
    /\ Receives(c, "message")
    /\ cmd[c].room \in rooms
    /\ LET r == cmd[c].room IN
         /\ accepted' = Append(accepted, [room |-> r, sender |-> c])
         /\ send' = Enqueue(members[r], MessageFrame(r, Len(accepted) + 1))
         /\ slow' = {d \in members[r] : Full(d)}
    /\ UNCHANGED <<hub, clients, rooms, members, gone, closed, answer, writer, conn,
                   ctxDone, reads, joinedAt, wire>>

HubBroadcast(c) ==
    /\ Receives(c, "message")
    /\ cmd[c].room \in rooms
    /\ LET r  == cmd[c].room
           to == members[r] \ {c}
       IN  /\ accepted' = Append(accepted, [room |-> r, sender |-> c])
           /\ send' = Enqueue(to, MessageFrame(r, Len(accepted) + 1))
           /\ slow' = {d \in to : Full(d)}
           /\ hub' = HubAfterSendTo(to)
    /\ UNCHANGED <<clients, rooms, members, gone, closed, answer, writer, conn,
                   ctxDone, reads, joinedAt, wire>>

\* deliverMessage's second loop: disconnect the next slow member.
\* Mutant of HubDropsSlow: only the first of the slow members is dropped.
HubDropsOne ==
    /\ hub = "running" /\ gone = NoClient
    /\ \E c \in slow : slow' = {} /\ Disconnect(c)
    /\ UNCHANGED <<hub, rooms, members, chanVars, pumpVars, ctxDone,
                   reads, ghostVars>>

HubDropsSlow ==
    /\ hub = "running" /\ gone = NoClient
    /\ \E c \in slow : slow' = slow \ {c} /\ Disconnect(c)
    /\ UNCHANGED <<hub, rooms, members, chanVars, pumpVars, ctxDone,
                   reads, ghostVars>>

\* disconnect, one turn of its loop: out of one more room, in any order.
HubLeavesRoom ==
    /\ hub = "running"
    /\ \E r \in InRoom(gone) :
         /\ Announce(r, members[r] \ {gone})
         /\ rooms' = Reclaimed(r, members[r] \ {gone})
    /\ UNCHANGED <<clients, slow, gone, closed, pumpVars, ctxDone,
                   reads, ghostVars>>

\* disconnect, its last statement; a second close would panic.
\* Mutant of HubCloses: the channel stays open.
HubForgetsClose ==
    /\ hub = "running" /\ gone # NoClient
    /\ InRoom(gone) = {}
    /\ gone' = NoClient
    /\ UNCHANGED <<hub, clients, rooms, members, slow, chanVars, pumpVars,
                   ctxDone, reads, ghostVars>>

HubCloses ==
    /\ hub = "running" /\ gone # NoClient
    /\ InRoom(gone) = {}
    /\ hub' = IF closed[gone] THEN "closePanic" ELSE hub
    /\ closed' = [closed EXCEPT ![gone] = TRUE]
    /\ gone' = NoClient
    /\ UNCHANGED <<clients, rooms, members, slow, send, pumpVars,
                   ctxDone, reads, ghostVars>>

\* case <-ctx.Done(): Run returns, which closes h.done.
HubStops ==
    /\ Ready
    /\ ctxDone
    /\ hub' = "stopped"
    /\ UNCHANGED <<clients, rooms, members, slow, gone, chanVars,
                   pumpVars, ctxDone, reads, ghostVars>>

-----------------------------------------------------------------------------
\* The read pump: handleWS in Register, then readPump and handleJoin.

\* Register returns through h.done; handleWS runs the pumps all the same.
RegisterAborted(c) ==
    /\ hub = "stopped"
    /\ reader[c] = "register"
    /\ reader' = [reader EXCEPT ![c] = "read"]
    /\ writer' = [writer EXCEPT ![c] = "run"]
    /\ UNCHANGED <<hubVars, chanVars, cmd, answer, conn, ctxDone, reads,
                   ghostVars>>

\* conn.Read returns a frame.  Frames of another type, and frames without a
\* room or a text, change nothing and are left out.
ReadFrame(c) ==
    /\ reader[c] = "read"
    /\ conn[c] = "open"
    /\ reads < MaxFrames
    /\ reads' = reads + 1
    /\ \E k \in Command :
         /\ cmd' = [cmd EXCEPT ![c] = k]
         /\ reader' = [reader EXCEPT ![c] = IF k.kind = "join" THEN "load" ELSE "submit"]
    /\ UNCHANGED <<hubVars, chanVars, answer, writer, conn, ctxDone,
                   ghostVars>>

\* conn.Read fails: the connection is closed, the context done, the frame
\* malformed or too long.  The deferred Unregister is next.
ReadFails(c) ==
    /\ reader[c] = "read"
    /\ conn[c] = "closed" \/ ctxDone \/ c \in Failing
    /\ reader' = [reader EXCEPT ![c] = "unregister"]
    /\ UNCHANGED <<hubVars, chanVars, cmd, answer, writer, conn, ctxDone,
                   reads, ghostVars>>

\* handleJoin: the store has answered, with nothing, some messages or an error.
LoadHistory(c) ==
    /\ reader[c] = "load"
    /\ \E a \in Answers :
         /\ answer' = [answer EXCEPT ![c] = a]
         /\ reader' = [reader EXCEPT ![c] = IF a = "none" THEN "submit" ELSE "loaded"]
    /\ UNCHANGED <<hubVars, chanVars, cmd, writer, conn, ctxDone, reads,
                   ghostVars>>

\* handleJoin enqueues the answer itself, from this goroutine; a full buffer
\* drops it, a closed channel panics and runs the deferred Unregister.
SendHistory(c) ==
    /\ reader[c] = "loaded"
    /\ reader' = [reader EXCEPT ![c] = IF closed[c] THEN "panic" ELSE "submit"]
    /\ send' = Enqueue({c}, ReplyFrame(answer[c], cmd[c].room))
    /\ answer' = [answer EXCEPT ![c] = "none"]
    /\ UNCHANGED <<hubVars, closed, cmd, writer, conn, ctxDone, reads,
                   ghostVars>>

\* Submit and Unregister return through h.done.
\* Mutants of SubmitAborted and UnregisterAborted: no case for h.done.
SubmitBlocks(c) == FALSE
UnregisterBlocks(c) == FALSE

SubmitAborted(c) ==
    /\ hub = "stopped"
    /\ reader[c] = "submit"
    /\ BackToRead(c)
    /\ UNCHANGED <<hubVars, chanVars, answer, writer, conn, ctxDone, reads,
                   ghostVars>>

UnregisterAborted(c) ==
    /\ hub = "stopped"
    /\ reader[c] \in {"unregister", "panic"}
    /\ reader' = [reader EXCEPT ![c] = "done"]
    /\ UNCHANGED <<hubVars, chanVars, cmd, answer, writer, conn, ctxDone,
                   reads, ghostVars>>

-----------------------------------------------------------------------------
\* The write pump.  Every exit runs its deferred conn.Close.

\* case env := <-c.send: the frame leaves the queue and is written, or not.
\* Mutant of Takes: the newest frame first.
TakesNewest(c) ==
    /\ writer[c] = "run"
    /\ send[c] # <<>>
    /\ send' = [send EXCEPT ![c] = SubSeq(@, 1, Len(@) - 1)]
    /\ LET f == send[c][Len(send[c])] IN
         wire' = IF f.type = "message" THEN [wire EXCEPT ![c] = Append(@, f.id)] ELSE wire
    /\ UNCHANGED <<hubVars, closed, reader, cmd, answer, ctxDone, reads,
                   accepted, joinedAt>>

Takes(c) ==
    /\ writer[c] = "run"
    /\ send[c] # <<>>
    /\ send' = [send EXCEPT ![c] = Tail(@)]
    /\ wire' = IF Head(send[c]).type = "message"
               THEN [wire EXCEPT ![c] = Append(@, Head(send[c]).id)] ELSE wire
    /\ UNCHANGED <<hubVars, closed, reader, cmd, answer, ctxDone, reads,
                   accepted, joinedAt>>

\* The socket buffer accepts writes for a peer that is no longer there.
WriteFrame(c) ==
    /\ conn[c] # "closed"
    /\ Takes(c)
    /\ UNCHANGED <<writer, conn>>

\* Mutant of WriterExits: without the deferred Close.
WriterLeaves(c) ==
    /\ writer[c] = "run"
    /\ writer' = [writer EXCEPT ![c] = "done"]
    /\ UNCHANGED conn

WriterExits(c) ==
    /\ writer[c] = "run"
    /\ writer' = [writer EXCEPT ![c] = "done"]
    /\ conn' = [conn EXCEPT ![c] = "closed"]

\* The write fails, or misses the deadline writeWait.
WriteFails(c) ==
    /\ conn[c] # "open" \/ ctxDone \/ c \in Failing
    /\ Takes(c)
    /\ WriterExits(c)

\* The heartbeat gets no pong within writeWait.  A pong is read by the read pump,
\* so that a healthy peer's is not seen while that one waits for the database.
PingFails(c) ==
    /\ conn[c] # "open" \/ ctxDone \/ c \in Failing \/ reader[c] = "load"
    /\ WriterExits(c)
    /\ UNCHANGED <<hubVars, chanVars, reader, cmd, answer, ctxDone, reads,
                   ghostVars>>

\* The context is done (the root, or the client's own, which handleWS cancels
\* when Run returns), or the channel is closed and drained.
\* Mutant of WriterStops: the closed channel does not end the pump.
WriterSpins(c) ==
    /\ ctxDone \/ reader[c] = "done"
    /\ WriterExits(c)
    /\ UNCHANGED <<hubVars, chanVars, reader, cmd, answer, ctxDone, reads,
                   ghostVars>>

WriterStops(c) ==
    /\ ctxDone \/ reader[c] = "done" \/ (closed[c] /\ send[c] = <<>>)
    /\ WriterExits(c)
    /\ UNCHANGED <<hubVars, chanVars, reader, cmd, answer, ctxDone, reads,
                   ghostVars>>

-----------------------------------------------------------------------------
\* The environment.

PeerCloses(c) ==
    /\ c \in Leaving
    /\ writer[c] = "run" /\ conn[c] # "closed"
    /\ conn' = [conn EXCEPT ![c] = "closed"]
    /\ UNCHANGED <<hubVars, chanVars, reader, cmd, answer, writer, ctxDone,
                   reads, ghostVars>>

\* The peer is gone without a word: reads block, writes may still succeed.
PeerVanishes(c) ==
    /\ c \in Leaving
    /\ writer[c] = "run" /\ conn[c] = "open"
    /\ conn' = [conn EXCEPT ![c] = "dead"]
    /\ UNCHANGED <<hubVars, chanVars, reader, cmd, answer, writer, ctxDone,
                   reads, ghostVars>>

\* SIGINT or SIGTERM, or a member of main's group failed.
Cancel ==
    /\ Cancels
    /\ ~ctxDone
    /\ ctxDone' = TRUE
    /\ UNCHANGED <<hubVars, chanVars, pumpVars, reads, ghostVars>>

\* Every connection is over, or a panic has ended the process.
Terminated ==
    /\ \/ ~Process
       \/ \A c \in Client : reader[c] = "done" /\ writer[c] = "done"
    /\ UNCHANGED vars

HubServes(c) ==
    \/ HubRegister(c) \/ HubUnregister(c)
    \/ HubJoin(c) \/ HubLeave(c) \/ HubIgnores(c) \/ HubBroadcast(c)

HubContinues == HubDropsSlow \/ HubLeavesRoom \/ HubCloses

Reader(c) ==
    \/ RegisterAborted(c)
    \/ ReadFrame(c) \/ ReadFails(c)
    \/ LoadHistory(c) \/ SendHistory(c)
    \/ SubmitAborted(c) \/ UnregisterAborted(c)

Writer(c) == WriteFrame(c) \/ WriteFails(c) \/ PingFails(c) \/ WriterStops(c)

Peer(c) == PeerCloses(c) \/ PeerVanishes(c)

Next ==
    \/ /\ Process
       /\ \/ \E c \in Client : HubServes(c) \/ Reader(c) \/ Writer(c) \/ Peer(c)
          \/ HubContinues \/ HubStops
          \/ Cancel
    \/ Terminated

Spec == Init /\ [][Next]_vars

(***************************************************************************)
(* Fairness.  A select with several ready cases picks one at random, so the *)
(* hub does not pass over the same waiting client for ever: strong fairness *)
(* for each client and for ctx.Done().  A goroutine that can go on does: weak *)
(* fairness.  The store answers, a write ends within writeWait, and the     *)
(* ticker has a ping fail once the peer is gone.  Nothing obliges a peer to *)
(* send or to leave, or the process to stop.                                *)
(***************************************************************************)
GivenUp(c) ==
    RegisterAborted(c) \/ SubmitAborted(c) \/ UnregisterAborted(c)

Fairness ==
    /\ SF_vars(HubStops)
    /\ WF_vars(HubContinues)
    /\ \A c \in Client :
         /\ SF_vars(HubServes(c))
         /\ WF_vars(Process /\ GivenUp(c))
         /\ WF_vars(Process /\ (conn[c] = "closed" \/ ctxDone) /\ ReadFails(c))
         /\ WF_vars(Process /\ (LoadHistory(c) \/ SendHistory(c)))
         /\ WF_vars(Process /\ (WriteFrame(c) \/ WriteFails(c)))
         /\ WF_vars(Process /\ WriterStops(c))
         /\ WF_vars(Process /\ conn[c] # "open" /\ PingFails(c))

FairSpec == Spec /\ Fairness

-----------------------------------------------------------------------------
(***************************************************************************)
(* Safety.                                                                  *)
(***************************************************************************)

\* Whoever is in a room is a connected client, or the one disconnect is
\* removing: what broadcast and disconnect rely on when they do not look a
\* member up in h.clients.
MembersAreConnected ==
    Process => \A r \in Room : members[r] \subseteq clients \cup {gone}

\* The hub holds exactly the rooms somebody is in (FR-3, FR-4): join creates
\* them, leave and disconnect reclaim them.
NoEmptyRooms == rooms = {r \in Room : members[r] # {}}

\* The slow-client path and the read pump's unregister never close a send
\* channel twice (the comment of disconnect), and only disconnect closes it.
NoDoubleClose ==
    /\ hub # "closePanic"
    /\ \A c \in clients : ~closed[c]

\* The life of a client as its send channel tells it, for the proofs: the hub
\* has closed the channel of everyone it has removed, and of nobody else.
Lifecycle ==
    /\ slow \subseteq clients
    /\ gone # NoClient => gone \notin clients /\ ~closed[gone]
    /\ \A c \in Client :
         /\ reader[c] = "register" => c \notin clients \cup {gone} /\ ~closed[c]
         /\ closed[c] => c \notin clients
         /\ hub = "running" => \/ reader[c] = "register" \/ closed[c]
                               \/ c \in clients \cup {gone}

\* Every client is sent messages in the order in which the hub accepted them,
\* across all its rooms and without a duplicate (NFR-R5, FR-6).
InOrder ==
    \A c \in Client :
        /\ \A i, j \in DOMAIN wire[c] : i < j => wire[c][i] < wire[c][j]
        /\ \A j \in DOMAIN send[c] : send[c][j].type = "message" =>
             /\ send[c][j].id <= Len(accepted)
             /\ \A i \in DOMAIN wire[c] : wire[c][i] < send[c][j].id
             /\ \A i \in 1..(j - 1) :
                  send[c][i].type = "message" => send[c][i].id < send[c][j].id

\* The clients the hub has not decided to drop.
Kept == clients \ slow

\* Message n has been put into the send buffer of c.
HandedTo(c, n) ==
    \/ \E i \in DOMAIN wire[c] : wire[c][i] = n
    \/ \E j \in DOMAIN send[c] : send[c][j].type = "message" /\ send[c][j].id = n

\* A member that the hub keeps misses nothing: every message the others sent
\* to the room since it joined was put into its buffer.  A client that cannot
\* take one is dropped, never skipped (NFR-R2, FR-6).
NoSilentLoss ==
    Process =>
    \A c \in Kept : \A r \in InRoom(c) :
      \A n \in (joinedAt[c][r] + 1)..Len(accepted) :
        accepted[n].room = r /\ accepted[n].sender # c => HandedTo(c, n)

\* The roster: whenever the members of a room change, each one that remains is
\* told the new member list by the last presence frame in its buffer, unless
\* the buffer was full (FR-9).
Told(c, r) ==
    \E j \in DOMAIN send[c] :
        /\ send[c][j] = PresenceFrame(r, members[r])
        /\ \A i \in DOMAIN send[c] : i > j => send[c][i].type # "presence"
RosterAnnounced ==
    [][\A r \in Room : members'[r] # members[r] =>
         \A c \in members'[r] : Told(c, r)' \/ Full(c) \/ ~Process']_vars

(***************************************************************************)
(* Refinement.  A client is live until the hub decides to drop it, that is, *)
(* before disconnect has worked through its rooms; a message is handed over *)
(* when it enters the send buffer.                                          *)
(***************************************************************************)
Service == INSTANCE RoomService WITH
    fresh <- {c \in Client : reader[c] = "register"},
    live  <- Kept,
    in    <- [r \in Room |-> members[r] \cap Kept],
    log   <- accepted,
    got   <- [c \in Client |-> {n \in 1..Len(accepted) : HandedTo(c, n)}]

\* The hub implements RoomService: see there for what it promises.
ImplementsService == Service!Spec

(***************************************************************************)
(* Liveness, under FairSpec.  A panic of the hub ends the process and with  *)
(* it every obligation.                                                     *)
(***************************************************************************)
Over(c) == reader[c] = "done" /\ writer[c] = "done"

\* NFR-R1, FR-13: once the peer has closed the connection or vanished, both
\* pumps end and the hub forgets the client.
ConnectionTornDown ==
    \A c \in Client :
        conn[c] # "open" ~> \/ Over(c) /\ (c \notin clients \/ hub = "stopped")
                           \/ ~Process

\* NFR-R2: closing the send channel of a slow client, whose peer may be alive
\* and silent, does end its connection.
DroppedIsDisconnected ==
    \A c \in Client : closed[c] ~> Over(c) \/ ~Process

\* Nobody waits on the hub for ever: a read pump that is in Register, Submit
\* or Unregister gets out, through the hub or through h.done.
HubAnswers ==
    \A c \in Client :
        reader[c] \in {"register", "submit", "unregister", "panic"}
        ~> reader[c] \in {"read", "done"} \/ ~Process

\* FR-12: cancelling the context ends the hub and every pump.
ShutdownCompletes ==
    ctxDone ~> \/ hub = "stopped" /\ \A c \in Client : Over(c)
               \/ ~Process

\* NFR-R3: whatever one connection does, the hub's goroutine does not panic.
HubNeverPanics == hub # "sendPanic"

\* NFR-R3 and the comment of Client.send, by which the hub alone sends on the
\* channel: a read pump never finds it closed.
ReaderNeverPanics == \A c \in Client : reader[c] # "panic"
=============================================================================
