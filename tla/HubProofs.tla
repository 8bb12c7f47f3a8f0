------------------------------ MODULE HubProofs ------------------------------
(***************************************************************************)
(* Theorems about Hub, for every set of clients and rooms, every capacity   *)
(* of the send buffer and every value of the model's bounds.                *)
(***************************************************************************)
EXTENDS Hub, TLAPS

\* What the constructors of frames return.
LEMMA FrameTypes ==
    /\ \A r \in Room, n \in Nat : MessageFrame(r, n) \in Frame
    /\ \A r \in Room, M \in SUBSET Client : PresenceFrame(r, M) \in Frame
    /\ \A r \in Room, t \in {"history", "error"} : ReplyFrame(t, r) \in Frame
    /\ \A f \in Frame : f.type = "message" => f.id \in Nat
<1>1. \A f \in PresenceFrames : f.type # "message"
  BY DEF PresenceFrames
<1>2. \A f \in ReplyFrames : f.type # "message"
  BY DEF ReplyFrames
<1>3. \A f \in MessageFrames : f.id \in Nat
  BY DEF MessageFrames
<1>4. \A f \in Frame : f.type = "message" => f.id \in Nat
  BY <1>1, <1>2, <1>3 DEF Frame
<1>5. \A r \in Room, n \in Nat : MessageFrame(r, n) \in Frame
  BY DEF MessageFrame, MessageFrames, Frame
<1>6. \A r \in Room, M \in SUBSET Client : PresenceFrame(r, M) \in Frame
  BY DEF PresenceFrame, PresenceFrames, Frame
<1>7. \A r \in Room, t \in {"history", "error"} : ReplyFrame(t, r) \in Frame
  BY DEF ReplyFrame, ReplyFrames, Frame
<1> QED  BY <1>4, <1>5, <1>6, <1>7

\* A command of a known kind is one of the real commands.
LEMMA CommandTypes ==
    ASSUME NEW k \in Command \cup {NoCommand}, k.kind # "none"
    PROVE  k \in Command
  BY DEF NoCommand

\* The send buffers, as TypeOK has them.
SendOK == send \in [Client -> Seq(Frame)] /\ \A c \in Client : Len(send[c]) <= SendBuffer

\* enqueue keeps every buffer within its capacity.
LEMMA EnqueueType ==
    ASSUME NEW M, NEW f \in Frame, SendOK, send' = Enqueue(M, f)
    PROVE  SendOK'
<1>1. ASSUME NEW c \in Client
      PROVE  send'[c] \in Seq(Frame) /\ Len(send'[c]) <= SendBuffer
  <2>1. send[c] \in Seq(Frame) /\ Len(send[c]) <= SendBuffer /\ Len(send[c]) \in Nat
    BY DEF SendOK
  <2>2. CASE c \in M /\ ~closed[c] /\ ~Full(c)
    <3>1. send'[c] = Append(send[c], f)
      BY <2>2 DEF Enqueue
    <3>2. Len(send[c]) # SendBuffer
      BY <2>2 DEF Full
    <3> QED  BY <2>1, <3>1, <3>2, SendBufferAssumption
  <2>3. CASE ~(c \in M /\ ~closed[c] /\ ~Full(c))
    BY <2>1, <2>3 DEF Enqueue
  <2> QED  BY <2>2, <2>3
<1>2. send' = [c \in Client |-> send'[c]]
  BY DEF Enqueue
<1> QED  BY <1>1, <1>2 DEF SendOK

\* A pass over the members of a room leaves the hub running or panicked.
LEMMA AnnounceType ==
    ASSUME TypeOK, NEW r \in Room, NEW M \in SUBSET Client, Announce(r, M)
    PROVE  /\ SendOK'
           /\ members' \in [Room -> SUBSET Client]
           /\ hub' \in {hub, "sendPanic"}
<1>1. PresenceFrame(r, M) \in Frame
  BY FrameTypes
<1>2. SendOK
  BY DEF TypeOK, SendOK
<1>3. send' = Enqueue(M, PresenceFrame(r, M))
  BY DEF Announce
<1>4. SendOK'
  BY <1>1, <1>2, <1>3, EnqueueType
<1> QED  BY <1>4 DEF Announce, HubAfterSendTo, TypeOK

\* A write pump takes a frame: the buffers only shrink, and only the number of
\* a message frame goes on the wire.
LEMMA TakesType ==
    ASSUME TypeOK, NEW c \in Client, Takes(c)
    PROVE  SendOK' /\ wire' \in [Client -> Seq(Nat)]
<1>1. send[c] \in Seq(Frame) /\ send[c] # <<>> /\ Len(send[c]) <= SendBuffer
  BY DEF TypeOK, Takes
<1>2. /\ Head(send[c]) \in Frame
      /\ Tail(send[c]) \in Seq(Frame)
      /\ Len(Tail(send[c])) <= SendBuffer
  BY <1>1, SendBufferAssumption
<1>3. SendOK'
  BY <1>2 DEF TypeOK, Takes, SendOK
<1>4. wire' \in [Client -> Seq(Nat)]
  <2>1. CASE Head(send[c]).type = "message"
    <3>1. Head(send[c]).id \in Nat
      BY <1>2, <2>1, FrameTypes
    <3>2. wire' = [wire EXCEPT ![c] = Append(@, Head(send[c]).id)]
      BY <2>1 DEF Takes
    <3> QED  BY <3>1, <3>2 DEF TypeOK
  <2>2. CASE Head(send[c]).type # "message"
    BY <2>2 DEF Takes, TypeOK
  <2> QED  BY <2>1, <2>2
<1> QED  BY <1>3, <1>4

-----------------------------------------------------------------------------
\* The type invariant.

LEMMA InitType == Init => TypeOK
<1> SUFFICES ASSUME Init PROVE TypeOK
  OBVIOUS
<1>1. SendOK
  <2>1. <<>> \in Seq(Frame) /\ Len(<<>>) = 0
    OBVIOUS
  <2> QED  BY <2>1, SendBufferAssumption DEF Init, SendOK
<1>2. /\ accepted \in Seq([room : Room, sender : Client])
      /\ joinedAt \in [Client -> [Room -> Nat]]
      /\ wire \in [Client -> Seq(Nat)]
      /\ reads \in 0..MaxFrames
  BY MaxFramesAssumption DEF Init
<1>3. /\ hub \in {"running", "stopped", "sendPanic", "closePanic"}
      /\ clients \subseteq Client /\ rooms \subseteq Room /\ slow \subseteq Client
      /\ members \in [Room -> SUBSET Client]
      /\ gone \in Client \cup {NoClient}
      /\ ctxDone \in BOOLEAN /\ closed \in [Client -> BOOLEAN]
  BY DEF Init
<1>4. /\ cmd \in [Client -> Command \cup {NoCommand}]
      /\ answer \in [Client -> {"none", "history", "error"}]
      /\ writer \in [Client -> {"off", "run", "done"}]
      /\ conn \in [Client -> {"open", "dead", "closed"}]
  BY DEF Init
<1>5. reader \in [Client -> {"register", "read", "load", "loaded", "submit",
                            "unregister", "panic", "done"}]
  BY DEF Init
<1>6. \A c \in Client : reader[c] = "register"
  BY DEF Init
<1> QED  BY <1>1, <1>2, <1>3, <1>4, <1>5, <1>6 DEF TypeOK, SendOK

LEMMA ServesType ==
    ASSUME TypeOK, NEW c \in Client, HubServes(c)
    PROVE  TypeOK'
<1> USE DEF hubVars, chanVars, pumpVars, ghostVars
<1>1. CASE HubRegister(c)
  BY <1>1 DEF HubRegister, TypeOK
<1>2. CASE HubUnregister(c)
  BY <1>2 DEF HubUnregister, Disconnect, TypeOK
<1>3. CASE HubJoin(c)
  <2>1. cmd[c] \in Command
    BY <1>3, CommandTypes DEF HubJoin, Receives, TypeOK
  <2> DEFINE r == cmd[c].room
             M == members[r] \cup {c}
  <2>2. r \in Room /\ M \in SUBSET Client
    BY <2>1 DEF Command, TypeOK
  <2>3. Announce(r, M)
    BY <1>3 DEF HubJoin
  <2>4. SendOK' /\ members' \in [Room -> SUBSET Client] /\ hub' \in {hub, "sendPanic"}
    BY <2>2, <2>3, AnnounceType
  <2>5. joinedAt' \in [Client -> [Room -> Nat]]
    BY <1>3, <2>2 DEF HubJoin, TypeOK
  <2> HIDE DEF M
  <2> QED  BY <1>3, <2>2, <2>4, <2>5 DEF HubJoin, Receives, BackToRead, TypeOK, SendOK
<1>4. CASE HubLeave(c)
  <2>1. cmd[c] \in Command
    BY <1>4, CommandTypes DEF HubLeave, Receives, TypeOK
  <2> DEFINE r == cmd[c].room
             M == members[r] \ {c}
  <2>2. r \in Room /\ M \in SUBSET Client
    BY <2>1 DEF Command, TypeOK
  <2>3. Announce(r, M) /\ rooms' = Reclaimed(r, M)
    BY <1>4 DEF HubLeave
  <2>4. SendOK' /\ members' \in [Room -> SUBSET Client] /\ hub' \in {hub, "sendPanic"}
    BY <2>2, <2>3, AnnounceType
  <2>5. rooms' \subseteq Room
    BY <2>2, <2>3 DEF Reclaimed, TypeOK
  <2> HIDE DEF M
  <2> QED  BY <1>4, <2>4, <2>5 DEF HubLeave, Receives, BackToRead, TypeOK, SendOK
<1>5. CASE HubIgnores(c)
  BY <1>5 DEF HubIgnores, Receives, BackToRead, TypeOK
<1>6. CASE HubBroadcast(c)
  <2>1. cmd[c] \in Command
    BY <1>6, CommandTypes DEF HubBroadcast, Receives, TypeOK
  <2> DEFINE r == cmd[c].room
             to == members[r] \ {c}
             f == MessageFrame(r, Len(accepted) + 1)
  <2>2. r \in Room /\ to \in SUBSET Client /\ Len(accepted) \in Nat
    BY <2>1 DEF Command, TypeOK
  <2>3. f \in Frame
    BY <2>2, FrameTypes
  <2>4. /\ send' = Enqueue(to, f)
        /\ slow' = {d \in to : Full(d)}
        /\ hub' = HubAfterSendTo(to)
        /\ accepted' = Append(accepted, [room |-> r, sender |-> c])
    BY <1>6 DEF HubBroadcast
  <2>5. SendOK'
    <3>1. SendOK
      BY DEF TypeOK, SendOK
    <3> HIDE DEF f, to
    <3> QED  BY <2>3, <2>4, <3>1, EnqueueType
  <2>6. accepted' \in Seq([room : Room, sender : Client])
    BY <2>2, <2>4 DEF TypeOK
  <2>7. hub' \in {hub, "sendPanic"} /\ slow' \subseteq Client
    BY <2>2, <2>4 DEF HubAfterSendTo
  <2> HIDE DEF to, f
  <2> QED  BY <1>6, <2>5, <2>6, <2>7 DEF HubBroadcast, Receives, BackToRead, TypeOK, SendOK
<1> QED  BY <1>1, <1>2, <1>3, <1>4, <1>5, <1>6 DEF HubServes

LEMMA ContinuesType ==
    ASSUME TypeOK, HubContinues \/ HubStops
    PROVE  TypeOK'
<1> USE DEF hubVars, chanVars, pumpVars, ghostVars
<1>1. CASE HubDropsSlow
  BY <1>1 DEF HubDropsSlow, Disconnect, TypeOK
<1>2. CASE HubLeavesRoom
  <2>1. PICK r \in InRoom(gone) :
           /\ Announce(r, members[r] \ {gone})
           /\ rooms' = Reclaimed(r, members[r] \ {gone})
    BY <1>2 DEF HubLeavesRoom
  <2> DEFINE M == members[r] \ {gone}
  <2>2. r \in Room /\ M \in SUBSET Client
    BY <2>1 DEF InRoom, TypeOK
  <2>3. SendOK' /\ members' \in [Room -> SUBSET Client] /\ hub' \in {hub, "sendPanic"}
    BY <2>1, <2>2, AnnounceType
  <2>4. rooms' \subseteq Room
    BY <2>1, <2>2 DEF Reclaimed, TypeOK
  <2> HIDE DEF M
  <2> QED  BY <1>2, <2>3, <2>4 DEF HubLeavesRoom, TypeOK, SendOK
<1>3. CASE HubCloses
  BY <1>3 DEF HubCloses, TypeOK
<1>4. CASE HubStops
  BY <1>4 DEF HubStops, TypeOK
<1> QED  BY <1>1, <1>2, <1>3, <1>4 DEF HubContinues

LEMMA ReaderType ==
    ASSUME TypeOK, NEW c \in Client, Reader(c)
    PROVE  TypeOK'
<1> USE DEF hubVars, chanVars, pumpVars, ghostVars
<1>1. CASE RegisterAborted(c)
  BY <1>1 DEF RegisterAborted, TypeOK
<1>2. CASE ReadFrame(c)
  BY <1>2, MaxFramesAssumption DEF ReadFrame, TypeOK
<1>3. CASE ReadFails(c)
  BY <1>3 DEF ReadFails, TypeOK
<1>4. CASE LoadHistory(c)
  BY <1>4, AnswersAssumption DEF LoadHistory, TypeOK
<1>5. CASE SendHistory(c)
  <2> DEFINE f == ReplyFrame(answer[c], cmd[c].room)
  <2>1. cmd[c] \in Command /\ answer[c] \in {"history", "error"}
    BY <1>5, CommandTypes DEF SendHistory, TypeOK
  <2>2. f \in Frame
    BY <2>1, FrameTypes DEF Command
  <2>3. SendOK /\ send' = Enqueue({c}, f)
    BY <1>5 DEF SendHistory, TypeOK, SendOK
  <2> HIDE DEF f
  <2>4. SendOK'
    BY <2>2, <2>3, EnqueueType
  <2> QED  BY <1>5, <2>4 DEF SendHistory, TypeOK, SendOK
<1>6. CASE SubmitAborted(c)
  BY <1>6 DEF SubmitAborted, BackToRead, TypeOK
<1>7. CASE UnregisterAborted(c)
  BY <1>7 DEF UnregisterAborted, TypeOK
<1> QED  BY <1>1, <1>2, <1>3, <1>4, <1>5, <1>6, <1>7 DEF Reader

LEMMA WriterType ==
    ASSUME TypeOK, NEW c \in Client, Writer(c) \/ Peer(c)
    PROVE  TypeOK'
<1> USE DEF hubVars, chanVars, pumpVars, ghostVars
<1>1. CASE WriteFrame(c)
  <2>1. SendOK' /\ wire' \in [Client -> Seq(Nat)]
    BY <1>1, TakesType DEF WriteFrame
  <2> QED  BY <1>1, <2>1 DEF WriteFrame, Takes, TypeOK, SendOK
<1>2. CASE WriteFails(c)
  <2>1. SendOK' /\ wire' \in [Client -> Seq(Nat)]
    BY <1>2, TakesType DEF WriteFails
  <2> QED  BY <1>2, <2>1 DEF WriteFails, Takes, WriterExits, TypeOK, SendOK
<1>3. CASE PingFails(c)
  BY <1>3 DEF PingFails, WriterExits, TypeOK
<1>4. CASE WriterStops(c)
  BY <1>4 DEF WriterStops, WriterExits, TypeOK
<1>5. CASE PeerCloses(c)
  BY <1>5 DEF PeerCloses, TypeOK
<1>6. CASE PeerVanishes(c)
  BY <1>6 DEF PeerVanishes, TypeOK
<1> QED  BY <1>1, <1>2, <1>3, <1>4, <1>5, <1>6 DEF Writer, Peer

LEMMA NextType == TypeOK /\ [Next]_vars => TypeOK'
<1> SUFFICES ASSUME TypeOK, [Next]_vars PROVE TypeOK'
  OBVIOUS
<1>1. CASE UNCHANGED vars
  BY <1>1 DEF vars, hubVars, chanVars, pumpVars, ghostVars, TypeOK
<1>2. CASE Cancel
  BY <1>2 DEF Cancel, hubVars, chanVars, pumpVars, ghostVars, TypeOK
<1> QED
  BY <1>1, <1>2, ServesType, ContinuesType, ReaderType, WriterType
  DEF Next, Terminated

\* Every variable has its type, no send buffer exceeds its capacity.
THEOREM TypeCorrect == Spec => []TypeOK
  BY InitType, NextType, PTL DEF Spec

-----------------------------------------------------------------------------
(***************************************************************************)
(* Membership and the life of the send channels.  None of the four          *)
(* properties is inductive alone: that a broadcast does not panic needs     *)
(* every member connected (MembersAreConnected) and no connected client's   *)
(* channel closed (NoDoubleClose); that a join by a client the hub has      *)
(* removed panics, and so leaves no ghost member in a running hub, needs    *)
(* that channel to be closed by then (Lifecycle).                           *)
(***************************************************************************)
HubInv ==
    /\ TypeOK
    /\ MembersAreConnected
    /\ NoEmptyRooms
    /\ NoDoubleClose
    /\ Lifecycle

LEMMA InitInv == Init => HubInv
<1> SUFFICES ASSUME Init PROVE HubInv
  OBVIOUS
<1>1. TypeOK
  BY InitType
<1>2. MembersAreConnected /\ NoEmptyRooms /\ NoDoubleClose
  BY DEF Init, MembersAreConnected, NoEmptyRooms, NoDoubleClose
<1>3. Lifecycle
  BY ClientAssumption DEF Init, Lifecycle
<1> QED  BY <1>1, <1>2, <1>3 DEF HubInv

\* At its select the hub's members are all connected.
LEMMA MembersAtSelect ==
    ASSUME HubInv, Ready
    PROVE  /\ slow = {} /\ gone = NoClient /\ hub = "running"
           /\ \A r \in Room : members[r] \subseteq clients
           /\ \A c \in clients : ~closed[c]
  BY ClientAssumption
  DEF HubInv, TypeOK, Ready, Idle, Process, MembersAreConnected, NoDoubleClose

\* A room is reclaimed exactly when its last member has left.
LEMMA ReclaimedRooms ==
    ASSUME TypeOK, NoEmptyRooms, NEW r \in Room, NEW M \in SUBSET Client,
           members' = [members EXCEPT ![r] = M], rooms' = Reclaimed(r, M)
    PROVE  NoEmptyRooms'
<1>1. \A x \in Room : members'[x] = IF x = r THEN M ELSE members[x]
  BY DEF TypeOK
<1> QED  BY <1>1 DEF TypeOK, NoEmptyRooms, Reclaimed

LEMMA ServesInv ==
    ASSUME HubInv, NEW c \in Client, HubServes(c)
    PROVE  HubInv'
<1> USE DEF hubVars, chanVars, pumpVars, ghostVars
<1>t. TypeOK /\ TypeOK'
  BY ServesType DEF HubInv
<1>1. CASE HubRegister(c)
  <2>1. Ready /\ c \notin clients \cup {gone} /\ ~closed[c]
    BY <1>1 DEF HubRegister, HubInv, Lifecycle
  <2>2. MembersAreConnected' /\ NoEmptyRooms' /\ NoDoubleClose'
    BY <1>1, <2>1 DEF HubRegister, HubInv, MembersAreConnected, NoEmptyRooms,
       NoDoubleClose, Process
  <2>3. Lifecycle'
    BY <1>1, <1>t, <2>1 DEF HubRegister, HubInv, Lifecycle, TypeOK, Ready, Idle
  <2> QED  BY <1>t, <2>2, <2>3 DEF HubInv
<1>2. CASE HubUnregister(c)
  <2>1. Ready /\ reader[c] # "register" /\ reader' = [reader EXCEPT ![c] = "done"]
    BY <1>2 DEF HubUnregister
  <2>2. c \in clients => ~closed[c]
    BY DEF HubInv, NoDoubleClose
  <2>3. CASE c \in clients
    <3>1. clients' = clients \ {c} /\ gone' = c
      BY <1>2, <2>3 DEF HubUnregister, Disconnect
    <3>2. MembersAreConnected'
      BY <1>2, <2>1, <3>1, MembersAtSelect DEF HubUnregister, MembersAreConnected
    <3>3. NoEmptyRooms' /\ NoDoubleClose'
      BY <1>2, <3>1 DEF HubUnregister, HubInv, NoEmptyRooms, NoDoubleClose
    <3>4. Lifecycle'
      <4>1. /\ slow' = {} /\ gone = NoClient /\ hub' = hub
            /\ \A d \in Client : closed'[d] = closed[d]
            /\ \A d \in Client \ {c} : reader'[d] = reader[d]
            /\ reader'[c] = "done" /\ ~closed[c]
        BY <1>2, <1>t, <2>1, <2>2, <2>3, MembersAtSelect DEF HubUnregister, TypeOK
      <4>2. ~closed'[c] /\ c \in Client
        BY <4>1
      <4>3. ASSUME NEW d \in Client
            PROVE  /\ reader'[d] = "register" => d \notin clients' \cup {gone'} /\ ~closed'[d]
                   /\ closed'[d] => d \notin clients'
                   /\ hub' = "running" => \/ reader'[d] = "register" \/ closed'[d]
                                          \/ d \in clients' \cup {gone'}
        <5>1. CASE d = c
          BY <3>1, <4>1, <4>2, <5>1
        <5>2. CASE d # c
          BY <3>1, <4>1, <5>2, ClientAssumption DEF HubInv, Lifecycle
        <5> QED  BY <5>1, <5>2
      <4> QED  BY <3>1, <4>1, <4>2, <4>3 DEF Lifecycle
    <3> QED  BY <1>t, <3>2, <3>3, <3>4 DEF HubInv
  <2>4. CASE c \notin clients
    <3>1. UNCHANGED <<clients, gone>>
      BY <1>2, <2>4 DEF HubUnregister, Disconnect
    <3>2. MembersAreConnected' /\ NoEmptyRooms' /\ NoDoubleClose'
      BY <1>2, <3>1 DEF HubUnregister, HubInv, MembersAreConnected,
         NoEmptyRooms, NoDoubleClose, Process
    <3>3. Lifecycle'
      BY <1>2, <1>t, <2>1, <3>1 DEF HubUnregister, HubInv, Lifecycle, TypeOK
    <3> QED  BY <1>t, <3>2, <3>3 DEF HubInv
  <2> QED  BY <2>3, <2>4
<1>3. CASE HubJoin(c)
  <2>1. Ready /\ reader[c] = "submit" /\ BackToRead(c) /\ cmd[c] \in Command
    BY <1>3, <1>t, CommandTypes DEF HubJoin, Receives, TypeOK
  <2> DEFINE r == cmd[c].room
             M == members[r] \cup {c}
  <2>2. r \in Room /\ M \in SUBSET Client
    BY <1>t, <2>1 DEF Command, TypeOK
  <2>3. /\ members' = [members EXCEPT ![r] = M]
        /\ hub' = HubAfterSendTo(M)
        /\ rooms' = rooms \cup {r}
        /\ UNCHANGED <<clients, slow, gone, closed>>
    BY <1>3 DEF HubJoin, Announce
  <2>4. NoEmptyRooms'
    <3>1. rooms' = Reclaimed(r, M)
      BY <2>3 DEF Reclaimed
    <3> HIDE DEF M
    <3> QED  BY <1>t, <2>2, <2>3, <3>1, ReclaimedRooms DEF HubInv
  <2>5. MembersAreConnected'
    <3>1. CASE c \in clients
      BY <1>t, <2>1, <2>2, <2>3, <3>1, MembersAtSelect DEF MembersAreConnected, TypeOK
    <3>2. CASE c \notin clients
      <4>1. closed[c]
        BY <2>1, <3>2, MembersAtSelect, ClientAssumption DEF HubInv, Lifecycle
      <4>2. hub' = "sendPanic"
        BY <2>3, <4>1 DEF HubAfterSendTo
      <4> QED  BY <4>2 DEF MembersAreConnected, Process
    <3> QED  BY <3>1, <3>2
  <2>6. NoDoubleClose' /\ Lifecycle'
    <3>1. hub' # "closePanic" /\ (hub' = "running" => hub = "running")
      BY <2>3 DEF HubAfterSendTo, HubInv, NoDoubleClose
    <3>2. NoDoubleClose'
      BY <2>3, <3>1 DEF HubInv, NoDoubleClose
    <3>3. Lifecycle'
      BY <1>t, <2>1, <2>3, <3>1 DEF HubInv, Lifecycle, BackToRead, TypeOK
    <3> QED  BY <3>2, <3>3
  <2> QED  BY <1>t, <2>4, <2>5, <2>6 DEF HubInv
<1>4. CASE HubLeave(c)
  <2>1. Ready /\ reader[c] = "submit" /\ BackToRead(c) /\ cmd[c] \in Command
    BY <1>4, <1>t, CommandTypes DEF HubLeave, Receives, TypeOK
  <2> DEFINE r == cmd[c].room
             M == members[r] \ {c}
  <2>2. r \in Room /\ M \in SUBSET Client
    BY <1>t, <2>1 DEF Command, TypeOK
  <2>3. /\ members' = [members EXCEPT ![r] = M]
        /\ hub' = HubAfterSendTo(M)
        /\ rooms' = Reclaimed(r, M)
        /\ UNCHANGED <<clients, slow, gone, closed>>
    BY <1>4 DEF HubLeave, Announce
  <2>4. NoEmptyRooms'
    <3> HIDE DEF M
    <3> QED  BY <1>t, <2>2, <2>3, ReclaimedRooms DEF HubInv
  <2>5. MembersAreConnected'
    BY <1>t, <2>1, <2>2, <2>3, MembersAtSelect DEF MembersAreConnected, TypeOK
  <2>6. NoDoubleClose' /\ Lifecycle'
    <3>1. hub' # "closePanic" /\ (hub' = "running" => hub = "running")
      BY <2>3 DEF HubAfterSendTo, HubInv, NoDoubleClose
    <3>2. NoDoubleClose'
      BY <2>3, <3>1 DEF HubInv, NoDoubleClose
    <3>3. Lifecycle'
      BY <1>t, <2>1, <2>3, <3>1 DEF HubInv, Lifecycle, BackToRead, TypeOK
    <3> QED  BY <3>2, <3>3
  <2> QED  BY <1>t, <2>4, <2>5, <2>6 DEF HubInv
<1>5. CASE HubIgnores(c)
  <2>1. UNCHANGED <<hubVars, chanVars>> /\ reader[c] = "submit" /\ BackToRead(c)
    BY <1>5 DEF HubIgnores, Receives
  <2>2. MembersAreConnected' /\ NoEmptyRooms' /\ NoDoubleClose'
    BY <2>1 DEF HubInv, MembersAreConnected, NoEmptyRooms, NoDoubleClose, Process
  <2>3. Lifecycle'
    BY <1>t, <2>1 DEF HubInv, Lifecycle, BackToRead, TypeOK
  <2> QED  BY <1>t, <2>2, <2>3 DEF HubInv
<1>6. CASE HubBroadcast(c)
  <2>1. Ready /\ reader[c] = "submit" /\ BackToRead(c) /\ cmd[c] \in Command
    BY <1>6, <1>t, CommandTypes DEF HubBroadcast, Receives, TypeOK
  <2> DEFINE r  == cmd[c].room
             to == members[r] \ {c}
  <2>2. r \in Room /\ to \subseteq clients
    BY <2>1, MembersAtSelect DEF Command
  <2>3. /\ slow' = {d \in to : Full(d)}
        /\ hub' = HubAfterSendTo(to)
        /\ UNCHANGED <<clients, rooms, members, gone, closed>>
    BY <1>6 DEF HubBroadcast
  <2>4. hub' = hub
    BY <2>1, <2>2, <2>3, MembersAtSelect DEF HubAfterSendTo
  <2> HIDE DEF to
  <2>5. MembersAreConnected' /\ NoEmptyRooms' /\ NoDoubleClose'
    BY <2>3, <2>4 DEF HubInv, MembersAreConnected, NoEmptyRooms, NoDoubleClose, Process
  <2>6. Lifecycle'
    BY <1>t, <2>1, <2>2, <2>3, <2>4 DEF HubInv, Lifecycle, BackToRead, TypeOK
  <2> QED  BY <1>t, <2>5, <2>6 DEF HubInv
<1> QED  BY <1>1, <1>2, <1>3, <1>4, <1>5, <1>6 DEF HubServes

LEMMA ContinuesInv ==
    ASSUME HubInv, HubContinues \/ HubStops
    PROVE  HubInv'
<1> USE DEF hubVars, chanVars, pumpVars, ghostVars
<1>t. TypeOK /\ TypeOK'
  BY ContinuesType DEF HubInv
<1>1. CASE HubDropsSlow
  <2>1. PICK c \in slow : slow' = slow \ {c} /\ Disconnect(c)
    BY <1>1 DEF HubDropsSlow
  <2>2. c \in clients /\ ~closed[c] /\ reader[c] # "register"
    BY <1>t, <2>1 DEF HubInv, Lifecycle, NoDoubleClose, TypeOK
  <2>3. /\ clients' = clients \ {c} /\ gone' = c
        /\ gone = NoClient /\ hub = "running"
        /\ UNCHANGED <<hub, rooms, members, closed, reader>>
    BY <1>1, <2>1, <2>2 DEF HubDropsSlow, Disconnect
  <2>4. MembersAreConnected' /\ NoEmptyRooms' /\ NoDoubleClose'
    BY <1>t, <2>3, ClientAssumption DEF HubInv, MembersAreConnected,
       NoEmptyRooms, NoDoubleClose, Process, TypeOK
  <2>5. Lifecycle'
    BY <1>t, <2>1, <2>2, <2>3, ClientAssumption DEF HubInv, Lifecycle, TypeOK
  <2> QED  BY <1>t, <2>4, <2>5 DEF HubInv
<1>2. CASE HubLeavesRoom
  <2>1. PICK r \in InRoom(gone) :
           /\ Announce(r, members[r] \ {gone})
           /\ rooms' = Reclaimed(r, members[r] \ {gone})
    BY <1>2 DEF HubLeavesRoom
  <2> DEFINE M == members[r] \ {gone}
  <2>2. r \in Room /\ M \in SUBSET Client /\ gone \in members[r]
    BY <1>t, <2>1 DEF InRoom, TypeOK
  <2>3. /\ members' = [members EXCEPT ![r] = M]
        /\ hub' = HubAfterSendTo(M)
        /\ rooms' = Reclaimed(r, M)
        /\ UNCHANGED <<clients, slow, gone, closed, reader>>
    BY <1>2, <2>1 DEF HubLeavesRoom, Announce
  <2>4. hub = "running" /\ M \subseteq clients
    BY <1>2, <2>2 DEF HubLeavesRoom, HubInv, MembersAreConnected, Process
  <2>5. hub' = hub
    BY <2>3, <2>4 DEF HubAfterSendTo, HubInv, NoDoubleClose
  <2>6. NoEmptyRooms'
    <3> HIDE DEF M
    <3> QED  BY <1>t, <2>2, <2>3, ReclaimedRooms DEF HubInv
  <2>7. MembersAreConnected'
    BY <1>t, <2>2, <2>3, <2>4 DEF HubInv, MembersAreConnected, Process, TypeOK
  <2>8. NoDoubleClose' /\ Lifecycle'
    BY <2>3, <2>5 DEF HubInv, NoDoubleClose, Lifecycle
  <2> QED  BY <1>t, <2>6, <2>7, <2>8 DEF HubInv
<1>3. CASE HubCloses
  <2>1. gone \in Client /\ gone \notin clients /\ ~closed[gone]
    BY <1>3, <1>t DEF HubCloses, HubInv, Lifecycle, TypeOK
  <2>2. /\ hub' = hub /\ gone' = NoClient
        /\ closed' = [closed EXCEPT ![gone] = TRUE]
        /\ UNCHANGED <<clients, rooms, members, slow, reader>>
    BY <1>3, <2>1 DEF HubCloses
  <2>3. MembersAreConnected'
    BY <1>3, <2>2 DEF HubCloses, InRoom, HubInv, MembersAreConnected, Process
  <2>4. NoEmptyRooms' /\ NoDoubleClose'
    BY <1>t, <2>1, <2>2 DEF HubInv, NoEmptyRooms, NoDoubleClose, TypeOK
  <2>5. \A d \in Client : closed'[d] = IF d = gone THEN TRUE ELSE closed[d]
    BY <1>t, <2>2 DEF TypeOK
  <2>6. ASSUME NEW d \in Client
        PROVE  /\ reader'[d] = "register" => d \notin clients' \cup {gone'} /\ ~closed'[d]
               /\ closed'[d] => d \notin clients'
               /\ hub' = "running" => \/ reader'[d] = "register" \/ closed'[d]
                                      \/ d \in clients' \cup {gone'}
    <3>1. CASE d = gone
      BY <2>1, <2>2, <2>5, <3>1 DEF HubInv, Lifecycle
    <3>2. CASE d # gone
      <4>1. closed'[d] = closed[d] /\ d # NoClient
        BY <2>5, <3>2, ClientAssumption
      <4> QED  BY <2>2, <3>2, <4>1 DEF HubInv, Lifecycle
    <3> QED  BY <3>1, <3>2
  <2>7. Lifecycle'
    BY <2>2, <2>6 DEF HubInv, Lifecycle
  <2> QED  BY <1>t, <2>3, <2>4, <2>7 DEF HubInv
<1>4. CASE HubStops
  <2>1. hub' = "stopped" /\ UNCHANGED <<clients, rooms, members, slow, gone, closed, reader>>
    BY <1>4 DEF HubStops
  <2>2. MembersAreConnected' /\ NoEmptyRooms' /\ NoDoubleClose' /\ Lifecycle'
    BY <1>4, <2>1 DEF HubStops, Ready, HubInv, MembersAreConnected, NoEmptyRooms,
       NoDoubleClose, Lifecycle, Process
  <2> QED  BY <1>t, <2>2 DEF HubInv
<1> QED  BY <1>1, <1>2, <1>3, <1>4 DEF HubContinues

\* The pumps and the environment touch neither the hub's state nor the close
\* of a channel; only a hub that has stopped lets a client past Register.
LEMMA PumpsInv ==
    ASSUME HubInv, UNCHANGED <<hubVars, closed>>, TypeOK',
           \A c \in Client : /\ reader'[c] = "register" => reader[c] = "register"
                             /\ reader[c] = "register" /\ hub = "running"
                                => reader'[c] = "register"
    PROVE  HubInv'
<1>1. MembersAreConnected' /\ NoEmptyRooms' /\ NoDoubleClose'
  BY DEF HubInv, hubVars, MembersAreConnected, NoEmptyRooms, NoDoubleClose, Process
<1>2. Lifecycle'
  BY DEF HubInv, hubVars, Lifecycle
<1> QED  BY <1>1, <1>2 DEF HubInv

LEMMA ReaderInv ==
    ASSUME HubInv, NEW c \in Client, Reader(c)
    PROVE  HubInv'
<1>t. TypeOK /\ TypeOK'
  BY ReaderType DEF HubInv
<1>1. UNCHANGED <<hubVars, closed>>
  BY DEF Reader, RegisterAborted, ReadFrame, ReadFails, LoadHistory, SendHistory,
     SubmitAborted, UnregisterAborted, chanVars
<1>2. /\ \E s : s # "register" /\ reader' = [reader EXCEPT ![c] = s]
      /\ reader[c] = "register" => hub = "stopped"
  <2>1. CASE RegisterAborted(c)
    BY <2>1 DEF RegisterAborted
  <2>2. CASE ReadFrame(c)
    BY <2>2 DEF ReadFrame
  <2>3. CASE ReadFails(c)
    BY <2>3 DEF ReadFails
  <2>4. CASE LoadHistory(c)
    BY <2>4 DEF LoadHistory
  <2>5. CASE SendHistory(c)
    BY <2>5 DEF SendHistory
  <2>6. CASE SubmitAborted(c)
    BY <2>6 DEF SubmitAborted, BackToRead
  <2>7. CASE UnregisterAborted(c)
    BY <2>7 DEF UnregisterAborted
  <2> QED  BY <2>1, <2>2, <2>3, <2>4, <2>5, <2>6, <2>7 DEF Reader
<1>3. \A d \in Client : d # c => reader'[d] = reader[d]
  BY <1>t, <1>2 DEF TypeOK
<1>4. reader'[c] # "register"
  BY <1>t, <1>2 DEF TypeOK
<1> QED  BY <1>t, <1>1, <1>2, <1>3, <1>4, PumpsInv

LEMMA NextInv == HubInv /\ [Next]_vars => HubInv'
<1> SUFFICES ASSUME HubInv, [Next]_vars PROVE HubInv'
  OBVIOUS
<1>t. TypeOK /\ TypeOK'
  BY NextType DEF HubInv
<1>1. CASE UNCHANGED vars
  BY <1>t, <1>1, PumpsInv DEF vars, chanVars, pumpVars
<1>2. CASE Cancel
  BY <1>t, <1>2, PumpsInv DEF Cancel, chanVars, pumpVars
<1>3. ASSUME NEW c \in Client, Writer(c) \/ Peer(c)
      PROVE  HubInv'
  <2>1. UNCHANGED <<hubVars, closed, reader>>
    BY <1>3 DEF Writer, Peer, WriteFrame, WriteFails, PingFails, WriterStops,
       Takes, WriterExits, PeerCloses, PeerVanishes, chanVars
  <2> QED  BY <1>t, <2>1, PumpsInv
<1> QED
  BY <1>1, <1>2, <1>3, ServesInv, ContinuesInv, ReaderInv DEF Next, Terminated

\* In a process that has not panicked every member of a room is a client the
\* hub knows, so that broadcasts and departures reach open channels only.
THEOREM MembershipCorrect == Spec => []MembersAreConnected
<1>1. HubInv => MembersAreConnected
  BY DEF HubInv
<1> QED  BY InitInv, NextInv, <1>1, PTL DEF Spec

\* No room outlives its last member and none is lost while it has one.
THEOREM RoomsReclaimed == Spec => []NoEmptyRooms
<1>1. HubInv => NoEmptyRooms
  BY DEF HubInv
<1> QED  BY InitInv, NextInv, <1>1, PTL DEF Spec

\* The slow-client path and the read pumps' unregister, in any order, never
\* close a send channel twice, nor one of a connected client.
THEOREM ClosedOnce == Spec => []NoDoubleClose
<1>1. HubInv => NoDoubleClose
  BY DEF HubInv
<1> QED  BY InitInv, NextInv, <1>1, PTL DEF Spec

\* The hub has closed the channel of exactly the clients it has removed.
THEOREM LifecycleCorrect == Spec => []Lifecycle
<1>1. HubInv => Lifecycle
  BY DEF HubInv
<1> QED  BY InitInv, NextInv, <1>1, PTL DEF Spec

\* The panic that HubNeverPanics finds, a send on a closed channel, has one cause:
\* a join that the read pump of a client submits after the hub has removed it.
JoinOfRemoved(c) ==
    /\ reader[c] = "submit" /\ cmd[c].kind = "join"
    /\ c \notin clients \cup {gone} /\ closed[c]

PanicsAreJoins ==
    [][hub' # hub /\ ~Process' => \E c \in Client : HubJoin(c) /\ JoinOfRemoved(c)]_vars

\* Broadcasts, presence frames, departures and disconnects never panic the hub:
\* whom they send to is connected, and its channel is open.
THEOREM OnlyJoinsPanic == Spec => PanicsAreJoins
<1>1. ASSUME HubInv, [Next]_vars, hub' # hub, ~Process'
      PROVE  \E c \in Client : HubJoin(c) /\ JoinOfRemoved(c)
  <2>t. TypeOK
    BY <1>1 DEF HubInv
  <2> USE DEF hubVars
  <2>1. ASSUME NEW c \in Client, HubJoin(c) PROVE JoinOfRemoved(c)
    <3> DEFINE r == cmd[c].room
    <3>1. /\ Ready /\ reader[c] = "submit" /\ cmd[c].kind = "join" /\ cmd[c] \in Command
          /\ hub' = HubAfterSendTo(members[r] \cup {c})
      BY <2>t, <2>1, CommandTypes DEF HubJoin, Receives, Announce, TypeOK
    <3>2. r \in Room
      BY <3>1 DEF Command
    <3>3. \E d \in members[r] \cup {c} : closed[d]
      BY <1>1, <3>1 DEF HubAfterSendTo
    <3>4. gone = NoClient /\ members[r] \subseteq clients /\ \A d \in clients : ~closed[d]
      BY <1>1, <3>1, <3>2, MembersAtSelect
    <3>5. closed[c] /\ c \notin clients
      BY <3>3, <3>4
    <3> QED  BY <3>1, <3>4, <3>5, ClientAssumption DEF JoinOfRemoved
  <2>2. ASSUME NEW c \in Client, HubLeave(c) PROVE FALSE
    <3> DEFINE r == cmd[c].room
    <3>1. /\ Ready /\ cmd[c] \in Command /\ reader[c] = "submit"
          /\ hub' = HubAfterSendTo(members[r] \ {c})
      BY <2>t, <2>2, CommandTypes DEF HubLeave, Receives, Announce, TypeOK
    <3>2. r \in Room
      BY <3>1 DEF Command
    <3>3. \A d \in members[r] \ {c} : ~closed[d]
      BY <1>1, <3>1, <3>2, MembersAtSelect
    <3> QED  BY <1>1, <3>1, <3>3 DEF HubAfterSendTo
  <2>3. ASSUME NEW c \in Client, HubBroadcast(c) PROVE FALSE
    <3> DEFINE r == cmd[c].room
    <3>1. /\ Ready /\ cmd[c] \in Command /\ reader[c] = "submit"
          /\ hub' = HubAfterSendTo(members[r] \ {c})
      BY <2>t, <2>3, CommandTypes DEF HubBroadcast, Receives, TypeOK
    <3>2. r \in Room
      BY <3>1 DEF Command
    <3>3. \A d \in members[r] \ {c} : ~closed[d]
      BY <1>1, <3>1, <3>2, MembersAtSelect
    <3> QED  BY <1>1, <3>1, <3>3 DEF HubAfterSendTo
  <2>4. ASSUME HubLeavesRoom PROVE FALSE
    <3>1. PICK r \in InRoom(gone) : hub' = HubAfterSendTo(members[r] \ {gone})
      BY <2>4 DEF HubLeavesRoom, Announce
    <3>2. \A d \in members[r] \ {gone} : ~closed[d]
      BY <1>1, <2>4, <3>1 DEF HubLeavesRoom, InRoom, HubInv, MembersAreConnected,
         NoDoubleClose, Process
    <3> QED  BY <1>1, <3>1, <3>2 DEF HubAfterSendTo
  <2>5. ASSUME HubCloses PROVE FALSE
    BY <1>1, <2>5 DEF HubCloses, HubInv, Lifecycle
  <2>6. ASSUME HubStops PROVE FALSE
    BY <1>1, <2>6 DEF HubStops, Process
  <2>7. \/ \E c \in Client : HubJoin(c) \/ HubLeave(c) \/ HubBroadcast(c)
        \/ HubLeavesRoom \/ HubCloses \/ HubStops
    BY <1>1 DEF Next, HubServes, HubRegister, HubUnregister, HubIgnores, Reader,
        RegisterAborted, ReadFrame, ReadFails, LoadHistory, SendHistory, SubmitAborted,
        UnregisterAborted, Writer, Takes, WriteFrame, WriteFails, PingFails, WriterStops, Peer,
        PeerCloses, PeerVanishes, HubContinues, HubDropsSlow, Cancel, Terminated, vars
  <2> QED  BY <2>1, <2>2, <2>3, <2>4, <2>5, <2>6, <2>7
<1>2. HubInv /\ [Next]_vars =>
        [hub' # hub /\ ~Process' => \E c \in Client : HubJoin(c) /\ JoinOfRemoved(c)]_vars
  BY <1>1
<1> QED  BY <1>2, InitInv, NextInv, PTL DEF Spec, PanicsAreJoins
=============================================================================
