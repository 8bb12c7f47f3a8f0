---------------------------- MODULE HubOrderProofs ----------------------------
(***************************************************************************)
(* Theorems about what Hub delivers, on top of HubProofs: the order of the  *)
(* messages, that no member which is kept misses one, and that the hub      *)
(* implements RoomService.                                                  *)
(***************************************************************************)
EXTENDS HubProofs, SequenceTheorems

-----------------------------------------------------------------------------
\* A client's delivery, w on the wire and q in the buffer.

IsMessage(f) == f.type = "message"

\* In the order of acceptance, when n messages have been accepted.
Ordered(w, q, n) ==
    /\ \A i, j \in DOMAIN w : i < j => w[i] < w[j]
    /\ \A i \in DOMAIN w : w[i] <= n
    /\ \A j \in DOMAIN q : IsMessage(q[j]) =>
         /\ q[j].id <= n
         /\ \A i \in DOMAIN w : w[i] < q[j].id
         /\ \A i \in 1..(j - 1) : IsMessage(q[i]) => q[i].id < q[j].id

\* The numbers of the messages handed over.
Numbers(w, q) ==
    {w[i] : i \in DOMAIN w} \cup {q[j].id : j \in {k \in DOMAIN q : IsMessage(q[k])}}

LEMMA AppendFacts ==
    ASSUME NEW S, NEW q \in Seq(S), NEW f \in S
    PROVE  /\ Append(q, f) \in Seq(S) /\ Len(q) \in Nat
           /\ DOMAIN q = 1..Len(q) /\ DOMAIN Append(q, f) = 1..(Len(q) + 1)
           /\ \A i \in 1..Len(q) : Append(q, f)[i] = q[i]
           /\ Append(q, f)[Len(q) + 1] = f
<1>1. Append(q, f) \in Seq(S) /\ Len(q) \in Nat /\ Len(Append(q, f)) = Len(q) + 1
  OBVIOUS
<1>2. DOMAIN q = 1..Len(q) /\ DOMAIN Append(q, f) = 1..(Len(q) + 1)
  BY <1>1
<1> QED  BY <1>1, <1>2

LEMMA TailFacts ==
    ASSUME NEW S, NEW q \in Seq(S), q # <<>>
    PROVE  /\ Tail(q) \in Seq(S) /\ Len(q) \in Nat /\ Len(q) >= 1
           /\ DOMAIN q = 1..Len(q) /\ DOMAIN Tail(q) = 1..(Len(q) - 1)
           /\ \A i \in 1..(Len(q) - 1) : Tail(q)[i] = q[i + 1]
           /\ Head(q) = q[1] /\ Head(q) \in S
<1>1. Len(q) \in Nat /\ Len(q) # 0 /\ DOMAIN q = 1..Len(q)
  OBVIOUS
<1>2. Tail(q) \in Seq(S) /\ Len(Tail(q)) = Len(q) - 1
  BY <1>1
<1> QED  BY <1>1, <1>2

\* The last frame of a buffer is a newer message, or no message.
LEMMA OrderedAppend ==
    ASSUME NEW w \in Seq(Nat), NEW q \in Seq(Frame), NEW f \in Frame,
           NEW n \in Nat, NEW m \in Nat, Ordered(w, q, n), n <= m,
           IsMessage(f) => f.id = m /\ n < m
    PROVE  Ordered(w, Append(q, f), m)
<1> DEFINE a == Append(q, f)
<1>1. /\ Len(q) \in Nat /\ DOMAIN q = 1..Len(q) /\ DOMAIN a = 1..(Len(q) + 1)
      /\ \A i \in 1..Len(q) : a[i] = q[i] /\ q[i] \in Frame
      /\ a[Len(q) + 1] = f
  BY AppendFacts, ElementOfSeq
<1>2. \A i \in DOMAIN w : w[i] \in Nat
  BY ElementOfSeq
<1>3. \A i \in 1..Len(q) : IsMessage(q[i]) => q[i].id \in Nat /\ q[i].id <= n
  BY <1>1, FrameTypes DEF IsMessage, Ordered
<1> HIDE DEF a
<1>4. \A i \in DOMAIN w : w[i] <= m
  BY <1>2 DEF Ordered
<1>5. ASSUME NEW j \in DOMAIN a, IsMessage(a[j])
      PROVE  /\ a[j].id <= m
             /\ \A i \in DOMAIN w : w[i] < a[j].id
             /\ \A i \in 1..(j - 1) : IsMessage(a[i]) => a[i].id < a[j].id
  <2>1. CASE j \in 1..Len(q)
    <3>1. a[j] = q[j] /\ \A i \in 1..(j - 1) : i \in 1..Len(q) /\ a[i] = q[i]
      BY <1>1, <2>1
    <3>2. q[j].id \in Nat /\ q[j].id <= n
      BY <1>3, <1>5, <2>1, <3>1
    <3>3. IsMessage(q[j]) /\ j \in DOMAIN q
      BY <1>1, <1>5, <2>1, <3>1
    <3>4. /\ \A i \in DOMAIN w : w[i] < q[j].id
          /\ \A i \in 1..(j - 1) : IsMessage(q[i]) => q[i].id < q[j].id
      BY <3>3 DEF Ordered
    <3>5. q[j].id <= m
      BY <3>2
    <3> QED  BY <3>1, <3>4, <3>5
  <2>2. CASE j = Len(q) + 1
    <3>1. a[j] = f /\ a[j].id = m /\ n < m
      BY <1>1, <1>5, <2>2
    <3>2. \A i \in 1..(j - 1) : i \in 1..Len(q) /\ a[i] = q[i]
      BY <1>1, <2>2
    <3>3. \A i \in DOMAIN w : w[i] < m
      BY <1>2, <3>1 DEF Ordered
    <3>4. \A i \in 1..(j - 1) : IsMessage(a[i]) => a[i].id < m
      BY <1>3, <3>1, <3>2
    <3> QED  BY <3>1, <3>3, <3>4
  <2> QED  BY <1>1, <2>1, <2>2
<1> QED  BY <1>4, <1>5 DEF Ordered, a

\* A write pump takes the first frame, and a message goes on the wire.
LEMMA OrderedTake ==
    ASSUME NEW w \in Seq(Nat), NEW q \in Seq(Frame), q # <<>>, NEW n \in Nat, Ordered(w, q, n)
    PROVE  Ordered(IF IsMessage(Head(q)) THEN Append(w, Head(q).id) ELSE w, Tail(q), n)
<1> DEFINE t == Tail(q)
<1>1. /\ Len(q) \in Nat /\ Len(q) >= 1 /\ DOMAIN q = 1..Len(q) /\ DOMAIN t = 1..(Len(q) - 1)
      /\ \A i \in 1..(Len(q) - 1) : t[i] = q[i + 1]
      /\ Head(q) = q[1] /\ Head(q) \in Frame
  BY TailFacts
<1> HIDE DEF t
\* What is left in the buffer was behind the first frame.
<1>2. ASSUME NEW j \in DOMAIN t, IsMessage(t[j])
      PROVE  /\ t[j].id <= n
             /\ \A i \in DOMAIN w : w[i] < t[j].id
             /\ \A i \in 1..(j - 1) : IsMessage(t[i]) => t[i].id < t[j].id
             /\ IsMessage(q[1]) => q[1].id < t[j].id
  <2>1. j \in 1..(Len(q) - 1) /\ j + 1 \in DOMAIN q /\ t[j] = q[j + 1]
    BY <1>1
  <2>2. /\ q[j + 1].id <= n
        /\ \A i \in DOMAIN w : w[i] < q[j + 1].id
        /\ \A i \in 1..j : IsMessage(q[i]) => q[i].id < q[j + 1].id
    BY <1>2, <2>1 DEF Ordered
  <2>3. \A i \in 1..(j - 1) : i + 1 \in 1..j /\ t[i] = q[i + 1]
    BY <1>1, <2>1
  <2>4. \A i \in 1..(j - 1) : IsMessage(t[i]) => t[i].id < t[j].id
    BY <2>1, <2>2, <2>3
  <2>5. 1 \in 1..j
    BY <2>1
  <2> QED  BY <2>1, <2>2, <2>4, <2>5
<1>3. CASE ~IsMessage(Head(q))
  BY <1>2, <1>3 DEF Ordered, t
<1>4. CASE IsMessage(Head(q))
  <2> DEFINE a == Append(w, q[1].id)
  <2>1. q[1].id \in Nat /\ 1 \in DOMAIN q
    BY <1>1, <1>4, FrameTypes DEF IsMessage
  <2>2. /\ Len(w) \in Nat /\ DOMAIN w = 1..Len(w) /\ DOMAIN a = 1..(Len(w) + 1)
        /\ \A i \in 1..Len(w) : a[i] = w[i]
        /\ a[Len(w) + 1] = q[1].id
    BY <2>1, AppendFacts
  <2> HIDE DEF a
  <2>3. q[1].id <= n /\ \A i \in 1..Len(w) : w[i] < q[1].id
    BY <1>1, <1>4, <2>1, <2>2 DEF Ordered
  <2>4. ASSUME NEW i \in DOMAIN a, NEW j \in DOMAIN a, i < j PROVE a[i] < a[j]
    <3>1. i \in 1..Len(w) /\ a[i] = w[i]
      BY <2>2, <2>4
    <3> QED  BY <2>2, <2>3, <2>4, <3>1 DEF Ordered
  <2>5. \A i \in DOMAIN a : a[i] <= n
    BY <2>2, <2>3 DEF Ordered
  <2>6. \A j \in DOMAIN t : IsMessage(t[j]) => \A i \in DOMAIN a : a[i] < t[j].id
    <3> SUFFICES ASSUME NEW j \in DOMAIN t, IsMessage(t[j]), NEW i \in DOMAIN a
                 PROVE  a[i] < t[j].id
      OBVIOUS
    <3>1. q[1].id < t[j].id /\ \A k \in DOMAIN w : w[k] < t[j].id
      BY <1>1, <1>2, <1>4
    <3> QED  BY <2>2, <3>1
  <2>7. Ordered(a, t, n)
    BY <1>2, <2>4, <2>5, <2>6 DEF Ordered
  <2> QED  BY <1>1, <1>4, <2>7 DEF a, t
<1> QED  BY <1>3, <1>4

LEMMA NumbersAppend ==
    ASSUME NEW w \in Seq(Nat), NEW q \in Seq(Frame), NEW f \in Frame
    PROVE  Numbers(w, Append(q, f)) = Numbers(w, q) \cup (IF IsMessage(f) THEN {f.id} ELSE {})
<1> DEFINE a == Append(q, f)
<1>1. /\ Len(q) \in Nat /\ DOMAIN q = 1..Len(q) /\ DOMAIN a = 1..(Len(q) + 1)
      /\ \A i \in 1..Len(q) : a[i] = q[i]
      /\ a[Len(q) + 1] = f
  BY AppendFacts
<1> HIDE DEF a
<1>2. ASSUME NEW j \in DOMAIN a, IsMessage(a[j])
      PROVE  a[j].id \in Numbers(w, q) \cup (IF IsMessage(f) THEN {f.id} ELSE {})
  <2>1. CASE j \in 1..Len(q)
    BY <1>1, <1>2, <2>1 DEF Numbers
  <2>2. CASE j = Len(q) + 1
    BY <1>1, <1>2, <2>2
  <2> QED  BY <1>1, <2>1, <2>2
<1>3. \A j \in DOMAIN q : IsMessage(q[j]) => q[j].id \in Numbers(w, a)
  <2>1. \A j \in DOMAIN q : j \in DOMAIN a /\ a[j] = q[j]
    BY <1>1
  <2> QED  BY <2>1 DEF Numbers
<1>4. IsMessage(f) => f.id \in Numbers(w, a)
  <2>1. Len(q) + 1 \in DOMAIN a
    BY <1>1
  <2> QED  BY <1>1, <2>1 DEF Numbers
<1>5. Numbers(w, a) = Numbers(w, q) \cup (IF IsMessage(f) THEN {f.id} ELSE {})
  BY <1>2, <1>3, <1>4 DEF Numbers
<1> QED  BY <1>5 DEF a

LEMMA NumbersTake ==
    ASSUME NEW w \in Seq(Nat), NEW q \in Seq(Frame), q # <<>>
    PROVE  Numbers(IF IsMessage(Head(q)) THEN Append(w, Head(q).id) ELSE w, Tail(q))
             = Numbers(w, q)
<1> DEFINE t == Tail(q)
           b == IF IsMessage(Head(q)) THEN Append(w, Head(q).id) ELSE w
<1>1. /\ Len(q) \in Nat /\ Len(q) >= 1 /\ DOMAIN q = 1..Len(q) /\ DOMAIN t = 1..(Len(q) - 1)
      /\ \A i \in 1..(Len(q) - 1) : t[i] = q[i + 1]
      /\ Head(q) = q[1] /\ Head(q) \in Frame
  BY TailFacts
<1> HIDE DEF t
<1>2. {b[i] : i \in DOMAIN b} = {w[i] : i \in DOMAIN w}
                                  \cup (IF IsMessage(q[1]) THEN {q[1].id} ELSE {})
  <2>1. CASE IsMessage(q[1])
    <3> DEFINE a == Append(w, q[1].id)
    <3>1. q[1].id \in Nat
      BY <1>1, <2>1, FrameTypes DEF IsMessage
    <3>2. /\ Len(w) \in Nat /\ DOMAIN w = 1..Len(w) /\ DOMAIN a = 1..(Len(w) + 1)
          /\ \A i \in 1..Len(w) : a[i] = w[i]
          /\ a[Len(w) + 1] = q[1].id
      BY <3>1, AppendFacts
    <3> HIDE DEF a
    <3>3. \A i \in DOMAIN w : i \in DOMAIN a /\ a[i] = w[i]
      BY <3>2
    <3>4. Len(w) + 1 \in DOMAIN a /\ \A i \in DOMAIN a : i \in DOMAIN w \/ i = Len(w) + 1
      BY <3>2
    <3>5. {a[i] : i \in DOMAIN a} = {w[i] : i \in DOMAIN w} \cup {q[1].id}
      BY <3>2, <3>3, <3>4
    <3>6. b = a
      BY <1>1, <2>1 DEF a
    <3> HIDE DEF b
    <3> QED  BY <2>1, <3>5, <3>6
  <2>2. CASE ~IsMessage(q[1])
    BY <1>1, <2>2
  <2> QED  BY <2>1, <2>2
<1> HIDE DEF b
<1>3. \A j \in DOMAIN t : j + 1 \in DOMAIN q /\ t[j] = q[j + 1]
  BY <1>1
<1>4. ASSUME NEW j \in DOMAIN q, IsMessage(q[j])
      PROVE  j = 1 \/ \E k \in DOMAIN t : t[k] = q[j]
  <2>1. CASE j # 1
    <3>1. j - 1 \in DOMAIN t /\ t[j - 1] = q[(j - 1) + 1] /\ (j - 1) + 1 = j
      BY <1>1, <2>1
    <3> QED  BY <3>1
  <2> QED  BY <2>1
<1>5. 1 \in DOMAIN q
  BY <1>1
<1>6. Numbers(b, t) \subseteq Numbers(w, q)
  BY <1>2, <1>3, <1>5 DEF Numbers
<1>7. Numbers(w, q) \subseteq Numbers(b, t)
  BY <1>2, <1>4 DEF Numbers
<1> QED  BY <1>6, <1>7 DEF b, t

-----------------------------------------------------------------------------
\* What one step does to the delivery of client d.

Handed(d) == Numbers(wire[d], send[d])

\* Nothing, or it is offered a frame that is no message.
Offered(d) ==
    /\ wire'[d] = wire[d]
    /\ \/ send'[d] = send[d]
       \/ \E f \in Frame : ~IsMessage(f) /\ send'[d] = Append(send[d], f)

\* Its write pump takes a frame.
Taken(d) ==
    /\ send[d] # <<>> /\ send'[d] = Tail(send[d])
    /\ wire'[d] = IF IsMessage(Head(send[d])) THEN Append(wire[d], Head(send[d]).id) ELSE wire[d]

LEMMA EnqueueOffers ==
    ASSUME NEW M, NEW f \in Frame, ~IsMessage(f), send' = Enqueue(M, f), UNCHANGED wire
    PROVE  \A d \in Client : Offered(d)
  BY DEF Enqueue, Offered

LEMMA NoMessages ==
    /\ \A r \in Room, M \in SUBSET Client :
         PresenceFrame(r, M) \in Frame /\ ~IsMessage(PresenceFrame(r, M))
    /\ \A r \in Room, t \in {"history", "error"} :
         ReplyFrame(t, r) \in Frame /\ ~IsMessage(ReplyFrame(t, r))
  BY FrameTypes DEF IsMessage, PresenceFrame, ReplyFrame

\* All but a broadcast accept nothing and hand nothing over.
LEMMA QuietSteps ==
    ASSUME HubInv, [Next]_vars, \A c \in Client : ~HubBroadcast(c)
    PROVE  UNCHANGED accepted /\ \A d \in Client : Offered(d) \/ Taken(d)
<1> USE DEF hubVars, chanVars, pumpVars, ghostVars
<1>t. TypeOK
  BY DEF HubInv
<1>1. ASSUME NEW c \in Client, HubJoin(c) \/ HubLeave(c)
      PROVE  UNCHANGED accepted /\ \A d \in Client : Offered(d)
  <2>1. cmd[c] \in Command
    BY <1>t, <1>1, CommandTypes DEF HubJoin, HubLeave, Receives, TypeOK
  <2>2. PICK M \in SUBSET Client : Announce(cmd[c].room, M)
    BY <1>t, <1>1, <2>1 DEF HubJoin, HubLeave, TypeOK, Command
  <2>3. UNCHANGED <<accepted, wire>> /\ cmd[c].room \in Room
    BY <1>1, <2>1 DEF HubJoin, HubLeave, Command
  <2>4. PresenceFrame(cmd[c].room, M) \in Frame /\ ~IsMessage(PresenceFrame(cmd[c].room, M))
    BY <2>3, NoMessages
  <2>5. send' = Enqueue(M, PresenceFrame(cmd[c].room, M))
    BY <2>2 DEF Announce
  <2> QED  BY <2>3, <2>4, <2>5, EnqueueOffers
<1>2. CASE HubLeavesRoom
  <2>1. PICK r \in InRoom(gone) : Announce(r, members[r] \ {gone})
    BY <1>2 DEF HubLeavesRoom
  <2> DEFINE M == members[r] \ {gone}
  <2>2. r \in Room /\ M \in SUBSET Client
    BY <1>t, <2>1 DEF InRoom, TypeOK
  <2>3. UNCHANGED <<accepted, wire>> /\ send' = Enqueue(M, PresenceFrame(r, M))
    BY <1>2, <2>1 DEF HubLeavesRoom, Announce
  <2> HIDE DEF M
  <2>4. PresenceFrame(r, M) \in Frame /\ ~IsMessage(PresenceFrame(r, M))
    BY <2>2, NoMessages
  <2> QED  BY <2>3, <2>4, EnqueueOffers
<1>3. ASSUME NEW c \in Client, SendHistory(c)
      PROVE  UNCHANGED accepted /\ \A d \in Client : Offered(d)
  <2> DEFINE f == ReplyFrame(answer[c], cmd[c].room)
  <2>1. cmd[c] \in Command /\ answer[c] \in {"history", "error"}
    BY <1>t, <1>3, CommandTypes DEF SendHistory, TypeOK
  <2>2. f \in Frame /\ ~IsMessage(f)
    BY <2>1, NoMessages DEF Command
  <2>3. send' = Enqueue({c}, f) /\ UNCHANGED <<accepted, wire>>
    BY <1>3 DEF SendHistory
  <2> HIDE DEF f
  <2> QED  BY <2>2, <2>3, EnqueueOffers
<1>4. ASSUME NEW c \in Client, Writer(c)
      PROVE  UNCHANGED accepted /\ \A d \in Client : Offered(d) \/ Taken(d)
  <2>1. CASE Takes(c)
    <3>1. Taken(c)
      BY <1>t, <2>1 DEF Takes, Taken, TypeOK, IsMessage
    <3>2. \A d \in Client : d # c => Offered(d)
      BY <1>t, <2>1 DEF Takes, Offered, TypeOK
    <3> QED  BY <2>1, <3>1, <3>2 DEF Takes
  <2>2. CASE ~Takes(c)
    BY <1>4, <2>2 DEF Writer, WriteFrame, WriteFails, PingFails, WriterStops, Offered
  <2> QED  BY <2>1, <2>2
<1>5. CASE UNCHANGED <<send, wire, accepted>>
  BY <1>5 DEF Offered
<1>6. \/ \E c \in Client : HubJoin(c) \/ HubLeave(c) \/ SendHistory(c) \/ Writer(c)
      \/ HubLeavesRoom \/ UNCHANGED <<send, wire, accepted>>
  BY DEF Next, HubServes, HubRegister, HubUnregister, HubIgnores, Reader, RegisterAborted,
         ReadFrame, ReadFails, LoadHistory, SubmitAborted, UnregisterAborted, Peer, PeerCloses,
         PeerVanishes, HubContinues, HubDropsSlow, HubCloses, HubStops, Cancel, Terminated, vars
<1> QED  BY <1>1, <1>2, <1>3, <1>4, <1>5, <1>6

\* A broadcast numbers a message and offers it to everybody else in the room.
LEMMA BroadcastStep ==
    ASSUME HubInv, NEW c \in Client, HubBroadcast(c)
    PROVE  /\ Ready /\ slow = {} /\ reader[c] = "submit"
           /\ cmd[c].room \in Room /\ cmd[c].room \in rooms /\ members[cmd[c].room] \subseteq clients
           /\ UNCHANGED <<hub, clients, rooms, members, gone, joinedAt, wire>>
           /\ reader' = [reader EXCEPT ![c] = "read"]
           /\ accepted' = Append(accepted, [room |-> cmd[c].room, sender |-> c])
           /\ slow' = {d \in members[cmd[c].room] \ {c} : Full(d)}
           /\ \A d \in Client :
                send'[d] = IF d \in members[cmd[c].room] \ {c} /\ ~Full(d)
                           THEN Append(send[d], MessageFrame(cmd[c].room, Len(accepted) + 1))
                           ELSE send[d]
<1>1. Ready /\ reader[c] = "submit" /\ cmd[c] \in Command /\ BackToRead(c)
  BY CommandTypes DEF HubBroadcast, Receives, HubInv, TypeOK
<1> DEFINE r  == cmd[c].room
           to == members[r] \ {c}
<1>2. r \in Room /\ r \in rooms /\ members[r] \subseteq clients /\ slow = {}
      /\ \A d \in clients : ~closed[d]
  BY <1>1, MembersAtSelect DEF HubBroadcast, Command
<1>3. /\ accepted' = Append(accepted, [room |-> r, sender |-> c])
      /\ send' = Enqueue(to, MessageFrame(r, Len(accepted) + 1))
      /\ slow' = {d \in to : Full(d)}
      /\ hub' = HubAfterSendTo(to)
      /\ UNCHANGED <<clients, rooms, members, gone, joinedAt, wire>>
  BY DEF HubBroadcast
<1>4. hub' = hub
  BY <1>2, <1>3 DEF HubAfterSendTo
<1>5. \A d \in Client : send'[d] = IF d \in to /\ ~Full(d)
                                   THEN Append(send[d], MessageFrame(r, Len(accepted) + 1))
                                   ELSE send[d]
  BY <1>2, <1>3 DEF Enqueue
<1> QED  BY <1>1, <1>2, <1>3, <1>4, <1>5 DEF BackToRead

LEMMA MessageIs ==
    ASSUME NEW r \in Room, NEW n \in Nat
    PROVE  /\ MessageFrame(r, n) \in Frame /\ IsMessage(MessageFrame(r, n))
           /\ MessageFrame(r, n).id = n
  BY FrameTypes DEF MessageFrame, IsMessage

LEMMA DeliveryTypes ==
    ASSUME HubInv
    PROVE  /\ Len(accepted) \in Nat
           /\ \A d \in Client : wire[d] \in Seq(Nat) /\ send[d] \in Seq(Frame)
  BY DEF HubInv, TypeOK

-----------------------------------------------------------------------------
\* Order.

OrderInv == \A d \in Client : Ordered(wire[d], send[d], Len(accepted))

LEMMA OrderInit == Init => OrderInv
<1> SUFFICES ASSUME Init PROVE OrderInv
  OBVIOUS
<1>1. DOMAIN <<>> = {}
  OBVIOUS
<1> QED  BY <1>1 DEF Init, OrderInv, Ordered

LEMMA OrderNext == HubInv /\ OrderInv /\ [Next]_vars => OrderInv'
<1> SUFFICES ASSUME HubInv, OrderInv, [Next]_vars PROVE OrderInv'
  OBVIOUS
<1> DEFINE n == Len(accepted)
<1>1. n \in Nat /\ \A d \in Client : wire[d] \in Seq(Nat) /\ send[d] \in Seq(Frame)
  BY DeliveryTypes
<1>2. CASE \A c \in Client : ~HubBroadcast(c)
  <2> SUFFICES ASSUME NEW d \in Client PROVE Ordered(wire'[d], send'[d], n)
    BY <1>2, QuietSteps DEF OrderInv
  <2>1. Ordered(wire[d], send[d], n)
    BY DEF OrderInv
  <2>2. CASE Offered(d)
    <3>1. CASE send'[d] = send[d]
      BY <2>1, <2>2, <3>1 DEF Offered
    <3>2. CASE \E f \in Frame : ~IsMessage(f) /\ send'[d] = Append(send[d], f)
      <4>1. PICK f \in Frame : ~IsMessage(f) /\ send'[d] = Append(send[d], f)
        BY <3>2
      <4> HIDE DEF n
      <4>2. Ordered(wire[d], Append(send[d], f), n)
        BY <1>1, <2>1, <4>1, OrderedAppend
      <4> QED  BY <2>2, <4>1, <4>2 DEF Offered
    <3> QED  BY <2>2, <3>1, <3>2 DEF Offered
  <2>3. CASE Taken(d)
    <3> HIDE DEF n
    <3> QED  BY <1>1, <2>1, <2>3, OrderedTake DEF Taken
  <2> QED  BY <1>2, <2>2, <2>3, QuietSteps
<1>3. ASSUME NEW c \in Client, HubBroadcast(c) PROVE OrderInv'
  <2>1. Len(accepted') = n + 1 /\ n + 1 \in Nat /\ UNCHANGED wire
    <3>1. accepted \in Seq([room : Room, sender : Client])
      BY DEF HubInv, TypeOK
    <3>2. /\ [room |-> cmd[c].room, sender |-> c] \in [room : Room, sender : Client]
          /\ accepted' = Append(accepted, [room |-> cmd[c].room, sender |-> c])
          /\ UNCHANGED wire
      BY <1>3, BroadcastStep
    <3> QED  BY <3>1, <3>2
  <2> SUFFICES ASSUME NEW d \in Client PROVE Ordered(wire[d], send'[d], n + 1)
    BY <2>1 DEF OrderInv
  <2>2. Ordered(wire[d], send[d], n)
    BY DEF OrderInv
  <2> HIDE DEF n
  <2>3. CASE send'[d] = send[d]
    <3>1. \A i \in DOMAIN wire[d] : wire[d][i] \in Nat
      BY <1>1, ElementOfSeq
    <3>2. \A j \in DOMAIN send[d] : IsMessage(send[d][j]) => send[d][j].id \in Nat
      BY <1>1, ElementOfSeq, FrameTypes DEF IsMessage
    <3> QED  BY <1>1, <2>2, <2>3, <3>1, <3>2 DEF Ordered
  <2>4. CASE send'[d] = Append(send[d], MessageFrame(cmd[c].room, n + 1))
    <3>1. cmd[c].room \in Room
      BY <1>3, BroadcastStep
    <3>2. /\ MessageFrame(cmd[c].room, n + 1) \in Frame
          /\ MessageFrame(cmd[c].room, n + 1).id = n + 1
      BY <2>1, <3>1, MessageIs
    <3>3. n <= n + 1 /\ n < n + 1
      BY <1>1
    <3> QED  BY <1>1, <2>1, <2>2, <2>4, <3>2, <3>3, OrderedAppend
  <2> QED  BY <1>3, <2>3, <2>4, BroadcastStep DEF n
<1> QED  BY <1>2, <1>3

LEMMA Invariance == Spec => [](HubInv /\ OrderInv)
<1> QED  BY InitInv, NextInv, OrderInit, OrderNext, PTL DEF Spec

\* Messages reach every client in the order of acceptance, across its rooms,
\* and none of them twice (NFR-R5, FR-6).
THEOREM DeliveryInOrder == Spec => []InOrder
<1>1. OrderInv => InOrder
  BY DEF OrderInv, Ordered, InOrder, IsMessage
<1> QED  BY <1>1, Invariance, PTL

-----------------------------------------------------------------------------
\* What a step hands over.

LEMMA HandedIs ==
    \A d \in Client : \A n : HandedTo(d, n) <=> n \in Handed(d)
  BY DEF HandedTo, Handed, Numbers, IsMessage

LEMMA HandedQuietly ==
    ASSUME HubInv, NEW d \in Client, Offered(d) \/ Taken(d)
    PROVE  Handed(d)' = Handed(d)
<1>1. wire[d] \in Seq(Nat) /\ send[d] \in Seq(Frame)
  BY DeliveryTypes
<1>2. Handed(d)' = Numbers(wire'[d], send'[d])
  BY DEF Handed, Numbers
<1>3. CASE Offered(d)
  <2>1. CASE send'[d] = send[d]
    BY <1>2, <1>3, <2>1 DEF Offered, Handed
  <2>2. CASE \E f \in Frame : ~IsMessage(f) /\ send'[d] = Append(send[d], f)
    <3>1. PICK f \in Frame : ~IsMessage(f) /\ send'[d] = Append(send[d], f)
      BY <2>2
    <3>2. Numbers(wire[d], Append(send[d], f)) = Numbers(wire[d], send[d])
      BY <1>1, <3>1, NumbersAppend
    <3> QED  BY <1>2, <1>3, <3>1, <3>2 DEF Offered, Handed
  <2> QED  BY <1>3, <2>1, <2>2 DEF Offered
<1>4. CASE Taken(d)
  BY <1>1, <1>2, <1>4, NumbersTake DEF Taken, Handed
<1> QED  BY <1>3, <1>4

\* A broadcast hands its message to the members who have room for it.
LEMMA HandedByBroadcast ==
    ASSUME HubInv, NEW c \in Client, HubBroadcast(c), NEW d \in Client
    PROVE  Handed(d)' = IF d \in members[cmd[c].room] \ {c} /\ ~Full(d)
                        THEN Handed(d) \cup {Len(accepted) + 1} ELSE Handed(d)
<1> DEFINE r == cmd[c].room
           n == Len(accepted) + 1
<1>1. wire[d] \in Seq(Nat) /\ send[d] \in Seq(Frame) /\ n \in Nat
  BY DeliveryTypes
<1>2. r \in Room /\ UNCHANGED wire
      /\ send'[d] = IF d \in members[r] \ {c} /\ ~Full(d)
                    THEN Append(send[d], MessageFrame(r, n)) ELSE send[d]
  BY BroadcastStep
<1> HIDE DEF n, r
<1>3. Handed(d)' = Numbers(wire[d], send'[d])
  BY <1>2 DEF Handed, Numbers
<1>4. Numbers(wire[d], Append(send[d], MessageFrame(r, n))) = Handed(d) \cup {n}
  BY <1>1, <1>2, MessageIs, NumbersAppend DEF Handed
<1> QED  BY <1>2, <1>3, <1>4 DEF Handed, n, r

-----------------------------------------------------------------------------
\* No silent loss.

LEMMA LossInit == Init => NoSilentLoss
  BY DEF Init, NoSilentLoss, Kept

LEMMA LossNext ==
    ASSUME HubInv, HubInv', NoSilentLoss, [Next]_vars
    PROVE  NoSilentLoss'
<1> USE DEF hubVars, chanVars, pumpVars, ghostVars
<1>t. TypeOK /\ TypeOK' /\ Len(accepted) \in Nat
  BY DeliveryTypes DEF HubInv
<1>p. CASE ~Process'
  BY <1>p DEF NoSilentLoss
<1>r. Process' => Process
  BY DEF Process, Next, Terminated, vars
\* A broadcast.
<1>1. ASSUME NEW c \in Client, HubBroadcast(c), Process' PROVE NoSilentLoss'
  <2> DEFINE r == cmd[c].room
             e == [room |-> r, sender |-> c]
  <2>1. /\ slow = {} /\ members[r] \subseteq clients /\ r \in Room
        /\ UNCHANGED <<clients, members, joinedAt>>
        /\ accepted' = Append(accepted, e)
        /\ slow' = {d \in members[r] \ {c} : Full(d)}
    BY <1>1, BroadcastStep
  <2>2. /\ e \in [room : Room, sender : Client]
        /\ Len(accepted') = Len(accepted) + 1
        /\ accepted'[Len(accepted) + 1] = e
        /\ \A n \in 1..Len(accepted) : accepted'[n] = accepted[n]
    <3>1. accepted \in Seq([room : Room, sender : Client]) /\ e \in [room : Room, sender : Client]
      BY <1>t, <2>1 DEF TypeOK
    <3> HIDE DEF e
    <3> QED  BY <2>1, <3>1
  <2> SUFFICES ASSUME NEW d \in Kept', NEW x \in InRoom(d)',
                      NEW n \in (joinedAt'[d][x] + 1)..Len(accepted'),
                      accepted'[n].room = x, accepted'[n].sender # d
               PROVE  HandedTo(d, n)'
    BY DEF NoSilentLoss
  <2>3. d \in Client /\ d \in Kept /\ x \in Room /\ x \in InRoom(d) /\ joinedAt[d][x] \in Nat
    BY <1>t, <2>1 DEF Kept, InRoom, TypeOK
  <2>4. n \in Nat /\ n \in 1..(Len(accepted) + 1)
    BY <1>t, <2>1, <2>2, <2>3
  <2>5. Handed(d)' = IF d \in members[r] \ {c} /\ ~Full(d)
                     THEN Handed(d) \cup {Len(accepted) + 1} ELSE Handed(d)
    BY <1>1, <2>3, HandedByBroadcast
  <2>6. CASE n \in 1..Len(accepted)
    <3>1. HandedTo(d, n)
      BY <1>r, <1>1, <1>t, <2>1, <2>2, <2>3, <2>6 DEF NoSilentLoss
    <3>2. n \in Handed(d)'
      BY <2>3, <2>5, <3>1, HandedIs
    <3> QED  BY <3>2 DEF HandedTo, Handed, Numbers, IsMessage
  <2>7. CASE n = Len(accepted) + 1
    <3>1. x = r /\ d # c
      BY <2>2, <2>7
    <3>2. d \in members[r] \ {c} /\ ~Full(d)
      BY <2>1, <2>3, <3>1 DEF InRoom, Kept
    <3>3. n \in Handed(d)'
      BY <2>5, <2>7, <3>2
    <3> QED  BY <3>3 DEF HandedTo, Handed, Numbers, IsMessage
  <2> QED  BY <1>t, <2>4, <2>6, <2>7
\* Nothing accepted: nobody is handed less, and who joins is owed nothing yet.
<1>2. ASSUME \A c \in Client : ~HubBroadcast(c), Process'
      PROVE  NoSilentLoss'
  <2>1. UNCHANGED accepted /\ \A d \in Client : Handed(d)' = Handed(d)
    BY <1>2, QuietSteps, HandedQuietly
  <2>2. ASSUME NEW d \in Kept', NEW x \in InRoom(d)'
        PROVE  \/ d \in Kept /\ x \in InRoom(d) /\ joinedAt'[d][x] = joinedAt[d][x]
               \/ joinedAt'[d][x] = Len(accepted)
    <3>1. d \in Client /\ x \in Room
      BY <1>t DEF Kept, InRoom, TypeOK
    <3>2. CASE \E c \in Client : HubJoin(c)
      <4>1. PICK c \in Client : HubJoin(c)
        BY <3>2
      <4>2. cmd[c] \in Command
        BY <1>t, <4>1, CommandTypes DEF HubJoin, Receives, TypeOK
      <4> DEFINE r == cmd[c].room
      <4>3. /\ r \in Room
            /\ members' = [members EXCEPT ![r] = members[r] \cup {c}]
            /\ joinedAt' = IF c \in members[r] THEN joinedAt
                           ELSE [joinedAt EXCEPT ![c][r] = Len(accepted)]
            /\ UNCHANGED <<clients, slow>>
        BY <4>1, <4>2 DEF HubJoin, Announce, Command
      <4>4. d \in Kept /\ d \in members'[x]
        BY <4>3 DEF Kept, InRoom
      <4>5. CASE d = c /\ x = r /\ c \notin members[r]
        BY <1>t, <3>1, <4>3, <4>5 DEF TypeOK
      <4>6. CASE ~(d = c /\ x = r /\ c \notin members[r])
        <5> HIDE DEF r
        <5>1. joinedAt'[d][x] = joinedAt[d][x]
          BY <1>t, <3>1, <4>3, <4>6 DEF TypeOK
        <5>2. d \in members[x]
          BY <1>t, <3>1, <4>3, <4>4, <4>6 DEF TypeOK
        <5> QED  BY <3>1, <4>4, <5>1, <5>2 DEF InRoom
      <4> QED  BY <4>5, <4>6
    <3>3. CASE \E c \in Client : HubRegister(c)
      <4>1. PICK c \in Client : HubRegister(c)
        BY <3>3
      <4>2. /\ clients' = clients \cup {c} /\ UNCHANGED <<members, slow, joinedAt>>
            /\ Ready
        BY <4>1 DEF HubRegister
      <4>3. members[x] \subseteq clients /\ d \in members[x]
        BY <3>1, <4>2, MembersAtSelect DEF InRoom
      <4> QED  BY <3>1, <4>2, <4>3 DEF Kept, InRoom
    <3>4. CASE /\ UNCHANGED joinedAt /\ Kept' \subseteq Kept
               /\ \A y \in Room : members'[y] \subseteq members[y]
      BY <3>1, <3>4 DEF InRoom
    <3>5. ASSUME NEW c \in Client, HubLeave(c)
          PROVE  /\ UNCHANGED joinedAt /\ Kept' \subseteq Kept
                 /\ \A y \in Room : members'[y] \subseteq members[y]
      BY <1>t, <3>5 DEF HubLeave, Announce, Kept, TypeOK
    <3>6. ASSUME HubLeavesRoom
          PROVE  /\ UNCHANGED joinedAt /\ Kept' \subseteq Kept
                 /\ \A y \in Room : members'[y] \subseteq members[y]
      BY <1>t, <3>6 DEF HubLeavesRoom, Announce, Kept, TypeOK
    <3>7. ASSUME HubDropsSlow \/ \E c \in Client : HubUnregister(c)
          PROVE  UNCHANGED <<joinedAt, members>> /\ Kept' \subseteq Kept
      BY <3>7 DEF HubDropsSlow, HubUnregister, Disconnect, Kept
    <3>8. \/ \E c \in Client : HubJoin(c) \/ HubRegister(c) \/ HubLeave(c) \/ HubUnregister(c)
          \/ HubLeavesRoom \/ HubDropsSlow
          \/ UNCHANGED <<members, joinedAt, clients, slow>>
      BY <1>2 DEF Next, HubServes, HubIgnores, Reader, RegisterAborted, ReadFrame, ReadFails,
                  LoadHistory, SendHistory, SubmitAborted, UnregisterAborted, Writer, Takes,
                  WriteFrame, WriteFails, PingFails, WriterStops, Peer, PeerCloses, PeerVanishes,
                  HubContinues, HubCloses, HubStops, Cancel, Terminated, vars
    <3> QED  BY <3>2, <3>3, <3>4, <3>5, <3>6, <3>7, <3>8 DEF Kept
  <2> SUFFICES ASSUME NEW d \in Kept', NEW x \in InRoom(d)',
                      NEW n \in (joinedAt'[d][x] + 1)..Len(accepted'),
                      accepted'[n].room = x, accepted'[n].sender # d
               PROVE  HandedTo(d, n)'
    BY DEF NoSilentLoss
  <2>3. d \in Client /\ x \in Room /\ joinedAt'[d][x] \in Nat
    BY <1>t DEF Kept, InRoom, TypeOK
  <2>4. d \in Kept /\ x \in InRoom(d) /\ joinedAt'[d][x] = joinedAt[d][x] /\ n \in Nat
    BY <1>t, <2>1, <2>2, <2>3
  <2>5. HandedTo(d, n)
    BY <1>r, <1>2, <2>1, <2>4 DEF NoSilentLoss
  <2>6. n \in Handed(d)'
    BY <2>1, <2>3, <2>5, HandedIs
  <2> QED  BY <2>6 DEF HandedTo, Handed, Numbers, IsMessage
<1> QED  BY <1>p, <1>1, <1>2

\* A member that the hub keeps has been handed every message of the others.
THEOREM NothingIsLost == Spec => []NoSilentLoss
<1>1. HubInv /\ HubInv' /\ NoSilentLoss /\ [Next]_vars => NoSilentLoss'
  BY LossNext
<1> QED  BY <1>1, LossInit, InitInv, NextInv, PTL DEF Spec

-----------------------------------------------------------------------------
\* The refinement: the variables of RoomService as the hub's state shows them.

Fresh == {c \in Client : reader[c] = "register"}
Within == [r \in Room |-> members[r] \cap Kept]
Got == [c \in Client |-> {n \in 1..Len(accepted) : HandedTo(c, n)}]

LEMMA ServiceStutters ==
    ASSUME UNCHANGED <<Fresh, Kept, Within, accepted, Got>>
    PROVE  UNCHANGED Service!vars
  BY DEF Service!vars, Fresh, Within, Got, HandedTo

LEMMA GotIs == \A d \in Client : Got[d] = Handed(d) \cap (1..Len(accepted))
  BY HandedIs DEF Got

LEMMA GotIsNext ==
    \A d \in Client : Got'[d] = Handed(d)' \cap (1..Len(accepted'))
  BY DEF Got, HandedTo, Handed, Numbers, IsMessage

LEMMA ConnectionSteps ==
    ASSUME NEW c \in Client, Service!Connect(c) \/ Service!Refuse(c) \/ Service!Disconnect(c)
    PROVE  Service!Next
  BY DEF Service!Next, Service!Connect, Service!Refuse, Service!Disconnect, Service!Drop, HandedTo

LEMMA RoomSteps ==
    ASSUME NEW c \in Client, NEW r \in Room,
           Service!Join(c, r) \/ Service!Leave(c, r) \/ Service!Post(c, r)
    PROVE  Service!Next
  BY DEF Service!Next, Service!Join, Service!Leave, Service!Post, Service!Drop, HandedTo

\* Without a broadcast nobody has been handed more, or less.
LEMMA GotQuietly ==
    ASSUME HubInv, [Next]_vars, \A c \in Client : ~HubBroadcast(c)
    PROVE  UNCHANGED <<accepted, Got>>
<1>1. UNCHANGED accepted /\ \A d \in Client : Handed(d)' = Handed(d)
  BY QuietSteps, HandedQuietly
<1>2. \A d \in Client : Got'[d] = Got[d]
  BY <1>1, GotIs, GotIsNext
<1>3. Got = [d \in Client |-> Got[d]]
  BY DEF Got
<1>4. Got' = [d \in Client |-> Got'[d]]
  BY DEF Got, HandedTo
<1> QED  BY <1>1, <1>2, <1>3, <1>4

\* A message is a Post: the members who keep up get it, the others are dropped.
LEMMA BroadcastPosts ==
    ASSUME HubInv, OrderInv, NEW c \in Client, HubBroadcast(c),
           NEW r \in Room, r = cmd[c].room
    PROVE  Service!Next
<1> DEFINE n == Len(accepted) + 1
           D == {d \in members[r] \ {c} : Full(d)}
<1>t. TypeOK /\ NoEmptyRooms
  BY DEF HubInv
<1>1. /\ slow = {} /\ reader[c] = "submit" /\ r \in rooms
      /\ members[r] \subseteq clients /\ slow' = D
      /\ UNCHANGED <<clients, members>>
      /\ reader' = [reader EXCEPT ![c] = "read"]
      /\ accepted' = Append(accepted, [room |-> r, sender |-> c])
  BY BroadcastStep
<1>2. n \in Nat /\ Len(accepted) \in Nat /\ Len(accepted') = n
  <2>1. accepted \in Seq([room : Room, sender : Client])
    BY <1>t DEF TypeOK
  <2>2. [room |-> r, sender |-> c] \in [room : Room, sender : Client]
    BY <1>1
  <2> QED  BY <1>1, <2>1, <2>2
<1>3. c \notin Fresh /\ Fresh' = Fresh
  BY <1>t, <1>1 DEF Fresh, TypeOK
<1>4. Kept' = Kept \ D
  BY <1>1 DEF Kept
<1>5. Within' = [x \in Room |-> Within[x] \ D]
  BY <1>1, <1>4 DEF Within
<1>6. Within[r] = members[r] /\ members[r] # {}
  BY <1>t, <1>1 DEF Within, Kept, NoEmptyRooms
<1>7. D \in SUBSET (Within[r] \ {c})
  BY <1>6
<1>8. ASSUME NEW d \in Client
      PROVE  Got'[d] = IF d \in Within[r] \ ({c} \cup D) THEN Got[d] \cup {n} ELSE Got[d]
  <2>1. Handed(d)' = IF d \in members[r] \ {c} /\ ~Full(d)
                     THEN Handed(d) \cup {n} ELSE Handed(d)
    BY HandedByBroadcast
  <2>2. d \in members[r] \ {c} /\ ~Full(d) <=> d \in Within[r] \ ({c} \cup D)
    BY <1>6
  <2>3. n \notin Handed(d)
    <3>1. wire[d] \in Seq(Nat) /\ send[d] \in Seq(Frame) /\ Ordered(wire[d], send[d], Len(accepted))
      BY DeliveryTypes DEF OrderInv
    <3>2. \A i \in DOMAIN wire[d] : wire[d][i] \in Nat /\ wire[d][i] <= Len(accepted)
      BY <3>1, ElementOfSeq DEF Ordered
    <3>3. \A j \in DOMAIN send[d] : IsMessage(send[d][j]) =>
            send[d][j].id \in Nat /\ send[d][j].id <= Len(accepted)
      BY <3>1, ElementOfSeq, FrameTypes DEF Ordered, IsMessage
    <3> QED  BY <1>2, <3>2, <3>3 DEF Handed, Numbers
  <2> DEFINE before == 1..Len(accepted)
  <2>4. 1..Len(accepted') = before \cup {n} /\ n \notin before
    BY <1>2
  <2>5. Got[d] = Handed(d) \cap before /\ Got'[d] = Handed(d)' \cap (before \cup {n})
    BY <2>4, GotIs, GotIsNext
  <2> HIDE DEF before, n, D
  <2> QED  BY <2>1, <2>2, <2>3, <2>4, <2>5
<1>9. Got' = [d \in Client |-> IF d \in Within[r] \ ({c} \cup D)
                               THEN Got[d] \cup {Len(accepted')} ELSE Got[d]]
  <2>1. Got' = [d \in Client |-> Got'[d]]
    BY DEF Got, HandedTo
  <2> QED  BY <1>2, <1>8, <2>1
<1> HIDE DEF D, n
<1>10. Service!Post(c, r)
  BY <1>1, <1>3, <1>4, <1>5, <1>6, <1>7, <1>9
  DEF Service!Post, Service!Drop, Fresh, Within, Got, HandedTo
<1> QED  BY <1>1, <1>10, RoomSteps

\* A member drops out: the hub forgets it, or decides to.
LEMMA UnregisterDisconnects ==
    ASSUME HubInv, NEW c \in Client, HubUnregister(c), UNCHANGED <<accepted, Got>>
    PROVE  Service!Next \/ UNCHANGED Service!vars
<1>t. TypeOK
  BY DEF HubInv
<1>1. /\ slow = {} /\ UNCHANGED <<slow, members>> /\ Disconnect(c)
      /\ reader[c] \in {"unregister", "panic"} /\ reader' = [reader EXCEPT ![c] = "done"]
  BY MembersAtSelect DEF HubUnregister
<1>2. Fresh' = Fresh
  BY <1>t, <1>1 DEF Fresh, TypeOK
<1>3. CASE c \in clients
  <2>1. Kept' = Kept \ {c} /\ c \in Kept
    BY <1>1, <1>3 DEF Disconnect, Kept
  <2>2. Within' = [x \in Room |-> Within[x] \ {c}]
    BY <1>1, <2>1 DEF Within
  <2>3. Service!Disconnect(c)
    BY <1>2, <2>1, <2>2 DEF Service!Disconnect, Service!Drop, Fresh, Within, Got, HandedTo
  <2> QED  BY <2>3, ConnectionSteps
<1>4. CASE c \notin clients
  <2>1. Kept' = Kept /\ Within' = Within
    BY <1>1, <1>4 DEF Disconnect, Kept, Within
  <2> QED  BY <1>2, <2>1, ServiceStutters
<1> QED  BY <1>3, <1>4

LEMMA RegisterConnects ==
    ASSUME HubInv, NEW c \in Client, HubRegister(c), UNCHANGED <<accepted, Got>>
    PROVE  Service!Next
<1>t. TypeOK
  BY DEF HubInv
<1>1. /\ slow = {} /\ UNCHANGED <<slow, members>> /\ clients' = clients \cup {c}
      /\ reader[c] = "register" /\ reader' = [reader EXCEPT ![c] = "read"]
      /\ \A x \in Room : members[x] \subseteq clients
  BY MembersAtSelect DEF HubRegister
<1>2. Fresh' = Fresh \ {c} /\ c \in Fresh
  BY <1>t, <1>1 DEF Fresh, TypeOK
<1>3. Kept' = Kept \cup {c} /\ Within' = Within
  BY <1>1 DEF Kept, Within
<1>4. Service!Connect(c)
  BY <1>2, <1>3 DEF Service!Connect, Fresh, Within, Got, HandedTo
<1> QED  BY <1>4, ConnectionSteps

\* join and leave change the members of one room.  A client that joins after
\* its removal stays outside of what the service shows.
LEMMA JoinsAndLeaves ==
    ASSUME HubInv, NEW c \in Client, HubJoin(c) \/ HubLeave(c), UNCHANGED <<accepted, Got>>,
           NEW r \in Room, r = cmd[c].room
    PROVE  Service!Next \/ UNCHANGED Service!vars
<1>t. TypeOK
  BY DEF HubInv
<1>1. /\ slow = {} /\ UNCHANGED <<slow, clients>>
      /\ reader[c] = "submit" /\ reader' = [reader EXCEPT ![c] = "read"]
  BY MembersAtSelect DEF HubJoin, HubLeave, Receives, BackToRead
<1>2. Fresh' = Fresh /\ Kept' = Kept
  BY <1>t, <1>1 DEF Fresh, Kept, TypeOK
<1>3. CASE HubJoin(c)
  <2>1. members' = [members EXCEPT ![r] = members[r] \cup {c}]
    BY <1>3 DEF HubJoin, Announce
  <2>2. CASE c \in clients
    <3>1. c \in Kept
      BY <1>1, <2>2 DEF Kept
    <3>2. Within' = [Within EXCEPT ![r] = @ \cup {c}]
      BY <1>t, <1>2, <2>1, <3>1 DEF Within, TypeOK
    <3>3. Service!Join(c, r)
      BY <1>2, <3>1, <3>2 DEF Service!Join, Fresh, Within, Got, HandedTo
    <3> QED  BY <3>3, RoomSteps
  <2>3. CASE c \notin clients
    <3>1. Within' = Within
      BY <1>t, <1>2, <2>1, <2>3 DEF Within, Kept, TypeOK
    <3> QED  BY <1>2, <3>1, ServiceStutters
  <2> QED  BY <2>2, <2>3
<1>4. CASE HubLeave(c)
  <2>1. members' = [members EXCEPT ![r] = members[r] \ {c}]
    BY <1>4 DEF HubLeave, Announce
  <2>2. Within' = [Within EXCEPT ![r] = @ \ {c}]
    BY <1>t, <1>2, <2>1 DEF Within, TypeOK
  <2>3. Service!Leave(c, r)
    BY <1>2, <2>2 DEF Service!Leave, Fresh, Within, Got, HandedTo
  <2> QED  BY <2>3, RoomSteps
<1> QED  BY <1>3, <1>4

\* What disconnect does after its first statements is hidden: the service let
\* the client go when the hub decided to drop it.
LEMMA DropsAreHidden ==
    ASSUME HubInv, HubDropsSlow \/ HubLeavesRoom, UNCHANGED <<accepted, Got>>
    PROVE  UNCHANGED Service!vars
<1>t. TypeOK /\ slow \subseteq clients /\ (gone # NoClient => gone \notin clients)
  BY DEF HubInv, Lifecycle
<1>1. UNCHANGED reader
  BY DEF HubDropsSlow, HubLeavesRoom, pumpVars
<1>2. CASE HubDropsSlow
  <2>1. UNCHANGED <<Kept, members>>
    BY <1>t, <1>2 DEF HubDropsSlow, Disconnect, Kept
  <2> QED  BY <1>1, <2>1, ServiceStutters DEF Fresh, Within
<1>3. CASE HubLeavesRoom
  <2>1. PICK r \in Room : gone \in members[r] /\ Announce(r, members[r] \ {gone})
    BY <1>3 DEF HubLeavesRoom, InRoom
  <2>2. gone \notin clients
    BY <1>t, <2>1, ClientAssumption DEF TypeOK
  <2>3. UNCHANGED Kept /\ members' = [members EXCEPT ![r] = members[r] \ {gone}]
    BY <1>3, <2>1 DEF HubLeavesRoom, Announce, Kept
  <2>4. Within' = Within
    BY <1>t, <2>2, <2>3 DEF Within, Kept, TypeOK
  <2> QED  BY <1>1, <2>3, <2>4, ServiceStutters DEF Fresh
<1> QED  BY <1>2, <1>3

LEMMA AbortedIsRefused ==
    ASSUME HubInv, NEW c \in Client, RegisterAborted(c), UNCHANGED <<accepted, Got>>
    PROVE  Service!Next
<1>1. TypeOK
  BY DEF HubInv
<1>2. Fresh' = Fresh \ {c} /\ c \in Fresh /\ UNCHANGED <<Kept, Within>>
  BY <1>1 DEF RegisterAborted, Fresh, Kept, Within, TypeOK, hubVars
<1>3. Service!Refuse(c)
  BY <1>2 DEF Service!Refuse, Fresh, Within, Got, HandedTo
<1> QED  BY <1>3, ConnectionSteps

LEMMA ServiceInit == Init => Service!Init
<1> SUFFICES ASSUME Init PROVE Service!Init
  OBVIOUS
<1>1. /\ {c \in Client : reader[c] = "register"} = Client
      /\ Kept = {} /\ [r \in Room |-> members[r] \cap Kept] = [r \in Room |-> {}]
      /\ accepted = <<>>
  BY DEF Init, Kept
<1>2. 1..Len(accepted) = {}
  BY <1>1
<1> QED  BY <1>1, <1>2 DEF Service!Init

LEMMA ServiceNext ==
    ASSUME HubInv, OrderInv, [Next]_vars
    PROVE  Service!Next \/ UNCHANGED Service!vars
<1> USE DEF hubVars, chanVars, pumpVars, ghostVars
<1>t. TypeOK
  BY DEF HubInv
<1>1. ASSUME NEW c \in Client, HubBroadcast(c) PROVE Service!Next
  <2>1. PICK r \in Room : r = cmd[c].room
    BY <1>1, BroadcastStep
  <2> QED  BY <1>1, <2>1, BroadcastPosts
<1>2. CASE \A c \in Client : ~HubBroadcast(c)
  <2>1. UNCHANGED <<accepted, Got>>
    BY <1>2, GotQuietly
  <2>2. ASSUME NEW c \in Client, HubJoin(c) \/ HubLeave(c)
        PROVE  Service!Next \/ UNCHANGED Service!vars
    <3>1. PICK r \in Room : r = cmd[c].room
      BY <1>t, <2>2, CommandTypes DEF HubJoin, HubLeave, Receives, TypeOK, Command
    <3> QED  BY <2>1, <2>2, <3>1, JoinsAndLeaves
  <2>3. ASSUME NEW c \in Client, HubRegister(c) PROVE Service!Next
    BY <2>1, <2>3, RegisterConnects
  <2>4. ASSUME NEW c \in Client, HubUnregister(c)
        PROVE  Service!Next \/ UNCHANGED Service!vars
    BY <2>1, <2>4, UnregisterDisconnects
  <2>5. ASSUME NEW c \in Client, RegisterAborted(c) PROVE Service!Next
    BY <2>1, <2>5, AbortedIsRefused
  <2>6. CASE HubDropsSlow \/ HubLeavesRoom
    BY <2>1, <2>6, DropsAreHidden
  <2>7. CASE /\ UNCHANGED <<clients, slow, members>>
             /\ \A c \in Client : reader[c] = "register" <=> reader'[c] = "register"
    <3>1. UNCHANGED <<Fresh, Kept, Within>>
      BY <2>7 DEF Fresh, Kept, Within
    <3> QED  BY <2>1, <3>1, ServiceStutters
  <2>8. ASSUME NEW c \in Client, HubIgnores(c) \/ ReadFrame(c) \/ ReadFails(c) \/ LoadHistory(c)
                 \/ SendHistory(c) \/ SubmitAborted(c) \/ UnregisterAborted(c)
        PROVE  /\ UNCHANGED <<clients, slow, members>>
               /\ \A d \in Client : reader[d] = "register" <=> reader'[d] = "register"
    <3>1. /\ UNCHANGED <<clients, slow, members>>
          /\ reader[c] # "register" /\ reader'[c] # "register"
          /\ \A d \in Client \ {c} : reader'[d] = reader[d]
      BY <1>t, <2>8 DEF HubIgnores, Receives, BackToRead, ReadFrame, ReadFails, LoadHistory,
                        SendHistory, SubmitAborted, UnregisterAborted, TypeOK
    <3> QED  BY <3>1
  <2>9. \/ \E c \in Client : HubJoin(c) \/ HubLeave(c) \/ HubRegister(c) \/ HubUnregister(c)
                             \/ RegisterAborted(c)
        \/ HubDropsSlow \/ HubLeavesRoom
        \/ \E c \in Client : HubIgnores(c) \/ ReadFrame(c) \/ ReadFails(c) \/ LoadHistory(c)
                 \/ SendHistory(c) \/ SubmitAborted(c) \/ UnregisterAborted(c)
        \/ UNCHANGED <<clients, slow, members, reader>>
    BY <1>2 DEF Next, HubServes, Reader, Writer, Takes, WriteFrame, WriteFails, PingFails,
                WriterStops, Peer, PeerCloses, PeerVanishes, HubContinues, HubCloses, HubStops,
                Cancel, Terminated, vars
  <2> QED  BY <2>2, <2>3, <2>4, <2>5, <2>6, <2>7, <2>8, <2>9
<1> QED  BY <1>1, <1>2

\* The hub implements RoomService: whatever the channels and the pumps do in
\* between, a live member of a room is handed every message posted there, at
\* once, or it is dropped from all its rooms at that moment and for good.
THEOREM HubImplementsService == Spec => ImplementsService
<1>1. HubInv /\ OrderInv /\ [Next]_vars => [Service!Next]_(Service!vars)
  BY ServiceNext
<1> QED  BY <1>1, ServiceInit, Invariance, PTL DEF Spec, ImplementsService, Service!Spec

-----------------------------------------------------------------------------
\* The roster.

LEMMA AnnounceTells ==
    ASSUME HubInv, NEW r \in Room, NEW M \in SUBSET Client, Announce(r, M),
           NEW x \in Room, members'[x] # members[x], NEW c \in members'[x]
    PROVE  Told(c, x)' \/ Full(c) \/ ~Process'
<1>t. TypeOK
  BY DEF HubInv
<1>1. x = r /\ members'[x] = M /\ c \in M
  BY <1>t DEF Announce, TypeOK
<1> DEFINE f == PresenceFrame(r, M)
           q == send[c]
<1>2. f \in Frame /\ q \in Seq(Frame) /\ c \in Client
  BY <1>t, <1>1, FrameTypes DEF TypeOK
<1>3. CASE closed[c]
  BY <1>1, <1>3 DEF Announce, HubAfterSendTo, Process
<1>4. CASE ~closed[c] /\ ~Full(c)
  <2>1. send'[c] = Append(q, f)
    BY <1>1, <1>2, <1>4 DEF Announce, Enqueue
  <2> DEFINE a == Append(q, f)
  <2>2. Len(q) \in Nat /\ DOMAIN a = 1..(Len(q) + 1) /\ a[Len(q) + 1] = f
    BY <1>2, AppendFacts
  <2> HIDE DEF a, f, q
  <2>3. Len(q) + 1 \in DOMAIN a /\ \A i \in DOMAIN a : ~(i > Len(q) + 1)
    BY <2>2
  <2>4. send'[c] = a /\ PresenceFrame(x, members'[x]) = f
    BY <1>1, <2>1 DEF a, f
  <2> QED  BY <2>2, <2>3, <2>4 DEF Told, PresenceFrame
<1> QED  BY <1>3, <1>4

\* Every change of a room is announced to those who stay in it, by a frame that
\* no older list follows, unless the buffer was full (FR-9).
THEOREM RosterIsAnnounced == Spec => RosterAnnounced
<1>1. ASSUME HubInv, [Next]_vars, NEW x \in Room, members'[x] # members[x], NEW c \in members'[x]
      PROVE  Told(c, x)' \/ Full(c) \/ ~Process'
  <2> USE DEF hubVars, chanVars, pumpVars, ghostVars
  <2>t. TypeOK
    BY <1>1 DEF HubInv
  <2>1. ASSUME NEW d \in Client, HubJoin(d) \/ HubLeave(d)
        PROVE  \E r \in Room, M \in SUBSET Client : Announce(r, M)
    <3>1. cmd[d] \in Command /\ cmd[d].room \in Room
      BY <2>t, <2>1, CommandTypes DEF HubJoin, HubLeave, Receives, TypeOK, Command
    <3>2. /\ members[cmd[d].room] \cup {d} \in SUBSET Client
          /\ members[cmd[d].room] \ {d} \in SUBSET Client
      BY <2>t, <3>1 DEF TypeOK
    <3> QED  BY <2>1, <3>1, <3>2 DEF HubJoin, HubLeave
  <2>2. ASSUME HubLeavesRoom
        PROVE  \E r \in Room, M \in SUBSET Client : Announce(r, M)
    BY <2>t, <2>2 DEF HubLeavesRoom, InRoom, TypeOK
  <2>3. \/ \E d \in Client : HubJoin(d) \/ HubLeave(d)
        \/ HubLeavesRoom \/ UNCHANGED members
    BY <1>1 DEF Next, HubServes, HubRegister, HubUnregister, HubIgnores, HubBroadcast, Reader,
        RegisterAborted, ReadFrame, ReadFails, LoadHistory, SendHistory, SubmitAborted,
        UnregisterAborted, Writer, Takes, WriteFrame, WriteFails, PingFails, WriterStops, Peer,
        PeerCloses, PeerVanishes, HubContinues, HubDropsSlow, HubCloses, HubStops, Cancel,
        Terminated, vars
  <2>4. PICK r \in Room, M \in SUBSET Client : Announce(r, M)
    BY <1>1, <2>1, <2>2, <2>3
  <2> QED  BY <1>1, <2>4, AnnounceTells
<1>2. HubInv /\ [Next]_vars =>
        [\A r \in Room : members'[r] # members[r] =>
           \A c \in members'[r] : Told(c, r)' \/ Full(c) \/ ~Process']_vars
  BY <1>1
<1> QED  BY <1>2, InitInv, NextInv, PTL DEF Spec, RosterAnnounced
=============================================================================
