------------------------------ MODULE BusProofs ------------------------------
(***************************************************************************)
(* Theorems about Bus, for all publishers and subscriptions, every buffer   *)
(* and every number of messages.                                            *)
(***************************************************************************)
EXTENDS Bus, SequenceTheorems, TLAPS

\* One publisher at a time is inside the mutex, with the newest message.
HolderPublishes ==
    \A p \in mu : /\ mu = {p}
                  /\ message[p] = published
                  /\ published \in 1..MaxMessages

\* The inductive invariant.
BusInv ==
    /\ TypeOK
    /\ HolderPublishes
    /\ LoopSeesOpenChannels
    /\ NoSendOnClosed

\* What a channel holds after its first message was taken.
LEMMA AfterReceive ==
    ASSUME NEW S, NEW q \in Seq(S), q # <<>>
    PROVE  Head(q) \in S /\ Tail(q) \in Seq(S) /\ Len(Tail(q)) <= Len(q)
<1>1. Len(q) \in Nat /\ Len(q) # 0
  OBVIOUS
<1> QED  BY <1>1

\* Nothing that the invariant speaks of has changed.
LEMMA Stutter == BusInv /\ UNCHANGED vars => BusInv'
  BY DEF BusInv, TypeOK, HolderPublishes, LoopSeesOpenChannels, NoSendOnClosed, vars,
         loopVars, ghosts

LEMMA InitInv == Init => BusInv
<1> SUFFICES ASSUME Init PROVE BusInv
  OBVIOUS
<1>1. TypeOK
  <2>1. <<>> \in Seq(1..MaxMessages) /\ Len(<<>>) = 0
    OBVIOUS
  <2>2. 0 \in 0..MaxMessages /\ 0 <= Buffer
    BY BufferAssumption, MaxMessagesAssumption
  <2>3. /\ chan \in [Subscription -> Seq(1..MaxMessages)]
        /\ got \in [Subscription -> Seq(1..MaxMessages)]
    BY <2>1 DEF Init
  <2>4. \A s \in Subscription : Len(chan[s]) <= Buffer
    BY <2>1, <2>2 DEF Init
  <2>5. missed \in [Subscription -> SUBSET (1..MaxMessages)]
    BY DEF Init
  <2>6. /\ since \in [Subscription -> 0..MaxMessages]
        /\ message \in [Publisher -> 0..MaxMessages]
        /\ todo \in [Publisher -> SUBSET Subscription]
    BY <2>2 DEF Init
  <2> QED  BY <2>2, <2>3, <2>4, <2>5, <2>6 DEF Init, TypeOK
<1>2. HolderPublishes /\ LoopSeesOpenChannels /\ NoSendOnClosed
  BY DEF Init, HolderPublishes, LoopSeesOpenChannels, NoSendOnClosed
<1> QED  BY <1>1, <1>2 DEF BusInv

-----------------------------------------------------------------------------
\* The publisher.

LEMMA PublishLockInv ==
    ASSUME BusInv, NEW p \in Publisher, PublishLock(p)
    PROVE  BusInv'
<1> USE DEF PublishLock, Enter, ghosts
<1>1. published' \in 1..MaxMessages /\ published' \in 0..MaxMessages
  BY MaxMessagesAssumption DEF BusInv, TypeOK
<1>2. TypeOK'
  BY <1>1 DEF BusInv, TypeOK
<1>3. HolderPublishes'
  <2>1. mu' = {p} /\ message'[p] = published'
    BY DEF BusInv, TypeOK
  <2> QED  BY <1>1, <2>1 DEF HolderPublishes
<1>4. LoopSeesOpenChannels' /\ NoSendOnClosed'
  <2>1. todo'[p] = subscribers /\ \A q \in Publisher : q # p => todo'[q] = todo[q]
    BY DEF BusInv, TypeOK
  <2> QED  BY <2>1 DEF BusInv, LoopSeesOpenChannels, NoSendOnClosed
<1> QED  BY <1>2, <1>3, <1>4 DEF BusInv

\* One turn of the loop meets a channel that is in the map, hence open.
LEMMA PublishSendInv ==
    ASSUME BusInv, NEW p \in Publisher, PublishSend(p)
    PROVE  BusInv'
<1>3. published \in 1..MaxMessages /\ message[p] = published
  BY DEF BusInv, HolderPublishes, PublishSend
<1>1. PICK s \in todo[p] :
        /\ todo' = [todo EXCEPT ![p] = @ \ {s}]
        /\ panicked' = (state[s] = "closed")
        /\ IF ChannelFull(s)
           THEN /\ missed' = [missed EXCEPT ![s] = @ \cup {published}]
                /\ UNCHANGED chan
           ELSE /\ chan' = [chan EXCEPT ![s] = Append(@, published)]
                /\ UNCHANGED missed
  BY <1>3 DEF PublishSend
<1>2. s \in Subscription /\ state[s] # "closed"
  BY DEF BusInv, TypeOK, LoopSeesOpenChannels
<1>4. panicked' = FALSE
  BY <1>1, <1>2
<1>5. chan' \in [Subscription -> Seq(1..MaxMessages)]
  <2>1. chan \in [Subscription -> Seq(1..MaxMessages)]
    BY DEF BusInv, TypeOK
  <2>2. Append(chan[s], published) \in Seq(1..MaxMessages)
    BY <1>2, <1>3, <2>1
  <2> QED  BY <1>1, <2>1, <2>2
<1>6. ASSUME NEW t \in Subscription
      PROVE  Len(chan'[t]) <= Buffer
  <2>1. chan[t] \in Seq(1..MaxMessages) /\ Len(chan[t]) <= Buffer
    BY DEF BusInv, TypeOK
  <2>2. CASE t = s /\ ~ChannelFull(s)
    <3>1. chan'[t] = Append(chan[t], published)
      BY <1>1, <1>2, <2>2 DEF BusInv, TypeOK
    <3>2. Len(chan[t]) # Buffer
      BY <2>2 DEF ChannelFull
    <3> QED  BY <1>3, <2>1, <3>1, <3>2, BufferAssumption
  <2>3. CASE ~(t = s /\ ~ChannelFull(s))
    <3>1. chan'[t] = chan[t]
      BY <1>1, <1>2, <2>3 DEF BusInv, TypeOK
    <3> QED  BY <2>1, <3>1
  <2> QED  BY <2>2, <2>3
<1>7. missed' \in [Subscription -> SUBSET (1..MaxMessages)]
  <2>1. missed \in [Subscription -> SUBSET (1..MaxMessages)]
    BY DEF BusInv, TypeOK
  <2>2. missed[s] \cup {published} \in SUBSET (1..MaxMessages)
    BY <1>2, <1>3, <2>1
  <2> QED  BY <1>1, <2>1, <2>2
<1>8. TypeOK'
  <2>1. todo' \in [Publisher -> SUBSET Subscription]
    BY <1>1 DEF BusInv, TypeOK
  <2> QED  BY <1>4, <1>5, <1>6, <1>7, <2>1 DEF BusInv, TypeOK, PublishSend
<1>9. HolderPublishes' /\ LoopSeesOpenChannels' /\ NoSendOnClosed'
  <2>1. \A q \in Publisher : todo'[q] \subseteq todo[q]
    BY <1>1 DEF BusInv, TypeOK
  <2> QED  BY <1>4, <2>1 DEF BusInv, HolderPublishes, LoopSeesOpenChannels, NoSendOnClosed,
                             PublishSend
<1> QED  BY <1>8, <1>9 DEF BusInv

LEMMA PublishUnlockInv ==
    ASSUME BusInv, NEW p \in Publisher, PublishUnlock(p)
    PROVE  BusInv'
<1> USE DEF BusInv, PublishUnlock, ghosts
<1>1. mu' = {} /\ p \in Publisher
  BY DEF HolderPublishes
<1>2. TypeOK'
  BY <1>1, MaxMessagesAssumption DEF TypeOK
<1>3. HolderPublishes' /\ NoSendOnClosed'
  BY <1>1 DEF HolderPublishes, NoSendOnClosed
<1>4. LoopSeesOpenChannels'
  BY <1>1 DEF HolderPublishes, LoopSeesOpenChannels
<1> QED  BY <1>2, <1>3, <1>4

-----------------------------------------------------------------------------
\* A subscription, from Subscribe to the close of its channel.

LEMMA SubscribeInv ==
    ASSUME BusInv, NEW s \in Subscription, Subscribe(s)
    PROVE  BusInv'
<1> USE DEF BusInv, loopVars, Subscribe
<1>1. TypeOK'
  BY DEF TypeOK
<1>2. HolderPublishes' /\ NoSendOnClosed'
  BY DEF HolderPublishes, NoSendOnClosed
<1>3. LoopSeesOpenChannels'
  BY DEF TypeOK, LoopSeesOpenChannels
<1> QED  BY <1>1, <1>2, <1>3

LEMMA CancelInv ==
    ASSUME BusInv, NEW s \in Subscription, Cancel(s)
    PROVE  BusInv'
<1> USE DEF BusInv, loopVars, Cancel, ghosts
<1>1. TypeOK'
  BY DEF TypeOK
<1>2. HolderPublishes' /\ NoSendOnClosed'
  BY DEF HolderPublishes, NoSendOnClosed
<1>3. LoopSeesOpenChannels'
  BY DEF TypeOK, LoopSeesOpenChannels
<1> QED  BY <1>1, <1>2, <1>3

\* The lock keeps the removal out of a publisher's loop.
LEMMA DeregisterInv ==
    ASSUME BusInv, NEW s \in Subscription, Deregister(s)
    PROVE  BusInv'
<1> USE DEF BusInv, loopVars, Deregister, ghosts
<1>1. TypeOK'
  BY DEF TypeOK
<1>2. HolderPublishes' /\ NoSendOnClosed'
  BY DEF HolderPublishes, NoSendOnClosed
<1>3. LoopSeesOpenChannels'
  BY DEF TypeOK, LoopSeesOpenChannels
<1> QED  BY <1>1, <1>2, <1>3

\* A removed channel is out of the map, so that closing it harms nobody.
LEMMA CloseInv ==
    ASSUME BusInv, NEW s \in Subscription, Close(s)
    PROVE  BusInv'
<1> USE DEF BusInv, loopVars, Close, ghosts
<1>1. TypeOK'
  BY DEF TypeOK
<1>2. HolderPublishes' /\ NoSendOnClosed'
  BY DEF HolderPublishes, NoSendOnClosed
<1>3. LoopSeesOpenChannels'
  BY DEF TypeOK, LoopSeesOpenChannels
<1> QED  BY <1>1, <1>2, <1>3

LEMMA ReceiveInv ==
    ASSUME BusInv, NEW s \in Subscription, Receive(s)
    PROVE  BusInv'
<1>1. chan[s] \in Seq(1..MaxMessages) /\ got[s] \in Seq(1..MaxMessages) /\ chan[s] # <<>>
  BY DEF BusInv, TypeOK, Receive, loopVars
<1>2. /\ Head(chan[s]) \in 1..MaxMessages
      /\ Tail(chan[s]) \in Seq(1..MaxMessages)
      /\ Len(Tail(chan[s])) <= Len(chan[s])
  BY <1>1, AfterReceive
<1>3. got' \in [Subscription -> Seq(1..MaxMessages)]
  BY <1>1, <1>2 DEF BusInv, TypeOK, Receive, loopVars
<1>4. chan' \in [Subscription -> Seq(1..MaxMessages)]
  BY <1>2 DEF BusInv, TypeOK, Receive, loopVars
<1>5. ASSUME NEW t \in Subscription PROVE Len(chan'[t]) <= Buffer
  <2>1. Len(chan[t]) <= Buffer
    BY DEF BusInv, TypeOK
  <2>2. CASE t = s
    <3>1. chan'[t] = Tail(chan[t])
      BY <2>2 DEF BusInv, TypeOK, Receive, loopVars
    <3> QED  BY <1>1, <1>2, <2>1, <2>2, <3>1, BufferAssumption
  <2>3. CASE t # s
    <3>1. chan'[t] = chan[t]
      BY <2>3 DEF BusInv, TypeOK, Receive, loopVars
    <3> QED  BY <2>1, <3>1
  <2> QED  BY <2>2, <2>3
<1>6. TypeOK'
  BY <1>3, <1>4, <1>5 DEF BusInv, TypeOK, Receive, loopVars
<1>7. HolderPublishes' /\ LoopSeesOpenChannels' /\ NoSendOnClosed'
  BY DEF BusInv, HolderPublishes, LoopSeesOpenChannels, NoSendOnClosed, Receive, loopVars
<1> QED  BY <1>6, <1>7 DEF BusInv

-----------------------------------------------------------------------------
LEMMA NextInv == BusInv /\ [Next]_vars => BusInv'
<1> SUFFICES ASSUME BusInv, [Next]_vars PROVE BusInv'
  OBVIOUS
<1>1. CASE UNCHANGED vars
  BY <1>1, Stutter
<1>2. ASSUME NEW p \in Publisher, Publish(p) PROVE BusInv'
  BY <1>2, PublishLockInv, PublishSendInv, PublishUnlockInv DEF Publish
<1>3. ASSUME NEW s \in Subscription,
             Subscribe(s) \/ Cancel(s) \/ Deregister(s) \/ Close(s) \/ Receive(s)
      PROVE  BusInv'
  BY <1>3, SubscribeInv, CancelInv, DeregisterInv, CloseInv, ReceiveInv
<1> QED  BY <1>1, <1>2, <1>3 DEF Next

LEMMA Invariance == Spec => []BusInv
<1> QED  BY InitInv, NextInv, PTL DEF Spec

\* The bus is well typed, and no channel holds more than Buffer messages
\* (NewLocal's bound).
THEOREM TypeCorrect == Spec => []TypeOK
<1>1. BusInv => TypeOK
  BY DEF BusInv
<1> QED  BY <1>1, Invariance, PTL

\* The loop of Publish only ever has open channels before it.
THEOREM LoopCorrect == Spec => []LoopSeesOpenChannels
<1>1. BusInv => LoopSeesOpenChannels
  BY DEF BusInv
<1> QED  BY <1>1, Invariance, PTL

\* Publish never sends on a closed channel, although the channel is closed
\* outside the lock.
THEOREM SendsAreSafe == Spec => []NoSendOnClosed
<1>1. BusInv => NoSendOnClosed
  BY DEF BusInv
<1> QED  BY <1>1, Invariance, PTL

-----------------------------------------------------------------------------
\* What a consumer has and will get, in order.

LEMMA AppendToAll ==
    ASSUME NEW S, NEW g \in Seq(S), NEW c \in Seq(S), NEW e \in S
    PROVE  /\ g \o c \in Seq(S) /\ g \o Append(c, e) \in Seq(S)
           /\ Len(g \o Append(c, e)) = Len(g \o c) + 1
           /\ \A i \in 1..Len(g \o c) : (g \o Append(c, e))[i] = (g \o c)[i]
           /\ (g \o Append(c, e))[Len(g \o c) + 1] = e
<1>1. /\ Append(c, e) \in Seq(S) /\ Len(Append(c, e)) = Len(c) + 1
      /\ Len(g) \in Nat /\ Len(c) \in Nat
      /\ Append(c, e)[Len(c) + 1] = e
  OBVIOUS
<1>2. \A i \in 1..Len(c) : Append(c, e)[i] = c[i]
  OBVIOUS
<1>3. /\ g \o c \in Seq(S) /\ Len(g \o c) = Len(g) + Len(c)
      /\ g \o Append(c, e) \in Seq(S) /\ Len(g \o Append(c, e)) = Len(g) + Len(c) + 1
  BY <1>1
<1>4. ASSUME NEW i \in 1..(Len(g) + Len(c))
      PROVE  (g \o Append(c, e))[i] = (g \o c)[i]
  BY <1>1, <1>2
<1>5. (g \o Append(c, e))[Len(g) + Len(c) + 1] = e
  BY <1>1
<1> QED  BY <1>1, <1>3, <1>4, <1>5

\* A reception moves a message from the channel to the consumer.
LEMMA MoveInAll ==
    ASSUME NEW S, NEW g \in Seq(S), NEW c \in Seq(S), c # <<>>
    PROVE  Append(g, Head(c)) \o Tail(c) = g \o c
<1>1. /\ Len(g) \in Nat /\ Len(c) \in Nat /\ Len(c) # 0
      /\ Head(c) = c[1] /\ Head(c) \in S
      /\ Tail(c) \in Seq(S) /\ Len(Tail(c)) = Len(c) - 1
  OBVIOUS
<1>2. \A i \in 1..(Len(c) - 1) : Tail(c)[i] = c[i + 1]
  BY <1>1
<1>3. /\ Append(g, Head(c)) \in Seq(S) /\ Len(Append(g, Head(c))) = Len(g) + 1
      /\ Append(g, Head(c))[Len(g) + 1] = c[1]
  BY <1>1
<1>4. \A i \in 1..Len(g) : Append(g, Head(c))[i] = g[i]
  BY <1>1
<1> DEFINE l == Append(g, Head(c)) \o Tail(c)  r == g \o c
<1>5. l \in Seq(S) /\ Len(l) = Len(g) + Len(c) /\ r \in Seq(S) /\ Len(r) = Len(g) + Len(c)
  BY <1>1, <1>3
<1>6. ASSUME NEW i \in 1..(Len(g) + Len(c)) PROVE l[i] = r[i]
  <2>1. CASE i <= Len(g)
    BY <2>1, <1>1, <1>3, <1>4
  <2>2. CASE i = Len(g) + 1
    BY <2>2, <1>1, <1>3
  <2>3. CASE i > Len(g) + 1
    <3>1. l[i] = Tail(c)[i - (Len(g) + 1)] /\ r[i] = c[i - Len(g)]
      BY <2>3, <1>1, <1>3
    <3>2. i - (Len(g) + 1) \in 1..(Len(c) - 1) /\ (i - (Len(g) + 1)) + 1 = i - Len(g)
      BY <2>3, <1>1
    <3> QED  BY <1>2, <3>1, <3>2
  <2> QED  BY <2>1, <2>2, <2>3, <1>1
<1>7. l = r
  BY <1>5, <1>6, SeqEqual
<1> QED  BY <1>7

LEMMA SentToAll ==
    ASSUME NEW g \in Seq(Nat), NEW c \in Seq(Nat), NEW e \in Nat,
           \A i, j \in DOMAIN (g \o c) : i < j => (g \o c)[i] < (g \o c)[j],
           \A x \in Elements(g \o c) : x < e
    PROVE  /\ Elements(g \o Append(c, e)) = Elements(g \o c) \cup {e}
           /\ \A i, j \in DOMAIN (g \o Append(c, e)) :
                i < j => (g \o Append(c, e))[i] < (g \o Append(c, e))[j]
<1> DEFINE a == g \o c  b == g \o Append(c, e)
<1>1. /\ a \in Seq(Nat) /\ b \in Seq(Nat) /\ Len(b) = Len(a) + 1
      /\ \A i \in 1..Len(a) : b[i] = a[i]
      /\ b[Len(a) + 1] = e
  BY AppendToAll
<1>0. /\ \A i, j \in DOMAIN a : i < j => a[i] < a[j]
      /\ \A x \in Elements(a) : x < e
  OBVIOUS
<1> HIDE DEF a, b
<1>2. DOMAIN a = 1..Len(a) /\ DOMAIN b = 1..(Len(a) + 1) /\ Len(a) \in Nat
  BY <1>1
<1>3. Elements(b) = Elements(a) \cup {e}
  <2>1. ASSUME NEW i \in DOMAIN b PROVE b[i] \in Elements(a) \cup {e}
    <3>1. CASE i \in 1..Len(a)
      BY <1>1, <1>2, <3>1 DEF Elements
    <3>2. CASE i = Len(a) + 1
      BY <1>1, <3>2
    <3> QED  BY <1>2, <3>1, <3>2
  <2>2. \A i \in DOMAIN a : i \in DOMAIN b /\ b[i] = a[i]
    BY <1>1, <1>2
  <2>3. Len(a) + 1 \in DOMAIN b
    BY <1>2
  <2> QED  BY <1>1, <2>1, <2>2, <2>3 DEF Elements
<1>4. ASSUME NEW i \in DOMAIN b, NEW j \in DOMAIN b, i < j PROVE b[i] < b[j]
  <2>1. i \in DOMAIN a /\ b[i] = a[i] /\ a[i] \in Elements(a)
    BY <1>1, <1>2, <1>4 DEF Elements
  <2>2. CASE j \in DOMAIN a
    BY <1>0, <1>1, <1>2, <1>4, <2>1, <2>2
  <2>3. CASE j \notin DOMAIN a
    <3>1. j = Len(a) + 1
      BY <1>2, <2>3
    <3> QED  BY <1>0, <1>1, <2>1, <3>1
  <2> QED  BY <2>2, <2>3
<1> QED  BY <1>3, <1>4 DEF a, b

-----------------------------------------------------------------------------
\* Order, and who misses what.

All(s) == got[s] \o chan[s]

\* The last message that s has been served or skipped for.
Waits(s)   == \E p \in Publisher : s \in todo[p]
Visited(s) == IF Waits(s) THEN published - 1 ELSE published

OrderInv ==
    /\ \A s \in Subscription : state[s] = "new" =>
         got[s] = <<>> /\ chan[s] = <<>> /\ missed[s] = {}
    /\ InOrder
    /\ \A s \in Subscription : \A e \in Elements(All(s)) : e <= Visited(s)
    /\ \A s \in subscribers :
         /\ since[s] <= Visited(s)
         /\ Elements(All(s)) \cup missed[s] = (since[s] + 1)..Visited(s)
         /\ Elements(All(s)) \cap missed[s] = {}

LEMMA NumbersAreNat ==
    ASSUME BusInv
    PROVE  /\ published \in Nat /\ 1..MaxMessages \subseteq Nat
           /\ \A s \in Subscription : /\ got[s] \in Seq(Nat) /\ chan[s] \in Seq(Nat)
                                      /\ Elements(All(s)) \subseteq Nat
                                      /\ since[s] \in Nat
<1>1. published \in Nat /\ 1..MaxMessages \subseteq Nat /\ 0..MaxMessages \subseteq Nat
  BY MaxMessagesAssumption DEF BusInv, TypeOK
<1>2. ASSUME NEW s \in Subscription
      PROVE  got[s] \in Seq(Nat) /\ chan[s] \in Seq(Nat) /\ since[s] \in Nat
  <2>1. /\ got[s] \in Seq(1..MaxMessages) /\ chan[s] \in Seq(1..MaxMessages)
        /\ since[s] \in 0..MaxMessages
    BY DEF BusInv, TypeOK
  <2> QED  BY <1>1, <2>1, SeqMonotonic
<1>3. ASSUME NEW s \in Subscription PROVE Elements(All(s)) \subseteq Nat
  <2>1. All(s) \in Seq(Nat)
    BY <1>2, ConcatProperties DEF All
  <2> QED  BY <2>1 DEF Elements
<1> QED  BY <1>1, <1>2, <1>3

LEMMA OrderInit == Init => OrderInv
<1> SUFFICES ASSUME Init PROVE OrderInv
  OBVIOUS
<1>1. \A s \in Subscription : All(s) = <<>>
  BY DEF Init, All
<1>2. \A s \in Subscription : Elements(All(s)) = {}
  BY <1>1 DEF Elements
<1>3. InOrder
  <2>1. DOMAIN <<>> = {}
    OBVIOUS
  <2>2. \A s \in Subscription : DOMAIN (got[s] \o chan[s]) = {}
    BY <1>1, <2>1 DEF All
  <2> QED  BY <2>2 DEF InOrder
<1> QED  BY <1>2, <1>3 DEF Init, OrderInv

\* Steps that move no message.
LEMMA OrderKept ==
    ASSUME BusInv, OrderInv, BusInv',
           UNCHANGED <<published, got, chan, missed, since>>,
           subscribers' \subseteq subscribers,
           \A s \in subscribers' : Waits(s)' <=> Waits(s),
           \A s \in Subscription : Visited(s) <= Visited(s)',
           \A s \in Subscription : state'[s] = "new" => state[s] = "new"
    PROVE  OrderInv'
<1>1. \A s \in Subscription : All(s)' = All(s) /\ Elements(All(s))' = Elements(All(s))
  BY DEF All, Elements
<1>2. \A s \in subscribers' : Visited(s)' = Visited(s) /\ s \in subscribers /\ s \in Subscription
  BY DEF Visited, BusInv, TypeOK
<1>3. InOrder'
  BY DEF OrderInv, InOrder
<1>4. ASSUME NEW s \in Subscription, NEW e \in Elements(All(s))'
      PROVE  e <= Visited(s)'
  <2>1. e \in Nat /\ Visited(s) \in Int /\ Visited(s)' \in Int /\ e <= Visited(s)
    BY <1>1, <1>4, NumbersAreNat DEF OrderInv, Visited
  <2> QED  BY <2>1
<1> QED  BY <1>1, <1>2, <1>3, <1>4 DEF OrderInv

\* A publication is due to every subscriber, and is the newest.
LEMMA LockOrder ==
    ASSUME BusInv, OrderInv, BusInv', NEW p \in Publisher, PublishLock(p)
    PROVE  OrderInv'
<1>1. /\ mu = {} /\ todo' = [todo EXCEPT ![p] = subscribers] /\ published' = published + 1
      /\ UNCHANGED <<subscribers, state, chan, got, missed, since>>
  BY DEF PublishLock, Enter, ghosts
<1>2. published \in Nat /\ \A q \in Publisher : todo[q] = {}
  BY <1>1, NumbersAreNat DEF BusInv, LoopSeesOpenChannels
<1>7. /\ \A s \in Subscription : ~Waits(s)
      /\ \A s \in subscribers : Waits(s)'
  BY <1>1, <1>2 DEF Waits, BusInv, TypeOK
<1>3. \A s \in Subscription : /\ Elements(All(s))' = Elements(All(s))
                              /\ Visited(s) = published
                              /\ Visited(s)' \in {published, published + 1}
                              /\ s \in subscribers => Visited(s)' = published
  BY <1>1, <1>2, <1>7 DEF All, Elements, Visited
<1>4. subscribers \subseteq Subscription
  BY DEF BusInv, TypeOK
<1>5. InOrder'
  BY <1>1 DEF OrderInv, InOrder
<1>6. ASSUME NEW s \in Subscription, NEW e \in Elements(All(s))'
      PROVE  e <= Visited(s)'
  <2>1. e \in Nat /\ e <= published
    BY <1>3, <1>6, NumbersAreNat DEF OrderInv
  <2> QED  BY <1>2, <1>3, <2>1
<1> QED  BY <1>1, <1>3, <1>4, <1>5, <1>6 DEF OrderInv

\* The newest message goes behind what s has, or s misses it.
LEMMA SendOrder ==
    ASSUME BusInv, OrderInv, BusInv', NEW p \in Publisher, PublishSend(p)
    PROVE  OrderInv'
<1>0. message[p] = published
  BY DEF PublishSend, BusInv, HolderPublishes
<1>1. PICK s \in todo[p] :
        /\ todo' = [todo EXCEPT ![p] = @ \ {s}]
        /\ \/ /\ missed' = [missed EXCEPT ![s] = @ \cup {published}]
              /\ UNCHANGED chan
           \/ /\ chan' = [chan EXCEPT ![s] = Append(@, published)]
              /\ UNCHANGED missed
  BY <1>0 DEF PublishSend
<1>2. UNCHANGED <<subscribers, published, state, got, since>>
  BY DEF PublishSend
<1>3. /\ s \in subscribers /\ s \in Subscription /\ state[s] # "new"
      /\ published \in Nat /\ published >= 1
  <2>2. published \in 1..MaxMessages
    BY DEF PublishSend, BusInv, HolderPublishes
  <2>3. s \in subscribers /\ s \in Subscription /\ state[s] # "new"
    BY DEF BusInv, TypeOK, LoopSeesOpenChannels
  <2> QED  BY <2>2, <2>3, NumbersAreNat
<1>4. /\ Visited(s) = published - 1 /\ Visited(s)' = published
      /\ \A t \in Subscription : t # s => Visited(t)' = Visited(t)
  <2>1. \A q \in Publisher : q # p => todo[q] = {}
    BY DEF PublishSend, BusInv, HolderPublishes, LoopSeesOpenChannels
  <2>2. todo'[p] = todo[p] \ {s} /\ \A q \in Publisher : q # p => todo'[q] = todo[q]
    BY <1>1 DEF BusInv, TypeOK
  <2>3. Waits(s) /\ ~Waits(s)' /\ \A t \in Subscription : t # s => (Waits(t)' <=> Waits(t))
    BY <2>1, <2>2 DEF Waits
  <2> QED  BY <1>2, <2>3 DEF Visited
<1>5. \A t \in Subscription : t # s =>
        /\ All(t)' = All(t) /\ Elements(All(t))' = Elements(All(t))
        /\ chan'[t] = chan[t] /\ missed'[t] = missed[t]
  <2> SUFFICES ASSUME NEW t \in Subscription, t # s
               PROVE  /\ All(t)' = All(t) /\ Elements(All(t))' = Elements(All(t))
                      /\ chan'[t] = chan[t] /\ missed'[t] = missed[t]
    OBVIOUS
  <2>1. chan'[t] = chan[t] /\ missed'[t] = missed[t]
    BY <1>1 DEF BusInv, TypeOK
  <2>2. All(t)' = All(t)
    BY <1>2, <2>1 DEF All
  <2> QED  BY <2>1, <2>2 DEF Elements
<1>6. /\ Elements(All(s)) \subseteq Nat /\ since[s] \in Nat
      /\ got[s] \in Seq(Nat) /\ chan[s] \in Seq(Nat)
      /\ \A e \in Elements(All(s)) : e < published
  BY <1>3, <1>4, NumbersAreNat DEF OrderInv
<1>7. \A i, j \in DOMAIN All(s) : i < j => All(s)[i] < All(s)[j]
  BY <1>3 DEF OrderInv, InOrder, All
<1>8. /\ Elements(All(s))' \cup missed'[s] = Elements(All(s)) \cup missed[s] \cup {published}
      /\ \/ Elements(All(s))' = Elements(All(s)) /\ missed'[s] = missed[s] \cup {published}
         \/ Elements(All(s))' = Elements(All(s)) \cup {published} /\ missed'[s] = missed[s]
      /\ Elements(All(s))' \subseteq Elements(All(s)) \cup {published}
      /\ \A i, j \in DOMAIN All(s)' : i < j => All(s)'[i] < All(s)'[j]
  <2>1. CASE missed' = [missed EXCEPT ![s] = @ \cup {published}] /\ UNCHANGED chan
    <3>1. All(s)' = All(s) /\ missed'[s] = missed[s] \cup {published}
      BY <1>2, <1>3, <2>1 DEF BusInv, TypeOK, All
    <3> QED  BY <1>7, <3>1 DEF Elements
  <2>2. CASE chan' = [chan EXCEPT ![s] = Append(@, published)] /\ UNCHANGED missed
    <3>1. All(s)' = got[s] \o Append(chan[s], published) /\ missed'[s] = missed[s]
      BY <1>2, <1>3, <2>2 DEF BusInv, TypeOK, All
    <3>2. /\ Elements(All(s)') = Elements(All(s)) \cup {published}
          /\ \A i, j \in DOMAIN All(s)' : i < j => All(s)'[i] < All(s)'[j]
      <4>1. /\ \A i, j \in DOMAIN (got[s] \o chan[s]) :
                 i < j => (got[s] \o chan[s])[i] < (got[s] \o chan[s])[j]
            /\ \A x \in Elements(got[s] \o chan[s]) : x < published
        BY <1>6, <1>7 DEF All
      <4>2. LET b == got[s] \o Append(chan[s], published)
            IN  /\ Elements(b) = Elements(got[s] \o chan[s]) \cup {published}
                /\ \A i, j \in DOMAIN b : i < j => b[i] < b[j]
        BY <1>3, <1>6, <4>1, SentToAll
      <4> QED  BY <3>1, <4>2 DEF All
    <3>3. Elements(All(s))' = Elements(All(s)')
      BY DEF Elements
    <3> QED  BY <3>1, <3>2, <3>3
  <2> QED  BY <1>1, <2>1, <2>2
<1>9. InOrder'
  <2>1. ASSUME NEW t \in Subscription, NEW i \in DOMAIN All(t)', NEW j \in DOMAIN All(t)', i < j
        PROVE  All(t)'[i] < All(t)'[j]
    BY <1>5, <1>8, <2>1 DEF OrderInv, InOrder, All
  <2> QED  BY <2>1 DEF InOrder, All
<1>10. \A t \in Subscription : \A e \in Elements(All(t))' : e <= Visited(t)'
  BY <1>3, <1>4, <1>5, <1>6, <1>8 DEF OrderInv
<1>11. ASSUME NEW t \in subscribers
       PROVE  /\ since[t] <= Visited(t)'
              /\ Elements(All(t))' \cup missed'[t] = (since[t] + 1)..Visited(t)'
              /\ Elements(All(t))' \cap missed'[t] = {}
  <2>1. CASE t = s
    <3>1. /\ since[s] <= published - 1
          /\ Elements(All(s)) \cup missed[s] = (since[s] + 1)..(published - 1)
          /\ Elements(All(s)) \cap missed[s] = {}
      BY <1>3, <1>4 DEF OrderInv
    <3>2. (since[s] + 1)..(published - 1) \cup {published} = (since[s] + 1)..published
      BY <1>3, <1>6, <3>1
    <3>3. published \notin Elements(All(s)) \cup missed[s]
      BY <1>3, <1>6, <3>1
    <3>4. Elements(All(s))' \cap missed'[s] = {}
      BY <1>8, <3>1, <3>3
    <3> QED  BY <1>3, <1>4, <1>6, <1>8, <2>1, <3>1, <3>2, <3>4
  <2>2. CASE t # s
    BY <1>4, <1>5, <2>2 DEF OrderInv, BusInv, TypeOK
  <2> QED  BY <2>1, <2>2
<1>12. \A t \in Subscription : state[t] = "new" =>
         got'[t] = <<>> /\ chan'[t] = <<>> /\ missed'[t] = {}
  BY <1>2, <1>3, <1>5 DEF OrderInv
<1> QED  BY <1>2, <1>9, <1>10, <1>11, <1>12 DEF OrderInv

\* A new subscriber is owed what comes from now on.
LEMMA SubscribeOrder ==
    ASSUME BusInv, OrderInv, BusInv', NEW s \in Subscription, Subscribe(s)
    PROVE  OrderInv'
<1>1. /\ mu = {} /\ state[s] = "new" /\ subscribers' = subscribers \cup {s}
      /\ state' = [state EXCEPT ![s] = "active"]
      /\ since' = [since EXCEPT ![s] = published]
      /\ UNCHANGED <<todo, published, got, chan, missed>>
  BY DEF Subscribe, loopVars
<1>2. (\A p \in Publisher : todo[p] = {}) /\ s \notin subscribers /\ published \in Nat
  BY <1>1, NumbersAreNat DEF BusInv, LoopSeesOpenChannels
<1>3. \A t \in Subscription : /\ Elements(All(t))' = Elements(All(t))
                              /\ Visited(t)' = Visited(t) /\ Visited(t) = published
                              /\ t # s => since'[t] = since[t]
  BY <1>1, <1>2 DEF All, Elements, Visited, Waits, BusInv, TypeOK
<1>4. since'[s] = published
  BY <1>1 DEF BusInv, TypeOK
<1>5. Elements(All(s)) = {} /\ missed[s] = {}
  <2>1. got[s] = <<>> /\ chan[s] = <<>> /\ missed[s] = {}
    BY <1>1 DEF OrderInv
  <2>2. All(s) = <<>>
    BY <2>1 DEF All
  <2> QED  BY <2>1, <2>2 DEF Elements
<1>6. (published + 1)..published = {}
  BY <1>2
<1>7. ASSUME NEW t \in subscribers'
      PROVE  /\ since'[t] <= Visited(t)'
             /\ Elements(All(t))' \cup missed'[t] = (since'[t] + 1)..Visited(t)'
             /\ Elements(All(t))' \cap missed'[t] = {}
  <2>1. CASE t = s
    BY <1>1, <1>2, <1>3, <1>4, <1>5, <1>6, <2>1
  <2>2. CASE t # s
    BY <1>1, <1>3, <2>2 DEF OrderInv, BusInv, TypeOK
  <2> QED  BY <2>1, <2>2
<1>8. InOrder'
  BY <1>1 DEF OrderInv, InOrder
<1>9. \A t \in Subscription : state'[t] = "new" => state[t] = "new"
  BY <1>1 DEF BusInv, TypeOK
<1> QED  BY <1>1, <1>3, <1>7, <1>8, <1>9 DEF OrderInv

LEMMA ReceiveOrder ==
    ASSUME BusInv, OrderInv, BusInv', NEW s \in Subscription, Receive(s)
    PROVE  OrderInv'
<1>1. /\ chan[s] # <<>>
      /\ got' = [got EXCEPT ![s] = Append(@, Head(chan[s]))]
      /\ chan' = [chan EXCEPT ![s] = Tail(@)]
      /\ UNCHANGED <<subscribers, todo, published, state, missed, since>>
  BY DEF Receive, loopVars
<1>2. /\ got'[s] = Append(got[s], Head(chan[s])) /\ chan'[s] = Tail(chan[s])
      /\ \A t \in Subscription : t # s => got'[t] = got[t] /\ chan'[t] = chan[t]
  BY <1>1 DEF BusInv, TypeOK
<1>3. got[s] \in Seq(Nat) /\ chan[s] \in Seq(Nat)
  BY NumbersAreNat
<1>4. \A t \in Subscription : got'[t] \o chan'[t] = got[t] \o chan[t]
  <2>1. got'[s] \o chan'[s] = got[s] \o chan[s]
    BY <1>1, <1>2, <1>3, MoveInAll
  <2> QED  BY <1>2, <2>1
<1>5. \A t \in Subscription : /\ Elements(All(t))' = Elements(All(t))
                              /\ Visited(t)' = Visited(t)
  BY <1>1, <1>4 DEF All, Elements, Visited, Waits
<1>6. InOrder'
  BY <1>4 DEF OrderInv, InOrder
<1>7. \A t \in Subscription : state[t] = "new" => got'[t] = <<>> /\ chan'[t] = <<>>
  BY <1>1, <1>2 DEF OrderInv
<1>8. subscribers \subseteq Subscription
  BY DEF BusInv, TypeOK
<1> QED  BY <1>1, <1>5, <1>6, <1>7, <1>8 DEF OrderInv

LEMMA OrderNext == BusInv /\ BusInv' /\ OrderInv /\ [Next]_vars => OrderInv'
<1> SUFFICES ASSUME BusInv, BusInv', OrderInv, [Next]_vars PROVE OrderInv'
  OBVIOUS
<1>1. published \in Nat
  BY NumbersAreNat
<1>2. CASE UNCHANGED vars
  BY <1>1, <1>2, OrderKept DEF vars, loopVars, ghosts, Visited, Waits
<1>3. ASSUME NEW p \in Publisher, PublishUnlock(p) PROVE OrderInv'
  BY <1>1, <1>3, OrderKept DEF PublishUnlock, ghosts, Visited, Waits
<1>4. ASSUME NEW s \in Subscription, Cancel(s) \/ Deregister(s) \/ Close(s) PROVE OrderInv'
  <2>1. /\ UNCHANGED <<todo, published, got, chan, missed, since>>
        /\ subscribers' \subseteq subscribers
    BY <1>4 DEF Cancel, Deregister, Close, loopVars, ghosts
  <2>2. \A t \in Subscription : state'[t] = "new" => state[t] = "new"
    BY <1>4 DEF Cancel, Deregister, Close, BusInv, TypeOK
  <2>3. \A t \in Subscription : Visited(t) <= Visited(t)'
    BY <1>1, <2>1 DEF Visited, Waits
  <2>4. \A t \in Subscription : Waits(t)' <=> Waits(t)
    BY <2>1 DEF Waits
  <2>5. subscribers' \subseteq Subscription
    BY DEF BusInv, TypeOK
  <2> QED  BY <2>1, <2>2, <2>3, <2>4, <2>5, OrderKept
<1> QED  BY <1>2, <1>3, <1>4, LockOrder, SendOrder, SubscribeOrder, ReceiveOrder DEF Next, Publish

LEMMA OrderInvariance == Spec => []OrderInv
<1> QED  BY Invariance, OrderInit, OrderNext, PTL DEF Spec

\* Whoever subscribes receives in the order of publication.
THEOREM DeliveryInOrder == Spec => []InOrder
<1>1. OrderInv => InOrder
  BY DEF OrderInv
<1> QED  BY <1>1, OrderInvariance, PTL

\* A subscriber is served or skipped for its own full channel (NFR-R2).
THEOREM EverybodyServedOrSkipped == Spec => []ServedOrSkipped
<1>1. BusInv /\ OrderInv => ServedOrSkipped
  <2> SUFFICES ASSUME BusInv, OrderInv, NEW s \in subscribers
               PROVE  /\ Elements(got[s] \o chan[s]) \cup missed[s]
                           = ((since[s] + 1)..published) \ Due(s)
                      /\ Elements(got[s] \o chan[s]) \cap missed[s] = {}
    BY DEF ServedOrSkipped
  <2>1. /\ Elements(got[s] \o chan[s]) \cup missed[s] = (since[s] + 1)..Visited(s)
        /\ Elements(got[s] \o chan[s]) \cap missed[s] = {}
    BY DEF OrderInv, All
  <2>2. published \in Nat /\ since[s] \in Nat
    BY NumbersAreNat DEF BusInv, TypeOK
  <2>3. \A p \in Publisher : s \in todo[p] => message[p] = published
    BY DEF BusInv, LoopSeesOpenChannels, HolderPublishes
  <2>4. Due(s) = IF Waits(s) THEN {published} ELSE {}
    BY <2>3 DEF Due, Waits
  <2>5. (since[s] + 1)..(published - 1) = ((since[s] + 1)..published) \ {published}
    BY <2>2
  <2>6. CASE Waits(s)
    BY <2>1, <2>4, <2>5, <2>6 DEF Visited
  <2>7. CASE ~Waits(s)
    BY <2>1, <2>4, <2>7 DEF Visited
  <2> QED  BY <2>6, <2>7
<1> QED  BY <1>1, Invariance, OrderInvariance, PTL
=============================================================================
