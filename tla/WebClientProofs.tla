--------------------------- MODULE WebClientProofs ---------------------------
(***************************************************************************)
(* Theorems about WebClient, for every set of rooms and every bound.        *)
(***************************************************************************)
EXTENDS WebClient, FiniteSetTheorems, TLAPS

\* An interval that is held is running.
PollerHeld == held => pollers > 0

PageInv == TypeOK /\ PollerHeld /\ NeverStranded

LEMMA FrameTypes ==
    ASSUME NEW r \in Room
    PROVE  Join(r) \in Frames /\ Leave(r) \in Frames /\ Post(r) \in Frames
  BY DEF Join, Leave, Post, Frames

LEMMA InitInv == Init => PageInv
<1> SUFFICES ASSUME Init PROVE PageInv
  OBVIOUS
<1>1. left \in [Kinds -> Nat]
  BY BoundAssumption DEF Init, Kinds
<1>2. up \in [Socket -> Seq(Frames)] /\ phase \in [Socket -> Phases]
  BY DEF Init, Phases
<1>3. TypeOK
  BY <1>1, <1>2 DEF Init, TypeOK
<1>4. PollerHeld /\ NeverStranded
  BY DEF Init, PollerHeld, NeverStranded
<1> QED  BY <1>3, <1>4 DEF PageInv

\* connect makes a new socket, and it is the page's.
LEMMA ConnectMakes ==
    ASSUME TypeOK, Connect
    PROVE  /\ phase' \in [Socket -> Phases] /\ ws' \in Socket /\ ws' # NoSocket
           /\ phase'[ws'] = "connecting"
<1>1. PICK s \in Socket : phase' = [phase EXCEPT ![s] = "connecting"] /\ ws' = s
  BY DEF Connect, Unused
<1> QED  BY <1>1 DEF TypeOK, Phases, Socket, NoSocket

LEMMA EnterKeeps ==
    ASSUME PageInv, EnterApp, UNCHANGED logouts, probing' \in BOOLEAN, auths' \in Nat
    PROVE  PageInv'
<1>1. TypeOK /\ pollers \in Nat
  BY DEF PageInv, TypeOK
<1>2. /\ phase' \in [Socket -> Phases] /\ ws' \in Socket /\ ws' # NoSocket
      /\ phase'[ws'] = "connecting"
  BY <1>1, ConnectMakes DEF EnterApp
<1>3. spoiled' \in BOOLEAN
  BY DEF EnterApp
<1>4. pollers' \in Nat /\ pollers' > 0
  BY <1>1 DEF EnterApp
<1> QED  BY <1>1, <1>2, <1>3, <1>4 DEF EnterApp, PageInv, TypeOK, PollerHeld, NeverStranded

\* A frame more under way, on the page's socket or nowhere.
LEMMA SendTypes ==
    ASSUME TypeOK, NEW frames \in Seq(Frames), Send(frames)
    PROVE  up' \in [Socket -> Seq(Frames)]
<1>1. CASE ws \in Socket
  <2>1. up[ws] \o frames \in Seq(Frames)
    BY <1>1 DEF TypeOK
  <2> QED  BY <2>1 DEF Send, TypeOK
<1>2. CASE ws = NoSocket
  BY <1>2 DEF Send, Connected, TypeOK
<1> QED  BY <1>1, <1>2 DEF TypeOK

\* A socket ends: whoever is logged in has a timer to connect again.
LEMMA CloseKeeps ==
    ASSUME PageInv, NEW s \in Socket, CloseHandler(s), left' \in [Kinds -> Nat]
    PROVE  PageInv'
<1>1. TypeOK
  BY DEF PageInv
<1>2. up' \in [Socket -> Seq(Frames)] /\ member' \in [Socket -> SUBSET Room]
  <2>1. <<>> \in Seq(Frames)
    OBVIOUS
  <2> QED  BY <1>1, <2>1 DEF CloseHandler, Ends, TypeOK
<1>3. phase' \in [Socket -> Phases]
  BY <1>1 DEF CloseHandler, TypeOK, Phases
<1>4. timers' \in Nat /\ (user => timers' > 0)
  BY <1>1 DEF CloseHandler, TypeOK
<1> QED  BY <1>1, <1>2, <1>3, <1>4
  DEF CloseHandler, PageInv, TypeOK, PollerHeld, NeverStranded, requestVars

LEMMA SpendTypes ==
    ASSUME TypeOK, NEW k \in Kinds, Spend(k)
    PROVE  left' \in [Kinds -> Nat]
<1>1. left[k] \in Nat /\ left[k] > 0
  BY DEF TypeOK, Spend
<1>2. left[k] - 1 \in Nat
  BY <1>1
<1> QED  BY <1>2 DEF TypeOK, Spend

LEMMA NextInv == PageInv /\ [Next]_vars => PageInv'
<1> SUFFICES ASSUME PageInv, [Next]_vars PROVE PageInv'
  OBVIOUS
<1> USE DEF pageVars, requestVars, socketVars
<1>t. TypeOK /\ PollerHeld /\ NeverStranded
  BY DEF PageInv
\* Of the page's own variables only these actions change what the last two say.
<1>1. CASE Submit
  <2>1. left' \in [Kinds -> Nat] /\ auths' \in Nat
    BY <1>1, <1>t, SpendTypes DEF Submit, Kinds, TypeOK
  <2> QED  BY <1>1, <1>t, <2>1 DEF Submit, PageInv, TypeOK, PollerHeld, NeverStranded
<1>2. CASE AuthAccepted
  BY <1>2, <1>t, EnterKeeps DEF AuthAccepted, TypeOK
<1>3. CASE AuthRefused
  BY <1>3, <1>t DEF AuthRefused, PageInv, TypeOK, PollerHeld, NeverStranded
<1>4. CASE ProbeAccepted
  BY <1>4, <1>t, EnterKeeps DEF ProbeAccepted, TypeOK
<1>5. CASE ProbeRefused
  BY <1>5, <1>t DEF ProbeRefused, PageInv, TypeOK, PollerHeld, NeverStranded
<1>6. CASE Logout
  <2>1. left' \in [Kinds -> Nat] /\ logouts' \in Nat
    BY <1>6, <1>t, SpendTypes DEF Logout, Kinds, TypeOK
  <2> QED  BY <1>6, <1>t, <2>1 DEF Logout, PageInv, TypeOK, PollerHeld, NeverStranded
<1>7. CASE LoggedOut
  <2>1. phase' \in [Socket -> Phases]
    BY <1>7, <1>t DEF LoggedOut, Shut, TypeOK, Phases
  <2>2. pollers' \in Nat /\ logouts' \in Nat
    BY <1>7, <1>t DEF LoggedOut, PollerHeld, TypeOK
  <2> QED  BY <1>7, <1>t, <2>1, <2>2 DEF LoggedOut, PageInv, TypeOK, PollerHeld, NeverStranded
<1>8. ASSUME NEW r \in Room, JoinRoom(r) PROVE PageInv'
  <2>1. left' \in [Kinds -> Nat]
    BY <1>8, <1>t, SpendTypes DEF JoinRoom, Kinds
  <2>2. up' \in [Socket -> Seq(Frames)]
    <3>1. Send((IF InRoom THEN <<Leave(room)>> ELSE <<>>) \o <<Join(r)>>)
      BY <1>8 DEF JoinRoom
    <3>2. (IF InRoom THEN <<Leave(room)>> ELSE <<>>) \in Seq(Frames)
      BY <1>t, FrameTypes DEF InRoom, TypeOK
    <3>3. <<Join(r)>> \in Seq(Frames)
      BY FrameTypes
    <3>4. (IF InRoom THEN <<Leave(room)>> ELSE <<>>) \o <<Join(r)>> \in Seq(Frames)
      BY <3>2, <3>3
    <3> QED  BY <1>t, <3>1, <3>4, SendTypes
  <2>3. canSend' \in BOOLEAN
    BY <1>8 DEF JoinRoom, Connected
  <2> QED  BY <1>8, <1>t, <2>1, <2>2, <2>3
        DEF JoinRoom, PageInv, TypeOK, PollerHeld, NeverStranded
<1>9. CASE SubmitMessage
  <2>1. left' \in [Kinds -> Nat]
    BY <1>9, <1>t, SpendTypes DEF SubmitMessage, Kinds
  <2>2. <<Post(room)>> \in Seq(Frames)
    BY <1>9, <1>t, FrameTypes DEF SubmitMessage, InRoom, TypeOK
  <2>3. up' \in [Socket -> Seq(Frames)]
    BY <1>9, <1>t, <2>2, SendTypes DEF SubmitMessage
  <2> QED  BY <1>9, <1>t, <2>1, <2>3
        DEF SubmitMessage, PageInv, TypeOK, PollerHeld, NeverStranded
<1>10. CASE TimerFires
  <2>1. timers' \in Nat
    BY <1>10, <1>t DEF TimerFires, TypeOK
  <2>2. CASE user
    BY <1>10, <1>t, <2>1, <2>2, ConnectMakes
    DEF TimerFires, PageInv, TypeOK, PollerHeld, NeverStranded
  <2>3. CASE ~user
    BY <1>10, <1>t, <2>1, <2>3 DEF TimerFires, PageInv, TypeOK, PollerHeld, NeverStranded
  <2> QED  BY <2>2, <2>3
<1>11. ASSUME NEW s \in Socket, OpenEvent(s) PROVE PageInv'
  <2>1. phase' \in [Socket -> Phases] /\ canSend' \in BOOLEAN
    BY <1>11, <1>t DEF OpenEvent, TypeOK, Phases, InRoom
  <2>2. up' \in [Socket -> Seq(Frames)]
    <3>1. CASE InRoom /\ ws # NoSocket
      <4>1. Append(up[ws], Join(room)) \in Seq(Frames) /\ ws \in Socket
        BY <1>t, <3>1, FrameTypes DEF InRoom, TypeOK
      <4> QED  BY <1>11, <1>t, <4>1 DEF OpenEvent, TypeOK
    <3>2. CASE ~(InRoom /\ ws # NoSocket)
      BY <1>11, <1>t, <3>2 DEF OpenEvent, TypeOK
    <3> QED  BY <3>1, <3>2
  <2>3. NeverStranded'
    BY <1>11, <1>t DEF OpenEvent, TypeOK, NeverStranded
  <2> QED  BY <1>11, <1>t, <2>1, <2>2, <2>3 DEF OpenEvent, PageInv, TypeOK, PollerHeld
<1>12. ASSUME NEW s \in Socket, Refused(s) PROVE PageInv'
  BY <1>12, <1>t, SpendTypes, CloseKeeps DEF Refused, Kinds
<1>13. ASSUME NEW s \in Socket, Lose(s) PROVE PageInv'
  <2>1. left' \in [Kinds -> Nat]
    BY <1>13, <1>t, SpendTypes DEF Lose, Kinds
  <2>2. phase' \in [Socket -> Phases] /\ NeverStranded'
    BY <1>13, <1>t DEF Lose, TypeOK, Phases, NeverStranded
  <2>3. up' \in [Socket -> Seq(Frames)] /\ member' \in [Socket -> SUBSET Room]
    <3>1. <<>> \in Seq(Frames)
      OBVIOUS
    <3> QED  BY <1>13, <1>t, <3>1 DEF Lose, Ends, TypeOK
  <2> QED  BY <1>13, <1>t, <2>1, <2>2, <2>3 DEF Lose, PageInv, TypeOK, PollerHeld
<1>14. ASSUME NEW s \in Socket, CloseEvent(s) PROVE PageInv'
  BY <1>14, <1>t, CloseKeeps DEF CloseEvent, TypeOK
<1>15. ASSUME NEW s \in Socket, ServerReads(s) PROVE PageInv'
  <2>1. up[s] \in Seq(Frames) /\ up[s] # <<>>
    BY <1>15, <1>t DEF ServerReads, TypeOK
  <2>2. Head(up[s]) \in Frames /\ Tail(up[s]) \in Seq(Frames)
    BY <2>1
  <2>3. After(member[s], Head(up[s])) \in SUBSET Room
    BY <1>t, <2>2 DEF After, Frames, TypeOK
  <2>4. up' \in [Socket -> Seq(Frames)] /\ member' \in [Socket -> SUBSET Room]
    BY <1>15, <1>t, <2>2, <2>3 DEF ServerReads, TypeOK
  <2> QED  BY <1>15, <1>t, <2>4 DEF ServerReads, PageInv, TypeOK, PollerHeld, NeverStranded
<1>16. CASE UNCHANGED vars
  BY <1>16, <1>t DEF vars, PageInv, TypeOK, PollerHeld, NeverStranded
<1> QED
  BY <1>1, <1>2, <1>3, <1>4, <1>5, <1>6, <1>7, <1>8, <1>9, <1>10, <1>11, <1>12, <1>13, <1>14,
     <1>15, <1>16 DEF Next

LEMMA Invariance == Spec => []PageInv
  BY InitInv, NextInv, PTL DEF Spec

\* The page's variables and the server's view of it are what TypeOK says.
THEOREM TypeCorrect == Spec => []TypeOK
<1>1. PageInv => TypeOK
  BY DEF PageInv
<1> QED  BY <1>1, Invariance, PTL

\* Whatever order the answers, timers and events of old sockets come in, a page
\* with a user has a connection or a timer that will make one.
THEOREM NobodyIsStranded == Spec => []NeverStranded
<1>1. PageInv => NeverStranded
  BY DEF PageInv
<1> QED  BY <1>1, Invariance, PTL

-----------------------------------------------------------------------------
\* What the server makes of a connection: the rooms it has it in once it has
\* read the first i of the frames q under way, when it has it in m now.

About(f, r) == f.room = r /\ f.type # "message"

Upto(m, q, i) ==
    {r \in Room :
       \/ r \in m /\ \A k \in 1..i : ~About(q[k], r)
       \/ \E k \in 1..i : /\ About(q[k], r) /\ q[k].type = "join"
                          /\ \A j \in 1..i : About(q[j], r) => j <= k}

LEMMA UptoNone ==
    ASSUME NEW m \in SUBSET Room, NEW q
    PROVE  Upto(m, q, 0) = m
<1>1. 1..0 = {}
  OBVIOUS
<1> QED  BY <1>1 DEF Upto

LEMMA UptoAll ==
    ASSUME NEW m \in SUBSET Room, NEW q \in Seq(Frames)
    PROVE  AfterAll(m, q) = Upto(m, q, Len(q))
<1>1. DOMAIN q = 1..Len(q)
  OBVIOUS
<1>2. ASSUME NEW r \in Room
      PROVE  r \in AfterAll(m, q) <=> r \in Upto(m, q, Len(q))
  <2> DEFINE about == {i \in DOMAIN q : q[i].room = r /\ q[i].type # "message"}
  <2>1. \A i \in 1..Len(q) : i \in about <=> About(q[i], r)
    BY <1>1 DEF About
  <2>2. about \subseteq 1..Len(q)
    BY <1>1
  <2>3. r \in AfterAll(m, q) <=>
          IF about = {} THEN r \in m
          ELSE \E i \in about : q[i].type = "join" /\ \A j \in about : j <= i
    BY DEF AfterAll
  <2> HIDE DEF about
  <2> QED  BY <2>1, <2>2, <2>3 DEF Upto
<1> QED  BY <1>2 DEF AfterAll, Upto

LEMMA UptoAppend ==
    ASSUME NEW m \in SUBSET Room, NEW q \in Seq(Frames), NEW f \in Frames
    PROVE  /\ \A i \in 0..Len(q) : Upto(m, Append(q, f), i) = Upto(m, q, i)
           /\ Upto(m, Append(q, f), Len(q) + 1) = After(Upto(m, q, Len(q)), f)
<1> DEFINE a == Append(q, f)
           n == Len(q)
<1>1. n \in Nat /\ \A k \in 1..n : a[k] = q[k]
  OBVIOUS
<1>2. a[n + 1] = f
  OBVIOUS
<1> HIDE DEF a, n
<1>3. \A i \in 0..n : \A k \in 1..i : a[k] = q[k]
  BY <1>1
<1>4. \A i \in 0..n : Upto(m, a, i) = Upto(m, q, i)
  BY <1>3 DEF Upto
<1>5. \A k \in 1..(n + 1) : k \in 1..n \/ k = n + 1
  BY <1>1
<1>6. \A k \in 1..n : k \in 1..(n + 1) /\ k <= n + 1 /\ ~(n + 1 <= k)
  BY <1>1
<1>7. n + 1 \in 1..(n + 1) /\ n + 1 <= n + 1
  BY <1>1
<1>8. f.type \in {"join", "leave", "message"} /\ f.room \in Room
  BY DEF Frames
<1>9. ASSUME NEW r \in Room
      PROVE  r \in Upto(m, a, n + 1) <=> r \in After(Upto(m, q, n), f)
  <2>1. CASE About(f, r)
    <3>1. r \in Upto(m, a, n + 1) <=> f.type = "join"
      <4>1. ~ \A k \in 1..(n + 1) : ~About(a[k], r)
        BY <1>2, <1>7, <2>1
      <4>2. ASSUME NEW k \in 1..(n + 1), \A j \in 1..(n + 1) : About(a[j], r) => j <= k
            PROVE  k = n + 1
        BY <1>2, <1>5, <1>6, <1>7, <2>1, <4>2
      <4>3. \A j \in 1..(n + 1) : j <= n + 1
        BY <1>5, <1>6, <1>7
      <4> QED  BY <1>2, <1>7, <2>1, <4>1, <4>2, <4>3 DEF Upto
    <3> QED  BY <1>8, <2>1, <3>1 DEF After, About
  <2>2. CASE ~About(f, r)
    <3>1. r \in Upto(m, a, n + 1) <=> r \in Upto(m, q, n)
      BY <1>1, <1>2, <1>5, <1>6, <2>2 DEF Upto
    <3> QED  BY <1>8, <2>2, <3>1 DEF After, About
  <2> QED  BY <2>1, <2>2
<1>10. Upto(m, a, n + 1) \subseteq Room /\ After(Upto(m, q, n), f) \subseteq Room
  BY <1>8 DEF Upto, After
<1> QED  BY <1>4, <1>9, <1>10 DEF a, n

LEMMA UptoTake ==
    ASSUME NEW m \in SUBSET Room, NEW q \in Seq(Frames), q # <<>>
    PROVE  \A i \in 0..(Len(q) - 1) :
             Upto(After(m, Head(q)), Tail(q), i) = Upto(m, q, i + 1)
<1> DEFINE t == Tail(q)
           f == q[1]
<1>1. Len(q) \in Nat /\ Len(q) >= 1 /\ Head(q) = f /\ f \in Frames
  OBVIOUS
<1>2. \A k \in 1..(Len(q) - 1) : t[k] = q[k + 1]
  OBVIOUS
<1> HIDE DEF t, f
<1>3. f.type \in {"join", "leave", "message"} /\ f.room \in Room
  BY <1>1 DEF Frames
<1>4. After(m, f) \subseteq Room
  BY <1>3 DEF After
<1> SUFFICES ASSUME NEW i \in 0..(Len(q) - 1), NEW r \in Room
             PROVE  r \in Upto(After(m, f), t, i) <=> r \in Upto(m, q, i + 1)
  BY <1>1, <1>4 DEF Upto, t
<1>5. i \in Nat /\ \A k \in 1..i : t[k] = q[k + 1] /\ k + 1 \in 1..(i + 1)
  BY <1>1, <1>2
<1>6. \A k \in 1..(i + 1) : k = 1 \/ (k - 1 \in 1..i /\ k = (k - 1) + 1 /\ q[k] = t[k - 1])
  <2> SUFFICES ASSUME NEW k \in 1..(i + 1), k # 1
               PROVE  k - 1 \in 1..i /\ k = (k - 1) + 1 /\ q[k] = t[k - 1]
    OBVIOUS
  <2>1. k - 1 \in 1..i /\ k = (k - 1) + 1
    BY <1>5
  <2> QED  BY <1>5, <2>1
<1>7. 1 \in 1..(i + 1) /\ q[1] = f
  BY <1>5 DEF f
\* A frame about r among the later ones decides on both sides.
<1>8. CASE \E k \in 1..i : About(t[k], r)
  <2>1. ASSUME NEW k \in 1..i,
               t[k].type = "join", About(t[k], r), \A j \in 1..i : About(t[j], r) => j <= k
        PROVE  r \in Upto(m, q, i + 1)
    <3>1. \A j \in 1..(i + 1) : About(q[j], r) => j <= k + 1
      BY <1>5, <1>6, <2>1
    <3> QED  BY <1>5, <2>1, <3>1 DEF Upto
  <2>2. ASSUME NEW k \in 1..(i + 1),
               q[k].type = "join", About(q[k], r), \A j \in 1..(i + 1) : About(q[j], r) => j <= k
        PROVE  r \in Upto(After(m, f), t, i)
    <3>1. PICK x \in 1..i : About(t[x], r)
      BY <1>8
    <3>2. x + 1 <= k
      BY <1>5, <2>2, <3>1
    <3>3. k - 1 \in 1..i /\ q[k] = t[k - 1]
      BY <1>5, <1>6, <3>1, <3>2
    <3>4. \A j \in 1..i : About(t[j], r) => j <= k - 1
      <4> SUFFICES ASSUME NEW j \in 1..i, About(t[j], r) PROVE j <= k - 1
        OBVIOUS
      <4>1. j + 1 <= k
        BY <1>5, <2>2
      <4> QED  BY <4>1, <1>5
    <3> QED  BY <2>2, <3>3, <3>4 DEF Upto
  <2>3. ~ \A k \in 1..(i + 1) : ~About(q[k], r)
    BY <1>5, <1>8
  <2> QED  BY <1>8, <2>1, <2>2, <2>3 DEF Upto
\* Otherwise the first one does, if it is about r.
<1>9. CASE \A k \in 1..i : ~About(t[k], r)
  <2>1. r \in Upto(After(m, f), t, i) <=> r \in After(m, f)
    BY <1>9 DEF Upto
  <2>2. \A k \in 1..(i + 1) : About(q[k], r) => k = 1
    BY <1>6, <1>9
  <2>3. r \in Upto(m, q, i + 1) <=> IF About(f, r) THEN f.type = "join" ELSE r \in m
    <3>1. CASE About(f, r)
      <4>1. \A j \in 1..(i + 1) : About(q[j], r) => j <= 1
        BY <2>2
      <4> QED  BY <1>7, <2>2, <3>1, <4>1 DEF Upto
    <3>2. CASE ~About(f, r)
      BY <1>7, <2>2, <3>2 DEF Upto
    <3> QED  BY <3>1, <3>2
  <2>4. r \in After(m, f) <=> IF About(f, r) THEN f.type = "join" ELSE r \in m
    BY <1>3 DEF After, About
  <2> QED  BY <2>1, <2>3, <2>4
<1> QED  BY <1>8, <1>9

-----------------------------------------------------------------------------
\* The room of every connection.

\* While the server reads q it has the connection in one room at the most, and
\* in the room of each message it comes to.
Sane(m, q) ==
    /\ \A i \in 0..Len(q) : \A x, y \in Upto(m, q, i) : x = y
    /\ \A i \in 1..Len(q) : q[i].type = "message" => q[i].room \in Upto(m, q, i - 1)

Final(s) == Upto(member[s], up[s], Len(up[s]))

RoomInv ==
    /\ \A s \in Socket : Sane(member[s], up[s])
    /\ \A s \in Socket : phase[s] \in {"none", "connecting"} => member[s] = {} /\ up[s] = <<>>
    /\ ws # NoSocket /\ phase[ws] = "open" => Final(ws) = Shown /\ (InRoom => canSend)

LEMMA SaneNothing == Sane({}, <<>>) /\ Upto({}, <<>>, 0) = {} /\ Len(<<>>) = 0
<1>1. Len(<<>>) = 0
  OBVIOUS
<1>2. Upto({}, <<>>, 0) = {}
  BY UptoNone
<1>3. 0..0 = {0} /\ 1..0 = {}
  OBVIOUS
<1> QED  BY <1>1, <1>2, <1>3 DEF Sane

LEMMA SaneAppend ==
    ASSUME NEW m \in SUBSET Room, NEW q \in Seq(Frames), NEW f \in Frames, Sane(m, q),
           \A x, y \in After(Upto(m, q, Len(q)), f) : x = y,
           f.type = "message" => f.room \in Upto(m, q, Len(q))
    PROVE  /\ Sane(m, Append(q, f)) /\ Append(q, f) \in Seq(Frames)
           /\ Upto(m, Append(q, f), Len(Append(q, f))) = After(Upto(m, q, Len(q)), f)
<1> DEFINE a == Append(q, f)
           n == Len(q)
<1>1. n \in Nat /\ Len(a) = n + 1 /\ a \in Seq(Frames) /\ a[n + 1] = f
      /\ \A k \in 1..n : a[k] = q[k]
  OBVIOUS
<1>2. /\ \A i \in 0..n : Upto(m, a, i) = Upto(m, q, i)
      /\ Upto(m, a, n + 1) = After(Upto(m, q, n), f)
  BY UptoAppend
<1> HIDE DEF a, n
<1>3. ASSUME NEW i \in 0..(n + 1) PROVE \A x, y \in Upto(m, a, i) : x = y
  <2>1. i \in 0..n \/ i = n + 1
    BY <1>1
  <2> QED  BY <1>2, <2>1 DEF Sane, n
<1>4. ASSUME NEW i \in 1..(n + 1), a[i].type = "message"
      PROVE  a[i].room \in Upto(m, a, i - 1)
  <2>1. CASE i \in 1..n
    <3>1. i - 1 \in 0..n
      BY <1>1, <2>1
    <3> QED  BY <1>1, <1>2, <1>4, <2>1, <3>1 DEF Sane, n
  <2>2. CASE i = n + 1
    <3>1. i - 1 = n /\ n \in 0..n
      BY <1>1, <2>2
    <3> QED  BY <1>1, <1>2, <1>4, <2>2, <3>1 DEF n
  <2> QED  BY <1>1, <2>1, <2>2
<1> QED  BY <1>1, <1>2, <1>3, <1>4 DEF Sane, a, n

\* A frame is sent: r0 is the last set of rooms before it and r1 after it.
LEMMA SaneSend ==
    ASSUME NEW m \in SUBSET Room, NEW q \in Seq(Frames), NEW f \in Frames, Sane(m, q),
           NEW r0, NEW r1, Upto(m, q, Len(q)) = r0, After(r0, f) = r1,
           \A x, y \in r1 : x = y, f.type = "message" => f.room \in r0
    PROVE  /\ Sane(m, Append(q, f)) /\ Append(q, f) \in Seq(Frames)
           /\ Upto(m, Append(q, f), Len(Append(q, f))) = r1
  BY SaneAppend

LEMMA SaneTake ==
    ASSUME NEW m \in SUBSET Room, NEW q \in Seq(Frames), q # <<>>, Sane(m, q)
    PROVE  /\ Sane(After(m, Head(q)), Tail(q))
           /\ Upto(After(m, Head(q)), Tail(q), Len(Tail(q))) = Upto(m, q, Len(q))
           /\ Head(q).type = "message" => Head(q).room \in m
<1> DEFINE t == Tail(q)
           n == Len(q) - 1
           b == After(m, Head(q))
<1>1. n \in Nat /\ Len(q) = n + 1 /\ Len(t) = n /\ Head(q) = q[1]
      /\ \A k \in 1..n : t[k] = q[k + 1]
  OBVIOUS
<1>2. \A i \in 0..n : Upto(b, t, i) = Upto(m, q, i + 1)
  BY UptoTake
<1>3. Upto(m, q, 0) = m
  BY UptoNone
<1> HIDE DEF t, n, b
<1>4. \A i \in 0..n : \A x, y \in Upto(b, t, i) : x = y
  <2>1. \A i \in 0..n : i + 1 \in 0..Len(q)
    BY <1>1
  <2> QED  BY <1>2, <2>1 DEF Sane
<1>5. ASSUME NEW i \in 1..n, t[i].type = "message"
      PROVE  t[i].room \in Upto(b, t, i - 1)
  <2>1. i + 1 \in 1..Len(q) /\ (i + 1) - 1 = (i - 1) + 1 /\ i - 1 \in 0..n
    BY <1>1
  <2>2. t[i] = q[i + 1]
    BY <1>1
  <2> QED  BY <1>2, <1>5, <2>1, <2>2 DEF Sane
<1>6. Head(q).type = "message" => Head(q).room \in m
  <2>1. 1 \in 1..Len(q) /\ 1 - 1 = 0
    BY <1>1
  <2> QED  BY <1>1, <1>3, <2>1 DEF Sane
<1>7. n \in 0..n
  BY <1>1
<1> QED  BY <1>1, <1>2, <1>4, <1>5, <1>6, <1>7 DEF Sane, b, t

LEMMA RoomInit == Init => RoomInv
<1> SUFFICES ASSUME Init PROVE RoomInv
  OBVIOUS
<1>1. \A s \in Socket : member[s] = {} /\ up[s] = <<>>
  BY DEF Init
<1> QED  BY <1>1, SaneNothing DEF Init, RoomInv

\* A socket that ends takes its frames with it, and the others are untouched.
LEMMA EndsKeeps ==
    ASSUME PageInv, RoomInv, NEW s \in Socket, Ends(s)
    PROVE  /\ \A d \in Socket : Sane(member'[d], up'[d])
           /\ member'[s] = {} /\ up'[s] = <<>>
           /\ \A d \in Socket \ {s} : member'[d] = member[d] /\ up'[d] = up[d]
<1>1. /\ member'[s] = {} /\ up'[s] = <<>>
      /\ \A d \in Socket \ {s} : member'[d] = member[d] /\ up'[d] = up[d]
  BY DEF Ends, PageInv, TypeOK
<1> QED  BY <1>1, SaneNothing DEF RoomInv

\* A new socket: it has no frames yet, and the page waits for it to open.
LEMMA ConnectRooms ==
    ASSUME PageInv, RoomInv, Connect, UNCHANGED <<up, member>>
    PROVE  RoomInv'
<1>1. PICK s \in Socket :
        phase[s] = "none" /\ phase' = [phase EXCEPT ![s] = "connecting"] /\ ws' = s
  BY DEF Connect, Unused
<1>2. phase'[s] = "connecting" /\ \A d \in Socket \ {s} : phase'[d] = phase[d]
  BY <1>1 DEF PageInv, TypeOK
<1>3. \A d \in Socket :
        phase'[d] \in {"none", "connecting"} => member[d] = {} /\ up[d] = <<>>
  BY <1>1, <1>2 DEF RoomInv
<1>4. phase'[ws'] # "open"
  BY <1>1, <1>2
<1> QED  BY <1>3, <1>4 DEF RoomInv

LEMMA CloseRooms ==
    ASSUME PageInv, RoomInv, NEW s \in Socket, CloseHandler(s)
    PROVE  RoomInv'
<1>1. /\ \A d \in Socket : Sane(member'[d], up'[d])
      /\ member'[s] = {} /\ up'[s] = <<>>
      /\ \A d \in Socket \ {s} : member'[d] = member[d] /\ up'[d] = up[d]
  BY EndsKeeps DEF CloseHandler
<1>2. ws' = NoSocket /\ \A d \in Socket \ {s} : phase'[d] = phase[d]
  BY DEF CloseHandler, PageInv, TypeOK
<1> QED  BY <1>1, <1>2 DEF RoomInv

\* What the page sends goes to its socket alone, and if it is open the new last
\* room is what the page shows.
LEMMA SentRooms ==
    ASSUME PageInv, RoomInv, UNCHANGED <<member, ws>>,
           ws \in Socket, phase'[ws] = "open", up' \in [Socket -> Seq(Frames)],
           \A d \in Socket \ {ws} : up'[d] = up[d] /\
             (phase'[d] \in {"none", "connecting"} => phase[d] \in {"none", "connecting"}),
           Sane(member[ws], up'[ws]), Upto(member[ws], up'[ws], Len(up'[ws])) = Shown',
           InRoom' => canSend'
    PROVE  RoomInv'
<1>1. \A d \in Socket : Sane(member'[d], up'[d])
  BY DEF RoomInv
<1>2. \A d \in Socket :
        phase'[d] \in {"none", "connecting"} => member'[d] = {} /\ up'[d] = <<>>
  BY DEF RoomInv
<1>3. Final(ws)' = Shown'
  BY DEF Final
<1> QED  BY <1>1, <1>2, <1>3 DEF RoomInv

\* What each kind of frame makes of the rooms.
LEMMA AfterFrames ==
    ASSUME NEW m \in SUBSET Room, NEW r \in Room
    PROVE  /\ After(m, Join(r)) = m \cup {r} /\ After(m, Leave(r)) = m \ {r}
           /\ After(m, Post(r)) = m
           /\ Join(r).type # "message" /\ Leave(r).type # "message" /\ Post(r).room = r
  BY DEF After, Join, Leave, Post

LEMMA TwoFrames ==
    ASSUME NEW S, NEW q \in Seq(S), NEW a \in S, NEW b \in S
    PROVE  /\ q \o (<<a>> \o <<b>>) = Append(Append(q, a), b)
           /\ q \o (<<>> \o <<b>>) = Append(q, b)
           /\ q \o <<b>> = Append(q, b)
  OBVIOUS

\* A join is sent over a connection that will be nowhere, or in that room.
LEMMA SaneJoin ==
    ASSUME NEW m \in SUBSET Room, NEW q \in Seq(Frames), NEW r \in Room, Sane(m, q),
           Upto(m, q, Len(q)) \subseteq {r}
    PROVE  /\ Sane(m, Append(q, Join(r))) /\ Append(q, Join(r)) \in Seq(Frames)
           /\ Upto(m, Append(q, Join(r)), Len(Append(q, Join(r)))) = {r}
<1> DEFINE r0 == Upto(m, q, Len(q))
           f == Join(r)
<1>1. f \in Frames
  BY FrameTypes
<1>2. r0 \in SUBSET Room
  BY DEF Upto
<1>3. After(r0, f) = r0 \cup {r} /\ f.type # "message"
  BY <1>2, AfterFrames
<1> HIDE DEF f
<1>4. After(Upto(m, q, Len(q)), f) = {r}
  BY <1>3
<1> HIDE DEF r0
<1>5. \A x, y \in After(Upto(m, q, Len(q)), f) : x = y
  BY <1>4
<1>6. /\ Sane(m, Append(q, f)) /\ Append(q, f) \in Seq(Frames)
      /\ Upto(m, Append(q, f), Len(Append(q, f))) = After(Upto(m, q, Len(q)), f)
  BY <1>1, <1>3, <1>5, SaneAppend
<1> QED  BY <1>4, <1>6 DEF f

LEMMA JoinRooms ==
    ASSUME PageInv, RoomInv, NEW r \in Room, JoinRoom(r)
    PROVE  RoomInv'
<1>t. TypeOK
  BY DEF PageInv
<1>1. UNCHANGED <<ws, phase, member>> /\ room' = r /\ canSend' = Connected
      /\ Send((IF InRoom THEN <<Leave(room)>> ELSE <<>>) \o <<Join(r)>>)
  BY DEF JoinRoom
<1>2. CASE Connected /\ phase[ws] = "open"
  <2> DEFINE q == up[ws]
             m == member[ws]
  <2>1. ws \in Socket /\ ws # NoSocket
    BY <1>t, <1>2 DEF Connected, TypeOK
  <2>2. q \in Seq(Frames) /\ m \in SUBSET Room /\ Sane(m, q) /\ Upto(m, q, Len(q)) = Shown
    BY <1>t, <1>2, <2>1 DEF TypeOK, RoomInv, Final
  <2>3. up' = [up EXCEPT ![ws] = q \o ((IF InRoom THEN <<Leave(room)>> ELSE <<>>) \o <<Join(r)>>)]
    BY <1>1, <1>2 DEF Send
  <2>4. Shown' = {r}
    BY <1>1, RoomAssumption DEF Shown, InRoom
  <2>5. Join(r) \in Frames
    BY FrameTypes
  <2>6. /\ Sane(m, up'[ws]) /\ up'[ws] \in Seq(Frames)
        /\ Upto(m, up'[ws], Len(up'[ws])) = {r}
    <3> HIDE DEF q, m
    <3>1. CASE InRoom
      <4>1. room \in Room /\ Leave(room) \in Frames /\ Shown = {room}
        BY <1>t, <3>1, FrameTypes DEF InRoom, TypeOK, Shown
      <4> DEFINE a == Append(q, Leave(room))
      <4>2. up'[ws] = Append(a, Join(r))
        BY <1>t, <2>1, <2>2, <2>3, <2>5, <3>1, <4>1, TwoFrames DEF TypeOK
      <4>3. After(Shown, Leave(room)) = {} /\ Leave(room).type # "message"
        BY <4>1, AfterFrames
      <4>4. Sane(m, a) /\ a \in Seq(Frames) /\ Upto(m, a, Len(a)) = {}
        BY <2>2, <4>1, <4>3, SaneAppend
      <4> HIDE DEF a
      <4>5. Sane(m, Append(a, Join(r))) /\ Append(a, Join(r)) \in Seq(Frames)
            /\ Upto(m, Append(a, Join(r)), Len(Append(a, Join(r)))) = {r}
        <5>1. Upto(m, a, Len(a)) \subseteq {r}
          BY <4>4
        <5>2. m \in SUBSET Room
          BY <2>2
        <5> QED  BY <4>4, <5>1, <5>2, SaneJoin
      <4> QED  BY <4>2, <4>5
    <3>2. CASE ~InRoom
      <4>1. up'[ws] = Append(q, Join(r)) /\ Shown = {}
        BY <1>t, <2>1, <2>2, <2>3, <2>5, <3>2, TwoFrames DEF TypeOK, Shown
      <4> QED  BY <2>2, <4>1, SaneJoin
    <3> QED  BY <3>1, <3>2
  <2>7. up' \in [Socket -> Seq(Frames)] /\ \A d \in Socket \ {ws} : up'[d] = up[d]
    BY <1>t, <2>1, <2>3, <2>6 DEF TypeOK
  <2> QED  BY <1>1, <1>2, <2>1, <2>4, <2>6, <2>7, SentRooms
<1>3. CASE ~(Connected /\ phase[ws] = "open")
  <2>1. UNCHANGED up
    BY <1>1, <1>3 DEF Send
  <2> QED  BY <1>1, <1>3, <2>1 DEF RoomInv, Connected
<1> QED  BY <1>2, <1>3

LEMMA SubmitRooms ==
    ASSUME PageInv, RoomInv, SubmitMessage
    PROVE  RoomInv'
<1>t. TypeOK
  BY DEF PageInv
<1>1. UNCHANGED <<ws, phase, member, room, canSend>> /\ Send(<<Post(room)>>) /\ InRoom
  BY DEF SubmitMessage, pageVars
<1>2. CASE Connected /\ phase[ws] = "open"
  <2> DEFINE q == up[ws]
             m == member[ws]
  <2>1. ws \in Socket /\ ws # NoSocket /\ room \in Room /\ Post(room) \in Frames
    BY <1>t, <1>1, <1>2, FrameTypes DEF Connected, TypeOK, InRoom
  <2>2. q \in Seq(Frames) /\ m \in SUBSET Room /\ Sane(m, q) /\ Upto(m, q, Len(q)) = Shown
        /\ (InRoom => canSend)
    BY <1>t, <1>2, <2>1 DEF TypeOK, RoomInv, Final
  <2>3. up' = [up EXCEPT ![ws] = q \o <<Post(room)>>]
    BY <1>1, <1>2 DEF Send
  <2>4. Shown = {room} /\ Shown' = Shown /\ InRoom' = InRoom
    BY <1>1 DEF Shown, InRoom
  <2>5. up'[ws] = Append(q, Post(room))
    BY <1>t, <2>1, <2>2, <2>3, TwoFrames DEF TypeOK
  <2>6. After(Shown, Post(room)) = Shown /\ Post(room).room \in Shown
    BY <2>1, <2>4, AfterFrames
  <2>7. /\ Sane(m, up'[ws]) /\ up'[ws] \in Seq(Frames)
        /\ Upto(m, up'[ws], Len(up'[ws])) = Shown
    <3> HIDE DEF q, m
    <3>1. \A x, y \in Shown : x = y
      BY <2>4
    <3> QED  BY <2>1, <2>2, <2>5, <2>6, <3>1, SaneSend
  <2>8. up' \in [Socket -> Seq(Frames)] /\ \A d \in Socket \ {ws} : up'[d] = up[d]
    BY <1>t, <2>1, <2>3, <2>7 DEF TypeOK
  <2> QED  BY <1>1, <1>2, <2>1, <2>2, <2>4, <2>7, <2>8, SentRooms
<1>3. CASE ~(Connected /\ phase[ws] = "open")
  <2>1. UNCHANGED up
    BY <1>1, <1>3 DEF Send
  <2> QED  BY <1>1, <1>3, <2>1 DEF RoomInv, Connected
<1> QED  BY <1>2, <1>3

\* The open event of s joins over the page's socket, s or a younger one.
LEMMA OpenRooms ==
    ASSUME PageInv, RoomInv, NEW s \in Socket, OpenEvent(s)
    PROVE  RoomInv'
<1>t. TypeOK
  BY DEF PageInv
<1>1. /\ UNCHANGED <<ws, member, room>> /\ canSend' = InRoom /\ phase[s] = "connecting"
      /\ phase'[s] = "open" /\ \A d \in Socket \ {s} : phase'[d] = phase[d]
      /\ Shown' = Shown /\ InRoom' = InRoom
  BY <1>t DEF OpenEvent, TypeOK, Shown, InRoom
<1>2. CASE InRoom /\ ws # NoSocket /\ phase'[ws] = "open"
  <2> DEFINE q == up[ws]
             m == member[ws]
  <2>1. ws \in Socket /\ room \in Room /\ Join(room) \in Frames /\ Shown = {room}
    BY <1>t, <1>2, FrameTypes DEF TypeOK, InRoom, Shown
  <2>2. q \in Seq(Frames) /\ m \in SUBSET Room /\ Sane(m, q)
    BY <1>t, <2>1 DEF TypeOK, RoomInv
  \* It was nowhere, or in the room already.
  <2>3. Upto(m, q, Len(q)) \subseteq {room}
    <3>1. CASE ws = s
      BY <1>1, <3>1, SaneNothing DEF RoomInv
    <3>2. CASE ws # s
      BY <1>1, <1>2, <2>1, <3>2 DEF RoomInv, Final
    <3> QED  BY <3>1, <3>2
  <2>4. up' = [up EXCEPT ![ws] = Append(q, Join(room))]
    BY <1>2 DEF OpenEvent
  <2>5. up'[ws] = Append(q, Join(room))
    BY <1>t, <2>1, <2>4 DEF TypeOK
  <2>6. /\ Sane(m, up'[ws]) /\ up'[ws] \in Seq(Frames)
        /\ Upto(m, up'[ws], Len(up'[ws])) = {room}
    <3> HIDE DEF q, m
    <3> QED  BY <2>1, <2>2, <2>3, <2>5, SaneJoin
  <2>7. up' \in [Socket -> Seq(Frames)] /\ \A d \in Socket \ {ws} : up'[d] = up[d]
    BY <1>t, <2>1, <2>4, <2>6 DEF TypeOK
  <2>8. \A d \in Socket :
          phase'[d] \in {"none", "connecting"} => phase[d] \in {"none", "connecting"}
    BY <1>1
  <2> HIDE DEF q
  <2> QED  BY <1>1, <1>2, <2>1, <2>6, <2>7, <2>8, SentRooms
<1>3. CASE ~(InRoom /\ ws # NoSocket /\ phase'[ws] = "open")
  <2>1. UNCHANGED up
    BY <1>3 DEF OpenEvent
  <2>2. \A d \in Socket :
          phase'[d] \in {"none", "connecting"} => phase[d] \in {"none", "connecting"}
    BY <1>1
  <2>3. ASSUME ws # NoSocket, phase'[ws] = "open" PROVE Final(ws) = Shown /\ ~InRoom
    <3>1. ~InRoom /\ Shown = {}
      BY <1>3, <2>3 DEF Shown
    <3>2. CASE ws = s
      BY <1>1, <3>1, <3>2, SaneNothing DEF RoomInv, Final
    <3>3. CASE ws # s
      BY <1>1, <1>t, <2>3, <3>1, <3>3 DEF RoomInv, TypeOK
    <3> QED  BY <3>1, <3>2, <3>3
  <2> QED  BY <1>1, <2>1, <2>2, <2>3 DEF RoomInv, Final
<1> QED  BY <1>2, <1>3

LEMMA ReadRooms ==
    ASSUME PageInv, RoomInv, NEW s \in Socket, ServerReads(s)
    PROVE  RoomInv' /\ (Head(up[s]).type = "message" => Head(up[s]).room \in member[s])
<1>t. TypeOK
  BY DEF PageInv
<1> DEFINE q == up[s]
           m == member[s]
<1>1. /\ q \in Seq(Frames) /\ m \in SUBSET Room /\ q # <<>> /\ Sane(m, q)
      /\ member' = [member EXCEPT ![s] = After(m, Head(q))]
      /\ up' = [up EXCEPT ![s] = Tail(q)]
      /\ UNCHANGED <<ws, phase, room, canSend>>
  BY <1>t DEF ServerReads, TypeOK, RoomInv, pageVars
<1>2. /\ Sane(After(m, Head(q)), Tail(q))
      /\ Upto(After(m, Head(q)), Tail(q), Len(Tail(q))) = Upto(m, q, Len(q))
      /\ Head(q).type = "message" => Head(q).room \in m
  <2> HIDE DEF q, m
  <2> QED  BY <1>1, SaneTake
<1>3. /\ member'[s] = After(m, Head(q)) /\ up'[s] = Tail(q)
      /\ \A d \in Socket \ {s} : member'[d] = member[d] /\ up'[d] = up[d]
  BY <1>1, <1>t DEF TypeOK
<1>4. \A d \in Socket : Sane(member'[d], up'[d])
  BY <1>2, <1>3 DEF RoomInv
<1>5. \A d \in Socket :
        phase'[d] \in {"none", "connecting"} => member'[d] = {} /\ up'[d] = <<>>
  BY <1>1, <1>3 DEF RoomInv
<1>6. \A d \in Socket : Upto(member'[d], up'[d], Len(up'[d])) = Final(d)
  BY <1>2, <1>3 DEF Final
<1>7. Shown' = Shown /\ InRoom' = InRoom
  BY <1>1 DEF Shown, InRoom
<1>8. ws # NoSocket => ws \in Socket
  BY <1>t DEF TypeOK
<1> QED  BY <1>1, <1>2, <1>4, <1>5, <1>6, <1>7, <1>8 DEF RoomInv, Final

LEMMA RoomNext == PageInv /\ RoomInv /\ [Next]_vars => RoomInv'
<1> SUFFICES ASSUME PageInv, RoomInv, [Next]_vars PROVE RoomInv'
  OBVIOUS
<1> USE DEF pageVars, requestVars, socketVars
<1>t. TypeOK
  BY DEF PageInv
<1>1. CASE AuthAccepted \/ ProbeAccepted
  BY <1>1, ConnectRooms DEF AuthAccepted, ProbeAccepted, EnterApp
<1>2. CASE LoggedOut
  <2>1. ws' = NoSocket /\ UNCHANGED <<up, member>>
        /\ \A d \in Socket : phase'[d] \in {"none", "connecting"} => phase'[d] = phase[d]
    BY <1>2, <1>t DEF LoggedOut, Shut, TypeOK
  <2> QED  BY <2>1 DEF RoomInv
<1>3. CASE TimerFires
  <2>1. CASE user
    BY <1>3, <2>1, ConnectRooms DEF TimerFires
  <2>2. CASE ~user
    BY <1>3, <2>2 DEF TimerFires, RoomInv, Final, Shown, InRoom
  <2> QED  BY <2>1, <2>2
<1>4. ASSUME NEW r \in Room, JoinRoom(r) PROVE RoomInv'
  BY <1>4, JoinRooms
<1>5. CASE SubmitMessage
  BY <1>5, SubmitRooms
<1>6. ASSUME NEW s \in Socket, OpenEvent(s) PROVE RoomInv'
  BY <1>6, OpenRooms
<1>7. ASSUME NEW s \in Socket, Refused(s) \/ CloseEvent(s) PROVE RoomInv'
  BY <1>7, CloseRooms DEF Refused, CloseEvent
<1>8. ASSUME NEW s \in Socket, Lose(s) PROVE RoomInv'
  <2>1. /\ \A d \in Socket : Sane(member'[d], up'[d])
        /\ member'[s] = {} /\ up'[s] = <<>>
        /\ \A d \in Socket \ {s} : member'[d] = member[d] /\ up'[d] = up[d]
    BY <1>8, EndsKeeps DEF Lose
  <2>2. /\ UNCHANGED <<ws, room, canSend>> /\ phase'[s] = "lost"
        /\ \A d \in Socket \ {s} : phase'[d] = phase[d]
    BY <1>8, <1>t DEF Lose, TypeOK
  <2>3. \A d \in Socket :
          phase'[d] \in {"none", "connecting"} => member'[d] = {} /\ up'[d] = <<>>
    BY <2>1, <2>2 DEF RoomInv
  <2>4. ASSUME ws # NoSocket, phase'[ws] = "open"
        PROVE  Final(ws)' = Shown' /\ (InRoom' => canSend')
    <3>1. ws \in Socket \ {s}
      BY <1>t, <2>2, <2>4 DEF TypeOK
    <3> QED  BY <2>1, <2>2, <2>4, <3>1 DEF RoomInv, Final, Shown, InRoom
  <2> QED  BY <2>1, <2>2, <2>3, <2>4 DEF RoomInv
<1>9. ASSUME NEW s \in Socket, ServerReads(s) PROVE RoomInv'
  BY <1>9, ReadRooms
<1>10. CASE UNCHANGED <<ws, room, canSend, phase, up, member>>
  BY <1>10 DEF RoomInv, Final, Shown, InRoom
<1> QED
  BY <1>1, <1>2, <1>3, <1>4, <1>5, <1>6, <1>7, <1>8, <1>9, <1>10
  DEF Next, Submit, AuthRefused, ProbeRefused, Logout, vars

LEMMA RoomInvariance == Spec => [](PageInv /\ RoomInv)
  BY InitInv, NextInv, RoomInit, RoomNext, PTL DEF Spec

LEMMA OneAtMost ==
    ASSUME NEW m, \A x, y \in m : x = y
    PROVE  Cardinality(m) <= 1
<1>1. CASE m = {}
  BY <1>1, FS_EmptySet
<1>2. CASE m # {}
  <2>1. PICK x \in m : m = {x}
    BY <1>2
  <2>2. Cardinality({x}) = 1
    BY FS_Singleton
  <2> QED  BY <2>1, <2>2
<1> QED  BY <1>1, <1>2

\* An open connection is in the room the page shows, or will be once the server
\* has read what is under way, and no connection is ever in two.
THEOREM TheRoomIsTheOneShown == Spec => []JoinedWhatIsShown
<1>1. ASSUME PageInv, RoomInv PROVE JoinedWhatIsShown
  <2>1. TypeOK
    BY <1>1 DEF PageInv
  <2>2. ASSUME NEW s \in Socket PROVE Cardinality(member[s]) <= 1
    <3>1. Upto(member[s], up[s], 0) = member[s] /\ 0 \in 0..Len(up[s])
      BY <2>1, UptoNone DEF TypeOK
    <3>2. \A x, y \in Upto(member[s], up[s], 0) : x = y
      BY <1>1, <3>1 DEF RoomInv, Sane
    <3>3. \A x, y \in member[s] : x = y
      BY <3>1, <3>2
    <3> QED  BY <3>3, OneAtMost
  <2>3. ASSUME ws # NoSocket, phase[ws] = "open"
        PROVE  AfterAll(member[ws], up[ws]) = Shown /\ (InRoom => canSend)
    <3>1. member[ws] \in SUBSET Room /\ up[ws] \in Seq(Frames)
      BY <2>1, <2>3 DEF TypeOK
    <3> QED  BY <1>1, <2>3, <3>1, UptoAll DEF RoomInv, Final
  <2> QED  BY <2>2, <2>3 DEF JoinedWhatIsShown
<1> QED  BY <1>1, RoomInvariance, PTL

\* A message is read over a connection that is in its room.
THEOREM PostsArriveInTheRoom == Spec => PostsReachTheRoom
<1>1. ASSUME PageInv, RoomInv, [Next]_vars
      PROVE  [\A s \in Socket : ServerReads(s) /\ Head(up[s]).type = "message"
                                  => Head(up[s]).room \in member[s]]_vars
  BY <1>1, ReadRooms
<1> QED  BY <1>1, RoomInvariance, PTL DEF Spec, PostsReachTheRoom

-----------------------------------------------------------------------------
\* One connection at a time.

\* The page holds no socket whose end it has asked for or been told of.
Holds == ws # NoSocket => phase[ws] \in {"connecting", "open", "lost"}

Single ==
    ~spoiled =>
        /\ timers <= 1 /\ (Alive = {} \/ timers = 0)
        /\ \A x, y \in Alive : x = y
        /\ \A s \in Alive : s = ws \/ phase[s] = "closing"
        /\ pollers = IF user THEN 1 ELSE 0
        /\ held <=> user

LEMMA SingleInit == Init => Single /\ Holds
<1> SUFFICES ASSUME Init PROVE Single /\ Holds
  OBVIOUS
<1>1. Alive = {} /\ timers = 0 /\ pollers = 0 /\ ~user /\ ~held /\ ws = NoSocket
  BY DEF Init, Alive
<1>2. timers <= 1
  BY <1>1
<1> QED  BY <1>1, <1>2 DEF Single, Holds

LEMMA HoldsNext == PageInv /\ Holds /\ [Next]_vars => Holds'
<1> SUFFICES ASSUME PageInv, Holds, [Next]_vars PROVE Holds'
  OBVIOUS
<1>t. TypeOK
  BY DEF PageInv
<1>1. ASSUME Connect PROVE Holds'
  BY <1>t, <1>1, ConnectMakes DEF Holds
<1>2. CASE AuthAccepted \/ ProbeAccepted
  BY <1>1, <1>2 DEF AuthAccepted, ProbeAccepted, EnterApp
<1>3. CASE TimerFires
  BY <1>1, <1>3 DEF TimerFires, Holds
<1>4. ASSUME NEW s \in Socket, OpenEvent(s) \/ Lose(s) PROVE Holds'
  BY <1>4, <1>t DEF OpenEvent, Lose, Holds, TypeOK, pageVars
<1>5. CASE ws' = NoSocket
  BY <1>5 DEF Holds
<1>6. CASE UNCHANGED <<ws, phase>>
  BY <1>6 DEF Holds
<1> QED
  BY <1>2, <1>3, <1>4, <1>5, <1>6
  DEF Next, Submit, AuthRefused, ProbeRefused, Logout, LoggedOut, SubmitMessage, JoinRoom, Refused,
      CloseEvent, CloseHandler, ServerReads, vars, pageVars, socketVars

\* Whoever connects with nothing left over has the new socket and no other.
LEMMA ConnectSingle ==
    ASSUME TypeOK, Connect, Alive = {}
    PROVE  Alive' = {ws'}
<1>1. PICK s \in Socket : phase' = [phase EXCEPT ![s] = "connecting"] /\ ws' = s
  BY DEF Connect, Unused
<1>2. \A d \in Socket : phase'[d] = IF d = s THEN "connecting" ELSE phase[d]
  BY <1>1 DEF TypeOK
<1> QED  BY <1>1, <1>2 DEF Alive

LEMMA EnterSingle ==
    ASSUME PageInv, Single, EnterApp
    PROVE  Single'
<1>t. TypeOK /\ timers \in Nat
  BY DEF PageInv, TypeOK
<1>1. CASE spoiled'
  BY <1>1 DEF Single
<1>2. CASE ~spoiled'
  <2>1. ~spoiled /\ ~user /\ timers = 0
    BY <1>2, <1>t DEF EnterApp
  <2>2. \A s \in Socket : phase[s] \in {"none", "closed"}
    BY <1>2 DEF EnterApp
  <2>3. Alive = {}
    BY <2>2 DEF Alive
  <2>4. Alive' = {ws'}
    BY <1>t, <2>3, ConnectSingle DEF EnterApp
  <2>5. pollers' = 1 /\ held' = TRUE /\ user' = TRUE /\ timers' = 0
    BY <2>1 DEF EnterApp, Single
  <2> QED  BY <2>4, <2>5 DEF Single
<1> QED  BY <1>1, <1>2

LEMMA CloseSingle ==
    ASSUME PageInv, Single, NEW s \in Alive, CloseHandler(s)
    PROVE  Single'
<1>t. TypeOK /\ timers \in Nat /\ s \in Socket
  BY DEF PageInv, TypeOK, Alive
<1>1. CASE spoiled
  BY <1>1 DEF Single, CloseHandler
<1>2. CASE ~spoiled
  <2>1. Alive = {s} /\ timers = 0
    BY <1>2 DEF Single
  <2>2. \A d \in Socket : phase'[d] = IF d = s THEN "closed" ELSE phase[d]
    BY <1>t DEF CloseHandler, TypeOK
  <2>3. Alive' = {}
    BY <2>1, <2>2 DEF Alive
  <2>4. timers' <= 1
    BY <2>1 DEF CloseHandler
  <2> QED  BY <1>2, <2>3, <2>4 DEF Single, CloseHandler
<1> QED  BY <1>1, <1>2

LEMMA SingleNext == PageInv /\ Holds /\ Single /\ [Next]_vars => Single'
<1> SUFFICES ASSUME PageInv, Holds, Single, [Next]_vars PROVE Single'
  OBVIOUS
<1> USE DEF pageVars, requestVars, socketVars
<1>t. TypeOK
  BY DEF PageInv
<1>1. CASE AuthAccepted \/ ProbeAccepted
  BY <1>1, EnterSingle DEF AuthAccepted, ProbeAccepted
<1>2. CASE LoggedOut
  <2>1. CASE spoiled
    BY <1>2, <2>1 DEF LoggedOut, Single
  <2>2. CASE ~spoiled
    <3>1. pollers' = 0 /\ held' = FALSE /\ user' = FALSE /\ timers' = timers
      BY <1>2, <2>2 DEF LoggedOut, Single
    <3>2. \A d \in Socket : phase'[d] = IF d = ws THEN "closing" ELSE phase[d]
      <4>1. CASE ws = NoSocket
        <5>1. \A d \in Socket : d # ws
          BY <4>1 DEF Socket, NoSocket
        <5> QED  BY <1>2, <4>1, <5>1 DEF LoggedOut
      <4>2. CASE ws # NoSocket
        BY <1>2, <1>t, <4>2 DEF LoggedOut, Shut, TypeOK
      <4> QED  BY <4>1, <4>2
    <3>3. ws = NoSocket \/ ws \in Alive
      BY <1>t DEF TypeOK, Holds, Alive
    <3>4. Alive' = Alive /\ \A d \in Alive : d \in Socket
      <4>1. \A d \in Socket : d \in Alive' <=> d \in Alive
        <5>1. \A d \in Socket : d = ws => d \in Alive
          BY <3>3 DEF Socket, NoSocket
        <5> QED  BY <3>2, <5>1 DEF Alive
      <4> QED  BY <4>1 DEF Alive
    <3>5. \A d \in Alive : phase'[d] = "closing"
      BY <2>2, <3>2, <3>4 DEF Single
    <3> QED  BY <2>2, <3>1, <3>4, <3>5 DEF Single
  <2> QED  BY <2>1, <2>2
<1>3. CASE TimerFires
  <2>1. CASE spoiled
    BY <1>3, <2>1 DEF TimerFires, Single
  <2>2. CASE ~spoiled /\ user
    <3>1. Alive = {} /\ timers' = 0
      BY <1>3, <1>t, <2>2 DEF TimerFires, Single, TypeOK
    <3>2. Alive' = {ws'}
      BY <1>3, <1>t, <2>2, <3>1, ConnectSingle DEF TimerFires
    <3>3. UNCHANGED <<user, pollers, held, spoiled>> /\ timers' <= 1
      BY <1>3, <3>1 DEF TimerFires
    <3> QED  BY <2>2, <3>1, <3>2, <3>3 DEF Single
  <2>3. CASE ~spoiled /\ ~user
    <3>1. timers' = 0 /\ UNCHANGED <<phase, ws>>
      BY <1>3, <1>t, <2>3 DEF TimerFires, Single, TypeOK
    <3> QED  BY <1>3, <2>3, <3>1 DEF TimerFires, Single, Alive
  <2> QED  BY <2>1, <2>2, <2>3
<1>4. ASSUME NEW s \in Socket, OpenEvent(s) \/ Lose(s) PROVE Single'
  <2>1. /\ phase[s] \in {"connecting", "open"} /\ phase'[s] \in {"open", "lost"}
        /\ \A d \in Socket \ {s} : phase'[d] = phase[d]
        /\ UNCHANGED <<ws, timers, pollers, held, user, spoiled>>
    BY <1>4, <1>t DEF OpenEvent, Lose, TypeOK
  <2>2. Alive' = Alive /\ s \in Alive
    BY <2>1 DEF Alive
  <2>3. \A d \in Alive : (d = ws \/ phase[d] = "closing") => (d = ws \/ phase'[d] = "closing")
    BY <2>1 DEF Alive
  <2> QED  BY <2>1, <2>2, <2>3 DEF Single
<1>5. ASSUME NEW s \in Socket, Refused(s) \/ CloseEvent(s) PROVE Single'
  <2>1. s \in Alive
    BY <1>5 DEF Refused, CloseEvent, Alive
  <2> QED  BY <1>5, <2>1, CloseSingle DEF Refused, CloseEvent
<1>6. CASE UNCHANGED <<ws, phase, timers, pollers, held, user, spoiled>>
  BY <1>6 DEF Single, Alive
<1> QED
  BY <1>1, <1>2, <1>3, <1>4, <1>5, <1>6
  DEF Next, Submit, AuthRefused, ProbeRefused, Logout, SubmitMessage, JoinRoom, ServerReads, vars

\* A page that began every login with nothing left over has one connection or
\* one timer, and one poller, and gives them up when it is logged out.
THEOREM NothingRunsTwice == Spec => []NothingTwice
<1>1. ASSUME PageInv, Single PROVE NothingTwice
  <2> SUFFICES ASSUME ~spoiled PROVE Cardinality(Alive) + timers <= 1
    BY <1>1 DEF NothingTwice, Single
  <2>1. timers \in Nat /\ timers <= 1 /\ Cardinality(Alive) <= 1
    BY <1>1, OneAtMost DEF PageInv, TypeOK, Single
  <2>2. CASE Alive = {}
    <3>1. Cardinality(Alive) = 0
      BY <2>2, FS_EmptySet
    <3> QED  BY <2>1, <3>1
  <2>3. CASE Alive # {}
    <3>1. PICK x \in Alive : Alive = {x}
      BY <1>1, <2>3 DEF Single
    <3>2. Cardinality({x}) = 1
      BY FS_Singleton
    <3>3. timers = 0
      BY <1>1, <2>3 DEF Single
    <3> QED  BY <3>1, <3>2, <3>3
  <2> QED  BY <2>2, <2>3
<1> QED  BY <1>1, InitInv, NextInv, SingleInit, SingleNext, HoldsNext, PTL DEF Spec
=============================================================================
