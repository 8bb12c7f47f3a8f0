---------------------------- MODULE ColdPathProofs ----------------------------
(***************************************************************************)
(* Theorems about ColdPath, for all rooms, queue depths, clients and        *)
(* numbers of messages: what is accepted reaches the table in order, or is  *)
(* given up for one known reason, and no save meets the closed store.       *)
(***************************************************************************)
EXTENDS ColdPath, TLAPS

\* StoredInOrder, said of the parts of Pipe one by one.
PartsInOrder ==
    /\ Rising(rows) /\ Rising(queue)
    /\ \A i \in DOMAIN rows, j \in DOMAIN queue : rows[i] < queue[j]
    /\ inSave # 0 => /\ \A i \in DOMAIN rows : rows[i] < inSave
                     /\ \A j \in DOMAIN queue : inSave < queue[j]
    /\ handing # 0 => /\ \A i \in DOMAIN rows : rows[i] < handing
                      /\ \A j \in DOMAIN queue : queue[j] < handing
                      /\ inSave # 0 => inSave < handing

\* AccountedFor, said of the parts of Pipe.
InPipe  == Elements(rows) \cup Elements(queue) \cup ({inSave, handing} \ {0})
GivenUp == dropped \cup skipped \cup failed

PartsAccountedFor ==
    /\ Messages = InPipe \cup GivenUp
    /\ InPipe \cap GivenUp = {}
    /\ dropped \cap (skipped \cup failed) = {} /\ skipped \cap failed = {}

\* A persister that has returned holds nothing, and main closes after it.
NothingHeld == persister = "done" => inSave = 0

\* The inductive invariant.
PathInv ==
    /\ PathTypeOK
    /\ PartsInOrder
    /\ PartsAccountedFor
    /\ NothingHeld
    /\ NoSaveAfterClose

-----------------------------------------------------------------------------
\* Sequences.

\* What Append adds.
LEMMA ElementsOfAppend ==
    ASSUME NEW S, NEW s \in Seq(S), NEW e \in S
    PROVE  /\ Append(s, e) \in Seq(S)
           /\ Len(Append(s, e)) = Len(s) + 1
           /\ Elements(Append(s, e)) = Elements(s) \cup {e}
<1>1. /\ Append(s, e) \in Seq(S)
      /\ Len(Append(s, e)) = Len(s) + 1
      /\ DOMAIN Append(s, e) = 1..(Len(s) + 1)
      /\ DOMAIN s = 1..Len(s) /\ Len(s) \in Nat
  OBVIOUS
<1>2. \A i \in 1..Len(s) : Append(s, e)[i] = s[i]
  OBVIOUS
<1>3. Append(s, e)[Len(s) + 1] = e
  OBVIOUS
<1>4. Elements(Append(s, e)) \subseteq Elements(s) \cup {e}
  BY <1>1, <1>2, <1>3 DEF Elements
<1>5. Elements(s) \cup {e} \subseteq Elements(Append(s, e))
  <2>1. Len(s) + 1 \in DOMAIN Append(s, e)
    BY <1>1
  <2>2. \A i \in DOMAIN s : i \in DOMAIN Append(s, e)
    BY <1>1
  <2> QED  BY <1>1, <1>2, <1>3, <2>1, <2>2 DEF Elements
<1> QED  BY <1>1, <1>4, <1>5

\* What Head and Tail share out.
LEMMA ElementsOfTail ==
    ASSUME NEW S, NEW s \in Seq(S), s # <<>>
    PROVE  /\ Head(s) \in S /\ Tail(s) \in Seq(S)
           /\ Len(Tail(s)) < Len(s)
           /\ Elements(s) = {Head(s)} \cup Elements(Tail(s))
           /\ DOMAIN Tail(s) = 1..(Len(s) - 1)
           /\ \A i \in DOMAIN Tail(s) : i + 1 \in DOMAIN s /\ Tail(s)[i] = s[i + 1]
           /\ 1 \in DOMAIN s /\ Head(s) = s[1]
<1>1. Len(s) \in Nat /\ Len(s) # 0 /\ DOMAIN s = 1..Len(s)
  OBVIOUS
<1>2. /\ Tail(s) \in Seq(S) /\ Len(Tail(s)) = Len(s) - 1
      /\ DOMAIN Tail(s) = 1..(Len(s) - 1)
  BY <1>1
<1>3. \A i \in 1..(Len(s) - 1) : Tail(s)[i] = s[i + 1]
  BY <1>1
<1>4. Head(s) = s[1] /\ 1 \in DOMAIN s /\ Head(s) \in S
  BY <1>1
<1>5. \A i \in 1..(Len(s) - 1) : i + 1 \in DOMAIN s
  BY <1>1
<1>6. Elements(s) \subseteq {Head(s)} \cup Elements(Tail(s))
  <2> SUFFICES ASSUME NEW i \in DOMAIN s PROVE s[i] \in {Head(s)} \cup Elements(Tail(s))
    BY DEF Elements
  <2>1. CASE i = 1
    BY <2>1, <1>4
  <2>2. CASE i # 1
    <3>1. i - 1 \in DOMAIN Tail(s) /\ (i - 1) + 1 = i
      BY <1>1, <1>2, <2>2
    <3>2. Tail(s)[i - 1] = s[i]
      BY <1>2, <1>3, <3>1
    <3> QED  BY <3>1, <3>2 DEF Elements
  <2> QED  BY <2>1, <2>2
<1>7. {Head(s)} \cup Elements(Tail(s)) \subseteq Elements(s)
  BY <1>2, <1>3, <1>4, <1>5 DEF Elements
<1> QED  BY <1>1, <1>2, <1>3, <1>4, <1>5, <1>6, <1>7

\* Nothing that the invariant speaks of has changed.
pathVars == <<ctxDone, clock, fateVars, hubVars, storeVars>>

LEMMA PathStutter == PathInv /\ UNCHANGED pathVars => PathInv'
<1> SUFFICES ASSUME PathInv, UNCHANGED pathVars PROVE PathInv'
  OBVIOUS
<1>1. UNCHANGED <<ctxDone, clock, dropped, skipped, failed, hub, handing, accepted,
                  persister, inSave, queue, store, rows>>
  BY DEF pathVars, fateVars, hubVars, storeVars
<1>2. PathTypeOK'
  BY <1>1 DEF PathInv, PathTypeOK, Messages
<1>3. PartsInOrder'
  BY <1>1 DEF PathInv, PartsInOrder, Rising
<1>4. PartsAccountedFor'
  BY <1>1 DEF PathInv, PartsAccountedFor, InPipe, GivenUp, Elements, Messages
<1>5. NothingHeld' /\ NoSaveAfterClose'
  BY <1>1 DEF PathInv, NothingHeld, NoSaveAfterClose
<1> QED  BY <1>2, <1>3, <1>4, <1>5 DEF PathInv

LEMMA InitInv == Init => PathInv
<1> SUFFICES ASSUME Init PROVE PathInv
  OBVIOUS
<1>1. <<>> \in Seq(Messages) /\ Len(<<>>) = 0 /\ DOMAIN <<>> = {}
  OBVIOUS
<1>2. <<>> \in Seq([room : Room, time : 1..MaxTime])
  OBVIOUS
<1>3. 1 \in 1..MaxTime /\ 0 <= QueueDepth
  BY MaxTimeAssumption, QueueDepthAssumption
<1>4. PathTypeOK
  BY <1>1, <1>2, <1>3 DEF Init, PathTypeOK
<1>5. PartsInOrder
  BY <1>1 DEF Init, PartsInOrder, Rising
<1>6. PartsAccountedFor
  <2>1. Messages = {}
    BY <1>1 DEF Init, Messages
  <2>2. Elements(rows) = {} /\ Elements(queue) = {}
    BY <1>1 DEF Init, Elements
  <2> QED  BY <2>1, <2>2 DEF Init, PartsAccountedFor, InPipe, GivenUp
<1>7. NothingHeld /\ NoSaveAfterClose
  BY DEF Init, NothingHeld, NoSaveAfterClose
<1> QED  BY <1>4, <1>5, <1>6, <1>7 DEF PathInv

-----------------------------------------------------------------------------
\* The hub.

\* The message numbers of the parts of the pipe.
LEMMA PartsAreMessages ==
    ASSUME PathInv
    PROVE  /\ Len(accepted) \in Nat
           /\ DOMAIN rows = 1..Len(rows) /\ DOMAIN queue = 1..Len(queue)
           /\ \A i \in DOMAIN rows : rows[i] \in Messages
           /\ \A j \in DOMAIN queue : queue[j] \in Messages
           /\ Messages \subseteq Nat /\ 0 \notin Messages
<1>1. rows \in Seq(Messages) /\ queue \in Seq(Messages)
  BY DEF PathInv, PathTypeOK
<1>2. accepted \in Seq([room : Room, time : 1..MaxTime])
  BY DEF PathInv, PathTypeOK
<1>3. Len(accepted) \in Nat
  BY <1>2
<1>4. Messages \subseteq Nat /\ 0 \notin Messages
  BY <1>3 DEF Messages
<1>5. \A s \in Seq(Messages) : DOMAIN s = 1..Len(s) /\ \A i \in DOMAIN s : s[i] \in Messages
  OBVIOUS
<1> QED  BY <1>1, <1>3, <1>4, <1>5

LEMMA HubBroadcastInv ==
    ASSUME PathInv, NEW r \in Room, HubBroadcast(r)
    PROVE  PathInv'
<1> DEFINE new == Len(accepted) + 1
<1>1. /\ accepted' = Append(accepted, [room |-> r, time |-> clock])
      /\ handing = 0 /\ handing' = Len(accepted')
      /\ UNCHANGED <<ctxDone, clock, dropped, skipped, failed, hub, persister, inSave,
                     queue, store, rows>>
  BY DEF HubBroadcast, fateVars, storeVars
<1>2. /\ accepted' \in Seq([room : Room, time : 1..MaxTime])
      /\ Len(accepted') = new /\ handing' = new
  <2>1. [room |-> r, time |-> clock] \in [room : Room, time : 1..MaxTime]
    BY DEF PathInv, PathTypeOK
  <2>2. accepted \in Seq([room : Room, time : 1..MaxTime])
    BY DEF PathInv, PathTypeOK
  <2>3. Len(Append(accepted, [room |-> r, time |-> clock])) = new
    BY <2>1, <2>2
  <2> QED  BY <1>1, <2>1, <2>2, <2>3
<1>3. /\ Messages' = Messages \cup {new} /\ new \notin Messages /\ new # 0
      /\ \A m \in Messages : m < new
  BY <1>2, PartsAreMessages DEF Messages
<1>4. PathTypeOK'
  <2>1. queue \in Seq(Messages') /\ rows \in Seq(Messages')
    <3>1. \A s \in Seq(Messages) : s \in Seq(Messages')
      BY <1>3
    <3> QED  BY <3>1 DEF PathInv, PathTypeOK
  <2> QED  BY <1>1, <1>2, <1>3, <2>1 DEF PathInv, PathTypeOK
<1>5. PartsInOrder'
  <2>1. /\ \A i \in DOMAIN rows : rows[i] < new
        /\ \A j \in DOMAIN queue : queue[j] < new
    BY <1>3, PartsAreMessages
  <2>2. inSave # 0 => inSave < new
    BY <1>3 DEF PathInv, PathTypeOK
  <2> QED  BY <1>1, <1>2, <2>1, <2>2 DEF PathInv, PartsInOrder, Rising
<1>6. PartsAccountedFor'
  <2>1. /\ InPipe' = InPipe \cup {new} /\ GivenUp' = GivenUp
    BY <1>1, <1>2, <1>3 DEF InPipe, GivenUp, Elements
  <2>2. new \notin GivenUp
    BY <1>3 DEF PathInv, PathTypeOK, GivenUp
  <2> QED  BY <1>1, <1>3, <2>1, <2>2 DEF PathInv, PartsAccountedFor
<1>7. NothingHeld' /\ NoSaveAfterClose'
  BY <1>1 DEF PathInv, NothingHeld, NoSaveAfterClose
<1> QED  BY <1>4, <1>5, <1>6, <1>7 DEF PathInv

LEMMA HubHandsOffInv ==
    ASSUME PathInv, HubHandsOff
    PROVE  PathInv'
<1>1. /\ handing # 0 /\ handing' = 0 /\ handing \in Messages
      /\ UNCHANGED <<ctxDone, clock, failed, hub, accepted, persister, inSave, store, rows>>
      /\ Messages' = Messages
  BY DEF HubHandsOff, PathInv, PathTypeOK, Messages
<1>2. NothingHeld' /\ NoSaveAfterClose'
  BY <1>1 DEF PathInv, NothingHeld, NoSaveAfterClose
<1>3. CASE Enqueue
  <2>1. queue' = Append(queue, handing) /\ UNCHANGED <<dropped, skipped>>
        /\ Len(queue) # QueueDepth
    BY <1>3 DEF Enqueue, QueueFull
  <2>2. queue \in Seq(Messages) /\ Len(queue) \in Nat /\ Len(queue) <= QueueDepth
    BY DEF PathInv, PathTypeOK
  <2>3. /\ queue' \in Seq(Messages) /\ Len(queue') = Len(queue) + 1
        /\ Elements(queue)' = Elements(queue) \cup {handing}
    BY <1>1, <2>1, <2>2, ElementsOfAppend DEF Elements
  <2>4. PathTypeOK'
    BY <1>1, <2>1, <2>2, <2>3, QueueDepthAssumption DEF PathInv, PathTypeOK
  <2>5. /\ DOMAIN queue' = 1..(Len(queue) + 1) /\ DOMAIN queue = 1..Len(queue)
        /\ \A j \in 1..Len(queue) : queue'[j] = queue[j]
        /\ queue'[Len(queue) + 1] = handing
    BY <1>1, <2>1, <2>2
  <2>6. PartsInOrder'
    <3>1. \A j \in DOMAIN queue : queue[j] < handing
      BY <1>1 DEF PathInv, PartsInOrder
    <3>2. Rising(queue')
      BY <2>2, <2>5, <3>1 DEF PathInv, PartsInOrder, Rising
    <3>3. \A i \in DOMAIN rows, j \in DOMAIN queue' : rows[i] < queue'[j]
      BY <1>1, <2>2, <2>5 DEF PathInv, PartsInOrder
    <3>4. inSave # 0 => \A j \in DOMAIN queue' : inSave < queue'[j]
      BY <1>1, <2>2, <2>5 DEF PathInv, PartsInOrder
    <3> QED  BY <1>1, <3>2, <3>3, <3>4 DEF PathInv, PartsInOrder, Rising
  <2>7. PartsAccountedFor'
    <3>1. InPipe' = InPipe /\ GivenUp' = GivenUp
      BY <1>1, <2>1, <2>3 DEF InPipe, GivenUp, Elements
    <3> QED  BY <1>1, <2>1, <3>1 DEF PathInv, PartsAccountedFor
  <2> QED  BY <1>2, <2>4, <2>6, <2>7 DEF PathInv
<1>4. CASE Skip \/ GiveUp
  <2>1. /\ UNCHANGED queue
        /\ \/ skipped' = skipped \cup {handing} /\ UNCHANGED dropped
           \/ dropped' = dropped \cup {handing} /\ UNCHANGED skipped
    BY <1>4 DEF Skip, GiveUp
  <2>2. PathTypeOK'
    BY <1>1, <2>1 DEF PathInv, PathTypeOK
  <2>3. PartsInOrder'
    BY <1>1, <2>1 DEF PathInv, PartsInOrder, Rising
  <2>4. handing \notin Elements(rows) /\ handing \notin Elements(queue) /\ handing # inSave
    BY <1>1, PartsAreMessages DEF PathInv, PartsInOrder, Elements
  <2>5. PartsAccountedFor'
    <3>1. InPipe' = InPipe \ {handing} /\ GivenUp' = GivenUp \cup {handing}
      BY <1>1, <2>1, <2>4 DEF InPipe, GivenUp, Elements
    <3>2. handing \in InPipe /\ handing \notin GivenUp
      BY <1>1 DEF PathInv, PartsAccountedFor, InPipe
    <3> QED  BY <1>1, <2>1, <3>1, <3>2 DEF PathInv, PartsAccountedFor, GivenUp
  <2> QED  BY <1>2, <2>2, <2>3, <2>5 DEF PathInv
<1> QED  BY <1>3, <1>4 DEF HubHandsOff

\* HubStops leaves the path alone, up to the hub's end.
LEMMA HubStopsInv ==
    ASSUME PathInv, HubStops
    PROVE  PathInv'
<1>1. /\ hub' = "stopped"
      /\ UNCHANGED <<ctxDone, clock, dropped, skipped, failed, handing, accepted,
                     persister, inSave, queue, store, rows>>
  BY DEF HubStops, fateVars, storeVars
<1>2. PathTypeOK'
  BY <1>1 DEF PathInv, PathTypeOK, Messages
<1>3. PartsInOrder'
  BY <1>1 DEF PathInv, PartsInOrder, Rising
<1>4. PartsAccountedFor'
  BY <1>1 DEF PathInv, PartsAccountedFor, InPipe, GivenUp, Elements, Messages
<1>5. NothingHeld' /\ NoSaveAfterClose'
  BY <1>1 DEF PathInv, NothingHeld, NoSaveAfterClose
<1> QED  BY <1>2, <1>3, <1>4, <1>5 DEF PathInv

-----------------------------------------------------------------------------
\* The persister.

LEMMA PersisterReceivesInv ==
    ASSUME PathInv, PersisterReceives
    PROVE  PathInv'
<1>1. /\ persister # "done" /\ inSave = 0 /\ queue # <<>>
      /\ inSave' = Head(queue) /\ queue' = Tail(queue)
      /\ UNCHANGED <<ctxDone, clock, dropped, skipped, failed, hub, handing, accepted,
                     persister, store, rows>>
      /\ Messages' = Messages
  BY DEF PersisterReceives, fateVars, hubVars, Messages
<1>2. queue \in Seq(Messages) /\ Len(queue) <= QueueDepth /\ Len(queue) \in Nat
  BY DEF PathInv, PathTypeOK
<1>3. /\ inSave' \in Messages /\ queue' \in Seq(Messages)
      /\ Len(queue') < Len(queue) /\ Len(queue') \in Nat
      /\ Elements(queue) = {inSave'} \cup Elements(queue')
      /\ \A j \in DOMAIN queue' :
           j \in Nat \ {0} /\ j + 1 \in DOMAIN queue /\ queue'[j] = queue[j + 1]
      /\ 1 \in DOMAIN queue /\ inSave' = queue[1]
  BY <1>1, <1>2, ElementsOfTail
<1>4. PathTypeOK'
  BY <1>1, <1>2, <1>3, QueueDepthAssumption DEF PathInv, PathTypeOK
<1>5. PartsInOrder'
  <2>1. Rising(queue')
    <3> SUFFICES ASSUME NEW i \in DOMAIN queue', NEW j \in DOMAIN queue', i < j
                 PROVE  queue'[i] < queue'[j]
      BY DEF Rising
    <3>1. i + 1 < j + 1
      BY <1>3
    <3> QED  BY <1>3, <3>1 DEF PathInv, PartsInOrder, Rising
  <2>2. \A i \in DOMAIN rows, j \in DOMAIN queue' : rows[i] < queue'[j]
    BY <1>3 DEF PathInv, PartsInOrder
  <2>3. \A i \in DOMAIN rows : rows[i] < inSave'
    BY <1>3 DEF PathInv, PartsInOrder
  <2>4. \A j \in DOMAIN queue' : inSave' < queue'[j]
    <3> SUFFICES ASSUME NEW j \in DOMAIN queue' PROVE inSave' < queue'[j]
      OBVIOUS
    <3>1. 1 < j + 1
      BY <1>3
    <3> QED  BY <1>3, <3>1 DEF PathInv, PartsInOrder, Rising
  <2>5. handing # 0 => /\ \A j \in DOMAIN queue' : queue'[j] < handing
                       /\ inSave' < handing
    BY <1>3 DEF PathInv, PartsInOrder
  <2> QED  BY <1>1, <2>1, <2>2, <2>3, <2>4, <2>5 DEF PathInv, PartsInOrder, Rising
<1>6. PartsAccountedFor'
  <2>1. inSave' # 0
    BY <1>3, PartsAreMessages
  <2>2. Elements(rows)' = Elements(rows) /\ Elements(queue)' = Elements(queue')
    BY <1>1 DEF Elements
  <2>3. InPipe' = InPipe
    BY <1>1, <1>3, <2>1, <2>2 DEF InPipe
  <2>4. GivenUp' = GivenUp
    BY <1>1 DEF GivenUp
  <2> QED  BY <1>1, <2>3, <2>4 DEF PathInv, PartsAccountedFor
<1>7. NothingHeld' /\ NoSaveAfterClose'
  BY <1>1 DEF PathInv, NothingHeld, NoSaveAfterClose
<1> QED  BY <1>4, <1>5, <1>6, <1>7 DEF PathInv

LEMMA SaveSucceedsInv ==
    ASSUME PathInv, SaveSucceeds
    PROVE  PathInv'
<1>1. /\ inSave # 0 /\ inSave' = 0 /\ inSave \in Messages
      /\ rows' = Append(rows, inSave)
      /\ UNCHANGED <<ctxDone, clock, dropped, skipped, failed, hub, handing, accepted,
                     persister, queue, store>>
      /\ Messages' = Messages
  BY DEF SaveSucceeds, fateVars, hubVars, Messages, PathInv, PathTypeOK
<1>2. rows \in Seq(Messages) /\ Len(rows) \in Nat
  BY DEF PathInv, PathTypeOK
<1>3. rows' \in Seq(Messages) /\ Elements(rows)' = Elements(rows) \cup {inSave}
  BY <1>1, <1>2, ElementsOfAppend DEF Elements
<1>4. /\ DOMAIN rows' = 1..(Len(rows) + 1) /\ DOMAIN rows = 1..Len(rows)
      /\ \A i \in 1..Len(rows) : rows'[i] = rows[i]
      /\ rows'[Len(rows) + 1] = inSave
  BY <1>1, <1>2
<1>5. PathTypeOK'
  BY <1>1, <1>3 DEF PathInv, PathTypeOK
<1>6. PartsInOrder'
  <2>1. \A i \in DOMAIN rows : rows[i] < inSave
    BY <1>1 DEF PathInv, PartsInOrder
  <2>2. Rising(rows')
    BY <1>2, <1>4, <2>1 DEF PathInv, PartsInOrder, Rising
  <2>3. \A i \in DOMAIN rows', j \in DOMAIN queue : rows'[i] < queue[j]
    BY <1>1, <1>2, <1>4 DEF PathInv, PartsInOrder
  <2>4. handing # 0 => \A i \in DOMAIN rows' : rows'[i] < handing
    BY <1>1, <1>2, <1>4 DEF PathInv, PartsInOrder
  <2> QED  BY <1>1, <2>2, <2>3, <2>4 DEF PathInv, PartsInOrder, Rising
<1>7. PartsAccountedFor'
  <2>1. InPipe' = InPipe /\ GivenUp' = GivenUp
    BY <1>1, <1>3 DEF InPipe, GivenUp, Elements
  <2> QED  BY <1>1, <2>1 DEF PathInv, PartsAccountedFor
<1>8. NothingHeld' /\ NoSaveAfterClose'
  BY <1>1 DEF PathInv, NothingHeld, NoSaveAfterClose
<1> QED  BY <1>5, <1>6, <1>7, <1>8 DEF PathInv

LEMMA SaveFailsInv ==
    ASSUME PathInv, SaveFails
    PROVE  PathInv'
<1>1. /\ inSave # 0 /\ inSave' = 0 /\ inSave \in Messages
      /\ failed' = failed \cup {inSave}
      /\ UNCHANGED <<ctxDone, clock, dropped, skipped, hub, handing, accepted,
                     persister, queue, store, rows>>
      /\ Messages' = Messages
  BY DEF SaveFails, hubVars, Messages, PathInv, PathTypeOK
<1>2. PathTypeOK'
  BY <1>1 DEF PathInv, PathTypeOK
<1>3. PartsInOrder'
  BY <1>1 DEF PathInv, PartsInOrder, Rising
<1>4. inSave \notin Elements(rows) /\ inSave \notin Elements(queue) /\ inSave # handing
  BY <1>1, PartsAreMessages DEF PathInv, PartsInOrder, Elements
<1>5. PartsAccountedFor'
  <2>1. InPipe' = InPipe \ {inSave} /\ GivenUp' = GivenUp \cup {inSave}
    BY <1>1, <1>4 DEF InPipe, GivenUp, Elements
  <2>2. inSave \in InPipe /\ inSave \notin GivenUp
    BY <1>1 DEF PathInv, PartsAccountedFor, InPipe
  <2> QED  BY <1>1, <2>1, <2>2 DEF PathInv, PartsAccountedFor, GivenUp
<1>6. NothingHeld' /\ NoSaveAfterClose'
  BY <1>1 DEF PathInv, NothingHeld, NoSaveAfterClose
<1> QED  BY <1>2, <1>3, <1>5, <1>6 DEF PathInv

\* PersisterDrains, PersisterReturns and MainCloses move no message.
LEMMA PathEndsInv ==
    ASSUME PathInv, PersisterDrains \/ PersisterReturns \/ MainCloses
    PROVE  PathInv'
<1>1. UNCHANGED <<ctxDone, clock, dropped, skipped, failed, hub, handing, accepted,
                  inSave, queue, rows>>
  BY DEF PersisterDrains, PersisterReturns, MainCloses, fateVars, hubVars
<1>2. PathTypeOK'
  BY <1>1 DEF PathInv, PathTypeOK, Messages, PersisterDrains, PersisterReturns, MainCloses
<1>3. PartsInOrder'
  BY <1>1 DEF PathInv, PartsInOrder, Rising
<1>4. PartsAccountedFor'
  BY <1>1 DEF PathInv, PartsAccountedFor, InPipe, GivenUp, Elements, Messages
<1>5. NothingHeld' /\ NoSaveAfterClose'
  BY DEF PathInv, NothingHeld, NoSaveAfterClose,
         PersisterDrains, PersisterReturns, MainCloses
<1> QED  BY <1>2, <1>3, <1>4, <1>5 DEF PathInv

-----------------------------------------------------------------------------
\* The clock and the signal.
LEMMA OutsideInv ==
    ASSUME PathInv, Cancel \/ Tick
    PROVE  PathInv'
<1>1. UNCHANGED <<dropped, skipped, failed, hub, handing, accepted,
                  persister, inSave, queue, store, rows>>
  BY DEF Cancel, Tick, fateVars, hubVars, storeVars
<1>2. ctxDone' \in BOOLEAN /\ clock' \in 1..MaxTime
  <2>1. ctxDone \in BOOLEAN /\ clock \in 1..MaxTime
    BY DEF PathInv, PathTypeOK
  <2>2. CASE Cancel
    BY <2>1, <2>2 DEF Cancel
  <2>3. CASE Tick
    BY <2>1, <2>3, MaxTimeAssumption DEF Tick
  <2> QED  BY <2>2, <2>3
<1>3. PathTypeOK'
  BY <1>1, <1>2 DEF PathInv, PathTypeOK, Messages
<1>4. PartsInOrder'
  BY <1>1 DEF PathInv, PartsInOrder, Rising
<1>5. PartsAccountedFor'
  BY <1>1 DEF PathInv, PartsAccountedFor, InPipe, GivenUp, Elements, Messages
<1>6. NothingHeld' /\ NoSaveAfterClose'
  BY <1>1 DEF PathInv, NothingHeld, NoSaveAfterClose
<1> QED  BY <1>3, <1>4, <1>5, <1>6 DEF PathInv

LEMMA NextInv == PathInv /\ [Next]_vars => PathInv'
<1> SUFFICES ASSUME PathInv, [Next]_vars PROVE PathInv'
  OBVIOUS
<1>1. ASSUME NEW r \in Room, HubBroadcast(r) PROVE PathInv'
  BY <1>1, HubBroadcastInv
<1>2. CASE HubHandsOff
  BY <1>2, HubHandsOffInv
<1>3. CASE HubStops
  BY <1>3, HubStopsInv
<1>4. CASE PersisterReceives
  BY <1>4, PersisterReceivesInv
<1>5. CASE SaveSucceeds
  BY <1>5, SaveSucceedsInv
<1>6. CASE SaveFails
  BY <1>6, SaveFailsInv
<1>7. CASE PersisterDrains \/ PersisterReturns \/ MainCloses
  BY <1>7, PathEndsInv
<1>8. CASE Cancel \/ Tick
  BY <1>8, OutsideInv
<1>9. ASSUME NEW c \in Client,
             Fetch(c) \/ SendHistory(c) \/ HubJoin(c) \/ JoinAborted(c) \/ HubLeave(c)
      PROVE  PathInv'
  <2>1. UNCHANGED pathVars
    BY <1>9 DEF Fetch, SendHistory, HubJoin, JoinAborted, HubLeave, pathVars
  <2> QED  BY <2>1, PathStutter
<1>10. CASE Terminated \/ UNCHANGED vars
  <2>1. UNCHANGED pathVars
    BY <1>10 DEF Terminated, vars, pathVars
  <2> QED  BY <2>1, PathStutter
<1> QED  BY <1>1, <1>2, <1>3, <1>4, <1>5, <1>6, <1>7, <1>8, <1>9, <1>10
         DEF Next, Hub, Persister

LEMMA PathCorrect == Spec => []PathInv
  BY InitInv, NextInv, PTL DEF Spec

-----------------------------------------------------------------------------
\* What two sequences have together.
LEMMA Concatenation ==
    ASSUME NEW S, NEW s \in Seq(S), NEW t \in Seq(S)
    PROVE  /\ s \o t \in Seq(S)
           /\ DOMAIN (s \o t) = 1..(Len(s) + Len(t))
           /\ Len(s) \in Nat /\ Len(t) \in Nat
           /\ DOMAIN s = 1..Len(s) /\ DOMAIN t = 1..Len(t)
           /\ \A i \in 1..Len(s) : (s \o t)[i] = s[i]
           /\ \A i \in 1..(Len(s) + Len(t)) :
                i > Len(s) => (s \o t)[i] = t[i - Len(s)] /\ i - Len(s) \in DOMAIN t
           /\ \A j \in DOMAIN t : (s \o t)[Len(s) + j] = t[j]
<1>1. /\ Len(s) \in Nat /\ Len(t) \in Nat
      /\ DOMAIN s = 1..Len(s) /\ DOMAIN t = 1..Len(t)
      /\ s \o t \in Seq(S) /\ Len(s \o t) = Len(s) + Len(t)
  OBVIOUS
<1>2. DOMAIN (s \o t) = 1..(Len(s) + Len(t))
  BY <1>1
<1>3. \A i \in 1..(Len(s) + Len(t)) :
        (s \o t)[i] = IF i <= Len(s) THEN s[i] ELSE t[i - Len(s)]
  OBVIOUS
<1>4. \A i \in 1..Len(s) : (s \o t)[i] = s[i]
  BY <1>1, <1>3
<1>5. \A i \in 1..(Len(s) + Len(t)) :
        i > Len(s) => (s \o t)[i] = t[i - Len(s)] /\ i - Len(s) \in DOMAIN t
  BY <1>1, <1>3
<1>6. \A j \in DOMAIN t : (s \o t)[Len(s) + j] = t[j]
  BY <1>1, <1>3
<1> QED  BY <1>1, <1>2, <1>4, <1>5, <1>6

LEMMA ElementsOfConcatenation ==
    ASSUME NEW S, NEW s \in Seq(S), NEW t \in Seq(S)
    PROVE  Elements(s \o t) = Elements(s) \cup Elements(t)
<1>1. Elements(s \o t) \subseteq Elements(s) \cup Elements(t)
  <2> SUFFICES ASSUME NEW i \in DOMAIN (s \o t)
               PROVE  (s \o t)[i] \in Elements(s) \cup Elements(t)
    BY DEF Elements
  <2>1. i \in Nat /\ i \in 1..(Len(s) + Len(t))
    BY Concatenation
  <2>2. CASE i <= Len(s)
    <3>1. i \in DOMAIN s /\ (s \o t)[i] = s[i]
      BY <2>1, <2>2, Concatenation
    <3> QED  BY <3>1 DEF Elements
  <2>3. CASE i > Len(s)
    <3>1. i - Len(s) \in DOMAIN t /\ (s \o t)[i] = t[i - Len(s)]
      BY <2>1, <2>3, Concatenation
    <3> QED  BY <3>1 DEF Elements
  <2>4. i <= Len(s) \/ i > Len(s)
    BY <2>1
  <2> QED  BY <2>2, <2>3, <2>4
<1>2. Elements(s) \subseteq Elements(s \o t)
  <2> SUFFICES ASSUME NEW i \in DOMAIN s PROVE s[i] \in Elements(s \o t)
    BY DEF Elements
  <2>1. i \in DOMAIN (s \o t) /\ (s \o t)[i] = s[i]
    BY Concatenation
  <2> QED  BY <2>1 DEF Elements
<1>3. Elements(t) \subseteq Elements(s \o t)
  <2> SUFFICES ASSUME NEW j \in DOMAIN t PROVE t[j] \in Elements(s \o t)
    BY DEF Elements
  <2>1. Len(s) + j \in DOMAIN (s \o t) /\ (s \o t)[Len(s) + j] = t[j]
    BY Concatenation
  <2> QED  BY <2>1 DEF Elements
<1> QED  BY <1>1, <1>2, <1>3

\* Two rising sequences, the first of smaller numbers, rise together.
LEMMA RisingConcatenation ==
    ASSUME NEW s \in Seq(Nat), NEW t \in Seq(Nat), Rising(s), Rising(t),
           \A i \in DOMAIN s, j \in DOMAIN t : s[i] < t[j]
    PROVE  Rising(s \o t)
<1> SUFFICES ASSUME NEW i \in DOMAIN (s \o t), NEW j \in DOMAIN (s \o t), i < j
             PROVE  (s \o t)[i] < (s \o t)[j]
  BY DEF Rising
<1>1. /\ Len(s) \in Nat /\ i \in Nat /\ j \in Nat
      /\ i \in 1..(Len(s) + Len(t)) /\ j \in 1..(Len(s) + Len(t))
  BY Concatenation
<1>2. CASE j <= Len(s)
  <2>1. /\ i \in DOMAIN s /\ (s \o t)[i] = s[i]
        /\ j \in DOMAIN s /\ (s \o t)[j] = s[j]
    BY <1>1, <1>2, Concatenation
  <2> QED  BY <2>1 DEF Rising
<1>3. CASE i <= Len(s) /\ j > Len(s)
  <2>1. /\ i \in DOMAIN s /\ (s \o t)[i] = s[i]
        /\ j - Len(s) \in DOMAIN t /\ (s \o t)[j] = t[j - Len(s)]
    BY <1>1, <1>3, Concatenation
  <2> QED  BY <2>1
<1>4. CASE i > Len(s)
  <2>1. j > Len(s)
    BY <1>1, <1>4
  <2>2. /\ i - Len(s) \in DOMAIN t /\ (s \o t)[i] = t[i - Len(s)]
        /\ j - Len(s) \in DOMAIN t /\ (s \o t)[j] = t[j - Len(s)]
    BY <1>1, <1>4, <2>1, Concatenation
  <2>3. i - Len(s) < j - Len(s)
    BY <1>1
  <2> QED  BY <2>2, <2>3 DEF Rising
<1> QED  BY <1>1, <1>2, <1>3, <1>4

LEMMA AtMostOne ==
    ASSUME NEW S \in SUBSET Nat, 0 \notin S, NEW n \in {0} \cup S
    PROVE  /\ One(n) \in Seq(S)
           /\ Elements(One(n)) = {n} \ {0}
           /\ Rising(One(n))
           /\ \A i \in DOMAIN One(n) : n # 0 /\ One(n)[i] = n
<1>1. CASE n = 0
  <2>1. One(n) = <<>> /\ <<>> \in Seq(S) /\ DOMAIN <<>> = {}
    BY <1>1 DEF One
  <2> QED  BY <1>1, <2>1 DEF Elements, Rising
<1>2. CASE n # 0
  <2>1. One(n) = <<n>> /\ <<n>> \in Seq(S) /\ DOMAIN <<n>> = {1} /\ <<n>>[1] = n
    BY <1>2 DEF One
  <2>2. Elements(One(n)) = {n}
    BY <2>1 DEF Elements
  <2>3. Rising(One(n))
    BY <2>1 DEF Rising
  <2> QED  BY <1>2, <2>1, <2>2, <2>3
<1> QED  BY <1>1, <1>2

-----------------------------------------------------------------------------
\* The messages of Pipe, and their order.
LEMMA PipeElements ==
    ASSUME PathInv
    PROVE  Elements(Pipe) = InPipe
<1>1. /\ Messages \in SUBSET Nat /\ 0 \notin Messages
      /\ inSave \in {0} \cup Messages /\ handing \in {0} \cup Messages
      /\ rows \in Seq(Messages) /\ queue \in Seq(Messages)
  BY PartsAreMessages DEF PathInv, PathTypeOK
<1>2. /\ One(inSave) \in Seq(Messages) /\ Elements(One(inSave)) = {inSave} \ {0}
      /\ One(handing) \in Seq(Messages) /\ Elements(One(handing)) = {handing} \ {0}
  BY <1>1, AtMostOne
<1> DEFINE a == rows \o One(inSave)
           b == a \o queue
<1>3. a \in Seq(Messages) /\ b \in Seq(Messages)
  <2>1. a \in Seq(Messages)
    BY <1>1, <1>2
  <2> QED  BY <1>1, <2>1
<1>4. Elements(a) = Elements(rows) \cup Elements(One(inSave))
  BY <1>1, <1>2, ElementsOfConcatenation
<1>5. Pipe = b \o One(handing)
  BY DEF Pipe
<1> HIDE DEF a
<1>6. Elements(b) = Elements(a) \cup Elements(queue)
  BY <1>1, <1>3, ElementsOfConcatenation
<1> HIDE DEF b
<1>7. Elements(b \o One(handing)) = Elements(b) \cup Elements(One(handing))
  BY <1>2, <1>3, ElementsOfConcatenation
<1> QED  BY <1>2, <1>4, <1>5, <1>6, <1>7 DEF InPipe

\* Where the entries of a concatenation come from.
LEMMA EntriesOfConcatenation ==
    ASSUME NEW S, NEW s \in Seq(S), NEW t \in Seq(S), NEW i \in DOMAIN (s \o t)
    PROVE  \/ \E j \in DOMAIN s : (s \o t)[i] = s[j]
           \/ \E j \in DOMAIN t : (s \o t)[i] = t[j]
<1>1. i \in Nat /\ i \in 1..(Len(s) + Len(t)) /\ Len(s) \in Nat
  BY Concatenation
<1>2. CASE i <= Len(s)
  <2>1. i \in DOMAIN s /\ (s \o t)[i] = s[i]
    BY <1>1, <1>2, Concatenation
  <2> QED  BY <2>1
<1>3. CASE i > Len(s)
  <2>1. i - Len(s) \in DOMAIN t /\ (s \o t)[i] = t[i - Len(s)]
    BY <1>1, <1>3, Concatenation
  <2> QED  BY <2>1
<1> QED  BY <1>1, <1>2, <1>3

LEMMA PipeRises ==
    ASSUME PathInv
    PROVE  Rising(Pipe)
<1> DEFINE a == rows \o One(inSave)
           b == a \o queue
<1>1. /\ inSave \in {0} \cup Messages /\ handing \in {0} \cup Messages
      /\ rows \in Seq(Messages) /\ queue \in Seq(Messages)
      /\ Messages \in SUBSET Nat /\ 0 \notin Messages
  BY PartsAreMessages DEF PathInv, PathTypeOK
<1>2. \A s \in Seq(Messages) : s \in Seq(Nat)
  <2> SUFFICES ASSUME NEW s \in Seq(Messages) PROVE s \in Seq(Nat)
    OBVIOUS
  <2>1. Len(s) \in Nat /\ s \in [1..Len(s) -> Messages]
    OBVIOUS
  <2>2. s \in [1..Len(s) -> Nat]
    BY <1>1, <2>1
  <2> QED  BY <2>1, <2>2
<1>3. /\ One(inSave) \in Seq(Messages) /\ Rising(One(inSave))
      /\ \A i \in DOMAIN One(inSave) : inSave # 0 /\ One(inSave)[i] = inSave
      /\ One(handing) \in Seq(Messages) /\ Rising(One(handing))
      /\ \A i \in DOMAIN One(handing) : handing # 0 /\ One(handing)[i] = handing
  BY <1>1, AtMostOne
<1>4. a \in Seq(Messages) /\ b \in Seq(Messages)
  <2>1. a \in Seq(Messages)
    BY <1>1, <1>3
  <2> QED  BY <1>1, <2>1
<1>5. Rising(a)
  <2>1. \A i \in DOMAIN rows, j \in DOMAIN One(inSave) : rows[i] < One(inSave)[j]
    BY <1>3 DEF PathInv, PartsInOrder
  <2>2. Rising(rows)
    BY DEF PathInv, PartsInOrder
  <2> QED  BY <1>1, <1>2, <1>3, <2>1, <2>2, RisingConcatenation
<1>6. \A i \in DOMAIN a : \/ \E k \in DOMAIN rows : a[i] = rows[k]
                          \/ \E k \in DOMAIN One(inSave) : a[i] = One(inSave)[k]
  BY <1>1, <1>3, EntriesOfConcatenation
<1> HIDE DEF a
<1>7. \A i \in DOMAIN b : \/ \E k \in DOMAIN a : b[i] = a[k]
                          \/ \E k \in DOMAIN queue : b[i] = queue[k]
  BY <1>1, <1>4, EntriesOfConcatenation
<1>8. Rising(b)
  <2>1. \A i \in DOMAIN a, j \in DOMAIN queue : a[i] < queue[j]
    <3> SUFFICES ASSUME NEW i \in DOMAIN a, NEW j \in DOMAIN queue
                 PROVE  a[i] < queue[j]
      OBVIOUS
    <3> QED  BY <1>3, <1>6 DEF PathInv, PartsInOrder
  <2>2. Rising(queue)
    BY DEF PathInv, PartsInOrder
  <2>3. a \in Seq(Nat) /\ queue \in Seq(Nat)
    BY <1>1, <1>2, <1>4
  <2> QED  BY <1>5, <2>1, <2>2, <2>3, RisingConcatenation
<1>9. \A i \in DOMAIN b, j \in DOMAIN One(handing) : b[i] < One(handing)[j]
  <2> SUFFICES ASSUME NEW i \in DOMAIN b, NEW j \in DOMAIN One(handing)
               PROVE  b[i] < One(handing)[j]
    OBVIOUS
  <2>1. handing # 0 /\ One(handing)[j] = handing
    BY <1>3
  <2>2. /\ \A k \in DOMAIN rows : rows[k] < handing
        /\ \A k \in DOMAIN queue : queue[k] < handing
        /\ \A k \in DOMAIN One(inSave) : One(inSave)[k] < handing
    BY <1>3, <2>1 DEF PathInv, PartsInOrder
  <2>3. \A k \in DOMAIN a : a[k] < handing
    BY <1>6, <2>2
  <2> QED  BY <1>7, <2>1, <2>2, <2>3
<1>10. b \in Seq(Nat) /\ One(handing) \in Seq(Nat)
  BY <1>2, <1>3, <1>4
<1> HIDE DEF b
<1>11. Rising(b \o One(handing))
  BY <1>3, <1>8, <1>9, <1>10, RisingConcatenation
<1> QED  BY <1>11 DEF Pipe, a, b

-----------------------------------------------------------------------------
\* Rows are written in accept order, and nothing overtakes on the way
\* (broadcast's stamp, the channel, Run's loop).
THEOREM StoredInAcceptOrder == Spec => []StoredInOrder
<1>1. PathInv => StoredInOrder
  BY PipeRises DEF StoredInOrder
<1> QED  BY <1>1, PathCorrect, PTL

\* Every accepted message is stored, on its way, or given up for one reason
\* (the default and ctx.Done cases of broadcast, the error of save).
THEOREM EveryMessageAccountedFor == Spec => []AccountedFor
<1>1. PathInv => AccountedFor
  BY PipeElements DEF PathInv, PartsAccountedFor, AccountedFor, GivenUp
<1> QED  BY <1>1, PathCorrect, PTL

\* closeStore of run comes after the persister's last save.
THEOREM StoreClosedLast == Spec => []NoSaveAfterClose
<1>1. PathInv => NoSaveAfterClose
  BY DEF PathInv
<1> QED  BY <1>1, PathCorrect, PTL

\* What a shutdown loses came late: when the persister returns, it has stored
\* everything accepted so far that the cold path did not give up, except the
\* message the hub has in hand.
ReturnsDrained ==
    [][persister' = "done" /\ persister # "done" =>
         Messages \subseteq Elements(rows) \cup GivenUp \cup {handing}]_vars

\* drain empties the channel before Run returns, so that only what broadcast hands
\* off afterwards stays in the queue for good (the violation of
\* AcceptedSurviveShutdown is of such a message).
THEOREM OnlyTheLateAreLost == Spec => ReturnsDrained
<1>1. ASSUME PathInv, [Next]_vars, persister' = "done", persister # "done"
      PROVE  Messages \subseteq Elements(rows) \cup GivenUp \cup {handing}
  <2>1. PersisterReturns
    BY <1>1 DEF Next, Hub, HubBroadcast, HubHandsOff, HubStops, Persister, PersisterReceives,
                SaveSucceeds, SaveFails, PersisterDrains, MainCloses, Cancel, Tick, Terminated,
                Fetch, SendHistory, HubJoin, JoinAborted, HubLeave, vars, storeVars
  <2>2. inSave = 0 /\ queue = <<>>
    BY <2>1 DEF PersisterReturns
  <2>3. Elements(queue) = {}
    BY <2>2 DEF Elements
  <2> QED  BY <1>1, <2>2, <2>3 DEF PathInv, PartsAccountedFor, InPipe
<1>2. PathInv /\ [Next]_vars =>
        [persister' = "done" /\ persister # "done" =>
           Messages \subseteq Elements(rows) \cup GivenUp \cup {handing}]_vars
  BY <1>1
<1> QED  BY <1>2, PathCorrect, PTL DEF Spec, ReturnsDrained
=============================================================================
