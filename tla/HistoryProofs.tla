---------------------------- MODULE HistoryProofs ----------------------------
(***************************************************************************)
(* Theorems about the history a joining client is sent in ColdPath, for all *)
(* rooms, clients, limits and tables: RecentByRoom returns the end of what  *)
(* is stored of the room, in accept order, and the live stream follows it.  *)
(***************************************************************************)
EXTENDS ColdPathProofs, FiniteSetTheorems, SequenceTheorems

-----------------------------------------------------------------------------
\* Ranks in a finite set of numbers.
Below(S, i) == {j \in S : j < i}

\* The ranks of the elements are 0, 1, ... up to the size of the set, in their
\* order and each once: what CHOOSE finds in RecentByRoom.
LEMMA Ranks ==
    ASSUME NEW S \in SUBSET Nat, IsFiniteSet(S)
    PROVE  /\ Cardinality(S) \in Nat
           /\ \A i \in S : Cardinality(Below(S, i)) \in 0..(Cardinality(S) - 1)
           /\ \A i, j \in S : i < j => Cardinality(Below(S, i)) < Cardinality(Below(S, j))
           /\ \A k \in 1..Cardinality(S) : \E i \in S : Cardinality(Below(S, i)) = k - 1
<1> DEFINE n == Cardinality(S)
           rank(i) == Cardinality(Below(S, i))
<1>1. n \in Nat
  BY FS_CardinalityType
<1>2. \A i \in S : IsFiniteSet(Below(S, i)) /\ rank(i) \in Nat
  <2> SUFFICES ASSUME NEW i \in S PROVE IsFiniteSet(Below(S, i)) /\ rank(i) \in Nat
    OBVIOUS
  <2>1. Below(S, i) \in SUBSET S
    BY DEF Below
  <2>2. IsFiniteSet(Below(S, i))
    BY <2>1, FS_Subset
  <2> QED  BY <2>2, FS_CardinalityType
<1>3. \A i \in S : rank(i) < n
  <2> SUFFICES ASSUME NEW i \in S PROVE rank(i) < n
    OBVIOUS
  <2>1. Below(S, i) \in SUBSET S /\ i \notin Below(S, i)
    BY DEF Below
  <2>2. rank(i) <= n /\ (n = rank(i) => S = Below(S, i))
    BY <2>1, FS_Subset
  <2>3. n # rank(i)
    BY <2>1, <2>2
  <2> QED  BY <1>1, <1>2, <2>2, <2>3
<1>4. \A i, j \in S : i < j => rank(i) < rank(j)
  <2> SUFFICES ASSUME NEW i \in S, NEW j \in S, i < j PROVE rank(i) < rank(j)
    OBVIOUS
  <2>1. Below(S, i) \in SUBSET Below(S, j) /\ i \in Below(S, j) /\ i \notin Below(S, i)
    <3>1. i \in Nat /\ j \in Nat /\ \A k \in S : k \in Nat
      OBVIOUS
    <3>2. \A k \in Below(S, i) : k \in Below(S, j)
      BY <3>1 DEF Below
    <3>3. i \in Below(S, j) /\ i \notin Below(S, i)
      BY <3>1 DEF Below
    <3> QED  BY <3>2, <3>3
  <2>2. rank(i) <= rank(j) /\ (rank(j) = rank(i) => Below(S, j) = Below(S, i))
    BY <1>2, <2>1, FS_Subset
  <2>3. rank(j) # rank(i)
    BY <2>1, <2>2
  <2> QED  BY <1>2, <2>2, <2>3
<1>5. \A k \in 1..n : \E i \in S : rank(i) = k - 1
  <2> DEFINE f == [i \in S |-> rank(i) + 1]
  <2>1. IsFiniteSet(1..n) /\ Cardinality(1..n) = n
    BY <1>1, FS_Interval
  <2>2. f \in [S -> 1..n]
    BY <1>1, <1>2, <1>3
  <2>3. \A i, j \in S : f[i] = f[j] => i = j
    <3> SUFFICES ASSUME NEW i \in S, NEW j \in S, i # j PROVE f[i] # f[j]
      OBVIOUS
    <3>1. i < j \/ j < i
      OBVIOUS
    <3>2. rank(i) < rank(j) \/ rank(j) < rank(i)
      BY <1>4, <3>1
    <3> HIDE DEF rank
    <3> QED  BY <1>2, <3>2
  <2>4. f \in Injection(S, 1..n)
    BY <2>2, <2>3 DEF Injection, IsInjective
  <2>5. f \in Surjection(S, 1..n)
    BY <2>1, <2>4, FS_Injection
  <2>6. \A k \in 1..n : \E i \in S : f[i] = k
    BY <2>5 DEF Surjection
  <2> HIDE DEF n, rank
  <2>7. ASSUME NEW k \in 1..n PROVE \E i \in S : rank(i) = k - 1
    <3>1. PICK i \in S : f[i] = k
      BY <2>6
    <3>2. rank(i) + 1 = k /\ rank(i) \in Nat
      BY <1>2, <3>1
    <3> QED  BY <3>2
  <2> QED  BY <2>7
<1> QED  BY <1>1, <1>2, <1>3, <1>4, <1>5

LEMMA Entries ==
    ASSUME NEW S, NEW s \in Seq(S)
    PROVE  \A i \in 1..Len(s) : s[i] \in S
  OBVIOUS

\* Renaming the elements of a set does not change their number.
LEMMA Renamed ==
    ASSUME NEW S, IsFiniteSet(S), NEW f,
           \A i, j \in S : f[i] = f[j] => i = j
    PROVE  IsFiniteSet({f[i] : i \in S}) /\ Cardinality({f[i] : i \in S}) = Cardinality(S)
<1> DEFINE T == {f[i] : i \in S}
           g == [i \in S |-> f[i]]
<1>1. g \in [S -> T]
  OBVIOUS
<1>2. \A i, j \in S : g[i] = g[j] => i = j
  OBVIOUS
<1>3. \A t \in T : \E i \in S : g[i] = t
  OBVIOUS
<1>4. g \in Bijection(S, T)
  <2> HIDE DEF g, T
  <2> QED  BY <1>1, <1>2, <1>3 DEF Bijection, Injection, IsInjective, Surjection
<1>5. ExistsBijection(S, T)
  BY <1>4 DEF ExistsBijection
<1> QED  BY <1>5, FS_Bijection

-----------------------------------------------------------------------------
\* The query of RecentByRoom.

\* Time stamps never fall along the accepted messages (the clock of Tick).
TimesRise ==
    /\ \A i, j \in Messages : i < j => accepted[i].time <= accepted[j].time
    /\ \A i \in Messages : accepted[i].time <= clock

LEMMA TimesAreNumbers ==
    ASSUME PathInv
    PROVE  \A m \in Messages : accepted[m].time \in Nat
<1>1. accepted \in Seq([room : Room, time : 1..MaxTime])
  BY DEF PathInv, PathTypeOK
<1>2. \A m \in Messages : accepted[m] \in [room : Room, time : 1..MaxTime]
  BY <1>1, Entries DEF Messages
<1>3. 1..MaxTime \subseteq Nat
  BY MaxTimeAssumption
<1> QED  BY <1>2, <1>3

\* ORDER BY created_at, id is then the order of the rows.
LEMMA OlderIsBefore ==
    ASSUME PathInv, TimesRise
    PROVE  \A i, j \in DOMAIN rows : Older(i, j) <=> i < j
<1> SUFFICES ASSUME NEW i \in DOMAIN rows, NEW j \in DOMAIN rows
             PROVE  Older(i, j) <=> i < j
  OBVIOUS
<1> DEFINE t(k) == accepted[rows[k]].time
<1>1. \A m \in Messages : accepted[m].time \in Nat
  BY TimesAreNumbers
<1>2. /\ i \in Nat /\ j \in Nat
      /\ rows[i] \in Messages /\ rows[j] \in Messages
      /\ t(i) \in Nat /\ t(j) \in Nat
  BY <1>1, PartsAreMessages
<1>3. /\ i < j => t(i) <= t(j)
      /\ j < i => t(j) <= t(i)
  BY <1>2 DEF PathInv, PartsInOrder, Rising, TimesRise
<1>4. Older(i, j) <=> t(i) < t(j) \/ (t(i) = t(j) /\ i < j)
  BY DEF Older
<1>5. i = j => t(i) = t(j)
  OBVIOUS
<1> HIDE DEF t
<1> QED  BY <1>2, <1>3, <1>4, <1>5

\* The messages of room r in the first k rows, and the last of them.
StoredOf(r, k) == {m \in Elements(SubSeq(rows, 1, k)) : accepted[m].room = r}
LastOf(S) == {m \in S : Cardinality({n \in S : n > m}) < HistoryLimit}

LEMMA ElementsOfPrefix ==
    ASSUME NEW S, NEW s \in Seq(S), NEW k \in 0..Len(s)
    PROVE  Elements(SubSeq(s, 1, k)) = {s[i] : i \in 1..k}
<1>1. Len(s) \in Nat /\ k \in Nat /\ k <= Len(s)
  OBVIOUS
<1>2. Len(SubSeq(s, 1, k)) = k /\ DOMAIN SubSeq(s, 1, k) = 1..k
  BY <1>1
<1>3. \A i \in 1..k : SubSeq(s, 1, k)[i] = s[i]
  BY <1>1
<1> QED  BY <1>2, <1>3 DEF Elements

\* The parts of the query: WHERE room, LIMIT, and the k-th from the oldest.
RowsOf(r)  == {i \in DOMAIN rows : accepted[rows[i]].room = r}
Limited(r) == {i \in RowsOf(r) : Cardinality({j \in RowsOf(r) : Older(i, j)}) < HistoryLimit}
Nth(r, k)  == CHOOSE i \in Limited(r) : Cardinality({j \in Limited(r) : Older(j, i)}) = k - 1

LEMMA RowsInOrder ==
    ASSUME PathInv, TimesRise, NEW i \in DOMAIN rows, NEW j \in DOMAIN rows
    PROVE  /\ i \in Nat /\ j \in Nat /\ rows[i] \in Nat /\ rows[j] \in Nat
           /\ Older(i, j) <=> i < j
           /\ i < j <=> rows[i] < rows[j]
           /\ rows[i] = rows[j] => i = j
<1>1. i \in Nat /\ j \in Nat /\ rows[i] \in Nat /\ rows[j] \in Nat
  BY PartsAreMessages
<1>2. /\ i < j => rows[i] < rows[j]
      /\ j < i => rows[j] < rows[i]
  BY DEF PathInv, PartsInOrder, Rising
<1>3. Older(i, j) <=> i < j
  BY OlderIsBefore
<1>4. i < j \/ i = j \/ j < i
  BY <1>1
<1>5. i < j <=> rows[i] < rows[j]
  BY <1>1, <1>2, <1>4
<1>6. rows[i] = rows[j] => i = j
  BY <1>1, <1>2, <1>4
<1> QED  BY <1>1, <1>3, <1>5, <1>6

LEMMA RowSets ==
    ASSUME PathInv, NEW r
    PROVE  /\ RowsOf(r) \in SUBSET Nat /\ RowsOf(r) \subseteq DOMAIN rows
           /\ IsFiniteSet(RowsOf(r))
           /\ Limited(r) \in SUBSET Nat /\ Limited(r) \subseteq RowsOf(r)
           /\ IsFiniteSet(Limited(r))
<1>1. Len(rows) \in Nat /\ DOMAIN rows = 1..Len(rows)
  BY PartsAreMessages DEF PathInv, PathTypeOK
<1>2. RowsOf(r) \subseteq DOMAIN rows
  BY DEF RowsOf
<1>3. Limited(r) \subseteq RowsOf(r)
  BY DEF Limited
<1>4. IsFiniteSet(DOMAIN rows) /\ DOMAIN rows \subseteq Nat
  BY <1>1, FS_Interval
<1>5. IsFiniteSet(RowsOf(r))
  BY <1>2, <1>4, FS_Subset
<1>6. IsFiniteSet(Limited(r))
  BY <1>3, <1>5, FS_Subset
<1> QED  BY <1>2, <1>3, <1>4, <1>5, <1>6

\* The query's rows come in their order, each once: Nth is what CHOOSE promises.
LEMMA NthOfQuery ==
    ASSUME PathInv, TimesRise, NEW r
    PROVE  LET n == Cardinality(Limited(r)) IN
           /\ n \in Nat
           /\ \A k \in 1..n : Nth(r, k) \in Limited(r)
           /\ \A k, l \in 1..n : k < l => Nth(r, k) < Nth(r, l)
           /\ \A i \in Limited(r) : \E k \in 1..n : Nth(r, k) = i
<1> DEFINE S == Limited(r)
           n == Cardinality(S)
           rank(i) == Cardinality(Below(S, i))
<1>1. S \in SUBSET Nat /\ IsFiniteSet(S) /\ S \subseteq DOMAIN rows
  BY RowSets
<1>2. \A i \in S : {j \in S : Older(j, i)} = Below(S, i)
  <2> SUFFICES ASSUME NEW i \in S PROVE {j \in S : Older(j, i)} = Below(S, i)
    OBVIOUS
  <2>1. \A j \in S : Older(j, i) <=> j < i
    BY <1>1, OlderIsBefore
  <2> HIDE DEF S
  <2> QED  BY <2>1 DEF Below
<1> HIDE DEF S
<1>3. /\ n \in Nat
      /\ \A i \in S : rank(i) \in 0..(n - 1)
      /\ \A i, j \in S : i < j => rank(i) < rank(j)
      /\ \A k \in 1..n : \E i \in S : rank(i) = k - 1
  BY <1>1, Ranks
<1>4. \A k \in 1..n : Nth(r, k) \in S /\ rank(Nth(r, k)) = k - 1
  <2> SUFFICES ASSUME NEW k \in 1..n
               PROVE  Nth(r, k) \in S /\ rank(Nth(r, k)) = k - 1
    OBVIOUS
  <2>1. Nth(r, k) = CHOOSE i \in S : Cardinality({j \in S : Older(j, i)}) = k - 1
    BY DEF Nth, S
  <2>2. \E i \in S : Cardinality({j \in S : Older(j, i)}) = k - 1
    BY <1>2, <1>3
  <2>3. Nth(r, k) \in S /\ Cardinality({j \in S : Older(j, Nth(r, k))}) = k - 1
    BY <2>1, <2>2
  <2> QED  BY <1>2, <2>3
<1> HIDE DEF n, rank
<1>5. \A k, l \in 1..n : k < l => Nth(r, k) < Nth(r, l)
  <2> SUFFICES ASSUME NEW k \in 1..n, NEW l \in 1..n, k < l PROVE Nth(r, k) < Nth(r, l)
    OBVIOUS
  <2>1. /\ Nth(r, k) \in S /\ rank(Nth(r, k)) = k - 1
        /\ Nth(r, l) \in S /\ rank(Nth(r, l)) = l - 1
    BY <1>4
  <2>2. k \in Nat /\ l \in Nat /\ Nth(r, k) \in Nat /\ Nth(r, l) \in Nat
    <3>1. k \in Nat /\ l \in Nat
      BY <1>3
    <3>2. Nth(r, k) \in Nat /\ Nth(r, l) \in Nat
      BY <1>1, <2>1
    <3> QED  BY <3>1, <3>2
  <2>3. Nth(r, k) # Nth(r, l)
    BY <2>1, <2>2
  <2>4. ~(Nth(r, l) < Nth(r, k))
    <3>1. Nth(r, l) < Nth(r, k) => l - 1 < k - 1
      BY <1>3, <2>1
    <3> QED  BY <2>2, <3>1
  <2> QED  BY <2>2, <2>3, <2>4
<1>6. \A i \in S : \E k \in 1..n : Nth(r, k) = i
  <2> SUFFICES ASSUME NEW i \in S PROVE \E k \in 1..n : Nth(r, k) = i
    OBVIOUS
  <2>1. PICK k \in 1..n : rank(i) = k - 1
    <3>1. rank(i) + 1 \in 1..n /\ rank(i) = (rank(i) + 1) - 1
      BY <1>3
    <3> QED  BY <3>1
  <2>2. Nth(r, k) \in S /\ rank(Nth(r, k)) = k - 1
    BY <1>4
  <2>3. i \in Nat /\ Nth(r, k) \in Nat
    BY <1>1, <2>2
  <2>4. k - 1 \in Int
    BY <1>3
  <2>5. ~(Nth(r, k) < i) /\ ~(i < Nth(r, k))
    <3>1. Nth(r, k) < i => rank(Nth(r, k)) < rank(i)
      BY <1>3, <2>2
    <3>2. i < Nth(r, k) => rank(i) < rank(Nth(r, k))
      BY <1>3, <2>2
    <3> QED  BY <2>1, <2>2, <2>4, <3>1, <3>2
  <2> QED  BY <2>3, <2>5
<1> QED  BY <1>3, <1>4, <1>5, <1>6 DEF n, S

\* LIMIT keeps the messages that fewer than HistoryLimit of the room follow.
LEMMA LimitKeepsTheLast ==
    ASSUME PathInv, TimesRise, NEW r
    PROVE  LastOf(StoredOf(r, Len(rows))) = {rows[i] : i \in Limited(r)}
<1> DEFINE log == StoredOf(r, Len(rows))
           after(i) == {j \in RowsOf(r) : Older(i, j)}
<1>1. log = {rows[i] : i \in RowsOf(r)}
  <2>1. rows \in Seq(Messages) /\ Len(rows) \in 0..Len(rows) /\ DOMAIN rows = 1..Len(rows)
    BY PartsAreMessages DEF PathInv, PathTypeOK
  <2>2. Elements(SubSeq(rows, 1, Len(rows))) = {rows[i] : i \in DOMAIN rows}
    BY <2>1, ElementsOfPrefix
  <2> QED  BY <2>2 DEF StoredOf, RowsOf
<1> HIDE DEF log
<1>2. \A i \in RowsOf(r) : Cardinality({m \in log : m > rows[i]}) = Cardinality(after(i))
  <2> SUFFICES ASSUME NEW i \in RowsOf(r)
               PROVE  Cardinality({m \in log : m > rows[i]}) = Cardinality(after(i))
    OBVIOUS
  <2>1. \A j \in RowsOf(r) : Older(i, j) <=> rows[j] > rows[i]
    <3> SUFFICES ASSUME NEW j \in RowsOf(r) PROVE Older(i, j) <=> rows[j] > rows[i]
      OBVIOUS
    <3>1. i \in DOMAIN rows /\ j \in DOMAIN rows
      BY RowSets
    <3>2. rows[i] \in Nat /\ rows[j] \in Nat /\ (Older(i, j) <=> rows[i] < rows[j])
      BY <3>1, RowsInOrder
    <3> QED  BY <3>2
  <2>2. {m \in log : m > rows[i]} = {rows[j] : j \in after(i)}
    BY <1>1, <2>1
  <2>3. after(i) \in SUBSET RowsOf(r)
    OBVIOUS
  <2> HIDE DEF after
  <2>4. IsFiniteSet(after(i))
    BY <2>3, RowSets, FS_Subset
  <2>5. \A j, k \in after(i) : rows[j] = rows[k] => j = k
    <3> SUFFICES ASSUME NEW j \in after(i), NEW k \in after(i), rows[j] = rows[k]
                 PROVE  j = k
      OBVIOUS
    <3>1. j \in DOMAIN rows /\ k \in DOMAIN rows
      BY <2>3, RowSets
    <3> QED  BY <3>1, RowsInOrder
  <2>6. Cardinality({rows[j] : j \in after(i)}) = Cardinality(after(i))
    BY <2>4, <2>5, Renamed
  <2> QED  BY <2>2, <2>6
<1>3. Limited(r) = {i \in RowsOf(r) : Cardinality(after(i)) < HistoryLimit}
  BY DEF Limited
<1> HIDE DEF after
<1> QED  BY <1>1, <1>2, <1>3 DEF LastOf, log

\* RecentByRoom returns the HistoryLimit last messages stored of the room, or
\* all of them, oldest first.
LEMMA Recent ==
    ASSUME PathInv, TimesRise, NEW r
    PROVE  /\ RecentByRoom(r) \in Seq(Messages)
           /\ Rising(RecentByRoom(r))
           /\ Elements(RecentByRoom(r)) = LastOf(StoredOf(r, Len(rows)))
<1> DEFINE n == Cardinality(Limited(r))
<1>1. RecentByRoom(r) = [k \in 1..n |-> rows[Nth(r, k)]]
  BY DEF RecentByRoom, Nth, Limited, RowsOf
<1>2. /\ n \in Nat
      /\ \A k \in 1..n : Nth(r, k) \in Limited(r)
      /\ \A k, l \in 1..n : k < l => Nth(r, k) < Nth(r, l)
      /\ \A i \in Limited(r) : \E k \in 1..n : Nth(r, k) = i
  BY NthOfQuery
<1> HIDE DEF n
<1>3. \A k \in 1..n : Nth(r, k) \in DOMAIN rows /\ rows[Nth(r, k)] \in Messages
  BY <1>2, RowSets, PartsAreMessages
<1>4. RecentByRoom(r) \in Seq(Messages)
  <2>1. RecentByRoom(r) \in [1..n -> Messages]
    BY <1>1, <1>3
  <2> QED  BY <1>2, <2>1
<1>5. Rising(RecentByRoom(r))
  <2> SUFFICES ASSUME NEW k \in 1..n, NEW l \in 1..n, k < l
               PROVE  rows[Nth(r, k)] < rows[Nth(r, l)]
    BY <1>1 DEF Rising
  <2>1. /\ Nth(r, k) \in DOMAIN rows /\ Nth(r, l) \in DOMAIN rows
        /\ Nth(r, k) < Nth(r, l)
    BY <1>2, <1>3
  <2> QED  BY <2>1, RowsInOrder
<1>6. Elements(RecentByRoom(r)) = {rows[i] : i \in Limited(r)}
  <2>1. Elements(RecentByRoom(r)) = {rows[Nth(r, k)] : k \in 1..n}
    BY <1>1 DEF Elements
  <2> QED  BY <1>2, <2>1
<1> QED  BY <1>4, <1>5, <1>6, LimitKeepsTheLast

-----------------------------------------------------------------------------
\* The inductive invariant, on top of PathInv: what TypeOK says of the clients,
\* the order of the time stamps, and the two properties themselves with what ties
\* them to the steps of handleJoin.
ClientTypeOK ==
    /\ target \in [Client -> Room]
    /\ reader \in [Client -> {"idle", "fetched", "sent", "panic"}]
    /\ member \in [Client -> BOOLEAN]
    /\ hist \in [Client -> Seq(Messages)]
    /\ live \in [Client -> SUBSET Messages] /\ before \in [Client -> SUBSET Messages]
    /\ seen \in [Client -> Nat]
    /\ asked \in [Client -> {"never", "outside", "inside", "failed"}]

SeenStored == \A c \in Client : seen[c] <= Len(rows)

\* Only members get messages live.
LiveInside(c) == ~member[c] => live[c] = {} /\ before[c] = {}

\* HistoryBeforeLive and HistoryIsTail, client by client.  A client that asks from
\* outside comes in only after the frame has been sent.
LiveFollows(c) ==
    /\ reader[c] # "fetched" =>
         \A n \in live[c] \ before[c] : \A m \in Elements(hist[c]) : m < n
    /\ \A n \in live[c] : \A m \in Messages :
         m > n /\ accepted[m].room = target[c] => m \in live[c]

FrameFirst(c) ==
    asked[c] = "outside" => before[c] = {} /\ (reader[c] = "fetched" => ~member[c])

FrameIsTail(c) ==
    /\ Elements(hist[c]) = LastOf(StoredOf(target[c], seen[c]))
    /\ Rising(hist[c])

HistInv ==
    /\ ClientTypeOK
    /\ TimesRise
    /\ SeenStored
    /\ \A c \in Client : LiveInside(c) /\ LiveFollows(c) /\ FrameFirst(c)
    /\ \A c \in Client : FrameIsTail(c)

LEMMA HistInit == Init => HistInv
<1> SUFFICES ASSUME Init PROVE HistInv
  OBVIOUS
<1>1. PathInv /\ Messages = {} /\ rows = <<>> /\ Len(rows) = 0
  BY InitInv DEF Init, Messages
<1>2. ClientTypeOK
  BY DEF Init, ClientTypeOK
<1>3. TimesRise /\ SeenStored
  BY <1>1 DEF Init, TimesRise, SeenStored
<1>4. \A c \in Client : LiveInside(c) /\ LiveFollows(c) /\ FrameFirst(c)
  BY DEF Init, LiveInside, LiveFollows, FrameFirst
<1>5. \A c \in Client : FrameIsTail(c)
  <2> SUFFICES ASSUME NEW c \in Client PROVE FrameIsTail(c)
    OBVIOUS
  <2>1. hist[c] = <<>> /\ seen[c] = 0 /\ 0 \in 0..Len(rows) /\ DOMAIN <<>> = {}
    BY <1>1 DEF Init
  <2>2. Elements(hist[c]) = {} /\ Rising(hist[c])
    BY <2>1 DEF Elements, Rising
  <2>3. Elements(SubSeq(rows, 1, 0)) = {rows[i] : i \in 1..0}
    BY <1>1, <2>1, ElementsOfPrefix DEF PathInv, PathTypeOK
  <2>4. StoredOf(target[c], seen[c]) = {}
    BY <2>1, <2>3 DEF StoredOf
  <2> QED  BY <2>2, <2>4 DEF FrameIsTail, LastOf
<1> QED  BY <1>2, <1>3, <1>4, <1>5 DEF HistInv

\* What has been stored and accepted stays so: the frames sent before remain
\* the end of what was stored when they were fetched.
LEMMA StoredStays ==
    ASSUME PathInv, PathInv', NEW r, NEW k \in 0..Len(rows),
           Len(rows) <= Len(rows'), \A i \in 1..Len(rows) : rows'[i] = rows[i],
           \A m \in Messages : accepted'[m] = accepted[m]
    PROVE  {m \in Elements(SubSeq(rows', 1, k)) : accepted'[m].room = r} = StoredOf(r, k)
<1>1. /\ rows \in Seq(Messages) /\ rows' \in Seq(Messages')
      /\ Len(rows) \in Nat /\ k \in Nat /\ k \in 0..Len(rows')
      /\ \A i \in 1..Len(rows) : rows[i] \in Messages
  BY PartsAreMessages DEF PathInv, PathTypeOK
<1>2. Elements(SubSeq(rows, 1, k)) = {rows[i] : i \in 1..k}
  BY <1>1, ElementsOfPrefix
<1>3. Elements(SubSeq(rows', 1, k)) = {rows'[i] : i \in 1..k}
  BY <1>1, ElementsOfPrefix
<1>4. \A i \in 1..k : rows'[i] = rows[i] /\ accepted'[rows[i]] = accepted[rows[i]]
  BY <1>1
<1> QED  BY <1>2, <1>3, <1>4 DEF StoredOf

LEMMA FrameStays ==
    ASSUME PathInv, PathInv', HistInv, NEW c \in Client,
           UNCHANGED <<target[c], hist[c], seen[c]>>,
           Len(rows) <= Len(rows'), \A i \in 1..Len(rows) : rows'[i] = rows[i],
           \A m \in Messages : accepted'[m] = accepted[m]
    PROVE  FrameIsTail(c)'
<1>1. PICK r : r = target[c]
  OBVIOUS
<1>2. PICK k : k = seen[c]
  OBVIOUS
<1>3. k \in 0..Len(rows)
  <2>1. Len(rows) \in Nat
    BY DEF PathInv, PathTypeOK
  <2> QED  BY <1>2, <2>1 DEF HistInv, ClientTypeOK, SeenStored
<1>4. {m \in Elements(SubSeq(rows', 1, k)) : accepted'[m].room = r} = StoredOf(r, k)
  BY <1>3, StoredStays
<1>5. StoredOf(target[c], seen[c])' = StoredOf(target[c], seen[c])
  <2>1. target'[c] = r /\ seen'[c] = k
    BY <1>1, <1>2
  <2>2. StoredOf(target[c], seen[c])
          = {m \in Elements(SubSeq(rows, 1, k)) : accepted[m].room = r}
    BY <1>1, <1>2 DEF StoredOf
  <2>3. StoredOf(target[c], seen[c])'
          = {m \in Elements(SubSeq(rows', 1, k)) : accepted'[m].room = r}
    BY <2>1 DEF StoredOf
  <2> QED  BY <1>4, <2>2, <2>3 DEF StoredOf
<1>6. LastOf(StoredOf(target[c], seen[c]))' = LastOf(StoredOf(target[c], seen[c]))
  BY <1>5 DEF LastOf
<1>7. Elements(hist[c])' = Elements(hist[c])
  BY DEF Elements
<1>8. Rising(hist[c])' <=> Rising(hist[c])
  BY DEF Rising
<1>9. FrameIsTail(c)
  BY DEF HistInv
<1> QED  BY <1>6, <1>7, <1>8, <1>9 DEF FrameIsTail

\* Steps that accept nothing and do not touch the clients: rows may be added, and
\* the clock may move on.
LEMMA HistQuiet ==
    ASSUME PathInv, PathInv', HistInv,
           UNCHANGED <<accepted, clientVars>>,
           clock' \in Nat, clock <= clock',
           Len(rows) <= Len(rows'), \A i \in 1..Len(rows) : rows'[i] = rows[i]
    PROVE  HistInv'
<1>1. /\ Messages' = Messages
      /\ UNCHANGED <<accepted, target, reader, member, hist, live, seen, asked, before>>
  BY DEF Messages, clientVars
<1>2. ClientTypeOK'
  BY <1>1 DEF HistInv, ClientTypeOK
<1>3. TimesRise'
  <2>1. \A m \in Messages : accepted[m].time \in Nat
    BY TimesAreNumbers
  <2>2. clock \in Nat
    BY MaxTimeAssumption DEF PathInv, PathTypeOK
  <2> QED  BY <1>1, <2>1, <2>2 DEF HistInv, TimesRise
<1>4. SeenStored'
  <2>1. Len(rows) \in Nat /\ Len(rows') \in Nat
    BY DEF PathInv, PathTypeOK
  <2> QED  BY <1>1, <2>1 DEF HistInv, ClientTypeOK, SeenStored
<1>5. ASSUME NEW c \in Client PROVE (LiveInside(c) /\ LiveFollows(c) /\ FrameFirst(c))'
  BY <1>1 DEF HistInv, LiveInside, LiveFollows, FrameFirst, Elements
<1>6. ASSUME NEW c \in Client PROVE FrameIsTail(c)'
  <2>1. UNCHANGED <<target[c], hist[c], seen[c]>> /\ \A m \in Messages : accepted'[m] = accepted[m]
    BY <1>1
  <2> QED  BY <2>1, FrameStays
<1> QED  BY <1>2, <1>3, <1>4, <1>5, <1>6 DEF HistInv

\* Steps of one client that fetch nothing.
LEMMA HistClient ==
    ASSUME PathInv, PathInv', HistInv, NEW c \in Client,
           UNCHANGED <<accepted, clock, rows, target, hist, seen>>,
           ClientTypeOK',
           \A d \in Client \ {c} :
             UNCHANGED <<reader[d], member[d], live[d], asked[d], before[d]>>,
           LiveInside(c)', LiveFollows(c)', FrameFirst(c)'
    PROVE  HistInv'
<1>1. Messages' = Messages /\ Len(rows) \in Nat
  BY DEF Messages, PathInv, PathTypeOK
<1>2. TimesRise' /\ SeenStored'
  BY <1>1 DEF HistInv, TimesRise, SeenStored
<1>3. ASSUME NEW d \in Client PROVE (LiveInside(d) /\ LiveFollows(d) /\ FrameFirst(d))'
  <2>1. CASE d = c
    BY <2>1
  <2>2. CASE d # c
    <3>1. UNCHANGED <<reader[d], member[d], live[d], asked[d], before[d]>>
      BY <2>2
    <3>2. LiveInside(d) /\ LiveFollows(d) /\ FrameFirst(d)
      BY DEF HistInv
    <3> QED  BY <1>1, <3>1, <3>2 DEF LiveInside, LiveFollows, FrameFirst, Elements
  <2> QED  BY <2>1, <2>2
<1>4. ASSUME NEW d \in Client PROVE FrameIsTail(d)'
  <2>1. /\ UNCHANGED <<target[d], hist[d], seen[d]>>
        /\ Len(rows) <= Len(rows') /\ \A i \in 1..Len(rows) : rows'[i] = rows[i]
        /\ \A m \in Messages : accepted'[m] = accepted[m]
    BY <1>1
  <2> QED  BY <2>1, FrameStays
<1> QED  BY <1>2, <1>3, <1>4 DEF HistInv

-----------------------------------------------------------------------------
\* The steps that are not quiet.

\* A message is accepted: its number is past every history frame, its time not
\* before any other, and those who already get its room live get it too.
LEMMA HistBroadcast ==
    ASSUME PathInv, PathInv', HistInv, NEW r \in Room, HubBroadcast(r)
    PROVE  HistInv'
<1> DEFINE new == Len(accepted) + 1
<1>1. /\ accepted' = Append(accepted, [room |-> r, time |-> clock])
      /\ live' = [c \in Client |-> IF member[c] /\ target[c] = r
                                   THEN live[c] \cup {Len(accepted')} ELSE live[c]]
      /\ UNCHANGED <<clock, rows, target, reader, member, hist, seen, asked, before>>
  BY DEF HubBroadcast, storeVars
<1>2. /\ accepted' \in Seq([room : Room, time : 1..MaxTime])
      /\ Len(accepted') = new /\ Len(accepted) \in Nat /\ DOMAIN accepted = Messages
      /\ \A m \in Messages : accepted'[m] = accepted[m]
      /\ accepted'[new] = [room |-> r, time |-> clock]
  <2>1. [room |-> r, time |-> clock] \in [room : Room, time : 1..MaxTime]
    BY DEF PathInv, PathTypeOK
  <2>2. accepted \in Seq([room : Room, time : 1..MaxTime])
    BY DEF PathInv, PathTypeOK
  <2> QED  BY <1>1, <2>1, <2>2 DEF Messages
<1>3. /\ Messages' = Messages \cup {new} /\ new \notin Messages
      /\ new \in Nat /\ Messages \subseteq Nat
      /\ \A m \in Messages : m < new
  BY <1>2 DEF Messages
<1> HIDE DEF new
<1>4. \A c \in Client : live'[c] = IF member[c] /\ target[c] = r
                                   THEN live[c] \cup {new} ELSE live[c]
  BY <1>1, <1>2
<1>5. ClientTypeOK'
  <2>1. hist' \in [Client -> Seq(Messages')]
    <3>1. \A s \in Seq(Messages) : s \in Seq(Messages')
      BY <1>3
    <3> QED  BY <1>1, <3>1 DEF HistInv, ClientTypeOK
  <2>2. live' \in [Client -> SUBSET Messages'] /\ before' \in [Client -> SUBSET Messages']
    BY <1>1, <1>2, <1>3 DEF HistInv, ClientTypeOK
  <2> QED  BY <1>1, <2>1, <2>2 DEF HistInv, ClientTypeOK
<1>6. TimesRise'
  <2>1. \A m \in Messages : accepted[m].time \in Nat /\ accepted[m].time <= clock
    BY TimesAreNumbers DEF HistInv, TimesRise
  <2>2. clock \in Nat /\ accepted'[new].time = clock
    BY <1>2, MaxTimeAssumption DEF PathInv, PathTypeOK
  <2>3. \A m \in Messages' : accepted'[m].time <= clock
    BY <1>2, <1>3, <2>1, <2>2
  <2>4. \A i, j \in Messages' : i < j => accepted'[i].time <= accepted'[j].time
    <3> SUFFICES ASSUME NEW i \in Messages', NEW j \in Messages', i < j
                 PROVE  accepted'[i].time <= accepted'[j].time
      OBVIOUS
    <3>1. CASE j = new
      BY <2>2, <2>3, <3>1
    <3>2. CASE j # new
      <4>1. j \in Messages /\ i \in Messages
        BY <1>3, <3>2
      <4> QED  BY <1>2, <4>1 DEF HistInv, TimesRise
    <3> QED  BY <3>1, <3>2
  <2> QED  BY <1>1, <2>3, <2>4 DEF TimesRise
<1>7. SeenStored'
  BY <1>1 DEF HistInv, SeenStored
<1>8. ASSUME NEW c \in Client PROVE (LiveInside(c) /\ LiveFollows(c) /\ FrameFirst(c))'
  <2>1. hist[c] \in Seq(Messages) /\ Elements(hist[c]) \subseteq Messages
    <3>1. hist[c] \in Seq(Messages)
      BY DEF HistInv, ClientTypeOK
    <3> QED  BY <3>1 DEF Elements
  <2>2. live[c] \subseteq Messages
    BY DEF HistInv, ClientTypeOK
  <2>3. LiveInside(c) /\ LiveFollows(c) /\ FrameFirst(c)
    BY DEF HistInv
  <2>4. LiveInside(c)' /\ FrameFirst(c)'
    BY <1>1, <1>4, <2>3 DEF LiveInside, FrameFirst
  <2>5. ASSUME NEW n \in live'[c] \ before[c], reader[c] # "fetched"
        PROVE  \A m \in Elements(hist[c]) : m < n
    <3>1. CASE n \in live[c]
      BY <2>3, <2>5, <3>1 DEF LiveFollows
    <3>2. CASE n \notin live[c]
      <4>1. n = new
        BY <1>4, <2>5, <3>2
      <4> QED  BY <1>3, <2>1, <4>1
    <3> QED  BY <3>1, <3>2
  <2>6. ASSUME NEW n \in live'[c]
        PROVE  \A m \in Messages' : m > n /\ accepted'[m].room = target[c] => m \in live'[c]
    <3>1. CASE n \in live[c]
      <4>1. \A m \in Messages : m > n /\ accepted[m].room = target[c] => m \in live[c]
        BY <2>3, <3>1 DEF LiveFollows
      <4>2. member[c]
        BY <2>3, <3>1 DEF LiveInside
      <4>3. accepted'[new].room = target[c] => new \in live'[c]
        <5>1. accepted'[new].room = r
          BY <1>2
        <5>2. r = target[c] => new \in live'[c]
          BY <1>4, <4>2
        <5> QED  BY <5>1, <5>2
      <4>4. live[c] \subseteq live'[c]
        BY <1>4
      <4> QED  BY <1>2, <1>3, <4>1, <4>3, <4>4
    <3>2. CASE n \notin live[c]
      <4>1. n = new
        BY <1>4, <2>6, <3>2
      <4>2. \A m \in Messages' : ~(m > new)
        <5>1. \A m \in Messages : m \in Nat /\ ~(m > new)
          BY <1>3
        <5> QED  BY <1>3, <5>1
      <4> QED  BY <4>1, <4>2
    <3> QED  BY <3>1, <3>2
  <2>7. LiveFollows(c)'
    BY <1>1, <2>5, <2>6 DEF LiveFollows, Elements
  <2> QED  BY <2>4, <2>7
<1>9. ASSUME NEW c \in Client PROVE FrameIsTail(c)'
  <2>1. /\ UNCHANGED <<target[c], hist[c], seen[c]>>
        /\ Len(rows) <= Len(rows') /\ \A i \in 1..Len(rows) : rows'[i] = rows[i]
        /\ \A m \in Messages : accepted'[m] = accepted[m]
    <3>1. Len(rows) \in Nat
      BY DEF PathInv, PathTypeOK
    <3> QED  BY <1>1, <1>2, <3>1
  <2> QED  BY <2>1, FrameStays
<1> QED  BY <1>5, <1>6, <1>7, <1>8, <1>9 DEF HistInv

\* A client fetches, from outside the room or as a member.
LEMMA HistFetch ==
    ASSUME PathInv, PathInv', HistInv, NEW c \in Client, Fetch(c)
    PROVE  HistInv'
<1>1. /\ UNCHANGED <<clock, accepted, rows, target, member, live, before>>
      /\ reader[c] = "idle"
      /\ Messages' = Messages
  BY DEF Fetch, hubVars, storeVars, Messages
<1>2. Len(rows) \in Nat /\ clock \in Nat
  BY MaxTimeAssumption DEF PathInv, PathTypeOK
<1>3. LiveInside(c) /\ LiveFollows(c) /\ FrameFirst(c)
  BY DEF HistInv
\* It fails.
<1>4. CASE /\ UNCHANGED <<hist, seen>>
           /\ \/ /\ reader' = [reader EXCEPT ![c] = "sent"]
                 /\ asked' = [asked EXCEPT ![c] = "failed"]
              \/ /\ reader' = [reader EXCEPT ![c] = "panic"]
                 /\ UNCHANGED asked
  <2>1. ClientTypeOK'
    BY <1>1, <1>4 DEF HistInv, ClientTypeOK
  <2>2. /\ reader'[c] # "fetched" /\ asked'[c] \in {"failed", asked[c]}
        /\ \A d \in Client \ {c} : reader'[d] = reader[d] /\ asked'[d] = asked[d]
    BY <1>4 DEF HistInv, ClientTypeOK
  <2>3. LiveInside(c)' /\ FrameFirst(c)'
    BY <1>1, <1>3, <2>2 DEF LiveInside, FrameFirst
  <2>4. LiveFollows(c)'
    BY <1>1, <1>3, <1>4 DEF LiveFollows, Elements
  <2>5. \A d \in Client \ {c} :
          UNCHANGED <<reader[d], member[d], live[d], asked[d], before[d]>>
    BY <1>1, <2>2
  <2>6. UNCHANGED <<accepted, clock, rows, target, hist, seen>>
    BY <1>1, <1>4
  <2> QED  BY <2>1, <2>3, <2>4, <2>5, <2>6, HistClient
<1>5. CASE /\ reader' = [reader EXCEPT ![c] = "fetched"]
           /\ hist' = [hist EXCEPT ![c] = RecentByRoom(target[c])]
           /\ seen' = [seen EXCEPT ![c] = Len(rows)]
           /\ asked' = [asked EXCEPT ![c] = IF member[c] THEN "inside" ELSE "outside"]
  <2>1. PICK r : r = target[c]
    OBVIOUS
  <2>2. /\ RecentByRoom(r) \in Seq(Messages)
        /\ Rising(RecentByRoom(r))
        /\ Elements(RecentByRoom(r)) = LastOf(StoredOf(r, Len(rows)))
    BY Recent DEF HistInv
  <2>3. /\ hist'[c] = RecentByRoom(r) /\ seen'[c] = Len(rows) /\ target'[c] = r
        /\ reader'[c] = "fetched" /\ (asked'[c] = "outside" => ~member[c])
        /\ \A d \in Client \ {c} : /\ hist'[d] = hist[d] /\ seen'[d] = seen[d]
                                   /\ reader'[d] = reader[d] /\ asked'[d] = asked[d]
    BY <1>1, <1>5, <2>1 DEF HistInv, ClientTypeOK
  <2>4. ClientTypeOK'
    <3>1. hist' \in [Client -> Seq(Messages)] /\ seen' \in [Client -> Nat]
      BY <1>2, <1>5, <2>1, <2>2 DEF HistInv, ClientTypeOK
    <3>2. /\ reader' \in [Client -> {"idle", "fetched", "sent", "panic"}]
          /\ asked' \in [Client -> {"never", "outside", "inside", "failed"}]
      BY <1>5 DEF HistInv, ClientTypeOK
    <3> QED  BY <1>1, <3>1, <3>2 DEF HistInv, ClientTypeOK
  <2>5. TimesRise'
    BY <1>1 DEF HistInv, TimesRise
  <2>6. SeenStored'
    BY <1>1, <1>2, <2>3 DEF HistInv, SeenStored
  <2>7. ASSUME NEW d \in Client PROVE (LiveInside(d) /\ LiveFollows(d) /\ FrameFirst(d))'
    <3>1. CASE d = c
      <4>1. LiveInside(c)' /\ FrameFirst(c)'
        BY <1>1, <1>3, <2>3 DEF LiveInside, FrameFirst
      <4>2. LiveFollows(c)'
        BY <1>1, <1>3, <2>3 DEF LiveFollows
      <4> QED  BY <3>1, <4>1, <4>2
    <3>2. CASE d # c
      <4>1. UNCHANGED <<hist[d], live[d], before[d], member[d], target[d], reader[d], asked[d],
                        accepted>>
        BY <1>1, <2>3, <3>2
      <4>2. LiveInside(d) /\ LiveFollows(d) /\ FrameFirst(d)
        BY DEF HistInv
      <4> QED  BY <1>1, <4>1, <4>2 DEF LiveInside, LiveFollows, FrameFirst, Elements
    <3> QED  BY <3>1, <3>2
  <2>8. ASSUME NEW d \in Client PROVE FrameIsTail(d)'
    <3>1. CASE d = c
      <4>1. Elements(hist'[c]) = LastOf(StoredOf(r, Len(rows))) /\ Rising(hist'[c])
        BY <2>2, <2>3
      <4>2. StoredOf(target[c], seen[c])' = StoredOf(r, Len(rows))
        BY <1>1, <2>3 DEF StoredOf
      <4>3. LastOf(StoredOf(target[c], seen[c]))' = LastOf(StoredOf(r, Len(rows)))
        BY <4>2 DEF LastOf
      <4>4. Elements(hist[c])' = LastOf(StoredOf(target[c], seen[c]))' /\ Rising(hist[c])'
        BY <4>1, <4>3
      <4> QED  BY <3>1, <4>4 DEF FrameIsTail
    <3>2. CASE d # c
      <4>1. /\ UNCHANGED <<target[d], hist[d], seen[d]>>
            /\ Len(rows) <= Len(rows') /\ \A i \in 1..Len(rows) : rows'[i] = rows[i]
            /\ \A m \in Messages : accepted'[m] = accepted[m]
        BY <1>1, <1>2, <2>3, <3>2
      <4> QED  BY <4>1, FrameStays
    <3> QED  BY <3>1, <3>2
  <2> QED  BY <2>4, <2>5, <2>6, <2>7, <2>8 DEF HistInv
<1> QED  BY <1>4, <1>5 DEF Fetch

\* The frame is sent: whoever asked from outside has got nothing live yet.
LEMMA HistSend ==
    ASSUME PathInv, PathInv', HistInv, NEW c \in Client, SendHistory(c)
    PROVE  HistInv'
<1>1. /\ UNCHANGED <<accepted, clock, rows, target, hist, seen, member, live, asked>>
      /\ reader[c] = "fetched"
      /\ reader' = [reader EXCEPT ![c] = "sent"]
      /\ before' = [before EXCEPT ![c] = live[c]]
      /\ Messages' = Messages
  BY DEF SendHistory, hubVars, storeVars, Messages
<1>2. LiveInside(c) /\ LiveFollows(c) /\ FrameFirst(c)
  BY DEF HistInv
<1>3. /\ reader'[c] = "sent" /\ before'[c] = live[c]
      /\ \A d \in Client \ {c} : reader'[d] = reader[d] /\ before'[d] = before[d]
  BY <1>1 DEF HistInv, ClientTypeOK
<1>4. ClientTypeOK'
  BY <1>1 DEF HistInv, ClientTypeOK
<1>5. LiveInside(c)' /\ FrameFirst(c)'
  BY <1>1, <1>2, <1>3 DEF LiveInside, FrameFirst
<1>6. LiveFollows(c)'
  BY <1>1, <1>2, <1>3 DEF LiveFollows
<1>7. \A d \in Client \ {c} : UNCHANGED <<reader[d], member[d], live[d], asked[d], before[d]>>
  BY <1>1, <1>3
<1> QED  BY <1>1, <1>4, <1>5, <1>6, <1>7, HistClient

\* The hub takes the join, or never will.
LEMMA HistJoin ==
    ASSUME PathInv, PathInv', HistInv, NEW c \in Client, HubJoin(c) \/ JoinAborted(c)
    PROVE  HistInv'
<1>1. /\ UNCHANGED <<accepted, clock, rows, target, hist, seen, live, asked, before>>
      /\ reader[c] = "sent"
      /\ reader' = [reader EXCEPT ![c] = "idle"]
      /\ member' = [member EXCEPT ![c] = TRUE] \/ UNCHANGED member
      /\ Messages' = Messages
  BY DEF HubJoin, JoinAborted, hubVars, storeVars, Messages
<1>2. LiveInside(c) /\ LiveFollows(c) /\ FrameFirst(c)
  BY DEF HistInv
<1>3. /\ reader'[c] = "idle" /\ member'[c] \in {TRUE, member[c]}
      /\ \A d \in Client \ {c} : reader'[d] = reader[d] /\ member'[d] = member[d]
  BY <1>1 DEF HistInv, ClientTypeOK
<1>4. ClientTypeOK'
  BY <1>1 DEF HistInv, ClientTypeOK
<1>5. LiveInside(c)' /\ FrameFirst(c)'
  BY <1>1, <1>2, <1>3 DEF LiveInside, FrameFirst
<1>6. LiveFollows(c)'
  BY <1>1, <1>2 DEF LiveFollows, Elements
<1>7. \A d \in Client \ {c} : UNCHANGED <<reader[d], member[d], live[d], asked[d], before[d]>>
  BY <1>1, <1>3
<1> QED  BY <1>1, <1>4, <1>5, <1>6, <1>7, HistClient

\* The client leaves: its live stream ends.
LEMMA HistLeave ==
    ASSUME PathInv, PathInv', HistInv, NEW c \in Client, HubLeave(c)
    PROVE  HistInv'
<1>1. /\ UNCHANGED <<accepted, clock, rows, target, reader, hist, seen, asked>>
      /\ reader[c] = "idle"
      /\ member' = [member EXCEPT ![c] = FALSE]
      /\ live' = [live EXCEPT ![c] = {}] /\ before' = [before EXCEPT ![c] = {}]
      /\ Messages' = Messages
  BY DEF HubLeave, hubVars, storeVars, Messages
<1>2. /\ live'[c] = {} /\ before'[c] = {}
      /\ \A d \in Client \ {c} :
           member'[d] = member[d] /\ live'[d] = live[d] /\ before'[d] = before[d]
  BY <1>1 DEF HistInv, ClientTypeOK
<1>3. ClientTypeOK'
  BY <1>1 DEF HistInv, ClientTypeOK
<1>4. LiveInside(c)' /\ LiveFollows(c)' /\ FrameFirst(c)'
  BY <1>1, <1>2 DEF LiveInside, LiveFollows, FrameFirst
<1>5. \A d \in Client \ {c} : UNCHANGED <<reader[d], member[d], live[d], asked[d], before[d]>>
  BY <1>1, <1>2
<1> QED  BY <1>1, <1>3, <1>4, <1>5, HistClient

LEMMA HistNext == PathInv /\ PathInv' /\ HistInv /\ [Next]_vars => HistInv'
<1> SUFFICES ASSUME PathInv, PathInv', HistInv, [Next]_vars PROVE HistInv'
  OBVIOUS
<1>1. Len(rows) \in Nat /\ clock \in Nat
  BY MaxTimeAssumption DEF PathInv, PathTypeOK
<1>2. ASSUME NEW r \in Room, HubBroadcast(r) PROVE HistInv'
  BY <1>2, HistBroadcast
<1>3. ASSUME NEW c \in Client, Fetch(c) PROVE HistInv'
  BY <1>3, HistFetch
<1>4. CASE UNCHANGED <<accepted, clock, rows, clientVars>>
  <2>1. clock' \in Nat /\ clock <= clock'
    BY <1>1, <1>4
  <2>2. Len(rows) <= Len(rows') /\ \A i \in 1..Len(rows) : rows'[i] = rows[i]
    BY <1>1, <1>4
  <2> QED  BY <1>4, <2>1, <2>2, HistQuiet
<1>5. CASE SaveSucceeds
  <2>1. UNCHANGED <<accepted, clientVars, clock>> /\ rows' = Append(rows, inSave)
    BY <1>5 DEF SaveSucceeds, hubVars
  <2>2. rows \in Seq(Messages)
    BY DEF PathInv, PathTypeOK
  <2>3. Len(rows) <= Len(rows') /\ \A i \in 1..Len(rows) : rows'[i] = rows[i]
    BY <2>1, <2>2
  <2>4. clock' \in Nat /\ clock <= clock'
    BY <1>1, <2>1
  <2> QED  BY <2>1, <2>3, <2>4, HistQuiet
<1>6. CASE Tick
  <2>1. /\ UNCHANGED <<accepted, clientVars, rows>>
        /\ clock' \in Nat /\ clock <= clock'
    BY <1>1, <1>6 DEF Tick, hubVars, storeVars
  <2>2. Len(rows) <= Len(rows') /\ \A i \in 1..Len(rows) : rows'[i] = rows[i]
    BY <1>1, <2>1
  <2> QED  BY <2>1, <2>2, HistQuiet
<1>7. ASSUME NEW c \in Client,
             SendHistory(c) \/ HubJoin(c) \/ JoinAborted(c) \/ HubLeave(c)
      PROVE  HistInv'
  BY <1>7, HistSend, HistJoin, HistLeave
<1>8. CASE HubHandsOff \/ HubStops
  <2>1. UNCHANGED <<accepted, clock, rows, clientVars>>
    BY <1>8 DEF HubHandsOff, HubStops, storeVars
  <2> QED  BY <1>4, <2>1
<1>9. CASE \/ PersisterReceives \/ SaveFails \/ PersisterDrains \/ PersisterReturns
           \/ MainCloses \/ Cancel
  <2>1. UNCHANGED <<accepted, clock, rows, clientVars>>
    BY <1>9 DEF PersisterReceives, SaveFails, PersisterDrains, PersisterReturns,
                MainCloses, Cancel, hubVars, storeVars
  <2> QED  BY <1>4, <2>1
<1>10. CASE Terminated \/ UNCHANGED vars
  <2>1. UNCHANGED <<accepted, clock, rows, clientVars>>
    BY <1>10 DEF Terminated, vars, hubVars, storeVars
  <2> QED  BY <1>4, <2>1
<1> QED  BY <1>2, <1>3, <1>5, <1>6, <1>7, <1>8, <1>9, <1>10 DEF Next, Hub, Persister

LEMMA HistCorrect == Spec => [](PathInv /\ HistInv)
<1>1. Init => PathInv /\ HistInv
  BY InitInv, HistInit
<1>2. PathInv /\ HistInv /\ [Next]_vars => (PathInv /\ HistInv)'
  BY NextInv, HistNext
<1> QED  BY <1>1, <1>2, PTL DEF Spec

-----------------------------------------------------------------------------
\* What a client sees, and what it misses.

LEMMA StoredIs ==
    ASSUME PathInv, NEW r, NEW k \in 0..Len(rows)
    PROVE  StoredOf(r, k) = {rows[i] : i \in {j \in 1..k : accepted[rows[j]].room = r}}
<1>1. Elements(SubSeq(rows, 1, k)) = {rows[i] : i \in 1..k}
  BY ElementsOfPrefix DEF PathInv, PathTypeOK
<1> QED  BY <1>1 DEF StoredOf

\* What is older than a row has a row before it, or was given up: the queue, the
\* message in save and the one in hand are newer.
LEMMA RowsSkipNothing ==
    ASSUME PathInv, NEW i \in DOMAIN rows, NEW n \in Messages \ GivenUp, n < rows[i]
    PROVE  \E j \in DOMAIN rows : j < i /\ rows[j] = n
<1>1. /\ n \in Nat /\ rows[i] \in Nat /\ i \in Nat
      /\ \A j \in DOMAIN rows : j \in Nat
      /\ \A j \in DOMAIN queue : queue[j] \in Nat
  BY PartsAreMessages
<1>2. n \in InPipe
  BY DEF PathInv, PartsAccountedFor
<1>3. n \notin Elements(queue)
  <2> SUFFICES ASSUME NEW j \in DOMAIN queue PROVE queue[j] # n
    BY DEF Elements
  <2>1. rows[i] < queue[j]
    BY DEF PathInv, PartsInOrder
  <2> QED  BY <1>1, <2>1
<1>4. inSave # 0 => inSave # n
  <2> SUFFICES ASSUME inSave # 0 PROVE inSave # n
    OBVIOUS
  <2>1. rows[i] < inSave
    BY DEF PathInv, PartsInOrder
  <2> QED  BY <1>1, <2>1
<1>5. handing # 0 => handing # n
  <2> SUFFICES ASSUME handing # 0 PROVE handing # n
    OBVIOUS
  <2>1. rows[i] < handing
    BY DEF PathInv, PartsInOrder
  <2> QED  BY <1>1, <2>1
<1>6. n \in Elements(rows)
  BY <1>2, <1>3, <1>4, <1>5 DEF InPipe
<1>7. PICK j \in DOMAIN rows : rows[j] = n
  BY <1>6 DEF Elements
<1>8. i < j => rows[i] < rows[j]
  BY DEF PathInv, PartsInOrder, Rising
<1>9. ~(i < j) /\ i # j
  BY <1>1, <1>7, <1>8
<1> QED  BY <1>1, <1>7, <1>9

LEMMA PrefixSkipsNothing ==
    ASSUME PathInv, NEW r, NEW k \in 0..Len(rows), NEW m \in StoredOf(r, k),
           NEW n \in Messages \ GivenUp, accepted[n].room = r, n < m
    PROVE  n \in StoredOf(r, k)
<1>1. PICK i \in 1..k : rows[i] = m
  BY StoredIs
<1>2. Len(rows) \in Nat /\ DOMAIN rows = 1..Len(rows)
  BY PartsAreMessages DEF PathInv, PathTypeOK
<1>3. k \in Nat /\ i \in Nat /\ i <= k /\ i \in DOMAIN rows
  BY <1>2
<1>4. PICK j \in DOMAIN rows : j < i /\ rows[j] = n
  BY <1>1, <1>3, RowsSkipNothing
<1>5. j \in 1..k
  BY <1>2, <1>3, <1>4
<1> QED  BY <1>4, <1>5, StoredIs

\* Who is stored and followed by few is among the last.
LEMMA FewFollow ==
    ASSUME PathInv, NEW r, NEW k \in 0..Len(rows), NEW n \in StoredOf(r, k), NEW T,
           IsFiniteSet(T), Cardinality(T) < HistoryLimit,
           \A m \in StoredOf(r, k) : m > n => m \in T
    PROVE  n \in LastOf(StoredOf(r, k))
<1> DEFINE after == {m \in StoredOf(r, k) : m > n}
<1>1. after \in SUBSET T
  OBVIOUS
<1> HIDE DEF after
<1>2. IsFiniteSet(after) /\ Cardinality(after) <= Cardinality(T)
  BY <1>1, FS_Subset
<1>3. Cardinality(after) \in Nat /\ Cardinality(T) \in Nat
  BY <1>2, FS_CardinalityType
<1>4. Cardinality(after) < HistoryLimit
  BY <1>2, <1>3, HistoryLimitAssumption
<1> QED  BY <1>4 DEF LastOf, after

LEMMA StoredAreMessages ==
    ASSUME PathInv, NEW r, NEW k \in 0..Len(rows)
    PROVE  /\ StoredOf(r, k) \subseteq Messages /\ IsFiniteSet(StoredOf(r, k))
           /\ IsFiniteSet(Messages)
<1>1. Len(rows) \in Nat /\ Len(accepted) \in Nat /\ \A i \in 1..Len(rows) : rows[i] \in Messages
  BY PartsAreMessages DEF PathInv, PathTypeOK
<1>2. IsFiniteSet(Messages)
  BY <1>1, FS_Interval DEF Messages
<1>3. StoredOf(r, k) \in SUBSET Messages
  BY <1>1, StoredIs
<1> QED  BY <1>2, <1>3, FS_Subset

\* The frame of a client, as the last of what was stored for it.
LEMMA FrameIs ==
    ASSUME PathInv, HistInv, NEW c \in Client
    PROVE  \E r \in Room, k \in 0..Len(rows) :
             /\ r = target[c] /\ k = seen[c]
             /\ Elements(hist[c]) = LastOf(StoredOf(r, k))
<1>1. Len(rows) \in Nat
  BY DEF PathInv, PathTypeOK
<1> QED  BY <1>1 DEF HistInv, ClientTypeOK, SeenStored, FrameIsTail

LEMMA FrameSkipsNothing ==
    ASSUME PathInv, HistInv, NEW c \in Client,
           NEW k \in Elements(hist[c]), NEW m \in Elements(hist[c]),
           NEW n \in Messages \ GivenUp, accepted[n].room = target[c], k < n, n < m
    PROVE  n \in Elements(hist[c])
<1>1. PICK r \in Room, l \in 0..Len(rows) :
        r = target[c] /\ l = seen[c] /\ Elements(hist[c]) = LastOf(StoredOf(r, l))
  BY FrameIs
<1>2. k \in StoredOf(r, l) /\ m \in StoredOf(r, l)
  BY <1>1 DEF LastOf
<1> DEFINE T == {x \in StoredOf(r, l) : x > k}
<1>3. Cardinality(T) < HistoryLimit
  BY <1>1 DEF LastOf
<1>4. StoredOf(r, l) \subseteq Nat /\ n \in Nat /\ IsFiniteSet(StoredOf(r, l))
  BY StoredAreMessages, PartsAreMessages
<1>5. IsFiniteSet(T)
  <2>1. T \in SUBSET StoredOf(r, l)
    OBVIOUS
  <2> QED  BY <1>4, <2>1, FS_Subset
<1>6. n \in StoredOf(r, l)
  BY <1>1, <1>2, PrefixSkipsNothing
<1>7. \A x \in StoredOf(r, l) : x > n => x \in T
  BY <1>2, <1>4
<1> HIDE DEF T
<1>8. n \in LastOf(StoredOf(r, l))
  BY <1>3, <1>5, <1>6, <1>7, FewFollow
<1> QED  BY <1>1, <1>8

\* What a client misses of the last messages of its room, those given up
\* excepted, was not stored when it fetched and lies between the history frame
\* and the first message it gets live.
MissedOnlyBetween ==
    \A c \in Client : \A n \in Messages \ GivenUp :
        LET later == {m \in Messages : m > n /\ accepted[m].room = target[c]}
        IN  /\ accepted[n].room = target[c]
            /\ Cardinality(later) < HistoryLimit
            /\ n \notin Elements(hist[c]) \cup live[c]
            => /\ n \notin Elements(SubSeq(rows, 1, seen[c]))
               /\ \A m \in Elements(hist[c]) : m < n
               /\ \A m \in live[c] : n < m

LEMMA MissedBetween ==
    ASSUME PathInv, HistInv
    PROVE  MissedOnlyBetween
<1> SUFFICES ASSUME NEW c \in Client, NEW n \in Messages \ GivenUp,
                    accepted[n].room = target[c],
                    Cardinality({m \in Messages : m > n /\ accepted[m].room = target[c]})
                      < HistoryLimit,
                    n \notin Elements(hist[c]), n \notin live[c]
             PROVE  /\ n \notin Elements(SubSeq(rows, 1, seen[c]))
                    /\ \A m \in Elements(hist[c]) : m < n
                    /\ \A m \in live[c] : n < m
  BY DEF MissedOnlyBetween
<1>1. PICK r \in Room, k \in 0..Len(rows) :
        r = target[c] /\ k = seen[c] /\ Elements(hist[c]) = LastOf(StoredOf(r, k))
  BY FrameIs
<1> DEFINE later == {m \in Messages : m > n /\ accepted[m].room = target[c]}
<1>2. StoredOf(r, k) \subseteq Messages /\ IsFiniteSet(Messages) /\ Messages \subseteq Nat
  BY StoredAreMessages, PartsAreMessages
<1>3. n \notin StoredOf(r, k)
  <2> SUFFICES ASSUME n \in StoredOf(r, k) PROVE FALSE
    OBVIOUS
  <2>1. IsFiniteSet(later)
    <3>1. later \in SUBSET Messages
      OBVIOUS
    <3> QED  BY <1>2, <3>1, FS_Subset
  <2>2. \A m \in StoredOf(r, k) : m > n => m \in later
    BY <1>1, <1>2 DEF StoredOf
  <2>3. Cardinality(later) < HistoryLimit
    OBVIOUS
  <2> HIDE DEF later
  <2>4. n \in LastOf(StoredOf(r, k))
    BY <2>1, <2>2, <2>3, FewFollow
  <2> QED  BY <1>1, <2>4
<1>4. n \notin Elements(SubSeq(rows, 1, seen[c]))
  BY <1>1, <1>3 DEF StoredOf
<1>5. \A m \in Elements(hist[c]) : m < n
  <2> SUFFICES ASSUME NEW m \in Elements(hist[c]) PROVE m < n
    OBVIOUS
  <2>1. m \in StoredOf(r, k)
    BY <1>1 DEF LastOf
  <2>2. ~(n < m)
    BY <1>1, <1>3, <2>1, PrefixSkipsNothing
  <2>3. m \in Nat /\ n \in Nat /\ m # n
    BY <1>2, <1>3, <2>1
  <2> QED  BY <2>2, <2>3
<1>6. \A m \in live[c] : n < m
  <2> SUFFICES ASSUME NEW m \in live[c] PROVE n < m
    OBVIOUS
  <2>1. n > m => n \in live[c]
    BY DEF HistInv, LiveFollows
  <2>2. m \in Messages
    BY DEF HistInv, ClientTypeOK
  <2>3. m \in Nat /\ n \in Nat /\ m # n
    BY <1>2, <2>2
  <2> QED  BY <2>1, <2>3
<1> QED  BY <1>4, <1>5, <1>6

-----------------------------------------------------------------------------
\* The state stays well-typed: RecentByRoom returns message numbers, whatever
\* the table, and the queue its capacity (persistQueueDepth).
THEOREM TypeCorrect == Spec => []TypeOK
<1>1. PathInv /\ HistInv => TypeOK
  BY DEF PathInv, HistInv, ClientTypeOK, TypeOK
<1> QED  BY <1>1, HistCorrect, PTL

\* handleJoin sends the history before it joins, each time it is asked to: what
\* comes live after a frame is newer than the whole of it, nothing comes live
\* before the frame of a client from outside the room, from the first live message
\* on nothing of the room is missed, and the frame skips nothing but what the
\* cold path gave up.
THEOREM LiveFollowsHistory == Spec => []HistoryBeforeLive
<1>1. ASSUME PathInv, HistInv PROVE HistoryBeforeLive
  <2>1. ASSUME NEW c \in Client PROVE LiveFollows(c) /\ FrameFirst(c)
    BY <1>1 DEF HistInv
  <2>2. ASSUME NEW c \in Client, NEW k \in Elements(hist[c]), NEW m \in Elements(hist[c]),
               NEW n \in Messages, accepted[n].room = target[c], k < n, n < m
        PROVE  n \in Elements(hist[c]) \cup dropped \cup skipped \cup failed
    BY <1>1, <2>2, FrameSkipsNothing DEF GivenUp
  <2> QED  BY <2>1, <2>2 DEF HistoryBeforeLive, LiveFollows, FrameFirst
<1> QED  BY <1>1, HistCorrect, PTL

\* RecentByRoom's sort by time stamp, its LIMIT and the reversal give the last
\* HistoryLimit messages stored of the room in accept order, for every table.
THEOREM HistoryIsTheTail == Spec => []HistoryIsTail
<1>1. HistInv => HistoryIsTail
  BY DEF HistInv, FrameIsTail, StoredOf, LastOf, HistoryIsTail
<1> QED  BY <1>1, HistCorrect, PTL

\* The bound on what JoinSeesRecent finds missing: between the fetch and the
\* join of handleJoin a client can miss messages, and nowhere else.
THEOREM NothingElseIsMissed == Spec => []MissedOnlyBetween
<1>1. PathInv /\ HistInv => MissedOnlyBetween
  BY MissedBetween
<1> QED  BY <1>1, HistCorrect, PTL

-----------------------------------------------------------------------------
\* The refinement: the log and the frames of MessageLog as ColdPath shows them.
LogRooms == [n \in Messages |-> accepted[n].room]
Frames   == [c \in Client |-> Elements(hist[c])]
Places   == [c \in Client |-> IF reader[c] \in {"fetched", "sent"} THEN "asking" ELSE reader[c]]

LEMMA PlaceMoves ==
    ASSUME HistInv, NEW c \in Client, NEW p, reader' = [reader EXCEPT ![c] = p]
    PROVE  /\ Places[c] = IF reader[c] \in {"fetched", "sent"} THEN "asking" ELSE reader[c]
           /\ Places' = [Places EXCEPT ![c] = IF p \in {"fetched", "sent"} THEN "asking" ELSE p]
<1>1. \A d \in Client : reader'[d] = IF d = c THEN p ELSE reader[d]
  BY DEF HistInv, ClientTypeOK
<1> QED  BY <1>1 DEF Places

LEMMA LogStutters ==
    ASSUME UNCHANGED <<accepted, rows, dropped, skipped, failed, store,
                       target, reader, member, hist, live>>
    PROVE  UNCHANGED Log!vars
  BY DEF Log!vars, Log!logVars, Log!clientVars, Messages, Elements

LEMMA RoomsOfSequence ==
    ASSUME NEW a \in Seq([room : Room, time : 1..MaxTime])
    PROVE  /\ [n \in 1..Len(a) |-> a[n].room] \in Seq(Room)
           /\ Len([n \in 1..Len(a) |-> a[n].room]) = Len(a)
<1>1. Len(a) \in Nat
  OBVIOUS
<1>2. \A n \in 1..Len(a) : a[n].room \in Room
  <2>1. \A n \in 1..Len(a) : a[n] \in [room : Room, time : 1..MaxTime]
    BY Entries
  <2> QED  BY <2>1
<1>3. [n \in 1..Len(a) |-> a[n].room] \in [1..Len(a) -> Room]
  BY <1>2
<1> QED  BY <1>1, <1>3

LEMMA LogIsSequence ==
    ASSUME PathInv
    PROVE  /\ LogRooms \in Seq(Room) /\ Len(LogRooms) = Len(accepted)
           /\ \A n \in Messages : LogRooms[n] = accepted[n].room
<1>1. accepted \in Seq([room : Room, time : 1..MaxTime])
  BY DEF PathInv, PathTypeOK
<1> QED  BY <1>1, RoomsOfSequence DEF LogRooms, Messages

\* A broadcast appends the room to the log.
LEMMA BroadcastAccepts ==
    ASSUME PathInv, PathInv', NEW r \in Room, HubBroadcast(r)
    PROVE  Log!Next
<1> DEFINE new == Len(accepted) + 1
<1>1. /\ accepted' = Append(accepted, [room |-> r, time |-> clock])
      /\ live' = [c \in Client |-> IF member[c] /\ target[c] = r
                                   THEN live[c] \cup {Len(accepted')} ELSE live[c]]
      /\ UNCHANGED <<rows, dropped, skipped, failed, store, target, reader, member, hist>>
  BY DEF HubBroadcast, storeVars, fateVars
<1>2. /\ Len(accepted) \in Nat /\ Len(accepted') = new
      /\ \A m \in Messages : accepted'[m] = accepted[m]
      /\ accepted'[new].room = r
  <2>1. [room |-> r, time |-> clock] \in [room : Room, time : 1..MaxTime]
    BY DEF PathInv, PathTypeOK
  <2>2. accepted \in Seq([room : Room, time : 1..MaxTime])
    BY DEF PathInv, PathTypeOK
  <2>3. accepted'[new] = [room |-> r, time |-> clock]
    BY <1>1, <2>1, <2>2
  <2> QED  BY <1>1, <2>1, <2>2, <2>3 DEF Messages
<1>3. /\ LogRooms \in Seq(Room) /\ Len(LogRooms) = Len(accepted)
      /\ \A n \in Messages : LogRooms[n] = accepted[n].room
  BY LogIsSequence
<1>4. LogRooms' \in Seq(Room) /\ Len(LogRooms') = new
  <2>1. accepted' \in Seq([room : Room, time : 1..MaxTime])
    BY DEF PathInv, PathTypeOK
  <2>2. LogRooms' = [n \in 1..Len(accepted') |-> accepted'[n].room]
    BY DEF LogRooms, Messages
  <2> QED  BY <1>2, <2>1, <2>2, RoomsOfSequence
<1>5. /\ Append(LogRooms, r) \in Seq(Room) /\ Len(Append(LogRooms, r)) = new
      /\ \A n \in 1..Len(accepted) : Append(LogRooms, r)[n] = LogRooms[n]
      /\ Append(LogRooms, r)[new] = r
  BY <1>3, AppendProperties
<1>6. \A n \in 1..new : LogRooms'[n] = accepted'[n].room
  <2>1. LogRooms' = [n \in 1..Len(accepted') |-> accepted'[n].room]
    BY DEF LogRooms, Messages
  <2> QED  BY <1>2, <2>1
<1>7. \A n \in 1..new : LogRooms'[n] = Append(LogRooms, r)[n]
  <2> SUFFICES ASSUME NEW n \in 1..new PROVE LogRooms'[n] = Append(LogRooms, r)[n]
    OBVIOUS
  <2>1. CASE n = new
    BY <1>2, <1>5, <1>6, <2>1
  <2>2. CASE n # new
    <3>1. n \in Messages /\ n \in 1..Len(accepted)
      BY <1>2, <2>2 DEF Messages
    <3> QED  BY <1>2, <1>3, <1>5, <1>6, <3>1
  <2> QED  BY <2>1, <2>2
<1>8. LogRooms' = Append(LogRooms, r)
  BY <1>4, <1>5, <1>7, SeqEqual
<1>9. Len(LogRooms') = Len(accepted')
  BY <1>2, <1>4
<1>10. Log!Accept(r)
  BY <1>1, <1>8, <1>9 DEF Log!Accept, LogRooms, Elements, Messages
<1> QED  BY <1>10 DEF Log!Next

\* A row written is a message kept: it is not given up, newer than the rows, and
\* the store is open.
LEMMA SaveKeeps ==
    ASSUME PathInv, SaveSucceeds
    PROVE  Log!Next
<1>1. /\ inSave # 0 /\ inSave \in Messages /\ rows' = Append(rows, inSave)
      /\ UNCHANGED <<accepted, dropped, skipped, failed, store, target, reader, member, hist, live>>
  BY DEF SaveSucceeds, hubVars, fateVars, clientVars, PathInv, PathTypeOK
<1>2. store = "open"
  BY <1>1 DEF PathInv, PathTypeOK, NoSaveAfterClose
<1>3. inSave \notin dropped \cup skipped \cup failed
  BY <1>1 DEF PathInv, PartsAccountedFor, InPipe, GivenUp
<1>4. \A m \in Elements(rows) : m < inSave
  BY <1>1 DEF PathInv, PartsInOrder, Elements
<1>5. Elements(rows') = Elements(rows) \cup {inSave}
  BY <1>1, ElementsOfAppend DEF PathInv, PathTypeOK
<1>6. Len(LogRooms) = Len(accepted) /\ UNCHANGED Messages
  BY <1>1, LogIsSequence DEF Messages
<1>7. PICK n : n = inSave
  OBVIOUS
<1>8. n \in 1..Len(LogRooms)
  BY <1>1, <1>6, <1>7 DEF Messages
<1>9. Log!Keep(n)
  BY <1>1, <1>2, <1>3, <1>4, <1>5, <1>6, <1>7, <1>8
     DEF Log!Keep, Log!clientVars, LogRooms, Elements, Messages
<1> QED  BY <1>8, <1>9 DEF Log!Next, LogRooms

\* What is given up was neither stored nor given up before.
LEMMA GivingUpLoses ==
    ASSUME PathInv, NEW n \in Messages, n \in InPipe, n \notin Elements(rows),
           GivenUp' = GivenUp \cup {n},
           UNCHANGED <<accepted, rows, store, target, reader, member, hist, live>>
    PROVE  Log!Next
<1>1. n \notin dropped \cup skipped \cup failed
  BY DEF PathInv, PartsAccountedFor, GivenUp
<1>2. Len(LogRooms) = Len(accepted) /\ UNCHANGED Messages
  BY LogIsSequence DEF Messages
<1>3. n \in 1..Len(LogRooms)
  BY <1>2 DEF Messages
<1>4. Log!Lose(n)
  BY <1>1, <1>2, <1>3 DEF Log!Lose, Log!clientVars, LogRooms, GivenUp, Elements, Messages
<1> QED  BY <1>3, <1>4 DEF Log!Next, LogRooms

LEMMA HandsOffLoses ==
    ASSUME PathInv, HubHandsOff
    PROVE  Log!Next \/ UNCHANGED Log!vars
<1>1. /\ handing # 0 /\ handing \in Messages /\ handing \in InPipe
      /\ UNCHANGED <<accepted, rows, failed, store, target, reader, member, hist, live>>
  BY DEF HubHandsOff, clientVars, PathInv, PathTypeOK, InPipe
<1>2. CASE Enqueue
  BY <1>1, <1>2, LogStutters DEF Enqueue
<1>3. CASE Skip \/ GiveUp
  <2>1. PICK n : n = handing
    OBVIOUS
  <2>2. GivenUp' = GivenUp \cup {n}
    BY <1>1, <1>3, <2>1 DEF Skip, GiveUp, GivenUp
  <2>3. n \notin Elements(rows)
    <3> SUFFICES ASSUME NEW i \in DOMAIN rows PROVE rows[i] # handing
      BY <2>1 DEF Elements
    <3>1. rows[i] < handing
      BY <1>1 DEF PathInv, PartsInOrder
    <3> QED  BY <1>1, <3>1, PartsAreMessages
  <2> QED  BY <1>1, <2>1, <2>2, <2>3, GivingUpLoses
<1> QED  BY <1>2, <1>3 DEF HubHandsOff

LEMMA FailureLoses ==
    ASSUME PathInv, SaveFails
    PROVE  Log!Next
<1>1. /\ inSave # 0 /\ inSave \in Messages /\ inSave \in InPipe
      /\ UNCHANGED <<accepted, rows, dropped, skipped, store, target, reader, member, hist, live>>
      /\ failed' = failed \cup {inSave}
  BY DEF SaveFails, hubVars, clientVars, PathInv, PathTypeOK, InPipe
<1>2. PICK n : n = inSave
  OBVIOUS
<1>3. GivenUp' = GivenUp \cup {n}
  BY <1>1, <1>2 DEF GivenUp
<1>4. n \notin Elements(rows)
  <2> SUFFICES ASSUME NEW i \in DOMAIN rows PROVE rows[i] # inSave
    BY <1>2 DEF Elements
  <2>1. rows[i] < inSave
    BY <1>1 DEF PathInv, PartsInOrder
  <2> QED  BY <1>1, <2>1, PartsAreMessages
<1> QED  BY <1>1, <1>2, <1>3, <1>4, GivingUpLoses

\* A fetch is of the latest that is kept, or fails.
LEMMA FetchIs ==
    ASSUME PathInv, HistInv, NEW c \in Client, Fetch(c)
    PROVE  Log!Next
<1>1. /\ reader[c] = "idle"
      /\ UNCHANGED <<accepted, rows, dropped, skipped, failed, store, target, member, live>>
  BY DEF Fetch, hubVars, storeVars, fateVars
<1>2. CASE /\ UNCHANGED hist
           /\ \/ reader' = [reader EXCEPT ![c] = "sent"]
              \/ store = "closed" /\ reader' = [reader EXCEPT ![c] = "panic"]
  <2>1. /\ Places[c] = "idle"
        /\ \/ Places' = [Places EXCEPT ![c] = "asking"]
           \/ store = "closed" /\ Places' = [Places EXCEPT ![c] = "panic"]
    BY <1>1, <1>2, PlaceMoves
  <2>2. Log!FetchFails(c)
    BY <1>1, <1>2, <2>1 DEF Log!FetchFails, Log!logVars, Places, Messages, Elements
  <2> QED  BY <2>2 DEF Log!Next
<1>3. CASE /\ store = "open"
           /\ reader' = [reader EXCEPT ![c] = "fetched"]
           /\ hist' = [hist EXCEPT ![c] = RecentByRoom(target[c])]
  <2>1. PICK r : r = target[c]
    OBVIOUS
  <2>2. Elements(RecentByRoom(r)) = LastOf(StoredOf(r, Len(rows)))
    BY Recent DEF HistInv
  <2>3. StoredOf(r, Len(rows)) = {m \in Elements(rows) : LogRooms[m] = r}
    <3>1. rows \in Seq(Messages) /\ Len(rows) \in 0..Len(rows) /\ DOMAIN rows = 1..Len(rows)
      BY PartsAreMessages DEF PathInv, PathTypeOK
    <3>2. Elements(SubSeq(rows, 1, Len(rows))) = Elements(rows)
      BY <3>1, ElementsOfPrefix DEF Elements
    <3>3. \A m \in Elements(rows) : LogRooms[m] = accepted[m].room
      BY LogIsSequence, PartsAreMessages DEF Elements
    <3> QED  BY <3>2, <3>3 DEF StoredOf
  <2>4. Log!Latest(r) = LastOf(StoredOf(r, Len(rows)))
    <3>1. Log!KeptOf(r) = StoredOf(r, Len(rows))
      BY <2>3 DEF Log!KeptOf, LogRooms
    <3>2. \A S : Log!Cardinality(S) = Cardinality(S)
      BY DEF Log!Cardinality, Log!IsFiniteSet, Cardinality, IsFiniteSet
    <3> QED  BY <3>1, <3>2 DEF Log!Latest, LastOf
  <2>5. Frames' = [Frames EXCEPT ![c] = Log!Latest(r)]
    <3>1. \A d \in Client : hist'[d] = IF d = c THEN RecentByRoom(r) ELSE hist[d]
      BY <1>3, <2>1 DEF HistInv, ClientTypeOK
    <3>2. Frames' = [d \in Client |-> Elements(hist'[d])]
      BY DEF Frames
    <3>3. \A d \in Client :
            Elements(hist'[d]) = IF d = c THEN Log!Latest(r) ELSE Elements(hist[d])
      BY <2>2, <2>4, <3>1
    <3> QED  BY <3>2, <3>3 DEF Frames
  <2>6. Places[c] = "idle" /\ Places' = [Places EXCEPT ![c] = "asking"]
    BY <1>1, <1>3, PlaceMoves
  <2>7. Log!Fetch(c)
    BY <1>1, <1>3, <2>1, <2>5, <2>6
       DEF Log!Fetch, Log!logVars, Frames, Places, Messages, Elements
  <2> QED  BY <2>7 DEF Log!Next
<1> QED  BY <1>2, <1>3 DEF Fetch

\* The hub takes the join, or never will.
LEMMA JoinIs ==
    ASSUME HistInv, NEW c \in Client, HubJoin(c) \/ JoinAborted(c)
    PROVE  Log!Next
<1>1. /\ UNCHANGED <<accepted, rows, dropped, skipped, failed, store, target, hist, live>>
      /\ reader[c] = "sent" /\ reader' = [reader EXCEPT ![c] = "idle"]
      /\ member' = [member EXCEPT ![c] = TRUE] \/ UNCHANGED member
  BY DEF HubJoin, JoinAborted, hubVars, storeVars, fateVars
<1>2. Places[c] = "asking" /\ Places' = [Places EXCEPT ![c] = "idle"]
  BY <1>1, PlaceMoves
<1>3. Log!Join(c)
  BY <1>1, <1>2 DEF Log!Join, Log!logVars, Places, Messages, Elements
<1> QED  BY <1>3 DEF Log!Next

LEMMA LeaveIs ==
    ASSUME HistInv, NEW c \in Client, HubLeave(c)
    PROVE  Log!Next
<1>1. /\ UNCHANGED <<accepted, rows, dropped, skipped, failed, store, target, reader, hist>>
      /\ reader[c] = "idle"
      /\ member' = [member EXCEPT ![c] = FALSE] /\ live' = [live EXCEPT ![c] = {}]
  BY DEF HubLeave, hubVars, storeVars, fateVars
<1>2. Places[c] = "idle" /\ Places' = Places
  BY <1>1 DEF Places
<1>3. Log!Leave(c)
  BY <1>1, <1>2 DEF Log!Leave, Log!logVars, Places, Messages, Elements
<1> QED  BY <1>3 DEF Log!Next

\* That a frame is sent does not show.
LEMMA SendStutters ==
    ASSUME HistInv, NEW c \in Client, SendHistory(c)
    PROVE  UNCHANGED Log!vars
<1>1. /\ UNCHANGED <<accepted, rows, dropped, skipped, failed, store, target, member, hist, live>>
      /\ reader[c] = "fetched" /\ reader' = [reader EXCEPT ![c] = "sent"]
  BY DEF SendHistory, hubVars, storeVars, fateVars
<1>2. Places' = [Places EXCEPT ![c] = "asking"] /\ Places[c] = "asking"
  BY <1>1, PlaceMoves
<1>3. Places' = Places
  BY <1>2 DEF Places
<1> QED  BY <1>1, <1>3 DEF Log!vars, Log!logVars, Log!clientVars, Places, Messages, Elements

LEMMA LogInit == Init => Log!Init
<1> SUFFICES ASSUME Init PROVE Log!Init
  OBVIOUS
<1>1. accepted = <<>> /\ rows = <<>> /\ Messages = {} /\ DOMAIN rows = {}
  BY DEF Init, Messages
<1>2. [n \in Messages |-> accepted[n].room] = <<>>
  BY <1>1
<1>3. Elements(rows) = {} /\ \A c \in Client : Elements(hist[c]) = {}
  BY <1>1 DEF Init, Elements
<1> QED  BY <1>2, <1>3 DEF Init, Log!Init

LEMMA LogNext ==
    ASSUME PathInv, PathInv', HistInv, [Next]_vars
    PROVE  Log!Next \/ UNCHANGED Log!vars
<1>1. ASSUME NEW r \in Room, HubBroadcast(r) PROVE Log!Next
  BY <1>1, BroadcastAccepts
<1>2. ASSUME NEW c \in Client, Fetch(c) PROVE Log!Next
  BY <1>2, FetchIs
<1>3. ASSUME NEW c \in Client,
             SendHistory(c) \/ HubJoin(c) \/ JoinAborted(c) \/ HubLeave(c)
      PROVE  Log!Next \/ UNCHANGED Log!vars
  BY <1>3, SendStutters, JoinIs, LeaveIs
<1>4. CASE MainCloses
  <2>1. Log!Close
    BY <1>4 DEF MainCloses, hubVars, fateVars, clientVars, Log!Close, Log!clientVars,
                Messages, Elements
  <2> QED  BY <2>1 DEF Log!Next
<1>5. CASE \/ HubStops \/ PersisterReceives \/ PersisterDrains \/ PersisterReturns
           \/ Cancel \/ Tick \/ Terminated \/ UNCHANGED vars
  <2>1. UNCHANGED <<accepted, rows, dropped, skipped, failed, store,
                    target, reader, member, hist, live>>
    BY <1>5 DEF HubStops, PersisterReceives, PersisterDrains, PersisterReturns, Cancel, Tick,
                Terminated, vars, fateVars, hubVars, storeVars, clientVars
  <2> QED  BY <2>1, LogStutters
<1> QED  BY <1>1, <1>2, <1>3, <1>4, <1>5, HandsOffLoses, SaveKeeps, FailureLoses
         DEF Next, Hub, Persister

\* The store's promise: what is kept is kept in order and for good, what is given
\* up is never kept, nothing is written after the close, and each time a client
\* joins it is sent the latest of its room at one moment, whatever broadcast's
\* queue, the persister, run's shutdown and the sort of RecentByRoom do meanwhile.
THEOREM PathImplementsLog == Spec => ImplementsLog
<1>1. PathInv /\ HistInv /\ PathInv' /\ [Next]_vars => [Log!Next]_(Log!vars)
  BY LogNext
<1> QED  BY <1>1, LogInit, HistCorrect, PTL DEF Spec, ImplementsLog, Log!Spec
==============================================================================
