----------------------------- MODULE ServerProofs -----------------------------
(***************************************************************************)
(* Theorems about Server, for all HTTP servers and requests: the process    *)
(* implements ColdPath, so that what ColdPathProofs and HistoryProofs show  *)
(* holds of it; a clean exit leaves no request behind; and a snapshot is of *)
(* the time of its call.                                                    *)
(***************************************************************************)
EXTENDS Server, HistoryProofs

-----------------------------------------------------------------------------
\* The process implements ColdPath.

ServerStep == \E l \in Listener :
    Listens(l) \/ ServeReturns(l) \/ DrainStarts(l) \/ DrainEnds(l) \/ GraceEnds(l)

RequestStep == \E q \in Request :
    \/ Accepts(q) \/ Arrives(q) \/ LooksUp(q) \/ Admitted(q) \/ Rejected(q)
    \/ TakesQuery(q) \/ GetsReply(q) \/ SnapshotAborted(q) \/ CallerGone(q)

PathStep ==
    \/ HubTurn \/ RunReturns
    \/ Alone(Persister) \/ Alone(Cancel) \/ Alone(Terminated)

\* The steps of the process, by what they leave alone.
LEMMA StepKinds ==
    ASSUME [ProcessNext]_processVars
    PROVE  \/ ServerStep \/ RequestStep \/ Replies \/ Samples \/ PathStep
           \/ \E l \in Listener : ServeFails(l)
           \/ UNCHANGED processVars
  BY DEF ProcessNext, Edge, ServerStep, RequestStep, PathStep

\* ColdPath's steps, and with them nothing of the servers and requests.
LEMMA PathSteps ==
    ASSUME PathStep
    PROVE  Next /\ UNCHANGED edgeVars
  BY DEF PathStep, HubTurn, RunReturns, Alone, Next

LEMMA EdgeSteps ==
    ASSUME ServerStep \/ RequestStep \/ Replies \/ Samples
    PROVE  UNCHANGED vars
<1>1. CASE ServerStep
  BY <1>1 DEF ServerStep, Listens, ServeReturns, DrainStarts, DrainEnds, GraceEnds
<1>2. CASE RequestStep
  BY <1>2 DEF RequestStep, Accepts, Arrives, LooksUp, Admitted, Rejected,
              TakesQuery, GetsReply,
              SnapshotAborted, CallerGone
<1>3. CASE Replies \/ Samples
  BY <1>3 DEF Replies, Samples
<1> QED  BY <1>1, <1>2, <1>3

\* A server that fails cancels the context, if nothing has before.
LEMMA ServeFailsCancels ==
    ASSUME PathInv, NEW l \in Listener, ServeFails(l)
    PROVE  Cancel \/ UNCHANGED vars
<1>1. ctxDone \in BOOLEAN
  BY DEF PathInv, PathTypeOK
<1>2. /\ ctxDone' = TRUE
      /\ UNCHANGED <<clock, fateVars, hubVars, storeVars, clientVars>>
  BY DEF ServeFails
<1>3. CASE ctxDone
  BY <1>1, <1>2, <1>3 DEF vars
<1>4. CASE ~ctxDone
  BY <1>2, <1>4 DEF Cancel
<1> QED  BY <1>3, <1>4

\* Every step is one of ColdPath's, or none.
LEMMA StepImplements ==
    ASSUME PathInv, [ProcessNext]_processVars
    PROVE  [Next]_vars
<1>1. CASE PathStep
  BY <1>1, PathSteps
<1>2. CASE ServerStep \/ RequestStep \/ Replies \/ Samples
  BY <1>2, EdgeSteps
<1>3. ASSUME NEW l \in Listener, ServeFails(l) PROVE [Next]_vars
  <2>1. Cancel \/ UNCHANGED vars
    BY <1>3, ServeFailsCancels
  <2> QED  BY <2>1 DEF Next
<1>4. CASE UNCHANGED processVars
  BY <1>4 DEF processVars
<1> QED  BY <1>1, <1>2, <1>3, <1>4, StepKinds

LEMMA ProcessPath == ProcessSpec => []PathInv
<1>1. ProcessInit => PathInv
  BY InitInv DEF ProcessInit
<1>2. PathInv /\ [ProcessNext]_processVars => PathInv'
  BY StepImplements, NextInv
<1> QED  BY <1>1, <1>2, PTL DEF ProcessSpec

\* The process as main composes it implements ColdPath: no HTTP server, request,
\* snapshot or sample does anything to the cold path that ColdPath does not.
THEOREM ProcessImplementsColdPath == ProcessSpec => Spec
<1>1. ProcessInit => Init
  BY DEF ProcessInit
<1>2. PathInv /\ [ProcessNext]_processVars => [Next]_vars
  BY StepImplements
<1> QED  BY <1>1, <1>2, ProcessPath, PTL DEF ProcessSpec, Spec

\* Hence nothing accepted is lost track of in the process, and the store is
\* closed after the last save (run's deferred closeStore).
THEOREM ProcessKeepsThePath ==
    ProcessSpec => [](StoredInOrder /\ AccountedFor /\ NoSaveAfterClose)
<1>1. ProcessSpec => Spec
  BY ProcessImplementsColdPath
<1> QED  BY <1>1, StoredInAcceptOrder, EveryMessageAccountedFor, StoreClosedLast, PTL

-----------------------------------------------------------------------------
\* The type invariant of the servers, requests and samples.

LEMMA EdgeTypeInit == ProcessInit => EdgeTypeOK
  BY DEF ProcessInit, EdgeTypeOK

LEMMA ServerTypes ==
    ASSUME EdgeTypeOK,
           \/ ServerStep
           \/ \E l \in Listener : ServeFails(l)
    PROVE  EdgeTypeOK'
<1>1. PICK l \in Listener :
        Listens(l) \/ ServeFails(l) \/ ServeReturns(l)
        \/ DrainStarts(l) \/ DrainEnds(l) \/ GraceEnds(l)
  BY DEF ServerStep
<1>2. /\ listener \in [Listener -> {"new", "up", "down"}]
      /\ drainer \in [Listener -> {"wait", "drain", "done"}]
      /\ runErr \in {"none", "serve", "grace"}
  BY DEF EdgeTypeOK
<1>3. UNCHANGED <<requestVars, samplerVars>>
  BY <1>1 DEF Listens, ServeFails, ServeReturns, DrainStarts, DrainEnds, GraceEnds
<1>4. listener' \in [Listener -> {"new", "up", "down"}]
  BY <1>1, <1>2
     DEF Listens, ServeFails, ServeReturns, DrainStarts, DrainEnds, GraceEnds
<1>5. drainer' \in [Listener -> {"wait", "drain", "done"}]
  BY <1>1, <1>2
     DEF Listens, ServeFails, ServeReturns, DrainStarts, DrainEnds, GraceEnds
<1>6. runErr' \in {"none", "serve", "grace"}
  BY <1>1, <1>2
     DEF Listens, ServeFails, ServeReturns, DrainStarts, DrainEnds, GraceEnds, FirstError
<1> QED  BY <1>3, <1>4, <1>5, <1>6 DEF EdgeTypeOK, requestVars, samplerVars

LEMMA RequestTypes ==
    ASSUME EdgeTypeOK, PathInv, RequestStep
    PROVE  EdgeTypeOK'
<1>1. PICK q \in Request :
        \/ Accepts(q) \/ Arrives(q) \/ LooksUp(q) \/ Admitted(q) \/ Rejected(q)
        \/ TakesQuery(q) \/ GetsReply(q) \/ SnapshotAborted(q) \/ CallerGone(q)
  BY DEF RequestStep
<1> DEFINE Stages == {"new", "conn", "auth", "lookup", "query", "wait", "done"}
<1>2. /\ at \in [Request -> Stages]
      /\ answering \in Request \cup {NoRequest}
      /\ reply \in [Request -> Stats \cup {NoStats}]
      /\ answer \in [Request -> Stats \cup {NoStats}]
      /\ askedAt \in [Request -> Nat]
  BY DEF EdgeTypeOK
<1>3. UNCHANGED <<httpVars, samplerVars, reply>>
  BY <1>1 DEF Accepts, Arrives, LooksUp, Admitted, Rejected,
              TakesQuery, GetsReply, SnapshotAborted, CallerGone
<1>4. \E where \in Stages : at' = [at EXCEPT ![q] = where]
  BY <1>1 DEF Accepts, Arrives, LooksUp, Admitted, Rejected,
              TakesQuery, GetsReply, SnapshotAborted,
              CallerGone, Goes, Returns
<1>5. at' \in [Request -> Stages]
  BY <1>2, <1>4
<1>6. answering' \in Request \cup {NoRequest}
  BY <1>1, <1>2 DEF Accepts, Arrives, LooksUp, Admitted, Rejected,
                    TakesQuery, GetsReply, SnapshotAborted, CallerGone
<1>7. askedAt' \in [Request -> Nat]
  <2>1. Len(accepted) \in Nat
    BY PartsAreMessages
  <2> QED  BY <1>1, <1>2, <2>1
           DEF Accepts, Arrives, LooksUp, Admitted, Rejected,
               TakesQuery, GetsReply, SnapshotAborted, CallerGone
<1>8. answer' \in [Request -> Stats \cup {NoStats}]
  <2>1. reply[q] \in Stats \cup {NoStats}
    BY <1>2
  <2>2. ZeroStats \in Stats
    BY DEF ZeroStats, Stats
  <2>3. \/ UNCHANGED answer
        \/ answer' = [answer EXCEPT ![q] = reply[q]]
        \/ answer' = [answer EXCEPT ![q] = ZeroStats]
    BY <1>1 DEF Accepts, Arrives, LooksUp, Admitted, Rejected,
                TakesQuery, GetsReply, SnapshotAborted,
                CallerGone, Returns
  <2> QED  BY <1>2, <2>1, <2>2, <2>3
<1> QED  BY <1>2, <1>3, <1>5, <1>6, <1>7, <1>8 DEF EdgeTypeOK, httpVars, samplerVars

LEMMA HubTypes ==
    ASSUME EdgeTypeOK, PathInv, lastSampled <= Len(accepted), Replies \/ Samples
    PROVE  EdgeTypeOK'
<1>1. Len(accepted) \in Nat /\ rate \in Nat /\ lastSampled \in Nat
  BY PartsAreMessages DEF EdgeTypeOK
<1>2. CASE Replies
  <2>1. Snapshot \in Stats
    BY <1>1 DEF Snapshot, Stats
  <2>2. reply' \in [Request -> Stats \cup {NoStats}]
    BY <1>2, <2>1 DEF Replies, EdgeTypeOK
  <2>3. UNCHANGED <<httpVars, at, answer, askedAt, samplerVars>> /\ answering' = NoRequest
    BY <1>2 DEF Replies
  <2> QED  BY <2>2, <2>3 DEF EdgeTypeOK, httpVars, samplerVars
<1>3. CASE Samples
  <2>1. /\ rate' = Len(accepted) - lastSampled /\ lastSampled' = Len(accepted)
        /\ UNCHANGED <<httpVars, requestVars>>
    BY <1>3 DEF Samples
  <2>2. rate' \in Nat /\ lastSampled' \in Nat
    BY <1>1, <2>1
  <2> QED  BY <2>1, <2>2 DEF EdgeTypeOK, httpVars, requestVars
<1> QED  BY <1>2, <1>3

-----------------------------------------------------------------------------
\* A clean exit.

\* Once Shutdown has returned without an error no request is in flight, and the
\* store is closed when every goroutine of the group has returned.
ExitInv ==
    /\ drainer["web"] = "done" /\ runErr = "none" => InFlight = {}
    /\ store = "closed" => GroupDone

LEMMA ExitInit == ProcessInit => ExitInv
<1> SUFFICES ASSUME ProcessInit PROVE ExitInv
  OBVIOUS
<1>1. drainer["web"] = "wait"
  BY ListenerAssumption DEF ProcessInit
<1>2. store = "open"
  BY DEF ProcessInit, Init
<1> QED  BY <1>1, <1>2 DEF ExitInv

LEMMA ServerExit ==
    ASSUME EdgeTypeOK, ExitInv,
           \/ ServerStep
           \/ \E l \in Listener : ServeFails(l)
    PROVE  ExitInv'
<1>1. PICK l \in Listener :
        Listens(l) \/ ServeFails(l) \/ ServeReturns(l)
        \/ DrainStarts(l) \/ DrainEnds(l) \/ GraceEnds(l)
  BY DEF ServerStep
<1>2. UNCHANGED <<store, at>>
  BY <1>1 DEF Listens, ServeFails, ServeReturns, DrainStarts, DrainEnds, GraceEnds,
              vars, storeVars, requestVars
<1>3. drainer["web"]' = "done" /\ runErr' = "none" => InFlight' = {}
  <2> SUFFICES ASSUME drainer'["web"] = "done", runErr' = "none" PROVE InFlight = {}
    BY <1>2 DEF InFlight
  <2>1. CASE DrainEnds(l) /\ l = "web"
    BY <2>1 DEF DrainEnds
  <2>2. CASE DrainEnds(l) /\ l # "web"
    BY <2>2 DEF DrainEnds, ExitInv, EdgeTypeOK
  <2>3. CASE GraceEnds(l)
    <3>1. runErr' # "none"
      BY <2>3 DEF GraceEnds, FirstError
    <3> QED  BY <3>1
  <2>4. CASE DrainStarts(l)
    <3>1. drainer["web"] = "done" /\ runErr = "none"
      BY <2>4, ListenerAssumption DEF DrainStarts, EdgeTypeOK
    <3> QED  BY <3>1 DEF ExitInv
  <2>5. CASE Listens(l) \/ ServeFails(l) \/ ServeReturns(l)
    <3>1. drainer["web"] = "done" /\ runErr = "none"
      BY <2>5 DEF Listens, ServeFails, ServeReturns, FirstError
    <3> QED  BY <3>1 DEF ExitInv
  <2> QED  BY <1>1, <2>1, <2>2, <2>3, <2>4, <2>5
<1>4. GroupDone => GroupDone'
  <2> SUFFICES ASSUME GroupDone, NEW k \in Listener
               PROVE  listener'[k] = "down" /\ drainer'[k] = "done"
    BY DEF GroupDone
  <2>1. /\ listener[k] = "down" /\ drainer[k] = "done"
        /\ listener[l] = "down" /\ drainer[l] = "done"
    BY DEF GroupDone
  <2> QED  BY <1>1, <2>1
           DEF Listens, ServeFails, ServeReturns, DrainStarts, DrainEnds, GraceEnds
<1> QED  BY <1>2, <1>3, <1>4 DEF ExitInv

LEMMA RequestExit ==
    ASSUME EdgeTypeOK, ExitInv, RequestStep
    PROVE  ExitInv'
<1>1. PICK q \in Request :
        \/ Accepts(q) \/ Arrives(q) \/ LooksUp(q) \/ Admitted(q) \/ Rejected(q)
        \/ TakesQuery(q) \/ GetsReply(q) \/ SnapshotAborted(q) \/ CallerGone(q)
  BY DEF RequestStep
<1>2. UNCHANGED <<store, listener, drainer, runErr>>
  BY <1>1 DEF Accepts, Arrives, LooksUp, Admitted, Rejected,
              TakesQuery, GetsReply, SnapshotAborted,
              CallerGone, vars, storeVars, httpVars
<1>3. drainer["web"] = "done" /\ runErr = "none" => InFlight' = {}
  <2> SUFFICES ASSUME drainer["web"] = "done", runErr = "none" PROVE InFlight' = {}
    OBVIOUS
  <2>1. InFlight = {}
    BY DEF ExitInv
  <2>2. at[q] \notin {"auth", "lookup", "query", "wait"}
    BY <2>1 DEF InFlight
  <2>3. ~Arrives(q)
    BY DEF Arrives
  <2> QED  BY <1>1, <2>2, <2>3
           DEF Accepts, LooksUp, Admitted, Rejected,
               TakesQuery, GetsReply, SnapshotAborted, CallerGone
<1> QED  BY <1>2, <1>3 DEF ExitInv, GroupDone

LEMMA OtherExit ==
    ASSUME EdgeTypeOK, ExitInv, Replies \/ Samples \/ PathStep \/ UNCHANGED processVars
    PROVE  ExitInv'
<1>1. UNCHANGED <<listener, drainer, runErr, at>>
  BY PathSteps DEF Replies, Samples, processVars, edgeVars, httpVars, requestVars
<1>2. store' = store \/ GroupDone
  <2>1. CASE RunReturns
    BY <2>1 DEF RunReturns
  <2>2. CASE HubTurn
    BY <2>2 DEF HubTurn, Alone, Hub, HubBroadcast, HubHandsOff, HubStops, storeVars
  <2>3. CASE Alone(Persister) \/ Alone(Cancel) \/ Alone(Terminated)
    BY <2>3 DEF Alone, Persister, PersisterReceives, SaveSucceeds, SaveFails,
                PersisterDrains, PersisterReturns, Cancel, Terminated, vars, storeVars
  <2>4. CASE Replies \/ Samples \/ UNCHANGED processVars
    BY <2>4 DEF Replies, Samples, processVars, vars, storeVars
  <2> QED  BY <2>1, <2>2, <2>3, <2>4 DEF PathStep
<1> QED  BY <1>1, <1>2 DEF ExitInv, GroupDone, InFlight

-----------------------------------------------------------------------------
\* Answers.

\* A snapshot of some moment between q's call and now.
IsCurrent(q, s) ==
    askedAt[q] <= s.total /\ s.total <= Len(accepted) /\ s.rate <= s.total

AnswersInv ==
    /\ rate <= Len(accepted) /\ lastSampled <= Len(accepted)
    /\ \A q \in Request : askedAt[q] <= Len(accepted)
    /\ answering # NoRequest => at[answering] \in {"wait", "done"}
    /\ \A q \in Request : reply[q] # NoStats =>
         at[q] \in {"wait", "done"} /\ IsCurrent(q, reply[q])
    /\ \A q \in Request : answer[q] # NoStats =>
         /\ at[q] = "done"
         /\ (answer[q] = ZeroStats /\ hub = "stopped") \/ IsCurrent(q, answer[q])

LEMMA AnswersInit == ProcessInit => AnswersInv
<1> SUFFICES ASSUME ProcessInit PROVE AnswersInv
  OBVIOUS
<1>1. Len(accepted) = 0
  BY DEF ProcessInit, Init
<1> QED  BY <1>1 DEF ProcessInit, AnswersInv

\* The accepted messages only grow, and a stopped hub stays so.
LEMMA PathGrows ==
    ASSUME PathInv, PathInv', PathStep \/ (\E l \in Listener : ServeFails(l))
    PROVE  /\ Len(accepted) \in Nat /\ Len(accepted') \in Nat
           /\ Len(accepted) <= Len(accepted')
           /\ hub = "stopped" => hub' = "stopped"
<1>1. Len(accepted) \in Nat /\ Len(accepted') \in Nat
  <2>1. /\ accepted \in Seq([room : Room, time : 1..MaxTime])
        /\ accepted' \in Seq([room : Room, time : 1..MaxTime])
    BY DEF PathInv, PathTypeOK
  <2> QED  BY <2>1
<1>2. ASSUME NEW r \in Room, HubBroadcast(r)
      PROVE  Len(accepted) <= Len(accepted') /\ hub' = hub
  <2>1. accepted' = Append(accepted, [room |-> r, time |-> clock]) /\ hub' = hub
    BY <1>2 DEF HubBroadcast
  <2>2. accepted \in Seq([room : Room, time : 1..MaxTime])
        /\ [room |-> r, time |-> clock] \in [room : Room, time : 1..MaxTime]
    BY DEF PathInv, PathTypeOK
  <2>3. Len(accepted') = Len(accepted) + 1
    BY <2>1, <2>2
  <2> QED  BY <1>1, <2>1, <2>3
<1>3. CASE HubHandsOff \/ HubStops
  BY <1>1, <1>3 DEF HubHandsOff, HubStops
<1>4. CASE \/ Persister \/ MainCloses \/ Cancel \/ Terminated
           \/ \E l \in Listener : ServeFails(l)
  <2>1. UNCHANGED <<accepted, hub>>
    BY <1>4 DEF Persister, PersisterReceives, SaveSucceeds, SaveFails, PersisterDrains,
                PersisterReturns, MainCloses, Cancel, Terminated, ServeFails, vars, hubVars
  <2> QED  BY <1>1, <2>1
<1> QED  BY <1>1, <1>2, <1>3, <1>4 DEF PathStep, HubTurn, RunReturns, Alone, Hub

LEMMA PathAnswers ==
    ASSUME PathInv, PathInv', EdgeTypeOK, AnswersInv,
           PathStep \/ (\E l \in Listener : ServeFails(l))
    PROVE  AnswersInv'
<1>1. UNCHANGED <<requestVars, samplerVars>>
  <2>1. CASE PathStep
    BY <2>1, PathSteps DEF edgeVars
  <2>2. CASE \E l \in Listener : ServeFails(l)
    BY <2>2 DEF ServeFails
  <2> QED  BY <2>1, <2>2
<1>2. /\ Len(accepted) \in Nat /\ Len(accepted') \in Nat
      /\ Len(accepted) <= Len(accepted')
      /\ hub = "stopped" => hub' = "stopped"
  BY PathGrows
<1>3. /\ rate \in Nat /\ lastSampled \in Nat
      /\ \A q \in Request : askedAt[q] \in Nat
      /\ \A q \in Request : reply[q] # NoStats => reply[q].total \in Nat
      /\ \A q \in Request : answer[q] # NoStats => answer[q].total \in Nat
  BY DEF EdgeTypeOK, Stats
<1>4. rate' <= Len(accepted') /\ lastSampled' <= Len(accepted')
  BY <1>1, <1>2, <1>3 DEF AnswersInv, samplerVars
<1>5. \A q \in Request : askedAt'[q] <= Len(accepted')
  BY <1>1, <1>2, <1>3 DEF AnswersInv, requestVars
<1>6. answering' # NoRequest => at'[answering'] \in {"wait", "done"}
  BY <1>1 DEF AnswersInv, requestVars
<1>7. \A q \in Request : reply'[q] # NoStats =>
        at'[q] \in {"wait", "done"} /\ IsCurrent(q, reply[q])'
  BY <1>1, <1>2, <1>3 DEF AnswersInv, requestVars, IsCurrent
<1>8. \A q \in Request : answer'[q] # NoStats =>
        /\ at'[q] = "done"
        /\ (answer'[q] = ZeroStats /\ hub' = "stopped") \/ IsCurrent(q, answer[q])'
  BY <1>1, <1>2, <1>3 DEF AnswersInv, requestVars, IsCurrent
<1> QED  BY <1>4, <1>5, <1>6, <1>7, <1>8 DEF AnswersInv

\* Steps that leave the counters, the requests and the hub alone.
LEMMA QuietAnswers ==
    ASSUME AnswersInv, ServerStep \/ UNCHANGED processVars
    PROVE  AnswersInv'
<1>1. UNCHANGED <<accepted, hub, at, answering, reply, answer, askedAt, rate, lastSampled>>
  BY DEF ServerStep, Listens, ServeReturns, DrainStarts, DrainEnds, GraceEnds,
         processVars, edgeVars, vars, hubVars, requestVars, samplerVars
<1> QED  BY <1>1 DEF AnswersInv, IsCurrent

LEMMA HubAnswers ==
    ASSUME PathInv, EdgeTypeOK, AnswersInv, Replies \/ Samples
    PROVE  AnswersInv'
<1>1. Len(accepted) \in Nat
  BY PartsAreMessages
<1>2. CASE Replies
  <2>1. /\ answering \in Request /\ at[answering] \in {"wait", "done"}
        /\ reply' = [reply EXCEPT ![answering] = Snapshot]
        /\ answering' = NoRequest
        /\ UNCHANGED <<accepted, hub, at, answer, askedAt, rate, lastSampled>>
    BY <1>2 DEF Replies, EdgeTypeOK, AnswersInv, vars, hubVars, samplerVars
  <2>2. IsCurrent(answering, Snapshot)
    BY <1>1, <2>1 DEF AnswersInv, IsCurrent, Snapshot
  <2>3. \A q \in Request : reply'[q] = IF q = answering THEN Snapshot ELSE reply[q]
    BY <2>1 DEF EdgeTypeOK
  <2>4. \A q \in Request : reply'[q] # NoStats =>
          at'[q] \in {"wait", "done"} /\ IsCurrent(q, reply[q])'
    BY <2>1, <2>2, <2>3 DEF AnswersInv, IsCurrent
  <2> QED  BY <2>1, <2>4 DEF AnswersInv, IsCurrent
<1>3. CASE Samples
  <2>1. /\ rate' = Len(accepted) - lastSampled /\ lastSampled' = Len(accepted)
        /\ UNCHANGED <<accepted, hub, at, answering, reply, answer, askedAt>>
    BY <1>3 DEF Samples, vars, hubVars, requestVars
  <2>2. rate' <= Len(accepted) /\ lastSampled' <= Len(accepted)
    BY <1>1, <2>1 DEF EdgeTypeOK
  <2> QED  BY <2>1, <2>2 DEF AnswersInv, IsCurrent
<1> QED  BY <1>2, <1>3

LEMMA RequestAnswers ==
    ASSUME PathInv, EdgeTypeOK, AnswersInv, RequestStep
    PROVE  AnswersInv'
<1>1. PICK q \in Request :
        \/ Accepts(q) \/ Arrives(q) \/ LooksUp(q) \/ Admitted(q) \/ Rejected(q)
        \/ TakesQuery(q) \/ GetsReply(q) \/ SnapshotAborted(q) \/ CallerGone(q)
  BY DEF RequestStep
<1>2. UNCHANGED <<accepted, hub, reply, rate, lastSampled>>
  BY <1>1 DEF Accepts, Arrives, LooksUp, Admitted, Rejected,
              TakesQuery, GetsReply, SnapshotAborted,
              CallerGone, vars, hubVars, samplerVars
<1>3. Len(accepted) \in Nat
  BY PartsAreMessages
<1>4. \A p \in Request : p # q => at'[p] = at[p] /\ answer'[p] = answer[p]
                                 /\ askedAt'[p] = askedAt[p]
  BY <1>1 DEF Accepts, Arrives, LooksUp, Admitted, Rejected,
              TakesQuery, GetsReply, SnapshotAborted,
              CallerGone, Goes, Returns, EdgeTypeOK
\* Before q is taken up nothing has been answered to it.
<1>5. CASE Accepts(q) \/ Arrives(q) \/ LooksUp(q) \/ Rejected(q)
  <2>1. /\ UNCHANGED <<answering, answer, askedAt>>
        /\ at[q] \notin {"wait", "done"}
    BY <1>5 DEF Accepts, Arrives, LooksUp, Rejected
  <2>2. answering # q /\ reply[q] = NoStats /\ answer[q] = NoStats
    BY <2>1, RequestAssumption DEF AnswersInv
  <2> QED  BY <1>2, <1>4, <2>1, <2>2 DEF AnswersInv, IsCurrent, EdgeTypeOK
<1>6. CASE Admitted(q)
  <2>1. /\ UNCHANGED <<answering, answer>>
        /\ at[q] \notin {"wait", "done"}
        /\ askedAt' = [askedAt EXCEPT ![q] = Len(accepted)]
    BY <1>6 DEF Admitted
  <2>2. answering # q /\ reply[q] = NoStats /\ answer[q] = NoStats
    BY <2>1, RequestAssumption DEF AnswersInv
  <2>3. \A p \in Request : askedAt'[p] <= Len(accepted)
    BY <1>3, <2>1 DEF AnswersInv, EdgeTypeOK
  <2> QED  BY <1>2, <1>4, <2>1, <2>2, <2>3 DEF AnswersInv, IsCurrent, EdgeTypeOK
<1>7. CASE TakesQuery(q)
  <2>1. /\ UNCHANGED <<answer, askedAt>>
        /\ answering' = q /\ at[q] = "query" /\ at' = [at EXCEPT ![q] = "wait"]
    BY <1>7 DEF TakesQuery, Goes
  <2>2. DOMAIN at = Request
    BY DEF EdgeTypeOK
  <2>3. at'[q] = "wait"
    BY <2>1, <2>2
  <2>4. answer[q] = NoStats
    BY <2>1 DEF AnswersInv
  <2>5. \A p \in Request : at[p] \in {"wait", "done"} => at'[p] \in {"wait", "done"}
    BY <1>4, <2>3
  <2>6. \A p \in Request : answer'[p] # NoStats =>
          /\ at'[p] = "done"
          /\ (answer'[p] = ZeroStats /\ hub' = "stopped") \/ IsCurrent(p, answer[p])'
    BY <1>2, <1>4, <2>1, <2>4 DEF AnswersInv, IsCurrent
  <2>7. \A p \in Request : reply'[p] # NoStats =>
          at'[p] \in {"wait", "done"} /\ IsCurrent(p, reply[p])'
    BY <1>2, <2>1, <2>5 DEF AnswersInv, IsCurrent
  <2> QED  BY <1>2, <2>1, <2>3, <2>6, <2>7 DEF AnswersInv
<1>8. CASE GetsReply(q) \/ SnapshotAborted(q) \/ CallerGone(q)
  <2>1. /\ UNCHANGED <<answering, askedAt>>
        /\ at' = [at EXCEPT ![q] = "done"]
        /\ at[q] # "done"
        /\ \/ at[q] = "wait" /\ answer' = [answer EXCEPT ![q] = reply[q]] /\ reply[q] # NoStats
           \/ hub = "stopped" /\ answer' = [answer EXCEPT ![q] = ZeroStats]
           \/ UNCHANGED answer
    BY <1>8 DEF GetsReply, SnapshotAborted, CallerGone, Goes, Returns
  <2>a. DOMAIN at = Request /\ DOMAIN answer = Request
    BY DEF EdgeTypeOK
  <2>b. at'[q] = "done"
    BY <2>1, <2>a
  <2>c. answer[q] = NoStats
    BY <2>1 DEF AnswersInv
  <2>2. at'[q] = "done" /\ answer[q] = NoStats
    BY <2>b, <2>c
  <2>3. answer'[q] # NoStats =>
          (answer'[q] = ZeroStats /\ hub = "stopped") \/ IsCurrent(q, answer'[q])
    BY <2>1, <2>2 DEF AnswersInv, EdgeTypeOK
  <2>4. \A p \in Request : answer'[p] # NoStats =>
          /\ at'[p] = "done"
          /\ (answer'[p] = ZeroStats /\ hub' = "stopped") \/ IsCurrent(p, answer[p])'
    BY <1>2, <1>4, <2>1, <2>2, <2>3 DEF AnswersInv, IsCurrent
  <2>5. \A p \in Request : reply'[p] # NoStats =>
          at'[p] \in {"wait", "done"} /\ IsCurrent(p, reply[p])'
    BY <1>2, <1>4, <2>1, <2>2 DEF AnswersInv, IsCurrent
  <2>6. answering' # NoRequest => at'[answering'] \in {"wait", "done"}
    BY <1>4, <2>1, <2>2 DEF AnswersInv, EdgeTypeOK
  <2> QED  BY <1>2, <2>1, <2>4, <2>5, <2>6 DEF AnswersInv
<1> QED  BY <1>1, <1>5, <1>6, <1>7, <1>8

-----------------------------------------------------------------------------
\* The inductive invariant of the edge, on top of ColdPath's.
EdgeInv == EdgeTypeOK /\ ExitInv /\ AnswersInv

LEMMA EdgeNext ==
    ASSUME PathInv, PathInv', EdgeInv, [ProcessNext]_processVars
    PROVE  EdgeInv'
<1>1. CASE ServerStep \/ (\E l \in Listener : ServeFails(l))
  BY <1>1, ServerTypes, ServerExit, QuietAnswers, PathAnswers DEF EdgeInv
<1>2. CASE RequestStep
  BY <1>2, RequestTypes, RequestExit, RequestAnswers DEF EdgeInv
<1>3. CASE Replies \/ Samples
  <2>1. lastSampled <= Len(accepted)
    BY DEF EdgeInv, AnswersInv
  <2> QED  BY <1>3, <2>1, HubTypes, OtherExit, HubAnswers DEF EdgeInv
<1>4. CASE PathStep
  <2>1. EdgeTypeOK'
    BY <1>4, PathSteps DEF EdgeInv, EdgeTypeOK, edgeVars, httpVars, requestVars, samplerVars
  <2> QED  BY <1>4, <2>1, OtherExit, PathAnswers DEF EdgeInv
<1>5. CASE UNCHANGED processVars
  <2>1. EdgeTypeOK'
    BY <1>5 DEF EdgeInv, EdgeTypeOK, processVars, edgeVars, httpVars, requestVars, samplerVars
  <2> QED  BY <1>5, <2>1, OtherExit, QuietAnswers DEF EdgeInv
<1> QED  BY <1>1, <1>2, <1>3, <1>4, <1>5, StepKinds

LEMMA EdgeCorrect == ProcessSpec => []EdgeInv
<1>1. ProcessInit => EdgeInv
  BY EdgeTypeInit, ExitInit, AnswersInit DEF EdgeInv
<1>2. PathInv /\ PathInv' /\ EdgeInv /\ [ProcessNext]_processVars => EdgeInv'
  BY EdgeNext
<1> QED  BY <1>1, <1>2, ProcessPath, PTL DEF ProcessSpec

\* The process stays well-typed: ColdPath's variables as in ColdPath, those of the
\* servers, requests and samples by EdgeInv.
THEOREM ProcessTypeCorrect == ProcessSpec => []ProcessTypeOK
<1>1. ProcessSpec => []TypeOK
  BY ProcessImplementsColdPath, TypeCorrect, PTL
<1>2. EdgeInv => EdgeTypeOK
  BY DEF EdgeInv
<1>3. TypeOK /\ EdgeTypeOK <=> ProcessTypeOK
  BY DEF ProcessTypeOK
<1> QED  BY <1>1, <1>2, <1>3, EdgeCorrect, PTL

\* FR-12: when run returns no error, no request is left to meet the closed store
\* (Shutdown within the grace period, g.Wait, then closeStore).
THEOREM ExitsCleanly == ProcessSpec => []CleanExit
<1>1. EdgeInv => CleanExit
  BY ListenerAssumption DEF EdgeInv, ExitInv, GroupDone, CleanExit
<1> QED  BY <1>1, EdgeCorrect, PTL

\* What Snapshot returns is of a moment between its call and its return, and
\* zero only when the hub has stopped.
THEOREM SnapshotsAreCurrent == ProcessSpec => []AnswersAreCurrent
<1>1. EdgeInv => AnswersAreCurrent
  BY DEF EdgeInv, AnswersInv, AnswersAreCurrent, IsCurrent
<1> QED  BY <1>1, EdgeCorrect, PTL
=============================================================================
