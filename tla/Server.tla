-------------------------------- MODULE Server --------------------------------
(***************************************************************************)
(* The process as run (cmd/chat/main.go) composes it: the hub, the          *)
(* persister and the store of ColdPath, an HTTP server for the chat and     *)
(* perhaps one for debugging, and the requests for /api/rooms, which ask    *)
(* the hub for a snapshot while messages go by.                             *)
(*                                                                          *)
(* An errgroup holds one goroutine each for the hub and the persister, and  *)
(* two per HTTP server: one listens, one waits for the group's context and  *)
(* then drains the requests in flight for at most shutdownGrace.  The first *)
(* error cancels the context; when all have returned the store is closed,   *)
(* which with Postgres waits for the lookups of requests that still run.    *)
(* The read pumps belong to none of these goroutines, and the joins of      *)
(* ColdPath's clients, and with them its clock, do not take part here.      *)
(***************************************************************************)
EXTENDS ColdPath

CONSTANTS
    Listener,       \* the HTTP servers, "web" and perhaps "debug"
    Unbindable,     \* bound of the model: those that may fail to listen
    Request,        \* the requests for /api/rooms, all to "web"
    Impatient,      \* bound of the model: those whose caller may go away
    NoRequest,
    Pooled,         \* the store is Postgres' pool, not SQLite's handle
    MaxSampled      \* bound of the model: no sample once so many messages counted

ASSUME ListenerAssumption  == "web" \in Listener /\ Unbindable \subseteq Listener
ASSUME RequestAssumption   == NoRequest \notin Request /\ Impatient \subseteq Request
ASSUME PooledAssumption == Pooled \in BOOLEAN
ASSUME MaxSampledAssumption == MaxSampled \in Nat

VARIABLES
    listener,       \* each goroutine in ListenAndServe: "new", "up", "down"
    drainer,        \* each goroutine that shuts one down: "wait", "drain", "done"
    runErr,         \* the first error of the group, which run returns
    at,             \* where each request is
    answering,      \* the request whose snapshot the hub is making
    reply,          \* the channel each request made, of capacity one
    answer,         \* what Snapshot returned to each request
    rate,           \* h.messageRate
    lastSampled,    \* h.lastSampledTotal
    askedAt         \* history: messages accepted when each request called Snapshot

httpVars     == <<listener, drainer, runErr>>
requestVars  == <<at, answering, reply, answer, askedAt>>
samplerVars  == <<rate, lastSampled>>
edgeVars     == <<httpVars, requestVars, samplerVars>>
processVars  == <<vars, edgeVars>>

Stats     == [total : Nat, rate : Nat]
ZeroStats == [total |-> 0, rate |-> 0]
NoStats   == [total |-> 0]

InFlight == {q \in Request : at[q] \in {"auth", "lookup", "query", "wait"}}

EdgeTypeOK ==
    /\ listener \in [Listener -> {"new", "up", "down"}]
    /\ drainer \in [Listener -> {"wait", "drain", "done"}]
    /\ runErr \in {"none", "serve", "grace"}
    /\ at \in [Request -> {"new", "conn", "auth", "lookup", "query", "wait", "done"}]
    /\ answering \in Request \cup {NoRequest}
    /\ reply \in [Request -> Stats \cup {NoStats}]
    /\ answer \in [Request -> Stats \cup {NoStats}]
    /\ rate \in Nat /\ lastSampled \in Nat
    /\ askedAt \in [Request -> Nat]

ProcessTypeOK == TypeOK /\ EdgeTypeOK

ProcessInit ==
    /\ Init
    /\ listener = [l \in Listener |-> "new"]
    /\ drainer = [l \in Listener |-> "wait"]
    /\ runErr = "none"
    /\ at = [q \in Request |-> "new"]
    /\ answering = NoRequest
    /\ reply = [q \in Request |-> NoStats]
    /\ answer = [q \in Request |-> NoStats]
    /\ rate = 0 /\ lastSampled = 0
    /\ askedAt = [q \in Request |-> 0]

-----------------------------------------------------------------------------
\* The goroutines of the HTTP servers.

FirstError(e) == runErr' = IF runErr = "none" THEN e ELSE runErr

Listens(l) ==
    /\ listener[l] = "new" /\ drainer[l] = "wait"
    /\ listener' = [listener EXCEPT ![l] = "up"]
    /\ UNCHANGED <<vars, drainer, runErr, requestVars, samplerVars>>

\* ListenAndServe fails, at once or later; its error cancels the context.
\* Mutant of ServeFails: the goroutine returns no error.
ServeFailsSilently(l) ==
    /\ l \in Unbindable
    /\ listener[l] # "down" /\ drainer[l] = "wait"
    /\ listener' = [listener EXCEPT ![l] = "down"]
    /\ UNCHANGED <<vars, drainer, runErr, requestVars, samplerVars>>

ServeFails(l) ==
    /\ l \in Unbindable
    /\ listener[l] # "down" /\ drainer[l] = "wait"
    /\ listener' = [listener EXCEPT ![l] = "down"]
    /\ ctxDone' = TRUE
    /\ FirstError("serve")
    /\ UNCHANGED <<clock, fateVars, hubVars, storeVars, clientVars,
                   drainer, requestVars, samplerVars>>

\* Shutdown has been called, before or after the listening started:
\* ErrServerClosed, which Serve turns into nil.
ServeReturns(l) ==
    /\ listener[l] # "down" /\ drainer[l] # "wait"
    /\ listener' = [listener EXCEPT ![l] = "down"]
    /\ UNCHANGED <<vars, drainer, runErr, requestVars, samplerVars>>

\* <-gctx.Done(), then Shutdown with a context of its own.
DrainStarts(l) ==
    /\ drainer[l] = "wait"
    /\ ctxDone
    /\ drainer' = [drainer EXCEPT ![l] = "drain"]
    /\ UNCHANGED <<vars, listener, runErr, requestVars, samplerVars>>

\* Shutdown finds no request in flight.  Upgraded connections do not count.
DrainEnds(l) ==
    /\ drainer[l] = "drain"
    /\ l = "web" => InFlight = {}
    /\ drainer' = [drainer EXCEPT ![l] = "done"]
    /\ UNCHANGED <<vars, listener, runErr, requestVars, samplerVars>>

\* shutdownGrace is over first, and Shutdown returns the context's error.
GraceEnds(l) ==
    /\ drainer[l] = "drain"
    /\ l = "web" /\ InFlight # {}
    /\ drainer' = [drainer EXCEPT ![l] = "done"]
    /\ FirstError("grace")
    /\ UNCHANGED <<vars, listener, requestVars, samplerVars>>

-----------------------------------------------------------------------------
\* A request for /api/rooms: the middleware, handleRooms and Snapshot.

Goes(q, where) == at' = [at EXCEPT ![q] = where]

\* The server accepts a connection for q.
Accepts(q) ==
    /\ listener["web"] = "up" /\ drainer["web"] = "wait"
    /\ at[q] = "new"
    /\ Goes(q, "conn")
    /\ UNCHANGED <<vars, httpVars, answering, reply, answer, askedAt, samplerVars>>

\* The request comes on it.  A drain closes idle connections, but until it is
\* over one of them may still bring a request.
Arrives(q) ==
    /\ at[q] = "conn" /\ drainer["web"] # "done"
    /\ Goes(q, "auth")
    /\ UNCHANGED <<vars, httpVars, answering, reply, answer, askedAt, samplerVars>>

\* There is a cookie: the middleware queries the store for its session.
LooksUp(q) ==
    /\ at[q] = "auth" /\ store = "open"
    /\ Goes(q, "lookup")
    /\ UNCHANGED <<vars, httpVars, answering, reply, answer, askedAt, samplerVars>>

\* The lookup finds the user; Snapshot is called.
Admitted(q) ==
    /\ at[q] = "lookup" /\ store = "open"
    /\ Goes(q, "query")
    /\ askedAt' = [askedAt EXCEPT ![q] = Len(accepted)]
    /\ UNCHANGED <<vars, httpVars, answering, reply, answer, samplerVars>>

\* No cookie, no user, or an error, as from the closed store.
Rejected(q) ==
    /\ at[q] \in {"auth", "lookup"}
    /\ Goes(q, "done")
    /\ UNCHANGED <<vars, httpVars, answering, reply, answer, askedAt, samplerVars>>

Returns(q, s) == Goes(q, "done") /\ answer' = [answer EXCEPT ![q] = s]

GetsReply(q) ==
    /\ at[q] = "wait" /\ reply[q] # NoStats
    /\ Returns(q, reply[q])
    /\ UNCHANGED <<vars, httpVars, answering, reply, askedAt, samplerVars>>

\* Mutant of SnapshotAborted: no case for h.done.
SnapshotBlocks(q) == FALSE

\* case <-h.done, looked at only before the query was handed over.
SnapshotAborted(q) ==
    /\ at[q] = "query" /\ hub = "stopped"
    /\ Returns(q, ZeroStats)
    /\ UNCHANGED <<vars, httpVars, answering, reply, askedAt, samplerVars>>

\* case <-ctx.Done(), the request's own: nobody reads the answer any more.
CallerGone(q) ==
    /\ q \in Impatient
    /\ at[q] \in {"query", "wait"}
    /\ Goes(q, "done")
    /\ UNCHANGED <<vars, httpVars, answering, reply, answer, askedAt, samplerVars>>

-----------------------------------------------------------------------------
\* What the hub's select does besides ColdPath's steps.

Busy == handing # 0 \/ answering # NoRequest

AtSelect == hub = "running" /\ ~Busy

\* case reply := <-h.query
TakesQuery(q) ==
    /\ AtSelect
    /\ at[q] = "query"
    /\ Goes(q, "wait")
    /\ answering' = q
    /\ UNCHANGED <<vars, httpVars, reply, answer, askedAt, samplerVars>>

\* snapshot, and the send on the channel, which always has room for it.
\* Mutant of Replies: a channel without capacity.
RepliesUnbuffered ==
    /\ answering # NoRequest
    /\ \/ /\ at[answering] = "wait"
          /\ reply' = [reply EXCEPT ![answering] = [total |-> Len(accepted), rate |-> rate]]
          /\ answering' = NoRequest
       \/ at[answering] # "wait" /\ UNCHANGED <<reply, answering>>
    /\ UNCHANGED <<vars, httpVars, at, answer, askedAt, samplerVars>>

\* Mutant of Snapshot: the total of the last sample.
SnapshotOfSample == [total |-> lastSampled, rate |-> rate]

Snapshot == [total |-> Len(accepted), rate |-> rate]

Replies ==
    /\ answering # NoRequest
    /\ reply' = [reply EXCEPT ![answering] = Snapshot]
    /\ answering' = NoRequest
    /\ UNCHANGED <<vars, httpVars, at, answer, askedAt, samplerVars>>

\* case <-sampler.C
Samples ==
    /\ AtSelect
    /\ lastSampled < MaxSampled
    /\ rate' = Len(accepted) - lastSampled
    /\ lastSampled' = Len(accepted)
    /\ UNCHANGED <<vars, httpVars, requestVars>>

-----------------------------------------------------------------------------
\* ColdPath's steps.  The hub takes them when it is not busy with a snapshot,
\* and the store is closed when every goroutine of the group has returned.
Alone(A) == A /\ UNCHANGED edgeVars

HubTurn == answering = NoRequest /\ Alone(Hub)

\* Mutant of GroupDone: the servers are not members of the group.
GroupDoneWithoutServers == TRUE

GroupDone == \A l \in Listener : listener[l] = "down" /\ drainer[l] = "done"

\* Postgres.Close waits until the pool has back the connections it gave out.
ClosesAtOnce == ~Pooled \/ \A q \in Request : at[q] # "lookup"

RunReturns == GroupDone /\ ClosesAtOnce /\ Alone(MainCloses)

Edge ==
    \/ \E l \in Listener :
         Listens(l) \/ ServeFails(l) \/ ServeReturns(l)
         \/ DrainStarts(l) \/ DrainEnds(l) \/ GraceEnds(l)
    \/ \E q \in Request :
         \/ Accepts(q) \/ Arrives(q) \/ LooksUp(q) \/ Admitted(q) \/ Rejected(q)
         \/ TakesQuery(q)
         \/ GetsReply(q) \/ SnapshotAborted(q) \/ CallerGone(q)
    \/ Replies \/ Samples

ProcessNext ==
    \/ Edge \/ HubTurn \/ RunReturns
    \/ Alone(Persister) \/ Alone(Cancel) \/ Alone(Terminated)

ProcessSpec == ProcessInit /\ [][ProcessNext]_processVars

(***************************************************************************)
(* Fairness.  Goroutines that can go on do, the hub's and the persister's   *)
(* selects do not pass over one ready case for ever, and shutdownGrace      *)
(* runs out.  Nothing is asked of the database: that it answers each save   *)
(* and each lookup is in StoreFairness, which only ShutdownCompletes        *)
(* assumes.                                                                 *)
(***************************************************************************)
HubFairness ==
    /\ WF_processVars(HubTurn /\ HubHandsOff)
    /\ SF_processVars(HubTurn /\ HubStops)
    /\ WF_processVars(Replies)
    /\ \A q \in Request : SF_processVars(TakesQuery(q))

EdgeFairness ==
    /\ \A l \in Listener :
         /\ WF_processVars(ServeReturns(l))
         /\ WF_processVars(DrainStarts(l))
         /\ WF_processVars(DrainEnds(l) \/ GraceEnds(l))
    /\ \A q \in Request : WF_processVars(GetsReply(q) \/ SnapshotAborted(q))
    /\ WF_processVars(RunReturns)

FairSpec == ProcessSpec /\ HubFairness /\ EdgeFairness

StoreFairness ==
    /\ \A q \in Request : WF_processVars(Admitted(q) \/ Rejected(q))
    /\ WF_processVars(Alone(SaveSucceeds \/ SaveFails))
    /\ WF_processVars(Alone(PersisterReceives))
    /\ SF_processVars(Alone(PersisterDrains))
    /\ SF_processVars(Alone(PersisterReturns))

-----------------------------------------------------------------------------
\* FR-12: when run returns no error, no request is left that would meet the
\* closed store, and no server failed: the process has exited cleanly.
CleanExit == store = "closed" /\ runErr = "none" => InFlight = {}

\* Snapshot tells the truth of some moment of the call: its total lies between
\* the messages accepted when it was called and those accepted by now, and its
\* rate is a part of the total.  Only a hub that has stopped answers zero.
AnswersAreCurrent ==
    \A q \in Request : answer[q] # NoStats =>
        \/ answer[q] = ZeroStats /\ hub = "stopped"
        \/ /\ askedAt[q] <= answer[q].total /\ answer[q].total <= Len(accepted)
           /\ answer[q].rate <= answer[q].total

\* NFR-P1: the hub always comes back to its select.  Neither a caller that goes
\* away between its query and the answer (the capacity of one in Snapshot) nor a
\* database that never answers (the default case of broadcast) holds it up.
HubReturns == Busy ~> ~Busy

\* Nobody waits for a snapshot for ever, also not across a shutdown.
SnapshotReturns == \A q \in Request : at[q] \in {"query", "wait"} ~> at[q] = "done"

\* FR-12, and the comment of main's errgroup: with a database that answers the
\* saves and the lookups, a signal or a server that fails ends in run's return,
\* with the queue drained and the store closed, also when a lookup outlasts
\* shutdownGrace or a caller is still waiting for the hub.
Ending == ctxDone \/ \E l \in Listener : listener[l] = "down"

ShutdownCompletes == StoreFairness => (Ending ~> store = "closed")
=============================================================================
