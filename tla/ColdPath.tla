------------------------------- MODULE ColdPath -------------------------------
(***************************************************************************)
(* The way of an accepted message to durable storage and back as history:   *)
(* the cold path of broadcast (internal/hub/hub.go), the persister          *)
(* (internal/persist/persist.go), the message store (internal/store), the   *)
(* fetch of handleJoin (internal/hub/client.go) and the order in which run  *)
(* (cmd/chat/main.go) stops them.                                           *)
(*                                                                          *)
(* The goroutines are the hub, the persister, main and the read pump of     *)
(* each client that joins, leaves and joins again.  Here a frame reaches    *)
(* its client at once (module Hub has the send buffers and the disconnects) *)
(* and the sender of a message is none of the clients.                      *)
(***************************************************************************)
EXTENDS Naturals, Sequences, FiniteSets

CONSTANTS
    Client,         \* the clients that join a room
    Room,           \* the rooms
    QueueDepth,     \* persistQueueDepth
    HistoryLimit,   \* config.HistoryLimit
    MaxMessages,    \* bound of the model: messages accepted
    MaxTime         \* bound of the model: readings of the clock

ASSUME QueueDepthAssumption   == QueueDepth \in Nat \ {0}
ASSUME HistoryLimitAssumption == HistoryLimit \in Nat
ASSUME MaxMessagesAssumption  == MaxMessages \in Nat
ASSUME MaxTimeAssumption      == MaxTime \in Nat \ {0}

VARIABLES
    ctxDone,    \* gctx is cancelled
    hub,        \* "running" or "stopped"
    handing,    \* broadcast: the message to hand off next, or 0
    persister,  \* "run", "drain" or "done"
    inSave,     \* the message save is writing, or 0
    queue,      \* the channel between them, as message numbers
    store,      \* "open" or "closed"
    rows,       \* the messages table, in the order of its ids
    clock,      \* the wall clock
    target,     \* the room each client joins and leaves
    reader,     \* where each read pump is in handleJoin, or "idle"
    member,     \* who is a member of its room
    hist,       \* the history each client last fetched
    accepted,   \* history: the messages accepted, in order
    dropped,    \* history: those the cold path gave up (queue full)
    skipped,    \* history: those not handed off because ctx was done
    failed,     \* history: those SaveMessage failed on
    live,       \* history: the messages each client got live since it came in
    seen,       \* history: Len(rows) when each client last fetched
    asked,      \* history: from where each last asked for history, or "failed"
    before      \* history: what each had got live when it was sent that history

fateVars   == <<dropped, skipped, failed>>
hubVars    == <<hub, handing, accepted>>
storeVars  == <<persister, inSave, queue, store, rows>>
clientVars == <<target, reader, member, hist, live, seen, asked, before>>
vars == <<ctxDone, clock, fateVars, hubVars, storeVars, clientVars>>

Messages == 1..Len(accepted)

PathTypeOK ==
    /\ ctxDone \in BOOLEAN
    /\ hub \in {"running", "stopped"}
    /\ handing \in {0} \cup Messages
    /\ persister \in {"run", "drain", "done"}
    /\ inSave \in {0} \cup Messages
    /\ queue \in Seq(Messages) /\ Len(queue) <= QueueDepth
    /\ store \in {"open", "closed"}
    /\ rows \in Seq(Messages)
    /\ clock \in 1..MaxTime
    /\ accepted \in Seq([room : Room, time : 1..MaxTime])
    /\ dropped \subseteq Messages /\ skipped \subseteq Messages /\ failed \subseteq Messages

TypeOK ==
    /\ PathTypeOK
    /\ target \in [Client -> Room]
    /\ reader \in [Client -> {"idle", "fetched", "sent", "panic"}]
    /\ member \in [Client -> BOOLEAN]
    /\ hist \in [Client -> Seq(Messages)]
    /\ live \in [Client -> SUBSET Messages] /\ before \in [Client -> SUBSET Messages]
    /\ seen \in [Client -> Nat]
    /\ asked \in [Client -> {"never", "outside", "inside", "failed"}]

Init ==
    /\ ctxDone = FALSE
    /\ hub = "running"
    /\ handing = 0
    /\ persister = "run"
    /\ inSave = 0
    /\ queue = <<>>
    /\ store = "open"
    /\ rows = <<>>
    /\ clock = 1
    /\ target \in [Client -> Room]
    /\ reader = [c \in Client |-> "idle"]
    /\ member = [c \in Client |-> FALSE]
    /\ hist = [c \in Client |-> <<>>]
    /\ accepted = <<>>
    /\ dropped = {} /\ skipped = {} /\ failed = {}
    /\ live = [c \in Client |-> {}] /\ before = [c \in Client |-> {}]
    /\ seen = [c \in Client |-> 0]
    /\ asked = [c \in Client |-> "never"]

-----------------------------------------------------------------------------
\* RecentByRoom: the HistoryLimit latest rows of room r by (created_at, id),
\* oldest first, as message numbers.
\* Mutant of Older: without DESC.
Newer(i, j) ==
    LET t(k) == accepted[rows[k]].time
    IN  t(i) > t(j) \/ (t(i) = t(j) /\ i > j)

Older(i, j) ==
    LET t(k) == accepted[rows[k]].time
    IN  t(i) < t(j) \/ (t(i) = t(j) /\ i < j)

RecentByRoom(r) ==
    LET all    == {i \in DOMAIN rows : accepted[rows[i]].room = r}
        latest == {i \in all : Cardinality({j \in all : Older(i, j)}) < HistoryLimit}
        nth(k) == CHOOSE i \in latest :
                    Cardinality({j \in latest : Older(j, i)}) = k - 1
    IN  [k \in 1..Cardinality(latest) |-> rows[nth(k)]]

-----------------------------------------------------------------------------
\* The hub.

\* broadcast: stamp the message and deliver it to the members of its room.
HubBroadcast(r) ==
    /\ hub = "running" /\ handing = 0
    /\ Len(accepted) < MaxMessages
    /\ accepted' = Append(accepted, [room |-> r, time |-> clock])
    /\ handing' = Len(accepted')
    /\ live' = [c \in Client |-> IF member[c] /\ target[c] = r
                                THEN live[c] \cup {Len(accepted')} ELSE live[c]]
    /\ UNCHANGED <<ctxDone, clock, fateVars, hub, storeVars, target, reader, member, hist,
                   seen, asked, before>>

\* Mutant of QueueFull: one message too many.
QueueFullTooLate == Len(queue) > QueueDepth

QueueFull == Len(queue) = QueueDepth

Enqueue ==
    /\ ~QueueFull
    /\ queue' = Append(queue, handing)
    /\ UNCHANGED <<dropped, skipped>>

Skip ==
    /\ ctxDone
    /\ skipped' = skipped \cup {handing}
    /\ UNCHANGED <<queue, dropped>>

GiveUp ==
    /\ QueueFull /\ ~ctxDone
    /\ dropped' = dropped \cup {handing}
    /\ UNCHANGED <<queue, skipped>>

\* broadcast's cold path, a select: the queue has room, the context is done, or
\* neither (the default case); with both, either.
HubHandsOff ==
    /\ hub = "running" /\ handing # 0
    /\ handing' = 0
    /\ Enqueue \/ Skip \/ GiveUp
    /\ UNCHANGED <<ctxDone, clock, failed, hub, accepted, persister, inSave, store,
                   rows, clientVars>>

\* join, submitted by handleJoin after the frame; of a member it changes nothing.
\* Mutant of HubJoin: the join is taken before the frame has been sent, too.
HubJoinFirst(c) ==
    /\ hub = "running" /\ handing = 0
    /\ \/ reader[c] = "fetched" /\ UNCHANGED reader
       \/ reader[c] = "sent" /\ reader' = [reader EXCEPT ![c] = "idle"]
    /\ member' = [member EXCEPT ![c] = TRUE]
    /\ UNCHANGED <<ctxDone, clock, fateVars, hubVars, storeVars, target, hist, live, seen,
                   asked, before>>

HubJoin(c) ==
    /\ hub = "running" /\ handing = 0
    /\ reader[c] = "sent"
    /\ reader' = [reader EXCEPT ![c] = "idle"]
    /\ member' = [member EXCEPT ![c] = TRUE]
    /\ UNCHANGED <<ctxDone, clock, fateVars, hubVars, storeVars, target, hist, live, seen,
                   asked, before>>

\* leave, submitted by the read pump; of who is no member it changes nothing.
HubLeave(c) ==
    /\ hub = "running" /\ handing = 0
    /\ reader[c] = "idle" /\ member[c]
    /\ member' = [member EXCEPT ![c] = FALSE]
    /\ live' = [live EXCEPT ![c] = {}]
    /\ before' = [before EXCEPT ![c] = {}]
    /\ UNCHANGED <<ctxDone, clock, fateVars, hubVars, storeVars, target, reader, hist, seen,
                   asked>>

HubStops ==
    /\ hub = "running" /\ handing = 0
    /\ ctxDone
    /\ hub' = "stopped"
    /\ UNCHANGED <<ctxDone, clock, fateVars, handing, accepted, storeVars, clientVars>>

-----------------------------------------------------------------------------
\* The persister: Run, drain and save.

PersisterReceives ==
    /\ persister # "done" /\ inSave = 0
    /\ queue # <<>>
    /\ inSave' = Head(queue)
    /\ queue' = Tail(queue)
    /\ UNCHANGED <<ctxDone, clock, fateVars, hubVars, persister, store, rows, clientVars>>

\* SaveMessage inserts a row; its id is the next one.
SaveSucceeds ==
    /\ inSave # 0
    /\ rows' = Append(rows, inSave)
    /\ inSave' = 0
    /\ UNCHANGED <<ctxDone, clock, fateVars, hubVars, persister, queue, store, clientVars>>

\* SaveMessage fails: save logs it, and that is all.
\* Mutant of SaveFails: put back at the end of the queue, to be tried again.
SaveRetries ==
    /\ inSave # 0 /\ ~QueueFull
    /\ queue' = Append(queue, inSave)
    /\ inSave' = 0
    /\ UNCHANGED <<ctxDone, clock, fateVars, hubVars, persister, store, rows, clientVars>>

SaveFails ==
    /\ inSave # 0
    /\ failed' = failed \cup {inSave}
    /\ inSave' = 0
    /\ UNCHANGED <<ctxDone, clock, dropped, skipped, hubVars, persister, queue, store,
                   rows, clientVars>>

\* Run sees ctx.Done() between two saves, and drains.
\* Mutant of PersisterDrains: the queue is abandoned.
PersisterAbandons ==
    /\ persister = "run" /\ inSave = 0
    /\ ctxDone
    /\ persister' = "done"
    /\ queue' = <<>>
    /\ UNCHANGED <<ctxDone, clock, fateVars, hubVars, inSave, store, rows, clientVars>>

PersisterDrains ==
    /\ persister = "run" /\ inSave = 0
    /\ ctxDone
    /\ persister' = "drain"
    /\ UNCHANGED <<ctxDone, clock, fateVars, hubVars, inSave, queue, store, rows, clientVars>>

\* drain finds the queue empty and Run returns, whatever the hub still does.
PersisterReturns ==
    /\ persister = "drain" /\ inSave = 0
    /\ queue = <<>>
    /\ persister' = "done"
    /\ UNCHANGED <<ctxDone, clock, fateVars, hubVars, inSave, queue, store, rows, clientVars>>

-----------------------------------------------------------------------------
\* The read pump in handleJoin, for each join frame, of a member or not.

\* History: the query, at the moment it is answered.  It fails, or it finds the
\* store closed and dereferences the nil that Close leaves.  A failure is told
\* with an error frame, and the join goes on without history.
Fetch(c) ==
    /\ reader[c] = "idle"
    /\ \/ /\ store = "open"
          /\ reader' = [reader EXCEPT ![c] = "fetched"]
          /\ hist' = [hist EXCEPT ![c] = RecentByRoom(target[c])]
          /\ seen' = [seen EXCEPT ![c] = Len(rows)]
          /\ asked' = [asked EXCEPT ![c] = IF member[c] THEN "inside" ELSE "outside"]
       \/ /\ reader' = [reader EXCEPT ![c] = "sent"]
          /\ asked' = [asked EXCEPT ![c] = "failed"]
          /\ UNCHANGED <<hist, seen>>
       \/ /\ store = "closed"
          /\ reader' = [reader EXCEPT ![c] = "panic"]
          /\ UNCHANGED <<hist, seen, asked>>
    /\ UNCHANGED <<ctxDone, clock, fateVars, hubVars, storeVars, target, member, live, before>>

\* The history frame is enqueued, unless it is empty.
SendHistory(c) ==
    /\ reader[c] = "fetched"
    /\ reader' = [reader EXCEPT ![c] = "sent"]
    /\ before' = [before EXCEPT ![c] = live[c]]
    /\ UNCHANGED <<ctxDone, clock, fateVars, hubVars, storeVars, target, member, hist, live,
                   seen, asked>>

\* Submit gives up, for the hub has stopped.
JoinAborted(c) ==
    /\ reader[c] = "sent" /\ hub = "stopped"
    /\ reader' = [reader EXCEPT ![c] = "idle"]
    /\ UNCHANGED <<ctxDone, clock, fateVars, hubVars, storeVars, target, member, hist, live,
                   seen, asked, before>>

\* main: g.Wait has seen the hub and the persister return, and closeStore is
\* through.  (Postgres' waits for the queries under way; here those of the read
\* pumps are over in one step, and module Server has those of the requests.)
\* Mutant of MainCloses: does not wait for the persister.
MainClosesEarly ==
    /\ hub = "stopped"
    /\ store = "open"
    /\ store' = "closed"
    /\ UNCHANGED <<ctxDone, clock, fateVars, hubVars, persister, inSave, queue, rows,
                   clientVars>>

MainCloses ==
    /\ hub = "stopped" /\ persister = "done"
    /\ store = "open"
    /\ store' = "closed"
    /\ UNCHANGED <<ctxDone, clock, fateVars, hubVars, persister, inSave, queue, rows,
                   clientVars>>

Cancel ==
    /\ ~ctxDone
    /\ ctxDone' = TRUE
    /\ UNCHANGED <<clock, fateVars, hubVars, storeVars, clientVars>>

\* The wall clock, taken to never step back.
Tick ==
    /\ clock < MaxTime
    /\ clock' = clock + 1
    /\ UNCHANGED <<ctxDone, fateVars, hubVars, storeVars, clientVars>>

Terminated == store = "closed" /\ UNCHANGED vars

Hub == (\E r \in Room : HubBroadcast(r)) \/ HubHandsOff \/ HubStops
Persister ==
    \/ PersisterReceives \/ SaveSucceeds \/ SaveFails
    \/ PersisterDrains \/ PersisterReturns

Next ==
    \/ Hub \/ Persister \/ MainCloses \/ Cancel \/ Tick \/ Terminated
    \/ \E c \in Client :
         Fetch(c) \/ SendHistory(c) \/ HubJoin(c) \/ JoinAborted(c) \/ HubLeave(c)

Spec == Init /\ [][Next]_vars

-----------------------------------------------------------------------------
(***************************************************************************)
(* Safety.                                                                  *)
(***************************************************************************)
Elements(s) == {s[i] : i \in DOMAIN s}
Rising(s) == \A i, j \in DOMAIN s : i < j => s[i] < s[j]
One(n) == IF n = 0 THEN <<>> ELSE <<n>>

\* Everything that is stored or on its way, the oldest first.
Pipe == rows \o One(inSave) \o queue \o One(handing)

\* Messages reach the table in the order in which they were accepted, each
\* once: row ids and accept order agree (NFR-R5).
StoredInOrder == Rising(Pipe)

\* No accepted message disappears without a trace: it is stored, on its way,
\* or given up for one of the three reasons, and only for one (NFR-R4).
AccountedFor ==
    /\ Messages = Elements(Pipe) \cup dropped \cup skipped \cup failed
    /\ Elements(Pipe) \cap (dropped \cup skipped \cup failed) = {}
    /\ dropped \cap (skipped \cup failed) = {} /\ skipped \cap failed = {}

\* main closes the store only after the last save (the comment of its deferred
\* closeStore), although the queue may hold more by then.
NoSaveAfterClose == store = "closed" => inSave = 0 /\ persister = "done"

\* What a client sees of its room is in order and has one gap at most, between
\* history and live, however often it joins and leaves: what it gets live after a
\* history frame is newer than all of the frame; the frame comes before any live
\* message (the comment of handleJoin), except to a client that was a member when
\* it asked, to whom it may repeat some; once a client has got one message live it
\* gets all the later ones; and a frame skips nothing but what the cold path has
\* given up.
HistoryBeforeLive ==
    \A c \in Client :
        LET ours == {n \in Messages : accepted[n].room = target[c]}
        IN  /\ reader[c] # "fetched" =>
                 \A n \in live[c] \ before[c] : \A m \in Elements(hist[c]) : m < n
            /\ asked[c] = "outside" => before[c] = {}
            /\ \A n \in live[c] : \A m \in ours : m > n => m \in live[c]
            /\ \A k, m \in Elements(hist[c]) : \A n \in ours :
                 k < n /\ n < m => n \in Elements(hist[c]) \cup dropped \cup skipped \cup failed

\* FR-7: a history frame is the end of what was stored of the room when it was
\* fetched, without a gap, oldest first and HistoryLimit long when there is that
\* much; sorting by time stamp does not show in it.
HistoryIsTail ==
    \A c \in Client :
        LET log  == {m \in Elements(SubSeq(rows, 1, seen[c])) : accepted[m].room = target[c]}
            tail == {m \in log : Cardinality({n \in log : n > m}) < HistoryLimit}
        IN  Elements(hist[c]) = tail /\ Rising(hist[c])

(***************************************************************************)
(* Refinement.  A message is kept when its row is written and lost when it  *)
(* is given up; in between the promise does not know where it is.           *)
(***************************************************************************)
Log == INSTANCE MessageLog WITH
    log   <- [n \in Messages |-> accepted[n].room],
    kept  <- Elements(rows),
    lost  <- dropped \cup skipped \cup failed,
    open  <- store = "open",
    room  <- target,
    place <- [c \in Client |-> IF reader[c] \in {"fetched", "sent"} THEN "asking" ELSE reader[c]],
    inside <- member,
    frame <- [c \in Client |-> Elements(hist[c])],
    got   <- live

\* The queue, the persister, the shutdown and RecentByRoom implement MessageLog:
\* see there for what it promises.
ImplementsLog == Log!Spec

-----------------------------------------------------------------------------
(***************************************************************************)
(* What the documents claim and the code does not do.                       *)
(***************************************************************************)

\* NFR-R4: after a graceful shutdown every accepted message is stored, except
\* those the queue or the database could not take.
AcceptedSurviveShutdown ==
    store = "closed" => Messages \subseteq Elements(rows) \cup dropped \cup failed

\* FR-7: a client in the room has seen the last HistoryLimit messages of it,
\* from history or live, except those given up (or was told that the history
\* could not be loaded).
JoinSeesRecent ==
    \A c \in Client : member[c] /\ reader[c] = "idle" /\ asked[c] # "failed" =>
        \A n \in Messages \ (dropped \cup skipped \cup failed) :
            LET later == {m \in Messages : m > n /\ accepted[m].room = target[c]}
            IN  /\ accepted[n].room = target[c]
                /\ Cardinality(later) < HistoryLimit
                => n \in Elements(hist[c]) \cup live[c]
=============================================================================
