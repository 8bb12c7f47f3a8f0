--------------------------------- MODULE Bus ---------------------------------
(***************************************************************************)
(* LocalBus (internal/bus/bus.go), the seam between publishing and delivery.*)
(* Publishers, subscribers, and for each subscription the goroutine that    *)
(* waits for its context share the set of subscribers under a mutex, and a  *)
(* bounded channel per subscription.  Subscribe's critical section is one   *)
(* map assignment and one step; Publish sends channel by channel while it   *)
(* holds the lock, and the consumers, who need no lock, receive meanwhile;  *)
(* the goroutine closes the channel after it has released the lock.         *)
(***************************************************************************)
EXTENDS Naturals, Sequences

CONSTANTS
    Publisher,      \* goroutines that call Publish
    Subscription,   \* the calls of Subscribe, each with its own context
    Buffer,         \* the capacity of a subscription's channel
    MaxMessages     \* bound of the model: messages published

ASSUME BufferAssumption      == Buffer \in Nat \ {0}
ASSUME MaxMessagesAssumption == MaxMessages \in Nat

VARIABLES
    mu,             \* the publishers inside the mutex
    subscribers,    \* b.subscribers
    message,        \* Publish: the number of the message it sends, or 0
    todo,           \* Publish: the channels its loop has yet to visit
    published,      \* messages published so far, numbered as they enter the loop
    state,          \* each subscription: "new", "active", "cancelled",
                    \* "removed" (from the map), "closed"
    chan,           \* the messages in each channel
    got,            \* history: what each consumer received
    missed,         \* history: messages skipped at each full channel
    since,          \* history: published when each subscription was added
    panicked        \* a send on a closed channel

ghosts   == <<got, missed, since>>
loopVars == <<mu, message, todo, published>>
vars     == <<loopVars, subscribers, state, chan, ghosts, panicked>>

TypeOK ==
    /\ mu \subseteq Publisher
    /\ subscribers \subseteq Subscription
    /\ message \in [Publisher -> 0..MaxMessages]
    /\ todo \in [Publisher -> SUBSET Subscription]
    /\ published \in 0..MaxMessages
    /\ state \in [Subscription -> {"new", "active", "cancelled", "removed", "closed"}]
    /\ chan \in [Subscription -> Seq(1..MaxMessages)]
    /\ \A s \in Subscription : Len(chan[s]) <= Buffer
    /\ got \in [Subscription -> Seq(1..MaxMessages)]
    /\ missed \in [Subscription -> SUBSET (1..MaxMessages)]
    /\ since \in [Subscription -> 0..MaxMessages]
    /\ panicked \in BOOLEAN

Init ==
    /\ mu = {}
    /\ subscribers = {}
    /\ message = [p \in Publisher |-> 0]
    /\ todo = [p \in Publisher |-> {}]
    /\ published = 0
    /\ state = [s \in Subscription |-> "new"]
    /\ chan = [s \in Subscription |-> <<>>]
    /\ got = [s \in Subscription |-> <<>>]
    /\ missed = [s \in Subscription |-> {}]
    /\ since = [s \in Subscription |-> 0]
    /\ panicked = FALSE

-----------------------------------------------------------------------------
\* What Publish does once it has the lock: start over the subscribers.
Enter(p) ==
    /\ published < MaxMessages
    /\ mu' = mu \cup {p}
    /\ published' = published + 1
    /\ message' = [message EXCEPT ![p] = published']
    /\ todo' = [todo EXCEPT ![p] = subscribers]
    /\ UNCHANGED <<subscribers, state, chan, ghosts, panicked>>

\* Mutant of PublishLock: the read lock of an RWMutex, which the loop, a reader
\* of the map, seems to be content with.
PublishRLock(p) == p \notin mu /\ Enter(p)

PublishLock(p) == mu = {} /\ Enter(p)

\* Mutant of ChannelFull: one message too many.
ChannelFullTooLate(s) == Len(chan[s]) > Buffer

ChannelFull(s) == Len(chan[s]) = Buffer

\* Mutant of PublishSend: the first full channel ends the loop.
PublishStopsAtFull(p) ==
    /\ p \in mu
    /\ \E s \in todo[p] :
         /\ todo' = [todo EXCEPT ![p] = IF ChannelFull(s) THEN {} ELSE @ \ {s}]
         /\ chan' = IF ChannelFull(s) THEN chan
                    ELSE [chan EXCEPT ![s] = Append(@, message[p])]
    /\ UNCHANGED <<mu, message, published, subscribers, state, ghosts, panicked>>

\* One turn of the loop: a non-blocking send to one more subscriber.
PublishSend(p) ==
    /\ p \in mu
    /\ \E s \in todo[p] :
         /\ todo' = [todo EXCEPT ![p] = @ \ {s}]
         /\ panicked' = (state[s] = "closed")
         /\ IF ChannelFull(s)
            THEN /\ missed' = [missed EXCEPT ![s] = @ \cup {message[p]}]
                 /\ UNCHANGED chan
            ELSE /\ chan' = [chan EXCEPT ![s] = Append(@, message[p])]
                 /\ UNCHANGED missed
    /\ UNCHANGED <<mu, message, published, subscribers, state, got, since>>

\* The deferred Unlock.
PublishUnlock(p) ==
    /\ p \in mu
    /\ todo[p] = {}
    /\ mu' = mu \ {p}
    /\ message' = [message EXCEPT ![p] = 0]
    /\ UNCHANGED <<todo, published, subscribers, state, chan, ghosts, panicked>>

Subscribe(s) ==
    /\ mu = {}
    /\ state[s] = "new"
    /\ state' = [state EXCEPT ![s] = "active"]
    /\ subscribers' = subscribers \cup {s}
    /\ since' = [since EXCEPT ![s] = published]
    /\ UNCHANGED <<loopVars, chan, got, missed, panicked>>

\* The context of the subscription is cancelled.
Cancel(s) ==
    /\ state[s] = "active"
    /\ state' = [state EXCEPT ![s] = "cancelled"]
    /\ UNCHANGED <<loopVars, subscribers, chan, ghosts, panicked>>

\* Mutant of Deregister: without the lock.
DeregisterUnlocked(s) ==
    /\ state[s] = "cancelled"
    /\ subscribers' = subscribers \ {s}
    /\ state' = [state EXCEPT ![s] = "removed"]
    /\ UNCHANGED <<loopVars, chan, ghosts, panicked>>

\* The goroutine of the subscription removes the channel under the lock ...
Deregister(s) ==
    /\ mu = {}
    /\ state[s] = "cancelled"
    /\ subscribers' = subscribers \ {s}
    /\ state' = [state EXCEPT ![s] = "removed"]
    /\ UNCHANGED <<loopVars, chan, ghosts, panicked>>

\* Mutant of Close: the goroutine ends without it.
CloseNever(s) == FALSE

\* ... and closes it after the unlock.
Close(s) ==
    /\ state[s] = "removed"
    /\ state' = [state EXCEPT ![s] = "closed"]
    /\ UNCHANGED <<loopVars, subscribers, chan, ghosts, panicked>>

\* The delivery loop of the subscriber, which also drains a closed channel.
Receive(s) ==
    /\ chan[s] # <<>>
    /\ got' = [got EXCEPT ![s] = Append(@, Head(chan[s]))]
    /\ chan' = [chan EXCEPT ![s] = Tail(@)]
    /\ UNCHANGED <<loopVars, subscribers, state, missed, since, panicked>>

Publish(p) == PublishLock(p) \/ PublishSend(p) \/ PublishUnlock(p)

Next ==
    /\ ~panicked
    /\ \/ \E p \in Publisher : Publish(p)
       \/ \E s \in Subscription :
            Subscribe(s) \/ Cancel(s) \/ Deregister(s) \/ Close(s) \/ Receive(s)

Spec == Init /\ [][Next]_vars

\* A publisher inside the lock goes on, and a mutex is not kept for ever from
\* one goroutine that waits for it.  Consumers and cancellations are free.
Fairness ==
    /\ \A p \in Publisher : WF_vars(~panicked /\ (PublishSend(p) \/ PublishUnlock(p)))
    /\ \A s \in Subscription : SF_vars(~panicked /\ Deregister(s)) /\ WF_vars(~panicked /\ Close(s))

FairSpec == Spec /\ Fairness

-----------------------------------------------------------------------------
\* Sends and the close of a channel are serialized by mu, although the close is
\* after the unlock (the comment in Subscribe): no send on a closed channel.
NoSendOnClosed == ~panicked

\* The channel of everybody still to be visited is in the map and open.
LoopSeesOpenChannels ==
    /\ \A p \in Publisher : todo[p] # {} => p \in mu /\ todo[p] \subseteq subscribers
    /\ \A s \in subscribers : state[s] \in {"active", "cancelled"}

\* Every consumer receives in the order of publication, so that two of them
\* never disagree on the order of two messages.
InOrder ==
    \A s \in Subscription :
        LET all == got[s] \o chan[s]
        IN  \A i, j \in DOMAIN all : i < j => all[i] < all[j]

\* A subscriber is served or skipped for its own full channel, message by
\* message, from its Subscribe to its removal (NFR-R2); what is missing yet is
\* with a publisher that has the channel still before it.
Elements(q) == {q[i] : i \in DOMAIN q}
Due(s) == {message[p] : p \in {q \in Publisher : s \in todo[q]}}

ServedOrSkipped ==
    \A s \in subscribers :
        /\ Elements(got[s] \o chan[s]) \cup missed[s] = ((since[s] + 1)..published) \ Due(s)
        /\ Elements(got[s] \o chan[s]) \cap missed[s] = {}

\* NFR-R1: a cancelled subscription's channel is closed in the end.
CancelledIsClosed ==
    \A s \in Subscription : state[s] = "cancelled" ~> state[s] = "closed"
=============================================================================
