------------------------------ MODULE MessageLog ------------------------------
(***************************************************************************)
(* What the message store promises behind the queue, the persister and the  *)
(* query, with no goroutines, tables or time stamps: a log of which some    *)
(* messages are kept, in order and for good, and the others given up, also  *)
(* for good.  Each time a client asks to join it is sent at one moment the  *)
(* latest that is kept of its room, or nothing, and while it is inside      *)
(* everything that is accepted.  Module ColdPath implements this            *)
(* specification.                                                           *)
(***************************************************************************)
EXTENDS Naturals, Sequences, FiniteSets

CONSTANTS Client, Room, HistoryLimit

VARIABLES
    log,        \* the rooms of the messages accepted so far
    kept,       \* the numbers of those that are stored
    lost,       \* the numbers of those that never will be
    open,       \* whether messages can still be kept and fetched
    room,       \* the room each client joins
    place,      \* how far each client is
    inside,     \* who is a member of its room
    frame,      \* the messages each client was sent when it last asked to join
    got         \* the messages each client was sent since it came in

logVars    == <<log, kept, lost, open>>
clientVars == <<room, place, inside, frame, got>>
vars == <<logVars, clientVars>>

Init ==
    /\ log = <<>>
    /\ kept = {} /\ lost = {}
    /\ open = TRUE
    /\ room \in [Client -> Room]
    /\ place = [c \in Client |-> "idle"]
    /\ inside = [c \in Client |-> FALSE]
    /\ frame = [c \in Client |-> {}]
    /\ got = [c \in Client |-> {}]

Accept(r) ==
    /\ log' = Append(log, r)
    /\ got' = [c \in Client |-> IF inside[c] /\ room[c] = r
                               THEN got[c] \cup {Len(log')} ELSE got[c]]
    /\ UNCHANGED <<kept, lost, open, room, place, inside, frame>>

\* Nothing is kept out of order.
Keep(n) ==
    /\ open
    /\ n \in 1..Len(log) \ lost
    /\ \A m \in kept : m < n
    /\ kept' = kept \cup {n}
    /\ UNCHANGED <<log, lost, open, clientVars>>

Lose(n) ==
    /\ n \in 1..Len(log) \ (kept \cup lost)
    /\ lost' = lost \cup {n}
    /\ UNCHANGED <<log, kept, open, clientVars>>

Close ==
    /\ open
    /\ open' = FALSE
    /\ UNCHANGED <<log, kept, lost, clientVars>>

KeptOf(r) == {m \in kept : log[m] = r}
Latest(r) == {m \in KeptOf(r) : Cardinality({n \in KeptOf(r) : n > m}) < HistoryLimit}

Fetch(c) ==
    /\ open
    /\ place[c] = "idle"
    /\ place' = [place EXCEPT ![c] = "asking"]
    /\ frame' = [frame EXCEPT ![c] = Latest(room[c])]
    /\ UNCHANGED <<logVars, room, inside, got>>

\* The fetch fails: the client goes on without, or not at all.
FetchFails(c) ==
    /\ place[c] = "idle"
    /\ \/ place' = [place EXCEPT ![c] = "asking"]
       \/ ~open /\ place' = [place EXCEPT ![c] = "panic"]
    /\ UNCHANGED <<logVars, room, inside, frame, got>>

Join(c) ==
    /\ place[c] = "asking"
    /\ place' = [place EXCEPT ![c] = "idle"]
    /\ inside' = [inside EXCEPT ![c] = TRUE] \/ UNCHANGED inside
    /\ UNCHANGED <<logVars, room, frame, got>>

Leave(c) ==
    /\ place[c] = "idle"
    /\ inside' = [inside EXCEPT ![c] = FALSE]
    /\ got' = [got EXCEPT ![c] = {}]
    /\ UNCHANGED <<logVars, room, place, frame>>

Next ==
    \/ \E r \in Room : Accept(r)
    \/ \E n \in 1..Len(log) : Keep(n) \/ Lose(n)
    \/ Close
    \/ \E c \in Client : Fetch(c) \/ FetchFails(c) \/ Join(c) \/ Leave(c)

Spec == Init /\ [][Next]_vars
=============================================================================
