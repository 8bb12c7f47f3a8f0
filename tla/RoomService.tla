----------------------------- MODULE RoomService -----------------------------
(***************************************************************************)
(* What the hub promises, with no channels and no goroutines.  Every client *)
(* that is live and in a room is handed every message another client posts  *)
(* there, at the moment it is posted and once; or it is dropped, and then   *)
(* it leaves all its rooms at once, is handed nothing more and never comes  *)
(* back.  Module Hub implements this specification.                         *)
(***************************************************************************)
EXTENDS Naturals, Sequences

CONSTANTS Client, Room

VARIABLES
    fresh,      \* connections the service has not seen yet
    live,       \* connected clients
    in,         \* in[r]: the members of room r
    log,        \* the posts accepted so far
    got         \* got[c]: the numbers of the posts handed to c

vars == <<fresh, live, in, log, got>>

Init ==
    /\ fresh = Client
    /\ live = {}
    /\ in = [r \in Room |-> {}]
    /\ log = <<>>
    /\ got = [c \in Client |-> {}]

\* fresh and live shrink together with every room the dropped were in.
Drop(D) ==
    /\ live' = live \ D
    /\ in' = [r \in Room |-> in[r] \ D]

Connect(c) ==
    /\ c \in fresh
    /\ fresh' = fresh \ {c}
    /\ live' = live \cup {c}
    /\ UNCHANGED <<in, log, got>>

\* The service has stopped before it saw c.
Refuse(c) ==
    /\ c \in fresh
    /\ fresh' = fresh \ {c}
    /\ UNCHANGED <<live, in, log, got>>

Join(c, r) ==
    /\ c \in live
    /\ in' = [in EXCEPT ![r] = @ \cup {c}]
    /\ UNCHANGED <<fresh, live, log, got>>

Leave(c, r) ==
    /\ in' = [in EXCEPT ![r] = @ \ {c}]
    /\ UNCHANGED <<fresh, live, log, got>>

\* Post to a room somebody is in.  The sender has connected once; it need not
\* be in the room, nor still be live.
Post(c, r) ==
    /\ c \notin fresh
    /\ in[r] # {}
    /\ log' = Append(log, [room |-> r, sender |-> c])
    /\ \E D \in SUBSET (in[r] \ {c}) :
         /\ Drop(D)
         /\ got' = [d \in Client |-> IF d \in in[r] \ ({c} \cup D)
                                     THEN got[d] \cup {Len(log')} ELSE got[d]]
    /\ UNCHANGED fresh

Disconnect(c) ==
    /\ c \in live
    /\ Drop({c})
    /\ UNCHANGED <<fresh, log, got>>

Next ==
    \E c \in Client :
        \/ Connect(c) \/ Refuse(c) \/ Disconnect(c)
        \/ \E r \in Room : Join(c, r) \/ Leave(c, r) \/ Post(c, r)

Spec == Init /\ [][Next]_vars
=============================================================================
