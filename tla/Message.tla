------------------------------- MODULE Message -------------------------------
(***************************************************************************)
(* The wire vocabulary of the chat server (internal/message/message.go)     *)
(* and the requests a read pump makes of the hub (type command in           *)
(* internal/hub/hub.go).  Texts, user names and time stamps are left out: a *)
(* message is known by its number in the order in which the hub accepted    *)
(* it, a client by its connection, a member list by the set of its members. *)
(***************************************************************************)
EXTENDS Naturals, Sequences

CONSTANTS
    Client,     \* the connections (*Client values) the process ever serves
    Room,       \* the room names the clients use
    NoClient    \* a value that is no connection

ASSUME ClientAssumption == NoClient \notin Client

\* The frames the server puts into a send buffer.  The server never sends
\* another type: join and leave only travel towards it.
MessageFrames  == [type : {"message"}, room : Room, id : Nat]
PresenceFrames == [type : {"presence"}, room : Room, members : SUBSET Client]
ReplyFrames    == [type : {"history", "error"}, room : Room]

Frame == MessageFrames \cup PresenceFrames \cup ReplyFrames

MessageFrame(r, n)  == [type |-> "message", room |-> r, id |-> n]
PresenceFrame(r, M) == [type |-> "presence", room |-> r, members |-> M]
ReplyFrame(t, r)    == [type |-> t, room |-> r]

\* What a read pump can ask of the hub; the sender is the pump's own client.
Command   == [kind : {"join", "leave", "message"}, room : Room]
NoCommand == [kind |-> "none"]
=============================================================================
