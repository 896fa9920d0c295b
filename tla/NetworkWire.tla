---------------------------- MODULE NetworkWire ----------------------------
(***************************************************************************)
(* The protocol messages of FNetworkSystem and the route that carries      *)
(* them.  Protocol traffic is best effort: a message may be lost, delayed, *)
(* reordered and, on a route with retries, delivered more than once.       *)
(*                                                                         *)
(* Times are ages.  Handlers and calls run at the time of the latest frame *)
(* (MostRecentTimeMilliseconds), so what they stamp has age 0, and the next*)
(* PreAdvance adds the length of the frame to every age.                   *)
(***************************************************************************)
EXTENDS Naturals, FiniteSets

CONSTANTS
    Clients,        \* routes of the client devices
    Server,         \* route of the server device
    NoRoute,        \* the invalid route
    MaxPeers,       \* server peer slots (4 in the code)
    MaxAttempt,     \* largest connection attempt (2^32 - 1 in the code)
    MaxGeneration,  \* largest peer generation (2^32 - 1 in the code)
    HeartbeatInterval,
    PeerTimeout,
    FrameLengths,   \* bound: times from one PreAdvance to the next
    WireCapacity,   \* bound: messages in flight at once
    Duplicates      \* whether a delivered message may arrive again

ASSUME WireAssumption ==
    /\ Server \notin Clients
    /\ NoRoute \notin Clients \cup {Server}
    /\ MaxPeers \in Nat \ {0}
    /\ MaxAttempt \in Nat \ {0}
    /\ MaxGeneration \in Nat \ {0}
    /\ HeartbeatInterval \in Nat \ {0}
    /\ PeerTimeout \in Nat /\ PeerTimeout > HeartbeatInterval
    /\ FrameLengths \subseteq Nat
    /\ WireCapacity \in Nat \ {0}
    /\ Duplicates \in BOOLEAN

VARIABLE wire   \* the messages in flight

PeerSlots == 0..(MaxPeers - 1)
Peers == [index : PeerSlots, generation : 1..MaxGeneration]
NoPeer == [index |-> MaxPeers, generation |-> 0]
Attempts == 0..MaxAttempt

Routes == Clients \cup {Server}

MessageTypes == {"ConnectRequest", "ConnectAccepted", "RejectedVersion",
                 "RejectedFull", "Heartbeat", "Disconnect", "Routed"}

\* One shape for every schema.  The attempt of a routed message is not encoded:
\* no handler reads it, and it records the session the message was sent in.
Messages == [type : MessageTypes, from : Routes, to : Routes,
             attempt : Attempts, peer : Peers \cup {NoPeer}]

Message(type, from, to, attempt, peer) ==
    [type |-> type, from |-> from, to |-> to, attempt |-> attempt, peer |-> peer]

\* Ages beyond every deadline are one age.
Older(age, length) ==
    IF age + length > PeerTimeout THEN PeerTimeout + 1 ELSE age + length

\* Messages sent while `flying` are in flight; those without room are dropped
\* by the route, and the sender does not learn of it.
Post(flying, sent) ==
    \E accepted \in SUBSET sent :
        /\ Cardinality(flying \cup accepted) <= WireCapacity
        /\ accepted = sent \/ Cardinality(flying \cup sent) > WireCapacity
        /\ wire' = flying \cup accepted

Send(sent) == Post(wire, sent)

\* m is delivered and answered with `replies`; a duplicate may stay in flight.
Deliver(m, replies) ==
    \/ Post(wire \ {m}, replies)
    \/ Duplicates /\ Post(wire, replies)

Lose(m) == m \in wire /\ wire' = wire \ {m}
=============================================================================
