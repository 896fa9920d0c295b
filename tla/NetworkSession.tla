--------------------------- MODULE NetworkSession ---------------------------
(***************************************************************************)
(* Clients and a server of FNetworkSystem on an unreliable route.          *)
(***************************************************************************)
EXTENDS NetworkClient, NetworkServer

vars == <<wire, clientVars, slots>>

Init == wire = {} /\ ClientInit /\ ServerInit

ClientStep(c) ==
    \/ ConnectToServer(c)
    \/ DisconnectFromServer(c)
    \/ SendToServer(c)
    \/ AutoConnectFrame(c)
    \/ \E length \in FrameLengths : SessionFrame(c, length)
    \/ \E m \in wire : ClientReceive(c, m)
    \/ RestartClient(c) /\ UNCHANGED wire

ServerStep ==
    \/ \E m \in wire : ServerReceive(m)
    \/ \E i \in PeerSlots : DisconnectPeer(i) \/ SendTo(i)
    \/ Broadcast
    \/ \E length \in FrameLengths : ServerFrame(length)

LoseMessage == \E m \in wire : Lose(m) /\ UNCHANGED <<clientVars, slots>>

Next ==
    \/ \E c \in Clients : ClientStep(c) /\ UNCHANGED slots
    \/ ServerStep /\ UNCHANGED clientVars
    \/ LoseMessage

Spec == Init /\ [][Next]_vars

\* Fairness: devices are ticked for ever and time advances; a client's repeated
\* request sometimes finds room on the route, and a request or an answer of the
\* pending attempt that is sent for ever is sometimes delivered.
ServerTicks ==
    \E length \in FrameLengths : length > 0 /\ ServerFrame(length) /\ UNCHANGED clientVars

ClientTicks(c) ==
    \E length \in FrameLengths : length > 0 /\ SessionFrame(c, length) /\ UNCHANGED slots

PendingRequest(c) == Message("ConnectRequest", c, Server, currentAttempt[c], NoPeer)

RequestSent(c) ==
    /\ connectionState[c] = "Connecting"
    /\ ClientTicks(c)
    /\ PendingRequest(c) \in wire'

RequestArrives(c) ==
    /\ connectionState[c] = "Connecting"
    /\ ServerReceive(PendingRequest(c))
    /\ UNCHANGED clientVars

AnswerArrives(c) ==
    /\ connectionState[c] = "Connecting"
    /\ \E m \in wire :
        /\ m.attempt = currentAttempt[c]
        /\ m.type \in {"ConnectAccepted", "RejectedVersion"}
        /\ ClientReceive(c, m)
    /\ UNCHANGED slots

RouteMoves == \E m \in wire : Lose(m) /\ UNCHANGED <<clientVars, slots>>

FairSpec ==
    /\ Spec
    /\ WF_vars(ServerTicks)
    /\ WF_vars(RouteMoves)
    /\ \A c \in Clients :
        /\ WF_vars(ClientTicks(c))
        /\ SF_vars(RequestSent(c))
        /\ SF_vars(RequestArrives(c))
        /\ SF_vars(AnswerArrives(c))

----------------------------------------------------------------------------
(* Properties.                                                             *)

SlotType == [occupied : BOOLEAN, retired : BOOLEAN, generation : 0..MaxGeneration,
             route : Clients \cup {NoRoute}, attempt : Attempts,
             activityAge : 0..(PeerTimeout + 1), heartbeatAge : 0..(PeerTimeout + 1)]

\* Types of both roles (NetworkSystem.h:196-217, 318-344).
TypeOK ==
    /\ wire \subseteq Messages
    /\ connectionState \in [Clients -> ConnectionStates]
    /\ serverRoute \in [Clients -> {Server, NoRoute}]
    /\ serverPeer \in [Clients -> Peers \cup {NoPeer}]
    /\ currentAttempt \in [Clients -> Attempts]
    /\ sendAge \in [Clients -> 0..(PeerTimeout + 1)]
    /\ serverAge \in [Clients -> 0..(PeerTimeout + 1)]
    /\ slots \in [PeerSlots -> SlotType]

\* The session of peer p is over: its slot has moved on, or is worn out.
Ended(p) ==
    \/ slots[p.index].generation > p.generation
    \/ /\ slots[p.index].generation = p.generation
       /\ slots[p.index].retired /\ ~slots[p.index].occupied

\* The server holds the session of peer p for client c and attempt a.
Held(p, c, a) ==
    /\ slots[p.index].generation = p.generation
    /\ slots[p.index].occupied
    /\ slots[p.index].route = c
    /\ slots[p.index].attempt = a

\* A connected client and the server agree on the session, or the server has
\* ended it: no loss, delay, duplicate, reconnect or restarted client gives a
\* client another's peer or an ended session's peer back
\* (NetworkSystem.cpp:351-440).
SessionsAgree ==
    \A c \in Clients : connectionState[c] = "Connected" =>
        /\ serverPeer[c] \in Peers
        /\ Ended(serverPeer[c]) \/ Held(serverPeer[c], c, currentAttempt[c])

\* "It and the live route must match every heartbeat, disconnect, and routed
\* message" (ADR 0015): what the server takes for traffic of a session was sent in
\* that session's attempt.  Routed messages carry no attempt; the peer stands for
\* it (NetworkSystem.cpp:442-522).
TrafficMatchesAttempt ==
    \A m \in wire, i \in PeerSlots :
        m.to = Server /\ m.type = "Routed" /\ IsSessionOf(i, m)
            => m.attempt = slots[i].attempt

Registry == INSTANCE SessionRegistry WITH
    Peer <- Peers, Route <- Clients, Attempt <- Attempts, Limit <- MaximumAdmitted,
    sessions <- {<<PeerOf(i), slots[i].route, slots[i].attempt>> : i \in Admitted},
    used <- {p \in Peers : Ended(p) \/ (slots[p.index].occupied /\ p = PeerOf(p.index))}

\* The peer table implements the session registry: a peer names one session of
\* one route and attempt for ever, and a route's attempts only advance while it
\* is admitted.
RegistryRefinement == Registry!RegistrySpec

\* Half-open sessions end: a session whose client restarted, reconnected or gave
\* up is retired by the server unless the client resumes it
\* (NetworkSystem.cpp:278-293).
AbandonedSessionsEnd ==
    \A i \in PeerSlots, p \in Peers, c \in Clients :
        (slots[i].occupied /\ PeerOf(i) = p /\ slots[i].route = c)
            ~> (PeerOf(i) # p \/ ~slots[i].occupied \/ serverPeer[c] = p)

\* A client leaves a session the server has ended, even when every message that
\* would tell it is lost (NetworkSystem.cpp:271-275).
DeadSessionsEnd ==
    \A p \in Peers, c \in Clients :
        (serverPeer[c] = p /\ Ended(p))
            ~> serverPeer[c] # p

\* An attempt ends in admission or refusal whatever requests and answers are lost,
\* also when the client restarted and counts attempts from zero, unless the slots
\* are worn out or taken by others (NetworkSystem.cpp:239-270, 351-440).
AttemptsEnd ==
    \A c \in Clients :
        connectionState[c] = "Connecting"
            ~> \/ connectionState[c] # "Connecting"
               \/ \A i \in PeerSlots : slots[i].retired
               \/ \E i \in Admitted : slots[i].route # c
=============================================================================
