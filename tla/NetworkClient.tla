--------------------------- MODULE NetworkClient ---------------------------
(***************************************************************************)
(* FNetworkSystem in the client role: one session with the server, kept    *)
(* alive by heartbeats and dropped after a silence.                        *)
(***************************************************************************)
EXTENDS NetworkWire

CONSTANTS
    AutoConnect     \* clients configured with an initial server route

ASSUME ClientAssumption == AutoConnect \subseteq Clients

VARIABLES
    connectionState,
    serverRoute,
    serverPeer,
    currentAttempt,
    sendAge,        \* since the last connect request or heartbeat was sent
    serverAge       \* since the last valid server traffic, while connected

clientVars == <<connectionState, serverRoute, serverPeer, currentAttempt, sendAge,
                serverAge>>

ConnectionStates == {"Disconnected", "Connecting", "Connected"}

ClientInit ==
    /\ connectionState = [c \in Clients |-> "Disconnected"]
    /\ serverRoute = [c \in Clients |-> NoRoute]
    /\ serverPeer = [c \in Clients |-> NoPeer]
    /\ currentAttempt = [c \in Clients |-> 0]
    /\ sendAge = [c \in Clients |-> 0]
    /\ serverAge = [c \in Clients |-> 0]

----------------------------------------------------------------------------
\* Mutant of StartAttempt: attempts do not stop at the largest.
StartAnyAttempt(c) ==
    /\ currentAttempt' = [currentAttempt EXCEPT ![c] = @ + 1]
    /\ serverRoute' = [serverRoute EXCEPT ![c] = Server]
    /\ serverPeer' = [serverPeer EXCEPT ![c] = NoPeer]
    /\ connectionState' = [connectionState EXCEPT ![c] = "Connecting"]
    /\ sendAge' = [sendAge EXCEPT ![c] = 0]
    /\ serverAge' = [serverAge EXCEPT ![c] = 0]
    /\ Send({Message("ConnectRequest", c, Server, currentAttempt[c] + 1, NoPeer)})

\* A new attempt: whatever session the client has is forgotten without a word.
StartAttempt(c) ==
    /\ currentAttempt[c] < MaxAttempt
    /\ currentAttempt' = [currentAttempt EXCEPT ![c] = @ + 1]
    /\ serverRoute' = [serverRoute EXCEPT ![c] = Server]
    /\ serverPeer' = [serverPeer EXCEPT ![c] = NoPeer]
    /\ connectionState' = [connectionState EXCEPT ![c] = "Connecting"]
    /\ sendAge' = [sendAge EXCEPT ![c] = 0]
    /\ serverAge' = [serverAge EXCEPT ![c] = 0]
    /\ Send({Message("ConnectRequest", c, Server, currentAttempt[c] + 1, NoPeer)})

ConnectToServer(c) == StartAttempt(c)

\* The session ends here; nothing is read from the ages of an ended session.
RetireServer(c) ==
    /\ connectionState' = [connectionState EXCEPT ![c] = "Disconnected"]
    /\ serverRoute' = [serverRoute EXCEPT ![c] = NoRoute]
    /\ serverPeer' = [serverPeer EXCEPT ![c] = NoPeer]
    /\ sendAge' = [sendAge EXCEPT ![c] = 0]
    /\ serverAge' = [serverAge EXCEPT ![c] = 0]
    /\ UNCHANGED currentAttempt

SessionMessage(type, c) == Message(type, c, Server, currentAttempt[c], serverPeer[c])

DisconnectFromServer(c) ==
    /\ connectionState[c] = "Connected"
    /\ Send({SessionMessage("Disconnect", c)})
    /\ RetireServer(c)

SendToServer(c) ==
    /\ connectionState[c] = "Connected"
    /\ Send({SessionMessage("Routed", c)})
    /\ UNCHANGED clientVars

----------------------------------------------------------------------------
(* PreAdvance.                                                             *)

AutoConnectFrame(c) ==
    /\ connectionState[c] = "Disconnected"
    /\ c \in AutoConnect
    /\ StartAttempt(c)

\* Mutant of DueMessage: the request is sent only once.
HeartbeatOnly(c) == SessionMessage("Heartbeat", c)

\* A pending request is repeated, a session kept alive.
DueMessage(c) ==
    SessionMessage(IF connectionState[c] = "Connecting" THEN "ConnectRequest"
                   ELSE "Heartbeat", c)

\* Mutant of ServerSilence: judged by the client's own traffic.
SilenceSinceSend(c, length) == Older(sendAge[c], length)

ServerSilence(c, length) == Older(serverAge[c], length)

\* A frame of a client with a session or an attempt: what is due is sent first,
\* then silence is judged.
SessionFrame(c, length) ==
    LET due == Older(sendAge[c], length) >= HeartbeatInterval
        silence == ServerSilence(c, length)
    IN
    /\ connectionState[c] # "Disconnected"
    /\ Send(IF due THEN {DueMessage(c)} ELSE {})
    /\ IF connectionState[c] = "Connected" /\ silence > PeerTimeout
       THEN RetireServer(c)
       ELSE /\ sendAge' = [sendAge EXCEPT ![c] = IF due THEN 0 ELSE Older(@, length)]
            /\ serverAge' = [serverAge EXCEPT ![c] =
                                IF connectionState[c] = "Connected" THEN silence ELSE 0]
            /\ UNCHANGED <<connectionState, serverRoute, serverPeer, currentAttempt>>

----------------------------------------------------------------------------
(* Messages from the server.                                               *)

\* Mutant of IsAdmission: an answer to any attempt counts.
IsLateAdmission(c, m) ==
    /\ connectionState[c] = "Connecting"
    /\ m.from = serverRoute[c]
    /\ m.peer # NoPeer

\* Admission of the pending attempt.
IsAdmission(c, m) ==
    /\ connectionState[c] = "Connecting"
    /\ m.from = serverRoute[c]
    /\ m.attempt = currentAttempt[c]
    /\ m.peer # NoPeer

HandleConnectAccepted(c, m) ==
    /\ m.type = "ConnectAccepted"
    /\ IF IsAdmission(c, m)
       THEN /\ connectionState' = [connectionState EXCEPT ![c] = "Connected"]
            /\ serverPeer' = [serverPeer EXCEPT ![c] = m.peer]
            /\ sendAge' = [sendAge EXCEPT ![c] = 0]
            /\ serverAge' = [serverAge EXCEPT ![c] = 0]
            /\ UNCHANGED <<serverRoute, currentAttempt>>
       ELSE UNCHANGED clientVars

\* A full server is asked again; any other refusal ends the attempt.
HandleConnectRejected(c, m) ==
    /\ m.type \in {"RejectedVersion", "RejectedFull"}
    /\ IF /\ connectionState[c] = "Connecting"
          /\ m.from = serverRoute[c]
          /\ m.attempt = currentAttempt[c]
          /\ m.type # "RejectedFull"
       THEN RetireServer(c)
       ELSE UNCHANGED clientVars

IsFromSession(c, m) ==
    /\ connectionState[c] = "Connected"
    /\ m.from = serverRoute[c]
    /\ m.peer = serverPeer[c]
    /\ m.type # "Routed" => m.attempt = currentAttempt[c]

ClientHandleTraffic(c, m) ==
    /\ m.type \in {"Heartbeat", "Routed"}
    /\ serverAge' = IF IsFromSession(c, m) THEN [serverAge EXCEPT ![c] = 0] ELSE serverAge
    /\ UNCHANGED <<connectionState, serverRoute, serverPeer, currentAttempt, sendAge>>

ClientHandleDisconnect(c, m) ==
    /\ m.type = "Disconnect"
    /\ IF IsFromSession(c, m) THEN RetireServer(c) ELSE UNCHANGED clientVars

ClientReceive(c, m) ==
    /\ m \in wire
    /\ m.to = c
    /\ \/ HandleConnectAccepted(c, m)
       \/ HandleConnectRejected(c, m)
       \/ ClientHandleTraffic(c, m)
       \/ ClientHandleDisconnect(c, m)
    /\ Deliver(m, {})

----------------------------------------------------------------------------
\* EndPlay and a new program: the session is dropped without a word and attempts
\* count from zero again.
RestartClient(c) ==
    /\ connectionState' = [connectionState EXCEPT ![c] = "Disconnected"]
    /\ serverRoute' = [serverRoute EXCEPT ![c] = NoRoute]
    /\ serverPeer' = [serverPeer EXCEPT ![c] = NoPeer]
    /\ currentAttempt' = [currentAttempt EXCEPT ![c] = 0]
    /\ sendAge' = [sendAge EXCEPT ![c] = 0]
    /\ serverAge' = [serverAge EXCEPT ![c] = 0]
=============================================================================
