-------------------------- MODULE SessionRegistry --------------------------
(***************************************************************************)
(* What the server's peer table promises, without slots, ages or messages: *)
(* sessions are opened under peers never used before, at most one for each *)
(* route and no more than the limit; a route moves to a new session only   *)
(* for a later attempt, and its old peer dies with it.                     *)
(***************************************************************************)
EXTENDS Naturals, FiniteSets

CONSTANTS Peer, Route, Attempt, Limit

VARIABLES
    sessions,   \* triples <<peer, route, attempt>> of the open sessions
    used        \* peers that name or named a session

registryVars == <<sessions, used>>

RegistryInit == sessions = {} /\ used = {}

Open ==
    \E p \in Peer \ used, r \in Route, a \in Attempt :
        /\ \A s \in sessions : s[2] # r
        /\ Cardinality(sessions) < Limit
        /\ sessions' = sessions \cup {<<p, r, a>>}
        /\ used' = used \cup {p}

Close ==
    \E ended \in SUBSET sessions :
        /\ sessions' = sessions \ ended
        /\ UNCHANGED used

Replace ==
    \E old \in sessions, p \in Peer \ used, a \in Attempt :
        /\ a > old[3]
        /\ sessions' = (sessions \ {old}) \cup {<<p, old[2], a>>}
        /\ used' = used \cup {p}

RegistryNext == Open \/ Close \/ Replace

RegistrySpec == RegistryInit /\ [][RegistryNext]_registryVars
=============================================================================
