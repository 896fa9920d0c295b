-------------------------- MODULE MCNetworkSession --------------------------
(***************************************************************************)
(* Devices for model checking NetworkSession.                              *)
(***************************************************************************)
EXTENDS NetworkSession

CONSTANTS c1, c2, outdated
=============================================================================
