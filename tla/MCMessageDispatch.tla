-------------------------- MODULE MCMessageDispatch ------------------------
(***************************************************************************)
(* Names for model checking MessageDispatch.                               *)
(***************************************************************************)
EXTENDS MessageDispatch

CONSTANTS a, b, m, n, o
=============================================================================
