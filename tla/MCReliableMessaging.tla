------------------------ MODULE MCReliableMessaging ------------------------
(***************************************************************************)
(* Devices and channels for model checking ReliableMessaging.              *)
(***************************************************************************)
EXTENDS ReliableMessaging

CONSTANTS sender, receiver, a, b
=============================================================================
