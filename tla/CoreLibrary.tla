---------------------------- MODULE CoreLibrary ----------------------------
(***************************************************************************)
(* The core library side by side: the callbacks and ticks of Callbacks,    *)
(* and the fixed storage of FixedStorage.  The two parts share nothing, so *)
(* a behaviour steps one of them and leaves the other as it began.         *)
(***************************************************************************)
EXTENDS Callbacks, FixedStorage

VARIABLE part               \* the part of the library the behaviour steps

coreVars == <<vars, storageVars, part>>

CoreInit ==
    /\ Init
    /\ StorageInit
    /\ \/ part = "callbacks" /\ subject = "memory"
       \/ part = "storage" /\ about = "ticks" /\ ~tick.bCanEverTick /\ tick.interval = 0

CallbacksPart == part = "callbacks" /\ Next /\ UNCHANGED <<storageVars, part>>

StoragePart == part = "storage" /\ StorageNext /\ UNCHANGED <<vars, part>>

CoreNext == CallbacksPart \/ StoragePart

\* A storage operation runs to its end in its caller, who owes it nothing: what
\* is fair is the timers and the delegate, which only the callbacks part steps.
CoreSpec == CoreInit /\ [][CoreNext]_coreVars /\ Fairness
=============================================================================
