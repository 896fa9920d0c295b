---------------------------- MODULE FixedStorage ----------------------------
(***************************************************************************)
(* What a program fills without allocating: an arena with the values it    *)
(* owns by pointers, the registry of its classes, the buffer a message is  *)
(* packed into.  They share nothing, and a behaviour is about one of them. *)
(***************************************************************************)
EXTENDS SmartPointers, ClassRegistry, MessageCodec

VARIABLE subject              \* what the behaviour is about

storageVars == <<memoryVars, classVars, codecVars, subject>>

StorageInit ==
    /\ PointerInit /\ ClassInit /\ CodecInit
    /\ subject \in {"memory", "classes", "messages"}

MemoryStep ==
    /\ subject = "memory" /\ PointerNext
    /\ UNCHANGED <<classVars, codecVars, subject>>

ClassStep ==
    /\ subject = "classes"
    /\ ClassNext \/ (ClassCount = MaxClasses /\ UNCHANGED classVars)  \* full: lookups only
    /\ UNCHANGED <<memoryVars, codecVars, subject>>

MessageStep ==
    /\ subject = "messages" /\ CodecNext
    /\ UNCHANGED <<memoryVars, classVars, subject>>

StorageNext == MemoryStep \/ ClassStep \/ MessageStep

StorageSpec == StorageInit /\ [][StorageNext]_storageVars

\* Every pointer and every allocation is accounted for, at every point of every
\* destructor (SharedPtr.h:129-201, WeakPtr.h:113-130, FixedArena.h:88-132, 165-294).
MemorySound == BlocksSound /\ ArenaSound
=============================================================================
