------------------------- MODULE MCGarbageCollector -------------------------
(***************************************************************************)
(* The collector with a memory of what was garbage when its cycle began,   *)
(* and the bound under which TLC checks it.                                *)
(***************************************************************************)
EXTENDS GarbageCollector

CONSTANT MaxObjects         \* bound on the objects published in a behaviour

VARIABLE garbageAtRequest   \* objects unreachable when the cycle was requested

Unreachable == LiveHandles \ Heap!Reachable

MCInit == Init /\ garbageAtRequest = {}

RemembersGarbage ==
    garbageAtRequest' = IF phase = "Idle" /\ phase' = "SeedRoots"
                        THEN Unreachable
                        ELSE IF phase' = "Idle" THEN {}
                        ELSE garbageAtRequest

CycleSpec == MCInit /\ [][Next /\ RemembersGarbage]_<<vars, garbageAtRequest>>

MCSpec ==
    /\ MCInit
    /\ [][/\ Next /\ RemembersGarbage
          /\ Cardinality(IssuedHandles') <= MaxObjects]_<<vars, garbageAtRequest>>

\* A completed cycle has reclaimed everything that was unreachable when it was
\* requested: nothing is kept by a mark or a queue entry an earlier cycle,
\* cancelled or completed, left behind (GarbageCollector.cpp:109-113, 279-317,
\* 401-428).
CycleReclaimsGarbage ==
    [][EndSweep /\ ~rewired => \A h \in garbageAtRequest : ~Resolves(h)]_<<vars, garbageAtRequest>>
=============================================================================
