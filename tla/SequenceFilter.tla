--------------------------- MODULE SequenceFilter ---------------------------
(***************************************************************************)
(* The arrays of the code are compacted in place: what is kept moves up,   *)
(* in the order in which it was.  This is SelectSeq with a set for its     *)
(* test, defined by position so that it can be reasoned about.             *)
(***************************************************************************)
EXTENDS Naturals, Sequences, FiniteSets

(* How many of the first i entries are kept. *)
CountKept(s, keep, i) == Cardinality({j \in 1..i : s[j] \in keep})

(* Where the k-th of the kept entries is. *)
PlaceOf(s, keep, k) ==
    CHOOSE i \in 1..Len(s) : s[i] \in keep /\ CountKept(s, keep, i) = k

Kept(s, keep) == [k \in 1..CountKept(s, keep, Len(s)) |-> s[PlaceOf(s, keep, k)]]

Without(s, x) == Kept(s, {s[i] : i \in 1..Len(s)} \ {x})
=============================================================================
