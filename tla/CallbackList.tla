---------------------------- MODULE CallbackList ----------------------------
(***************************************************************************)
(* What a table of callbacks promises its owner: the callbacks are called  *)
(* in the order they were entered; while a walk calls them the table is    *)
(* closed to its owner, so a walk meets exactly the callbacks entered when *)
(* it began, each of them at most once; and a callback leaves the table    *)
(* only when its owner takes it out or, where callbacks may complete, at   *)
(* the end of its own call.                                                *)
(*                                                                         *)
(* TimerManager (a walk is Advance) and MulticastDelegate (a walk is       *)
(* Broadcast) both implement it.                                           *)
(***************************************************************************)
EXTENDS Naturals, Sequences, SequencesExt, SequenceFilter

CONSTANTS
    Callbacks,      \* the callables
    NoCallback,     \* not one of them
    Selective       \* a walk may pass over entries, and a call may be the last

VARIABLES
    entered,        \* the callbacks in the table, oldest first
    walking,        \* a walk is under way
    ahead,          \* what the walk has still to visit
    running         \* the callback the walk is in

vars == <<entered, walking, ahead, running>>

TypeOK ==
    /\ entered \in Seq(Callbacks)
    /\ walking \in BOOLEAN
    /\ ahead \in Seq(Callbacks)
    /\ running \in Callbacks \cup {NoCallback}

Init == entered = <<>> /\ walking = FALSE /\ ahead = <<>> /\ running = NoCallback

Enter(c) ==
    /\ ~walking /\ ~Contains(entered, c)
    /\ entered' = Append(entered, c)
    /\ UNCHANGED <<walking, ahead, running>>

TakeOut(c) ==
    /\ ~walking /\ Contains(entered, c)
    /\ entered' = Without(entered, c)
    /\ UNCHANGED <<walking, ahead, running>>

BeginWalk ==
    /\ ~walking
    /\ walking' = TRUE /\ ahead' = entered
    /\ UNCHANGED <<entered, running>>

PassOver ==
    /\ Selective
    /\ walking /\ running = NoCallback /\ ahead # <<>>
    /\ ahead' = Tail(ahead)
    /\ UNCHANGED <<entered, walking, running>>

Call ==
    /\ walking /\ running = NoCallback /\ ahead # <<>>
    /\ running' = Head(ahead) /\ ahead' = Tail(ahead)
    /\ UNCHANGED <<entered, walking>>

Return ==
    /\ running # NoCallback
    /\ running' = NoCallback
    /\ entered' \in {entered} \cup (IF Selective THEN {Without(entered, running)} ELSE {})
    /\ UNCHANGED <<walking, ahead>>

EndWalk ==
    /\ walking /\ running = NoCallback /\ ahead = <<>>
    /\ walking' = FALSE
    /\ UNCHANGED <<entered, ahead, running>>

Next ==
    \/ \E c \in Callbacks : Enter(c) \/ TakeOut(c)
    \/ BeginWalk \/ PassOver \/ Call \/ Return \/ EndWalk

Spec == Init /\ [][Next]_vars
=============================================================================
