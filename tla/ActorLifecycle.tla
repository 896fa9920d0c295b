--------------------------- MODULE ActorLifecycle ---------------------------
(***************************************************************************)
(* Actors with their components, and subsystems: their lifecycle guards    *)
(* and the callbacks that a world's call to one of them runs.              *)
(*                                                                         *)
(* Nothing that user code may do in a callback changes what the rest of    *)
(* the call will do (the store refuses destruction under the dispatch      *)
(* guard), so a call is an agenda fixed when it begins: the moves of the   *)
(* guards in their order, and which of them run a hook.                    *)
(***************************************************************************)
EXTENDS Naturals, Sequences, SequencesExt, FiniteSets, SequenceFilter

CONSTANTS
    ManualActors,       \* actors the application constructs itself
    TypedActors,        \* actors a deferred factory constructs
    Components,
    DefaultComponents,  \* those that constructors of typed actors create
    DefaultCounts,      \* how many of them one constructor may create
    Subsystems,
    MaxComponents       \* MaxComponentsPerActor

ASSUME LifecycleAssumption ==
    /\ \A S \in {TypedActors, Components, Subsystems} : ManualActors \cap S = {}
    /\ TypedActors \cap (Components \cup Subsystems) = {}
    /\ Components \cap Subsystems = {}
    /\ DefaultComponents \subseteq Components
    /\ DefaultCounts \subseteq Nat
    /\ MaxComponents \in Nat

VARIABLES
    lifecycle,          \* the lifecycle guard of every object
    object,             \* whether a handle to it resolves
    components,         \* the registered components of each actor
    agenda,             \* what is left of the call in progress
    inHook              \* user code of the call is running

lifecycleVars == <<lifecycle, object, components, agenda, inHook>>

Actors == ManualActors \cup TypedActors
Objects == Actors \cup Components \cup Subsystems
Phases == {"Constructed", "Playing", "Failed", "Ended"}

Steps == [of: Objects, to: Phases, hook: BOOLEAN]

LifecycleInit ==
    /\ lifecycle = [x \in Objects |-> "Constructed"]
    /\ object = [x \in Objects |->
            IF x \in TypedActors \cup DefaultComponents THEN "Unborn" ELSE "Live"]
    /\ components = [a \in Actors |-> <<>>]
    /\ agenda = <<>>
    /\ inHook = FALSE

Resolves(x) == object[x] = "Live"

(* Marked for destruction or destroyed: both no longer resolve. *)
Destroyed(dead) == [x \in Objects |-> IF x \in dead THEN "Dead" ELSE object[x]]

(***************************************************************************)
(* The construction transaction of a typed actor commits: the default      *)
(* components that its constructor created are published, then the actor.  *)
(***************************************************************************)
DefaultSubobjects ==
    LET unborn == {c \in DefaultComponents : object[c] = "Unborn"}
        lists(n) == {made \in [1..n -> unborn] :
                        \A i, j \in 1..n : made[i] = made[j] => i = j}
    IN  UNION {lists(n) : n \in DefaultCounts \cap (0..MaxComponents)}

Born(a, made) ==
    /\ object[a] = "Unborn"
    /\ object' = [x \in Objects |-> IF x \in {a} \cup ToSet(made) THEN "Live" ELSE object[x]]
    /\ components' = [components EXCEPT ![a] = made]
    /\ UNCHANGED <<lifecycle, agenda, inHook>>

\* Mutant: the components of what is destroyed are left behind.
ActorsAlone(dead) == dead

(* A destroyed actor takes its registered components along. *)
WithComponents(dead) == dead \cup UNION {ToSet(components[a]) : a \in dead}

Hook(x, phase) == [of |-> x, to |-> phase, hook |-> TRUE]
Move(x, phase) == [of |-> x, to |-> phase, hook |-> FALSE]

HasOwner(c) == \E a \in Actors : Contains(components[a], c)

(* RegisterComponent; its world adds that the store must be unlocked. *)
RegisterComponent(a, c) ==
    /\ Resolves(a) /\ lifecycle[a] = "Constructed"
    /\ Resolves(c) /\ ~HasOwner(c)
    /\ Len(components[a]) < MaxComponents
    /\ components' = [components EXCEPT ![a] = Append(@, c)]
    /\ UNCHANGED <<lifecycle, object, agenda, inHook>>

Begins(x) == Resolves(x) /\ lifecycle[x] = "Constructed"
Plays(x) == Resolves(x) /\ lifecycle[x] = "Playing"

(* The part of a sequence before its first member that is not among the able. *)
Prefix(s, able) ==
    SubSeq(s, 1, Cardinality({i \in DOMAIN s : \A j \in 1..i : s[j] \in able}))

Each(s, phase) == [i \in DOMAIN s |-> Hook(s[i], phase)]
EndEach(s) == Each(Reverse(Kept(s, {c \in Components : Plays(c)})), "Ended")

BeginFails(a) ==
    lifecycle[a] # "Constructed" \/ \E i \in DOMAIN components[a] : ~Begins(components[a][i])

\* Mutant: what had begun is left in play.
NoRollback(begun) == <<>>

(* The components that began end again, in reverse. *)
RollbackSteps(begun) == Each(Reverse(begun), "Ended")

BeginSteps(a) ==
    LET begun == Prefix(components[a], {c \in Components : Begins(c)})
    IN  IF lifecycle[a] # "Constructed" THEN <<>>
        ELSE <<Move(a, "Playing")>> \o Each(begun, "Playing") \o
             IF begun = components[a] THEN <<Hook(a, "Playing")>>
             ELSE RollbackSteps(begun) \o <<Move(a, "Failed")>>

AdvanceFails(a) ==
    lifecycle[a] # "Playing" \/ \E i \in DOMAIN components[a] : ~Plays(components[a][i])

(* Components tick before their actor; a tick that is not due runs no code. *)
AdvanceSteps(a) ==
    LET ticked == Prefix(components[a], {c \in Components : Plays(c)})
    IN  IF lifecycle[a] # "Playing" THEN <<>>
        ELSE Each(ticked, "Playing") \o
             IF ticked = components[a] THEN <<Hook(a, "Playing")>> ELSE <<>>

(* An actor ends before its components; an ended one ends again for free. *)
EndSteps(a) ==
    IF lifecycle[a] # "Playing" THEN <<>>
    ELSE <<Hook(a, "Ended")>> \o EndEach(components[a])

EndFails(a) == lifecycle[a] \notin {"Playing", "Ended"}

InitializeSteps(s) == IF Begins(s) THEN <<Hook(s, "Playing")>> ELSE <<>>
DeinitializeSteps(s) == IF Plays(s) THEN <<Hook(s, "Ended")>> ELSE <<>>

Quiet == agenda = <<>> /\ ~inHook

(* The next move of the call in progress, and its hook. *)
DispatchStep ==
    /\ ~inHook /\ agenda # <<>>
    /\ LET step == Head(agenda)
       IN  /\ lifecycle' = [lifecycle EXCEPT ![step.of] = step.to]
           /\ inHook' = step.hook
    /\ agenda' = Tail(agenda)
    /\ UNCHANGED <<object, components>>

LifecycleTypeOK ==
    /\ lifecycle \in [Objects -> Phases]
    /\ object \in [Objects -> {"Unborn", "Live", "Dead"}]
    /\ DOMAIN components = Actors
    /\ \A a \in Actors : components[a] \in Seq(Components) /\ Len(components[a]) <= MaxComponents
    /\ agenda \in Seq(Steps)
    /\ inHook \in BOOLEAN
=============================================================================
