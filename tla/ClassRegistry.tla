---------------------------- MODULE ClassRegistry ----------------------------
(***************************************************************************)
(* TClassRegistry: the classes an application registers by an id of its    *)
(* own, or lets the library register on first use under an automatic id.   *)
(* Descriptors are never moved or removed, so that others keep pointers to *)
(* them: a pointer is the place of a descriptor in the registry.  A        *)
(* registration that is refused changes nothing and is no step.            *)
(***************************************************************************)
EXTENDS Naturals, SequencesExt

CONSTANTS
    MaxClasses,
    Types,                  \* the C++ types, by their type tokens
    TypeIdCount,            \* how many ids a FTypeId tells apart (2^32), 0 among them
    FirstAutomaticTypeId,
    BaseTypeIds             \* ids of the engine's own classes, parents of automatic ones

ASSUME RegistryAssumption ==
    /\ MaxClasses \in Nat \ {0}
    /\ FirstAutomaticTypeId \in Nat \ {0}
    /\ TypeIdCount \in Nat /\ TypeIdCount - FirstAutomaticTypeId >= MaxClasses
    /\ BaseTypeIds \subseteq 1..(FirstAutomaticTypeId - 1)

VARIABLES
    registeredClasses,      \* RegisteredClasses, as many as are registered
    nextAutomaticTypeId

classVars == <<registeredClasses, nextAutomaticTypeId>>

NoParent == 0
ForeignCopy == MaxClasses + 1   \* the address of a descriptor that is not the registry's own
TypeIds == 0..(TypeIdCount - 1)

Descriptors == [TypeId : TypeIds, TypeToken : Types, Parent : NoParent..ForeignCopy]

ClassInit == registeredClasses = <<>> /\ nextAutomaticTypeId = FirstAutomaticTypeId

ClassCount == Len(registeredClasses)

\* The place of the first descriptor with this id or this token, or 0.
Find(id) == SelectInSeq(registeredClasses, LAMBDA d : d.TypeId = id)
FindByTypeToken(token) == SelectInSeq(registeredClasses, LAMBDA d : d.TypeToken = token)

\* The parent is the registry's own descriptor: its chain was valid when it came.
HasValidParentChain(d) == d.Parent \in NoParent..ClassCount

Stored(d) == registeredClasses' = Append(registeredClasses, d)

Register(d) ==
    /\ d.TypeId # 0 /\ Find(d.TypeId) = 0
    /\ HasValidParentChain(d)
    /\ ClassCount < MaxClasses
    /\ Stored(d)
    /\ UNCHANGED nextAutomaticTypeId

\* The id a probe meets k probes from now: the cursor steps over 0 at its wrap.
AutomaticCandidate(k) ==
    FirstAutomaticTypeId
        + (((nextAutomaticTypeId - FirstAutomaticTypeId) + k)
              % (TypeIdCount - FirstAutomaticTypeId))

\* Probes that do not look whether the id is taken.
AnyProbe == 0..(MaxClasses - 1)

FreeProbes == {k \in 0..(MaxClasses - 1) : Find(AutomaticCandidate(k)) = 0}

AllocateAutomaticTypeId ==
    IF FreeProbes = {} THEN [id |-> 0, cursor |-> AutomaticCandidate(MaxClasses)]
    ELSE LET k == CHOOSE k \in FreeProbes : \A j \in FreeProbes : k <= j
         IN  [id |-> AutomaticCandidate(k), cursor |-> AutomaticCandidate(k + 1)]

\* A type that has a descriptor keeps it.
RegisterAutomatic(d) ==
    /\ FindByTypeToken(d.TypeToken) = 0
    /\ d.TypeId = 0
    /\ HasValidParentChain(d)
    /\ ClassCount < MaxClasses
    /\ nextAutomaticTypeId' = AllocateAutomaticTypeId.cursor
    /\ IF AllocateAutomaticTypeId.id = 0
       THEN UNCHANGED registeredClasses
       ELSE Stored([d EXCEPT !.TypeId = AllocateAutomaticTypeId.id])

\* A factory or an actor's constructor uses a type: as a child of its engine base.
Resolve(token, base) ==
    /\ Find(base) # 0
    /\ RegisterAutomatic([TypeId |-> 0, TypeToken |-> token, Parent |-> Find(base)])

ClassNext ==
    \/ \E d \in Descriptors : d.Parent \in 0..ClassCount \cup {ForeignCopy}
                              /\ (Register(d) \/ RegisterAutomatic(d))
    \/ \E token \in Types, base \in BaseTypeIds : Resolve(token, base)

----------------------------------------------------------------------------
(* Ancestry, by the pointers to parents.                                   *)

\* The descriptor k links above d, or NoParent beyond the root.
Above(d, k) ==
    LET up[n \in 0..k] == IF n = 0 THEN d
                          ELSE IF up[n - 1] = NoParent THEN NoParent
                          ELSE registeredClasses[up[n - 1]].Parent
    IN  up[k]

\* One probe moves by one link and one by two: they meet only on a loop.
HasAcyclicAncestry(d) ==
    \A k \in 1..MaxClasses : Above(d, 2 * k) # NoParent => Above(d, k) # Above(d, 2 * k)

AncestryContains(d, parent) == \E k \in 0..MaxClasses : Above(d, k) = parent

IsChildOf(d, parent) == HasAcyclicAncestry(d) /\ AncestryContains(d, parent)

----------------------------------------------------------------------------
(* Properties.                                                             *)

Places == 1..ClassCount

\* The classes above d in a hierarchy whose parents come first.
Ancestry[d \in 0..ClassCount] ==
    IF d = 0 THEN {} ELSE {d} \cup Ancestry[registeredClasses[d].Parent]

\* No id is given twice, parents are registered before their children, automatic
\* registration never fails while there is room, whatever ids the program took and
\* wherever the cursor is, and IsChildOf is the hierarchy
\* (ClassRegistry.h:60-84, 128-201, ClassDescriptor.h:78-125).
ClassesSound ==
    /\ \A i, j \in Places : registeredClasses[i].TypeId = registeredClasses[j].TypeId => i = j
    /\ \A i \in Places : registeredClasses[i].TypeId # 0 /\ registeredClasses[i].Parent < i
    /\ ClassCount < MaxClasses => AllocateAutomaticTypeId.id # 0
    /\ \A i, j \in Places : IsChildOf(i, j) <=> j \in Ancestry[i]

\* A descriptor that was found is found for ever, at the same place and the same in
\* itself, even if the program registers its type again under another id.
LookupsStable ==
    /\ IsPrefix(registeredClasses, registeredClasses')
    /\ \A id \in TypeIds : Find(id) # 0 => Find(id)' = Find(id)
    /\ \A token \in Types :
        FindByTypeToken(token) # 0 => FindByTypeToken(token)' = FindByTypeToken(token)

\* Both, of every step of a registry that begins empty.
ClassesStayResolved == [][ClassesSound' /\ LookupsStable]_classVars
=============================================================================
