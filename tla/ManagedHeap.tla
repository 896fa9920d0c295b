----------------------------- MODULE ManagedHeap -----------------------------
(***************************************************************************)
(* What the managed-object runtime promises its users, without slots,      *)
(* marks, cursors or budgets: an object lives under one handle that never  *)
(* names another object; it stops living because its destruction was       *)
(* requested or because no root reached it; and collecting it is one step. *)
(* A collection takes time.  Meanwhile nothing is published, rooted or     *)
(* marked for destruction, but the fields of the objects may change.       *)
(***************************************************************************)
CONSTANT Handle     \* every handle an object can be published under

VARIABLES
    objects,    \* handles that resolve
    used,       \* handles objects were ever published under
    doomed,     \* objects whose destruction was requested and has not ended
    rooted,     \* objects that hold at least one root token
    links,      \* pairs <<h, t>>: object h reports a reference to handle t
    collection  \* none, or one under way and whether links were added to it

heapVars == <<objects, used, doomed, rooted, links, collection>>

\* The objects in every set that holds the rooted objects and, with an object,
\* the objects it refers to.
Reachable ==
    {h \in objects :
        \A closed \in SUBSET objects :
            /\ rooted \subseteq closed
            /\ \A k \in closed, t \in objects : <<k, t>> \in links => t \in closed
            => h \in closed}

HeapInit ==
    /\ objects = {}
    /\ used = {}
    /\ doomed = {}
    /\ rooted = {}
    /\ links = {}
    /\ collection = "None"

\* A construction publishes fresh handles, related in any way.
Publish ==
    /\ collection = "None"
    /\ \E fresh \in SUBSET (Handle \ used) :
        /\ fresh # {}
        /\ objects' = objects \cup fresh
        /\ used' = used \cup fresh
        /\ links \subseteq links'
        /\ links' \ links \subseteq fresh \X fresh
        /\ UNCHANGED <<doomed, rooted, collection>>

\* The traced fields of one object change, at any time.
Relink ==
    \E h \in objects :
        /\ links' \subseteq objects \X used
        /\ {l \in links' : l[1] # h} = {l \in links : l[1] # h}
        /\ collection' = IF collection = "None" \/ links' \subseteq links
                         THEN collection ELSE "Rewired"
        /\ UNCHANGED <<objects, used, doomed, rooted>>

Root ==
    \E h \in objects :
        /\ collection = "None"
        /\ rooted' = rooted \cup {h}
        /\ UNCHANGED <<objects, used, doomed, links, collection>>

Unroot ==
    \E h \in rooted :
        /\ rooted' = rooted \ {h}
        /\ UNCHANGED <<objects, used, doomed, links, collection>>

\* h resolves no longer; its tokens and references count for nothing.
Remove(h) ==
    /\ objects' = objects \ {h}
    /\ rooted' = rooted \ {h}
    /\ links' = {l \in links : l[1] # h}
    /\ UNCHANGED <<used, collection>>

\* A user asks for the destruction of an object, reachable or not ...
RequestDestroy ==
    \E h \in objects :
        /\ collection = "None"
        /\ Remove(h)
        /\ doomed' = doomed \cup {h}

\* ... and a later barrier destroys it.
FinishDestroy ==
    \E h \in doomed :
        /\ doomed' = doomed \ {h}
        /\ UNCHANGED <<objects, used, rooted, links, collection>>

BeginCollection ==
    /\ collection = "None"
    /\ collection' = "Steady"
    /\ UNCHANGED <<objects, used, doomed, rooted, links>>

\* A collection takes only objects no root reaches; one during which a field was
\* given a new target may take any object that is not rooted itself.
Collect ==
    \E h \in objects :
        /\ \/ collection = "Steady" /\ h \notin Reachable
           \/ collection = "Rewired" /\ h \notin rooted
        /\ Remove(h)
        /\ UNCHANGED doomed

EndCollection ==
    /\ collection # "None"
    /\ collection' = "None"
    /\ UNCHANGED <<objects, used, doomed, rooted, links>>

HeapNext ==
    \/ Relink \/ Unroot \/ Root
    \/ FinishDestroy \/ RequestDestroy
    \/ BeginCollection \/ EndCollection \/ Collect
    \/ Publish

HeapSpec == HeapInit /\ [][HeapNext]_heapVars
=============================================================================
