------------------------------ MODULE GitObjects ------------------------------
(***************************************************************************)
(* The immutable object graph every component reads.  An object is its own *)
(* hash.  Points[o] is the set of objects o names (a commit its tree and   *)
(* parents, a tree its entries, a tag its target), Parents[o] the commits  *)
(* a commit o names as parents (empty for an object that is not a commit). *)
(* The graph is fixed: git objects are content addressed, so what an       *)
(* object points at is part of its name.                                   *)
(***************************************************************************)

CONSTANTS
    Object,     \* every object that may exist
    Points,     \* [Object -> SUBSET Object]: tree, entries, target and parents
    Parents     \* [Object -> SUBSET Object]: the parents of a commit

ASSUME ObjectsAssumption ==
    /\ Points \in [Object -> SUBSET Object]
    /\ Parents \in [Object -> SUBSET Object]
    /\ \A o \in Object : Parents[o] \subseteq Points[o]

\* S contains whatever its members point at.
Closed(S) == \A o \in S : Points[o] \subseteq S

\* The objects a walk from o emits: the least closed set that contains o.
Closure == [o \in Object |->
              {x \in Object : \A S \in SUBSET Object : o \in S /\ Closed(S) => x \in S}]

\* The objects a walk from the tips T emits.
Reachable(T) == UNION {Closure[o] : o \in T}

\* What a walk from the tips wants sends to a peer that has the tips haves.
Missing(wants, haves) == Reachable(wants) \ Reachable(haves)

(***************************************************************************)
(* isAncestor walks the parents of descendant with the objects at hand; a  *)
(* commit it cannot read is a dead end, not an error.  It finds candidate  *)
(* iff every set that holds descendant and the parents of its readable     *)
(* members holds candidate too.                                            *)
(***************************************************************************)
IsAncestorIn(objs, candidate, descendant) ==
    \A S \in SUBSET Object :
        (/\ descendant \in S
         /\ \A c \in S \cap objs : Parents[c] \subseteq S)
        => candidate \in S

\* Ancestry in the whole graph, whatever a store happens to hold.
Ancestors == [d \in Object |-> {c \in Object : IsAncestorIn(Object, c, d)}]

IsAncestor(candidate, descendant) == candidate \in Ancestors[descendant]

===============================================================================
