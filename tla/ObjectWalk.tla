------------------------------ MODULE ObjectWalk ------------------------------
(***************************************************************************)
(* The walks that decide what a pack holds, and the boundary of a shallow  *)
(* history.  A walk reads one side's stored objects; a commit in a         *)
(* boundary is read without its parents.                                   *)
(***************************************************************************)
EXTENDS GitObjects, Naturals, FiniteSets

CONSTANT INFINITE_DEPTH     \* the depth that asks for the whole history

\* What a walk goes to from o.
Step(o, bound) == IF o \in bound THEN Points[o] \ Parents[o] ELSE Points[o]

\* What a walk that starts at from and goes from o to onward[o] has met after each
\* of so many steps.
Met(from, onward, steps) ==
    LET met[n \in 0..steps] ==
          IF n = 0 THEN from
          ELSE met[n - 1] \cup UNION {onward[o] : o \in met[n - 1]}
    IN met

\* Everything it meets: each step but the last one meets an object more.
Spread(from, onward) == Met(from, onward, Cardinality(Object))[Cardinality(Object)]

\* walkReachable: what the other side is taken to have.  An object that is not
\* stored is noted and not followed.
HaveSet(stored, haves, bound) ==
    Spread(haves, [o \in Object |-> IF o \in stored THEN Step(o, bound) ELSE {}])

\* collectMissing: what a walk from wants meets outside known.
WantSet(wants, known, bound) ==
    Spread(wants \ known, [o \in Object |-> Step(o, bound) \ known])

\* (Mutant: what lies behind the client's boundary is not asked for.)
EffectiveWants_wantsOnly(stored, wants, known, deepen, clientShallow) == wants

\* A request to deepen starts at the parents of the client's boundary too, as
\* the client stops there.
EffectiveWants(stored, wants, known, deepen, clientShallow) ==
    wants \cup IF deepen THEN (UNION {Parents[s] : s \in clientShallow \cap stored}) \ known
               ELSE {}

\* (Mutant: the walk of the haves stops at the new boundary.)
Enumerate_newBoundary(stored, wants, haves, deepen, boundary, clientShallow) ==
    LET known == HaveSet(stored, haves, boundary)
    IN WantSet(EffectiveWants(stored, wants, known, deepen, clientShallow), known, boundary)

\* enumerateObjects.  The walk of the haves stops at the client's boundary when
\* it sent one, otherwise at the new one.  (The walk throws unless all of the
\* result is stored.)
Enumerate(stored, wants, haves, deepen, boundary, clientShallow) ==
    LET known == HaveSet(stored, haves, IF clientShallow # {} THEN clientShallow ELSE boundary)
    IN WantSet(EffectiveWants(stored, wants, known, deepen, clientShallow), known, boundary)

\* The stored objects at each level of the breadth-first walk of parents.
Level(stored, wants, depth) ==
    LET seen == Met(wants \cap stored, [o \in Object |-> Parents[o] \cap stored], depth - 1)
    IN [n \in 1..depth |-> seen[n - 1] \ IF n = 1 THEN {} ELSE seen[n - 2]]

\* computeShallowBoundary: the objects at the last level become the boundary,
\* and what was the client's boundary at an earlier level is one no longer.
\* (The whole history is asked for by number: nothing is looked at.)
Shallow(stored, wants, depth, clientShallow) ==
    IF depth >= INFINITE_DEPTH THEN [shallow |-> {}, unshallow |-> clientShallow]
    ELSE LET level == Level(stored, wants, depth)
         IN [shallow |-> level[depth],
             unshallow |-> {s \in clientShallow : \E n \in 1..depth - 1 : s \in level[n]}]

===============================================================================
