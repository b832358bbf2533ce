---------------------------- MODULE Serving_proofs ----------------------------
(***************************************************************************)
(* Theorems about what a server serves: its shutdown, for any number of    *)
(* operations and of calls of close(); fetches and clones through the      *)
(* pack cache, for any object graph, refs, options and number of clients;  *)
(* and these together with SSH sessions.  The walks are recursive          *)
(* functions; what they compute follows by taking the least number of      *)
(* steps that would refute it.                                             *)
(***************************************************************************)
EXTENDS Serving, FiniteSetTheorems, NaturalsInduction, TLAPS

-------------------------------------------------------------------------------
(* Admission and shutdown.                                                 *)

\* The counter is the number of operations between enter() and leave().
CountExact == inflight = Cardinality(Inside)

\* What close() knows: nobody waits before the first call, a drain that is not pending
\* was not needed, is over, or was cut short, and only then does a call return.
CloseInv ==
    /\ ~closed => drain = "none" /\ \A c \in Closer : closerPc[c] = "new"
    /\ closed /\ drain # "pending" /\ ~aborted => Inside = {}
    /\ \A c \in Closer : closerPc[c] = "returned" => closed /\ drain # "pending"

Inv == TypeOK /\ CountExact /\ CloseInv

\* The operations inside are finitely many, and what the counter says.
LEMMA Counting ==
    ASSUME LifecycleAssumption, CountExact
    PROVE  /\ IsFiniteSet(Inside) /\ inflight \in Nat
           /\ inflight = 0 <=> Inside = {}
           /\ \A o \in Inside : /\ Cardinality(Inside \ {o}) = inflight - 1
                                /\ inflight - 1 \in Nat
           /\ \A o \in Op \ Inside : Cardinality(Inside \cup {o}) = inflight + 1
<1>1. IsFiniteSet(Inside)
  BY FS_Subset DEF LifecycleAssumption, Inside
<1>2. inflight = Cardinality(Inside) /\ inflight \in Nat
  BY <1>1, FS_CardinalityType DEF CountExact
<1>3. inflight = 0 <=> Inside = {}
  BY <1>1, <1>2, FS_EmptySet
<1>4. ASSUME NEW o \in Inside
      PROVE  Cardinality(Inside \ {o}) = inflight - 1 /\ inflight - 1 \in Nat
  <2>1. Cardinality(Inside \ {o}) = inflight - 1 /\ IsFiniteSet(Inside \ {o})
    BY <1>1, <1>2, FS_RemoveElement
  <2>2. Cardinality(Inside \ {o}) \in Nat
    BY <2>1, FS_CardinalityType
  <2> QED
    BY <2>1, <2>2
<1>5. ASSUME NEW o \in Op \ Inside
      PROVE  Cardinality(Inside \cup {o}) = inflight + 1
  BY <1>1, <1>2, FS_AddElement
<1> QED
  BY <1>1, <1>2, <1>3, <1>4, <1>5

\* An operation that goes from one point to another, neither of them inside, leaves the
\* others where they are.
LEMMA Elsewhere ==
    ASSUME TypeOK, NEW o \in Op, NEW p \in {"outside", "done", "refused"},
           opPc[o] # "inside", opPc' = [opPc EXCEPT ![o] = p]
    PROVE  Inside' = Inside /\ opPc' \in [Op -> {"new", "inside", "outside", "done", "refused"}]
BY DEF TypeOK, Inside

\* enter() counts before the handler's first await, and counts nothing once closed.
LEMMA EnterStep ==
    ASSUME LifecycleAssumption, Inv, NEW o \in Op, Enter(o)
    PROVE  Inv'
<1>1. o \in Op \ Inside
  BY DEF Enter, Inside
<1>2. Inside' = Inside \cup {o}
  BY <1>1 DEF Enter, Inside, Inv, TypeOK
<1>3. Cardinality(Inside \cup {o}) = inflight + 1
  BY <1>1, Counting DEF Inv
<1>4. TypeOK' /\ CountExact'
  BY <1>2, <1>3 DEF Enter, Inv, TypeOK, CountExact
<1>5. CloseInv'
  BY DEF Enter, Inv, CloseInv
<1> QED
  BY <1>4, <1>5 DEF Inv

\* leave() takes one off, and the last one out resolves the drain.
LEMMA LeaveStep ==
    ASSUME LifecycleAssumption, Inv, NEW o \in Op, Leave(o)
    PROVE  Inv'
<1> DEFINE p == IF o \in Early THEN "outside" ELSE "done"
<1>1. o \in Inside
  BY DEF Leave, Inside
<1>2. opPc' = [opPc EXCEPT ![o] = p] /\ p \in {"outside", "done"}
  BY DEF Leave
<1>3. Inside' = Inside \ {o}
  BY <1>1, <1>2 DEF Inside, Inv, TypeOK
<1>4. inflight' = inflight - 1 /\ inflight' = Cardinality(Inside')
  BY <1>1, <1>3, Counting DEF Leave, Inv, CountExact
<1>5. inflight' = 0 <=> Inside' = {}
  <2>1. IsFiniteSet(Inside')
    BY <1>3, Counting, FS_Subset DEF Inv
  <2> QED
    BY <1>4, <2>1, FS_EmptySet
<1>6. TypeOK' /\ CountExact'
  <2>1. inflight' \in Nat
    BY <1>1, <1>4, Counting DEF Inv
  <2> QED
    BY <1>2, <1>4, <2>1 DEF Leave, Inv, TypeOK, CountExact
<1>7. CloseInv'
  <2>1. drain' = IF closed /\ inflight' = 0 /\ drain = "pending" THEN "resolved" ELSE drain
    BY DEF Leave
  <2>2. closed' = closed /\ aborted' = aborted /\ closerPc' = closerPc
    BY DEF Leave
  <2>3. drain' # drain => drain = "pending" /\ Inside' = {}
    BY <1>5, <2>1
  <2> QED
    BY <1>1, <1>3, <2>1, <2>2, <2>3 DEF Inv, CloseInv
<1> QED
  BY <1>6, <1>7 DEF Inv

\* What is refused, was never counted, or has left, does not matter to close().
LEMMA OutsideStep ==
    ASSUME Inv, NEW o \in Op, Refuse(o) \/ Begin(o) \/ Finish(o)
    PROVE  Inv'
<1>1. PICK p \in {"outside", "done", "refused"} :
         opPc[o] # "inside" /\ opPc' = [opPc EXCEPT ![o] = p]
  BY DEF Refuse, Begin, Finish
<1>2. Inside' = Inside /\ opPc' \in [Op -> {"new", "inside", "outside", "done", "refused"}]
  BY <1>1, Elsewhere DEF Inv
<1>3. UNCHANGED <<closed, inflight, drain, closerPc, aborted>>
  BY DEF Refuse, Begin, Finish
<1> QED
  BY <1>2, <1>3 DEF Inv, TypeOK, CountExact, CloseInv

\* The calls of close(), and the signal.
LEMMA CloseStep ==
    ASSUME LifecycleAssumption, Inv,
           Abort \/ \E c \in Closer : CloseFirst(c) \/ CloseAgain(c) \/ CloseReturns(c)
    PROVE  Inv'
<1>1. UNCHANGED <<opPc, inflight>> /\ Inside' = Inside
  BY DEF Abort, CloseFirst, CloseAgain, CloseReturns, Inside
<1>2. inflight = 0 <=> Inside = {}
  BY Counting DEF Inv
<1>3. CASE \E c \in Closer : CloseFirst(c)
  <2>1. PICK c \in Closer : CloseFirst(c)
    BY <1>3
  <2>2. TypeOK' /\ CountExact'
    BY <1>1, <2>1 DEF CloseFirst, Inv, TypeOK, CountExact
  <2>3. CloseInv'
    BY <1>1, <1>2, <2>1 DEF CloseFirst, Inv, TypeOK, CloseInv
  <2> QED
    BY <2>2, <2>3 DEF Inv
<1>4. CASE \E c \in Closer : CloseAgain(c) \/ CloseReturns(c)
  <2>1. PICK c \in Closer : CloseAgain(c) \/ CloseReturns(c)
    BY <1>4
  <2>2. TypeOK' /\ CountExact'
    BY <1>1, <2>1 DEF CloseAgain, CloseReturns, Inv, TypeOK, CountExact
  <2>3. CloseInv'
    BY <1>1, <2>1 DEF CloseAgain, CloseReturns, Inv, TypeOK, CloseInv
  <2> QED
    BY <2>2, <2>3 DEF Inv
<1>5. CASE Abort
  BY <1>1, <1>5 DEF Abort, Inv, TypeOK, CountExact, CloseInv
<1> QED
  BY <1>3, <1>4, <1>5

\* The counter is at all times the number of operations between enter() and leave(), and a
\* call of close() that was not aborted returns only when none of those that close() is
\* to wait for is still at work, for any number of operations and of calls.
THEOREM CloseWaits ==
    ASSUME LifecycleAssumption
    PROVE  Spec => [](TypeOK /\ DrainWaitsForCounted)
<1>1. Init => Inv
  <2> SUFFICES ASSUME Init PROVE Inv
    OBVIOUS
  <2>1. Inside = {}
    BY DEF Init, Inside
  <2> QED
    BY <2>1, FS_EmptySet DEF Init, Inv, TypeOK, CountExact, CloseInv
<1>2. Inv /\ [Next]_vars => Inv'
  <2> SUFFICES ASSUME Inv, [Next]_vars PROVE Inv'
    OBVIOUS
  <2>1. CASE Next
    BY <2>1, EnterStep, LeaveStep, OutsideStep, CloseStep DEF Next
  <2>2. CASE UNCHANGED vars
    BY <2>2 DEF vars, Inv, TypeOK, CountExact, CloseInv, Inside
  <2> QED
    BY <2>1, <2>2
<1>3. Inv => TypeOK /\ DrainWaitsForCounted
  BY DEF Inv, CountExact, CloseInv, DrainWaitsForCounted, Inside, Op
<1> QED
  BY <1>1, <1>2, <1>3, PTL DEF Spec

\* Once closed, nothing more gets in: with the theorem above, what close() has waited for
\* stays at rest (enter; ServerLifecycle!NothingEntersAfterClose).
THEOREM NothingMoreEnters ==
    ASSUME LifecycleAssumption PROVE Spec => [][NothingEntersAfterClose]_vars
<1>1. TypeOK /\ [Next]_vars => [NothingEntersAfterClose]_vars
  <2> SUFFICES ASSUME TypeOK, Next, closed, NEW o \in Op, opPc'[o] = "inside"
               PROVE  opPc[o] = "inside"
    BY DEF NothingEntersAfterClose, Inside
  <2> QED
    BY DEF TypeOK, Next, Enter, Refuse, Begin, Leave, Finish, CloseFirst, CloseAgain,
           CloseReturns, Abort
<1> QED
  BY <1>1, CloseWaits, PTL DEF Spec

-------------------------------------------------------------------------------
(* Walks.                                                                  *)

\* A set of numbers that is not empty has a least member.
LEMMA Least ==
    ASSUME NEW T \in SUBSET Nat, T # {}
    PROVE  \E n \in T : \A m \in T : n <= m
<1>1. PICK n \in T : \A m \in T : ~(<<m, n>> \in OpToRel(<, Nat))
  BY NatLessThanWellFounded, WFMin, Zenon
<1>2. \A m \in T : ~(m < n)
  BY <1>1, Zenon DEF OpToRel
<1> QED
  BY <1>2

\* One step of a walk.
Grow(S, onward) == S \cup UNION {onward[o] : o \in S}

\* met is what Met computes.
IsMet(met, from, onward, steps) ==
    met = [n \in 0..steps |-> IF n = 0 THEN from ELSE Grow(met[n - 1], onward)]

LEMMA MetExists ==
    ASSUME NEW from, NEW onward, NEW steps \in Nat
    PROVE  \E met : IsMet(met, from, onward, steps)
<1> DEFINE Bad == {n \in Nat : ~\E met : IsMet(met, from, onward, n)}
<1> SUFFICES ASSUME Bad # {} PROVE FALSE
  OBVIOUS
<1>1. PICK n \in Bad : \A m \in Bad : n <= m
  BY Least
<1>2. n # 0
  <2>1. IsMet([i \in 0..0 |-> from], from, onward, 0)
    BY DEF IsMet
  <2> QED
    BY <2>1, <1>1
<1>3. n - 1 \in Nat /\ n - 1 \notin Bad
  BY <1>1, <1>2
<1>4. PICK met : IsMet(met, from, onward, n - 1)
  BY <1>3
<1> DEFINE extra == [i \in 0..n |-> IF i = n THEN Grow(met[n - 1], onward) ELSE met[i]]
<1>5. IsMet(extra, from, onward, n)
  <2> SUFFICES ASSUME NEW i \in 0..n
               PROVE  extra[i] = IF i = 0 THEN from ELSE Grow(extra[i - 1], onward)
    BY DEF IsMet
  <2>1. CASE i = n
    BY <2>1, <1>2, <1>3
  <2>2. CASE i # n
    <3>1. extra[i] = met[i] /\ i \in 0..n - 1
      BY <2>2
    <3>2. met[i] = IF i = 0 THEN from ELSE Grow(met[i - 1], onward)
      BY <3>1, <1>4 DEF IsMet
    <3>3. i # 0 => extra[i - 1] = met[i - 1]
      BY <2>2
    <3> QED
      BY <3>1, <3>2, <3>3
  <2> QED
    BY <2>1, <2>2
<1> QED
  BY <1>1, <1>5

LEMMA MetIs ==
    ASSUME NEW from, NEW onward, NEW steps \in Nat
    PROVE  IsMet(Met(from, onward, steps), from, onward, steps)
<1>1. Met(from, onward, steps) = CHOOSE met : IsMet(met, from, onward, steps)
  BY Zenon DEF Met, IsMet, Grow
<1> QED
  BY <1>1, MetExists, Zenon

\* What is met first, what each step adds, and that nothing is forgotten.
LEMMA MetSteps ==
    ASSUME NEW from, NEW onward, NEW steps \in Nat
    PROVE  LET met == Met(from, onward, steps)
           IN /\ met[0] = from
              /\ \A n \in 1..steps : met[n] = Grow(met[n - 1], onward)
              /\ \A n \in 1..steps : met[n - 1] \subseteq met[n]
<1> DEFINE met == Met(from, onward, steps)
<1>1. met = [n \in 0..steps |-> IF n = 0 THEN from ELSE Grow(met[n - 1], onward)]
  BY MetIs DEF IsMet
<1> HIDE DEF met
<1>2. met[0] = from
  BY <1>1
<1>3. \A n \in 1..steps : met[n] = Grow(met[n - 1], onward)
  BY <1>1
<1>4. \A n \in 1..steps : met[n - 1] \subseteq met[n]
  BY <1>3 DEF Grow
<1> QED
  BY <1>2, <1>3, <1>4 DEF met

\* A walk does not leave a set that holds where it starts and what its members lead to.
LEMMA MetInside ==
    ASSUME NEW from, NEW onward, NEW steps \in Nat,
           NEW S, from \subseteq S, \A o \in S : onward[o] \subseteq S
    PROVE  \A n \in 0..steps : Met(from, onward, steps)[n] \subseteq S
<1> DEFINE met == Met(from, onward, steps)
           Bad == {n \in 0..steps : ~(met[n] \subseteq S)}
<1>1. met[0] = from /\ \A n \in 1..steps : met[n] = Grow(met[n - 1], onward)
  BY MetSteps
<1> HIDE DEF met
<1> SUFFICES ASSUME Bad # {} PROVE FALSE
  BY DEF met
<1>2. PICK n \in Bad : \A m \in Bad : n <= m
  <2>1. Bad \in SUBSET Nat
    OBVIOUS
  <2> QED
    BY <2>1, Least
<1>3. n \in 1..steps
  BY <1>1, <1>2
<1>4. met[n - 1] \subseteq S
  BY <1>2, <1>3
<1>5. met[n] \subseteq S
  BY <1>1, <1>3, <1>4 DEF Grow
<1> QED
  BY <1>2, <1>5

\* Later steps have met what earlier ones had.
LEMMA MetGrows ==
    ASSUME NEW from, NEW onward, NEW steps \in Nat, NEW m \in 0..steps, NEW n \in m..steps
    PROVE  Met(from, onward, steps)[m] \subseteq Met(from, onward, steps)[n]
<1> DEFINE met == Met(from, onward, steps)
           Bad == {i \in m..steps : ~(met[m] \subseteq met[i])}
<1>1. \A i \in 1..steps : met[i - 1] \subseteq met[i]
  BY MetSteps
<1> HIDE DEF met
<1> SUFFICES ASSUME Bad # {} PROVE FALSE
  BY DEF met
<1>2. PICK i \in Bad : \A j \in Bad : i <= j
  <2>1. Bad \in SUBSET Nat
    OBVIOUS
  <2> QED
    BY <2>1, Least
<1>3. i # m /\ i - 1 \in m..steps
  BY <1>2
<1>4. met[m] \subseteq met[i - 1]
  BY <1>2, <1>3
<1> QED
  BY <1>1, <1>2, <1>3, <1>4

\* A step meets an object more, unless there is nothing more to meet: after n steps a
\* walk is over or has met n objects.
LEMMA MetCounts ==
    ASSUME FetchAssumption, NEW from \in SUBSET Object, NEW onward \in [Object -> SUBSET Object],
           NEW steps \in Nat, NEW n \in 0..steps
    PROVE  LET met == Met(from, onward, steps)
           IN Grow(met[n], onward) = met[n] \/ Cardinality(met[n]) >= n
<1> DEFINE met == Met(from, onward, steps)
           Beyond(i) == Grow(met[i], onward) = met[i]
           Bad == {i \in 0..steps : ~Beyond(i) /\ ~(Cardinality(met[i]) >= i)}
<1>1. /\ met[0] = from
      /\ \A i \in 1..steps : met[i] = Grow(met[i - 1], onward)
      /\ \A i \in 1..steps : met[i - 1] \subseteq met[i]
  BY MetSteps
<1>2. \A i \in 0..steps : met[i] \subseteq Object
  BY MetInside
<1>3. \A i \in 0..steps : IsFiniteSet(met[i]) /\ Cardinality(met[i]) \in Nat
  BY <1>2, FS_Subset, FS_CardinalityType DEF FetchAssumption
<1> HIDE DEF met
<1> SUFFICES ASSUME Bad # {} PROVE FALSE
  BY DEF met
<1>4. PICK i \in Bad : \A j \in Bad : i <= j
  <2>1. Bad \in SUBSET Nat
    OBVIOUS
  <2> QED
    BY <2>1, Least
<1>5. i \in 1..steps /\ i - 1 \in 0..steps
  BY <1>3, <1>4
<1>6. Beyond(i - 1) \/ Cardinality(met[i - 1]) >= i - 1
  BY <1>4, <1>5
<1>7. ~Beyond(i - 1)
  BY <1>1, <1>4, <1>5
<1>8. met[i - 1] \subseteq met[i] /\ met[i - 1] # met[i]
  BY <1>1, <1>5, <1>7
<1>9. Cardinality(met[i - 1]) < Cardinality(met[i])
  BY <1>3, <1>5, <1>8, FS_Subset
<1> QED
  BY <1>3, <1>4, <1>5, <1>6, <1>7, <1>9

\* Spread is the least set that holds where the walk starts and what its members lead to.
LEMMA SpreadIsLeast ==
    ASSUME FetchAssumption, NEW from \in SUBSET Object, NEW onward \in [Object -> SUBSET Object]
    PROVE  /\ Spread(from, onward) \in SUBSET Object
           /\ from \subseteq Spread(from, onward)
           /\ \A o \in Spread(from, onward) : onward[o] \subseteq Spread(from, onward)
           /\ \A S : from \subseteq S /\ (\A o \in S : onward[o] \subseteq S)
                        => Spread(from, onward) \subseteq S
<1> DEFINE N == Cardinality(Object)
           all == Spread(from, onward)
<1>1. N \in Nat
  BY FS_CardinalityType DEF FetchAssumption
<1>2. all = Met(from, onward, N)[N]
  BY DEF Spread
<1>3. \A S : from \subseteq S /\ (\A o \in S : onward[o] \subseteq S) => all \subseteq S
  <2> SUFFICES ASSUME NEW S, from \subseteq S, \A o \in S : onward[o] \subseteq S
               PROVE  all \subseteq S
    OBVIOUS
  <2>1. N \in 0..N
    BY <1>1
  <2>2. \A n \in 0..N : Met(from, onward, N)[n] \subseteq S
    BY <1>1, MetInside, Zenon
  <2> QED
    BY <1>2, <2>1, <2>2
<1>4. all \in SUBSET Object
  BY <1>3
<1>5. from \subseteq all
  BY <1>1, <1>2, MetSteps, MetGrows
<1>6. Grow(all, onward) = all
  <2>1. CASE Cardinality(all) >= N
    <3>1. all = Object
      BY <2>1, <1>1, <1>4, FS_Subset, FS_CardinalityType DEF FetchAssumption
    <3> QED
      BY <3>1 DEF Grow
  <2> QED
    BY <2>1, <1>1, <1>2, MetCounts
<1>7. \A o \in all : onward[o] \subseteq all
  BY <1>6 DEF Grow
<1> QED
  BY <1>3, <1>4, <1>5, <1>7

-------------------------------------------------------------------------------
(* What the walks of the server emit.                                      *)

\* S holds all that its members name, but perhaps the parents of those in bound.
Held(S, bound) == \A o \in S : Step(o, bound) \subseteq S

LEMMA StepType ==
    ASSUME NEW o \in Object, NEW bound
    PROVE  /\ Step(o, bound) \in SUBSET Object
           /\ Step(o, bound) \subseteq Points[o] /\ Points[o] \subseteq Step(o, bound) \cup Parents[o]
           /\ o \notin bound => Step(o, bound) = Points[o]
BY ObjectsAssumption DEF Step

\* What holds with a smaller boundary holds with a larger one.
LEMMA HeldWithMore ==
    ASSUME NEW S \in SUBSET Object, NEW few, NEW extra, few \cap S \subseteq extra, Held(S, few)
    PROVE  Held(S, extra)
BY ObjectsAssumption DEF Held, Step

\* A closed set holds everything, whatever the boundary.
LEMMA ClosedIsHeld ==
    ASSUME NEW S \in SUBSET Object, NEW bound
    PROVE  /\ Closed(S) => Held(S, bound)
           /\ Held(S, {}) <=> Closed(S)
BY ObjectsAssumption DEF Held, Step, Closed

\* What is behind the refs of a client that holds all up to its boundary.
LEMMA ReachedIsHeld ==
    ASSUME FetchAssumption, NEW S \in SUBSET Object, NEW from \in SUBSET S, NEW bound, Held(S, bound)
    PROVE  Spread(from, [o \in Object |-> Step(o, bound)]) \subseteq S
<1> DEFINE onward == [o \in Object |-> Step(o, bound)]
<1>1. onward \in [Object -> SUBSET Object]
  BY StepType
<1>2. \A o \in S : onward[o] \subseteq S
  BY DEF Held
<1> QED
  BY <1>1, <1>2, SpreadIsLeast

LEMMA HaveSetIsLeast ==
    ASSUME FetchAssumption, NEW stored \in SUBSET Object, NEW haves \in SUBSET Object, NEW bound
    PROVE  LET known == HaveSet(stored, haves, bound)
           IN /\ known \in SUBSET Object /\ haves \subseteq known
              /\ \A o \in known \cap stored : Step(o, bound) \subseteq known
              /\ \A S : haves \subseteq S /\ (\A o \in S \cap stored : Step(o, bound) \subseteq S)
                            => known \subseteq S
<1> DEFINE onward == [o \in Object |-> IF o \in stored THEN Step(o, bound) ELSE {}]
<1>1. onward \in [Object -> SUBSET Object]
  BY StepType
<1> DEFINE known == HaveSet(stored, haves, bound)
<1>2. known = Spread(haves, onward)
  BY DEF HaveSet
<1>3. /\ known \in SUBSET Object /\ haves \subseteq known
      /\ \A o \in known : onward[o] \subseteq known
      /\ \A S : haves \subseteq S /\ (\A o \in S : onward[o] \subseteq S) => known \subseteq S
  <2> HIDE DEF onward, known
  <2> QED
    BY <1>1, <1>2, SpreadIsLeast
<1> HIDE DEF known
<1>4. \A o \in known \cap stored : Step(o, bound) \subseteq known
  BY <1>3
<1>5. ASSUME NEW S, haves \subseteq S, \A o \in S \cap stored : Step(o, bound) \subseteq S
      PROVE  known \subseteq S
  <2> DEFINE T == S \cap Object
  <2>1. haves \subseteq T /\ \A o \in T : onward[o] \subseteq T
    BY <1>1, <1>5
  <2> QED
    BY <1>3, <2>1
<1>6. \A S : haves \subseteq S /\ (\A o \in S \cap stored : Step(o, bound) \subseteq S)
                  => known \subseteq S
  BY <1>5
<1> QED
  BY <1>3, <1>4, <1>6 DEF known

LEMMA WantSetIsLeast ==
    ASSUME FetchAssumption, NEW wants \in SUBSET Object, NEW known, NEW bound
    PROVE  LET found == WantSet(wants, known, bound)
           IN /\ found \in SUBSET Object /\ wants \subseteq found \cup known
              /\ \A o \in found : Step(o, bound) \subseteq found \cup known
              /\ \A S : wants \ known \subseteq S /\ (\A o \in S \cap Object : Step(o, bound) \ known \subseteq S)
                            => found \subseteq S
<1> DEFINE onward == [o \in Object |-> Step(o, bound) \ known]
           from == wants \ known
<1>1. onward \in [Object -> SUBSET Object]
  BY StepType
<1> DEFINE found == WantSet(wants, known, bound)
<1>2. found = Spread(from, onward) /\ from \in SUBSET Object
  BY DEF WantSet
<1>3. /\ found \in SUBSET Object /\ from \subseteq found
      /\ \A o \in found : onward[o] \subseteq found
      /\ \A S : from \subseteq S /\ (\A o \in S : onward[o] \subseteq S) => found \subseteq S
  <2> HIDE DEF onward, found
  <2> QED
    BY <1>1, <1>2, SpreadIsLeast
<1> HIDE DEF found
<1>4. \A o \in found : Step(o, bound) \subseteq found \cup known
  BY <1>3
<1>5. ASSUME NEW S, from \subseteq S, \A o \in S \cap Object : Step(o, bound) \ known \subseteq S
      PROVE  found \subseteq S
  <2> DEFINE T == S \cap Object
  <2>1. from \subseteq T /\ \A o \in T : onward[o] \subseteq T
    BY <1>1, <1>5
  <2> QED
    BY <1>3, <2>1
<1>6. \A S : from \subseteq S /\ (\A o \in S \cap Object : Step(o, bound) \ known \subseteq S)
                  => found \subseteq S
  BY <1>5
<1>7. wants \subseteq found \cup known
  BY <1>3
<1> QED
  BY <1>3, <1>4, <1>6, <1>7 DEF found

\* A walk of more haves over more objects meets more.
LEMMA HaveSetGrows ==
    ASSUME FetchAssumption, NEW stored \in SUBSET Object, NEW later \in SUBSET Object,
           NEW haves \in SUBSET Object, NEW extra \in SUBSET Object, NEW bound,
           stored \subseteq later, haves \subseteq extra
    PROVE  HaveSet(stored, haves, bound) \subseteq HaveSet(later, extra, bound)
<1> DEFINE known == HaveSet(later, extra, bound)
<1>1. /\ extra \subseteq known
      /\ \A o \in known \cap later : Step(o, bound) \subseteq known
  BY HaveSetIsLeast
<1>2. haves \subseteq known /\ \A o \in known \cap stored : Step(o, bound) \subseteq known
  BY <1>1
<1> HIDE DEF known
<1>3. HaveSet(stored, haves, bound) \subseteq known
  BY <1>2, HaveSetIsLeast
<1> QED
  BY <1>3 DEF known

\* The new boundary: commits that are stored and that the wants reach, none of them a
\* commit that stops being in the client's.
LEMMA ShallowIsApart ==
    ASSUME FetchAssumption, NEW stored \in SUBSET Object, NEW wants \in SUBSET Object,
           NEW depth \in Depths, NEW cs \in SUBSET Object
    PROVE  LET update == Shallow(stored, wants, depth, cs)
           IN /\ update.shallow \subseteq stored /\ update.unshallow \subseteq cs
              /\ update.shallow \cap update.unshallow = {}
              /\ update.shallow \subseteq HaveSet(stored, wants, {})
<1> DEFINE update == Shallow(stored, wants, depth, cs)
<1>1. depth \in Nat /\ depth >= 1
  <2>1. Depths \subseteq 1..INFINITE_DEPTH /\ INFINITE_DEPTH \in Nat
    BY DEF FetchAssumption
  <2> QED
    BY <2>1
<1>2. CASE depth >= INFINITE_DEPTH
  BY <1>2 DEF Shallow
<1>3. CASE ~(depth >= INFINITE_DEPTH)
  <2> DEFINE from == wants \cap stored
             onward == [o \in Object |-> Parents[o] \cap stored]
             seen == Met(from, onward, depth - 1)
             level == [n \in 1..depth |-> seen[n - 1] \ IF n = 1 THEN {} ELSE seen[n - 2]]
  <2>1. Level(stored, wants, depth) = level
    BY DEF Level
  <2>2. onward \in [Object -> SUBSET Object] /\ depth - 1 \in Nat
    BY <1>1, ObjectsAssumption
  <2>3. \A n \in 0..depth - 1 : seen[n] \subseteq stored \cap HaveSet(stored, wants, {})
    <3> DEFINE known == HaveSet(stored, wants, {})
    <3>1. wants \subseteq known /\ \A o \in known \cap stored : Step(o, {}) \subseteq known
      BY HaveSetIsLeast
    <3> HIDE DEF known
    <3>2. from \subseteq stored \cap known /\ \A o \in stored \cap known : onward[o] \subseteq stored \cap known
      BY <3>1, ObjectsAssumption DEF Step
    <3> HIDE DEF from, onward
    <3>3. \A n \in 0..depth - 1 : seen[n] \subseteq stored \cap known
      BY <2>2, <3>2, MetInside
    <3> QED
      BY <3>3 DEF known
  <2>4. \A n \in 1..depth - 1 : seen[n - 1] \subseteq seen[depth - 2]
    <3> SUFFICES ASSUME NEW n \in 1..depth - 1 PROVE seen[n - 1] \subseteq seen[depth - 2]
      OBVIOUS
    <3> HIDE DEF from, onward
    <3>1. n - 1 \in 0..depth - 1 /\ depth - 2 \in (n - 1)..depth - 1
      BY <1>1
    <3> QED
      BY <2>2, <3>1, MetGrows
  <2> HIDE DEF seen
  <2>5. update = [shallow |-> level[depth],
                  unshallow |-> {s \in cs : \E n \in 1..depth - 1 : s \in level[n]}]
    BY <1>3, <2>1 DEF Shallow
  <2>6. level[depth] \subseteq seen[depth - 1] /\ (depth # 1 => level[depth] \cap seen[depth - 2] = {})
    BY <1>1
  <2>7. \A n \in 1..depth - 1 : level[n] \subseteq seen[n - 1]
    BY <1>1
  <2>8. \A n \in 1..depth - 1 : depth # 1 /\ level[n] \subseteq seen[depth - 2]
    BY <1>1, <2>4, <2>7
  <2>9. depth - 1 \in 0..depth - 1
    BY <1>1
  <2> HIDE DEF level
  <2> QED
    BY <2>3, <2>5, <2>6, <2>8, <2>9
<1> QED
  BY <1>2, <1>3

\* A pack for the client's refs: with it the client that had S holds all up to the new
\* boundary, and what was its boundary has its parents.
EnoughFor(found, wants, S, cs, bound) ==
    /\ found \in SUBSET Object /\ wants \subseteq S \cup found
    /\ Held(S \cup found, bound)
    /\ \A s \in cs : Parents[s] \subseteq S \cup found

LEMMA PackIsEnough ==
    ASSUME FetchAssumption, NEW stored \in SUBSET Object, NEW wants \in SUBSET Object,
           NEW S \in SUBSET Object, NEW haves \in SUBSET S, NEW cs \in SUBSET Object,
           NEW bound \in SUBSET Object, NEW deepen \in BOOLEAN,
           Held(S, cs), cs \subseteq stored, deepen \/ (cs = {} /\ bound = {})
    PROVE  EnoughFor(Enumerate(stored, wants, haves, deepen, bound, cs), wants, S, cs, bound)
<1> DEFINE stop == IF cs # {} THEN cs ELSE bound
           known == HaveSet(stored, haves, stop)
           asked == EffectiveWants(stored, wants, known, deepen, cs)
           found == Enumerate(stored, wants, haves, deepen, bound, cs)
<1>1. found = WantSet(asked, known, bound)
  BY DEF Enumerate
<1>2. Held(S, stop)
  BY HeldWithMore
<1>3. known \in SUBSET Object
  BY HaveSetIsLeast
<1>4. known \subseteq S
  <2>1. haves \subseteq S /\ \A o \in S \cap stored : Step(o, stop) \subseteq S
    BY <1>2 DEF Held
  <2> HIDE DEF stop
  <2> QED
    BY <2>1, HaveSetIsLeast
<1> HIDE DEF known
<1>5. asked \in SUBSET Object /\ wants \subseteq asked
  BY ObjectsAssumption DEF EffectiveWants
<1>6. deepen => \A s \in cs : Parents[s] \subseteq asked \cup known
  BY DEF EffectiveWants
<1> HIDE DEF asked, found
<1>7. /\ found \in SUBSET Object /\ asked \subseteq found \cup known
      /\ \A o \in found : Step(o, bound) \subseteq found \cup known
  BY <1>1, <1>5, WantSetIsLeast
<1>8. \A s \in cs : Parents[s] \subseteq S \cup found
  BY <1>4, <1>6, <1>7
<1>9. Held(S \cup found, bound)
  <2> SUFFICES ASSUME NEW o \in S \cup found PROVE Step(o, bound) \subseteq S \cup found
    BY DEF Held
  <2>1. CASE o \in found
    BY <2>1, <1>4, <1>7
  <2>2. CASE o \in S
    <3>1. Step(o, cs) \subseteq S
      BY <2>2 DEF Held
    <3>2. Step(o, bound) \subseteq Points[o] /\ Points[o] \subseteq Step(o, cs) \cup Parents[o]
      BY <2>2, StepType
    <3>3. o \notin cs => Step(o, cs) = Points[o]
      BY <2>2, StepType
    <3> QED
      BY <1>8, <3>1, <3>2, <3>3
  <2> QED
    BY <2>1, <2>2
<1> QED
  BY <1>4, <1>5, <1>7, <1>8, <1>9 DEF found, EnoughFor

\* A pack of tags to follow, asked for without a boundary: what the client lacks of the
\* walk behind its haves lies behind its boundary, so all that is new are the tags.
LEMMA TagsAreEnough ==
    ASSUME FetchAssumption, NEW stored \in SUBSET Object, NEW wants \in SUBSET TagObject,
           NEW S \in SUBSET Object, NEW haves \in SUBSET S, NEW cs,
           Held(S, cs), Held(S, HaveSet(stored, haves, {})), \A w \in wants : Points[w] \subseteq S
    PROVE  LET found == Enumerate(stored, wants, haves, FALSE, {}, {})
           IN /\ found \in SUBSET Object /\ wants \subseteq S \cup found
              /\ Held(S \cup found, cs)
<1> DEFINE known == HaveSet(stored, haves, {})
           found == Enumerate(stored, wants, haves, FALSE, {}, {})
<1>1. found = WantSet(wants, known, {}) /\ wants \in SUBSET Object
  BY DEF Enumerate, EffectiveWants, FetchAssumption
<1>2. known \cap TagObject \subseteq S
  <2> DEFINE T == {o \in Object : o \in TagObject => o \in S}
  <2>1. haves \subseteq T
    OBVIOUS
  <2>2. ASSUME NEW o \in T \cap stored PROVE Step(o, {}) \subseteq T
    <3>1. CASE o \in TagObject
      <4>1. Step(o, cs) = Points[o] /\ Step(o, {}) = Points[o]
        BY <3>1, ObjectsAssumption DEF Step, FetchAssumption
      <4> QED
        BY <3>1, <4>1 DEF Held
    <3>2. CASE o \notin TagObject
      BY <3>2, StepType DEF FetchAssumption
    <3> QED
      BY <3>1, <3>2
  <2> HIDE DEF T
  <2>3. known \subseteq T
    BY <2>1, <2>2, HaveSetIsLeast
  <2> QED
    BY <2>3 DEF T
<1> HIDE DEF known
<1>3. /\ found \in SUBSET Object /\ wants \subseteq found \cup known
      /\ \A T : wants \ known \subseteq T /\ (\A o \in T \cap Object : Step(o, {}) \ known \subseteq T)
                    => found \subseteq T
  <2> HIDE DEF found
  <2> QED
    BY <1>1, WantSetIsLeast
<1> HIDE DEF found
<1>4. found \subseteq wants \cup (S \ known)
  <2> DEFINE T == wants \cup (S \ known)
  <2>1. ASSUME NEW o \in T PROVE Step(o, {}) \ known \subseteq T
    <3>1. Step(o, {}) = Points[o]
      BY <1>1, StepType
    <3>2. CASE o \in wants
      BY <3>1, <3>2
    <3>3. CASE o \in S \ known
      <4>1. Step(o, known) = Points[o]
        BY <3>3, StepType
      <4> QED
        BY <3>1, <3>3, <4>1 DEF Held, known
    <3> QED
      BY <3>2, <3>3
  <2> QED
    BY <1>3, <2>1
<1>5. Held(S \cup found, cs)
  <2> SUFFICES ASSUME NEW o \in S \cup found PROVE Step(o, cs) \subseteq S
    BY DEF Held
  <2>1. CASE o \in S
    BY <2>1 DEF Held
  <2>2. CASE o \in wants
    BY <1>1, <2>2, StepType
  <2> QED
    BY <1>4, <2>1, <2>2
<1>6. wants \subseteq S \cup found
  BY <1>2, <1>3
<1> QED
  BY <1>3, <1>5, <1>6 DEF found

\* Objects whose own content is there may come along.
LEMMA MoreComeAlong ==
    ASSUME NEW S \in SUBSET Object, NEW extra \in SUBSET Object, NEW bound, Held(S, bound),
           \A o \in extra : Points[o] \subseteq S
    PROVE  Held(S \cup extra, bound)
BY StepType DEF Held

-------------------------------------------------------------------------------
(* The pack cache.                                                         *)

CacheEntry == [key : SUBSET Object, pack : SUBSET Object]

\* total is what Bytes computes.
IsTotal(total, entries, n) ==
    total = [i \in 0..n |-> IF i = 0 THEN 0 ELSE total[i - 1] + Cardinality(entries[i].pack)]

LEMMA TotalExists ==
    ASSUME NEW entries, NEW last \in Nat
    PROVE  \E total : IsTotal(total, entries, last)
<1> DEFINE Bad == {n \in Nat : ~\E total : IsTotal(total, entries, n)}
<1> SUFFICES ASSUME Bad # {} PROVE FALSE
  OBVIOUS
<1>1. PICK n \in Bad : \A m \in Bad : n <= m
  BY Least
<1>2. n # 0
  <2>1. IsTotal([i \in 0..0 |-> 0], entries, 0)
    BY DEF IsTotal
  <2> QED
    BY <2>1, <1>1
<1>3. n - 1 \in Nat /\ n - 1 \notin Bad
  BY <1>1, <1>2
<1>4. PICK total : IsTotal(total, entries, n - 1)
  BY <1>3
<1> DEFINE extra == [i \in 0..n |-> IF i = n THEN total[n - 1] + Cardinality(entries[n].pack)
                                   ELSE total[i]]
<1>5. IsTotal(extra, entries, n)
  <2> SUFFICES ASSUME NEW i \in 0..n
               PROVE  extra[i] = IF i = 0 THEN 0 ELSE extra[i - 1] + Cardinality(entries[i].pack)
    BY DEF IsTotal
  <2>1. CASE i = n
    BY <2>1, <1>2, <1>3
  <2>2. CASE i # n
    <3>1. extra[i] = total[i] /\ i \in 0..n - 1
      BY <2>2
    <3>2. total[i] = IF i = 0 THEN 0 ELSE total[i - 1] + Cardinality(entries[i].pack)
      BY <3>1, <1>4 DEF IsTotal
    <3>3. i # 0 => extra[i - 1] = total[i - 1]
      BY <2>2
    <3> QED
      BY <3>1, <3>2, <3>3
  <2> QED
    BY <2>1, <2>2
<1> QED
  BY <1>1, <1>5

LEMMA BytesIsTotal ==
    ASSUME NEW entries, Len(entries) \in Nat
    PROVE  \E total : /\ IsTotal(total, entries, Len(entries))
                      /\ Bytes(entries) = total[Len(entries)]
<1> DEFINE total == CHOOSE t : IsTotal(t, entries, Len(entries))
<1>1. IsTotal(total, entries, Len(entries))
  BY TotalExists, Zenon
<1>2. Bytes(entries) = total[Len(entries)]
  BY Zenon DEF Bytes, IsTotal
<1> QED
  BY <1>1, <1>2

\* A step of the sum adds what the entry there holds.
LEMMA TotalStep ==
    ASSUME NEW total, NEW entries, NEW n \in Nat, IsTotal(total, entries, n), NEW i \in 1..n
    PROVE  total[i] = total[i - 1] + Cardinality(entries[i].pack)
<1>1. i \in 0..n /\ i # 0
  OBVIOUS
<1>2. total[i] = IF i = 0 THEN 0 ELSE total[i - 1] + Cardinality(entries[i].pack)
  BY <1>1, Zenon DEF IsTotal
<1> QED
  BY <1>1, <1>2

\* An entry more counts for the objects in its pack.
LEMMA BytesOfMore ==
    ASSUME NEW entries \in Seq(CacheEntry), NEW e \in CacheEntry
    PROVE  Bytes(Append(entries, e)) = Bytes(entries) + Cardinality(e.pack)
<1> DEFINE n == Len(entries)
           extra == Append(entries, e)
<1>1. n \in Nat /\ extra \in Seq(CacheEntry) /\ Len(extra) = n + 1 /\ extra[n + 1] = e
      /\ \A i \in 1..n : extra[i] = entries[i]
  OBVIOUS
<1>2. PICK few : IsTotal(few, entries, n) /\ Bytes(entries) = few[n]
  BY <1>1, BytesIsTotal
<1>3. PICK all : IsTotal(all, extra, n + 1) /\ Bytes(extra) = all[n + 1]
  <2> HIDE DEF extra
  <2> QED
    BY <1>1, BytesIsTotal
<1> HIDE DEF extra
<1> DEFINE Bad == {i \in 0..n : few[i] # all[i]}
<1>4. Bad = {}
  <2> SUFFICES ASSUME Bad # {} PROVE FALSE
    OBVIOUS
  <2>1. PICK i \in Bad : \A j \in Bad : i <= j
    <3>1. Bad \in SUBSET Nat
      BY <1>1
    <3> QED
      BY <3>1, Least
  <2>2. i # 0
    BY <1>2, <1>3, <1>1 DEF IsTotal
  <2>3. i \in 1..n /\ i - 1 \in 0..n /\ few[i - 1] = all[i - 1]
    BY <1>1, <2>1, <2>2
  <2>4. few[i] = few[i - 1] + Cardinality(entries[i].pack)
    BY <1>2, <1>1, <2>3, TotalStep
  <2>5. all[i] = all[i - 1] + Cardinality(extra[i].pack)
    <3>1. n + 1 \in Nat /\ i \in 1..n + 1
      BY <1>1, <2>3
    <3> HIDE DEF n, extra, Bad
    <3> QED
      BY <1>3, <3>1, TotalStep
  <2> QED
    BY <1>1, <2>1, <2>3, <2>4, <2>5
<1>5. all[n] = few[n]
  BY <1>1, <1>4
<1>6. all[n + 1] = all[n] + Cardinality(extra[n + 1].pack)
  <2>1. n + 1 \in Nat /\ n + 1 \in 1..n + 1 /\ (n + 1) - 1 = n
    BY <1>1
  <2> HIDE DEF n
  <2>2. all[n + 1] = all[(n + 1) - 1] + Cardinality(extra[n + 1].pack)
    BY <1>3, <2>1, TotalStep
  <2> QED
    BY <2>1, <2>2
<1> QED
  BY <1>1, <1>2, <1>3, <1>5, <1>6 DEF extra

LEMMA BytesOfNone == Bytes(<<>>) = 0
<1>1. Len(<<>>) = 0
  OBVIOUS
<1>2. PICK total : IsTotal(total, <<>>, 0) /\ Bytes(<<>>) = total[0]
  BY <1>1, BytesIsTotal
<1> QED
  BY <1>2 DEF IsTotal

\* Making room and adding an entry keeps the cache within its size, and adds nothing else.
LEMMA CachedKeepsSize ==
    ASSUME FetchAssumption, cache \in Seq(CacheEntry), Bytes(cache) <= MaxBytes, NEW e \in CacheEntry
    PROVE  /\ Cached(e) \in Seq(CacheEntry) /\ Bytes(Cached(e)) <= MaxBytes
           /\ \A i \in DOMAIN Cached(e) :
                 Cached(e)[i] = e \/ \E j \in DOMAIN cache : Cached(e)[i] = cache[j]
<1>1. CASE Entry(e.key) # {} \/ Cardinality(e.pack) > MaxBytes
  BY <1>1 DEF Cached
<1>2. CASE ~(Entry(e.key) # {} \/ Cardinality(e.pack) > MaxBytes)
  <2> DEFINE n == Len(cache)
             Fits(i) == Bytes(SubSeq(cache, i, n)) + Cardinality(e.pack) <= MaxBytes
             First(i) == Fits(i) /\ \A j \in 1..i - 1 : ~Fits(j)
             keep == CHOOSE i \in 1..n + 1 : First(i)
             kept == SubSeq(cache, keep, n)
  <2>1. Cached(e) = Append(kept, e)
    BY <1>2 DEF Cached
  <2>2. n \in Nat
    OBVIOUS
  <2>3. Cardinality(e.pack) \in Nat /\ MaxBytes \in Nat
    BY FS_Subset, FS_CardinalityType DEF FetchAssumption, CacheEntry
  <2>4. Fits(n + 1)
    <3>1. SubSeq(cache, n + 1, n) = <<>>
      BY <2>2
    <3>2. Bytes(SubSeq(cache, n + 1, n)) = 0
      BY <3>1, BytesOfNone, Zenon
    <3>3. 0 + Cardinality(e.pack) <= MaxBytes
      BY <1>2, <2>3
    <3> QED
      BY <3>2, <3>3
  <2> HIDE DEF Fits
  <2>5. keep \in 1..n + 1 /\ First(keep)
    <3> DEFINE T == {i \in 1..n + 1 : Fits(i)}
    <3>1. T \in SUBSET Nat /\ T # {}
      BY <2>2, <2>4
    <3>2. PICK i \in T : \A j \in T : i <= j
      BY <3>1, Least
    <3>3. i \in 1..n + 1 /\ First(i)
      BY <2>2, <3>2
    <3> HIDE DEF First
    <3> QED
      BY <3>3, Zenon
  <2> HIDE DEF keep
  <2>6. /\ kept \in Seq(CacheEntry)
        /\ \A i \in DOMAIN kept : \E j \in DOMAIN cache : kept[i] = cache[j]
    <3>1. keep \in 1..n + 1 /\ keep \in Nat
      BY <2>2, <2>5
    <3>2. kept \in Seq(CacheEntry) /\ DOMAIN kept = 1..(n - keep + 1)
      BY <2>2, <3>1
    <3>3. \A i \in 1..(n - keep + 1) : kept[i] = cache[i + keep - 1] /\ i + keep - 1 \in 1..n
      BY <2>2, <3>1
    <3>4. DOMAIN cache = 1..n
      OBVIOUS
    <3> QED
      BY <3>2, <3>3, <3>4
  <2>7. Bytes(kept) + Cardinality(e.pack) <= MaxBytes
    BY <2>5 DEF Fits
  <2> HIDE DEF kept
  <2>8. Bytes(Cached(e)) <= MaxBytes
    BY <2>1, <2>6, <2>7, BytesOfMore
  <2>9. \A i \in DOMAIN Append(kept, e) :
            \/ Append(kept, e)[i] = e
            \/ i \in DOMAIN kept /\ Append(kept, e)[i] = kept[i]
    BY <2>6
  <2> QED
    BY <2>1, <2>6, <2>8, <2>9
<1> QED
  BY <1>1, <1>2

\* A closed pack that holds the wants holds all they reach.
LEMMA ClosedHoldsReach ==
    ASSUME NEW S \in SUBSET Object, Closed(S), NEW wants \in SUBSET S
    PROVE  Reachable(wants) \subseteq S
BY DEF Reachable, Closure

-------------------------------------------------------------------------------
(* The invariant.                                                          *)

\* What a fetch or clone was shown of the refs it is about, and what they reach.
PlanTips(c) == {adv[c][r] : r \in Planned(c, req[c], adv[c])}
PlanReach(c) == HaveSet(sobjs, PlanTips(c), {})

\* The client with the pack it has received.
Stored(c) == cobjs[c] \cup reply[c].pack

ServerInv ==
    /\ Closed(sobjs) /\ Values(srefs) \subseteq sobjs
    /\ \A i \in DOMAIN cache : Closed(cache[i].pack) /\ cache[i].key \subseteq cache[i].pack

\* The client has all that its refs reach, up to its boundary.
Complete(c) == Spread(Values(crefs[c]), [o \in Object |-> Step(o, cshallow[c])]) \subseteq cobjs[c]

\* What the files of a client say, whatever its command is doing.
FilesInv(c) ==
    /\ Values(crefs[c]) \subseteq cobjs[c] /\ cshallow[c] \subseteq sobjs
    /\ pc[c] # "shallow" => Held(cobjs[c], cshallow[c])
    /\ pc[c] = "shallow" => Held(cobjs[c], reply[c].shallow) /\ Complete(c)
    /\ IF pc[c] = "idle" THEN req[c] = NoOption ELSE exists[c] <=> ~req[c].clone

\* A request for the refs: what is not asked for is there, and a client with a boundary
\* names it and asks for a depth.
RefsAskedInv(c) ==
    pc[c] \in {"request", "build"} /\ ~ask[c].tags =>
       /\ ask[c].haves \subseteq cobjs[c]
       /\ ask[c].wants \subseteq PlanTips(c) /\ PlanTips(c) \subseteq ask[c].wants \cup cobjs[c]
       /\ ask[c].shallow = cshallow[c]
       /\ ask[c].depth = NoDepth => cshallow[c] = {}

\* A request for tags to follow: what they tag is there, and what the client lacks is
\* behind its haves.
TagsAskedInv(c) ==
    pc[c] \in {"request", "build"} /\ ask[c].tags =>
       /\ ask[c].haves \subseteq cobjs[c] /\ Held(cobjs[c], HaveSet(sobjs, ask[c].haves, {}))
       /\ ask[c].wants \subseteq TagObject /\ \A w \in ask[c].wants : Points[w] \subseteq cobjs[c]
       /\ ask[c].depth = NoDepth /\ ask[c].shallow = {}
       /\ \A r \in todo[c] : adv[c][r] \in ask[c].wants \cup cobjs[c]

\* The new boundary is there before the pack.
BoundaryInv(c) ==
    pc[c] \in {"build", "ingest", "shallow"} =>
       /\ reply[c].shallow \subseteq sobjs \cap PlanReach(c)
       /\ reply[c].shallow \cap reply[c].unshallow = {}
       /\ req[c].depth = NoDepth \/ ask[c].tags => reply[c].shallow = {}

\* Of a request with a depth the same is asked until the boundary is written.
PhaseInv(c) ==
    /\ pc[c] \in {"request", "build", "ingest"} /\ ~ask[c].tags => ask[c].depth = req[c].depth
    /\ pc[c] \in {"request", "build", "ingest"} /\ ask[c].tags => ~req[c].clone
    /\ pc[c] = "shallow" => req[c].depth # NoDepth /\ ~ask[c].tags
    /\ pc[c] = "tags" => ~req[c].clone

\* What a pack brings.
PackInv(c) ==
    pc[c] = "ingest" =>
       /\ Held(Stored(c), IF ask[c].tags THEN cshallow[c] ELSE reply[c].shallow)
       /\ ask[c].tags => \A r \in todo[c] : adv[c][r] \in Stored(c)
       /\ ~ask[c].tags => PlanTips(c) \subseteq Stored(c)
       /\ ~ask[c].tags => \A s \in cshallow[c] : Parents[s] \subseteq Stored(c)
       /\ ~ask[c].tags /\ req[c].depth = NoDepth => cshallow[c] = {}

\* The refs that are still to be moved, and those that have been.
RefsInv(c) ==
    /\ pc[c] \in {"request", "build", "ingest", "shallow"} /\ ~ask[c].tags =>
          todo[c] = Planned(c, req[c], adv[c])
    /\ pc[c] = "shallow" => \A s \in cshallow[c] : Parents[s] \subseteq cobjs[c]
    /\ pc[c] \in {"shallow", "refs"} => PlanTips(c) \subseteq cobjs[c]
    /\ pc[c] = "refs" => todo[c] \subseteq Planned(c, req[c], adv[c])
    /\ pc[c] = "refs" /\ ~req[c].tags =>
          /\ Held(cobjs[c], PlanReach(c))
          /\ \A r \in Planned(c, req[c], adv[c]) \ todo[c] : crefs[c][r] = adv[c][r]
    /\ pc[c] = "tags" => \A r \in todo[c] : adv[c][r] \in cobjs[c]

ClientInv(c) ==
    /\ FilesInv(c) /\ PhaseInv(c) /\ RefsAskedInv(c) /\ TagsAskedInv(c)
    /\ BoundaryInv(c) /\ PackInv(c) /\ RefsInv(c)

FetchInv ==
    /\ FetchTypeOK /\ ServerInv
    /\ \A c \in Client : ClientInv(c)

\* A step of a client's command, and one of the rest of the server.
ClientActs(c) ==
    \/ \E q \in Options : Start(c, q)
    \/ CloneEmpty(c) \/ Serve(c) \/ Build(c) \/ Ingest(c) \/ ApplyShallow(c)
    \/ \E r \in Ref : UpdateRef(c, r)
    \/ FinishClone(c) \/ Follow(c)
    \/ \E t \in Tag : FollowTag(c, t)
    \/ FinishFetch(c) \/ Lost(c)

ServerActs ==
    \/ \E r \in Ref : \E v \in Tips[r] : Push(r, v)
    \/ Gc \/ ClearCache

-------------------------------------------------------------------------------
(* Types.                                                                  *)

LEMMA ValuesType ==
    ASSUME NEW D, NEW m \in [D -> Object \cup {None}]
    PROVE  Values(m) \in SUBSET Object
BY DEF Values

LEMMA VisibleType ==
    ASSUME FetchTypeOK
    PROVE  Visible \in [Ref -> Object \cup {None}]
BY DEF FetchTypeOK, Visible

LEMMA OptionType ==
    ASSUME NEW q \in Option
    PROVE  /\ q.clone \in BOOLEAN /\ q.tags \in BOOLEAN /\ q.prune \in BOOLEAN
           /\ q.depth \in Depths \cup {NoDepth}
BY DEF Option

LEMMA PlannedType ==
    ASSUME FetchAssumption, NEW c, NEW q, NEW shown
    PROVE  Planned(c, q, shown) \in SUBSET Ref
BY DEF Planned, Ref, FetchAssumption

LEMMA PlanTipsType ==
    ASSUME FetchAssumption, FetchTypeOK, NEW c \in Client
    PROVE  /\ PlanTips(c) \in SUBSET Object
           /\ PlanReach(c) \in SUBSET Object
<1>1. \A r \in Planned(c, req[c], adv[c]) : r \in Ref /\ adv[c][r] # None
  BY PlannedType DEF Planned
<1>2. adv[c] \in [Ref -> Object \cup {None}]
  BY DEF FetchTypeOK
<1>3. PlanTips(c) \in SUBSET Object
  BY <1>1, <1>2 DEF PlanTips
<1> QED
  BY <1>3, HaveSetIsLeast DEF PlanReach, FetchTypeOK

\* What a request asks for and is given.
AskType == [wants : SUBSET Object, haves : SUBSET Object, depth : Depths \cup {NoDepth},
            shallow : SUBSET Object, tags : BOOLEAN]
ReplyType == [pack : SUBSET Object, shallow : SUBSET Object, unshallow : SUBSET Object]

LEMMA NothingType == NoAsk \in AskType /\ NoReply \in ReplyType /\ NoOption \in Option
                     /\ NoRefs \in [Ref -> Object \cup {None}]
BY DEF NoAsk, NoReply, NoOption, NoRefs, AskType, ReplyType, Option

\* The variables of a command, and those of the files.
CallTypes ==
    /\ pc \in [Client -> {"idle", "request", "build", "ingest", "shallow", "refs", "tags"}]
    /\ req \in [Client -> Option] /\ adv \in [Client -> [Ref -> Object \cup {None}]]
    /\ ask \in [Client -> AskType] /\ reply \in [Client -> ReplyType]
    /\ todo \in [Client -> SUBSET Ref]

FileTypes ==
    /\ exists \in [Client -> BOOLEAN] /\ narrow \in [Client -> BOOLEAN]
    /\ cobjs \in [Client -> SUBSET Object] /\ cshallow \in [Client -> SUBSET Object]
    /\ crefs \in [Client -> [Ref \cup {Local} -> Object \cup {None}]]

ServerTypes ==
    /\ sobjs \subseteq Object /\ srefs \in [Ref -> Object \cup {None}]
    /\ cache \in Seq(CacheEntry) /\ Bytes(cache) <= MaxBytes

LEMMA TypesAre ==
    /\ FetchTypeOK <=> ServerTypes /\ FileTypes /\ CallTypes
    /\ FetchTypeOK' <=> ServerTypes' /\ FileTypes' /\ CallTypes'
BY DEF FetchTypeOK, ServerTypes, FileTypes, CallTypes, CacheEntry, AskType, ReplyType

LEMMA ReturnTypes ==
    ASSUME CallTypes, NEW c \in Client, Return(c)
    PROVE  CallTypes'
<1>1. /\ req' = [req EXCEPT ![c] = NoOption] /\ req' \in [Client -> Option]
      /\ adv' \in [Client -> [Ref -> Object \cup {None}]]
      /\ ask' \in [Client -> AskType] /\ reply' \in [Client -> ReplyType]
  BY NothingType DEF CallTypes, Return
<1>2. /\ todo' \in [Client -> SUBSET Ref]
      /\ pc' \in [Client -> {"idle", "request", "build", "ingest", "shallow", "refs", "tags"}]
  BY DEF CallTypes, Return
<1> QED
  BY <1>1, <1>2 DEF CallTypes

LEMMA StartTypes ==
    ASSUME FetchAssumption, FetchTypeOK, NEW c \in Client, NEW q \in Options, Start(c, q)
    PROVE  FetchTypeOK'
<1>1. q \in Option
  BY DEF FetchAssumption
<1> DEFINE plan == Planned(c, q, Visible)
           all == {Visible[r] : r \in plan}
           new == all \ Haves(c, q)
           wants == IF new = {} /\ q.depth # NoDepth THEN all ELSE new
           shipped == [wants |-> wants, haves |-> Haves(c, q), depth |-> q.depth,
                    shallow |-> IF q.depth = NoDepth THEN {} ELSE cshallow[c], tags |-> FALSE]
<1>2. plan \in SUBSET Ref /\ \A r \in plan : Visible[r] # None
  BY PlannedType DEF Planned
<1>3. wants \in SUBSET Object
  BY <1>2, VisibleType
<1>4. Haves(c, q) \in SUBSET Object
  BY ValuesType DEF Haves, FetchTypeOK
<1>5. shipped \in AskType
  BY <1>1, <1>3, <1>4, OptionType DEF AskType, FetchTypeOK
<1>6. /\ ask' = [ask EXCEPT ![c] = shipped] /\ todo' = [todo EXCEPT ![c] = plan]
      /\ pc' = [pc EXCEPT ![c] = IF wants = {} THEN "refs" ELSE "request"]
      /\ adv' = [adv EXCEPT ![c] = Visible] /\ req' = [req EXCEPT ![c] = q]
      /\ reply' = reply
  BY DEF Start
<1> HIDE DEF shipped, plan, wants
<1>7. CallTypes'
  BY <1>1, <1>2, <1>5, <1>6, VisibleType, TypesAre DEF CallTypes
<1>8. narrow' \in [Client -> BOOLEAN]
  BY <1>1, OptionType DEF FetchTypeOK, Start
<1>9. FileTypes' /\ ServerTypes'
  BY <1>8, TypesAre DEF FileTypes, ServerTypes, Start, serverVars
<1> QED
  BY <1>7, <1>9, TypesAre

LEMMA EntryType ==
    ASSUME FetchTypeOK, NEW i \in DOMAIN cache
    PROVE  cache[i].key \in SUBSET Object /\ cache[i].pack \in SUBSET Object
<1>1. cache \in Seq(CacheEntry)
  BY DEF FetchTypeOK, CacheEntry
<1>2. i \in 1..Len(cache)
  BY <1>1
<1>3. cache[i] \in CacheEntry
  BY <1>1, <1>2
<1> QED
  BY <1>3 DEF CacheEntry

\* The boundary of a request.
LEMMA BoundaryIs ==
    ASSUME FetchAssumption, FetchTypeOK, NEW c \in Client
    PROVE  /\ Boundary(c).shallow \subseteq sobjs \cap HaveSet(sobjs, ask[c].wants, {})
           /\ Boundary(c).shallow \in SUBSET Object /\ Boundary(c).unshallow \in SUBSET Object
           /\ Boundary(c).shallow \cap Boundary(c).unshallow = {}
           /\ ask[c].depth = NoDepth => Boundary(c).shallow = {}
<1>1. /\ sobjs \in SUBSET Object /\ ask[c].wants \in SUBSET Object
      /\ ask[c].depth \in Depths \cup {NoDepth} /\ ask[c].shallow \in SUBSET Object
  BY DEF FetchTypeOK
<1>2. CASE ask[c].depth = NoDepth
  BY <1>2 DEF Boundary
<1>3. CASE ask[c].depth # NoDepth
  <2> DEFINE update == Shallow(sobjs, ask[c].wants, ask[c].depth, ask[c].shallow)
  <2>1. /\ update.shallow \subseteq sobjs /\ update.unshallow \subseteq ask[c].shallow
        /\ update.shallow \cap update.unshallow = {}
        /\ update.shallow \subseteq HaveSet(sobjs, ask[c].wants, {})
    BY <1>1, <1>3, ShallowIsApart
  <2>2. Boundary(c) = update
    BY <1>3 DEF Boundary
  <2> HIDE DEF update
  <2> QED
    BY <1>1, <1>3, <2>1, <2>2
<1> QED
  BY <1>2, <1>3

\* The pack of a request that hits the cache.
Hits(c) == IF Cacheable(ask[c]) THEN Entry(ask[c].wants) ELSE {}

LEMMA ServeIs ==
    ASSUME FetchTypeOK, NEW c \in Client, Serve(c)
    PROVE  /\ pc[c] = "request" /\ UNCHANGED <<serverVars, repoVars, req, adv, ask, todo, counts>>
           /\ \E pack \in SUBSET Object :
                /\ reply' = [reply EXCEPT ![c] = [pack |-> pack, shallow |-> Boundary(c).shallow,
                                                  unshallow |-> Boundary(c).unshallow]]
                /\ \/ pack = {} /\ pc' = [pc EXCEPT ![c] = "build"]
                   \/ /\ Cacheable(ask[c]) /\ pc' = [pc EXCEPT ![c] = "ingest"]
                      /\ \E i \in DOMAIN cache : cache[i].key = ask[c].wants /\ cache[i].pack = pack
<1> DEFINE hits == Hits(c)
           pack == IF hits = {} THEN {} ELSE cache[CHOOSE i \in hits : TRUE].pack
<1>1. /\ reply' = [reply EXCEPT ![c] = [pack |-> pack, shallow |-> Boundary(c).shallow,
                                        unshallow |-> Boundary(c).unshallow]]
      /\ pc' = [pc EXCEPT ![c] = IF hits = {} THEN "build" ELSE "ingest"]
  BY DEF Serve, Hits
<1>2. CASE hits = {}
  <2>1. pack = {} /\ pc' = [pc EXCEPT ![c] = "build"]
    BY <1>1, <1>2
  <2> QED
    BY <1>1, <2>1 DEF Serve
<1>3. CASE hits # {}
  <2> DEFINE i == CHOOSE i \in hits : TRUE
  <2>1. i \in hits
    BY <1>3
  <2>2. Cacheable(ask[c]) /\ i \in DOMAIN cache /\ cache[i].key = ask[c].wants
    BY <2>1 DEF Hits, Entry
  <2>3. pack = cache[i].pack
    BY <1>3
  <2>4. pack \in SUBSET Object
    BY <2>2, <2>3, EntryType
  <2>5. pc' = [pc EXCEPT ![c] = "ingest"]
    BY <1>1, <1>3
  <2> HIDE DEF i, hits
  <2> QED
    BY <1>1, <2>2, <2>3, <2>4, <2>5 DEF Serve
<1> QED
  BY <1>2, <1>3

\* The objects found are some that are stored, and tags come along.
LEMMA BuildIs ==
    ASSUME FetchTypeOK, NEW c \in Client, Build(c)
    PROVE  LET found == Walk(c)
               shipped == IF found = {} THEN {} ELSE found \cup IncludedTags(found)
           IN /\ pc[c] = "build" /\ pc' = [pc EXCEPT ![c] = "ingest"]
              /\ found \in SUBSET sobjs /\ shipped \in SUBSET Object
              /\ reply' = [reply EXCEPT ![c].pack = shipped]
              /\ cache' = IF Cacheable(ask[c]) /\ shipped # {}
                          THEN Cached([key |-> ask[c].wants, pack |-> shipped]) ELSE cache
              /\ UNCHANGED <<sobjs, srefs, repoVars, req, adv, ask, todo, counts>>
<1> DEFINE found == Walk(c)
           shipped == IF found = {} THEN {} ELSE found \cup IncludedTags(found)
<1>1. found \in SUBSET sobjs
  BY DEF Build
<1>2. IncludedTags(found) \subseteq sobjs
  BY DEF IncludedTags
<1>3. shipped \in SUBSET Object
  BY <1>1, <1>2 DEF FetchTypeOK
<1> QED
  BY <1>1, <1>3 DEF Build

LEMMA ServeTypes ==
    ASSUME FetchAssumption, FetchTypeOK, NEW c \in Client, Serve(c)
    PROVE  FetchTypeOK'
<1>1. PICK pack \in SUBSET Object :
         /\ reply' = [reply EXCEPT ![c] = [pack |-> pack, shallow |-> Boundary(c).shallow,
                                           unshallow |-> Boundary(c).unshallow]]
         /\ \/ pc' = [pc EXCEPT ![c] = "build"]
            \/ pc' = [pc EXCEPT ![c] = "ingest"]
  BY ServeIs
<1>2. UNCHANGED <<serverVars, repoVars, req, adv, ask, todo>>
  BY ServeIs
<1>3. [pack |-> pack, shallow |-> Boundary(c).shallow, unshallow |-> Boundary(c).unshallow] \in ReplyType
  BY BoundaryIs DEF ReplyType
<1>4. CallTypes'
  BY <1>1, <1>2, <1>3, TypesAre DEF CallTypes
<1> QED
  BY <1>2, <1>4, TypesAre DEF FileTypes, ServerTypes, serverVars, repoVars

LEMMA BuildTypes ==
    ASSUME FetchAssumption, FetchTypeOK, NEW c \in Client, Build(c)
    PROVE  FetchTypeOK'
<1> DEFINE shipped == IF Walk(c) = {} THEN {} ELSE Walk(c) \cup IncludedTags(Walk(c))
<1>1. /\ shipped \in SUBSET Object
      /\ reply' = [reply EXCEPT ![c].pack = shipped]
      /\ cache' = cache \/ cache' = Cached([key |-> ask[c].wants, pack |-> shipped])
  BY BuildIs
<1> HIDE DEF shipped
<1>2. pc' = [pc EXCEPT ![c] = "ingest"] /\ UNCHANGED <<sobjs, srefs, repoVars, req, adv, ask, todo>>
  BY BuildIs
<1>3. [key |-> ask[c].wants, pack |-> shipped] \in CacheEntry
  BY <1>1 DEF FetchTypeOK, CacheEntry
<1>4. cache \in Seq(CacheEntry) /\ Bytes(cache) <= MaxBytes
  BY TypesAre DEF ServerTypes
<1>5. cache' \in Seq(CacheEntry) /\ Bytes(cache') <= MaxBytes
  BY <1>1, <1>3, <1>4, CachedKeepsSize
<1>6. ServerTypes'
  BY <1>2, <1>5, TypesAre DEF ServerTypes
<1>7. reply' \in [Client -> ReplyType]
  BY <1>1, TypesAre, ZenonT(60) DEF CallTypes, ReplyType
<1>8. CallTypes'
  BY <1>2, <1>7, TypesAre DEF CallTypes
<1> QED
  BY <1>2, <1>6, <1>8, TypesAre DEF FileTypes, repoVars

LEMMA IngestTypes ==
    ASSUME FetchTypeOK, NEW c \in Client, Ingest(c)
    PROVE  FetchTypeOK'
<1>1. reply' \in [Client -> ReplyType] /\ reply[c].pack \in SUBSET Object
  BY TypesAre DEF Ingest, CallTypes, ReplyType
<1>2. cobjs' \in [Client -> SUBSET Object]
  BY <1>1, TypesAre DEF Ingest, FileTypes
<1>3. CallTypes'
  BY <1>1, NothingType, TypesAre DEF Ingest, CallTypes
<1> QED
  BY <1>2, <1>3, TypesAre DEF Ingest, FileTypes, ServerTypes, serverVars

LEMMA ApplyShallowTypes ==
    ASSUME FetchTypeOK, NEW c \in Client, ApplyShallow(c)
    PROVE  FetchTypeOK'
<1>1. reply[c].shallow \in SUBSET Object
  BY TypesAre DEF CallTypes, ReplyType
<1>2. FileTypes'
  BY <1>1, TypesAre DEF ApplyShallow, FileTypes
<1>3. CallTypes'
  BY NothingType, TypesAre DEF ApplyShallow, CallTypes
<1> QED
  BY <1>2, <1>3, TypesAre DEF ApplyShallow, ServerTypes, serverVars

LEMMA MoveTypes ==
    ASSUME FetchAssumption, FetchTypeOK, NEW c \in Client,
           \/ \E r \in Ref : UpdateRef(c, r)
           \/ \E t \in Tag : FollowTag(c, t)
    PROVE  FetchTypeOK'
<1>1. PICK r \in Ref : UpdateRef(c, r) \/ FollowTag(c, r)
  BY DEF Ref
<1>2. adv[c][r] \in Object \cup {None}
  BY DEF FetchTypeOK
<1>3. /\ crefs' = crefs \/ crefs' = [crefs EXCEPT ![c][r] = adv[c][r]]
      /\ todo' = [todo EXCEPT ![c] = @ \ {r}]
      /\ UNCHANGED <<serverVars, exists, cobjs, cshallow, narrow, pc, req, adv, ask, reply>>
  BY <1>1 DEF UpdateRef, FollowTag
<1>4. crefs' \in [Client -> [Ref \cup {Local} -> Object \cup {None}]]
  <2>1. crefs \in [Client -> [Ref \cup {Local} -> Object \cup {None}]]
    BY TypesAre DEF FileTypes
  <2>2. CASE crefs' = [crefs EXCEPT ![c][r] = adv[c][r]]
    <3>1. [crefs[c] EXCEPT ![r] = adv[c][r]] \in [Ref \cup {Local} -> Object \cup {None}]
      BY <1>2, <2>1
    <3> QED
      BY <2>1, <2>2, <3>1
  <2> QED
    BY <1>3, <2>1, <2>2
<1>5. FileTypes'
  BY <1>3, <1>4, TypesAre DEF FileTypes
<1>6. CallTypes'
  BY <1>3, TypesAre DEF CallTypes
<1> QED
  BY <1>3, <1>5, <1>6, TypesAre DEF ServerTypes, serverVars

LEMMA FollowTypes ==
    ASSUME FetchAssumption, FetchTypeOK, NEW c \in Client, Follow(c)
    PROVE  FetchTypeOK'
<1> DEFINE follow == IF req[c].tags THEN {}
                     ELSE {t \in Tag : /\ adv[c][t] # None /\ crefs[c][t] = None
                                       /\ Peeled(adv[c][t]) \in cobjs[c]}
           wants == {adv[c][t] : t \in follow} \ cobjs[c]
           shipped == [NoAsk EXCEPT !.wants = wants, !.haves = Values(crefs[c]), !.tags = TRUE]
<1>1. follow \in SUBSET Ref /\ \A t \in follow : adv[c][t] # None
  BY DEF Ref
<1>2. /\ ask' = [ask EXCEPT ![c] = shipped] /\ todo' = [todo EXCEPT ![c] = follow]
      /\ pc' = [pc EXCEPT ![c] = IF wants = {} THEN "tags" ELSE "request"]
      /\ UNCHANGED <<serverVars, repoVars, req, adv, reply>>
  BY DEF Follow
<1> HIDE DEF follow
<1>3. wants \in SUBSET Object
  BY <1>1 DEF FetchTypeOK
<1>4. Values(crefs[c]) \in SUBSET Object
  BY ValuesType DEF FetchTypeOK
<1>5. shipped \in AskType
  BY <1>3, <1>4 DEF NoAsk, AskType
<1> HIDE DEF shipped, wants
<1>6. CallTypes'
  BY <1>1, <1>2, <1>5, TypesAre DEF CallTypes
<1> QED
  BY <1>2, <1>6, TypesAre DEF FileTypes, ServerTypes, serverVars, repoVars

\* The end of a command, and the loss of one.
LEMMA ReturnedTypes ==
    ASSUME FetchAssumption, FetchTypeOK, NEW c \in Client,
           FinishClone(c) \/ FinishFetch(c) \/ Lost(c)
    PROVE  FetchTypeOK'
<1>1. Return(c) /\ UNCHANGED serverVars
  BY DEF FinishClone, FinishFetch, Lost
<1>2. CallTypes'
  BY <1>1, TypesAre, ReturnTypes
<1>3. CASE FinishClone(c)
  <2>1. adv[c][Default] \in Object \cup {None}
    BY DEF FetchTypeOK, FetchAssumption, Ref
  <2>2. FileTypes'
    BY <1>3, <2>1, TypesAre DEF FinishClone, FileTypes
  <2> QED
    BY <1>1, <1>2, <2>2, TypesAre DEF ServerTypes, serverVars
<1>4. CASE FinishFetch(c)
  <2>1. FileTypes'
    BY <1>4, TypesAre DEF FinishFetch, FileTypes
  <2> QED
    BY <1>1, <1>2, <2>1, TypesAre DEF ServerTypes, serverVars
<1>5. CASE Lost(c)
  <2>1. FileTypes'
    <3>1. CASE req[c].clone
      <4>1. crefs' = [crefs EXCEPT ![c] = [r \in DOMAIN crefs[c] |-> None]]
        BY <1>5, <3>1 DEF Lost
      <4>2. [r \in DOMAIN crefs[c] |-> None] \in [Ref \cup {Local} -> Object \cup {None}]
        BY TypesAre DEF FileTypes
      <4>3. crefs' \in [Client -> [Ref \cup {Local} -> Object \cup {None}]]
        BY <4>1, <4>2, TypesAre DEF FileTypes
      <4> QED
        BY <1>5, <3>1, <4>3, TypesAre DEF Lost, FileTypes
    <3>2. CASE ~req[c].clone
      BY <1>5, <3>2, TypesAre DEF Lost, FileTypes
    <3> QED
      BY <3>1, <3>2
  <2> QED
    BY <1>1, <1>2, <2>1, TypesAre DEF ServerTypes, serverVars
<1> QED
  BY <1>3, <1>4, <1>5

LEMMA ReachableType ==
    ASSUME NEW tips \in SUBSET Object
    PROVE  Reachable(tips) \in SUBSET Object
BY DEF Reachable, Closure

LEMMA ServerStepTypes ==
    ASSUME FetchAssumption, FetchTypeOK,
           ServerActs
    PROVE  FetchTypeOK'
<1>1. UNCHANGED <<repoVars, callVars>>
  BY DEF ServerActs, Push, Gc, ClearCache
<1>2. CASE \E r \in Ref : \E v \in Tips[r] : Push(r, v)
  <2>0. PICK r \in Ref : \E v \in Tips[r] : Push(r, v)
    BY <1>2
  <2>1. PICK v \in Tips[r] : Push(r, v)
    BY <2>0
  <2>2. v \in Object \cup {None} /\ (v # None => Closure[v] \subseteq Object)
    BY DEF FetchAssumption, Closure
  <2>3. ServerTypes'
    BY <2>1, <2>2, TypesAre DEF Push, ServerTypes
  <2> QED
    BY <1>1, <2>3, TypesAre DEF FileTypes, CallTypes, repoVars, callVars
<1>3. CASE Gc
  <2>1. sobjs' \in SUBSET Object
    BY <1>3, ValuesType, ReachableType DEF Gc, FetchTypeOK
  <2>2. ServerTypes'
    BY <1>3, <2>1, TypesAre DEF Gc, ServerTypes
  <2> QED
    BY <1>1, <2>2, TypesAre DEF FileTypes, CallTypes, repoVars, callVars
<1>4. CASE ClearCache
  <2>1. Bytes(<<>>) <= MaxBytes
    BY BytesOfNone DEF FetchAssumption
  <2>2. ServerTypes'
    BY <1>4, <2>1, TypesAre DEF ClearCache, ServerTypes
  <2> QED
    BY <1>1, <2>2, TypesAre DEF FileTypes, CallTypes, repoVars, callVars
<1> QED
  BY <1>2, <1>3, <1>4 DEF ServerActs

LEMMA CloneEmptyTypes ==
    ASSUME FetchTypeOK, NEW c \in Client, CloneEmpty(c)
    PROVE  FetchTypeOK'
BY TypesAre DEF CloneEmpty, FileTypes, CallTypes, ServerTypes, serverVars, callVars

LEMMA TypesStay ==
    ASSUME FetchAssumption, FetchTypeOK, [FetchNext]_fetchVars
    PROVE  FetchTypeOK'
<1>1. CASE UNCHANGED fetchVars
  BY <1>1 DEF FetchTypeOK, fetchVars, serverVars, repoVars, callVars
<1>2. CASE FetchNext
  BY <1>2, StartTypes, CloneEmptyTypes, ServeTypes, BuildTypes, IngestTypes, ApplyShallowTypes,
     MoveTypes, FollowTypes, ReturnedTypes, ServerStepTypes DEF FetchNext, ClientActs, ServerActs
<1> QED
  BY <1>1, <1>2

LEMMA TypesBegin ==
    ASSUME FetchAssumption, FetchInit
    PROVE  FetchTypeOK
<1>1. srefs \in [Ref -> Object \cup {None}]
  BY NothingType DEF FetchInit, FetchAssumption
<1>2. ServerTypes
  BY <1>1, ValuesType, ReachableType, BytesOfNone, SMTT(40) DEF FetchInit, ServerTypes, FetchAssumption
<1>3. FileTypes
  BY DEF FetchInit, FileTypes
<1>4. CallTypes
  BY NothingType DEF FetchInit, CallTypes
<1> QED
  BY <1>2, <1>3, <1>4, TypesAre

-------------------------------------------------------------------------------
(* Other clients.                                                          *)

\* The files and the command of d are as they were.
Same(d) ==
    /\ exists'[d] = exists[d] /\ cobjs'[d] = cobjs[d] /\ crefs'[d] = crefs[d]
    /\ cshallow'[d] = cshallow[d] /\ narrow'[d] = narrow[d] /\ pc'[d] = pc[d] /\ req'[d] = req[d]
    /\ adv'[d] = adv[d] /\ ask'[d] = ask[d] /\ reply'[d] = reply[d] /\ todo'[d] = todo[d]

LEMMA SamePlan ==
    ASSUME NEW d, narrow'[d] = narrow[d], req'[d] = req[d], adv'[d] = adv[d]
    PROVE  /\ Planned(d, req[d], adv[d])' = Planned(d, req[d], adv[d])
           /\ PlanTips(d)' = PlanTips(d)
BY DEF Planned, PlanTips

\* With more objects on the server a plan reaches no less.
LEMMA PlanReachGrows ==
    ASSUME FetchAssumption, FetchTypeOK, NEW d \in Client, PlanTips(d)' = PlanTips(d),
           sobjs \subseteq sobjs', sobjs' \in SUBSET Object
    PROVE  PlanReach(d) \subseteq PlanReach(d)'
<1>1. PlanTips(d) \in SUBSET Object
  BY PlanTipsType
<1>2. PlanReach(d)' = HaveSet(sobjs', PlanTips(d), {})
  BY DEF PlanReach
<1> QED
  BY <1>1, <1>2, HaveSetGrows DEF PlanReach, FetchTypeOK

\* A client that does nothing keeps what it has, whatever is added to the server.
LEMMA ClientStays ==
    ASSUME FetchAssumption, FetchTypeOK, NEW d \in Client, ClientInv(d), Same(d),
           sobjs \subseteq sobjs', sobjs' \in SUBSET Object
    PROVE  ClientInv(d)'
<1>1. /\ Planned(d, req[d], adv[d])' = Planned(d, req[d], adv[d])
      /\ PlanTips(d)' = PlanTips(d)
  BY SamePlan DEF Same
<1>2. PlanReach(d) \subseteq PlanReach(d)'
  BY <1>1, PlanReachGrows
<1>3. cobjs[d] \in SUBSET Object /\ ask[d].haves \in SUBSET Object /\ sobjs \in SUBSET Object
  BY DEF FetchTypeOK
<1>4. HaveSet(sobjs, ask[d].haves, {}) \subseteq HaveSet(sobjs', ask[d].haves, {})
  BY <1>3, HaveSetGrows
<1>5. FilesInv(d)'
  BY DEF ClientInv, FilesInv, Complete, Same, Values
<1>6. PhaseInv(d)' /\ RefsAskedInv(d)'
  BY <1>1 DEF ClientInv, PhaseInv, RefsAskedInv, Same
<1>7. TagsAskedInv(d)'
  <2>1. Held(cobjs[d], HaveSet(sobjs, ask[d].haves, {})) => Held(cobjs[d], HaveSet(sobjs', ask[d].haves, {}))
    BY <1>3, <1>4, HeldWithMore
  <2> QED
    BY <2>1 DEF ClientInv, TagsAskedInv, Same
<1>8. BoundaryInv(d)'
  BY <1>2 DEF ClientInv, BoundaryInv, Same
<1>9. PackInv(d)'
  BY <1>1 DEF ClientInv, PackInv, Same, Stored
<1>10. RefsInv(d)'
  <2>1. Held(cobjs[d], PlanReach(d)) => Held(cobjs[d], PlanReach(d)')
    BY <1>2, <1>3, HeldWithMore
  <2> QED
    BY <1>1, <2>1 DEF ClientInv, RefsInv, Same
<1> QED
  BY <1>5, <1>6, <1>7, <1>8, <1>9, <1>10 DEF ClientInv

-------------------------------------------------------------------------------
(* The steps of a client.                                                  *)

LEMMA OthersSame ==
    ASSUME FetchTypeOK, NEW c \in Client, NEW d \in Client, d # c,
           ClientActs(c)
    PROVE  Same(d)
<1> USE DEF FetchTypeOK, Same, repoVars, callVars
<1>1. CASE \E q \in Options : Start(c, q)
  BY <1>1 DEF Start
<1>2. CASE CloneEmpty(c)
  BY <1>2 DEF CloneEmpty
<1>3. CASE Serve(c)
  BY <1>3 DEF Serve
<1>4. CASE Build(c)
  BY <1>4 DEF Build
<1>5. CASE Ingest(c)
  BY <1>5 DEF Ingest
<1>6. CASE ApplyShallow(c)
  BY <1>6 DEF ApplyShallow
<1>7. CASE \E r \in Ref : UpdateRef(c, r)
  <2>1. PICK r \in Ref : UpdateRef(c, r)
    BY <1>7
  <2>2. crefs' = crefs \/ crefs' = [crefs EXCEPT ![c][r] = adv[c][r]]
    BY <2>1 DEF UpdateRef
  <2>3. crefs'[d] = crefs[d]
    BY <2>2
  <2> QED
    BY <2>1, <2>3 DEF UpdateRef
<1>8. CASE FinishClone(c)
  BY <1>8 DEF FinishClone, Return
<1>9. CASE Follow(c)
  BY <1>9 DEF Follow
<1>10. CASE \E t \in Tag : FollowTag(c, t)
  BY <1>10 DEF FollowTag
<1>11. CASE FinishFetch(c)
  BY <1>11 DEF FinishFetch, Return
<1>12. CASE Lost(c)
  BY <1>12 DEF Lost, Return
<1> QED
  BY <1>1, <1>2, <1>3, <1>4, <1>5, <1>6, <1>7, <1>8, <1>9, <1>10, <1>11, <1>12 DEF ClientActs

\* A command plans what to fetch; one that asks for nothing has it all, and a client with
\* a boundary asks.
LEMMA StartInv ==
    ASSUME FetchAssumption, FetchDeployment, FetchTypeOK, FetchTypeOK', NEW c \in Client, ClientInv(c),
           NEW q \in Options, Start(c, q)
    PROVE  ClientInv(c)'
<1> DEFINE plan == Planned(c, q, Visible)
           all == {Visible[r] : r \in plan}
           new == all \ Haves(c, q)
           wants == IF new = {} /\ q.depth # NoDepth THEN all ELSE new
<1>1. /\ pc[c] = "idle" /\ (exists[c] <=> ~q.clone)
      /\ cshallow[c] = {} \/ (q.depth # NoDepth /\ wants # {})
  BY DEF Start, Allowed, FetchDeployment
<1>2. /\ req'[c] = q /\ adv'[c] = Visible /\ todo'[c] = plan
      /\ pc'[c] = IF wants = {} THEN "refs" ELSE "request"
      /\ ask'[c] = [wants |-> wants, haves |-> Haves(c, q), depth |-> q.depth,
                    shallow |-> IF q.depth = NoDepth THEN {} ELSE cshallow[c], tags |-> FALSE]
      /\ narrow'[c] = IF q.clone THEN q.depth # NoDepth ELSE narrow[c]
      /\ UNCHANGED <<sobjs, exists, cobjs, crefs, cshallow, reply>>
  BY DEF Start, FetchTypeOK, serverVars
<1>3. Planned(c, req[c], adv[c])' = plan
  BY <1>2 DEF Planned
<1>4. PlanTips(c)' = all
  BY <1>2, <1>3 DEF PlanTips
<1>5. Haves(c, q) \subseteq cobjs[c]
  BY DEF Haves, ClientInv, FilesInv
<1>6. all \subseteq wants \cup cobjs[c] /\ wants \subseteq all
  BY <1>5
<1>7. Held(cobjs[c], cshallow[c])
  BY <1>1 DEF ClientInv, FilesInv
<1> HIDE DEF wants, all, plan
<1>8. FilesInv(c)'
  BY <1>1, <1>2, <1>7 DEF ClientInv, FilesInv, Values
<1>9. PhaseInv(c)' /\ TagsAskedInv(c)' /\ BoundaryInv(c)' /\ PackInv(c)'
  BY <1>2 DEF PhaseInv, TagsAskedInv, BoundaryInv, PackInv
<1>10. RefsAskedInv(c)'
  BY <1>1, <1>2, <1>4, <1>5, <1>6 DEF RefsAskedInv
<1>11. RefsInv(c)'
  <2>1. wants = {} => Held(cobjs[c], PlanReach(c)')
    <3> SUFFICES ASSUME wants = {} PROVE Held(cobjs[c], PlanReach(c)')
      OBVIOUS
    <3>1. Held(cobjs[c], {}) /\ cobjs[c] \in SUBSET Object
      BY <1>1, <1>7 DEF FetchTypeOK
    <3> QED
      BY <3>1, ClosedIsHeld
  <2> QED
    BY <1>2, <1>3, <1>4, <1>6, <2>1 DEF RefsInv
<1> QED
  BY <1>8, <1>9, <1>10, <1>11 DEF ClientInv

LEMMA CloneEmptyInv ==
    ASSUME FetchTypeOK, NEW c \in Client, ClientInv(c), CloneEmpty(c)
    PROVE  ClientInv(c)'
<1>1. /\ pc[c] = "idle" /\ pc'[c] = "idle" /\ req'[c] = req[c]
      /\ UNCHANGED <<sobjs, cobjs, crefs, cshallow, reply>>
  BY DEF CloneEmpty, serverVars, callVars
<1>2. FilesInv(c)'
  BY <1>1 DEF ClientInv, FilesInv, Values
<1> QED
  BY <1>1, <1>2 DEF ClientInv, PhaseInv, RefsAskedInv, TagsAskedInv, BoundaryInv, PackInv, RefsInv

\* A request is served: the new boundary lies in what the plan reaches, and a pack from
\* the cache has all that its wants reach.
LEMMA ServeInv ==
    ASSUME FetchAssumption, FetchTypeOK, ServerInv, NEW c \in Client, ClientInv(c), Serve(c)
    PROVE  ClientInv(c)'
<1>0. PICK pack \in SUBSET Object :
         /\ reply' = [reply EXCEPT ![c] = [pack |-> pack, shallow |-> Boundary(c).shallow,
                                           unshallow |-> Boundary(c).unshallow]]
         /\ \/ pack = {} /\ pc' = [pc EXCEPT ![c] = "build"]
            \/ /\ Cacheable(ask[c]) /\ pc' = [pc EXCEPT ![c] = "ingest"]
               /\ \E i \in DOMAIN cache : cache[i].key = ask[c].wants /\ cache[i].pack = pack
  BY ServeIs
<1>1. /\ pc[c] = "request" /\ pc'[c] \in {"build", "ingest"}
      /\ UNCHANGED <<sobjs, exists, cobjs, crefs, cshallow, narrow, req, adv, ask, todo>>
  BY <1>0, ServeIs DEF FetchTypeOK, serverVars, repoVars
<1>2. reply'[c] = [pack |-> pack, shallow |-> Boundary(c).shallow, unshallow |-> Boundary(c).unshallow]
  BY <1>0 DEF FetchTypeOK
<1>3. /\ Boundary(c).shallow \subseteq sobjs \cap HaveSet(sobjs, ask[c].wants, {})
      /\ Boundary(c).shallow \cap Boundary(c).unshallow = {}
      /\ ask[c].depth = NoDepth => Boundary(c).shallow = {}
  BY BoundaryIs
<1>4. PlanTips(c)' = PlanTips(c) /\ PlanReach(c)' = PlanReach(c)
      /\ Planned(c, req[c], adv[c])' = Planned(c, req[c], adv[c])
  BY <1>1 DEF PlanReach, PlanTips, Planned
<1>5. FilesInv(c)'
  BY <1>1 DEF ClientInv, FilesInv, Values
<1>6. PhaseInv(c)' /\ RefsAskedInv(c)' /\ TagsAskedInv(c)' /\ RefsInv(c)'
  BY <1>1, <1>4 DEF ClientInv, PhaseInv, RefsAskedInv, TagsAskedInv, RefsInv
<1>7. BoundaryInv(c)'
  <2>1. ASSUME ~ask[c].tags PROVE HaveSet(sobjs, ask[c].wants, {}) \subseteq PlanReach(c)
    <3>1. ask[c].wants \subseteq PlanTips(c)
      BY <1>1, <2>1 DEF ClientInv, RefsAskedInv
    <3> QED
      BY <3>1, PlanTipsType, HaveSetGrows, ZenonT(60) DEF PlanReach, FetchTypeOK
  <2>2. ask[c].tags => ask[c].depth = NoDepth
    BY <1>1 DEF ClientInv, TagsAskedInv
  <2>3. ~ask[c].tags => ask[c].depth = req[c].depth
    BY <1>1 DEF ClientInv, PhaseInv
  <2>4. reply'[c].shallow = Boundary(c).shallow /\ reply'[c].unshallow = Boundary(c).unshallow
    BY <1>2
  <2>5. Boundary(c).shallow \subseteq sobjs \cap PlanReach(c)
    BY <1>3, <2>1, <2>2
  <2> QED
    BY <1>1, <1>3, <1>4, <2>2, <2>3, <2>4, <2>5 DEF BoundaryInv
<1>8. PackInv(c)'
  <2> SUFFICES ASSUME pc'[c] = "ingest" PROVE PackInv(c)'
    BY DEF PackInv
  <2>1. pc' # [pc EXCEPT ![c] = "build"]
    BY DEF FetchTypeOK
  <2>2. Cacheable(ask[c])
    BY <1>0, <2>1
  <2>3. PICK i \in DOMAIN cache : cache[i].key = ask[c].wants /\ cache[i].pack = pack
    BY <1>0, <2>1
  <2>4. Closed(pack) /\ ask[c].wants \subseteq pack
    BY <2>3 DEF ServerInv
  <2>5. Stored(c)' = cobjs[c] \cup pack
    BY <1>1, <1>2 DEF Stored
  <2>6. ask[c].depth = NoDepth /\ reply'[c].shallow = {}
    BY <1>2, <1>3, <2>2 DEF Cacheable
  <2>7. cobjs[c] \in SUBSET Object
    BY DEF FetchTypeOK
  <2>8. Held(cobjs[c], cshallow[c])
    BY <1>1 DEF ClientInv, FilesInv
  <2>9. Held(cobjs[c] \cup pack, cshallow[c])
    <3>1. Held(pack, cshallow[c])
      BY <2>4, ClosedIsHeld
    <3> QED
      BY <2>8, <3>1 DEF Held
  <2>10. CASE ask[c].tags
    <3>1. \A r \in todo[c] : adv[c][r] \in ask[c].wants \cup cobjs[c]
      BY <1>1, <2>10 DEF ClientInv, TagsAskedInv
    <3> QED
      BY <1>1, <2>4, <2>5, <2>9, <2>10, <3>1 DEF PackInv
  <2>11. CASE ~ask[c].tags
    <3>1. /\ PlanTips(c) \subseteq ask[c].wants \cup cobjs[c] /\ cshallow[c] = {}
      BY <1>1, <2>6, <2>11 DEF ClientInv, RefsAskedInv
    <3> QED
      BY <1>1, <1>4, <2>4, <2>5, <2>6, <2>9, <2>11, <3>1 DEF PackInv
  <2> QED
    BY <2>10, <2>11
<1> QED
  BY <1>5, <1>6, <1>7, <1>8 DEF ClientInv

\* A pack is built: with it the client holds all up to the new boundary.
LEMMA BuildInv ==
    ASSUME FetchAssumption, FetchTypeOK, NEW c \in Client, ClientInv(c), Build(c)
    PROVE  ClientInv(c)'
<1> DEFINE found == Walk(c)
           shipped == IF found = {} THEN {} ELSE found \cup IncludedTags(found)
<1>0. /\ pc[c] = "build" /\ pc' = [pc EXCEPT ![c] = "ingest"] /\ shipped \in SUBSET Object
      /\ reply' = [reply EXCEPT ![c].pack = shipped]
      /\ UNCHANGED <<sobjs, repoVars, req, adv, ask, todo>>
  BY BuildIs
<1>1. /\ pc[c] = "build" /\ pc'[c] = "ingest" /\ shipped \in SUBSET Object
      /\ reply'[c] = [reply[c] EXCEPT !.pack = shipped]
      /\ UNCHANGED <<sobjs, exists, cobjs, crefs, cshallow, narrow, req, adv, ask, todo>>
  <2> HIDE DEF shipped
  <2> QED
    BY <1>0 DEF FetchTypeOK, repoVars
<1>2. /\ cobjs[c] \in SUBSET Object /\ sobjs \in SUBSET Object /\ cshallow[c] \in SUBSET Object
      /\ reply[c].shallow \in SUBSET Object /\ ask[c].wants \in SUBSET Object
  BY DEF FetchTypeOK
<1>3. PlanTips(c)' = PlanTips(c) /\ PlanReach(c)' = PlanReach(c)
      /\ Planned(c, req[c], adv[c])' = Planned(c, req[c], adv[c])
  BY <1>1 DEF PlanReach, PlanTips, Planned
<1>4. /\ reply'[c].shallow = reply[c].shallow /\ reply'[c].unshallow = reply[c].unshallow
      /\ Stored(c)' = cobjs[c] \cup shipped
  BY <1>1 DEF FetchTypeOK, Stored
<1>5. Held(cobjs[c], cshallow[c]) /\ cshallow[c] \subseteq sobjs /\ ask[c].haves \in SUBSET cobjs[c]
  BY <1>1 DEF ClientInv, FilesInv, RefsAskedInv, TagsAskedInv
<1>6. ASSUME NEW bound, Held(cobjs[c] \cup found, bound), found \in SUBSET Object
      PROVE  Held(cobjs[c] \cup shipped, bound)
  <2>1. \A o \in IncludedTags(found) : Points[o] \subseteq cobjs[c] \cup found
    BY DEF IncludedTags
  <2>2. IncludedTags(found) \in SUBSET Object
    BY <1>2 DEF IncludedTags
  <2>3. shipped = found \/ shipped = found \cup IncludedTags(found)
    OBVIOUS
  <2> HIDE DEF found, shipped
  <2>4. Held((cobjs[c] \cup found) \cup IncludedTags(found), bound)
    BY <1>2, <1>6, <2>1, <2>2, MoreComeAlong
  <2>5. (cobjs[c] \cup found) \cup IncludedTags(found) = cobjs[c] \cup (found \cup IncludedTags(found))
    OBVIOUS
  <2> QED
    BY <1>6, <2>3, <2>4, <2>5
<1>7. found \subseteq shipped
  OBVIOUS
<1>8. Walk(c) = Enumerate(sobjs, ask[c].wants, ask[c].haves, ask[c].depth # NoDepth,
                          reply[c].shallow, ask[c].shallow)
  BY DEF Walk
<1>9. PackInv(c)'
  <2>1. CASE ask[c].tags
    <3>1. /\ ask[c].depth = NoDepth /\ ask[c].shallow = {} /\ reply[c].shallow = {}
          /\ Held(cobjs[c], HaveSet(sobjs, ask[c].haves, {}))
          /\ ask[c].wants \in SUBSET TagObject /\ \A w \in ask[c].wants : Points[w] \subseteq cobjs[c]
          /\ \A r \in todo[c] : adv[c][r] \in ask[c].wants \cup cobjs[c]
      BY <1>1, <2>1 DEF ClientInv, TagsAskedInv, BoundaryInv
    <3>2. Walk(c) = Enumerate(sobjs, ask[c].wants, ask[c].haves, FALSE, {}, {})
      BY <1>8, <3>1
    <3>3. /\ Walk(c) \in SUBSET Object /\ ask[c].wants \subseteq cobjs[c] \cup Walk(c)
          /\ Held(cobjs[c] \cup Walk(c), cshallow[c])
      <4> DEFINE S == cobjs[c]
                 wants == ask[c].wants
                 haves == ask[c].haves
                 cs == cshallow[c]
      <4>1. /\ sobjs \in SUBSET Object /\ wants \in SUBSET TagObject /\ S \in SUBSET Object
            /\ haves \in SUBSET S /\ Held(S, cs) /\ Held(S, HaveSet(sobjs, haves, {}))
            /\ \A w \in wants : Points[w] \subseteq S
        BY <1>2, <1>5, <3>1
      <4> HIDE DEF S, wants, haves, cs
      <4>2. LET walk == Enumerate(sobjs, wants, haves, FALSE, {}, {})
            IN walk \in SUBSET Object /\ wants \subseteq S \cup walk /\ Held(S \cup walk, cs)
        BY <4>1, TagsAreEnough
      <4> QED
        BY <3>2, <4>2 DEF S, wants, haves, cs
    <3>4. Held(cobjs[c] \cup shipped, cshallow[c])
      BY <1>6, <3>3
    <3>5. \A r \in todo[c] : adv[c][r] \in cobjs[c] \cup shipped
      BY <1>7, <3>1, <3>3
    <3> HIDE DEF found, shipped
    <3> QED
      BY <1>1, <1>4, <2>1, <3>4, <3>5 DEF PackInv
  <2>2. CASE ~ask[c].tags
    <3>1. /\ ask[c].wants \subseteq PlanTips(c) /\ PlanTips(c) \subseteq ask[c].wants \cup cobjs[c]
          /\ ask[c].shallow = cshallow[c] /\ ask[c].depth = req[c].depth
          /\ ask[c].depth = NoDepth => cshallow[c] = {} /\ reply[c].shallow = {}
      BY <1>1, <2>2 DEF ClientInv, RefsAskedInv, BoundaryInv, PhaseInv
    <3>2. /\ Walk(c) \in SUBSET Object /\ ask[c].wants \subseteq cobjs[c] \cup Walk(c)
          /\ Held(cobjs[c] \cup Walk(c), reply[c].shallow)
          /\ \A s \in cshallow[c] : Parents[s] \subseteq cobjs[c] \cup Walk(c)
      <4> DEFINE deepen == ask[c].depth # NoDepth
      <4>1. deepen \in BOOLEAN /\ (deepen \/ (cshallow[c] = {} /\ reply[c].shallow = {}))
        BY <3>1
      <4>2. Walk(c) = Enumerate(sobjs, ask[c].wants, ask[c].haves, deepen, reply[c].shallow, cshallow[c])
        BY <1>8, <3>1
      <4> DEFINE S == cobjs[c]
                 wants == ask[c].wants
                 haves == ask[c].haves
                 cs == cshallow[c]
                 bound == reply[c].shallow
      <4>3. /\ sobjs \in SUBSET Object /\ wants \in SUBSET Object /\ S \in SUBSET Object
            /\ haves \in SUBSET S /\ cs \in SUBSET Object /\ bound \in SUBSET Object
            /\ Held(S, cs) /\ cs \subseteq sobjs /\ (deepen \/ (cs = {} /\ bound = {}))
        BY <1>2, <1>5, <4>1
      <4> HIDE DEF S, wants, haves, cs, bound, deepen
      <4>4. EnoughFor(Enumerate(sobjs, wants, haves, deepen, bound, cs), wants, S, cs, bound)
        BY <4>1, <4>3, PackIsEnough
      <4> QED
        BY <4>2, <4>4 DEF S, wants, haves, cs, bound, EnoughFor
    <3>3. Held(cobjs[c] \cup shipped, reply[c].shallow)
      BY <1>6, <3>2
    <3>4. PlanTips(c) \subseteq cobjs[c] \cup shipped /\ \A s \in cshallow[c] : Parents[s] \subseteq cobjs[c] \cup shipped
      BY <1>7, <3>1, <3>2
    <3> HIDE DEF found, shipped
    <3> QED
      BY <1>1, <1>3, <1>4, <2>2, <3>1, <3>3, <3>4 DEF PackInv
  <2> QED
    BY <2>1, <2>2
<1> HIDE DEF found, shipped
<1>10. FilesInv(c)'
  BY <1>1 DEF ClientInv, FilesInv, Values
<1>11. PhaseInv(c)' /\ RefsAskedInv(c)' /\ TagsAskedInv(c)'
  BY <1>1 DEF ClientInv, PhaseInv, RefsAskedInv, TagsAskedInv
<1>12. BoundaryInv(c)' /\ RefsInv(c)'
  BY <1>1, <1>3, <1>4 DEF ClientInv, BoundaryInv, RefsInv
<1> QED
  BY <1>9, <1>10, <1>11, <1>12 DEF ClientInv

\* What a client is to have behind its refs is what Complete says.
LEMMA HeldIsComplete ==
    ASSUME FetchAssumption, FetchTypeOK, NEW c \in Client,
           Values(crefs[c]) \subseteq cobjs[c], Held(cobjs[c], cshallow[c])
    PROVE  Complete(c)
<1> DEFINE S == cobjs[c]
           from == Values(crefs[c])
           bound == cshallow[c]
<1>1. S \in SUBSET Object /\ from \in SUBSET S /\ Held(S, bound)
  BY DEF FetchTypeOK
<1> HIDE DEF S, from, bound
<1>2. Spread(from, [o \in Object |-> Step(o, bound)]) \subseteq S
  BY <1>1, ReachedIsHeld
<1> QED
  BY <1>2 DEF Complete, S, from, bound

\* The pack is stored.
LEMMA IngestInv ==
    ASSUME FetchAssumption, FetchTypeOK, FetchTypeOK', NEW c \in Client, ClientInv(c), Ingest(c)
    PROVE  ClientInv(c)'
<1>1. /\ pc[c] = "ingest" /\ cobjs'[c] = Stored(c)
      /\ pc'[c] = IF ask[c].tags THEN "tags"
                   ELSE IF ask[c].depth # NoDepth THEN "shallow" ELSE "refs"
      /\ reply'[c] = [reply[c] EXCEPT !.pack = {}] /\ ask'[c] = NoAsk
      /\ UNCHANGED <<sobjs, exists, crefs, cshallow, narrow, req, adv, todo>>
  BY DEF Ingest, FetchTypeOK, Stored, serverVars
<1>2. \/ ask[c].tags /\ pc'[c] = "tags"
      \/ ~ask[c].tags /\ ask[c].depth # NoDepth /\ pc'[c] = "shallow"
      \/ ~ask[c].tags /\ ask[c].depth = NoDepth /\ pc'[c] = "refs"
  BY <1>1 DEF FetchTypeOK
<1>3. PlanTips(c)' = PlanTips(c) /\ PlanReach(c)' = PlanReach(c)
      /\ Planned(c, req[c], adv[c])' = Planned(c, req[c], adv[c])
  BY <1>1 DEF PlanReach, PlanTips, Planned
<1>4. reply'[c].shallow = reply[c].shallow /\ reply'[c].unshallow = reply[c].unshallow
  BY <1>1 DEF FetchTypeOK
<1>5. /\ cobjs[c] \in SUBSET Object /\ cobjs'[c] \in SUBSET Object /\ cobjs[c] \subseteq cobjs'[c]
  BY <1>1 DEF FetchTypeOK, Stored
<1>6. ~ask'[c].tags
  BY <1>1 DEF NoAsk
<1>7. /\ Held(cobjs'[c], IF ask[c].tags THEN cshallow[c] ELSE reply[c].shallow)
      /\ ask[c].tags => \A r \in todo[c] : adv[c][r] \in cobjs'[c]
      /\ ~ask[c].tags => PlanTips(c) \subseteq cobjs'[c]
      /\ ~ask[c].tags => \A s \in cshallow[c] : Parents[s] \subseteq cobjs'[c]
      /\ ~ask[c].tags /\ req[c].depth = NoDepth => cshallow[c] = {} /\ reply[c].shallow = {}
      /\ ~ask[c].tags => ask[c].depth = req[c].depth
      /\ ask[c].tags => ~req[c].clone
  BY <1>1 DEF ClientInv, PackInv, BoundaryInv, PhaseInv
<1>8. FilesInv(c)'
  <2>1. Values(crefs[c]) \subseteq cobjs[c] /\ cshallow[c] \subseteq sobjs /\ Held(cobjs[c], cshallow[c])
        /\ (exists[c] <=> ~req[c].clone)
    BY <1>1 DEF ClientInv, FilesInv
  <2>2. Complete(c)'
    <3>1. Complete(c)
      BY <2>1, HeldIsComplete
    <3> QED
      BY <1>1, <1>5, <3>1 DEF Complete, Values
  <2>3. Values(crefs[c])' \subseteq cobjs'[c]
    BY <1>1, <1>5, <2>1 DEF Values
  <2> QED
    BY <1>1, <1>2, <1>4, <1>7, <2>1, <2>2, <2>3 DEF FilesInv
<1>9. PhaseInv(c)' /\ RefsAskedInv(c)' /\ TagsAskedInv(c)' /\ PackInv(c)'
  BY <1>1, <1>2, <1>6, <1>7 DEF PhaseInv, RefsAskedInv, TagsAskedInv, PackInv
<1>10. BoundaryInv(c)'
  BY <1>1, <1>2, <1>3, <1>4, <1>6 DEF ClientInv, BoundaryInv
<1>11. RefsInv(c)'
  <2>1. ~ask[c].tags => todo[c] = Planned(c, req[c], adv[c])
    BY <1>1 DEF ClientInv, RefsInv
  <2>2. ~ask[c].tags /\ req[c].depth = NoDepth => Held(cobjs'[c], PlanReach(c))
    BY <1>5, <1>7, ClosedIsHeld
  <2> QED
    BY <1>1, <1>2, <1>3, <1>6, <1>7, <2>1, <2>2 DEF RefsInv
<1> QED
  BY <1>8, <1>9, <1>10, <1>11 DEF ClientInv

\* The boundary is written.
LEMMA ApplyShallowInv ==
    ASSUME FetchAssumption, FetchTypeOK, FetchTypeOK', NEW c \in Client, ClientInv(c), ApplyShallow(c)
    PROVE  ClientInv(c)'
<1>1. /\ pc[c] = "shallow" /\ pc'[c] = "refs"
      /\ cshallow'[c] = (cshallow[c] \cup reply[c].shallow) \ reply[c].unshallow
      /\ UNCHANGED <<sobjs, exists, cobjs, crefs, narrow, req, adv, ask, todo>>
  BY DEF ApplyShallow, FetchTypeOK, serverVars
<1>2. PlanTips(c)' = PlanTips(c) /\ PlanReach(c)' = PlanReach(c)
      /\ Planned(c, req[c], adv[c])' = Planned(c, req[c], adv[c])
  BY <1>1 DEF PlanReach, PlanTips, Planned
<1>3. /\ reply[c].shallow \subseteq sobjs /\ reply[c].shallow \subseteq PlanReach(c)
      /\ reply[c].shallow \cap reply[c].unshallow = {}
  BY <1>1 DEF ClientInv, BoundaryInv
<1>4. /\ Held(cobjs[c], reply[c].shallow) /\ cobjs[c] \in SUBSET Object
      /\ Values(crefs[c]) \subseteq cobjs[c] /\ cshallow[c] \subseteq sobjs /\ (exists[c] <=> ~req[c].clone)
  BY <1>1 DEF ClientInv, FilesInv, FetchTypeOK
<1>5. reply[c].shallow \subseteq cshallow'[c]
  BY <1>1, <1>3
<1>6. Held(cobjs[c], cshallow'[c]) /\ Held(cobjs[c], PlanReach(c))
  <2> DEFINE S == cobjs[c]
             few == reply[c].shallow
             boundary == cshallow'[c]
  <2>1. S \in SUBSET Object /\ few \subseteq boundary /\ few \subseteq PlanReach(c) /\ Held(S, few)
    BY <1>3, <1>4, <1>5
  <2> HIDE DEF S, few, boundary
  <2>2. Held(S, boundary) /\ Held(S, PlanReach(c))
    BY <2>1, HeldWithMore
  <2> QED
    BY <2>2 DEF S, boundary
<1>7. FilesInv(c)'
  <2>1. Values(crefs[c])' \subseteq cobjs'[c] /\ cshallow'[c] \subseteq sobjs'
    BY <1>1, <1>3, <1>4 DEF Values
  <2> QED
    BY <1>1, <1>4, <1>6, <2>1 DEF FilesInv
<1>8. PhaseInv(c)' /\ RefsAskedInv(c)' /\ TagsAskedInv(c)' /\ BoundaryInv(c)' /\ PackInv(c)'
  BY <1>1 DEF PhaseInv, RefsAskedInv, TagsAskedInv, BoundaryInv, PackInv
<1>9. RefsInv(c)'
  <2>1. PlanTips(c) \subseteq cobjs[c]
    BY <1>1 DEF ClientInv, RefsInv
  <2>2. todo[c] = Planned(c, req[c], adv[c])
    <3>1. ~ask[c].tags
      BY <1>1 DEF ClientInv, PhaseInv
    <3> QED
      BY <1>1, <3>1 DEF ClientInv, RefsInv
  <2> QED
    BY <1>1, <1>2, <1>6, <2>1, <2>2 DEF RefsInv
<1> QED
  BY <1>7, <1>8, <1>9 DEF ClientInv

\* A ref is moved to what was shown of it, which has arrived.
LEMMA UpdateRefInv ==
    ASSUME FetchAssumption, FetchTypeOK, NEW c \in Client, ClientInv(c), NEW r \in Ref, UpdateRef(c, r)
    PROVE  ClientInv(c)'
<1>1. /\ pc[c] = "refs" /\ pc'[c] = "refs" /\ r \in todo[c] /\ todo'[c] = todo[c] \ {r}
      /\ UNCHANGED <<sobjs, exists, cobjs, cshallow, narrow, req, adv, ask, reply>>
  BY DEF UpdateRef, Due, FetchTypeOK, serverVars
<1>2. /\ crefs[c] \in [Ref \cup {Local} -> Object \cup {None}]
      /\ \/ req[c].tags /\ crefs'[c] = crefs[c]
         \/ crefs'[c] = [crefs[c] EXCEPT ![r] = adv[c][r]]
  BY DEF UpdateRef, FetchTypeOK
<1>3. PlanTips(c)' = PlanTips(c) /\ PlanReach(c)' = PlanReach(c)
      /\ Planned(c, req[c], adv[c])' = Planned(c, req[c], adv[c])
  BY <1>1 DEF PlanReach, PlanTips, Planned
<1>4. adv[c][r] \in cobjs[c]
  BY <1>1 DEF ClientInv, RefsInv, PlanTips
<1>5. FilesInv(c)'
  <2>1. Values(crefs[c]) \subseteq cobjs[c]
    BY DEF ClientInv, FilesInv
  <2>2. Values(crefs[c])' \subseteq cobjs[c]
    BY <1>2, <1>4, <2>1 DEF Values
  <2> QED
    BY <1>1, <2>2 DEF ClientInv, FilesInv
<1>6. PhaseInv(c)' /\ RefsAskedInv(c)' /\ TagsAskedInv(c)' /\ BoundaryInv(c)' /\ PackInv(c)'
  BY <1>1 DEF PhaseInv, RefsAskedInv, TagsAskedInv, BoundaryInv, PackInv
<1>7. RefsInv(c)'
  <2>1. ASSUME ~req[c].tags, NEW x \in Planned(c, req[c], adv[c]) \ todo'[c]
        PROVE  crefs'[c][x] = adv[c][x]
    <3>1. x \in Ref
      BY PlannedType
    <3>2. x # r => crefs[c][x] = adv[c][x]
      BY <1>1, <2>1 DEF ClientInv, RefsInv
    <3> QED
      BY <1>2, <2>1, <3>1, <3>2
  <2> QED
    BY <1>1, <1>3, <2>1 DEF ClientInv, RefsInv
<1> QED
  BY <1>5, <1>6, <1>7 DEF ClientInv

\* A client that is left with complete files may begin another command.
LEMMA IdleInv ==
    ASSUME NEW c \in Client, pc'[c] = "idle", FilesInv(c)'
    PROVE  ClientInv(c)'
BY DEF ClientInv, PhaseInv, RefsAskedInv, TagsAskedInv, BoundaryInv, PackInv, RefsInv

\* The local branch of a clone is one of those that were asked for.
LEMMA FinishCloneInv ==
    ASSUME FetchAssumption, FetchTypeOK, NEW c \in Client, ClientInv(c), FinishClone(c)
    PROVE  ClientInv(c)'
<1>1. /\ pc[c] = "refs" /\ pc'[c] = "idle" /\ req[c].clone /\ req'[c] = NoOption
      /\ crefs'[c] = [crefs[c] EXCEPT ![Local] = adv[c][Default]]
      /\ UNCHANGED <<sobjs, cobjs, cshallow>>
  BY DEF FinishClone, Return, FetchTypeOK, serverVars
<1>2. adv[c][Default] = None \/ adv[c][Default] \in cobjs[c]
  <2>1. adv[c][Default] # None => Default \in Planned(c, req[c], adv[c])
    BY <1>1 DEF Planned, FetchAssumption
  <2> QED
    BY <1>1, <2>1 DEF ClientInv, RefsInv, PlanTips
<1>3. Values(crefs[c]) \subseteq cobjs[c] /\ cshallow[c] \subseteq sobjs /\ Held(cobjs[c], cshallow[c])
  BY <1>1 DEF ClientInv, FilesInv
<1>4. crefs[c] \in [Ref \cup {Local} -> Object \cup {None}]
  BY DEF FetchTypeOK
<1>5. Values(crefs[c])' \subseteq cobjs[c]
  BY <1>1, <1>2, <1>3, <1>4 DEF Values
<1>6. FilesInv(c)'
  BY <1>1, <1>3, <1>5 DEF FilesInv
<1> QED
  BY <1>1, <1>6, IdleInv

\* What a tag object tags is what its ^{} line says.
LEMMA PeeledIs ==
    ASSUME FetchAssumption, NEW o \in Object
    PROVE  IF o \in TagObject THEN Points[o] = {Peeled(o)} ELSE Peeled(o) = o
<1>1. CASE o \in TagObject
  <2>1. PICK x \in Object : Points[o] = {x}
    BY <1>1 DEF FetchAssumption
  <2> QED
    BY <1>1, <2>1 DEF Peeled
<1>2. CASE o \notin TagObject
  BY <1>2 DEF Peeled
<1> QED
  BY <1>1, <1>2

\* The tags to follow are of objects the client has.
LEMMA FollowInv ==
    ASSUME FetchAssumption, FetchTypeOK, NEW c \in Client, ClientInv(c), Follow(c)
    PROVE  ClientInv(c)'
<1> DEFINE follow == IF req[c].tags THEN {}
                     ELSE {t \in Tag : /\ adv[c][t] # None /\ crefs[c][t] = None
                                       /\ Peeled(adv[c][t]) \in cobjs[c]}
           wants == {adv[c][t] : t \in follow} \ cobjs[c]
           shipped == [NoAsk EXCEPT !.wants = wants, !.haves = Values(crefs[c]), !.tags = TRUE]
<1>1. /\ pc[c] = "refs" /\ todo[c] = {} /\ ~req[c].clone
      /\ todo'[c] = follow /\ ask'[c] = shipped /\ pc'[c] = IF wants = {} THEN "tags" ELSE "request"
      /\ UNCHANGED <<sobjs, exists, cobjs, crefs, cshallow, narrow, req, adv, reply>>
  BY DEF Follow, FetchTypeOK, serverVars, repoVars
<1>2. /\ shipped.wants = wants /\ shipped.haves = Values(crefs[c]) /\ shipped.depth = NoDepth
      /\ shipped.shallow = {} /\ shipped.tags
  BY DEF NoAsk
<1>3. ASSUME NEW w \in wants PROVE w \in TagObject /\ Points[w] \subseteq cobjs[c] /\ ~req[c].tags
  <2>1. PICK t \in follow : w = adv[c][t] /\ w \notin cobjs[c]
    OBVIOUS
  <2>2. t \in Ref /\ w # None /\ Peeled(w) \in cobjs[c] /\ ~req[c].tags
    BY <2>1 DEF Ref
  <2>3. w \in Object
    BY <2>1, <2>2 DEF FetchTypeOK
  <2>4. w \in TagObject
    BY <2>1, <2>2, <2>3, PeeledIs
  <2> QED
    BY <2>2, <2>3, <2>4, PeeledIs
<1>4. \A t \in follow : adv[c][t] \in wants \cup cobjs[c]
  OBVIOUS
<1> HIDE DEF follow, wants, shipped
<1>5. FilesInv(c)'
  BY <1>1 DEF ClientInv, FilesInv, Values
<1>6. Values(crefs[c]) \subseteq cobjs[c]
  BY DEF ClientInv, FilesInv
<1>7. ASSUME ~req[c].tags PROVE Held(cobjs[c], HaveSet(sobjs, Values(crefs[c]), {}))
  <2>1. PlanTips(c) \subseteq Values(crefs[c])
    <3> SUFFICES ASSUME NEW r \in Planned(c, req[c], adv[c]) PROVE adv[c][r] \in Values(crefs[c])
      BY DEF PlanTips
    <3>1. r \in Ref /\ adv[c][r] # None
      BY PlannedType, ZenonT(60) DEF Planned
    <3>2. crefs[c][r] = adv[c][r]
      BY <1>1, <1>7 DEF ClientInv, RefsInv
    <3>3. DOMAIN crefs[c] = Ref \cup {Local}
      BY DEF FetchTypeOK
    <3> QED
      BY <3>1, <3>2, <3>3 DEF Values
  <2>2. Values(crefs[c]) \in SUBSET Object /\ sobjs \in SUBSET Object /\ cobjs[c] \in SUBSET Object
    BY ValuesType DEF FetchTypeOK
  <2>3. PlanReach(c) \subseteq HaveSet(sobjs, Values(crefs[c]), {})
    BY <2>1, <2>2, PlanTipsType, HaveSetGrows DEF PlanReach
  <2>4. Held(cobjs[c], PlanReach(c))
    BY <1>1, <1>7 DEF ClientInv, RefsInv
  <2> DEFINE S == cobjs[c]
             reach == PlanReach(c)
             behind == HaveSet(sobjs, Values(crefs[c]), {})
  <2>5. S \in SUBSET Object /\ reach \subseteq behind /\ Held(S, reach)
    BY <2>2, <2>3, <2>4
  <2> HIDE DEF S, reach, behind
  <2>6. Held(S, behind)
    BY <2>5, HeldWithMore
  <2> QED
    BY <2>6 DEF S, behind
<1>8. TagsAskedInv(c)'
  <2> SUFFICES ASSUME wants # {}, pc'[c] = "request" PROVE TagsAskedInv(c)'
    BY <1>1 DEF TagsAskedInv
  <2>1. Held(cobjs[c], HaveSet(sobjs, Values(crefs[c]), {}))
    BY <1>3, <1>7
  <2> QED
    BY <1>1, <1>2, <1>3, <1>4, <1>6, <2>1 DEF TagsAskedInv
<1>9. PhaseInv(c)' /\ RefsAskedInv(c)' /\ BoundaryInv(c)' /\ PackInv(c)'
  BY <1>1, <1>2 DEF PhaseInv, RefsAskedInv, BoundaryInv, PackInv
<1>10. RefsInv(c)'
  BY <1>1, <1>2, <1>4 DEF RefsInv
<1> QED
  BY <1>5, <1>8, <1>9, <1>10 DEF ClientInv

LEMMA FollowTagInv ==
    ASSUME FetchAssumption, FetchTypeOK, NEW c \in Client, ClientInv(c), NEW t \in Tag, FollowTag(c, t)
    PROVE  ClientInv(c)'
<1>1. /\ pc[c] = "tags" /\ pc'[c] = "tags" /\ t \in todo[c] /\ todo'[c] = todo[c] \ {t}
      /\ crefs'[c] = [crefs[c] EXCEPT ![t] = adv[c][t]]
      /\ UNCHANGED <<sobjs, exists, cobjs, cshallow, narrow, req, adv, ask, reply>>
  BY DEF FollowTag, Due, FetchTypeOK, serverVars
<1>2. adv[c][t] \in cobjs[c] /\ Values(crefs[c]) \subseteq cobjs[c]
  BY <1>1 DEF ClientInv, FilesInv, RefsInv
<1>3. Values(crefs[c])' \subseteq cobjs[c]
  BY <1>1, <1>2 DEF Values, FetchTypeOK
<1>4. FilesInv(c)'
  BY <1>1, <1>3 DEF ClientInv, FilesInv
<1>5. PhaseInv(c)' /\ RefsAskedInv(c)' /\ TagsAskedInv(c)' /\ BoundaryInv(c)' /\ PackInv(c)' /\ RefsInv(c)'
  BY <1>1 DEF ClientInv, PhaseInv, RefsAskedInv, TagsAskedInv, BoundaryInv, PackInv, RefsInv
<1> QED
  BY <1>4, <1>5 DEF ClientInv

LEMMA FinishFetchInv ==
    ASSUME FetchTypeOK, NEW c \in Client, ClientInv(c), FinishFetch(c)
    PROVE  ClientInv(c)'
<1>1. /\ pc[c] = "tags" /\ pc'[c] = "idle" /\ req'[c] = NoOption
      /\ UNCHANGED <<sobjs, cobjs, cshallow>>
  BY DEF FinishFetch, Return, FetchTypeOK, serverVars
<1>2. crefs'[c] = [r \in DOMAIN crefs[c] |->
                      IF req[c].prune /\ r \in Branch /\ adv[c][r] = None THEN None ELSE crefs[c][r]]
  BY DEF FinishFetch, FetchTypeOK
<1>3. Values(crefs[c])' \subseteq Values(crefs[c])
  BY <1>2 DEF Values
<1>4. FilesInv(c)'
  BY <1>1, <1>3 DEF ClientInv, FilesInv
<1> QED
  BY <1>1, <1>4, IdleInv

\* A command that is cut off leaves complete files, or none.
LEMMA LostInv ==
    ASSUME FetchDeployment, FetchTypeOK, NEW c \in Client, ClientInv(c), Lost(c)
    PROVE  ClientInv(c)'
<1>1. /\ pc[c] # "shallow" /\ pc'[c] = "idle" /\ req'[c] = NoOption /\ sobjs' = sobjs
  BY DEF Lost, Return, FetchTypeOK, serverVars, FetchDeployment
<1>2. CASE req[c].clone
  <2>1. /\ cobjs'[c] = {} /\ cshallow'[c] = {}
        /\ crefs'[c] = [r \in DOMAIN crefs[c] |-> None]
    BY <1>2 DEF Lost, FetchTypeOK
  <2>2. Values(crefs[c])' = {}
    BY <2>1 DEF Values
  <2>3. FilesInv(c)'
    BY <1>1, <2>1, <2>2 DEF FilesInv, Held
  <2> QED
    BY <1>1, <2>3, IdleInv
<1>3. CASE ~req[c].clone
  <2>1. UNCHANGED <<cobjs, cshallow, crefs>>
    BY <1>3 DEF Lost
  <2>2. FilesInv(c)'
    BY <1>1, <2>1 DEF ClientInv, FilesInv, Values
  <2> QED
    BY <1>1, <2>2, IdleInv
<1> QED
  BY <1>2, <1>3

-------------------------------------------------------------------------------
(* The server.                                                             *)

\* A pack for a client that has nothing is closed and has all that is asked for.
LEMMA BuildServerInv ==
    ASSUME FetchAssumption, FetchTypeOK, ServerInv, NEW c \in Client, ClientInv(c), Build(c)
    PROVE  ServerInv'
<1> DEFINE found == Walk(c)
           shipped == IF found = {} THEN {} ELSE found \cup IncludedTags(found)
           entry == [key |-> ask[c].wants, pack |-> shipped]
<1>1. /\ found \in SUBSET sobjs /\ shipped \in SUBSET Object /\ pc[c] = "build"
      /\ cache' = IF Cacheable(ask[c]) /\ shipped # {} THEN Cached(entry) ELSE cache
      /\ UNCHANGED <<sobjs, srefs>>
  BY BuildIs
<1>2. CASE Cacheable(ask[c]) /\ shipped # {}
  <2>1. /\ ask[c].depth = NoDepth /\ ask[c].haves = {} /\ ask[c].shallow = {} /\ reply[c].shallow = {}
    <3>1. ask[c].depth = NoDepth /\ ask[c].haves = {}
      BY <1>2 DEF Cacheable
    <3>2. CASE ask[c].tags
      BY <1>1, <3>1, <3>2 DEF ClientInv, TagsAskedInv, BoundaryInv
    <3>3. CASE ~ask[c].tags
      BY <1>1, <3>1, <3>3 DEF ClientInv, RefsAskedInv, BoundaryInv, PhaseInv
    <3> QED
      BY <3>1, <3>2, <3>3
  <2>2. Walk(c) = Enumerate(sobjs, ask[c].wants, {}, FALSE, {}, {})
    BY <2>1 DEF Walk
  <2>3. /\ sobjs \in SUBSET Object /\ ask[c].wants \in SUBSET Object
    BY DEF FetchTypeOK
  <2>4. Walk(c) \in SUBSET Object /\ ask[c].wants \subseteq Walk(c) /\ Held(Walk(c), {})
    <3> DEFINE wants == ask[c].wants
               none == {}
               no == FALSE
    <3>1. wants \in SUBSET Object /\ none \in SUBSET Object /\ none \in SUBSET none /\ no \in BOOLEAN
          /\ Held(none, none) /\ none \subseteq sobjs /\ (no \/ (none = {} /\ none = {}))
      BY <2>3 DEF Held
    <3> HIDE DEF wants, none, no
    <3>2. EnoughFor(Enumerate(sobjs, wants, none, no, none, none), wants, none, none, none)
      BY <2>3, <3>1, PackIsEnough
    <3>3. EnoughFor(Walk(c), wants, {}, {}, {})
      BY <2>2, <3>2 DEF wants, none, no
    <3>4. {} \cup Walk(c) = Walk(c)
      OBVIOUS
    <3> QED
      BY <3>3, <3>4 DEF EnoughFor, wants
  <2>5. shipped = Walk(c) \cup IncludedTags(Walk(c))
    BY <1>2
  <2>6. IncludedTags(Walk(c)) \in SUBSET Object /\ \A o \in IncludedTags(Walk(c)) : Points[o] \subseteq Walk(c)
    BY <2>3 DEF IncludedTags
  <2> HIDE DEF found, shipped
  <2>7. Closed(shipped) /\ ask[c].wants \subseteq shipped
    <3>1. Held(shipped, {})
      BY <2>4, <2>5, <2>6, MoreComeAlong
    <3> QED
      BY <1>1, <2>4, <2>5, <3>1, ClosedIsHeld
  <2>8. entry \in CacheEntry
    BY <1>1, <2>3 DEF CacheEntry
  <2>9. cache \in Seq(CacheEntry) /\ Bytes(cache) <= MaxBytes
    BY DEF FetchTypeOK, CacheEntry
  <2>10. \A i \in DOMAIN cache' : cache'[i] = entry \/ \E j \in DOMAIN cache : cache'[i] = cache[j]
    BY <1>1, <1>2, <2>8, <2>9, CachedKeepsSize
  <2> QED
    BY <1>1, <2>7, <2>10 DEF ServerInv
<1>3. CASE ~(Cacheable(ask[c]) /\ shipped # {})
  BY <1>1, <1>3 DEF ServerInv
<1> QED
  BY <1>2, <1>3

LEMMA ClosureIs ==
    ASSUME NEW o \in Object
    PROVE  Closure[o] \in SUBSET Object /\ o \in Closure[o] /\ Closed(Closure[o])
BY ObjectsAssumption DEF Closure, Closed

LEMMA ReachableIs ==
    ASSUME NEW tips \in SUBSET Object
    PROVE  Reachable(tips) \in SUBSET Object /\ tips \subseteq Reachable(tips) /\ Closed(Reachable(tips))
BY ClosureIs DEF Reachable, Closed

\* Writes, garbage collection and a cache that is emptied.
LEMMA ServerStepInv ==
    ASSUME FetchAssumption, FetchTypeOK, ServerInv,
           ServerActs
    PROVE  ServerInv'
<1>1. CASE \E r \in Ref : \E v \in Tips[r] : Push(r, v)
  <2>0. PICK r \in Ref : \E v \in Tips[r] : Push(r, v)
    BY <1>1
  <2>1. PICK v \in Tips[r] : Push(r, v)
    BY <2>0
  <2>2. v \in Object \cup {None}
    BY DEF FetchAssumption
  <2>3. cache' = cache /\ srefs' = [srefs EXCEPT ![r] = v]
        /\ sobjs' = sobjs \cup IF v = None THEN {} ELSE Closure[v]
    BY <2>1 DEF Push
  <2>4. Closed(sobjs')
    BY <2>2, <2>3, ClosureIs DEF ServerInv, Closed
  <2>5. Values(srefs)' \subseteq sobjs'
    BY <2>2, <2>3, ClosureIs DEF ServerInv, Values, FetchTypeOK
  <2> QED
    BY <2>3, <2>4, <2>5 DEF ServerInv
<1>2. CASE Gc
  <2>1. Values(srefs) \in SUBSET Object
    BY ValuesType DEF FetchTypeOK
  <2>2. sobjs' = Reachable(Values(srefs)) /\ UNCHANGED <<srefs, cache>>
    BY <1>2 DEF Gc
  <2> QED
    BY <2>1, <2>2, ReachableIs DEF ServerInv, Values
<1>3. CASE ClearCache
  BY <1>3 DEF ServerInv, ClearCache, Values
<1> QED
  BY <1>1, <1>2, <1>3 DEF ServerActs

\* Objects are deleted when no client has a boundary or asks for one: what a client has
\* is closed.
LEMMA GcClientInv ==
    ASSUME FetchDeployment, FetchTypeOK, NEW d \in Client, ClientInv(d), Gc
    PROVE  ClientInv(d)'
<1>1. /\ cshallow[d] = {} /\ req[d].depth = NoDepth
      /\ UNCHANGED <<exists, cobjs, crefs, cshallow, narrow, pc, req, adv, ask, reply, todo>>
  BY DEF Gc, FetchDeployment, repoVars, callVars
<1>2. PlanTips(d)' = PlanTips(d) /\ Planned(d, req[d], adv[d])' = Planned(d, req[d], adv[d])
  BY <1>1 DEF PlanTips, Planned
<1>3. pc[d] # "shallow" /\ Held(cobjs[d], {}) /\ cobjs[d] \in SUBSET Object
  BY <1>1 DEF ClientInv, PhaseInv, FilesInv, FetchTypeOK
<1>4. FilesInv(d)'
  BY <1>1, <1>3 DEF ClientInv, FilesInv, Values
<1>5. PhaseInv(d)' /\ RefsAskedInv(d)'
  BY <1>1, <1>2 DEF ClientInv, PhaseInv, RefsAskedInv
<1>6. TagsAskedInv(d)'
  <2>1. Held(cobjs[d], HaveSet(sobjs', ask[d].haves, {}))
    BY <1>3, ClosedIsHeld
  <2> QED
    BY <1>1, <2>1 DEF ClientInv, TagsAskedInv
<1>7. BoundaryInv(d)'
  BY <1>1 DEF ClientInv, BoundaryInv
<1>8. PackInv(d)'
  BY <1>1, <1>2 DEF ClientInv, PackInv, Stored
<1>9. RefsInv(d)'
  <2>1. Held(cobjs[d], PlanReach(d)')
    BY <1>3, ClosedIsHeld
  <2> QED
    BY <1>1, <1>2, <2>1 DEF ClientInv, RefsInv
<1> QED
  BY <1>4, <1>5, <1>6, <1>7, <1>8, <1>9 DEF ClientInv

-------------------------------------------------------------------------------
(* Every step.                                                             *)

LEMMA ServerStep ==
    ASSUME FetchAssumption, FetchDeployment, FetchInv, FetchTypeOK',
           ServerActs
    PROVE  FetchInv'
<1>1. ServerInv'
  BY ServerStepInv DEF FetchInv
<1>2. ASSUME NEW d \in Client PROVE ClientInv(d)'
  <2>1. CASE Gc
    BY <2>1, GcClientInv DEF FetchInv
  <2>2. CASE ~Gc
    <3>1. Same(d) /\ sobjs \subseteq sobjs' /\ sobjs' \in SUBSET Object
      BY <2>2 DEF ServerActs, Push, ClearCache, Same, repoVars, callVars, FetchTypeOK
    <3> QED
      BY <3>1, ClientStays DEF FetchInv
  <2> QED
    BY <2>1, <2>2
<1> QED
  BY <1>1, <1>2 DEF FetchInv

LEMMA ClientStep ==
    ASSUME FetchAssumption, FetchDeployment, FetchInv, FetchTypeOK', NEW c \in Client,
           ClientActs(c)
    PROVE  FetchInv'
<1>1. FetchTypeOK /\ ServerInv /\ ClientInv(c)
  BY DEF FetchInv
<1>2. ServerInv'
  <2>1. CASE Build(c)
    BY <1>1, <2>1, BuildServerInv
  <2>2. CASE ~Build(c)
    <3>1. UNCHANGED serverVars
      BY <2>2 DEF ClientActs, Start, CloneEmpty, Serve, Ingest, ApplyShallow, UpdateRef, FinishClone, Follow,
                  FollowTag, FinishFetch, Lost
    <3> QED
      BY <1>1, <3>1 DEF ServerInv, Values, serverVars
  <2> QED
    BY <2>1, <2>2
<1>3. ClientInv(c)'
  <2>1. CASE \E q \in Options : Start(c, q)
    BY <1>1, <2>1, StartInv
  <2>2. CASE CloneEmpty(c)
    BY <1>1, <2>2, CloneEmptyInv
  <2>3. CASE Serve(c)
    BY <1>1, <2>3, ServeInv
  <2>4. CASE Build(c)
    BY <1>1, <2>4, BuildInv
  <2>5. CASE Ingest(c)
    BY <1>1, <2>5, IngestInv
  <2>6. CASE ApplyShallow(c)
    BY <1>1, <2>6, ApplyShallowInv
  <2>7. CASE \E r \in Ref : UpdateRef(c, r)
    BY <1>1, <2>7, UpdateRefInv
  <2>8. CASE FinishClone(c)
    BY <1>1, <2>8, FinishCloneInv
  <2>9. CASE Follow(c)
    BY <1>1, <2>9, FollowInv
  <2>10. CASE \E t \in Tag : FollowTag(c, t)
    BY <1>1, <2>10, FollowTagInv
  <2>11. CASE FinishFetch(c)
    BY <1>1, <2>11, FinishFetchInv
  <2>12. CASE Lost(c)
    BY <1>1, <2>12, LostInv
  <2> QED
    BY <2>1, <2>2, <2>3, <2>4, <2>5, <2>6, <2>7, <2>8, <2>9, <2>10, <2>11, <2>12 DEF ClientActs
<1>4. ASSUME NEW d \in Client, d # c PROVE ClientInv(d)'
  <2>1. Same(d)
    BY <1>1, <1>4, OthersSame
  <2>2. sobjs' = sobjs
    BY DEF ClientActs, Start, CloneEmpty, Serve, Build, Ingest, ApplyShallow, UpdateRef, FinishClone, Follow,
           FollowTag, FinishFetch, Lost, serverVars
  <2>3. sobjs \subseteq sobjs' /\ sobjs' \in SUBSET Object
    BY <1>1, <2>2 DEF FetchTypeOK
  <2> QED
    BY <1>1, <2>1, <2>3, ClientStays DEF FetchInv
<1> QED
  BY <1>2, <1>3, <1>4 DEF FetchInv

LEMMA FetchInvBegins ==
    ASSUME FetchAssumption, FetchInit
    PROVE  FetchInv
<1>1. FetchTypeOK
  BY TypesBegin
<1>2. ServerInv
  <2>1. Values(srefs) \in SUBSET Object
    BY <1>1, ValuesType DEF FetchTypeOK
  <2>2. sobjs = Reachable(Values(srefs)) /\ cache = <<>>
    BY DEF FetchInit
  <2> QED
    BY <2>1, <2>2, ReachableIs DEF ServerInv
<1>3. ASSUME NEW c \in Client PROVE ClientInv(c)
  <2>1. pc[c] = "idle" /\ req[c] = NoOption /\ cobjs[c] = {} /\ cshallow[c] = {}
        /\ crefs[c] = [r \in Ref \cup {Local} |-> None]
    BY DEF FetchInit
  <2>2. FilesInv(c)
    BY <2>1 DEF FilesInv, Held, Values
  <2> QED
    BY <2>1, <2>2 DEF ClientInv, PhaseInv, RefsAskedInv, TagsAskedInv, BoundaryInv, PackInv, RefsInv
<1> QED
  BY <1>1, <1>2, <1>3 DEF FetchInv

LEMMA FetchInvStays ==
    ASSUME FetchAssumption, FetchDeployment, FetchInv, [FetchNext]_fetchVars
    PROVE  FetchInv'
<1>1. FetchTypeOK'
  BY TypesStay DEF FetchInv
<1>2. CASE UNCHANGED fetchVars
  <2>1. ServerInv'
    BY <1>2 DEF FetchInv, ServerInv, Values, fetchVars, serverVars
  <2>2. ASSUME NEW d \in Client PROVE ClientInv(d)'
    <3>1. Same(d) /\ sobjs \subseteq sobjs' /\ sobjs' \in SUBSET Object
      BY <1>1, <1>2 DEF FetchTypeOK, Same, fetchVars, serverVars, repoVars, callVars
    <3> QED
      BY <3>1, ClientStays DEF FetchInv
  <2> QED
    BY <1>1, <2>1, <2>2 DEF FetchInv
<1>3. CASE FetchNext
  <2>1. (\E c \in Client : ClientActs(c)) \/ ServerActs
    BY <1>3 DEF FetchNext, ClientActs, ServerActs
  <2> QED
    BY <1>1, <2>1, ServerStep, ClientStep
<1> QED
  BY <1>2, <1>3

-------------------------------------------------------------------------------
(* What it gives.                                                          *)

LEMMA FetchInvIsEnough ==
    ASSUME FetchAssumption, FetchInv
    PROVE  FetchesComplete
<1>1. ASSUME NEW c \in Client PROVE Complete(c)
  BY HeldIsComplete DEF FetchInv, ClientInv, FilesInv
<1>2. CachedPacksComplete
  <2> SUFFICES ASSUME NEW i \in DOMAIN cache
               PROVE  Reachable(cache[i].key) \subseteq cache[i].pack
    BY DEF CachedPacksComplete
  <2>1. cache[i].pack \in SUBSET Object /\ Closed(cache[i].pack) /\ cache[i].key \in SUBSET cache[i].pack
    BY EntryType DEF FetchInv, ServerInv
  <2> QED
    BY <2>1, ClosedHoldsReach
<1> QED
  BY <1>1, <1>2 DEF FetchesComplete, FetchInv, ClientComplete, Complete

\* Whatever moves on the server and wherever commands are cut off, every client has every
\* object its refs reach up to its boundary, and every pack in the server's cache has all
\* that its wants reach.
THEOREM ClientsStayComplete ==
    ASSUME FetchAssumption, FetchDeployment
    PROVE  FetchSpec => []FetchesComplete
<1>1. FetchInit => FetchInv
  BY FetchInvBegins
<1>2. FetchInv /\ [FetchNext]_fetchVars => FetchInv'
  BY FetchInvStays
<1>3. FetchInv => FetchesComplete
  BY FetchInvIsEnough
<1> QED
  BY <1>1, <1>2, <1>3, PTL DEF FetchSpec

\* A commit leaves the boundary of a client's repository only when its parents are there.
THEOREM BoundaryGivesWayToParents ==
    ASSUME FetchAssumption, FetchDeployment
    PROVE  FetchSpec => [][UnshallowedHaveParents]_fetchVars
<1>1. ASSUME FetchInv, FetchNext PROVE UnshallowedHaveParents
  <2> SUFFICES ASSUME NEW c \in Client, exists[c], NEW s \in cshallow[c] \ cshallow'[c]
               PROVE  Parents[s] \subseteq cobjs'[c]
    BY DEF UnshallowedHaveParents
  <2>1. FetchTypeOK /\ ClientInv(c)
    BY <1>1 DEF FetchInv
  <2>2. cshallow'[c] # cshallow[c]
    OBVIOUS
  <2>3. ASSUME NEW d \in Client, ClientActs(d) PROVE d = c
    BY <2>1, <2>2, <2>3, OthersSame DEF Same, ClientActs
  <2>4. ApplyShallow(c) \/ (Lost(c) /\ req[c].clone)
    <3>1. CASE \E d \in Client : ClientActs(d)
      <4>1. ClientActs(c)
        BY <2>3, <3>1
      <4> QED
        BY <2>2, <4>1 DEF ClientActs, Start, CloneEmpty, Serve, Build, Ingest, UpdateRef, FinishClone,
           Follow, FollowTag, FinishFetch, Lost, repoVars
    <3>2. CASE ServerActs
      BY <2>2, <3>2 DEF ServerActs, Push, Gc, ClearCache, repoVars
    <3> QED
      BY <1>1, <3>1, <3>2 DEF FetchNext, ClientActs, ServerActs
  <2>5. CASE ApplyShallow(c)
    BY <2>1, <2>5 DEF ApplyShallow, ClientInv, RefsInv
  <2>6. CASE Lost(c) /\ req[c].clone
    BY <2>1, <2>6 DEF Lost, ClientInv, FilesInv, FetchTypeOK
  <2> QED
    BY <2>4, <2>5, <2>6
<1>2. FetchInv /\ [FetchNext]_fetchVars => [UnshallowedHaveParents]_fetchVars
  BY <1>1
<1>3. FetchInit => FetchInv
  BY FetchInvBegins
<1>4. FetchInv /\ [FetchNext]_fetchVars => FetchInv'
  BY FetchInvStays
<1> QED
  BY <1>2, <1>3, <1>4, PTL DEF FetchSpec

-------------------------------------------------------------------------------
(* The parts together.                                                       *)

\* What is served does what each part may do.
LEMMA PartsAreServed == ServingSpec => Spec /\ FetchSpec /\ SshSpec
<1>1. ServingInit => Init /\ FetchInit /\ SshInit
  BY DEF ServingInit
<1>2. [ServingNext]_servingVars => [Next]_vars /\ [FetchNext]_fetchVars /\ [SshNext]_sshVars
  <2>1. CASE ServingNext
    BY <2>1, Zenon DEF ServingNext
  <2>2. CASE UNCHANGED servingVars
    <3>1. UNCHANGED vars /\ UNCHANGED fetchVars /\ UNCHANGED sshVars
      BY <2>2 DEF servingVars
    <3> QED
      BY <3>1
  <2> QED
    BY <2>1, <2>2
<1> QED
  BY <1>1, <1>2, PTL DEF ServingSpec, Spec, FetchSpec, SshSpec

\* Nothing gets in once the server is closed, and no commit leaves a client's boundary
\* before its parents are there, in whatever a server serves: no step of a fetch, a session
\* or a close() makes either happen (createServer's enter, applyShallowUpdates).
THEOREM NothingEverSlipsIn ==
    ASSUME LifecycleAssumption, FetchAssumption, FetchDeployment
    PROVE  ServingSpec => NothingSlipsIn
<1>1. [NothingEntersAfterClose]_vars => NothingEntersAfterClose
  BY DEF vars, NothingEntersAfterClose, Inside
<1>2. [UnshallowedHaveParents]_fetchVars => UnshallowedHaveParents
  BY DEF fetchVars, repoVars, UnshallowedHaveParents
<1>3. [NothingEntersAfterClose]_vars /\ [UnshallowedHaveParents]_fetchVars
         => [NothingEntersAfterClose /\ UnshallowedHaveParents]_<<vars, fetchVars>>
  BY <1>1, <1>2
<1> QED
  BY <1>3, PartsAreServed, NothingMoreEnters, BoundaryGivesWayToParents, PTL DEF NothingSlipsIn
===============================================================================
