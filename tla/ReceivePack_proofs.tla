-------------------------- MODULE ReceivePack_proofs --------------------------
(***************************************************************************)
(* Theorems about the push path, for any object graph, any set of refs and *)
(* pushes and any policy.                                                  *)
(***************************************************************************)
EXTENDS ReceivePackRefinement, TLAPS

-------------------------------------------------------------------------------
(* The object graph.                                                       *)

\* A walk stays inside the graph.
LEMMA ClosureType == Closure \in [Object -> SUBSET Object]
BY DEF Closure

\* A walk emits the object it starts from.
LEMMA ClosureSelf == ASSUME NEW o \in Object PROVE o \in Closure[o]
BY DEF Closure

\* What a walk meets, it follows: the closure of a member is inside the closure.
LEMMA ClosureTransitive ==
    ASSUME NEW o \in Object, NEW m \in Closure[o]
    PROVE  m \in Object /\ Closure[m] \subseteq Closure[o]
<1>1. m \in Object
  BY DEF Closure
<1>2. ASSUME NEW x \in Closure[m] PROVE x \in Closure[o]
  <2>1. x \in Object /\ \A S \in SUBSET Object : m \in S /\ Closed(S) => x \in S
    BY <1>1, <1>2 DEF Closure
  <2>2. \A S \in SUBSET Object : o \in S /\ Closed(S) => m \in S
    BY DEF Closure
  <2>3. \A S \in SUBSET Object : o \in S /\ Closed(S) => x \in S
    BY <2>1, <2>2
  <2> QED
    BY <2>1, <2>3 DEF Closure
<1> QED
  BY <1>1, <1>2

\* Finding an ancestor with the objects of a store, which may lack some, never
\* finds one that the whole graph does not have.
LEMMA AncestryIsSound ==
    ASSUME NEW S, NEW c \in Object, NEW d \in Object, IsAncestorIn(S, c, d)
    PROVE  IsAncestor(c, d)
BY ObjectsAssumption DEF IsAncestorIn, IsAncestor, Ancestors

\* The pack of a request holds objects only.
LEMMA PackType ==
    ASSUME NEW p, NEW c, c \in [Ref -> Object \cup {None, Skip}]
    PROVE  Pack(p, c) \in SUBSET Object
<1>1. {c[r] : r \in {x \in Ref : c[x] \in Object}} \subseteq Object
  OBVIOUS
<1>2. \A T \in SUBSET Object : Reachable(T) \subseteq Object
  BY ClosureType DEF Reachable
<1> QED
  BY <1>1, <1>2 DEF Pack, Missing

\* A request is a command for each ref, or none.
LEMMA RequestType ==
    ASSUME NEW p \in Push, NEW c \in Request(p)
    PROVE  c \in [Ref -> Object \cup {None, Skip}]
BY PushAssumption DEF Request

-------------------------------------------------------------------------------
(* Types.                                                                  *)

\* The variables begin in their ranges.
LEMMA TypesAtStart == Init => TypeOK
BY PushAssumption DEF Init, TypeOK, Value, NoCommand, Commands

\* No step of a push takes them out of their ranges.
LEMMA TypesStay == ASSUME TypeOK, [Next]_vars PROVE TypeOK'
<1> USE DEF TypeOK, Value, Commands, NoCommand
<1>1. ASSUME NEW p \in Push, NEW held \in SUBSET Hidden, Advertise(p, held) PROVE TypeOK'
  BY <1>1 DEF Advertise
<1>2. ASSUME NEW p \in Push, NEW c \in Request(p), Ingest(p, c) PROVE TypeOK'
  BY <1>2, RequestType, PackType, ZenonT(60) DEF Ingest, PutObjects
<1>3. ASSUME NEW p \in Push, NEW c \in Request(p), UnpackFails(p, c) PROVE TypeOK'
  BY <1>3, RequestType, ZenonT(60) DEF UnpackFails
<1>4. ASSUME NEW p \in Push, BuildUpdates(p) PROVE TypeOK'
  BY <1>4 DEF BuildUpdates
<1>5. ASSUME NEW p \in Push, AcceptPush(p) PROVE TypeOK'
  BY <1>5 DEF AcceptPush
<1>6. ASSUME NEW p \in Push, RejectPush(p) PROVE TypeOK'
  BY <1>6 DEF RejectPush, DeleteObjects
<1>7. ASSUME NEW p \in Push, NEW r \in Ref, Decline(p, r) PROVE TypeOK'
  BY <1>7 DEF Decline
<1>8. ASSUME NEW p \in Push, NEW r \in Ref, Pass(p, r) PROVE TypeOK'
  BY <1>8 DEF Pass
<1>9. ASSUME NEW p \in Push, NEW r \in Ref, Swap(p, r) PROVE TypeOK'
  <2>1. r # None /\ checked[p] = r /\ r \in Ref
    BY <1>9, PushAssumption DEF Swap
  <2>2. r \in todo[p] /\ cmd[p][r] \in Value
    <3>1. r \in todo[p] /\ todo[p] \subseteq Commands(p)
      BY <2>1
    <3>2. cmd[p] \in [Ref -> Object \cup {None, Skip}]
      OBVIOUS
    <3> QED
      BY <2>1, <3>1, <3>2
  <2>3. refs' \in [Ref -> Value]
    BY <1>9, <2>2 DEF Swap, CasRef
  <2>4. /\ todo' = [todo EXCEPT ![p] = todo[p] \ {r}]
        /\ applied' = [applied EXCEPT ![p] = applied[p] \cup {r}]
        /\ checked' = [checked EXCEPT ![p] = None]
        /\ pc[p] = "update"
        /\ UNCHANGED <<objs, pc, advert, cmd, ff, ingested, posted, resp>>
    BY <1>9 DEF Swap
  <2>5. /\ todo' \in [Push -> SUBSET Ref]
        /\ applied' \in [Push -> SUBSET Ref]
        /\ checked' \in [Push -> Ref \cup {None}]
    BY <2>4
  <2>6. ASSUME NEW q \in Push
        PROVE  /\ pc'[q] \in {"idle", "advertised"} => cmd'[q] = NoCommand /\ ingested'[q] = {}
               /\ pc'[q] \in {"idle", "advertised", "build", "pre"} => todo'[q] = {} /\ applied'[q] = {}
               /\ todo'[q] \cup applied'[q] \subseteq Commands(q)' /\ todo'[q] \cap applied'[q] = {}
               /\ checked'[q] # None => checked'[q] \in todo'[q]
    <3>1. CASE q = p
      <4>1. /\ todo'[p] = todo[p] \ {r} /\ applied'[p] = applied[p] \cup {r}
            /\ checked'[p] = None /\ pc'[p] = "update" /\ cmd' = cmd
        BY <2>4
      <4>2. todo[p] \cup applied[p] \subseteq Commands(p) /\ todo[p] \cap applied[p] = {}
        OBVIOUS
      <4> QED
        BY <3>1, <2>2, <4>1, <4>2, ZenonT(60)
    <3>2. CASE q # p
      BY <3>2, <2>4
    <3> QED
      BY <3>1, <3>2
  <2> QED
    BY <2>3, <2>4, <2>5, <2>6
<1>10. ASSUME NEW p \in Push, NEW r \in Ref, SwapFails(p, r) PROVE TypeOK'
  BY <1>10, PushAssumption, ZenonT(60) DEF SwapFails
<1>11. ASSUME NEW p \in Push, Conclude(p) PROVE TypeOK'
  BY <1>11 DEF Conclude, DeleteObjects
<1>12. ASSUME NEW p \in Push, Throw(p) PROVE TypeOK'
  BY <1>12 DEF Throw
<1>13. CASE UNCHANGED vars
  BY <1>13 DEF vars
<1> QED
  BY <1>1, <1>2, <1>3, <1>4, <1>5, <1>6, <1>7, <1>8, <1>9, <1>10, <1>11, <1>12, <1>13
     DEF Next, PushStep, ServerStep, RefStep

\* The variables keep to their ranges in every reachable state.
THEOREM TypeCorrect == Spec => []TypeOK
BY TypesAtStart, TypesStay, PTL DEF Spec

-------------------------------------------------------------------------------
(* The policy.                                                             *)

\* What the checks made so far still mean at the swap, any number of other
\* steps later: the verdicts are about the values the swap will compare.
PolicyInv ==
    \A p \in Push :
        /\ pc[p] \in {"idle", "advertised", "build"} => ff[p] = {}
        /\ \A r \in ff[p] : IsUpdate(p, r) /\ IsAncestor(advert[p][r], cmd[p][r])
        /\ pc[p] = "update" => ~PolicyRejects(p)
        /\ checked[p] # None => ~PolicyDeclines(p, checked[p])

\* Only a swap moves a ref.
LEMMA OnlySwapMoves ==
    ASSUME [Next]_vars, refs' # refs
    PROVE  \E p \in Push, r \in Ref : Swap(p, r)
BY ZenonT(60) DEF Next, PushStep, ServerStep, RefStep, vars, Advertise, Ingest, UnpackFails, BuildUpdates,
       AcceptPush, RejectPush, Decline, Pass, SwapFails, Conclude, Throw

\* The verdicts of buildRefUpdates and of the hooks keep their meaning.
THEOREM PolicyInvariant == Spec => []PolicyInv
<1>1. Init => PolicyInv
  BY DEF Init, PolicyInv
<1>2. TypeOK /\ PolicyInv /\ [Next]_vars => PolicyInv'
  <2> SUFFICES ASSUME TypeOK, PolicyInv, [Next]_vars, NEW q \in Push
               PROVE  PolicyInv!(q)'
    BY DEF PolicyInv
  <2> USE DEF PolicyInv, IsUpdate, IsCreate, IsDelete, PolicyRejects, PolicyDeclines, Commands
  <2>1. ASSUME NEW p \in Push, NEW held \in SUBSET Hidden, Advertise(p, held) PROVE PolicyInv!(q)'
    BY <2>1, ZenonT(60) DEF Advertise, TypeOK
  <2>2. ASSUME NEW p \in Push, NEW c \in Request(p), Ingest(p, c) PROVE PolicyInv!(q)'
    BY <2>2 DEF Ingest, TypeOK
  <2>3. ASSUME NEW p \in Push, NEW c \in Request(p), UnpackFails(p, c) PROVE PolicyInv!(q)'
    BY <2>3, ZenonT(60) DEF UnpackFails, TypeOK
  <2>4. ASSUME NEW p \in Push, BuildUpdates(p) PROVE PolicyInv!(q)'
    <3>1. ASSUME NEW r \in Commands(p), IsUpdate(p, r), IsAncestorIn(objs, advert[p][r], cmd[p][r])
          PROVE  IsAncestor(advert[p][r], cmd[p][r])
      <4>1. advert[p][r] \in Object /\ cmd[p][r] \in Object
        <5>1. advert[p] \in [Ref -> Object \cup {None}] /\ cmd[p] \in [Ref -> Object \cup {None, Skip}]
          BY DEF TypeOK, Value
        <5> QED
          BY <3>1, <5>1
      <4> QED
        BY <3>1, <4>1, AncestryIsSound
    <3>2. ff'[p] = {r \in Commands(p) :
                      IsUpdate(p, r) /\ IsAncestorIn(objs, advert[p][r], cmd[p][r])}
      BY <2>4 DEF BuildUpdates, TypeOK
    <3>3. \A r \in ff'[p] : IsUpdate(p, r) /\ IsAncestor(advert[p][r], cmd[p][r])
      BY <3>1, <3>2
    <3>4. /\ pc' = [pc EXCEPT ![p] = "pre"] /\ UNCHANGED <<advert, cmd, checked>>
          /\ \A x \in Push : x # p => ff'[x] = ff[x]
          /\ checked[p] = None
      BY <2>4 DEF BuildUpdates, TypeOK
    <3>5. CASE q = p
      BY <3>3, <3>4, <3>5 DEF TypeOK
    <3>6. CASE q # p
      BY <3>4, <3>6, ZenonT(60) DEF TypeOK
    <3> QED
      BY <3>5, <3>6
  <2>5. ASSUME NEW p \in Push, AcceptPush(p) PROVE PolicyInv!(q)'
    BY <2>5, ZenonT(60) DEF AcceptPush, TypeOK
  <2>6. ASSUME NEW p \in Push, RejectPush(p) PROVE PolicyInv!(q)'
    BY <2>6 DEF RejectPush, TypeOK
  <2>7. ASSUME NEW p \in Push, NEW r \in Ref, Decline(p, r) PROVE PolicyInv!(q)'
    BY <2>7, ZenonT(60) DEF Decline, TypeOK
  <2>8. ASSUME NEW p \in Push, NEW r \in Ref, Pass(p, r) PROVE PolicyInv!(q)'
    BY <2>8, ZenonT(60) DEF Pass, TypeOK
  <2>9. ASSUME NEW p \in Push, NEW r \in Ref, Swap(p, r) PROVE PolicyInv!(q)'
    BY <2>9 DEF Swap, TypeOK
  <2>10. ASSUME NEW p \in Push, NEW r \in Ref, SwapFails(p, r) PROVE PolicyInv!(q)'
    BY <2>10 DEF SwapFails, TypeOK
  <2>11. ASSUME NEW p \in Push, Conclude(p) PROVE PolicyInv!(q)'
    BY <2>11 DEF Conclude, TypeOK
  <2>12. ASSUME NEW p \in Push, Throw(p) PROVE PolicyInv!(q)'
    BY <2>12 DEF Throw, TypeOK
  <2>13. CASE UNCHANGED vars
    BY <2>13 DEF vars
  <2> QED
    BY <2>1, <2>2, <2>3, <2>4, <2>5, <2>6, <2>7, <2>8, <2>9, <2>10, <2>11, <2>12, <2>13
       DEF Next, PushStep, ServerStep, RefStep
<1> QED
  BY <1>1, <1>2, TypeCorrect, PTL DEF Spec

\* A protected branch only ever fast-forwards (ReceivePack!ProtectedFastForward).
THEOREM ProtectedOnlyFastForwards == Spec => ProtectedFastForward
<1>1. ASSUME TypeOK, PolicyInv, [Next]_vars, NEW r \in Protected,
             refs[r] # None, refs'[r] # refs[r]
      PROVE  refs'[r] # None /\ IsAncestor(refs[r], refs'[r])
  <2>1. PICK p \in Push, s \in Ref : Swap(p, s)
    BY <1>1, OnlySwapMoves
  <2>2. s = r /\ refs[r] = advert[p][r] /\ refs'[r] = cmd[p][r]
    <3>1. refs \in [Ref -> Value] /\ refs' = [refs EXCEPT ![s] = cmd[p][s]] /\ r \in Ref
      BY <1>1, <2>1, PushAssumption DEF Swap, CasRef, TypeOK
    <3> QED
      BY <1>1, <2>1, <3>1 DEF Swap, CasRef
  <2>3. r \in Commands(p) /\ pc[p] = "update"
    BY <1>1, <2>1, <2>2, PushAssumption, ZenonT(60) DEF Swap, TypeOK
  <2>4. r \in ff[p]
    BY <1>1, <2>2, <2>3 DEF PolicyInv, PolicyRejects, IsCreate
  <2> QED
    BY <1>1, <2>2, <2>4 DEF PolicyInv, IsUpdate
<1>2. TypeOK /\ PolicyInv /\ [Next]_vars
        => [\A r \in Protected :
              refs[r] # None /\ refs'[r] # refs[r]
                => refs'[r] # None /\ IsAncestor(refs[r], refs'[r])]_vars
  BY <1>1
<1> QED
  BY <1>2, TypeCorrect, PolicyInvariant, PTL DEF Spec, ProtectedFastForward

\* A tag under immutableTags keeps its first value (ReceivePack!TagsImmutable).
THEOREM TagsNeverMove == Spec => TagsImmutable
<1>1. ASSUME TypeOK, PolicyInv, [Next]_vars, NEW r \in ImmutableTags, refs[r] # None
      PROVE  refs'[r] = refs[r]
  <2> SUFFICES ASSUME refs'[r] # refs[r] PROVE FALSE
    OBVIOUS
  <2>1. PICK p \in Push, s \in Ref : Swap(p, s)
    BY <1>1, OnlySwapMoves
  <2>2. s = r /\ refs[r] = advert[p][r] /\ checked[p] = r
    BY <1>1, <2>1, PushAssumption DEF Swap, CasRef, TypeOK
  <2>3. ~PolicyDeclines(p, r)
    BY <1>1, <2>2, PushAssumption DEF PolicyInv
  <2> QED
    BY <1>1, <2>2, <2>3 DEF PolicyDeclines, IsCreate
<1>2. TypeOK /\ PolicyInv /\ [Next]_vars
        => [\A r \in ImmutableTags : refs[r] # None => refs'[r] = refs[r]]_vars
  BY <1>1
<1> QED
  BY <1>2, TypeCorrect, PolicyInvariant, PTL DEF Spec, TagsImmutable

\* With denyNonFastForward and denyDeletes no ref is ever rewritten
\* (ReceivePack!NoRewrite).
THEOREM NothingIsRewritten == Spec => NoRewrite
<1>1. ASSUME TypeOK, PolicyInv, [Next]_vars, DenyNonFF, DenyDeletes, NEW r \in Ref,
             refs[r] # None, refs'[r] # refs[r]
      PROVE  refs'[r] # None /\ IsAncestor(refs[r], refs'[r])
  <2>1. PICK p \in Push, s \in Ref : Swap(p, s)
    BY <1>1, OnlySwapMoves
  <2>2. s = r /\ refs[r] = advert[p][r] /\ refs'[r] = cmd[p][r] /\ checked[p] = r
    BY <1>1, <2>1, PushAssumption DEF Swap, CasRef, TypeOK
  <2>3. ~PolicyDeclines(p, r)
    BY <1>1, <2>2, PushAssumption DEF PolicyInv
  <2>4. r \in ff[p]
    BY <1>1, <2>2, <2>3 DEF PolicyDeclines, IsDelete, IsUpdate
  <2> QED
    BY <1>1, <2>2, <2>4 DEF PolicyInv, IsUpdate
<1>2. TypeOK /\ PolicyInv /\ [Next]_vars
        => [DenyNonFF /\ DenyDeletes =>
              \A r \in Ref :
                 refs[r] # None /\ refs'[r] # refs[r]
                   => refs'[r] # None /\ IsAncestor(refs[r], refs'[r])]_vars
  BY <1>1
<1> QED
  BY <1>2, TypeCorrect, PolicyInvariant, PTL DEF Spec, NoRewrite

-------------------------------------------------------------------------------
(* No ref dangles.                                                         *)

\* The objects push p may still take back.
AtRisk(p) == IF Unfinished(p) /\ applied[p] = {} THEN ingested[p] ELSE {}

\* RefsComplete with what it rests on: what clients were shown stays complete,
\* an unfinished push keeps its whole pack, and what a push may still take back
\* is needed by no ref, no client and no other unfinished push.
CompleteInv ==
    /\ \A r \in Ref : refs[r] # None =>
          /\ Closure[refs[r]] \subseteq objs
          /\ \A q \in Push : AtRisk(q) \cap Closure[refs[r]] = {}
    /\ \A p \in Push, r \in Ref : advert[p][r] # None =>
          /\ Closure[advert[p][r]] \subseteq objs
          /\ \A q \in Push : AtRisk(q) \cap Closure[advert[p][r]] = {}
    /\ \A p \in Push : Unfinished(p) =>
          /\ Pack(p, cmd[p]) \subseteq objs
          /\ \A q \in Push \ {p} : AtRisk(q) \cap Pack(p, cmd[p]) = {}

\* A pushed tip is covered by the pack and by what the client was shown.
LEMMA PackCovers ==
    ASSUME NEW p \in Push, NEW c, NEW r \in Ref, c[r] \in Object, Skip \notin Object,
           NEW o \in Closure[c[r]], o \notin Pack(p, c)
    PROVE  \E s \in Ref : advert[p][s] # None /\ o \in Closure[advert[p][s]]
BY DEF Pack, Missing, Reachable

\* As long as no two unfinished pushes bring a common new object, a ref is
\* complete in every reachable state (ReceivePack!RefsComplete).
THEOREM RefsNeverDangle == ~Overlap => (Spec => []RefsComplete)
<1> SUFFICES ASSUME ~Overlap PROVE Spec => []RefsComplete
  OBVIOUS
<1>1. Init => CompleteInv
  BY PushAssumption DEF Init, CompleteInv, AtRisk, Unfinished
<1>2. TypeOK /\ CompleteInv /\ [Next]_vars => CompleteInv'
  <2> SUFFICES ASSUME TypeOK, CompleteInv, [Next]_vars PROVE CompleteInv'
    OBVIOUS
  <2>1. ASSUME NEW p \in Push, NEW held \in SUBSET Hidden, Advertise(p, held) PROVE CompleteInv'
    <3>1. \A q \in Push : AtRisk(q)' = AtRisk(q) /\ (Unfinished(q)' <=> Unfinished(q))
      BY <2>1 DEF Advertise, AtRisk, Unfinished, TypeOK
    <3>2. \A q \in Push : Unfinished(q) => Pack(q, cmd[q])' = Pack(q, cmd[q])
      <4>1. \A q \in Push : Unfinished(q) => advert'[q] = advert[q] /\ cmd'[q] = cmd[q]
        BY <2>1 DEF Advertise, Unfinished, TypeOK
      <4> QED
        BY <4>1 DEF Pack
    <3>3. \A q \in Push, r \in Ref : advert'[q][r] \in {advert[q][r], refs[r], None}
      BY <2>1 DEF Advertise, TypeOK
    <3>4. UNCHANGED <<objs, refs, cmd>>
      BY <2>1 DEF Advertise
    <3> QED
      BY <3>1, <3>2, <3>3, <3>4 DEF CompleteInv
  <2>2. ASSUME NEW p \in Push, NEW c \in Request(p), Ingest(p, c) PROVE CompleteInv'
    <3>1. /\ objs' = objs \cup Pack(p, c)
          /\ UNCHANGED <<refs, advert>>
          /\ \A q \in Push \ {p} : Unfinished(q) => ingested[q] \cap Pack(p, c) = {}
      BY <2>2 DEF Ingest, PutObjects, Separate
    <3>2. AtRisk(p)' \cap objs = {} /\ Pack(p, cmd[p])' = Pack(p, c)
      <4>1. cmd'[p] = c /\ advert' = advert /\ ingested'[p] = Pack(p, c) \ objs
        BY <2>2 DEF Ingest, TypeOK
      <4> QED
        BY <4>1 DEF AtRisk, Pack
    <3>3. \A q \in Push \ {p} :
            /\ AtRisk(q)' = AtRisk(q) /\ (Unfinished(q)' <=> Unfinished(q))
            /\ Pack(q, cmd[q])' = Pack(q, cmd[q])
            /\ AtRisk(q) \cap Pack(p, c) = {}
      <4>1. \A q \in Push \ {p} :
              /\ pc'[q] = pc[q] /\ applied'[q] = applied[q] /\ ingested'[q] = ingested[q]
              /\ cmd'[q] = cmd[q] /\ advert'[q] = advert[q]
        BY <2>2 DEF Ingest, TypeOK
      <4>2. ASSUME NEW q \in Push \ {p} PROVE Pack(q, cmd[q])' = Pack(q, cmd[q])
        <5>1. cmd'[q] = cmd[q] /\ advert'[q] = advert[q]
          BY <4>1
        <5> QED
          BY <5>1 DEF Pack
      <4>3. \A q \in Push \ {p} : AtRisk(q)' = AtRisk(q) /\ (Unfinished(q)' <=> Unfinished(q))
        BY <4>1 DEF AtRisk, Unfinished
      <4>4. \A q \in Push \ {p} : AtRisk(q) \cap Pack(p, c) = {}
        BY <3>1 DEF AtRisk
      <4> QED
        BY <4>2, <4>3, <4>4
    <3> QED
      BY <3>1, <3>2, <3>3 DEF CompleteInv
  <2>3. ASSUME NEW p \in Push, RejectPush(p) \/ Conclude(p) PROVE CompleteInv'
    <3>1. objs \ AtRisk(p) \subseteq objs' /\ objs' \subseteq objs
      BY <2>3 DEF RejectPush, Conclude, DeleteObjects, AtRisk, Unfinished, TypeOK
    <3>2. ~Unfinished(p)' /\ AtRisk(p)' = {} /\ UNCHANGED <<refs, advert>>
      BY <2>3 DEF RejectPush, Conclude, AtRisk, Unfinished, TypeOK
    <3>3. \A q \in Push \ {p} :
            /\ AtRisk(q)' = AtRisk(q) /\ (Unfinished(q)' <=> Unfinished(q))
            /\ Pack(q, cmd[q])' = Pack(q, cmd[q])
      <4>1. \A q \in Push \ {p} : pc'[q] = pc[q]
        BY <2>3 DEF RejectPush, Conclude, TypeOK
      <4>2. UNCHANGED <<applied, ingested, cmd, advert>>
        BY <2>3 DEF RejectPush, Conclude
      <4> QED
        BY <4>1, <4>2 DEF AtRisk, Unfinished, Pack
    <3> QED
      BY <3>1, <3>2, <3>3 DEF CompleteInv
  <2>4. ASSUME NEW p \in Push, NEW r \in Ref, Swap(p, r) PROVE CompleteInv'
    <3>1. /\ UNCHANGED <<objs, advert>>
          /\ \A s \in Ref : s # r => refs'[s] = refs[s]
          /\ refs'[r] = cmd[p][r]
          /\ Unfinished(p) /\ cmd[p][r] \in Object \cup {None}
      <4>1. r \in Commands(p)
        BY <2>4, PushAssumption DEF Swap, TypeOK
      <4>2. refs \in [Ref -> Value] /\ cmd[p] \in [Ref -> Object \cup {None, Skip}]
        BY DEF TypeOK
      <4>3. cmd[p][r] \in Object \cup {None}
        BY <4>1, <4>2 DEF Commands
      <4>4. refs' = [refs EXCEPT ![r] = cmd[p][r]] /\ UNCHANGED <<objs, advert>> /\ pc[p] = "update"
        BY <2>4 DEF Swap, CasRef
      <4> QED
        BY <4>2, <4>3, <4>4 DEF Unfinished
    <3>2. /\ AtRisk(p)' = {}
          /\ \A q \in Push : /\ AtRisk(q)' \subseteq AtRisk(q)
                             /\ (Unfinished(q)' <=> Unfinished(q))
                             /\ Pack(q, cmd[q])' = Pack(q, cmd[q])
      <4>1. UNCHANGED <<pc, ingested, cmd, advert>>
        BY <2>4 DEF Swap
      <4>2. applied'[p] # {} /\ \A q \in Push \ {p} : applied'[q] = applied[q]
        BY <2>4 DEF Swap, TypeOK
      <4> QED
        BY <4>1, <4>2 DEF AtRisk, Unfinished, Pack
    <3>3. ASSUME cmd[p][r] # None, NEW o \in Closure[cmd[p][r]]
          PROVE  o \in objs /\ \A q \in Push : o \notin AtRisk(q)'
      <4>1. CASE o \in Pack(p, cmd[p])
        BY <3>1, <3>2, <4>1 DEF CompleteInv
      <4>2. CASE o \notin Pack(p, cmd[p])
        <5>1. PICK s \in Ref : advert[p][s] # None /\ o \in Closure[advert[p][s]]
          BY <3>1, <3>3, <4>2, PackCovers, PushAssumption
        <5> QED
          BY <3>2, <5>1 DEF CompleteInv
      <4> QED
        BY <4>1, <4>2
    <3>4. refs'[r] # None => /\ Closure[refs'[r]] \subseteq objs'
                             /\ \A q \in Push : AtRisk(q)' \cap Closure[refs'[r]] = {}
      BY <3>1, <3>3
    <3> QED
      BY <3>1, <3>2, <3>4 DEF CompleteInv
  <2>5. ASSUME UNCHANGED <<objs, refs, advert, ingested, applied>>,
               \A q \in Push : Unfinished(q)' => Unfinished(q) /\ cmd'[q] = cmd[q]
        PROVE  CompleteInv'
    <3>1. \A q \in Push : AtRisk(q)' \subseteq AtRisk(q)
      BY <2>5 DEF AtRisk
    <3>2. \A q \in Push : Unfinished(q)' => Pack(q, cmd[q])' = Pack(q, cmd[q])
      BY <2>5 DEF Pack
    <3> QED
      BY <2>5, <3>1, <3>2 DEF CompleteInv
  <2>6. ASSUME NEW p \in Push, NEW c \in Request(p), UnpackFails(p, c) PROVE CompleteInv'
    BY <2>5, <2>6 DEF UnpackFails, Unfinished, TypeOK
  <2>7. ASSUME NEW p \in Push,
               BuildUpdates(p) \/ AcceptPush(p) \/ Throw(p)
                 \/ \E r \in Ref : Decline(p, r) \/ Pass(p, r) \/ SwapFails(p, r)
        PROVE  CompleteInv'
    BY <2>5, <2>7 DEF BuildUpdates, AcceptPush, Throw, Decline, Pass, SwapFails, Unfinished, TypeOK
  <2>8. CASE UNCHANGED vars
    BY <2>8, <2>5 DEF vars, Unfinished
  <2> QED
    BY <2>1, <2>2, <2>3, <2>4, <2>6, <2>7, <2>8 DEF Next, PushStep, ServerStep, RefStep
<1>3. CompleteInv => RefsComplete
  BY DEF CompleteInv, RefsComplete
<1> QED
  BY <1>1, <1>2, <1>3, TypeCorrect, PTL DEF Spec

-------------------------------------------------------------------------------
(* What a refused push leaves behind.                                      *)

\* An answer is the end of a request.  The property itself is the rest of the
\* strengthening: whoever stores an object again after it was rolled back has
\* found it missing, and so has it among the objects it inserted.
RefusalInv ==
    /\ \A p \in Push : resp[p] = "report" => pc[p] = "done"
    /\ RejectedLeavesNothing

\* A push that was answered with every ref refused has left none of its objects,
\* but for those that another push inserted after the roll-back; packs may
\* overlap, hooks refuse and requests throw.
THEOREM RefusedLeavesNothing == Spec => []RejectedLeavesNothing
<1>1. Init => RefusalInv
  BY DEF Init, RefusalInv, RejectedLeavesNothing
<1>2. TypeOK /\ RefusalInv /\ [Next]_vars => RefusalInv'
  <2> SUFFICES ASSUME TypeOK, RefusalInv, [Next]_vars PROVE RefusalInv'
    OBVIOUS
  <2> USE DEF RefusalInv, RejectedLeavesNothing
  \* Steps that add no object and after which no more pushes count as refused.
  <2>1. ASSUME objs' \subseteq objs, UNCHANGED ingested,
               \A q \in Push : resp'[q] = "report" =>
                  /\ pc'[q] = "done"
                  /\ applied'[q] = {} =>
                       \/ resp[q] = "report" /\ applied[q] = {}
                       \/ ingested[q] \cap objs' = {}
        PROVE  RefusalInv'
    BY <2>1
  <2>2. ASSUME NEW p \in Push, NEW c \in Request(p), Ingest(p, c) PROVE RefusalInv'
    <3>1. /\ objs' = objs \cup Pack(p, c)
          /\ UNCHANGED <<applied, resp>>
          /\ pc[p] = "advertised" /\ ingested[p] = {}
      BY <2>2 DEF Ingest, PutObjects, TypeOK
    <3>2. ingested'[p] = Pack(p, c) \ objs
      BY <2>2 DEF Ingest, TypeOK
    <3>3. \A q \in Push \ {p} : ingested'[q] = ingested[q] /\ pc'[q] = pc[q]
      BY <2>2 DEF Ingest, TypeOK
    <3>4. resp[p] # "report"
      BY <3>1
    <3>5. ASSUME NEW q \in Push, resp'[q] = "report"
          PROVE  /\ q # p /\ pc'[q] = "done"
                 /\ applied'[q] = {} =>
                      \A o \in ingested'[q] \cap objs' :
                         \E x \in Push \ {q} : o \in ingested'[x]
      <4>1. q # p /\ resp[q] = "report"
        BY <3>1, <3>4, <3>5
      <4>2. pc'[q] = "done"
        BY <3>3, <4>1
      <4>3. ASSUME applied'[q] = {}, NEW o \in ingested'[q] \cap objs'
            PROVE  \E x \in Push \ {q} : o \in ingested'[x]
        <5>1. CASE o \in objs
          <6>1. PICK x \in Push \ {q} : o \in ingested[x]
            BY <3>1, <3>3, <4>1, <4>3, <5>1
          <6> QED
            BY <3>1, <3>3, <6>1
        <5>2. CASE o \notin objs
          BY <3>1, <3>2, <4>1, <4>3, <5>2
        <5> QED
          BY <5>1, <5>2
      <4> QED
        BY <4>1, <4>2, <4>3
    <3> QED
      BY <3>5
  <2>3. ASSUME NEW p \in Push, RejectPush(p) PROVE RefusalInv'
    BY <2>1, <2>3, ZenonT(60) DEF RejectPush, DeleteObjects, TypeOK
  <2>4. ASSUME NEW p \in Push, Conclude(p) PROVE RefusalInv'
    BY <2>1, <2>4, ZenonT(60) DEF Conclude, DeleteObjects, TypeOK
  <2>5. ASSUME NEW p \in Push, NEW r \in Ref, Swap(p, r) PROVE RefusalInv'
    BY <2>1, <2>5, ZenonT(60) DEF Swap, TypeOK
  <2>6. ASSUME NEW p \in Push, NEW c \in Request(p), UnpackFails(p, c) PROVE RefusalInv'
    <3>1. /\ objs' = objs /\ UNCHANGED <<ingested, applied>>
          /\ resp' = [resp EXCEPT ![p] = "unpack failed"]
          /\ pc' = [pc EXCEPT ![p] = "done"]
      BY <2>6 DEF UnpackFails
    <3> QED
      BY <2>1, <3>1, ZenonT(60) DEF TypeOK
  <2>7. ASSUME NEW p \in Push, NEW held \in SUBSET Hidden, Advertise(p, held) PROVE RefusalInv'
    BY <2>1, <2>7 DEF Advertise, TypeOK
  <2>8. ASSUME NEW p \in Push, BuildUpdates(p) \/ AcceptPush(p) \/ Throw(p) PROVE RefusalInv'
    BY <2>1, <2>8, ZenonT(60) DEF BuildUpdates, AcceptPush, Throw, TypeOK, Unfinished
  <2>9. ASSUME NEW p \in Push, NEW r \in Ref, Decline(p, r) \/ Pass(p, r) \/ SwapFails(p, r)
        PROVE  RefusalInv'
    BY <2>1, <2>9, ZenonT(60) DEF Decline, Pass, SwapFails, TypeOK
  <2>10. CASE UNCHANGED vars
    BY <2>1, <2>10 DEF vars
  <2> QED
    BY <2>2, <2>3, <2>4, <2>5, <2>6, <2>7, <2>8, <2>9, <2>10
       DEF Next, PushStep, ServerStep, RefStep
<1>3. RefusalInv => RejectedLeavesNothing
  BY DEF RefusalInv
<1> QED
  BY <1>1, <1>2, <1>3, TypeCorrect, PTL DEF Spec

-------------------------------------------------------------------------------
(* The push path implements AtomicRefs: initial states map to initial       *)
(* states, steps to steps or stutters.                                     *)

\* The abstract state, spelt out for one push.
Answer(p, r) ==
    IF cmd[p][r] = Skip THEN "unsent"
    ELSE IF r \in applied[p] THEN "ok"
    ELSE IF pc[p] = "done" \/ (pc[p] = "update" /\ r \notin todo[p]) THEN "ng"
    ELSE "pending"

LEMMA OutcomeIsAnswer ==
    /\ Outcome = [p \in Push |-> [r \in Ref |-> Answer(p, r)]]
    /\ Outcome' = [p \in Push |-> [r \in Ref |-> Answer(p, r)']]
BY DEF Outcome, Answer

\* The abstract variables of a push depend only on its commands, old values and
\* answers: where these are unchanged, so are they.
LEMMA AbstractFrame ==
    ASSUME \A q \in Push : cmd'[q] = cmd[q],
           \A q \in Push, r \in Ref : cmd[q][r] # Skip => advert'[q][r] = advert[q][r]
    PROVE  /\ [p \in Push |-> Commands(p)]' = [p \in Push |-> Commands(p)]
           /\ Believed' = Believed
           /\ Wanted' = Wanted
BY DEF Commands, Believed, Wanted

\* The push path implements AtomicRefs (ReceivePackRefinement!ImplementsAtomicRefs).
THEOREM Refinement == Spec => ImplementsAtomicRefs
<1>1. TypeOK /\ Init => Abstract!Init
  <2> SUFFICES ASSUME TypeOK, Init PROVE Abstract!Init
    OBVIOUS
  <2>1. \A p \in Push, r \in Ref : cmd[p][r] = Skip
    BY DEF Init, NoCommand
  <2>2. Outcome = [p \in Push |-> [r \in Ref |-> "unsent"]]
    BY <2>1, OutcomeIsAnswer DEF Answer
  <2>3. [p \in Push |-> Commands(p)] = [p \in Push |-> {}]
    BY <2>1 DEF Commands
  <2>4. Believed \in [Push -> [Ref -> Value]] /\ Wanted \in [Push -> [Ref -> Value]]
    BY <2>1 DEF Believed, Wanted, Value
  <2> QED
    BY <2>2, <2>3, <2>4 DEF Init, Abstract!Init
<1>2. TypeOK /\ TypeOK' /\ [Next]_vars => [Abstract!Next]_(Abstract!vars)
  <2> SUFFICES ASSUME TypeOK, TypeOK', [Next]_vars PROVE [Abstract!Next]_(Abstract!vars)
    OBVIOUS
  <2>1. ASSUME UNCHANGED refs, \A q \in Push : cmd'[q] = cmd[q],
               \A q \in Push, r \in Ref : cmd[q][r] # Skip => advert'[q][r] = advert[q][r],
               \A q \in Push, r \in Ref : Answer(q, r)' = Answer(q, r)
        PROVE  UNCHANGED Abstract!vars
    BY <2>1, AbstractFrame, OutcomeIsAnswer DEF Abstract!vars
  <2>2. ASSUME NEW p \in Push, NEW S \in SUBSET Ref, UNCHANGED refs,
               \A q \in Push : cmd'[q] = cmd[q] /\ advert'[q] = advert[q],
               \A r \in S : Answer(p, r) = "pending" /\ Answer(p, r)' = "ng",
               \A r \in Ref \ S : Answer(p, r)' = Answer(p, r),
               \A q \in Push \ {p}, r \in Ref : Answer(q, r)' = Answer(q, r)
        PROVE  Abstract!Next
    <3>1. Outcome' = [Outcome EXCEPT ![p] = [r \in Ref |-> IF r \in S THEN "ng" ELSE Outcome[p][r]]]
      <4> DEFINE old == [q \in Push |-> [r \in Ref |-> Answer(q, r)]]
                 next == [q \in Push |-> [r \in Ref |-> Answer(q, r)']]
      <4>1. next[p] = [r \in Ref |-> IF r \in S THEN "ng" ELSE old[p][r]]
        BY <2>2
      <4>2. \A q \in Push \ {p} : next[q] = old[q]
        BY <2>2
      <4>3. next = [old EXCEPT ![p] = [r \in Ref |-> IF r \in S THEN "ng" ELSE old[p][r]]]
        <5> HIDE DEF old, next
        <5>1. next = [q \in Push |-> next[q]] /\ old = [q \in Push |-> old[q]]
          BY DEF old, next
        <5> QED
          BY <4>1, <4>2, <5>1
      <4> QED
        BY <4>3, OutcomeIsAnswer
    <3>2. \A r \in S : Outcome[p][r] = "pending"
      BY <2>2, OutcomeIsAnswer
    <3>3. Abstract!Refuse(p, S)
      BY <2>2, <3>1, <3>2, AbstractFrame DEF Abstract!Refuse
    <3> QED
      BY <3>3 DEF Abstract!Next
  <2>3. ASSUME NEW p \in Push, NEW held \in SUBSET Hidden, Advertise(p, held) PROVE UNCHANGED Abstract!vars
    <3>1. cmd[p] = NoCommand /\ \A r \in Ref : cmd[p][r] = Skip
      <4>1. cmd[p] = NoCommand
        BY <2>3 DEF Advertise, TypeOK
      <4> QED
        BY <4>1 DEF NoCommand
    <3>2. UNCHANGED <<refs, cmd>> /\ \A q \in Push \ {p} : advert'[q] = advert[q]
      BY <2>3, ZenonT(60) DEF Advertise, TypeOK
    <3>3. \A q \in Push, r \in Ref : Answer(q, r)' = Answer(q, r)
      BY <2>3, <3>1, ZenonT(60) DEF Advertise, TypeOK, Answer
    <3> QED
      BY <2>1, <3>1, <3>2, <3>3
  <2>4. ASSUME NEW p \in Push, NEW c \in Request(p), Ingest(p, c) \/ UnpackFails(p, c)
        PROVE  Abstract!Next
    <3> DEFINE S == {r \in Ref : c[r] # Skip}
               answer == IF pc'[p] = "build" THEN "pending" ELSE "ng"
    <3>1. /\ cmd[p] = NoCommand /\ todo[p] = {} /\ applied[p] = {} /\ pc[p] = "advertised"
          /\ \A r \in Ref : cmd[p][r] = Skip
      <4>1. cmd[p] = NoCommand /\ todo[p] = {} /\ applied[p] = {} /\ pc[p] = "advertised"
        BY <2>4 DEF Ingest, UnpackFails, TypeOK
      <4> QED
        BY <4>1 DEF NoCommand
    <3>2. /\ UNCHANGED <<refs, advert, applied, todo>>
          /\ cmd'[p] = c /\ \A q \in Push \ {p} : cmd'[q] = cmd[q] /\ pc'[q] = pc[q]
          /\ pc'[p] \in {"build", "done"}
      BY <2>4, ZenonT(60) DEF Ingest, UnpackFails, TypeOK
    <3>3. S # {}
      BY DEF Request
    <3>4. Commands(p) = {} /\ Commands(p)' = S /\ \A q \in Push \ {p} : Commands(q)' = Commands(q)
      BY <3>1, <3>2 DEF Commands
    <3>5. /\ \A r \in Ref : Answer(p, r)' = IF r \in S THEN answer ELSE "unsent"
          /\ \A q \in Push \ {p}, r \in Ref : Answer(q, r)' = Answer(q, r)
      BY <3>1, <3>2 DEF Answer
    <3>6. Outcome' = [Outcome EXCEPT ![p] = [r \in Ref |-> IF r \in S THEN answer ELSE "unsent"]]
      BY <3>5, OutcomeIsAnswer
    <3>7. \A q \in Push \ {p} : Believed'[q] = Believed[q] /\ Wanted'[q] = Wanted[q]
      BY <3>2 DEF Believed, Wanted
    <3>8. Abstract!Send(p, S, answer)
      BY <3>2, <3>3, <3>4, <3>6, <3>7 DEF Abstract!Send
    <3>9. S \in SUBSET Ref /\ answer \in {"pending", "ng"}
      OBVIOUS
    <3> QED
      BY <3>8, <3>9 DEF Abstract!Next
  <2>5. ASSUME NEW p \in Push, BuildUpdates(p) PROVE UNCHANGED Abstract!vars
    <3>1. \A q \in Push, r \in Ref : Answer(q, r)' = Answer(q, r)
      BY <2>5 DEF BuildUpdates, TypeOK, Answer
    <3> QED
      BY <2>1, <2>5, <3>1 DEF BuildUpdates
  <2>6. ASSUME NEW p \in Push, AcceptPush(p) PROVE UNCHANGED Abstract!vars
    <3>1. \A q \in Push, r \in Ref : Answer(q, r)' = Answer(q, r)
      BY <2>6, ZenonT(60) DEF AcceptPush, TypeOK, Answer, Commands
    <3> QED
      BY <2>1, <2>6, <3>1 DEF AcceptPush
  <2>7. ASSUME NEW p \in Push, RejectPush(p) \/ Throw(p) PROVE Abstract!Next
    <3> DEFINE S == {r \in Ref : Answer(p, r) = "pending"}
    <3>1. pc'[p] = "done" /\ \A q \in Push \ {p} : pc'[q] = pc[q]
      BY <2>7 DEF RejectPush, Throw, TypeOK
    <3>2. UNCHANGED <<refs, cmd, advert, applied, todo>>
      BY <2>7 DEF RejectPush, Throw
    <3>3. /\ \A r \in S : Answer(p, r)' = "ng"
          /\ \A r \in Ref \ S : Answer(p, r)' = Answer(p, r)
          /\ \A q \in Push \ {p}, r \in Ref : Answer(q, r)' = Answer(q, r)
      BY <3>1, <3>2 DEF Answer
    <3> QED
      BY <2>2, <3>2, <3>3
  <2>8. ASSUME NEW p \in Push, NEW r \in Ref, Decline(p, r) \/ SwapFails(p, r)
        PROVE  Abstract!Next
    <3>1. r \in todo[p] /\ r \notin applied[p] /\ cmd[p][r] # Skip /\ pc[p] = "update"
      <4>1. r \in todo[p] /\ pc[p] = "update"
        <5>1. CASE Decline(p, r)
          BY <5>1 DEF Decline
        <5>2. CASE SwapFails(p, r)
          BY <5>2, PushAssumption DEF SwapFails, TypeOK
        <5> QED
          BY <2>8, <5>1, <5>2
      <4>2. todo[p] \cup applied[p] \subseteq Commands(p) /\ todo[p] \cap applied[p] = {}
        BY DEF TypeOK
      <4> QED
        BY <4>1, <4>2 DEF Commands
    <3>2. UNCHANGED <<refs, cmd, advert, applied, pc>>
      BY <2>8 DEF Decline, SwapFails
    <3>3. todo'[p] = todo[p] \ {r} /\ \A q \in Push \ {p} : todo'[q] = todo[q]
      BY <2>8 DEF Decline, SwapFails, TypeOK
    <3>4. /\ Answer(p, r) = "pending" /\ Answer(p, r)' = "ng"
          /\ \A s \in Ref \ {r} : Answer(p, s)' = Answer(p, s)
          /\ \A q \in Push \ {p}, s \in Ref : Answer(q, s)' = Answer(q, s)
      BY <3>1, <3>2, <3>3 DEF Answer
    <3> QED
      BY <2>2, <3>2, <3>4
  <2>9. ASSUME NEW p \in Push, NEW r \in Ref, Pass(p, r) PROVE UNCHANGED Abstract!vars
    <3>1. UNCHANGED <<refs, cmd, advert, applied, pc, todo>>
      BY <2>9 DEF Pass
    <3>2. \A q \in Push, s \in Ref : Answer(q, s)' = Answer(q, s)
      BY <3>1 DEF Answer
    <3> QED
      BY <2>1, <3>1, <3>2
  <2>10. ASSUME NEW p \in Push, NEW r \in Ref, Swap(p, r) PROVE Abstract!Next
    <3>1. r \in todo[p] /\ r \notin applied[p] /\ cmd[p][r] # Skip /\ pc[p] = "update"
      <4>1. r \in todo[p] /\ pc[p] = "update"
        BY <2>10, PushAssumption DEF Swap, TypeOK
      <4>2. todo[p] \cup applied[p] \subseteq Commands(p) /\ todo[p] \cap applied[p] = {}
        BY DEF TypeOK
      <4> QED
        BY <4>1, <4>2 DEF Commands
    <3>2. /\ UNCHANGED <<cmd, advert, pc>> /\ refs[r] = advert[p][r]
          /\ refs' = [refs EXCEPT ![r] = cmd[p][r]]
      BY <2>10 DEF Swap, CasRef
    <3>3. /\ todo'[p] = todo[p] \ {r} /\ applied'[p] = applied[p] \cup {r}
          /\ \A q \in Push \ {p} : todo'[q] = todo[q] /\ applied'[q] = applied[q]
      <4>1. todo \in [Push -> SUBSET Ref] /\ applied \in [Push -> SUBSET Ref]
        BY DEF TypeOK
      <4> QED
        BY <2>10, <4>1 DEF Swap
    <3>4. /\ Answer(p, r) = "pending" /\ Answer(p, r)' = "ok"
          /\ \A s \in Ref \ {r} : Answer(p, s)' = Answer(p, s)
          /\ \A q \in Push \ {p}, s \in Ref : Answer(q, s)' = Answer(q, s)
      BY <3>1, <3>2, <3>3 DEF Answer
    <3>5. Outcome' = [Outcome EXCEPT ![p][r] = "ok"] /\ Outcome[p][r] = "pending"
      BY <3>4, OutcomeIsAnswer, SMTT(40)
    <3>6. Believed[p][r] = advert[p][r] /\ Wanted[p][r] = cmd[p][r]
      BY <3>1 DEF Believed, Wanted
    <3>7. UNCHANGED <<[q \in Push |-> Commands(q)], Believed, Wanted>>
      BY <3>2, AbstractFrame
    <3>8. Abstract!Apply(p, r)
      BY <3>2, <3>5, <3>6, <3>7 DEF Abstract!Apply
    <3> QED
      BY <3>8 DEF Abstract!Next
  <2>11. ASSUME NEW p \in Push, Conclude(p) PROVE UNCHANGED Abstract!vars
    <3>1. \A q \in Push, r \in Ref : Answer(q, r)' = Answer(q, r)
      BY <2>11, ZenonT(60) DEF Conclude, TypeOK, Answer
    <3> QED
      BY <2>1, <2>11, <3>1 DEF Conclude
  <2>12. CASE UNCHANGED vars
    <3>1. \A q \in Push, r \in Ref : Answer(q, r)' = Answer(q, r)
      BY <2>12 DEF vars, Answer
    <3> QED
      BY <2>1, <2>12, <3>1 DEF vars
  <2> QED
    BY <2>3, <2>4, <2>5, <2>6, <2>7, <2>8, <2>9, <2>10, <2>11, <2>12
       DEF Next, PushStep, ServerStep, RefStep
<1>3. Spec => []TypeOK
  BY TypeCorrect
<1>4. Init => TypeOK
  BY PushAssumption DEF Init, TypeOK, Value, NoCommand, Commands
<1> QED
  BY <1>1, <1>2, <1>3, <1>4, PTL DEF Spec, ImplementsAtomicRefs, Abstract!Spec
===============================================================================
