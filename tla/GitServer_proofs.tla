--------------------------- MODULE GitServer_proofs ---------------------------
(***************************************************************************)
(* Theorems about one repository under all of its writers and its          *)
(* collector, for any object graph, any refs, pushes and in-process calls. *)
(***************************************************************************)
EXTENDS MCGitServerGc, ReceivePack_proofs

-------------------------------------------------------------------------------
(* Types.                                                                  *)

\* The in-process calls: their variables keep to their ranges, and say what jpc
\* says.
JobTypes ==
    /\ jpc \in [Job -> {"idle", "write", "resolve", "apply"}]
    /\ jold \in [Job -> [Ref -> Value \cup {Skip}]]
    /\ jnew \in [Job -> [Ref -> Value \cup {Skip}]]
    /\ jobjs \in [Job -> SUBSET Object]
    /\ jrefs \in [Job -> SUBSET Ref]
    /\ jchecked \in [Job -> Ref \cup {None}]
    /\ jok \in [Job -> SUBSET Ref]
    /\ \A j \in Job :
         /\ jpc[j] \in {"idle", "write"} => jrefs[j] = {}
         /\ jpc[j] # "apply" => jok[j] = {}
         /\ jrefs[j] \cup jok[j] \subseteq JobRefs(j) /\ jrefs[j] \cap jok[j] = {}
         /\ jpc[j] = "write" <=> jobjs[j] # {}
         /\ jchecked[j] # None => jpc[j] = "apply" /\ jchecked[j] \in jrefs[j]

\* The collector.
GcTypes ==
    /\ gcPc \in {"idle", "walk", "list", "recheck", "delete"}
    /\ gcRefs \in [Ref -> Value]
    /\ gcLive \in SUBSET Object
    /\ gcDoomed \in SUBSET Object
    /\ gcRuns \in 0..MaxGc
    /\ gcPc \in {"list", "recheck", "delete"} => gcLive = Reachable(Tipset(gcRefs))
    /\ gcDoomed \cap gcLive = {}
    /\ gcPc \in {"idle", "walk", "list"} => gcDoomed = {}

ServerTypes == TypeOK /\ JobTypes /\ GcTypes

\* Objects are reached from refs by a walk that stays inside the graph.
LEMMA ReachableType ==
    ASSUME NEW T \in SUBSET Object PROVE Reachable(T) \in SUBSET Object
BY ClosureType DEF Reachable

LEMMA TipsetType ==
    ASSUME NEW m \in [Ref -> Value] PROVE Tipset(m) \in SUBSET Object
BY DEF Tipset, Value

\* A call or a collection moves objects and refs within their ranges, and leaves
\* the requests of the pushes alone.
LEMMA OthersKeepPushTypes ==
    ASSUME TypeOK, UNCHANGED pushVars, objs' \in SUBSET Object, refs' \in [Ref -> Value]
    PROVE  TypeOK'
BY DEF TypeOK, pushVars, Commands

\* What a commit has to write before its ref can move includes itself.
LEMMA CommitIsWritten ==
    ASSUME ServerAssumption, NEW n \in Object
    PROVE  /\ n \in Missing({n}, Parents[n])
           /\ Missing({n}, Parents[n]) \in SUBSET Object
<1>1. Parents[n] \subseteq Points[n] /\ Points[n] \subseteq Object
  BY ObjectsAssumption
<1>2. n \notin Reachable(Parents[n])
  BY <1>1 DEF ServerAssumption, Reachable
<1>3. Reachable({n}) = Closure[n]
  BY DEF Reachable
<1> QED
  BY <1>2, <1>3, ClosureSelf, ClosureType DEF Missing

\* Each step of a call keeps the ranges of its variables, of objs and of refs.
LEMMA JobTypesStay ==
    ASSUME ServerAssumption, TypeOK, JobTypes, NEW j \in Job, JobStep(j)
    PROVE  JobTypes' /\ objs' \in SUBSET Object /\ refs' \in [Ref -> Value]
<1> USE DEF JobTypes, JobRefs
<1>0. objs \in SUBSET Object /\ refs \in [Ref -> Value] /\ None \notin Ref /\ Skip \notin Value
  BY PushAssumption DEF TypeOK, Value
<1>1. ASSUME NEW r \in Ref, NEW n \in NewCommits[j], j \in CommitJob, CommitRead(j, r, n)
      PROVE  JobTypes' /\ objs' \in SUBSET Object /\ refs' \in [Ref -> Value]
  <2>1. n \in Object
    BY <1>1 DEF ServerAssumption
  <2> DEFINE M == Missing({n}, Parents[n])
  <2>2. M \in SUBSET Object /\ M # {}
    BY <2>1, CommitIsWritten
  <2>3. /\ jold' = [jold EXCEPT ![j][r] = refs[r]]
        /\ jnew' = [jnew EXCEPT ![j][r] = n]
        /\ jobjs' = [jobjs EXCEPT ![j] = M]
        /\ jpc' = [jpc EXCEPT ![j] = "write"]
        /\ jpc[j] = "idle"
        /\ UNCHANGED <<objs, refs, jrefs, jchecked, jok>>
    BY <1>1 DEF CommitRead
  <2> HIDE DEF M
  <2>4. /\ jold' \in [Job -> [Ref -> Value \cup {Skip}]]
        /\ jnew' \in [Job -> [Ref -> Value \cup {Skip}]]
    BY <1>0, <2>1, <2>3 DEF Value
  <2>5. /\ jobjs' \in [Job -> SUBSET Object]
        /\ jpc' \in [Job -> {"idle", "write", "resolve", "apply"}]
    BY <2>2, <2>3
  <2>6. \A i \in Job \ {j} : jnew'[i] = jnew[i] /\ jobjs'[i] = jobjs[i] /\ jpc'[i] = jpc[i]
    BY <2>3
  <2>7. jobjs'[j] # {} /\ jpc'[j] = "write" /\ jrefs[j] = {} /\ jok[j] = {} /\ jchecked[j] = None
    BY <2>2, <2>3
  <2> QED
    BY <1>0, <2>3, <2>4, <2>5, <2>6, <2>7
<1>2. ASSUME NEW o \in Object, CommitWrite(j, o)
      PROVE  JobTypes' /\ objs' \in SUBSET Object /\ refs' \in [Ref -> Value]
  <2>1. /\ jpc[j] = "write" /\ o \in jobjs[j]
        /\ objs' = objs \cup {o}
        /\ jobjs' = [jobjs EXCEPT ![j] = jobjs[j] \ {o}]
        /\ UNCHANGED <<refs, jold, jnew, jchecked, jok>>
    BY <1>2 DEF CommitWrite, PutObjects
  <2>2. CASE jobjs[j] = {o}
    <3>1. jpc' = [jpc EXCEPT ![j] = "apply"] /\ jrefs' = [jrefs EXCEPT ![j] = JobRefs(j)]
      BY <1>2, <2>2 DEF CommitWrite
    <3> QED
      BY <1>0, <2>1, <2>2, <3>1
  <2>3. CASE jobjs[j] # {o}
    <3>1. UNCHANGED <<jpc, jrefs>>
      BY <1>2, <2>3 DEF CommitWrite
    <3> QED
      BY <1>0, <2>1, <2>3, <3>1
  <2> QED
    BY <2>2, <2>3
<1>3. ASSUME NEW c \in [Ref -> UpdateTips \cup {None, Skip}], UpdateCall(j, c)
      PROVE  JobTypes' /\ objs' \in SUBSET Object /\ refs' \in [Ref -> Value]
  <2>1. c \in [Ref -> Value \cup {Skip}]
    BY <1>3 DEF ServerAssumption, Value
  <2> QED
    BY <1>0, <1>3, <2>1 DEF UpdateCall
<1>4. ASSUME NEW r \in Ref, NEW old \in {refs[r], None} \cup Tipset(InitRefs),
             UpdateResolve(j, r, old)
      PROVE  JobTypes' /\ objs' \in SUBSET Object /\ refs' \in [Ref -> Value]
  <2>1. old \in Value
    BY <1>0, TipsetType, PushAssumption DEF Value
  <2>2. jold' \in [Job -> [Ref -> Value \cup {Skip}]]
    BY <1>4, <2>1 DEF UpdateResolve
  <2>3. /\ jpc[j] = "resolve" /\ jok[j] = {} /\ jobjs[j] = {} /\ jchecked[j] = None
        /\ UNCHANGED <<objs, refs, jnew, jobjs, jchecked, jok>>
    BY <1>4 DEF UpdateResolve
  <2>4. CASE jrefs[j] = {r}
    <3>1. jpc' = [jpc EXCEPT ![j] = "apply"] /\ jrefs' = [jrefs EXCEPT ![j] = JobRefs(j)]
      BY <1>4, <2>4 DEF UpdateResolve
    <3> QED
      BY <1>0, <2>2, <2>3, <3>1
  <2>5. CASE jrefs[j] # {r}
    <3>1. jpc' = jpc /\ jrefs' = [jrefs EXCEPT ![j] = jrefs[j] \ {r}]
      BY <1>4, <2>5 DEF UpdateResolve
    <3> QED
      BY <1>0, <2>2, <2>3, <3>1
  <2> QED
    BY <2>4, <2>5
<1>5. ASSUME NEW r \in Ref, JobCheck(j, r)
      PROVE  JobTypes' /\ objs' \in SUBSET Object /\ refs' \in [Ref -> Value]
  <2>1. /\ jpc[j] = "apply" /\ jchecked[j] = None /\ r \in jrefs[j]
        /\ UNCHANGED <<objs, refs, jpc, jold, jnew, jobjs, jok>>
        /\ \/ jrefs' = [jrefs EXCEPT ![j] = jrefs[j] \ {r}] /\ UNCHANGED jchecked
           \/ jchecked' = [jchecked EXCEPT ![j] = r] /\ UNCHANGED jrefs
    BY <1>5 DEF JobCheck
  <2>2. CASE jrefs' = [jrefs EXCEPT ![j] = jrefs[j] \ {r}] /\ UNCHANGED jchecked
    BY <1>0, <2>1, <2>2
  <2>3. CASE jchecked' = [jchecked EXCEPT ![j] = r] /\ UNCHANGED jrefs
    BY <1>0, <2>1, <2>3
  <2> QED
    BY <2>1, <2>2, <2>3
<1>6. ASSUME NEW r \in Ref, JobSwap(j, r)
      PROVE  JobTypes' /\ objs' \in SUBSET Object /\ refs' \in [Ref -> Value]
  <2>1. r \in jrefs[j] /\ jpc[j] = "apply"
    BY <1>0, <1>6 DEF JobSwap
  <2>2. jnew[j][r] \in Value
    BY <2>1
  <2>3. refs' \in [Ref -> Value]
    BY <1>0, <1>6, <2>2 DEF JobSwap, CasRef
  <2>4. /\ jok' = [jok EXCEPT ![j] = jok[j] \cup {r}]
        /\ jrefs' = [jrefs EXCEPT ![j] = jrefs[j] \ {r}]
        /\ jchecked' = [jchecked EXCEPT ![j] = None]
        /\ UNCHANGED <<objs, jpc, jold, jnew, jobjs>>
    BY <1>6 DEF JobSwap
  <2>5. \A i \in Job :
          /\ jrefs'[i] \cup jok'[i] = jrefs[i] \cup jok[i] /\ jrefs'[i] \cap jok'[i] = {}
          /\ i # j => jchecked'[i] = jchecked[i] /\ jrefs'[i] = jrefs[i] /\ jok'[i] = jok[i]
    BY <2>1, <2>4
  <2> QED
    BY <1>0, <2>1, <2>3, <2>4, <2>5
<1>7. ASSUME NEW r \in Ref, JobSwapFails(j, r)
      PROVE  JobTypes' /\ objs' \in SUBSET Object /\ refs' \in [Ref -> Value]
  BY <1>0, <1>7 DEF JobSwapFails
<1> QED
  BY <1>1, <1>2, <1>3, <1>4, <1>5, <1>6, <1>7 DEF JobStep, CommitStep, UpdateStep, ApplyStep

\* Each step of the collector keeps its ranges, and takes objects away at most.
LEMMA GcTypesStay ==
    ASSUME ServerAssumption, TypeOK, GcTypes, GcStep
    PROVE  GcTypes' /\ objs' \in SUBSET objs /\ refs' = refs
<1> USE DEF GcTypes
<1>0. objs \in SUBSET Object /\ refs \in [Ref -> Value]
  BY DEF TypeOK
<1>1. ASSUME GcStart PROVE GcTypes' /\ objs' \in SUBSET objs /\ refs' = refs
  BY <1>0, <1>1 DEF GcStart, ServerAssumption
<1>2. ASSUME GcWalk PROVE GcTypes' /\ objs' \in SUBSET objs /\ refs' = refs
  <2> DEFINE found == Reachable(Tipset(gcRefs))
  <2>1. found \in SUBSET Object
    BY ReachableType, TipsetType
  <2>2. /\ \/ gcLive' = found /\ gcPc' = "list"
           \/ gcLive' = {} /\ gcPc' = "idle"
        /\ gcDoomed = {} /\ UNCHANGED <<objs, refs, gcRefs, gcDoomed, gcRuns>>
    BY <1>2 DEF GcWalk
  <2>3. Reachable(Tipset(gcRefs))' = found
    BY <2>2 DEF Tipset
  <2> QED
    BY <2>1, <2>2, <2>3
<1>3. ASSUME GcList PROVE GcTypes' /\ objs' \in SUBSET objs /\ refs' = refs
  <2>1. Reachable(Tipset(gcRefs))' = Reachable(Tipset(gcRefs))
    BY <1>3 DEF GcList, Tipset
  <2> QED
    BY <1>0, <1>3, <2>1 DEF GcList
<1>4. ASSUME GcRecheck PROVE GcTypes' /\ objs' \in SUBSET objs /\ refs' = refs
  <2>1. Reachable(Tipset(gcRefs))' = Reachable(Tipset(gcRefs))
    BY <1>4 DEF GcRecheck, Tipset
  <2> QED
    BY <1>4, <2>1 DEF GcRecheck
<1>5. ASSUME GcDelete PROVE GcTypes' /\ objs' \in SUBSET objs /\ refs' = refs
  BY <1>5 DEF GcDelete, DeleteObjects
<1> QED
  BY <1>1, <1>2, <1>3, <1>4, <1>5 DEF GcStep

\* The types of all variables are an inductive invariant.
LEMMA ServerTypesBegin == ASSUME ServerAssumption PROVE ServerInit => ServerTypes
<1> SUFFICES ASSUME ServerInit PROVE ServerTypes
  OBVIOUS
<1>1. TypeOK
  BY TypesAtStart DEF ServerInit
<1>2. JobTypes
  BY PushAssumption DEF ServerInit, JobTypes, NoCommand, Value, JobRefs
<1>3. GcTypes
  BY PushAssumption DEF ServerInit, GcTypes, Value, ServerAssumption
<1> QED
  BY <1>1, <1>2, <1>3 DEF ServerTypes

LEMMA ServerTypesStay ==
    ASSUME ServerAssumption PROVE ServerTypes /\ [ServerNext]_allVars => ServerTypes'
<1> SUFFICES ASSUME ServerTypes, [ServerNext]_allVars PROVE ServerTypes'
  OBVIOUS
<1> USE DEF ServerTypes
<1>1. ASSUME UNCHANGED jobVars PROVE JobTypes'
  BY <1>1 DEF jobVars, JobTypes, JobRefs
<1>2. ASSUME UNCHANGED gcVars PROVE GcTypes'
  <2>1. Reachable(Tipset(gcRefs))' = Reachable(Tipset(gcRefs))
    BY <1>2 DEF gcVars, Tipset
  <2> QED
    BY <1>2, <2>1 DEF gcVars, GcTypes
<1>3. ASSUME NEW p \in Push, PushStep(p), UNCHANGED <<jobVars, gcVars>> PROVE ServerTypes'
  <2>1. TypeOK'
    BY <1>3, TypesStay DEF Next
  <2> QED
    BY <1>1, <1>2, <1>3, <2>1
<1>4. ASSUME NEW j \in Job, JobStep(j), UNCHANGED <<pushVars, gcVars>> PROVE ServerTypes'
  BY <1>2, <1>4, JobTypesStay, OthersKeepPushTypes
<1>5. ASSUME GcStep, UNCHANGED <<pushVars, jobVars>> PROVE ServerTypes'
  <2>1. GcTypes' /\ objs' \in SUBSET objs /\ refs' = refs
    BY <1>5, GcTypesStay
  <2>2. TypeOK'
    BY <1>5, <2>1, OthersKeepPushTypes DEF TypeOK
  <2> QED
    BY <1>1, <1>5, <2>1, <2>2
<1>6. CASE UNCHANGED allVars
  <2>1. UNCHANGED vars /\ UNCHANGED jobVars /\ UNCHANGED gcVars
    BY <1>6 DEF allVars
  <2>2. TypeOK'
    BY <2>1, TypesStay
  <2> QED
    BY <1>1, <1>2, <2>1, <2>2
<1> QED
  BY <1>3, <1>4, <1>5, <1>6 DEF ServerNext

LEMMA ServerTypesHold == ASSUME ServerAssumption PROVE ServerSpec => []ServerTypes
BY ServerTypesBegin, ServerTypesStay, PTL DEF ServerSpec

\* The types of the composed system, among them that what a collection dooms is
\* disjoint from what it found live (GitServer!ServerTypeOK).
THEOREM ServerTypeCorrect == ASSUME ServerAssumption PROVE ServerSpec => []ServerTypeOK
<1>1. ServerTypes => ServerTypeOK
  BY DEF ServerTypes, ServerTypeOK, JobTypes, GcTypes
<1> QED
  BY <1>1, ServerTypesHold, PTL

-------------------------------------------------------------------------------
(* Commits that are made in process.                                       *)

\* A new commit names the value its branch had when the call read it, and the
\* call is going to compare with that very value.
CommitInv ==
    \A j \in CommitJob, r \in Ref : jnew[j][r] # Skip =>
        /\ jnew[j][r] \in Object
        /\ jold[j][r] # None => jold[j][r] \in Parents[jnew[j][r]]

\* A parent is an ancestor, and not the commit itself.
LEMMA ParentIsAncestor ==
    ASSUME ServerAssumption, NEW n \in Object, NEW m \in Parents[n]
    PROVE  m # n /\ IsAncestor(m, n)
<1>1. m \in Points[n] /\ m \in Object
  BY ObjectsAssumption
<1>2. m # n
  <2>1. n \notin Reachable(Points[n])
    BY DEF ServerAssumption
  <2> QED
    BY <1>1, <2>1, ClosureSelf DEF Reachable
<1>3. IsAncestorIn(Object, m, n)
  BY DEF IsAncestorIn
<1> QED
  BY <1>1, <1>2, <1>3 DEF IsAncestor, Ancestors

\* Only the call itself changes what it compares and what it writes, and only
\* when it reads the branch.
LEMMA CommitInvHolds == ASSUME ServerAssumption PROVE ServerSpec => []CommitInv
<1>1. ServerInit => CommitInv
  BY DEF ServerInit, CommitInv, NoCommand, Job
<1>2. ServerTypes /\ CommitInv /\ [ServerNext]_allVars => CommitInv'
  <2> SUFFICES ASSUME JobTypes, CommitInv, [ServerNext]_allVars PROVE CommitInv'
    BY DEF ServerTypes
  <2> USE DEF CommitInv
  <2>1. ASSUME \A i \in CommitJob : jnew'[i] = jnew[i] /\ jold'[i] = jold[i] PROVE CommitInv'
    BY <2>1
  <2>2. ASSUME NEW j \in CommitJob, NEW r \in Ref, NEW n \in NewCommits[j], CommitRead(j, r, n)
        PROVE  CommitInv'
    <3>1. n \in Object
      BY DEF ServerAssumption
    <3>2. /\ jold' = [jold EXCEPT ![j][r] = refs[r]]
          /\ jnew' = [jnew EXCEPT ![j][r] = n]
          /\ refs[r] # None => refs[r] \in Parents[n]
      BY <2>2 DEF CommitRead
    <3>3. j \in Job /\ jold \in [Job -> [Ref -> Value \cup {Skip}]]
                    /\ jnew \in [Job -> [Ref -> Value \cup {Skip}]]
      BY DEF Job, JobTypes
    <3>4. ASSUME NEW i \in CommitJob, NEW s \in Ref
          PROVE  \/ jnew'[i][s] = n /\ jold'[i][s] = refs[r] /\ s = r
                 \/ jnew'[i][s] = jnew[i][s] /\ jold'[i][s] = jold[i][s]
      <4>1. i \in Job
        BY DEF Job
      <4> QED
        BY <3>2, <3>3, <4>1
    <3> QED
      BY <3>1, <3>2, <3>4
  <2>3. ASSUME NEW j \in UpdateJob, UpdateStep(j) PROVE CommitInv'
    <3>1. \A i \in CommitJob : i # j /\ i \in Job
      BY DEF ServerAssumption, Job
    <3>2. \A i \in CommitJob : jnew'[i] = jnew[i] /\ jold'[i] = jold[i]
      BY <2>3, <3>1 DEF UpdateStep, UpdateCall, UpdateResolve, JobTypes
    <3> QED
      BY <2>1, <3>2
  <2>4. ASSUME NEW j \in Job, ApplyStep(j) PROVE CommitInv'
    BY <2>1, <2>4 DEF ApplyStep, JobCheck, JobSwap, JobSwapFails
  <2>5. ASSUME NEW j \in Job, NEW o, CommitWrite(j, o) PROVE CommitInv'
    BY <2>1, <2>5 DEF CommitWrite
  <2>6. CASE UNCHANGED jobVars
    BY <2>1, <2>6 DEF jobVars
  <2> QED
    BY <2>2, <2>3, <2>4, <2>5, <2>6 DEF ServerNext, JobStep, CommitStep, allVars
<1> QED
  BY <1>1, <1>2, ServerTypesHold, PTL DEF ServerSpec

\* A commit made in process only ever adds to a branch, whatever pushes, other
\* calls and the collector do between its steps (GitServer!CommitsExtendBranch).
THEOREM CommitsOnlyAdd ==
    ASSUME ServerAssumption PROVE ServerSpec => CommitsExtendBranch
<1> DEFINE Extends == \A j \in CommitJob : \A r \in jok'[j] \ jok[j] :
                         refs[r] # None => refs[r] # refs'[r] /\ IsAncestor(refs[r], refs'[r])
<1>1. ServerTypes /\ CommitInv /\ [ServerNext]_allVars => [Extends]_allVars
  <2> SUFFICES ASSUME TypeOK, JobTypes, CommitInv, [ServerNext]_allVars
               PROVE  Extends
    BY DEF ServerTypes
  <2>1. ASSUME UNCHANGED jok PROVE Extends
    BY <2>1
  <2>2. ASSUME NEW j \in Job, NEW r \in Ref, JobSwap(j, r) PROVE Extends
    <3>1. /\ refs[r] = jold[j][r]
          /\ refs' = [refs EXCEPT ![r] = jnew[j][r]]
          /\ jok' = [jok EXCEPT ![j] = jok[j] \cup {r}]
      BY <2>2 DEF JobSwap, CasRef
    <3>2. jnew[j][r] # Skip
      BY <2>2, PushAssumption DEF JobSwap, JobTypes, JobRefs
    <3>3. ASSUME NEW i \in CommitJob, NEW s \in jok'[i] \ jok[i], refs[s] # None
          PROVE  refs[s] # refs'[s] /\ IsAncestor(refs[s], refs'[s])
      <4>1. i = j /\ s = r /\ i \in Job
        BY <3>1, <3>3 DEF JobTypes, Job
      <4>2. jnew[j][r] \in Object /\ refs[r] \in Parents[jnew[j][r]]
        BY <3>1, <3>2, <3>3, <4>1 DEF CommitInv
      <4>3. refs'[r] = jnew[j][r]
        BY <3>1 DEF TypeOK
      <4> QED
        BY <4>1, <4>2, <4>3, ParentIsAncestor
    <3> QED
      BY <3>3
  <2>3. ASSUME NEW j \in Job, JobStep(j) PROVE Extends
    <3>1. CASE \E r \in Ref : JobSwap(j, r)
      BY <2>2, <3>1
    <3>2. CASE \E r \in Ref : JobCheck(j, r) \/ JobSwapFails(j, r)
      BY <2>1, <3>2 DEF JobCheck, JobSwapFails
    <3>3. CASE CommitStep(j) \/ UpdateStep(j)
      BY <2>1, <3>3 DEF CommitStep, UpdateStep, CommitRead, CommitWrite, UpdateCall, UpdateResolve
    <3> QED
      BY <2>3, <3>1, <3>2, <3>3 DEF JobStep, ApplyStep
  <2>4. CASE UNCHANGED jobVars
    BY <2>1, <2>4 DEF jobVars
  <2> QED
    BY <2>3, <2>4 DEF ServerNext, allVars
<1> QED
  BY <1>1, ServerTypesHold, CommitInvHolds, PTL DEF ServerSpec, CommitsExtendBranch

-------------------------------------------------------------------------------
(* The collector.                                                          *)

\* Nothing that the refs reach at the second look is doomed, however the
\* writers came and went since the first (GitServer!RecheckSparesLive).
THEOREM SecondLookSpares ==
    ASSUME ServerAssumption PROVE ServerSpec => RecheckSparesLive
<1>1. ServerTypes /\ [ServerNext]_allVars =>
        [gcPc = "recheck" /\ gcPc' = "delete" => Reachable(Tipset(refs)) \cap gcDoomed = {}]_allVars
  <2> SUFFICES ASSUME GcTypes, [ServerNext]_allVars, gcPc = "recheck", gcPc' = "delete"
               PROVE  Reachable(Tipset(refs)) \cap gcDoomed = {}
    BY DEF ServerTypes
  <2>1. GcStep
    BY DEF ServerNext, gcVars, allVars
  <2>2. GcRecheck
    BY <2>1 DEF GcStep, GcStart, GcWalk, GcList, GcDelete
  <2>3. refs = gcRefs
    BY <2>2 DEF GcRecheck
  <2> QED
    BY <2>3 DEF GcTypes
<1> QED
  BY <1>1, ServerTypesHold, PTL DEF ServerSpec, RecheckSparesLive

\* While a collection that is left alone is at work, nobody else is: the refs
\* are still those of its snapshot, what it found live is stored, and what it
\* dooms is all the rest.
AloneInv ==
    /\ gcPc # "idle" => ~Busy /\ refs = gcRefs
    /\ gcPc \in {"list", "recheck", "delete"} => gcLive \subseteq objs
    /\ gcPc \in {"recheck", "delete"} => gcDoomed = objs \ gcLive

LEMMA AloneInvStays ==
    ASSUME ServerAssumption, GcAlone
    PROVE  ServerTypes /\ AloneInv /\ [ServerNext]_allVars => AloneInv'
<1> SUFFICES ASSUME GcTypes, AloneInv, [ServerNext]_allVars PROVE AloneInv'
  BY DEF ServerTypes
<1>1. ASSUME UNCHANGED <<pushVars, jobVars>> PROVE Busy' = Busy
  BY <1>1 DEF Busy, Unfinished, Returned, pushVars, jobVars
<1>2. CASE WritersMayRun /\ UNCHANGED gcVars
  BY <1>2 DEF WritersMayRun, gcVars, AloneInv
<1>3. CASE GcStep /\ UNCHANGED <<pushVars, jobVars>>
  <2>1. Busy' = Busy
    BY <1>1, <1>3
  <2>2. CASE GcStart
    BY <2>1, <2>2 DEF GcStart, AloneInv
  <2>3. CASE GcWalk
    BY <2>1, <2>3 DEF GcWalk, AloneInv
  <2>4. CASE GcList
    BY <2>1, <2>4 DEF GcList, AloneInv
  <2>5. CASE GcRecheck
    BY <2>1, <2>5 DEF GcRecheck, AloneInv
  <2>6. CASE GcDelete
    BY <2>1, <2>6 DEF GcDelete, AloneInv
  <2> QED
    BY <1>3, <2>2, <2>3, <2>4, <2>5, <2>6 DEF GcStep
<1>4. CASE UNCHANGED allVars
  <2>1. UNCHANGED <<pushVars, jobVars>> /\ UNCHANGED gcVars /\ objs' = objs /\ refs' = refs
    BY <1>4 DEF allVars, vars, pushVars
  <2> QED
    BY <1>1, <2>1 DEF gcVars, AloneInv
<1> QED
  BY <1>2, <1>3, <1>4 DEF ServerNext

LEMMA AloneInvHolds ==
    ASSUME ServerAssumption, GcAlone PROVE ServerSpec => []AloneInv
<1>1. ServerInit => AloneInv
  BY DEF ServerInit, AloneInv
<1> QED
  BY <1>1, AloneInvStays, ServerTypesHold, PTL DEF ServerSpec

\* The deletion of a collection that is left alone is exact.
LEMMA ExactStep ==
    ASSUME ServerTypes, AloneInv, [ServerNext]_allVars
    PROVE  GcExact
<1> SUFFICES ASSUME GcTypes, gcPc = "delete", gcPc' = "idle"
             PROVE  objs' = Reachable(Tipset(refs))
  BY DEF ServerTypes, GcExact
<1>1. GcStep
  BY DEF ServerNext, gcVars, allVars
<1>2. GcDelete
  BY <1>1 DEF GcStep, GcStart, GcWalk, GcList, GcRecheck
<1>3. objs' = objs \ gcDoomed /\ gcDoomed = objs \ gcLive /\ gcLive \subseteq objs
  BY <1>2 DEF GcDelete, DeleteObjects, AloneInv
<1>4. gcLive = Reachable(Tipset(refs))
  BY DEF GcTypes, AloneInv
<1> QED
  BY <1>3, <1>4

\* A collection that is left alone keeps what the refs reach and nothing else,
\* whatever earlier pushes, calls and failures left (GitServer!GcExact).
THEOREM CollectionIsExact ==
    ASSUME ServerAssumption, GcAlone PROVE ServerSpec => [][GcExact]_allVars
<1>1. ServerTypes /\ AloneInv /\ [ServerNext]_allVars => [GcExact]_allVars
  BY ExactStep
<1> QED
  BY <1>1, ServerTypesHold, AloneInvHolds, PTL DEF ServerSpec

-------------------------------------------------------------------------------
(* The store under all of its writers.                                     *)

\* S is stored, and no push may still take any of it back.
Safe(S) == S \subseteq objs /\ \A q \in Push : AtRisk(q) \cap S = {}

\* A client that was shown the refs, and whose push is not over.
Waiting(p) == pc[p] = "advertised" \/ Unfinished(p)

\* Whatever is stored is stored with all it names, now and after any roll-back.
ObjsInv ==
    /\ Closed(objs)
    /\ \A q \in Push : \A o \in objs \ AtRisk(q) : Points[o] \cap AtRisk(q) = {}

\* The refs, and the refs that clients were shown, are safe; so is the pack of an
\* unfinished push, but for what that push itself may take back.
RefsInv ==
    \A r \in Ref : refs[r] # None => Safe(Closure[refs[r]])
PushesInv ==
    /\ \A p \in Push, r \in Ref : Waiting(p) /\ advert[p][r] # None => Safe(Closure[advert[p][r]])
    /\ \A p \in Push : Unfinished(p) =>
          /\ Pack(p, cmd[p]) \subseteq objs
          /\ \A q \in Push \ {p} : AtRisk(q) \cap Pack(p, cmd[p]) = {}

\* What a call has still to write names safe objects beside its own, and a value
\* that was looked at is safe until the ref is swapped.
JobsInv ==
    \A j \in Job :
        /\ \A o \in jobjs[j] : Safe(Points[o] \ jobjs[j])
        /\ jchecked[j] # None /\ jnew[j][jchecked[j]] \in Object
             => Safe(Closure[jnew[j][jchecked[j]]])

StoreInv == ObjsInv /\ RefsInv /\ PushesInv /\ JobsInv

\* A walk follows what the objects it meets name.
LEMMA ClosureFollows ==
    ASSUME NEW o \in Object, NEW x \in Closure[o] PROVE Points[x] \subseteq Closure[o]
<1>1. x \in Object /\ Points[x] \subseteq Object
  BY ObjectsAssumption, ClosureType
<1>2. ASSUME NEW y \in Points[x], NEW S \in SUBSET Object, o \in S, Closed(S) PROVE y \in S
  <2>1. x \in S
    BY <1>2 DEF Closure
  <2> QED
    BY <1>2, <2>1 DEF Closed
<1> QED
  BY <1>1, <1>2 DEF Closure

\* A walk leaves no complete store that it begins in.
LEMMA ClosureInside ==
    ASSUME NEW S \in SUBSET Object, Closed(S), NEW o \in S PROVE Closure[o] \subseteq S
BY DEF Closure

\* What is safe stays safe in a step that puts nothing stored at risk and deletes
\* nothing but what was at risk.
LEMMA SafeStays ==
    ASSUME \A q \in Push : AtRisk(q)' \cap objs \subseteq AtRisk(q),
           \A o \in objs \ objs' : \E q \in Push : o \in AtRisk(q)
    PROVE  /\ \A S : Safe(S) => S \subseteq objs' /\ \A q \in Push : AtRisk(q)' \cap S = {}
           /\ UNCHANGED refs => (RefsInv => RefsInv')
           /\ UNCHANGED jobVars => (JobsInv => JobsInv')
<1>1. \A S : Safe(S) => S \subseteq objs' /\ \A q \in Push : AtRisk(q)' \cap S = {}
  BY DEF Safe
<1>2. UNCHANGED refs => (RefsInv => RefsInv')
  BY <1>1 DEF RefsInv, Safe
<1>3. UNCHANGED jobVars => (JobsInv => JobsInv')
  BY <1>1 DEF JobsInv, Safe, jobVars
<1> QED
  BY <1>1, <1>2, <1>3

\* What the members of a pack name is in the pack or was seen by the client.
LEMMA PackFollows ==
    ASSUME NEW p \in Push, NEW c \in [Ref -> Object \cup {None, Skip}],
           advert[p] \in [Ref -> Value],
           NEW o \in Pack(p, c), NEW x \in Points[o], x \notin Pack(p, c)
    PROVE  \E s \in Ref : advert[p][s] # None /\ x \in Closure[advert[p][s]]
<1>1. PICK r \in Ref : c[r] \in Object /\ o \in Closure[c[r]]
  BY DEF Pack, Missing, Reachable
<1>2. x \in Closure[c[r]]
  BY <1>1, ClosureFollows
<1> QED
  BY <1>1, <1>2, PackCovers, PushAssumption

\* A push keeps the store complete.
LEMMA PushKeepsStore ==
    ASSUME ~Overlap, TypeOK, StoreInv, NEW p \in Push, PushStep(p), UNCHANGED jobVars
    PROVE  StoreInv'
<1> USE DEF StoreInv
<1>1. ASSUME UNCHANGED <<objs, refs, advert, ingested, applied>>,
             \A q \in Push : /\ Unfinished(q)' => Unfinished(q) /\ cmd'[q] = cmd[q]
                             /\ Waiting(q)' => Waiting(q)
      PROVE  StoreInv'
  <2>1. \A q \in Push : AtRisk(q)' \subseteq AtRisk(q)
    BY <1>1 DEF AtRisk
  <2>2. \A q \in Push : AtRisk(q)' = {} \/ AtRisk(q)' = AtRisk(q)
    BY <1>1 DEF AtRisk
  <2>3. \A q \in Push : Unfinished(q)' => Pack(q, cmd[q])' = Pack(q, cmd[q])
    BY <1>1 DEF Pack
  <2>4. ObjsInv'
    BY <1>1, <2>2 DEF ObjsInv, Closed
  <2>5. RefsInv' /\ JobsInv'
    BY <1>1, <2>1, SafeStays
  <2>6. PushesInv'
    BY <1>1, <2>1, <2>3 DEF PushesInv, Safe
  <2> QED
    BY <2>4, <2>5, <2>6
<1>2. ASSUME NEW held \in SUBSET Hidden, Advertise(p, held) PROVE StoreInv'
  <2>1. \A q \in Push : AtRisk(q)' = AtRisk(q) /\ (Unfinished(q)' <=> Unfinished(q))
    BY <1>2 DEF Advertise, AtRisk, Unfinished, TypeOK
  <2>2. UNCHANGED <<objs, refs, cmd>>
    BY <1>2 DEF Advertise
  <2>3. \A q \in Push : Unfinished(q) => Pack(q, cmd[q])' = Pack(q, cmd[q])
    <3>1. \A q \in Push : Unfinished(q) => advert'[q] = advert[q] /\ cmd'[q] = cmd[q]
      BY <1>2 DEF Advertise, Unfinished, TypeOK
    <3> QED
      BY <3>1 DEF Pack
  <2>4. \A q \in Push, r \in Ref :
          \/ advert'[q][r] \in {refs[r], None}
          \/ advert'[q][r] = advert[q][r] /\ (Waiting(q)' => Waiting(q))
    <3>1. \A q \in Push \ {p} : advert'[q] = advert[q] /\ pc'[q] = pc[q]
      BY <1>2 DEF Advertise, TypeOK
    <3>2. \A r \in Ref : advert'[p][r] \in {refs[r], None}
      BY <1>2 DEF Advertise, TypeOK
    <3> QED
      BY <3>1, <3>2 DEF Waiting, Unfinished
  <2>5. ObjsInv'
    BY <2>1, <2>2 DEF ObjsInv, Closed
  <2>6. RefsInv' /\ JobsInv'
    BY <2>1, <2>2, SafeStays
  <2>7. PushesInv'
    BY <2>1, <2>2, <2>3, <2>4 DEF PushesInv, RefsInv, Safe
  <2> QED
    BY <2>5, <2>6, <2>7
<1>3. ASSUME NEW c \in Request(p), Ingest(p, c) PROVE StoreInv'
  <2>1. c \in [Ref -> Object \cup {None, Skip}] /\ advert[p] \in [Ref -> Value]
    BY RequestType DEF TypeOK
  <2>2. Pack(p, c) \in SUBSET Object /\ objs \in SUBSET Object
    BY <2>1, PackType DEF TypeOK
  <2>3. /\ objs' = objs \cup Pack(p, c)
        /\ UNCHANGED <<refs, advert>>
        /\ pc[p] = "advertised"
        /\ \A q \in Push \ {p} : Unfinished(q) => ingested[q] \cap Pack(p, c) = {}
    BY <1>3 DEF Ingest, PutObjects, Separate
  <2>4. /\ AtRisk(p)' \subseteq Pack(p, c) \ objs
        /\ Pack(p, c) \ objs \subseteq AtRisk(p)'
        /\ Pack(p, cmd[p])' = Pack(p, c)
    <3>1. /\ cmd'[p] = c /\ advert' = advert /\ ingested'[p] = Pack(p, c) \ objs
          /\ pc'[p] = "build" /\ applied'[p] = {}
      BY <1>3 DEF Ingest, TypeOK
    <3>2. Unfinished(p)'
      BY <3>1 DEF Unfinished
    <3> QED
      BY <3>1, <3>2 DEF AtRisk, Pack
  <2>5. \A q \in Push \ {p} :
          /\ AtRisk(q)' = AtRisk(q) /\ (Unfinished(q)' <=> Unfinished(q))
          /\ Waiting(q)' <=> Waiting(q)
          /\ Pack(q, cmd[q])' = Pack(q, cmd[q])
          /\ AtRisk(q) \cap Pack(p, c) = {}
    <3>1. \A q \in Push \ {p} :
            /\ pc'[q] = pc[q] /\ applied'[q] = applied[q] /\ ingested'[q] = ingested[q]
            /\ cmd'[q] = cmd[q] /\ advert'[q] = advert[q]
      BY <1>3 DEF Ingest, TypeOK
    <3>2. ASSUME NEW q \in Push \ {p} PROVE Pack(q, cmd[q])' = Pack(q, cmd[q])
      <4>1. cmd'[q] = cmd[q] /\ advert'[q] = advert[q]
        BY <3>1
      <4> QED
        BY <4>1 DEF Pack
    <3>3. \A q \in Push \ {p} :
            /\ AtRisk(q)' = AtRisk(q) /\ (Unfinished(q)' <=> Unfinished(q))
            /\ Waiting(q)' <=> Waiting(q)
      BY <3>1 DEF AtRisk, Unfinished, Waiting
    <3>4. \A q \in Push \ {p} : AtRisk(q) \cap Pack(p, c) = {}
      BY <2>3 DEF AtRisk
    <3> QED
      BY <3>2, <3>3, <3>4
  <2>6. /\ \A q \in Push : AtRisk(q)' \cap objs \subseteq AtRisk(q)
        /\ \A o \in objs \ objs' : \E q \in Push : o \in AtRisk(q)
    BY <2>3, <2>4, <2>5
  <2>7. \A S : Safe(S) => S \subseteq objs' /\ \A q \in Push : AtRisk(q)' \cap S = {}
    BY <2>6, SafeStays
  <2>8. RefsInv' /\ JobsInv'
    BY <2>3, <2>6, SafeStays
  <2>9. PushesInv'
    <3>1. \A q \in Push, r \in Ref : Waiting(q)' /\ advert'[q][r] # None => Safe(Closure[advert[q][r]])
      BY <2>3, <2>5 DEF PushesInv, Waiting
    <3>2. \A q \in Push, r \in Ref : Waiting(q)' /\ advert'[q][r] # None => Safe(Closure[advert[q][r]])'
      BY <2>3, <2>7, <3>1 DEF Safe
    <3>3. \A q \in Push \ {p} : Unfinished(q)' =>
            /\ Pack(q, cmd[q])' \subseteq objs'
            /\ \A x \in Push \ {q} : AtRisk(x)' \cap Pack(q, cmd[q])' = {}
      BY <2>3, <2>4, <2>5 DEF PushesInv
    <3>4. /\ Pack(p, cmd[p])' \subseteq objs'
          /\ \A x \in Push \ {p} : AtRisk(x)' \cap Pack(p, cmd[p])' = {}
      BY <2>3, <2>4, <2>5
    <3> QED
      BY <3>2, <3>3, <3>4 DEF PushesInv
  <2>10. ASSUME NEW o \in Pack(p, c), NEW x \in Points[o], x \notin Pack(p, c)
         PROVE  x \in objs /\ \A q \in Push : x \notin AtRisk(q)
    <3>1. PICK r \in Ref : advert[p][r] # None /\ x \in Closure[advert[p][r]]
      BY <2>1, <2>10, PackFollows
    <3>2. Waiting(p)
      BY <2>3 DEF Waiting
    <3> QED
      BY <3>1, <3>2 DEF PushesInv, Safe
  <2>11. Closed(objs)'
    BY <2>3, <2>10 DEF ObjsInv, Closed
  <2>12. \A q \in Push : \A o \in objs' \ AtRisk(q)' : Points[o] \cap AtRisk(q)' = {}
    <3>1. ASSUME NEW o \in objs' \ AtRisk(p)' PROVE Points[o] \cap AtRisk(p)' = {}
      <4>1. o \in objs
        BY <2>3, <2>4, <3>1
      <4> QED
        BY <2>4, <4>1 DEF ObjsInv, Closed
    <3>2. ASSUME NEW q \in Push \ {p}, NEW o \in objs' \ AtRisk(q)'
          PROVE  Points[o] \cap AtRisk(q)' = {}
      <4>1. CASE o \in objs
        BY <2>5, <3>2, <4>1 DEF ObjsInv
      <4>2. CASE o \in Pack(p, c)
        BY <2>5, <2>10, <3>2, <4>2
      <4> QED
        BY <2>3, <3>2, <4>1, <4>2
    <3> QED
      BY <3>1, <3>2
  <2> QED
    BY <2>8, <2>9, <2>11, <2>12 DEF ObjsInv
<1>4. ASSUME RejectPush(p) \/ Conclude(p) PROVE StoreInv'
  <2>1. objs' = objs \ AtRisk(p)
    <3>1. Unfinished(p)
      BY <1>4 DEF RejectPush, Conclude, Unfinished
    <3>2. CASE RejectPush(p)
      <4>1. applied[p] = {} /\ objs' = objs \ ingested[p]
        BY <3>2 DEF RejectPush, DeleteObjects, TypeOK
      <4> QED
        BY <3>1, <4>1 DEF AtRisk
    <3>3. CASE Conclude(p)
      BY <3>1, <3>3 DEF Conclude, DeleteObjects, AtRisk
    <3> QED
      BY <1>4, <3>2, <3>3
  <2>2. ~Unfinished(p)' /\ ~Waiting(p)' /\ AtRisk(p)' = {} /\ UNCHANGED <<refs, advert>>
    BY <1>4 DEF RejectPush, Conclude, AtRisk, Unfinished, Waiting, TypeOK
  <2>3. \A q \in Push \ {p} :
          /\ AtRisk(q)' = AtRisk(q) /\ (Unfinished(q)' <=> Unfinished(q))
          /\ Waiting(q)' <=> Waiting(q)
          /\ Pack(q, cmd[q])' = Pack(q, cmd[q])
    <3>1. \A q \in Push \ {p} : pc'[q] = pc[q]
      BY <1>4 DEF RejectPush, Conclude, TypeOK
    <3>2. UNCHANGED <<applied, ingested, cmd, advert>>
      BY <1>4 DEF RejectPush, Conclude
    <3> QED
      BY <3>1, <3>2 DEF AtRisk, Unfinished, Waiting, Pack
  <2>4. /\ \A q \in Push : AtRisk(q)' \cap objs \subseteq AtRisk(q)
        /\ \A o \in objs \ objs' : \E q \in Push : o \in AtRisk(q)
    BY <2>1, <2>2, <2>3
  <2>5. \A S : Safe(S) => S \subseteq objs' /\ \A q \in Push : AtRisk(q)' \cap S = {}
    BY <2>4, SafeStays
  <2>6. RefsInv' /\ JobsInv'
    BY <2>2, <2>4, SafeStays
  <2>7. PushesInv'
    <3>1. \A q \in Push, r \in Ref : Waiting(q)' /\ advert'[q][r] # None => Safe(Closure[advert[q][r]])'
      BY <2>2, <2>3, <2>5 DEF PushesInv, Safe
    <3>2. \A q \in Push : Unfinished(q)' =>
            /\ Pack(q, cmd[q])' \subseteq objs'
            /\ \A x \in Push \ {q} : AtRisk(x)' \cap Pack(q, cmd[q])' = {}
      BY <2>1, <2>2, <2>3 DEF PushesInv
    <3> QED
      BY <3>1, <3>2 DEF PushesInv
  <2>8. ObjsInv'
    BY <2>1, <2>2, <2>3 DEF ObjsInv, Closed
  <2> QED
    BY <2>6, <2>7, <2>8
<1>5. ASSUME NEW r \in Ref, Swap(p, r) PROVE StoreInv'
  <2>1. /\ UNCHANGED <<objs, advert, cmd, pc, ingested>>
        /\ \A s \in Ref : s # r => refs'[s] = refs[s]
        /\ refs'[r] = cmd[p][r]
        /\ Unfinished(p) /\ cmd[p][r] \in Object \cup {None}
    <3>1. r \in Commands(p)
      BY <1>5, PushAssumption DEF Swap, TypeOK
    <3>2. cmd[p] \in [Ref -> Object \cup {None, Skip}] /\ refs \in [Ref -> Value]
      BY DEF TypeOK
    <3> QED
      BY <1>5, <3>1, <3>2 DEF Swap, CasRef, Commands, Unfinished
  <2>2. AtRisk(p)' = {}
    BY <1>5 DEF Swap, AtRisk, TypeOK
  <2>3. \A q \in Push \ {p} : AtRisk(q)' = AtRisk(q)
    BY <1>5 DEF Swap, AtRisk, Unfinished, TypeOK
  <2>4. \A q \in Push :
          /\ Unfinished(q)' <=> Unfinished(q)
          /\ Waiting(q)' <=> Waiting(q)
          /\ Pack(q, cmd[q])' = Pack(q, cmd[q])
    BY <2>1 DEF Unfinished, Waiting, Pack
  <2>5. \A q \in Push : AtRisk(q)' \subseteq AtRisk(q)
    BY <2>2, <2>3
  <2>6. JobsInv'
    BY <2>1, <2>5, SafeStays
  <2>7. ObjsInv'
    BY <2>1, <2>2, <2>3 DEF ObjsInv, Closed
  <2>8. PushesInv'
    BY <2>1, <2>4, <2>5 DEF PushesInv, Safe
  <2>9. ASSUME cmd[p][r] # None, NEW o \in Closure[cmd[p][r]]
        PROVE  o \in objs' /\ \A q \in Push : o \notin AtRisk(q)'
    <3>1. cmd[p][r] \in Object
      BY <2>1, <2>9
    <3>2. CASE o \in Pack(p, cmd[p])
      BY <2>1, <2>2, <2>3, <3>2 DEF PushesInv
    <3>3. CASE o \notin Pack(p, cmd[p])
      <4>1. PICK s \in Ref : advert[p][s] # None /\ o \in Closure[advert[p][s]]
        BY <2>9, <3>1, <3>3, PackCovers, PushAssumption
      <4>2. Waiting(p)
        BY <2>1 DEF Waiting
      <4> QED
        BY <2>1, <2>5, <4>1, <4>2 DEF PushesInv, Safe
    <3> QED
      BY <3>2, <3>3
  <2>10. RefsInv'
    <3>1. \A s \in Ref \ {r} : refs'[s] # None => Safe(Closure[refs[s]]) /\ refs'[s] = refs[s]
      BY <2>1 DEF RefsInv
    <3> QED
      BY <2>1, <2>5, <2>9, <3>1 DEF RefsInv, Safe
  <2> QED
    BY <2>6, <2>7, <2>8, <2>10
<1>6. ASSUME NEW c \in Request(p), UnpackFails(p, c) PROVE StoreInv'
  BY <1>1, <1>6 DEF UnpackFails, Unfinished, Waiting, TypeOK
<1>7. ASSUME BuildUpdates(p) \/ AcceptPush(p) \/ Throw(p)
               \/ \E r \in Ref : Decline(p, r) \/ Pass(p, r) \/ SwapFails(p, r)
      PROVE  StoreInv'
  BY <1>1, <1>7 DEF BuildUpdates, AcceptPush, Throw, Decline, Pass, SwapFails, Unfinished, Waiting, TypeOK
<1> QED
  BY <1>2, <1>3, <1>4, <1>5, <1>6, <1>7 DEF PushStep, ServerStep, RefStep

\* A call keeps the store complete.
LEMMA JobKeepsStore ==
    ASSUME ServerAssumption, ~Overlap, TypeOK, JobTypes, StoreInv,
           NEW j \in Job, JobStep(j), UNCHANGED pushVars
    PROVE  StoreInv'
<1> USE DEF StoreInv
<1>1. \A q \in Push :
        /\ AtRisk(q)' = AtRisk(q) /\ (Unfinished(q)' <=> Unfinished(q))
        /\ Waiting(q)' <=> Waiting(q)
        /\ Pack(q, cmd[q])' = Pack(q, cmd[q])
        /\ advert'[q] = advert[q]
  BY DEF pushVars, AtRisk, Unfinished, Waiting, Pack
<1>2. ASSUME UNCHANGED objs PROVE ObjsInv' /\ PushesInv'
  BY <1>1, <1>2 DEF ObjsInv, PushesInv, Closed, Safe
<1>3. ASSUME UNCHANGED <<objs, refs>> PROVE RefsInv'
  BY <1>1, <1>3 DEF RefsInv, Safe
<1>4. ASSUME UNCHANGED <<objs, jobjs>>,
             \A i \in Job : jchecked'[i] # None /\ jnew'[i][jchecked'[i]] \in Object =>
                              Safe(Closure[jnew'[i][jchecked'[i]]])
      PROVE  JobsInv'
  BY <1>1, <1>4 DEF JobsInv, Safe
<1>5. ASSUME UNCHANGED jnew, \A i \in Job : jchecked'[i] \in {jchecked[i], None}
      PROVE  \A i \in Job : jchecked'[i] # None /\ jnew'[i][jchecked'[i]] \in Object =>
                              Safe(Closure[jnew'[i][jchecked'[i]]])
  BY <1>5 DEF JobsInv
<1>6. ASSUME NEW r \in Ref, NEW n \in NewCommits[j], j \in CommitJob, CommitRead(j, r, n)
      PROVE  StoreInv'
  <2>1. n \in Object
    BY <1>6 DEF ServerAssumption
  <2> DEFINE M == Missing({n}, Parents[n])
  <2>2. /\ jnew' = [jnew EXCEPT ![j][r] = n]
        /\ jobjs' = [jobjs EXCEPT ![j] = M]
        /\ jpc[j] = "idle"
        /\ Parents[n] = IF refs[r] = None THEN {} ELSE {refs[r]}
        /\ UNCHANGED <<objs, refs, jchecked>>
    BY <1>6 DEF CommitRead
  <2>3. ASSUME NEW o \in M, NEW x \in Points[o], x \notin M
        PROVE  refs[r] # None /\ x \in Closure[refs[r]]
    <3>1. o \in Closure[n]
      BY <2>1, <2>3 DEF Missing, Reachable
    <3>2. x \in Closure[n]
      BY <2>1, <2>3, <3>1, ClosureFollows
    <3>3. x \in Reachable(Parents[n])
      BY <2>1, <2>3, <3>2 DEF Missing, Reachable
    <3> QED
      BY <2>2, <3>3 DEF Reachable
  <2>4. \A o \in M : Safe(Points[o] \ M)
    BY <2>3 DEF RefsInv, Safe
  <2> HIDE DEF M
  <2>5. \A i \in Job \ {j} : jnew'[i] = jnew[i] /\ jobjs'[i] = jobjs[i]
    BY <2>2 DEF JobTypes
  <2>6. jobjs'[j] = M /\ jchecked'[j] = None
    BY <2>2 DEF JobTypes
  <2>7. JobsInv'
    BY <1>1, <2>2, <2>4, <2>5, <2>6 DEF JobsInv, Safe
  <2> QED
    BY <1>2, <1>3, <2>2, <2>7
<1>7. ASSUME NEW o \in Object \ InFlight, CommitWrite(j, o) PROVE StoreInv'
  <2>1. /\ o \in jobjs[j] /\ Points[o] \cap jobjs[j] = {}
        /\ objs' = objs \cup {o}
        /\ jobjs' = [jobjs EXCEPT ![j] = jobjs[j] \ {o}]
        /\ UNCHANGED <<refs, jnew, jchecked>>
    BY <1>7 DEF CommitWrite, PutObjects
  <2>2. \A q \in Push : o \notin AtRisk(q)
    BY <1>7 DEF InFlight, AtRisk
  <2>3. Safe(Points[o])
    <3>1. Points[o] = Points[o] \ jobjs[j]
      BY <2>1
    <3> QED
      BY <2>1, <3>1 DEF JobsInv
  <2>4. ObjsInv'
    BY <1>1, <2>1, <2>2, <2>3 DEF ObjsInv, Closed, Safe
  <2>5. RefsInv' /\ PushesInv'
    BY <1>1, <2>1 DEF RefsInv, PushesInv, Safe
  <2>6. JobsInv'
    <3>1. \A i \in Job \ {j} : jobjs'[i] = jobjs[i]
      BY <2>1 DEF JobTypes
    <3>2. jobjs'[j] = jobjs[j] \ {o}
      BY <2>1 DEF JobTypes
    <3>3. ASSUME NEW x \in jobjs'[j] PROVE Safe(Points[x] \ jobjs[j])
      BY <3>2, <3>3 DEF JobsInv
    <3> QED
      BY <1>1, <2>1, <2>2, <3>1, <3>2, <3>3 DEF JobsInv, Safe
  <2> QED
    BY <2>4, <2>5, <2>6
<1>8. ASSUME NEW c \in [Ref -> UpdateTips \cup {None, Skip}], UpdateCall(j, c) PROVE StoreInv'
  <2>1. /\ jpc[j] = "idle" /\ jnew' = [jnew EXCEPT ![j] = c]
        /\ UNCHANGED <<objs, refs, jobjs, jchecked>>
    BY <1>8 DEF UpdateCall
  <2>2. jchecked[j] = None /\ \A i \in Job \ {j} : jnew'[i] = jnew[i]
    BY <2>1 DEF JobTypes
  <2>3. JobsInv'
    BY <1>4, <2>1, <2>2 DEF JobsInv
  <2> QED
    BY <1>2, <1>3, <2>1, <2>3
<1>9. ASSUME NEW r \in Ref, NEW old, UpdateResolve(j, r, old) PROVE StoreInv'
  BY <1>2, <1>3, <1>4, <1>5, <1>9 DEF UpdateResolve
<1>10. ASSUME NEW r \in Ref, jnew[j][r] \in Object => Closure[jnew[j][r]] \cap InFlight = {},
              JobCheck(j, r)
       PROVE  StoreInv'
  <2>1. UNCHANGED <<objs, refs, jnew, jobjs>>
    BY <1>10 DEF JobCheck
  <2>2. \/ UNCHANGED jchecked
        \/ /\ jchecked' = [jchecked EXCEPT ![j] = r]
           /\ jnew[j][r] \in Object => jnew[j][r] \in objs
    BY <1>10, PushAssumption DEF JobCheck
  <2>3. CASE UNCHANGED jchecked
    BY <1>2, <1>3, <1>4, <1>5, <2>1, <2>3
  <2>4. CASE /\ jchecked' = [jchecked EXCEPT ![j] = r]
             /\ jnew[j][r] \in Object => jnew[j][r] \in objs
    <3>1. jnew[j][r] \in Object => Safe(Closure[jnew[j][r]])
      <4> SUFFICES ASSUME jnew[j][r] \in Object PROVE Safe(Closure[jnew[j][r]])
        OBVIOUS
      <4>1. Closure[jnew[j][r]] \subseteq objs
        BY <2>4, ClosureInside DEF ObjsInv, TypeOK
      <4>2. \A q \in Push : AtRisk(q) \cap Closure[jnew[j][r]] = {}
        BY <1>10 DEF InFlight, AtRisk
      <4> QED
        BY <4>1, <4>2 DEF Safe
    <3>2. jchecked'[j] = r /\ \A i \in Job \ {j} : jchecked'[i] = jchecked[i]
      BY <2>4 DEF JobTypes
    <3>3. \A i \in Job : jchecked'[i] # None /\ jnew'[i][jchecked'[i]] \in Object =>
                           Safe(Closure[jnew'[i][jchecked'[i]]])
      BY <2>1, <3>1, <3>2 DEF JobsInv
    <3> QED
      BY <1>2, <1>3, <1>4, <2>1, <3>3
  <2> QED
    BY <2>2, <2>3, <2>4
<1>11. ASSUME NEW r \in Ref, JobSwap(j, r) PROVE StoreInv'
  <2>1. /\ jchecked[j] = r
        /\ refs' = [refs EXCEPT ![r] = jnew[j][r]]
        /\ jchecked' = [jchecked EXCEPT ![j] = None]
        /\ UNCHANGED <<objs, jnew, jobjs>>
    BY <1>11 DEF JobSwap, CasRef
  <2>2. r # None /\ jnew[j][r] \in Value
    BY <2>1, PushAssumption DEF JobTypes, JobRefs, Value
  <2>3. jnew[j][r] # None => Safe(Closure[jnew[j][r]])
    BY <2>1, <2>2 DEF JobsInv, Value
  <2>4. \A s \in Ref : refs'[s] # None => Safe(Closure[refs'[s]])
    BY <2>1, <2>3 DEF RefsInv, TypeOK
  <2>5. RefsInv'
    BY <1>1, <2>1, <2>4 DEF RefsInv, Safe
  <2>6. \A i \in Job : jchecked'[i] \in {jchecked[i], None}
    BY <2>1 DEF JobTypes
  <2> QED
    BY <1>2, <1>4, <1>5, <2>1, <2>5, <2>6
<1>12. ASSUME NEW r \in Ref, JobSwapFails(j, r) PROVE StoreInv'
  <2>1. \A i \in Job : jchecked'[i] \in {jchecked[i], None}
    BY <1>12 DEF JobSwapFails, JobTypes
  <2> QED
    BY <1>2, <1>3, <1>4, <1>5, <1>12, <2>1 DEF JobSwapFails
<1> QED
  BY <1>6, <1>7, <1>8, <1>9, <1>10, <1>11, <1>12 DEF JobStep, CommitStep, UpdateStep, ApplyStep

\* A collection that is left alone keeps the store complete: it takes everything
\* but what the refs reach, and nobody waits for any of the rest.
LEMMA GcKeepsStore ==
    ASSUME TypeOK, JobTypes, GcTypes, AloneInv, StoreInv,
           GcStep, UNCHANGED <<pushVars, jobVars>>
    PROVE  StoreInv'
<1> USE DEF StoreInv
<1>1. \A q \in Push : AtRisk(q)' = AtRisk(q) /\ (Unfinished(q)' <=> Unfinished(q))
                                             /\ (Waiting(q)' <=> Waiting(q))
  BY DEF pushVars, AtRisk, Unfinished, Waiting
<1>2. CASE UNCHANGED <<objs, refs>>
  <2>1. ObjsInv'
    BY <1>1, <1>2 DEF ObjsInv, Closed
  <2>2. RefsInv' /\ JobsInv'
    BY <1>1, <1>2, SafeStays
  <2>3. PushesInv'
    BY <1>1, <1>2 DEF PushesInv, Safe, Pack, pushVars
  <2> QED
    BY <2>1, <2>2, <2>3
<1>3. CASE GcDelete
  <2>1. /\ gcPc = "delete" /\ UNCHANGED refs
        /\ objs' = objs \ gcDoomed
    BY <1>3 DEF GcDelete, DeleteObjects
  <2>2. objs' = Reachable(Tipset(refs)) /\ ~Busy
    BY <2>1 DEF AloneInv, GcTypes
  <2>3. \A q \in Push : ~Unfinished(q)' /\ ~Waiting(q)' /\ AtRisk(q)' = {}
    BY <1>1, <2>2 DEF Busy, Waiting, AtRisk
  <2>4. \A j \in Job : jobjs'[j] = {} /\ jchecked'[j] = None
    <3>1. \A j \in Job : jpc[j] # "write" /\ jchecked[j] = None
      BY <2>2 DEF Busy, Returned, JobTypes
    <3> QED
      BY <3>1 DEF JobTypes, jobVars
  <2>5. Tipset(refs) \in SUBSET Object
    BY TipsetType DEF TypeOK
  <2>6. ObjsInv'
    <3>1. Closed(objs')
      BY <2>2, <2>5, ClosureFollows DEF Closed, Reachable
    <3> QED
      BY <2>3, <3>1 DEF ObjsInv, Closed
  <2>7. RefsInv'
    <3>1. \A r \in Ref : refs[r] # None => refs[r] \in Tipset(refs)
      BY DEF Tipset, TypeOK
    <3>2. \A r \in Ref : refs[r] # None => Closure[refs[r]] \subseteq objs'
      BY <2>2, <3>1 DEF Reachable
    <3> QED
      BY <2>1, <2>3, <3>2 DEF RefsInv, Safe
  <2> QED
    BY <2>3, <2>4, <2>6, <2>7 DEF PushesInv, JobsInv
<1> QED
  BY <1>2, <1>3 DEF GcStep, GcStart, GcWalk, GcList, GcRecheck

LEMMA StoreBegins == ASSUME ServerAssumption PROVE ServerInit => StoreInv
<1> SUFFICES ASSUME ServerInit PROVE StoreInv
  OBVIOUS
<1>1. \A q \in Push : AtRisk(q) = {} /\ ~Waiting(q) /\ ~Unfinished(q)
  BY DEF ServerInit, Init, AtRisk, Waiting, Unfinished
<1>2. ObjsInv
  BY <1>1 DEF ObjsInv, ServerInit, Init, ServerAssumption
<1>3. RefsInv
  BY <1>1, PushAssumption DEF RefsInv, Safe, ServerInit, Init
<1>4. JobsInv
  BY DEF JobsInv, ServerInit
<1> QED
  BY <1>1, <1>2, <1>3, <1>4 DEF StoreInv, PushesInv

\* Every step of every writer, and of the collector, keeps the store complete.
LEMMA StoreStays ==
    ASSUME ServerAssumption, ~Overlap, GcAlone
    PROVE  ServerTypes /\ AloneInv /\ StoreInv /\ [ServerNext]_allVars => StoreInv'
<1> SUFFICES ASSUME ServerTypes, AloneInv, StoreInv, [ServerNext]_allVars PROVE StoreInv'
  OBVIOUS
<1> USE DEF ServerTypes
<1>1. ASSUME NEW p \in Push, PushStep(p), UNCHANGED <<jobVars, gcVars>> PROVE StoreInv'
  BY <1>1, PushKeepsStore
<1>2. ASSUME NEW j \in Job, JobStep(j), UNCHANGED <<pushVars, gcVars>> PROVE StoreInv'
  BY <1>2, JobKeepsStore
<1>3. ASSUME GcStep, UNCHANGED <<pushVars, jobVars>> PROVE StoreInv'
  BY <1>3, GcKeepsStore
<1>4. CASE UNCHANGED allVars
  <2>1. UNCHANGED <<vars, jobVars>>
    BY <1>4 DEF allVars
  <2>2. \A q \in Push : AtRisk(q)' = AtRisk(q) /\ (Unfinished(q)' <=> Unfinished(q))
                                               /\ (Waiting(q)' <=> Waiting(q))
    BY <2>1 DEF vars, AtRisk, Unfinished, Waiting
  <2>3. ObjsInv' /\ RefsInv'
    BY <2>1, <2>2 DEF vars, StoreInv, ObjsInv, RefsInv, Closed, Safe
  <2>4. PushesInv'
    BY <2>1, <2>2 DEF vars, StoreInv, PushesInv, Pack, Safe
  <2>5. JobsInv'
    BY <2>1, <2>2 DEF vars, jobVars, StoreInv, JobsInv, Safe
  <2> QED
    BY <2>3, <2>4, <2>5 DEF StoreInv
<1> QED
  BY <1>1, <1>2, <1>3, <1>4 DEF ServerNext

\* Under all writers and collections, everything the refs reach is stored, as
\* long as no pack or call shares a new object with an unfinished push and the
\* collector is left alone (ReceivePack!RefsComplete of the composed system).
THEOREM ServerRefsNeverDangle ==
    ASSUME ServerAssumption, ~Overlap, GcAlone PROVE ServerSpec => []RefsComplete
<1>1. StoreInv => RefsComplete
  BY DEF StoreInv, RefsInv, Safe, RefsComplete
<1> QED
  BY <1>1, StoreBegins, StoreStays, ServerTypesHold, AloneInvHolds, PTL DEF ServerSpec

-------------------------------------------------------------------------------
(* A deployment that keeps gc alone, beside one that does not.             *)

\* In the deployment that keeps it alone, every invariant above holds.
DeploymentInv ==
    /\ alone \in BOOLEAN
    /\ alone => ServerTypes /\ AloneInv /\ StoreInv

LEMMA DeploymentInvHolds ==
    ASSUME ServerAssumption, ~Overlap, GcAlone PROVE ServersSpec => []DeploymentInv
<1>1. ServersInit => DeploymentInv
  <2>1. ServerInit => AloneInv
    BY DEF ServerInit, AloneInv
  <2> QED
    BY <2>1, ServerTypesBegin, StoreBegins DEF ServersInit, DeploymentInv
<1>2. DeploymentInv /\ [ServersNext]_serversVars => DeploymentInv'
  <2> SUFFICES ASSUME DeploymentInv, [ServersNext]_serversVars PROVE DeploymentInv'
    OBVIOUS
  <2>1. alone' = alone
    BY DEF ServersNext, serversVars
  <2>2. alone => [ServerNext]_allVars
    BY DEF ServersNext, serversVars
  <2> QED
    BY <2>1, <2>2, ServerTypesStay, AloneInvStays, StoreStays DEF DeploymentInv
<1> QED
  BY <1>1, <1>2, PTL DEF ServersSpec

\* While gc is left alone the store is complete, garbage included, and no roll-back that may
\* still come takes anything the refs reach (MCGitServerGc!StoreComplete).
THEOREM StoreStaysComplete ==
    ASSUME ServerAssumption, ~Overlap, GcAlone PROVE ServersSpec => []StoreComplete
<1>1. StoreInv => Closed(objs) /\ RefsComplete
  BY DEF StoreInv, ObjsInv, RefsInv, Safe, RefsComplete
<1>2. ASSUME TypeOK, StoreInv, NEW p \in Push, Unfinished(p), applied[p] = {}
      PROVE  Reachable(Tipset(refs)) \cap ingested[p] = {}
  <2>1. AtRisk(p) = ingested[p]
    BY <1>2 DEF AtRisk
  <2>2. \A r \in Ref : refs[r] # None => AtRisk(p) \cap Closure[refs[r]] = {}
    BY <1>2 DEF StoreInv, RefsInv, Safe
  <2>3. \A o \in Tipset(refs) : \E r \in Ref : refs[r] # None /\ o = refs[r]
    BY <1>2 DEF Tipset, TypeOK
  <2>4. \A o \in Tipset(refs) : Closure[o] \cap ingested[p] = {}
    BY <2>1, <2>2, <2>3
  <2> QED
    BY <2>4 DEF Reachable
<1>3. DeploymentInv => StoreComplete
  BY <1>1, <1>2 DEF DeploymentInv, ServerTypes, StoreComplete
<1> QED
  BY <1>3, DeploymentInvHolds, PTL

\* A collection that is left alone keeps exactly what the refs reach
\* (MCGitServerGc!GcKeepsExactly).
THEOREM GcStaysExact ==
    ASSUME ServerAssumption, ~Overlap, GcAlone PROVE ServersSpec => GcKeepsExactly
<1>1. DeploymentInv /\ [ServersNext]_serversVars => [alone => GcExact]_serversVars
  <2> SUFFICES ASSUME DeploymentInv, [ServersNext]_serversVars, alone PROVE GcExact
    OBVIOUS
  <2>1. [ServerNext]_allVars
    BY DEF ServersNext, serversVars, DeploymentInv
  <2> QED
    BY <2>1, ExactStep DEF DeploymentInv
<1> QED
  BY <1>1, DeploymentInvHolds, PTL DEF ServersSpec, GcKeepsExactly

===============================================================================
