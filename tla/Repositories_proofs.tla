-------------------------- MODULE Repositories_proofs -------------------------
(***************************************************************************)
(* Theorems about networks of repositories and their forks, for any number *)
(* of repositories, refs and calls at a time, on every backend.            *)
(***************************************************************************)
EXTENDS Repositories, TLAPS

-------------------------------------------------------------------------------
(* The inductive invariant.                                                *)

\* All that the refs in m reach is in S.
Held(m, S) == \A r \in Ref : m[r] # None => Closure[m[r]] \subseteq S

\* What a fork of s hangs on.
RootOf(s) == IF parent[s] = None THEN s ELSE parent[s]

Deleting(i) == \E j \in Job : pc[j] = "delete" /\ id[j] = i

\* The network is flat; what is not there has left nothing behind; and what is there can
\* read all its refs reach, with the root's help alone where nothing is pushed to it.
NetInv ==
    /\ \A i \in Id : parent[i] # None => parent[i] \in repos /\ parent[parent[i]] = None
    /\ \A i \in Id \ repos : ~Deleting(i) => objs[i] = {} /\ refs[i] = NoRefs /\ parent[i] = None
    /\ \A i \in repos : Held(refs[i], Reads(i))
    /\ \A i \in Id \ Pushed : parent[i] # None => objs[i] = {}

\* A fork on its way: until it is linked, nobody reads from it, and it has nothing of its
\* own that is not pushed; then it reads from the root all that it copies.
ForkInv(j) ==
    LET i == id[j]
        s == src[j]
    IN  /\ kind[j] = "fork" /\ i \in Id /\ s \in repos
        /\ parent[s] = None \/ s \notin Pushed
        /\ pc[j] # "target" => i # s /\ parent[s] # i
        /\ pc[j] \in {"root", "insert", "link"} =>
              /\ parent[i] = None /\ \A f \in Id : parent[f] # i
              /\ i \in Pushed \/ objs[i] = {}
        /\ pc[j] \in {"insert", "link", "list", "put"} => upd[j].old = RootOf(s)
        /\ pc[j] \in {"link", "list", "put"} => i \in repos
        /\ pc[j] \in {"list", "put"} => parent[i] = RootOf(s)
        /\ pc[j] = "put" => Held(copy[j], Reads(i))

\* A push: once its pack is stored, the repository reads all that the new value reaches.
PushInv(j) ==
    /\ kind[j] = "push" /\ id[j] \in repos \cap Pushed
    /\ upd[j].ref \in Ref /\ upd[j].new \in Object
    /\ pc[j] \in {"swap", "insertRef"} => Closure[upd[j].new] \subseteq Reads(id[j])
    /\ pc[j] = "insertRef" => backend = "pg" /\ upd[j].old = None

\* A collection has asked every fork that it is through with, and then dooms nothing that
\* the repository or a fork of it reaches, if these are still there.
GcInv(j) ==
    /\ kind[j] = "gc" /\ id[j] \in Id /\ todo[j] \subseteq Id
    /\ pc[j] = "tips" =>
          \A f \in (Forks(id[j]) \cap repos) \ todo[j] : Values(refs[f]) \subseteq doomed[j]
    /\ pc[j] \in {"recheck", "collect"} =>
          \A f \in (Forks(id[j]) \cup {id[j]}) \cap repos, r \in Ref :
             refs[f][r] # None => Closure[refs[f][r]] \cap doomed[j] = {}

\* A deletion: nobody reads from it, and the rows it is through with are gone.
DeleteInv(j) ==
    LET i == id[j]
    IN  /\ kind[j] = "delete" /\ i \in Id /\ Forks(i) = {}
        /\ "repos" \notin todo[j] => i \notin repos
        /\ "objects" \notin todo[j] => objs[i] = {}
        /\ "refs" \notin todo[j] => refs[i] = NoRefs
        /\ "forks" \in todo[j]

CreateInv(j) == kind[j] = "create" /\ id[j] \in Id

\* Where a call is says what it does.
JobInv(j) ==
    /\ pc[j] \in {"target", "root", "link", "list", "put"} => ForkInv(j)
    /\ pc[j] = "insert" => ForkInv(j) \/ CreateInv(j)
    /\ pc[j] = "head" => CreateInv(j)
    /\ pc[j] \in {"ingest", "swap", "insertRef"} => PushInv(j)
    /\ pc[j] \in {"tips", "recheck", "collect"} => GcInv(j)
    /\ pc[j] = "delete" => DeleteInv(j)

ApartInv ==
    \A j, k \in Job : j # k /\ pc[j] # "idle" /\ pc[k] # "idle" => {kind[j], kind[k]} \notin Apart

Inv == TypeOK /\ NetInv /\ ApartInv /\ \A j \in Job : JobInv(j)

-------------------------------------------------------------------------------
(* What the steps have in common.                                          *)

\* A walk stays among the objects.
LEMMA ClosureIn ==
    ASSUME NEW o \in Object PROVE Closure[o] \in SUBSET Object
BY DEF Closure

\* All that some refs reach, ref by ref.
LEMMA HeldIsReach ==
    ASSUME NEW m \in [Ref -> Value], NEW S
    PROVE  Held(m, S) <=> Reachable(Values(m)) \subseteq S
BY DEF Held, Reachable, Values

\* The calls other than j stay where they are.
OthersStay(j) ==
    \A k \in Job \ {j} :
        /\ pc'[k] = pc[k] /\ kind'[k] = kind[k] /\ id'[k] = id[k] /\ src'[k] = src[k]
        /\ upd'[k] = upd[k] /\ copy'[k] = copy[k] /\ doomed'[k] = doomed[k]
        /\ todo'[k] = todo[k]

\* What j did to the store does not disturb k.
Undisturbed(k) ==
    pc[k] = "idle" \/
       /\ kind[k] \in {"fork", "push"} =>
             /\ repos \subseteq repos' /\ backend' = backend
             /\ \A i \in repos : Reads(i) \subseteq Reads(i)'
       /\ kind[k] = "fork" =>
             parent' = parent /\ \A i \in Id \ Pushed : objs'[i] = objs[i]
       /\ kind[k] = "gc" => \A i \in Id \cap repos' :
             \/ i \in repos /\ refs'[i] = refs[i] /\ parent'[i] = parent[i]
             \/ refs'[i] = NoRefs /\ parent'[i] = None
       /\ kind[k] = "delete" => \A i \in Id :
             /\ i \in repos' => i \in repos
             /\ objs'[i] \subseteq objs[i] /\ refs'[i] \in {refs[i], NoRefs}
             /\ parent'[i] \in {parent[i], None}

\* A call that is under way is of a kind that its place tells.
LEMMA KindOfPlace ==
    ASSUME TypeOK, NEW j \in Job, JobInv(j)
    PROVE  /\ pc[j] \in {"target", "root", "link", "list", "put"} => kind[j] = "fork"
           /\ pc[j] = "insert" => kind[j] \in {"fork", "create"}
           /\ pc[j] = "head" => kind[j] = "create"
           /\ pc[j] \in {"ingest", "swap", "insertRef"} => kind[j] = "push"
           /\ pc[j] \in {"tips", "recheck", "collect"} => kind[j] = "gc"
           /\ pc[j] = "delete" => kind[j] = "delete"
BY DEF JobInv, ForkInv, CreateInv, PushInv, GcInv, DeleteInv

\* A call that the step of another does not disturb keeps its invariant.
LEMMA OthersKeep ==
    ASSUME RepositoriesAssumption, Inv, NEW j \in Job, OthersStay(j),
           NEW k \in Job \ {j}, Undisturbed(k)
    PROVE  JobInv(k)'
<1>1. JobInv(k) /\ TypeOK
  BY DEF Inv
<1>2. /\ pc'[k] = pc[k] /\ kind'[k] = kind[k] /\ id'[k] = id[k] /\ src'[k] = src[k]
      /\ upd'[k] = upd[k] /\ copy'[k] = copy[k] /\ doomed'[k] = doomed[k]
      /\ todo'[k] = todo[k]
  BY DEF OthersStay
<1>3. CASE pc[k] = "idle"
  BY <1>2, <1>3 DEF JobInv
<1>4. CASE pc[k] # "idle" /\ kind[k] = "create"
  <2>1. CreateInv(k)' /\ pc[k] \in {"insert", "head"}
    BY <1>1, <1>2, <1>4, KindOfPlace DEF CreateInv, JobInv, TypeOK, ForkInv
  <2> QED
    BY <2>1, <1>2 DEF JobInv
<1>5. CASE pc[k] # "idle" /\ kind[k] = "fork"
  <2>1. ForkInv(k) /\ pc[k] \in {"target", "root", "insert", "link", "list", "put"}
    BY <1>1, <1>5, KindOfPlace DEF JobInv, TypeOK, CreateInv
  <2>2. /\ repos \subseteq repos' /\ parent' = parent
        /\ \A i \in Id \ Pushed : objs'[i] = objs[i]
        /\ \A i \in repos : Reads(i) \subseteq Reads(i)'
    BY <1>5 DEF Undisturbed
  <2>3. ASSUME pc[k] = "put" PROVE Held(copy[k], Reads(id[k]))'
    <3>1. Reads(id[k]) \subseteq Reads(id[k])'
      BY <2>1, <2>2, <2>3, <1>2 DEF ForkInv, Reads
    <3> QED
      BY <2>1, <2>3, <1>2, <3>1 DEF ForkInv, Held
  <2>4. ForkInv(k)'
    BY <2>1, <2>2, <2>3, <1>2 DEF ForkInv, RootOf
  <2> QED
    BY <2>1, <2>4, <1>2 DEF JobInv
<1>6. CASE pc[k] # "idle" /\ kind[k] = "push"
  <2>1. PushInv(k) /\ pc[k] \in {"ingest", "swap", "insertRef"}
    BY <1>1, <1>6, KindOfPlace DEF JobInv, TypeOK
  <2>2. PushInv(k)'
    BY <2>1, <1>2, <1>6 DEF PushInv, Undisturbed
  <2> QED
    BY <2>1, <2>2, <1>2 DEF JobInv
<1>7. CASE pc[k] # "idle" /\ kind[k] = "gc"
  <2>1. GcInv(k) /\ pc[k] \in {"tips", "recheck", "collect"}
    BY <1>1, <1>7, KindOfPlace DEF JobInv, TypeOK
  <2>2. \A i \in Id \cap repos' :
           \/ i \in repos /\ refs'[i] = refs[i] /\ parent'[i] = parent[i]
           \/ refs'[i] = NoRefs /\ parent'[i] = None
    BY <1>7 DEF Undisturbed
  <2>3. None \notin Id
    BY DEF RepositoriesAssumption
  <2>4. \A f \in Forks(id[k])' \cap repos' :
           f \in Forks(id[k]) \cap repos /\ refs'[f] = refs[f]
    BY <2>1, <2>2, <2>3, <1>2 DEF GcInv, Forks
  <2>5. ASSUME pc[k] = "tips", NEW f \in (Forks(id[k])' \cap repos') \ todo'[k]
        PROVE  Values(refs[f])' \subseteq doomed'[k]
    BY <2>1, <2>4, <2>5, <1>2 DEF GcInv, Values
  <2>6. ASSUME pc[k] \in {"recheck", "collect"}, NEW r \in Ref,
               NEW f \in (Forks(id[k])' \cup {id[k]}) \cap repos', refs'[f][r] # None
        PROVE  Closure[refs'[f][r]] \cap doomed'[k] = {}
    BY <2>1, <2>2, <2>4, <2>6, <1>2 DEF GcInv, NoRefs
  <2>7. GcInv(k)'
    BY <2>1, <2>5, <2>6, <1>2 DEF GcInv
  <2> QED
    BY <2>1, <2>7, <1>2 DEF JobInv
<1>8. CASE pc[k] # "idle" /\ kind[k] = "delete"
  <2>1. DeleteInv(k) /\ pc[k] = "delete"
    BY <1>1, <1>8, KindOfPlace DEF JobInv, TypeOK
  <2>2. \A i \in Id : /\ i \in repos' => i \in repos
                      /\ objs'[i] \subseteq objs[i] /\ refs'[i] \in {refs[i], NoRefs}
                      /\ parent'[i] \in {parent[i], None}
    BY <1>8 DEF Undisturbed
  <2>3. Forks(id[k])' = {}
    BY <2>1, <2>2, <1>2 DEF DeleteInv, Forks, RepositoriesAssumption
  <2>4. DeleteInv(k)'
    BY <2>1, <2>2, <2>3, <1>2 DEF DeleteInv
  <2> QED
    BY <2>1, <2>4, <1>2 DEF JobInv
<1> QED
  BY <1>1, <1>3, <1>4, <1>5, <1>6, <1>7, <1>8 DEF TypeOK

\* Which calls may run beside which.
LEMMA Neighbours ==
    ASSUME Deployment, Inv, NEW j \in Job, NEW k \in Job \ {j},
           pc[j] # "idle", pc[k] # "idle"
    PROVE  /\ kind[j] = "delete" => kind[k] \in {"delete", "gc"}
           /\ kind[j] = "gc" => kind[k] \in {"create", "delete", "gc"}
           /\ kind[j] = "fork" => kind[k] \in {"create", "push"}
           /\ kind[j] = "push" => kind[k] \in {"create", "push", "fork"}
           /\ kind[j] = "create" => kind[k] \in {"create", "push", "fork", "gc"}
<1>1. {kind[j], kind[k]} \notin Apart /\ kind[j] \in Kinds /\ kind[k] \in Kinds
  BY DEF Inv, ApartInv, TypeOK, Kinds
<1>2. {kind[k], kind[j]} = {kind[j], kind[k]}
  OBVIOUS
<1> QED
  BY <1>1, <1>2 DEF Deployment, Kinds

-------------------------------------------------------------------------------
(* Types.                                                                  *)

StoreTypes ==
    /\ backend \in Backends /\ repos \subseteq Id
    /\ objs \in [Id -> SUBSET Object] /\ refs \in [Id -> [Ref -> Value]]
    /\ head \in [Id -> Ref \cup {None}] /\ parent \in [Id -> Id \cup {None}]

Update == [ref : Ref \cup {None}, old : Value \cup Id, new : Value]

CallTypes ==
    /\ pc \in [Job -> {"idle", "target", "root", "insert", "link", "list", "put", "head",
                       "delete", "ingest", "swap", "insertRef", "tips", "recheck", "collect"}]
    /\ kind \in [Job -> Kinds]
    /\ id \in [Job -> Id \cup {None}] /\ src \in [Job -> Id \cup {None}]
    /\ upd \in [Job -> Update]
    /\ copy \in [Job -> [Ref -> Value]] /\ doomed \in [Job -> SUBSET Object]
    /\ todo \in [Job -> SUBSET (Id \cup Table)] /\ calls \in 0..MaxCalls

LEMMA TypesSplit == TypeOK <=> StoreTypes /\ CallTypes
BY DEF TypeOK, StoreTypes, CallTypes, Update, Kinds

\* A call that ends, and one that begins, keep the types.
LEMMA EndTypes ==
    ASSUME CallTypes, NEW j \in Job, End(j), UNCHANGED calls
    PROVE  CallTypes'
<1>1. NoUpdate \in Update /\ NoRefs \in [Ref -> Value]
  BY DEF NoUpdate, Update, NoRefs, Value
<1> QED
  BY <1>1 DEF CallTypes, End, Goto

LEMMA GotoTypes ==
    ASSUME CallTypes, NEW j \in Job, UNCHANGED <<locals, calls>>,
           NEW p \in {"idle", "target", "root", "insert", "link", "list", "put", "head",
                      "delete", "ingest", "swap", "insertRef", "tips", "recheck", "collect"},
           Goto(j, p)
    PROVE  CallTypes'
BY DEF CallTypes, locals, Goto

LEMMA BeginTypes ==
    ASSUME RepositoriesAssumption, CallTypes, NEW j \in Job, NEW k \in Kinds, NEW i \in Id,
           NEW p \in {"target", "insert", "delete", "ingest", "tips"},
           Begin(j, k, i, p),
           src' \in [Job -> Id \cup {None}], upd' \in [Job -> Update],
           todo' \in [Job -> SUBSET (Id \cup Table)]
    PROVE  CallTypes'
<1>1. calls' \in 0..MaxCalls
  BY DEF CallTypes, Begin, RepositoriesAssumption
<1>2. pc' \in [Job -> {"idle", "target", "root", "insert", "link", "list", "put", "head",
                       "delete", "ingest", "swap", "insertRef", "tips", "recheck", "collect"}]
  BY DEF CallTypes, Begin, Goto
<1> QED
  BY <1>1, <1>2 DEF CallTypes, Begin

-------------------------------------------------------------------------------
(* A step of one call, given what it does to the store and to its own place.*)

\* A step of j keeps the invariant when it keeps the types, the network and its own part, and
\* disturbs no other call.
LEMMA StepKeeps ==
    ASSUME RepositoriesAssumption, Inv, NEW j \in Job, pc[j] # "idle", OthersStay(j),
           kind' = kind, TypeOK', NetInv', JobInv(j)',
           \A k \in Job \ {j} : Undisturbed(k)
    PROVE  Inv'
<1>1. \A k \in Job : JobInv(k)'
  BY OthersKeep
<1>2. \A k \in Job : pc'[k] # "idle" => pc[k] # "idle"
  BY DEF OthersStay
<1>3. ApartInv'
  BY <1>2 DEF Inv, ApartInv
<1> QED
  BY <1>1, <1>3 DEF Inv

\* Once a call has ended the others are where they were.
LEMMA EndLeaves ==
    ASSUME TypeOK, NEW j \in Job, End(j)
    PROVE  OthersStay(j) /\ kind' = kind /\ JobInv(j)' /\ pc'[j] = "idle"
BY DEF TypeOK, End, Goto, OthersStay, JobInv

\* Deletions are not begun or ended by a step of another kind.
LEMMA DeletingStays ==
    ASSUME NEW j \in Job, OthersStay(j), pc[j] # "delete", pc'[j] # "delete", NEW i \in Id
    PROVE  Deleting(i)' <=> Deleting(i)
BY DEF OthersStay, Deleting

\* Nor is there one while a repository is created, forked or pushed to.
LEMMA NoneDeletes ==
    ASSUME Deployment, Inv, NEW j \in Job, NEW i \in Id,
           pc[j] \notin {"idle", "delete", "tips", "recheck", "collect"}
    PROVE  ~Deleting(i)
<1> SUFFICES ASSUME NEW k \in Job, pc[k] = "delete" PROVE FALSE
  BY DEF Deleting
<1>1. kind[k] = "delete" /\ k # j
  BY KindOfPlace DEF Inv
<1>2. kind[j] \notin {"delete", "gc"}
  BY KindOfPlace DEF Inv, TypeOK
<1> QED
  BY <1>1, <1>2, Neighbours

\* A step that leaves the store alone, but for HEAD.
LEMMA QuietStep ==
    ASSUME RepositoriesAssumption, Deployment, Inv, NEW j \in Job, pc[j] \notin {"idle", "delete"},
           UNCHANGED <<backend, repos, objs, refs, parent>>,
           OthersStay(j), kind' = kind, TypeOK', JobInv(j)', pc'[j] # "delete"
    PROVE  Inv'
<1>1. NetInv'
  <2>1. \A i \in Id : Deleting(i)' <=> Deleting(i)
    BY DeletingStays
  <2> QED
    BY <2>1 DEF Inv, NetInv, Reads
<1>2. \A k \in Job \ {j} : Undisturbed(k)
  BY DEF Undisturbed, Reads
<1> QED
  BY <1>1, <1>2, StepKeeps

\* A step that ends a call and leaves the store alone, but for HEAD.
LEMMA QuietEnd ==
    ASSUME RepositoriesAssumption, Deployment, Inv, NEW j \in Job, pc[j] \notin {"idle", "delete"},
           UNCHANGED <<backend, repos, objs, refs, parent, calls>>,
           head' \in [Id -> Ref \cup {None}], End(j)
    PROVE  Inv'
<1>1. TypeOK /\ CallTypes'
  BY TypesSplit, EndTypes DEF Inv
<1>2. TypeOK'
  BY <1>1, TypesSplit DEF StoreTypes, CallTypes, TypeOK, Update, Kinds
<1> QED
  BY <1>1, <1>2, EndLeaves, QuietStep

-------------------------------------------------------------------------------
(* Calls begin.                                                            *)

\* A call that may begin keeps the invariant when it has its own part.
LEMMA BeginKeeps ==
    ASSUME RepositoriesAssumption, Deployment, Inv,
           NEW j \in Job, NEW k \in Kinds, NEW i \in Id,
           NEW p \in {"target", "insert", "delete", "ingest", "tips"}, Begin(j, k, i, p),
           src' \in [Job -> Id \cup {None}], upd' \in [Job -> Update],
           todo' \in [Job -> SUBSET (Id \cup Table)],
           \A m \in Job \ {j} : src'[m] = src[m] /\ upd'[m] = upd[m] /\ todo'[m] = todo[m],
           JobInv(j)'
    PROVE  Inv'
<1>1. StoreTypes /\ CallTypes /\ TypeOK
  BY TypesSplit DEF Inv
<1>2. TypeOK'
  <2>1. CallTypes'
    BY <1>1, BeginTypes
  <2>2. StoreTypes'
    BY <1>1 DEF Begin, store, StoreTypes
  <2> QED
    BY <2>1, <2>2 DEF StoreTypes, CallTypes, TypeOK, Update, Kinds
<1>3. OthersStay(j) /\ pc[j] = "idle" /\ pc'[j] = p /\ kind'[j] = k
  BY <1>1 DEF Begin, Goto, OthersStay, CallTypes
<1>4. UNCHANGED <<backend, repos, objs, refs, parent>>
  BY DEF Begin, store
<1>5. \A m \in Job : pc[m] # "idle" => kind[m] \in Kinds /\ {k, kind[m]} \notin Apart
  BY <1>1 DEF CallTypes, Begin, MayBegin
<1>7. \A m \in Job \ {j} : JobInv(m)'
  <2>1. \A m \in Job \ {j} : Undisturbed(m)
    BY <1>4 DEF Undisturbed, Reads
  <2> QED
    BY <2>1, <1>3, OthersKeep
<1>8. NetInv'
  <2>1. \A x \in Id : Deleting(x) => Deleting(x)'
    BY <1>3 DEF Deleting, OthersStay
  <2> QED
    BY <2>1, <1>4 DEF Inv, NetInv, Reads
<1>9. ApartInv'
  <2> SUFFICES ASSUME NEW m \in Job, NEW n \in Job, m # n, pc'[m] # "idle", pc'[n] # "idle"
               PROVE  {kind'[m], kind'[n]} \notin Apart
    BY DEF ApartInv
  <2>1. CASE m # j /\ n # j
    BY <2>1, <1>3 DEF Inv, ApartInv, OthersStay
  <2>2. CASE m = j
    BY <2>2, <1>3, <1>5 DEF OthersStay
  <2>3. CASE n = j
    <3>1. {kind'[m], kind'[n]} = {kind'[n], kind'[m]}
      OBVIOUS
    <3> QED
      BY <2>3, <3>1, <1>3, <1>5 DEF OthersStay
  <2> QED
    BY <2>1, <2>2, <2>3
<1> QED
  BY <1>2, <1>7, <1>8, <1>9 DEF Inv

\* Calls of every kind begin with their own part of the invariant.
LEMMA CallBeginsKeeps ==
    ASSUME RepositoriesAssumption, Deployment, Inv, NEW j \in Job, CallBegins(j)
    PROVE  Inv'
<1>0. TypeOK /\ StoreTypes /\ CallTypes /\ JobInv(j) /\ None \notin Id /\ None \notin Object
  BY TypesSplit DEF Inv, RepositoriesAssumption
<1>1. ASSUME NEW i \in Id, CreateRepo(j, i) PROVE Inv'
  <2>1. JobInv(j)'
    BY <1>0, <1>1 DEF CreateRepo, Begin, Goto, JobInv, CreateInv, CallTypes
  <2> QED
    BY <1>0, <1>1, <2>1, BeginKeeps DEF CreateRepo, Kinds, CallTypes
<1>2. ASSUME NEW i \in Id, DeleteRepo(j, i) PROVE Inv'
  <2>1. DeleteInv(j)' /\ pc'[j] = "delete"
    BY <1>0, <1>2 DEF DeleteRepo, Begin, Goto, store, DeleteInv, Forks, CallTypes, Table
  <2>2. JobInv(j)'
    BY <2>1 DEF JobInv
  <2>3. todo' \in [Job -> SUBSET (Id \cup Table)]
    BY <1>0, <1>2 DEF DeleteRepo, CallTypes
  <2> QED
    BY <1>0, <1>2, <2>2, <2>3, BeginKeeps DEF DeleteRepo, Kinds, CallTypes
<1>3. ASSUME NEW i \in Id, Gc(j, i) PROVE Inv'
  <2>1. todo'[j] = IF parent[i] = None THEN Forks(i) ELSE {}
    BY <1>0, <1>3 DEF Gc, CallTypes
  <2>2. todo'[j] = Forks(i)
    BY <1>0, <1>3, <2>1 DEF Inv, NetInv, Forks, Gc
  <2>3. GcInv(j)' /\ pc'[j] = "tips"
    BY <1>0, <1>3, <2>2 DEF Gc, Begin, Goto, store, GcInv, Forks, CallTypes
  <2>4. JobInv(j)'
    BY <2>3 DEF JobInv
  <2>5. todo' \in [Job -> SUBSET (Id \cup Table)]
    BY <1>0, <1>3 DEF Gc, CallTypes, Forks
  <2> QED
    BY <1>0, <1>3, <2>4, <2>5, BeginKeeps DEF Gc, Kinds, CallTypes
<1>4. ASSUME NEW i \in Id, NEW s \in Id, ForkRepo(j, s, i) PROVE Inv'
  <2>1. ForkInv(j)' /\ pc'[j] = "target"
    BY <1>0, <1>4 DEF ForkRepo, Begin, Goto, store, ForkInv, CallTypes, Deployment
  <2>2. JobInv(j)'
    BY <2>1 DEF JobInv
  <2>3. src' \in [Job -> Id \cup {None}]
    BY <1>0, <1>4 DEF ForkRepo, CallTypes
  <2> QED
    BY <1>0, <1>4, <2>2, <2>3, BeginKeeps DEF ForkRepo, Kinds, CallTypes
<1>5. ASSUME NEW i \in Id, NEW r \in Ref, NEW v \in Object, Push(j, i, r, v) PROVE Inv'
  <2>1. [ref |-> r, old |-> refs[i][r], new |-> v] \in Update
    BY <1>0 DEF Update, Value, StoreTypes
  <2>2. PushInv(j)' /\ pc'[j] = "ingest"
    BY <1>0, <1>5 DEF Push, Begin, Goto, store, PushInv, CallTypes
  <2>3. JobInv(j)'
    BY <2>2 DEF JobInv
  <2>4. upd' \in [Job -> Update]
    BY <1>0, <1>5, <2>1 DEF Push, CallTypes
  <2> QED
    BY <1>0, <1>5, <2>3, <2>4, BeginKeeps DEF Push, Kinds, CallTypes
<1> QED
  BY <1>1, <1>2, <1>3, <1>4, <1>5 DEF CallBegins

-------------------------------------------------------------------------------
(* Repositories are created and forked.                                    *)

\* The target is not there, so nobody reads from it and it has nothing of its own.
LEMMA ForkTargetKeeps ==
    ASSUME RepositoriesAssumption, Deployment, Inv, NEW j \in Job, ForkTarget(j)
    PROVE  Inv'
<1>0. TypeOK /\ StoreTypes /\ CallTypes /\ JobInv(j) /\ None \notin Id
  BY TypesSplit DEF Inv, RepositoriesAssumption
<1>1. CASE id[j] \in repos
  BY <1>0, <1>1, QuietEnd DEF ForkTarget, store, StoreTypes
<1>2. CASE id[j] \notin repos
  <2>1. UNCHANGED <<store, locals, backend, calls>> /\ Goto(j, "root") /\ pc[j] = "target"
    BY <1>2 DEF ForkTarget
  <2>2. CallTypes' /\ StoreTypes'
    BY <1>0, <2>1, GotoTypes DEF StoreTypes, store
  <2>3. TypeOK'
    BY <2>2 DEF StoreTypes, CallTypes, TypeOK, Update, Kinds
  <2>4. OthersStay(j) /\ kind' = kind /\ pc'[j] = "root"
    BY <1>0, <2>1 DEF Goto, locals, OthersStay, CallTypes
  <2>5. ~Deleting(id[j])
    BY <1>0, <2>1, NoneDeletes DEF JobInv, ForkInv
  <2>6. ForkInv(j)'
    BY <1>0, <1>2, <2>1, <2>4, <2>5 DEF JobInv, ForkInv, Inv, NetInv, locals, store, StoreTypes
  <2> QED
    BY <2>1, <2>3, <2>4, <2>6, QuietStep DEF JobInv, store
<1> QED
  BY <1>1, <1>2

LEMMA ForkRootKeeps ==
    ASSUME RepositoriesAssumption, Deployment, Inv, NEW j \in Job, ForkRoot(j)
    PROVE  Inv'
<1>0. TypeOK /\ StoreTypes /\ CallTypes /\ ForkInv(j) /\ pc[j] = "root"
  BY TypesSplit DEF Inv, ForkRoot, JobInv
<1>1. RootOf(src[j]) \in Id /\ src[j] \in Id
  BY <1>0 DEF ForkInv, RootOf, StoreTypes
<1>2. OthersStay(j) /\ kind' = kind /\ pc'[j] = "insert" /\ upd'[j].old = RootOf(src[j])
  BY <1>0, <1>1 DEF ForkRoot, Goto, OthersStay, CallTypes, RootOf, Update
<1>3. upd' = [upd EXCEPT ![j].old = RootOf(src[j])]
  BY DEF ForkRoot, RootOf
<1>4. upd' \in [Job -> Update]
  BY <1>0, <1>1, <1>3 DEF CallTypes, Update
<1>5. TypeOK'
  BY <1>0, <1>4 DEF ForkRoot, Goto, store, TypeOK, Update, CallTypes
<1>6. JobInv(j)'
  BY <1>0, <1>2 DEF ForkRoot, store, JobInv, ForkInv, RootOf
<1> QED
  BY <1>0, <1>2, <1>5, <1>6, QuietStep DEF ForkRoot, store

\* A row of git_repos is added; a name that was not there has no refs to be read.
LEMMA InsertRepoKeeps ==
    ASSUME RepositoriesAssumption, Deployment, Inv, NEW j \in Job, InsertRepo(j)
    PROVE  Inv'
<1>0. TypeOK /\ StoreTypes /\ CallTypes /\ JobInv(j) /\ pc[j] = "insert"
  BY TypesSplit DEF Inv, InsertRepo
<1>1. CASE id[j] \in repos /\ backend # "memory"
  BY <1>0, <1>1, QuietEnd DEF InsertRepo, store, StoreTypes
<1>2. CASE ~(id[j] \in repos /\ backend # "memory")
  <2> DEFINE p == IF kind[j] = "fork" THEN "link" ELSE "head"
  <2>1. /\ repos' = repos \cup {id[j]} /\ Goto(j, p)
        /\ UNCHANGED <<objs, refs, head, parent, locals, backend, calls>>
    BY <1>2 DEF InsertRepo
  <2>2. id[j] \in Id /\ (kind[j] = "fork" => ForkInv(j)) /\ (kind[j] # "fork" => CreateInv(j))
    BY <1>0 DEF JobInv, ForkInv, CreateInv
  <2>3. TypeOK'
    <3>1. CallTypes'
      <4> HIDE DEF p
      <4>1. p \in {"link", "head"}
        BY DEF p
      <4> QED
        BY <1>0, <2>1, <4>1, GotoTypes
    <3>2. StoreTypes'
      BY <1>0, <2>1, <2>2 DEF StoreTypes
    <3> QED
      BY <3>1, <3>2 DEF StoreTypes, CallTypes, TypeOK, Update, Kinds
  <2>4. OthersStay(j) /\ kind' = kind /\ pc'[j] = p
    BY <1>0, <2>1 DEF Goto, locals, OthersStay, CallTypes
  <2>5. JobInv(j)'
    BY <1>0, <2>1, <2>2, <2>4 DEF JobInv, ForkInv, CreateInv, locals, RootOf
  <2>6. \A k \in Job \ {j} : Undisturbed(k)
    <3>1. id[j] \in repos \/ (refs[id[j]] = NoRefs /\ parent[id[j]] = None)
      BY <1>0, <2>2, NoneDeletes DEF Inv, NetInv
    <3>2. kind[j] \in {"fork", "create"}
      BY <1>0, KindOfPlace
    <3> QED
      BY <1>0, <2>1, <3>1, <3>2, Neighbours DEF Undisturbed, Reads
  <2>7. NetInv'
    <3>1. \A i \in Id : ~Deleting(i)
      BY <1>0, NoneDeletes
    <3>2. id[j] \notin repos => Held(refs[id[j]], Reads(id[j]))
      BY <2>2, <3>1 DEF Inv, NetInv, Held, NoRefs
    <3>3. \A i \in repos' : Held(refs[i], Reads(i))
      BY <2>1, <3>2 DEF Inv, NetInv
    <3>4. \A i \in Id : Reads(i)' = Reads(i)
      BY <2>1 DEF Reads
    <3>5. \A i \in repos' : Held(refs[i], Reads(i))'
      BY <2>1, <2>3, <3>3, <3>4 DEF Held, TypeOK
    <3> QED
      BY <2>1, <3>1, <3>5 DEF Inv, NetInv
  <2> QED
    BY <1>0, <2>3, <2>4, <2>5, <2>6, <2>7, StepKeeps
<1> QED
  BY <1>1, <1>2

\* The fork gets its parent.  There is none yet, nobody reads from the fork, and the root
\* it hangs on is no fork: the network stays flat.
LEMMA LinkForkKeeps ==
    ASSUME RepositoriesAssumption, Deployment, Inv, NEW j \in Job, LinkFork(j)
    PROVE  Inv'
<1>0. TypeOK /\ StoreTypes /\ CallTypes /\ ForkInv(j) /\ pc[j] = "link" /\ None \notin Id
  BY TypesSplit DEF Inv, LinkFork, JobInv, RepositoriesAssumption
<1> DEFINE i == id[j]
           root == RootOf(src[j])
<1>1. /\ i \in repos /\ i \in Id /\ parent[i] = None /\ root \in repos /\ root \in Id
      /\ root # i /\ parent[root] = None /\ upd[j].old = root /\ src[j] # i
  BY <1>0 DEF ForkInv, RootOf, Inv, NetInv, StoreTypes
<1>2. /\ parent' = [parent EXCEPT ![i] = root]
      /\ Goto(j, "list")
      /\ UNCHANGED <<locals, backend, repos, objs, refs, head, calls>>
  BY <1>1 DEF LinkFork
<1>3. parent'[i] = root /\ \A f \in Id \ {i} : parent'[f] = parent[f]
  BY <1>0, <1>1, <1>2 DEF StoreTypes
<1>4. TypeOK'
  <2>1. CallTypes'
    BY <1>0, <1>2, GotoTypes
  <2>2. StoreTypes'
    BY <1>0, <1>1, <1>2 DEF StoreTypes
  <2> QED
    BY <2>1, <2>2 DEF StoreTypes, CallTypes, TypeOK, Update, Kinds
<1>5. OthersStay(j) /\ kind' = kind /\ pc'[j] = "list"
  BY <1>0, <1>2 DEF Goto, locals, OthersStay, CallTypes
<1>6. \A f \in Id : Reads(f) \subseteq Reads(f)'
  BY <1>0, <1>1, <1>2, <1>3 DEF Reads
<1>7. JobInv(j)'
  <2>1. RootOf(src[j])' = root
    BY <1>0, <1>1, <1>2, <1>3 DEF RootOf, locals, ForkInv, StoreTypes
  <2> QED
    BY <1>0, <1>1, <1>2, <1>3, <1>5, <2>1 DEF JobInv, ForkInv, locals, StoreTypes
<1>8. \A k \in Job \ {j} : Undisturbed(k)
  <2>1. \A f \in repos : Reads(f) \subseteq Reads(f)'
    BY <1>0, <1>6 DEF StoreTypes
  <2> QED
    BY <1>0, <1>2, <2>1, Neighbours DEF Undisturbed, ForkInv
<1>9. NetInv'
  <2>1. \A x \in Id : ~Deleting(x)
    BY <1>0, NoneDeletes
  <2>2. ASSUME NEW f \in Id, parent'[f] # None
        PROVE  parent'[f] \in repos /\ parent'[parent'[f]] = None
    <3>1. CASE f = i
      BY <1>1, <1>3, <3>1
    <3>2. CASE f # i
      BY <1>0, <1>3, <2>2, <3>2 DEF Inv, NetInv, ForkInv, StoreTypes
    <3> QED
      BY <3>1, <3>2
  <2>3. \A f \in repos : Held(refs[f], Reads(f)')
    BY <1>0, <1>6 DEF Inv, NetInv, Held, StoreTypes
  <2>4. \A f \in repos' : Held(refs[f], Reads(f))'
    BY <1>2, <2>3 DEF Held
  <2>5. \A f \in Id \ repos' : objs'[f] = {} /\ refs'[f] = NoRefs /\ parent'[f] = None
    BY <1>1, <1>2, <1>3, <2>1 DEF Inv, NetInv
  <2>6. \A f \in Id \ Pushed : parent'[f] # None => objs'[f] = {}
    BY <1>0, <1>1, <1>2, <1>3 DEF Inv, NetInv, ForkInv
  <2> QED
    BY <1>2, <2>2, <2>4, <2>5, <2>6 DEF NetInv
<1> QED
  BY <1>0, <1>4, <1>5, <1>7, <1>8, <1>9, StepKeeps

\* The refs that are copied reach what the source reads, and that is the root's.
LEMMA CopyRefsKeeps ==
    ASSUME RepositoriesAssumption, Deployment, Inv, NEW j \in Job, CopyRefs(j)
    PROVE  Inv'
<1>0. TypeOK /\ StoreTypes /\ CallTypes /\ ForkInv(j) /\ pc[j] = "list" /\ None \notin Id
  BY TypesSplit DEF Inv, CopyRefs, JobInv, RepositoriesAssumption
<1>1. src[j] \in repos /\ src[j] \in Id
  BY <1>0 DEF ForkInv, StoreTypes
<1>2. OthersStay(j) /\ kind' = kind /\ pc'[j] = "put" /\ copy'[j] = refs[src[j]]
  BY <1>0 DEF CopyRefs, Goto, OthersStay, CallTypes
<1>3. TypeOK'
  <2>1. copy' \in [Job -> [Ref -> Value]]
    BY <1>0, <1>1 DEF CopyRefs, CallTypes, StoreTypes
  <2> QED
    BY <1>0, <2>1 DEF CopyRefs, Goto, store, TypeOK
<1>4. Held(refs[src[j]], Reads(id[j]))
  <2>1. Reads(src[j]) \subseteq Reads(id[j])
    BY <1>0, <1>1 DEF ForkInv, Reads, RootOf, Inv, NetInv, StoreTypes
  <2> QED
    BY <1>1, <2>1 DEF Inv, NetInv, Held
<1>5. JobInv(j)'
  <2>1. Held(copy[j], Reads(id[j]))'
    BY <1>2, <1>4 DEF CopyRefs, store, Held, Reads
  <2> QED
    BY <1>0, <1>2, <2>1 DEF CopyRefs, store, JobInv, ForkInv, RootOf
<1> QED
  BY <1>0, <1>2, <1>3, <1>5, QuietStep DEF CopyRefs, store

\* A ref that is put reaches what its repository reads.
LEMMA RefMoves ==
    ASSUME TypeOK, NetInv, NEW j \in Job, OthersStay(j), pc[j] # "delete", pc'[j] # "delete",
           NEW i \in repos, NEW r \in Ref, NEW v,
           refs' = [refs EXCEPT ![i][r] = v], v # None => Closure[v] \subseteq Reads(i),
           UNCHANGED <<repos, objs, parent>>
    PROVE  NetInv'
<1>1. i \in Id
  BY DEF TypeOK
<1>2. \A x \in Id : Deleting(x)' <=> Deleting(x)
  BY DeletingStays
<1>3. \A x \in Id : Reads(x)' = Reads(x)
  BY DEF Reads
<1>4. \A x \in repos : Held(refs[x], Reads(x))
  BY DEF NetInv
<1>5. \A x \in repos : Held(refs'[x], Reads(x))
  BY <1>1, <1>4 DEF Held, TypeOK
<1>6. \A x \in repos' : Held(refs[x], Reads(x))'
  BY <1>3, <1>5 DEF Held, TypeOK
<1>7. \A x \in Id \ repos : refs'[x] = refs[x]
  BY <1>1 DEF TypeOK
<1> QED
  BY <1>2, <1>6, <1>7 DEF NetInv

LEMMA PutRefKeeps ==
    ASSUME RepositoriesAssumption, Deployment, Inv, NEW j \in Job, NEW r \in Ref, PutRef(j, r)
    PROVE  Inv'
<1>0. TypeOK /\ StoreTypes /\ CallTypes /\ ForkInv(j) /\ pc[j] = "put"
  BY TypesSplit DEF Inv, PutRef, JobInv, RepositoriesAssumption
<1>1. id[j] \in repos /\ id[j] \in Id /\ copy[j][r] \in Value /\ None \in Value
  BY <1>0 DEF ForkInv, CallTypes, Value
<1>2. OthersStay(j) /\ kind' = kind /\ pc' = pc /\ copy'[j] = [copy[j] EXCEPT ![r] = None]
  BY <1>0 DEF PutRef, OthersStay, CallTypes
<1>3. TypeOK'
  <2>1. copy' \in [Job -> [Ref -> Value]]
    BY <1>0, <1>1 DEF PutRef, CallTypes
  <2>2. refs' \in [Id -> [Ref -> Value]]
    BY <1>0, <1>1 DEF PutRef, StoreTypes
  <2> QED
    BY <1>0, <2>1, <2>2 DEF PutRef, TypeOK
<1>4. NetInv'
  <2>1. Closure[copy[j][r]] \subseteq Reads(id[j])
    BY <1>0 DEF ForkInv, Held, PutRef
  <2> QED
    BY <1>0, <1>1, <1>2, <2>1, RefMoves DEF PutRef, Inv
<1>5. JobInv(j)'
  <2>1. Held(copy[j], Reads(id[j]))'
    BY <1>0, <1>2 DEF PutRef, ForkInv, Held, Reads, CallTypes
  <2> QED
    BY <1>0, <1>2, <2>1 DEF PutRef, JobInv, ForkInv, RootOf
<1>6. \A k \in Job \ {j} : Undisturbed(k)
  BY <1>0, Neighbours DEF Undisturbed, Reads, PutRef, ForkInv
<1> QED
  BY <1>0, <1>2, <1>3, <1>4, <1>5, <1>6, StepKeeps

LEMMA PutHeadKeeps ==
    ASSUME RepositoriesAssumption, Deployment, Inv, NEW j \in Job, NEW r \in Ref, PutHead(j, r)
    PROVE  Inv'
<1>0. TypeOK /\ StoreTypes /\ CallTypes /\ JobInv(j)
  BY TypesSplit DEF Inv
<1>1. kind[j] = "fork" => src[j] \in Id
  BY <1>0 DEF PutHead, JobInv, ForkInv, CreateInv, StoreTypes
<1>2. head' \in [Id -> Ref \cup {None}]
  BY <1>0, <1>1 DEF PutHead, StoreTypes
<1> QED
  BY <1>2, QuietEnd DEF PutHead

-------------------------------------------------------------------------------
(* Repositories are deleted.                                               *)

\* Beside a deletion there are others and collections.
LEMMA DeletesApart ==
    ASSUME Deployment, Inv, NEW j \in Job, pc[j] = "delete"
    PROVE  \A k \in Job \ {j} : pc[k] = "idle" \/ kind[k] \in {"delete", "gc"}
<1>1. kind[j] = "delete"
  BY KindOfPlace DEF Inv
<1> QED
  BY <1>1, Neighbours

\* A step of a deletion does not end that of another repository.
LEMMA OthersDeleted ==
    ASSUME TypeOK, NEW j \in Job, OthersStay(j), NEW f \in Id, f # id[j], Deleting(f)
    PROVE  Deleting(f)'
BY DEF Deleting, OthersStay

\* Without a wait the rows of all four tables go at once, and nobody reads from them.
LEMMA DeleteRowsKeeps ==
    ASSUME RepositoriesAssumption, Deployment, Inv, NEW j \in Job, DeleteRows(j)
    PROVE  Inv'
<1>0. TypeOK /\ StoreTypes /\ CallTypes /\ DeleteInv(j) /\ pc[j] = "delete" /\ None \notin Id
  BY TypesSplit DEF Inv, DeleteRows, JobInv, RepositoriesAssumption
<1> DEFINE i == id[j]
<1>1. i \in Id /\ \A f \in Id : parent[f] # i
  BY <1>0 DEF DeleteInv, Forks
<1>2. /\ repos' = repos \ {i} /\ objs' = [objs EXCEPT ![i] = {}]
      /\ refs' = [refs EXCEPT ![i] = NoRefs] /\ head' = [head EXCEPT ![i] = None]
      /\ parent' = [parent EXCEPT ![i] = None]
      /\ End(j) /\ UNCHANGED <<backend, calls>>
  BY DEF DeleteRows, Cleared, Table
<1>3. OthersStay(j) /\ kind' = kind /\ JobInv(j)' /\ pc'[j] = "idle"
  BY <1>0, <1>2, EndLeaves
<1>4. TypeOK'
  <2>1. CallTypes'
    BY <1>0, <1>2, EndTypes
  <2>2. StoreTypes'
    BY <1>0, <1>1, <1>2 DEF StoreTypes, NoRefs, Value
  <2> QED
    BY <2>1, <2>2 DEF StoreTypes, CallTypes, TypeOK, Update, Kinds
<1>5. /\ objs'[i] = {} /\ refs'[i] = NoRefs /\ parent'[i] = None
      /\ \A f \in Id \ {i} : objs'[f] = objs[f] /\ refs'[f] = refs[f] /\ parent'[f] = parent[f]
  BY <1>0, <1>1, <1>2 DEF StoreTypes
<1>6. NetInv'
  <2>1. \A f \in Id \ {i} : Reads(f)' = Reads(f)
    BY <1>0, <1>1, <1>5 DEF Reads, StoreTypes
  <2>2. \A f \in repos' : Held(refs[f], Reads(f))'
    BY <1>0, <1>2, <1>5, <2>1 DEF Held, Inv, NetInv, StoreTypes
  <2>3. \A f \in Id : parent'[f] # None => parent'[f] \in repos' /\ parent'[parent'[f]] = None
    BY <1>0, <1>1, <1>2, <1>5 DEF Inv, NetInv, StoreTypes
  <2>4. \A f \in Id \ repos' :
           ~Deleting(f)' => objs'[f] = {} /\ refs'[f] = NoRefs /\ parent'[f] = None
    BY <1>0, <1>2, <1>3, <1>5, OthersDeleted DEF Inv, NetInv
  <2>5. \A f \in Id \ Pushed : parent'[f] # None => objs'[f] = {}
    BY <1>5 DEF Inv, NetInv
  <2> QED
    BY <2>2, <2>3, <2>4, <2>5 DEF NetInv
<1>7. \A k \in Job \ {j} : Undisturbed(k)
  BY <1>0, <1>1, <1>2, <1>5, DeletesApart DEF Undisturbed
<1> QED
  BY <1>0, <1>3, <1>4, <1>6, <1>7, StepKeeps

\* In Postgres they go table by table.
LEMMA DeleteTableKeeps ==
    ASSUME RepositoriesAssumption, Deployment, Inv, NEW j \in Job, NEW n \in 1..4,
           DeleteTable(j, n)
    PROVE  Inv'
<1>0. TypeOK /\ StoreTypes /\ CallTypes /\ DeleteInv(j) /\ pc[j] = "delete" /\ None \notin Id
  BY TypesSplit DEF Inv, DeleteTable, JobInv, RepositoriesAssumption
<1> DEFINE i == id[j]
           gone == {Tables[n]}
<1>1. i \in Id /\ \A f \in Id : parent[f] # i
  BY <1>0 DEF DeleteInv, Forks
<1>2. /\ repos' = IF "repos" \in gone THEN repos \ {i} ELSE repos
      /\ objs' = IF "objects" \in gone THEN [objs EXCEPT ![i] = {}] ELSE objs
      /\ refs' = IF "refs" \in gone THEN [refs EXCEPT ![i] = NoRefs] ELSE refs
      /\ head' = IF "refs" \in gone THEN [head EXCEPT ![i] = None] ELSE head
      /\ parent' = IF "forks" \in gone THEN [parent EXCEPT ![i] = None] ELSE parent
      /\ UNCHANGED <<backend, calls>>
  BY DEF DeleteTable, Cleared
<1>3. /\ n = 1 => Tables[n] = "repos"
      /\ n = 2 => Tables[n] = "objects" /\ Tables[1] \notin todo[j]
      /\ n = 3 => Tables[n] = "refs" /\ Tables[1] \notin todo[j]
      /\ n = 4 => /\ Tables[n] = "forks" /\ Tables[1] \notin todo[j]
                  /\ Tables[2] \notin todo[j] /\ Tables[3] \notin todo[j]
  BY DEF DeleteTable, Tables
<1>4. Tables[1] = "repos" /\ Tables[2] = "objects" /\ Tables[3] = "refs"
  BY DEF Tables
<1>5. i \in repos => n = 1
  BY <1>0, <1>3, <1>4 DEF DeleteInv
<1>6. n = 4 => i \notin repos /\ objs[i] = {} /\ refs[i] = NoRefs
  BY <1>0, <1>3, <1>4 DEF DeleteInv
<1>7. \A f \in Id \ {i} : objs'[f] = objs[f] /\ refs'[f] = refs[f] /\ parent'[f] = parent[f]
  BY <1>0, <1>1, <1>2 DEF StoreTypes
<1>8. StoreTypes'
  BY <1>0, <1>1, <1>2 DEF StoreTypes, NoRefs, Value
<1>9. repos' \subseteq repos \ {i}
  <2>1. n = 1 => repos' = repos \ {i}
    BY <1>2, <1>3
  <2>2. n # 1 => repos' = repos
    BY <1>2, <1>3
  <2> QED
    BY <1>5, <2>1, <2>2
<1>13. \A k \in Job \ {j} : Undisturbed(k)
  <2>1. /\ objs'[i] \in {objs[i], {}} /\ refs'[i] \in {refs[i], NoRefs}
        /\ parent'[i] \in {parent[i], None}
    BY <1>0, <1>1, <1>2 DEF StoreTypes
  <2> QED
    BY <1>0, <1>7, <1>9, <2>1, DeletesApart DEF Undisturbed
<1>10. ASSUME n # 4 => pc'[j] = "delete" /\ id'[j] = i, OthersStay(j)
       PROVE  NetInv'
  <2>1. \A f \in repos' \ {i} : Held(refs[f], Reads(f))'
    <3>1. \A f \in Id \ {i} : Reads(f)' = Reads(f)
      BY <1>0, <1>1, <1>7 DEF Reads, StoreTypes
    <3>2. repos' \subseteq repos
      BY <1>2
    <3> QED
      BY <1>0, <1>7, <3>1, <3>2 DEF Held, Inv, NetInv, StoreTypes
  <2>2. i \notin repos'
    BY <1>9
  <2>3. \A f \in Id : parent'[f] # None => parent'[f] \in repos' /\ parent'[parent'[f]] = None
    BY <1>0, <1>1, <1>2, <1>7 DEF Inv, NetInv, StoreTypes
  <2>4. \A f \in Id \ repos' :
           ~Deleting(f)' => objs'[f] = {} /\ refs'[f] = NoRefs /\ parent'[f] = None
    <3> SUFFICES ASSUME NEW f \in Id \ repos', ~Deleting(f)'
                 PROVE  objs'[f] = {} /\ refs'[f] = NoRefs /\ parent'[f] = None
      OBVIOUS
    <3>1. CASE f = i
      <4>1. n = 4
        BY <3>1, <1>10 DEF Deleting
      <4> QED
        BY <4>1, <3>1, <1>0, <1>1, <1>2, <1>3, <1>6 DEF StoreTypes
    <3>2. CASE f # i
      BY <3>2, <1>0, <1>2, <1>7, <1>10, OthersDeleted DEF Inv, NetInv
    <3> QED
      BY <3>1, <3>2
  <2>5. \A f \in Id \ Pushed : parent'[f] # None => objs'[f] = {}
    BY <1>0, <1>1, <1>2, <1>7 DEF Inv, NetInv, StoreTypes
  <2> QED
    BY <2>1, <2>2, <2>3, <2>4, <2>5 DEF NetInv
<1>11. CASE n = 4
  <2>1. End(j)
    BY <1>11 DEF DeleteTable
  <2>2. OthersStay(j) /\ kind' = kind /\ JobInv(j)' /\ pc'[j] = "idle"
    BY <1>0, <2>1, EndLeaves
  <2>3. TypeOK'
    <3>1. CallTypes'
      BY <1>0, <1>2, <2>1, EndTypes
    <3> QED
      BY <1>8, <3>1 DEF StoreTypes, CallTypes, TypeOK, Update, Kinds
  <2> QED
    BY <1>0, <1>13, <1>10, <1>11, <2>2, <2>3, StepKeeps
<1>12. CASE n # 4
  <2>1. /\ todo' = [todo EXCEPT ![j] = @ \ gone]
        /\ UNCHANGED <<pc, kind, id, src, upd, copy, doomed>>
    BY <1>12 DEF DeleteTable
  <2>2. OthersStay(j) /\ kind' = kind /\ pc'[j] = "delete" /\ todo'[j] = todo[j] \ gone
    BY <1>0, <2>1 DEF OthersStay, CallTypes
  <2>3. TypeOK'
    <3>1. CallTypes'
      BY <1>0, <1>2, <2>1 DEF CallTypes
    <3> QED
      BY <1>8, <3>1 DEF StoreTypes, CallTypes, TypeOK, Update, Kinds
  <2>4. JobInv(j)'
    <3>1. objs'[i] = objs[i] \/ objs'[i] = {}
      BY <1>0, <1>1, <1>2 DEF StoreTypes
    <3>2. refs'[i] = refs[i] \/ refs'[i] = NoRefs
      BY <1>0, <1>1, <1>2 DEF StoreTypes
    <3>3. parent' = parent
      BY <1>2, <1>3, <1>12
    <3>4. "repos" \notin todo'[j] => i \notin repos'
      BY <1>0, <1>2, <2>2 DEF DeleteInv
    <3>5. "objects" \notin todo'[j] => objs'[i] = {}
      BY <1>0, <1>1, <1>2, <2>2, <3>1 DEF DeleteInv, StoreTypes
    <3>6. "refs" \notin todo'[j] => refs'[i] = NoRefs
      BY <1>0, <1>1, <1>2, <2>2, <3>2 DEF DeleteInv, StoreTypes
    <3>7. "forks" \in todo'[j]
      BY <1>0, <1>3, <1>12, <2>2 DEF DeleteInv
    <3>8. DeleteInv(j)'
      BY <1>0, <1>1, <2>1, <3>3, <3>4, <3>5, <3>6, <3>7 DEF DeleteInv, Forks
    <3> QED
      BY <2>2, <3>8 DEF JobInv
  <2> QED
    BY <1>0, <1>13, <1>10, <1>12, <2>1, <2>2, <2>3, <2>4, StepKeeps
<1> QED
  BY <1>11, <1>12

-------------------------------------------------------------------------------
(* Repositories are pushed to.                                             *)

\* The pack of a push is stored: what the refs did not reach yet of the new value.
LEMMA IngestKeeps ==
    ASSUME RepositoriesAssumption, Deployment, Inv, NEW j \in Job, Ingest(j)
    PROVE  Inv'
<1>0. TypeOK /\ StoreTypes /\ CallTypes /\ PushInv(j) /\ pc[j] = "ingest" /\ NetInv
  BY TypesSplit DEF Inv, Ingest, JobInv
<1> DEFINE i == id[j]
           new == upd[j].new
           pack == Missing({new}, Values(refs[i]))
<1>1. i \in repos /\ i \in Id /\ i \in Pushed /\ new \in Object
  BY <1>0 DEF PushInv, StoreTypes
<1>2. Reachable({new}) = Closure[new] /\ Closure[new] \in SUBSET Object
  BY <1>1, ClosureIn DEF Reachable
<1>3. pack \in SUBSET Object
  BY <1>2 DEF Missing
<1>4. /\ objs' = [objs EXCEPT ![i] = @ \cup pack] /\ Goto(j, "swap")
      /\ UNCHANGED <<backend, repos, refs, head, parent, locals, calls>>
  BY DEF Ingest
<1>5. OthersStay(j) /\ kind' = kind /\ pc'[j] = "swap"
  BY <1>0, <1>4 DEF Goto, locals, OthersStay, CallTypes
<1>6. TypeOK'
  <2>1. CallTypes'
    BY <1>0, <1>4, GotoTypes
  <2>2. StoreTypes'
    BY <1>0, <1>1, <1>3, <1>4 DEF StoreTypes
  <2> QED
    BY <2>1, <2>2 DEF StoreTypes, CallTypes, TypeOK, Update, Kinds
<1>7. /\ objs'[i] = objs[i] \cup pack
      /\ \A f \in Id \ {i} : objs'[f] = objs[f]
  <2> HIDE DEF pack
  <2> QED
    BY <1>0, <1>1, <1>4 DEF StoreTypes
<1>8. \A f \in Id : Reads(f) \subseteq Reads(f)'
  BY <1>0, <1>4, <1>7 DEF Reads, StoreTypes
<1>9. JobInv(j)'
  <2>1. Reachable(Values(refs[i])) \subseteq Reads(i)
    BY <1>0, <1>1, HeldIsReach DEF NetInv, StoreTypes
  <2>2. Closure[new] \subseteq Reads(i)'
    BY <1>1, <1>2, <1>4, <1>7, <1>8, <2>1 DEF Missing, Reads, locals
  <2>3. PushInv(j)'
    BY <1>0, <1>1, <1>4, <1>5, <2>2 DEF PushInv, locals, Reads
  <2> QED
    BY <1>5, <2>3 DEF JobInv
<1>10. \A k \in Job \ {j} : Undisturbed(k)
  <2>1. \A f \in repos : Reads(f) \subseteq Reads(f)'
    BY <1>0, <1>8 DEF StoreTypes
  <2>2. \A f \in Id \ Pushed : objs'[f] = objs[f]
    BY <1>1, <1>7
  <2> QED
    BY <1>0, <1>4, <2>1, <2>2, Neighbours DEF Undisturbed, PushInv
<1>11. NetInv'
  <2>1. \A x \in Id : Deleting(x)' <=> Deleting(x)
    BY <1>0, <1>5, DeletingStays
  <2>2. \A f \in repos : Held(refs[f], Reads(f)')
    BY <1>0, <1>8 DEF NetInv, Held, StoreTypes
  <2>3. \A f \in repos' : Held(refs[f], Reads(f))'
    BY <1>4, <2>2 DEF Held
  <2>4. \A f \in Id : f \notin repos \/ f \notin Pushed => f = i \/ objs'[f] = objs[f]
    BY <1>7
  <2> QED
    BY <1>0, <1>1, <1>4, <1>7, <2>1, <2>3 DEF NetInv
<1> QED
  BY <1>0, <1>5, <1>6, <1>9, <1>10, <1>11, StepKeeps

\* The ref of a push moves, or stays, to what its repository reads.
LEMMA PushEndKeeps ==
    ASSUME RepositoriesAssumption, Deployment, Inv, NEW j \in Job,
           pc[j] \in {"swap", "insertRef"}, End(j),
           refs' \in {refs, [refs EXCEPT ![id[j]][upd[j].ref] = upd[j].new]},
           UNCHANGED <<backend, repos, objs, head, parent, calls>>
    PROVE  Inv'
<1>0. TypeOK /\ StoreTypes /\ CallTypes /\ PushInv(j) /\ NetInv
  BY TypesSplit DEF Inv, JobInv
<1>1. CASE refs' = refs
  BY <1>0, <1>1, QuietEnd DEF StoreTypes
<1>2. CASE refs' = [refs EXCEPT ![id[j]][upd[j].ref] = upd[j].new]
  <2>1. /\ id[j] \in repos /\ id[j] \in Id /\ upd[j].ref \in Ref /\ upd[j].new \in Object
        /\ Closure[upd[j].new] \subseteq Reads(id[j])
    BY <1>0 DEF PushInv, StoreTypes
  <2>2. OthersStay(j) /\ kind' = kind /\ JobInv(j)' /\ pc'[j] = "idle"
    BY <1>0, EndLeaves
  <2>3. TypeOK'
    <3>1. CallTypes'
      BY <1>0, EndTypes
    <3>2. StoreTypes'
      BY <1>0, <1>2, <2>1 DEF StoreTypes, Value
    <3> QED
      BY <3>1, <3>2 DEF StoreTypes, CallTypes, TypeOK, Update, Kinds
  <2>4. NetInv'
    <3>1. pc[j] # "delete" /\ pc'[j] # "delete"
      BY <2>2
    <3> QED
      BY <1>0, <1>2, <2>1, <2>2, <3>1, RefMoves
  <2>5. \A k \in Job \ {j} : Undisturbed(k)
    BY <1>0, Neighbours DEF Undisturbed, Reads, PushInv
  <2> QED
    BY <2>2, <2>3, <2>4, <2>5, StepKeeps
<1> QED
  BY <1>1, <1>2

LEMMA SwapLooksKeeps ==
    ASSUME RepositoriesAssumption, Deployment, Inv, NEW j \in Job, SwapLooks(j)
    PROVE  Inv'
<1>0. TypeOK /\ StoreTypes /\ CallTypes /\ PushInv(j) /\ pc[j] = "swap"
  BY TypesSplit DEF Inv, SwapLooks, JobInv
<1>1. CASE upd[j].old # None
  BY <1>0, <1>1, QuietEnd DEF SwapLooks, store, StoreTypes
<1>2. CASE upd[j].old = None
  <2>1. /\ Goto(j, "insertRef") /\ UNCHANGED <<locals, backend, store, calls>>
        /\ backend = "pg"
    BY <1>2 DEF SwapLooks
  <2>2. OthersStay(j) /\ kind' = kind /\ pc'[j] = "insertRef"
    BY <1>0, <2>1 DEF Goto, locals, OthersStay, CallTypes
  <2>3. TypeOK'
    <3>1. CallTypes' /\ StoreTypes'
      BY <1>0, <2>1, GotoTypes DEF store, StoreTypes
    <3> QED
      BY <3>1 DEF StoreTypes, CallTypes, TypeOK, Update, Kinds
  <2>4. JobInv(j)'
    BY <1>0, <1>2, <2>1, <2>2 DEF JobInv, PushInv, locals, store, Reads
  <2> QED
    BY <1>0, <2>1, <2>2, <2>3, <2>4, QuietStep DEF store
<1> QED
  BY <1>1, <1>2

-------------------------------------------------------------------------------
(* Repositories are collected.                                             *)

\* One fork more is asked; one that is gone is nobody's.
LEMMA GcForkKeeps ==
    ASSUME RepositoriesAssumption, Deployment, Inv, NEW j \in Job, NEW f \in Id, GcFork(j, f)
    PROVE  Inv'
<1>0. TypeOK /\ StoreTypes /\ CallTypes /\ GcInv(j) /\ pc[j] = "tips" /\ NetInv
  BY TypesSplit DEF Inv, GcFork, JobInv
<1> DEFINE tips == IF f \in repos THEN Values(refs[f]) ELSE {}
<1>1. Values(refs[f]) \in SUBSET Object
  BY <1>0 DEF Values, StoreTypes, Value
<1>2. f \in repos => Values(refs[f]) \subseteq tips
  OBVIOUS
<1>3. tips \in SUBSET Object
  BY <1>1
<1>4. /\ doomed' = [doomed EXCEPT ![j] = @ \cup tips]
      /\ todo' = [todo EXCEPT ![j] = @ \ {f}]
      /\ UNCHANGED <<backend, store, pc, kind, id, src, upd, copy, calls>>
  BY DEF GcFork
<1> HIDE DEF tips
<1>5. OthersStay(j) /\ doomed'[j] = doomed[j] \cup tips /\ todo'[j] = todo[j] \ {f}
  BY <1>0, <1>4 DEF OthersStay, CallTypes
<1>6. TypeOK'
  <2>1. CallTypes'
    BY <1>0, <1>3, <1>4 DEF CallTypes
  <2>2. StoreTypes'
    BY <1>0, <1>4 DEF StoreTypes, store
  <2> QED
    BY <2>1, <2>2 DEF StoreTypes, CallTypes, TypeOK, Update, Kinds
<1>7. GcInv(j)'
  <2>1. Forks(id[j])' = Forks(id[j])
    BY <1>4 DEF Forks, store
  <2>2. \A g \in (Forks(id[j]) \cap repos) \ todo'[j] : Values(refs[g]) \subseteq doomed'[j]
    BY <1>0, <1>2, <1>5 DEF GcInv
  <2> QED
    BY <1>0, <1>4, <1>5, <2>1, <2>2 DEF GcInv, store, Values
<1>8. JobInv(j)'
  BY <1>0, <1>4, <1>7 DEF JobInv
<1> QED
  BY <1>0, <1>4, <1>5, <1>6, <1>8, QuietStep DEF store

\* What the walk finds is all that the refs of the repository and of its forks reach.
LEMMA GcWalkKeeps ==
    ASSUME RepositoriesAssumption, Deployment, Inv, NEW j \in Job, GcWalk(j)
    PROVE  Inv'
<1>0. TypeOK /\ StoreTypes /\ CallTypes /\ GcInv(j) /\ pc[j] = "tips" /\ todo[j] = {}
  BY TypesSplit DEF Inv, GcWalk, JobInv
<1> DEFINE i == id[j]
           found == Reachable(Values(refs[i]) \cup doomed[j])
<1>1. i \in Id
  BY <1>0 DEF GcInv, StoreTypes
<1>2. CASE found = {} \/ ~found \subseteq Reads(i)
  <2>1. End(j) /\ UNCHANGED <<backend, store, calls>>
    BY <1>2 DEF GcWalk
  <2> QED
    BY <1>0, <2>1, QuietEnd DEF store, StoreTypes
<1>3. CASE ~(found = {} \/ ~found \subseteq Reads(i))
  <2>1. /\ copy' = [copy EXCEPT ![j] = refs[i]]
        /\ doomed' = [doomed EXCEPT ![j] = objs[i] \ found]
        /\ Goto(j, "recheck")
        /\ UNCHANGED <<kind, id, src, upd, todo, backend, store, calls>>
    BY <1>3 DEF GcWalk
  <2>2. \A f \in (Forks(i) \cup {i}) \cap repos, r \in Ref :
           refs[f][r] # None => Closure[refs[f][r]] \subseteq found
    <3>1. \A f \in (Forks(i) \cup {i}) \cap repos : Values(refs[f]) \subseteq Values(refs[i]) \cup doomed[j]
      BY <1>0 DEF GcInv
    <3> QED
      BY <3>1 DEF Values, Reachable
  <2> HIDE DEF found
  <2>3. OthersStay(j) /\ pc'[j] = "recheck" /\ doomed'[j] = objs[i] \ found
    BY <1>0, <2>1 DEF OthersStay, CallTypes, Goto
  <2>4. TypeOK'
    <3>1. CallTypes'
      BY <1>0, <1>1, <2>1 DEF CallTypes, StoreTypes, Goto
    <3>2. StoreTypes'
      BY <1>0, <2>1 DEF StoreTypes, store
    <3> QED
      BY <3>1, <3>2 DEF StoreTypes, CallTypes, TypeOK, Update, Kinds
  <2>5. GcInv(j)'
    <3>1. Forks(i)' = Forks(i)
      BY <2>1 DEF Forks, store
    <3>2. \A f \in (Forks(i) \cup {i}) \cap repos, r \in Ref :
             refs[f][r] # None => Closure[refs[f][r]] \cap doomed'[j] = {}
      BY <2>2, <2>3
    <3> QED
      BY <1>0, <2>1, <2>3, <3>1, <3>2 DEF GcInv, store
  <2>6. JobInv(j)'
    BY <2>3, <2>5 DEF JobInv
  <2> QED
    BY <1>0, <2>1, <2>3, <2>4, <2>6, QuietStep DEF store
<1> QED
  BY <1>2, <1>3

LEMMA GcRecheckKeeps ==
    ASSUME RepositoriesAssumption, Deployment, Inv, NEW j \in Job, GcRecheck(j)
    PROVE  Inv'
<1>0. TypeOK /\ StoreTypes /\ CallTypes /\ GcInv(j) /\ pc[j] = "recheck"
  BY TypesSplit DEF Inv, GcRecheck, JobInv
<1>1. CASE End(j)
  BY <1>0, <1>1, QuietEnd DEF GcRecheck, store, StoreTypes
<1>2. CASE Goto(j, "collect") /\ UNCHANGED locals
  <2>1. UNCHANGED <<backend, store, calls>>
    BY DEF GcRecheck
  <2>2. OthersStay(j) /\ kind' = kind /\ pc'[j] = "collect"
    BY <1>0, <1>2 DEF Goto, locals, OthersStay, CallTypes
  <2>3. TypeOK'
    <3>1. CallTypes' /\ StoreTypes'
      BY <1>0, <1>2, <2>1, GotoTypes DEF store, StoreTypes
    <3> QED
      BY <3>1 DEF StoreTypes, CallTypes, TypeOK, Update, Kinds
  <2>4. JobInv(j)'
    BY <1>0, <1>2, <2>1, <2>2 DEF JobInv, GcInv, locals, store, Forks
  <2> QED
    BY <1>0, <2>1, <2>2, <2>3, <2>4, QuietStep DEF store
<1> QED
  BY <1>1, <1>2 DEF GcRecheck

\* What is deleted nobody who reads here reaches.
LEMMA GcDeleteKeeps ==
    ASSUME RepositoriesAssumption, Deployment, Inv, NEW j \in Job, GcDelete(j)
    PROVE  Inv'
<1>0. /\ TypeOK /\ StoreTypes /\ CallTypes /\ GcInv(j) /\ pc[j] = "collect" /\ NetInv
      /\ None \notin Id
  BY TypesSplit DEF Inv, GcDelete, JobInv, RepositoriesAssumption
<1> DEFINE i == id[j]
<1>1. i \in Id
  BY <1>0 DEF GcInv
<1>2. /\ objs' = [objs EXCEPT ![i] = @ \ doomed[j]] /\ End(j)
      /\ UNCHANGED <<backend, repos, refs, head, parent, calls>>
  BY DEF GcDelete
<1>3. OthersStay(j) /\ kind' = kind /\ JobInv(j)' /\ pc'[j] = "idle"
  BY <1>0, <1>2, EndLeaves
<1>4. TypeOK'
  <2>1. CallTypes'
    BY <1>0, <1>2, EndTypes
  <2>2. StoreTypes'
    BY <1>0, <1>1, <1>2 DEF StoreTypes
  <2> QED
    BY <2>1, <2>2 DEF StoreTypes, CallTypes, TypeOK, Update, Kinds
<1>5. objs'[i] = objs[i] \ doomed[j] /\ \A f \in Id \ {i} : objs'[f] = objs[f]
  BY <1>0, <1>1, <1>2 DEF StoreTypes
<1>6. NetInv'
  <2>1. \A x \in Id : Deleting(x)' <=> Deleting(x)
    BY <1>0, <1>3, DeletingStays
  <2>2. ASSUME NEW f \in repos PROVE Held(refs[f], Reads(f)')
    <3>1. Held(refs[f], Reads(f)) /\ f \in Id
      BY <1>0 DEF NetInv, StoreTypes
    <3>2. CASE f \in Forks(i) \cup {i}
      <4>1. Reads(f) \ doomed[j] \subseteq Reads(f)'
        BY <1>0, <1>1, <1>2, <1>5, <3>1 DEF Reads, StoreTypes
      <4>2. \A r \in Ref : refs[f][r] # None => Closure[refs[f][r]] \cap doomed[j] = {}
        BY <1>0, <3>2 DEF GcInv
      <4> QED
        BY <3>1, <4>1, <4>2 DEF Held
    <3>3. CASE f \notin Forks(i) \cup {i}
      <4>1. Reads(f)' = Reads(f)
        BY <1>0, <1>2, <1>5, <3>1, <3>3 DEF Reads, StoreTypes, Forks
      <4> QED
        BY <3>1, <4>1
    <3> QED
      BY <3>2, <3>3
  <2>3. \A f \in repos' : Held(refs[f], Reads(f))'
    BY <1>2, <2>2 DEF Held
  <2>5. \A f \in Id : objs[f] = {} => objs'[f] = {}
    BY <1>5
  <2> QED
    BY <1>0, <1>2, <2>1, <2>3, <2>5 DEF NetInv
<1>7. \A k \in Job \ {j} : Undisturbed(k)
  BY <1>0, <1>2, <1>5, Neighbours DEF Undisturbed, GcInv
<1> QED
  BY <1>0, <1>3, <1>4, <1>6, <1>7, StepKeeps

-------------------------------------------------------------------------------
(* The invariant holds.                                                    *)

\* Deletions are not cut off: what is stored stays.
LEMMA CrashKeepsStore == ASSUME Deployment, Crash PROVE UNCHANGED store
<1>1. \A j \in Job : CutOff(j) = {{}}
  BY DEF Crash, Deployment, CutOff
<1>2. \A i : Cleared(i, {}) => UNCHANGED store
  BY DEF Cleared, store
<1> QED
  BY <1>1, <1>2 DEF Crash

\* The end of the process ends every call; there is none in the middle of a deletion.
LEMMA CrashKeeps ==
    ASSUME RepositoriesAssumption, Deployment, Inv, Crash
    PROVE  Inv'
<1>0. TypeOK /\ StoreTypes /\ CallTypes /\ NetInv
  BY TypesSplit DEF Inv
<1>1. (\A j \in Job : pc'[j] = "idle") /\ UNCHANGED store
  BY CrashKeepsStore DEF Crash
<1>2. TypeOK'
  <2>1. CallTypes'
    <3>1. NoUpdate \in Update /\ NoRefs \in [Ref -> Value]
      BY DEF NoUpdate, Update, NoRefs, Value
    <3> QED
      BY <1>0, <3>1 DEF CallTypes, Crash
  <2>2. StoreTypes'
    BY <1>0, <1>1 DEF StoreTypes, Crash, store
  <2> QED
    BY <2>1, <2>2 DEF StoreTypes, CallTypes, TypeOK, Update, Kinds
<1>3. NetInv'
  <2>1. \A i \in Id : ~Deleting(i)
    BY DEF Crash, Deployment, Deleting
  <2> QED
    BY <1>0, <1>1, <2>1 DEF NetInv, Crash, store, Reads
<1>4. ApartInv' /\ \A j \in Job : JobInv(j)'
  BY <1>1 DEF ApartInv, JobInv
<1> QED
  BY <1>2, <1>3, <1>4 DEF Inv

LEMMA CallStepKeeps ==
    ASSUME RepositoriesAssumption, Deployment, Inv, NEW j \in Job, CallStep(j)
    PROVE  Inv'
<1>1. CASE ForkTarget(j)
  BY <1>1, ForkTargetKeeps
<1>2. CASE ForkRoot(j)
  BY <1>2, ForkRootKeeps
<1>3. CASE InsertRepo(j)
  BY <1>3, InsertRepoKeeps
<1>4. CASE LinkFork(j)
  BY <1>4, LinkForkKeeps
<1>5. CASE CopyRefs(j)
  BY <1>5, CopyRefsKeeps
<1>6. CASE \E r \in Ref : PutRef(j, r) \/ PutHead(j, r)
  BY <1>6, PutRefKeeps, PutHeadKeeps
<1>7. CASE DeleteRows(j)
  BY <1>7, DeleteRowsKeeps
<1>8. CASE \E n \in 1..4 : DeleteTable(j, n)
  BY <1>8, DeleteTableKeeps
<1>9. CASE Ingest(j)
  BY <1>9, IngestKeeps
<1>10. CASE Swap(j)
  BY <1>10, PushEndKeeps DEF Swap
<1>11. CASE SwapLooks(j)
  BY <1>11, SwapLooksKeeps
<1>12. CASE SwapInserts(j)
  BY <1>12, PushEndKeeps DEF SwapInserts
<1>13. CASE \E f \in Id : GcFork(j, f)
  BY <1>13, GcForkKeeps
<1>14. CASE GcWalk(j)
  BY <1>14, GcWalkKeeps
<1>15. CASE GcRecheck(j)
  BY <1>15, GcRecheckKeeps
<1>16. CASE GcDelete(j)
  BY <1>16, GcDeleteKeeps
<1> QED
  BY <1>1, <1>2, <1>3, <1>4, <1>5, <1>6, <1>7, <1>8, <1>9, <1>10, <1>11, <1>12, <1>13,
     <1>14, <1>15, <1>16 DEF CallStep

LEMMA InitInv ==
    ASSUME RepositoriesAssumption, Init
    PROVE  Inv
<1>1. Root \in Object /\ Reachable({Root}) = Closure[Root] /\ Closure[Root] \in SUBSET Object
  BY ClosureIn DEF RepositoriesAssumption, Reachable
<1>2. TypeOK
  <2>1. CallTypes
    <3>1. NoUpdate \in Update /\ NoRefs \in [Ref -> Value]
      BY DEF NoUpdate, Update, NoRefs, Value
    <3> QED
      BY <3>1 DEF Init, CallTypes, RepositoriesAssumption, Kinds
  <2>2. StoreTypes
    BY <1>1 DEF Init, StoreTypes, RepositoriesAssumption, Value
  <2> QED
    BY <2>1, <2>2, TypesSplit
<1>3. NetInv
  <2>1. \A i \in repos : Held(refs[i], Reads(i))
    BY <1>1 DEF Init, Held, Reads, RepositoriesAssumption
  <2> QED
    BY <2>1 DEF Init, NetInv, NoRefs
<1>4. ApartInv /\ \A j \in Job : JobInv(j)
  BY DEF Init, ApartInv, JobInv
<1> QED
  BY <1>2, <1>3, <1>4 DEF Inv

LEMMA InvStays ==
    ASSUME RepositoriesAssumption, Deployment, Inv, [Next]_vars
    PROVE  Inv'
<1>1. CASE Next
  BY <1>1, CrashKeeps, CallBeginsKeeps, CallStepKeeps DEF Next
<1>2. CASE UNCHANGED vars
  BY <1>2 DEF vars, store, locals, Inv, TypeOK, NetInv, ApartInv, JobInv, ForkInv, PushInv,
              GcInv, DeleteInv, CreateInv, Deleting, Reads, Forks, RootOf, Held, Values
<1> QED
  BY <1>1, <1>2

LEMMA InvHolds ==
    ASSUME RepositoriesAssumption, Deployment
    PROVE  Spec => []Inv
<1>1. Init => Inv
  BY InitInv
<1>2. Inv /\ [Next]_vars => Inv'
  BY InvStays
<1> QED
  BY <1>1, <1>2, PTL DEF Spec

\* forkRepo, deleteRepo, pushes and collections of a root and of its forks: where a
\* deployment keeps them apart as Deployment says, every repository reads all that its refs
\* reach, on every backend, and no fork hangs on a fork or on nothing.
THEOREM NetworkStaysReadable ==
    ASSUME RepositoriesAssumption, Deployment
    PROVE  Spec => [](TypeOK /\ ForksReadable)
<1>1. Inv => TypeOK /\ ForksReadable
  <2> SUFFICES ASSUME Inv PROVE TypeOK /\ ForksReadable
    OBVIOUS
  <2>1. \A i \in repos : i \in Id /\ refs[i] \in [Ref -> Value]
    BY DEF Inv, TypeOK
  <2> QED
    BY <2>1, HeldIsReach DEF Inv, NetInv, ForksReadable, FlatNetwork
<1> QED
  BY <1>1, InvHolds, PTL

-------------------------------------------------------------------------------
(* What a step may not do.                                                 *)

\* A call moves itself only.
LEMMA MovesItself ==
    ASSUME CallTypes, NEW j \in Job, CallBegins(j) \/ CallStep(j), NEW k \in Job \ {j}
    PROVE  pc'[k] = pc[k]
<1>1. ASSUME NEW p, Goto(j, p) PROVE pc'[k] = pc[k]
  BY <1>1 DEF Goto, CallTypes
<1>2. ASSUME End(j) PROVE pc'[k] = pc[k]
  BY <1>2, <1>1 DEF End
<1>3. CASE CallBegins(j)
  BY <1>3, <1>1 DEF CallBegins, CreateRepo, DeleteRepo, Gc, ForkRepo, Push, Begin
<1>4. CASE ForkTarget(j) \/ ForkRoot(j) \/ InsertRepo(j) \/ LinkFork(j) \/ CopyRefs(j)
  BY <1>4, <1>1, <1>2 DEF ForkTarget, ForkRoot, InsertRepo, LinkFork, CopyRefs
<1>5. CASE \E r \in Ref : PutRef(j, r) \/ PutHead(j, r)
  BY <1>5, <1>2 DEF PutRef, PutHead
<1>6. CASE DeleteRows(j) \/ \E n \in 1..4 : DeleteTable(j, n)
  BY <1>6, <1>2 DEF DeleteRows, DeleteTable
<1>7. CASE Ingest(j) \/ Swap(j) \/ SwapLooks(j) \/ SwapInserts(j)
  BY <1>7, <1>1, <1>2 DEF Ingest, Swap, SwapLooks, SwapInserts
<1>8. CASE GcWalk(j) \/ GcRecheck(j) \/ GcDelete(j) \/ \E f \in Id : GcFork(j, f)
  BY <1>8, <1>1, <1>2 DEF GcWalk, GcRecheck, GcDelete, GcFork
<1> QED
  BY <1>3, <1>4, <1>5, <1>6, <1>7, <1>8 DEF CallStep

\* Of the steps of a call that swaps, those that move a ref.
LEMMA SwapsOnly ==
    ASSUME NEW j \in Job, CallBegins(j) \/ CallStep(j), pc[j] \in {"swap", "insertRef"}
    PROVE  Swap(j) \/ SwapLooks(j) \/ SwapInserts(j)
<1>1. ~CallBegins(j)
  BY DEF CallBegins, CreateRepo, DeleteRepo, Gc, ForkRepo, Push, Begin
<1> QED
  BY <1>1 DEF CallStep, ForkTarget, ForkRoot, InsertRepo, LinkFork, CopyRefs, PutRef, PutHead,
              DeleteRows, DeleteTable, Ingest, GcFork, GcWalk, GcRecheck, GcDelete

\* Only the insertion of its row makes a repository.
LEMMA InsertsOnly ==
    ASSUME NEW j \in Job, CallBegins(j) \/ CallStep(j)
    PROVE  InsertRepo(j) \/ repos' \subseteq repos
<1>1. CASE CallBegins(j)
  BY <1>1 DEF CallBegins, CreateRepo, DeleteRepo, Gc, ForkRepo, Push, Begin, store
<1>2. CASE CallStep(j)
  BY <1>2 DEF CallStep, ForkTarget, ForkRoot, LinkFork, CopyRefs, PutRef, PutHead,
              DeleteRows, DeleteTable, Cleared, Ingest, Swap, SwapLooks, SwapInserts,
              GcFork, GcWalk, GcRecheck, GcDelete, store
<1> QED
  BY <1>1, <1>2

\* compareAndSwapRef and deleteRepo: a branch moves only from the value that the push
\* expected (in Postgres a branch that is there), and a name that comes into existence has no
\* objects, refs or parent of an earlier repository, though Postgres deletes table by table.
THEOREM SwapsSeeExpected ==
    ASSUME RepositoriesAssumption, Deployment
    PROVE  Spec => SwapSeesExpected
<1>1. Inv /\ [Next]_vars => MovesExpected /\ BornEmpty
  <2> SUFFICES ASSUME Inv, [Next]_vars PROVE MovesExpected /\ BornEmpty
    OBVIOUS
  <2>1. TypeOK /\ CallTypes /\ StoreTypes
    BY TypesSplit DEF Inv
  <2>2. ASSUME NEW j \in Job, NEW r \in Ref, Moves(j, r), backend = "pg" => upd[j].old # None
        PROVE  refs[id[j]][r] = upd[j].old
    <3>1. refs' # refs /\ pc'[j] # pc[j] /\ pc[j] \in {"swap", "insertRef"} /\ upd[j].ref = r
      BY <2>2 DEF Moves
    <3>2. CallBegins(j) \/ CallStep(j)
      BY <2>1, <3>1, MovesItself, CrashKeepsStore DEF Next, store, vars
    <3>3. Swap(j)
      BY <3>1, <3>2, <2>2, SwapsOnly DEF SwapLooks, SwapInserts, store, Inv, JobInv, PushInv
    <3> QED
      BY <3>1, <3>3 DEF Swap
  <2>3. ASSUME NEW i \in repos' \ repos
        PROVE  objs'[i] = {} /\ refs'[i] = NoRefs /\ parent'[i] = None
    <3>1. PICK j \in Job : InsertRepo(j)
      BY <2>3, InsertsOnly, CrashKeepsStore DEF Next, store, vars
    <3>2. i = id[j] /\ UNCHANGED <<objs, refs, parent>> /\ pc[j] = "insert"
      BY <2>3, <3>1 DEF InsertRepo, store
    <3>3. i \in Id
      BY <3>2 DEF Inv, JobInv, ForkInv, CreateInv
    <3>4. ~Deleting(i)
      BY <3>2, <3>3, NoneDeletes
    <3> QED
      BY <2>3, <3>2, <3>3, <3>4 DEF Inv, NetInv
  <2> QED
    BY <2>2, <2>3 DEF MovesExpected, BornEmpty
<1> QED
  BY <1>1, InvHolds, PTL DEF Spec, SwapSeesExpected
===============================================================================
