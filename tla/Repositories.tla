------------------------------ MODULE Repositories ----------------------------
(***************************************************************************)
(* The repositories of a server and their forks, on the tables of a        *)
(* storage backend: git_repos, git_objects, git_refs and git_forks.  A     *)
(* fork has refs of its own and reads objects from its own partition and   *)
(* from the root's.  Calls to create, fork, push to, collect and delete    *)
(* repositories run beside one another and wait for the backend at each    *)
(* step.                                                                   *)
(***************************************************************************)
EXTENDS GitObjects, Naturals, FiniteSets

CONSTANTS
    None,
    Id,             \* names of repositories
    Ref,            \* branches
    Job,            \* calls that may be under way at a time
    MaxCalls,       \* bound: how many calls there are
    Backends,       \* kinds of storage: "memory", "sqlite", "pg"
    Apart,          \* sets of kinds of calls that do not run beside one another
    Origin, Main, Root, \* the repository there is at first, its branch and commit
    Pushed,         \* repositories that are pushed to
    Nested,         \* may a fork be forked that is pushed to
    CutDeletes      \* may the process end in the middle of deleting a repository

Value == Object \cup {None}
NoRefs == [r \in Ref |-> None]

Kinds == {"create", "delete", "fork", "push", "gc"}

RepositoriesAssumption ==
    /\ Backends \subseteq {"memory", "sqlite", "pg"}
    /\ Apart \subseteq SUBSET Kinds
    /\ Pushed \subseteq Id /\ Nested \in BOOLEAN
    /\ Origin \in Id /\ Main \in Ref /\ Root \in Object
    /\ MaxCalls \in Nat /\ CutDeletes \in BOOLEAN
    /\ None \notin Object \cup Id

\* What a deployment has to keep apart: deletions from creations, forks and pushes,
\* collections from forks and pushes, and forks from each other; deletions are not cut off;
\* and a fork that is pushed to is not forked.  Nothing in the code sees to it.
Deployment ==
    /\ {{"delete", "create"}, {"delete", "fork"}, {"delete", "push"},
        {"gc", "fork"}, {"gc", "push"}, {"fork"}} \subseteq Apart
    /\ ~CutDeletes /\ ~Nested

VARIABLES
    backend,        \* the storage in use
    repos,          \* git_repos
    objs, refs,     \* git_objects and the direct refs of git_refs
    head,           \* the symbolic HEAD of git_refs
    parent,         \* git_forks
    pc, kind,       \* where each call is, and what it is
    id, src,        \* the repository it is about; of a fork, the source, then the root
    upd,            \* of a push: ref, expected old value and new value
    copy,           \* refs read from elsewhere: to be copied, or the tips of a collection
    doomed,         \* objects a collection will delete
    todo,           \* forks or tables it has still to go through
    calls

store == <<repos, objs, refs, head, parent>>
locals == <<kind, id, src, upd, copy, doomed, todo>>
vars == <<backend, store, pc, locals, calls>>

Table == {"repos", "objects", "refs", "forks"}
NoUpdate == [ref |-> None, old |-> None, new |-> None]

Values(m) == {m[r] : r \in Ref} \ {None}
Forks(i) == {f \in Id : parent[f] = i}
\* AdaptedObjectStore: a repository reads its own partition, then its parent's.
Reads(i) == objs[i] \cup IF parent[i] = None THEN {} ELSE objs[parent[i]]

Init ==
    /\ backend \in Backends
    /\ repos = {Origin}
    /\ objs = [i \in Id |-> IF i = Origin THEN Reachable({Root}) ELSE {}]
    /\ refs = [i \in Id |-> [r \in Ref |-> IF i = Origin /\ r = Main THEN Root ELSE None]]
    /\ head = [i \in Id |-> IF i = Origin THEN Main ELSE None]
    /\ parent = [i \in Id |-> None]
    /\ pc = [j \in Job |-> "idle"] /\ kind = [j \in Job |-> "create"]
    /\ id = [j \in Job |-> None] /\ src = [j \in Job |-> None]
    /\ upd = [j \in Job |-> NoUpdate] /\ copy = [j \in Job |-> NoRefs]
    /\ doomed = [j \in Job |-> {}] /\ todo = [j \in Job |-> {}]
    /\ calls = 0

Goto(j, p) == pc' = [pc EXCEPT ![j] = p]

\* The call of j returns or throws.
End(j) ==
    /\ Goto(j, "idle")
    /\ id' = [id EXCEPT ![j] = None] /\ src' = [src EXCEPT ![j] = None]
    /\ upd' = [upd EXCEPT ![j] = NoUpdate] /\ copy' = [copy EXCEPT ![j] = NoRefs]
    /\ doomed' = [doomed EXCEPT ![j] = {}] /\ todo' = [todo EXCEPT ![j] = {}]
    /\ UNCHANGED kind

-------------------------------------------------------------------------------
(* Calls begin with a look at the repository; one that finds what it does  *)
(* not want throws and changes nothing.                                    *)

MayBegin(k) == \A j \in Job : pc[j] # "idle" => {k, kind[j]} \notin Apart

Begin(j, k, i, p) ==
    /\ pc[j] = "idle" /\ calls < MaxCalls /\ MayBegin(k)
    /\ kind' = [kind EXCEPT ![j] = k] /\ id' = [id EXCEPT ![j] = i]
    /\ Goto(j, p)
    /\ calls' = calls + 1
    /\ UNCHANGED <<backend, store, copy, doomed>>

CreateRepo(j, i) ==
    /\ i \notin repos
    /\ Begin(j, "create", i, "insert")
    /\ UNCHANGED <<src, upd, todo>>

\* Two reads: the source is there, the target is not.  (Without Nested, a fork is
\* forked only where nothing is pushed to it.)
ForkRepo(j, s, i) ==
    /\ s \in repos
    /\ ~Nested => parent[s] = None \/ s \notin Pushed
    /\ Begin(j, "fork", i, "target")
    /\ src' = [src EXCEPT ![j] = s]
    /\ UNCHANGED <<upd, todo>>

DeleteRepo(j, i) ==
    /\ Forks(i) = {}
    /\ Begin(j, "delete", i, "delete")
    /\ todo' = [todo EXCEPT ![j] = Table]
    /\ UNCHANGED <<src, upd>>

\* A push, in brief: ReceivePack has the whole of it.
Push(j, i, r, v) ==
    /\ i \in repos \cap Pushed /\ v # refs[i][r] /\ Parents[v] \subseteq Values(refs[i])
    /\ Begin(j, "push", i, "ingest")
    /\ upd' = [upd EXCEPT ![j] = [ref |-> r, old |-> refs[i][r], new |-> v]]
    /\ UNCHANGED <<src, todo>>

\* server.gc: of a root, the forks are listed.
Gc(j, i) ==
    /\ i \in repos
    /\ Begin(j, "gc", i, "tips")
    /\ todo' = [todo EXCEPT ![j] = IF parent[i] = None THEN Forks(i) ELSE {}]
    /\ UNCHANGED <<src, upd>>

-------------------------------------------------------------------------------
(* createRepo and forkRepo.                                                *)

ForkTarget(j) ==
    /\ pc[j] = "target"
    /\ IF id[j] \in repos THEN End(j) ELSE (Goto(j, "root") /\ UNCHANGED locals)
    /\ UNCHANGED <<backend, store, calls>>

\* (Mutant: a fork of a fork hangs on the fork.)
ForkRoot_source(j) ==
    /\ pc[j] = "root"
    /\ upd' = [upd EXCEPT ![j].old = src[j]]
    /\ Goto(j, "insert")
    /\ UNCHANGED <<backend, store, kind, id, src, copy, doomed, todo, calls>>

\* The root of the network is what the fork will hang on (it is kept in upd).
ForkRoot(j) ==
    /\ pc[j] = "root"
    /\ upd' = [upd EXCEPT ![j].old = IF parent[src[j]] = None THEN src[j] ELSE parent[src[j]]]
    /\ Goto(j, "insert")
    /\ UNCHANGED <<backend, store, kind, id, src, copy, doomed, todo, calls>>

\* A table with a primary key refuses a second row; the set in memory does not.
InsertRepo(j) ==
    /\ pc[j] = "insert"
    /\ IF id[j] \in repos /\ backend # "memory" THEN (End(j) /\ UNCHANGED store)
       ELSE /\ repos' = repos \cup {id[j]}
            /\ Goto(j, IF kind[j] = "fork" THEN "link" ELSE "head")
            /\ UNCHANGED <<objs, refs, head, parent, locals>>
    /\ UNCHANGED <<backend, calls>>

LinkFork(j) ==
    /\ pc[j] = "link"
    /\ IF parent[id[j]] # None /\ backend # "memory" THEN (End(j) /\ UNCHANGED parent)
       ELSE /\ parent' = [parent EXCEPT ![id[j]] = upd[j].old]
            /\ Goto(j, "list") /\ UNCHANGED locals
    /\ UNCHANGED <<backend, repos, objs, refs, head, calls>>

\* The refs of the source are listed once, and put one by one.
CopyRefs(j) ==
    /\ pc[j] = "list"
    /\ copy' = [copy EXCEPT ![j] = refs[src[j]]]
    /\ Goto(j, "put")
    /\ UNCHANGED <<backend, store, kind, id, src, upd, doomed, todo, calls>>

PutRef(j, r) ==
    /\ pc[j] = "put" /\ copy[j][r] # None
    /\ refs' = [refs EXCEPT ![id[j]][r] = copy[j][r]]
    /\ copy' = [copy EXCEPT ![j][r] = None]
    /\ UNCHANGED <<backend, repos, objs, head, parent, pc, kind, id, src, upd, doomed, todo, calls>>

\* HEAD is the default branch, or a copy of the source's.
PutHead(j, r) ==
    /\ \/ pc[j] = "head"
       \/ pc[j] = "put" /\ copy[j] = NoRefs
    /\ head' = [head EXCEPT ![id[j]] = IF kind[j] = "fork" /\ head[src[j]] # None
                                       THEN head[src[j]] ELSE r]
    /\ End(j)
    /\ UNCHANGED <<backend, repos, objs, refs, parent, calls>>

-------------------------------------------------------------------------------
(* Storage.deleteRepo: rows of four tables, in this order.                 *)

Tables == <<"repos", "objects", "refs", "forks">>

Cleared(i, gone) ==
    /\ repos' = IF "repos" \in gone THEN repos \ {i} ELSE repos
    /\ objs' = IF "objects" \in gone THEN [objs EXCEPT ![i] = {}] ELSE objs
    /\ refs' = IF "refs" \in gone THEN [refs EXCEPT ![i] = NoRefs] ELSE refs
    /\ head' = IF "refs" \in gone THEN [head EXCEPT ![i] = None] ELSE head
    /\ parent' = IF "forks" \in gone THEN [parent EXCEPT ![i] = None] ELSE parent

\* (Mutant: the rows of git_refs stay.)
DeleteRows_keepsRefs(j) ==
    /\ pc[j] = "delete" /\ backend # "pg"
    /\ Cleared(id[j], {"repos", "objects", "forks"})
    /\ End(j)
    /\ UNCHANGED <<backend, calls>>

\* Without an await in between no other call sees the four apart.
DeleteRows(j) ==
    /\ pc[j] = "delete" /\ backend # "pg"
    /\ Cleared(id[j], Table)
    /\ End(j)
    /\ UNCHANGED <<backend, calls>>

\* Postgres: four statements, each waited for, in no transaction.
DeleteTable(j, n) ==
    /\ pc[j] = "delete" /\ backend = "pg"
    /\ Tables[n] \in todo[j] /\ \A m \in 1..n - 1 : Tables[m] \notin todo[j]
    /\ Cleared(id[j], {Tables[n]})
    /\ IF n = 4 THEN End(j)
       ELSE /\ todo' = [todo EXCEPT ![j] = @ \ {Tables[n]}]
            /\ UNCHANGED <<pc, kind, id, src, upd, copy, doomed>>
    /\ UNCHANGED <<backend, calls>>

\* SQLite commits each of the four on its own: a deletion that the end of the process
\* cuts off has cleared the first of them (Postgres' are gone one by one anyway).
CutOff(j) ==
    IF pc[j] = "delete" /\ backend = "sqlite" THEN {{Tables[m] : m \in 1..n} : n \in 0..4} ELSE {{}}

\* The process ends, and every call with it; what is stored stays.
Crash ==
    /\ backend # "memory"
    /\ CutDeletes \/ \A j \in Job : pc[j] # "delete"
    /\ \E j \in Job : pc[j] # "idle" /\ \E gone \in CutOff(j) : Cleared(id[j], gone)
    /\ pc' = [j \in Job |-> "idle"]
    /\ id' = [j \in Job |-> None] /\ src' = [j \in Job |-> None]
    /\ upd' = [j \in Job |-> NoUpdate] /\ copy' = [j \in Job |-> NoRefs]
    /\ doomed' = [j \in Job |-> {}] /\ todo' = [j \in Job |-> {}]
    /\ UNCHANGED <<backend, kind, calls>>

-------------------------------------------------------------------------------
(* Pushes.                                                                 *)

Ingest(j) ==
    /\ pc[j] = "ingest"
    /\ objs' = [objs EXCEPT ![id[j]] =
                  @ \cup Missing({upd[j].new}, Values(refs[id[j]]))]
    /\ Goto(j, "swap")
    /\ UNCHANGED <<backend, repos, refs, head, parent, locals, calls>>

\* (Mutant: the new value is put without a look at the old one.)
Swap_blind(j) ==
    /\ pc[j] = "swap" /\ backend # "pg"
    /\ refs' = [refs EXCEPT ![id[j]][upd[j].ref] = upd[j].new]
    /\ End(j)
    /\ UNCHANGED <<backend, repos, objs, head, parent, calls>>

\* compareAndSwapRef in atomicRefUpdate: the look and the write are one step.
\* Postgres locks the row it looks at (FOR UPDATE), which there must be.
Swap(j) ==
    /\ pc[j] = "swap" /\ (backend = "pg" => refs[id[j]][upd[j].ref] # None)
    /\ refs' = IF refs[id[j]][upd[j].ref] = upd[j].old
               THEN [refs EXCEPT ![id[j]][upd[j].ref] = upd[j].new] ELSE refs
    /\ End(j)
    /\ UNCHANGED <<backend, repos, objs, head, parent, calls>>

\* Where there is no row nothing is locked; the insertion that follows updates
\* on conflict (refWrite).
SwapLooks(j) ==
    /\ pc[j] = "swap" /\ backend = "pg" /\ refs[id[j]][upd[j].ref] = None
    /\ IF upd[j].old = None THEN (Goto(j, "insertRef") /\ UNCHANGED locals) ELSE End(j)
    /\ UNCHANGED <<backend, store, calls>>

SwapInserts(j) ==
    /\ pc[j] = "insertRef"
    /\ refs' = [refs EXCEPT ![id[j]][upd[j].ref] = upd[j].new]
    /\ End(j)
    /\ UNCHANGED <<backend, repos, objs, head, parent, calls>>

-------------------------------------------------------------------------------
(* server.gc and gcRepo; GitServer has each step of gcRepo for itself.     *)

\* The tips of one fork.  A fork that is gone by now is passed over.
GcFork(j, f) ==
    /\ pc[j] = "tips" /\ f \in todo[j]
    /\ doomed' = [doomed EXCEPT ![j] = @ \cup IF f \in repos THEN Values(refs[f]) ELSE {}]
    /\ todo' = [todo EXCEPT ![j] = @ \ {f}]
    /\ UNCHANGED <<backend, store, pc, kind, id, src, upd, copy, calls>>

\* Snapshot and walk, with the tips of the forks (kept in doomed until now).
\* The walk reads as the repository reads and throws on what it cannot find: of
\* a root, that is all that a fork has committed to its own partition.
GcWalk(j) ==
    /\ pc[j] = "tips" /\ todo[j] = {}
    /\ LET found == Reachable(Values(refs[id[j]]) \cup doomed[j])
       IN IF found = {} \/ ~found \subseteq Reads(id[j]) THEN End(j)
          ELSE /\ copy' = [copy EXCEPT ![j] = refs[id[j]]]
               /\ doomed' = [doomed EXCEPT ![j] = objs[id[j]] \ found]
               /\ Goto(j, "recheck")
               /\ UNCHANGED <<kind, id, src, upd, todo>>
    /\ UNCHANGED <<backend, store, calls>>

GcRecheck(j) ==
    /\ pc[j] = "recheck"
    /\ IF refs[id[j]] = copy[j] /\ doomed[j] # {} THEN (Goto(j, "collect") /\ UNCHANGED locals)
       ELSE End(j)
    /\ UNCHANGED <<backend, store, calls>>

GcDelete(j) ==
    /\ pc[j] = "collect"
    /\ objs' = [objs EXCEPT ![id[j]] = @ \ doomed[j]]
    /\ End(j)
    /\ UNCHANGED <<backend, repos, refs, head, parent, calls>>

-------------------------------------------------------------------------------
CallBegins(j) ==
    \E i \in Id :
        \/ CreateRepo(j, i) \/ DeleteRepo(j, i) \/ Gc(j, i)
        \/ \E s \in Id : ForkRepo(j, s, i)
        \/ \E r \in Ref, v \in Object : Push(j, i, r, v)

CallStep(j) ==
    \/ ForkTarget(j) \/ ForkRoot(j) \/ InsertRepo(j) \/ LinkFork(j) \/ CopyRefs(j)
    \/ \E r \in Ref : PutRef(j, r) \/ PutHead(j, r)
    \/ DeleteRows(j)
    \/ \E n \in 1..4 : DeleteTable(j, n)
    \/ Ingest(j) \/ Swap(j) \/ SwapLooks(j) \/ SwapInserts(j)
    \/ \E f \in Id : GcFork(j, f)
    \/ GcWalk(j) \/ GcRecheck(j) \/ GcDelete(j)

Next == Crash \/ \E j \in Job : CallBegins(j) \/ CallStep(j)

Spec == Init /\ [][Next]_vars

-------------------------------------------------------------------------------
(* Properties.                                                             *)

TypeOK ==
    /\ backend \in Backends /\ repos \subseteq Id
    /\ objs \in [Id -> SUBSET Object] /\ refs \in [Id -> [Ref -> Value]]
    /\ head \in [Id -> Ref \cup {None}] /\ parent \in [Id -> Id \cup {None}]
    /\ pc \in [Job -> {"idle", "target", "root", "insert", "link", "list", "put", "head",
                       "delete", "ingest", "swap", "insertRef", "tips", "recheck", "collect"}]
    /\ kind \in [Job -> {"create", "delete", "fork", "push", "gc"}]
    /\ id \in [Job -> Id \cup {None}] /\ src \in [Job -> Id \cup {None}]
    /\ upd \in [Job -> [ref : Ref \cup {None}, old : Value \cup Id, new : Value]]
    /\ copy \in [Job -> [Ref -> Value]] /\ doomed \in [Job -> SUBSET Object]
    /\ todo \in [Job -> SUBSET (Id \cup Table)] /\ calls \in 0..MaxCalls

\* The network is flat: what a fork reads from is there, and is no fork itself.
FlatNetwork ==
    \A i \in repos : parent[i] # None => parent[i] \in repos /\ parent[parent[i]] = None

\* Every repository can read all that its refs reach, a fork with the help of
\* its root, through pushes, collections and deletions on both sides.
ForksReadable ==
    /\ FlatNetwork
    /\ \A i \in repos : Reachable(Values(refs[i])) \subseteq Reads(i)

Moves(j, r) ==
    /\ kind[j] = "push" /\ pc[j] \in {"swap", "insertRef"} /\ pc'[j] = "idle"
    /\ upd[j].ref = r /\ refs'[id[j]] # refs[id[j]]

\* Of pushes to one ref only the one that saw its value moves it: a branch that
\* is there moves from the value the push expected, in every backend.
MovesExpected ==
    \A j \in Job, r \in Ref :
       Moves(j, r) /\ (backend = "pg" => upd[j].old # None)
       => refs[id[j]][r] = upd[j].old

\* A name that comes into existence has nothing from an earlier life.
BornEmpty ==
    \A i \in repos' \ repos :
       objs'[i] = {} /\ refs'[i] = NoRefs /\ parent'[i] = None

\* A repository begins empty, and its branches move from expected values.
SwapSeesExpected == [][MovesExpected /\ BornEmpty]_vars
===============================================================================
