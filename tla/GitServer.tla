------------------------------- MODULE GitServer ------------------------------
(***************************************************************************)
(* One repository under all of its writers: the pushes of ReceivePack, the *)
(* in-process calls server.commit and server.updateRefs, which swap refs   *)
(* without hooks, and server.gc, which deletes objects no ref reaches.     *)
(* They share nothing but the storage backend: there is no lock.           *)
(***************************************************************************)
EXTENDS ReceivePack, Naturals

CONSTANTS
    CommitJob,      \* calls of server.commit
    NewCommits,     \* [CommitJob -> SUBSET Object]: commits the call may build
    UpdateJob,      \* calls of server.updateRefs
    UpdateTips,     \* hashes a caller of updateRefs may ask for
    MaxGc,          \* bound: how often server.gc is called
    GcAlone         \* does the deployment keep writers away from gc (see Busy)

Job == CommitJob \cup UpdateJob

ServerAssumption ==
    /\ CommitJob \cap UpdateJob = {}
    /\ NewCommits \in [CommitJob -> SUBSET Object]
    /\ UpdateTips \subseteq Object
    /\ MaxGc \in Nat
    /\ GcAlone \in BOOLEAN
    /\ Closed(InitObjs)                             \* the store begins complete
    /\ \A o \in Object : o \notin Reachable(Points[o]) \* a hash is made after what it names

VARIABLES
    jpc,        \* where each in-process call is
    jold, jnew, \* its ref updates: [Ref -> from what, to what], Skip elsewhere
    jobjs,      \* objects buildCommit has still to write
    jrefs,      \* refs the loop it is in has not finished
    jchecked,   \* the ref whose new value was found, about to be swapped
    jok,        \* refs it moved
    gcPc,       \* where the collector is
    gcRefs,     \* beforeRefs
    gcLive,     \* reachable
    gcDoomed,   \* unreachable
    gcRuns      \* calls made so far

jobVars == <<jpc, jold, jnew, jobjs, jrefs, jchecked, jok>>
gcVars == <<gcPc, gcRefs, gcLive, gcDoomed, gcRuns>>
allVars == <<vars, jobVars, gcVars>>

Tipset(m) == {m[r] : r \in DOMAIN m} \ {None}
JobRefs(j) == {r \in Ref : jnew[j][r] # Skip}
Returned(j) == jpc[j] = "apply" /\ jrefs[j] = {}

ServerInit ==
    /\ Init
    /\ jpc = [j \in Job |-> "idle"]
    /\ jold = [j \in Job |-> NoCommand]
    /\ jnew = [j \in Job |-> NoCommand]
    /\ jobjs = [j \in Job |-> {}]
    /\ jrefs = [j \in Job |-> {}]
    /\ jchecked = [j \in Job |-> None]
    /\ jok = [j \in Job |-> {}]
    /\ gcPc = "idle"
    /\ gcRefs = InitRefs
    /\ gcLive = {}
    /\ gcDoomed = {}
    /\ gcRuns = 0

-------------------------------------------------------------------------------
(* server.commit                                                           *)

\* buildCommit resolves the branch and reads its commit: a new commit names the
\* value seen here as its only parent.
CommitRead(j, r, n) ==
    /\ jpc[j] = "idle"
    /\ Parents[n] = IF refs[r] = None THEN {} ELSE {refs[r]}
    /\ refs[r] # None => refs[r] \in objs
    /\ jold' = [jold EXCEPT ![j][r] = refs[r]]
    /\ jnew' = [jnew EXCEPT ![j][r] = n]
    /\ jobjs' = [jobjs EXCEPT ![j] = Missing({n}, Parents[n])]
    /\ jpc' = [jpc EXCEPT ![j] = "write"]
    /\ UNCHANGED <<objs, refs, jrefs, jchecked, jok>>

\* writeObject, one object at a time, blobs before the trees and the commit
\* that name them.
CommitWrite(j, o) ==
    /\ jpc[j] = "write"
    /\ o \in jobjs[j] /\ Points[o] \cap jobjs[j] = {}
    /\ PutObjects({o})
    /\ jobjs' = [jobjs EXCEPT ![j] = @ \ {o}]
    /\ IF jobjs[j] = {o}
       THEN /\ jpc' = [jpc EXCEPT ![j] = "apply"]
            /\ jrefs' = [jrefs EXCEPT ![j] = JobRefs(j)]
       ELSE UNCHANGED <<jpc, jrefs>>
    /\ UNCHANGED <<refs, jold, jnew, jchecked, jok>>

(* server.updateRefs                                                       *)

UpdateCall(j, c) ==
    /\ jpc[j] = "idle"
    /\ \E r \in Ref : c[r] # Skip
    /\ jnew' = [jnew EXCEPT ![j] = c]
    /\ jrefs' = [jrefs EXCEPT ![j] = {r \in Ref : c[r] # Skip}]
    /\ jpc' = [jpc EXCEPT ![j] = "resolve"]
    /\ UNCHANGED <<objs, refs, jold, jobjs, jchecked, jok>>

\* resolveRefUpdates: the caller names the old value of a ref, or the current
\* one is read; nothing checks ancestry or policy.
UpdateResolve(j, r, old) ==
    /\ jpc[j] = "resolve" /\ r \in jrefs[j]
    /\ jold' = [jold EXCEPT ![j][r] = old]
    /\ IF jrefs[j] = {r}
       THEN /\ jpc' = [jpc EXCEPT ![j] = "apply"]
            /\ jrefs' = [jrefs EXCEPT ![j] = JobRefs(j)]
       ELSE /\ jrefs' = [jrefs EXCEPT ![j] = @ \ {r}]
            /\ UNCHANGED jpc
    /\ UNCHANGED <<objs, refs, jnew, jobjs, jchecked, jok>>

(* applyCasRefUpdates, for both                                            *)

\* The name and the new value are looked at; a ref that fails is passed over.
\* (Deleting a ref that is absent is a creation of the zero hash: not found.)
JobCheck(j, r) ==
    /\ jpc[j] = "apply" /\ jchecked[j] = None /\ r \in jrefs[j]
    /\ IF r \in Unpushable
             \/ (IF jnew[j][r] = None THEN jold[j][r] = None ELSE jnew[j][r] \notin objs)
       THEN jrefs' = [jrefs EXCEPT ![j] = @ \ {r}] /\ UNCHANGED jchecked
       ELSE jchecked' = [jchecked EXCEPT ![j] = r] /\ UNCHANGED jrefs
    /\ UNCHANGED <<objs, refs, jpc, jold, jnew, jobjs, jok>>

JobSwap(j, r) ==
    /\ jchecked[j] = r
    /\ CasRef(r, jold[j][r], jnew[j][r])
    /\ jok' = [jok EXCEPT ![j] = @ \cup {r}]
    /\ jrefs' = [jrefs EXCEPT ![j] = @ \ {r}]
    /\ jchecked' = [jchecked EXCEPT ![j] = None]
    /\ UNCHANGED <<objs, jpc, jold, jnew, jobjs>>

\* "failed to lock", or the driver threw: server.commit throws, updateRefs
\* reports it.  Objects that buildCommit wrote stay behind.
JobSwapFails(j, r) ==
    /\ jchecked[j] = r
    /\ jrefs' = [jrefs EXCEPT ![j] = @ \ {r}]
    /\ jchecked' = [jchecked EXCEPT ![j] = None]
    /\ UNCHANGED <<objs, refs, jpc, jold, jnew, jobjs, jok>>

\* Without Overlap a call neither writes nor asks for what an unfinished push
\* has just inserted (and may still take back).
InFlight == UNION {ingested[q] : q \in {p \in Push : Unfinished(p)}}

CommitStep(j) ==
    \/ \E r \in Ref, n \in NewCommits[j] : CommitRead(j, r, n)
    \/ \E o \in (IF Overlap THEN Object ELSE Object \ InFlight) : CommitWrite(j, o)

UpdateStep(j) ==
    \/ \E c \in [Ref -> UpdateTips \cup {None, Skip}] : UpdateCall(j, c)
    \/ \E r \in Ref : \E old \in {refs[r], None} \cup Tipset(InitRefs) : UpdateResolve(j, r, old)

ApplyStep(j) ==
    \E r \in Ref :
        \/ /\ ~Overlap /\ jnew[j][r] \in Object => Closure[jnew[j][r]] \cap InFlight = {}
           /\ JobCheck(j, r)
        \/ JobSwap(j, r)
        \/ JobSwapFails(j, r)

JobStep(j) ==
    \/ j \in CommitJob /\ CommitStep(j)
    \/ j \in UpdateJob /\ UpdateStep(j)
    \/ ApplyStep(j)

-------------------------------------------------------------------------------
(* server.gc                                                               *)

\* Without GcAlone gc runs beside the writers, as the code lets it.  Keeping it
\* alone takes more than pausing pushes: a client that was shown the refs before
\* gc ran must not send its pack after it, as the pack leaves out what gc may
\* have deleted.
Busy ==
    \/ \E p \in Push : Unfinished(p) \/ pc[p] = "advertised"
    \/ \E j \in Job : jpc[j] # "idle" /\ ~Returned(j)

\* Snapshot the refs; a repository without refs is left alone.
GcStart ==
    /\ gcPc = "idle" /\ gcRuns < MaxGc
    /\ GcAlone => ~Busy
    /\ gcRuns' = gcRuns + 1
    /\ gcRefs' = refs
    /\ gcPc' = IF Tipset(refs) = {} THEN "idle" ELSE "walk"
    /\ UNCHANGED <<objs, refs, gcLive, gcDoomed>>

\* (Mutant: only the commits the refs name are kept.)
GcWalk_tipsOnly ==
    /\ gcPc = "walk"
    /\ gcLive' = Tipset(gcRefs)
    /\ gcPc' = "list"
    /\ UNCHANGED <<objs, refs, gcRefs, gcDoomed, gcRuns>>

\* enumerateObjects reads every object it reaches and throws on a missing one.
\* One step stands for all its reads: what they find depends on gcRefs and the
\* fixed graph alone, and only a roll-back could take any of it away meanwhile,
\* which it does not where packs do not overlap (RefsComplete).
GcWalk ==
    /\ gcPc = "walk"
    /\ LET found == Reachable(Tipset(gcRefs)) IN
         IF found \subseteq objs
         THEN gcLive' = found /\ gcPc' = "list"
         ELSE gcLive' = {} /\ gcPc' = "idle"
    /\ UNCHANGED <<objs, refs, gcRefs, gcDoomed, gcRuns>>

\* (Mutant: the listing is not compared with what was reached.)
GcList_everything ==
    /\ gcPc = "list"
    /\ gcDoomed' = objs
    /\ gcPc' = "recheck"
    /\ UNCHANGED <<objs, refs, gcRefs, gcLive, gcRuns>>

\* listObjectHashes: what is stored now but was not reached.
GcList ==
    /\ gcPc = "list"
    /\ gcDoomed' = objs \ gcLive
    /\ gcPc' = "recheck"
    /\ UNCHANGED <<objs, refs, gcRefs, gcLive, gcRuns>>

\* (Mutant: refsMatch compares the names of the refs and not their values.)
GcRecheck_namesOnly ==
    /\ gcPc = "recheck"
    /\ \/ /\ \A r \in Ref : (refs[r] = None) = (gcRefs[r] = None)
          /\ gcDoomed # {} /\ gcPc' = "delete" /\ UNCHANGED gcDoomed
       \/ gcPc' = "idle" /\ gcDoomed' = {}
    /\ UNCHANGED <<objs, refs, gcRefs, gcLive, gcRuns>>

\* The refs are read again; any difference aborts, as does having nothing to do
\* (or a dry run).
GcRecheck ==
    /\ gcPc = "recheck"
    /\ \/ refs = gcRefs /\ gcDoomed # {} /\ gcPc' = "delete" /\ UNCHANGED gcDoomed
       \/ gcPc' = "idle" /\ gcDoomed' = {}
    /\ UNCHANGED <<objs, refs, gcRefs, gcLive, gcRuns>>

GcDelete ==
    /\ gcPc = "delete"
    /\ DeleteObjects(gcDoomed)
    /\ gcPc' = "idle"
    /\ gcDoomed' = {}
    /\ UNCHANGED <<refs, gcRefs, gcLive, gcRuns>>

GcStep == GcStart \/ GcWalk \/ GcList \/ GcRecheck \/ GcDelete

-------------------------------------------------------------------------------
WritersMayRun == GcAlone => gcPc = "idle"

ServerNext ==
    \/ /\ WritersMayRun
       /\ \E p \in Push : PushStep(p)
       /\ UNCHANGED <<jobVars, gcVars>>
    \/ /\ WritersMayRun
       /\ \E j \in Job : JobStep(j)
       /\ UNCHANGED <<pushVars, gcVars>>
    \/ GcStep /\ UNCHANGED <<pushVars, jobVars>>

ServerSpec == ServerInit /\ [][ServerNext]_allVars

\* Requests and collections that have begun run on; clients need not send any.
FairServerSpec ==
    /\ ServerSpec
    /\ \A p \in Push : WF_allVars(WritersMayRun /\ ServerStep(p) /\ UNCHANGED <<jobVars, gcVars>>)
    /\ \A j \in Job : WF_allVars(WritersMayRun /\ jpc[j] # "idle" /\ JobStep(j)
                                   /\ UNCHANGED <<pushVars, gcVars>>)
    /\ WF_allVars(gcPc # "idle" /\ GcStep /\ UNCHANGED <<pushVars, jobVars>>)

-------------------------------------------------------------------------------
(* Properties.                                                             *)

\* The ranges of the variables this module adds; what a collection dooms is
\* disjoint from what it found live.
ServerTypeOK ==
    /\ TypeOK
    /\ jpc \in [Job -> {"idle", "write", "resolve", "apply"}]
    /\ jold \in [Job -> [Ref -> Value \cup {Skip}]]
    /\ jnew \in [Job -> [Ref -> Value \cup {Skip}]]
    /\ jobjs \in [Job -> SUBSET Object]
    /\ jrefs \in [Job -> SUBSET Ref]
    /\ jchecked \in [Job -> Ref \cup {None}]
    /\ jok \in [Job -> SUBSET Ref]
    /\ gcPc \in {"idle", "walk", "list", "recheck", "delete"}
    /\ gcRefs \in [Ref -> Value]
    /\ gcLive \in SUBSET Object
    /\ gcDoomed \in SUBSET Object
    /\ gcRuns \in 0..MaxGc
    /\ gcPc \in {"list", "recheck", "delete"} => gcLive = Reachable(Tipset(gcRefs))
    /\ gcDoomed \cap gcLive = {}
    /\ \A j \in Job :
         /\ jrefs[j] \cup jok[j] \subseteq JobRefs(j) /\ jrefs[j] \cap jok[j] = {}
         /\ jpc[j] = "write" <=> jobjs[j] # {}
         /\ jchecked[j] # None => jpc[j] = "apply" /\ jchecked[j] \in jrefs[j]

\* A commit made in process only ever adds to a branch: of two calls, or a call
\* and a push, that started from the same tip one loses and is told so.
CommitsExtendBranch ==
    [][\A j \in CommitJob : \A r \in jok'[j] \ jok[j] :
           refs[r] # None => refs[r] # refs'[r] /\ IsAncestor(refs[r], refs'[r])]_allVars

\* A collection that was left alone keeps exactly what the refs reach: no
\* live object is lost and no garbage of an earlier failure survives it.
GcExact ==
    gcPc = "delete" /\ gcPc' = "idle" => objs' = Reachable(Tipset(refs))

\* However the writers interleave with the walk, nothing that the refs reach at
\* the second look is doomed: that is what the second look is for.
RecheckSparesLive ==
    [][gcPc = "recheck" /\ gcPc' = "delete" =>
           Reachable(Tipset(refs)) \cap gcDoomed = {}]_allVars

\* The comment on gcRepo: a ref that changes between the start of the walk and
\* the deletion makes gc abort.  Asked only of a change that puts what is about
\* to be deleted within reach of a ref.  (Nothing looks between the re-read and
\* the deletion.)
GcAbortsOnRefChange ==
    [][gcPc = "delete" /\ gcPc' = "idle" /\ refs # gcRefs =>
           Reachable(Tipset(refs)) \cap gcDoomed = {}]_allVars

===============================================================================
