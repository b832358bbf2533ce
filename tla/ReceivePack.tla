----------------------------- MODULE ReceivePack ------------------------------
(***************************************************************************)
(* The push path of the server: pushes to one repository whose objects and *)
(* refs live in a Storage backend.  Every await of the handler is a point  *)
(* where another request may run, so a push is a sequence of steps:        *)
(*                                                                         *)
(*   Advertise -> Ingest -> BuildUpdates -> AcceptPush -> (Pass -> Swap)*  *)
(*   -> Conclude                                                           *)
(*                                                                         *)
(* with the rejections of the code branching off.  The storage operations  *)
(* (putObjects, deleteObjects, atomicRefUpdate) are atomic, as every       *)
(* backend makes them.                                                     *)
(***************************************************************************)
EXTENDS GitObjects

CONSTANTS
    Ref,            \* ref names a push may send a command for
    None,           \* an absent ref, and the zero hash of a delete command
    Skip,           \* "no command for this ref"
    Push,           \* the pushes that may be made
    Tips,           \* [Push -> SUBSET Object]: what a client may push
    InitRefs,       \* the repository at the start: its refs
    InitObjs,       \* ... and the objects stored for it
    Protected,      \* refs of policy.protectedBranches
    ImmutableTags,  \* the tags, when policy.immutableTags is on, else {}
    DenyNonFF,      \* policy.denyNonFastForward
    DenyDeletes,    \* policy.denyDeletes
    Unpushable,     \* HEAD, and names that fail checkRefFormat (no store has such a ref,
                    \* so that a deletion, which skips the check, finds nothing)
    Hidden,         \* refs an advertiseRefs hook may hold back from a client
    Overlap         \* may a pack carry objects that an unfinished push inserted

ASSUME PushAssumption ==
    /\ None \notin Object /\ Skip \notin Object /\ None # Skip /\ None \notin Ref
    /\ Tips \in [Push -> SUBSET Object]
    /\ InitRefs \in [Ref -> Object \cup {None}]
    /\ InitObjs \in SUBSET Object
    /\ \A r \in Ref : InitRefs[r] # None => Closure[InitRefs[r]] \subseteq InitObjs
    /\ Protected \subseteq Ref /\ ImmutableTags \subseteq Ref /\ Unpushable \subseteq Ref
    /\ Hidden \subseteq Ref
    /\ DenyNonFF \in BOOLEAN /\ DenyDeletes \in BOOLEAN /\ Overlap \in BOOLEAN

VARIABLES
    objs,       \* object hashes in the repository's partition
    refs,       \* [Ref -> Object or None]
    pc,         \* where each push is
    advert,     \* the refs each client was shown: the old values it sends
    cmd,        \* [Push -> [Ref -> Object, None (delete) or Skip]]
    ff,         \* the refs whose update was found to be a fast-forward
    ingested,   \* ingestResult.ingestedHashes
    todo,       \* refs whose command the per-ref loop has not finished
    checked,    \* the ref that passed its checks and is about to be swapped
    applied,    \* refs the push moved
    posted,     \* the updates postReceive was told of
    resp        \* the answer: "none" yet, "unpack failed", "report" or "error"

storeVars == <<objs, refs>>
pushVars == <<pc, advert, cmd, ff, ingested, todo, checked, applied, posted, resp>>
vars == <<objs, refs, pc, advert, cmd, ff, ingested, todo, checked, applied, posted, resp>>

Value == Object \cup {None}
NoCommand == [r \in Ref |-> Skip]

Commands(p) == {r \in Ref : cmd[p][r] # Skip}
IsCreate(p, r) == advert[p][r] = None
IsDelete(p, r) == advert[p][r] # None /\ cmd[p][r] = None
IsUpdate(p, r) == advert[p][r] # None /\ cmd[p][r] # None

-------------------------------------------------------------------------------
(* Storage operations on the partition of the repository.                  *)

PutObjects(S) == objs' = objs \cup S
DeleteObjects(S) == objs' = objs \ S

\* (Mutants: the comparison is forgotten, or made only for refs that exist.)
CasRef_blind(r, old, new) == refs' = [refs EXCEPT ![r] = new]
CasRef_createUnchecked(r, old, new) ==
    /\ old # None => refs[r] = old
    /\ refs' = [refs EXCEPT ![r] = new]

\* compareAndSwapRef(r, old, new) = true; None stands for null on both sides.
CasRef(r, old, new) ==
    /\ refs[r] = old
    /\ refs' = [refs EXCEPT ![r] = new]

-------------------------------------------------------------------------------
(* The client's side.                                                      *)

\* What a client may ask for, given the refs it was shown: it deletes a ref it
\* saw, or moves a ref to a tip it has, and sends one command at least.
Request(p) ==
    {c \in [Ref -> Tips[p] \cup {None, Skip}] :
        /\ \E r \in Ref : c[r] # Skip
        /\ \A r \in Ref : c[r] # advert[p][r]}

\* The pack leaves out whatever the old values of the commanded refs reach.
Pack(p, c) ==
    Missing({c[r] : r \in {x \in Ref : c[x] \in Object}},
            {advert[p][r] : r \in {x \in Ref : c[x] # Skip /\ advert[p][x] # None}})

Unfinished(q) == pc[q] \in {"build", "pre", "update"}

\* Without Overlap no two unfinished pushes bring a common new object.
Separate(p, c) ==
    \A q \in Push \ {p} : Unfinished(q) => ingested[q] \cap Pack(p, c) = {}

-------------------------------------------------------------------------------
Init ==
    /\ objs = InitObjs
    /\ refs = InitRefs
    /\ pc = [p \in Push |-> "idle"]
    /\ advert = [p \in Push |-> [r \in Ref |-> None]]
    /\ cmd = [p \in Push |-> NoCommand]
    /\ ff = [p \in Push |-> {}]
    /\ ingested = [p \in Push |-> {}]
    /\ todo = [p \in Push |-> {}]
    /\ checked = [p \in Push |-> None]
    /\ applied = [p \in Push |-> {}]
    /\ posted = [p \in Push |-> {}]
    /\ resp = [p \in Push |-> "none"]

\* GET info/refs: the client learns the refs the hook lets it see; nothing ties
\* its later POST to the state it saw but the old values it sends back.
Advertise(p, held) ==
    /\ pc[p] = "idle"
    /\ advert' = [advert EXCEPT ![p] = [r \in Ref |-> IF r \in held THEN None ELSE refs[r]]]
    /\ pc' = [pc EXCEPT ![p] = "advertised"]
    /\ UNCHANGED <<objs, refs, cmd, ff, ingested, todo, checked, applied, posted, resp>>

\* The pack is stored before any hook runs; commitPack returns the hashes that
\* were new to the partition.
Ingest(p, c) ==
    /\ pc[p] = "advertised"
    /\ ~Overlap => Separate(p, c)
    /\ cmd' = [cmd EXCEPT ![p] = c]
    /\ ingested' = [ingested EXCEPT ![p] = Pack(p, c) \ objs]
    /\ PutObjects(Pack(p, c))
    /\ pc' = [pc EXCEPT ![p] = "build"]
    /\ UNCHANGED <<refs, advert, ff, todo, checked, applied, posted, resp>>

\* A pack that is corrupt, over a limit, or whose delta bases are gone is
\* dropped whole; no ref is touched.
UnpackFails(p, c) ==
    /\ pc[p] = "advertised"
    /\ Pack(p, c) # {}
    /\ cmd' = [cmd EXCEPT ![p] = c]
    /\ resp' = [resp EXCEPT ![p] = "unpack failed"]
    /\ pc' = [pc EXCEPT ![p] = "done"]
    /\ UNCHANGED <<objs, refs, advert, ff, ingested, todo, checked, applied, posted>>

\* buildRefUpdates: the ancestry walk reads the store as it is now, against the
\* old value the client sent, not the current one.
BuildUpdates(p) ==
    /\ pc[p] = "build"
    /\ ff' = [ff EXCEPT ![p] = {r \in Commands(p) :
                 IsUpdate(p, r) /\ IsAncestorIn(objs, advert[p][r], cmd[p][r])}]
    /\ pc' = [pc EXCEPT ![p] = "pre"]
    /\ UNCHANGED <<objs, refs, advert, cmd, ingested, todo, checked, applied, posted, resp>>

-------------------------------------------------------------------------------
(* Hooks.  The policy's own hooks run first; a user hook may reject more.  *)

\* (Mutant: only deletions are looked at.)
PolicyRejects_deletesOnly(p) ==
    \E r \in Commands(p) \cap Protected : IsDelete(p, r)

PolicyRejects(p) ==
    \E r \in Commands(p) \cap Protected :
        IsDelete(p, r) \/ (~IsCreate(p, r) /\ r \notin ff[p])

\* (Mutant: the update hook looks at deletions and tags only.)
PolicyDeclines_noFastForwardCheck(p, r) ==
    \/ DenyDeletes /\ IsDelete(p, r)
    \/ r \in ImmutableTags /\ ~IsCreate(p, r)

PolicyDeclines(p, r) ==
    \/ DenyDeletes /\ IsDelete(p, r)
    \/ r \in ImmutableTags /\ ~IsCreate(p, r)
    \/ DenyNonFF /\ IsUpdate(p, r) /\ r \notin ff[p]

\* (Mutant: the per-ref loop runs over every ref.)
AcceptPush_everyRef(p) ==
    /\ pc[p] = "pre"
    /\ ~PolicyRejects(p)
    /\ todo' = [todo EXCEPT ![p] = Ref]
    /\ pc' = [pc EXCEPT ![p] = "update"]
    /\ UNCHANGED <<objs, refs, advert, cmd, ff, ingested, checked, applied, posted, resp>>

AcceptPush(p) ==
    /\ pc[p] = "pre"
    /\ ~PolicyRejects(p)
    /\ todo' = [todo EXCEPT ![p] = Commands(p)]
    /\ pc' = [pc EXCEPT ![p] = "update"]
    /\ UNCHANGED <<objs, refs, advert, cmd, ff, ingested, checked, applied, posted, resp>>

\* (Mutant: the rejection forgets to roll back.)
RejectPush_keepsObjects(p) ==
    /\ pc[p] = "pre"
    /\ resp' = [resp EXCEPT ![p] = "report"]
    /\ pc' = [pc EXCEPT ![p] = "done"]
    /\ UNCHANGED <<objs, refs, advert, cmd, ff, ingested, todo, checked, applied, posted>>

\* preReceive rejects: the inserted objects are deleted, every ref is refused.
RejectPush(p) ==
    /\ pc[p] = "pre"
    /\ DeleteObjects(ingested[p])
    /\ resp' = [resp EXCEPT ![p] = "report"]
    /\ pc' = [pc EXCEPT ![p] = "done"]
    /\ UNCHANGED <<refs, advert, cmd, ff, ingested, todo, checked, applied, posted>>

\* A ref is refused: by its name, by the policy or by a user's update hook.
Decline(p, r) ==
    /\ pc[p] = "update" /\ checked[p] = None /\ r \in todo[p]
    /\ todo' = [todo EXCEPT ![p] = @ \ {r}]
    /\ UNCHANGED <<objs, refs, pc, advert, cmd, ff, ingested, checked, applied, posted, resp>>

\* The ref passes the name check and the update hook, and exists() answers yes.
Pass(p, r) ==
    /\ pc[p] = "update" /\ checked[p] = None /\ r \in todo[p]
    /\ r \notin Unpushable
    /\ ~PolicyDeclines(p, r)
    /\ cmd[p][r] # None => cmd[p][r] \in objs
    /\ checked' = [checked EXCEPT ![p] = r]
    /\ UNCHANGED <<objs, refs, pc, advert, cmd, ff, ingested, todo, applied, posted, resp>>

\* compareAndSwapRef succeeds against the old value the client sent.
Swap(p, r) ==
    /\ pc[p] = "update" /\ checked[p] = r
    /\ CasRef(r, advert[p][r], cmd[p][r])
    /\ applied' = [applied EXCEPT ![p] = @ \cup {r}]
    /\ todo' = [todo EXCEPT ![p] = @ \ {r}]
    /\ checked' = [checked EXCEPT ![p] = None]
    /\ UNCHANGED <<objs, pc, advert, cmd, ff, ingested, posted, resp>>

\* The ref has moved ("failed to lock"), or the driver threw; both are caught.
SwapFails(p, r) ==
    /\ pc[p] = "update" /\ checked[p] = r
    /\ todo' = [todo EXCEPT ![p] = @ \ {r}]
    /\ checked' = [checked EXCEPT ![p] = None]
    /\ UNCHANGED <<objs, refs, pc, advert, cmd, ff, ingested, applied, posted, resp>>

\* (Mutants: a push that was refused in part is rolled back, or not announced.)
Conclude_rollsBackPartial(p) ==
    /\ pc[p] = "update" /\ todo[p] = {}
    /\ DeleteObjects(IF applied[p] # Commands(p) THEN ingested[p] ELSE {})
    /\ posted' = [posted EXCEPT ![p] = applied[p]]
    /\ resp' = [resp EXCEPT ![p] = "report"]
    /\ pc' = [pc EXCEPT ![p] = "done"]
    /\ UNCHANGED <<refs, advert, cmd, ff, ingested, todo, checked, applied>>
Conclude_announcesWhole(p) ==
    /\ pc[p] = "update" /\ todo[p] = {}
    /\ DeleteObjects(IF applied[p] = {} THEN ingested[p] ELSE {})
    /\ posted' = [posted EXCEPT ![p] = IF applied[p] = Commands(p) THEN applied[p] ELSE {}]
    /\ resp' = [resp EXCEPT ![p] = "report"]
    /\ pc' = [pc EXCEPT ![p] = "done"]
    /\ UNCHANGED <<refs, advert, cmd, ff, ingested, todo, checked, applied>>

\* After the loop: a push that moved no ref deletes what it inserted, one that
\* moved some is announced to postReceive with exactly those.
Conclude(p) ==
    /\ pc[p] = "update" /\ todo[p] = {}
    /\ DeleteObjects(IF applied[p] = {} THEN ingested[p] ELSE {})
    /\ posted' = [posted EXCEPT ![p] = applied[p]]
    /\ resp' = [resp EXCEPT ![p] = "report"]
    /\ pc' = [pc EXCEPT ![p] = "done"]
    /\ UNCHANGED <<refs, advert, cmd, ff, ingested, todo, checked, applied>>

\* A hook or the store throws (or the process dies): the request ends where it
\* is, with what it has done so far left in place.
Throw(p) ==
    /\ Unfinished(p)
    /\ resp' = [resp EXCEPT ![p] = "error"]
    /\ pc' = [pc EXCEPT ![p] = "done"]
    /\ UNCHANGED <<objs, refs, advert, cmd, ff, ingested, todo, checked, applied, posted>>

-------------------------------------------------------------------------------
\* One step of the per-ref loop, and the steps that end the request.
RefStep(p) ==
    \E r \in Ref : Decline(p, r) \/ Pass(p, r) \/ Swap(p, r) \/ SwapFails(p, r)

ServerStep(p) ==
    \/ BuildUpdates(p)
    \/ AcceptPush(p)
    \/ RejectPush(p)
    \/ RefStep(p)
    \/ Conclude(p)

PushStep(p) ==
    \/ \E held \in SUBSET Hidden : Advertise(p, held)
    \/ \E c \in Request(p) : Ingest(p, c) \/ UnpackFails(p, c)
    \/ ServerStep(p)
    \/ Throw(p)

Next == \E p \in Push : PushStep(p)

Spec == Init /\ [][Next]_vars

\* A request the server has begun keeps running; a client need not send one.
FairSpec == Spec /\ \A p \in Push : WF_vars(ServerStep(p))

-------------------------------------------------------------------------------
(* Properties.                                                             *)

\* Every variable keeps to its range, and the request state agrees with pc: a
\* ref is only ever under swap while its command is still to do.
TypeOK ==
    /\ objs \in SUBSET Object
    /\ refs \in [Ref -> Value]
    /\ pc \in [Push -> {"idle", "advertised", "build", "pre", "update", "done"}]
    /\ advert \in [Push -> [Ref -> Value]]
    /\ cmd \in [Push -> [Ref -> Object \cup {None, Skip}]]
    /\ ff \in [Push -> SUBSET Ref]
    /\ ingested \in [Push -> SUBSET Object]
    /\ todo \in [Push -> SUBSET Ref]
    /\ checked \in [Push -> Ref \cup {None}]
    /\ applied \in [Push -> SUBSET Ref]
    /\ posted \in [Push -> SUBSET Ref]
    /\ resp \in [Push -> {"none", "unpack failed", "report", "error"}]
    /\ \A p \in Push :
         /\ pc[p] \in {"idle", "advertised"} => cmd[p] = NoCommand /\ ingested[p] = {}
         /\ pc[p] \in {"idle", "advertised", "build", "pre"} => todo[p] = {} /\ applied[p] = {}
         /\ todo[p] \cup applied[p] \subseteq Commands(p) /\ todo[p] \cap applied[p] = {}
         /\ checked[p] # None => checked[p] \in todo[p]

\* No ref dangles: everything a ref reaches is stored.  This is what the order
\* "objects first, refs last" and the rollback rules have to preserve together.
RefsComplete ==
    \A r \in Ref : refs[r] # None => Closure[refs[r]] \subseteq objs

\* A protected branch is never deleted and only moves to a descendant of the
\* value it replaces, although the fast-forward verdict was computed several
\* awaits earlier and against the client's idea of the old value.
ProtectedFastForward ==
    [][\A r \in Protected :
          refs[r] # None /\ refs'[r] # refs[r]
            => refs'[r] # None /\ IsAncestor(refs[r], refs'[r])]_vars

\* Under immutableTags a tag, once set, keeps its value: a creation sent by a
\* client that did not see the tag passes the hook and must fail at the swap.
TagsImmutable ==
    [][\A r \in ImmutableTags : refs[r] # None => refs'[r] = refs[r]]_vars

\* denyNonFastForward with denyDeletes leaves only fast-forwards to any ref.
\* (denyNonFastForward alone does not: a deletion followed by a creation moves
\* a ref anywhere.)
NoRewrite ==
    [][DenyNonFF /\ DenyDeletes =>
         \A r \in Ref :
            refs[r] # None /\ refs'[r] # refs[r]
              => refs'[r] # None /\ IsAncestor(refs[r], refs'[r])]_vars

\* A push that is answered with every ref refused has left none of the objects
\* it inserted, unless another push has inserted them since.
RejectedLeavesNothing ==
    \A p \in Push :
        resp[p] = "report" /\ applied[p] = {} =>
            \A o \in ingested[p] \cap objs :
                \E q \in Push \ {p} : o \in ingested[q]

\* Whatever moved a ref is announced to postReceive before the client gets its
\* report; only a throw can lose the announcement.
Announced ==
    \A p \in Push, r \in Ref :
        r \in applied[p] ~> (r \in posted[p] \/ resp[p] = "error")

\* The comment in applyReceivePack: a rejected push leaves no side effects, so
\* its roll-back takes nothing away that a ref reaches.  (It takes away what a
\* push that arrived later has come to rely on.)
RollbackHarmless ==
    [][\A r \in Ref : refs[r] # None => Closure[refs[r]] \cap objs \subseteq objs']_vars

===============================================================================
