--------------------------------- MODULE Fetch --------------------------------
(***************************************************************************)
(* Clients that clone and fetch from one repository of the server while    *)
(* its refs move, its objects are collected and its pack cache fills.  A   *)
(* request is stateless: the refs a client was shown, the request it sends *)
(* and the walk that serves it read the server at three different times.   *)
(* A client may stop anywhere; what it had stored by then remains.         *)
(***************************************************************************)
EXTENDS ObjectWalk, Sequences

CONSTANTS
    None,
    Client,
    Branch, Tag,          \* the server's branches and tags; a client tracks them under the same name
    Default,            \* the branch a clone checks out (inferDefaultBranch)
    Local,              \* the client's own branch
    TagObject,          \* the objects that are annotated tags
    Hidden,             \* refs the advertiseRefs hook leaves out; {} when there is no hook
    Depths,             \* values of --depth; INFINITE_DEPTH is --unshallow
    Options,            \* the combinations of options the command line is given
    Tips,               \* [Branch \cup Tag -> SUBSET (Object \cup {None})]: what pushes set the refs to
    InitRefs,           \* [Branch \cup Tag -> Object \cup {None}]
    MaxPushes, MaxCalls,    \* bounds: how often a ref of the server moves, how many commands run
    MaxBytes,           \* size of the pack cache, a pack counting its objects
    CutBeforeShallow,   \* may a command stop between storing a pack and writing .git/shallow
    PlainWhenShallow,   \* may a shallow client fetch without a request for a depth
    GcWhenShallow       \* may the server collect garbage while a client is shallow

Ref == Branch \cup Tag
NoDepth == 0
Option == [clone : BOOLEAN, depth : Depths \cup {NoDepth}, tags : BOOLEAN, prune : BOOLEAN]

FetchAssumption ==
    /\ IsFiniteSet(Object) /\ None \notin Object /\ INFINITE_DEPTH \in Nat
    /\ Branch \cap Tag = {} /\ Local \notin Ref /\ Default \in Branch
    /\ Depths \subseteq 1..INFINITE_DEPTH /\ Options \subseteq Option
    /\ Tips \in [Ref -> SUBSET (Object \cup {None})] /\ InitRefs \in [Ref -> Object \cup {None}]
    /\ \A t \in TagObject : t \in Object /\ Parents[t] = {} /\ \E o \in Object : Points[t] = {o}
    /\ \A o \in Object \ TagObject : Points[o] \cap TagObject = {}
    /\ MaxBytes \in Nat /\ MaxPushes \in Nat /\ MaxCalls \in Nat
    /\ CutBeforeShallow \in BOOLEAN /\ PlainWhenShallow \in BOOLEAN /\ GcWhenShallow \in BOOLEAN

\* What a deployment has to see to for clients to stay complete; with any of the three the
\* code does not.
FetchDeployment == ~CutBeforeShallow /\ ~PlainWhenShallow /\ ~GcWhenShallow

VARIABLES
    sobjs, srefs, cache,        \* the server: objects, refs, PackCache.entries, oldest first
    pushes, calls,              \* how many there have been
    exists,                     \* has the client a repository
    cobjs, crefs, cshallow,     \* the client: objects, refs, .git/shallow
    narrow,                     \* was the refspec narrowed to the default branch
    pc,                         \* where the command is
    req,                        \* its options
    adv,                        \* remoteRefs
    ask,                        \* the request sent: wants, haves, depth, shallow lines
    reply,                      \* pack and shallow update received
    todo                        \* refs the loop it is in has not done

serverVars == <<sobjs, srefs, cache>>
repoVars == <<exists, cobjs, crefs, cshallow, narrow>>
callVars == <<pc, req, adv, ask, reply, todo>>
counts == <<pushes, calls>>
fetchVars == <<serverVars, repoVars, callVars, counts>>

NoOption == [clone |-> FALSE, depth |-> NoDepth, tags |-> FALSE, prune |-> FALSE]
NoAsk == [wants |-> {}, haves |-> {}, depth |-> NoDepth, shallow |-> {}, tags |-> FALSE]
NoReply == [pack |-> {}, shallow |-> {}, unshallow |-> {}]
NoRefs == [r \in Ref |-> None]

Values(m) == {m[r] : r \in DOMAIN m} \ {None}
Visible == [r \in Ref |-> IF r \in Hidden THEN None ELSE srefs[r]]

\* A tag's ^{} line in the advertisement: the object an annotated tag names.
Peeled(o) == IF o \in TagObject THEN CHOOSE x \in Points[o] : TRUE ELSE o

FetchInit ==
    /\ srefs \in {InitRefs, NoRefs} /\ sobjs = Reachable(Values(srefs)) /\ cache = <<>>
    /\ pushes = 0 /\ calls = 0
    /\ exists = [c \in Client |-> FALSE]
    /\ cobjs = [c \in Client |-> {}]
    /\ crefs = [c \in Client |-> [r \in Ref \cup {Local} |-> None]]
    /\ cshallow = [c \in Client |-> {}]
    /\ narrow = [c \in Client |-> FALSE]
    /\ pc = [c \in Client |-> "idle"]
    /\ req = [c \in Client |-> NoOption]
    /\ adv = [c \in Client |-> NoRefs]
    /\ ask = [c \in Client |-> NoAsk]
    /\ reply = [c \in Client |-> NoReply]
    /\ todo = [c \in Client |-> {}]

\* The command of c returns; its variables are gone.
Return(c) ==
    /\ pc' = [pc EXCEPT ![c] = "idle"]
    /\ req' = [req EXCEPT ![c] = NoOption]
    /\ adv' = [adv EXCEPT ![c] = NoRefs]
    /\ ask' = [ask EXCEPT ![c] = NoAsk]
    /\ reply' = [reply EXCEPT ![c] = NoReply]
    /\ todo' = [todo EXCEPT ![c] = {}]

-------------------------------------------------------------------------------
(* The command reads the advertisement and plans.                          *)

\* planFetchRefUpdates, and --tags; of a clone, single-branch when it has a
\* depth, the branches and tags it will create.
Planned(c, q, shown) ==
    LET single == IF q.clone THEN q.depth # NoDepth ELSE narrow[c]
        heads == IF single THEN {Default} ELSE Branch
        tags == IF (IF q.clone THEN ~single ELSE q.tags) THEN Tag ELSE {}
    IN {r \in heads \cup tags : shown[r] # None}

\* collectFetchHaves; a clone has none.
Haves(c, q) == IF q.clone THEN {} ELSE Values(crefs[c])

Allowed(c, q) ==
    IF q.clone THEN ~exists[c] /\ ~q.tags /\ ~q.prune
    ELSE /\ exists[c]
         /\ q.depth = INFINITE_DEPTH => cshallow[c] # {}

\* Wants that a local ref has already are dropped, unless nothing would be left
\* of a request for a depth.  Only such a request names the client's boundary.
Start(c, q) ==
    /\ pc[c] = "idle" /\ Allowed(c, q) /\ Values(Visible) # {}
    /\ calls < MaxCalls /\ calls' = calls + 1
    /\ LET plan == Planned(c, q, Visible)
           all == {Visible[r] : r \in plan}
           new == all \ Haves(c, q)
           wants == IF new = {} /\ q.depth # NoDepth THEN all ELSE new
       IN /\ cshallow[c] # {} /\ (q.depth = NoDepth \/ wants = {}) => PlainWhenShallow
          /\ ask' = [ask EXCEPT ![c] = [wants |-> wants, haves |-> Haves(c, q), depth |-> q.depth,
                        shallow |-> IF q.depth = NoDepth THEN {} ELSE cshallow[c], tags |-> FALSE]]
          /\ todo' = [todo EXCEPT ![c] = plan]
          /\ pc' = [pc EXCEPT ![c] = IF wants = {} THEN "refs" ELSE "request"]
    /\ adv' = [adv EXCEPT ![c] = Visible]
    /\ req' = [req EXCEPT ![c] = q]
    /\ narrow' = [narrow EXCEPT ![c] = IF q.clone THEN q.depth # NoDepth ELSE @]
    /\ UNCHANGED <<serverVars, exists, cobjs, crefs, cshallow, reply, pushes>>

\* A clone of a repository that shows no refs is an empty repository.
CloneEmpty(c) ==
    /\ pc[c] = "idle" /\ ~exists[c] /\ Values(Visible) = {}
    /\ exists' = [exists EXCEPT ![c] = TRUE]
    /\ UNCHANGED <<serverVars, cobjs, crefs, cshallow, narrow, callVars, counts>>

-------------------------------------------------------------------------------
(* The server: handleUploadPack.                                           *)

\* (Mutant: requests with haves are looked up and cached as well.)
Cacheable_withHaves(a) == a.depth = NoDepth

\* PackCache.key, and no depth asked for.
Cacheable(a) == a.depth = NoDepth /\ a.haves = {}

Entry(key) == {i \in DOMAIN cache : cache[i].key = key}

\* With a hook, only what it shows now may be asked for: an error reply.
Refused(c) == Hidden # {} /\ ~ask[c].wants \subseteq Values(Visible)

Boundary(c) ==
    IF ask[c].depth = NoDepth THEN [shallow |-> {}, unshallow |-> {}]
    ELSE Shallow(sobjs, ask[c].wants, ask[c].depth, ask[c].shallow)

\* Authorisation, the shallow boundary, and a look into the cache.
Serve(c) ==
    /\ pc[c] = "request" /\ ~Refused(c)
    /\ LET hits == IF Cacheable(ask[c]) THEN Entry(ask[c].wants) ELSE {}
           pack == IF hits = {} THEN {} ELSE cache[CHOOSE i \in hits : TRUE].pack
           update == Boundary(c)
       IN /\ reply' = [reply EXCEPT ![c] = [pack |-> pack, shallow |-> update.shallow,
                                            unshallow |-> update.unshallow]]
          /\ pc' = [pc EXCEPT ![c] = IF hits = {} THEN "build" ELSE "ingest"]
    /\ UNCHANGED <<serverVars, repoVars, req, adv, ask, todo, counts>>

Walk(c) ==
    Enumerate(sobjs, ask[c].wants, ask[c].haves, ask[c].depth # NoDepth,
              reply[c].shallow, ask[c].shallow)

\* collectIncludedTags: annotated tags of what is sent.
IncludedTags(sent) ==
    {o \in TagObject : o \in Values([t \in Tag |-> srefs[t]]) \cap sobjs /\ Points[o] \subseteq sent}

Bytes(entries) ==
    LET total[n \in 0..Len(entries)] ==
          IF n = 0 THEN 0 ELSE total[n - 1] + Cardinality(entries[n].pack)
    IN total[Len(entries)]

\* (Mutant: an entry that fits by itself is added without making room.)
Cached_noEviction(entry) ==
    IF Entry(entry.key) # {} \/ Cardinality(entry.pack) > MaxBytes THEN cache
    ELSE Append(cache, entry)

\* PackCache.set: no overwriting, and the oldest entries make room.
Cached(entry) ==
    IF Entry(entry.key) # {} \/ Cardinality(entry.pack) > MaxBytes THEN cache
    ELSE LET Fits(i) == Bytes(SubSeq(cache, i, Len(cache))) + Cardinality(entry.pack) <= MaxBytes
             keep == CHOOSE i \in 1..Len(cache) + 1 : Fits(i) /\ \A j \in 1..i - 1 : ~Fits(j)
         IN Append(SubSeq(cache, keep, Len(cache)), entry)

\* buildPackBuffered.  It reads every object it sends, and throws on one that is
\* missing (Lost); an empty pack is not cached.
Build(c) ==
    /\ pc[c] = "build"
    /\ LET found == Walk(c)
           sent == IF found = {} THEN {} ELSE found \cup IncludedTags(found)
       IN /\ found \subseteq sobjs
          /\ reply' = [reply EXCEPT ![c].pack = sent]
          /\ cache' = IF Cacheable(ask[c]) /\ sent # {}
                      THEN Cached([key |-> ask[c].wants, pack |-> sent]) ELSE cache
    /\ pc' = [pc EXCEPT ![c] = "ingest"]
    /\ UNCHANGED <<sobjs, srefs, repoVars, req, adv, ask, todo, counts>>

-------------------------------------------------------------------------------
(* The client stores what it received, then moves its refs.                *)

Ingest(c) ==
    /\ pc[c] = "ingest"
    /\ cobjs' = [cobjs EXCEPT ![c] = @ \cup reply[c].pack]
    /\ pc' = [pc EXCEPT ![c] = IF ask[c].tags THEN "tags"
                                ELSE IF ask[c].depth # NoDepth THEN "shallow" ELSE "refs"]
    /\ reply' = [reply EXCEPT ![c].pack = {}]
    /\ ask' = [ask EXCEPT ![c] = NoAsk]
    /\ UNCHANGED <<serverVars, exists, crefs, cshallow, narrow, req, adv, todo, counts>>

\* applyShallowUpdates.
ApplyShallow(c) ==
    /\ pc[c] = "shallow"
    /\ cshallow' = [cshallow EXCEPT ![c] = (@ \cup reply[c].shallow) \ reply[c].unshallow]
    /\ reply' = [reply EXCEPT ![c] = NoReply]
    /\ pc' = [pc EXCEPT ![c] = "refs"]
    /\ UNCHANGED <<serverVars, exists, cobjs, crefs, narrow, req, adv, ask, todo, counts>>

\* The refs are gone through in the order they were shown in.
Due(c, r) == todo[c] # {} /\ r = CHOOSE x \in todo[c] : TRUE

\* One ref of applyFetchRefUpdates: whatever it was it now has the remote's
\* value, but a tag that --tags names is not moved.
UpdateRef(c, r) ==
    /\ pc[c] = "refs" /\ Due(c, r)
    /\ crefs' = IF req[c].tags /\ r \in Tag /\ crefs[c][r] # None THEN crefs
                ELSE [crefs EXCEPT ![c][r] = adv[c][r]]
    /\ todo' = [todo EXCEPT ![c] = @ \ {r}]
    /\ UNCHANGED <<serverVars, exists, cobjs, cshallow, narrow, pc, req, adv, ask, reply, counts>>

\* A clone ends by creating the local branch and the configuration.
FinishClone(c) ==
    /\ pc[c] = "refs" /\ todo[c] = {} /\ req[c].clone
    /\ crefs' = [crefs EXCEPT ![c][Local] = adv[c][Default]]
    /\ exists' = [exists EXCEPT ![c] = TRUE]
    /\ Return(c)
    /\ UNCHANGED <<serverVars, cobjs, cshallow, narrow, counts>>

\* autoFollowReachableTags: tags the client lacks of objects it has.  Their tag
\* objects are asked for in a request of its own, with no depth and no boundary.
Follow(c) ==
    /\ pc[c] = "refs" /\ todo[c] = {} /\ ~req[c].clone
    /\ LET follow == IF req[c].tags THEN {}
                     ELSE {t \in Tag : /\ adv[c][t] # None /\ crefs[c][t] = None
                                       /\ Peeled(adv[c][t]) \in cobjs[c]}
           wants == {adv[c][t] : t \in follow} \ cobjs[c]
       IN /\ todo' = [todo EXCEPT ![c] = follow]
          /\ ask' = [ask EXCEPT ![c] = [NoAsk EXCEPT !.wants = wants, !.haves = Values(crefs[c]),
                                                     !.tags = TRUE]]
          /\ pc' = [pc EXCEPT ![c] = IF wants = {} THEN "tags" ELSE "request"]
    /\ UNCHANGED <<serverVars, repoVars, req, adv, reply, counts>>

FollowTag(c, t) ==
    /\ pc[c] = "tags" /\ Due(c, t)
    /\ crefs' = [crefs EXCEPT ![c][t] = adv[c][t]]
    /\ todo' = [todo EXCEPT ![c] = @ \ {t}]
    /\ UNCHANGED <<serverVars, exists, cobjs, cshallow, narrow, pc, req, adv, ask, reply, counts>>

\* --prune: tracking refs of branches that were not advertised are deleted.
FinishFetch(c) ==
    /\ pc[c] = "tags" /\ todo[c] = {}
    /\ crefs' = [crefs EXCEPT ![c] = [r \in DOMAIN @ |->
                    IF req[c].prune /\ r \in Branch /\ adv[c][r] = None THEN None ELSE @[r]]]
    /\ Return(c)
    /\ UNCHANGED <<serverVars, exists, cobjs, cshallow, narrow, counts>>

\* The process ends, a request is refused or fails, or its answer is lost.  What
\* was stored stays; an unfinished clone is removed, as clone refuses to go into
\* a directory that is not empty.
Lost(c) ==
    /\ pc[c] # "idle"
    /\ pc[c] = "shallow" => CutBeforeShallow
    /\ Return(c)
    /\ IF req[c].clone
       THEN /\ cobjs' = [cobjs EXCEPT ![c] = {}] /\ cshallow' = [cshallow EXCEPT ![c] = {}]
            /\ crefs' = [crefs EXCEPT ![c] = [r \in DOMAIN @ |-> None]]
            /\ narrow' = [narrow EXCEPT ![c] = FALSE]
       ELSE UNCHANGED <<cobjs, cshallow, crefs, narrow>>
    /\ UNCHANGED <<serverVars, exists, counts>>

-------------------------------------------------------------------------------
(* The rest of the server.                                                 *)

\* A push, or an in-process write: the objects are there before the ref moves.
Push(r, v) ==
    /\ v # srefs[r]
    /\ pushes < MaxPushes /\ pushes' = pushes + 1
    /\ srefs' = [srefs EXCEPT ![r] = v]
    /\ sobjs' = sobjs \cup IF v = None THEN {} ELSE Closure[v]
    /\ UNCHANGED <<cache, repoVars, callVars, calls>>

Gc ==
    /\ GcWhenShallow \/ \A c \in Client : cshallow[c] = {} /\ req[c].depth = NoDepth
    /\ Values(srefs) # {}
    /\ sobjs' = Reachable(Values(srefs))
    /\ UNCHANGED <<srefs, cache, repoVars, callVars, counts>>

\* server.close() empties the cache.
ClearCache ==
    /\ cache # <<>> /\ cache' = <<>>
    /\ UNCHANGED <<sobjs, srefs, repoVars, callVars, counts>>

FetchNext ==
    \/ \E c \in Client :
         \/ \E q \in Options : Start(c, q)
         \/ CloneEmpty(c)
         \/ Serve(c) \/ Build(c) \/ Ingest(c) \/ ApplyShallow(c)
         \/ \E r \in Ref : UpdateRef(c, r)
         \/ FinishClone(c) \/ Follow(c)
         \/ \E t \in Tag : FollowTag(c, t)
         \/ FinishFetch(c) \/ Lost(c)
    \/ \E r \in Ref : \E v \in Tips[r] : Push(r, v)
    \/ Gc \/ ClearCache

FetchSpec == FetchInit /\ [][FetchNext]_fetchVars

-------------------------------------------------------------------------------
(* Properties.                                                             *)

FetchTypeOK ==
    /\ sobjs \subseteq Object /\ srefs \in [Ref -> Object \cup {None}]
    /\ cache \in Seq([key : SUBSET Object, pack : SUBSET Object]) /\ Bytes(cache) <= MaxBytes
    /\ exists \in [Client -> BOOLEAN] /\ narrow \in [Client -> BOOLEAN]
    /\ cobjs \in [Client -> SUBSET Object] /\ cshallow \in [Client -> SUBSET Object]
    /\ crefs \in [Client -> [Ref \cup {Local} -> Object \cup {None}]]
    /\ pc \in [Client -> {"idle", "request", "build", "ingest", "shallow", "refs", "tags"}]
    /\ req \in [Client -> Option] /\ adv \in [Client -> [Ref -> Object \cup {None}]]
    /\ ask \in [Client -> [wants : SUBSET Object, haves : SUBSET Object, depth : Depths \cup {NoDepth},
                          shallow : SUBSET Object, tags : BOOLEAN]]
    /\ reply \in [Client -> [pack : SUBSET Object, shallow : SUBSET Object, unshallow : SUBSET Object]]
    /\ todo \in [Client -> SUBSET Ref]

\* Whatever moved on the server meanwhile and wherever a command was cut off, a
\* client has every object its refs reach, up to the boundary in .git/shallow.
ClientComplete ==
    \A c \in Client :
        Spread(Values(crefs[c]), [o \in Object |-> Step(o, cshallow[c])]) \subseteq cobjs[c]

\* A cached pack serves a client that has nothing: it holds all its wants reach,
\* even when the server has deleted those objects since.
CachedPacksComplete ==
    \A i \in DOMAIN cache : Reachable(cache[i].key) \subseteq cache[i].pack

\* Clients and cache are complete.
FetchesComplete == FetchTypeOK /\ ClientComplete /\ CachedPacksComplete

\* A commit that leaves .git/shallow has its parents now, as ShallowUpdate says.
UnshallowedHaveParents ==
    \A c \in Client : exists[c] =>
       \A s \in cshallow[c] \ cshallow'[c] : Parents[s] \subseteq cobjs'[c]
===============================================================================
