---------------------------- MODULE LocalRepository ---------------------------
(***************************************************************************)
(* A repository on a file system: loose and packed refs, loose objects and *)
(* packs, and gc or repack running next to commands.  A step changes one   *)
(* file; a process may stop after any of them.  A pack is the set of its   *)
(* objects, its .pack and its .idx are two files.  Value 0 of a ref: none. *)
(***************************************************************************)
EXTENDS Naturals, Sequences, FiniteSets

CONSTANTS
    Obj, RefName,
    Below,          \* the objects each object reaches, itself included
    Caller,         \* callers of compareAndSwapRef and deleteRef in one process
    Collector,      \* processes that run gc or repack
    NoRef,
    MaxOps,         \* bound: steps commands begin
    MaxGcs          \* bound: runs of gc and repack

ASSUME DiskAssumption ==
    /\ 0 \notin Obj /\ NoRef \notin RefName
    /\ Below \in [Obj -> SUBSET Obj]

VARIABLES
    loose, packFiles, idxFiles,
    looseRef, packedRef,
    log,            \* objects the reflogs and the indexes name
    swap,           \* of every caller: [pc, ref, old, new], and the packed-refs it read
    queue,          \* casLocks: the callers in line for a ref
    gc,             \* of every gc: [pc, snap, todo, new]
    ops, gcs,
    written, last,  \* history: objects stored, the value last given to a ref
    raced           \* history: refs changed by two at a time, or half deleted, and those
                    \* whose packed line somebody wrote over with an older one

objectFiles == <<loose, packFiles, idxFiles>>
refFiles == <<looseRef, packedRef, swap, queue, last, raced>>
diskVars == <<objectFiles, refFiles, log, gc, ops, gcs, written>>

NoValues == [r \in RefName |-> 0]
NoSwap == [pc |-> "idle", ref |-> NoRef, old |-> 0, new |-> 0, seen |-> NoValues]
NoGc == [pc |-> "idle", snap |-> NoValues, todo |-> {}, new |-> {}]

DiskInit ==
    /\ loose = {} /\ packFiles = {} /\ idxFiles = {}
    /\ looseRef = NoValues /\ packedRef = NoValues /\ log = {}
    /\ swap = [c \in Caller |-> NoSwap] /\ queue = [r \in RefName |-> <<>>]
    /\ gc = [g \in Collector |-> NoGc] /\ ops = 0 /\ gcs = 0
    /\ written = {} /\ last = NoValues /\ raced = {}

Packs == packFiles \cap idxFiles
\* What a process finds that looks at the files now.
Stored == loose \cup UNION Packs
\* A loose file hides the packed entry.
Current(r) == IF looseRef[r] # 0 THEN looseRef[r] ELSE packedRef[r]

-------------------------------------------------------------------------------
(* Objects.                                                                *)

Op == ops < MaxOps /\ ops' = ops + 1

Write(o) ==
    /\ Op /\ o \notin loose
    /\ Below[o] \subseteq Stored \cup {o}
    /\ loose' = loose \cup {o} /\ written' = written \cup {o}
    /\ UNCHANGED <<packFiles, idxFiles, refFiles, log, gc, gcs>>

\* A fetched pack, then its index.
IngestPack(P) ==
    /\ UNION {Below[o] : o \in P} \subseteq Stored \cup P
    /\ \/ Op /\ P \notin packFiles /\ packFiles' = packFiles \cup {P}
          /\ UNCHANGED <<idxFiles, written>>
       \/ P \in packFiles \ idxFiles /\ idxFiles' = idxFiles \cup {P}
          /\ written' = written \cup P /\ UNCHANGED <<packFiles, ops>>
    /\ UNCHANGED <<loose, refFiles, log, gc, gcs>>

-------------------------------------------------------------------------------
(* Refs.                                                                   *)

\* The refs whose loose file is gone, and their line in packed-refs not yet.
Unlinked(c) == swap[c].pc \in {"read", "drop"}
Deleting == {swap[c].ref : c \in {d \in Caller : Unlinked(d)}}

\* Does a gc hold a listing of the refs, or a swap the value it read, or is r half deleted?
Busy(r) == \/ \E g \in Collector : gc[g].pc \in {"refs", "unloose"}
           \/ \E c \in Caller : swap[c].pc = "write" /\ swap[c].ref = r
           \/ r \in Deleting

Given(r, o) ==
    /\ last' = [last EXCEPT ![r] = o]
    /\ raced' = IF Busy(r) THEN raced \cup {r} ELSE raced
    /\ log' = IF o = 0 THEN log ELSE log \cup {o}

WriteRef(r, o) ==
    /\ Op /\ o \in written
    /\ looseRef' = [looseRef EXCEPT ![r] = o] /\ Given(r, o)
    /\ UNCHANGED <<objectFiles, packedRef, swap, queue, gc, gcs, written>>

\* deleteRef: the loose file first, then the line of packed-refs.
DeleteLoose(c, r) ==
    /\ Op /\ swap[c].pc = "idle"
    /\ looseRef' = [looseRef EXCEPT ![r] = 0] /\ Given(r, 0)
    /\ swap' = [swap EXCEPT ![c] = [NoSwap EXCEPT !.pc = "read", !.ref = r]]
    /\ UNCHANGED <<objectFiles, packedRef, queue, gc, gcs, written>>

\* Who is done steps out of the line, if it stood in one, and the next one has its turn.
Done(c) ==
    /\ swap' = [swap EXCEPT ![c] = NoSwap]
    /\ queue' = [queue EXCEPT ![swap[c].ref] = IF @ # <<>> /\ Head(@) = c THEN Tail(@) ELSE @]

\* removePackedRef: the file is read as a whole, and later written as a whole, without the
\* line, over what it has become meanwhile.
ReadPacked(c) ==
    /\ swap[c].pc = "read"
    /\ IF packedRef = NoValues THEN Done(c)
       ELSE swap' = [swap EXCEPT ![c].pc = "drop", ![c].seen = packedRef] /\ UNCHANGED queue
    /\ UNCHANGED <<objectFiles, looseRef, packedRef, last, raced, log, gc, ops, gcs, written>>

DropPacked(c) ==
    LET r == swap[c].ref
    IN  /\ swap[c].pc = "drop"
        /\ packedRef' = [swap[c].seen EXCEPT ![r] = 0]
        /\ raced' = raced \cup {q \in RefName \ {r} : packedRef[q] # swap[c].seen[q]}
        /\ Done(c)
        /\ UNCHANGED <<objectFiles, looseRef, last, log, gc, ops, gcs, written>>

\* compareAndSwapRef: a caller waits for those before it, compares, then writes, or deletes.
SwapBegin(c, r, o) ==
    /\ Op /\ swap[c].pc = "idle" /\ o \in written \cup {0}
    /\ swap' = [swap EXCEPT ![c] = [NoSwap EXCEPT !.pc = "wait", !.ref = r, !.old = Current(r), !.new = o]]
    /\ queue' = [queue EXCEPT ![r] = Append(@, c)]
    /\ UNCHANGED <<objectFiles, looseRef, packedRef, last, raced, log, gc, gcs, written>>

\* (Mutant: callers do not wait.)
Turn_any(c) == TRUE

Turn(c) == Head(queue[swap[c].ref]) = c

SwapRead(c) ==
    /\ swap[c].pc = "wait" /\ Turn(c)
    /\ IF Current(swap[c].ref) = swap[c].old
       THEN swap' = [swap EXCEPT ![c].pc = "write"] /\ UNCHANGED queue
       ELSE Done(c)
    /\ raced' = IF swap[c].ref \in Deleting THEN raced \cup {swap[c].ref} ELSE raced
    /\ UNCHANGED <<objectFiles, looseRef, packedRef, last, log, gc, ops, gcs, written>>

SwapWrite(c) ==
    LET r == swap[c].ref
        o == swap[c].new
    IN  /\ swap[c].pc = "write" /\ Turn(c)
        /\ looseRef' = [looseRef EXCEPT ![r] = o]
        /\ last' = [last EXCEPT ![r] = o]
        /\ raced' = IF r \in Deleting \/ \E g \in Collector : gc[g].pc \in {"refs", "unloose"}
                    THEN raced \cup {r} ELSE raced
        /\ log' = IF o = 0 THEN log ELSE log \cup {o}
        /\ IF o = 0 THEN swap' = [swap EXCEPT ![c].pc = "read"] /\ UNCHANGED queue ELSE Done(c)
        /\ UNCHANGED <<objectFiles, packedRef, gc, ops, gcs, written>>

-------------------------------------------------------------------------------
(* gc packs the refs, expires the reflogs and repacks everything; repack   *)
(* does the last part, with or without -a and -d.                          *)

Idle(g) == gc[g].pc = "idle" /\ gcs < MaxGcs /\ gcs' = gcs + 1
Step(g, pc) == gc' = [gc EXCEPT ![g].pc = pc]
KeepRefs == UNCHANGED <<refFiles, ops, written>>

\* (Mutant: only the loose refs are listed.)
Listing_loose == looseRef

\* listRefs.
Listing == [r \in RefName |-> Current(r)]

GcBegin(g) ==
    /\ Idle(g)
    /\ gc' = [gc EXCEPT ![g] = [pc |-> "refs", snap |-> Listing, todo |-> {}, new |-> {}]]
    /\ raced' = raced \cup Deleting
    /\ UNCHANGED <<objectFiles, looseRef, packedRef, swap, queue, last, log, ops, written>>

WritePackedRefs(g) ==
    LET named == {r \in RefName : gc[g].snap[r] # 0}
    IN  /\ gc[g].pc = "refs"
        /\ packedRef' = IF named = {} THEN packedRef ELSE gc[g].snap
        /\ gc' = [gc EXCEPT ![g].pc = "unloose", ![g].todo = named]
        /\ UNCHANGED <<objectFiles, looseRef, swap, queue, last, raced, log, ops, gcs, written>>

RemoveLooseRef(g) ==
    \E r \in gc[g].todo :
        /\ gc[g].pc = "unloose"
        /\ looseRef' = [looseRef EXCEPT ![r] = 0]
        /\ gc' = [gc EXCEPT ![g].todo = @ \ {r}]
        /\ UNCHANGED <<objectFiles, packedRef, swap, queue, last, raced, log, ops, gcs, written>>

\* expireReflogs: the times of the entries are left open.
Expire(g) ==
    /\ gc[g].pc = "unloose" /\ gc[g].todo = {}
    /\ Step(g, "roots") /\ log' \in {log, {}}
    /\ UNCHANGED <<objectFiles, gcs>> /\ KeepRefs

\* collectAllRoots leaves out what is not there.
Roots == (log \cup {Current(r) : r \in RefName}) \cap Stored
Reach(S) == UNION {Below[o] : o \in S}

Enumerate(g, all, cleanup) ==
    LET P == IF all THEN Reach(Roots) ELSE Reach(Roots) \ UNION idxFiles
    IN  /\ \/ gc[g].pc = "roots" /\ all /\ cleanup /\ UNCHANGED gcs
           \/ Idle(g)
        /\ gc' = [gc EXCEPT ![g] =
              IF P = {} THEN NoGc
              ELSE [NoGc EXCEPT !.pc = IF cleanup THEN "pack" ELSE "packOnly", !.new = P]]
        /\ UNCHANGED <<objectFiles, log>> /\ KeepRefs

WritePack(g) ==
    /\ gc[g].pc \in {"pack", "packOnly"}
    /\ packFiles' = packFiles \cup {gc[g].new}
    /\ Step(g, IF gc[g].pc = "pack" THEN "idx" ELSE "idxOnly")
    /\ UNCHANGED <<loose, idxFiles, log, gcs>> /\ KeepRefs

\* With the index there, readdir lists what there is to clean up.
WriteIdx(g) ==
    /\ gc[g].pc \in {"idx", "idxOnly"}
    /\ idxFiles' = idxFiles \cup {gc[g].new}
    /\ gc' = [gc EXCEPT ![g] = IF @.pc = "idxOnly" THEN NoGc
                               ELSE [@ EXCEPT !.pc = "clean", !.todo = idxFiles \ {gc[g].new}]]
    /\ UNCHANGED <<loose, packFiles, log, gcs>> /\ KeepRefs

\* (Mutant: a pack that shares an object with the new one goes.)
Redundant_some(P, new) == P \cap new # {}

Redundant(P, new) == P \subseteq new

\* An old pack goes, its .pack first.
CleanPack(g) ==
    \E P \in gc[g].todo :
        /\ gc[g].pc = "clean"
        /\ IF ~Redundant(P, gc[g].new) \/ P \notin idxFiles
           THEN UNCHANGED <<packFiles, idxFiles>> /\ gc' = [gc EXCEPT ![g].todo = @ \ {P}]
           ELSE IF P \in packFiles
           THEN packFiles' = packFiles \ {P} /\ UNCHANGED <<idxFiles, gc>>
           ELSE idxFiles' = idxFiles \ {P} /\ UNCHANGED packFiles
                /\ gc' = [gc EXCEPT ![g].todo = @ \ {P}]
        /\ UNCHANGED <<loose, log, gcs>> /\ KeepRefs

CleanLoose(g) ==
    /\ gc[g].pc = "clean" /\ gc[g].todo = {}
    /\ \/ \E o \in loose \cap gc[g].new : loose' = loose \ {o} /\ UNCHANGED gc
       \/ loose \cap gc[g].new = {} /\ gc' = [gc EXCEPT ![g] = NoGc] /\ UNCHANGED loose
    /\ UNCHANGED <<packFiles, idxFiles, log, gcs>> /\ KeepRefs

\* A process ends: a gc, or the one with the callers.
ProcessEnds ==
    \/ \E g \in Collector : /\ gc[g].pc # "idle" /\ gc' = [gc EXCEPT ![g] = NoGc]
                     /\ UNCHANGED <<objectFiles, log, gcs>> /\ KeepRefs
    \/ /\ \E c \in Caller : swap[c].pc # "idle"
       /\ swap' = [c \in Caller |-> NoSwap]
       /\ queue' = [r \in RefName |-> <<>>] /\ raced' = raced \cup Deleting
       /\ UNCHANGED <<objectFiles, looseRef, packedRef, last, log, gc, ops, gcs, written>>

Commands ==
    \/ \E o \in Obj : Write(o) \/ \E r \in RefName : WriteRef(r, o)
    \/ \E P \in (SUBSET Obj) \ {{}} : IngestPack(P)
    \/ \E c \in Caller :
          \/ \E r \in RefName : DeleteLoose(c, r) \/ \E o \in Obj \cup {0} : SwapBegin(c, r, o)
          \/ ReadPacked(c) \/ DropPacked(c) \/ SwapRead(c) \/ SwapWrite(c)

Housekeeping ==
    \E g \in Collector :
        \/ GcBegin(g) \/ WritePackedRefs(g) \/ RemoveLooseRef(g) \/ Expire(g)
        \/ \E all, cleanup \in BOOLEAN : Enumerate(g, all, cleanup)
        \/ WritePack(g) \/ WriteIdx(g) \/ CleanPack(g) \/ CleanLoose(g)

DiskNext == Commands \/ Housekeeping \/ ProcessEnds
DiskSpec == DiskInit /\ [][DiskNext]_diskVars

-------------------------------------------------------------------------------
\* Every object that was stored is on disk, as a loose file or in a pack that has its index,
\* wherever two repacks are and wherever one of them is cut off: whoever looks at the
\* files finds it.  (An object store that listed the packs earlier does not look again.)
\* repack.ts 98-187, object-store.ts 110-149.
ObjectsStay == written \subseteq Stored

\* Every ref reads as it was last written or deleted, whichever of its two places that is
\* in and however far gc and deletions of other refs got, but for raced: a ref that two
\* changed at a time or whose deletion was cut off, one that changed while a gc held its
\* listing, and one whose line in packed-refs changed between the moment a deletion of
\* another ref read that file and the moment it wrote it back.  These the code may lose
\* or bring back.  refs.ts 179-264, 340-378, 551-600.
RefsAsWritten == \A r \in RefName \ (raced \cup Deleting) : Current(r) = last[r]

\* A swap overwrites, or deletes, the value it compared with, whatever other swaps and
\* deletions of the same process are under way.  refs.ts 266-308.
SwapFromExpected ==
    \A c \in Caller :
       SwapWrite(c) => Current(swap[c].ref) = swap[c].old \/ swap[c].ref \in raced

\* A repository on disk loses nothing that was stored, reads back every ref as it was
\* written, and swaps a ref from the value it was expected to have.
DiskKeepsAll == [](ObjectsStay /\ RefsAsWritten) /\ [][SwapFromExpected]_diskVars
===============================================================================
