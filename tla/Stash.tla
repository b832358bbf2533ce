--------------------------------- MODULE Stash --------------------------------
(***************************************************************************)
(* git stash: push, with and without untracked files, apply, pop, drop and *)
(* clear, on a working tree where files are edited, staged and committed.  *)
(* The stack is the reflog of refs/stash, its newest entry last.  A tree   *)
(* gives every file a content or Absent.                                   *)
(***************************************************************************)
EXTENDS Naturals, Sequences, SequencesExt

CONSTANTS
    File, Content,
    Absent, Marker, \* no file; what a conflict leaves in one
    MaxStash,       \* bound: entries of the stack
    MaxEdits        \* bound: what the user does to files

VARIABLES
    headTree,       \* the tree of HEAD
    index, conflicted,  \* stage 0, and the files with other stages
    work,           \* the files
    merging,        \* is there a MERGE_HEAD or a CHERRY_PICK_HEAD
    stack,          \* logs/refs/stash: [base, index, work, untracked]
    stashRef,       \* refs/stash: an entry, or Absent
    pc,             \* "idle", or what is left to do: "top", "reset", "drop", "shrink" or
                    \* "unlog"
    at,             \* the entry the command is about
    crashed,        \* was the last change of the stack cut off
    edits

files == <<headTree, index, conflicted, work, merging>>
vars == <<files, stack, stashRef, pc, at, crashed, edits>>

Tree == [File -> Content \cup {Absent, Marker}]
NoFiles == [p \in File |-> Absent]

Init ==
    /\ headTree \in [File -> Content \cup {Absent}]
    /\ index = headTree /\ work = headTree /\ conflicted = {}
    /\ merging \in BOOLEAN
    /\ stack = <<>> /\ stashRef = Absent
    /\ pc = "idle" /\ at = 0 /\ crashed = FALSE /\ edits = 0

Goto(p, k) == pc' = p /\ at' = k

-------------------------------------------------------------------------------
(* saveStash.                                                              *)

Untracked == {p \in File : work[p] # Absent /\ index[p] = Absent}

HasChanges(u) ==
    \/ index # headTree
    \/ \E p \in File : index[p] # Absent /\ work[p] # index[p]
    \/ u /\ Untracked # {}

\* (Mutant: only files of the index are taken.)
Snapshot_indexOnly ==
    [p \in File |-> IF index[p] = Absent THEN Absent
                    ELSE IF work[p] = Absent /\ headTree[p] = Absent THEN index[p] ELSE work[p]]

\* The tree of the entry: files of the index or of HEAD as they are on disk; one
\* that is only in the index is taken from there.
Snapshot ==
    [p \in File |->
        IF work[p] = Absent /\ headTree[p] = Absent THEN index[p]
        ELSE IF index[p] = Absent /\ headTree[p] = Absent THEN Absent ELSE work[p]]

\* The entry goes onto the reflog, then the ref is moved.
Push(u) ==
    /\ pc = "idle" /\ conflicted = {} /\ HasChanges(u) /\ Len(stack) < MaxStash
    /\ stack' = Append(stack,
          [base |-> headTree, index |-> index, work |-> Snapshot,
           untracked |-> IF u THEN [p \in File |-> IF p \in Untracked THEN work[p] ELSE Absent]
                         ELSE NoFiles])
    /\ Goto("top", Len(stack) + 1)
    /\ UNCHANGED <<files, stashRef, crashed, edits>>

PushRef ==
    /\ pc = "top"
    /\ stashRef' = stack[at]
    /\ Goto("reset", at) /\ crashed' = FALSE
    /\ UNCHANGED <<files, stack, edits>>

\* resetHard, and untracked files that were taken are deleted.
PushReset ==
    /\ pc = "reset"
    /\ index' = headTree /\ conflicted' = {} /\ merging' = FALSE
    /\ work' = [p \in File |->
          IF headTree[p] # Absent \/ index[p] # Absent \/ stack[at].untracked[p] # Absent
          THEN headTree[p] ELSE work[p]]
    /\ Goto("idle", 0)
    /\ UNCHANGED <<headTree, stack, stashRef, crashed, edits>>

-------------------------------------------------------------------------------
(* applyStash: base is what the stash was made on, ours is the index.      *)

Entry(k) == stack[Len(stack) - k]

MergedFile(b, o, t) ==
    CASE o = t \/ b = t -> o
      [] b = o -> t
      [] OTHER -> IF Absent \in {o, t} THEN (IF o = Absent THEN t ELSE o) ELSE Marker

ConflictFile(b, o, t) == o # t /\ b # t /\ b # o

\* What applying e would write, over the file or the absence in the index.
Writes(e) ==
    {p \in File : MergedFile(e.base[p], index[p], e.work[p]) # index[p]}

\* (Mutant: untracked files are not looked at.)
Overwritten_trackedOnly(e) ==
    {p \in Writes(e) : index[p] # Absent /\ work[p] \notin {Absent, index[p]}}

\* Local changes that are in the way: edited files, and untracked ones.
Overwritten(e) ==
    {p \in Writes(e) : work[p] \notin {Absent, index[p]}}

\* restoreUntrackedFiles: those whose place is taken are reported, the others come back.
Restored(e, w) == [p \in File |-> IF w[p] = Absent THEN e.untracked[p] ELSE w[p]]
Taken(e, w) == {p \in File : e.untracked[p] # Absent /\ w[p] # Absent}

\* Merge and index of an application that is not in the way of local changes.  A
\* clean one stages new files only.
Merge(e) ==
    LET conf == {p \in File : ConflictFile(e.base[p], index[p], e.work[p])}
        merged == [p \in File |-> MergedFile(e.base[p], index[p], e.work[p])]
        w == [p \in File |-> IF p \in Writes(e) THEN merged[p] ELSE work[p]]
    IN /\ work' = Restored(e, w)
       /\ conflicted' = conf
       /\ index' = [p \in File |-> IF p \in conf THEN index[p]
                                   ELSE IF conf # {} \/ index[p] = Absent
                                   THEN merged[p] ELSE index[p]]

\* (Mutant: pop drops the entry although untracked files were in its way.)
Succeeds_tracked(e) ==
    /\ e.base = e.work \/ Overwritten(e) = {}
    /\ \A p \in File : e.base # e.work => ~ConflictFile(e.base[p], index[p], e.work[p])

\* Did it apply, without conflicts, down to the untracked files.
Succeeds(e) ==
    /\ e.base = e.work \/ Overwritten(e) = {}
    /\ \A p \in File : e.base # e.work => ~ConflictFile(e.base[p], index[p], e.work[p])
    /\ LET w == [p \in File |-> IF e.base # e.work /\ p \in Writes(e)
                                THEN MergedFile(e.base[p], index[p], e.work[p]) ELSE work[p]]
       IN Taken(e, w) = {}

\* apply and pop; pop goes on to drop the entry where it succeeded.
Apply(k, pop) ==
    /\ pc = "idle" /\ k < Len(stack) /\ conflicted = {}
    /\ IF Entry(k).base # Entry(k).work /\ Overwritten(Entry(k)) = {} THEN Merge(Entry(k))
       ELSE work' = Restored(Entry(k), work) /\ UNCHANGED <<index, conflicted>>
    /\ IF pop /\ Succeeds(Entry(k)) THEN Goto("drop", k) ELSE UNCHANGED <<pc, at>>
    /\ UNCHANGED <<headTree, merging, stack, stashRef, crashed, edits>>

-------------------------------------------------------------------------------
(* dropStash and clearStashes.                                             *)

\* The reflog is rewritten without the entry; with the last one the ref goes first.
DropEntry(k) ==
    /\ IF Len(stack) = 1 THEN stashRef' = Absent /\ Goto("unlog", k) /\ UNCHANGED stack
       ELSE /\ stack' = RemoveAt(stack, Len(stack) - k)
            /\ Goto("shrink", k) /\ UNCHANGED stashRef
    /\ UNCHANGED <<files, crashed, edits>>

Drop(k) ==
    /\ k < Len(stack)
    /\ pc = "idle" \/ (pc = "drop" /\ at = k)
    /\ DropEntry(k)

\* (Mutant: the ref is left where it is.)
DropRef_stays ==
    /\ pc = "shrink"
    /\ Goto("idle", 0) /\ crashed' = FALSE
    /\ UNCHANGED <<files, stack, stashRef, edits>>

DropRef ==
    /\ pc = "shrink"
    /\ stashRef' = Last(stack)
    /\ Goto("idle", 0) /\ crashed' = FALSE
    /\ UNCHANGED <<files, stack, edits>>

Clear ==
    /\ pc = "idle" /\ stack # <<>>
    /\ stashRef' = Absent /\ Goto("unlog", 0)
    /\ UNCHANGED <<files, stack, crashed, edits>>

DeleteReflog ==
    /\ pc = "unlog"
    /\ stack' = <<>>
    /\ Goto("idle", 0) /\ crashed' = FALSE
    /\ UNCHANGED <<files, stashRef, edits>>

\* The command is cut off.
Crash ==
    /\ pc # "idle" /\ Goto("idle", 0)
    /\ crashed' = (crashed \/ pc \in {"top", "shrink", "unlog"})
    /\ UNCHANGED <<files, stack, stashRef, edits>>

-------------------------------------------------------------------------------
(* The user.                                                               *)

Edit(p, c) ==
    /\ work[p] # c /\ work' = [work EXCEPT ![p] = c]
    /\ UNCHANGED <<headTree, index, conflicted, merging>>

Add(p) ==
    /\ index[p] # work[p] \/ p \in conflicted
    /\ index' = [index EXCEPT ![p] = work[p]] /\ conflicted' = conflicted \ {p}
    /\ UNCHANGED <<headTree, work, merging>>

RmCached(p) ==
    /\ index[p] # Absent /\ index' = [index EXCEPT ![p] = Absent]
    /\ conflicted' = conflicted \ {p}
    /\ UNCHANGED <<headTree, work, merging>>

Commit ==
    /\ conflicted = {} /\ index # headTree
    /\ headTree' = index /\ merging' = FALSE
    /\ UNCHANGED <<index, conflicted, work>>

User ==
    /\ pc = "idle" /\ edits < MaxEdits /\ edits' = edits + 1
    /\ \/ \E p \in File, c \in Content \cup {Absent} : Edit(p, c)
       \/ \E p \in File : Add(p) \/ RmCached(p)
       \/ Commit
    /\ UNCHANGED <<stack, stashRef, pc, at, crashed>>

Next ==
    \/ \E u \in BOOLEAN : Push(u)
    \/ PushRef \/ PushReset
    \/ \E k \in 0..MaxStash - 1 : Drop(k) \/ \E pop \in BOOLEAN : Apply(k, pop)
    \/ DropRef \/ Clear \/ DeleteReflog \/ Crash
    \/ User

Spec == Init /\ [][Next]_vars

-------------------------------------------------------------------------------
(* Properties.                                                             *)

\* What a push takes away is in the entry: every content it removes from the
\* files or from the index, even where the same file is staged otherwise, was
\* taken out of the index only, or is untracked.
PushKeepsAll ==
    pc = "reset" /\ pc' = "idle" /\ at' = 0 =>
       \A p \in File :
          /\ work'[p] # work[p] /\ work[p] # Absent =>
                work[p] \in {stack[at].work[p], stack[at].untracked[p]}
          /\ index'[p] # index[p] => stack[at].index[p] = index[p]

\* Applying a stash leaves alone every file with changes of its own, tracked or
\* not, whether it succeeds or not.
ApplyKeepsLocal ==
    \A p \in File :
       pc = "idle" /\ edits' = edits /\ work'[p] # work[p] => work[p] \in {Absent, index[p]}

\* An entry is dropped by a pop only when all it held is in the files: what it had
\* changed and the untracked files it had taken.
PopDropsOnlyApplied ==
    pc = "drop" /\ pc' \in {"shrink", "unlog"} =>
       \A p \in File :
          /\ Entry(at).untracked[p] \in {Absent, work[p]}
          /\ Entry(at).work[p] # Entry(at).base[p] => Entry(at).work[p] \in {work[p], index[p]}

\* refs/stash is the newest entry whenever no command is under way; after one
\* that was cut off, the next change of the stack makes it so again.
RefIsTop ==
    pc = "idle" /\ ~crashed => stashRef = IF stack = <<>> THEN Absent ELSE Last(stack)

-------------------------------------------------------------------------------
(* Why: invariants that imply the properties.                                *)

\* A file that is deleted in what an entry holds was not taken as untracked, unless HEAD
\* had none either.
EntryOk(e) ==
    \A p \in File : e.untracked[p] # Absent /\ e.work[p] = Absent => e.base[p] = Absent

StashTypes ==
    /\ headTree \in Tree /\ index \in Tree /\ work \in Tree
    /\ stack \in Seq([base : Tree, index : Tree, work : Tree, untracked : Tree])
    /\ \A k \in DOMAIN stack : EntryOk(stack[k])
    /\ pc \in {"idle", "top", "reset", "drop", "shrink", "unlog"}
    /\ at \in Nat /\ edits \in Nat /\ crashed \in BOOLEAN

\* A push has put all that it takes away into the newest entry.
PushedAll ==
    pc \in {"top", "reset"} =>
       /\ stack # <<>> /\ at = Len(stack)
       /\ LET e == stack[at]
          IN /\ e.base = headTree /\ e.index = index /\ e.work = Snapshot
             /\ e.untracked \in {NoFiles, [p \in File |-> IF p \in Untracked THEN work[p] ELSE Absent]}

\* A pop that goes on has all that the entry held in the files.
AppliedAll ==
    pc = "drop" =>
       /\ at < Len(stack)
       /\ \A p \in File :
             /\ Entry(at).untracked[p] \in {Absent, work[p]}
             /\ Entry(at).work[p] # Entry(at).base[p] => Entry(at).work[p] \in {work[p], index[p]}

\* Where refs/stash is while the stack is changed.
RefFollows ==
    /\ RefIsTop
    /\ pc \in {"reset", "drop"} /\ ~crashed => stack # <<>> /\ stashRef = Last(stack)
    /\ pc = "shrink" => stack # <<>>
    /\ pc = "unlog" => stashRef = Absent
===============================================================================
