-------------------------- MODULE WorkingCopy_proofs --------------------------
(***************************************************************************)
(* Theorems about the working copy, for any files, contents, histories and *)
(* bounds.                                                                 *)
(***************************************************************************)
EXTENDS WorkingCopy, SequenceTheorems, TLAPS

-------------------------------------------------------------------------------
(* Unpacking trees, one path at a time.                                    *)

\* A decision that leaves files alone, or that the preconditions allow, replaces
\* known content only.
LEMMA DecisionsReplaceKnown ==
    ASSUME NEW d, NEW p, NEW idx, NEW file, NEW new, NEW old
    PROVE  /\ d \in {Keep, Skip, Reject, SkipUnlessUntracked}
                => ResultFile(d, idx, file, new, FALSE) = file
           /\ d \in {Take("uptodate"), Delete("uptodate")}
                /\ checkSingleRequirement(d, p, idx, file, old)
                => Known(p, idx, file)
           /\ d = Take("no_untracked") /\ Stage0(idx) = Absent
                /\ checkSingleRequirement(d, p, idx, file, old)
                => Known(p, idx, file)
<1>1. ASSUME d \in {Keep, Skip, Reject, SkipUnlessUntracked}
      PROVE  ResultFile(d, idx, file, new, FALSE) = file
  <2>1. d.action \in {"keep", "skip"}
    BY <1>1 DEF Keep, Skip, SkipUnlessUntracked, Reject
  <2> QED
    BY <2>1 DEF ResultFile
<1>2. ASSUME d \in {Take("uptodate"), Delete("uptodate")},
             checkSingleRequirement(d, p, idx, file, old)
      PROVE  Known(p, idx, file)
  <2>1. d.requires = "uptodate"
    BY <1>2 DEF Take, Delete
  <2>2. UpToDate(idx, file)
    BY <1>2, <2>1 DEF checkSingleRequirement
  <2> QED
    BY <2>2 DEF UpToDate, Known, Stage0
<1>3. ASSUME d = Take("no_untracked"), Stage0(idx) = Absent,
             checkSingleRequirement(d, p, idx, file, old)
      PROVE  Known(p, idx, file)
  <2>1. d.requires = "no_untracked"
    BY <1>3 DEF Take
  <2>2. NoUntracked(p, idx, file)
    BY <1>3, <2>1 DEF checkSingleRequirement
  <2> QED
    BY <1>3, <2>2 DEF NoUntracked, Known, Stage0
<1> QED
  BY <1>1, <1>2, <1>3

\* The two-way table with the preconditions replaces known content only; where
\* staged changes are allowed it takes the one-way preflight as well.
LEMMA TwowayReplacesKnown ==
    ASSUME NEW p, NEW old, NEW new, NEW idx, NEW file, NEW allow \in BOOLEAN,
           checkSingleRequirement(twowayMerge(old, new, idx, allow), p, idx, file, old),
           allow => checkSingleRequirement(onewayMerge(idx, new, FALSE, FALSE),
                                           p, idx, file, new),
           ResultFile(twowayMerge(old, new, idx, allow), idx, file, new, FALSE) # file
    PROVE  Known(p, idx, file)
<1> DEFINE d == twowayMerge(old, new, idx, allow)
           e == onewayMerge(idx, new, FALSE, FALSE)
<1> USE DecisionsReplaceKnown
<1>1. CASE idx = Unmerged
  BY <1>1 DEF Known
<1>2. CASE idx = Absent /\ idx # Unmerged
  <2>1. d = twowayUnstaged(old, new, allow)
    BY <1>2 DEF twowayMerge
  <2>2. \/ d \in {Keep, Skip, Reject, SkipUnlessUntracked,
                   Take("no_untracked")}
        \/ d = Take("nothing") /\ allow /\ new # Absent
    BY <2>1 DEF twowayUnstaged
  <2>3. new # Absent => e = Take("no_untracked")
    BY <1>2 DEF onewayMerge, Stage0
  <2>4. Stage0(idx) = Absent
    BY <1>2 DEF Stage0
  <2> QED
    BY <2>2, <2>3, <2>4, ZenonT(60)
<1>3. CASE idx \notin {Absent, Unmerged}
  <2>1. \/ d \in {Keep, Reject, Delete("uptodate"), Take("uptodate")}
        \/ d \in {Take("nothing"), Delete("nothing")} /\ allow /\ idx # new
    BY <1>3 DEF twowayMerge, TakeOrDelete
  <2>2. idx # new => e \in {Delete("uptodate"), Take("uptodate")}
    BY <1>3 DEF onewayMerge, Stage0
  <2> QED
    BY <2>1, <2>2, ZenonT(60)
<1> QED
  BY <1>1, <1>2, <1>3

\* So does the one-way table, for a path without conflict stages.
LEMMA OnewayReplacesKnown ==
    ASSUME NEW p, NEW new, NEW idx, NEW file, NEW old,
           checkSingleRequirement(onewayMerge(idx, new, FALSE, FALSE), p, idx, file, old),
           ResultFile(onewayMerge(idx, new, FALSE, FALSE), idx, file, new, FALSE) # file
    PROVE  Known(p, idx, file)
<1> DEFINE d == onewayMerge(idx, new, FALSE, FALSE)
<1>1. \/ d \in {Skip, Keep, Delete("uptodate"), Take("uptodate")}
      \/ d = Take("no_untracked") /\ Stage0(idx) = Absent
  BY DEF onewayMerge
<1> QED
  BY <1>1, DecisionsReplaceKnown, ZenonT(60)

\* A checkout that is not refused replaces known content only.
LEMMA CheckoutReplacesKnown ==
    ASSUME NEW old, NEW new, NEW idx, NEW files, NEW allow \in BOOLEAN,
           checkoutTrees(old, new, idx, files, allow).ok,
           allow => \A p \in Path :
              checkSingleRequirement(onewayMerge(idx[p], new[p], FALSE, FALSE),
                                     p, idx[p], files[p], new[p])
    PROVE  \A p \in Path : checkoutTrees(old, new, idx, files, allow).wt[p] # files[p]
              => Known(p, idx[p], files[p])
<1> SUFFICES ASSUME NEW p \in Path,
                    checkoutTrees(old, new, idx, files, allow).wt[p] # files[p]
             PROVE  Known(p, idx[p], files[p])
  OBVIOUS
<1> DEFINE d == twowayMerge(old[p], new[p], idx[p], allow)
<1>1. checkSingleRequirement(d, p, idx[p], files[p], old[p])
  BY DEF checkoutTrees, unpackTrees
<1>2. ResultFile(d, idx[p], files[p], new[p], FALSE) # files[p]
  BY DEF checkoutTrees, unpackTrees
<1> HIDE DEF d
<1> QED
  BY <1>1, <1>2, TwowayReplacesKnown DEF d

\* Applying the result of a merge replaces known content only, refused or not.
LEMMA ApplyReplacesKnown ==
    ASSUME NEW m, NEW stagedCheck \in BOOLEAN, NEW noCommit \in BOOLEAN
    PROVE  \A p \in Path : applyMergeResult(m, stagedCheck, noCommit).wt[p] # wt[p]
              => Known(p, index[p], wt[p])
<1> DEFINE r == checkoutTrees(HeadTree, m.tree, index, wt, noCommit)
           refused == (stagedCheck /\ hasStagedChanges) \/ (noCommit /\ ~Preflight(m)) \/ ~r.ok
<1>1. CASE refused
  <2>1. applyMergeResult(m, stagedCheck, noCommit).wt = restoreStagedAdditions
    BY <1>1 DEF applyMergeResult
  <2> QED
    BY <2>1 DEF restoreStagedAdditions, Known
<1>2. CASE ~refused
  <2>1. applyMergeResult(m, stagedCheck, noCommit).wt = r.wt
    BY <1>2 DEF applyMergeResult
  <2>2. r.ok /\ (noCommit => Preflight(m))
    BY <1>2
  <2>3. noCommit => \A p \in Path :
            checkSingleRequirement(onewayMerge(index[p], m.tree[p], FALSE, FALSE),
                                   p, index[p], wt[p], m.tree[p])
    BY <2>2 DEF Preflight
  <2>4. \A p \in Path : r.wt[p] # wt[p] => Known(p, index[p], wt[p])
    BY <2>2, <2>3, CheckoutReplacesKnown, ZenonT(60)
  <2> QED
    BY <2>1, <2>4
<1> QED
  BY <1>1, <1>2

\* So does an abort that is not refused.
LEMMA AbortReplacesKnown ==
    ASSUME NEW new, mergeAbort(new, index, wt).ok
    PROVE  \A p \in Path : mergeAbort(new, index, wt).wt[p] # wt[p]
              => Known(p, index[p], wt[p])
<1> SUFFICES ASSUME NEW p \in Path, mergeAbort(new, index, wt).wt[p] # wt[p],
                    index[p] # Unmerged
             PROVE  Known(p, index[p], wt[p])
  BY DEF Known
<1> DEFINE d == onewayMerge(index[p], new[p], FALSE, FALSE)
<1>1. Stage0(index[p]) = index[p] /\ ~Orphaned(new, index, p)
  BY DEF Stage0, Orphaned
<1>2. checkSingleRequirement(d, p, index[p], wt[p], new[p])
  BY <1>1 DEF mergeAbort, unpackTrees
<1>3. ResultFile(d, index[p], wt[p], new[p], FALSE) # wt[p]
  BY <1>1 DEF mergeAbort, unpackTrees
<1> HIDE DEF d
<1> QED
  BY <1>2, <1>3, OnewayReplacesKnown DEF d

-------------------------------------------------------------------------------
(* Commands.                                                               *)

\* git merge replaces known content only, however it ends.
LEMMA MergeKeepsLocal ==
    ASSUME NEW b \in Branch, Merge(b)
    PROVE  OnlyKnownReplaced
<1> USE DEF OnlyKnownReplaced
<1>1. ASSUME NEW squash \in BOOLEAN, handleFastForward(b, squash)
      PROVE  OnlyKnownReplaced
  <2> DEFINE r == checkoutTrees(HeadTree, commits[branch[b]].tree, index, wt, FALSE)
  <2>1. (r.ok /\ wt' = r.wt) \/ wt' = wt
    BY <1>1 DEF handleFastForward
  <2>2. r.ok => \A p \in Path : r.wt[p] # wt[p] => Known(p, index[p], wt[p])
    BY CheckoutReplacesKnown
  <2> QED
    BY <2>1, <2>2
<1>2. ASSUME NEW noFf \in BOOLEAN,
             MergeRefused(b, noFf) \/ MergeConflicts(b, noFf) \/ MergeClean(b, noFf)
      PROVE  OnlyKnownReplaced
  <2>1. \E m : wt' = applyMergeResult(m, TRUE, FALSE).wt
    BY <1>2 DEF MergeRefused, MergeConflicts, MergeClean
  <2> QED
    BY <2>1, ApplyReplacesKnown
<1>3. ASSUME handleSquashMerge(b)
      PROVE  OnlyKnownReplaced
  <2>1. \E m : wt' = applyMergeResult(m, TRUE, FALSE).wt
    BY <1>3 DEF handleSquashMerge
  <2> QED
    BY <2>1, ApplyReplacesKnown
<1>4. MergeUpToDate(b) => OnlyKnownReplaced
  BY DEF MergeUpToDate
<1> QED
  BY <1>1, <1>2, <1>3, <1>4 DEF Merge

\* So do git cherry-pick and git revert, with -n and without.
LEMMA ReplayKeepsLocal ==
    ASSUME (\E c \in DOMAIN commits : Replay(c)) \/ NoCommitPick \/ NoCommitRevert
    PROVE  OnlyKnownReplaced
<1>1. PICK c \in DOMAIN commits, noCommit \in BOOLEAN :
        \/ PickEmpty(c) \/ RevertEmpty(c)
        \/ PickRefused(c, noCommit) \/ PickConflicts(c, noCommit) \/ PickClean(c, noCommit)
        \/ RevertRefused(c, noCommit) \/ RevertPending(c, noCommit) \/ RevertClean(c)
  BY DEF Replay, NoCommitPick, NoCommitRevert
<1>2. CASE PickEmpty(c) \/ RevertEmpty(c)
  BY <1>2 DEF PickEmpty, RevertEmpty, OnlyKnownReplaced
<1>3. CASE PickRefused(c, noCommit) \/ PickConflicts(c, noCommit) \/ PickClean(c, noCommit)
  <2>1. \E m : wt' = applyMergeResult(m, FALSE, noCommit).wt
    BY <1>3 DEF PickRefused, PickConflicts, PickClean
  <2> QED
    BY <2>1, ApplyReplacesKnown DEF OnlyKnownReplaced
<1>4. CASE RevertRefused(c, noCommit) \/ RevertPending(c, noCommit) \/ RevertClean(c)
  <2>1. \E m : wt' = applyMergeResult(m, FALSE, FALSE).wt
    BY <1>4 DEF RevertRefused, RevertPending, RevertClean
  <2> QED
    BY <2>1, ApplyReplacesKnown DEF OnlyKnownReplaced
<1> QED
  BY <1>1, <1>2, <1>3, <1>4

\* So do --abort and --skip.
LEMMA AbortKeepsLocal ==
    ASSUME Abort
    PROVE  OnlyKnownReplaced
<1>1. PICK cleared : handleOperationAbort(cleared)
  BY DEF Abort, MergeAbort, PickAbort, RevertAbort, RevertSkip
<1>2. mergeAbort(HeadTree, index, wt).ok /\ wt' = mergeAbort(HeadTree, index, wt).wt
  BY <1>1 DEF handleOperationAbort
<1> QED
  BY <1>2, AbortReplacesKnown DEF OnlyKnownReplaced

\* So does switching to another branch.
LEMMA SwitchKeepsLocal ==
    ASSUME NEW b \in Branch, switchBranchCore(b)
    PROVE  OnlyKnownReplaced
<1> DEFINE r == checkoutTrees(HeadTree, commits[branch[b]].tree, index, wt, FALSE)
<1>1. (r.ok /\ wt' = r.wt) \/ wt' = wt
  BY DEF switchBranchCore
<1>2. r.ok => \A p \in Path : r.wt[p] # wt[p] => Known(p, index[p], wt[p])
  BY CheckoutReplacesKnown
<1> QED
  BY <1>1, <1>2 DEF OnlyKnownReplaced

\* What TLC checks on small instances as LocalContentKept, for any files,
\* contents, histories and bounds: no command replaces or deletes a file that
\* git does not know, unless the user asked to discard it.
THEOREM LocalFilesSafe == Spec => LocalContentKept
<1>1. ASSUME [Next]_vars
      PROVE  OnlyKnownReplaced \/ Discards \/ UNCHANGED vars
  <2>1. CASE \E b \in Branch : Merge(b) \/ switchBranchCore(b)
    BY <2>1, MergeKeepsLocal, SwitchKeepsLocal
  <2>2. CASE (\E c \in DOMAIN commits : Replay(c)) \/ NoCommitPick \/ NoCommitRevert
    BY <2>2, ReplayKeepsLocal
  <2>3. CASE Abort
    BY <2>3, AbortKeepsLocal
  <2>4. CASE Continue \/ CommitStep
    BY <2>4 DEF Continue, MergeContinue, ReplayContinue, CommitStep, Commit, OnlyKnownReplaced
  <2>5. CASE \E c \in DOMAIN commits, mode \in {"soft", "mixed", "hard"} : resetToCommit(c, mode)
    <3>1. PICK c \in DOMAIN commits, mode \in {"soft", "mixed", "hard"} : resetToCommit(c, mode)
      BY <2>5
    <3>2. CASE mode = "hard"
      BY <3>1, <3>2 DEF Discards
    <3>3. CASE mode # "hard"
      BY <3>1, <3>3 DEF resetToCommit, OnlyKnownReplaced
    <3> QED
      BY <3>2, <3>3
  <2>6. CASE \E p \in Path : UserStep(p)
    <3>1. PICK p \in Path : UserStep(p)
      BY <2>6
    <3>2. CASE Add(p)
      BY <3>2 DEF Add, OnlyKnownReplaced
    <3>3. CASE restoreFiles(p) \/ \E c \in Mine \cup {Absent} : Edit(p, c)
      BY <3>3 DEF Discards
    <3> QED
      BY <3>1, <3>2, <3>3 DEF UserStep
  <2> QED
    BY <1>1, <2>1, <2>2, <2>3, <2>4, <2>5, <2>6 DEF Next
<1> QED
  BY <1>1, PTL DEF Spec, LocalContentKept

-------------------------------------------------------------------------------
(* Work that is not committed.                                             *)

\* Where a two-way step without leave to overwrite what is staged replaces a
\* file or an index entry, the tree it comes from had it.
LEMMA TwowayKeepsUncommitted ==
    ASSUME NEW p, NEW old, NEW new, NEW idx, NEW file, NEW allow \in BOOLEAN,
           ~allow, idx # Unmerged,
           checkSingleRequirement(twowayMerge(old, new, idx, allow), p, idx, file, old)
    PROVE  /\ ResultFile(twowayMerge(old, new, idx, allow), idx, file, new, FALSE) # file
                => Committed(p, idx, file, old)
           /\ ResultEntry(twowayMerge(old, new, idx, allow), idx, new) # idx => Settled(idx, old)
<1> DEFINE d == twowayMerge(old, new, idx, allow)
<1>1. Stage0(idx) = idx
  BY DEF Stage0
<1>2. checkSingleRequirement(d, p, idx, file, old)
  OBVIOUS
<1>3. \/ d \in {Skip, SkipUnlessUntracked} /\ idx = Absent
      \/ d = Take("no_untracked") /\ idx = Absent /\ old = Absent
      \/ d \in {Keep, Reject}
      \/ d \in {Delete("uptodate"), Take("uptodate")} /\ idx = old
  BY DEF twowayMerge, twowayUnstaged, TakeOrDelete
<1> SUFFICES /\ ResultFile(d, idx, file, new, FALSE) # file
                  => Committed(p, idx, file, old)
             /\ ResultEntry(d, idx, new) # idx => Settled(idx, old)
  OBVIOUS
<1> HIDE DEF d
<1>4. CASE d \in {Skip, SkipUnlessUntracked} /\ idx = Absent
  <2>1. d.action = "skip"
    BY <1>4 DEF Skip, SkipUnlessUntracked
  <2> QED
    BY <1>4, <2>1 DEF ResultFile, ResultEntry, Settled
<1>5. CASE d = Take("no_untracked") /\ idx = Absent /\ old = Absent
  <2>1. NoUntracked(p, idx, file)
    BY <1>2, <1>5 DEF checkSingleRequirement, Take
  <2> QED
    BY <1>1, <1>5, <2>1 DEF NoUntracked, Committed, Settled
<1>6. CASE d \in {Keep, Reject}
  <2>1. d.action = "keep"
    BY <1>6 DEF Keep, Reject
  <2> QED
    BY <1>1, <2>1 DEF ResultFile, ResultEntry, Settled
<1>7. CASE d \in {Delete("uptodate"), Take("uptodate")} /\ idx = old
  <2>1. d.requires = "uptodate"
    BY <1>7 DEF Take, Delete
  <2>2. UpToDate(idx, file)
    BY <1>2, <2>1 DEF checkSingleRequirement
  <2> QED
    BY <1>1, <1>7, <2>2 DEF UpToDate, Committed, Settled
<1> QED
  BY <1>3, <1>4, <1>5, <1>6, <1>7

\* A checkout from HEAD that is not refused.
LEMMA CheckoutKeepsUncommitted ==
    ASSUME NEW new, ~hasConflicts, checkoutTrees(HeadTree, new, index, wt, FALSE).ok
    PROVE  \A p \in Path :
              /\ checkoutTrees(HeadTree, new, index, wt, FALSE).wt[p] # wt[p]
                   => Committed(p, index[p], wt[p], HeadTree[p])
              /\ checkoutTrees(HeadTree, new, index, wt, FALSE).index[p] # index[p]
                   => Settled(index[p], HeadTree[p])
<1> TAKE p \in Path
<1> DEFINE d == twowayMerge(HeadTree[p], new[p], index[p], FALSE)
           r == checkoutTrees(HeadTree, new, index, wt, FALSE)
<1>1. checkSingleRequirement(d, p, index[p], wt[p], HeadTree[p])
  BY DEF checkoutTrees, unpackTrees
<1>2. r.wt[p] = ResultFile(d, index[p], wt[p], new[p], FALSE)
  BY DEF checkoutTrees, unpackTrees
<1>3. r.index[p] = ResultEntry(d, index[p], new[p])
  BY DEF checkoutTrees, unpackTrees
<1>4. index[p] # Unmerged
  BY DEF hasConflicts
<1>5. ResultFile(d, index[p], wt[p], new[p], FALSE) # wt[p]
        => Committed(p, index[p], wt[p], HeadTree[p])
  BY <1>1, <1>4, TwowayKeepsUncommitted
<1>6. ResultEntry(d, index[p], new[p]) # index[p] => Settled(index[p], HeadTree[p])
  BY <1>1, <1>4, TwowayKeepsUncommitted
<1> QED
  BY <1>2, <1>3, <1>5, <1>6

\* Applying the result of a merge when nothing is staged, or when that is checked.
LEMMA ApplyKeepsUncommitted ==
    ASSUME NEW m, NEW stagedCheck \in BOOLEAN, ~hasConflicts,
           stagedCheck \/ ~hasStagedChanges
    PROVE  /\ \A p \in Path : applyMergeResult(m, stagedCheck, FALSE).wt[p] # wt[p]
                => Committed(p, index[p], wt[p], HeadTree[p])
           /\ applyMergeResult(m, stagedCheck, FALSE).ok
                => \A p \in Path : Settled(index[p], HeadTree[p])
<1> DEFINE r == checkoutTrees(HeadTree, m.tree, index, wt, FALSE)
           refused == (stagedCheck /\ hasStagedChanges) \/ ~r.ok
<1>1. CASE refused
  <2> DEFINE a == applyMergeResult(m, stagedCheck, FALSE)
  <2>1. ~a.ok /\ a.wt = restoreStagedAdditions
    BY <1>1 DEF applyMergeResult
  <2>2. \A p \in Path : restoreStagedAdditions[p] # wt[p] => wt[p] = Absent
    BY DEF restoreStagedAdditions
  <2> HIDE DEF a
  <2>3. \A p \in Path : a.wt[p] # wt[p] => wt[p] = Absent
    BY <2>1, <2>2
  <2> QED
    BY <2>1, <2>3 DEF a, Committed
<1>2. CASE ~refused
  <2>1. applyMergeResult(m, stagedCheck, FALSE).wt = r.wt
    BY <1>2 DEF applyMergeResult
  <2>2. r.ok /\ ~hasStagedChanges
    BY <1>2
  <2>3. \A p \in Path : r.wt[p] # wt[p]
          => Committed(p, index[p], wt[p], HeadTree[p])
    BY <2>2, CheckoutKeepsUncommitted
  <2>4. \A p \in Path : Settled(index[p], HeadTree[p])
    BY <2>2 DEF Settled, hasStagedChanges, hasConflicts, TreeOf, Stage0
  <2> QED
    BY <2>1, <2>3, <2>4
<1> QED
  BY <1>1, <1>2

\* git merge replaces committed content only, in files and in the index.
LEMMA MergeKeepsUncommitted ==
    ASSUME NEW b \in Branch, Merge(b)
    PROVE  OnlyCommittedReplaced /\ OnlyCommittedUnstaged
<1> USE DEF OnlyCommittedReplaced, OnlyCommittedUnstaged
<1>1. ASSUME NEW squash \in BOOLEAN, handleFastForward(b, squash)
      PROVE  OnlyCommittedReplaced /\ OnlyCommittedUnstaged
  <2> DEFINE r == checkoutTrees(HeadTree, commits[branch[b]].tree, index, wt, FALSE)
  <2>1. (r.ok /\ wt' = r.wt /\ index' = r.index) \/ (wt' = wt /\ index' = index)
    BY <1>1 DEF handleFastForward
  <2>2. ~hasConflicts
    BY <1>1 DEF handleFastForward, MergeAllowed
  <2> HIDE DEF r
  <2> QED
    BY <2>1, <2>2, CheckoutKeepsUncommitted DEF r
<1>2. ASSUME NEW noFf \in BOOLEAN,
             \/ MergeRefused(b, noFf) \/ MergeConflicts(b, noFf) \/ MergeClean(b, noFf)
             \/ handleSquashMerge(b)
      PROVE  OnlyCommittedReplaced /\ OnlyCommittedUnstaged
  <2>1. \E m : LET r == applyMergeResult(m, TRUE, FALSE)
               IN wt' = r.wt /\ (r.ok \/ index' = index)
    BY <1>2 DEF MergeRefused, MergeConflicts, MergeClean, handleSquashMerge
  <2>2. ~hasConflicts
    BY <1>2 DEF MergeRefused, MergeConflicts, MergeClean, handleSquashMerge, MergeAllowed
  <2> QED
    BY <2>1, <2>2, ApplyKeepsUncommitted
<1>3. MergeUpToDate(b) => wt' = wt /\ index' = index
  BY DEF MergeUpToDate
<1> QED
  BY <1>1, <1>2, <1>3 DEF Merge

\* So do git cherry-pick and git revert without -n.
LEMMA ReplayKeepsUncommitted ==
    ASSUME NEW c \in DOMAIN commits, Replay(c)
    PROVE  OnlyCommittedReplaced /\ OnlyCommittedUnstaged
<1>1. CASE PickEmpty(c)
  BY <1>1 DEF PickEmpty, OnlyCommittedReplaced, OnlyCommittedUnstaged
<1>2. CASE \/ PickRefused(c, FALSE) \/ PickConflicts(c, FALSE) \/ PickClean(c, FALSE)
           \/ RevertRefused(c, FALSE) \/ RevertPending(c, FALSE) \/ RevertClean(c)
  <2>1. \E m : LET r == applyMergeResult(m, FALSE, FALSE)
               IN wt' = r.wt /\ (r.ok \/ index' = index)
    BY <1>2 DEF PickRefused, PickConflicts, PickClean, RevertRefused, RevertPending, RevertClean
  <2>2. ReplayAllowed(FALSE)
    BY <1>2 DEF PickRefused, PickConflicts, PickClean, RevertRefused, RevertPending, RevertClean
  <2>3. ~hasConflicts /\ ~hasStagedChanges
    BY <2>2 DEF ReplayAllowed
  <2> QED
    BY <2>1, <2>3, ApplyKeepsUncommitted DEF OnlyCommittedReplaced, OnlyCommittedUnstaged
<1> QED
  BY <1>1, <1>2 DEF Replay

\* So does switching to another branch.
LEMMA SwitchKeepsUncommitted ==
    ASSUME NEW b \in Branch, switchBranchCore(b)
    PROVE  OnlyCommittedReplaced /\ OnlyCommittedUnstaged
<1> DEFINE r == checkoutTrees(HeadTree, commits[branch[b]].tree, index, wt, FALSE)
<1>1. (r.ok /\ wt' = r.wt /\ index' = r.index) \/ (wt' = wt /\ index' = index)
  BY DEF switchBranchCore
<1>2. ~hasConflicts
  BY DEF switchBranchCore
<1> HIDE DEF r
<1> QED
  BY <1>1, <1>2, CheckoutKeepsUncommitted DEF r, OnlyCommittedReplaced, OnlyCommittedUnstaged

\* What TLC checks as UncommittedKept: merging, picking, reverting, switching,
\* continuing and committing lose nothing, in files or staged, that HEAD lacks.
THEOREM UncommittedSafe == Spec => UncommittedKept
<1> DEFINE Kept == OnlyCommittedReplaced /\ OnlyCommittedUnstaged
<1>1. ASSUME [Next]_vars
      PROVE  \/ Kept \/ Discards \/ Stages \/ Abort \/ NoCommitPick \/ NoCommitRevert
             \/ UNCHANGED vars
  <2>1. CASE \E b \in Branch : Merge(b) \/ switchBranchCore(b)
    BY <2>1, MergeKeepsUncommitted, SwitchKeepsUncommitted
  <2>2. CASE \E c \in DOMAIN commits : Replay(c)
    BY <2>2, ReplayKeepsUncommitted
  <2>3. CASE Continue
    <3>1. wt' = wt /\ index' = index
      BY <2>3 DEF Continue, MergeContinue, ReplayContinue
    <3> QED
      BY <3>1 DEF OnlyCommittedReplaced, OnlyCommittedUnstaged
  <2>4. CASE CommitStep
    <3>1. PICK all, amend, allowEmpty \in BOOLEAN : Commit(all, amend, allowEmpty)
      BY <2>4 DEF CommitStep
    <3>2. CASE all
      BY <3>1, <3>2 DEF Stages
    <3>3. CASE ~all
      <4>1. wt' = wt /\ index' = index
        BY <3>1, <3>3 DEF Commit, Staged
      <4> QED
        BY <4>1 DEF OnlyCommittedReplaced, OnlyCommittedUnstaged
    <3> QED
      BY <3>2, <3>3
  <2>5. CASE \E c \in DOMAIN commits, mode \in {"soft", "mixed", "hard"} : resetToCommit(c, mode)
    <3>1. PICK c \in DOMAIN commits, mode \in {"soft", "mixed", "hard"} : resetToCommit(c, mode)
      BY <2>5
    <3>2. CASE mode = "hard"
      BY <3>1, <3>2 DEF Discards
    <3>3. CASE mode = "mixed"
      BY <3>1, <3>3 DEF Stages
    <3>4. CASE mode = "soft"
      <4>1. wt' = wt /\ index' = index
        BY <3>1, <3>4 DEF resetToCommit
      <4> QED
        BY <4>1 DEF OnlyCommittedReplaced, OnlyCommittedUnstaged
    <3> QED
      BY <3>2, <3>3, <3>4
  <2>6. CASE \E p \in Path : UserStep(p)
    BY <2>6 DEF UserStep, Discards, Stages
  <2> QED
    BY <1>1, <2>1, <2>2, <2>3, <2>4, <2>5, <2>6 DEF Next
<1> QED
  BY <1>1, PTL DEF Spec, UncommittedKept

-------------------------------------------------------------------------------
(* The state files of operations.                                          *)

OpField == {"merge", "pick", "revert", "msg", "squash"}
OpShape(o) == o = [f \in OpField |-> o[f]]

\* No pick and no revert is pending.
NoneReplayed(o) == o.pick = 0 /\ o.revert = 0

\* Writing one of the files leaves the others as they are.
LEMMA OneFileWritten ==
    ASSUME NEW o, OpShape(o), NEW g \in OpField, NEW v, NEW r, r = [o EXCEPT ![g] = v]
    PROVE  /\ OpShape(r) /\ r[g] = v
           /\ \A f \in OpField : f # g => r[f] = o[f]
BY DEF OpShape

\* Where there is nothing pending there are no files.
LEMMA NothingPending ==
    ASSUME NEW v
    PROVE  /\ OpShape(NoOp) /\ NoneReplayed(NoOp)
           /\ OpShape([NoOp EXCEPT !.msg = v]) /\ NoneReplayed([NoOp EXCEPT !.msg = v])
<1>1. OpShape(NoOp) /\ NoneReplayed(NoOp)
  BY DEF OpShape, NoneReplayed, NoOp, OpField
<1> QED
  BY <1>1, OneFileWritten DEF NoneReplayed, OpField

\* Clearing the state of an operation forgets it.
LEMMA ClearedForgets ==
    ASSUME NEW o, OpShape(o)
    PROVE  /\ OpShape(clearMergeState(o))
           /\ OpShape(clearCherryPickState(o)) /\ clearCherryPickState(o).pick = 0
           /\ clearCherryPickState(o).revert = o.revert
           /\ OpShape(clearRevertState(o)) /\ clearRevertState(o).revert = 0
           /\ clearRevertState(o).pick = o.pick
<1>1. ASSUME NEW f \in {"merge", "pick", "revert"}, NEW r,
             r = [o EXCEPT ![f] = 0, !.msg = "none", !.squash = FALSE]
      PROVE  /\ OpShape(r) /\ r[f] = 0
             /\ \A g \in {"merge", "pick", "revert"} : g # f => r[g] = o[g]
  <2> DEFINE a == [o EXCEPT ![f] = 0]
             b == [a EXCEPT !["msg"] = "none"]
             c == [b EXCEPT !["squash"] = FALSE]
  <2>1. r = c
    BY <1>1, Zenon
  <2>2. f \in OpField /\ "msg" \in OpField /\ "squash" \in OpField
    BY DEF OpField
  <2>3. OpShape(a) /\ a[f] = 0 /\ \A g \in OpField : g # f => a[g] = o[g]
    BY <2>2, OneFileWritten
  <2> HIDE DEF a
  <2>4. OpShape(b) /\ \A g \in OpField : g # "msg" => b[g] = a[g]
    BY <2>2, <2>3, OneFileWritten
  <2> HIDE DEF b
  <2>5. OpShape(c) /\ \A g \in OpField : g # "squash" => c[g] = b[g]
    BY <2>2, <2>4, OneFileWritten
  <2> HIDE DEF c
  <2> QED
    BY <2>1, <2>3, <2>4, <2>5 DEF OpField
<1>2. /\ clearMergeState(o) = [o EXCEPT !["merge"] = 0, !.msg = "none", !.squash = FALSE]
      /\ clearCherryPickState(o) = [o EXCEPT !["pick"] = 0, !.msg = "none", !.squash = FALSE]
      /\ clearRevertState(o) = [o EXCEPT !["revert"] = 0, !.msg = "none", !.squash = FALSE]
  BY DEF clearMergeState, clearCherryPickState, clearRevertState
<1> QED
  BY <1>1, <1>2

\* The same of two files.
LEMMA TwoFilesWritten ==
    ASSUME NEW o, OpShape(o), NEW g \in OpField, NEW h \in OpField, NEW v, NEW w,
           NEW r, r = [o EXCEPT ![g] = v, ![h] = w]
    PROVE  /\ OpShape(r)
           /\ \A f \in OpField : f \notin {g, h} => r[f] = o[f]
<1> DEFINE a == [o EXCEPT ![g] = v]
<1>1. r = [a EXCEPT ![h] = w]
  BY Zenon
<1>2. OpShape(a) /\ a[g] = v /\ \A f \in OpField : f # g => a[f] = o[f]
  BY DEF OpShape
<1> HIDE DEF a
<1>3. OpShape([a EXCEPT ![h] = w]) /\ \A f \in OpField : f # h => [a EXCEPT ![h] = w][f] = a[f]
  BY <1>2, OneFileWritten
<1> QED
  BY <1>1, <1>2, <1>3

\* A merge that is tried has forgotten an unfinished revert.
LEMMA RevertIsForgotten ==
    ASSUME OpShape(op)
    PROVE  /\ OpShape(RevertForgotten)
           /\ RevertForgotten.revert = 0 /\ RevertForgotten.pick = op.pick
BY ClearedForgets DEF RevertForgotten

\* What a step does with a pending pick or revert: it leaves HEAD where it is, or forgets
\* both, or concludes a merge.
HeadStaysOrForgotten ==
    /\ OpShape(op')
    /\ \/ branch' = branch /\ head' = head
       \/ NoneReplayed(op')
       \/ op.pick = 0 /\ op'.revert = 0
       \/ op.merge # 0

\* git merge.
LEMMA MergeForgets ==
    ASSUME OpShape(op), NEW b, Merge(b)
    PROVE  HeadStaysOrForgotten
<1> DEFINE o == RevertForgotten
<1>1. OpShape(o) /\ o.revert = 0 /\ o.pick = op.pick
  BY RevertIsForgotten
<1> HIDE DEF o
<1>2. "msg" \in OpField /\ "squash" \in OpField /\ "merge" \in OpField /\ "revert" \in OpField
  BY DEF OpField
<1>3. CASE MergeUpToDate(b)
  <2>1. op' = [op EXCEPT !["msg"] = "none"] /\ branch' = branch /\ head' = head
    BY <1>3 DEF MergeUpToDate
  <2> QED
    BY <1>2, <2>1, OneFileWritten DEF HeadStaysOrForgotten
<1>4. CASE handleSquashMerge(b)
  <2>1. branch' = branch /\ head' = head /\ \E w : op' = [o EXCEPT !["squash"] = TRUE, !["msg"] = w]
    BY <1>4 DEF handleSquashMerge, o
  <2> QED
    BY <1>1, <1>2, <2>1, TwoFilesWritten DEF HeadStaysOrForgotten
<1>5. CASE \E squash \in BOOLEAN : handleFastForward(b, squash)
  <2>1. op.pick = 0
    BY <1>5 DEF handleFastForward, MergeAllowed
  <2>2. \/ op' = [o EXCEPT !["squash"] = TRUE]
        \/ op' = [o EXCEPT !["msg"] = "none"]
        \/ op' = o
    BY <1>5 DEF handleFastForward, o
  <2>3. OpShape(op') /\ op'.revert = 0
    <3>1. CASE op' = [o EXCEPT !["squash"] = TRUE]
      BY <1>1, <1>2, <3>1 DEF OpShape
    <3>2. CASE op' = [o EXCEPT !["msg"] = "none"]
      BY <1>1, <1>2, <3>2 DEF OpShape
    <3> QED
      BY <1>1, <2>2, <3>1, <3>2
  <2> QED
    BY <2>1, <2>3 DEF HeadStaysOrForgotten
<1>6. CASE \E noFf \in BOOLEAN : MergeRefused(b, noFf) \/ MergeClean(b, noFf)
  <2>1. op.pick = 0 /\ op' = [o EXCEPT !["msg"] = "none"]
    BY <1>6 DEF MergeRefused, MergeClean, MergeAllowed, o
  <2>2. OpShape(op') /\ op'.revert = 0
    BY <1>1, <1>2, <2>1 DEF OpShape
  <2> QED
    BY <2>1, <2>2 DEF HeadStaysOrForgotten
<1>7. CASE \E noFf \in BOOLEAN : MergeConflicts(b, noFf)
  <2>1. branch' = branch /\ head' = head /\ \E v, w : op' = [o EXCEPT !["merge"] = v, !["msg"] = w]
    BY <1>7 DEF MergeConflicts, o
  <2> QED
    BY <1>1, <1>2, <2>1, TwoFilesWritten DEF HeadStaysOrForgotten
<1> QED
  BY <1>3, <1>4, <1>5, <1>6, <1>7 DEF Merge

\* cherry-pick and revert.
LEMMA ReplayForgets ==
    ASSUME OpShape(op), NEW c, Replay(c) \/ NoCommitPick \/ NoCommitRevert
    PROVE  HeadStaysOrForgotten
<1>1. CASE branch' = branch /\ head' = head /\ op' = op
  BY <1>1 DEF HeadStaysOrForgotten
<1>2. CASE /\ branch' = branch /\ head' = head
           /\ \E d : \/ op' = [op EXCEPT !["pick"] = d, !["msg"] = "text"]
                     \/ op' = [op EXCEPT !["revert"] = d, !["msg"] = "text"]
  <2>1. "pick" \in OpField /\ "revert" \in OpField /\ "msg" \in OpField
    BY DEF OpField
  <2> QED
    BY <1>2, <2>1, TwoFilesWritten DEF HeadStaysOrForgotten
<1>3. CASE \/ op' = clearRevertState(clearCherryPickState(op))
           \/ op' = clearCherryPickState(clearRevertState(op))
  <2>1. OpShape(op') /\ NoneReplayed(op')
    BY <1>3, ClearedForgets DEF NoneReplayed
  <2> QED
    BY <2>1 DEF HeadStaysOrForgotten
<1> QED
  BY <1>1, <1>2, <1>3
     DEF Replay, NoCommitPick, NoCommitRevert, PickEmpty, PickRefused, PickConflicts, PickClean,
         RevertEmpty, RevertRefused, RevertPending, RevertClean

\* Giving up, going on, committing, resetting, switching, and work on files.
LEMMA OthersForget ==
    ASSUME OpShape(op),
           \/ Abort \/ Continue \/ CommitStep
           \/ \E c \in DOMAIN commits, mode \in {"soft", "mixed", "hard"} : resetToCommit(c, mode)
           \/ \E b \in Branch : switchBranchCore(b)
           \/ \E p \in Path : UserStep(p)
    PROVE  HeadStaysOrForgotten
<1>1. CASE Abort
  <2>1. branch' = branch /\ head' = head
    BY <1>1 DEF Abort, MergeAbort, PickAbort, RevertAbort, RevertSkip, handleOperationAbort
  <2>2. \/ op' = clearMergeState(op) \/ op' = clearCherryPickState(op) \/ op' = clearRevertState(op)
        \/ op' = clearCherryPickState(clearRevertState(op))
    BY <1>1 DEF Abort, MergeAbort, PickAbort, RevertAbort, RevertSkip, handleOperationAbort
  <2>3. OpShape(op')
    BY <2>2, ClearedForgets
  <2> QED
    BY <2>1, <2>3 DEF HeadStaysOrForgotten
<1>2. CASE Continue
  <2>1. \/ op.merge # 0 /\ op' = clearMergeState(op)
        \/ op' = clearRevertState(clearCherryPickState(op))
    BY <1>2 DEF Continue, MergeContinue, ReplayContinue
  <2> QED
    BY <2>1, ClearedForgets DEF HeadStaysOrForgotten, NoneReplayed
<1>3. CASE CommitStep
  <2>1. op' = Concluded
    BY <1>3 DEF CommitStep, Commit
  <2> QED
    BY <2>1, NothingPending DEF HeadStaysOrForgotten, Concluded
<1>4. CASE \/ \E c \in DOMAIN commits, mode \in {"soft", "mixed", "hard"} : resetToCommit(c, mode)
           \/ \E b \in Branch : switchBranchCore(b)
  <2>1. op' = NoOp
    BY <1>4 DEF resetToCommit, switchBranchCore
  <2> QED
    BY <2>1, NothingPending DEF HeadStaysOrForgotten
<1>5. CASE \E p \in Path : UserStep(p)
  <2>1. op' = op /\ branch' = branch /\ head' = head
    BY <1>5 DEF UserStep, Add, restoreFiles, Edit
  <2> QED
    BY <2>1 DEF HeadStaysOrForgotten
<1> QED
  BY <1>1, <1>2, <1>3, <1>4, <1>5

\* What TLC checks as PendingReplayKeepsHead: while a pick or revert is all that is
\* pending HEAD stays where it was, so that aborting to HEAD is aborting to the start.
THEOREM PendingHeadStays == Spec => PendingReplayKeepsHead
<1> DEFINE KeepsHead ==
            /\ op.merge = 0
            /\ (op.pick # 0 /\ op'.pick = op.pick) \/ (op.revert # 0 /\ op'.revert = op.revert)
            => HeadId' = HeadId
<1>1. Init => OpShape(op)
  BY NothingPending DEF Init
<1>2. ASSUME OpShape(op), [Next]_vars
      PROVE  OpShape(op)' /\ (KeepsHead \/ UNCHANGED vars)
  <2>1. CASE Next
    <3>1. HeadStaysOrForgotten
      BY <1>2, <2>1, MergeForgets, ReplayForgets, OthersForget DEF Next
    <3> QED
      BY <3>1 DEF HeadStaysOrForgotten, NoneReplayed, HeadId
  <2>2. CASE UNCHANGED vars
    BY <1>2, <2>2 DEF vars, OpShape
  <2> QED
    BY <1>2, <2>1, <2>2
<1> QED
  BY <1>1, <1>2, PTL DEF Spec, PendingReplayKeepsHead

-------------------------------------------------------------------------------
(* Types.                                                                  *)

Commits == Seq([tree : Tree, parents : Seq(Nat)])

HistoryTyped ==
    /\ commits \in Commits
    /\ \A i \in DOMAIN commits : \A k \in DOMAIN commits[i].parents :
          commits[i].parents[k] \in 1..(i - 1)
    /\ branch \in [Branch -> DOMAIN commits] /\ head \in Branch
FilesTyped == index \in Index /\ wt \in Tree
OpTyped ==
    /\ op \in [merge : Nat, pick : Nat, revert : Nat,
               msg : {"none", "text", "hints"}, squash : BOOLEAN]
    /\ {op.merge, op.pick, op.revert} \subseteq {0} \cup DOMAIN commits
GhostTyped ==
    /\ work \in 0..MaxWork
    /\ undo \in [Path -> Content \cup {Absent, Touched}]
TypeInv == HistoryTyped /\ FilesTyped /\ OpTyped /\ GhostTyped

\* Unpacking yields an index without conflicts, and files.
LEMMA UnpackTyped ==
    ASSUME NEW i \in Index, NEW w \in Tree, NEW new \in Tree, NEW d, NEW old, NEW reset
    PROVE  /\ unpackTrees(d, i, w, old, new, reset).index \in Tree
           /\ unpackTrees(d, i, w, old, new, reset).wt \in Tree
<1>1. ASSUME NEW p \in Path
      PROVE  /\ ResultEntry(d[p], i[p], new[p]) \in Content \cup {Absent}
             /\ ResultFile(d[p], i[p], w[p], new[p], reset) \in Content \cup {Absent}
  <2>1. /\ i[p] \in Content \cup {Absent, Unmerged}
        /\ w[p] \in Content \cup {Absent} /\ new[p] \in Content \cup {Absent}
    BY DEF Index, Tree
  <2> QED
    BY <2>1 DEF ResultEntry, ResultFile, Stage0
<1> QED
  BY <1>1 DEF unpackTrees, Tree

\* So do a checkout, a hard reset and an abort.
LEMMA TransitionsTyped ==
    ASSUME NEW i \in Index, NEW w \in Tree, NEW new \in Tree, NEW old, NEW allow
    PROVE  /\ checkoutTrees(old, new, i, w, allow).index \in Tree
           /\ checkoutTrees(old, new, i, w, allow).wt \in Tree
           /\ resetHard(new, i, w).index \in Tree /\ resetHard(new, i, w).wt \in Tree
           /\ mergeAbort(new, i, w).index \in Tree /\ mergeAbort(new, i, w).wt \in Tree
<1>1. /\ checkoutTrees(old, new, i, w, allow).index \in Tree
      /\ checkoutTrees(old, new, i, w, allow).wt \in Tree
      /\ resetHard(new, i, w).index \in Tree /\ resetHard(new, i, w).wt \in Tree
  BY UnpackTyped DEF checkoutTrees, resetHard
<1>2. mergeAbort(new, i, w).index \in Tree /\ mergeAbort(new, i, w).wt \in Tree
  <2> DEFINE clean == [p \in Path |-> Stage0(i[p])]
             d == [p \in Path |-> onewayMerge(clean[p], new[p], FALSE, i[p] = Unmerged)]
             r == unpackTrees(d, clean, w, new, new, FALSE)
             files == [p \in Path |-> IF Orphaned(new, i, p) THEN Absent ELSE r.wt[p]]
  <2>1. clean \in Index
    BY DEF Index, Stage0
  <2>2. r.index \in Tree /\ r.wt \in Tree
    BY <2>1, UnpackTyped
  <2>3. files \in Tree
    BY <2>2 DEF Tree
  <2>4. mergeAbort(new, i, w) = [r EXCEPT !.wt = files]
    BY DEF mergeAbort
  <2>5. r = [ok |-> r.ok, index |-> r.index, wt |-> r.wt]
    BY DEF unpackTrees
  <2> HIDE DEF r, files
  <2>6. mergeAbort(new, i, w) = [ok |-> r.ok, index |-> r.index, wt |-> files]
    BY <2>4, <2>5
  <2> QED
    BY <2>2, <2>3, <2>6
<1> QED
  BY <1>1, <1>2

\* A tree can be an index.
LEMMA TreesAreIndexes == Tree \subseteq Index
BY DEF Tree, Index

\* HEAD has a tree, and so has every commit.
LEMMA HeadTyped ==
    ASSUME HistoryTyped
    PROVE  /\ \A c \in DOMAIN commits : commits[c].tree \in Tree /\ commits[c].parents \in Seq(Nat)
           /\ DOMAIN commits = 1..Len(commits) /\ Len(commits) \in Nat
           /\ HeadId \in DOMAIN commits /\ HeadTree \in Tree
           /\ \A b \in Branch : branch[b] \in DOMAIN commits
<1> DEFINE C == [tree : Tree, parents : Seq(Nat)]
<1>1. \A c \in DOMAIN commits : commits[c] \in C
  <2>1. commits \in Seq(C)
    BY DEF HistoryTyped, Commits
  <2>2. DOMAIN commits = 1..Len(commits)
    BY <2>1
  <2> HIDE DEF C
  <2> QED
    BY <2>1, <2>2, ElementOfSeq
<1>2. \A c \in DOMAIN commits : commits[c].tree \in Tree /\ commits[c].parents \in Seq(Nat)
  BY <1>1
<1>3. DOMAIN commits = 1..Len(commits) /\ Len(commits) \in Nat
  BY DEF HistoryTyped, Commits
<1>4. HeadId \in DOMAIN commits /\ \A b \in Branch : branch[b] \in DOMAIN commits
  BY DEF HistoryTyped, HeadId
<1> QED
  BY <1>2, <1>3, <1>4 DEF HeadTree

\* A merge of trees has a tree as its result.
LEMMA ResultsTyped ==
    ASSUME HistoryTyped, NEW base, NEW theirs \in Tree, NEW m \in MergeResults(base, theirs)
    PROVE  m.tree \in Tree
<1>1. HeadTree \in Tree
  BY HeadTyped
<1>2. PICK how \in Results(base, HeadTree, theirs) : m = mergeOrt(base, HeadTree, theirs, how)
  BY DEF MergeResults
<1>3. Merged \in Content /\ Markers \in Content
  BY WorkingCopyAssumption
<1>4. \A p \in Path : theirs[p] \in Content \cup {Absent} /\ HeadTree[p] \in Content \cup {Absent}
  BY <1>1 DEF Tree
<1> HIDE DEF HeadTree
<1>5. m.tree = [p \in Path |->
                  IF p \notin DOMAIN how THEN IF HeadTree[p] = base[p] THEN theirs[p] ELSE HeadTree[p]
                  ELSE IF how[p] = "merged" THEN Merged
                  ELSE IF how[p] = "marked" THEN Markers
                  ELSE IF HeadTree[p] = Absent THEN theirs[p] ELSE HeadTree[p]]
  BY <1>2 DEF mergeOrt
<1> QED
  BY <1>3, <1>4, <1>5 DEF Tree

\* Applying it, or refusing to, leaves an index and files.
LEMMA ApplyTyped ==
    ASSUME HistoryTyped, FilesTyped, NEW m, m.tree \in Tree, NEW check, NEW noCommit
    PROVE  /\ applyMergeResult(m, check, noCommit).index \in Index
           /\ applyMergeResult(m, check, noCommit).wt \in Tree
<1> DEFINE r == checkoutTrees(HeadTree, m.tree, index, wt, noCommit)
<1>1. r.wt \in Tree
  BY TransitionsTyped DEF FilesTyped
<1>2. \A p \in Path : /\ index[p] \in Content \cup {Absent, Unmerged}
                      /\ wt[p] \in Content \cup {Absent} /\ m.tree[p] \in Content \cup {Absent}
  BY DEF FilesTyped, Index, Tree
<1>3. restoreStagedAdditions \in Tree
  BY <1>2 DEF restoreStagedAdditions, Tree
<1>4. [p \in Path |-> MergedEntry(m, noCommit, p)] \in Index
  BY <1>2 DEF MergedEntry, Index
<1> HIDE DEF r
<1>5. applyMergeResult(m, check, noCommit)
        \in {[ok |-> FALSE, index |-> index, wt |-> restoreStagedAdditions],
             [ok |-> TRUE, wt |-> r.wt, index |-> [p \in Path |-> MergedEntry(m, noCommit, p)]]}
  BY DEF applyMergeResult, r
<1> QED
  BY <1>1, <1>3, <1>4, <1>5 DEF FilesTyped

\* The tree of an index.
LEMMA TreeOfTyped ==
    ASSUME NEW i \in Index
    PROVE  TreeOf(i) \in Tree
BY DEF TreeOf, Tree, Index, Stage0

\* A commit on HEAD, of a tree and commits that are there, extends the history.
LEMMA CommitTyped ==
    ASSUME HistoryTyped, NEW t \in Tree, NEW ps \in Seq(DOMAIN commits),
           writeCommitAndAdvance(t, ps), head' = head
    PROVE  HistoryTyped' /\ DOMAIN commits \subseteq DOMAIN commits'
<1> DEFINE C == [tree : Tree, parents : Seq(Nat)]
           e == [tree |-> t, parents |-> ps]
           n == Len(commits)
<1>1. /\ commits \in Seq(C) /\ n \in Nat /\ DOMAIN commits = 1..n
      /\ \A i \in 1..n : \A k \in DOMAIN commits[i].parents : commits[i].parents[k] \in 1..(i - 1)
  BY DEF HistoryTyped, Commits
<1>2. /\ ps \in Seq(Nat) /\ \A k \in DOMAIN ps : ps[k] \in 1..n
  <2>1. ps \in Seq(1..n)
    BY <1>1
  <2>2. \A k \in 1..Len(ps) : ps[k] \in 1..n
    BY <2>1, ElementOfSeq
  <2> QED
    BY <2>1, <2>2, <1>1
<1>3. e \in C /\ e.parents = ps
  BY <1>2
<1>4. commits' = Append(commits, e) /\ branch' = [branch EXCEPT ![head] = n + 1]
  BY DEF writeCommitAndAdvance
<1> HIDE DEF C, e, n
<1>5. /\ commits' \in Seq(C) /\ DOMAIN commits' = 1..(n + 1)
      /\ \A i \in 1..n : commits'[i] = commits[i]
      /\ commits'[n + 1] = e
  <2>1. Len(commits) = n
    BY DEF n
  <2> QED
    BY <1>1, <1>3, <1>4, <2>1, AppendProperties
<1>6. \A i \in DOMAIN commits' : \A k \in DOMAIN commits'[i].parents :
         commits'[i].parents[k] \in 1..(i - 1)
  <2> SUFFICES ASSUME NEW i \in 1..(n + 1), NEW k \in DOMAIN commits'[i].parents
               PROVE  commits'[i].parents[k] \in 1..(i - 1)
    BY <1>5
  <2>1. CASE i = n + 1
    BY <1>1, <1>2, <1>3, <1>5, <2>1
  <2>2. CASE i # n + 1
    BY <1>1, <1>5, <2>2
  <2> QED
    BY <2>1, <2>2
<1>7. branch' \in [Branch -> DOMAIN commits'] /\ head' \in Branch
  <2>1. branch \in [Branch -> 1..n] /\ head \in Branch
    BY <1>1 DEF HistoryTyped
  <2>2. 1..n \subseteq 1..(n + 1) /\ n + 1 \in 1..(n + 1)
    BY <1>1
  <2> QED
    BY <1>4, <1>5, <2>1, <2>2
<1>8. DOMAIN commits \subseteq DOMAIN commits'
  BY <1>1, <1>5
<1> QED
  BY <1>5, <1>6, <1>7, <1>8 DEF HistoryTyped, Commits, C

\* The parents a commit is given are commits.
LEMMA ParentsAreCommits ==
    ASSUME HistoryTyped
    PROVE  /\ <<HeadId>> \in Seq(DOMAIN commits)
           /\ \A c \in DOMAIN commits : <<HeadId, c>> \in Seq(DOMAIN commits)
           /\ \A c \in DOMAIN commits : commits[c].parents \in Seq(DOMAIN commits)
<1>1. HeadId \in DOMAIN commits
  BY HeadTyped
<1>2. ASSUME NEW c \in DOMAIN commits
      PROVE  commits[c].parents \in Seq(DOMAIN commits)
  <2>1. commits[c].parents \in Seq(Nat) /\ DOMAIN commits = 1..Len(commits) /\ Len(commits) \in Nat
    BY HeadTyped
  <2>2. \A k \in DOMAIN commits[c].parents : commits[c].parents[k] \in 1..(c - 1)
    BY DEF HistoryTyped
  <2> DEFINE ps == commits[c].parents
  <2>3. \A k \in DOMAIN ps : ps[k] \in DOMAIN commits
    BY <2>1, <2>2
  <2>4. Len(ps) \in Nat /\ DOMAIN ps = 1..Len(ps) /\ ps = [k \in 1..Len(ps) |-> ps[k]]
    BY <2>1
  <2> HIDE DEF ps
  <2>5. ps \in Seq(DOMAIN commits)
    BY <2>3, <2>4
  <2> QED
    BY <2>5 DEF ps
<1> QED
  BY <1>1, <1>2

\* The results of merging, picking and reverting have trees.
LEMMA OperandsTyped ==
    ASSUME HistoryTyped
    PROVE  /\ \A b \in Branch : \A noFf : \A m \in Merging(b, noFf) : m.tree \in Tree
           /\ \A c \in DOMAIN commits : \A m \in Picking(c) \cup Reverting(c) : m.tree \in Tree
<1>1. /\ \A c \in DOMAIN commits : commits[c].tree \in Tree
      /\ \A b \in Branch : branch[b] \in DOMAIN commits
  BY HeadTyped
<1>2. \A c \in DOMAIN commits : ParentTrees(c) \subseteq Tree
  <2> SUFFICES ASSUME NEW c \in DOMAIN commits
               PROVE  ParentTrees(c) \subseteq Tree
    OBVIOUS
  <2>1. commits[c].parents \in Seq(DOMAIN commits)
    BY ParentsAreCommits
  <2>2. \A k \in DOMAIN commits[c].parents : commits[c].parents[k] \in DOMAIN commits
    BY <2>1, ElementOfSeq
  <2>3. EmptyTree \in Tree
    BY DEF EmptyTree, Tree
  <2> QED
    BY <1>1, <2>2, <2>3 DEF ParentTrees
<1>3. ASSUME NEW b \in Branch, NEW noFf, NEW m \in Merging(b, noFf)
      PROVE  m.tree \in Tree
  <2>1. PICK base : m \in MergeResults(base, commits[branch[b]].tree)
    BY <1>3 DEF Merging
  <2> QED
    BY <1>1, <2>1, ResultsTyped
<1>4. ASSUME NEW c \in DOMAIN commits, NEW m \in Picking(c) \cup Reverting(c)
      PROVE  m.tree \in Tree
  <2>1. PICK base, theirs \in Tree : m \in MergeResults(base, theirs)
    BY <1>1, <1>2, <1>4 DEF Picking, Reverting
  <2> QED
    BY <2>1, ResultsTyped
<1> QED
  BY <1>3, <1>4

\* A step leaves the history alone, moves a branch, switches to one, or commits.
HistoryMoves ==
    \/ commits' = commits /\ branch' = branch /\ head' \in Branch
    \/ commits' = commits /\ head' = head
       /\ \E c \in DOMAIN commits : branch' = [branch EXCEPT ![head] = c]
    \/ head' = head
       /\ \E t \in Tree, ps \in Seq(DOMAIN commits) : writeCommitAndAdvance(t, ps)

\* Whichever it does, the history keeps its shape.
LEMMA HistoryKept ==
    ASSUME HistoryTyped, HistoryMoves
    PROVE  HistoryTyped' /\ DOMAIN commits \subseteq DOMAIN commits'
<1>1. CASE commits' = commits /\ branch' = branch /\ head' \in Branch
  BY <1>1 DEF HistoryTyped
<1>2. CASE commits' = commits /\ head' = head
           /\ \E c \in DOMAIN commits : branch' = [branch EXCEPT ![head] = c]
  BY <1>2 DEF HistoryTyped
<1>3. CASE head' = head
           /\ \E t \in Tree, ps \in Seq(DOMAIN commits) : writeCommitAndAdvance(t, ps)
  BY <1>3, CommitTyped
<1> QED
  BY <1>1, <1>2, <1>3 DEF HistoryMoves

\* Every command moves it that way.
LEMMA HistoryStep ==
    ASSUME TypeInv, Next
    PROVE  HistoryMoves
<1> USE DEF HistoryMoves
<1>1. HistoryTyped /\ FilesTyped /\ head \in Branch
  BY DEF TypeInv, HistoryTyped
<1>2. /\ \A c \in DOMAIN commits : c # 0
      /\ \A b \in Branch : branch[b] \in DOMAIN commits
      /\ \A c \in {op.merge, op.pick, op.revert} : c # 0 => c \in DOMAIN commits
  BY <1>1, HeadTyped DEF TypeInv, OpTyped
<1>3. /\ <<HeadId>> \in Seq(DOMAIN commits)
      /\ \A c \in DOMAIN commits : <<HeadId, c>> \in Seq(DOMAIN commits)
  BY <1>1, ParentsAreCommits
<1>4. TreeOf(index) \in Tree
  BY <1>1, TreeOfTyped DEF FilesTyped
<1>5. ASSUME NEW b \in Branch, Merge(b)
      PROVE  HistoryMoves
  <2>1. CASE \E noFf \in BOOLEAN : MergeClean(b, noFf)
    <3>1. PICK noFf \in BOOLEAN : MergeClean(b, noFf)
      BY <2>1
    <3>2. PICK m \in Merging(b, noFf) :
            LET r == applyMergeResult(m, TRUE, FALSE)
            IN \/ writeCommitAndAdvance(TreeOf(r.index), <<HeadId, branch[b]>>)
               \/ UNCHANGED <<commits, branch>>
      BY <3>1 DEF MergeClean
    <3>3. TreeOf(applyMergeResult(m, TRUE, FALSE).index) \in Tree
      BY <1>1, OperandsTyped, ApplyTyped, TreeOfTyped
    <3>4. head' = head
      BY <3>1 DEF MergeClean
    <3> QED
      BY <1>1, <1>2, <1>3, <3>2, <3>3, <3>4
  <2>2. CASE \E squash \in BOOLEAN : handleFastForward(b, squash)
    BY <1>1, <1>2, <2>2 DEF handleFastForward
  <2>3. CASE \/ MergeUpToDate(b) \/ handleSquashMerge(b)
             \/ \E noFf \in BOOLEAN : MergeRefused(b, noFf) \/ MergeConflicts(b, noFf)
    BY <1>1, <2>3 DEF MergeUpToDate, handleSquashMerge, MergeRefused, MergeConflicts
  <2> QED
    BY <1>5, <2>1, <2>2, <2>3 DEF Merge
<1>6. ASSUME NEW c \in DOMAIN commits, Replay(c) \/ NoCommitPick \/ NoCommitRevert
      PROVE  HistoryMoves
  <2>1. CASE \/ commits' = commits /\ branch' = branch /\ head' = head
    BY <1>1, <2>1
  <2>2. CASE \E m \in Picking(c) \cup Reverting(c), noCommit \in BOOLEAN :
              /\ head' = head
              /\ writeCommitAndAdvance(TreeOf(applyMergeResult(m, FALSE, noCommit).index), <<HeadId>>)
    <3>1. \A m \in Picking(c) \cup Reverting(c), noCommit \in BOOLEAN :
            TreeOf(applyMergeResult(m, FALSE, noCommit).index) \in Tree
      BY <1>1, OperandsTyped, ApplyTyped, TreeOfTyped
    <3> QED
      BY <1>3, <2>2, <3>1
  <2> QED
    BY <1>6, <2>1, <2>2
       DEF Replay, NoCommitPick, NoCommitRevert, PickEmpty, PickRefused, PickConflicts, PickClean,
           RevertEmpty, RevertRefused, RevertPending, RevertClean
<1>7. CASE Continue
  <2>1. PICK ps \in {<<HeadId, op.merge>>, <<HeadId>>} :
           /\ head' = head /\ writeCommitAndAdvance(TreeOf(index), ps)
           /\ ps = <<HeadId, op.merge>> => op.merge # 0
    BY <1>7 DEF Continue, MergeContinue, ReplayContinue
  <2> QED
    BY <1>2, <1>3, <1>4, <2>1
<1>8. CASE CommitStep
  <2>1. PICK all, amend, allowEmpty \in BOOLEAN : Commit(all, amend, allowEmpty)
    BY <1>8 DEF CommitStep
  <2>2. Staged(all) \in Index
    BY <1>1 DEF Staged, FilesTyped, Index, Tree
  <2>3. CommitParents(amend) \in Seq(DOMAIN commits)
    BY <1>1, <1>2, <1>3, HeadTyped, ParentsAreCommits DEF CommitParents
  <2> QED
    BY <2>1, <2>2, <2>3, TreeOfTyped DEF Commit
<1>9. CASE \/ Abort
           \/ \E c \in DOMAIN commits, mode \in {"soft", "mixed", "hard"} : resetToCommit(c, mode)
           \/ \E b \in Branch : switchBranchCore(b)
           \/ \E p \in Path : UserStep(p)
  BY <1>1, <1>9 DEF Abort, MergeAbort, PickAbort, RevertAbort, RevertSkip, handleOperationAbort,
     resetToCommit, switchBranchCore, UserStep, Add, restoreFiles, Edit
<1>10. CASE NoCommitPick \/ NoCommitRevert
  <2>1. \E c \in DOMAIN commits : TRUE
    BY <1>10 DEF NoCommitPick, NoCommitRevert
  <2> QED
    BY <1>6, <1>10, <2>1
<1> QED
  BY <1>5, <1>6, <1>7, <1>8, <1>9, <1>10 DEF Next

\* Index and files stay an index and files.
LEMMA FilesStep ==
    ASSUME TypeInv, Next
    PROVE  FilesTyped'
<1>1. HistoryTyped /\ FilesTyped /\ index \in Index /\ wt \in Tree /\ HeadTree \in Tree
  BY HeadTyped DEF TypeInv, FilesTyped
<1>2. ASSUME NEW new \in Tree
      PROVE  /\ checkoutTrees(HeadTree, new, index, wt, FALSE).index \in Index
             /\ checkoutTrees(HeadTree, new, index, wt, FALSE).wt \in Tree
             /\ resetHard(new, index, wt).index \in Index /\ resetHard(new, index, wt).wt \in Tree
             /\ mergeAbort(new, index, wt).index \in Index /\ mergeAbort(new, index, wt).wt \in Tree
             /\ new \in Index
  BY <1>1, TransitionsTyped, TreesAreIndexes
<1>3. \A c \in DOMAIN commits : commits[c].tree \in Tree
  BY <1>1, HeadTyped
<1>4. ASSUME NEW m, m.tree \in Tree, NEW check, NEW noCommit
      PROVE  /\ applyMergeResult(m, check, noCommit).index \in Index
             /\ applyMergeResult(m, check, noCommit).wt \in Tree
  BY <1>1, <1>4, ApplyTyped
<1>5. ASSUME NEW b \in Branch, Merge(b)
      PROVE  FilesTyped'
  <2>1. \A noFf : \A m \in Merging(b, noFf) : m.tree \in Tree
    BY <1>1, OperandsTyped
  <2>2. commits[branch[b]].tree \in Tree
    BY <1>1, HeadTyped
  <2>3. CASE MergeUpToDate(b)
    BY <1>1, <2>3 DEF MergeUpToDate, FilesTyped
  <2>4. CASE handleSquashMerge(b)
    <3>1. PICK m \in Merging(b, FALSE) :
            /\ index' = applyMergeResult(m, TRUE, FALSE).index
            /\ wt' = applyMergeResult(m, TRUE, FALSE).wt
      BY <2>4, Zenon DEF handleSquashMerge
    <3> QED
      BY <1>4, <2>1, <3>1 DEF FilesTyped
  <2>5. CASE \E squash \in BOOLEAN : handleFastForward(b, squash)
    BY <1>1, <1>2, <2>2, <2>5 DEF handleFastForward, FilesTyped
  <2>6. CASE \E noFf \in BOOLEAN : MergeRefused(b, noFf)
    <3>1. PICK noFf \in BOOLEAN : MergeRefused(b, noFf)
      BY <2>6
    <3>2. PICK m \in Merging(b, noFf) :
            index' = index /\ wt' = applyMergeResult(m, TRUE, FALSE).wt
      BY <3>1, Zenon DEF MergeRefused
    <3> QED
      BY <1>1, <1>4, <2>1, <3>2 DEF FilesTyped
  <2>7. CASE \E noFf \in BOOLEAN : MergeConflicts(b, noFf) \/ MergeClean(b, noFf)
    <3>1. PICK noFf \in BOOLEAN : MergeConflicts(b, noFf) \/ MergeClean(b, noFf)
      BY <2>7
    <3>2. PICK m \in Merging(b, noFf) :
            /\ index' = applyMergeResult(m, TRUE, FALSE).index
            /\ wt' = applyMergeResult(m, TRUE, FALSE).wt
      BY <3>1, Zenon DEF MergeConflicts, MergeClean
    <3> QED
      BY <1>4, <2>1, <3>2 DEF FilesTyped
  <2> QED
    BY <1>5, <2>3, <2>4, <2>5, <2>6, <2>7 DEF Merge
<1>6. ASSUME NEW c \in DOMAIN commits, NEW noCommit \in BOOLEAN,
             \/ PickEmpty(c) \/ PickRefused(c, noCommit) \/ PickConflicts(c, noCommit)
             \/ PickClean(c, noCommit)
             \/ RevertEmpty(c) \/ RevertRefused(c, noCommit) \/ RevertPending(c, noCommit)
             \/ RevertClean(c)
      PROVE  FilesTyped'
  <2>1. \A m \in Picking(c) \cup Reverting(c) : m.tree \in Tree
    BY <1>1, OperandsTyped
  <2>2. CASE PickEmpty(c) \/ RevertEmpty(c)
    BY <1>1, <2>2 DEF PickEmpty, RevertEmpty, FilesTyped
  <2>3. CASE PickRefused(c, noCommit) \/ RevertRefused(c, noCommit)
    <3>1. PICK m \in Picking(c) \cup Reverting(c), n \in BOOLEAN :
            index' = index /\ wt' = applyMergeResult(m, FALSE, n).wt
      BY <2>3 DEF PickRefused, RevertRefused
    <3> QED
      BY <1>1, <1>4, <2>1, <3>1 DEF FilesTyped
  <2>4. CASE PickConflicts(c, noCommit) \/ PickClean(c, noCommit)
             \/ RevertPending(c, noCommit) \/ RevertClean(c)
    <3>1. PICK m \in Picking(c) \cup Reverting(c), n \in BOOLEAN :
            /\ index' = applyMergeResult(m, FALSE, n).index
            /\ wt' = applyMergeResult(m, FALSE, n).wt
      BY <2>4 DEF PickConflicts, PickClean, RevertPending, RevertClean
    <3> QED
      BY <1>4, <2>1, <3>1 DEF FilesTyped
  <2> QED
    BY <1>6, <2>2, <2>3, <2>4
<1>7. CASE Abort
  BY <1>1, <1>2, <1>7 DEF Abort, MergeAbort, PickAbort, RevertAbort, RevertSkip,
     handleOperationAbort, FilesTyped
<1>8. CASE Continue
  BY <1>1, <1>8 DEF Continue, MergeContinue, ReplayContinue, FilesTyped
<1>9. CASE CommitStep
  <2>1. \A all : Staged(all) \in Index
    BY <1>1 DEF Staged, Index, Tree
  <2> QED
    BY <1>1, <1>9, <2>1 DEF CommitStep, Commit, FilesTyped
<1>10. ASSUME NEW c \in DOMAIN commits, NEW mode, resetToCommit(c, mode)
       PROVE  FilesTyped'
  BY <1>1, <1>2, <1>3, <1>10 DEF resetToCommit, FilesTyped
<1>11. ASSUME NEW b \in Branch, switchBranchCore(b)
       PROVE  FilesTyped'
  <2>1. commits[branch[b]].tree \in Tree
    BY <1>1, HeadTyped
  <2> QED
    BY <1>1, <1>2, <1>11, <2>1 DEF switchBranchCore, FilesTyped
<1>12. ASSUME NEW p \in Path, UserStep(p)
       PROVE  FilesTyped'
  <2>1. CASE Add(p)
    <3>1. wt' = wt /\ index' = [index EXCEPT ![p] = wt[p]]
      BY <2>1 DEF Add
    <3> QED
      BY <1>1, <3>1 DEF FilesTyped, Index, Tree
  <2>2. CASE restoreFiles(p)
    <3>1. index' = index /\ wt' = [wt EXCEPT ![p] = index[p]] /\ index[p] \notin {Absent, Unmerged}
      BY <2>2 DEF restoreFiles
    <3> QED
      BY <1>1, <3>1 DEF FilesTyped, Index, Tree
  <2>3. CASE \E c \in Mine \cup {Absent} : Edit(p, c)
    <3>1. PICK c \in Mine \cup {Absent} : index' = index /\ wt' = [wt EXCEPT ![p] = c]
      BY <2>3 DEF Edit
    <3>2. c \in Content \cup {Absent}
      BY WorkingCopyAssumption
    <3> QED
      BY <1>1, <3>1, <3>2 DEF FilesTyped, Tree
  <2> QED
    BY <1>12, <2>1, <2>2, <2>3 DEF UserStep
<1> QED
  BY <1>5, <1>6, <1>7, <1>8, <1>9, <1>10, <1>11, <1>12 DEF Next, Replay, NoCommitPick, NoCommitRevert

\* The state files of operations, and the commits they name.
OpRange(o) ==
    /\ o \in [merge : Nat, pick : Nat, revert : Nat,
              msg : {"none", "text", "hints"}, squash : BOOLEAN]
    /\ {o.merge, o.pick, o.revert} \subseteq {0} \cup DOMAIN commits

\* Writing one or forgetting some keeps them so.
LEMMA WritesTyped ==
    ASSUME HistoryTyped, NEW o, OpRange(o), NEW c \in DOMAIN commits
    PROVE  /\ OpRange(clearMergeState(o)) /\ OpRange(clearCherryPickState(o))
           /\ OpRange(clearRevertState(o)) /\ OpRange(NoOp)
           /\ \A t \in {"none", "text", "hints"} :
                /\ OpRange([o EXCEPT !.msg = t])
                /\ OpRange([NoOp EXCEPT !.msg = t])
                /\ OpRange([o EXCEPT !.merge = c, !.msg = t])
                /\ OpRange([o EXCEPT !.pick = c, !.msg = t])
                /\ OpRange([o EXCEPT !.revert = c, !.msg = t])
                /\ OpRange([o EXCEPT !.squash = TRUE, !.msg = t])
           /\ OpRange([o EXCEPT !.squash = TRUE])
<1>1. c \in Nat
  BY HeadTyped
<1>2. o = [merge |-> o.merge, pick |-> o.pick, revert |-> o.revert, msg |-> o.msg,
           squash |-> o.squash]
  BY DEF OpRange
<1> QED
  BY <1>1, <1>2, ZenonT(60) DEF OpRange, clearMergeState, clearCherryPickState, clearRevertState, NoOp

LEMMA OpStep ==
    ASSUME TypeInv, Next
    PROVE  OpRange(op')
<1>1. HistoryTyped /\ OpRange(op) /\ op.msg \in {"none", "text", "hints"}
  BY DEF TypeInv, OpTyped, OpRange
<1>2. PICK c0 \in DOMAIN commits : TRUE
  BY <1>1, HeadTyped
<1>3. OpRange(RevertForgotten) /\ RevertForgotten.msg \in {"none", "text", "hints"}
  <2>1. OpRange(RevertForgotten)
    BY <1>1, <1>2, WritesTyped DEF RevertForgotten
  <2> QED
    BY <2>1 DEF OpRange
<1>4. \A b \in Branch : branch[b] \in DOMAIN commits
  BY <1>1, HeadTyped
<1> DEFINE f == RevertForgotten
<1>5. ASSUME NEW b \in Branch, Merge(b)
      PROVE  OpRange(op')
  <2>1. \/ op' = [op EXCEPT !.msg = "none"] \/ op' = [f EXCEPT !.msg = "none"]
        \/ op' = [f EXCEPT !.squash = TRUE] \/ op' = f
        \/ \E t \in {"none", "text", "hints"} : \/ op' = [f EXCEPT !.merge = branch[b], !.msg = t]
                                                \/ op' = [f EXCEPT !.squash = TRUE, !.msg = t]
    <3>1. CASE MergeUpToDate(b) \/ \E noFf \in BOOLEAN : MergeRefused(b, noFf) \/ MergeClean(b, noFf)
      BY <3>1 DEF MergeUpToDate, MergeRefused, MergeClean
    <3>2. CASE \E squash \in BOOLEAN : handleFastForward(b, squash)
      BY <3>2 DEF handleFastForward
    <3>3. CASE \E noFf \in BOOLEAN : MergeConflicts(b, noFf)
      BY <1>3, <3>3 DEF MergeConflicts
    <3>4. CASE handleSquashMerge(b)
      <4>1. PICK t : op' = [f EXCEPT !.squash = TRUE, !.msg = t] /\ t \in {"hints", f.msg}
        BY <3>4 DEF handleSquashMerge
      <4> QED
        BY <1>3, <4>1
    <3> QED
      BY <1>5, <3>1, <3>2, <3>3, <3>4 DEF Merge
  <2> HIDE DEF f
  <2>2. OpRange(f) /\ OpRange([op EXCEPT !.msg = "none"]) /\ branch[b] \in DOMAIN commits
    BY <1>1, <1>2, <1>3, <1>4, WritesTyped DEF f
  <2>3. /\ OpRange([f EXCEPT !.msg = "none"]) /\ OpRange([f EXCEPT !.squash = TRUE])
        /\ \A t \in {"none", "text", "hints"} : /\ OpRange([f EXCEPT !.merge = branch[b], !.msg = t])
                                                /\ OpRange([f EXCEPT !.squash = TRUE, !.msg = t])
    BY <1>1, <2>2, WritesTyped
  <2> QED
    BY <2>1, <2>2, <2>3, Zenon
<1>6. ASSUME NEW c \in DOMAIN commits, NEW noCommit \in BOOLEAN,
             \/ PickEmpty(c) \/ PickRefused(c, noCommit) \/ PickConflicts(c, noCommit)
             \/ PickClean(c, noCommit)
             \/ RevertEmpty(c) \/ RevertRefused(c, noCommit) \/ RevertPending(c, noCommit)
             \/ RevertClean(c)
      PROVE  OpRange(op')
  <2>1. \/ op' = op
        \/ op' = [op EXCEPT !.pick = c, !.msg = "text"]
        \/ op' = [op EXCEPT !.revert = c, !.msg = "text"]
        \/ op' = clearRevertState(clearCherryPickState(op))
        \/ op' = clearCherryPickState(clearRevertState(op))
    BY <1>6 DEF PickEmpty, PickRefused, PickConflicts, PickClean, RevertEmpty, RevertRefused,
       RevertPending, RevertClean
  <2>2. /\ OpRange([op EXCEPT !.pick = c, !.msg = "text"])
        /\ OpRange([op EXCEPT !.revert = c, !.msg = "text"])
    BY <1>1, WritesTyped
  <2>3. /\ OpRange(clearRevertState(clearCherryPickState(op)))
        /\ OpRange(clearCherryPickState(clearRevertState(op)))
    <3>1. OpRange(clearRevertState(op)) /\ OpRange(clearCherryPickState(op))
      BY <1>1, <1>2, WritesTyped
    <3> QED
      BY <1>1, <1>2, <3>1, WritesTyped
  <2> QED
    BY <1>1, <2>1, <2>2, <2>3
<1>7. CASE Abort \/ Continue
  <2>1. \/ op' = clearMergeState(op) \/ op' = clearCherryPickState(op) \/ op' = clearRevertState(op)
        \/ op' = clearCherryPickState(clearRevertState(op))
        \/ op' = clearRevertState(clearCherryPickState(op))
    BY <1>7 DEF Abort, MergeAbort, PickAbort, RevertAbort, RevertSkip, handleOperationAbort,
       Continue, MergeContinue, ReplayContinue
  <2>2. OpRange(clearRevertState(op)) /\ OpRange(clearCherryPickState(op))
        /\ OpRange(clearMergeState(op))
    BY <1>1, <1>2, WritesTyped
  <2>3. /\ OpRange(clearRevertState(clearCherryPickState(op)))
        /\ OpRange(clearCherryPickState(clearRevertState(op)))
    BY <1>1, <1>2, <2>2, WritesTyped
  <2> QED
    BY <2>1, <2>2, <2>3
<1>8. CASE \/ CommitStep
           \/ \E c \in DOMAIN commits, mode \in {"soft", "mixed", "hard"} : resetToCommit(c, mode)
           \/ \E b \in Branch : switchBranchCore(b)
  <2>1. op' = NoOp \/ \E t \in {op.msg, "none"} : op' = [NoOp EXCEPT !.msg = t]
    BY <1>8 DEF CommitStep, Commit, Concluded, resetToCommit, switchBranchCore
  <2> QED
    BY <1>1, <1>2, <2>1, WritesTyped
<1>9. CASE \E p \in Path : UserStep(p)
  BY <1>1, <1>9 DEF UserStep, Add, restoreFiles, Edit
<1> QED
  BY <1>5, <1>6, <1>7, <1>8, <1>9 DEF Next, Replay, NoCommitPick, NoCommitRevert

\* What is counted and what is remembered of the files.
LEMMA GhostStep ==
    ASSUME TypeInv, Next
    PROVE  GhostTyped'
<1>1. work \in 0..MaxWork /\ undo \in [Path -> Content \cup {Absent, Touched}] /\ wt \in Tree
  BY DEF TypeInv, GhostTyped, FilesTyped
<1>2. work' = work \/ Worked
  BY ZenonT(60) DEF Next, Merge, MergeUpToDate, handleSquashMerge, handleFastForward, MergeRefused,
     MergeConflicts, MergeClean, NoCommitPick, NoCommitRevert, Replay, PickEmpty, PickRefused,
     PickConflicts, PickClean, RevertEmpty, RevertRefused, RevertPending, RevertClean, Abort,
     MergeAbort, PickAbort, RevertAbort, RevertSkip, handleOperationAbort, Continue,
     MergeContinue, ReplayContinue, CommitStep, Commit, resetToCommit, switchBranchCore,
     UserStep, Add, restoreFiles, Edit
<1>3. \/ undo' \in {undo, NoUndo, wt}
      \/ \E p \in Path : undo' = [undo EXCEPT ![p] = Touched]
  BY DEF Next, Merge, MergeUpToDate, handleSquashMerge, handleFastForward, MergeRefused,
     MergeConflicts, MergeClean, NoCommitPick, NoCommitRevert, Replay, PickEmpty, PickRefused,
     PickConflicts, PickClean, RevertEmpty, RevertRefused, RevertPending, RevertClean, Abort,
     MergeAbort, PickAbort, RevertAbort, RevertSkip, handleOperationAbort, Continue,
     MergeContinue, ReplayContinue, CommitStep, Commit, resetToCommit, switchBranchCore,
     UserStep, Add, restoreFiles, Edit
<1>4. work' \in 0..MaxWork
  BY <1>1, <1>2, WorkingCopyAssumption DEF Worked
<1>5. undo' \in [Path -> Content \cup {Absent, Touched}]
  BY <1>1, <1>3 DEF NoUndo, Tree
<1> QED
  BY <1>4, <1>5 DEF GhostTyped

\* The strengthening is inductive.
LEMMA TypeInvHolds == Spec => []TypeInv
<1>1. Init => TypeInv
  <2> SUFFICES ASSUME Init
               PROVE  TypeInv
    OBVIOUS
  <2>1. PICK h \in Histories : commits = h.commits /\ branch = h.branch /\ head = h.head
    BY DEF Init
  <2>2. HistoryTyped
    BY <2>1, WorkingCopyAssumption DEF HistoryTyped, Commits
  <2>3. FilesTyped
    BY <2>2, HeadTyped, TreesAreIndexes DEF Init, FilesTyped
  <2>4. OpTyped
    BY DEF Init, NoOp, OpTyped
  <2>5. GhostTyped
    BY WorkingCopyAssumption DEF Init, NoUndo, GhostTyped
  <2> QED
    BY <2>2, <2>3, <2>4, <2>5 DEF TypeInv
<1>2. TypeInv /\ [Next]_vars => TypeInv'
  <2> SUFFICES ASSUME TypeInv, [Next]_vars
               PROVE  TypeInv'
    OBVIOUS
  <2>1. CASE Next
    <3>1. HistoryTyped' /\ DOMAIN commits \subseteq DOMAIN commits'
      BY <2>1, HistoryStep, HistoryKept DEF TypeInv
    <3>2. OpTyped'
      BY <2>1, <3>1, OpStep DEF OpRange, OpTyped
    <3> QED
      BY <2>1, <3>1, <3>2, FilesStep, GhostStep DEF TypeInv
  <2>2. CASE UNCHANGED vars
    BY <2>2 DEF vars, TypeInv, HistoryTyped, FilesTyped, OpTyped, GhostTyped
  <2> QED
    BY <2>1, <2>2
<1> QED
  BY <1>1, <1>2, PTL DEF Spec

\* What TypeOK says: whatever is run and in whatever order, every commit's tree is free of
\* conflicts, parents come before their children, so that history has no cycle, and
\* branches and pending operations name commits that are there.
THEOREM TypesHold == Spec => []TypeOK
<1>1. TypeInv => TypeOK
  BY HeadTyped DEF TypeInv, HistoryTyped, FilesTyped, OpTyped, GhostTyped, TypeOK
<1> QED
  BY <1>1, TypeInvHolds, PTL

-------------------------------------------------------------------------------
(* The end of a merge.                                                     *)

\* A commit with the histories that f has for its parents.
Above(i, f) == {i} \cup UNION {f[commits[i].parents[k]] : k \in DOMAIN commits[i].parents}
HasParents(S) == \A x \in S : \A k \in DOMAIN commits[x].parents : commits[x].parents[k] \in S
ParentsThere == HasParents(DOMAIN commits)

\* What a walk along the parents reaches: one function that Ancestors' equation
\* has for a solution, so that there is one.
Reached == [i \in DOMAIN commits |->
    {c \in DOMAIN commits : \A S \in SUBSET DOMAIN commits : i \in S /\ HasParents(S) => c \in S}]

LEMMA ReachedIsSolution ==
    ASSUME ParentsThere PROVE Reached = [i \in DOMAIN commits |-> Above(i, Reached)]
<1>1. ASSUME NEW i \in DOMAIN commits PROVE Reached[i] = Above(i, Reached)
  <2>0. \A k \in DOMAIN commits[i].parents : commits[i].parents[k] \in DOMAIN commits
    BY DEF ParentsThere, HasParents
  <2>1. i \in Reached[i]
    BY DEF Reached
  <2>2. ASSUME NEW k \in DOMAIN commits[i].parents, NEW c \in Reached[commits[i].parents[k]]
        PROVE  c \in Reached[i]
    <3>1. ASSUME NEW S \in SUBSET DOMAIN commits, i \in S, HasParents(S) PROVE c \in S
      <4>1. commits[i].parents[k] \in S
        BY <3>1 DEF HasParents
      <4> QED
        BY <2>0, <2>2, <3>1, <4>1 DEF Reached
    <3> QED
      BY <2>0, <2>2, <3>1 DEF Reached
  <2>3. ASSUME NEW c \in Reached[i] PROVE c \in Above(i, Reached)
    <3> DEFINE S == Above(i, Reached)
    <3>1. S \in SUBSET DOMAIN commits
      BY <2>0 DEF Above, Reached
    <3>2. ASSUME NEW x \in S, NEW k \in DOMAIN commits[x].parents PROVE commits[x].parents[k] \in S
      <4>1. x \in DOMAIN commits /\ commits[x].parents[k] \in DOMAIN commits
        BY <3>1 DEF ParentsThere, HasParents
      <4>2. CASE x = i
        BY <4>1, <4>2 DEF Above, Reached
      <4>3. CASE x # i
        <5>1. PICK m \in DOMAIN commits[i].parents : x \in Reached[commits[i].parents[m]]
          BY <4>3 DEF Above
        <5>2. ASSUME NEW T \in SUBSET DOMAIN commits, commits[i].parents[m] \in T, HasParents(T)
              PROVE  commits[x].parents[k] \in T
          <6>1. x \in T
            BY <2>0, <5>1, <5>2 DEF Reached
          <6> QED
            BY <5>2, <6>1 DEF HasParents
        <5>3. commits[x].parents[k] \in Reached[commits[i].parents[m]]
          BY <2>0, <4>1, <5>2 DEF Reached
        <5> QED
          BY <5>3 DEF Above
      <4> QED
        BY <4>2, <4>3
    <3>3. i \in S /\ HasParents(S)
      BY <3>2 DEF HasParents, Above
    <3> QED
      BY <2>3, <3>1, <3>3 DEF Reached
  <2> QED
    BY <2>1, <2>2, <2>3 DEF Above
<1> QED
  BY <1>1 DEF Reached

\* The history of a commit is itself and the histories of its parents.
LEMMA AncestorsUnfold ==
    ParentsThere => Ancestors = [i \in DOMAIN commits |-> Above(i, Ancestors)]
BY ReachedIsSolution DEF Ancestors, Above

\* A commit on HEAD with MERGE_HEAD as second parent takes the merge in.
LEMMA MergeTakenIn ==
    ASSUME TypeInv, HistoryTyped', op.merge # 0, head' = head,
           NEW t, writeCommitAndAdvance(t, <<HeadId, op.merge>>)
    PROVE  /\ branch'[head] # branch[head]
           /\ {HeadId, op.merge} \subseteq Ancestors'[branch'[head]]
<1> DEFINE n == Len(commits) + 1
           ps == <<HeadId, op.merge>>
<1>1. /\ commits \in Commits /\ branch \in [Branch -> DOMAIN commits] /\ head \in Branch
      /\ op.merge \in DOMAIN commits /\ HeadId \in DOMAIN commits
  BY DEF TypeInv, HistoryTyped, OpTyped, HeadId
<1>2. commits' = Append(commits, [tree |-> t, parents |-> ps]) /\ branch'[head] = n
  BY <1>1 DEF writeCommitAndAdvance
<1>3. /\ DOMAIN commits = 1..Len(commits) /\ Len(commits) \in Nat
      /\ DOMAIN commits' = 1..n /\ commits'[n] = [tree |-> t, parents |-> ps]
      /\ HeadId \in DOMAIN commits' /\ op.merge \in DOMAIN commits'
  BY <1>1, <1>2 DEF Commits
<1>4. (ParentsThere => Ancestors = [i \in DOMAIN commits |-> Above(i, Ancestors)])'
  BY AncestorsUnfold, PTL
<1>5. ParentsThere'
  BY DEF HistoryTyped, ParentsThere, HasParents, Commits
<1>6. \A i \in DOMAIN commits' : Ancestors'[i] = Above(i, Ancestors)'
  BY <1>4, <1>5
<1>7. HeadId \in Ancestors'[HeadId] /\ op.merge \in Ancestors'[op.merge]
  BY <1>3, <1>6 DEF Above
<1>8. commits'[n].parents = ps /\ DOMAIN ps = {1, 2} /\ ps[1] = HeadId /\ ps[2] = op.merge
  BY <1>3
<1>9. n \in DOMAIN commits' /\ branch[head] # n
  BY <1>1, <1>3
<1>10. {HeadId, op.merge} \subseteq Ancestors'[n]
  BY <1>6, <1>7, <1>8, <1>9 DEF Above
<1> QED
  BY <1>2, <1>9, <1>10

\* What TLC checks as MergeHeadRemembered: MERGE_HEAD is forgotten only by the commit
\* that takes it in, or by aborting, resetting or switching away; whatever picks,
\* reverts and commits come in the middle of a merge.
THEOREM MergeIsTakenIn == Spec => MergeHeadRemembered
<1> DEFINE Remembers ==
            op.merge # 0 /\ op'.merge # op.merge =>
                \/ op' = NoOp /\ commits' = commits
                \/ /\ branch'[head] # branch[head]
                   /\ {HeadId, op.merge} \subseteq Ancestors'[branch'[head]]
                \/ Abort
<1>1. TypeInv /\ [Next]_vars => [Remembers]_vars
  <2> SUFFICES ASSUME TypeInv, Next, op.merge # 0, op'.merge # op.merge PROVE Remembers
    OBVIOUS
  <2>0. HistoryTyped'
    BY HistoryStep, HistoryKept DEF TypeInv
  <2>1. op \in [merge : Nat, pick : Nat, revert : Nat,
                msg : {"none", "text", "hints"}, squash : BOOLEAN]
    BY DEF TypeInv, OpTyped
  <2>2. ~ \E b \in Branch : Merge(b)
    BY DEF Merge, MergeUpToDate, handleSquashMerge, handleFastForward, MergeRefused,
           MergeConflicts, MergeClean, MergeAllowed
  <2>3. /\ clearRevertState(clearCherryPickState(op)).merge = op.merge
        /\ clearCherryPickState(clearRevertState(op)).merge = op.merge
    BY <2>1 DEF clearRevertState, clearCherryPickState
  <2>4. \A d : /\ [op EXCEPT !.pick = d, !.msg = "text"].merge = op.merge
               /\ [op EXCEPT !.revert = d, !.msg = "text"].merge = op.merge
    BY <2>1
  <2>5. ~ \E c \in DOMAIN commits : Replay(c)
    BY <2>3, <2>4 DEF Replay, PickEmpty, PickRefused, PickConflicts, PickClean,
                      RevertRefused, RevertPending, RevertClean
  <2>6. ~ (NoCommitPick \/ NoCommitRevert)
    BY <2>3, <2>4 DEF NoCommitPick, NoCommitRevert, PickRefused, PickConflicts, PickClean,
                      RevertEmpty, RevertRefused, RevertPending
  <2>7. ~ \E p \in Path : UserStep(p)
    BY DEF UserStep, Add, restoreFiles, Edit
  <2>8. CASE \/ \E b \in Branch : switchBranchCore(b)
             \/ \E c \in DOMAIN commits, mode \in {"soft", "mixed", "hard"} : resetToCommit(c, mode)
    BY <2>8 DEF switchBranchCore, resetToCommit
  <2>9. CASE Continue
    <3>1. MergeContinue
      BY <2>3, <2>9 DEF Continue, ReplayContinue
    <3> QED
      BY <2>0, <3>1, MergeTakenIn DEF MergeContinue
  <2>10. CASE CommitStep
    <3>1. PICK all, amend, allowEmpty \in BOOLEAN : Commit(all, amend, allowEmpty)
      BY <2>10 DEF CommitStep
    <3>2. CommitParents(amend) = <<HeadId, op.merge>>
      BY <3>1 DEF Commit, CommitParents
    <3> QED
      BY <2>0, <3>1, <3>2, MergeTakenIn DEF Commit
  <2> QED
    BY <2>2, <2>5, <2>6, <2>7, <2>8, <2>9, <2>10 DEF Next
<1> QED
  BY <1>1, TypeInvHolds, PTL DEF Spec, MergeHeadRemembered

-------------------------------------------------------------------------------
(* What an abort gives back.                                               *)

\* A path that the user has not touched since the operation stopped: it is in conflict,
\* or its entry is that of HEAD and its file as it was (or put there by the operation, or
\* ignored), or its entry is not that of HEAD and the operation found nothing to lose.
Kept(p, was, tree, entry, file) ==
    \/ was = Touched \/ entry = Unmerged
    \/ entry = tree /\ (file = was \/ (was = Absent /\ file = tree) \/ (was # tree /\ p \in Ignored))
    \/ entry # tree /\ (was \in {tree, Absent} \/ p \in Ignored)
Restorable == \A p \in Path : Kept(p, undo[p], HeadTree[p], index[p], wt[p])

\* Going two ways from a tree that the index agrees with.
LEMMA TwowayRestorable ==
    ASSUME NEW p, NEW old, NEW new, NEW file, old # Unmerged,
           checkSingleRequirement(twowayMerge(old, new, old, FALSE), p, old, file, old)
    PROVE  /\ new = old => ResultFile(twowayMerge(old, new, old, FALSE), old, file, new, FALSE) = file
           /\ new # old => file \in {old, Absent} \/ p \in Ignored
<1> DEFINE d == twowayMerge(old, new, old, FALSE)
<1>1. Stage0(old) = old
  BY DEF Stage0
<1>2. checkSingleRequirement(d, p, old, file, old)
  OBVIOUS
<1>3. /\ new = old => d \in {Skip, Keep}
      /\ new # old /\ old = Absent => d = Take("no_untracked")
      /\ new # old /\ old # Absent => d \in {Delete("uptodate"), Take("uptodate")}
  BY DEF twowayMerge, twowayUnstaged, TakeOrDelete
<1> SUFFICES /\ new = old => ResultFile(d, old, file, new, FALSE) = file
             /\ new # old => file \in {old, Absent} \/ p \in Ignored
  OBVIOUS
<1> HIDE DEF d
<1>5. CASE new = old
  <2>1. d.action \in {"keep", "skip"}
    BY <1>3, <1>5 DEF Skip, Keep
  <2> QED
    BY <1>5, <2>1 DEF ResultFile
<1>6. CASE new # old /\ old = Absent
  <2>1. d.requires = "no_untracked"
    BY <1>3, <1>6 DEF Take
  <2> QED
    BY <1>1, <1>2, <1>6, <2>1 DEF checkSingleRequirement, NoUntracked
<1>7. CASE new # old /\ old # Absent
  <2>1. d.requires = "uptodate"
    BY <1>3, <1>7 DEF Take, Delete
  <2> QED
    BY <1>1, <1>2, <1>7, <2>1 DEF checkSingleRequirement, UpToDate
<1> QED
  BY <1>5, <1>6, <1>7

\* An operation that stops on a conflict, begun with nothing staged, can be undone.
LEMMA ConflictRestorable ==
    ASSUME NEW m, NEW check \in BOOLEAN, ~hasConflicts, ~hasStagedChanges,
           applyMergeResult(m, check, FALSE).ok
    PROVE  \A p \in Path : Kept(p, wt[p], HeadTree[p],
                                applyMergeResult(m, check, FALSE).index[p],
                                applyMergeResult(m, check, FALSE).wt[p])
<1> TAKE p \in Path
<1> DEFINE r == checkoutTrees(HeadTree, m.tree, index, wt, FALSE)
           a == applyMergeResult(m, check, FALSE)
<1>1. r.ok /\ a.wt[p] = r.wt[p] /\ a.index[p] = MergedEntry(m, FALSE, p)
  BY DEF applyMergeResult
<1>2. index[p] = HeadTree[p] /\ index[p] # Unmerged
  BY DEF hasStagedChanges, hasConflicts, TreeOf, Stage0
<1> DEFINE d == twowayMerge(HeadTree[p], m.tree[p], HeadTree[p], FALSE)
<1>3. checkSingleRequirement(d, p, HeadTree[p], wt[p], HeadTree[p])
  BY <1>1, <1>2 DEF checkoutTrees, unpackTrees
<1>4. r.wt[p] = ResultFile(d, HeadTree[p], wt[p], m.tree[p], FALSE)
  BY <1>2 DEF checkoutTrees, unpackTrees
<1>5. /\ m.tree[p] = HeadTree[p] => ResultFile(d, HeadTree[p], wt[p], m.tree[p], FALSE) = wt[p]
      /\ m.tree[p] # HeadTree[p] => wt[p] \in {HeadTree[p], Absent} \/ p \in Ignored
  BY <1>2, <1>3, TwowayRestorable, ZenonT(60)
<1>6. a.index[p] = Unmerged \/ a.index[p] = m.tree[p]
  BY <1>1, <1>2 DEF MergedEntry
<1> HIDE DEF a, r, d
<1>7. Kept(p, wt[p], HeadTree[p], a.index[p], a.wt[p])
  BY <1>1, <1>4, <1>5, <1>6 DEF Kept
<1> QED
  BY <1>7 DEF a

\* What is about one path at most leaves the others restorable.
LEMMA OnePathRestorable ==
    ASSUME TypeInv, Restorable, NEW p \in Path,
           undo' = [undo EXCEPT ![p] = Touched], HeadTree' = HeadTree,
           \A q \in Path : q # p => index'[q] = index[q] /\ wt'[q] = wt[q]
    PROVE  Restorable'
<1>1. undo \in [Path -> Content \cup {Absent, Touched}]
  BY DEF TypeInv, GhostTyped
<1>2. undo'[p] = Touched /\ \A q \in Path : q # p => undo'[q] = undo[q]
  BY <1>1
<1> HIDE DEF HeadTree
<1> QED
  BY <1>2 DEF Restorable, Kept

\* Where nothing is remembered nothing need be restored.
LEMMA NothingToRestore == undo' = NoUndo => Restorable'
BY DEF NoUndo, Restorable, Kept

\* A command that stops on a conflict, or with a pick still pending, remembers the files.
LEMMA StoppedRestorable ==
    ASSUME Restorable,
           \/ \E b \in Branch, noFf \in BOOLEAN : MergeConflicts(b, noFf)
           \/ \E c \in DOMAIN commits, noCommit \in BOOLEAN :
                \/ PickEmpty(c) \/ PickConflicts(c, noCommit) \/ RevertPending(c, noCommit)
    PROVE  Restorable'
<1>1. undo' = wt \/ undo' = NoUndo
  BY ZenonT(60) DEF MergeConflicts, PickEmpty, PickConflicts, RevertPending
<1>2. CASE undo' = wt /\ undo' # NoUndo
  <2>1. HeadTree' = HeadTree
    BY DEF MergeConflicts, PickEmpty, PickConflicts, RevertPending, HeadTree, HeadId
  <2>2. CASE \E c \in DOMAIN commits : PickEmpty(c)
    <3>1. index' = index /\ wt' = wt /\ ~hasConflicts /\ ~hasStagedChanges
      BY <2>2 DEF PickEmpty, ReplayAllowed
    <3>2. \A p \in Path : index[p] = HeadTree[p]
      BY <3>1 DEF hasStagedChanges, hasConflicts, TreeOf, Stage0
    <3> HIDE DEF HeadTree
    <3> QED
      BY <1>2, <2>1, <3>1, <3>2 DEF Restorable, Kept
  <2>3. CASE ~ \E c \in DOMAIN commits : PickEmpty(c)
    <3>1. ~hasConflicts
      BY <2>3 DEF MergeConflicts, MergeAllowed, PickConflicts, RevertPending, ReplayAllowed
    <3>2. \E m : \E check \in BOOLEAN :
             LET r == applyMergeResult(m, check, FALSE)
             IN r.ok /\ index' = r.index /\ wt' = r.wt /\ (check \/ ~hasStagedChanges)
      <4>1. CASE \E b \in Branch, noFf \in BOOLEAN : MergeConflicts(b, noFf)
        <5>1. \E m : LET r == applyMergeResult(m, TRUE, FALSE)
                     IN r.ok /\ index' = r.index /\ wt' = r.wt
          BY <4>1 DEF MergeConflicts
        <5> QED
          BY <5>1
      <4>2. CASE \E c \in DOMAIN commits, noCommit \in BOOLEAN :
                   PickConflicts(c, noCommit) \/ RevertPending(c, noCommit)
        <5>1. PICK c \in DOMAIN commits, noCommit \in BOOLEAN :
                PickConflicts(c, noCommit) \/ RevertPending(c, noCommit)
          BY <4>2
        <5>2. ~noCommit
          BY <1>2, <5>1 DEF PickConflicts, RevertPending
        <5>3. \E m : LET r == applyMergeResult(m, FALSE, FALSE)
                     IN r.ok /\ index' = r.index /\ wt' = r.wt
          BY <5>1, <5>2, ZenonT(60) DEF PickConflicts, RevertPending
        <5>4. ~hasStagedChanges
          BY <5>1, <5>2 DEF PickConflicts, RevertPending, ReplayAllowed
        <5> QED
          BY <5>3, <5>4
      <4>3. \/ \E b \in Branch, noFf \in BOOLEAN : MergeConflicts(b, noFf)
            \/ \E c \in DOMAIN commits, noCommit \in BOOLEAN :
                 PickConflicts(c, noCommit) \/ RevertPending(c, noCommit)
        BY <2>3
      <4> QED
        BY <4>1, <4>2, <4>3
    <3>3. PICK m : \E check \in BOOLEAN :
            LET r == applyMergeResult(m, check, FALSE)
            IN r.ok /\ index' = r.index /\ wt' = r.wt /\ (check \/ ~hasStagedChanges)
      BY <3>2
    <3>4. PICK check \in BOOLEAN :
            LET r == applyMergeResult(m, check, FALSE)
            IN r.ok /\ index' = r.index /\ wt' = r.wt /\ (check \/ ~hasStagedChanges)
      BY <3>3
    <3>5. ~hasStagedChanges
      BY <3>4 DEF applyMergeResult
    <3>6. \A p \in Path : Kept(p, wt[p], HeadTree[p], index'[p], wt'[p])
      BY <3>1, <3>4, <3>5, ConflictRestorable
    <3> HIDE DEF HeadTree
    <3> QED
      BY <1>2, <2>1, <3>6 DEF Restorable
  <2> QED
    BY <2>2, <2>3
<1> QED
  BY <1>1, <1>2, NothingToRestore

\* In every state an operation that stopped can be undone.
LEMMA RestorableStep ==
    ASSUME TypeInv, Restorable, Next
    PROVE  Restorable'
<1>1. CASE \E b \in Branch : Merge(b) \/ switchBranchCore(b)
  <2>1. PICK b \in Branch : Merge(b) \/ switchBranchCore(b)
    BY <1>1
  <2>2. CASE MergeUpToDate(b)
    BY <2>2 DEF MergeUpToDate, Restorable, HeadTree, HeadId
  <2>3. CASE \E noFf \in BOOLEAN : MergeConflicts(b, noFf)
    BY <2>3, StoppedRestorable
  <2>4. CASE \/ handleSquashMerge(b) \/ switchBranchCore(b)
             \/ \E squash \in BOOLEAN : handleFastForward(b, squash)
             \/ \E noFf \in BOOLEAN : MergeRefused(b, noFf) \/ MergeClean(b, noFf)
    <3>1. undo' = NoUndo
      BY <2>4 DEF handleSquashMerge, switchBranchCore, handleFastForward, MergeRefused, MergeClean
    <3> QED
      BY <3>1, NothingToRestore
  <2> QED
    BY <2>1, <2>2, <2>3, <2>4 DEF Merge
<1>2. CASE (\E c \in DOMAIN commits : Replay(c)) \/ NoCommitPick \/ NoCommitRevert
  <2>1. PICK c \in DOMAIN commits, noCommit \in BOOLEAN :
          \/ PickEmpty(c) \/ PickConflicts(c, noCommit) \/ RevertPending(c, noCommit)
          \/ RevertEmpty(c)
          \/ PickRefused(c, noCommit) \/ PickClean(c, noCommit)
          \/ RevertRefused(c, noCommit) \/ RevertClean(c)
    BY <1>2 DEF Replay, NoCommitPick, NoCommitRevert
  <2>2. CASE PickEmpty(c) \/ PickConflicts(c, noCommit) \/ RevertPending(c, noCommit)
    BY <2>2, StoppedRestorable
  <2>3. CASE RevertEmpty(c)
    BY <2>3 DEF RevertEmpty, Restorable, HeadTree, HeadId
  <2>4. CASE \/ PickRefused(c, noCommit) \/ PickClean(c, noCommit)
             \/ RevertRefused(c, noCommit) \/ RevertClean(c)
    <3>1. undo' = NoUndo
      BY <2>4 DEF PickRefused, PickClean, RevertRefused, RevertClean
    <3> QED
      BY <3>1, NothingToRestore
  <2> QED
    BY <2>1, <2>2, <2>3, <2>4
<1>3. CASE \/ Abort \/ Continue \/ CommitStep
           \/ \E c \in DOMAIN commits, mode \in {"soft", "mixed", "hard"} : resetToCommit(c, mode)
  <2>1. undo' = NoUndo
    BY <1>3 DEF Abort, MergeAbort, PickAbort, RevertAbort, RevertSkip, handleOperationAbort,
                Continue, MergeContinue, ReplayContinue, CommitStep, Commit, resetToCommit
  <2> QED
    BY <2>1, NothingToRestore
<1>4. CASE \E p \in Path : UserStep(p)
  <2>1. PICK p \in Path : UserStep(p)
    BY <1>4
  <2>2. index \in Index /\ wt \in Tree
    BY DEF TypeInv, FilesTyped
  <2>3. undo' = [undo EXCEPT ![p] = Touched] /\ HeadTree' = HeadTree
    BY <2>1 DEF UserStep, Add, restoreFiles, Edit, HeadTree, HeadId
  <2>4. \A q \in Path : q # p => index'[q] = index[q] /\ wt'[q] = wt[q]
    BY <2>1, <2>2 DEF UserStep, Add, restoreFiles, Edit, Index, Tree
  <2> QED
    BY <2>3, <2>4, OnePathRestorable
<1> QED
  BY <1>1, <1>2, <1>3, <1>4 DEF Next

\* Aborting gives one path back.
LEMMA AbortedPath ==
    ASSUME NEW p \in Path, Kept(p, undo[p], HeadTree[p], index[p], wt[p]), undo[p] # Touched,
           HeadTree[p] # Unmerged
    PROVE  LET back == mergeAbort(HeadTree, index, wt).wt[p]
           IN \/ back = undo[p]
              \/ undo[p] = Absent /\ back = HeadTree[p]
              \/ undo[p] # HeadTree[p] /\ (index[p] = Unmerged \/ p \in Ignored)
<1> DEFINE idx == Stage0(index[p])
           d == onewayMerge(idx, HeadTree[p], FALSE, index[p] = Unmerged)
           back == mergeAbort(HeadTree, index, wt).wt[p]
<1>1. back = IF Orphaned(HeadTree, index, p) THEN Absent
             ELSE ResultFile(d, idx, wt[p], HeadTree[p], FALSE)
  BY DEF mergeAbort, unpackTrees
<1>2. d.action = IF HeadTree[p] = Absent THEN IF idx = Absent THEN "skip" ELSE "delete"
                 ELSE IF idx = HeadTree[p] THEN "keep" ELSE "take"
  BY DEF onewayMerge, Skip, Keep, Take, Delete
<1> HIDE DEF d
<1>3. index[p] = Unmerged => idx = Absent
  BY DEF Stage0
<1>4. index[p] # Unmerged => idx = index[p]
  BY DEF Stage0
<1> HIDE DEF idx
<1>5. back = IF index[p] = HeadTree[p] THEN wt[p] ELSE HeadTree[p]
  BY <1>1, <1>2, <1>3, <1>4 DEF Orphaned, ResultFile
<1> HIDE DEF back
<1>6. \/ back = undo[p]
      \/ undo[p] = Absent /\ back = HeadTree[p]
      \/ undo[p] # HeadTree[p] /\ (index[p] = Unmerged \/ p \in Ignored)
  BY <1>5 DEF Kept
<1> QED
  BY <1>6 DEF back

\* What TLC checks as AbortRestores: aborting or skipping a merge, pick or revert that
\* stopped gives back the files that the user has not worked on since, whatever else was
\* done in between.
THEOREM AbortGivesBack == Spec => AbortRestores
<1> DEFINE GivesBack ==
            (\A p \in Path : undo[p] # Touched =>
                \/ wt'[p] = undo[p]
                \/ undo[p] = Absent /\ wt'[p] = HeadTree[p]
                \/ undo[p] # HeadTree[p] /\ (index[p] = Unmerged \/ p \in Ignored))
            \/ ~Abort
<1>1. Init => Restorable
  BY DEF Init, NoUndo, Restorable, Kept
<1>2. TypeInv /\ Restorable /\ [Next]_vars => Restorable'
  <2>1. ASSUME TypeInv, Restorable, Next
        PROVE  Restorable'
    BY <2>1, RestorableStep
  <2>2. Restorable /\ UNCHANGED vars => Restorable'
    BY DEF vars, Restorable, HeadTree, HeadId
  <2> QED
    BY <2>1, <2>2
<1>3. TypeInv /\ Restorable /\ [Next]_vars => [GivesBack]_vars
  <2> SUFFICES ASSUME TypeInv, Restorable, Abort
               PROVE  GivesBack
    OBVIOUS
  <2>1. HeadTree \in Tree
    BY HeadTyped DEF TypeInv
  <2>2. \A p \in Path : HeadTree[p] # Unmerged
    BY <2>1, ContentAssumption DEF Tree
  <2>3. wt' = mergeAbort(HeadTree, index, wt).wt
    BY DEF Abort, MergeAbort, PickAbort, RevertAbort, RevertSkip, handleOperationAbort
  <2> SUFFICES ASSUME NEW p \in Path, undo[p] # Touched
               PROVE  \/ wt'[p] = undo[p]
                      \/ undo[p] = Absent /\ wt'[p] = HeadTree[p]
                      \/ undo[p] # HeadTree[p] /\ (index[p] = Unmerged \/ p \in Ignored)
    OBVIOUS
  <2>4. Kept(p, undo[p], HeadTree[p], index[p], wt[p])
    BY DEF Restorable
  <2> HIDE DEF HeadTree
  <2> QED
    BY <2>2, <2>3, <2>4, AbortedPath
<1> QED
  BY <1>1, <1>2, <1>3, TypeInvHolds, PTL DEF Spec, AbortRestores

-------------------------------------------------------------------------------
(* The index and the files agree on what a command changed.                *)

\* A decision about a path without conflicts that skips it only where the index has none.
LEMMA DecisionAgrees ==
    ASSUME NEW d, NEW idx, NEW file, NEW new, idx # Unmerged,
           d.action \in {"keep", "take", "delete", "skip"}, d.action = "skip" => idx = Absent
    PROVE  \/ ResultEntry(d, idx, new) = ResultFile(d, idx, file, new, FALSE)
           \/ ResultEntry(d, idx, new) = idx /\ ResultFile(d, idx, file, new, FALSE) = file
BY DEF ResultEntry, ResultFile, Stage0

\* The actions that the two-way table decides on.
LEMMA TableActions ==
    ASSUME NEW old, NEW new, NEW idx, NEW allow \in BOOLEAN, idx # Unmerged
    PROVE  /\ twowayMerge(old, new, idx, allow).action \in {"keep", "take", "delete", "skip"}
           /\ twowayMerge(old, new, idx, allow).action = "skip" => idx = Absent
BY DEF twowayMerge, twowayUnstaged, TakeOrDelete, Keep, Skip, SkipUnlessUntracked, Take, Delete,
       Reject

\* A checkout agrees on what it changes.
LEMMA CheckoutAgrees ==
    ASSUME NEW old, NEW new, NEW allow \in BOOLEAN, ~hasConflicts
    PROVE  LET r == checkoutTrees(old, new, index, wt, allow)
           IN \A p \in Path : r.index[p] = r.wt[p] \/ (r.index[p] = index[p] /\ r.wt[p] = wt[p])
<1> DEFINE r == checkoutTrees(old, new, index, wt, allow)
<1> SUFFICES ASSUME NEW p \in Path
             PROVE  r.index[p] = r.wt[p] \/ (r.index[p] = index[p] /\ r.wt[p] = wt[p])
  OBVIOUS
<1> DEFINE d == twowayMerge(old[p], new[p], index[p], allow)
<1>1. /\ r.index[p] = ResultEntry(d, index[p], new[p])
      /\ r.wt[p] = ResultFile(d, index[p], wt[p], new[p], FALSE)
  BY DEF checkoutTrees, unpackTrees
<1>2. index[p] # Unmerged
  BY DEF hasConflicts
<1>3. d.action \in {"keep", "take", "delete", "skip"} /\ (d.action = "skip" => index[p] = Absent)
  BY <1>2, TableActions
<1> HIDE DEF d, r
<1> QED
  BY <1>1, <1>2, <1>3, DecisionAgrees

\* The entry that a merge writes without conflict is the one of the checkout of its result.
LEMMA MergedAsUnpacked ==
    ASSUME NEW m, NEW noCommit \in BOOLEAN, NEW p, p \notin m.conflicts, index[p] # Unmerged,
           noCommit \/ index[p] = HeadTree[p]
    PROVE  MergedEntry(m, noCommit, p) =
             ResultEntry(twowayMerge(HeadTree[p], m.tree[p], index[p], noCommit), index[p], m.tree[p])
<1> DEFINE old == HeadTree[p]
           new == m.tree[p]
           idx == index[p]
           d == twowayMerge(old, new, idx, noCommit)
<1>1. /\ d.action = "keep" => ResultEntry(d, idx, new) = idx
      /\ d.action = "take" => ResultEntry(d, idx, new) = new
      /\ d.action \in {"skip", "delete"} => ResultEntry(d, idx, new) = Absent
  BY DEF ResultEntry, Stage0
<1>2. MergedEntry(m, noCommit, p) =
        IF new = old /\ (noCommit \/ new = Absent) THEN idx ELSE new
  BY DEF MergedEntry
<1>3. \/ d.action = "keep" /\ (old = new \/ idx = new)
      \/ d.action = "skip" /\ idx = Absent /\ (old = new \/ new = Absent)
      \/ d.action = "take" /\ new # old
      \/ d.action = "delete" /\ new = Absent /\ new # old
  BY DEF twowayMerge, twowayUnstaged, TakeOrDelete, Keep, Skip, SkipUnlessUntracked, Take,
         Delete, Reject
<1> HIDE DEF d
<1> QED
  BY <1>1, <1>2, <1>3 DEF d

\* Applying a merge agrees on what it changes, conflicts aside, and so does refusing to.
LEMMA ApplyAgrees ==
    ASSUME NEW m, NEW check \in BOOLEAN, NEW noCommit \in BOOLEAN, ~hasConflicts,
           check \/ noCommit \/ ~hasStagedChanges
    PROVE  LET a == applyMergeResult(m, check, noCommit)
           IN /\ a.ok => \A p \in Path : \/ a.index[p] \in {Unmerged, a.wt[p]}
                                         \/ a.index[p] = index[p] /\ a.wt[p] = wt[p]
              /\ ~a.ok => \A p \in Path : a.wt[p] \in {index[p], wt[p]}
<1> DEFINE r == checkoutTrees(HeadTree, m.tree, index, wt, noCommit)
           a == applyMergeResult(m, check, noCommit)
<1>1. ASSUME a.ok, NEW p \in Path
      PROVE  a.index[p] \in {Unmerged, a.wt[p]} \/ (a.index[p] = index[p] /\ a.wt[p] = wt[p])
  <2>1. /\ a.wt[p] = r.wt[p] /\ a.index[p] = MergedEntry(m, noCommit, p)
        /\ noCommit \/ ~hasStagedChanges
    BY <1>1 DEF applyMergeResult
  <2>2. CASE p \in m.conflicts
    BY <2>1, <2>2 DEF MergedEntry
  <2>3. CASE p \notin m.conflicts
    <3>1. index[p] # Unmerged
      BY DEF hasConflicts
    <3>2. noCommit \/ index[p] = HeadTree[p]
      BY <2>1, <3>1 DEF hasStagedChanges, TreeOf, Stage0
    <3>3. a.index[p] = r.index[p]
      BY <2>1, <2>3, <3>1, <3>2, MergedAsUnpacked DEF checkoutTrees, unpackTrees
    <3>4. r.index[p] = r.wt[p] \/ (r.index[p] = index[p] /\ r.wt[p] = wt[p])
      BY CheckoutAgrees
    <3> HIDE DEF a, r
    <3> QED
      BY <2>1, <3>3, <3>4
  <2> QED
    BY <2>2, <2>3
<1>2. ASSUME ~a.ok, NEW p \in Path
      PROVE  a.wt[p] \in {index[p], wt[p]}
  BY <1>2 DEF applyMergeResult, restoreStagedAdditions
<1> HIDE DEF a
<1>3. /\ a.ok => \A p \in Path : \/ a.index[p] \in {Unmerged, a.wt[p]}
                                 \/ a.index[p] = index[p] /\ a.wt[p] = wt[p]
      /\ ~a.ok => \A p \in Path : a.wt[p] \in {index[p], wt[p]}
  BY <1>1, <1>2
<1> QED
  BY <1>3 DEF a

\* So does an abort, and git reset --hard.
LEMMA OnewayAgrees ==
    ASSUME NEW new, \A p \in Path : new[p] # Unmerged
    PROVE  /\ LET r == mergeAbort(new, index, wt)
              IN \A p \in Path : r.index[p] = r.wt[p] \/ (r.index[p] = index[p] /\ r.wt[p] = wt[p])
           /\ LET r == resetHard(new, index, wt)
              IN \A p \in Path : r.index[p] = r.wt[p] \/ (r.index[p] = index[p] /\ r.wt[p] = wt[p])
<1>1. ASSUME NEW p \in Path
      PROVE  LET r == mergeAbort(new, index, wt)
             IN r.index[p] = r.wt[p] \/ (r.index[p] = index[p] /\ r.wt[p] = wt[p])
  <2> DEFINE r == mergeAbort(new, index, wt)
             idx == Stage0(index[p])
             d == onewayMerge(idx, new[p], FALSE, index[p] = Unmerged)
  <2>1. /\ r.index[p] = ResultEntry(d, idx, new[p])
        /\ r.wt[p] = IF Orphaned(new, index, p) THEN Absent
                     ELSE ResultFile(d, idx, wt[p], new[p], FALSE)
    BY DEF mergeAbort, unpackTrees
  <2>2. d.action = IF new[p] = Absent THEN IF idx = Absent THEN "skip" ELSE "delete"
                   ELSE IF idx = new[p] THEN "keep" ELSE "take"
    BY DEF onewayMerge, Skip, Keep, Take, Delete
  <2>3. /\ index[p] = Unmerged => idx = Absent
        /\ index[p] # Unmerged => idx = index[p]
        /\ Stage0(idx) = idx \/ idx = Unmerged
    BY DEF Stage0
  <2> HIDE DEF d, r, idx
  <2>4. idx # Unmerged
    BY <2>3, ContentAssumption
  <2>5. r.index[p] = r.wt[p] \/ (r.index[p] = index[p] /\ r.wt[p] = wt[p])
    BY <2>1, <2>2, <2>3, <2>4 DEF ResultEntry, ResultFile, Orphaned
  <2> QED
    BY <2>5 DEF r
<1>2. ASSUME NEW p \in Path
      PROVE  LET r == resetHard(new, index, wt)
             IN r.index[p] = r.wt[p] \/ (r.index[p] = index[p] /\ r.wt[p] = wt[p])
  <2> DEFINE r == resetHard(new, index, wt)
             d == onewayMerge(index[p], new[p], TRUE, FALSE)
  <2>1. /\ r.index[p] = ResultEntry(d, index[p], new[p])
        /\ r.wt[p] = ResultFile(d, index[p], wt[p], new[p], TRUE)
    BY DEF resetHard, unpackTrees
  <2>2. d.action = IF new[p] = Absent THEN IF index[p] = Absent THEN "skip" ELSE "delete"
                   ELSE IF index[p] = new[p] THEN "keep" ELSE "take"
    BY DEF onewayMerge, Skip, Keep, Take, Delete
  <2> HIDE DEF d, r
  <2>3. r.index[p] = r.wt[p] \/ (r.index[p] = index[p] /\ r.wt[p] = wt[p])
    BY <2>1, <2>2 DEF ResultEntry, ResultFile, Stage0
  <2> QED
    BY <2>3 DEF r
<1> QED
  BY <1>1, <1>2

\* What a command changed agrees in the index and in the file, conflicts aside.
Agreeing == \A p \in Path : <<index'[p], wt'[p]>> # <<index[p], wt[p]>> =>
                index'[p] \in {Unmerged, wt'[p]}

\* The files and the index of a merge, a pick or a revert, tried or refused.
LEMMA AppliedAgrees ==
    ASSUME NEW m, NEW check \in BOOLEAN, NEW noCommit \in BOOLEAN, ~hasConflicts,
           check \/ noCommit \/ ~hasStagedChanges,
           LET a == applyMergeResult(m, check, noCommit)
           IN wt' = a.wt /\ ((a.ok /\ index' = a.index) \/ (~a.ok /\ index' = index))
    PROVE  Agreeing
<1> DEFINE a == applyMergeResult(m, check, noCommit)
<1>1. /\ a.ok => \A p \in Path : \/ a.index[p] \in {Unmerged, a.wt[p]}
                                 \/ a.index[p] = index[p] /\ a.wt[p] = wt[p]
      /\ ~a.ok => \A p \in Path : a.wt[p] \in {index[p], wt[p]}
  BY ApplyAgrees
<1>2. wt' = a.wt /\ ((a.ok /\ index' = a.index) \/ (~a.ok /\ index' = index))
  OBVIOUS
<1> HIDE DEF a
<1> QED
  BY <1>1, <1>2 DEF Agreeing

\* git merge and switching branches.
LEMMA MergeAgrees ==
    ASSUME NEW b \in Branch, Merge(b) \/ switchBranchCore(b)
    PROVE  Agreeing
<1>1. CASE switchBranchCore(b) \/ \E squash \in BOOLEAN : handleFastForward(b, squash)
  <2> DEFINE r == checkoutTrees(HeadTree, commits[branch[b]].tree, index, wt, FALSE)
  <2>1. ~hasConflicts
    BY <1>1 DEF switchBranchCore, handleFastForward, MergeAllowed
  <2>2. (index' = r.index /\ wt' = r.wt) \/ (index' = index /\ wt' = wt)
    BY <1>1 DEF switchBranchCore, handleFastForward
  <2>3. \A p \in Path : r.index[p] = r.wt[p] \/ (r.index[p] = index[p] /\ r.wt[p] = wt[p])
    BY <2>1, CheckoutAgrees
  <2> HIDE DEF r
  <2> QED
    BY <2>2, <2>3 DEF Agreeing
<1>2. CASE \/ handleSquashMerge(b)
           \/ \E noFf \in BOOLEAN :
                MergeRefused(b, noFf) \/ MergeConflicts(b, noFf) \/ MergeClean(b, noFf)
  <2>1. \E m : LET a == applyMergeResult(m, TRUE, FALSE)
               IN wt' = a.wt /\ ((a.ok /\ index' = a.index) \/ (~a.ok /\ index' = index))
    BY <1>2 DEF handleSquashMerge, MergeRefused, MergeConflicts, MergeClean
  <2>2. ~hasConflicts
    BY <1>2 DEF handleSquashMerge, MergeRefused, MergeConflicts, MergeClean, MergeAllowed
  <2> QED
    BY <2>1, <2>2, AppliedAgrees
<1>3. CASE MergeUpToDate(b)
  BY <1>3 DEF MergeUpToDate, Agreeing
<1> QED
  BY <1>1, <1>2, <1>3 DEF Merge

\* git cherry-pick, with -n and without, and git revert without.
LEMMA ReplayAgrees ==
    ASSUME (\E c \in DOMAIN commits : Replay(c)) \/ NoCommitPick
    PROVE  Agreeing
<1>1. PICK c \in DOMAIN commits, noCommit \in BOOLEAN :
        \/ PickEmpty(c)
        \/ PickRefused(c, noCommit) \/ PickConflicts(c, noCommit) \/ PickClean(c, noCommit)
        \/ RevertRefused(c, FALSE) \/ RevertPending(c, FALSE) \/ RevertClean(c)
  BY DEF Replay, NoCommitPick
<1>2. CASE PickEmpty(c)
  BY <1>2 DEF PickEmpty, Agreeing
<1>3. CASE PickRefused(c, noCommit) \/ PickConflicts(c, noCommit) \/ PickClean(c, noCommit)
  <2>1. \E m : LET a == applyMergeResult(m, FALSE, noCommit)
               IN wt' = a.wt /\ ((a.ok /\ index' = a.index) \/ (~a.ok /\ index' = index))
    BY <1>3 DEF PickRefused, PickConflicts, PickClean
  <2>2. ~hasConflicts /\ (noCommit \/ ~hasStagedChanges)
    BY <1>3 DEF PickRefused, PickConflicts, PickClean, ReplayAllowed
  <2> QED
    BY <2>1, <2>2, AppliedAgrees
<1>4. CASE RevertRefused(c, FALSE) \/ RevertPending(c, FALSE) \/ RevertClean(c)
  <2>1. \E m : LET a == applyMergeResult(m, FALSE, FALSE)
               IN wt' = a.wt /\ ((a.ok /\ index' = a.index) \/ (~a.ok /\ index' = index))
    BY <1>4 DEF RevertRefused, RevertPending, RevertClean
  <2>2. ~hasConflicts /\ ~hasStagedChanges
    BY <1>4 DEF RevertRefused, RevertPending, RevertClean, ReplayAllowed
  <2> QED
    BY <2>1, <2>2, AppliedAgrees
<1> QED
  BY <1>1, <1>2, <1>3, <1>4

\* What TLC checks as OperationAgrees: what a command changes, in the index or in a file,
\* agrees afterwards in both, whatever was staged, edited or pending before.
THEOREM IndexAgrees == Spec => OperationAgrees
<1> DEFINE Edits == \E p \in Path, c \in Mine \cup {Absent} : Edit(p, c)
<1>1. ASSUME TypeInv, [Next]_vars
      PROVE  Agreeing \/ Stages \/ NoCommitRevert \/ Edits \/ UNCHANGED vars
  <2>1. CASE \E b \in Branch : Merge(b) \/ switchBranchCore(b)
    BY <2>1, MergeAgrees
  <2>2. CASE (\E c \in DOMAIN commits : Replay(c)) \/ NoCommitPick
    BY <2>2, ReplayAgrees
  <2>3. CASE Continue
    BY <2>3 DEF Continue, MergeContinue, ReplayContinue, Agreeing
  <2>4. CASE CommitStep
    <3>1. PICK all, amend, allowEmpty \in BOOLEAN : Commit(all, amend, allowEmpty)
      BY <2>4 DEF CommitStep
    <3>2. CASE all
      BY <3>1, <3>2 DEF Stages
    <3>3. CASE ~all
      BY <3>1, <3>3 DEF Commit, Staged, Agreeing
    <3> QED
      BY <3>2, <3>3
  <2>5. CASE Abort
    <3> DEFINE r == mergeAbort(HeadTree, index, wt)
    <3>1. index' = r.index /\ wt' = r.wt
      BY <2>5 DEF Abort, MergeAbort, PickAbort, RevertAbort, RevertSkip, handleOperationAbort
    <3>2. HeadTree \in Tree
      BY <1>1, HeadTyped DEF TypeInv
    <3>3. \A p \in Path : HeadTree[p] # Unmerged
      BY <3>2, ContentAssumption DEF Tree
    <3>4. \A p \in Path : r.index[p] = r.wt[p] \/ (r.index[p] = index[p] /\ r.wt[p] = wt[p])
      BY <3>3, OnewayAgrees
    <3> HIDE DEF r
    <3> QED
      BY <3>1, <3>4 DEF Agreeing
  <2>6. CASE \E c \in DOMAIN commits, mode \in {"soft", "mixed", "hard"} : resetToCommit(c, mode)
    <3>1. PICK c \in DOMAIN commits, mode \in {"soft", "mixed", "hard"} : resetToCommit(c, mode)
      BY <2>6
    <3>2. CASE mode = "mixed"
      BY <3>1, <3>2 DEF Stages
    <3>3. CASE mode = "soft"
      BY <3>1, <3>3 DEF resetToCommit, Agreeing
    <3>4. CASE mode = "hard"
      <4> DEFINE r == resetHard(commits[c].tree, index, wt)
      <4>1. index' = r.index /\ wt' = r.wt
        BY <3>1, <3>4 DEF resetToCommit
      <4>2. commits[c].tree \in Tree
        BY <1>1, HeadTyped DEF TypeInv
      <4>3. \A p \in Path : commits[c].tree[p] # Unmerged
        BY <4>2, ContentAssumption DEF Tree
      <4>4. \A p \in Path : r.index[p] = r.wt[p] \/ (r.index[p] = index[p] /\ r.wt[p] = wt[p])
        BY <4>3, OnewayAgrees
      <4> HIDE DEF r
      <4> QED
        BY <4>1, <4>4 DEF Agreeing
    <3> QED
      BY <3>2, <3>3, <3>4
  <2>7. CASE \E p \in Path : UserStep(p)
    <3>1. PICK p \in Path : UserStep(p)
      BY <2>7
    <3>2. CASE Add(p)
      BY <3>2 DEF Stages
    <3>3. CASE restoreFiles(p)
      <4>1. wt \in Tree
        BY <1>1 DEF TypeInv, FilesTyped
      <4> QED
        BY <3>3, <4>1 DEF restoreFiles, Tree, Agreeing
    <3> QED
      BY <3>1, <3>2, <3>3 DEF UserStep
  <2> QED
    BY <1>1, <2>1, <2>2, <2>3, <2>4, <2>5, <2>6, <2>7 DEF Next
<1>2. TypeInv /\ [Next]_vars => [Agreeing \/ Stages \/ NoCommitRevert \/ Edits]_vars
  BY <1>1
<1> QED
  BY <1>2, TypeInvHolds, PTL DEF Spec, OperationAgrees, Agreeing
===============================================================================
