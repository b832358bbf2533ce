------------------------------ MODULE WorkingCopy ------------------------------
(***************************************************************************)
(* The client's working copy: commits, branches, the index, the files, and *)
(* the state files of an unfinished merge, cherry-pick or revert.  A user  *)
(* edits files and runs commands, one after the other; every command is    *)
(* one step with all its writes, and a command that refuses without a      *)
(* write is no step.  The commands share unpack-trees for everything they  *)
(* do to files, so that what protects local work is spread over the case   *)
(* tables, the preconditions and the checks each command makes itself.     *)
(*                                                                         *)
(* HEAD is always on a branch.  Renames, several merge bases and submodules*)
(* are left out.  ORIG_HEAD and MERGE_MODE are written and never read by   *)
(* these commands.                                                         *)
(***************************************************************************)
EXTENDS UnpackTrees, Naturals, Sequences, FiniteSets

CONSTANTS
    Branch,
    Markers,        \* the content of a file with conflict markers
    Merged,         \* the content of a file that merged cleanly
    Mine,           \* what the user may write into a file
    Touched,        \* in undo: a path the user has worked on
    Histories,      \* the commits, branch tips and current branch to start from
    MaxCommits,     \* bound: commits in all
    MaxWork         \* bound: edits, resets, picks and reverts in all

ASSUME WorkingCopyAssumption ==
    /\ {Markers, Merged} \cup Mine \subseteq Content
    /\ Touched \notin Content \cup {Absent}
    /\ MaxCommits \in Nat /\ MaxWork \in Nat
    /\ \A h \in Histories :
        /\ h.commits \in Seq([tree : Tree, parents : Seq(Nat)])
        /\ \A i \in DOMAIN h.commits : \A k \in DOMAIN h.commits[i].parents :
              h.commits[i].parents[k] \in 1..(i - 1)
        /\ h.branch \in [Branch -> DOMAIN h.commits]
        /\ h.head \in Branch

VARIABLES
    commits,    \* the commits made so far, each with its tree and its parents
    branch,     \* refs/heads: the commit of each branch
    head,       \* the branch HEAD is on
    index,      \* .git/index
    wt,         \* the files
    op,         \* MERGE_HEAD, CHERRY_PICK_HEAD, REVERT_HEAD, MERGE_MSG, SQUASH_MSG
    work,       \* edits, resets, picks and reverts so far
    undo        \* ghost: the files before a conflict, where nobody touched them since

vars == <<commits, branch, head, index, wt, op, work, undo>>

NoUndo == [p \in Path |-> Touched]
NoOp == [merge |-> 0, pick |-> 0, revert |-> 0, msg |-> "none", squash |-> FALSE]

HeadId == branch[head]
HeadTree == commits[HeadId].tree
EmptyTree == [p \in Path |-> Absent]

\* The tree of what is staged.
TreeOf(i) == [p \in Path |-> Stage0(i[p])]
hasConflicts == \E p \in Path : index[p] = Unmerged
\* As hasStagedChanges, without the paths that are gone from the index.
hasStagedChanges_present == \E p \in Path : index[p] \in Content /\ index[p] # HeadTree[p]
hasStagedChanges == TreeOf(index) # HeadTree

\* The history of each commit, itself included.
Ancestors == LET up[i \in DOMAIN commits] ==
                   {i} \cup UNION {up[commits[i].parents[k]] : k \in DOMAIN commits[i].parents}
             IN up
findAllMergeBases(a, b) ==
    LET common == Ancestors[a] \cap Ancestors[b]
    IN {c \in common : \A d \in common : c \in Ancestors[d] => d = c}

Init ==
    /\ \E h \in Histories : commits = h.commits /\ branch = h.branch /\ head = h.head
    /\ index = HeadTree /\ wt = HeadTree
    /\ op = NoOp
    /\ work = 0 /\ undo = NoUndo

-------------------------------------------------------------------------------
(* State files of operations.                                              *)

clearMergeState(o) == [o EXCEPT !.merge = 0, !.msg = "none", !.squash = FALSE]
clearCherryPickState(o) == [o EXCEPT !.pick = 0, !.msg = "none", !.squash = FALSE]
\* As clearRevertState, for the message only.
clearRevertState_messageOnly(o) == [o EXCEPT !.msg = "none", !.squash = FALSE]
clearRevertState(o) == [o EXCEPT !.revert = 0, !.msg = "none", !.squash = FALSE]

\* The bound on what the user starts.
Worked == work < MaxWork /\ work' = work + 1

\* What a new commit on HEAD does, whoever makes it.
writeCommitAndAdvance(tree, parents) ==
    /\ Len(commits) < MaxCommits
    /\ commits' = Append(commits, [tree |-> tree, parents |-> parents])
    /\ branch' = [branch EXCEPT ![head] = Len(commits) + 1]

-------------------------------------------------------------------------------
(* The three-way merge of trees and its application.                       *)

\* The paths whose three versions do not settle the outcome.
Contended(base, ours, theirs) ==
    {p \in Path : ours[p] # theirs[p] /\ base[p] # ours[p] /\ base[p] # theirs[p]}

\* How a contended path may come out: modified on one side and deleted on the
\* other, it conflicts and the file that is left stays; otherwise the contents
\* merge, or conflict with markers, or (binary files) conflict and ours stays.
Outcomes(ours, theirs, p) ==
    IF ours[p] = Absent \/ theirs[p] = Absent THEN {"left"} ELSE {"merged", "marked", "left"}

Results(base, ours, theirs) ==
    {how \in [Contended(base, ours, theirs) -> {"merged", "marked", "left"}] :
        \A p \in DOMAIN how : how[p] \in Outcomes(ours, theirs, p)}

\* The result tree, conflicted files included, and the conflicts.
mergeOrt(base, ours, theirs, how) ==
    [tree |-> [p \in Path |->
        IF p \notin DOMAIN how THEN IF ours[p] = base[p] THEN theirs[p] ELSE ours[p]
        ELSE IF how[p] = "merged" THEN Merged
        ELSE IF how[p] = "marked" THEN Markers
        ELSE IF ours[p] = Absent THEN theirs[p] ELSE ours[p]],
     conflicts |-> {p \in DOMAIN how : how[p] # "merged"}]

MergeResults(base, theirs) ==
    {mergeOrt(base, HeadTree, theirs, how) : how \in Results(base, HeadTree, theirs)}

\* As MergedEntry, keeping what the merge deletes.
MergedEntry_keepsDeleted(m, noCommit, p) ==
    IF p \in m.conflicts THEN Unmerged
    ELSE IF m.tree[p] = Absent \/ (noCommit /\ m.tree[p] = HeadTree[p]) THEN index[p] ELSE m.tree[p]

\* The index after a merge of HEAD with result m.  With -n, what is staged stays
\* where the result is as in HEAD.
MergedEntry(m, noCommit, p) ==
    IF p \in m.conflicts THEN Unmerged
    ELSE IF m.tree[p] = HeadTree[p] /\ (noCommit \/ m.tree[p] = Absent) THEN index[p]
    ELSE m.tree[p]

\* Before it refuses, a merge puts back staged additions whose files are gone.
restoreStagedAdditions ==
    [p \in Path |-> IF index[p] \in Content /\ HeadTree[p] = Absent /\ wt[p] = Absent
                    THEN index[p] ELSE wt[p]]

\* Would the one-way preflight of cherry-pick -n let the result pass?
Preflight(m) ==
    \A p \in Path : checkSingleRequirement(onewayMerge(index[p], m.tree[p], FALSE, FALSE),
                                           p, index[p], wt[p], m.tree[p])

applyMergeResult(m, stagedCheck, noCommit) ==
    LET r == checkoutTrees(HeadTree, m.tree, index, wt, noCommit)
    IN IF (stagedCheck /\ hasStagedChanges) \/ (noCommit /\ ~Preflight(m)) \/ ~r.ok
       THEN [ok |-> FALSE, index |-> index, wt |-> restoreStagedAdditions]
       ELSE [ok |-> TRUE, wt |-> r.wt,
             index |-> [p \in Path |-> MergedEntry(m, noCommit, p)]]

-------------------------------------------------------------------------------
(* git merge.                                                              *)

\* What every merge checks first.
MergeAllowed == ~hasConflicts /\ op.merge = 0 /\ op.pick = 0

\* A merge that is going to be tried forgets an unfinished revert.
RevertForgotten == IF op.revert # 0 THEN clearRevertState(op) ELSE op

MergeUpToDate(b) ==
    /\ MergeAllowed
    /\ findAllMergeBases(HeadId, branch[b]) = {branch[b]}
    /\ op' = [op EXCEPT !.msg = "none"]
    /\ UNCHANGED <<commits, branch, head, index, wt, work, undo>>

\* HEAD is an ancestor: its branch moves, or with --squash only files and index.
handleFastForward(b, squash) ==
    /\ MergeAllowed /\ branch[b] # HeadId
    /\ findAllMergeBases(HeadId, branch[b]) = {HeadId}
    /\ LET r == checkoutTrees(HeadTree, commits[branch[b]].tree, index, wt, FALSE)
       IN \/ /\ r.ok
             /\ index' = r.index /\ wt' = r.wt
             /\ IF squash
                THEN op' = [RevertForgotten EXCEPT !.squash = TRUE] /\ UNCHANGED branch
                ELSE op' = [RevertForgotten EXCEPT !.msg = "none"]
                     /\ branch' = [branch EXCEPT ![head] = branch[b]]
          \/ /\ ~r.ok
             /\ op' = IF squash THEN [RevertForgotten EXCEPT !.msg = "none"] ELSE RevertForgotten
             /\ UNCHANGED <<index, wt, branch>>
    /\ undo' = NoUndo
    /\ UNCHANGED <<commits, head, work>>

\* The results of a merge with a branch that HEAD does not just follow.
Merging(b, noFf) ==
    LET bases == findAllMergeBases(HeadId, branch[b])
    IN UNION {MergeResults(commits[c].tree, commits[branch[b]].tree) :
                c \in {c \in bases : bases = {c} /\ c # branch[b] /\ (noFf \/ c # HeadId)}}

\* Staged changes, or files in the way.
MergeRefused(b, noFf) ==
    /\ MergeAllowed
    /\ \E m \in Merging(b, noFf) :
        LET r == applyMergeResult(m, TRUE, FALSE) IN ~r.ok /\ wt' = r.wt
    /\ op' = [RevertForgotten EXCEPT !.msg = "none"]
    /\ undo' = NoUndo
    /\ UNCHANGED <<commits, branch, head, index, work>>

\* A hook may reject the message after MERGE_HEAD is written.
MergeConflicts(b, noFf) ==
    /\ MergeAllowed
    /\ \E m \in Merging(b, noFf) :
        LET r == applyMergeResult(m, TRUE, FALSE)
        IN r.ok /\ m.conflicts # {} /\ index' = r.index /\ wt' = r.wt
    /\ \E msg \in {"text", RevertForgotten.msg} :
        op' = [RevertForgotten EXCEPT !.merge = branch[b], !.msg = msg]
    /\ undo' = wt
    /\ UNCHANGED <<commits, branch, head, work>>

\* A missing identity or a hook may stop a clean merge before its commit.
MergeClean(b, noFf) ==
    /\ MergeAllowed
    /\ \E m \in Merging(b, noFf) :
        LET r == applyMergeResult(m, TRUE, FALSE)
        IN /\ r.ok /\ m.conflicts = {}
           /\ index' = r.index /\ wt' = r.wt
           /\ \/ writeCommitAndAdvance(TreeOf(r.index), <<HeadId, branch[b]>>)
              \/ UNCHANGED <<commits, branch>>
    /\ op' = [RevertForgotten EXCEPT !.msg = "none"]
    /\ undo' = NoUndo
    /\ UNCHANGED <<head, work>>

\* merge --squash stages the result and records no second parent.
handleSquashMerge(b) ==
    /\ MergeAllowed
    /\ \E m \in Merging(b, FALSE) :
        LET r == applyMergeResult(m, TRUE, FALSE)
        IN /\ r.ok /\ index' = r.index /\ wt' = r.wt
           /\ op' = [RevertForgotten EXCEPT !.squash = TRUE,
                        !.msg = IF m.conflicts # {} /\ @ = "none" THEN "hints" ELSE @]
    /\ undo' = NoUndo
    /\ UNCHANGED <<commits, branch, head, work>>

MergeContinue ==
    /\ op.merge # 0 /\ ~hasConflicts
    /\ writeCommitAndAdvance(TreeOf(index), <<HeadId, op.merge>>)
    /\ op' = clearMergeState(op)
    /\ undo' = NoUndo
    /\ UNCHANGED <<head, index, wt, work>>

\* Index and files go back to HEAD, unless a file that must change was edited.
handleOperationAbort(cleared) ==
    /\ LET r == mergeAbort(HeadTree, index, wt) IN r.ok /\ index' = r.index /\ wt' = r.wt
    /\ op' = cleared
    /\ undo' = NoUndo
    /\ UNCHANGED <<commits, branch, head, work>>

MergeAbort == op.merge # 0 /\ handleOperationAbort(clearMergeState(op))

-------------------------------------------------------------------------------
(* git cherry-pick and git revert: a merge of HEAD with one commit, against *)
(* its parent or the other way round.                                      *)

\* The parents' trees a commit is compared with (-m picks one of a merge).
ParentTrees(c) ==
    IF commits[c].parents = <<>> THEN {EmptyTree}
    ELSE {commits[commits[c].parents[k]].tree : k \in DOMAIN commits[c].parents}

Picking(c) == UNION {MergeResults(t, commits[c].tree) : t \in ParentTrees(c)}
Reverting(c) == UNION {MergeResults(commits[c].tree, t) : t \in ParentTrees(c)}

\* Without -n nothing may be staged.
ReplayAllowed(noCommit) == ~hasConflicts /\ (noCommit \/ ~hasStagedChanges)

Empty(m) == m.conflicts = {} /\ m.tree = HeadTree

\* Nothing is left to pick: the commit stays pending.  With -n nothing happens.
PickEmpty(c) ==
    /\ Worked
    /\ ReplayAllowed(FALSE) /\ \E m \in Picking(c) : Empty(m)
    /\ op' = [op EXCEPT !.pick = c, !.msg = "text"]
    /\ undo' = wt
    /\ UNCHANGED <<commits, branch, head, index, wt>>

PickRefused(c, noCommit) ==
    /\ Worked
    /\ ReplayAllowed(noCommit)
    /\ \E m \in Picking(c) :
        LET r == applyMergeResult(m, FALSE, noCommit) IN ~Empty(m) /\ ~r.ok /\ wt' = r.wt
    /\ undo' = NoUndo
    /\ UNCHANGED <<commits, branch, head, index, op>>

\* -n leaves conflicts in the index and nothing else to know of the pick.
PickConflicts(c, noCommit) ==
    /\ Worked
    /\ ReplayAllowed(noCommit)
    /\ \E m \in Picking(c) :
        LET r == applyMergeResult(m, FALSE, noCommit)
        IN r.ok /\ m.conflicts # {} /\ index' = r.index /\ wt' = r.wt
    /\ IF noCommit THEN UNCHANGED op /\ undo' = NoUndo
       ELSE op' = [op EXCEPT !.pick = c, !.msg = "text"] /\ undo' = wt
    /\ UNCHANGED <<commits, branch, head>>

\* Without a committer the index and the files have changed all the same.
PickClean(c, noCommit) ==
    /\ Worked
    /\ ReplayAllowed(noCommit)
    /\ \E m \in Picking(c) :
        LET r == applyMergeResult(m, FALSE, noCommit)
        IN /\ r.ok /\ m.conflicts = {} /\ ~Empty(m)
           /\ index' = r.index /\ wt' = r.wt
           /\ \/ /\ ~noCommit
                 /\ writeCommitAndAdvance(TreeOf(r.index), <<HeadId>>)
                 /\ op' = clearRevertState(clearCherryPickState(op))
              \/ UNCHANGED <<commits, branch, op>>
    /\ undo' = NoUndo
    /\ UNCHANGED head

RevertEmpty(c) ==
    /\ Worked
    /\ ReplayAllowed(TRUE) /\ \E m \in Reverting(c) : Empty(m)
    /\ op' = [op EXCEPT !.revert = c, !.msg = "text"]
    /\ UNCHANGED <<commits, branch, head, index, wt, undo>>

RevertRefused(c, noCommit) ==
    /\ Worked
    /\ ReplayAllowed(noCommit)
    /\ \E m \in Reverting(c) :
        LET r == applyMergeResult(m, FALSE, FALSE) IN ~Empty(m) /\ ~r.ok /\ wt' = r.wt
    /\ undo' = NoUndo
    /\ UNCHANGED <<commits, branch, head, index, op>>

\* Conflicts stay pending, and so does a clean revert with -n.
RevertPending(c, noCommit) ==
    /\ Worked
    /\ ReplayAllowed(noCommit)
    /\ \E m \in Reverting(c) :
        LET r == applyMergeResult(m, FALSE, FALSE)
        IN /\ r.ok /\ (m.conflicts # {} \/ (noCommit /\ ~Empty(m)))
           /\ index' = r.index /\ wt' = r.wt
    /\ op' = [op EXCEPT !.revert = c, !.msg = "text"]
    /\ undo' = IF noCommit THEN NoUndo ELSE wt
    /\ UNCHANGED <<commits, branch, head>>

RevertClean(c) ==
    /\ Worked
    /\ ReplayAllowed(FALSE)
    /\ \E m \in Reverting(c) :
        LET r == applyMergeResult(m, FALSE, FALSE)
        IN /\ r.ok /\ m.conflicts = {} /\ ~Empty(m)
           /\ index' = r.index /\ wt' = r.wt
           /\ \/ /\ writeCommitAndAdvance(TreeOf(r.index), <<HeadId>>)
                 /\ op' = clearCherryPickState(clearRevertState(op))
              \/ UNCHANGED <<commits, branch, op>>
    /\ undo' = NoUndo
    /\ UNCHANGED head

\* cherry-pick --continue and revert --continue want a message: SQUASH_MSG and
\* MERGE_MSG together must hold more than comments.
ReplayContinue(pending) ==
    /\ pending # 0 /\ ~hasConflicts
    /\ op.msg = "text" \/ (op.msg = "hints" /\ op.squash)
    /\ writeCommitAndAdvance(TreeOf(index), <<HeadId>>)
    /\ op' = clearRevertState(clearCherryPickState(op))
    /\ undo' = NoUndo
    /\ UNCHANGED <<head, index, wt, work>>

\* cherry-pick --abort gives up a pick, or else a revert; revert --abort gives
\* up a revert and with it a pick, or else a pick.  --skip clears its own state.
PickAbort == op.pick # 0 /\ handleOperationAbort(clearCherryPickState(op))
RevertSkip == op.revert # 0 /\ handleOperationAbort(clearRevertState(op))
RevertAbort == op.revert # 0 /\ handleOperationAbort(clearCherryPickState(clearRevertState(op)))

-------------------------------------------------------------------------------
(* Everything else the user does.                                          *)

\* The user, or a program of theirs, writes or deletes a file.
Edit(p, c) ==
    /\ Worked
    /\ c # wt[p]
    /\ wt' = [wt EXCEPT ![p] = c]
    /\ undo' = [undo EXCEPT ![p] = Touched]
    /\ UNCHANGED <<commits, branch, head, index, op>>

\* git add: the file as it is, or its deletion; ignored files only if tracked.
Add(p) ==
    /\ IF wt[p] # Absent THEN p \in Ignored => index[p] # Absent ELSE index[p] # Absent
    /\ index' = [index EXCEPT ![p] = wt[p]]
    /\ undo' = [undo EXCEPT ![p] = Touched]
    /\ UNCHANGED <<commits, branch, head, wt, op, work>>

\* As restoreFiles, from any entry of the path.
restoreFiles_anyStage(p) ==
    /\ index[p] # Absent
    /\ wt' = [wt EXCEPT ![p] = index[p]]
    /\ undo' = [undo EXCEPT ![p] = Touched]
    /\ UNCHANGED <<commits, branch, head, index, op, work>>

\* git checkout -- p, git restore p.
restoreFiles(p) ==
    /\ index[p] \notin {Absent, Unmerged}
    /\ wt' = [wt EXCEPT ![p] = index[p]]
    /\ undo' = [undo EXCEPT ![p] = Touched]
    /\ UNCHANGED <<commits, branch, head, index, op, work>>

\* git commit -a stages what is tracked, unmerged paths included.
Staged(all) ==
    IF all THEN [p \in Path |-> IF index[p] # Absent THEN wt[p] ELSE Absent] ELSE index

\* The tree a commit must differ from.
ComparedTree(amend) ==
    IF ~amend THEN HeadTree
    ELSE IF commits[HeadId].parents = <<>> THEN EmptyTree
    ELSE commits[commits[HeadId].parents[1]].tree

\* As CommitParents, forgetting the merge.
CommitParents_headOnly(amend) ==
    IF amend THEN commits[HeadId].parents ELSE <<HeadId>>

CommitParents(amend) ==
    IF amend THEN commits[HeadId].parents
    ELSE IF op.merge # 0 THEN <<HeadId, op.merge>> ELSE <<HeadId>>

\* A commit ends whatever is pending.
Concluded ==
    [NoOp EXCEPT !.msg = IF op.merge = 0 /\ op.pick = 0 /\ op.revert = 0 THEN op.msg ELSE "none"]

Commit(all, amend, allowEmpty) ==
    /\ amend => op.merge = 0 /\ op.pick = 0
    /\ \A p \in Path : Staged(all)[p] # Unmerged
    /\ \/ allowEmpty \/ op.merge # 0
       \/ amend /\ Len(commits[HeadId].parents) > 1
       \/ TreeOf(Staged(all)) # ComparedTree(amend)
    /\ writeCommitAndAdvance(TreeOf(Staged(all)), CommitParents(amend))
    /\ index' = Staged(all)
    /\ op' = Concluded
    /\ undo' = NoUndo
    /\ UNCHANGED <<head, wt, work>>

resetToCommit(c, mode) ==
    /\ Worked
    /\ mode = "soft" => op.merge = 0 /\ ~hasConflicts
    /\ branch' = [branch EXCEPT ![head] = c]
    /\ LET hard == resetHard(commits[c].tree, index, wt)
       IN \/ mode = "soft" /\ UNCHANGED <<index, wt>>
          \/ mode = "mixed" /\ index' = commits[c].tree /\ UNCHANGED wt
          \/ mode = "hard" /\ index' = hard.index /\ wt' = hard.wt
    /\ op' = NoOp
    /\ undo' = NoUndo
    /\ UNCHANGED <<commits, head>>

\* git checkout b, which gives up a pending operation (git switch refuses then).
switchBranchCore(b) ==
    /\ b # head /\ ~hasConflicts
    /\ LET r == checkoutTrees(HeadTree, commits[branch[b]].tree, index, wt, FALSE)
       IN IF HeadTree = commits[branch[b]].tree THEN UNCHANGED <<index, wt>>
          ELSE r.ok /\ index' = r.index /\ wt' = r.wt
    /\ head' = b
    /\ op' = NoOp
    /\ undo' = NoUndo
    /\ UNCHANGED <<commits, branch, work>>

-------------------------------------------------------------------------------
Merge(b) ==
    \/ MergeUpToDate(b) \/ handleSquashMerge(b)
    \/ \E squash \in BOOLEAN : handleFastForward(b, squash)
    \/ \E noFf \in BOOLEAN :
        MergeRefused(b, noFf) \/ MergeConflicts(b, noFf) \/ MergeClean(b, noFf)

NoCommitPick == \E c \in DOMAIN commits :
    PickRefused(c, TRUE) \/ PickConflicts(c, TRUE) \/ PickClean(c, TRUE)
NoCommitRevert == \E c \in DOMAIN commits :
    RevertEmpty(c) \/ RevertRefused(c, TRUE) \/ RevertPending(c, TRUE)
Replay(c) ==
    \/ PickEmpty(c) \/ PickRefused(c, FALSE) \/ PickConflicts(c, FALSE) \/ PickClean(c, FALSE)
    \/ RevertRefused(c, FALSE) \/ RevertPending(c, FALSE) \/ RevertClean(c)

Abort == MergeAbort \/ PickAbort \/ RevertAbort \/ RevertSkip
Continue == MergeContinue \/ ReplayContinue(op.pick) \/ ReplayContinue(op.revert)

UserStep(p) == Add(p) \/ restoreFiles(p) \/ \E c \in Mine \cup {Absent} : Edit(p, c)
CommitStep == \E all, amend, allowEmpty \in BOOLEAN : Commit(all, amend, allowEmpty)

Next ==
    \/ \E b \in Branch : Merge(b) \/ switchBranchCore(b)
    \/ \E c \in DOMAIN commits : Replay(c)
    \/ NoCommitPick \/ NoCommitRevert \/ Abort \/ Continue \/ CommitStep
    \/ \E c \in DOMAIN commits, mode \in {"soft", "mixed", "hard"} : resetToCommit(c, mode)
    \/ \E p \in Path : UserStep(p)

Spec == Init /\ [][Next]_vars

-------------------------------------------------------------------------------
(* Invariants.                                                             *)

\* The variables keep to their ranges: trees have no conflicts, parents come
\* before their children, pending operations name commits.
TypeOK ==
    /\ \A i \in DOMAIN commits : commits[i].tree \in Tree
    /\ \A i \in DOMAIN commits : \A k \in DOMAIN commits[i].parents :
          commits[i].parents[k] \in 1..(i - 1)
    /\ branch \in [Branch -> DOMAIN commits] /\ head \in Branch
    /\ index \in Index /\ wt \in Tree
    /\ op \in [merge : Nat, pick : Nat, revert : Nat,
               msg : {"none", "text", "hints"}, squash : BOOLEAN]
    /\ {op.merge, op.pick, op.revert} \subseteq {0} \cup DOMAIN commits
    /\ work \in 0..MaxWork
    /\ undo \in [Path -> Content \cup {Absent, Touched}]

-------------------------------------------------------------------------------
(* What a step may do.                                                     *)

\* The user writes, or asks in so many words to lose what is in a file.
Discards ==
    \/ \E p \in Path : restoreFiles(p) \/ \E c \in Mine \cup {Absent} : Edit(p, c)
    \/ \E c \in DOMAIN commits : resetToCommit(c, "hard")

\* A file whose replacement loses nothing that git does not know.
Known(p, entry, file) ==
    file \in {Absent, entry} \/ entry = Unmerged \/ (p \in Ignored /\ entry = Absent)

OnlyKnownReplaced == \A p \in Path : wt'[p] # wt[p] => Known(p, index[p], wt[p])

\* A command replaces or deletes a file only if the index has its content, the
\* path is in conflict, or the file is ignored and not tracked: the checks of
\* unpack-trees, whichever command runs them.
LocalContentKept == [][OnlyKnownReplaced \/ Discards]_vars

\* A file that can be replaced because the tree has it too.
Committed(p, entry, file, tree) == file \in {Absent, tree} \/ (p \in Ignored /\ entry = Absent)

OnlyCommittedReplaced ==
    \A p \in Path : wt'[p] # wt[p] => Committed(p, index[p], wt[p], HeadTree[p])

\* An index entry that can be replaced: the one of the tree, or a conflict.
Settled(entry, tree) == entry \in {tree, Unmerged}

OnlyCommittedUnstaged == \A p \in Path : index'[p] # index[p] => Settled(index[p], HeadTree[p])

Stages ==
    \/ \E p \in Path : Add(p)
    \/ \E amend, allowEmpty \in BOOLEAN : Commit(TRUE, amend, allowEmpty)
    \/ \E c \in DOMAIN commits : resetToCommit(c, "mixed")

\* Merging, picking, reverting, fast-forwarding and switching lose no work that
\* is not committed, staged or not.  Excepted are the commands for losing it
\* (reset, aborting) and -n, which works on top of what is staged and may replace
\* staged work whose file was not edited since.
UncommittedKept ==
    [][(OnlyCommittedReplaced /\ OnlyCommittedUnstaged)
       \/ Discards \/ Stages \/ Abort \/ NoCommitPick \/ NoCommitRevert]_vars

\* Aborting or skipping a conflicted merge, pick or revert, even after work on
\* some paths, gives back the other files as they were: those that were as in
\* HEAD, and local changes and untracked files too unless their path conflicts
\* (or is ignored).
AbortRestores ==
    [][(\A p \in Path : undo[p] # Touched =>
            \/ wt'[p] = undo[p]
            \/ undo[p] = Absent /\ wt'[p] = HeadTree[p]
            \/ undo[p] # HeadTree[p] /\ (index[p] = Unmerged \/ p \in Ignored))
       \/ ~Abort]_vars

\* MERGE_HEAD is forgotten only by the commit that takes it in, or by aborting,
\* resetting or switching away: a commit in the middle of a merge is the merge.
MergeHeadRemembered ==
    [][op.merge # 0 /\ op'.merge # op.merge =>
        \/ op' = NoOp /\ commits' = commits
        \/ /\ branch'[head] # branch[head]
           /\ {HeadId, op.merge} \subseteq Ancestors'[branch'[head]]
        \/ Abort]_vars

\* While a conflicted pick or revert is all that is pending HEAD stays where it
\* was, so that HEAD is what to abort to.
PendingReplayKeepsHead ==
    [][/\ op.merge = 0
       /\ (op.pick # 0 /\ op'.pick = op.pick) \/ (op.revert # 0 /\ op'.revert = op.revert)
       => HeadId' = HeadId]_vars

\* What a command changes, in the index or in a file, agrees afterwards in both,
\* conflicts aside.  Staging, reset --mixed and revert -n are about the index
\* alone, an editor is about the file alone.
OperationAgrees ==
    [][(\A p \in Path : <<index'[p], wt'[p]>> # <<index[p], wt[p]>> =>
            index'[p] \in {Unmerged, wt'[p]})
       \/ Stages \/ NoCommitRevert
       \/ \E p \in Path, c \in Mine \cup {Absent} : Edit(p, c)]_vars
===============================================================================
