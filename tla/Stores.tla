-------------------------------- MODULE Stores --------------------------------
(*****************************************************************************)
(* What is kept, each by itself: the repositories of a server storage and    *)
(* their forks; and, of a client, the refs and packs on disk, the            *)
(* worktrees, a rebase, the stash and a bisection.  A behaviour is one of    *)
(* a part, chosen at the start.  The storage and the disk have variables of  *)
(* their names, the other parts share slots.                                 *)
(*****************************************************************************)
EXTENDS Repositories, LocalRepository

CONSTANTS
    \* Worktrees.
    BranchName, TreePath, MainTree, Broken, MaxCommit, MaxTwins, MaxTrees,
    \* Rebase.
    Torn, TreeFile, Clash, RebaseBranch, History, Tips, MaxCommits, MaxSteps, Planted,
    \* Stash.
    StashFile, Content, Absent, Marker, MaxStash, MaxEdits,
    \* Bisect.
    ParentLists, Suspect, MaxMarks

VARIABLES
    part,       \* the part a behaviour is of
    s1, s2, s3, s4, s5, s6, s7, s8, s9, s10, s11, s12, s13, s14, s15
            \* the variables of those parts that this module does not extend

W == INSTANCE Worktrees WITH
        Branch <- BranchName, Path <- TreePath, Main <- MainTree,
        refs <- s1, head <- s2, prev <- s3, rebasing <- s4, admin <- s5, gitdir <- s6,
        link <- s7, locked <- s8, shared <- s9

R == INSTANCE Rebase WITH
        File <- TreeFile, Branch <- RebaseBranch,
        commits <- s1, refs <- s2, head <- s3, detached <- s4, index <- s5, untracked <- s6,
        rb <- s7, rebaseHead <- s8, mergeHead <- s9, cherry <- s10, pc <- s11, steps <- s12,
        goal <- s13, waived <- s14, mem <- s15

T == INSTANCE Stash WITH File <- StashFile,
        headTree <- s1, index <- s2, conflicted <- s3, work <- s4, merging <- s5,
        stack <- s6, stashRef <- s7, pc <- s8, at <- s9, crashed <- s10, edits <- s11

B == INSTANCE Bisect WITH Parents <- ParentLists, Tip <- Suspect,
        culprit <- s1, onBranch <- s2, at <- s3, start <- s4, bad <- s5, good <- s6,
        skip <- s7, firstParent <- s8, bisectHead <- s9, expected <- s10, answer <- s11,
        honest <- s12, marks <- s13

slots == <<s1, s2, s3, s4, s5, s6, s7, s8, s9, s10, s11, s12, s13, s14, s15>>
storesVars == <<part, vars, diskVars, slots>>

\* The slots after the first 9, 11 and 13, and those before, are not used.
After13 == s14 = <<>> /\ s15 = <<>>
After11 == s12 = <<>> /\ s13 = <<>> /\ After13
After9 == s10 = <<>> /\ s11 = <<>> /\ After11
First9 ==
    /\ s1 = <<>> /\ s2 = <<>> /\ s3 = <<>> /\ s4 = <<>> /\ s5 = <<>> /\ s6 = <<>>
    /\ s7 = <<>> /\ s8 = <<>> /\ s9 = <<>>

StoresInit ==
    /\ \/ part \in {"storage", "disk"} /\ First9 /\ After9
       \/ part = "worktrees" /\ W!Init /\ After9
       \/ part = "rebase" /\ R!Init
       \/ part = "stash" /\ T!Init /\ After11
       \/ part = "bisect" /\ B!Init /\ After13
    /\ Init /\ DiskInit
    /\ part # "storage" => backend = "memory"

StoresNext ==
    /\ UNCHANGED part
    /\ \/ part = "storage" /\ Next /\ UNCHANGED <<diskVars, slots>>
       \/ part = "disk" /\ DiskNext /\ UNCHANGED <<vars, slots>>
       \/ /\ UNCHANGED <<vars, diskVars>>
          /\ \/ part = "worktrees" /\ W!Next /\ UNCHANGED <<s10, s11, s12, s13, s14, s15>>
             \/ part = "rebase" /\ R!Next
             \/ part = "stash" /\ T!Next /\ UNCHANGED <<s12, s13, s14, s15>>
             \/ part = "bisect" /\ B!Next /\ UNCHANGED <<s14, s15>>

StoresSpec == StoresInit /\ [][StoresNext]_storesVars

-------------------------------------------------------------------------------
(* What is asked of the parts; Repositories and LocalRepository have theirs.  *)

\* A branch is checked out, or being rebased, in one worktree at most, unless it was taken
\* where nobody asks who has it, and does not vanish under a worktree that is on it
\* (worktree-admin.ts, branch.ts).
WorktreesApart ==
    /\ [](part = "worktrees" => W!OneHolder)
    /\ [][part = "worktrees" => W!NoBranchVanishes]_storesVars

\* A rebase that is over has kept every file of the branch and of what it went onto, but
\* for those the user dropped and the pick it was cut off in; wherever it is cut off, no
\* branch is half rebased; it does not move over a branch that somebody else moved; and an
\* --abort that gets to its end brings back what there was (rebase-engine.ts).
RebaseKeepsWork ==
    /\ [](part = "rebase" => R!NothingLost)
    /\ [][part = "rebase" => R!FinishKeepsMoves /\ R!BranchMovesWhole /\ R!AbortRestores]_storesVars

\* What a stash takes away is in its entry, applying one leaves alone what has changes of
\* its own, a pop drops an entry only when all it held is in the files, and refs/stash is
\* the newest entry (stash.ts).
StashKeepsWork ==
    /\ [](part = "stash" => T!RefIsTop)
    /\ [][part = "stash" => T!PushKeepsAll /\ T!ApplyKeepsLocal /\ T!PopDropsOnlyApplied]_storesVars

\* When every mark was true, the commit that is named as the first bad one is the culprit,
\* and each round of a run leaves less to choose from (lib/bisect.ts, commands/bisect.ts).
BisectFindsCulprit ==
    /\ [](part = "bisect" => B!FoundIsCulprit)
    /\ [][part = "bisect" => B!RunNarrows]_storesVars
===============================================================================
