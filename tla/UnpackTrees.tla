------------------------------ MODULE UnpackTrees ------------------------------
(***************************************************************************)
(* How the client moves its index and its files from one tree to another:  *)
(* the case tables of one-way and two-way unpacking, the preconditions     *)
(* that protect local files, and the result of a decision.  Everything is  *)
(* decided path by path; a transition happens only if every path allows it.*)
(*                                                                         *)
(* The hash and the mode of a file are one content, a path with conflict   *)
(* stages is Unmerged.  Paths are never prefixes of each other.            *)
(***************************************************************************)
CONSTANTS
    Path,
    Content,
    Absent, Unmerged,
    Ignored         \* the paths that .gitignore names

ASSUME ContentAssumption ==
    /\ Absent \notin Content
    /\ Unmerged \notin Content \cup {Absent}
    /\ Ignored \subseteq Path

Tree == [Path -> Content \cup {Absent}]
Index == [Path -> Content \cup {Absent, Unmerged}]

\* The entry a path has in the index once conflict stages are left out.
Stage0(entry) == IF entry = Unmerged THEN Absent ELSE entry

-------------------------------------------------------------------------------
(* The case tables.  A decision is an action and what it requires.         *)

Decision == [action : {"keep", "take", "delete", "skip"},
             requires : {"nothing", "uptodate", "no_untracked", "match_head"}]

Keep == [action |-> "keep", requires |-> "nothing"]
Skip == [action |-> "skip", requires |-> "nothing"]
SkipUnlessUntracked == [action |-> "skip", requires |-> "no_untracked"]
Take(requirement) == [action |-> "take", requires |-> requirement]
Delete(requirement) == [action |-> "delete", requires |-> requirement]
Reject == [action |-> "keep", requires |-> "match_head"]

\* Replace what the index has by the tree.  A stripped path had conflict stages
\* that mergeAbort took out of the index first.
onewayMerge(idx, new, reset, stripped) ==
    IF new = Absent
    THEN IF idx = Absent THEN Skip ELSE Delete(IF reset THEN "nothing" ELSE "uptodate")
    ELSE IF idx = new THEN Keep
    ELSE IF Stage0(idx) = Absent
    THEN Take(IF reset \/ stripped THEN "nothing" ELSE "no_untracked")
    ELSE Take(IF reset THEN "nothing" ELSE "uptodate")

\* Go from the tree old to the tree new where the index has no entry: a staged
\* deletion survives only if the trees agree.
twowayUnstaged(old, new, allowStaged) ==
    IF new = Absent THEN IF old = Absent THEN Skip ELSE SkipUnlessUntracked
    ELSE IF old = new THEN Skip
    ELSE IF old = Absent THEN Take("no_untracked")
    ELSE IF allowStaged THEN Take("nothing") ELSE Reject

TakeOrDelete(new, requirement) ==
    IF new = Absent THEN Delete(requirement) ELSE Take(requirement)

\* Go from the tree old to the tree new, keeping what is staged where the trees
\* agree or the index is there already.
twowayMerge(old, new, idx, allowStaged) ==
    IF idx = Unmerged
    THEN IF old = new THEN TakeOrDelete(new, "nothing")
         ELSE IF allowStaged THEN Keep ELSE Reject
    ELSE IF idx = Absent THEN twowayUnstaged(old, new, allowStaged)
    ELSE IF old = new \/ idx = new THEN Keep
    ELSE IF idx = old THEN TakeOrDelete(new, "uptodate")
    ELSE IF allowStaged THEN TakeOrDelete(new, "nothing") ELSE Reject

-------------------------------------------------------------------------------
(* The preconditions, and what a decision does.                            *)

\* As UpToDate, without looking at the file.
UpToDate_unchecked(idx, file) == TRUE

\* The file is the one the index has; a file that is gone has nothing to lose.
UpToDate(idx, file) == file = Absent \/ file = Stage0(idx)

\* No file that git does not know, unless .gitignore says it may be replaced.
NoUntracked(p, idx, file) == file = Absent \/ Stage0(idx) # Absent \/ p \in Ignored

\* What a decision requires of its path.
checkSingleRequirement(d, p, idx, file, old) ==
    /\ d.requires = "uptodate" => UpToDate(idx, file)
    /\ d.requires = "no_untracked" => NoUntracked(p, idx, file)
    /\ d.requires = "match_head" => Stage0(idx) = old

\* The index entry after a decision.
ResultEntry(d, idx, new) ==
    IF d.action = "keep" THEN Stage0(idx) ELSE IF d.action = "take" THEN new ELSE Absent

\* The file after a decision; reset also restores a file it keeps the entry of.
ResultFile(d, idx, file, new, reset) ==
    IF d.action = "take" THEN new
    ELSE IF d.action = "delete" THEN Absent
    ELSE IF d.action = "keep" /\ reset /\ Stage0(idx) # Absent THEN idx
    ELSE file

\* Decisions for all paths: refused as a whole, or applied as a whole.
unpackTrees(d, index, wt, old, new, reset) ==
    [ok |-> \A p \in Path : checkSingleRequirement(d[p], p, index[p], wt[p], old[p]),
     index |-> [p \in Path |-> ResultEntry(d[p], index[p], new[p])],
     wt |-> [p \in Path |-> ResultFile(d[p], index[p], wt[p], new[p], reset)]]

\* git checkout, a fast-forward, and the files of a merge.
checkoutTrees(old, new, index, wt, allowStaged) ==
    unpackTrees([p \in Path |-> twowayMerge(old[p], new[p], index[p], allowStaged)],
                index, wt, old, new, FALSE)

\* git reset --hard.
resetHard(new, index, wt) ==
    unpackTrees([p \in Path |-> onewayMerge(index[p], new[p], TRUE, FALSE)],
                index, wt, new, new, TRUE)

\* As Orphaned, leaving the files behind.
Orphaned_kept(new, index, p) == FALSE

\* Files that only the merge put there go away with it.
Orphaned(new, index, p) == index[p] = Unmerged /\ new[p] = Absent

\* merge --abort and its like: conflict stages are taken out of the index, what
\* is left goes one way to the tree, and orphaned files are deleted.
mergeAbort(new, index, wt) ==
    LET clean == [p \in Path |-> Stage0(index[p])]
        r == unpackTrees([p \in Path |->
                            onewayMerge(clean[p], new[p], FALSE, index[p] = Unmerged)],
                         clean, wt, new, new, FALSE)
    IN [r EXCEPT !.wt = [p \in Path |-> IF Orphaned(new, index, p) THEN Absent ELSE r.wt[p]]]
===============================================================================
