--------------------------------- MODULE Rebase -------------------------------
(***************************************************************************)
(* git rebase: the plan, the pick loop over .git/rebase-merge, and         *)
(* --continue, --skip and --abort, with what a user does in between.  A    *)
(* step of the process writes one thing, and it may end before any of      *)
(* them; the index and the files are one thing.  Commits are numbers in    *)
(* the order they are made; a tree is the set of the files it holds, and   *)
(* some pairs of files cannot be merged cleanly.                           *)
(***************************************************************************)
EXTENDS Naturals, Sequences, FiniteSets, Functions

CONSTANTS
    None,
    Torn,           \* a rebase-merge some of whose files are not there: no command reads it
    File,           \* a tree is a set of these
    Clash,          \* pairs of files that conflict when merged
    Branch,
    History,        \* the commits there are at first: parents and tree
    Tips,           \* the branches at first
    Planted,        \* bound: files the user makes without tracking them
    MaxSteps,       \* bound: how often the user steps in or a process is cut off
    MaxCommits      \* bound: commits that are ever made

\* The commits there are at first come after their parents; None is none of the others.
RebaseAssumption ==
    /\ History \in Seq([parents : Seq(Nat), tree : SUBSET File]) /\ History # <<>>
    /\ \A c \in 1..Len(History) : \A i \in 1..Len(History[c].parents) :
          History[c].parents[i] \in 1..c - 1
    /\ Tips \in [Branch -> 1..Len(History)]
    /\ None \notin Branch \cup Nat
    /\ {None, Torn} \cap [headName : Branch \cup {None}, origHead : Nat, onto : Nat,
                         todo : Seq(Nat), last : Nat \cup {None}, message : BOOLEAN] = {}
    /\ None # Torn

VARIABLES
    commits,        \* all commits, [parents, tree]
    refs, head, detached,   \* head is a branch or None; then HEAD is detached
    index,          \* [tree, conflicted]; the files follow it
    untracked,      \* files that are on disk and not tracked
    rb,             \* .git/rebase-merge: head-name, orig-head, onto, todo, the last of
                    \* done, is there a message
    mem,            \* the state as the running process has it: to be written, or read
    rebaseHead, mergeHead, cherry,  \* REBASE_HEAD, MERGE_HEAD, is there CHERRY_PICK_HEAD
    pc,             \* "idle", or what the process does next
    steps,          \* how often one of these has happened
    goal, waived    \* files a rebase is to keep, and those the user did without

repo == <<commits, refs, head, detached>>
markers == <<rebaseHead, mergeHead, cherry>>
ghosts == <<goal, waived>>
vars == <<repo, index, untracked, rb, markers, pc, steps, ghosts, mem>>

Commit == 1..Len(commits)
ParentsOf(c) == commits[c].parents
Tree(c) == commits[c].tree
FirstTree(c) == IF ParentsOf(c) = <<>> THEN {} ELSE Tree(ParentsOf(c)[1])

Ancestors ==
    LET anc[c \in Commit] == {c} \cup UNION {anc[p] : p \in Range(ParentsOf(c))} IN anc

HeadCommit == IF head = None THEN detached ELSE refs[head]
HeadTree == Tree(HeadCommit)

MergeBases(a, b) ==
    LET common == Ancestors[a] \cap Ancestors[b]
    IN {c \in common : \A d \in common \ {c} : c \notin Ancestors[d]}

\* computePatchId: what a commit changes, none for an empty one.
PatchId(c) == <<Tree(c) \ FirstTree(c), FirstTree(c) \ Tree(c)>>
EmptyPatch == <<{}, {}>>

\* mergeOrtNonRecursive of a pick: its base is the commit's parent.
Merged(c, ours) == (ours \cup (Tree(c) \ FirstTree(c))) \ (FirstTree(c) \ Tree(c))
Conflicts(c, ours) ==
    \E p \in Tree(c) \ FirstTree(c), q \in ours \ FirstTree(c) : {p, q} \in Clash

Init ==
    /\ commits = History /\ refs = Tips
    /\ head \in Branch /\ detached = 1
    /\ index = [tree |-> Tree(refs[head]), conflicted |-> FALSE]
    /\ untracked = {}
    /\ rb = None /\ rebaseHead = None /\ mergeHead = None /\ cherry = FALSE
    /\ mem = None /\ pc = "idle" /\ steps = 0 /\ goal = {} /\ waived = {}

Clean(t) == index' = [tree |-> t, conflicted |-> FALSE]

\* advanceBranchRef: the branch HEAD is on, or HEAD.
Advance(c) ==
    IF head = None THEN detached' = c /\ UNCHANGED <<refs, head>>
    ELSE refs' = [refs EXCEPT ![head] = c] /\ UNCHANGED <<head, detached>>

\* The process ends; the one that goes on has what it has written.
Go(p) == pc' = p /\ UNCHANGED mem
GoWithout(p) == pc' = p /\ mem' = None
Stop == GoWithout("idle")
UnderWay == rb \notin {None, Torn}

-------------------------------------------------------------------------------
(* performRebase.                                                          *)

\* collectRebaseSymmetricPlan: the commits only we have and only they have, merges
\* left out.
Side(a, b) == {c \in Ancestors[a] \ Ancestors[b] : Len(ParentsOf(c)) <= 1}

\* They are listed parents first: by number, of the orders that do so.
Rank(S, c) == Cardinality({d \in S : d < c})
Ordered(S) == [i \in 1..Cardinality(S) |-> CHOOSE c \in S : Rank(S, c) = i - 1]

\* canRebaseFastForward: nothing to do, by the shape of the history.
Linear(onto, c) == \A d \in Ancestors[c] \ Ancestors[onto] : Len(ParentsOf(d)) <= 1
UpToDate(up, onto, c) ==
    MergeBases(onto, c) = {onto} /\ MergeBases(up, c) = {onto} /\ Linear(onto, c)

\* Commits whose patch is upstream already are left out.
Filtered(up, c) ==
    LET theirs == {PatchId(d) : d \in Side(up, c)} \ {EmptyPatch}
    IN Ordered({d \in Side(c, up) : PatchId(d) \notin theirs})

\* Leading picks that sit on the target already are skipped over.
Skipped(onto, picks) ==
    LET onTop(n) == \A i \in 1..n :
            ParentsOf(picks[i]) = <<IF i = 1 THEN onto ELSE picks[i - 1]>>
    IN CHOOSE n \in 0..Len(picks) :
          onTop(n) /\ \A m \in n + 1..Len(picks) : ~onTop(m)

\* checkUntrackedConflicts: a file of the target that is new and on disk.
Blocked(t) == (t \ index.tree) \cap untracked # {}

\* What a rebase starts from: onto, or the last pick that was skipped over.
Target(state) == IF state.last = None THEN state.onto ELSE state.last

\* The files first, of the place where the range ends when there is nothing to pick.
Begin(up, onto, picks) ==
    LET n == Skipped(onto, picks)
        state == [headName |-> head, origHead |-> HeadCommit, onto |-> onto,
                  todo |-> SubSeq(picks, n + 1, Len(picks)),
                  last |-> IF n = 0 THEN None ELSE picks[n], message |-> FALSE]
    IN /\ n = Len(picks) =>
             /\ Target(state) # HeadCommit
             /\ ~(n = 0 /\ onto \in Ancestors[HeadCommit] /\ Side(HeadCommit, up) # {})
       /\ ~Blocked(Tree(Target(state)))
       /\ Clean(Tree(Target(state)))
       /\ mem' = state /\ pc' = IF n = Len(picks) THEN "ff" ELSE "detach"
       /\ UNCHANGED <<repo, untracked, rb, markers>>

\* (For the ghost goal: no commit has dropped a file of a parent, and a merge has none
\* that its parents lack: a rebase leaves merges out, and what they add with them.)
OnlyAdditions ==
    \A c \in Commit :
        /\ \A d \in Range(ParentsOf(c)) : Tree(d) \subseteq Tree(c)
        /\ Len(ParentsOf(c)) > 1 => Tree(c) \subseteq UNION {Tree(d) : d \in Range(ParentsOf(c))}

Start(up, onto) ==
    /\ pc = "idle" /\ rb = None
    /\ ~index.conflicted /\ index.tree = HeadTree
    /\ ~UpToDate(up, onto, HeadCommit)
    /\ Len(commits) + Len(Filtered(up, HeadCommit)) + MaxSteps - steps <= MaxCommits
    /\ Begin(up, onto, Filtered(up, HeadCommit))
    /\ goal' = IF up = onto /\ OnlyAdditions THEN HeadTree \cup Tree(onto) ELSE {}
    /\ waived' = {}

\* fastForwardTo: the branch after the files.
FastForward ==
    /\ pc = "ff" /\ Advance(Target(mem)) /\ Stop
    /\ UNCHANGED <<commits, index, untracked, rb, markers, ghosts>>

\* (Mutant: the branch goes along.)
Detach_branch ==
    /\ pc = "detach" /\ Go("unpick") /\ Advance(Target(mem))
    /\ UNCHANGED <<commits, index, untracked, rb, markers, ghosts>>

Detach ==
    /\ pc = "detach" /\ Go("unpick")
    /\ head' = None /\ detached' = Target(mem)
    /\ UNCHANGED <<commits, refs, index, untracked, rb, markers, ghosts>>

ForgetPick ==
    /\ pc = "unpick" /\ Go("mkdir") /\ cherry' = FALSE
    /\ UNCHANGED <<repo, index, untracked, rb, rebaseHead, mergeHead, ghosts>>

\* writeRebaseState: the directory, and a file after the other; the todo list is the last
\* of those without which the state is not read.
WriteState ==
    /\ \/ pc = "mkdir" /\ rb' = Torn /\ Go("state")
       \/ pc = "state" /\ rb' = mem /\ GoWithout("loop")
    /\ UNCHANGED <<repo, index, untracked, markers, ghosts>>

-------------------------------------------------------------------------------
(* runPickLoop: the first pick is moved from todo to done, then tried.     *)

Attempt ==
    /\ pc = "loop" /\ rb.todo # <<>>
    /\ mem' = [rb EXCEPT !.todo = Tail(@), !.last = Head(rb.todo)]
    /\ rb' = [rb EXCEPT !.todo = Tail(@)] /\ pc' = "taken"
    /\ UNCHANGED <<repo, index, untracked, markers, ghosts>>

NoteDone ==
    /\ pc = "taken" /\ rb' = mem /\ Go("pick")
    /\ UNCHANGED <<repo, index, untracked, markers, ghosts>>

Picked == mem.last
PickTree == Merged(Picked, HeadTree)
\* What the index has besides the three trees stays in it.
Preserved == index.tree \ (HeadTree \cup FirstTree(Picked) \cup Tree(Picked))
PickIndex == PickTree \cup Preserved
PickFastForwards == ParentsOf(Picked) # <<>> /\ ParentsOf(Picked)[1] = HeadCommit
PickBlocked == ((PickTree \ HeadTree) \cap untracked) \ index.tree # {}

\* An untracked file is in the way: the pick goes back to the front of todo.
PickIsBlocked ==
    /\ pc = "pick" /\ PickBlocked
    /\ rebaseHead' = Picked /\ Go("putBack")
    /\ UNCHANGED <<repo, index, untracked, rb, mergeHead, cherry, ghosts>>

PutBack ==
    /\ pc = "putBack" /\ rb' = [rb EXCEPT !.todo = <<Picked>> \o @] /\ Stop
    /\ UNCHANGED <<repo, index, untracked, markers, ghosts>>

\* A commit whose parent is HEAD is taken as it is.
PickFastForward ==
    /\ \/ pc = "pick" /\ ~PickBlocked /\ PickFastForwards
          /\ Clean(Tree(Picked)) /\ Go("take") /\ UNCHANGED <<refs, head, detached>>
       \/ pc = "take" /\ Advance(Picked) /\ GoWithout("loop") /\ UNCHANGED index
    /\ UNCHANGED <<commits, untracked, rb, markers, ghosts>>

PickMerges ==
    /\ pc = "pick" /\ ~PickBlocked /\ ~PickFastForwards
    /\ index' = [tree |-> PickIndex, conflicted |-> Conflicts(Picked, HeadTree)]
    /\ Go(IF Conflicts(Picked, HeadTree) THEN "conflict" ELSE "make")
    /\ UNCHANGED <<repo, untracked, rb, markers, ghosts>>

PickConflicts ==
    /\ \/ pc = "conflict" /\ rebaseHead' = Picked /\ Go("message") /\ UNCHANGED rb
       \/ pc = "message" /\ rb' = [rb EXCEPT !.message = TRUE] /\ Stop /\ UNCHANGED rebaseHead
    /\ UNCHANGED <<repo, index, untracked, mergeHead, cherry, ghosts>>

\* A pick that changes nothing is dropped, unless it never did.
PickIsDropped == index.tree = HeadTree /\ PatchId(Picked) # EmptyPatch

PickCommits ==
    /\ pc = "make" /\ GoWithout("loop")
    /\ IF PickIsDropped THEN UNCHANGED repo
       ELSE /\ commits' = Append(commits, [parents |-> <<HeadCommit>>, tree |-> index.tree])
            /\ Advance(Len(commits) + 1)
    /\ UNCHANGED <<index, untracked, rb, markers, ghosts>>

\* A pick that was noted as done and not made yet is lost to --continue.
Additions(c) == Tree(c) \ FirstTree(c)
Picking == {"taken", "pick", "putBack", "take", "make", "conflict"}
LoseThePick == waived' = waived \cup IF pc \in Picking THEN Additions(Picked) ELSE {}

\* Without a committer the loop stops where it is, with the merge in the index.
PickUnidentified ==
    /\ pc = "make" /\ ~PickIsDropped
    /\ Stop /\ LoseThePick
    /\ UNCHANGED <<repo, index, untracked, rb, markers, goal>>

\* REBASE_HEAD, then what other operations have left, one after the other.
Marked == rebaseHead # None \/ cherry \/ mergeHead # None
DropMarker ==
    /\ rebaseHead' = None
    /\ cherry' = (cherry /\ rebaseHead # None)
    /\ mergeHead' = IF cherry \/ rebaseHead # None THEN mergeHead ELSE None

\* finishRebase: the branch moves if it is where it was, HEAD goes back to it.
FinishLoop ==
    /\ pc = "loop" /\ rb.todo = <<>>
    /\ IF rb.headName = None THEN pc' = "clean" /\ mem' = rb /\ UNCHANGED refs
       ELSE IF refs[rb.headName] # rb.origHead THEN Stop /\ UNCHANGED refs
       ELSE /\ refs' = [refs EXCEPT ![rb.headName] = HeadCommit]
            /\ pc' = "reattach" /\ mem' = rb
    /\ UNCHANGED <<commits, head, detached, index, untracked, rb, markers, ghosts>>

Reattach ==
    /\ \/ pc = "reattach" /\ Go("clean")
       \/ pc = "abortHead" /\ Go("undo")
    /\ head' = mem.headName
    /\ UNCHANGED <<commits, refs, detached, index, untracked, rb, markers, ghosts>>

\* All of it goes: the markers, then rebase-merge, a file after the other.
Cleanup ==
    /\ pc \in {"clean", "undo"}
    /\ IF Marked THEN DropMarker /\ UNCHANGED <<rb, pc, mem>>
       ELSE /\ IF rb # Torn THEN rb' = Torn /\ UNCHANGED <<pc, mem>> ELSE rb' = None /\ Stop
            /\ UNCHANGED markers
    /\ UNCHANGED <<repo, index, untracked, ghosts>>

Starting == {"ff", "detach", "unpick", "mkdir", "state"}

\* The process is cut off; what it has written stays.  Until the state is there no rebase
\* has begun.
Crash ==
    /\ pc # "idle" /\ Stop /\ steps < MaxSteps /\ steps' = steps + 1
    /\ IF pc \in Starting THEN goal' = {} ELSE UNCHANGED goal
    /\ LoseThePick
    /\ UNCHANGED <<repo, index, untracked, rb, markers>>

-------------------------------------------------------------------------------
(* The other commands of a rebase.                                         *)

\* handleAbort: an untracked file of the old tree stops it.
AbortBlocked == (Tree(rb.origHead) \ index.tree) \cap untracked # {}

Abort ==
    /\ pc = "idle" /\ UnderWay /\ ~AbortBlocked
    /\ Clean(Tree(rb.origHead))
    /\ mem' = rb /\ pc' = "abortRef"
    /\ goal' = {} /\ waived' = {}
    /\ UNCHANGED <<repo, untracked, rb, markers>>

AbortRef ==
    /\ pc = "abortRef"
    /\ IF mem.headName = None THEN Advance(mem.origHead) /\ Go("undo")
       ELSE /\ refs' = [refs EXCEPT ![mem.headName] = mem.origHead]
            /\ Go("abortHead") /\ UNCHANGED <<head, detached>>
    /\ UNCHANGED <<commits, index, untracked, rb, markers, ghosts>>

\* handleContinue without REBASE_HEAD, or with nothing to commit.
ContinueOn ==
    /\ pc = "idle" /\ UnderWay /\ ~index.conflicted
    /\ rebaseHead # None => index.tree = HeadTree
    /\ Go(IF rebaseHead = None THEN "loop" ELSE "step")
    /\ UNCHANGED <<repo, index, untracked, rb, markers, ghosts>>

\* The resolution is committed, with MERGE_HEAD as a parent if there is one.
ContinueCommits ==
    /\ pc = "idle" /\ UnderWay /\ ~index.conflicted
    /\ rebaseHead # None /\ index.tree # HeadTree /\ rb.message
    /\ commits' = Append(commits,
           [parents |-> <<HeadCommit>> \o (IF mergeHead = None THEN <<>> ELSE <<mergeHead>>),
            tree |-> index.tree])
    /\ Advance(Len(commits) + 1)
    /\ Go("committed")
    /\ UNCHANGED <<index, untracked, rb, markers, ghosts>>

\* MERGE_HEAD goes if it was a parent; REBASE_HEAD stays for the last pick.
ContinueClears ==
    /\ \/ pc = "committed" /\ mergeHead' = None /\ Go("step") /\ UNCHANGED <<rebaseHead, cherry, rb>>
       \/ /\ pc = "step" /\ UNCHANGED mergeHead
          /\ IF rb.todo # <<>> /\ rebaseHead # None
             THEN rebaseHead' = None /\ UNCHANGED <<cherry, rb, pc, mem>>
             ELSE IF cherry THEN cherry' = FALSE /\ UNCHANGED <<rebaseHead, rb, pc, mem>>
             ELSE rb' = [rb EXCEPT !.message = FALSE] /\ Go("loop") /\ UNCHANGED <<rebaseHead, cherry>>
    /\ UNCHANGED <<repo, index, untracked, ghosts>>

\* handleSkip: back to HEAD and on with the loop.
Skip ==
    /\ pc = "idle" /\ UnderWay
    /\ Clean(HeadTree)
    /\ waived' = waived \cup (IF rebaseHead = None THEN {} ELSE Additions(rebaseHead))
                        \cup (index.tree \ HeadTree)
    /\ Go("clear")
    /\ UNCHANGED <<repo, untracked, rb, markers, goal>>

SkipClears ==
    /\ pc = "clear"
    /\ IF Marked THEN DropMarker /\ UNCHANGED <<rb, pc, mem>>
       ELSE rb' = [rb EXCEPT !.message = FALSE] /\ Go("loop") /\ UNCHANGED markers
    /\ UNCHANGED <<repo, index, untracked, ghosts>>

-------------------------------------------------------------------------------
(* What the user does while nothing runs.                                  *)

\* Conflicts are resolved, or files staged, with any outcome; and where a process was cut
\* off between the files and HEAD, git reset --hard.
Resolve(t) ==
    /\ pc = "idle" /\ (index.tree # t \/ index.conflicted)
    /\ \/ UnderWay /\ (index.conflicted \/ rebaseHead # None)
       \/ t = HeadTree
    /\ Clean(t)
    /\ waived' = waived \cup ((index.tree \cup HeadTree) \ t)
    /\ UNCHANGED <<repo, untracked, rb, markers, goal>>

UserCommit ==
    /\ pc = "idle" /\ UnderWay /\ ~index.conflicted
    /\ index.tree # HeadTree
    /\ commits' = Append(commits,
           [parents |-> <<HeadCommit>> \o (IF mergeHead = None THEN <<>> ELSE <<mergeHead>>),
            tree |-> index.tree])
    /\ Advance(Len(commits) + 1)
    /\ mergeHead' = None /\ cherry' = FALSE
    /\ UNCHANGED <<index, untracked, rb, rebaseHead, ghosts>>

\* A merge or a cherry-pick is started in the middle.
UserMerge(c) ==
    /\ pc = "idle" /\ UnderWay /\ ~index.conflicted /\ index.tree = HeadTree
    /\ c \notin Ancestors[HeadCommit]
    /\ Clean(HeadTree \cup Tree(c)) /\ mergeHead' = c
    /\ UNCHANGED <<repo, untracked, rb, rebaseHead, cherry, ghosts>>

UserCherryPick ==
    /\ pc = "idle" /\ UnderWay /\ ~index.conflicted /\ index.tree = HeadTree
    /\ cherry' = TRUE /\ index' = [index EXCEPT !.conflicted = TRUE]
    /\ UNCHANGED <<repo, untracked, rb, rebaseHead, mergeHead, ghosts>>

UserSwitch(b) ==
    /\ pc = "idle" /\ ~index.conflicted /\ index.tree = HeadTree
    /\ b # head /\ mergeHead = None
    /\ head' = b /\ Clean(Tree(refs[b]))
    /\ goal' = IF UnderWay THEN goal ELSE {}
    /\ waived' = waived \cup (HeadTree \ Tree(refs[b]))
    /\ UNCHANGED <<commits, refs, detached, untracked, rb, markers>>

\* git branch -f, or a command in another worktree.
MoveBranch(b, c) ==
    /\ pc = "idle" /\ UnderWay /\ b # head /\ refs[b] # c
    /\ refs' = [refs EXCEPT ![b] = c]
    /\ UNCHANGED <<commits, head, detached, index, untracked, rb, markers, ghosts>>

UserFile(f) ==
    /\ pc = "idle" /\ f \notin index.tree /\ ~index.conflicted
    /\ untracked' = IF f \in untracked THEN untracked \ {f} ELSE untracked \cup {f}
    /\ UNCHANGED <<repo, index, rb, markers, ghosts>>

\* A rebase-merge that no command reads is removed by hand.
UserRemovesState ==
    /\ pc = "idle" /\ rb = Torn /\ rb' = None
    /\ UNCHANGED <<repo, index, untracked, markers, ghosts>>

User ==
    /\ steps < MaxSteps /\ steps' = steps + 1 /\ UNCHANGED <<pc, mem>>
    /\ \/ \E t \in {HeadTree, index.tree} : Resolve(t)
       \/ UserCommit \/ UserCherryPick \/ UserRemovesState
       \/ \E b \in Branch : UserMerge(refs[b]) \/ UserSwitch(b)
                            \/ \E c \in {refs[d] : d \in Branch} : MoveBranch(b, c)
       \/ \E f \in Planted : UserFile(f)

Beginning == FastForward \/ Detach \/ ForgetPick \/ WriteState
Loop == Attempt \/ NoteDone \/ PickIsBlocked \/ PutBack \/ PickFastForward
            \/ PickMerges \/ PickConflicts \/ PickCommits \/ PickUnidentified
Ending == FinishLoop \/ AbortRef \/ Reattach \/ Cleanup

Command ==
    /\ \/ \E up, onto \in {refs[b] : b \in Branch} : Start(up, onto)
       \/ Beginning \/ Loop \/ Ending
       \/ Abort \/ ContinueOn \/ ContinueCommits \/ ContinueClears \/ Skip \/ SkipClears
    /\ UNCHANGED steps

Next == Command \/ User \/ Crash

Spec == Init /\ [][Next]_vars

-------------------------------------------------------------------------------
(* Properties.                                                             *)

RebaseState ==
    [headName : Branch \cup {None}, origHead : Commit, onto : Commit,
     todo : Seq(Commit), last : Commit \cup {None}, message : BOOLEAN]

RebaseTypes ==
    /\ commits \in Seq([parents : Seq(Nat), tree : SUBSET File])
    /\ \A c \in Commit : \A i \in 1..Len(ParentsOf(c)) : ParentsOf(c)[i] \in 1..c - 1
    /\ refs \in [Branch -> Commit] /\ head \in Branch \cup {None} /\ detached \in Commit
    /\ index \in [tree : SUBSET File, conflicted : BOOLEAN]
    /\ rb \in RebaseState \cup {None, Torn} /\ mem \in RebaseState \cup {None}
    /\ mergeHead \in Commit \cup {None} /\ goal \subseteq File /\ steps \in Nat

TipTree(b) == Tree(refs[b])

\* What there is of the state, on disk and in the process, where the process is.
Undoing == {"abortRef", "abortHead", "undo"}
Places ==
    /\ mem = None <=> pc \in {"idle", "loop", "committed", "step", "clear"}
    /\ pc \in Starting => rb = IF pc = "state" THEN Torn ELSE None
    /\ pc \notin Starting \cup {"idle", "clean", "undo"} => UnderWay
    /\ pc \in {"clean", "undo"} => rb # None
    /\ pc \in Picking => Picked \in Commit
    /\ pc = "taken" => mem.todo = rb.todo
    /\ pc \in {"reattach", "abortHead"} => mem.headName # None

\* (NothingLost while it runs.)  A file of the goal is in HEAD, is added by a pick that is
\* left or under way, or is in the index of the pick that stopped; what HEAD has of them
\* the index has, and what the pick under way adds, once it is merged.
Left == (IF UnderWay THEN Range(rb.todo) ELSE {}) \cup (IF pc \in Picking THEN {Picked} ELSE {})
            \cup (IF pc \in Starting \ {"ff"} THEN Range(mem.todo) ELSE {})
StartTree == IF pc \in {"ff", "detach"} THEN Tree(Target(mem)) ELSE HeadTree
Staged == IF pc \in {"idle", "message"} /\ UnderWay /\ rebaseHead # None THEN index.tree ELSE {}
Kept == goal \ waived
WorkOnTheWay ==
    /\ goal # {} => \A c \in Left : FirstTree(c) \subseteq Tree(c)
    /\ Kept \subseteq StartTree \cup (UNION {Additions(c) : c \in Left}) \cup Staged
    /\ UnderWay => Kept \cap HeadTree \subseteq index.tree
    /\ pc \in Starting => index.tree = Tree(Target(mem))
    /\ pc \in Starting \ {"ff", "detach"} => HeadCommit = Target(mem)
    /\ pc \in {"make", "conflict"} => Additions(Picked) \subseteq index.tree
    /\ pc = "take" => PickFastForwards /\ index.tree = Tree(Picked)
    /\ pc \in {"reattach", "clean"} /\ UnderWay => rb.todo = <<>>
    /\ pc = "reattach" => Kept \subseteq TipTree(mem.headName)

\* (AbortRestores while it runs.)
AbortOnTheWay ==
    /\ pc \in Undoing => goal = {} /\ index.tree = Tree(mem.origHead)
    /\ pc = "abortHead" => refs[mem.headName] = mem.origHead
    /\ pc = "undo" => HeadCommit = mem.origHead /\ (mem.headName # None => head = mem.headName)

\* A rebase that is over has kept every file of the branch and of what it went onto, but
\* for those the user dropped and the pick a process was cut off in (the code goes on
\* without it): no pick is lost to a conflict, a blocked pick, a skip of another one, an
\* earlier empty commit, or a process that was cut off anywhere else.
\* rebase-engine.ts 376-754, 987-1056, 1118-1339.
NothingLost == pc = "idle" /\ ~UnderWay => Kept \subseteq HeadTree

\* A branch that was moved by somebody else while it was being rebased is not
\* moved over when the rebase is finished.  rebase-engine.ts 1003-1016.
FinishKeepsMoves ==
    pc = "loop" =>
       \A b \in Branch \ {head} : refs'[b] # refs[b] => refs[b] = rb.origHead

\* Whenever a step of a process moves a branch, it is to a commit made on top of it, to
\* one with all that the rebase is to keep, or back by --abort: wherever the process is
\* cut off, no branch is half rebased.  rebase-engine.ts 354-366, 1003-1016, 1092-1100.
TipParents(b) == Range(ParentsOf(refs[b]))
BranchMovesWhole ==
    steps' = steps =>
       \A b \in Branch : refs'[b] # refs[b] =>
          \/ refs[b] \in TipParents(b)'
          \/ pc = "abortRef" /\ refs'[b] = mem.origHead
          \/ (Kept \subseteq TipTree(b))'

\* An --abort that gets to its end has put HEAD, the branch and the files back to what
\* they were at the start, wherever the user went in between and wherever an earlier
\* --abort was cut off, and nothing of the rebase is left.  rebase-engine.ts 1060-1114.
AbortRestores ==
    pc = "undo" /\ rb' = None =>
       /\ mem.headName # None => head' = mem.headName
       /\ HeadCommit' = mem.origHead /\ index'.tree = Tree(mem.origHead)
       /\ rebaseHead' = None /\ mergeHead' = None /\ cherry' = FALSE

===============================================================================
