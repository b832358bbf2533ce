------------------------------- MODULE Worktrees ------------------------------
(***************************************************************************)
(* Branches and the working trees that hold them: git worktree add,        *)
(* remove, move, repair, prune and lock, git branch, switch and checkout,  *)
(* and a rebase, which keeps its branch while HEAD is detached.            *)
(* A linked worktree has a directory of its own under .git/worktrees, the  *)
(* admin directory, whose "gitdir" names the checkout; the checkout has a  *)
(* gitlink that names the admin directory.  Users move and delete          *)
(* checkouts by hand.  Commits are numbered along one line of history.     *)
(***************************************************************************)
EXTENDS Naturals, FiniteSets

CONSTANTS
    Branch, Path,
    Main,           \* the main working tree
    None, Broken,   \* nothing there; a gitlink that cannot be read
    MaxCommit,      \* commits are 1..MaxCommit, 0 is no commit
    MaxTwins,       \* bound: admin directories derived from one name, less one
    MaxTrees        \* bound: linked worktrees at a time

VARIABLES
    refs,           \* refs/heads
    admin,          \* the admin directories that are there
    head,           \* HEAD of every worktree: [on |-> branch, at |-> commit]
    prev,           \* the branch its last checkout came from
    rebasing,       \* the branch its rebase is rewriting
    gitdir,         \* admin directory to checkout
    link,           \* checkout to admin directory
    locked,
    shared          \* history: branches taken while others have them, where nobody asks who has

trees == <<admin, gitdir, link, locked>>
heads == <<head, prev, rebasing>>
vars == <<refs, heads, trees, shared>>

Commit == 1..MaxCommit
\* An admin directory is named after the path it was made for and a counter.
WorktreeId == Path \X (0..MaxTwins)
WorktreesAssumption ==
    MaxCommit \in Nat /\ MaxTwins \in Nat /\ None \notin Branch /\ Main \notin WorktreeId

On(b) == [on |-> b, at |-> 0]
At(c) == [on |-> None, at |-> c]

Init ==
    /\ \E b \in Branch : /\ refs \in [Branch -> 0..1] /\ refs[b] = 1
                         /\ head = [w \in WorktreeId \cup {Main} |-> IF w = Main THEN On(b) ELSE At(0)]
    /\ prev = [w \in WorktreeId \cup {Main} |-> None]
    /\ rebasing = [w \in WorktreeId \cup {Main} |-> None]
    /\ admin = {} /\ gitdir = [w \in WorktreeId |-> None] /\ link = [p \in Path |-> None]
    /\ locked = {} /\ shared = {}

HeadCommit(w) == IF head[w].on = None THEN head[w].at ELSE refs[head[w].on]

\* Worktrees a command can be run in: the gitlink leads to an admin directory.
Here == {Main} \cup ({link[p] : p \in Path} \cap admin)
Listed == {Main} \cup admin

Holders(b) == {w \in Listed : head[w].on = b \/ rebasing[w] = b}
Elsewhere(b, w) == Holders(b) \ {w} # {}

\* History: w takes b, and nobody asks whether another worktree has it.
Taken(w, b, unasked) == shared' = IF unasked /\ Elsewhere(b, w) THEN shared \cup {b} ELSE shared
NoOp == UNCHANGED shared

-------------------------------------------------------------------------------
(* git switch and git checkout.  A checkout that local changes stop leaves *)
(* everything alone, but for what is said below.                           *)

\* The reflog entry "checkout: moving from X".
Go(w, h) ==
    /\ head' = [head EXCEPT ![w] = h]
    /\ prev' = [prev EXCEPT ![w] = head[w].on]
    /\ UNCHANGED <<rebasing, trees>>

\* (Mutant: the branch of a rebase is not seen.)
Unclaimed_attached(b, w) == \A v \in Listed \ {w} : head[v].on # b

Unclaimed(b, w) == ~Elsewhere(b, w)

Checkout(w, b, switch, ignoreOthers) ==
    /\ refs[b] # 0
    /\ switch => rebasing[w] = None
    /\ ignoreOthers \/ Unclaimed(b, w)
    /\ Go(w, On(b)) /\ Taken(w, b, ignoreOthers) /\ UNCHANGED refs

\* "switch -" looks who has the branch, "checkout -" does not.
Previous(w, switch) ==
    /\ prev[w] # None
    /\ Checkout(w, prev[w], switch, ~switch)

\* -c and -C of switch, -b and -B of checkout, and a name found at a remote.  A branch that
\* has no commit yet is not asked for.
Create(w, b, c, force, switch, ignoreOthers) ==
    /\ refs[b] # 0 => force
    /\ switch => rebasing[w] = None
    /\ refs[b] # 0 => ignoreOthers \/ Unclaimed(b, w)
    /\ refs' = [refs EXCEPT ![b] = c]
    /\ \/ Go(w, On(b)) /\ Taken(w, b, ignoreOthers \/ refs[b] = 0)
       \/ \* checkout moves the branch before it finds that files are in the way
          /\ ~switch /\ c # HeadCommit(w)
          /\ UNCHANGED <<heads, trees, shared>>

\* The same without a start point where HEAD has no commit: switch drops the branch.
CreateUnborn(w, b, force, switch, ignoreOthers) ==
    /\ HeadCommit(w) = 0
    /\ refs[b] # 0 => force
    /\ refs[b] # 0 /\ ~switch => ignoreOthers \/ Unclaimed(b, w)
    /\ refs' = IF switch THEN [refs EXCEPT ![b] = 0] ELSE refs
    /\ Go(w, On(b)) /\ Taken(w, b, ignoreOthers \/ switch \/ refs[b] = 0)

Detach(w, c, switch) ==
    /\ switch => rebasing[w] = None
    /\ Go(w, At(c)) /\ NoOp /\ UNCHANGED refs

\* --orphan writes no reflog entry, and asks nobody.
Orphan(w, b, switch) ==
    /\ switch => rebasing[w] = None
    /\ refs[b] = 0
    /\ head' = [head EXCEPT ![w] = On(b)] /\ Taken(w, b, TRUE)
    /\ UNCHANGED <<refs, prev, rebasing, trees>>

-------------------------------------------------------------------------------
(* Commands that move what HEAD is on, and rebase.                         *)

Advance(w, c) ==
    /\ IF head[w].on = None THEN head' = [head EXCEPT ![w] = At(c)] /\ UNCHANGED refs
       ELSE refs' = [refs EXCEPT ![head[w].on] = c] /\ UNCHANGED head
    /\ NoOp /\ UNCHANGED <<prev, rebasing, trees>>

RebaseStart(w, c) ==
    /\ rebasing[w] = None /\ HeadCommit(w) # 0 /\ head[w].on # None
    /\ rebasing' = [rebasing EXCEPT ![w] = head[w].on]
    /\ head' = [head EXCEPT ![w] = At(c)]
    /\ NoOp /\ UNCHANGED <<refs, prev, trees>>

\* Finished or aborted: the branch is written and HEAD is on it again, whatever it was
\* moved to meanwhile (a finish would be refused then).
RebaseEnd(w, c) ==
    /\ rebasing[w] # None
    /\ refs' = [refs EXCEPT ![rebasing[w]] = c]
    /\ head' = [head EXCEPT ![w] = On(rebasing[w])]
    /\ rebasing' = [rebasing EXCEPT ![w] = None]
    /\ NoOp /\ UNCHANGED <<prev, trees>>

-------------------------------------------------------------------------------
(* git branch.                                                             *)

BranchCreate(b, c) ==
    /\ refs[b] = 0
    /\ refs' = [refs EXCEPT ![b] = c] /\ NoOp /\ UNCHANGED <<heads, trees>>

\* An ancestor is a smaller number.  No branch has an upstream here.
BranchDelete(w, b, force) ==
    /\ head[w].on # b
    /\ head[w].on = None => rebasing[w] # b
    /\ Unclaimed(b, w)
    /\ refs[b] # 0
    /\ ~force /\ HeadCommit(w) # 0 => refs[b] <= HeadCommit(w)
    /\ refs' = [refs EXCEPT ![b] = 0] /\ NoOp /\ UNCHANGED <<heads, trees>>

\* (Mutant: siblings that have the branch checked out are not told.)
Renamed_here(w, old, new) ==
    [v \in WorktreeId \cup {Main} |-> IF v = w /\ head[v].on = old THEN On(new) ELSE head[v]]

\* HEADs after a rename: the one of w and those of its siblings.
Renamed(w, old, new) ==
    [v \in WorktreeId \cup {Main} |-> IF v \in Listed \cup {w} /\ head[v].on = old THEN On(new) ELSE head[v]]

\* The new name is dropped and written, then the old one is dropped; nobody is asked
\* about the new one.
BranchRename(w, old, new, force) ==
    /\ refs[old] # 0
    /\ \A v \in Listed : rebasing[v] # old
    /\ refs[new] # 0 => force
    /\ refs' = [[refs EXCEPT ![new] = refs[old]] EXCEPT ![old] = 0]
    /\ head' = Renamed(w, old, new)
    /\ shared' = IF (old # new /\ Holders(old) # {} /\ Holders(new) # {}) \/ old \in shared
                 THEN shared \cup {new} ELSE shared
    /\ UNCHANGED <<prev, rebasing, trees>>

-------------------------------------------------------------------------------
(* git worktree.                                                           *)

FreeId(p) == {w \in {p} \X (0..MaxTwins) :
                /\ w \notin admin
                /\ \A n \in 0..(w[2] - 1) : <<p, n>> \in admin}

\* The admin directory, its HEAD, and the gitlink; perhaps with --lock, perhaps cut off by
\* a crash before the gitlink.
Register(p, h) ==
    /\ Cardinality(admin) < MaxTrees
    /\ \E w \in FreeId(p), how \in {"plain", "lock", "cut"} :
          /\ admin' = admin \cup {w}
          /\ gitdir' = [gitdir EXCEPT ![w] = p]
          /\ link' = IF how = "cut" THEN link ELSE [link EXCEPT ![p] = w]
          /\ locked' = IF how = "lock" THEN locked \cup {w} ELSE locked
          /\ head' = [head EXCEPT ![w] = h]
          /\ prev' = [prev EXCEPT ![w] = None]
          /\ rebasing' = [rebasing EXCEPT ![w] = None]

Claimed == {"branch", "new", "reset"}

\* kind: an existing branch, -b, -B, a branch named after the path or a remote's, and
\* a branch of either sort where HEAD has no commit.  The branch is written first.
Add(p, b, c, kind, force) ==
    /\ kind = "branch" => refs[b] # 0 /\ c = refs[b]
    /\ kind \in {"new", "guessed"} => refs[b] = 0
    /\ kind = "orphan" => \E w \in Here : HeadCommit(w) = 0
    /\ refs' = IF kind \in {"branch", "orphan"} THEN refs ELSE [refs EXCEPT ![b] = c]
    /\ IF ~force /\ (link[p] # None \/ (kind \in Claimed /\ Holders(b) # {}))
       THEN UNCHANGED <<heads, trees, shared>>
       ELSE /\ Register(p, On(b))
            /\ shared' = IF (force \/ kind \notin Claimed) /\ Holders(b) # {} THEN shared \cup {b} ELSE shared

AddDetached(p, c, force) ==
    /\ force \/ link[p] = None
    /\ Register(p, At(c))
    /\ NoOp /\ UNCHANGED refs

\* A worktree is named by its path or by its admin directory, whichever is listed first.
Named(p) == {w \in admin : gitdir[w] = p \/ w = <<p, 0>>}

Forget(W) ==
    /\ admin' = admin \ W
    /\ locked' = locked \ W
    /\ gitdir' = [w \in WorktreeId |-> IF w \in W THEN None ELSE gitdir[w]]
    /\ head' = [w \in WorktreeId \cup {Main} |-> IF w \in W THEN At(0) ELSE head[w]]
    /\ prev' = [w \in WorktreeId \cup {Main} |-> IF w \in W THEN None ELSE prev[w]]
    /\ rebasing' = [w \in WorktreeId \cup {Main} |-> IF w \in W THEN None ELSE rebasing[w]]

\* Whether there are changes in the checkout is left open, so one --force is as none.
Remove(p, twice) ==
    \E w \in Named(p) :
        /\ w \in locked => twice
        /\ link' = [link EXCEPT ![gitdir[w]] = None]
        /\ Forget({w}) /\ NoOp /\ UNCHANGED refs

Move(p, q, twice) ==
    \E w \in Named(p) :
        /\ w \in locked => twice
        /\ link[q] = None /\ link[gitdir[w]] # None
        /\ link' = [link EXCEPT ![q] = link[gitdir[w]], ![gitdir[w]] = None]
        /\ gitdir' = [gitdir EXCEPT ![w] = q]
        /\ NoOp /\ UNCHANGED <<refs, heads, admin, locked>>

\* The scan gives every checkout to an admin directory that claims it, the last one.
Repair(P) ==
    LET found == {p \in P : link[p] \in admin}
        dirs == [w \in WorktreeId |-> IF \E p \in found : link[p] = w /\ gitdir[w] # p
                              THEN CHOOSE p \in found : link[p] = w /\ gitdir[w] # p
                              ELSE gitdir[w]]
        Claim(p) == {w \in admin : dirs[w] = p}
    IN  /\ gitdir' = dirs
        /\ link' \in [Path -> WorktreeId \cup {None, Broken}]
        /\ \A p \in Path : IF link[p] = None \/ Claim(p) = {} THEN link'[p] = link[p]
                           ELSE link'[p] \in Claim(p)
        /\ NoOp /\ UNCHANGED <<refs, heads, admin, locked>>

Prune ==
    /\ Forget({w \in admin \ locked : link[gitdir[w]] = None})
    /\ NoOp /\ UNCHANGED <<refs, link>>

Lock(p) ==
    \E w \in Named(p) \ locked :
        locked' = locked \cup {w} /\ NoOp /\ UNCHANGED <<refs, heads, admin, gitdir, link>>
Unlock(p) ==
    \E w \in Named(p) \cap locked :
        locked' = locked \ {w} /\ NoOp /\ UNCHANGED <<refs, heads, admin, gitdir, link>>

\* Users move, delete and damage checkouts behind the repository's back.
ByHand(p) ==
    /\ link[p] # None
    /\ \/ \E q \in Path \ {p} : link[q] = None /\ link' = [link EXCEPT ![q] = link[p], ![p] = None]
       \/ \E l \in {None, Broken} : link' = [link EXCEPT ![p] = l]
    /\ NoOp /\ UNCHANGED <<refs, heads, admin, gitdir, locked>>

-------------------------------------------------------------------------------
\* --force, of a branch or once or twice of a worktree, is given where its check would fail.
Heads ==
    \E w \in Here, switch \in BOOLEAN :
        \/ Previous(w, switch)
        \/ \E b \in Branch : Orphan(w, b, switch)
        \/ \E c \in Commit : Detach(w, c, switch)
        \/ \E b \in Branch :
           \E ignoreOthers \in BOOLEAN :
              \/ Checkout(w, b, switch, ignoreOthers)
              \/ CreateUnborn(w, b, refs[b] # 0, switch, ignoreOthers)
              \/ \E c \in Commit : Create(w, b, c, refs[b] # 0, switch, ignoreOthers)

Moves == \E w \in Here, c \in Commit : Advance(w, c) \/ RebaseStart(w, c) \/ RebaseEnd(w, c)

Branches ==
    \/ \E b \in Branch, c \in Commit : BranchCreate(b, c)
    \/ \E w \in Here, b \in Branch :
          \/ BranchDelete(w, b, refs[b] > HeadCommit(w))
          \/ \E new \in Branch : BranchRename(w, b, new, refs[new] # 0)

Kinds == Claimed \cup {"guessed", "orphan"}

Trees ==
    \/ \E p \in Path, c \in Commit :
          \/ AddDetached(p, c, link[p] # None)
          \/ \E b \in Branch : \E force \in {FALSE, link[p] # None \/ Holders(b) # {}}, kind \in Kinds :
                Add(p, b, c, kind, force)
    \/ \E p \in Path :
          LET twice == Named(p) \cap locked # {}
          IN  Remove(p, twice) \/ \E q \in Path : Move(p, q, twice)
    \/ \E P \in SUBSET Path : Repair(P)
    \/ Prune
    \/ \E p \in Path : Lock(p) \/ Unlock(p) \/ ByHand(p)

Next == Heads \/ Moves \/ Branches \/ Trees
Spec == Init /\ [][Next]_vars

-------------------------------------------------------------------------------
\* A branch is checked out, or being rebased, in one worktree at most, unless somebody
\* took it where the code does not ask who has it: by force, by checkout -, by a rename
\* onto its name, or, before it had a commit, by creating it.  worktree-admin.ts 262-281.
OneHolder == \A b \in Branch \ shared : Cardinality(Holders(b)) <= 1

\* A branch that a worktree is on does not vanish under it, whichever worktree the command
\* is run in: a rename takes the HEADs of all worktrees along, a deletion asks them all.
\* Left out are a branch renamed to itself and switch -C where HEAD has no commit.
\* branch.ts 131-322.
Vanishes(w) == head'[w].on # None /\ head[w].on # None /\ refs[head[w].on] # 0
               /\ refs'[head'[w].on] = 0 /\ head[w].on \notin shared
NoBranchVanishes ==
    \/ \A w \in Listed : ~Vanishes(w)
    \/ \E w \in Here, b \in Branch, f, i \in BOOLEAN :
         BranchRename(w, b, b, f) \/ CreateUnborn(w, b, f, TRUE, i) \/ Orphan(w, b, f)

-------------------------------------------------------------------------------
(* Why: invariants that imply the properties.                                *)

WorktreeTypes ==
    /\ refs \in [Branch -> Nat]
    /\ head \in [WorktreeId \cup {Main} -> [on : Branch \cup {None}, at : Nat]]
    /\ prev \in [WorktreeId \cup {Main} -> Branch \cup {None}]
    /\ rebasing \in [WorktreeId \cup {Main} -> Branch \cup {None}]
    /\ admin \subseteq WorktreeId

\* Two worktrees that have a branch are one.
OnlyHolder == \A b \in Branch \ shared : \A v, w \in Holders(b) : v = w
===============================================================================
