------------------------------- MODULE MCStores -------------------------------
(*****************************************************************************)
(* Two commits and three names of repositories; two objects, two refs,       *)
(* two callers and a collector on disk; two branches and two paths for       *)
(* worktrees; two short branches to rebase; two files to stash; and six      *)
(* commits to bisect.                                                        *)
(*****************************************************************************)
EXTENDS Stores, TLC

CONSTANTS
    \* Two commits, three names of repositories, two calls at a time.
    k1, k2, up, fk, fg, main, j1, j2,
    \* Files of a rebase and its branches.
    a, m, p, q, added, base, topic,
    \* Files of a stash.
    f, g,
    \* Branches and paths of worktrees.
    b1, b2, d1, d2,
    \* Refs, callers and the collector of a repository on disk.
    r1, r2, c1, c2, g1

\* Storage: k1 <- k2; calls run beside one another as far as Deployment lets them.
MCLine == k1 :> {} @@ k2 :> {k1}
MCApart == {{"delete", "create"}, {"delete", "fork"}, {"delete", "push"},
            {"gc", "fork"}, {"gc", "push"}, {"fork"}}
\* Disk: object 2 reaches 1.
MCBelow == <<{1}, {1, 2}>>

MCBranches == {b1, b2}
MCPaths == {d1, d2}

\* Rebase: topic, at 7, goes onto base, at 3; its commit 6 changes nothing, and what 5
\* adds clashes with the m of base.
C(ps, t) == [parents |-> ps, tree |-> t]
MCHistory == << C(<<>>, {a}),
                C(<<1>>, {a, m}), C(<<2>>, {a, m, p}),
                C(<<1>>, {a, p}), C(<<4>>, {a, p, q}), C(<<5>>, {a, p, q}), C(<<6>>, {a, p, q, added}) >>
MCTips == base :> 3 @@ topic :> 7
MCFiles == {a, m, p, q, added}
MCClash == {{q, m}}
MCRebased == {base, topic}
MCPlanted == {added}

MCStashed == {f, g}
MCContents == {1, 2}

\* Bisection: 3 and 4 come after 2, and 5 merges them.
MCParents == << <<>>, <<1>>, <<2>>, <<2>>, <<3, 4>>, <<5>> >>

\* What may be exchanged in one part may be in another one at the same time.
Exchange(x, y, b) == IF b THEN x :> y @@ y :> x ELSE x :> x @@ y :> y
Symmetric == {Exchange(j1, j2, s) @@ Exchange(b1, b2, s) @@ Exchange(r1, r2, s)
                  @@ Exchange(d1, d2, t) @@ Exchange(c1, c2, t) : s, t \in BOOLEAN}

ASSUME InputsFit ==
    /\ RepositoriesAssumption /\ Deployment
    /\ W!WorktreesAssumption /\ B!BisectAssumption /\ R!RebaseAssumption
===============================================================================
