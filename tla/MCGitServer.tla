------------------------------ MODULE MCGitServer -----------------------------
(***************************************************************************)
(* One push, one server.commit or server.updateRefs, and the collector on  *)
(* a repository with a branch, a second ref and some garbage.              *)
(***************************************************************************)
EXTENDS GitServer, TLC

CONSTANTS b0, a1, c1, bx, by, main, side, p1, j1, j2

\* b0 <- a1 (blob bx) and b0 <- c1 (blobs bx, by): a1 is pushed, c1 is built in
\* process.
MCObject == {b0, a1, c1, bx, by}
MCPoints == b0 :> {} @@ a1 :> {b0, bx} @@ c1 :> {b0, bx, by} @@ bx :> {} @@ by :> {}
MCParents == b0 :> {} @@ a1 :> {b0} @@ c1 :> {b0} @@ bx :> {} @@ by :> {}

MCRef == {main, side}
MCInitRefs == main :> b0 @@ side :> None
MCInitObjs == {b0, by}

MCTips == p1 :> {a1}
MCNewCommits == j1 :> {c1}

\* One branch only, where gc races with every writer.
MCRefOne == {main}
MCInitRefsOne == main :> b0
===============================================================================
