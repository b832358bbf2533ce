----------------------------- MODULE MCReceivePack ----------------------------
(***************************************************************************)
(* A small repository: a base commit b0 with its tree, three commits on    *)
(* top, two of which share a blob x, and an unrelated root commit.         *)
(***************************************************************************)
EXTENDS ReceivePackRefinement, TLC

CONSTANTS b0, a1, a2, c1, x, main, tag, p1, p2

\* b0 <- a1 <- a2 and b0 <- c1; a1 and c1 contain the same blob x.
MCObject == {b0, a1, a2, c1, x}
MCPoints == b0 :> {} @@ a1 :> {b0, x} @@ a2 :> {a1, x} @@ c1 :> {b0, x} @@ x :> {}
MCParents == b0 :> {} @@ a1 :> {b0} @@ a2 :> {a1} @@ c1 :> {b0} @@ x :> {}

MCRef == {main, tag}
MCInitRefs == main :> b0 @@ tag :> None
MCInitObjs == {b0}

MCTips == p1 :> {a1, a2} @@ p2 :> {c1, a1}
===============================================================================
