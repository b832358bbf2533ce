------------------------------ MODULE MCServing ------------------------------
(*****************************************************************************)
(* Five operations of a server and two calls of close(); a push of two refs  *)
(* and fetches of a client with three commits to offer; and a history of     *)
(* four commits with the refs of a server and one client.                    *)
(*****************************************************************************)
EXTENDS Serving, TLC

CONSTANTS
    \* A history and the refs of the server.
    k1, k2, k3, side, t, f, main, dev, tag

\* k1 <- k2 <- k3 and k1 <- side; k1 and side hold the file f, t tags k2.
MCPoints == k1 :> {f} @@ k2 :> {k1} @@ k3 :> {k2} @@ side :> {k1, f} @@ t :> {k2} @@ f :> {}
MCParents == k1 :> {} @@ k2 :> {k1} @@ k3 :> {k2} @@ side :> {k1} @@ t :> {} @@ f :> {}
\* fetch with and without --tags --prune, and clone, each with every depth.
MCOptions == {q \in [clone : BOOLEAN, depth : {0, 1, 2, 9}, tags : BOOLEAN, prune : BOOLEAN] :
                 IF q.clone THEN ~q.tags /\ ~q.prune /\ q.depth # 9 ELSE q.tags = q.prune}
\* A branch that moves forward and is forced back, a second one that comes and goes, and
\* an annotated tag.
MCTips == main :> {k3, side} @@ dev :> {k2, None} @@ tag :> {t}
MCInitRefs == main :> k2 @@ dev :> None @@ tag :> None

ASSUME InputsFit == LifecycleAssumption /\ SshAssumption /\ FetchAssumption /\ FetchDeployment
===============================================================================
