---------------------------- MODULE MCPullRequests ----------------------------
(***************************************************************************)
(* A base branch and a head branch one commit ahead of it.                 *)
(***************************************************************************)
EXTENDS PullRequests, TLC

CONSTANTS main, feature, p1, p2, m1, m2, n1, n2

MCHowTo == m1 :> {"merge", "fast-forward"} @@ m2 :> {"squash"}
MCOneHowTo == m1 :> {"merge"}
MCWanted == {<<feature, main>>}

MCInitRefs ==
    main :> [id |-> <<"b0">>, past |-> {<<"b0">>}] @@
    feature :> [id |-> <<"f0">>, past |-> {<<"b0">>, <<"f0">>}]
===============================================================================
