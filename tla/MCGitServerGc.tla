---------------------------- MODULE MCGitServerGc -----------------------------
(***************************************************************************)
(* The deployment either runs gc alone, on a branch and a second ref, or   *)
(* lets it race with the others, on one branch that may go back to where   *)
(* it was.                                                                 *)
(***************************************************************************)
EXTENDS MCGitServer

MCUpdateTipsBack == {a1, b0}
R == INSTANCE GitServer WITH
        Ref <- MCRefOne, InitRefs <- MCInitRefsOne, UpdateTips <- MCUpdateTipsBack,
        MaxGc <- 1, GcAlone <- FALSE

ASSUME InputsFit == ServerAssumption /\ R!ServerAssumption

VARIABLE alone      \* is gc left alone

ServersInit == (alone = TRUE /\ ServerInit) \/ (alone = FALSE /\ R!ServerInit)
ServersNext == UNCHANGED alone /\ ((alone /\ ServerNext) \/ (~alone /\ R!ServerNext))
serversVars == <<alone, allVars>>
ServersSpec == ServersInit /\ [][ServersNext]_serversVars

\* While gc is left alone the store is complete after every step of pushes, in-process
\* writes and collections: what any stored object names is stored, garbage included, so
\* that a later push may build on it; all that the refs reach is stored; and no roll-back
\* that may still come takes any of that (operations.ts, handler.ts:538, gc.ts).
StoreComplete ==
    alone => /\ Closed(objs) /\ RefsComplete
             /\ \A p \in Push : Unfinished(p) /\ applied[p] = {} =>
                   Reachable(Tipset(refs)) \cap ingested[p] = {}

\* A collection that was left alone keeps exactly what the refs reach: no live object is
\* lost and no garbage of an earlier failure survives it (gcRepo).
GcKeepsExactly == [][alone => GcExact]_serversVars
===============================================================================
