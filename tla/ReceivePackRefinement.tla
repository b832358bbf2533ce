------------------------- MODULE ReceivePackRefinement ------------------------
(***************************************************************************)
(* The push path implements AtomicRefs: whatever the interleaving of the   *)
(* checks, hooks, swaps, rollbacks and failures of several pushes, their   *)
(* commands look like independent atomic compare-and-swaps whose answers   *)
(* tell the truth.                                                         *)
(***************************************************************************)
EXTENDS ReceivePack

\* What the client can conclude of each command, from the server's state.
Outcome ==
    [p \in Push |-> [r \in Ref |->
        CASE cmd[p][r] = Skip -> "unsent"
          [] cmd[p][r] # Skip /\ r \in applied[p] -> "ok"
          [] cmd[p][r] # Skip /\ r \notin applied[p]
                /\ (pc[p] = "done" \/ (pc[p] = "update" /\ r \notin todo[p])) -> "ng"
          [] OTHER -> "pending"]]

\* cmd[p][r] where a command was sent, any value elsewhere.
Wanted == [p \in Push |-> [r \in Ref |-> IF cmd[p][r] = Skip THEN None ELSE cmd[p][r]]]

\* The old value counts from the moment the command is sent.
Believed == [p \in Push |-> [r \in Ref |-> IF cmd[p][r] = Skip THEN None ELSE advert[p][r]]]

Abstract == INSTANCE AtomicRefs
    WITH sent <- [p \in Push |-> Commands(p)], old <- Believed, new <- Wanted,
         outcome <- Outcome

\* A reported "ok" was one atomic swap from the value the client sent, and a
\* refused command has no effect, then or later.
ImplementsAtomicRefs == Abstract!Spec

===============================================================================
