---------------------------- MODULE MCWorkingCopy -----------------------------
(***************************************************************************)
(* Two branches that have diverged: they changed the same file, and one    *)
(* adds another; or one deletes the file the other changed.  A reset makes *)
(* one branch follow the other.                                            *)
(***************************************************************************)
EXTENDS WorkingCopy, TLC

CONSTANTS main, topic, f, g

Files(x, y) == f :> x @@ g :> y
History(base, ours, theirs) ==
    [commits |-> <<[tree |-> base, parents |-> <<>>],
                   [tree |-> ours, parents |-> <<1>>],
                   [tree |-> theirs, parents |-> <<1>>]>>,
     branch |-> main :> 2 @@ topic :> 3,
     head |-> main]

MCContent == {"a", "b", "c", "mine", "markers", "merged"}
MCMine == {"mine"}

Diverged == History(Files("a", Absent), Files("b", Absent), Files("c", "c"))
Deleted == History(Files("a", "a"), Files("b", "a"), Files(Absent, "c"))

MCDiverged == {Diverged, Deleted}
===============================================================================
