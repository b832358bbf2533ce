------------------------------ MODULE AtomicRefs ------------------------------
(***************************************************************************)
(* What a repository promises to its pushers.  A push sends, for some      *)
(* refs, the value it believes the ref has and the one it wants; each such *)
(* command is answered once, "ok" or "ng".  An "ok" command took effect in *)
(* one step, on a ref that had the value the client believed in; an "ng"   *)
(* command never has an effect.  Commands of one push are independent of   *)
(* each other: a push may succeed in part.                                 *)
(***************************************************************************)
CONSTANTS Ref, Push, Value, InitRefs

VARIABLES
    refs,       \* [Ref -> Value]
    sent,       \* [Push -> subset of Ref]: the refs the push has a command for
    old, new,   \* [Push -> [Ref -> Value]]: the commands, meaningful where sent
    outcome     \* [Push -> [Ref -> "unsent", "pending", "ok", "ng"]]

vars == <<refs, sent, old, new, outcome>>

Init ==
    /\ refs = InitRefs
    /\ sent = [p \in Push |-> {}]
    /\ outcome = [p \in Push |-> [r \in Ref |-> "unsent"]]
    /\ old \in [Push -> [Ref -> Value]]
    /\ new \in [Push -> [Ref -> Value]]

\* A push arrives; it may be refused at once.
Send(p, S, answer) ==
    /\ sent[p] = {} /\ S # {}
    /\ sent' = [sent EXCEPT ![p] = S]
    /\ \A q \in Push \ {p} : old'[q] = old[q] /\ new'[q] = new[q]
    /\ outcome' = [outcome EXCEPT ![p] = [r \in Ref |-> IF r \in S THEN answer ELSE "unsent"]]
    /\ UNCHANGED refs

\* The ref has the value the client believed in: it takes the new one.
Apply(p, r) ==
    /\ outcome[p][r] = "pending"
    /\ refs[r] = old[p][r]
    /\ refs' = [refs EXCEPT ![r] = new[p][r]]
    /\ outcome' = [outcome EXCEPT ![p][r] = "ok"]
    /\ UNCHANGED <<sent, old, new>>

\* Pending commands are refused; the refs stay as they are.
Refuse(p, S) ==
    /\ \A r \in S : outcome[p][r] = "pending"
    /\ outcome' = [outcome EXCEPT ![p] = [r \in Ref |-> IF r \in S THEN "ng" ELSE @[r]]]
    /\ UNCHANGED <<refs, sent, old, new>>

Next ==
    \E p \in Push :
        \/ \E S \in SUBSET Ref, answer \in {"pending", "ng"} : Send(p, S, answer)
        \/ \E r \in Ref : Apply(p, r)
        \/ \E S \in SUBSET Ref : Refuse(p, S)

Spec == Init /\ [][Next]_vars

===============================================================================
