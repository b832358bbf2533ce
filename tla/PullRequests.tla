----------------------------- MODULE PullRequests -----------------------------
(***************************************************************************)
(* The platform layer over one repository: pull request records in SQLite, *)
(* the refs/pull/N/head refs that mirror them, and the branches they name. *)
(* Records and refs are written by pushes (the postReceive hook), by calls *)
(* that create, merge and close a pull request, all of which interleave at *)
(* their awaits.  The SQLite driver is synchronous: a record and the ref   *)
(* written right after it change in one step.                              *)
(*                                                                         *)
(* A commit is its id together with the ids of its history.  A push is one *)
(* atomic swap of a branch, which is what ReceivePackRefinement shows of   *)
(* the receive-pack path, followed by its hook.                            *)
(***************************************************************************)
EXTENDS Naturals, FiniteSets

CONSTANTS
    Branch, None,
    Zero,           \* the zero hash, the new value of a deletion
    Push,           \* pushes of one branch each; the id of the commit pushed
    MergeCall,      \* calls of mergePullRequest
    HowTo,          \* [MergeCall -> SUBSET Strategy]: the strategies a call may name
    CreateCall,     \* calls of createPullRequest
    Wanted,         \* the head and base branches a caller may ask for, as pairs
    MaxPr,          \* bound: pull requests created
    InitRefs        \* [Branch -> commit or None]

Strategy == {"merge", "squash", "fast-forward"}

ASSUME PullRequestAssumption ==
    /\ HowTo \in [MergeCall -> SUBSET Strategy]
    /\ MaxPr \in Nat
    /\ None # Zero
    /\ Wanted \subseteq Branch \X Branch
    /\ InitRefs = [b \in Branch |-> InitRefs[b]]
    /\ \A b \in Branch : /\ InitRefs[b] # Zero
                         /\ InitRefs[b] # None => InitRefs[b].id \in InitRefs[b].past

VARIABLES
    refs,       \* refs/heads
    pull,       \* refs/pull/N/head
    pr,         \* the records: state, head and base branch, head_sha, merge commit
    push,       \* where each push is, its branch and value, the records to update
    merge,      \* where each merge is, its record, and what it read and built
    make        \* where each creation is, its branches, and the head it read

vars == <<refs, pull, pr, push, merge, make>>

Pr == 1..MaxPr
Known == {n \in Pr : pr[n].state # "none"}
Lowest(S) == CHOOSE n \in S : \A k \in S : n <= k

\* The commit made on top of the parents in the history past.
NewCommit(id, past) == [id |-> id, past |-> past \cup {id}]
Past(c) == IF c \in {None, Zero} THEN {} ELSE c.past

Init ==
    /\ refs = InitRefs
    /\ pull = [n \in Pr |-> None]
    /\ pr = [n \in Pr |-> [state |-> "none", head |-> None, base |-> None,
                           sha |-> None, merge |-> None]]
    /\ push = [p \in Push |-> [pc |-> "idle", branch |-> None, new |-> None, todo |-> {}]]
    /\ merge = [m \in MergeCall |-> [pc |-> "idle", pr |-> 0, how |-> None, sha |-> None,
                                     base |-> None, head |-> None, result |-> None]]
    /\ make = [c \in CreateCall |-> [pc |-> "idle", head |-> None, base |-> None, sha |-> None]]

-------------------------------------------------------------------------------
(* Pushes.                                                                 *)

\* A branch is created or extended, rewritten from the start, or deleted.
PushLands(p, b, new) ==
    /\ push[p].pc = "idle"
    /\ new \in {NewCommit(<<p>>, Past(refs[b])), NewCommit(<<p>>, {}), Zero}
    /\ new = Zero => refs[b] # None
    /\ refs' = [refs EXCEPT ![b] = IF new = Zero THEN None ELSE new]
    /\ push' = [push EXCEPT ![p] = [pc |-> "posted", branch |-> b, new |-> new, todo |-> {}]]
    /\ UNCHANGED <<pull, pr, merge, make>>

\* (Mutant: the ref is written for the record, and the record left to a later
\* reader.)
SetHead_refOnly(n, v) ==
    /\ pull' = [pull EXCEPT ![n] = v]
    /\ UNCHANGED pr

SetHead(n, v) ==
    /\ pr' = [pr EXCEPT ![n].sha = v]
    /\ pull' = [pull EXCEPT ![n] = v]

\* postReceive looks for open records of the branch; the first is updated at
\* once, the others one await after the other.
HookFind(p) ==
    /\ push[p].pc = "posted"
    /\ LET open == {n \in Pr : pr[n].state = "open" /\ pr[n].head = push[p].branch}
       IN  IF open = {}
           THEN /\ push' = [push EXCEPT ![p].pc = "done"]
                /\ UNCHANGED <<pull, pr>>
           ELSE /\ SetHead(Lowest(open), push[p].new)
                /\ push' = [push EXCEPT ![p].pc = "hook", ![p].todo = open \ {Lowest(open)}]
    /\ UNCHANGED <<refs, merge, make>>

\* The next record of the list found before, whatever has become of it.
HookNext(p) ==
    /\ push[p].pc = "hook"
    /\ IF push[p].todo = {}
       THEN /\ push' = [push EXCEPT ![p].pc = "done"]
            /\ UNCHANGED <<pull, pr>>
       ELSE /\ SetHead(Lowest(push[p].todo), push[p].new)
            /\ push' = [push EXCEPT ![p].todo = @ \ {Lowest(@)}]
    /\ UNCHANGED <<refs, merge, make>>

-------------------------------------------------------------------------------
(* createPullRequest.                                                      *)

CreateReadHead(c, h, b) ==
    /\ make[c].pc = "idle"
    /\ refs[h] # None
    /\ make' = [make EXCEPT ![c] = [pc |-> "base", head |-> h, base |-> b, sha |-> refs[h]]]
    /\ UNCHANGED <<refs, pull, pr, push, merge>>

CreateReadBase(c) ==
    /\ make[c].pc = "base"
    /\ make' = [make EXCEPT ![c].pc = IF refs[make[c].base] = None THEN "failed" ELSE "insert"]
    /\ UNCHANGED <<refs, pull, pr, push, merge>>

\* The highest number of a record, plus one; the head is the one read before.
CreateInsert(c) ==
    /\ make[c].pc = "insert"
    /\ LET n == Cardinality(Known) + 1 IN
         /\ n \in Pr
         /\ pr' = [pr EXCEPT ![n] = [state |-> "open", head |-> make[c].head,
                                     base |-> make[c].base, sha |-> make[c].sha,
                                     merge |-> None]]
         /\ pull' = [pull EXCEPT ![n] = make[c].sha]
    /\ make' = [make EXCEPT ![c].pc = "done"]
    /\ UNCHANGED <<refs, push, merge>>

-------------------------------------------------------------------------------
(* closePullRequest: the check and the write are in one step.              *)

\* (Mutant: the state is not looked at.)
Close_unchecked(n) ==
    /\ n \in Known
    /\ pr' = [pr EXCEPT ![n].state = "closed"]
    /\ UNCHANGED <<refs, pull, push, merge, make>>

Close(n) ==
    /\ pr[n].state = "open"
    /\ pr' = [pr EXCEPT ![n].state = "closed"]
    /\ UNCHANGED <<refs, pull, push, merge, make>>

-------------------------------------------------------------------------------
(* mergePullRequest.                                                       *)

\* The record is read: what beforeMerge is shown, and the head to expect.
MergeStart(m, n, how) ==
    /\ merge[m].pc = "idle"
    /\ pr[n].state = "open"
    /\ merge' = [merge EXCEPT ![m].pc = "checked", ![m].pr = n, ![m].how = how,
                              ![m].sha = pr[n].sha]
    /\ UNCHANGED <<refs, pull, pr, push, make>>

MergeReadBase(m) ==
    /\ merge[m].pc = "checked"
    /\ LET base == refs[pr[merge[m].pr].base] IN
         /\ base # None
         /\ merge' = [merge EXCEPT ![m].pc = "base", ![m].base = base]
    /\ UNCHANGED <<refs, pull, pr, push, make>>

\* (Mutant: the head is merged as it is now.)
MergeReadHead_unchecked(m) ==
    /\ merge[m].pc = "base"
    /\ LET head == refs[pr[merge[m].pr].head] IN
         /\ head # None
         /\ merge' = [merge EXCEPT ![m].pc = "head", ![m].head = head]
    /\ UNCHANGED <<refs, pull, pr, push, make>>

\* The head branch must still be what the record said.
MergeReadHead(m) ==
    /\ merge[m].pc = "base"
    /\ LET head == refs[pr[merge[m].pr].head] IN
         /\ head # None /\ head = merge[m].sha
         /\ merge' = [merge EXCEPT ![m].pc = "head", ![m].head = head]
    /\ UNCHANGED <<refs, pull, pr, push, make>>

\* The merge commit has two parents, the squash commit one; a fast-forward
\* takes the head as it is.
Merged(how, base, head) ==
    CASE how = "merge" -> NewCommit(<<how, base.id, head.id>>, base.past \cup head.past)
      [] how = "squash" -> NewCommit(<<how, base.id, head.id>>, base.past)
      [] how = "fast-forward" -> head

MergeBuild(m) ==
    /\ merge[m].pc = "head"
    /\ merge[m].how = "fast-forward" => merge[m].base.id \in merge[m].head.past
    /\ merge' = [merge EXCEPT ![m].pc = "write",
                     ![m].result = Merged(merge[m].how, merge[m].base, merge[m].head)]
    /\ UNCHANGED <<refs, pull, pr, push, make>>

\* beforeMerge rejects, a ref is missing or has moved, the trees conflict, it is
\* no fast-forward: an error before anything is written.
MergeFails(m) ==
    /\ merge[m].pc \in {"checked", "base", "head"}
    /\ merge' = [merge EXCEPT ![m].pc = "failed"]
    /\ UNCHANGED <<refs, pull, pr, push, make>>

\* writeRef: the base branch takes the result, whatever it is by now.
MergeWrite(m) ==
    /\ merge[m].pc = "write"
    /\ refs' = [refs EXCEPT ![pr[merge[m].pr].base] = merge[m].result]
    /\ merge' = [merge EXCEPT ![m].pc = "mark"]
    /\ UNCHANGED <<pull, pr, push, make>>

\* (Mutant: only a record that is still open is marked.)
MergeMark_ifOpen(m) ==
    /\ merge[m].pc = "mark"
    /\ pr' = [pr EXCEPT ![merge[m].pr] =
                 IF @.state = "open"
                 THEN [@ EXCEPT !.state = "merged", !.merge = merge[m].result] ELSE @]
    /\ merge' = [merge EXCEPT ![m].pc = "done"]
    /\ UNCHANGED <<refs, pull, push, make>>

\* markMerged, whatever the state is by now.
MergeMark(m) ==
    /\ merge[m].pc = "mark"
    /\ pr' = [pr EXCEPT ![merge[m].pr].state = "merged", ![merge[m].pr].merge = merge[m].result]
    /\ merge' = [merge EXCEPT ![m].pc = "done"]
    /\ UNCHANGED <<refs, pull, push, make>>

-------------------------------------------------------------------------------
MergeStep(m) ==
    MergeReadBase(m) \/ MergeReadHead(m) \/ MergeBuild(m) \/ MergeFails(m)
        \/ MergeWrite(m) \/ MergeMark(m)

Next ==
    \/ \E p \in Push :
          \/ \E b \in Branch :
                \E new \in {NewCommit(<<p>>, Past(refs[b])), NewCommit(<<p>>, {}), Zero} :
                   PushLands(p, b, new)
          \/ HookFind(p)
          \/ HookNext(p)
    \/ \E c \in CreateCall :
          \/ \E hb \in Wanted : CreateReadHead(c, hb[1], hb[2])
          \/ CreateReadBase(c)
          \/ CreateInsert(c)
    \/ \E n \in Pr : Close(n)
    \/ \E m \in MergeCall :
          \/ \E n \in Pr, how \in HowTo[m] : MergeStart(m, n, how)
          \/ MergeStep(m)

Spec == Init /\ [][Next]_vars

\* What has begun runs on; the hook of a push does, too.
Fairness ==
    /\ \A p \in Push : WF_vars(HookFind(p) \/ HookNext(p))
    /\ \A c \in CreateCall : WF_vars(CreateReadBase(c) \/ CreateInsert(c))
    /\ \A m \in MergeCall : WF_vars(MergeStep(m))
FairSpec == Spec /\ Fairness

-------------------------------------------------------------------------------
(* Properties.                                                             *)

IsCommit(c) == c.id \in c.past

\* Every record, ref and call is well formed, numbers are used without gaps,
\* and only what has a merge commit counts as merged.
TypeOK ==
    /\ \A b \in Branch : refs[b] = None \/ IsCommit(refs[b])
    /\ Known = 1..Cardinality(Known)
    /\ \A n \in Known :
         /\ pr[n].state \in {"open", "closed", "merged"}
         /\ pr[n].head \in Branch /\ pr[n].base \in Branch
         /\ pr[n].sha = Zero \/ IsCommit(pr[n].sha)
         /\ (pr[n].state = "merged") <=> (pr[n].merge # None)
    /\ \A p \in Push :
         /\ push[p].pc \in {"idle", "posted", "hook", "done"}
         /\ push[p].todo \subseteq Known
    /\ \A m \in MergeCall :
         /\ merge[m].pc \in {"idle", "checked", "base", "head", "write", "mark", "done", "failed"}
         /\ merge[m].pc # "idle" => merge[m].pr \in Known
    /\ \A c \in CreateCall : make[c].pc \in {"idle", "base", "insert", "done", "failed"}

\* refs/pull/N/head is what the record's head_sha says, whichever of several
\* hooks and creations wrote last.
PullRefMatchesRecord == \A n \in Known : pull[n] = pr[n].sha

\* A merge brings nothing into the base branch but the history that the record
\* showed when the merge was asked for (and beforeMerge agreed to), and the
\* commit it makes: a push to the head meanwhile never slips in.
MergesApprovedHead ==
    [][\A m \in MergeCall :
          merge[m].pc = "write" /\ merge'[m].pc = "mark" =>
              LET new == refs'[pr[merge[m].pr].base]
              IN  new.past \ merge[m].base.past \subseteq Past(merge[m].sha) \cup {new.id}]_vars

\* A merged pull request stays merged: no close and no later merge undoes it.
MergedIsFinal ==
    [][\A n \in Pr : pr[n].state = "merged" => pr'[n].state = "merged"]_vars

\* A merge that has moved the base branch ends up recorded as such, even when
\* the pull request was closed while it ran.
WrittenMergeIsRecorded ==
    \A m \in MergeCall :
        merge[m].pc = "mark" ~> merge[m].pc = "done" /\ pr[merge[m].pr].state = "merged"

\* DESIGN.md: mergePullRequest swaps the base against the value it read, which
\* protects a push that races with it.  (It writes without comparing.)
MergeKeepsBase ==
    [][\A m \in MergeCall :
          merge[m].pc = "write" /\ merge'[m].pc = "mark" =>
              LET b == pr[merge[m].pr].base IN Past(refs[b]) \subseteq Past(refs'[b])]_vars
===============================================================================
