------------------------- MODULE PullRequests_proofs --------------------------
(***************************************************************************)
(* Theorems about the platform, for any branches, any number of calls and  *)
(* of pull requests, and any histories.                                    *)
(***************************************************************************)
EXTENDS PullRequests, FiniteSetTheorems, TLAPS

-------------------------------------------------------------------------------
(* The shape of the variables, whatever the commits are.                   *)

PrShape ==
    /\ pr = [n \in Pr |-> pr[n]] /\ pull = [n \in Pr |-> pull[n]]
    /\ \A n \in Pr :
         /\ pr[n] = [state |-> pr[n].state, head |-> pr[n].head, base |-> pr[n].base,
                     sha |-> pr[n].sha, merge |-> pr[n].merge]
         /\ pr[n].state \in {"none", "open", "closed", "merged"}

\* A record has the fields it is made of.
LEMMA RecordFields ==
    ASSUME NEW r, NEW a, NEW b, NEW c, NEW d, NEW e,
           r = [state |-> a, head |-> b, base |-> c, sha |-> d, merge |-> e]
    PROVE  /\ r.state = a /\ r.head = b /\ r.base = c /\ r.sha = d /\ r.merge = e
           /\ r = [state |-> r.state, head |-> r.head, base |-> r.base, sha |-> r.sha,
                   merge |-> r.merge]
OBVIOUS

\* Records are numbered without gaps: the next number is free.
Numbered == Known = 1..Cardinality(Known)

\* The branches of a record stay the same.
Same(k) == pr'[k].base = pr[k].base /\ pr'[k].head = pr[k].head

RecordsInv == PrShape /\ Numbered /\ PullRefMatchesRecord

\* A number that is used next has no record.
LEMMA NextIsFree ==
    ASSUME Numbered
    PROVE  Cardinality(Known) \in Nat /\ Cardinality(Known) + 1 \notin Known
<1>1. IsFiniteSet(Known)
  <2>1. IsFiniteSet(Pr)
    BY FS_Interval, PullRequestAssumption DEF Pr
  <2> QED
    BY <2>1, FS_Subset DEF Known
<1>2. Cardinality(Known) \in Nat
  BY <1>1, FS_CardinalityType
<1> QED
  BY <1>2 DEF Numbered

\* Where no record comes or goes, the numbers stay.
LEMMA SameRecords ==
    ASSUME Numbered, \A n \in Pr : (pr'[n].state = "none") = (pr[n].state = "none")
    PROVE  Numbered'
<1>1. Known' = Known
  BY DEF Known, Pr
<1> QED
  BY <1>1 DEF Numbered

\* A hook writes a record and its ref alike.
LEMMA SetHeadKeeps ==
    ASSUME RecordsInv, NEW n, NEW v, SetHead(n, v)
    PROVE  /\ RecordsInv'
           /\ \A k \in Pr : /\ pr'[k].state = pr[k].state /\ Same(k)
                            /\ pr'[k].merge = pr[k].merge /\ pr'[k].sha \in {v, pr[k].sha}
<1>1. /\ pull' = [k \in Pr |-> IF k = n THEN v ELSE pull[k]]
      /\ pr' = [k \in Pr |-> IF k = n THEN [pr[n] EXCEPT !.sha = v] ELSE pr[k]]
  BY DEF RecordsInv, PrShape, SetHead
<1>2. ASSUME NEW k \in Pr, NEW w, w = IF k = n THEN v ELSE pr[k].sha
      PROVE  /\ pr'[k].state = pr[k].state /\ Same(k) /\ pr'[k].sha = w
             /\ pr'[k].merge = pr[k].merge
             /\ pr'[k] = [state |-> pr'[k].state, head |-> pr'[k].head, base |-> pr'[k].base,
                          sha |-> pr'[k].sha, merge |-> pr'[k].merge]
  <2>1. pr[k] = [state |-> pr[k].state, head |-> pr[k].head, base |-> pr[k].base,
                 sha |-> pr[k].sha, merge |-> pr[k].merge]
    BY DEF RecordsInv, PrShape
  <2>2. CASE k = n
    <3>1. pr'[k] = [pr[k] EXCEPT !.sha = w]
      BY <1>1, <1>2, <2>2
    <3>2. pr'[k] = [state |-> pr[k].state, head |-> pr[k].head, base |-> pr[k].base,
                    sha |-> w, merge |-> pr[k].merge]
      BY <3>1, <2>1
    <3> QED
      BY <3>2, RecordFields DEF Same
  <2>3. CASE k # n
    <3>1. pr'[k] = pr[k] /\ w = pr[k].sha
      BY <1>1, <1>2, <2>3
    <3> QED
      BY <3>1, <2>1 DEF Same
  <2> QED
    BY <2>2, <2>3
<1>3. ASSUME NEW k \in Pr
      PROVE  /\ pr'[k].state = pr[k].state /\ Same(k) /\ pr'[k].merge = pr[k].merge
             /\ pr'[k].sha = IF k = n THEN v ELSE pr[k].sha
             /\ pull'[k] = IF k = n THEN v ELSE pull[k]
             /\ pr'[k] = [state |-> pr'[k].state, head |-> pr'[k].head, base |-> pr'[k].base,
                          sha |-> pr'[k].sha, merge |-> pr'[k].merge]
  BY <1>1, <1>2
<1>5. PrShape'
  BY <1>1, <1>3 DEF RecordsInv, PrShape, Pr
<1>6. Numbered'
  BY <1>3, SameRecords DEF RecordsInv
<1>7. PullRefMatchesRecord'
  BY <1>3 DEF RecordsInv, PullRefMatchesRecord, Known, Pr
<1> QED
  BY <1>3, <1>5, <1>6, <1>7 DEF RecordsInv

\* A creation takes a number that is free, and makes the ref with the record.
LEMMA InsertKeeps ==
    ASSUME RecordsInv, NEW c, CreateInsert(c)
    PROVE  /\ RecordsInv'
           /\ \A k \in Known : pr'[k] = pr[k]
           /\ Known \subseteq Known'
           /\ \A k \in Known' \ Known :
                 /\ pr'[k].base = make[c].base /\ pr'[k].head = make[c].head
                 /\ pr'[k].sha = make[c].sha /\ pr'[k].state = "open" /\ pr'[k].merge = None
<1> DEFINE n == Cardinality(Known) + 1
           r == [state |-> "open", head |-> make[c].head, base |-> make[c].base,
                 sha |-> make[c].sha, merge |-> None]
<1>1. /\ n \in Pr /\ n \notin Known /\ Cardinality(Known) \in Nat
      /\ Known = 1..Cardinality(Known)
  BY NextIsFree DEF RecordsInv, CreateInsert, Numbered
<1>2. /\ pr' = [k \in Pr |-> IF k = n THEN r ELSE pr[k]]
      /\ pull' = [k \in Pr |-> IF k = n THEN make[c].sha ELSE pull[k]]
  BY DEF RecordsInv, PrShape, CreateInsert
<1>3. /\ pr'[n] = r /\ pull'[n] = make[c].sha
      /\ \A k \in Pr : k # n => pr'[k] = pr[k] /\ pull'[k] = pull[k]
  BY <1>1, <1>2
<1>4. /\ r.state = "open" /\ r.sha = make[c].sha /\ r.base = make[c].base /\ r.head = make[c].head
      /\ r.merge = None
      /\ r = [state |-> r.state, head |-> r.head, base |-> r.base, sha |-> r.sha,
              merge |-> r.merge]
  BY RecordFields
<1> HIDE DEF r
<1>5. Known' = Known \cup {n}
  BY <1>1, <1>3, <1>4 DEF Known, Pr
<1>6. Known' = 1..n /\ n \in Nat
  BY <1>1, <1>5
<1> HIDE DEF n
<1>7. Cardinality(1..n) = n
  BY <1>6, FS_Interval
<1>8. Numbered'
  BY <1>6, <1>7 DEF Numbered
<1>9. PrShape'
  <2>1. pr' = [k \in Pr |-> pr'[k]] /\ pull' = [k \in Pr |-> pull'[k]]
    BY <1>2
  <2>2. ASSUME NEW k \in Pr
        PROVE  /\ pr'[k] = [state |-> pr'[k].state, head |-> pr'[k].head, base |-> pr'[k].base,
                            sha |-> pr'[k].sha, merge |-> pr'[k].merge]
               /\ pr'[k].state \in {"none", "open", "closed", "merged"}
    <3>1. CASE k = n
      BY <1>3, <1>4, <3>1
    <3>2. CASE k # n
      BY <1>3, <3>2 DEF RecordsInv, PrShape
    <3> QED
      BY <3>1, <3>2
  <2> QED
    BY <2>1, <2>2 DEF PrShape, Pr
<1>10. PullRefMatchesRecord'
  BY <1>3, <1>4, <1>5 DEF RecordsInv, PullRefMatchesRecord, Known, Pr
<1> QED
  BY <1>1, <1>3, <1>4, <1>5, <1>8, <1>9, <1>10 DEF RecordsInv, Known

\* A record that changes its state, and perhaps its merge commit, keeps its number, its
\* branches and its head.
LEMMA StateKeeps ==
    ASSUME RecordsInv, NEW n \in Known, NEW s \in {"open", "closed", "merged"}, NEW w,
           pr' = [k \in Pr |-> IF k = n THEN [state |-> s, head |-> pr[n].head, base |-> pr[n].base,
                                             sha |-> pr[n].sha, merge |-> w]
                              ELSE pr[k]],
           UNCHANGED pull
    PROVE  /\ RecordsInv' /\ pr'[n].state = s /\ pr'[n].merge = w
           /\ \A k \in Pr : Same(k) /\ pr'[k].sha = pr[k].sha
           /\ \A k \in Pr : k # n => pr'[k].state = pr[k].state /\ pr'[k].merge = pr[k].merge
<1> DEFINE r == [state |-> s, head |-> pr[n].head, base |-> pr[n].base, sha |-> pr[n].sha, merge |-> w]
<1>1. /\ n \in Pr /\ pr'[n] = r
      /\ \A k \in Pr : k # n => pr'[k] = pr[k]
  BY DEF Known
<1>2. /\ r.state = s /\ r.base = pr[n].base /\ r.head = pr[n].head /\ r.sha = pr[n].sha
      /\ r.merge = w
      /\ r = [state |-> r.state, head |-> r.head, base |-> r.base, sha |-> r.sha,
              merge |-> r.merge]
  BY RecordFields
<1> HIDE DEF r
<1>3. Known' = Known
  BY <1>1, <1>2 DEF Known, Pr
<1>4. PrShape'
  <2>1. pr' = [k \in Pr |-> pr'[k]] /\ pull' = [k \in Pr |-> pull'[k]]
    BY DEF RecordsInv, PrShape
  <2>2. ASSUME NEW k \in Pr
        PROVE  /\ pr'[k] = [state |-> pr'[k].state, head |-> pr'[k].head, base |-> pr'[k].base,
                            sha |-> pr'[k].sha, merge |-> pr'[k].merge]
               /\ pr'[k].state \in {"none", "open", "closed", "merged"}
    <3>1. CASE k = n
      BY <1>1, <1>2, <3>1
    <3>2. CASE k # n
      BY <1>1, <3>2 DEF RecordsInv, PrShape
    <3> QED
      BY <3>1, <3>2
  <2> QED
    BY <2>1, <2>2 DEF PrShape, Pr
<1>5. Numbered'
  BY <1>3 DEF RecordsInv, Numbered
<1>6. PullRefMatchesRecord'
  BY <1>1, <1>2, <1>3 DEF RecordsInv, PullRefMatchesRecord, Known
<1> QED
  BY <1>1, <1>2, <1>4, <1>5, <1>6 DEF RecordsInv, Same

\* closePullRequest closes an open record only.
LEMMA CloseKeeps ==
    ASSUME RecordsInv, NEW n \in Pr, Close(n)
    PROVE  /\ RecordsInv'
           /\ \A k \in Pr : Same(k)
           /\ \A k \in Pr : pr[k].state = "merged" => pr'[k].state = "merged"
           /\ Known' = Known
           /\ \A k \in Pr : /\ pr'[k].sha = pr[k].sha /\ pr'[k].merge = pr[k].merge
                            /\ (pr'[k].state = "merged") <=> (pr[k].state = "merged")
<1>1. n \in Known /\ pr[n].state = "open" /\ UNCHANGED pull
  BY DEF Close, Known
<1>2. pr' = [k \in Pr |-> IF k = n THEN [pr[n] EXCEPT !.state = "closed"] ELSE pr[k]]
  BY DEF Close, RecordsInv, PrShape
<1>3. [pr[n] EXCEPT !.state = "closed"]
        = [state |-> "closed", head |-> pr[n].head, base |-> pr[n].base, sha |-> pr[n].sha,
           merge |-> pr[n].merge]
  BY DEF RecordsInv, PrShape
<1>4. pr' = [k \in Pr |-> IF k = n THEN [state |-> "closed", head |-> pr[n].head, base |-> pr[n].base,
                                        sha |-> pr[n].sha, merge |-> pr[n].merge]
                         ELSE pr[k]]
  BY <1>2, <1>3
<1>5. /\ RecordsInv' /\ pr'[n].state = "closed" /\ pr'[n].merge = pr[n].merge
      /\ \A k \in Pr : Same(k) /\ pr'[k].sha = pr[k].sha
      /\ \A k \in Pr : k # n => pr'[k].state = pr[k].state /\ pr'[k].merge = pr[k].merge
  BY <1>1, <1>4, StateKeeps
<1> QED
  BY <1>1, <1>5 DEF Known, Pr

\* markMerged marks a record that exists, in whatever state it is.
LEMMA MarkKeeps ==
    ASSUME RecordsInv, NEW m, merge[m].pr \in Known, MergeMark(m)
    PROVE  /\ RecordsInv'
           /\ \A k \in Pr : Same(k)
           /\ \A k \in Pr : pr[k].state = "merged" => pr'[k].state = "merged"
           /\ Known' = Known
           /\ pr'[merge[m].pr].state = "merged" /\ pr'[merge[m].pr].merge = merge[m].result
           /\ \A k \in Pr : /\ pr'[k].sha = pr[k].sha
                            /\ k # merge[m].pr => /\ pr'[k].state = pr[k].state
                                                  /\ pr'[k].merge = pr[k].merge
<1> DEFINE n == merge[m].pr
           w == merge[m].result
<1>1. n \in Known /\ n \in Pr /\ UNCHANGED pull
  BY DEF MergeMark, Known
<1>2. pr' = [pr EXCEPT ![n].state = "merged", ![n].merge = w]
  BY DEF MergeMark
<1> HIDE DEF n, w
<1>3. pr' = [k \in Pr |-> IF k = n THEN [pr[n] EXCEPT !.state = "merged", !.merge = w] ELSE pr[k]]
  BY <1>1, <1>2 DEF RecordsInv, PrShape
<1>4. [pr[n] EXCEPT !.state = "merged", !.merge = w]
        = [state |-> "merged", head |-> pr[n].head, base |-> pr[n].base, sha |-> pr[n].sha, merge |-> w]
  <2>1. pr[n] = [state |-> pr[n].state, head |-> pr[n].head, base |-> pr[n].base,
                 sha |-> pr[n].sha, merge |-> pr[n].merge]
    BY <1>1 DEF RecordsInv, PrShape
  <2>2. [pr[n] EXCEPT !.state = "merged"]
          = [state |-> "merged", head |-> pr[n].head, base |-> pr[n].base, sha |-> pr[n].sha,
             merge |-> pr[n].merge]
    BY <2>1
  <2>3. [pr[n] EXCEPT !.state = "merged", !.merge = w]
          = [[pr[n] EXCEPT !.state = "merged"] EXCEPT !.merge = w]
    BY Zenon
  <2>4. ASSUME NEW r, r = [state |-> "merged", head |-> pr[n].head, base |-> pr[n].base,
                           sha |-> pr[n].sha, merge |-> pr[n].merge]
        PROVE  [r EXCEPT !.merge = w]
                 = [state |-> "merged", head |-> pr[n].head, base |-> pr[n].base,
                    sha |-> pr[n].sha, merge |-> w]
    BY <2>4
  <2> QED
    BY <2>2, <2>3, <2>4, Zenon
<1>5. pr' = [k \in Pr |-> IF k = n THEN [state |-> "merged", head |-> pr[n].head, base |-> pr[n].base,
                                        sha |-> pr[n].sha, merge |-> w]
                         ELSE pr[k]]
  BY <1>3, <1>4
<1>6. /\ RecordsInv' /\ pr'[n].state = "merged" /\ pr'[n].merge = w
      /\ \A k \in Pr : Same(k) /\ pr'[k].sha = pr[k].sha
      /\ \A k \in Pr : k # n => pr'[k].state = pr[k].state /\ pr'[k].merge = pr[k].merge
  BY <1>1, <1>5, StateKeeps
<1> QED
  BY <1>1, <1>6 DEF Known, Pr, n, w

-------------------------------------------------------------------------------
(* Merges.                                                                 *)

MergeField == {"pc", "pr", "how", "sha", "base", "head", "result"}

MergeShape ==
    /\ merge = [m \in MergeCall |-> merge[m]]
    /\ \A m \in MergeCall : merge[m] = [f \in MergeField |-> merge[m][f]]

\* A merge that has begun is about a record there is.
MergesInv == MergeShape /\ \A m \in MergeCall : merge[m].pc # "idle" => merge[m].pr \in Known

\* A merge begins with what the record says.
LEMMA MergeStarts ==
    ASSUME MergesInv, NEW m \in MergeCall, NEW n, NEW how, MergeStart(m, n, how)
    PROVE  /\ MergeShape'
           /\ \A k \in MergeCall : k # m => merge'[k] = merge[k]
           /\ merge'[m].pc = "checked" /\ merge'[m].pr = n /\ merge'[m].how = how
           /\ merge'[m].sha = pr[n].sha
<1>1. merge' = [k \in MergeCall |->
                  IF k = m THEN [merge[m] EXCEPT !.pc = "checked", !.pr = n, !.how = how, !.sha = pr[n].sha] ELSE merge[k]]
  BY DEF MergesInv, MergeShape, MergeStart
<1>2. [merge[m] EXCEPT !.pc = "checked", !.pr = n, !.how = how, !.sha = pr[n].sha]
        = [f \in MergeField |-> CASE f = "pc" -> "checked" [] f = "pr" -> n [] f = "how" -> how [] f = "sha" -> pr[n].sha [] OTHER -> merge[m][f]]
  BY DEF MergesInv, MergeShape, MergeField
<1> QED
  BY <1>1, <1>2, ZenonT(60) DEF MergesInv, MergeShape, MergeField

\* It reads the base branch.
LEMMA BaseIsRead ==
    ASSUME MergesInv, NEW m \in MergeCall, MergeReadBase(m)
    PROVE  /\ MergeShape'
           /\ \A k \in MergeCall : k # m => merge'[k] = merge[k]
           /\ merge'[m].pc = "base" /\ merge'[m].base = refs[pr[merge[m].pr].base]
           /\ merge'[m].pr = merge[m].pr /\ merge'[m].how = merge[m].how /\ merge'[m].sha = merge[m].sha
<1>1. merge' = [k \in MergeCall |->
                  IF k = m THEN [merge[m] EXCEPT !.pc = "base", !.base = refs[pr[merge[m].pr].base]] ELSE merge[k]]
  BY DEF MergesInv, MergeShape, MergeReadBase
<1>2. [merge[m] EXCEPT !.pc = "base", !.base = refs[pr[merge[m].pr].base]]
        = [f \in MergeField |-> CASE f = "pc" -> "base" [] f = "base" -> refs[pr[merge[m].pr].base] [] OTHER -> merge[m][f]]
  BY DEF MergesInv, MergeShape, MergeField
<1> QED
  BY <1>1, <1>2, ZenonT(60) DEF MergesInv, MergeShape, MergeField

\* It reads the head branch, which is what the record said.
LEMMA HeadIsRead ==
    ASSUME MergesInv, NEW m \in MergeCall, MergeReadHead(m)
    PROVE  /\ MergeShape'
           /\ \A k \in MergeCall : k # m => merge'[k] = merge[k]
           /\ merge'[m].pc = "head" /\ merge'[m].head = refs[pr[merge[m].pr].head]
           /\ merge'[m].head # None /\ merge'[m].head = merge[m].sha
           /\ merge'[m].pr = merge[m].pr /\ merge'[m].how = merge[m].how /\ merge'[m].sha = merge[m].sha
           /\ merge'[m].base = merge[m].base
<1>1. merge' = [k \in MergeCall |->
                  IF k = m THEN [merge[m] EXCEPT !.pc = "head", !.head = refs[pr[merge[m].pr].head]] ELSE merge[k]]
  BY DEF MergesInv, MergeShape, MergeReadHead
<1>2. [merge[m] EXCEPT !.pc = "head", !.head = refs[pr[merge[m].pr].head]]
        = [f \in MergeField |-> CASE f = "pc" -> "head" [] f = "head" -> refs[pr[merge[m].pr].head] [] OTHER -> merge[m][f]]
  BY DEF MergesInv, MergeShape, MergeField
<1>3. /\ refs[pr[merge[m].pr].head] # None
      /\ refs[pr[merge[m].pr].head] = merge[m].sha
  BY DEF MergeReadHead
<1> QED
  BY <1>1, <1>2, <1>3, ZenonT(60) DEF MergesInv, MergeShape, MergeField

\* It builds the result from both.
LEMMA ResultIsBuilt ==
    ASSUME MergesInv, NEW m \in MergeCall, MergeBuild(m)
    PROVE  /\ MergeShape'
           /\ \A k \in MergeCall : k # m => merge'[k] = merge[k]
           /\ merge[m].pc = "head" /\ merge'[m].pc = "write"
           /\ merge'[m].result = Merged(merge[m].how, merge[m].base, merge[m].head)
           /\ merge'[m].pr = merge[m].pr /\ merge'[m].how = merge[m].how /\ merge'[m].sha = merge[m].sha
           /\ merge'[m].base = merge[m].base /\ merge'[m].head = merge[m].head
<1>1. merge' = [k \in MergeCall |->
                  IF k = m THEN [merge[m] EXCEPT !.pc = "write",
                              !.result = Merged(merge[m].how, merge[m].base, merge[m].head)] ELSE merge[k]]
  BY DEF MergesInv, MergeShape, MergeBuild
<1>2. [merge[m] EXCEPT !.pc = "write",
                              !.result = Merged(merge[m].how, merge[m].base, merge[m].head)]
        = [f \in MergeField |-> CASE f = "pc" -> "write"
                                  [] f = "result" -> Merged(merge[m].how, merge[m].base, merge[m].head) [] OTHER -> merge[m][f]]
  BY DEF MergesInv, MergeShape, MergeField
<1>3. merge[m].pc = "head"
  BY DEF MergeBuild
<1> QED
  BY <1>1, <1>2, <1>3, ZenonT(60) DEF MergesInv, MergeShape, MergeField

\* It goes on, or fails, with all it knows.
LEMMA MergeMoves ==
    ASSUME MergesInv, NEW m \in MergeCall, NEW p, merge' = [merge EXCEPT ![m].pc = p]
    PROVE  /\ MergeShape'
           /\ \A k \in MergeCall : k # m => merge'[k] = merge[k]
           /\ merge'[m].pc = p
           /\ merge'[m].pr = merge[m].pr /\ merge'[m].how = merge[m].how /\ merge'[m].sha = merge[m].sha
           /\ merge'[m].base = merge[m].base /\ merge'[m].head = merge[m].head /\ merge'[m].result = merge[m].result
<1>1. merge' = [k \in MergeCall |-> IF k = m THEN [merge[m] EXCEPT !.pc = p] ELSE merge[k]]
  BY DEF MergesInv, MergeShape
<1>2. [merge[m] EXCEPT !.pc = p]
        = [f \in MergeField |-> IF f = "pc" THEN p ELSE merge[m][f]]
  BY DEF MergesInv, MergeShape, MergeField
<1> QED
  BY <1>1, <1>2, SMTT(40) DEF MergesInv, MergeShape, MergeField

\* A step of a merge leaves the others alone and keeps what the merge is about.
LEMMA MergeStepKeeps ==
    ASSUME MergesInv, NEW m \in MergeCall, MergeStep(m)
    PROVE  /\ MergeShape'
           /\ \A k \in MergeCall : k # m => merge'[k] = merge[k]
           /\ merge[m].pc # "idle" /\ merge'[m].pr = merge[m].pr
<1>1. CASE MergeReadBase(m)
  BY <1>1, BaseIsRead DEF MergeReadBase
<1>2. CASE MergeReadHead(m)
  BY <1>2, HeadIsRead DEF MergeReadHead
<1>3. CASE MergeBuild(m)
  BY <1>3, ResultIsBuilt
<1>4. CASE MergeFails(m)
  <2>1. merge' = [merge EXCEPT ![m].pc = "failed"] /\ merge[m].pc # "idle"
    BY <1>4 DEF MergeFails
  <2> QED
    BY <2>1, MergeMoves
<1>5. CASE MergeWrite(m)
  <2>1. merge' = [merge EXCEPT ![m].pc = "mark"] /\ merge[m].pc # "idle"
    BY <1>5 DEF MergeWrite
  <2> QED
    BY <2>1, MergeMoves
<1>6. CASE MergeMark(m)
  <2>1. merge' = [merge EXCEPT ![m].pc = "done"] /\ merge[m].pc # "idle"
    BY <1>6 DEF MergeMark
  <2> QED
    BY <2>1, MergeMoves
<1> QED
  BY <1>1, <1>2, <1>3, <1>4, <1>5, <1>6 DEF MergeStep

-------------------------------------------------------------------------------
(* What every step keeps.                                                  *)

\* Records keep their numbers, their branches, and that they are merged.
RecordsKept ==
    /\ RecordsInv'
    /\ \A k \in Known : Same(k)
    /\ \A k \in Pr : pr[k].state = "merged" => pr'[k].state = "merged"
    /\ Known \subseteq Known'
    /\ \A k \in Known' \ Known :
          \E c \in CreateCall : make[c].pc = "insert" /\ pr'[k].base = make[c].base
                                                      /\ pr'[k].head = make[c].head

\* A step that writes neither a record nor its ref.
LEMMA OthersKeep ==
    ASSUME RecordsInv, UNCHANGED <<pr, pull>>
    PROVE  RecordsKept
BY DEF RecordsKept, RecordsInv, PrShape, Numbered, PullRefMatchesRecord, Known, Same

\* The hook, whether it finds the records or takes the next one.
LEMMA HookKeeps ==
    ASSUME RecordsInv, NEW p, HookFind(p) \/ HookNext(p)
    PROVE  RecordsKept
<1>1. CASE UNCHANGED <<pr, pull>>
  BY <1>1, OthersKeep
<1>2. CASE \E n, v : SetHead(n, v)
  <2>1. PICK n, v : SetHead(n, v)
    BY <1>2
  <2>2. RecordsInv' /\ \A k \in Pr : pr'[k].state = pr[k].state /\ Same(k)
    BY <2>1, SetHeadKeeps
  <2> QED
    BY <2>2 DEF RecordsKept, Known
<1> QED
  BY <1>1, <1>2 DEF HookFind, HookNext

\* Every step keeps the records.
LEMMA RecordsStep ==
    ASSUME RecordsInv, MergesInv, [Next]_vars
    PROVE  RecordsKept
<1>1. CASE \E p \in Push : HookFind(p) \/ HookNext(p)
  BY <1>1, HookKeeps
<1>2. CASE \E c \in CreateCall : CreateInsert(c)
  <2>1. PICK c \in CreateCall : CreateInsert(c)
    BY <1>2
  <2>2. /\ RecordsInv' /\ (\A k \in Known : pr'[k] = pr[k]) /\ Known \subseteq Known'
        /\ \A k \in Known' \ Known : pr'[k].base = make[c].base /\ pr'[k].head = make[c].head
    BY <2>1, InsertKeeps
  <2>3. make[c].pc = "insert"
    BY <2>1 DEF CreateInsert
  <2> QED
    BY <2>2, <2>3 DEF RecordsKept, Known, Same
<1>3. CASE \E n \in Pr : Close(n)
  BY <1>3, CloseKeeps DEF RecordsKept, Known
<1>4. CASE \E m \in MergeCall : MergeMark(m)
  <2>1. PICK m \in MergeCall : MergeMark(m)
    BY <1>4
  <2>2. merge[m].pr \in Known
    BY <2>1 DEF MergesInv, MergeMark
  <2> QED
    BY <2>1, <2>2, MarkKeeps DEF RecordsKept, Known
<1>5. CASE UNCHANGED <<pr, pull>>
  BY <1>5, OthersKeep
<1> QED
  BY <1>1, <1>2, <1>3, <1>4, <1>5, ZenonT(60)
     DEF Next, vars, PushLands, CreateReadHead, CreateReadBase, MergeStart, MergeStep,
         MergeReadBase, MergeReadHead, MergeBuild, MergeFails, MergeWrite

\* Every step keeps the merges about records there are.
LEMMA MergesStep ==
    ASSUME RecordsInv, MergesInv, [Next]_vars, Known \subseteq Known'
    PROVE  MergesInv'
<1>1. CASE \E m \in MergeCall, n \in Pr : \E how \in HowTo[m] : MergeStart(m, n, how)
  <2>1. PICK m \in MergeCall, n \in Pr : \E how \in HowTo[m] : MergeStart(m, n, how)
    BY <1>1
  <2>2. PICK how \in HowTo[m] : MergeStart(m, n, how)
    BY <2>1
  <2>3. /\ MergeShape'
        /\ \A k \in MergeCall : k # m => merge'[k] = merge[k]
        /\ merge'[m].pr = n
    BY <2>2, MergeStarts
  <2>4. n \in Known
    BY <2>2 DEF MergeStart, Known
  <2> QED
    BY <2>3, <2>4 DEF MergesInv
<1>2. CASE \E m \in MergeCall : MergeStep(m)
  <2>1. PICK m \in MergeCall : MergeStep(m)
    BY <1>2
  <2>2. /\ MergeShape'
        /\ \A k \in MergeCall : k # m => merge'[k] = merge[k]
        /\ merge[m].pc # "idle" /\ merge'[m].pr = merge[m].pr
    BY <2>1, MergeStepKeeps
  <2> QED
    BY <2>2 DEF MergesInv
<1>3. CASE UNCHANGED merge
  BY <1>3 DEF MergesInv, MergeShape
<1> QED
  BY <1>1, <1>2, <1>3
     DEF Next, vars, PushLands, HookFind, HookNext, CreateReadHead, CreateReadBase,
         CreateInsert, Close

\* There is nothing to begin with.
LEMMA RecordsInit ==
    ASSUME Init
    PROVE  RecordsInv /\ MergesInv
<1>1. Known = {}
  BY DEF Init, Known
<1>2. Numbered
  BY <1>1, FS_EmptySet DEF Numbered
<1>3. PrShape
  BY DEF Init, PrShape
<1>4. MergesInv
  BY DEF Init, MergesInv, MergeShape, MergeField
<1> QED
  BY <1>1, <1>2, <1>3, <1>4 DEF RecordsInv, PullRefMatchesRecord

\* The records and the merges are as described in every state.
LEMMA RecordsHold == Spec => [](RecordsInv /\ MergesInv)
<1>1. (RecordsInv /\ MergesInv) /\ [Next]_vars => (RecordsInv /\ MergesInv)'
  BY RecordsStep, MergesStep DEF RecordsKept
<1> QED
  BY <1>1, RecordsInit, PTL DEF Spec

-------------------------------------------------------------------------------
(* What a merge brings into the base branch.                               *)

\* A commit is neither the zero hash nor the absence of a ref.
CommitsDiffer == \A id, past : NewCommit(id, past) \notin {None, Zero}

MakeField == {"pc", "head", "base", "sha"}
MakeShape ==
    /\ make = [c \in CreateCall |-> make[c]]
    /\ \A c \in CreateCall : make[c] = [f \in MakeField |-> make[c][f]]

\* Records and creations name branches, and no branch holds the zero hash.
BranchInv ==
    /\ MakeShape
    /\ refs = [b \in Branch |-> refs[b]]
    /\ \A b \in Branch : refs[b] # Zero
    /\ \A n \in Known : pr[n].base \in Branch /\ pr[n].head \in Branch
    /\ \A c \in CreateCall : make[c].pc # "idle" => make[c].base \in Branch /\ make[c].head \in Branch

\* A merge that has read the head has the one of the record, and what it built is
\* built from that.
HeadRead(m) ==
    merge[m].pc \in {"head", "write", "mark"} =>
        merge[m].head = merge[m].sha /\ merge[m].head \notin {None, Zero}
ResultBuilt(m) ==
    merge[m].pc \in {"write", "mark"} =>
        merge[m].result = Merged(merge[m].how, merge[m].base, merge[m].head)
ApprovedInv ==
    \A m \in MergeCall :
        /\ merge[m].pc # "idle" => merge[m].how \in Strategy
        /\ HeadRead(m) /\ ResultBuilt(m)

\* The commit a merge makes brings in the head's history and itself.
LEMMA MergedBringsHead ==
    ASSUME NEW how \in Strategy, NEW base, NEW head
    PROVE  Merged(how, base, head).past \ base.past
             \subseteq head.past \cup {Merged(how, base, head).id}
<1>1. CASE how = "merge"
  <2>1. Merged(how, base, head) = NewCommit(<<how, base.id, head.id>>, base.past \cup head.past)
    BY <1>1 DEF Merged
  <2> QED
    BY <2>1 DEF NewCommit
<1>2. CASE how = "squash"
  <2>1. Merged(how, base, head) = NewCommit(<<how, base.id, head.id>>, base.past)
    BY <1>2 DEF Merged
  <2> QED
    BY <2>1 DEF NewCommit
<1>3. CASE how = "fast-forward"
  <2>1. Merged(how, base, head) = head
    BY <1>3 DEF Merged
  <2> QED
    BY <2>1
<1> QED
  BY <1>1, <1>2, <1>3 DEF Strategy

\* It is a commit.
LEMMA MergedIsCommit ==
    ASSUME CommitsDiffer, NEW how \in Strategy, NEW base, NEW head, head \notin {None, Zero}
    PROVE  Merged(how, base, head) \notin {None, Zero}
<1>1. CASE how = "merge"
  BY <1>1 DEF Merged, CommitsDiffer
<1>2. CASE how = "squash"
  BY <1>2 DEF Merged, CommitsDiffer
<1>3. CASE how = "fast-forward"
  BY <1>3 DEF Merged
<1> QED
  BY <1>1, <1>2, <1>3 DEF Strategy

\* A creation goes on with the branches it was asked for.
LEMMA CreationMoves ==
    ASSUME MakeShape, NEW c \in CreateCall, NEW p, make' = [make EXCEPT ![c].pc = p]
    PROVE  /\ MakeShape'
           /\ \A k \in CreateCall : k # c => make'[k] = make[k]
           /\ make'[c].base = make[c].base /\ make'[c].head = make[c].head
<1>1. make' = [k \in CreateCall |-> IF k = c THEN [make[c] EXCEPT !.pc = p] ELSE make[k]]
  BY DEF MakeShape
<1>2. [make[c] EXCEPT !.pc = p] = [f \in MakeField |-> IF f = "pc" THEN p ELSE make[c][f]]
  BY DEF MakeShape, MakeField
<1> QED
  BY <1>1, <1>2 DEF MakeShape, MakeField

\* Every step keeps the creations on branches there are.
LEMMA CreationsStep ==
    ASSUME BranchInv, [Next]_vars
    PROVE  /\ MakeShape'
           /\ \A c \in CreateCall :
                 make'[c].pc # "idle" => make'[c].base \in Branch /\ make'[c].head \in Branch
<1>1. CASE \E c \in CreateCall, hb \in Wanted : CreateReadHead(c, hb[1], hb[2])
  <2>1. PICK c \in CreateCall, hb \in Wanted : CreateReadHead(c, hb[1], hb[2])
    BY <1>1
  <2>2. hb[1] \in Branch /\ hb[2] \in Branch
    BY PullRequestAssumption
  <2> DEFINE h == hb[1]
             b == hb[2]
             v == refs[h]
  <2>3. make' = [k \in CreateCall |->
                   IF k = c THEN [pc |-> "base", head |-> h, base |-> b, sha |-> v] ELSE make[k]]
    BY <2>1 DEF CreateReadHead, BranchInv, MakeShape
  <2> HIDE DEF h, b, v
  <2>4. [pc |-> "base", head |-> h, base |-> b, sha |-> v]
          = [f \in MakeField |-> CASE f = "pc" -> "base" [] f = "head" -> h [] f = "base" -> b
                                   [] OTHER -> v]
    BY DEF MakeField
  <2>5. /\ \A k \in CreateCall : k # c => make'[k] = make[k]
        /\ make'[c] = [f \in MakeField |-> make'[c][f]]
        /\ make'[c].base = b /\ make'[c].head = h
    BY <2>3, <2>4 DEF MakeField
  <2> QED
    BY <2>2, <2>3, <2>5 DEF BranchInv, MakeShape, h, b
<1>2. CASE \E c \in CreateCall : CreateReadBase(c) \/ CreateInsert(c)
  <2>1. PICK c \in CreateCall : CreateReadBase(c) \/ CreateInsert(c)
    BY <1>2
  <2>2. make[c].pc # "idle" /\ \E p : make' = [make EXCEPT ![c].pc = p]
    BY <2>1 DEF CreateReadBase, CreateInsert
  <2>3. PICK p : make' = [make EXCEPT ![c].pc = p]
    BY <2>2
  <2>4. /\ MakeShape'
        /\ \A k \in CreateCall : k # c => make'[k] = make[k]
        /\ make'[c].base = make[c].base /\ make'[c].head = make[c].head
    BY <2>3, CreationMoves DEF BranchInv
  <2> QED
    BY <2>2, <2>4 DEF BranchInv
<1>3. CASE UNCHANGED make
  BY <1>3 DEF BranchInv, MakeShape
<1> QED
  BY <1>1, <1>2, <1>3, ZenonT(60)
     DEF Next, vars, PushLands, HookFind, HookNext, Close, MergeStart, MergeStep,
         MergeReadBase, MergeReadHead, MergeBuild, MergeFails, MergeWrite, MergeMark

\* No step writes the zero hash to a branch.
LEMMA RefsStep ==
    ASSUME CommitsDiffer, MergesInv, BranchInv, ApprovedInv, [Next]_vars
    PROVE  refs' = [b \in Branch |-> refs'[b]] /\ \A b \in Branch : refs'[b] # Zero
<1>1. CASE \E p \in Push, b \in Branch :
             \E new \in {NewCommit(<<p>>, Past(refs[b])), NewCommit(<<p>>, {}), Zero} :
                PushLands(p, b, new)
  <2>1. PICK p \in Push, b \in Branch :
             \E new \in {NewCommit(<<p>>, Past(refs[b])), NewCommit(<<p>>, {}), Zero} :
                PushLands(p, b, new)
    BY <1>1
  <2>2. PICK new \in {NewCommit(<<p>>, Past(refs[b])), NewCommit(<<p>>, {}), Zero} :
                PushLands(p, b, new)
    BY <2>1
  <2>3. refs' = [refs EXCEPT ![b] = IF new = Zero THEN None ELSE new]
    BY <2>2 DEF PushLands
  <2> QED
    BY <2>3, PullRequestAssumption DEF BranchInv
<1>2. CASE \E m \in MergeCall : MergeWrite(m)
  <2>1. PICK m \in MergeCall : MergeWrite(m)
    BY <1>2
  <2>2. /\ merge[m].how \in Strategy /\ merge[m].head \notin {None, Zero}
        /\ merge[m].result = Merged(merge[m].how, merge[m].base, merge[m].head)
    BY <2>1 DEF MergeWrite, ApprovedInv, HeadRead, ResultBuilt
  <2>3. merge[m].result # Zero
    BY <2>2, MergedIsCommit
  <2>4. refs' = [refs EXCEPT ![pr[merge[m].pr].base] = merge[m].result]
    BY <2>1 DEF MergeWrite
  <2> QED
    BY <2>3, <2>4 DEF BranchInv
<1>3. CASE UNCHANGED refs
  BY <1>3 DEF BranchInv
<1> QED
  BY <1>1, <1>2, <1>3, ZenonT(60)
     DEF Next, vars, HookFind, HookNext, CreateReadHead, CreateReadBase, CreateInsert, Close,
         MergeStart, MergeStep, MergeReadBase, MergeReadHead, MergeBuild, MergeFails, MergeMark

\* Every step keeps the branches.
LEMMA BranchStep ==
    ASSUME CommitsDiffer, RecordsInv, MergesInv, BranchInv, ApprovedInv, [Next]_vars
    PROVE  BranchInv'
<1>1. RecordsKept
  BY RecordsStep
<1>2. ASSUME NEW n \in Known'
      PROVE  pr'[n].base \in Branch /\ pr'[n].head \in Branch
  <2>1. CASE n \in Known
    BY <1>1, <2>1 DEF RecordsKept, Same, BranchInv
  <2>2. CASE n \notin Known
    <3>1. PICK c \in CreateCall : make[c].pc = "insert" /\ pr'[n].base = make[c].base
                                                        /\ pr'[n].head = make[c].head
      BY <1>1, <2>2 DEF RecordsKept
    <3> QED
      BY <3>1 DEF BranchInv
  <2> QED
    BY <2>1, <2>2
<1> QED
  BY <1>2, CreationsStep, RefsStep DEF BranchInv

\* What a merge knows, of one that a step leaves alone.
LEMMA ApprovedElsewhere ==
    ASSUME ApprovedInv, NEW m \in MergeCall,
           \A k \in MergeCall : k # m => merge'[k] = merge[k],
           merge'[m].how \in Strategy, HeadRead(m)', ResultBuilt(m)'
    PROVE  ApprovedInv'
BY DEF ApprovedInv, HeadRead, ResultBuilt

\* A step of a merge keeps what it knows.
LEMMA ApprovedOnward ==
    ASSUME MergesInv, BranchInv, ApprovedInv, NEW m \in MergeCall, MergeStep(m)
    PROVE  ApprovedInv'
<1> USE DEF HeadRead, ResultBuilt
<1>1. CASE MergeReadBase(m)
  <2>1. /\ \A k \in MergeCall : k # m => merge'[k] = merge[k]
        /\ merge'[m].pc = "base" /\ merge'[m].how = merge[m].how /\ merge[m].pc = "checked"
    BY <1>1, BaseIsRead DEF MergeReadBase
  <2> QED
    BY <2>1, ApprovedElsewhere DEF ApprovedInv
<1>2. CASE MergeReadHead(m)
  <2>1. /\ \A k \in MergeCall : k # m => merge'[k] = merge[k]
        /\ merge'[m].pc = "head" /\ merge'[m].head = refs[pr[merge[m].pr].head]
        /\ merge'[m].head # None /\ merge'[m].head = merge[m].sha
        /\ merge'[m].how = merge[m].how /\ merge'[m].sha = merge[m].sha
    BY <1>2, HeadIsRead
  <2>2. merge[m].pc = "base"
    BY <1>2 DEF MergeReadHead
  <2>3. pr[merge[m].pr].head \in Branch
    BY <2>2 DEF MergesInv, BranchInv
  <2>4. merge'[m].head # Zero
    BY <2>1, <2>3 DEF BranchInv
  <2> QED
    BY <2>1, <2>2, <2>4, ApprovedElsewhere DEF ApprovedInv
<1>3. CASE MergeBuild(m)
  <2>1. /\ \A k \in MergeCall : k # m => merge'[k] = merge[k]
        /\ merge[m].pc = "head" /\ merge'[m].pc = "write"
        /\ merge'[m].result = Merged(merge[m].how, merge[m].base, merge[m].head)
        /\ merge'[m].how = merge[m].how /\ merge'[m].sha = merge[m].sha
        /\ merge'[m].base = merge[m].base /\ merge'[m].head = merge[m].head
    BY <1>3, ResultIsBuilt
  <2> QED
    BY <2>1, ApprovedElsewhere DEF ApprovedInv
<1>4. CASE MergeFails(m) \/ MergeWrite(m) \/ MergeMark(m)
  <2>1. \/ merge' = [merge EXCEPT ![m].pc = "failed"] /\ merge[m].pc \in {"checked", "base", "head"}
        \/ merge' = [merge EXCEPT ![m].pc = "mark"] /\ merge[m].pc = "write"
        \/ merge' = [merge EXCEPT ![m].pc = "done"] /\ merge[m].pc = "mark"
    BY <1>4 DEF MergeFails, MergeWrite, MergeMark
  <2>2. PICK p : /\ merge' = [merge EXCEPT ![m].pc = p]
                 /\ p \in {"failed", "done"} \/ (p = "mark" /\ merge[m].pc = "write")
                 /\ merge[m].pc # "idle"
    BY <2>1
  <2>3. /\ \A k \in MergeCall : k # m => merge'[k] = merge[k]
        /\ merge'[m].pc = p /\ merge'[m].how = merge[m].how /\ merge'[m].sha = merge[m].sha
        /\ merge'[m].base = merge[m].base /\ merge'[m].head = merge[m].head
        /\ merge'[m].result = merge[m].result
    BY <2>2, MergeMoves
  <2> QED
    BY <2>2, <2>3, ApprovedElsewhere DEF ApprovedInv
<1> QED
  BY <1>1, <1>2, <1>3, <1>4 DEF MergeStep

\* Every step keeps what the merges know.
LEMMA ApprovedStep ==
    ASSUME MergesInv, BranchInv, ApprovedInv, [Next]_vars
    PROVE  ApprovedInv'
<1>1. CASE \E m \in MergeCall, n \in Pr : \E how \in HowTo[m] : MergeStart(m, n, how)
  <2>1. PICK m \in MergeCall, n \in Pr : \E how \in HowTo[m] : MergeStart(m, n, how)
    BY <1>1
  <2>2. PICK how \in HowTo[m] : MergeStart(m, n, how)
    BY <2>1
  <2>3. how \in Strategy
    BY PullRequestAssumption
  <2>4. /\ \A k \in MergeCall : k # m => merge'[k] = merge[k]
        /\ merge'[m].pc = "checked" /\ merge'[m].how = how
    BY <2>2, MergeStarts
  <2> QED
    BY <2>3, <2>4, ApprovedElsewhere DEF HeadRead, ResultBuilt
<1>2. CASE \E m \in MergeCall : MergeStep(m)
  BY <1>2, ApprovedOnward
<1>3. CASE UNCHANGED merge
  BY <1>3 DEF ApprovedInv, HeadRead, ResultBuilt
<1> QED
  BY <1>1, <1>2, <1>3
     DEF Next, vars, PushLands, HookFind, HookNext, CreateReadHead, CreateReadBase,
         CreateInsert, Close

\* The write of a merge brings in no more than what was agreed to.
LEMMA WriteBringsApproved ==
    ASSUME MergesInv, BranchInv, ApprovedInv, NEW m \in MergeCall, MergeWrite(m)
    PROVE  LET new == refs'[pr[merge[m].pr].base]
           IN  new.past \ merge[m].base.past \subseteq Past(merge[m].sha) \cup {new.id}
<1>1. /\ merge[m].how \in Strategy
      /\ merge[m].head = merge[m].sha /\ merge[m].head \notin {None, Zero}
      /\ merge[m].result = Merged(merge[m].how, merge[m].base, merge[m].head)
  BY DEF MergeWrite, ApprovedInv, HeadRead, ResultBuilt
<1>2. pr[merge[m].pr].base \in Branch
  BY DEF MergeWrite, MergesInv, BranchInv
<1>3. refs' = [refs EXCEPT ![pr[merge[m].pr].base] = merge[m].result]
  BY DEF MergeWrite
<1>4. refs'[pr[merge[m].pr].base] = merge[m].result
  BY <1>2, <1>3 DEF BranchInv
<1>5. Past(merge[m].sha) = merge[m].head.past
  BY <1>1 DEF Past
<1>6. merge[m].result.past \ merge[m].base.past
        \subseteq merge[m].head.past \cup {merge[m].result.id}
  BY <1>1, MergedBringsHead
<1> QED
  BY <1>4, <1>5, <1>6

\* The base branch moves for a merge in its write only.
LEMMA OnlyWriteMarks ==
    ASSUME MergesInv, NEW m \in MergeCall, merge[m].pc = "write", merge'[m].pc = "mark", [Next]_vars
    PROVE  MergeWrite(m)
<1>1. CASE \E k \in MergeCall, n \in Pr : \E how \in HowTo[k] : MergeStart(k, n, how)
  <2>1. PICK k \in MergeCall, n \in Pr : \E how \in HowTo[k] : MergeStart(k, n, how)
    BY <1>1
  <2>2. PICK how \in HowTo[k] : MergeStart(k, n, how)
    BY <2>1
  <2>3. (\A j \in MergeCall : j # k => merge'[j] = merge[j]) /\ merge'[k].pc = "checked"
    BY <2>2, MergeStarts
  <2> QED
    BY <2>3
<1>2. CASE \E k \in MergeCall : MergeStep(k)
  <2>1. PICK k \in MergeCall : MergeStep(k)
    BY <1>2
  <2>2. k = m
    BY <2>1, MergeStepKeeps
  <2> QED
    BY <2>1, <2>2
       DEF MergeStep, MergeReadBase, MergeReadHead, MergeBuild, MergeFails, MergeMark, MergesInv, MergeShape
<1>3. CASE UNCHANGED merge
  BY <1>3
<1> QED
  BY <1>1, <1>2, <1>3
     DEF Next, vars, PushLands, HookFind, HookNext, CreateReadHead, CreateReadBase,
         CreateInsert, Close

-------------------------------------------------------------------------------
(* Types.                                                                  *)

PushField == {"pc", "branch", "new", "todo"}
Value(v) == v = Zero \/ IsCommit(v)

\* What pushes carry and are still to update.
PushInv ==
    /\ push = [p \in Push |-> push[p]]
    /\ \A p \in Push :
         /\ push[p] = [f \in PushField |-> push[p][f]]
         /\ push[p].pc \in {"idle", "posted", "hook", "done"}
         /\ push[p].pc # "idle" => Value(push[p].new)
         /\ push[p].todo \subseteq Known

\* What creations and merges hold.
CallsInv ==
    /\ \A c \in CreateCall :
         /\ make[c].pc \in {"idle", "base", "insert", "done", "failed"}
         /\ make[c].pc \in {"base", "insert"} => IsCommit(make[c].sha)
    /\ \A m \in MergeCall :
         /\ merge[m].pc \in {"idle", "checked", "base", "head", "write", "mark", "done", "failed"}
         /\ merge[m].pc \in {"head", "write", "mark"} => IsCommit(merge[m].head)

RefsTyped == \A b \in Branch : refs[b] = None \/ IsCommit(refs[b])
RecordTyped(n) == Value(pr[n].sha) /\ ((pr[n].state = "merged") <=> (pr[n].merge # None))
TypedInv == PushInv /\ CallsInv /\ RefsTyped /\ \A n \in Known : RecordTyped(n)

AllInv == RecordsInv /\ MergesInv /\ BranchInv /\ ApprovedInv

\* New commits are commits, and so is the result of a merge.
LEMMA ResultTyped ==
    ASSUME NEW how \in Strategy, NEW base, NEW head, IsCommit(head)
    PROVE  IsCommit(Merged(how, base, head)) /\ \A id, past : IsCommit(NewCommit(id, past))
<1>1. \A id, past : IsCommit(NewCommit(id, past))
  BY DEF NewCommit, IsCommit
<1>2. CASE how = "merge"
  BY <1>1, <1>2 DEF Merged
<1>3. CASE how = "squash"
  BY <1>1, <1>3 DEF Merged
<1>4. CASE how = "fast-forward"
  BY <1>1, <1>4 DEF Merged
<1> QED
  BY <1>1, <1>2, <1>3, <1>4 DEF Strategy

\* A push that a step moves on, or whose list gets shorter, keeps its value.
LEMMA PushMoves ==
    ASSUME PushInv, NEW p \in Push, push[p].pc # "idle",
           NEW pc \in {"hook", "done"}, NEW todo, todo \subseteq Known,
           \/ push' = [push EXCEPT ![p].pc = pc] /\ todo = push[p].todo
           \/ push' = [push EXCEPT ![p].pc = pc, ![p].todo = todo]
           \/ push' = [push EXCEPT ![p].todo = todo] /\ pc = push[p].pc,
           Known \subseteq Known'
    PROVE  PushInv'
<1> DEFINE r == [f \in PushField |-> CASE f = "pc" -> pc [] f = "todo" -> todo [] OTHER -> push[p][f]]
<1>1. push' = [k \in Push |-> IF k = p THEN r ELSE push[k]]
  <2>1. CASE push' = [push EXCEPT ![p].pc = pc] /\ todo = push[p].todo
    BY <2>1 DEF PushInv, PushField
  <2>2. CASE push' = [push EXCEPT ![p].pc = pc, ![p].todo = todo]
    <3>1. push' = [k \in Push |-> IF k = p THEN [push[p] EXCEPT !.pc = pc, !.todo = todo] ELSE push[k]]
      BY <2>2 DEF PushInv
    <3>2. [push[p] EXCEPT !.pc = pc, !.todo = todo] = r
      BY DEF PushInv, PushField
    <3> QED
      BY <3>1, <3>2
  <2>3. CASE push' = [push EXCEPT ![p].todo = todo] /\ pc = push[p].pc
    BY <2>3 DEF PushInv, PushField
  <2> QED
    BY <2>1, <2>2, <2>3
<1>2. /\ r = [f \in PushField |-> r[f]] /\ r.pc = pc /\ r.todo = todo /\ r.new = push[p].new
  BY DEF PushField
<1> HIDE DEF r
<1>3. ASSUME NEW k \in Push
      PROVE  /\ push'[k] = [f \in PushField |-> push'[k][f]]
             /\ push'[k].pc \in {"idle", "posted", "hook", "done"}
             /\ push'[k].pc # "idle" => Value(push'[k].new)
             /\ push'[k].todo \subseteq Known'
  BY <1>1, <1>2 DEF PushInv
<1>4. push' = [k \in Push |-> push'[k]]
  BY <1>1
<1> QED
  BY <1>3, <1>4 DEF PushInv, Value, IsCommit

\* Every step keeps the pushes.
LEMMA PushStep ==
    ASSUME PushInv, [Next]_vars, Known \subseteq Known'
    PROVE  PushInv'
<1>1. CASE \E p \in Push, b \in Branch :
             \E new \in {NewCommit(<<p>>, Past(refs[b])), NewCommit(<<p>>, {}), Zero} :
                PushLands(p, b, new)
  <2>1. PICK p \in Push, b \in Branch :
             \E new \in {NewCommit(<<p>>, Past(refs[b])), NewCommit(<<p>>, {}), Zero} :
                PushLands(p, b, new)
    BY <1>1
  <2>2. PICK new \in {NewCommit(<<p>>, Past(refs[b])), NewCommit(<<p>>, {}), Zero} :
                PushLands(p, b, new)
    BY <2>1
  <2>3. Value(new)
    BY DEF Value, NewCommit, IsCommit
  <2>4. push' = [k \in Push |->
                   IF k = p THEN [pc |-> "posted", branch |-> b, new |-> new, todo |-> {}] ELSE push[k]]
    BY <2>2 DEF PushLands, PushInv
  <2> HIDE DEF Value
  <2>5. ASSUME NEW k \in Push
        PROVE  /\ push'[k] = [f \in PushField |-> push'[k][f]]
               /\ push'[k].pc \in {"idle", "posted", "hook", "done"}
               /\ push'[k].pc # "idle" => Value(push'[k].new)
               /\ push'[k].todo \subseteq Known'
    BY <2>3, <2>4 DEF PushInv, PushField
  <2>6. push' = [k \in Push |-> push'[k]]
    BY <2>4
  <2> QED
    BY <2>5, <2>6 DEF PushInv, Value, IsCommit
<1>2. CASE \E p \in Push : HookFind(p) \/ HookNext(p)
  <2>1. PICK p \in Push : HookFind(p) \/ HookNext(p)
    BY <1>2
  <2>2. push[p].pc # "idle"
    BY <2>1 DEF HookFind, HookNext
  <2>3. push[p].todo \subseteq Known /\ push[p].pc \in {"posted", "hook"}
    BY <2>1 DEF PushInv, HookFind, HookNext
  <2>4. CASE push' = [push EXCEPT ![p].pc = "done"]
    BY <2>2, <2>3, <2>4, PushMoves
  <2>5. CASE HookFind(p) /\ push' # [push EXCEPT ![p].pc = "done"]
    <3> DEFINE open == {n \in Pr : pr[n].state = "open" /\ pr[n].head = push[p].branch}
    <3>1. push' = [push EXCEPT ![p].pc = "hook", ![p].todo = open \ {Lowest(open)}]
      BY <2>5 DEF HookFind
    <3>2. open \ {Lowest(open)} \subseteq Known
      BY DEF Known
    <3> QED
      BY <2>2, <3>1, <3>2, PushMoves
  <2>6. CASE HookNext(p) /\ push' # [push EXCEPT ![p].pc = "done"]
    <3> DEFINE todo == push[p].todo \ {Lowest(push[p].todo)}
    <3>1. push' = [push EXCEPT ![p].todo = todo] /\ push[p].pc = "hook"
      BY <2>6 DEF HookNext, PushInv
    <3>2. todo \subseteq Known
      BY <2>3
    <3> HIDE DEF todo
    <3> QED
      BY <2>2, <3>1, <3>2, PushMoves
  <2> QED
    BY <2>1, <2>4, <2>5, <2>6
<1>3. CASE UNCHANGED push
  BY <1>3 DEF PushInv, Value, IsCommit
<1> QED
  BY <1>1, <1>2, <1>3, ZenonT(60)
     DEF Next, vars, CreateReadHead, CreateReadBase, CreateInsert, Close,
         MergeStart, MergeStep, MergeReadBase, MergeReadHead, MergeBuild, MergeFails, MergeWrite,
         MergeMark

\* A creation reads a commit.
LEMMA CreationsTyped ==
    ASSUME BranchInv, CallsInv, RefsTyped, [Next]_vars
    PROVE  \A c \in CreateCall :
             /\ make'[c].pc \in {"idle", "base", "insert", "done", "failed"}
             /\ make'[c].pc \in {"base", "insert"} => IsCommit(make'[c].sha)
<1>1. CASE \E c \in CreateCall, hb \in Wanted : CreateReadHead(c, hb[1], hb[2])
  <2>1. PICK c \in CreateCall, hb \in Wanted : CreateReadHead(c, hb[1], hb[2])
    BY <1>1
  <2>2. hb[1] \in Branch
    BY PullRequestAssumption
  <2>3. make' = [k \in CreateCall |->
                   IF k = c THEN [pc |-> "base", head |-> hb[1], base |-> hb[2], sha |-> refs[hb[1]]]
                   ELSE make[k]]
    BY <2>1 DEF CreateReadHead, BranchInv, MakeShape
  <2>4. IsCommit(refs[hb[1]])
    BY <2>1, <2>2 DEF CreateReadHead, RefsTyped
  <2> QED
    BY <2>3, <2>4 DEF CallsInv
<1>2. CASE \E c \in CreateCall : CreateReadBase(c) \/ CreateInsert(c)
  <2>1. PICK c \in CreateCall : CreateReadBase(c) \/ CreateInsert(c)
    BY <1>2
  <2>2. PICK p : /\ make' = [make EXCEPT ![c].pc = p]
                 /\ p \in {"failed", "insert", "done"}
                 /\ p = "insert" => make[c].pc = "base"
    BY <2>1 DEF CreateReadBase, CreateInsert
  <2>3. make' = [k \in CreateCall |-> IF k = c THEN [make[c] EXCEPT !.pc = p] ELSE make[k]]
    BY <2>2 DEF BranchInv, MakeShape
  <2>4. [make[c] EXCEPT !.pc = p] = [f \in MakeField |-> IF f = "pc" THEN p ELSE make[c][f]]
    BY DEF BranchInv, MakeShape, MakeField
  <2>5. /\ \A k \in CreateCall : k # c => make'[k] = make[k]
        /\ make'[c].pc = p /\ make'[c].sha = make[c].sha
    BY <2>3, <2>4 DEF MakeField
  <2> QED
    BY <2>2, <2>5 DEF CallsInv
<1>3. CASE UNCHANGED make
  BY <1>3 DEF CallsInv
<1> QED
  BY <1>1, <1>2, <1>3, ZenonT(60)
     DEF Next, vars, PushLands, HookFind, HookNext, Close, MergeStart, MergeStep,
         MergeReadBase, MergeReadHead, MergeBuild, MergeFails, MergeWrite, MergeMark

\* A merge reads a commit.
LEMMA MergesTyped ==
    ASSUME MergesInv, BranchInv, CallsInv, RefsTyped, [Next]_vars
    PROVE  \A m \in MergeCall :
             /\ merge'[m].pc \in {"idle", "checked", "base", "head", "write", "mark", "done", "failed"}
             /\ merge'[m].pc \in {"head", "write", "mark"} => IsCommit(merge'[m].head)
<1>1. CASE \E m \in MergeCall, n \in Pr : \E how \in HowTo[m] : MergeStart(m, n, how)
  <2>1. PICK m \in MergeCall, n \in Pr : \E how \in HowTo[m] : MergeStart(m, n, how)
    BY <1>1
  <2>2. PICK how \in HowTo[m] : MergeStart(m, n, how)
    BY <2>1
  <2>3. (\A j \in MergeCall : j # m => merge'[j] = merge[j]) /\ merge'[m].pc = "checked"
    BY <2>2, MergeStarts
  <2> QED
    BY <2>3 DEF CallsInv
<1>2. CASE \E m \in MergeCall : MergeStep(m)
  <2>1. PICK m \in MergeCall : MergeStep(m)
    BY <1>2
  <2>2. \A j \in MergeCall : j # m => merge'[j] = merge[j]
    BY <2>1, MergeStepKeeps
  <2>3. CASE MergeReadBase(m)
    BY <2>2, <2>3, BaseIsRead DEF CallsInv
  <2>4. CASE MergeReadHead(m)
    <3>1. /\ merge'[m].pc = "head" /\ merge'[m].head = refs[pr[merge[m].pr].head]
          /\ merge'[m].head # None
      BY <2>4, HeadIsRead
    <3>2. pr[merge[m].pr].head \in Branch
      BY <2>4 DEF MergeReadHead, MergesInv, BranchInv
    <3>3. IsCommit(merge'[m].head)
      BY <3>1, <3>2 DEF RefsTyped
    <3> QED
      BY <2>2, <3>1, <3>3 DEF CallsInv
  <2>5. CASE MergeBuild(m)
    <3>1. merge'[m].pc = "write" /\ merge[m].pc = "head" /\ merge'[m].head = merge[m].head
      BY <2>5, ResultIsBuilt
    <3>2. IsCommit(merge'[m].head)
      BY <3>1 DEF CallsInv
    <3> QED
      BY <2>2, <3>1, <3>2 DEF CallsInv
  <2>6. CASE MergeFails(m) \/ MergeWrite(m) \/ MergeMark(m)
    <3>1. PICK p : /\ merge' = [merge EXCEPT ![m].pc = p]
                   /\ p \in {"failed", "done", "mark"}
                   /\ p = "mark" => merge[m].pc = "write"
      BY <2>6 DEF MergeFails, MergeWrite, MergeMark
    <3>2. merge'[m].pc = p /\ merge'[m].head = merge[m].head
      BY <3>1, MergeMoves
    <3>3. p = "mark" => IsCommit(merge'[m].head)
      BY <3>1, <3>2 DEF CallsInv
    <3> QED
      BY <2>2, <3>1, <3>2, <3>3 DEF CallsInv
  <2> QED
    BY <2>1, <2>3, <2>4, <2>5, <2>6 DEF MergeStep
<1>3. CASE UNCHANGED merge
  BY <1>3 DEF CallsInv
<1> QED
  BY <1>1, <1>2, <1>3
     DEF Next, vars, PushLands, HookFind, HookNext, CreateReadHead, CreateReadBase,
         CreateInsert, Close

\* Branches hold commits.
LEMMA RefsTypedStep ==
    ASSUME BranchInv, ApprovedInv, CallsInv, RefsTyped, [Next]_vars
    PROVE  RefsTyped'
<1>1. CASE \E p \in Push, b \in Branch :
             \E new \in {NewCommit(<<p>>, Past(refs[b])), NewCommit(<<p>>, {}), Zero} :
                PushLands(p, b, new)
  <2>1. PICK p \in Push, b \in Branch :
             \E new \in {NewCommit(<<p>>, Past(refs[b])), NewCommit(<<p>>, {}), Zero} :
                PushLands(p, b, new)
    BY <1>1
  <2>2. PICK new \in {NewCommit(<<p>>, Past(refs[b])), NewCommit(<<p>>, {}), Zero} :
                PushLands(p, b, new)
    BY <2>1
  <2>3. refs' = [refs EXCEPT ![b] = IF new = Zero THEN None ELSE new]
    BY <2>2 DEF PushLands
  <2>4. new = Zero \/ IsCommit(new)
    BY DEF NewCommit, IsCommit
  <2> HIDE DEF IsCommit
  <2> QED
    BY <2>3, <2>4 DEF BranchInv, RefsTyped, IsCommit
<1>2. CASE \E m \in MergeCall : MergeWrite(m)
  <2>1. PICK m \in MergeCall : MergeWrite(m)
    BY <1>2
  <2>2. /\ merge[m].how \in Strategy /\ IsCommit(merge[m].head)
        /\ merge[m].result = Merged(merge[m].how, merge[m].base, merge[m].head)
    BY <2>1 DEF MergeWrite, ApprovedInv, ResultBuilt, CallsInv
  <2>3. IsCommit(merge[m].result)
    BY <2>2, ResultTyped
  <2>4. refs' = [refs EXCEPT ![pr[merge[m].pr].base] = merge[m].result]
    BY <2>1 DEF MergeWrite
  <2> QED
    BY <2>3, <2>4 DEF BranchInv, RefsTyped, IsCommit
<1>3. CASE UNCHANGED refs
  BY <1>3 DEF RefsTyped, IsCommit
<1> QED
  BY <1>1, <1>2, <1>3, ZenonT(60)
     DEF Next, vars, HookFind, HookNext, CreateReadHead, CreateReadBase, CreateInsert, Close,
         MergeStart, MergeStep, MergeReadBase, MergeReadHead, MergeBuild, MergeFails, MergeMark

\* Records hold commits, and a merge commit when they are merged.
LEMMA RecordsTypedStep ==
    ASSUME CommitsDiffer, AllInv, TypedInv, [Next]_vars
    PROVE  \A n \in Known' : RecordTyped(n)'
<1>1. CASE \E p \in Push : HookFind(p) \/ HookNext(p)
  <2>1. PICK p \in Push : HookFind(p) \/ HookNext(p)
    BY <1>1
  <2>2. CASE UNCHANGED pr
    BY <2>2 DEF TypedInv, RecordTyped, Value, IsCommit, Known, Pr
  <2>3. CASE \E n : SetHead(n, push[p].new)
    <3>1. PICK n : SetHead(n, push[p].new)
      BY <2>3
    <3>2. \A k \in Pr : /\ pr'[k].state = pr[k].state
                        /\ pr'[k].merge = pr[k].merge /\ pr'[k].sha \in {push[p].new, pr[k].sha}
      BY <3>1, SetHeadKeeps DEF AllInv
    <3>3. Value(push[p].new)
      BY <2>1 DEF TypedInv, PushInv, HookFind, HookNext
    <3> QED
      BY <3>2, <3>3 DEF TypedInv, RecordTyped, Value, IsCommit, Known, Pr
  <2> QED
    BY <2>1, <2>2, <2>3 DEF HookFind, HookNext
<1>2. CASE \E c \in CreateCall : CreateInsert(c)
  <2>1. PICK c \in CreateCall : CreateInsert(c)
    BY <1>2
  <2>2. /\ \A k \in Known : pr'[k] = pr[k]
        /\ \A k \in Known' \ Known : /\ pr'[k].sha = make[c].sha /\ pr'[k].state = "open"
                                     /\ pr'[k].merge = None
    BY <2>1, InsertKeeps DEF AllInv
  <2>3. IsCommit(make[c].sha)
    BY <2>1 DEF CreateInsert, TypedInv, CallsInv
  <2> QED
    BY <2>2, <2>3 DEF TypedInv, RecordTyped, Value, IsCommit
<1>3. CASE \E n \in Pr : Close(n)
  <2>1. /\ Known' = Known
        /\ \A k \in Pr : /\ pr'[k].sha = pr[k].sha /\ pr'[k].merge = pr[k].merge
                         /\ (pr'[k].state = "merged") <=> (pr[k].state = "merged")
    BY <1>3, CloseKeeps DEF AllInv
  <2> QED
    BY <2>1 DEF TypedInv, RecordTyped, Value, IsCommit, Known
<1>4. CASE \E m \in MergeCall : MergeMark(m)
  <2>1. PICK m \in MergeCall : MergeMark(m)
    BY <1>4
  <2>2. merge[m].pr \in Known
    BY <2>1 DEF AllInv, MergesInv, MergeMark
  <2>3. /\ Known' = Known
        /\ pr'[merge[m].pr].state = "merged" /\ pr'[merge[m].pr].merge = merge[m].result
        /\ \A k \in Pr : /\ pr'[k].sha = pr[k].sha
                         /\ k # merge[m].pr => /\ pr'[k].state = pr[k].state
                                               /\ pr'[k].merge = pr[k].merge
    BY <2>1, <2>2, MarkKeeps DEF AllInv
  <2>4. merge[m].result # None
    <3>1. /\ merge[m].how \in Strategy /\ merge[m].head \notin {None, Zero}
          /\ merge[m].result = Merged(merge[m].how, merge[m].base, merge[m].head)
      BY <2>1 DEF AllInv, MergeMark, ApprovedInv, HeadRead, ResultBuilt
    <3> QED
      BY <3>1, MergedIsCommit
  <2> QED
    BY <2>3, <2>4 DEF TypedInv, RecordTyped, Value, IsCommit, Known
<1>5. CASE UNCHANGED pr
  BY <1>5 DEF TypedInv, RecordTyped, Value, IsCommit, Known, Pr
<1> QED
  BY <1>1, <1>2, <1>3, <1>4, <1>5, ZenonT(60)
     DEF Next, vars, PushLands, CreateReadHead, CreateReadBase, MergeStart, MergeStep,
         MergeReadBase, MergeReadHead, MergeBuild, MergeFails, MergeWrite

\* All that is known of records, calls and branches holds in every state.
LEMMA AllHold ==
    ASSUME CommitsDiffer
    PROVE  Spec => []AllInv
<1>1. Init => AllInv
  <2> SUFFICES ASSUME Init PROVE AllInv
    OBVIOUS
  <2>1. Known = {}
    BY DEF Init, Known
  <2>2. BranchInv
    BY <2>1, PullRequestAssumption DEF Init, BranchInv, MakeShape, MakeField
  <2>3. ApprovedInv
    BY DEF Init, ApprovedInv, HeadRead, ResultBuilt
  <2> QED
    BY <2>2, <2>3, RecordsInit DEF AllInv
<1>2. AllInv /\ [Next]_vars => AllInv'
  <2> SUFFICES ASSUME AllInv, [Next]_vars PROVE AllInv'
    OBVIOUS
  <2>1. RecordsInv' /\ Known \subseteq Known'
    BY RecordsStep DEF RecordsKept, AllInv
  <2> QED
    BY <2>1, MergesStep, BranchStep, ApprovedStep DEF AllInv
<1> QED
  BY <1>1, <1>2, PTL DEF Spec

-------------------------------------------------------------------------------
(* The theorems.                                                           *)

\* refs/pull/N/head is the head_sha of its record in every state, for any number of
\* pushes, creations and merges and in whatever order their steps fall.
THEOREM RefsMatchRecords == Spec => []PullRefMatchesRecord
<1>1. RecordsInv => PullRefMatchesRecord
  BY DEF RecordsInv
<1> QED
  BY <1>1, RecordsHold, PTL

\* No step of anyone undoes a merge that was recorded.
THEOREM MergedStaysMerged == Spec => MergedIsFinal
<1>1. (RecordsInv /\ MergesInv) /\ [Next]_vars
        => [\A n \in Pr : pr[n].state = "merged" => pr'[n].state = "merged"]_vars
  BY RecordsStep DEF RecordsKept
<1> QED
  BY <1>1, RecordsHold, PTL DEF Spec, MergedIsFinal

\* The merge commit brings in the history that the record showed when the merge was
\* asked for, and nothing that was pushed to the head branch since, provided that no
\* commit is mistaken for a zero hash or a missing ref.
THEOREM ApprovedHeadOnly ==
    ASSUME CommitsDiffer
    PROVE  Spec => MergesApprovedHead
<1>1. AllInv /\ [Next]_vars
        => [\A m \in MergeCall :
              merge[m].pc = "write" /\ merge'[m].pc = "mark" =>
                  LET new == refs'[pr[merge[m].pr].base]
                  IN  new.past \ merge[m].base.past \subseteq Past(merge[m].sha) \cup {new.id}]_vars
  BY OnlyWriteMarks, WriteBringsApproved DEF AllInv
<1> QED
  BY <1>1, AllHold, PTL DEF Spec, MergesApprovedHead

\* What TypeOK says, whatever the histories and however many calls there are: what the
\* branches and the records hold are commits, records are numbered without gaps, and those
\* that count as merged are the ones with a merge commit.
THEOREM TypesHold ==
    ASSUME CommitsDiffer
    PROVE  Spec => []TypeOK
<1>1. Init => TypedInv
  <2> SUFFICES ASSUME Init PROVE TypedInv
    OBVIOUS
  <2>1. Known = {}
    BY DEF Init, Known
  <2>2. PushInv
    BY DEF Init, PushInv, PushField
  <2>3. CallsInv
    BY DEF Init, CallsInv
  <2>4. RefsTyped
    BY PullRequestAssumption DEF Init, RefsTyped, IsCommit
  <2> QED
    BY <2>1, <2>2, <2>3, <2>4 DEF TypedInv
<1>2. AllInv /\ TypedInv /\ [Next]_vars => TypedInv'
  <2> SUFFICES ASSUME AllInv, TypedInv, [Next]_vars PROVE TypedInv'
    OBVIOUS
  <2>1. Known \subseteq Known'
    BY RecordsStep DEF RecordsKept, AllInv
  <2>2. PushInv'
    BY <2>1, PushStep DEF TypedInv
  <2>3. CallsInv'
    BY CreationsTyped, MergesTyped DEF TypedInv, AllInv, CallsInv, IsCommit
  <2>4. RefsTyped'
    BY RefsTypedStep DEF TypedInv, AllInv
  <2> QED
    BY <2>2, <2>3, <2>4, RecordsTypedStep DEF TypedInv
<1>3. AllInv /\ TypedInv => TypeOK
  <2> SUFFICES ASSUME AllInv, TypedInv PROVE TypeOK
    OBVIOUS
  <2>1. \A n \in Known : /\ pr[n].state \in {"open", "closed", "merged"}
                         /\ pr[n].head \in Branch /\ pr[n].base \in Branch
                         /\ pr[n].sha = Zero \/ IsCommit(pr[n].sha)
                         /\ (pr[n].state = "merged") <=> (pr[n].merge # None)
    BY DEF AllInv, RecordsInv, PrShape, BranchInv, TypedInv, RecordTyped, Value, Known
  <2> QED
    BY <2>1 DEF AllInv, RecordsInv, Numbered, MergesInv, TypedInv, RefsTyped, PushInv, CallsInv, TypeOK
<1> QED
  BY <1>1, <1>2, <1>3, AllHold, PTL DEF Spec
===============================================================================
