----------------------------- MODULE Stores_proofs -----------------------------
(***************************************************************************)
(* Theorems about what a client keeps in pieces: the stash, bisection, a   *)
(* rebase and worktrees, for any files, histories, branches and paths, and *)
(* any bounds; and objects and refs on disk, for any of them, and any      *)
(* number of callers and collectors at a time.                             *)
(***************************************************************************)
EXTENDS Stores, FiniteSetTheorems, NaturalsInduction, TLAPS

-------------------------------------------------------------------------------
(* The stash: s1 is HEAD's tree, s2 the index, s3 the conflicts, s4 the    *)
(* files, s6 the stack, s7 refs/stash, s8 and s9 the command under way,    *)
(* s10 whether one was cut off, s11 the edits.                             *)

StashInv == T!StashTypes /\ T!PushedAll /\ T!AppliedAll /\ T!RefFollows

StashEntry == [base : T!Tree, index : T!Tree, work : T!Tree, untracked : T!Tree]

\* The entry that pushing makes.
NewEntry(u) ==
    [base |-> s1, index |-> s2, work |-> T!Snapshot,
     untracked |-> IF u THEN [p \in StashFile |-> IF p \in T!Untracked THEN s4[p] ELSE Absent]
                   ELSE T!NoFiles]

LEMMA StashInit == T!Init => StashInv
<1> SUFFICES ASSUME T!Init PROVE StashInv
  OBVIOUS
<1>1. s1 \in T!Tree /\ s2 \in T!Tree /\ s4 \in T!Tree
  BY DEF T!Init, T!Tree
<1>2. s6 \in Seq(StashEntry) /\ DOMAIN s6 = {}
  BY DEF T!Init
<1>3. T!StashTypes
  BY <1>1, <1>2 DEF T!Init, T!StashTypes, StashEntry
<1> QED
  BY <1>3 DEF T!Init, StashInv, T!PushedAll, T!AppliedAll, T!RefFollows, T!RefIsTop

\* saveStash: what is pushed is a proper entry.
LEMMA NewEntryOk ==
    ASSUME T!StashTypes, NEW u \in BOOLEAN
    PROVE  NewEntry(u) \in StashEntry /\ T!EntryOk(NewEntry(u))
<1>1. T!Snapshot \in T!Tree /\ T!NoFiles \in T!Tree
  BY DEF T!StashTypes, T!Snapshot, T!NoFiles, T!Tree
<1>2. [p \in StashFile |-> IF p \in T!Untracked THEN s4[p] ELSE Absent] \in T!Tree
  BY DEF T!StashTypes, T!Tree
<1>3. NewEntry(u) \in StashEntry
  BY <1>1, <1>2 DEF NewEntry, StashEntry, T!StashTypes
<1>4. ASSUME NEW p \in StashFile, NewEntry(u).untracked[p] # Absent, NewEntry(u).work[p] = Absent
      PROVE  NewEntry(u).base[p] = Absent
  <2>1. s4[p] # Absent /\ s2[p] = Absent
    BY <1>4 DEF NewEntry, T!NoFiles, T!Untracked
  <2> QED
    BY <1>4, <2>1 DEF NewEntry, T!Snapshot
<1> QED
  BY <1>3, <1>4 DEF T!EntryOk

LEMMA PushStep ==
    ASSUME StashInv, NEW u \in BOOLEAN, T!Push(u)
    PROVE  StashInv'
<1>1. /\ s6 \in Seq(StashEntry) /\ s6' = Append(s6, NewEntry(u))
      /\ s8' = "top" /\ s9' = Len(s6) + 1 /\ s8 = "idle"
      /\ UNCHANGED <<s1, s2, s3, s4, s5, s7, s10, s11>>
  BY DEF T!Push, T!Goto, T!files, NewEntry, StashInv, T!StashTypes, StashEntry
<1>2. NewEntry(u) \in StashEntry /\ T!EntryOk(NewEntry(u))
  BY NewEntryOk DEF StashInv
<1>3. /\ s6' \in Seq(StashEntry) /\ Len(s6') = Len(s6) + 1 /\ s6'[Len(s6')] = NewEntry(u)
      /\ Len(s6) \in Nat /\ s6' # <<>> /\ DOMAIN s6' = 1..Len(s6) + 1
      /\ \A k \in 1..Len(s6) : s6'[k] = s6[k]
  BY <1>1, <1>2
<1>4. T!StashTypes'
  <2>1. \A k \in DOMAIN s6' : T!EntryOk(s6'[k])
    BY <1>1, <1>2, <1>3 DEF StashInv, T!StashTypes
  <2> QED
    BY <1>1, <1>3, <2>1 DEF StashInv, T!StashTypes, StashEntry, T!EntryOk
<1>5. T!PushedAll'
  BY <1>1, <1>3 DEF T!PushedAll, NewEntry, T!Snapshot, T!Untracked, T!NoFiles
<1> QED
  BY <1>1, <1>4, <1>5 DEF StashInv, T!AppliedAll, T!RefFollows, T!RefIsTop

\* The files and what is staged stay, so do the entries: what a push took and what a pop
\* gave back is still so.
LEMMA StashKept ==
    ASSUME StashInv, UNCHANGED <<s1, s2, s3, s4, s5, s6, s11>>, s10' \in BOOLEAN,
           s8' = "idle" \/ (s9' = s9 /\ (s8' \in {"top", "reset"} => s8 \in {"top", "reset"})
                            /\ (s8' = "drop" => s8 = "drop")),
           s9' \in Nat, s8' \in {"idle", "top", "reset", "drop", "shrink", "unlog"}
    PROVE  T!StashTypes' /\ T!PushedAll' /\ T!AppliedAll'
<1>1. T!StashTypes'
  BY DEF StashInv, T!StashTypes, T!EntryOk
<1>2. T!PushedAll'
  BY DEF StashInv, T!PushedAll, T!Snapshot, T!Untracked, T!NoFiles
<1>3. T!AppliedAll'
  BY DEF StashInv, T!AppliedAll, T!Entry
<1> QED
  BY <1>1, <1>2, <1>3

LEMMA PushRefStep ==
    ASSUME StashInv, T!PushRef
    PROVE  StashInv'
<1>1. /\ s8 = "top" /\ s8' = "reset" /\ s9' = s9 /\ s10' = FALSE /\ s7' = s6[s9]
      /\ UNCHANGED <<s1, s2, s3, s4, s5, s6, s11>> /\ s9 \in Nat
  BY DEF T!PushRef, T!Goto, T!files, StashInv, T!StashTypes
<1>2. T!StashTypes' /\ T!PushedAll' /\ T!AppliedAll'
  BY <1>1, StashKept
<1>3. s6 # <<>> /\ s7' = T!Last(s6)
  BY <1>1 DEF StashInv, T!PushedAll, T!Last
<1> QED
  BY <1>1, <1>2, <1>3 DEF StashInv, T!RefFollows, T!RefIsTop, T!Last

\* resetHard takes files away, and keeps types.
LEMMA PushResetStep ==
    ASSUME StashInv, T!PushReset
    PROVE  StashInv'
<1>1. /\ s8 = "reset" /\ s8' = "idle" /\ s9' = 0
      /\ UNCHANGED <<s1, s6, s7, s10, s11>> /\ s2' = s1
      /\ s4' = [p \in StashFile |->
                  IF s1[p] # Absent \/ s2[p] # Absent \/ s6[s9].untracked[p] # Absent
                  THEN s1[p] ELSE s4[p]]
  BY DEF T!PushReset, T!Goto
<1>2. s2' \in T!Tree /\ s4' \in T!Tree
  BY <1>1 DEF StashInv, T!StashTypes, T!Tree
<1>3. T!StashTypes'
  BY <1>1, <1>2 DEF StashInv, T!StashTypes, T!EntryOk
<1> QED
  BY <1>1, <1>3 DEF StashInv, T!PushedAll, T!AppliedAll, T!RefFollows, T!RefIsTop, T!Last

-------------------------------------------------------------------------------
(* applyStash.                                                             *)

\* What a clean application leaves of p in the files and in the index.
LEMMA MergedTypes ==
    ASSUME T!StashTypes, NEW e \in StashEntry, NEW p \in StashFile
    PROVE  T!MergedFile(e.base[p], s2[p], e.work[p]) \in Content \cup {Absent, Marker}
BY DEF T!StashTypes, StashEntry, T!Tree, T!MergedFile

LEMMA ApplyTypes ==
    ASSUME T!StashTypes, NEW e \in StashEntry,
           \/ T!Merge(e)
           \/ s4' = T!Restored(e, s4) /\ UNCHANGED <<s2, s3>>
    PROVE  s2' \in T!Tree /\ s4' \in T!Tree
<1>1. CASE T!Merge(e)
  <2>1. \A p \in StashFile : T!MergedFile(e.base[p], s2[p], e.work[p]) \in Content \cup {Absent, Marker}
    BY MergedTypes
  <2>2. s2' \in T!Tree
    BY <1>1, <2>1 DEF T!Merge, T!StashTypes, T!Tree
  <2>3. s4' \in T!Tree
    BY <1>1, <2>1 DEF T!Merge, T!Restored, T!StashTypes, StashEntry, T!Tree
  <2> QED
    BY <2>2, <2>3
<1>2. CASE s4' = T!Restored(e, s4) /\ UNCHANGED <<s2, s3>>
  BY <1>2 DEF T!Restored, T!StashTypes, StashEntry, T!Tree
<1> QED
  BY <1>1, <1>2

\* An application that succeeded has put all that the entry held into the files.
LEMMA ApplySucceeds ==
    ASSUME NEW e \in StashEntry, T!EntryOk(e), T!Succeeds(e),
           IF e.base # e.work /\ T!Overwritten(e) = {} THEN T!Merge(e)
           ELSE s4' = T!Restored(e, s4) /\ UNCHANGED <<s2, s3>>,
           NEW p \in StashFile
    PROVE  /\ e.untracked[p] \in {Absent, s4'[p]}
           /\ e.work[p] # e.base[p] => e.work[p] \in {s4'[p], s2'[p]}
<1> DEFINE w == [x \in StashFile |-> IF e.base # e.work /\ x \in T!Writes(e)
                                THEN T!MergedFile(e.base[x], s2[x], e.work[x]) ELSE s4[x]]
<1>1. \A x \in StashFile : e.untracked[x] = Absent \/ w[x] = Absent
  BY DEF T!Succeeds, T!Taken
<1>2. CASE e.base = e.work
  <2>1. s4' = T!Restored(e, s4) /\ w[p] = s4[p]
    BY <1>2
  <2> QED
    BY <1>1, <1>2, <2>1 DEF T!Restored
<1>3. CASE e.base # e.work
  <2>1. T!Merge(e) /\ T!Overwritten(e) = {}
    BY <1>3 DEF T!Succeeds
  <2>2. \A x \in StashFile : ~T!ConflictFile(e.base[x], s2[x], e.work[x])
    BY <1>3 DEF T!Succeeds
  <2>3. s4'[p] = IF w[p] = Absent THEN e.untracked[p] ELSE w[p]
    BY <1>3, <2>1 DEF T!Merge, T!Restored
  <2>4. s2'[p] = IF s2[p] = Absent THEN T!MergedFile(e.base[p], s2[p], e.work[p]) ELSE s2[p]
    BY <2>1, <2>2 DEF T!Merge
  <2>5. ASSUME e.work[p] # e.base[p] PROVE e.work[p] \in {s4'[p], s2'[p]}
    <3>1. e.work[p] = s2[p] \/ s2[p] = e.base[p]
      BY <2>2, <2>5 DEF T!ConflictFile
    <3>2. CASE e.work[p] = s2[p]
      <4>1. T!MergedFile(e.base[p], s2[p], e.work[p]) = s2[p]
        BY <2>5, <3>2 DEF T!MergedFile
      <4> QED
        BY <2>4, <3>2, <4>1
    <3>3. CASE e.work[p] # s2[p]
      <4>1. T!MergedFile(e.base[p], s2[p], e.work[p]) = e.work[p]
        BY <2>5, <3>1, <3>3 DEF T!MergedFile
      <4>2. w[p] = e.work[p]
        BY <1>3, <3>3, <4>1 DEF T!Writes
      <4> QED
        BY <1>1, <2>3, <2>5, <4>2 DEF T!EntryOk
    <3> QED
      BY <3>2, <3>3
  <2> QED
    BY <1>1, <2>3, <2>5
<1> QED
  BY <1>2, <1>3

LEMMA ApplyStep ==
    ASSUME StashInv, NEW k \in Nat, NEW pop \in BOOLEAN, T!Apply(k, pop)
    PROVE  StashInv'
<1> DEFINE e == T!Entry(k)
<1>1. /\ s6 \in Seq(StashEntry) /\ k < Len(s6) /\ s8 = "idle"
      /\ UNCHANGED <<s1, s5, s6, s7, s10, s11>>
  BY DEF T!Apply, StashInv, T!StashTypes, StashEntry
<1>2. e \in StashEntry /\ T!EntryOk(e) /\ s6 # <<>>
  BY <1>1 DEF T!Entry, StashInv, T!StashTypes
<1>3. IF e.base # e.work /\ T!Overwritten(e) = {} THEN T!Merge(e)
      ELSE s4' = T!Restored(e, s4) /\ UNCHANGED <<s2, s3>>
  BY DEF T!Apply
<1>4. s2' \in T!Tree /\ s4' \in T!Tree
  BY <1>2, <1>3, ApplyTypes DEF StashInv
<1>5. \/ s8' = "drop" /\ s9' = k /\ T!Succeeds(e)
      \/ s8' = "idle" /\ s9' = s9
  BY <1>1 DEF T!Apply, T!Goto
<1>6. T!StashTypes'
  BY <1>1, <1>4, <1>5 DEF StashInv, T!StashTypes, T!EntryOk
<1>7. T!AppliedAll'
  <2> SUFFICES ASSUME s8' = "drop" PROVE T!AppliedAll'
    BY DEF T!AppliedAll
  <2>1. s9' = k /\ T!Succeeds(e) /\ T!Entry(s9)' = e
    BY <1>1, <1>5 DEF T!Entry
  <2>2. \A p \in StashFile : /\ e.untracked[p] \in {Absent, s4'[p]}
                             /\ e.work[p] # e.base[p] => e.work[p] \in {s4'[p], s2'[p]}
    BY <1>2, <1>3, <2>1, ApplySucceeds
  <2> QED
    BY <1>1, <2>1, <2>2 DEF T!AppliedAll
<1> QED
  BY <1>1, <1>2, <1>5, <1>6, <1>7 DEF StashInv, T!PushedAll, T!RefFollows, T!RefIsTop

-------------------------------------------------------------------------------
(* dropStash and clearStashes.                                             *)

\* A sequence without its i-th member.
LEMMA Removal ==
    ASSUME NEW S, NEW s \in Seq(S), NEW i \in 1..Len(s)
    PROVE  LET r == SubSeq(s, 1, i - 1) \o SubSeq(s, i + 1, Len(s))
           IN /\ r \in Seq(S) /\ Len(r) = Len(s) - 1
              /\ \A j \in 1..Len(s) - 1 : r[j] = IF j < i THEN s[j] ELSE s[j + 1]
<1> DEFINE n == Len(s)
           front == SubSeq(s, 1, i - 1)
           back == SubSeq(s, i + 1, n)
<1>1. n \in Nat /\ i \in Nat /\ 1 <= i /\ i <= n
  OBVIOUS
<1>2. front \in Seq(S) /\ Len(front) = i - 1 /\ \A j \in 1..i - 1 : front[j] = s[j]
  BY <1>1
<1>3. back \in Seq(S) /\ Len(back) = n - i /\ \A j \in 1..n - i : back[j] = s[j + i]
  BY <1>1
<1> HIDE DEF front, back
<1>4. front \o back \in Seq(S) /\ Len(front \o back) = n - 1
  <2>0. front \in Seq(S) /\ back \in Seq(S)
    BY <1>2, <1>3
  <2>1. front \o back \in Seq(S)
    BY <2>0
  <2>2. Len(front \o back) = Len(front) + Len(back)
    BY <2>0
  <2>3. (i - 1) + (n - i) = n - 1
    BY <1>1
  <2> QED
    BY <1>2, <1>3, <2>1, <2>2, <2>3
<1>5. ASSUME NEW j \in 1..n - 1
      PROVE  (front \o back)[j] = IF j < i THEN s[j] ELSE s[j + 1]
  <2>1. CASE j < i
    BY <1>1, <1>2, <1>3, <2>1
  <2>2. CASE ~(j < i)
    <3>1. (front \o back)[j] = back[j - (i - 1)] /\ j - (i - 1) \in 1..n - i
      BY <1>1, <1>2, <1>3, <2>2
    <3> QED
      BY <1>1, <1>3, <2>2, <3>1
  <2> QED
    BY <2>1, <2>2
<1> QED
  BY <1>4, <1>5 DEF front, back

LEMMA DropStep ==
    ASSUME StashInv, NEW k \in Nat, T!Drop(k)
    PROVE  StashInv'
<1>1. /\ s6 \in Seq(StashEntry) /\ k < Len(s6) /\ UNCHANGED <<s1, s2, s3, s4, s5, s10, s11>>
  BY DEF T!Drop, T!DropEntry, T!files, StashInv, T!StashTypes, StashEntry
<1>2. CASE Len(s6) = 1
  <2>1. s7' = Absent /\ s8' = "unlog" /\ s9' = k /\ UNCHANGED s6
    BY <1>2 DEF T!Drop, T!DropEntry, T!Goto
  <2>2. T!StashTypes'
    BY <1>1, <2>1 DEF StashInv, T!StashTypes, T!EntryOk
  <2> QED
    BY <1>1, <2>1, <2>2 DEF StashInv, T!PushedAll, T!AppliedAll, T!RefFollows, T!RefIsTop
<1>3. CASE Len(s6) # 1
  <2> DEFINE n == Len(s6)
             i == n - k
  <2>1. s6' = T!RemoveAt(s6, i) /\ s8' = "shrink" /\ s9' = k /\ UNCHANGED s7
    BY <1>3 DEF T!Drop, T!DropEntry, T!Goto
  <2>2. n \in Nat /\ n > 1 /\ i \in 1..n
    <3>1. n \in Nat /\ k < n /\ n # 1
      BY <1>1, <1>3
    <3>2. n > 1
      BY <3>1
    <3>3. i \in Nat
      BY <3>1
    <3>4. i >= 1 /\ i <= n
      BY <3>1
    <3> QED
      BY <3>1, <3>2, <3>3, <3>4
  <2>3. s6' = SubSeq(s6, 1, i - 1) \o SubSeq(s6, i + 1, n)
    BY <2>1, <2>2 DEF T!RemoveAt
  <2>4. /\ s6' \in Seq(StashEntry) /\ Len(s6') = n - 1
        /\ \A j \in 1..n - 1 : s6'[j] = IF j < i THEN s6[j] ELSE s6[j + 1]
    <3> DEFINE r == SubSeq(s6, 1, i - 1) \o SubSeq(s6, i + 1, Len(s6))
    <3>1. /\ r \in Seq(StashEntry) /\ Len(r) = n - 1
          /\ \A j \in 1..n - 1 : r[j] = IF j < i THEN s6[j] ELSE s6[j + 1]
      BY <1>1, <2>2, Removal
    <3> QED
      BY <2>3, <3>1
  <2>5. T!StashTypes'
    <3>1. \A j \in DOMAIN s6' : T!EntryOk(s6'[j])
      <4>1. DOMAIN s6' = 1..n - 1 /\ DOMAIN s6 = 1..n
        BY <1>1, <2>4
      <4>2. \A j \in 1..n - 1 : j \in 1..n /\ j + 1 \in 1..n
        BY <2>2
      <4> QED
        BY <2>4, <4>1, <4>2 DEF StashInv, T!StashTypes
    <3> QED
      BY <1>1, <2>1, <2>4, <3>1 DEF StashInv, T!StashTypes, T!EntryOk, StashEntry
  <2>6. s6' # <<>>
    BY <2>2, <2>4
  <2> QED
    BY <2>1, <2>5, <2>6 DEF StashInv, T!PushedAll, T!AppliedAll, T!RefFollows, T!RefIsTop
<1> QED
  BY <1>2, <1>3

LEMMA DropRestStep ==
    ASSUME StashInv, T!DropRef \/ T!Clear \/ T!DeleteReflog \/ T!Crash
    PROVE  StashInv'
<1>1. CASE T!DropRef
  <2>1. T!StashTypes' /\ T!PushedAll' /\ T!AppliedAll'
    BY <1>1, StashKept DEF T!DropRef, T!Goto, T!files
  <2> QED
    BY <1>1, <2>1 DEF T!DropRef, T!Goto, T!files, StashInv, T!RefFollows, T!RefIsTop, T!Last
<1>2. CASE T!Clear
  <2>1. T!StashTypes'
    BY <1>2 DEF T!Clear, T!Goto, T!files, StashInv, T!StashTypes, T!EntryOk
  <2> QED
    BY <1>2, <2>1 DEF T!Clear, T!Goto, StashInv, T!PushedAll, T!AppliedAll, T!RefFollows, T!RefIsTop
<1>3. CASE T!DeleteReflog
  <2>1. T!StashTypes'
    <3>1. s6' \in Seq(StashEntry) /\ DOMAIN s6' = {}
      BY <1>3 DEF T!DeleteReflog
    <3> QED
      BY <1>3, <3>1 DEF T!DeleteReflog, T!Goto, T!files, StashInv, T!StashTypes, StashEntry
  <2> QED
    BY <1>3, <2>1 DEF T!DeleteReflog, T!Goto, StashInv, T!PushedAll, T!AppliedAll, T!RefFollows, T!RefIsTop
<1>4. CASE T!Crash
  <2>1. T!StashTypes' /\ T!PushedAll' /\ T!AppliedAll'
    BY <1>4, StashKept DEF T!Crash, T!Goto, T!files, StashInv, T!StashTypes
  <2> QED
    BY <1>4, <2>1 DEF T!Crash, T!Goto, T!files, StashInv, T!StashTypes, T!RefFollows, T!RefIsTop, T!Last
<1> QED
  BY <1>1, <1>2, <1>3, <1>4

-------------------------------------------------------------------------------
(* The user, and all steps.                                                *)

LEMMA StashUserStep ==
    ASSUME StashInv, T!User
    PROVE  StashInv'
<1>1. s8 = "idle" /\ s11' = s11 + 1 /\ UNCHANGED <<s6, s7, s8, s9, s10>>
  BY DEF T!User
<1>2. s1' \in T!Tree /\ s2' \in T!Tree /\ s4' \in T!Tree
  BY DEF T!User, T!Edit, T!Add, T!RmCached, T!Commit, StashInv, T!StashTypes, T!Tree
<1>3. T!StashTypes'
  BY <1>1, <1>2 DEF StashInv, T!StashTypes, T!EntryOk
<1> QED
  BY <1>1, <1>3 DEF StashInv, T!PushedAll, T!AppliedAll, T!RefFollows, T!RefIsTop, T!Last

LEMMA StashStep ==
    ASSUME StashInv, T!Next
    PROVE  StashInv'
<1>1. CASE \E u \in BOOLEAN : T!Push(u)
  BY <1>1, PushStep
<1>2. CASE T!PushRef \/ T!PushReset
  BY <1>2, PushRefStep, PushResetStep
<1>3. CASE \E k \in 0..MaxStash - 1 : T!Drop(k) \/ \E pop \in BOOLEAN : T!Apply(k, pop)
  <2>1. PICK k \in 0..MaxStash - 1 : T!Drop(k) \/ \E pop \in BOOLEAN : T!Apply(k, pop)
    BY <1>3
  <2>2. k \in Nat
    OBVIOUS
  <2> QED
    BY <2>1, <2>2, DropStep, ApplyStep
<1>4. CASE T!DropRef \/ T!Clear \/ T!DeleteReflog \/ T!Crash
  BY <1>4, DropRestStep
<1>5. CASE T!User
  BY <1>5, StashUserStep
<1> QED
  BY <1>1, <1>2, <1>3, <1>4, <1>5 DEF T!Next

\* What a push takes away is in its entry: nothing changed since it was made.
LEMMA PushKeeps ==
    ASSUME StashInv, T!Next
    PROVE  T!PushKeepsAll
<1> SUFFICES ASSUME s8 = "reset", s8' = "idle", NEW p \in StashFile
             PROVE  /\ s4'[p] # s4[p] /\ s4[p] # Absent =>
                          s4[p] \in {s6[s9].work[p], s6[s9].untracked[p]}
                    /\ s2'[p] # s2[p] => s6[s9].index[p] = s2[p]
  BY DEF T!PushKeepsAll
<1>1. T!PushReset \/ UNCHANGED <<s2, s4>>
  BY DEF T!Next, T!Push, T!PushRef, T!Drop, T!Apply, T!DropRef, T!Clear, T!DeleteReflog, T!User,
         T!Crash, T!files
<1>2. CASE T!PushReset
  <2> DEFINE e == s6[s9]
  <2>1. /\ e.index = s2 /\ e.work = T!Snapshot
        /\ e.untracked \in {T!NoFiles, [x \in StashFile |-> IF x \in T!Untracked THEN s4[x] ELSE Absent]}
    BY DEF StashInv, T!PushedAll
  <2>2. ASSUME s4'[p] # s4[p], s4[p] # Absent PROVE s4[p] \in {e.work[p], e.untracked[p]}
    <3>1. s1[p] # Absent \/ s2[p] # Absent \/ e.untracked[p] # Absent
      BY <1>2, <2>2 DEF T!PushReset
    <3>2. CASE s1[p] # Absent \/ s2[p] # Absent
      BY <2>1, <2>2, <3>2 DEF T!Snapshot
    <3>3. CASE e.untracked[p] # Absent
      BY <2>1, <3>3 DEF T!NoFiles
    <3> QED
      BY <3>1, <3>2, <3>3
  <2> QED
    BY <2>1, <2>2
<1>3. CASE UNCHANGED <<s2, s4>>
  BY <1>3
<1> QED
  BY <1>1, <1>2, <1>3

\* Only an application changes files while no command is under way, and it is refused where
\* it would write over a change.
LEMMA ApplyKeeps ==
    ASSUME StashInv, T!Next
    PROVE  T!ApplyKeepsLocal
<1> SUFFICES ASSUME NEW p \in StashFile, s8 = "idle", s11' = s11, s4'[p] # s4[p]
             PROVE  s4[p] \in {Absent, s2[p]}
  BY DEF T!ApplyKeepsLocal
<1>1. CASE \E u \in BOOLEAN : T!Push(u)
  BY <1>1 DEF T!Push, T!files
<1>2. CASE T!PushRef \/ T!PushReset
  BY <1>2 DEF T!PushRef, T!PushReset
<1>3. CASE \E k \in 0..MaxStash - 1 : T!Drop(k) \/ \E pop \in BOOLEAN : T!Apply(k, pop)
  <2>1. PICK k \in 0..MaxStash - 1 : T!Drop(k) \/ \E pop \in BOOLEAN : T!Apply(k, pop)
    BY <1>3
  <2> DEFINE e == T!Entry(k)
  <2>2. \/ T!Overwritten(e) = {} /\ T!Merge(e)
        \/ s4' = T!Restored(e, s4)
    BY <2>1 DEF T!Drop, T!DropEntry, T!files, T!Apply
  <2>3. CASE s4' = T!Restored(e, s4)
    BY <2>3 DEF T!Restored
  <2>4. CASE T!Overwritten(e) = {} /\ T!Merge(e)
    <3>1. CASE p \in T!Writes(e)
      BY <2>4, <3>1 DEF T!Overwritten
    <3>2. CASE p \notin T!Writes(e)
      BY <2>4, <3>2 DEF T!Merge, T!Restored
    <3> QED
      BY <3>1, <3>2
  <2> QED
    BY <2>2, <2>3, <2>4
<1>4. CASE T!DropRef \/ T!Clear \/ T!DeleteReflog \/ T!Crash
  BY <1>4 DEF T!DropRef, T!Clear, T!DeleteReflog, T!Crash, T!files
<1>5. CASE T!User
  BY <1>5 DEF T!User, StashInv, T!StashTypes
<1> QED
  BY <1>1, <1>2, <1>3, <1>4, <1>5 DEF T!Next

\* A pop drops its entry only after applying it, and nobody comes in between.
LEMMA PopKeeps ==
    ASSUME StashInv, T!Next
    PROVE  T!PopDropsOnlyApplied
BY DEF StashInv, T!AppliedAll, T!PopDropsOnlyApplied

\* What TLC checks as StashKeepsWork: what a push takes away is in its entry, applying one
\* leaves files with changes of their own alone, a pop drops its entry only when all that it
\* held is in the files, and refs/stash is the newest entry when no command is under way
\* and none was cut off; for any files and contents, any number of entries and any
\* sequence of commands, edits and crashes (stash.ts).
THEOREM StashKeepsAllWork == StoresSpec => StashKeepsWork
<1> DEFINE SInv == part = "stash" => StashInv
           Keeps == part = "stash" => T!PushKeepsAll /\ T!ApplyKeepsLocal /\ T!PopDropsOnlyApplied
<1>1. StoresInit => SInv
  BY StashInit DEF StoresInit
<1>2. SInv /\ [StoresNext]_storesVars => SInv'
  <2> SUFFICES ASSUME SInv, [StoresNext]_storesVars, part' = "stash" PROVE StashInv'
    OBVIOUS
  <2>1. part = "stash" /\ StashInv
    BY DEF StoresNext, storesVars
  <2>2. CASE StoresNext
    BY <2>1, <2>2, StashStep DEF StoresNext
  <2>3. CASE UNCHANGED storesVars
    BY <2>1, <2>3 DEF storesVars, slots, StashInv, T!StashTypes, T!PushedAll, T!AppliedAll,
           T!RefFollows, T!RefIsTop, T!EntryOk, T!Entry, T!Snapshot, T!Untracked, T!NoFiles, T!Last
  <2> QED
    BY <2>2, <2>3
<1>3. SInv => (part = "stash" => T!RefIsTop)
  BY DEF StashInv, T!RefFollows
<1>4. SInv /\ [StoresNext]_storesVars => [Keeps]_storesVars
  <2> SUFFICES ASSUME SInv, StoresNext, part = "stash"
               PROVE  T!PushKeepsAll /\ T!ApplyKeepsLocal /\ T!PopDropsOnlyApplied
    OBVIOUS
  <2>1. StashInv /\ T!Next
    BY DEF StoresNext
  <2> QED
    BY <2>1, PushKeeps, ApplyKeeps, PopKeeps
<1> QED
  BY <1>1, <1>2, <1>3, <1>4, PTL DEF StoresSpec, StashKeepsWork

-------------------------------------------------------------------------------
(* Bisection: s1 is the culprit, s3 and s9 where HEAD and BISECT_HEAD are, *)
(* s4 BISECT_START, s5, s6 and s7 what is bad, good and skipped, s8 is     *)
(* --first-parent, s10 what to test, s11 what was told last, s12 whether   *)
(* all marks were true, s13 their number.                                  *)

\* An instance counts as this module does.
LEMMA SameCount ==
    ASSUME NEW S PROVE B!Cardinality(S) = Cardinality(S)
BY DEF B!Cardinality, Cardinality

\* A set of numbers that is not empty has a least member.
LEMMA LeastMember ==
    ASSUME NEW N \in SUBSET Nat, N # {}
    PROVE  \E n \in N : \A m \in N : n <= m
<1>1. PICK n \in N : \A m \in N : ~(<<m, n>> \in OpToRel(<, Nat))
  BY NatLessThanWellFounded, WFMin, Zenon
<1>2. \A m \in N : ~(m < n)
  BY <1>1, Zenon DEF OpToRel
<1> QED
  BY <1>2

Settled(S, line) == \A x \in S : line[x] \subseteq S
Above(c, f, line) == {c} \cup UNION {f[p] : p \in line[c]}

\* What a walk over the commits C reaches: one function that the equation of a walk has for
\* a solution, so that there is one.
Met(C, line) ==
    [c \in C |-> {x \in C : \A S \in SUBSET C : c \in S /\ Settled(S, line) => x \in S}]

\* It is one: what c meets is c and what its parents meet.
LEMMA MetIsSolution ==
    ASSUME NEW C, NEW line \in [C -> SUBSET C]
    PROVE  Met(C, line) = [c \in C |-> Above(c, Met(C, line), line)]
<1> DEFINE met == Met(C, line)
<1>0. \A c \in C : met[c] = {x \in C : \A S \in SUBSET C : c \in S /\ Settled(S, line) => x \in S}
  BY DEF Met
<1> HIDE DEF met
<1>1. ASSUME NEW c \in C PROVE met[c] = Above(c, met, line)
  <2>1. c \in met[c]
    BY <1>0
  <2>2. ASSUME NEW p \in line[c] PROVE met[p] \subseteq met[c]
    <3>1. p \in C
      BY <2>2
    <3>2. ASSUME NEW x \in met[p], NEW S \in SUBSET C, c \in S, Settled(S, line) PROVE x \in S
      <4>1. p \in S
        BY <2>2, <3>2 DEF Settled
      <4> QED
        BY <1>0, <3>1, <3>2, <4>1
    <3> QED
      BY <1>0, <3>1, <3>2
  <2> DEFINE S == Above(c, met, line)
  <2>3. S \in SUBSET C
    BY <1>0 DEF Above
  <2>4. ASSUME NEW x \in S PROVE line[x] \subseteq S
    <3>1. CASE x = c
      <4>1. \A p \in line[c] : p \in met[p]
        BY <1>0
      <4> QED
        BY <3>1, <4>1 DEF Above
    <3>2. CASE x # c
      <4>1. PICK p \in line[c] : x \in met[p]
        BY <3>2, <2>4 DEF Above
      <4>2. p \in C /\ x \in C
        BY <1>0, <4>1
      <4>3. ASSUME NEW y \in line[x] PROVE y \in met[p]
        <5>1. y \in C
          BY <4>2, <4>3
        <5>2. ASSUME NEW V \in SUBSET C, p \in V, Settled(V, line) PROVE y \in V
          <6>1. x \in V
            BY <1>0, <4>1, <4>2, <5>2
          <6> QED
            BY <4>3, <5>2, <6>1 DEF Settled
        <5> QED
          BY <1>0, <4>2, <5>1, <5>2
      <4> QED
        BY <4>1, <4>3 DEF Above
    <3> QED
      BY <3>1, <3>2
  <2>5. met[c] \subseteq S
    <3>1. c \in S /\ Settled(S, line)
      BY <2>4 DEF Above, Settled
    <3> QED
      BY <1>0, <2>3, <3>1
  <2>6. S \subseteq met[c]
    BY <2>1, <2>2 DEF Above
  <2> QED
    BY <2>5, <2>6
<1>2. met = [c \in C |-> met[c]]
  BY DEF met, Met
<1>3. met = [c \in C |-> Above(c, met, line)]
  BY <1>1, <1>2
<1> QED
  BY <1>3 DEF met

LEMMA ReachUnfolds ==
    ASSUME NEW line \in [B!Commit -> SUBSET B!Commit]
    PROVE  B!Reach(line) = [c \in B!Commit |-> Above(c, B!Reach(line), line)]
<1>1. \E f : f = [c \in B!Commit |-> {c} \cup UNION {f[p] : p \in line[c]}]
  <2> DEFINE met == Met(B!Commit, line)
  <2>1. met = [c \in B!Commit |-> {c} \cup UNION {met[p] : p \in line[c]}]
    BY MetIsSolution, Zenon DEF Above
  <2> HIDE DEF met
  <2> QED
    BY <2>1, Zenon
<1>2. B!Reach(line) = [c \in B!Commit |-> {c} \cup UNION {B!Reach(line)[p] : p \in line[c]}]
  BY <1>1 DEF B!Reach
<1> QED
  BY <1>2, Zenon DEF Above

\* The history of a commit is itself and the histories of its parents, which come before it.
LEMMA AncestorsUnfolds ==
    ASSUME B!BisectAssumption
    PROVE  /\ B!Commit \subseteq Nat /\ IsFiniteSet(B!Commit)
           /\ B!AllParents \in [B!Commit -> SUBSET B!Commit]
           /\ \A c \in B!Commit : \A p \in B!AllParents[c] : p < c
           /\ \A c \in B!Commit : B!Ancestors[c] = Above(c, B!Ancestors, B!AllParents)
<1>1. Len(ParentLists) \in Nat /\ B!Commit = 1..Len(ParentLists)
  BY DEF B!BisectAssumption, B!Commit
<1>2. IsFiniteSet(B!Commit)
  BY <1>1, FS_Interval
<1>3. ASSUME NEW c \in B!Commit
      PROVE  B!AllParents[c] \subseteq B!Commit /\ \A p \in B!AllParents[c] : p < c
  <2>1. \A i \in DOMAIN ParentLists[c] : ParentLists[c][i] \in 1..c - 1
    BY DEF B!BisectAssumption, B!Commit
  <2>2. \A p \in B!AllParents[c] : p \in 1..c - 1
    BY <2>1 DEF B!AllParents, B!ToSet
  <2>3. c \in Nat /\ c <= Len(ParentLists)
    BY <1>1
  <2> QED
    BY <1>1, <2>2, <2>3
<1>4. B!AllParents \in [B!Commit -> SUBSET B!Commit]
  BY <1>3 DEF B!AllParents
<1>5. B!Ancestors = [c \in B!Commit |-> Above(c, B!Ancestors, B!AllParents)]
  BY <1>4, ReachUnfolds DEF B!Ancestors
<1> QED
  BY <1>1, <1>2, <1>3, <1>4, <1>5

LEMMA AncestorsTyped ==
    ASSUME B!BisectAssumption
    PROVE  \A c \in B!Commit : c \in B!Ancestors[c] /\ B!Ancestors[c] \subseteq B!Commit
<1> DEFINE N == {c \in B!Commit : ~(B!Ancestors[c] \subseteq B!Commit)}
<1>1. N = {}
  <2> SUFFICES ASSUME N # {} PROVE FALSE
    OBVIOUS
  <2>1. PICK c \in N : \A m \in N : c <= m
    BY LeastMember, AncestorsUnfolds
  <2>2. \A p \in B!AllParents[c] : p \in B!Commit /\ p < c /\ p \in Nat /\ c \in Nat
    BY <2>1, AncestorsUnfolds
  <2>3. \A p \in B!AllParents[c] : B!Ancestors[p] \subseteq B!Commit
    BY <2>1, <2>2
  <2>4. B!Ancestors[c] = Above(c, B!Ancestors, B!AllParents)
    BY <2>1, AncestorsUnfolds
  <2> QED
    BY <2>1, <2>3, <2>4 DEF Above
<1>2. \A c \in B!Commit : c \in B!Ancestors[c]
  BY AncestorsUnfolds DEF Above
<1> QED
  BY <1>1, <1>2

\* An ancestor's ancestors are ancestors.
LEMMA AncestorsOfAncestors ==
    ASSUME B!BisectAssumption, NEW b \in B!Commit, NEW c \in B!Ancestors[b]
    PROVE  B!Ancestors[c] \subseteq B!Ancestors[b]
<1> DEFINE N == {d \in B!Commit : c \in B!Ancestors[d] /\ ~(B!Ancestors[c] \subseteq B!Ancestors[d])}
<1> SUFFICES ASSUME N # {} PROVE FALSE
  OBVIOUS
<1>1. PICK d \in N : \A m \in N : d <= m
  BY LeastMember, AncestorsUnfolds
<1>2. \A p \in B!AllParents[d] : p \in B!Commit /\ p < d /\ p \in Nat /\ d \in Nat
  BY <1>1, AncestorsUnfolds
<1>3. B!Ancestors[d] = Above(d, B!Ancestors, B!AllParents)
  BY <1>1, AncestorsUnfolds
<1>4. PICK p \in B!AllParents[d] : c \in B!Ancestors[p]
  BY <1>1, <1>3 DEF Above
<1>5. B!Ancestors[c] \subseteq B!Ancestors[p]
  BY <1>1, <1>2, <1>4
<1> QED
  BY <1>1, <1>3, <1>4, <1>5 DEF Above

-------------------------------------------------------------------------------
(* What the commands keep.                                                 *)

BisectInv == B!BisectTypes /\ B!CulpritBetween /\ B!AnswerHolds

LEMMA BisectStarts ==
    ASSUME B!BisectAssumption, B!Init
    PROVE  BisectInv
<1>1. Suspect \in B!Commit /\ None \notin B!Commit
  BY DEF B!BisectAssumption, B!Commit
<1>2. s1 \in B!Commit
  BY <1>1, AncestorsTyped DEF B!Init
<1> QED
  BY <1>1, <1>2 DEF B!Init, BisectInv, B!BisectTypes, B!CulpritBetween, B!AnswerHolds

\* What is chosen is a candidate that was not skipped, and neither all candidates are
\* among its ancestors nor none.
LEMMA ChosenSplits ==
    ASSUME B!BisectAssumption, NEW cand \in SUBSET B!Commit, NEW s, NEW fp \in BOOLEAN,
           NEW c \in B!Choices(cand, s, fp)
    PROVE  /\ c \in cand /\ c \notin s
           /\ ~fp => Cardinality(B!Ancestors[c] \cap cand) < Cardinality(cand)
<1> DEFINE w == B!Weight(c, cand, fp)
           n == Cardinality(cand)
<1>1. c \in cand /\ c \notin s /\ (IF 2 * w - n < 0 THEN -(2 * w - n) ELSE 2 * w - n) < n
  <2>1. c \in B!Best(cand \ s, cand, fp)
    BY DEF B!Choices
  <2>2. B!Best(cand \ s, cand, fp) \subseteq
            {x \in cand \ s : LET d == 2 * B!Weight(x, cand, fp) - Cardinality(cand)
                              IN (IF d < 0 THEN -d ELSE d) < Cardinality(cand)}
    <3>1. B!Cardinality(cand) = Cardinality(cand)
      BY SameCount
    <3> QED
      BY <3>1, Zenon DEF B!Best
  <2> QED
    BY <2>1, <2>2
<1>2. ASSUME ~fp PROVE Cardinality(B!Ancestors[c] \cap cand) < n
  <2>1. w = Cardinality(B!Ancestors[c] \cap cand)
    <3>1. (IF fp THEN B!FirstParents ELSE B!AllParents) = B!AllParents
      BY <1>2
    <3>2. B!Reach(IF fp THEN B!FirstParents ELSE B!AllParents) = B!Ancestors
      BY <3>1, Zenon DEF B!Ancestors
    <3>3. w = B!Cardinality(B!Ancestors[c] \cap cand)
      BY <3>2, Zenon DEF B!Weight
    <3> QED
      BY <3>3, SameCount
  <2>2. w \in Nat /\ n \in Nat
    <3>1. IsFiniteSet(cand) /\ IsFiniteSet(B!Ancestors[c] \cap cand)
      BY AncestorsUnfolds, FS_Subset
    <3> QED
      BY <2>1, <3>1, FS_CardinalityType
  <2> HIDE DEF w, n
  <2>3. w < n
    BY <1>1, <2>2
  <2> QED
    BY <2>1, <2>3
<1> QED
  BY <1>1, <1>2

LEMMA CandidatesTyped ==
    ASSUME B!BisectAssumption, NEW b \in B!Commit, NEW g
    PROVE  B!Candidates(b, g) \subseteq B!Commit
BY AncestorsTyped DEF B!Candidates

\* What was told last, after a step.
LEMMA AnswerNext ==
    B!AnswerHolds' <=>
        LET cand == B!Candidates(s5', s6')
        IN /\ s11' \in {"found", "test"} => s5' # None
           /\ s11' = "found" => B!Cardinality(cand) = 1
           /\ s11' = "test" => s10' \in B!Choices(cand, s7', s8')
BY Zenon DEF B!AnswerHolds, B!Candidates, B!Choices, B!Best, B!Weight, B!Reach

\* checkAndAdvanceBisect, with the marks that the command has made: what is told is so.
LEMMA AdvanceTells ==
    ASSUME B!BisectAssumption, B!BisectTypes,
           s5' \in B!Commit \cup {None}, s6' \subseteq B!Commit, s7' \subseteq B!Commit,
           s8' \in BOOLEAN, B!Advance(s5', s6', s7', s8')
    PROVE  /\ B!AnswerHolds'
           /\ s3' \in B!Commit /\ s9' \in B!Commit \cup {None}
<1> DEFINE cand == B!Candidates(s5', s6')
<1>0. None \notin B!Commit
  BY DEF B!BisectAssumption, B!Commit
<1>1. CASE s5' = None \/ s6' = {}
  BY <1>1 DEF B!Advance, B!Tell, B!AnswerHolds, B!BisectTypes
<1>2. CASE s5' # None /\ s6' # {}
  <2>0. cand \subseteq B!Commit
    BY <1>2, CandidatesTyped
  <2>1. CASE \E c \in B!Choices(cand, s7', s8') : B!Visit(c)
    <3>1. PICK c \in B!Choices(cand, s7', s8') : B!Visit(c)
      BY <2>1
    <3>2. c \in B!Commit
      BY <2>0, <3>1, ChosenSplits
    <3>3. s11' # "found" /\ (s11' = "test" => s10' = c)
      BY <3>1 DEF B!Visit, B!Tell
    <3>4. s11' = "test" => s10' \in B!Choices(cand, s7', s8')
      BY <3>1, <3>3
    <3>5. B!AnswerHolds'
      BY <1>2, <3>3, <3>4, AnswerNext
    <3> QED
      BY <3>1, <3>2, <3>5 DEF B!Visit, B!Tell, B!BisectTypes
  <2>2. CASE B!Tell("found") /\ B!Cardinality(cand) = 1
    <3>1. B!AnswerHolds'
      BY <1>2, <2>2, AnswerNext DEF B!Tell
    <3> QED
      BY <2>2, <3>1 DEF B!Tell, B!BisectTypes
  <2>3. CASE B!Tell("none") \/ B!Tell("skipped")
    BY <2>3 DEF B!AnswerHolds, B!Tell, B!BisectTypes
  <2> QED
    BY <1>2, <2>1, <2>2, <2>3 DEF B!Advance
<1> QED
  BY <1>1, <1>2

\* markRevision and skip, on any commit: a true mark leaves the culprit where it was looked
\* for.
LEMMA MarkStep ==
    ASSUME B!BisectAssumption, BisectInv, s13' \in Nat, NEW c \in B!Commit, NEW b \in BOOLEAN,
           B!Mark(c, b) \/ B!Skip(c)
    PROVE  BisectInv'
<1>0. None \notin B!Commit
  BY DEF B!BisectAssumption, B!Commit
<1>1. /\ s5' \in B!Commit \cup {None} /\ s6' \subseteq B!Commit /\ s7' \subseteq B!Commit
      /\ s8' \in BOOLEAN /\ s12' \in BOOLEAN /\ UNCHANGED <<s1, s4>>
  BY DEF B!Mark, B!MarkBad, B!MarkGood, B!Skip, BisectInv, B!BisectTypes
<1>2. B!Advance(s5', s6', s7', s8')
  <2>1. CASE B!Mark(c, b)
    <3>1. s7' = s7 /\ s8' = s8 /\ B!Advance(s5', s6', s7, s8)
      BY <2>1 DEF B!Mark
    <3> QED
      BY <3>1, Zenon
  <2>2. CASE B!Skip(c)
    <3>1. s5' = s5 /\ s6' = s6 /\ s8' = s8 /\ B!Advance(s5, s6, s7', s8)
      BY <2>2 DEF B!Skip
    <3> QED
      BY <3>1, Zenon
  <2> QED
    BY <2>1, <2>2
<1>3. B!AnswerHolds' /\ s3' \in B!Commit /\ s9' \in B!Commit \cup {None}
  BY <1>1, <1>2, AdvanceTells DEF BisectInv
<1>4. B!BisectTypes'
  BY <1>1, <1>3 DEF BisectInv, B!BisectTypes
<1>5. B!CulpritBetween'
  <2>1. CASE B!Mark(c, b)
    <3> SUFFICES ASSUME s12' PROVE /\ s5' # None => s1 \in B!Ancestors[s5']
                                   /\ \A d \in s6' : s1 \notin B!Ancestors[d]
      BY <1>1 DEF B!CulpritBetween
    <3>1. s12 /\ b = (s1 \in B!Ancestors[c])
      BY <2>1 DEF B!Mark, B!IsBad
    <3>2. IF b THEN s5' = c /\ s6' = s6 ELSE s6' = s6 \cup {c} /\ s5' = s5
      BY <2>1 DEF B!Mark, B!MarkBad, B!MarkGood
    <3> QED
      BY <3>1, <3>2 DEF BisectInv, B!CulpritBetween
  <2>2. CASE B!Skip(c)
    BY <2>2 DEF B!Skip, BisectInv, B!CulpritBetween
  <2> QED
    BY <2>1, <2>2
<1> QED
  BY <1>3, <1>4, <1>5 DEF BisectInv

LEMMA BisectStep ==
    ASSUME B!BisectAssumption, BisectInv, B!Next
    PROVE  BisectInv'
<1>0. None \notin B!Commit /\ Suspect \in B!Commit
  BY DEF B!BisectAssumption, B!Commit
<1>1. CASE \E fp \in BOOLEAN : B!Start(fp)
  BY <1>0, <1>1 DEF B!Start, BisectInv, B!BisectTypes, B!CulpritBetween, B!AnswerHolds
<1>2. CASE B!ByHand
  <2>1. PICK c \in B!Commit : B!Skip(c) \/ \E b \in BOOLEAN : B!Mark(c, b)
    BY <1>2 DEF B!ByHand
  <2>2. s13' \in Nat
    BY <1>2 DEF B!ByHand, BisectInv, B!BisectTypes
  <2> QED
    BY <2>1, <2>2, MarkStep
<1>3. CASE B!Run
  <2>1. B!Here \in B!Commit /\ B!IsBad(B!Here) \in BOOLEAN /\ s13' \in Nat
    BY <1>0, <1>3 DEF B!Run, B!Here, B!IsBad, BisectInv, B!BisectTypes
  <2>2. B!Mark(B!Here, B!IsBad(B!Here)) \/ B!Skip(B!Here)
    BY <1>3 DEF B!Run
  <2> QED
    BY <2>1, <2>2, MarkStep
<1>4. CASE B!Reset
  <2>1. s3' \in B!Commit
    BY <1>0, <1>4 DEF B!Reset, BisectInv, B!BisectTypes
  <2> QED
    BY <1>0, <1>4, <2>1 DEF B!Reset, BisectInv, B!BisectTypes, B!CulpritBetween, B!AnswerHolds
<1> QED
  BY <1>1, <1>2, <1>3, <1>4 DEF B!Next

\* The commit that is named is the only candidate, and the culprit always is one.
LEMMA FoundRight ==
    ASSUME B!BisectAssumption, BisectInv
    PROVE  B!FoundIsCulprit
<1> SUFFICES ASSUME s11 = "found", s12 PROVE B!Candidates(s5, s6) = {s1}
  BY DEF B!FoundIsCulprit
<1> DEFINE cand == B!Candidates(s5, s6)
<1>1. s5 # None /\ Cardinality(cand) = 1
  <2>1. s5 # None /\ B!Cardinality(cand) = 1
    BY DEF BisectInv, B!AnswerHolds
  <2> QED
    BY <2>1, SameCount
<1>2. s1 \in cand
  BY <1>1 DEF BisectInv, B!CulpritBetween, B!Candidates
<1>3. IsFiniteSet(cand)
  <2>1. s5 \in B!Commit
    BY <1>1 DEF BisectInv, B!BisectTypes
  <2>2. cand \subseteq B!Commit
    BY <2>1, CandidatesTyped
  <2> QED
    BY <2>2, AncestorsUnfolds, FS_Subset
<1>4. \E x : cand = {x}
  BY <1>1, <1>3, FS_Singleton
<1> QED
  BY <1>2, <1>4

\* A part of a finite set that leaves one out is smaller.
LEMMA SmallerPart ==
    ASSUME NEW S, IsFiniteSet(S), NEW V \in SUBSET S
    PROVE  /\ Cardinality(S) \in Nat /\ Cardinality(V) \in Nat /\ Cardinality(V) <= Cardinality(S)
           /\ V # S => Cardinality(V) < Cardinality(S)
<1>1. IsFiniteSet(V) /\ Cardinality(V) <= Cardinality(S) /\ (Cardinality(S) = Cardinality(V) => S = V)
  BY FS_Subset
<1>2. Cardinality(S) \in Nat /\ Cardinality(V) \in Nat
  BY <1>1, FS_CardinalityType
<1> QED
  BY <1>1, <1>2

\* Fewer candidates are left, or fewer that may be chosen.
LEMMA LessLeft ==
    ASSUME NEW S, IsFiniteSet(S), NEW s, NEW V \in SUBSET S, NEW t,
           V \ t \subseteq S \ s, V # S \/ V \ t # S \ s
    PROVE  B!Left(V, t) < B!Left(S, s)
<1>1. IsFiniteSet(S \ s) /\ V \ t \in SUBSET (S \ s)
  BY FS_Subset
<1>2. /\ Cardinality(S) \in Nat /\ Cardinality(V) \in Nat /\ Cardinality(V) <= Cardinality(S)
      /\ V # S => Cardinality(V) < Cardinality(S)
  BY SmallerPart
<1>3. /\ Cardinality(S \ s) \in Nat /\ Cardinality(V \ t) \in Nat
      /\ Cardinality(V \ t) <= Cardinality(S \ s)
      /\ V \ t # S \ s => Cardinality(V \ t) < Cardinality(S \ s)
  BY <1>1, SmallerPart
<1>4. Cardinality(V) + Cardinality(V \ t) < Cardinality(S) + Cardinality(S \ s)
  BY <1>2, <1>3
<1>5. /\ B!Left(V, t) = Cardinality(V) + Cardinality(V \ t)
      /\ B!Left(S, s) = Cardinality(S) + Cardinality(S \ s)
  BY SameCount DEF B!Left
<1> QED
  BY <1>4, <1>5

\* A round of a run is about a commit that splits the candidates: whatever the answer is, it
\* takes some of them away, or that commit is skipped from now on.
LEMMA RoundNarrows ==
    ASSUME B!BisectAssumption, BisectInv, B!Next
    PROVE  B!RunNarrows
<1> SUFFICES ASSUME s11 = "test", ~s8, B!Here = s10, s13' = s13, s4' # None
             PROVE  B!Left(B!Candidates(s5', s6'), s7') < B!Left(B!Candidates(s5, s6), s7)
  BY DEF B!RunNarrows
<1> DEFINE cand == B!Candidates(s5, s6)
           c == B!Here
           next == B!Candidates(s5', s6')
<1>1. B!Mark(c, B!IsBad(c)) \/ B!Skip(c)
  <2>1. s13 \in Nat
    BY DEF BisectInv, B!BisectTypes
  <2> QED
    BY <2>1 DEF B!Next, B!Start, B!ByHand, B!Run, B!Reset
<1>2. s5 \in B!Commit /\ c \in B!Choices(cand, s7, s8) /\ s8 = FALSE
  BY DEF BisectInv, B!BisectTypes, B!AnswerHolds
<1>3. cand \in SUBSET B!Commit /\ IsFiniteSet(cand)
  BY <1>2, CandidatesTyped, AncestorsUnfolds, FS_Subset
<1> HIDE DEF cand, c
<1>4. c \in cand /\ c \notin s7 /\ Cardinality(B!Ancestors[c] \cap cand) < Cardinality(cand)
  BY <1>2, <1>3, ChosenSplits
<1>5. c \in B!Commit /\ c \in B!Ancestors[c]
  BY <1>3, <1>4, AncestorsTyped
<1>6. CASE B!Skip(c)
  <2>1. s7' = s7 \cup {c} /\ next = cand
    BY <1>6 DEF B!Skip, cand
  <2> QED
    BY <1>3, <1>4, <2>1, LessLeft DEF cand
<1>7. CASE B!Mark(c, TRUE)
  <2>1. s5' = c /\ s6' = s6 /\ s7' = s7
    BY <1>7 DEF B!Mark, B!MarkBad
  <2>2. B!Ancestors[c] \subseteq B!Ancestors[s5]
    BY <1>2, <1>4, AncestorsOfAncestors DEF cand, B!Candidates
  <2>3. next = B!Ancestors[c] \cap cand
    BY <2>1, <2>2 DEF cand, B!Candidates
  <2>4. next \subseteq cand /\ next # cand
    <3>1. Cardinality(cand) \in Nat
      BY <1>3, FS_CardinalityType
    <3> QED
      BY <1>4, <2>3, <3>1
  <2>5. B!Left(next, s7) < B!Left(cand, s7)
    BY <1>3, <2>4, LessLeft
  <2> QED
    BY <2>1, <2>5 DEF cand
<1>8. CASE B!Mark(c, FALSE)
  <2>1. s5' = s5 /\ s6' = s6 \cup {c} /\ s7' = s7
    BY <1>8 DEF B!Mark, B!MarkGood
  <2>2. next = cand \ B!Ancestors[c]
    BY <2>1 DEF cand, B!Candidates
  <2>3. next \subseteq cand /\ next # cand
    BY <1>4, <1>5, <2>2
  <2>4. B!Left(next, s7) < B!Left(cand, s7)
    BY <1>3, <2>3, LessLeft
  <2> QED
    BY <2>1, <2>4 DEF cand
<1>9. B!IsBad(c) \in BOOLEAN
  BY DEF B!IsBad
<1> QED
  BY <1>1, <1>6, <1>7, <1>8, <1>9 DEF c

\* What TLC checks as BisectFindsCulprit: when every mark was true, whatever was skipped,
\* started over or tested out of turn, the commit that is named as the first bad one is the
\* culprit; and each round of a run leaves less to choose from, so that it ends; for every
\* history, with merges, and every sequence of commands (lib/bisect.ts, commands/bisect.ts).
THEOREM BisectionIsRight ==
    ASSUME B!BisectAssumption PROVE StoresSpec => BisectFindsCulprit
<1> DEFINE BInv == part = "bisect" => BisectInv
           Narrows == part = "bisect" => B!RunNarrows
<1>1. StoresInit => BInv
  BY BisectStarts DEF StoresInit
<1>2. BInv /\ [StoresNext]_storesVars => BInv'
  <2> SUFFICES ASSUME BInv, [StoresNext]_storesVars, part' = "bisect" PROVE BisectInv'
    OBVIOUS
  <2>1. part = "bisect" /\ BisectInv
    BY DEF StoresNext, storesVars
  <2>2. CASE StoresNext
    BY <2>1, <2>2, BisectStep DEF StoresNext
  <2>3. CASE UNCHANGED storesVars
    <3>1. B!AnswerHolds' <=> B!AnswerHolds
      BY <2>3, AnswerNext DEF storesVars, slots, B!AnswerHolds
    <3> QED
      BY <2>1, <2>3, <3>1 DEF storesVars, slots, BisectInv, B!BisectTypes, B!CulpritBetween
  <2> QED
    BY <2>2, <2>3
<1>3. BInv => (part = "bisect" => B!FoundIsCulprit)
  BY FoundRight
<1>4. BInv /\ [StoresNext]_storesVars => [Narrows]_storesVars
  <2> SUFFICES ASSUME BInv, StoresNext, part = "bisect" PROVE B!RunNarrows
    OBVIOUS
  <2>1. BisectInv /\ B!Next
    BY DEF StoresNext
  <2> QED
    BY <2>1, RoundNarrows
<1> QED
  BY <1>1, <1>2, <1>3, <1>4, PTL DEF StoresSpec, BisectFindsCulprit

-------------------------------------------------------------------------------
(* A rebase: s1 is the commits, s2 the branches, s3 and s4 where HEAD is,  *)
(* s5 the index, s6 the files not tracked, s7 .git/rebase-merge, s8, s9    *)
(* and s10 REBASE_HEAD, MERGE_HEAD and CHERRY_PICK_HEAD, s11 where the     *)
(* process is, s12 the steps that are counted, s13 and s14 what is to be   *)
(* kept and what not, s15 the state as the process has it.                 *)

\* Types, where the process is, and where the files of the goal and what is to be brought
\* back are while it runs.
RebaseInv == R!RebaseTypes /\ R!Places /\ R!WorkOnTheWay /\ R!AbortOnTheWay

\* Commits come after their parents.
LEMMA ParentsBefore ==
    ASSUME R!RebaseTypes
    PROVE  /\ Len(s1) \in Nat /\ R!Commit = 1..Len(s1) /\ R!Commit \subseteq Nat
           /\ \A c \in R!Commit :
                 /\ R!ParentsOf(c) \in Seq(R!Commit) /\ R!Tree(c) \in SUBSET TreeFile
                 /\ \A p \in R!Range(R!ParentsOf(c)) : p \in R!Commit /\ p < c
<1>1. Len(s1) \in Nat /\ R!Commit = 1..Len(s1)
  BY DEF R!RebaseTypes, R!Commit
<1>2. ASSUME NEW c \in R!Commit
      PROVE  /\ R!ParentsOf(c) \in Seq(R!Commit) /\ R!Tree(c) \in SUBSET TreeFile
             /\ \A p \in R!Range(R!ParentsOf(c)) : p \in R!Commit /\ p < c
  <2>1. R!ParentsOf(c) \in Seq(Nat) /\ R!Tree(c) \in SUBSET TreeFile
    <3>1. s1[c] \in [parents : Seq(Nat), tree : SUBSET TreeFile]
      <4>1. s1 \in Seq([parents : Seq(Nat), tree : SUBSET TreeFile]) /\ c \in 1..Len(s1)
        BY <1>1 DEF R!RebaseTypes
      <4> DEFINE K == [parents : Seq(Nat), tree : SUBSET TreeFile]
      <4> HIDE DEF K
      <4>2. s1[c] \in K
        <5>1. s1 \in Seq(K) /\ c \in 1..Len(s1)
          BY <4>1 DEF K
        <5> QED
          BY <5>1
      <4> QED
        BY <4>2 DEF K
    <3> QED
      BY <3>1 DEF R!ParentsOf, R!Tree
  <2>2. \A i \in 1..Len(R!ParentsOf(c)) : R!ParentsOf(c)[i] \in 1..c - 1
    BY DEF R!RebaseTypes
  <2>3. c \in Nat /\ c <= Len(s1)
    BY <1>1
  <2>4. \A i \in 1..Len(R!ParentsOf(c)) : R!ParentsOf(c)[i] \in R!Commit
    BY <1>1, <2>2, <2>3
  <2>5. R!ParentsOf(c) \in Seq(R!Commit)
    BY <2>1, <2>4
  <2>6. \A p \in R!Range(R!ParentsOf(c)) : p \in R!Commit /\ p < c
    BY <2>1, <2>2, <2>3, <2>4 DEF R!Range
  <2> QED
    BY <2>1, <2>5, <2>6
<1> QED
  BY <1>1, <1>2

\* The history of a commit is itself and the histories of its parents.
LEMMA HistoryUnfolds ==
    ASSUME R!RebaseTypes, NEW c \in R!Commit
    PROVE  R!Ancestors[c] = {c} \cup UNION {R!Ancestors[p] : p \in R!Range(R!ParentsOf(c))}
<1> DEFINE line == [d \in R!Commit |-> R!Range(R!ParentsOf(d))]
<1>1. line \in [R!Commit -> SUBSET R!Commit] /\ \A d \in R!Commit : line[d] = R!Range(R!ParentsOf(d))
  BY ParentsBefore
<1> HIDE DEF line
<1>2. \E f : f = [d \in R!Commit |-> {d} \cup UNION {f[p] : p \in R!Range(R!ParentsOf(d))}]
  <2> DEFINE met == Met(R!Commit, line)
  <2>1. met = [d \in R!Commit |-> Above(d, met, line)]
    BY <1>1, MetIsSolution
  <2> HIDE DEF met
  <2>2. met = [d \in R!Commit |-> {d} \cup UNION {met[p] : p \in R!Range(R!ParentsOf(d))}]
    BY <1>1, <2>1 DEF Above
  <2> QED
    BY <2>2, Zenon
<1>3. R!Ancestors = [d \in R!Commit |->
                        {d} \cup UNION {R!Ancestors[p] : p \in R!Range(R!ParentsOf(d))}]
  BY <1>2 DEF R!Ancestors
<1> QED
  BY <1>3

\* It is a set of commits, with the parents of each.
LEMMA HistoryClosed ==
    ASSUME R!RebaseTypes, NEW h \in R!Commit
    PROVE  /\ h \in R!Ancestors[h] /\ R!Ancestors[h] \subseteq R!Commit
           /\ \A c \in R!Ancestors[h] : R!Range(R!ParentsOf(c)) \subseteq R!Ancestors[h]
<1> DEFINE Good(d) == /\ R!Ancestors[d] \subseteq R!Commit
                      /\ \A c \in R!Ancestors[d] : R!Range(R!ParentsOf(c)) \subseteq R!Ancestors[d]
           N == {d \in R!Commit : ~Good(d)}
<1>1. \A d \in R!Commit : d \in R!Ancestors[d]
  BY HistoryUnfolds
<1>2. N = {}
  <2> SUFFICES ASSUME N # {} PROVE FALSE
    OBVIOUS
  <2> HIDE DEF Good
  <2>1. PICK d \in N : \A m \in N : d <= m
    BY LeastMember, ParentsBefore
  <2> DEFINE P == R!Range(R!ParentsOf(d))
  <2>2. \A p \in P : p \in R!Commit /\ p < d /\ p \in Nat /\ d \in Nat
    BY <2>1, ParentsBefore
  <2>3. \A p \in P : Good(p)
    BY <2>1, <2>2
  <2>4. R!Ancestors[d] = {d} \cup UNION {R!Ancestors[p] : p \in P}
    BY <2>1, HistoryUnfolds
  <2>5. R!Ancestors[d] \subseteq R!Commit
    BY <2>1, <2>3, <2>4 DEF Good
  <2>6. ASSUME NEW c \in R!Ancestors[d], NEW q \in R!Range(R!ParentsOf(c))
        PROVE  q \in R!Ancestors[d]
    <3>1. CASE c = d
      BY <1>1, <2>2, <2>4, <2>6, <3>1
    <3>2. CASE c # d
      <4>1. PICK p \in P : c \in R!Ancestors[p]
        BY <2>4, <2>6, <3>2
      <4>2. q \in R!Ancestors[p]
        BY <2>3, <2>6, <4>1 DEF Good
      <4> QED
        BY <2>4, <4>2
    <3> QED
      BY <3>1, <3>2
  <2> QED
    BY <2>1, <2>5, <2>6 DEF Good
<1> QED
  BY <1>1, <1>2

\* When commits only add files, a commit has the files of all its history.
LEMMA HistoryInTree ==
    ASSUME R!RebaseTypes, R!OnlyAdditions, NEW h \in R!Commit, NEW c \in R!Ancestors[h]
    PROVE  R!Tree(c) \subseteq R!Tree(h)
<1> DEFINE N == {d \in R!Commit : c \in R!Ancestors[d] /\ ~(R!Tree(c) \subseteq R!Tree(d))}
<1> SUFFICES ASSUME N # {} PROVE FALSE
  OBVIOUS
<1>1. PICK d \in N : \A m \in N : d <= m
  BY LeastMember, ParentsBefore
<1> DEFINE P == R!Range(R!ParentsOf(d))
<1>2. \A p \in P : p \in R!Commit /\ p < d /\ p \in Nat /\ d \in Nat
  BY <1>1, ParentsBefore
<1>3. R!Ancestors[d] = {d} \cup UNION {R!Ancestors[p] : p \in P}
  BY <1>1, HistoryUnfolds
<1>4. PICK p \in P : c \in R!Ancestors[p]
  BY <1>1, <1>3
<1>5. R!Tree(c) \subseteq R!Tree(p)
  BY <1>1, <1>2, <1>4
<1>6. R!Tree(p) \subseteq R!Tree(d)
  BY <1>1, <1>4 DEF R!OnlyAdditions
<1> QED
  BY <1>1, <1>5, <1>6

\* A file of a commit was added in its history, by a commit that is no merge.
LEMMA AddedSomewhere ==
    ASSUME R!RebaseTypes, R!OnlyAdditions, NEW h \in R!Commit, NEW f \in R!Tree(h)
    PROVE  \E c \in R!Ancestors[h] : Len(R!ParentsOf(c)) <= 1 /\ f \in R!Additions(c)
<1> DEFINE N == {c \in R!Ancestors[h] : f \in R!Tree(c)}
<1>1. R!Ancestors[h] \subseteq Nat /\ N # {}
  BY HistoryClosed, ParentsBefore
<1>2. PICK c \in N : \A m \in N : c <= m
  BY <1>1, LeastMember
<1>3. c \in R!Commit /\ c \in R!Ancestors[h] /\ f \in R!Tree(c)
  BY <1>2, HistoryClosed
<1>4. ASSUME NEW p \in R!Range(R!ParentsOf(c)) PROVE f \notin R!Tree(p)
  <2>1. p \in R!Ancestors[h] /\ p < c /\ p \in Nat /\ c \in Nat
    BY <1>1, <1>3, HistoryClosed, ParentsBefore
  <2> QED
    BY <1>2, <2>1
<1>5. ~(Len(R!ParentsOf(c)) > 1)
  BY <1>3, <1>4 DEF R!OnlyAdditions
<1>6. R!ParentsOf(c) \in Seq(R!Commit) /\ Len(R!ParentsOf(c)) \in Nat
  BY <1>3, ParentsBefore
<1>7. f \notin R!FirstTree(c)
  <2>1. CASE R!ParentsOf(c) = <<>>
    BY <2>1 DEF R!FirstTree
  <2>2. CASE R!ParentsOf(c) # <<>>
    <3>1. R!ParentsOf(c)[1] \in R!Range(R!ParentsOf(c))
      BY <1>6, <2>2 DEF R!Range
    <3> QED
      BY <1>4, <2>2, <3>1 DEF R!FirstTree
  <2> QED
    BY <2>1, <2>2
<1> QED
  BY <1>3, <1>5, <1>6, <1>7 DEF R!Additions

-------------------------------------------------------------------------------
(* The plan of a rebase.                                                   *)

\* Sequences over a set are sequences over a larger one.
LEMMA SeqGrows == ASSUME NEW A, NEW D, A \subseteq D PROVE Seq(A) \subseteq Seq(D)
OBVIOUS

\* An instance counts as this module does.
LEMMA RanksCount ==
    ASSUME NEW S PROVE R!Cardinality(S) = Cardinality(S)
BY DEF R!Cardinality, Cardinality

\* Commits in order: all of them, and nothing else.
LEMMA OrderedHasAll ==
    ASSUME NEW S \in SUBSET Nat, IsFiniteSet(S)
    PROVE  R!Ordered(S) \in Seq(S) /\ R!Range(R!Ordered(S)) = S
<1> DEFINE n == Cardinality(S)
           rank(c) == Cardinality({d \in S : d < c})
           place == [c \in S |-> rank(c) + 1]
<1>1. n \in Nat
  BY FS_CardinalityType
<1>2. ASSUME NEW c \in S PROVE rank(c) \in Nat /\ rank(c) < n
  <2>1. /\ IsFiniteSet({d \in S : d < c}) /\ rank(c) <= n
        /\ n = rank(c) => S = {d \in S : d < c}
    BY FS_Subset
  <2>2. S # {d \in S : d < c}
    OBVIOUS
  <2>3. rank(c) \in Nat
    BY <2>1, FS_CardinalityType
  <2> QED
    BY <1>1, <2>1, <2>2, <2>3
<1>3. ASSUME NEW b \in S, NEW c \in S, b < c PROVE rank(b) < rank(c)
  <2> DEFINE X == {d \in S : d < b}
             Y == {d \in S : d < c}
  <2>1. IsFiniteSet(Y)
    BY FS_Subset
  <2>2. X \in SUBSET Y /\ b \in Y /\ b \notin X
    <3>1. ASSUME NEW d \in S, d < b PROVE d < c
      BY <1>3, <3>1
    <3>2. b \in Nat /\ ~(b < b)
      OBVIOUS
    <3> QED
      BY <1>3, <3>1, <3>2
  <2>3. Cardinality(X) <= Cardinality(Y) /\ Cardinality(X) # Cardinality(Y)
    BY <2>1, <2>2, FS_Subset
  <2> QED
    BY <1>2, <2>3
<1>4. ASSUME NEW b \in S, NEW c \in S, rank(b) = rank(c) PROVE b = c
  <2>1. ~(b < c) /\ ~(c < b)
    BY <1>2, <1>3, <1>4
  <2> QED
    BY <2>1
<1> HIDE DEF rank
<1>5. place \in Injection(S, 1..n)
  <2>1. place \in [S -> 1..n]
    BY <1>1, <1>2
  <2>2. \A b, c \in S : place[b] = place[c] => b = c
    BY <1>2, <1>4
  <2> QED
    BY <2>1, <2>2 DEF Injection, IsInjective
<1>6. IsFiniteSet(1..n) /\ Cardinality(1..n) = n
  BY <1>1, FS_Interval
<1>7. \A i \in 1..n : \E c \in S : place[c] = i
  <2>1. place \in Surjection(S, 1..n)
    BY <1>5, <1>6, FS_Injection
  <2> QED
    BY <2>1 DEF Surjection
<1>8. ASSUME NEW i \in 1..n
      PROVE  R!Ordered(S)[i] \in S /\ rank(R!Ordered(S)[i]) = i - 1
  <2>1. \E c \in S : rank(c) = i - 1
    BY <1>1, <1>2, <1>7
  <2>2. R!Ordered(S)[i] = CHOOSE c \in S : rank(c) = i - 1
    BY RanksCount DEF R!Ordered, R!Rank, rank
  <2> QED
    BY <2>1, <2>2
<1>9. DOMAIN R!Ordered(S) = 1..n
  BY RanksCount DEF R!Ordered
<1>10. R!Ordered(S) \in Seq(S)
  <2>1. R!Ordered(S) = [i \in 1..n |-> R!Ordered(S)[i]]
    BY RanksCount DEF R!Ordered
  <2> QED
    BY <1>1, <1>8, <2>1
<1>11. ASSUME NEW c \in S PROVE c \in R!Range(R!Ordered(S))
  <2>1. PICK i \in 1..n : i = rank(c) + 1
    BY <1>1, <1>2
  <2>2. R!Ordered(S)[i] \in S /\ rank(R!Ordered(S)[i]) = i - 1
    BY <1>8
  <2>3. rank(R!Ordered(S)[i]) = rank(c)
    BY <1>2, <2>1, <2>2
  <2>4. R!Ordered(S)[i] = c
    BY <1>4, <2>2, <2>3
  <2> QED
    BY <1>9, <2>4 DEF R!Range
<1> QED
  BY <1>8, <1>9, <1>10, <1>11 DEF R!Range

\* The picks that sit on the target already: a chain of commits from there.
LEMMA SkippedIsChain ==
    ASSUME NEW onto, NEW picks, Len(picks) \in Nat
    PROVE  /\ R!Skipped(onto, picks) \in 0..Len(picks)
           /\ \A i \in 1..R!Skipped(onto, picks) :
                 R!ParentsOf(picks[i]) = << IF i = 1 THEN onto ELSE picks[i - 1] >>
<1> DEFINE fits(i) == R!ParentsOf(picks[i]) = << IF i = 1 THEN onto ELSE picks[i - 1] >>
           onTop(n) == \A i \in 1..n : fits(i)
           chosen(n) == onTop(n) /\ \A m \in n + 1..Len(picks) : ~onTop(m)
           Off == {i \in 1..Len(picks) : ~fits(i)}
<1>1. R!Skipped(onto, picks) = CHOOSE n \in 0..Len(picks) : chosen(n)
  BY DEF R!Skipped
<1> HIDE DEF fits
<1>2. \E n \in 0..Len(picks) : chosen(n)
  <2>1. CASE Off = {}
    <3>1. onTop(Len(picks))
      BY <2>1
    <3>2. \A m \in Len(picks) + 1..Len(picks) : FALSE
      OBVIOUS
    <3> QED
      BY <3>1, <3>2
  <2>2. CASE Off # {}
    <3>0. Off \in SUBSET Nat
      OBVIOUS
    <3>1. PICK k \in Off : \A i \in Off : k <= i
      <4> HIDE DEF Off
      <4> QED
        BY <2>2, <3>0, LeastMember
    <3>2. k - 1 \in 0..Len(picks) /\ onTop(k - 1)
      BY <3>1
    <3>3. \A m \in (k - 1) + 1..Len(picks) : ~onTop(m)
      <4> SUFFICES ASSUME NEW m \in (k - 1) + 1..Len(picks) PROVE ~onTop(m)
        OBVIOUS
      <4>1. k \in 1..m /\ ~fits(k)
        BY <3>1
      <4> QED
        BY <4>1
    <3> QED
      BY <3>2, <3>3
  <2> QED
    BY <2>1, <2>2
<1> DEFINE n == R!Skipped(onto, picks)
<1> HIDE DEF n
<1>3. n \in 0..Len(picks) /\ onTop(n)
  <2> HIDE DEF chosen
  <2>1. n \in 0..Len(picks) /\ chosen(n)
    BY <1>1, <1>2 DEF n
  <2> QED
    BY <2>1 DEF chosen
<1> QED
  BY <1>3 DEF n, fits

\* A chain of commits that only add: the last has the files of each, and of the target.
LEMMA ChainGrows ==
    ASSUME R!RebaseTypes, R!OnlyAdditions, NEW onto \in R!Commit, NEW picks \in Seq(R!Commit),
           NEW n \in 0..Len(picks),
           \A i \in 1..n : R!ParentsOf(picks[i]) = << IF i = 1 THEN onto ELSE picks[i - 1] >>,
           NEW i \in 0..n
    PROVE  R!Tree(IF i = 0 THEN onto ELSE picks[i])
              \subseteq R!Tree(IF n = 0 THEN onto ELSE picks[n])
<1> DEFINE at(j) == IF j = 0 THEN onto ELSE picks[j]
           N == {j \in i..n : ~(R!Tree(at(i)) \subseteq R!Tree(at(j)))}
<1>1. Len(picks) \in Nat /\ n \in Nat /\ i \in Nat /\ \A j \in 0..n : at(j) \in R!Commit
  OBVIOUS
<1>2. ASSUME NEW j \in 1..n PROVE R!Tree(at(j - 1)) \subseteq R!Tree(at(j))
  <2>1. R!ParentsOf(picks[j]) = << at(j - 1) >>
    BY <1>1
  <2>2. at(j - 1) \in R!Range(R!ParentsOf(at(j)))
    <3>1. at(j) = picks[j]
      BY <1>1
    <3>2. 1 \in DOMAIN << at(j - 1) >> /\ << at(j - 1) >>[1] = at(j - 1)
      OBVIOUS
    <3> HIDE DEF at
    <3> QED
      BY <2>1, <3>1, <3>2 DEF R!Range
  <2> QED
    BY <1>1, <2>2 DEF R!OnlyAdditions
<1> HIDE DEF at
<1>3. N = {}
  <2> SUFFICES ASSUME N # {} PROVE FALSE
    OBVIOUS
  <2>0. N \in SUBSET Nat
    BY <1>1
  <2>1. PICK j \in N : \A m \in N : j <= m
    <3> HIDE DEF N
    <3> QED
      BY <2>0, LeastMember
  <2>2. j # i
    BY <2>1
  <2>3. j - 1 \in i..n /\ j - 1 < j /\ j \in 1..n
    BY <1>1, <2>1, <2>2
  <2>4. R!Tree(at(i)) \subseteq R!Tree(at(j - 1))
    BY <2>1, <2>3
  <2>5. R!Tree(at(j - 1)) \subseteq R!Tree(at(j))
    BY <1>2, <2>3
  <2> QED
    BY <2>1, <2>4, <2>5
<1>4. n \in i..n
  BY <1>1
<1> QED
  BY <1>3, <1>4 DEF at

\* A plan is a list of commits, and starts from one.
LEMMA PlanTyped ==
    ASSUME R!RebaseTypes, NEW h \in R!Commit, NEW up \in R!Commit, NEW onto \in R!Commit
    PROVE  LET picks == R!Filtered(up, h)
               n == R!Skipped(onto, picks)
           IN  /\ picks \in Seq(R!Commit) /\ n \in 0..Len(picks)
               /\ (IF n = 0 THEN onto ELSE picks[n]) \in R!Commit
               /\ R!Range(picks) = {d \in R!Side(h, up) :
                     R!PatchId(d) \notin {R!PatchId(e) : e \in R!Side(up, h)} \ {R!EmptyPatch}}
<1> DEFINE picks == R!Filtered(up, h)
           n == R!Skipped(onto, picks)
           S == {d \in R!Side(h, up) :
                   R!PatchId(d) \notin {R!PatchId(e) : e \in R!Side(up, h)} \ {R!EmptyPatch}}
<1>1. picks = R!Ordered(S)
  BY DEF R!Filtered
<1>2. S \subseteq R!Commit
  BY HistoryClosed DEF R!Side
<1>3. picks \in Seq(R!Commit) /\ R!Range(picks) = S
  <2>1. IsFiniteSet(R!Commit) /\ R!Commit \subseteq Nat
    BY ParentsBefore, FS_Interval
  <2> HIDE DEF picks, S
  <2>2. IsFiniteSet(S) /\ S \in SUBSET Nat
    BY <1>2, <2>1, FS_Subset
  <2>3. picks \in Seq(S) /\ R!Range(picks) = S
    BY <1>1, <2>2, OrderedHasAll
  <2> QED
    BY <1>2, <2>3, SeqGrows
<1> HIDE DEF picks, S
<1>4. Len(picks) \in Nat /\ n \in 0..Len(picks)
  BY <1>3, SkippedIsChain
<1> HIDE DEF n
<1>5. (IF n = 0 THEN onto ELSE picks[n]) \in R!Commit
  BY <1>3, <1>4
<1> QED
  BY <1>3, <1>4, <1>5 DEF n, picks, S

\* When commits only add files, a commit has those of its first parent.
LEMMA FirstInTree ==
    ASSUME R!RebaseTypes, R!OnlyAdditions, NEW c \in R!Commit
    PROVE  R!FirstTree(c) \subseteq R!Tree(c)
<1>1. CASE R!ParentsOf(c) = <<>>
  BY <1>1 DEF R!FirstTree
<1>2. CASE R!ParentsOf(c) # <<>>
  <2>1. R!ParentsOf(c) \in Seq(R!Commit)
    BY ParentsBefore
  <2>2. R!ParentsOf(c)[1] \in R!Range(R!ParentsOf(c))
    BY <1>2, <2>1 DEF R!Range
  <2> QED
    BY <1>2, <2>2 DEF R!FirstTree, R!OnlyAdditions
<1> QED
  BY <1>1, <1>2

\* What is planned for h onto the upstream keeps every file of both, when commits only add:
\* a file of h comes with a commit that is upstream, or has its patch there, or is on the
\* target, or is picked.
LEMMA PlanKeepsAll ==
    ASSUME R!RebaseTypes, R!OnlyAdditions, NEW h \in R!Commit, NEW onto \in R!Commit
    PROVE  LET picks == R!Filtered(onto, h)
               n == R!Skipped(onto, picks)
               target == IF n = 0 THEN onto ELSE picks[n]
           IN  /\ picks \in Seq(R!Commit) /\ n \in 0..Len(picks) /\ target \in R!Commit
               /\ R!Tree(h) \cup R!Tree(onto)
                     \subseteq R!Tree(target) \cup UNION {R!Additions(picks[i]) : i \in n + 1..Len(picks)}
<1> DEFINE picks == R!Filtered(onto, h)
           n == R!Skipped(onto, picks)
           target == IF n = 0 THEN onto ELSE picks[n]
           theirs == {R!PatchId(d) : d \in R!Side(onto, h)} \ {R!EmptyPatch}
           S == {d \in R!Side(h, onto) : R!PatchId(d) \notin theirs}
<1>1. /\ picks \in Seq(R!Commit) /\ R!Range(picks) = S
      /\ n \in 0..Len(picks) /\ target \in R!Commit
  BY PlanTyped
<1>2. R!Side(onto, h) \subseteq R!Ancestors[onto]
  BY DEF R!Side
<1>3. picks \in Seq(R!Commit) /\ R!Range(picks) = S
  BY <1>1
<1> HIDE DEF picks, S, theirs
<1>4. /\ Len(picks) \in Nat /\ n \in 0..Len(picks)
      /\ \A i \in 1..n : R!ParentsOf(picks[i]) = << IF i = 1 THEN onto ELSE picks[i - 1] >>
  BY <1>3, SkippedIsChain
<1> HIDE DEF n
<1>5. target \in R!Commit
  BY <1>1
<1>6. R!Tree(onto) \subseteq R!Tree(target)
  <2>1. 0 \in 0..n
    BY <1>4
  <2> QED
    BY <1>3, <1>4, <2>1, ChainGrows
<1>7. ASSUME NEW i \in 1..n PROVE R!Tree(picks[i]) \subseteq R!Tree(target)
  <2>1. i \in 0..n /\ i # 0
    BY <1>4
  <2> QED
    BY <1>3, <1>4, <2>1, ChainGrows
<1> HIDE DEF target
<1>8. ASSUME NEW f \in R!Tree(h)
      PROVE  f \in R!Tree(target) \cup UNION {R!Additions(picks[i]) : i \in n + 1..Len(picks)}
  <2>1. PICK c \in R!Ancestors[h] : Len(R!ParentsOf(c)) <= 1 /\ f \in R!Additions(c)
    BY AddedSomewhere
  <2>2. CASE c \in R!Ancestors[onto]
    <3>1. f \in R!Tree(onto)
      BY <2>1, <2>2, HistoryInTree DEF R!Additions
    <3> QED
      BY <1>6, <3>1
  <2>3. CASE c \in S
    <3>1. PICK i \in 1..Len(picks) : picks[i] = c
      BY <1>3, <2>3 DEF R!Range
    <3>2. CASE i <= n
      <4>1. i \in 1..n /\ f \in R!Tree(picks[i])
        BY <1>4, <2>1, <3>1, <3>2 DEF R!Additions
      <4> QED
        BY <1>7, <4>1
    <3>3. CASE ~(i <= n)
      <4>1. i \in n + 1..Len(picks) /\ f \in R!Additions(picks[i])
        BY <1>4, <2>1, <3>1, <3>3
      <4> QED
        BY <4>1
    <3> QED
      BY <3>2, <3>3
  <2>4. CASE c \notin R!Ancestors[onto] /\ c \notin S
    <3>1. R!PatchId(c) \in theirs
      BY <2>1, <2>4 DEF R!Side, S
    <3>2. PICK d \in R!Side(onto, h) : R!PatchId(c) = R!PatchId(d)
      BY <3>1 DEF theirs
    <3>3. f \in R!Tree(d)
      BY <2>1, <3>2 DEF R!PatchId, R!Additions
    <3>4. f \in R!Tree(onto)
      BY <1>2, <3>2, <3>3, HistoryInTree
    <3> QED
      BY <1>6, <3>4
  <2> QED
    BY <2>2, <2>3, <2>4
<1>9. R!Tree(h) \cup R!Tree(onto)
         \subseteq R!Tree(target) \cup UNION {R!Additions(picks[i]) : i \in n + 1..Len(picks)}
  BY <1>6, <1>8
<1> QED
  BY <1>3, <1>4, <1>5, <1>9 DEF n, target, picks

-------------------------------------------------------------------------------
(* What the steps of a rebase do to commits and refs.                      *)

\* What R!RebaseTypes asks of commits, and of refs and HEAD.
CommitsTyped ==
    /\ s1 \in Seq([parents : Seq(Nat), tree : SUBSET TreeFile])
    /\ \A c \in R!Commit : \A i \in 1..Len(R!ParentsOf(c)) : R!ParentsOf(c)[i] \in 1..c - 1
RefsTyped == s2 \in [RebaseBranch -> R!Commit] /\ s3 \in RebaseBranch \cup {None} /\ s4 \in R!Commit

\* The commits there are stay what they are.
CommitsStay ==
    /\ CommitsTyped' /\ R!Commit \subseteq R!Commit'
    /\ \A c \in R!Commit : R!Tree(c)' = R!Tree(c) /\ R!FirstTree(c)' = R!FirstTree(c)

\* HEAD is at a commit, and its tree is a set of files.
LEMMA HeadIsCommit ==
    ASSUME R!RebaseTypes
    PROVE  R!HeadCommit \in R!Commit /\ R!HeadTree \in SUBSET TreeFile
<1>1. R!HeadCommit \in R!Commit
  BY DEF R!RebaseTypes, R!HeadCommit
<1> QED
  BY <1>1, ParentsBefore DEF R!HeadTree

\* A step that makes no commit keeps those there are.
LEMMA SameCommits == ASSUME R!RebaseTypes, s1' = s1 PROVE CommitsStay /\ R!Commit' = R!Commit
BY DEF R!RebaseTypes, CommitsStay, CommitsTyped, R!Commit, R!Tree, R!FirstTree, R!ParentsOf

\* So does one that makes a commit, which is the last, with its tree.
LEMMA NewCommit ==
    ASSUME R!RebaseTypes, NEW ps \in Seq(R!Commit), NEW t \in SUBSET TreeFile,
           NEW n, n = Len(s1) + 1, s1' = Append(s1, [parents |-> ps, tree |-> t])
    PROVE  CommitsStay /\ n \in R!Commit' /\ R!Tree(n)' = t
<1> DEFINE new == [parents |-> ps, tree |-> t]
           K == [parents : Seq(Nat), tree : SUBSET TreeFile]
<1>1. s1 \in Seq(K) /\ Len(s1) \in Nat /\ R!Commit = 1..Len(s1) /\ R!Commit \subseteq Nat
  BY ParentsBefore DEF R!RebaseTypes
<1>2. ps \in Seq(Nat)
  BY <1>1
<1>3. new \in K
  BY <1>2
<1>4. new.parents = ps /\ new.tree = t
  OBVIOUS
<1> HIDE DEF K, new
<1>5. /\ s1' \in Seq(K) /\ Len(s1') = n /\ s1'[n] = new
      /\ \A c \in 1..Len(s1) : s1'[c] = s1[c]
  BY <1>1, <1>3 DEF new
<1>6. R!Commit' = 1..n
  BY <1>5 DEF R!Commit
<1>7. \A c \in R!Commit : R!Tree(c)' = R!Tree(c) /\ R!ParentsOf(c)' = R!ParentsOf(c)
  BY <1>1, <1>5 DEF R!Tree, R!ParentsOf
<1>8. R!Tree(n)' = t /\ R!ParentsOf(n)' = ps
  BY <1>4, <1>5 DEF R!Tree, R!ParentsOf
<1>9. ASSUME NEW c \in R!Commit PROVE R!FirstTree(c)' = R!FirstTree(c)
  <2>1. R!ParentsOf(c) # <<>> => R!ParentsOf(c)[1] \in R!Commit
    BY ParentsBefore
  <2> QED
    BY <1>7, <2>1 DEF R!FirstTree
<1>10. ASSUME NEW c \in R!Commit', NEW i \in 1..Len(R!ParentsOf(c)') PROVE R!ParentsOf(c)'[i] \in 1..c - 1
  <2>1. CASE c \in R!Commit
    BY <1>7, <1>10, <2>1 DEF R!RebaseTypes
  <2>2. CASE c \notin R!Commit
    <3>1. c = n
      BY <1>1, <1>6, <2>2
    <3>2. ps[i] \in R!Commit
      BY <1>8, <1>10, <3>1
    <3> QED
      BY <1>1, <1>8, <3>1, <3>2
  <2> QED
    BY <2>1, <2>2
<1>11. CommitsTyped'
  BY <1>5, <1>10 DEF CommitsTyped, K
<1>12. R!Commit \subseteq R!Commit' /\ n \in R!Commit'
  BY <1>1, <1>6
<1> QED
  BY <1>7, <1>8, <1>9, <1>11, <1>12 DEF CommitsStay

\* The branch HEAD is on, or HEAD, is at the commit it was advanced to.
LEMMA AdvanceMoves ==
    ASSUME R!RebaseTypes, CommitsStay, NEW c \in R!Commit', R!Advance(c)
    PROVE  RefsTyped' /\ R!HeadCommit' = c
<1>1. /\ s2 \in [RebaseBranch -> R!Commit] /\ s3 \in RebaseBranch \cup {None} /\ s4 \in R!Commit
      /\ R!Commit \subseteq R!Commit'
  BY DEF R!RebaseTypes, CommitsStay
<1>2. CASE s3 = None
  BY <1>1, <1>2 DEF R!Advance, RefsTyped, R!HeadCommit
<1>3. CASE s3 # None
  <2>1. s2' = [s2 EXCEPT ![s3] = c] /\ s3' = s3 /\ s4' = s4 /\ s3 \in RebaseBranch
    BY <1>1, <1>3 DEF R!Advance
  <2>2. s2' \in [RebaseBranch -> R!Commit'] /\ s2'[s3] = c
    BY <1>1, <2>1
  <2> QED
    BY <1>1, <1>3, <2>1, <2>2 DEF RefsTyped, R!HeadCommit
<1> QED
  BY <1>2, <1>3

\* Where commits, refs and HEAD stay, so does what HEAD has.
LEMMA HeadStays ==
    ASSUME R!RebaseTypes, UNCHANGED <<s1, s2, s3, s4>>
    PROVE  /\ CommitsStay /\ R!Commit' = R!Commit /\ RefsTyped'
           /\ R!HeadCommit' = R!HeadCommit /\ R!HeadTree' = R!HeadTree
<1>1. CommitsStay /\ R!Commit' = R!Commit
  BY SameCommits
<1>2. R!HeadCommit' = R!HeadCommit
  BY DEF R!HeadCommit
<1>3. R!HeadTree' = R!HeadTree
  BY <1>2 DEF R!HeadTree, R!Tree
<1>4. RefsTyped'
  BY <1>1 DEF RefsTyped, R!RebaseTypes
<1> QED
  BY <1>1, <1>2, <1>3, <1>4

\* What is in .git/rebase-merge,
LEMMA StateTypes ==
    ASSUME R!RebaseAssumption, R!RebaseTypes
    PROVE  /\ None \notin R!RebaseState /\ Torn \notin R!RebaseState /\ None \notin R!Commit
           /\ None # Torn
           /\ \A r \in R!RebaseState :
                 /\ r.todo \in Seq(R!Commit) /\ R!Range(r.todo) \subseteq R!Commit
                 /\ r.headName \in RebaseBranch \cup {None} /\ r.origHead \in R!Commit
                 /\ r.last \in R!Commit \cup {None} /\ R!Target(r) \in R!Commit
<1>1. R!Commit \subseteq Nat /\ None \notin Nat /\ None # Torn
  BY ParentsBefore DEF R!RebaseAssumption
<1>2. Seq(R!Commit) \subseteq Seq(Nat)
  BY <1>1, SeqGrows
<1>3. R!RebaseState \subseteq [headName : RebaseBranch \cup {None}, origHead : Nat, onto : Nat,
                              todo : Seq(Nat), last : Nat \cup {None}, message : BOOLEAN]
  BY <1>1, <1>2 DEF R!RebaseState
<1>4. ASSUME NEW r \in R!RebaseState
      PROVE  /\ r.todo \in Seq(R!Commit) /\ r.headName \in RebaseBranch \cup {None}
             /\ r.origHead \in R!Commit /\ r.last \in R!Commit \cup {None} /\ r.onto \in R!Commit
  BY DEF R!RebaseState
<1>5. ASSUME NEW r \in R!RebaseState PROVE R!Range(r.todo) \subseteq R!Commit
  BY <1>4 DEF R!Range
<1>6. ASSUME NEW r \in R!RebaseState PROVE R!Target(r) \in R!Commit
  BY <1>4 DEF R!Target
<1>7. None \notin R!RebaseState /\ Torn \notin R!RebaseState
  BY <1>3 DEF R!RebaseAssumption
<1> QED
  BY <1>1, <1>4, <1>5, <1>6, <1>7

\* with the message or not, and with another list.
LEMMA WithMessage ==
    ASSUME NEW r \in R!RebaseState, NEW b \in BOOLEAN
    PROVE  LET x == [r EXCEPT !.message = b]
           IN  x \in R!RebaseState /\ x.todo = r.todo
BY DEF R!RebaseState

LEMMA WithTodo ==
    ASSUME NEW r \in R!RebaseState, NEW q \in Seq(R!Commit)
    PROVE  LET x == [r EXCEPT !.todo = q]
           IN  x \in R!RebaseState /\ x.todo = q
BY DEF R!RebaseState

\* A state of a rebase is one still when there are more commits.
LEMMA StateStays ==
    ASSUME R!RebaseTypes, CommitsStay
    PROVE  R!RebaseState \subseteq R!RebaseState'
<1>1. R!Commit \subseteq R!Commit'
  BY DEF CommitsStay
<1>2. Seq(R!Commit) \subseteq Seq(R!Commit')
  BY <1>1, SeqGrows
<1> QED
  BY <1>1, <1>2 DEF R!RebaseState

-------------------------------------------------------------------------------
(* A rebase that runs keeps what it is to keep.                            *)

\* Where a file of the goal is: R!WorkOnTheWay says it is there.
IndexTypes == [tree : SUBSET TreeFile, conflicted : BOOLEAN]
Covered ==
    /\ s13 # {} => \A c \in R!Left : R!FirstTree(c) \subseteq R!Tree(c)
    /\ R!Kept \subseteq R!StartTree \cup (UNION {R!Additions(c) : c \in R!Left}) \cup R!Staged

\* What is on disk, and in the process, is a state of a rebase, or none.
LEMMA StatesAre ==
    ASSUME R!RebaseAssumption, RebaseInv
    PROVE  /\ R!UnderWay => s7 \in R!RebaseState
           /\ s15 # None => s15 \in R!RebaseState
           /\ s7 \in R!RebaseState \cup {None, Torn} /\ s15 \in R!RebaseState \cup {None}
           /\ \A r \in R!RebaseState : r \notin {None, Torn}
BY StateTypes DEF RebaseInv, R!RebaseTypes, R!UnderWay

\* What is left to pick are commits.
LEMMA LeftIsCommits ==
    ASSUME R!RebaseAssumption, RebaseInv PROVE R!Left \subseteq R!Commit
<1>1. R!UnderWay => R!Range(s7.todo) \subseteq R!Commit
  BY StatesAre, StateTypes DEF RebaseInv
<1>2. s11 \in R!Picking => R!Picked \in R!Commit
  BY DEF RebaseInv, R!Places
<1>3. s11 \in R!Starting => R!Range(s15.todo) \subseteq R!Commit
  <2>1. s11 \in R!Starting => s15 # None
    BY DEF RebaseInv, R!Places, R!Starting
  <2> QED
    BY <2>1, StatesAre, StateTypes DEF RebaseInv
<1> QED
  BY <1>1, <1>2, <1>3 DEF R!Left

\* Types after a step, from those of its parts.
LEMMA TypesFollow ==
    ASSUME RebaseInv, CommitsStay, RefsTyped',
           s5' \in IndexTypes, s7' \in R!RebaseState \cup {None, Torn},
           s15' \in R!RebaseState \cup {None}, s9' \in R!Commit' \cup {None}, s12' \in Nat,
           s13' \subseteq TreeFile
    PROVE  R!RebaseTypes'
<1>1. s7' \in R!RebaseState' \cup {None, Torn} /\ s15' \in R!RebaseState' \cup {None}
  BY StateStays DEF RebaseInv
<1> QED
  BY <1>1 DEF CommitsStay, CommitsTyped, RefsTyped, R!RebaseTypes, IndexTypes

\* A step after which nothing is to be kept.
LEMMA NothingToKeep ==
    ASSUME RebaseInv, CommitsStay, RefsTyped',
           s5' \in IndexTypes, s7' \in R!RebaseState \cup {None, Torn},
           s15' \in R!RebaseState \cup {None}, s9' \in R!Commit' \cup {None}, s12' \in Nat,
           s13' = {}
    PROVE  /\ R!RebaseTypes' /\ Covered' /\ R!Kept' = {}
           /\ (R!UnderWay => R!Kept \cap R!HeadTree \subseteq s5.tree)'
<1>1. R!RebaseTypes'
  BY TypesFollow
<1>2. R!Kept' = {}
  BY DEF R!Kept
<1> QED
  BY <1>1, <1>2 DEF Covered

\* A step that leaves no more to pick, and no file of the goal behind.
LEMMA WorkFollows ==
    ASSUME R!RebaseAssumption, RebaseInv, CommitsStay, RefsTyped',
           s5' \in IndexTypes, s7' \in R!RebaseState \cup {None, Torn},
           s15' \in R!RebaseState \cup {None}, s9' \in R!Commit' \cup {None}, s12' \in Nat,
           s13' = s13, s14 \subseteq s14', R!Left' \subseteq R!Left,
           \A f \in R!Kept' :
              /\ f \in R!StartTree \cup R!Staged => f \in R!StartTree' \cup R!Staged'
              /\ \A c \in R!Left \ R!Left' : f \in R!Additions(c) => f \in R!StartTree' \cup R!Staged'
    PROVE  R!RebaseTypes' /\ Covered'
<1>2. R!RebaseTypes'
  BY TypesFollow DEF RebaseInv, R!RebaseTypes
<1>3. \A c \in R!Left : /\ R!FirstTree(c)' = R!FirstTree(c) /\ R!Tree(c)' = R!Tree(c)
                        /\ R!Additions(c)' = R!Additions(c)
  BY LeftIsCommits DEF CommitsStay, R!Additions
<1>4. s13' # {} => \A c \in R!Left' : R!FirstTree(c)' \subseteq R!Tree(c)'
  BY <1>3 DEF RebaseInv, R!WorkOnTheWay
<1>5. ASSUME NEW f \in R!Kept'
      PROVE  f \in R!StartTree' \cup (UNION {R!Additions(c)' : c \in R!Left'}) \cup R!Staged'
  <2>1. f \in R!Kept
    BY <1>5 DEF R!Kept
  <2>2. CASE f \in R!StartTree \cup R!Staged
    BY <2>2
  <2>3. ASSUME NEW c \in R!Left, f \in R!Additions(c)
        PROVE  f \in R!StartTree' \cup (UNION {R!Additions(d)' : d \in R!Left'}) \cup R!Staged'
    <3>1. CASE c \in R!Left'
      BY <1>3, <2>3, <3>1
    <3>2. CASE c \notin R!Left'
      BY <2>3, <3>2
    <3> QED
      BY <3>1, <3>2
  <2> QED
    BY <2>1, <2>2, <2>3 DEF RebaseInv, R!WorkOnTheWay
<1> QED
  BY <1>2, <1>4, <1>5 DEF Covered

\* The parts of the invariant are the invariant.
LEMMA InvFollows ==
    ASSUME R!RebaseTypes', Covered', R!Places', R!AbortOnTheWay',
           (R!UnderWay => R!Kept \cap R!HeadTree \subseteq s5.tree)',
           (/\ s11 \in R!Starting => s5.tree = R!Tree(R!Target(s15))
            /\ s11 \in R!Starting \ {"ff", "detach"} => R!HeadCommit = R!Target(s15)
            /\ s11 \in {"make", "conflict"} => R!Additions(R!Picked) \subseteq s5.tree
            /\ s11 = "take" => R!PickFastForwards /\ s5.tree = R!Tree(R!Picked)
            /\ s11 \in {"reattach", "clean"} /\ R!UnderWay => s7.todo = <<>>
            /\ s11 = "reattach" => R!Kept \subseteq R!TipTree(s15.headName))'
    PROVE  RebaseInv'
BY DEF RebaseInv, Covered, R!WorkOnTheWay

\* Between the steps of a process nothing is known to be there but what these say.
Calm == {"idle", "loop", "committed", "step", "clear"}
LEMMA CalmFollows ==
    ASSUME R!RebaseTypes', Covered', s11' \in Calm, s15' = None, s11' # "idle" => R!UnderWay',
           (R!UnderWay => R!Kept \cap R!HeadTree \subseteq s5.tree)'
    PROVE  RebaseInv'
<1>1. R!Places' /\ R!AbortOnTheWay'
  BY DEF Calm, R!Places, R!AbortOnTheWay, R!Undoing, R!Starting, R!Picking
<1>2. /\ s11' \notin R!Starting /\ s11' \notin {"make", "conflict", "take", "reattach", "clean"}
  BY DEF Calm, R!Starting
<1> QED
  BY <1>1, <1>2, InvFollows

LEMMA BeginningKeeps ==
    ASSUME R!RebaseAssumption, RebaseInv, s12' \in Nat, R!Beginning PROVE RebaseInv'
<1>1. /\ s11 \in {"ff", "detach", "unpick", "mkdir", "state"}
      /\ UNCHANGED <<s1, s5, s8, s9, s13, s14>>
  BY DEF R!Beginning, R!FastForward, R!Detach, R!ForgetPick, R!WriteState, R!markers, R!ghosts, R!repo
<1>2. /\ s15 # None /\ s15 \in R!RebaseState /\ R!Target(s15) \in R!Commit
      /\ s7 = IF s11 = "state" THEN Torn ELSE None
      /\ s5.tree = R!Tree(R!Target(s15)) /\ ~R!UnderWay
      /\ s11 \notin {"ff", "detach"} => R!HeadCommit = R!Target(s15)
  <2>1. s15 # None /\ s7 = IF s11 = "state" THEN Torn ELSE None
    BY <1>1 DEF RebaseInv, R!Places, R!Starting
  <2>2. s15 \in R!RebaseState /\ R!Target(s15) \in R!Commit
    BY <2>1, StatesAre, StateTypes DEF RebaseInv
  <2> QED
    BY <1>1, <2>1, <2>2 DEF RebaseInv, R!WorkOnTheWay, R!Starting, R!UnderWay
<1>3. s5' \in IndexTypes /\ R!RebaseTypes
  BY <1>1 DEF RebaseInv, R!RebaseTypes, IndexTypes
<1>4. CommitsStay /\ R!Commit' = R!Commit /\ s9' \in R!Commit' \cup {None}
  BY <1>1, SameCommits DEF RebaseInv, R!RebaseTypes
<1>5. R!Left = IF s11 = "ff" THEN {} ELSE R!Range(s15.todo)
  BY <1>1, <1>2 DEF R!Left, R!Starting, R!Picking
<1>6. R!Staged = {} /\ s14 \subseteq s14' /\ s13' = s13
  BY <1>1, <1>2 DEF R!Staged
<1>7. PICK c \in R!Commit : c = R!Target(s15)
  BY <1>2
<1>8. CASE R!FastForward
  <2>1. /\ s11 = "ff" /\ R!Advance(c) /\ s7' = s7 /\ s11' = "idle" /\ s15' = None
    BY <1>7, <1>8 DEF R!FastForward, R!Stop, R!GoWithout
  <2>2. RefsTyped' /\ R!HeadCommit' = c
    BY <1>3, <1>4, <2>1, AdvanceMoves
  <2>3. R!HeadTree' = R!Tree(c)
    BY <1>1, <2>2 DEF R!HeadTree, R!Tree
  <2>4. R!Left' = {} /\ R!StartTree' = R!StartTree /\ ~R!UnderWay'
    BY <1>1, <1>2, <1>7, <2>1, <2>3 DEF R!Left, R!StartTree, R!UnderWay, R!Picking, R!Starting
  <2>5. s7' \in R!RebaseState \cup {None, Torn} /\ s15' \in R!RebaseState \cup {None}
    BY <1>2, <2>1
  <2>6. R!RebaseTypes' /\ Covered'
    BY <1>1, <1>3, <1>4, <1>5, <1>6, <2>1, <2>2, <2>4, <2>5, WorkFollows
  <2> QED
    BY <2>1, <2>4, <2>6, CalmFollows DEF Calm
<1>9. CASE R!Detach
  <2>1. /\ s11 = "detach" /\ s2' = s2 /\ s3' = None /\ s4' = c /\ s7' = s7
        /\ s11' = "unpick" /\ s15' = s15
    BY <1>7, <1>9 DEF R!Detach, R!Go
  <2>2. RefsTyped' /\ R!HeadCommit' = c
    BY <1>3, <1>4, <2>1 DEF RefsTyped, R!HeadCommit, R!RebaseTypes
  <2>3. R!HeadTree' = R!Tree(c)
    BY <1>1, <2>2 DEF R!HeadTree, R!Tree
  <2>4. R!Left' = R!Left /\ R!StartTree' = R!StartTree /\ ~R!UnderWay'
    BY <1>1, <1>2, <1>5, <1>7, <2>1, <2>3 DEF R!Left, R!StartTree, R!UnderWay, R!Picking, R!Starting
  <2>5. s7' \in R!RebaseState \cup {None, Torn} /\ s15' \in R!RebaseState \cup {None}
    BY <1>2, <2>1
  <2>6. R!RebaseTypes' /\ Covered'
    BY <1>1, <1>3, <1>4, <1>6, <2>1, <2>2, <2>4, <2>5, WorkFollows
  <2>7. R!Places' /\ R!AbortOnTheWay'
    BY <1>2, <2>1 DEF R!Places, R!AbortOnTheWay, R!Undoing, R!Starting, R!Picking
  <2>8. (R!Tree(R!Target(s15)))' = R!Tree(R!Target(s15)) /\ (R!Target(s15))' = c
    BY <1>1, <1>7, <2>1 DEF R!Tree, R!Target
  <2> QED
    BY <1>1, <1>2, <2>1, <2>2, <2>4, <2>6, <2>7, <2>8, InvFollows
<1>10. CASE R!ForgetPick \/ R!WriteState
  <2>1. /\ s11 \in {"unpick", "mkdir", "state"} /\ UNCHANGED <<s2, s3, s4>>
        /\ \/ s11 = "unpick" /\ s7' = s7 /\ s11' = "mkdir" /\ s15' = s15
           \/ s11 = "mkdir" /\ s7' = Torn /\ s11' = "state" /\ s15' = s15
           \/ s11 = "state" /\ s7' = s15 /\ s11' = "loop" /\ s15' = None
    BY <1>10 DEF R!ForgetPick, R!WriteState, R!repo, R!Go, R!GoWithout
  <2>2. RefsTyped' /\ R!HeadCommit' = R!HeadCommit /\ R!HeadTree' = R!HeadTree
    BY <1>1, <1>3, <2>1, HeadStays
  <2>3. R!UnderWay' <=> s11 = "state"
    BY <1>2, <2>1, StateTypes DEF RebaseInv, R!UnderWay
  <2>4. R!Left' = R!Left
    BY <1>2, <1>5, <2>1, <2>3 DEF R!Left, R!Picking, R!Starting
  <2>5. R!StartTree' = R!StartTree /\ R!Staged' = {}
    BY <2>1, <2>2 DEF R!StartTree, R!Staged
  <2>6. s7' \in R!RebaseState \cup {None, Torn} /\ s15' \in R!RebaseState \cup {None}
    BY <1>2, <2>1
  <2>7. R!RebaseTypes' /\ Covered'
    BY <1>1, <1>3, <1>4, <1>6, <2>1, <2>2, <2>4, <2>5, <2>6, WorkFollows
  <2>8. R!HeadTree' = s5'.tree
    BY <1>1, <1>2, <2>1, <2>2 DEF R!HeadTree
  <2>9. CASE s11 = "state"
    BY <2>1, <2>3, <2>7, <2>8, <2>9, CalmFollows DEF Calm
  <2>10. CASE s11 # "state"
    <3>1. R!Places' /\ R!AbortOnTheWay'
      BY <1>2, <2>1, <2>10 DEF R!Places, R!AbortOnTheWay, R!Undoing, R!Starting, R!Picking
    <3>2. (R!Tree(R!Target(s15)))' = R!Tree(R!Target(s15)) /\ (R!Target(s15))' = R!Target(s15)
      BY <1>1, <2>1, <2>10 DEF R!Tree, R!Target
    <3> QED
      BY <1>1, <1>2, <2>1, <2>2, <2>3, <2>7, <2>10, <3>1, <3>2, InvFollows
  <2> QED
    BY <2>9, <2>10
<1> QED
  BY <1>8, <1>9, <1>10 DEF R!Beginning

\* A list is its first and the rest; putting one in front adds it.
LEMMA FirstAndRest ==
    ASSUME NEW A, NEW q \in Seq(A)
    PROVE  /\ q # <<>> => /\ Head(q) \in A /\ Tail(q) \in Seq(A)
                          /\ R!Range(q) = R!Range(Tail(q)) \cup {Head(q)}
           /\ \A x \in A : << x >> \o q \in Seq(A) /\ R!Range(<< x >> \o q) = R!Range(q) \cup {x}
<1>1. ASSUME q # <<>> PROVE R!Range(q) = R!Range(Tail(q)) \cup {Head(q)}
  <2>0. Len(q) \in Nat /\ Len(q) # 0 /\ Len(Tail(q)) = Len(q) - 1
    BY <1>1
  <2>1. ASSUME NEW i \in 1..Len(q) PROVE q[i] \in R!Range(Tail(q)) \cup {Head(q)}
    <3>1. CASE i = 1
      BY <1>1, <3>1
    <3>2. CASE i # 1
      <4>1. i - 1 \in 1..Len(Tail(q)) /\ Tail(q)[i - 1] = q[i]
        BY <1>1, <2>0, <3>2
      <4> QED
        BY <4>1 DEF R!Range
    <3> QED
      BY <3>1, <3>2
  <2>2. ASSUME NEW i \in 1..Len(Tail(q)) PROVE Tail(q)[i] \in R!Range(q)
    <3>1. i + 1 \in 1..Len(q) /\ Tail(q)[i] = q[i + 1]
      BY <1>1, <2>0
    <3> QED
      BY <3>1 DEF R!Range
  <2>3. Head(q) \in R!Range(q)
    BY <1>1, <2>0 DEF R!Range
  <2> QED
    BY <2>1, <2>2, <2>3 DEF R!Range
<1>2. ASSUME NEW x \in A PROVE R!Range(<< x >> \o q) = R!Range(q) \cup {x}
  <2> DEFINE p == << x >> \o q
  <2>1. p \in Seq(A) /\ Len(p) = Len(q) + 1 /\ Len(q) \in Nat /\ p[1] = x
        /\ \A i \in 1..Len(q) : p[i + 1] = q[i]
    OBVIOUS
  <2> HIDE DEF p
  <2>2. ASSUME NEW i \in 1..Len(p) PROVE p[i] \in R!Range(q) \cup {x}
    <3>1. CASE i = 1
      BY <2>1, <3>1
    <3>2. CASE i # 1
      <4>1. i - 1 \in 1..Len(q) /\ (i - 1) + 1 = i
        BY <2>1, <3>2
      <4>2. p[i] = q[i - 1]
        BY <2>1, <4>1
      <4> QED
        BY <4>1, <4>2 DEF R!Range
    <3> QED
      BY <3>1, <3>2
  <2>3. ASSUME NEW i \in 1..Len(q) PROVE q[i] \in R!Range(p)
    <3>1. i + 1 \in 1..Len(p) /\ p[i + 1] = q[i]
      BY <2>1
    <3> QED
      BY <3>1 DEF R!Range
  <2>4. x \in R!Range(p)
    <3>1. 1 \in 1..Len(p) /\ p[1] = x
      BY <2>1
    <3> QED
      BY <2>1, <3>1 DEF R!Range
  <2>5. DOMAIN p = 1..Len(p) /\ DOMAIN q = 1..Len(q)
    BY <2>1
  <2> QED
    BY <2>2, <2>3, <2>4, <2>5 DEF R!Range, p
<1> QED
  BY <1>1, <1>2

\* A step that leaves commits, refs and the index alone.
LEMMA QuietFollows ==
    ASSUME R!RebaseAssumption, RebaseInv, UNCHANGED <<s1, s2, s3, s4, s5, s13>>, s14 \subseteq s14',
           s7' \in R!RebaseState \cup {None, Torn}, s15' \in R!RebaseState \cup {None},
           s9' \in R!Commit \cup {None}, s12' \in Nat,
           s11 \notin {"ff", "detach"}, s11' \notin {"ff", "detach"}, R!UnderWay' => R!UnderWay,
           R!Left' \subseteq R!Left,
           \A f \in R!Kept' :
              /\ f \in R!Staged => f \in R!HeadTree \cup R!Staged'
              /\ \A c \in R!Left \ R!Left' : f \in R!Additions(c) => f \in R!HeadTree \cup R!Staged'
    PROVE  /\ R!RebaseTypes' /\ Covered'
           /\ (R!UnderWay => R!Kept \cap R!HeadTree \subseteq s5.tree)'
<1>1. R!RebaseTypes /\ s5' \in IndexTypes
  BY DEF RebaseInv, R!RebaseTypes, IndexTypes
<1>2. /\ CommitsStay /\ R!Commit' = R!Commit /\ RefsTyped' /\ R!HeadTree' = R!HeadTree
  BY <1>1, HeadStays
<1>3. R!StartTree = R!HeadTree /\ R!StartTree' = R!HeadTree
  BY <1>2 DEF R!StartTree
<1>4. R!RebaseTypes' /\ Covered'
  BY <1>1, <1>2, <1>3, WorkFollows
<1>5. R!Kept' \subseteq R!Kept
  BY DEF R!Kept
<1>6. (R!UnderWay => R!Kept \cap R!HeadTree \subseteq s5.tree)'
  BY <1>2, <1>5 DEF RebaseInv, R!WorkOnTheWay
<1> QED
  BY <1>4, <1>6

\* What there is while a pick is made.
LEMMA PickFacts ==
    ASSUME R!RebaseAssumption, RebaseInv, s11 \in R!Picking \cup {"message"}
    PROVE  /\ s7 \in R!RebaseState /\ s15 \in R!RebaseState /\ s15 # None /\ R!UnderWay
           /\ s7.todo \in Seq(R!Commit) /\ s9 \in R!Commit \cup {None}
           /\ s11 \in R!Picking => /\ R!Picked \in R!Commit /\ R!Picked # None
                                   /\ R!Left = R!Range(s7.todo) \cup {R!Picked}
           /\ s11 = "message" => R!Left = R!Range(s7.todo)
<1>1. R!UnderWay /\ s15 # None
  BY DEF RebaseInv, R!Places, R!Picking, R!Starting
<1>2. s7 \in R!RebaseState /\ s15 \in R!RebaseState /\ s7.todo \in Seq(R!Commit)
  BY <1>1, StatesAre, StateTypes DEF RebaseInv
<1>3. s9 \in R!Commit \cup {None}
  BY DEF RebaseInv, R!RebaseTypes
<1>4. s11 \in R!Picking => R!Picked \in R!Commit /\ R!Picked # None
  BY StateTypes DEF RebaseInv, R!Places
<1>5. /\ s11 \in R!Picking => R!Left = R!Range(s7.todo) \cup {R!Picked}
      /\ s11 = "message" => R!Left = R!Range(s7.todo)
  BY <1>1 DEF R!Left, R!Picking, R!Starting
<1> QED
  BY <1>1, <1>2, <1>3, <1>4, <1>5

\* runPickLoop takes the first pick of the list: it is left to be picked still.
LEMMA AttemptKeeps ==
    ASSUME R!RebaseAssumption, RebaseInv, s12' \in Nat, R!Attempt PROVE RebaseInv'
<1> DEFINE q == s7.todo
<1>1. /\ UNCHANGED <<s1, s2, s3, s4, s5, s8, s9, s13, s14>> /\ s11 = "loop" /\ s11' = "taken"
      /\ q # <<>> /\ s15' = [s7 EXCEPT !.todo = Tail(q), !.last = Head(q)]
      /\ s7' = [s7 EXCEPT !.todo = Tail(q)]
  BY DEF R!Attempt, R!repo, R!markers, R!ghosts
<1>2. R!UnderWay /\ s7 \in R!RebaseState /\ q \in Seq(R!Commit) /\ s9 \in R!Commit \cup {None}
  <2>1. R!UnderWay /\ s9 \in R!Commit \cup {None}
    BY <1>1 DEF RebaseInv, R!Places, R!RebaseTypes, R!Starting
  <2> QED
    BY <2>1, StatesAre, StateTypes DEF RebaseInv
<1>3. PICK p \in Seq(R!Commit), c \in R!Commit : p = Tail(q) /\ c = Head(q)
  BY <1>1, <1>2, FirstAndRest
<1>4. R!Range(q) = R!Range(p) \cup {c}
  BY <1>1, <1>2, <1>3, FirstAndRest
<1> HIDE DEF q
<1>5. s7' \in R!RebaseState /\ s7'.todo = p
  BY <1>1, <1>2, <1>3, WithTodo
<1>6. s15' \in R!RebaseState /\ s15'.todo = p /\ s15'.last = c
  <2>1. PICK x : x = [s7 EXCEPT !.todo = p, !.last = c]
    OBVIOUS
  <2>2. x \in R!RebaseState /\ x.todo = p /\ x.last = c
    BY <1>2, <2>1 DEF R!RebaseState
  <2> QED
    BY <1>1, <1>3, <2>1, <2>2
<1>7. R!UnderWay' /\ s15' # None
  BY <1>5, <1>6, StatesAre DEF R!UnderWay
<1>8. R!Left = R!Range(q) /\ R!Left' = R!Range(p) \cup {c}
  BY <1>1, <1>2, <1>5, <1>6, <1>7 DEF R!Left, R!Picking, R!Starting, R!Picked, q
<1>9. R!Staged = {}
  BY <1>1 DEF R!Staged
<1>10. /\ R!RebaseTypes' /\ Covered'
       /\ (R!UnderWay => R!Kept \cap R!HeadTree \subseteq s5.tree)'
  BY <1>1, <1>2, <1>4, <1>5, <1>6, <1>8, <1>9, QuietFollows
<1>11. R!Commit' = R!Commit
  BY <1>1, SameCommits DEF RebaseInv
<1>12. R!Places' /\ R!AbortOnTheWay'
  BY <1>1, <1>5, <1>6, <1>7, <1>11 DEF R!Places, R!AbortOnTheWay, R!Undoing, R!Starting, R!Picked
<1> QED
  BY <1>1, <1>10, <1>12, InvFollows DEF R!Starting

\* It is noted as done; or put back, when an untracked file is in the way.
LEMMA NoteKeeps ==
    ASSUME R!RebaseAssumption, RebaseInv, s12' \in Nat, R!NoteDone \/ R!PickIsBlocked \/ R!PutBack
    PROVE  RebaseInv'
<1>1. /\ UNCHANGED <<s1, s2, s3, s4, s5, s9, s13, s14>>
      /\ \/ s11 = "taken" /\ s7' = s15 /\ s11' = "pick" /\ s15' = s15
         \/ s11 = "pick" /\ s7' = s7 /\ s11' = "putBack" /\ s15' = s15
         \/ s11 = "putBack" /\ s7' = [s7 EXCEPT !.todo = << R!Picked >> \o s7.todo]
            /\ s11' = "idle" /\ s15' = None
  BY DEF R!NoteDone, R!PickIsBlocked, R!PutBack, R!repo, R!markers, R!ghosts, R!Go, R!Stop, R!GoWithout
<1>2. s11 \in R!Picking
  BY <1>1 DEF R!Picking
<1>3. /\ s7 \in R!RebaseState /\ s15 \in R!RebaseState /\ s15 # None /\ R!UnderWay
      /\ s7.todo \in Seq(R!Commit) /\ s9 \in R!Commit \cup {None}
      /\ R!Picked \in R!Commit /\ R!Left = R!Range(s7.todo) \cup {R!Picked}
  BY <1>2, PickFacts
<1>4. PICK p \in Seq(R!Commit) : /\ p = << R!Picked >> \o s7.todo
                                 /\ R!Range(p) = R!Range(s7.todo) \cup {R!Picked}
  <2>1. PICK q \in Seq(R!Commit), x \in R!Commit : q = s7.todo /\ x = R!Picked
    BY <1>3
  <2>2. << x >> \o q \in Seq(R!Commit) /\ R!Range(<< x >> \o q) = R!Range(q) \cup {x}
    BY <2>1, FirstAndRest
  <2> QED
    BY <2>1, <2>2
<1>5. /\ s7' \in R!RebaseState
      /\ s7'.todo = IF s11 = "taken" THEN s15.todo ELSE IF s11 = "pick" THEN s7.todo ELSE p
  BY <1>1, <1>3, <1>4, WithTodo
<1>6. R!UnderWay' /\ s15' \in R!RebaseState \cup {None}
  BY <1>1, <1>3, <1>5, StatesAre DEF R!UnderWay
<1>7. s11 = "taken" => s15.todo = s7.todo
  BY DEF RebaseInv, R!Places
<1>8. R!Left' = R!Left
  <2>1. CASE s11 = "putBack"
    BY <1>1, <1>3, <1>4, <1>5, <1>6, <2>1 DEF R!Left, R!Picking, R!Starting
  <2>2. CASE s11 # "putBack"
    <3>1. s11' \in R!Picking /\ s11' \notin R!Starting /\ R!Picked' = R!Picked
      BY <1>1, <2>2 DEF R!Picking, R!Starting, R!Picked
    <3> QED
      BY <1>1, <1>3, <1>5, <1>6, <1>7, <2>2, <3>1 DEF R!Left
  <2> QED
    BY <2>1, <2>2
<1>9. R!Staged = {}
  BY <1>1 DEF R!Staged
<1>10. /\ R!RebaseTypes' /\ Covered'
       /\ (R!UnderWay => R!Kept \cap R!HeadTree \subseteq s5.tree)'
  BY <1>1, <1>3, <1>5, <1>6, <1>8, <1>9, QuietFollows
<1>11. CASE s11 = "putBack"
  BY <1>1, <1>6, <1>10, <1>11, CalmFollows DEF Calm
<1>12. CASE s11 # "putBack"
  <2>1. R!Commit' = R!Commit /\ R!Picked' = R!Picked
    BY <1>1, <1>12, SameCommits DEF RebaseInv, R!Picked
  <2>2. R!Places' /\ R!AbortOnTheWay'
    BY <1>1, <1>3, <1>6, <1>12, <2>1 DEF R!Places, R!AbortOnTheWay, R!Undoing, R!Starting
  <2> QED
    BY <1>1, <1>10, <1>12, <2>2, InvFollows DEF R!Starting
<1> QED
  BY <1>11, <1>12

\* A pick that conflicts, or finds no committer.
LEMMA StoppingPickKeeps ==
    ASSUME R!RebaseAssumption, RebaseInv, s12' \in Nat, R!PickConflicts \/ R!PickUnidentified
    PROVE  RebaseInv'
<1>1. /\ UNCHANGED <<s1, s2, s3, s4, s5, s9, s13>>
      /\ \/ s11 = "conflict" /\ s8' = R!Picked /\ s11' = "message" /\ UNCHANGED <<s7, s14, s15>>
         \/ s11 = "message" /\ s7' = [s7 EXCEPT !.message = TRUE] /\ s11' = "idle" /\ s15' = None
            /\ UNCHANGED <<s8, s14>>
         \/ /\ s11 = "make" /\ s11' = "idle" /\ s15' = None /\ UNCHANGED <<s7, s8>>
            /\ s14' = s14 \cup R!Additions(R!Picked)
  BY DEF R!PickConflicts, R!PickUnidentified, R!LoseThePick, R!Picking, R!repo, R!markers, R!ghosts,
         R!Go, R!Stop, R!GoWithout
<1>2. s11 \in R!Picking \cup {"message"}
  BY <1>1 DEF R!Picking
<1>3. /\ s7 \in R!RebaseState /\ s15 \in R!RebaseState /\ s15 # None /\ R!UnderWay
      /\ s9 \in R!Commit \cup {None}
      /\ s11 # "message" => /\ R!Picked # None
                            /\ R!Left = R!Range(s7.todo) \cup {R!Picked}
      /\ s11 = "message" => R!Left = R!Range(s7.todo)
  BY <1>2, PickFacts
<1>4. s7' \in R!RebaseState /\ s7'.todo = s7.todo
  BY <1>1, <1>3, WithMessage
<1>5. R!UnderWay' /\ s15' \in R!RebaseState \cup {None} /\ s14 \subseteq s14'
  BY <1>1, <1>3, <1>4, StatesAre DEF R!UnderWay
<1>6. R!Left' = R!Range(s7.todo)
  BY <1>1, <1>4, <1>5 DEF R!Left, R!Picking, R!Starting
<1>7. s11 = "conflict" => R!Additions(R!Picked) \subseteq s5.tree
  BY DEF RebaseInv, R!WorkOnTheWay
<1>8. R!Staged = IF s11 = "message" /\ s8 # None THEN s5.tree ELSE {}
  BY <1>1, <1>3 DEF R!Staged
<1>9. R!Staged' = IF s8' # None THEN s5.tree ELSE {}
  BY <1>1, <1>5 DEF R!Staged
<1>10. ASSUME NEW f \in R!Kept'
       PROVE  /\ f \in R!Staged => f \in R!Staged'
              /\ \A c \in R!Left \ R!Left' : f \in R!Additions(c) => f \in R!Staged'
  <2>1. f \notin s14'
    BY DEF R!Kept
  <2> QED
    BY <1>1, <1>3, <1>6, <1>7, <1>8, <1>9, <2>1
<1>11. /\ R!RebaseTypes' /\ Covered'
       /\ (R!UnderWay => R!Kept \cap R!HeadTree \subseteq s5.tree)'
  <2>1. R!Left' \subseteq R!Left /\ s11 \notin {"ff", "detach"} /\ s11' \notin {"ff", "detach"}
    BY <1>1, <1>3, <1>6
  <2> QED
    BY <1>1, <1>3, <1>4, <1>5, <1>10, <2>1, QuietFollows
<1>12. CASE s11 # "conflict"
  BY <1>1, <1>11, <1>12, CalmFollows DEF Calm
<1>13. CASE s11 = "conflict"
  <2>1. R!Places' /\ R!AbortOnTheWay'
    BY <1>1, <1>3, <1>5, <1>13 DEF R!Places, R!AbortOnTheWay, R!Undoing, R!Starting, R!Picking
  <2> QED
    BY <1>1, <1>11, <1>13, <2>1, InvFollows DEF R!Starting
<1> QED
  BY <1>12, <1>13

\* A pick is merged into the index and the files, or taken as it is.
LEMMA MergingKeeps ==
    ASSUME R!RebaseAssumption, RebaseInv, s12' \in Nat,
           R!PickMerges \/ (R!PickFastForward /\ s11 = "pick")
    PROVE  RebaseInv'
<1> DEFINE t == IF R!PickMerges THEN R!PickIndex ELSE R!Tree(R!Picked)
<1>1. /\ s11 = "pick" /\ UNCHANGED <<s1, s2, s3, s4, s7, s8, s9, s13, s14, s15>>
      /\ \/ /\ R!PickMerges /\ s11' \in {"conflict", "make"}
            /\ s5' = [tree |-> R!PickIndex, conflicted |-> R!Conflicts(R!Picked, R!HeadTree)]
         \/ /\ ~R!PickMerges /\ s11' = "take" /\ R!PickFastForwards
            /\ s5' = [tree |-> R!Tree(R!Picked), conflicted |-> FALSE]
  BY DEF R!PickMerges, R!PickFastForward, R!Clean, R!Go, R!repo, R!markers, R!ghosts
<1>2. s11 \in R!Picking
  BY <1>1 DEF R!Picking
<1>3. /\ s7 \in R!RebaseState /\ s15 \in R!RebaseState /\ s15 # None /\ R!UnderWay
      /\ s9 \in R!Commit \cup {None} /\ R!Picked \in R!Commit
      /\ R!Left = R!Range(s7.todo) \cup {R!Picked}
  BY <1>2, PickFacts
<1>4. R!Tree(R!Picked) \in SUBSET TreeFile /\ R!HeadTree \in SUBSET TreeFile /\ s5.tree \in SUBSET TreeFile
  BY <1>3, HeadIsCommit, ParentsBefore DEF RebaseInv, R!RebaseTypes
<1>5. R!PickIndex \in SUBSET TreeFile
  BY <1>4 DEF R!PickIndex, R!PickTree, R!Preserved, R!Merged
<1>6. s5' \in IndexTypes /\ s5'.tree = t
  <2>1. R!Conflicts(R!Picked, R!HeadTree) \in BOOLEAN
    BY DEF R!Conflicts
  <2>2. CASE R!PickMerges
    BY <1>1, <1>5, <2>1, <2>2 DEF IndexTypes
  <2>3. CASE ~R!PickMerges
    <3>1. s5' = [tree |-> R!Tree(R!Picked), conflicted |-> FALSE] /\ t = R!Tree(R!Picked)
      BY <1>1, <2>3
    <3> HIDE DEF t
    <3> QED
      BY <1>4, <3>1 DEF IndexTypes
  <2> QED
    BY <2>2, <2>3
<1>7. s13 # {} => R!FirstTree(R!Picked) \subseteq R!Tree(R!Picked)
  BY <1>3 DEF RebaseInv, R!WorkOnTheWay
<1>8. R!PickFastForwards => R!FirstTree(R!Picked) = R!HeadTree
  BY DEF R!PickFastForwards, R!FirstTree, R!HeadTree
<1>9. s13 # {} => R!HeadTree \subseteq t
  BY <1>1, <1>7, <1>8 DEF R!PickIndex, R!PickTree, R!Merged
<1>10. R!PickMerges => R!Additions(R!Picked) \subseteq t
  BY DEF R!PickIndex, R!PickTree, R!Merged, R!Additions
<1> HIDE DEF t
<1>11. CommitsStay /\ R!Commit' = R!Commit /\ RefsTyped' /\ R!HeadTree' = R!HeadTree
       /\ R!HeadCommit' = R!HeadCommit
  BY <1>1, HeadStays DEF RebaseInv
<1>12. /\ R!UnderWay' /\ R!Picked' = R!Picked /\ R!Left' = R!Left
       /\ R!Staged = {} /\ R!StartTree = R!HeadTree /\ R!StartTree' = R!HeadTree
  <2>1. s11' \in R!Picking /\ s11' \notin R!Starting
    BY <1>1 DEF R!Picking, R!Starting
  <2>2. R!UnderWay' /\ R!Picked' = R!Picked
    BY <1>1, <1>3 DEF R!UnderWay, R!Picked
  <2> QED
    BY <1>1, <1>3, <1>11, <2>1, <2>2 DEF R!Left, R!Staged, R!StartTree
<1>13. R!RebaseTypes' /\ Covered'
  BY <1>1, <1>3, <1>6, <1>11, <1>12, WorkFollows
<1>14. (R!UnderWay => R!Kept \cap R!HeadTree \subseteq s5.tree)'
  BY <1>1, <1>6, <1>9, <1>11 DEF R!Kept
<1>15. R!Places' /\ R!AbortOnTheWay'
  BY <1>1, <1>3, <1>11, <1>12 DEF R!Places, R!AbortOnTheWay, R!Undoing, R!Starting
<1>16. R!PickFastForwards' = R!PickFastForwards /\ (R!Tree(R!Picked))' = R!Tree(R!Picked)
       /\ (R!Additions(R!Picked))' = R!Additions(R!Picked)
  BY <1>1, <1>11, <1>12 DEF R!PickFastForwards, R!Tree, R!ParentsOf, R!Additions, R!FirstTree
<1> QED
  BY <1>1, <1>6, <1>10, <1>13, <1>14, <1>15, <1>16, InvFollows DEF R!Starting, t

\* HEAD gets what the index has.
LEMMA HeadCatchesUp ==
    ASSUME R!RebaseAssumption, RebaseInv, s12' \in Nat, s11 \in {"take", "make"}, s11' = "loop",
           s15' = None, UNCHANGED <<s5, s7, s9, s13, s14>>, CommitsStay, RefsTyped',
           R!HeadTree' = s5.tree, R!Additions(R!Picked) \subseteq s5.tree
    PROVE  RebaseInv'
<1>1. s11 \in R!Picking
  BY DEF R!Picking
<1>2. /\ s7 \in R!RebaseState /\ R!UnderWay /\ s9 \in R!Commit \cup {None}
      /\ R!Left = R!Range(s7.todo) \cup {R!Picked}
  BY <1>1, PickFacts
<1>3. s5' \in IndexTypes /\ s9' \in R!Commit' \cup {None} /\ s13 \subseteq TreeFile
  BY <1>2 DEF RebaseInv, R!RebaseTypes, IndexTypes, CommitsStay
<1>4. /\ R!UnderWay' /\ R!Left' = R!Range(s7.todo) /\ R!Staged = {}
      /\ R!StartTree = R!HeadTree /\ R!StartTree' = s5.tree
  BY <1>2 DEF R!UnderWay, R!Left, R!Staged, R!StartTree, R!Picking, R!Starting
<1>5. R!Kept' = R!Kept /\ R!Kept \cap R!HeadTree \subseteq s5.tree
  BY <1>2 DEF R!Kept, RebaseInv, R!WorkOnTheWay
<1>6. ASSUME NEW f \in R!Kept'
      PROVE  /\ f \in R!StartTree \cup R!Staged => f \in R!StartTree'
             /\ \A c \in R!Left \ R!Left' : f \in R!Additions(c) => f \in R!StartTree'
  BY <1>2, <1>4, <1>5
<1>7. R!RebaseTypes' /\ Covered'
  <2>1. R!Left' \subseteq R!Left /\ s15' \in R!RebaseState \cup {None}
    BY <1>2, <1>4
  <2> QED
    BY <1>2, <1>3, <1>6, <2>1, WorkFollows
<1> QED
  BY <1>4, <1>7, CalmFollows DEF Calm

LEMMA MakingPickKeeps ==
    ASSUME R!RebaseAssumption, RebaseInv, s12' \in Nat,
           R!PickCommits \/ (R!PickFastForward /\ s11 # "pick")
    PROVE  RebaseInv'
<1>1. /\ s11 \in {"take", "make"} /\ s11' = "loop" /\ s15' = None /\ UNCHANGED <<s5, s7, s9, s13, s14>>
      /\ \/ s11 = "take" /\ s1' = s1 /\ R!Advance(R!Picked)
         \/ s11 = "make" /\ R!PickIsDropped /\ UNCHANGED <<s1, s2, s3, s4>>
         \/ s11 = "make" /\ s1' = Append(s1, [parents |-> << R!HeadCommit >>, tree |-> s5.tree])
            /\ R!Advance(Len(s1) + 1)
  BY DEF R!PickCommits, R!PickFastForward, R!GoWithout, R!repo, R!markers, R!ghosts
<1>2. R!RebaseTypes /\ R!Picked \in R!Commit /\ s5.tree \in SUBSET TreeFile /\ R!HeadCommit \in R!Commit
  <2>1. s11 \in R!Picking
    BY <1>1 DEF R!Picking
  <2> QED
    BY <2>1, PickFacts, HeadIsCommit DEF RebaseInv, R!RebaseTypes
<1>3. CASE s11 = "take"
  <2>1. s5.tree = R!Tree(R!Picked)
    BY <1>3 DEF RebaseInv, R!WorkOnTheWay
  <2>2. s1' = s1 /\ R!Advance(R!Picked)
    BY <1>1, <1>3
  <2>3. CommitsStay /\ R!Commit' = R!Commit
    BY <1>2, <2>2, SameCommits
  <2>4. PICK c \in R!Commit : c = R!Picked
    BY <1>2
  <2>5. RefsTyped' /\ R!HeadCommit' = c
    BY <1>2, <2>2, <2>3, <2>4, AdvanceMoves
  <2>6. R!HeadTree' = R!Tree(c)
    BY <2>2, <2>5 DEF R!HeadTree, R!Tree
  <2>7. R!Additions(R!Picked) \subseteq s5.tree
    BY <2>1 DEF R!Additions
  <2> QED
    BY <1>1, <2>1, <2>3, <2>4, <2>5, <2>6, <2>7, HeadCatchesUp
<1>4. ASSUME s11 = "make" PROVE R!Additions(R!Picked) \subseteq s5.tree
  BY <1>4 DEF RebaseInv, R!WorkOnTheWay
<1>5. CASE s11 = "make" /\ R!PickIsDropped /\ UNCHANGED <<s1, s2, s3, s4>>
  <2>1. CommitsStay /\ RefsTyped' /\ R!HeadTree' = R!HeadTree
    BY <1>2, <1>5, HeadStays
  <2>2. R!HeadTree = s5.tree
    BY <1>5 DEF R!PickIsDropped
  <2> QED
    BY <1>1, <1>4, <1>5, <2>1, <2>2, HeadCatchesUp
<1>6. CASE s11 = "make" /\ s1' = Append(s1, [parents |-> << R!HeadCommit >>, tree |-> s5.tree])
           /\ R!Advance(Len(s1) + 1)
  <2>1. PICK n : n = Len(s1) + 1
    OBVIOUS
  <2>2. PICK ps \in Seq(R!Commit), t \in SUBSET TreeFile :
           ps = << R!HeadCommit >> /\ t = s5.tree
    <3>1. << R!HeadCommit >> \in Seq(R!Commit)
      BY <1>2
    <3> QED
      BY <1>2, <3>1
  <2>3. CommitsStay /\ n \in R!Commit' /\ (R!Tree(n))' = t
    BY <1>2, <1>6, <2>1, <2>2, NewCommit
  <2>4. RefsTyped' /\ R!HeadCommit' = n
    BY <1>2, <1>6, <2>1, <2>3, AdvanceMoves
  <2>5. R!HeadTree' = s5.tree
    BY <2>2, <2>3, <2>4 DEF R!HeadTree, R!Tree
  <2> QED
    BY <1>1, <1>4, <1>6, <2>3, <2>4, <2>5, HeadCatchesUp
<1> QED
  BY <1>1, <1>3, <1>5, <1>6

\* finishRebase: nothing is left to pick, so that HEAD has it all.
LEMMA FinishKeeps ==
    ASSUME R!RebaseAssumption, RebaseInv, s12' \in Nat, R!FinishLoop PROVE RebaseInv'
<1>1. /\ s11 = "loop" /\ s7.todo = <<>> /\ UNCHANGED <<s1, s3, s4, s5, s7, s8, s9, s13, s14>>
      /\ \/ s2' = s2 /\ s11' = "idle" /\ s15' = None
         \/ s2' = s2 /\ s11' = "clean" /\ s15' = s7
         \/ /\ s7.headName # None /\ s2' = [s2 EXCEPT ![s7.headName] = R!HeadCommit]
            /\ s11' = "reattach" /\ s15' = s7
  BY DEF R!FinishLoop, R!Stop, R!GoWithout, R!markers, R!ghosts
<1>2. /\ R!RebaseTypes /\ R!UnderWay /\ s7 \in R!RebaseState /\ s7 \notin {None, Torn}
      /\ s9 \in R!Commit \cup {None} /\ s5 \in IndexTypes
  <2>1. R!UnderWay
    BY <1>1 DEF RebaseInv, R!Places, R!Starting
  <2> QED
    BY <2>1, StatesAre DEF RebaseInv, R!RebaseTypes, IndexTypes
<1>3. CommitsStay /\ R!Commit' = R!Commit
  BY <1>1, <1>2, SameCommits
<1>4. R!Left = {} /\ R!Left' = {} /\ R!Staged = {} /\ R!UnderWay'
  BY <1>1, <1>2 DEF R!Left, R!Staged, R!UnderWay, R!Picking, R!Starting, R!Range
<1>5. PICK h \in R!Commit : h = R!HeadCommit
  BY <1>2, HeadIsCommit
<1>6. RefsTyped' /\ R!HeadCommit' = h
  <2>1. CASE s2' = s2
    BY <1>1, <1>2, <1>5, <2>1, HeadStays
  <2>2. CASE s7.headName # None /\ s2' = [s2 EXCEPT ![s7.headName] = h]
    <3>1. s2 \in [RebaseBranch -> R!Commit] /\ s3 \in RebaseBranch \cup {None} /\ s4 \in R!Commit
      BY <1>2 DEF R!RebaseTypes
    <3>2. s2' \in [RebaseBranch -> R!Commit]
      BY <2>2, <3>1
    <3>3. RefsTyped'
      BY <1>1, <1>3, <3>1, <3>2 DEF RefsTyped
    <3>4. R!HeadCommit' = h
      BY <1>1, <1>5, <2>2, <3>1 DEF R!HeadCommit
    <3> QED
      BY <3>3, <3>4
  <2> QED
    BY <1>1, <1>5, <2>1, <2>2
<1>7. R!HeadTree' = R!HeadTree
  BY <1>1, <1>5, <1>6 DEF R!HeadTree, R!Tree
<1>8. R!StartTree = R!HeadTree /\ R!StartTree' = R!HeadTree
  BY <1>1, <1>7 DEF R!StartTree
<1>9. R!RebaseTypes' /\ Covered'
  BY <1>1, <1>2, <1>3, <1>4, <1>6, <1>8, WorkFollows DEF RebaseInv, R!RebaseTypes
<1>10. R!Kept' = R!Kept /\ R!Kept \subseteq R!HeadTree /\ R!Kept \cap R!HeadTree \subseteq s5.tree
  BY <1>1, <1>2, <1>4, <1>8 DEF R!Kept, RebaseInv, R!WorkOnTheWay
<1>11. CASE s11' = "idle"
  BY <1>1, <1>4, <1>7, <1>9, <1>10, <1>11, CalmFollows DEF Calm
<1>12. CASE s11' \in {"clean", "reattach"}
  <2>1. s11' = "reattach" => R!Kept' \subseteq R!TipTree(s15.headName)'
    <3>1. SUFFICES ASSUME s11' = "reattach" PROVE R!Kept' \subseteq R!TipTree(s15.headName)'
      OBVIOUS
    <3>2. s7.headName \in RebaseBranch /\ s2' = [s2 EXCEPT ![s7.headName] = h] /\ s15' = s7
      BY <1>1, <1>2, <1>5, <3>1, StateTypes
    <3>3. s2'[s7.headName] = h
      BY <1>2, <3>2 DEF R!RebaseTypes
    <3>4. R!TipTree(s15.headName)' = R!HeadTree
      BY <1>1, <1>5, <3>2, <3>3 DEF R!TipTree, R!HeadTree, R!Tree
    <3> QED
      BY <1>10, <3>4
  <2>2. R!Places' /\ R!AbortOnTheWay'
    BY <1>1, <1>2, <1>4, <1>12 DEF R!Places, R!AbortOnTheWay, R!Undoing, R!Starting, R!Picking
  <2> QED
    BY <1>1, <1>4, <1>7, <1>9, <1>10, <1>12, <2>1, <2>2, InvFollows DEF R!Starting
<1> QED
  BY <1>1, <1>11, <1>12

\* HEAD goes back to the branch, at the end and by --abort.
LEMMA ReattachKeeps ==
    ASSUME R!RebaseAssumption, RebaseInv, s12' \in Nat, R!Reattach PROVE RebaseInv'
<1>1. /\ s11 \in {"reattach", "abortHead"} /\ s11' = IF s11 = "reattach" THEN "clean" ELSE "undo"
      /\ UNCHANGED <<s1, s2, s4, s5, s7, s8, s9, s13, s14, s15>> /\ s3' = s15.headName
  BY DEF R!Reattach, R!Go, R!markers, R!ghosts
<1>2. /\ R!RebaseTypes /\ R!UnderWay /\ s7 \in R!RebaseState /\ s7 \notin {None, Torn}
      /\ s15 \in R!RebaseState /\ s15 # None /\ s15.headName # None
      /\ s9 \in R!Commit \cup {None} /\ s5 \in IndexTypes /\ s5' \in IndexTypes
  <2>1. R!UnderWay /\ s15 # None /\ s15.headName # None
    BY <1>1 DEF RebaseInv, R!Places, R!Starting
  <2> QED
    BY <1>1, <2>1, StatesAre DEF RebaseInv, R!RebaseTypes, IndexTypes
<1>3. CommitsStay /\ R!Commit' = R!Commit
  BY <1>1, <1>2, SameCommits
<1>4. PICK b \in RebaseBranch : b = s15.headName
  BY <1>2, StateTypes
<1>5. RefsTyped' /\ R!HeadCommit' = s2[b] /\ s2[b] \in R!Commit
  BY <1>1, <1>2, <1>3, <1>4 DEF RefsTyped, R!HeadCommit, R!RebaseTypes
<1>6. R!HeadTree' = R!TipTree(s15.headName)
  BY <1>1, <1>4, <1>5 DEF R!HeadTree, R!TipTree, R!Tree
<1>7. CASE s11 = "reattach"
  <2>1. R!Left = {} /\ R!Left' = {} /\ R!Staged = {} /\ R!UnderWay' /\ s7.todo = <<>>
    <3>1. s7.todo = <<>>
      BY <1>2, <1>7 DEF RebaseInv, R!WorkOnTheWay
    <3> QED
      BY <1>1, <1>2, <1>7, <3>1 DEF R!Left, R!Staged, R!UnderWay, R!Picking, R!Starting, R!Range
  <2>2. /\ R!StartTree = R!HeadTree /\ R!StartTree' = R!TipTree(s15.headName)
        /\ R!Kept' = R!Kept
    BY <1>1, <1>6, <1>7 DEF R!StartTree, R!Kept
  <2>3. R!Kept \subseteq R!TipTree(s15.headName) /\ R!Kept \subseteq R!HeadTree /\ R!Kept \subseteq s5.tree
    BY <1>2, <1>7, <2>1, <2>2 DEF RebaseInv, R!WorkOnTheWay
  <2>4. R!RebaseTypes' /\ Covered'
    BY <1>1, <1>2, <1>3, <1>5, <2>1, <2>2, <2>3, WorkFollows DEF RebaseInv, R!RebaseTypes
  <2>5. R!Places' /\ R!AbortOnTheWay'
    BY <1>1, <1>2, <1>7 DEF R!Places, R!AbortOnTheWay, R!Undoing, R!Starting, R!Picking
  <2> QED
    BY <1>1, <1>7, <2>1, <2>2, <2>3, <2>4, <2>5, InvFollows DEF R!Starting
<1>8. CASE s11 = "abortHead"
  <2>1. s13' = {} /\ s5.tree = R!Tree(s15.origHead) /\ s2[b] = s15.origHead
    BY <1>1, <1>4, <1>8 DEF RebaseInv, R!AbortOnTheWay, R!Undoing
  <2>2. /\ R!RebaseTypes' /\ Covered'
        /\ (R!UnderWay => R!Kept \cap R!HeadTree \subseteq s5.tree)'
    BY <1>1, <1>2, <1>3, <1>5, <2>1, NothingToKeep
  <2>3. (R!Tree(s15.origHead))' = R!Tree(s15.origHead)
    BY <1>1 DEF R!Tree
  <2>4. R!Places' /\ R!AbortOnTheWay'
    BY <1>1, <1>2, <1>4, <1>5, <1>8, <2>1, <2>3
       DEF R!Places, R!AbortOnTheWay, R!Undoing, R!Starting, R!Picking
  <2> QED
    BY <1>1, <1>8, <2>2, <2>4, InvFollows DEF R!Starting
<1> QED
  BY <1>1, <1>7, <1>8

\* What is left of the rebase goes, one thing after the other.
LEMMA CleanupKeeps ==
    ASSUME R!RebaseAssumption, RebaseInv, s12' \in Nat, R!Cleanup PROVE RebaseInv'
<1>1. /\ s11 \in {"clean", "undo"} /\ UNCHANGED <<s1, s2, s3, s4, s5, s13, s14>>
      /\ s9' \in {s9, None}
      /\ \/ s7' = s7 /\ s11' = s11 /\ s15' = s15
         \/ s7 # Torn /\ s7' = Torn /\ s11' = s11 /\ s15' = s15
         \/ s7' = None /\ s11' = "idle" /\ s15' = None
  BY DEF R!Cleanup, R!DropMarker, R!Stop, R!GoWithout, R!repo, R!markers, R!ghosts
<1>2. /\ R!RebaseTypes /\ s7 # None /\ s7 \in R!RebaseState \cup {None, Torn} /\ None # Torn
      /\ s15 \in R!RebaseState /\ s15 # None /\ s9 \in R!Commit \cup {None}
  <2>1. s7 # None /\ s15 # None
    BY <1>1 DEF RebaseInv, R!Places
  <2> QED
    BY <2>1, StatesAre, StateTypes DEF RebaseInv, R!RebaseTypes
<1>3. /\ s7' \in R!RebaseState \cup {None, Torn} /\ s15' \in R!RebaseState \cup {None}
      /\ s9' \in R!Commit \cup {None} /\ s14 \subseteq s14' /\ (R!UnderWay' => s7' = s7 /\ R!UnderWay)
  BY <1>1, <1>2 DEF R!UnderWay
<1>4. R!Left' \subseteq R!Left /\ R!Staged = {} /\ R!Kept' = R!Kept
  BY <1>1, <1>3 DEF R!Left, R!Staged, R!Kept, R!Picking, R!Starting
<1>5. s11 = "undo" => R!Kept = {}
  BY DEF RebaseInv, R!AbortOnTheWay, R!Undoing, R!Kept
<1>6. s11 = "clean" => R!Left = {}
  BY <1>1 DEF RebaseInv, R!WorkOnTheWay, R!Left, R!Picking, R!Starting, R!Range
<1>7. /\ R!RebaseTypes' /\ Covered'
      /\ (R!UnderWay => R!Kept \cap R!HeadTree \subseteq s5.tree)'
  <2>1. \A f \in R!Kept' : R!Left = {}
    BY <1>1, <1>4, <1>5, <1>6
  <2> QED
    BY <1>1, <1>3, <1>4, <2>1, QuietFollows
<1>8. CASE s11' = "idle"
  BY <1>1, <1>7, <1>8, CalmFollows DEF Calm
<1>9. CASE s11' = s11 /\ s15' = s15
  <2>1. R!HeadCommit' = R!HeadCommit /\ (R!Tree(s15.origHead))' = R!Tree(s15.origHead)
    BY <1>1, <1>9 DEF R!HeadCommit, R!Tree
  <2>2. s7' # None
    BY <1>1, <1>2, <1>9
  <2>3. R!Places' /\ R!AbortOnTheWay'
    BY <1>1, <1>2, <1>9, <2>1, <2>2
       DEF RebaseInv, R!Places, R!AbortOnTheWay, R!Undoing, R!Starting, R!Picking
  <2>4. s11 = "clean" /\ R!UnderWay' => s7'.todo = <<>>
    BY <1>3 DEF RebaseInv, R!WorkOnTheWay
  <2> QED
    BY <1>1, <1>7, <1>9, <2>3, <2>4, InvFollows DEF R!Starting
<1> QED
  BY <1>1, <1>8, <1>9

\* --abort: there is nothing to keep any more; the branch after the files.
LEMMA AbortKeeps ==
    ASSUME R!RebaseAssumption, RebaseInv, s12' \in Nat, R!Abort \/ R!AbortRef PROVE RebaseInv'
<1>1. R!RebaseTypes /\ s9 \in R!Commit \cup {None} /\ s13 \subseteq TreeFile
  BY DEF RebaseInv, R!RebaseTypes
<1>2. CASE R!Abort
  <2>1. /\ s11 = "idle" /\ R!UnderWay /\ UNCHANGED <<s1, s2, s3, s4, s7, s9>>
        /\ s5' = [tree |-> R!Tree(s7.origHead), conflicted |-> FALSE]
        /\ s15' = s7 /\ s11' = "abortRef" /\ s13' = {}
    BY <1>2 DEF R!Abort, R!Clean, R!repo, R!markers
  <2>2. s7 \in R!RebaseState /\ s7 # None /\ s7.origHead \in R!Commit
    BY <1>1, <2>1, StatesAre, StateTypes
  <2>3. R!Tree(s7.origHead) \in SUBSET TreeFile
    BY <1>1, <2>2, ParentsBefore
  <2>4. s5' \in IndexTypes /\ s5'.tree = R!Tree(s7.origHead)
    BY <2>1, <2>3 DEF IndexTypes
  <2>5. CommitsStay /\ R!Commit' = R!Commit /\ RefsTyped'
    BY <1>1, <2>1, HeadStays
  <2>6. /\ R!RebaseTypes' /\ Covered'
        /\ (R!UnderWay => R!Kept \cap R!HeadTree \subseteq s5.tree)'
    BY <1>1, <2>1, <2>2, <2>4, <2>5, NothingToKeep
  <2>7. R!UnderWay' /\ (R!Tree(s15.origHead))' = R!Tree(s7.origHead)
    BY <2>1 DEF R!UnderWay, R!Tree
  <2>8. R!Places' /\ R!AbortOnTheWay'
    BY <2>1, <2>2, <2>4, <2>7 DEF R!Places, R!AbortOnTheWay, R!Starting, R!Picking
  <2> QED
    BY <2>1, <2>6, <2>8, InvFollows DEF R!Starting
<1>3. CASE R!AbortRef
  <2>1. /\ s11 = "abortRef" /\ UNCHANGED <<s1, s5, s7, s9, s13, s15>>
        /\ \/ s15.headName = None /\ R!Advance(s15.origHead) /\ s11' = "undo"
           \/ /\ s15.headName # None /\ s2' = [s2 EXCEPT ![s15.headName] = s15.origHead]
              /\ s11' = "abortHead" /\ s3' = s3 /\ s4' = s4
    BY <1>3 DEF R!AbortRef, R!Go, R!markers, R!ghosts
  <2>2. R!UnderWay /\ s15 # None /\ s15 \in R!RebaseState /\ s7 \in R!RebaseState /\ s7 # None
    <3>1. R!UnderWay /\ s15 # None
      BY <2>1 DEF RebaseInv, R!Places, R!Starting
    <3> QED
      BY <3>1, StatesAre
  <2>3. PICK c \in R!Commit : c = s15.origHead
    BY <1>1, <2>2, StateTypes
  <2>4. CommitsStay /\ R!Commit' = R!Commit
    BY <1>1, <2>1, SameCommits
  <2>5. RefsTyped' /\ (s11' = "undo" => R!HeadCommit' = c)
             /\ (s11' = "abortHead" => s2'[s15.headName] = c)
    <3>1. CASE R!Advance(s15.origHead) /\ s11' = "undo"
      BY <1>1, <2>3, <2>4, <3>1, AdvanceMoves
    <3>2. CASE /\ s15.headName # None /\ s2' = [s2 EXCEPT ![s15.headName] = s15.origHead]
               /\ s11' = "abortHead" /\ s3' = s3 /\ s4' = s4
      <4>1. s15.headName \in RebaseBranch
        BY <1>1, <2>2, <3>2, StateTypes
      <4>2. s2 \in [RebaseBranch -> R!Commit] /\ s3 \in RebaseBranch \cup {None} /\ s4 \in R!Commit
        BY <1>1 DEF R!RebaseTypes
      <4> QED
        BY <2>3, <2>4, <3>2, <4>1, <4>2 DEF RefsTyped
    <3> QED
      BY <2>1, <3>1, <3>2
  <2>6. s5' \in IndexTypes /\ s13' = {} /\ s5.tree = R!Tree(s15.origHead)
    BY <1>1, <2>1 DEF RebaseInv, R!AbortOnTheWay, R!Undoing, R!RebaseTypes, IndexTypes
  <2>7. /\ R!RebaseTypes' /\ Covered'
        /\ (R!UnderWay => R!Kept \cap R!HeadTree \subseteq s5.tree)'
    BY <1>1, <2>1, <2>2, <2>4, <2>5, <2>6, NothingToKeep
  <2>8. R!UnderWay' /\ (R!Tree(s15.origHead))' = R!Tree(s15.origHead)
    BY <2>1, <2>2 DEF R!UnderWay, R!Tree
  <2>9. R!Places' /\ R!AbortOnTheWay'
    BY <2>1, <2>2, <2>3, <2>5, <2>6, <2>8 DEF R!Places, R!AbortOnTheWay, R!Starting, R!Picking
  <2> QED
    BY <2>1, <2>7, <2>9, InvFollows DEF R!Starting
<1> QED
  BY <1>2, <1>3

\* A process that is cut off in the middle of a pick gives up what the pick adds.
LEMMA CrashKeeps ==
    ASSUME R!RebaseAssumption, RebaseInv, s12' \in Nat, R!Crash PROVE RebaseInv'
<1>1. /\ s11 # "idle" /\ s11' = "idle" /\ s15' = None /\ UNCHANGED <<s1, s2, s3, s4, s5, s7, s8, s9>>
      /\ s13' = (IF s11 \in R!Starting THEN {} ELSE s13)
      /\ s14 \subseteq s14' /\ (s11 \in R!Picking => R!Additions(R!Picked) \subseteq s14')
  BY DEF R!Crash, R!LoseThePick, R!Stop, R!GoWithout, R!repo, R!markers
<1>2. /\ R!RebaseTypes /\ s7 \in R!RebaseState \cup {None, Torn} /\ s9 \in R!Commit \cup {None}
      /\ s5' \in IndexTypes
  BY <1>1, StatesAre DEF RebaseInv, R!RebaseTypes, IndexTypes
<1>3. CommitsStay /\ R!Commit' = R!Commit /\ RefsTyped'
  BY <1>1, <1>2, HeadStays
<1>4. CASE s11 \in R!Starting
  <2>1. /\ R!RebaseTypes' /\ Covered'
        /\ (R!UnderWay => R!Kept \cap R!HeadTree \subseteq s5.tree)'
    BY <1>1, <1>2, <1>3, <1>4, NothingToKeep
  <2> QED
    BY <1>1, <2>1, CalmFollows DEF Calm
<1>5. CASE s11 \notin R!Starting
  <2>1. /\ R!Left' = IF R!UnderWay THEN R!Range(s7.todo) ELSE {}
        /\ R!Left = (IF R!UnderWay THEN R!Range(s7.todo) ELSE {})
                      \cup (IF s11 \in R!Picking THEN {R!Picked} ELSE {})
    BY <1>1, <1>5 DEF R!Left, R!UnderWay, R!Picking, R!Starting
  <2>2. R!Staged \subseteq R!Staged' /\ (R!UnderWay' => R!UnderWay)
    BY <1>1 DEF R!Staged, R!UnderWay
  <2>3. \A f \in R!Kept' : \A c \in R!Left \ R!Left' : f \notin R!Additions(c)
    BY <1>1, <2>1 DEF R!Kept
  <2>4. s11 \notin {"ff", "detach"} /\ R!Left' \subseteq R!Left /\ s13' = s13
    BY <1>1, <1>5, <2>1 DEF R!Starting
  <2>5. /\ R!RebaseTypes' /\ Covered'
        /\ (R!UnderWay => R!Kept \cap R!HeadTree \subseteq s5.tree)'
    BY <1>1, <1>2, <2>2, <2>3, <2>4, QuietFollows
  <2> QED
    BY <1>1, <2>5, CalmFollows DEF Calm
<1> QED
  BY <1>4, <1>5

\* What there is when no process runs, or one is between its steps.
LEMMA CalmFacts ==
    ASSUME R!RebaseAssumption, RebaseInv, s11 \in Calm
    PROVE  /\ s15 = None /\ s7 \in R!RebaseState \cup {None, Torn}
           /\ (R!UnderWay => s7 \in R!RebaseState) /\ (s11 # "idle" => R!UnderWay)
           /\ R!Left = IF R!UnderWay THEN R!Range(s7.todo) ELSE {}
           /\ R!StartTree = R!HeadTree /\ R!Kept = s13 \ s14
           /\ R!Staged = IF s11 = "idle" /\ R!UnderWay /\ s8 # None THEN s5.tree ELSE {}
           /\ (R!UnderWay => R!Kept \cap R!HeadTree \subseteq s5.tree)
           /\ s9 \in R!Commit \cup {None} /\ s5 \in IndexTypes /\ s13 \subseteq TreeFile
<1>1. s15 = None /\ (s11 # "idle" => R!UnderWay)
  BY DEF RebaseInv, R!Places, R!Starting, Calm
<1>2. s11 \notin R!Picking /\ s11 \notin R!Starting /\ s11 # "message"
  BY DEF R!Picking, R!Starting, Calm
<1>3. /\ R!Left = IF R!UnderWay THEN R!Range(s7.todo) ELSE {}
      /\ R!StartTree = R!HeadTree /\ R!Kept = s13 \ s14
      /\ R!Staged = IF s11 = "idle" /\ R!UnderWay /\ s8 # None THEN s5.tree ELSE {}
  BY <1>2 DEF R!Left, R!StartTree, R!Kept, R!Staged, R!Starting
<1>4. /\ (R!UnderWay => R!Kept \cap R!HeadTree \subseteq s5.tree)
      /\ s9 \in R!Commit \cup {None} /\ s5 \in IndexTypes /\ s13 \subseteq TreeFile
  BY DEF RebaseInv, R!WorkOnTheWay, R!RebaseTypes, IndexTypes
<1> QED
  BY <1>1, <1>3, <1>4, StatesAre

\* And what has to be there after a step from there to there: what HEAD had of the files
\* is there, what was staged too, and the list is the same.
LEMMA CalmStep ==
    ASSUME R!RebaseAssumption, RebaseInv, s11 \in Calm, s11' \in Calm, s15' = None, s12' \in Nat,
           CommitsStay, RefsTyped', s5' \in IndexTypes, s9' \in R!Commit' \cup {None},
           \/ s7' = s7
           \/ R!UnderWay /\ s7' \in R!RebaseState /\ s7'.todo = s7.todo
           \/ ~R!UnderWay /\ s7' \in {None, Torn},
           s11' # "idle" => R!UnderWay,
           s13' = s13, s14 \subseteq s14',
           \A f \in s13 \ s14' :
              /\ R!UnderWay /\ f \in R!HeadTree' => f \in s5'.tree
              /\ f \in R!HeadTree => f \in R!HeadTree'
              /\ R!UnderWay /\ s11 = "idle" /\ s8 # None /\ f \in s5.tree =>
                    f \in R!HeadTree' \/ (s11' = "idle" /\ s8' # None /\ f \in s5'.tree)
    PROVE  RebaseInv'
<1>1. /\ s7 \in R!RebaseState \cup {None, Torn}
      /\ (R!UnderWay => s7 \in R!RebaseState)
      /\ R!Left = IF R!UnderWay THEN R!Range(s7.todo) ELSE {}
      /\ R!StartTree = R!HeadTree /\ R!Kept = s13 \ s14
      /\ R!Staged = IF s11 = "idle" /\ R!UnderWay /\ s8 # None THEN s5.tree ELSE {}
  BY CalmFacts
<1>2. /\ s7' \in R!RebaseState \cup {None, Torn} /\ (R!UnderWay' <=> R!UnderWay)
      /\ R!UnderWay => s7'.todo = s7.todo
  BY <1>1, StatesAre DEF R!UnderWay
<1>3. s11' \notin R!Picking /\ s11' \notin R!Starting /\ s11' # "message"
  BY DEF R!Picking, R!Starting, Calm
<1>4. /\ R!Left' = R!Left
      /\ R!StartTree' = R!HeadTree' /\ R!Kept' = s13 \ s14'
      /\ R!Staged' = IF s11' = "idle" /\ R!UnderWay /\ s8' # None THEN s5'.tree ELSE {}
  BY <1>1, <1>2, <1>3 DEF R!Left, R!StartTree, R!Kept, R!Staged, R!Starting
<1>5. ASSUME NEW f \in R!Kept', f \in R!StartTree \cup R!Staged
      PROVE  f \in R!StartTree' \cup R!Staged'
  BY <1>1, <1>4, <1>5
<1>6. R!RebaseTypes' /\ Covered'
  BY <1>2, <1>4, <1>5, WorkFollows
<1>7. (R!UnderWay => R!Kept \cap R!HeadTree \subseteq s5.tree)'
  BY <1>2, <1>4
<1> QED
  BY <1>2, <1>6, <1>7, CalmFollows

\* One list after another is a list.
LEMMA AppendedIsSeq == ASSUME NEW A, NEW p \in Seq(A), NEW q \in Seq(A) PROVE p \o q \in Seq(A)
OBVIOUS

\* What is in the index is committed, by --continue or by the user.
LEMMA CommitKeeps ==
    ASSUME R!RebaseAssumption, RebaseInv, s12' \in Nat,
           R!ContinueCommits \/ (R!UserCommit /\ s11' = s11 /\ s15' = s15)
    PROVE  RebaseInv'
<1> DEFINE ps == << R!HeadCommit >> \o (IF s9 = None THEN <<>> ELSE << s9 >>)
<1>1. /\ s11 = "idle" /\ R!UnderWay /\ UNCHANGED <<s5, s7, s13, s14, s15>> /\ s9' \in {s9, None}
      /\ s11' \in {"idle", "committed"}
      /\ s1' = Append(s1, [parents |-> ps, tree |-> s5.tree])
      /\ R!Advance(Len(s1) + 1)
  BY DEF R!ContinueCommits, R!UserCommit, R!Go, R!markers, R!ghosts
<1>2. /\ R!RebaseTypes /\ s15 = None /\ s5 \in IndexTypes /\ s9 \in R!Commit \cup {None}
      /\ (R!Kept \cap R!HeadTree \subseteq s5.tree) /\ R!Kept = s13 \ s14
  BY <1>1, CalmFacts DEF RebaseInv, Calm
<1>4. ps \in Seq(R!Commit) /\ s5.tree \in SUBSET TreeFile
  <2>1. R!HeadCommit \in R!Commit /\ s9 \in R!Commit \cup {None} /\ s5.tree \in SUBSET TreeFile
    BY <1>2, HeadIsCommit DEF IndexTypes
  <2>2. << R!HeadCommit >> \in Seq(R!Commit) /\ <<>> \in Seq(R!Commit)
    BY <2>1
  <2>3. s9 # None => << s9 >> \in Seq(R!Commit)
    BY <2>1
  <2>4. (IF s9 = None THEN <<>> ELSE << s9 >>) \in Seq(R!Commit)
    BY <2>2, <2>3
  <2> QED
    BY <2>1, <2>2, <2>4, AppendedIsSeq
<1> HIDE DEF ps
<1>5. PICK n : n = Len(s1) + 1
  OBVIOUS
<1>6. CommitsStay /\ n \in R!Commit' /\ (R!Tree(n))' = s5.tree
  <2>1. PICK qs \in Seq(R!Commit), t \in SUBSET TreeFile : qs = ps /\ t = s5.tree
    BY <1>4
  <2> QED
    BY <1>1, <1>2, <1>5, <2>1, NewCommit
<1>7. RefsTyped' /\ R!HeadCommit' = n
  BY <1>1, <1>2, <1>5, <1>6, AdvanceMoves
<1>8. R!HeadTree' = s5.tree
  BY <1>6, <1>7 DEF R!HeadTree, R!Tree
<1>9. s5' \in IndexTypes /\ s9' \in R!Commit' \cup {None} /\ R!UnderWay' /\ s15' = None
  BY <1>1, <1>2, <1>6 DEF CommitsStay, R!UnderWay
<1>10. \A f \in s13 \ s14' :
          /\ R!UnderWay /\ f \in R!HeadTree' => f \in s5'.tree
          /\ f \in R!HeadTree => f \in R!HeadTree'
          /\ R!UnderWay /\ s11 = "idle" /\ s8 # None /\ f \in s5.tree => f \in R!HeadTree'
  BY <1>1, <1>2, <1>8
<1> QED
  BY <1>1, <1>6, <1>7, <1>9, <1>10, CalmStep DEF Calm

\* A step that leaves commits, refs and HEAD alone: what HEAD has and what was staged
\* in place of a pick is in the index after it, or given up.
LEMMA IndexStepKeeps ==
    ASSUME R!RebaseAssumption, RebaseInv, s12' \in Nat, s11 \in Calm, s11' \in Calm,
           s15' = None, s11' # "idle" => R!UnderWay,
           UNCHANGED <<s1, s2, s3, s4, s13>>, s14 \subseteq s14',
           \/ s7' = s7
           \/ R!UnderWay /\ s7' \in R!RebaseState /\ s7'.todo = s7.todo
           \/ ~R!UnderWay /\ s7' \in {None, Torn},
           s5' \in IndexTypes, s9' \in R!Commit \cup {None},
           \A f \in s13 \ s14' :
              /\ R!UnderWay /\ f \in R!HeadTree => f \in s5'.tree
              /\ R!UnderWay /\ s11 = "idle" /\ s8 # None /\ f \in s5.tree =>
                    f \in R!HeadTree \/ (s11' = "idle" /\ s8' # None /\ f \in s5'.tree)
    PROVE  RebaseInv'
<1>1. R!RebaseTypes
  BY DEF RebaseInv
<1>2. /\ CommitsStay /\ R!Commit' = R!Commit /\ RefsTyped'
      /\ R!HeadTree' = R!HeadTree
  BY <1>1, HeadStays
<1>3. s9' \in R!Commit' \cup {None}
  BY <1>2
<1>4. \A f \in s13 \ s14' :
         /\ R!UnderWay /\ f \in R!HeadTree' => f \in s5'.tree
         /\ f \in R!HeadTree => f \in R!HeadTree'
         /\ R!UnderWay /\ s11 = "idle" /\ s8 # None /\ f \in s5.tree =>
               f \in R!HeadTree' \/ (s11' = "idle" /\ s8' # None /\ f \in s5'.tree)
  BY <1>2
<1> QED
  BY <1>2, <1>3, <1>4, CalmStep

\* --continue and --skip clear up, one thing after the other, and go on.
LEMMA ContinueKeeps ==
    ASSUME R!RebaseAssumption, RebaseInv, s12' \in Nat,
           R!ContinueOn \/ R!ContinueClears \/ R!SkipClears
    PROVE  RebaseInv'
<1>1. /\ s11 \in {"idle", "committed", "step", "clear"} /\ s11' \in Calm /\ s15' = s15
      /\ UNCHANGED <<s1, s2, s3, s4, s5, s13, s14>> /\ s9' \in {s9, None}
      /\ s11 = "idle" => R!UnderWay /\ s7' = s7 /\ (s8 # None => s5.tree = R!HeadTree)
      /\ s7' \in {s7, [s7 EXCEPT !.message = FALSE]}
  BY DEF R!ContinueOn, R!ContinueClears, R!SkipClears, R!DropMarker, R!Go, R!markers, R!ghosts,
         R!repo, Calm
<1>2. /\ s15 = None /\ s5 \in IndexTypes /\ s9 \in R!Commit \cup {None}
      /\ R!UnderWay /\ s7 \in R!RebaseState
      /\ (R!Kept \cap R!HeadTree \subseteq s5.tree) /\ R!Kept = s13 \ s14
  BY <1>1, CalmFacts DEF Calm
<1>3. s7' \in R!RebaseState /\ s7'.todo = s7.todo
  BY <1>1, <1>2, WithMessage
<1>4. R!UnderWay'
  BY <1>3, StatesAre DEF R!UnderWay
<1>5. \A f \in s13 \ s14' :
         /\ R!UnderWay /\ f \in R!HeadTree => f \in s5'.tree
         /\ R!UnderWay /\ s11 = "idle" /\ s8 # None /\ f \in s5.tree => f \in R!HeadTree
  BY <1>1, <1>2
<1>6. s5' \in IndexTypes /\ s9' \in R!Commit \cup {None} /\ s14 \subseteq s14' /\ s11 \in Calm
  BY <1>1, <1>2 DEF Calm
<1> QED
  BY <1>1, <1>2, <1>3, <1>4, <1>5, <1>6, IndexStepKeeps

\* --skip: what it gives up is counted.
LEMMA SkipKeeps ==
    ASSUME R!RebaseAssumption, RebaseInv, s12' \in Nat, R!Skip PROVE RebaseInv'
<1>1. /\ s11 = "idle" /\ s11' = "clear" /\ R!UnderWay /\ s15' = s15
      /\ UNCHANGED <<s1, s2, s3, s4, s7, s9, s13>>
      /\ s14 \cup (s5.tree \ R!HeadTree) \subseteq s14'
      /\ s5' = [tree |-> R!HeadTree, conflicted |-> FALSE]
  BY DEF R!Skip, R!Go, R!Clean, R!repo, R!markers
<1>2. s15 = None /\ s9 \in R!Commit \cup {None} /\ R!UnderWay'
  BY <1>1, CalmFacts DEF Calm, R!UnderWay
<1>3. s5' \in IndexTypes /\ s5'.tree = R!HeadTree
  BY <1>1, HeadIsCommit DEF RebaseInv, IndexTypes
<1>4. s14 \subseteq s14' /\ \A f \in s13 \ s14' : f \in s5.tree => f \in R!HeadTree
  BY <1>1
<1> QED
  BY <1>1, <1>2, <1>3, <1>4, IndexStepKeeps DEF Calm

\* Nothing happens to what the invariant is about.
LEMMA NothingHappens ==
    ASSUME R!RebaseAssumption, RebaseInv, s12' \in Nat,
           UNCHANGED <<s1, s2, s3, s4, s5, s7, s8, s9, s11, s13, s14, s15>>
    PROVE  RebaseInv'
<1>1. R!RebaseTypes /\ R!HeadCommit' = R!HeadCommit
  BY DEF RebaseInv, R!HeadCommit
<1>2. \A c : R!Tree(c)' = R!Tree(c) /\ R!FirstTree(c)' = R!FirstTree(c) /\ R!ParentsOf(c)' = R!ParentsOf(c)
  BY DEF R!Tree, R!FirstTree, R!ParentsOf
<1>3. \A c : R!Additions(c)' = R!Additions(c)
  BY <1>2 DEF R!Additions
<1>4. R!Commit' = R!Commit /\ R!RebaseState' = R!RebaseState
  BY DEF R!Commit, R!RebaseState
<1>5. R!RebaseTypes'
  BY <1>1, <1>4 DEF R!RebaseTypes, R!Commit, R!ParentsOf
<1>6. R!UnderWay' = R!UnderWay /\ R!Picked' = R!Picked
  BY DEF R!UnderWay, R!Picked
<1>7. R!Places'
  BY <1>4, <1>6 DEF RebaseInv, R!Places
<1>8. R!HeadTree' = R!HeadTree
  BY <1>1 DEF R!HeadTree, R!Tree
<1>9. (R!Target(s15))' = R!Target(s15) /\ (R!Tree(R!Target(s15)))' = R!Tree(R!Target(s15))
  BY DEF R!Target, R!Tree
<1>10. (R!Tree(s15.origHead))' = R!Tree(s15.origHead)
  BY DEF R!Tree
<1>11. R!AbortOnTheWay'
  BY <1>1, <1>10 DEF RebaseInv, R!AbortOnTheWay
<1>12. R!Left' = R!Left /\ R!StartTree' = R!StartTree /\ R!Staged' = R!Staged /\ R!Kept' = R!Kept
  BY <1>6, <1>8, <1>9 DEF R!Left, R!StartTree, R!Staged, R!Kept
<1>13. Covered'
  BY <1>2, <1>3, <1>12 DEF RebaseInv, R!WorkOnTheWay, Covered
<1>14. R!PickFastForwards' = R!PickFastForwards /\ (R!Tree(R!Picked))' = R!Tree(R!Picked)
       /\ (R!Additions(R!Picked))' = R!Additions(R!Picked)
       /\ (R!TipTree(s15.headName))' = R!TipTree(s15.headName)
  <2>1. R!PickFastForwards' = R!PickFastForwards
    BY <1>1, <1>6 DEF R!PickFastForwards, R!ParentsOf
  <2>2. (R!Tree(R!Picked))' = R!Tree(R!Picked)
    BY <1>6 DEF R!Tree
  <2>3. (R!FirstTree(R!Picked))' = R!FirstTree(R!Picked)
    BY <1>6 DEF R!FirstTree, R!ParentsOf, R!Tree
  <2>4. (R!Additions(R!Picked))' = R!Additions(R!Picked)
    BY <2>2, <2>3 DEF R!Additions
  <2>5. (R!TipTree(s15.headName))' = R!TipTree(s15.headName)
    BY DEF R!TipTree, R!Tree
  <2> QED
    BY <2>1, <2>2, <2>4, <2>5
<1> QED
  BY <1>1, <1>5, <1>6, <1>7, <1>8, <1>9, <1>11, <1>12, <1>13, <1>14, InvFollows DEF RebaseInv, R!WorkOnTheWay

\* What the user does: nothing of what is to be kept is dropped without being counted.
LEMMA UserKeeps ==
    ASSUME R!RebaseAssumption, RebaseInv, R!User PROVE RebaseInv'
<1>1. s12' \in Nat /\ s11' = s11 /\ s15' = s15 /\ R!RebaseTypes
  <2>1. R!RebaseTypes /\ s12 \in Nat
    BY DEF RebaseInv, R!RebaseTypes
  <2>2. s12' = s12 + 1 /\ s11' = s11 /\ s15' = s15
    BY DEF R!User
  <2> QED
    BY <2>1, <2>2
<1>2. s11 = "idle" =>
        /\ s15 = None /\ s7 \in R!RebaseState \cup {None, Torn}
        /\ R!Kept = s13 \ s14 /\ (R!UnderWay => R!Kept \cap R!HeadTree \subseteq s5.tree)
        /\ s9 \in R!Commit \cup {None} /\ s5 \in IndexTypes
  BY CalmFacts DEF Calm
<1>3. R!HeadTree \in SUBSET TreeFile
  BY <1>1, HeadIsCommit
<1>4. ASSUME NEW t \in {R!HeadTree, s5.tree}, R!Resolve(t) PROVE RebaseInv'
  <2>1. /\ s11 = "idle" /\ UNCHANGED <<s1, s2, s3, s4, s7, s8, s9, s13>>
        /\ s14' = s14 \cup ((s5.tree \cup R!HeadTree) \ t)
        /\ s5' = [tree |-> t, conflicted |-> FALSE]
    BY <1>4 DEF R!Resolve, R!Clean, R!repo, R!markers
  <2>2. s5' \in IndexTypes /\ s5'.tree = t
    BY <1>2, <1>3, <2>1 DEF IndexTypes
  <2>3. s14 \subseteq s14' /\ \A f \in s13 \ s14' : (f \in R!HeadTree => f \in t) /\ (f \in s5.tree => f \in t)
    BY <2>1
  <2> QED
    BY <1>1, <1>2, <2>1, <2>2, <2>3, IndexStepKeeps DEF Calm
<1>5. CASE R!UserCommit
  BY <1>1, <1>5, CommitKeeps
<1>6. CASE R!UserCherryPick
  <2>1. /\ s11 = "idle" /\ UNCHANGED <<s1, s2, s3, s4, s7, s8, s9, s13, s14>>
        /\ s5.tree = R!HeadTree /\ s5' = [s5 EXCEPT !.conflicted = TRUE]
    BY <1>6 DEF R!UserCherryPick, R!repo, R!ghosts
  <2>2. s5' \in IndexTypes /\ s5'.tree = s5.tree
    BY <1>2, <2>1 DEF IndexTypes
  <2> QED
    BY <1>1, <1>2, <2>1, <2>2, IndexStepKeeps DEF Calm
<1>7. CASE R!UserRemovesState
  <2>1. /\ s11 = "idle" /\ s7 = Torn /\ s7' = None
        /\ UNCHANGED <<s1, s2, s3, s4, s5, s8, s9, s13, s14>>
    BY <1>7 DEF R!UserRemovesState, R!repo, R!markers, R!ghosts
  <2>2. ~R!UnderWay
    BY <2>1 DEF R!UnderWay
  <2> QED
    BY <1>1, <1>2, <2>1, <2>2, IndexStepKeeps DEF Calm
<1>8. ASSUME NEW c \in R!Commit, R!UserMerge(c) PROVE RebaseInv'
  <2>1. /\ s11 = "idle" /\ UNCHANGED <<s1, s2, s3, s4, s7, s8, s13, s14>>
        /\ s5.tree = R!HeadTree /\ s9' = c
        /\ s5' = [tree |-> R!HeadTree \cup R!Tree(c), conflicted |-> FALSE]
    BY <1>8 DEF R!UserMerge, R!Clean, R!repo, R!ghosts
  <2>2. s5' \in IndexTypes /\ s5'.tree = R!HeadTree \cup R!Tree(c)
    BY <1>1, <1>3, <2>1, ParentsBefore DEF IndexTypes
  <2> QED
    BY <1>1, <1>2, <2>1, <2>2, IndexStepKeeps DEF Calm
<1>9. ASSUME NEW b \in RebaseBranch, R!UserSwitch(b) PROVE RebaseInv'
  <2>1. /\ s11 = "idle" /\ s5.tree = R!HeadTree /\ s3' = b
        /\ UNCHANGED <<s1, s2, s4, s7, s8, s9>>
        /\ s5' = [tree |-> R!Tree(s2[b]), conflicted |-> FALSE]
        /\ s13' = (IF R!UnderWay THEN s13 ELSE {})
        /\ s14' = s14 \cup (R!HeadTree \ R!Tree(s2[b]))
    BY <1>9 DEF R!UserSwitch, R!Clean, R!markers
  <2>2. s2[b] \in R!Commit /\ R!Tree(s2[b]) \in SUBSET TreeFile
    BY <1>1, ParentsBefore DEF R!RebaseTypes
  <2>3. s5' \in IndexTypes /\ s5'.tree = R!Tree(s2[b])
    BY <2>1, <2>2 DEF IndexTypes
  <2>4. CommitsStay /\ R!Commit' = R!Commit
    BY <1>1, <2>1, SameCommits
  <2>5. RefsTyped' /\ R!HeadCommit' = s2[b]
    BY <1>1, <2>1, <2>2, <2>4 DEF RefsTyped, R!HeadCommit, R!RebaseTypes, R!RebaseAssumption
  <2>6. R!HeadTree' = R!Tree(s2[b])
    BY <2>1, <2>5 DEF R!HeadTree, R!Tree
  <2>7. CASE R!UnderWay
    <3>1. s14 \subseteq s14' /\ \A f \in s13 \ s14' : f \in R!HeadTree => f \in R!HeadTree'
      BY <2>1, <2>6
    <3> QED
      BY <1>1, <1>2, <2>1, <2>3, <2>4, <2>5, <2>6, <2>7, <3>1, CalmStep DEF Calm
  <2>8. CASE ~R!UnderWay
    <3>1. s13' = {} /\ s7' \in R!RebaseState \cup {None, Torn} /\ s15' = None
      BY <1>1, <1>2, <2>1, <2>8
    <3>2. /\ R!RebaseTypes' /\ Covered'
          /\ (R!UnderWay => R!Kept \cap R!HeadTree \subseteq s5.tree)'
      BY <1>1, <1>2, <2>1, <2>3, <2>4, <2>5, <3>1, NothingToKeep
    <3> QED
      BY <1>1, <2>1, <3>1, <3>2, CalmFollows DEF Calm
  <2> QED
    BY <2>7, <2>8
<1>10. ASSUME NEW b \in RebaseBranch, NEW c \in R!Commit, R!MoveBranch(b, c) PROVE RebaseInv'
  <2>1. /\ s11 = "idle" /\ b # s3 /\ s2' = [s2 EXCEPT ![b] = c] /\ R!UnderWay
        /\ UNCHANGED <<s1, s3, s4, s5, s7, s8, s9, s13, s14>>
    BY <1>10 DEF R!MoveBranch, R!markers, R!ghosts
  <2>2. CommitsStay /\ R!Commit' = R!Commit
    BY <1>1, <2>1, SameCommits
  <2>3. s2 \in [RebaseBranch -> R!Commit] /\ s3 \in RebaseBranch \cup {None} /\ s4 \in R!Commit
    BY <1>1 DEF R!RebaseTypes
  <2>4. RefsTyped' /\ R!HeadCommit' = R!HeadCommit
    BY <2>1, <2>2, <2>3 DEF RefsTyped, R!HeadCommit
  <2>5. R!HeadTree' = R!HeadTree
    BY <2>1, <2>4 DEF R!HeadTree, R!Tree
  <2> QED
    BY <1>1, <1>2, <2>1, <2>2, <2>4, <2>5, CalmStep DEF Calm
<1>11. ASSUME NEW f, R!UserFile(f) PROVE RebaseInv'
  <2>1. UNCHANGED <<s1, s2, s3, s4, s5, s7, s8, s9, s11, s13, s14, s15>>
    BY <1>1, <1>11 DEF R!UserFile, R!repo, R!markers, R!ghosts
  <2> QED
    BY <1>1, <2>1, NothingHappens
<1>12. \A b \in RebaseBranch : s2[b] \in R!Commit
  BY <1>1 DEF R!RebaseTypes
<1> QED
  BY <1>4, <1>5, <1>6, <1>7, <1>8, <1>9, <1>10, <1>11, <1>12 DEF R!User

\* The picks after the first n.
LEMMA RestOfPlan ==
    ASSUME NEW A, NEW picks \in Seq(A), NEW n \in 0..Len(picks)
    PROVE  /\ SubSeq(picks, n + 1, Len(picks)) \in Seq(A)
           /\ R!Range(SubSeq(picks, n + 1, Len(picks))) = {picks[i] : i \in n + 1..Len(picks)}
<1> DEFINE rest == SubSeq(picks, n + 1, Len(picks))
<1>1. Len(picks) \in Nat /\ n \in Nat /\ n <= Len(picks)
  OBVIOUS
<1>2. /\ rest \in Seq(A) /\ Len(rest) = Len(picks) - n
      /\ \A j \in 1..Len(picks) - n : rest[j] = picks[n + j]
  BY <1>1
<1> HIDE DEF rest
<1>3. DOMAIN rest = 1..Len(picks) - n
  BY <1>2
<1>4. ASSUME NEW i \in n + 1..Len(picks) PROVE picks[i] \in R!Range(rest)
  <2>1. i - n \in 1..Len(picks) - n /\ n + (i - n) = i
    BY <1>1
  <2>2. rest[i - n] = picks[i]
    BY <1>2, <2>1
  <2> QED
    BY <1>3, <2>1, <2>2 DEF R!Range
<1>5. ASSUME NEW j \in 1..Len(picks) - n PROVE rest[j] \in {picks[i] : i \in n + 1..Len(picks)}
  <2>1. n + j \in n + 1..Len(picks) /\ rest[j] = picks[n + j]
    BY <1>1, <1>2
  <2> QED
    BY <2>1
<1>6. R!Range(rest) = {picks[i] : i \in n + 1..Len(picks)}
  BY <1>3, <1>4, <1>5 DEF R!Range
<1> QED
  BY <1>2, <1>6 DEF rest

\* performRebase: what the rebase is to keep is on the target or planned.
LEMMA StartKeeps ==
    ASSUME R!RebaseAssumption, RebaseInv, s12' \in Nat,
           NEW up \in R!Commit, NEW onto \in R!Commit, R!Start(up, onto)
    PROVE  RebaseInv'
<1>1. PICK h \in R!Commit : h = R!HeadCommit
  BY HeadIsCommit DEF RebaseInv
<1> DEFINE picks == R!Filtered(up, h)
           n == R!Skipped(onto, picks)
           target == IF n = 0 THEN onto ELSE picks[n]
           rest == SubSeq(picks, n + 1, Len(picks))
           state == [headName |-> s3, origHead |-> h, onto |-> onto, todo |-> rest,
                     last |-> IF n = 0 THEN None ELSE picks[n], message |-> FALSE]
<1>2. /\ s11 = "idle" /\ s7 = None /\ R!Begin(up, onto, picks) /\ s14' = {}
      /\ s13' = IF up = onto /\ R!OnlyAdditions THEN R!Tree(h) \cup R!Tree(onto) ELSE {}
  BY <1>1 DEF R!Start, R!HeadTree
<1>3. /\ R!RebaseTypes /\ s9 \in R!Commit \cup {None} /\ s3 \in RebaseBranch \cup {None}
      /\ None \notin R!Commit
  BY StateTypes DEF RebaseInv, R!RebaseTypes
<1>4. picks \in Seq(R!Commit) /\ n \in 0..Len(picks) /\ target \in R!Commit
  BY <1>3, PlanTyped
<1>5. ASSUME s13' # {}
      PROVE  /\ R!OnlyAdditions /\ s13' = R!Tree(h) \cup R!Tree(onto)
             /\ s13' \subseteq R!Tree(target) \cup UNION {R!Additions(picks[i]) : i \in n + 1..Len(picks)}
  <2>1. up = onto /\ R!OnlyAdditions /\ s13' = R!Tree(h) \cup R!Tree(onto)
    BY <1>2, <1>5
  <2> QED
    BY <1>3, <2>1, PlanKeepsAll
<1>6. s13' \subseteq TreeFile
  BY <1>2, <1>3, ParentsBefore
<1>7. /\ s15' = state /\ s11' = (IF n = Len(picks) THEN "ff" ELSE "detach")
      /\ s5' = [tree |-> R!Tree(R!Target(state)), conflicted |-> FALSE]
      /\ UNCHANGED <<s1, s2, s3, s4, s7, s8, s9>>
  <2> HIDE DEF picks
  <2> QED
    BY <1>1, <1>2 DEF R!Begin, R!Clean, R!repo, R!markers
<1> HIDE DEF picks, n
<1>8. /\ rest \in Seq(R!Commit)
      /\ R!Range(rest) = {picks[i] : i \in n + 1..Len(picks)} /\ R!Range(rest) \subseteq R!Commit
  <2>1. rest \in Seq(R!Commit) /\ R!Range(rest) = {picks[i] : i \in n + 1..Len(picks)}
    BY <1>4, RestOfPlan
  <2>2. R!Range(rest) \subseteq R!Commit
    <3> HIDE DEF rest
    <3> QED
      BY <2>1 DEF R!Range
  <2> QED
    BY <2>1, <2>2
<1>9. R!Target(state) = target
  <2>1. n # 0 => picks[n] \in R!Commit
    BY <1>4
  <2> QED
    BY <1>3, <2>1 DEF R!Target
<1> HIDE DEF rest, target
<1>10. state \in R!RebaseState /\ state.todo = rest /\ state.headName = s3
  <2>1. (IF n = 0 THEN None ELSE picks[n]) \in R!Commit \cup {None}
    BY <1>4
  <2> QED
    BY <1>3, <1>8, <2>1 DEF R!RebaseState
<1> HIDE DEF state
<1>11. s15' \in R!RebaseState /\ s15' # None /\ s7' = None
  BY <1>2, <1>7, <1>10, StatesAre DEF RebaseInv
<1>12. CommitsStay /\ R!Commit' = R!Commit /\ RefsTyped' /\ R!HeadCommit' = h
  BY <1>1, <1>3, <1>7, HeadStays
<1>13. (R!Target(s15))' = target /\ (R!Tree(R!Target(s15)))' = R!Tree(target)
       /\ R!Tree(target) \in SUBSET TreeFile
  <2>1. (R!Target(s15))' = target
    BY <1>7, <1>9 DEF R!Target
  <2> QED
    BY <1>3, <1>4, <1>7, <2>1, ParentsBefore DEF R!Tree
<1>14. s5' \in IndexTypes /\ s5'.tree = R!Tree(target)
  BY <1>7, <1>9, <1>13 DEF IndexTypes
<1>15. R!RebaseTypes'
  <2>1. s9' \in R!Commit' \cup {None} /\ s7' \in R!RebaseState \cup {None, Torn}
    BY <1>3, <1>7, <1>11, <1>12
  <2> QED
    BY <1>6, <1>11, <1>12, <1>14, <2>1, TypesFollow
<1>16. ~R!UnderWay' /\ s11' \in {"ff", "detach"}
  BY <1>7, <1>11 DEF R!UnderWay
<1>17. R!Left' = IF s11' = "detach" THEN R!Range(rest) ELSE {}
  BY <1>7, <1>10, <1>16 DEF R!Left, R!Picking, R!Starting
<1>18. R!StartTree' = R!Tree(target) /\ R!Kept' = s13'
  BY <1>2, <1>13, <1>16 DEF R!StartTree, R!Kept
<1>19. \A c \in R!Left' : /\ c \in R!Commit
                          /\ R!FirstTree(c)' = R!FirstTree(c) /\ R!Tree(c)' = R!Tree(c)
                          /\ R!Additions(c)' = R!Additions(c)
  BY <1>8, <1>12, <1>17 DEF CommitsStay, R!Additions
<1>20. s13' # {} => \A c \in R!Left' : R!FirstTree(c)' \subseteq R!Tree(c)'
  BY <1>3, <1>5, <1>19, FirstInTree
<1>21. R!Kept' \subseteq R!StartTree' \cup (UNION {R!Additions(c)' : c \in R!Left'})
  <2>1. UNION {R!Additions(picks[i]) : i \in n + 1..Len(picks)}
           \subseteq UNION {R!Additions(c)' : c \in R!Left'}
    <3>1. CASE s11' = "detach"
      BY <1>8, <1>17, <1>19, <3>1
    <3>2. CASE s11' # "detach"
      <4>1. n = Len(picks)
        BY <1>7, <3>2
      <4>2. n + 1..Len(picks) = {}
        BY <1>4, <4>1
      <4> QED
        BY <4>2
    <3> QED
      BY <3>1, <3>2
  <2> QED
    BY <1>5, <1>18, <2>1
<1>22. Covered'
  BY <1>20, <1>21 DEF Covered
<1>23. R!Places' /\ R!AbortOnTheWay'
  BY <1>11, <1>16 DEF R!Places, R!AbortOnTheWay, R!Undoing, R!Starting, R!Picking
<1> QED
  BY <1>13, <1>14, <1>15, <1>16, <1>22, <1>23, InvFollows DEF R!Starting

\* The invariant holds when nothing was done yet,
LEMMA RebaseBegins == ASSUME R!RebaseAssumption, R!Init PROVE RebaseInv
<1> DEFINE K == [parents : Seq(Nat), tree : SUBSET TreeFile]
<1>1. /\ s1 \in Seq(K) /\ s1 # <<>> /\ s2 \in [RebaseBranch -> R!Commit] /\ s3 \in RebaseBranch
      /\ s4 = 1 /\ s7 = None /\ s8 = None /\ s9 = None /\ s11 = "idle" /\ s13 = {} /\ s15 = None
      /\ s12 \in Nat /\ s5 = [tree |-> R!Tree(s2[s3]), conflicted |-> FALSE]
      /\ \A c \in R!Commit : \A i \in 1..Len(R!ParentsOf(c)) : R!ParentsOf(c)[i] \in 1..c - 1
  BY DEF R!RebaseAssumption, R!Init, R!Commit, R!ParentsOf
<1>2. s4 \in R!Commit
  <2> HIDE DEF K
  <2>1. Len(s1) \in Nat /\ Len(s1) # 0
    BY <1>1
  <2> QED
    BY <1>1, <2>1 DEF R!Commit
<1>3. s5 \in IndexTypes
  <2>1. s2[s3] \in 1..Len(s1)
    BY <1>1 DEF R!Commit
  <2>2. s1[s2[s3]] \in K
    <3> HIDE DEF K
    <3> QED
      BY <1>1, <2>1
  <2> QED
    BY <1>1, <2>2 DEF R!Tree, IndexTypes
<1>4. R!RebaseTypes
  BY <1>1, <1>2, <1>3 DEF R!RebaseTypes, IndexTypes
<1>5. ~R!UnderWay
  BY <1>1 DEF R!UnderWay
<1>6. R!Places /\ R!AbortOnTheWay
  BY <1>1 DEF R!Places, R!AbortOnTheWay, R!Undoing, R!Starting, R!Picking
<1>7. R!WorkOnTheWay
  <2>1. R!Kept = {}
    BY <1>1 DEF R!Kept
  <2> QED
    BY <1>1, <2>1 DEF R!WorkOnTheWay, R!Starting
<1> QED
  BY <1>4, <1>6, <1>7 DEF RebaseInv

\* and every step keeps it.
LEMMA RebaseStep ==
    ASSUME R!RebaseAssumption, RebaseInv, R!Next PROVE RebaseInv'
<1>1. \A b \in RebaseBranch : s2[b] \in R!Commit
  BY DEF RebaseInv, R!RebaseTypes
<1>2. s12 \in Nat
  BY DEF RebaseInv, R!RebaseTypes
<1>3. CASE R!Command
  <2>1. s12' \in Nat
    BY <1>2, <1>3 DEF R!Command
  <2>2. ASSUME NEW b \in RebaseBranch, NEW d \in RebaseBranch, R!Start(s2[b], s2[d])
        PROVE  RebaseInv'
    BY <1>1, <2>1, <2>2, StartKeeps
  <2>3. CASE R!Loop
    BY <2>1, <2>3, AttemptKeeps, NoteKeeps, StoppingPickKeeps, MergingKeeps, MakingPickKeeps DEF R!Loop
  <2>4. CASE R!Ending
    BY <2>1, <2>4, FinishKeeps, AbortKeeps, ReattachKeeps, CleanupKeeps DEF R!Ending
  <2>5. CASE R!Abort \/ R!ContinueOn \/ R!ContinueCommits \/ R!ContinueClears \/ R!Skip \/ R!SkipClears
    BY <2>1, <2>5, AbortKeeps, ContinueKeeps, CommitKeeps, SkipKeeps
  <2> QED
    BY <1>3, <2>1, <2>2, <2>3, <2>4, <2>5, BeginningKeeps DEF R!Command
<1>4. CASE R!Crash
  <2>1. s12' \in Nat
    BY <1>2, <1>4 DEF R!Crash
  <2> QED
    BY <1>4, <2>1, CrashKeeps
<1> QED
  BY <1>3, <1>4, UserKeeps DEF R!Next

-------------------------------------------------------------------------------
(* What the steps of a rebase promise.                                     *)

\* Between rebases HEAD has it all.
LEMMA NothingIsLost ==
    ASSUME R!RebaseAssumption, RebaseInv PROVE R!NothingLost
<1> SUFFICES ASSUME s11 = "idle", ~R!UnderWay PROVE R!Kept \subseteq R!HeadTree
  BY DEF R!NothingLost
<1>1. R!Left = {} /\ R!StartTree = R!HeadTree /\ R!Staged = {}
  BY CalmFacts DEF Calm
<1> QED
  BY <1>1 DEF RebaseInv, R!WorkOnTheWay

\* The user does nothing, and no command begins, while a process runs.
LEMMA WhileOneRuns ==
    ASSUME R!Next, s11 # "idle"
    PROVE  /\ ~R!User /\ (\A c, d : ~R!Start(c, d))
           /\ ~R!Abort /\ ~R!ContinueOn /\ ~R!ContinueCommits /\ ~R!Skip
<1>1. \A t : ~R!Resolve(t)
  BY DEF R!Resolve
<1>2. \A c, d : ~R!UserMerge(c) /\ ~R!UserSwitch(c) /\ ~R!MoveBranch(c, d) /\ ~R!Start(c, d)
  BY DEF R!UserMerge, R!UserSwitch, R!MoveBranch, R!Start
<1>3. \A f : ~R!UserFile(f)
  BY DEF R!UserFile
<1>4. ~R!UserCommit /\ ~R!UserCherryPick /\ ~R!UserRemovesState
  BY DEF R!UserCommit, R!UserCherryPick, R!UserRemovesState
<1>5. ~R!User
  BY <1>1, <1>2, <1>3, <1>4 DEF R!User
<1> QED
  BY <1>2, <1>5 DEF R!Abort, R!ContinueOn, R!ContinueCommits, R!Skip

\* finishRebase moves no branch that is not where it was.
LEMMA FinishKeepsTheMoves ==
    ASSUME R!RebaseAssumption, RebaseInv, R!Next PROVE R!FinishKeepsMoves
<1> SUFFICES ASSUME s11 = "loop", NEW b \in RebaseBranch \ {s3}, s2'[b] # s2[b]
             PROVE  s2[b] = s7.origHead
  BY DEF R!FinishKeepsMoves
<1>1. s2 \in [RebaseBranch -> R!Commit] /\ s2' # s2
  BY DEF RebaseInv, R!RebaseTypes
<1>2. R!FinishLoop
  <2>1. ~R!Beginning
    BY DEF R!Beginning, R!FastForward, R!Detach, R!ForgetPick, R!WriteState
  <2>2. ~R!NoteDone /\ ~R!PickIsBlocked /\ ~R!PutBack /\ ~R!PickFastForward /\ ~R!PickMerges
    BY DEF R!NoteDone, R!PickIsBlocked, R!PutBack, R!PickFastForward, R!PickMerges
  <2>3. ~R!PickConflicts /\ ~R!PickCommits /\ ~R!PickUnidentified
    BY DEF R!PickConflicts, R!PickCommits, R!PickUnidentified
  <2>4. ~R!AbortRef /\ ~R!Reattach /\ ~R!Cleanup /\ ~R!ContinueClears /\ ~R!SkipClears
    BY DEF R!AbortRef, R!Reattach, R!Cleanup, R!ContinueClears, R!SkipClears
  <2>5. ~R!Attempt /\ ~R!Crash
    BY <1>1 DEF R!Attempt, R!Crash, R!repo
  <2> QED
    BY <2>1, <2>2, <2>3, <2>4, <2>5, WhileOneRuns DEF R!Next, R!Command, R!Loop, R!Ending
<1>3. s2[s7.headName] = s7.origHead /\ s2' = [s2 EXCEPT ![s7.headName] = R!HeadCommit]
  BY <1>1, <1>2 DEF R!FinishLoop
<1>4. b = s7.headName
  BY <1>1, <1>3
<1> QED
  BY <1>3, <1>4

\* Only the branch HEAD is on is advanced.
LEMMA AdvancesHead ==
    ASSUME R!RebaseTypes, NEW c, R!Advance(c), NEW b \in RebaseBranch, s2'[b] # s2[b]
    PROVE  s2'[b] = c /\ s2[b] = R!HeadCommit
<1>1. s2 \in [RebaseBranch -> R!Commit] /\ s3 # None
  BY DEF R!RebaseTypes, R!Advance
<1>2. s2' = [s2 EXCEPT ![s3] = c]
  BY <1>1 DEF R!Advance
<1> QED
  BY <1>1, <1>2 DEF R!HeadCommit

\* A commit that is made has HEAD as its first parent.
LEMMA MadeOnHead ==
    ASSUME R!RebaseTypes, NEW more \in Seq(Nat), NEW t,
           s1' = Append(s1, [parents |-> << R!HeadCommit >> \o more, tree |-> t]),
           R!Advance(Len(s1) + 1), NEW b \in RebaseBranch, s2'[b] # s2[b]
    PROVE  s2[b] \in R!TipParents(b)'
<1>1. s2'[b] = Len(s1) + 1 /\ s2[b] = R!HeadCommit
  BY AdvancesHead
<1>2. PICK ps, new : ps = << R!HeadCommit >> \o more /\ new = [parents |-> ps, tree |-> t]
  OBVIOUS
<1>3. s1' = Append(s1, new) /\ new.parents = ps
  BY <1>2
<1>4. s1'[Len(s1) + 1] = new
  <2> DEFINE K == [parents : Seq(Nat), tree : SUBSET TreeFile]
  <2>1. s1 \in Seq(K)
    BY DEF R!RebaseTypes
  <2> HIDE DEF K
  <2> QED
    BY <1>3, <2>1
<1>5. R!ParentsOf(s2[b])' = ps
  BY <1>1, <1>3, <1>4 DEF R!ParentsOf
<1>6. ps \in Seq(Nat) /\ Len(ps) # 0 /\ ps[1] = R!HeadCommit
  <2>1. R!HeadCommit \in Nat
    BY HeadIsCommit, ParentsBefore
  <2>2. << R!HeadCommit >> \in Seq(Nat) /\ Len(<< R!HeadCommit >>) = 1
        /\ << R!HeadCommit >>[1] = R!HeadCommit
    BY <2>1
  <2> QED
    BY <1>2, <2>2
<1>7. R!HeadCommit \in R!Range(ps)
  BY <1>6 DEF R!Range
<1>8. R!TipParents(b)' = R!Range(ps)
  BY <1>5 DEF R!TipParents, R!Range
<1> QED
  BY <1>1, <1>7, <1>8

\* The branch moves to what is made on top of it, to all that is to be kept, or back.
LEMMA BranchesMoveWhole ==
    ASSUME R!RebaseAssumption, RebaseInv, R!Next PROVE R!BranchMovesWhole
<1> SUFFICES ASSUME s12' = s12, NEW b \in RebaseBranch, s2'[b] # s2[b]
             PROVE  \/ s2[b] \in R!TipParents(b)'
                    \/ s11 = "abortRef" /\ s2'[b] = s15.origHead
                    \/ R!Kept' \subseteq R!TipTree(b)'
  BY DEF R!BranchMovesWhole
<1>1. R!RebaseTypes /\ s12 \in Nat /\ s2 \in [RebaseBranch -> R!Commit]
  BY DEF RebaseInv, R!RebaseTypes
<1>2. R!Command
  BY <1>1 DEF R!Next, R!User, R!Crash
<1>3. \/ R!FastForward \/ R!PickFastForward \/ R!PickCommits
      \/ R!FinishLoop \/ R!AbortRef \/ R!ContinueCommits
  <2>1. s2' # s2
    OBVIOUS
  <2>2. \A c, d : ~R!Start(c, d)
    BY <2>1 DEF R!Start, R!Begin, R!repo
  <2>3. ~R!Detach /\ ~R!ForgetPick /\ ~R!WriteState
    BY <2>1 DEF R!Detach, R!ForgetPick, R!WriteState, R!repo
  <2>4. ~R!Attempt /\ ~R!NoteDone /\ ~R!PickIsBlocked /\ ~R!PutBack /\ ~R!PickMerges
    BY <2>1 DEF R!Attempt, R!NoteDone, R!PickIsBlocked, R!PutBack, R!PickMerges, R!repo
  <2>5. ~R!PickConflicts /\ ~R!PickUnidentified /\ ~R!Reattach /\ ~R!Cleanup
    BY <2>1 DEF R!PickConflicts, R!PickUnidentified, R!Reattach, R!Cleanup, R!repo
  <2>6. ~R!Abort /\ ~R!ContinueOn /\ ~R!ContinueClears /\ ~R!Skip /\ ~R!SkipClears
    BY <2>1 DEF R!Abort, R!ContinueOn, R!ContinueClears, R!Skip, R!SkipClears, R!repo
  <2> QED
    BY <1>2, <2>2, <2>3, <2>4, <2>5, <2>6 DEF R!Command, R!Beginning, R!Loop, R!Ending
<1>4. CASE R!FastForward
  <2>1. s11 = "ff" /\ R!Advance(R!Target(s15)) /\ s1' = s1 /\ R!Kept' = R!Kept
    BY <1>4 DEF R!FastForward, R!Kept, R!ghosts
  <2>2. s2'[b] = R!Target(s15)
    BY <1>1, <2>1, AdvancesHead
  <2>3. R!Left = {} /\ R!Staged = {} /\ R!StartTree = R!Tree(R!Target(s15))
    BY <2>1 DEF RebaseInv, R!Places, R!Left, R!Staged, R!StartTree, R!Picking, R!Starting, R!UnderWay
  <2>4. R!TipTree(b)' = R!Tree(R!Target(s15))
    BY <2>1, <2>2 DEF R!TipTree, R!Tree
  <2> QED
    BY <2>1, <2>3, <2>4 DEF RebaseInv, R!WorkOnTheWay
<1>5. CASE R!PickFastForward
  <2>1. s11 = "take" /\ R!Advance(R!Picked) /\ s1' = s1
    BY <1>5 DEF R!PickFastForward
  <2>2. s2'[b] = R!Picked /\ s2[b] = R!HeadCommit
    BY <1>1, <2>1, AdvancesHead
  <2>3. /\ R!Picked \in R!Commit /\ R!ParentsOf(R!Picked) # <<>>
        /\ R!ParentsOf(R!Picked)[1] = R!HeadCommit
    BY <2>1 DEF RebaseInv, R!Places, R!WorkOnTheWay, R!Picking, R!PickFastForwards
  <2>4. R!HeadCommit \in R!Range(R!ParentsOf(R!Picked))
    <3>1. R!ParentsOf(R!Picked) \in Seq(R!Commit)
      BY <1>1, <2>3, ParentsBefore
    <3> QED
      BY <2>3, <3>1 DEF R!Range
  <2>5. R!TipParents(b)' = R!Range(R!ParentsOf(R!Picked))
    BY <2>1, <2>2 DEF R!TipParents, R!ParentsOf, R!Range
  <2> QED
    BY <2>2, <2>4, <2>5
<1>6. CASE R!PickCommits
  <2>1. /\ s1' = Append(s1, [parents |-> << R!HeadCommit >>, tree |-> s5.tree])
        /\ R!Advance(Len(s1) + 1)
    BY <1>6 DEF R!PickCommits, R!repo
  <2>2. << R!HeadCommit >> = << R!HeadCommit >> \o <<>> /\ <<>> \in Seq(Nat)
    OBVIOUS
  <2>3. s1' = Append(s1, [parents |-> << R!HeadCommit >> \o <<>>, tree |-> s5.tree])
    BY <2>1, <2>2
  <2> QED
    BY <1>1, <2>1, <2>2, <2>3, MadeOnHead
<1>7. CASE R!FinishLoop
  <2>1. /\ s11 = "loop" /\ s7.todo = <<>> /\ s1' = s1 /\ R!Kept' = R!Kept
        /\ s2' = [s2 EXCEPT ![s7.headName] = R!HeadCommit]
    BY <1>7 DEF R!FinishLoop, R!Kept, R!ghosts
  <2>2. s2'[b] = R!HeadCommit
    BY <1>1, <2>1
  <2>3. R!Left = {} /\ R!Staged = {} /\ R!StartTree = R!HeadTree
    BY <2>1, CalmFacts DEF Calm, R!Range
  <2>4. R!TipTree(b)' = R!HeadTree
    BY <2>1, <2>2 DEF R!TipTree, R!HeadTree, R!Tree
  <2> QED
    BY <2>1, <2>3, <2>4 DEF RebaseInv, R!WorkOnTheWay
<1>8. CASE R!AbortRef
  <2>1. s11 = "abortRef" /\ (R!Advance(s15.origHead) \/ s2' = [s2 EXCEPT ![s15.headName] = s15.origHead])
    BY <1>8 DEF R!AbortRef
  <2>2. s2'[b] = s15.origHead
    BY <1>1, <2>1, AdvancesHead
  <2> QED
    BY <2>1, <2>2
<1>9. CASE R!ContinueCommits
  <2>1. PICK more : more = IF s9 = None THEN <<>> ELSE << s9 >>
    OBVIOUS
  <2>2. more \in Seq(Nat)
    <3>1. s9 # None => s9 \in Nat
      BY <1>1, ParentsBefore DEF R!RebaseTypes
    <3>2. s9 # None => << s9 >> \in Seq(Nat)
      BY <3>1
    <3>3. <<>> \in Seq(Nat)
      OBVIOUS
    <3> QED
      BY <2>1, <3>2, <3>3
  <2>3. /\ s1' = Append(s1, [parents |-> << R!HeadCommit >> \o more, tree |-> s5.tree])
        /\ R!Advance(Len(s1) + 1)
    BY <1>9, <2>1 DEF R!ContinueCommits
  <2> QED
    BY <1>1, <2>2, <2>3, MadeOnHead
<1> QED
  BY <1>3, <1>4, <1>5, <1>6, <1>7, <1>8, <1>9

\* handleAbort brings everything back: when the last of the state goes, the rest is there.
LEMMA AbortBringsBack ==
    ASSUME R!RebaseAssumption, RebaseInv, R!Next PROVE R!AbortRestores
<1> SUFFICES ASSUME s11 = "undo", s7' = None
             PROVE  /\ s15.headName # None => s3' = s15.headName
                    /\ R!HeadCommit' = s15.origHead /\ s5'.tree = R!Tree(s15.origHead)
                    /\ s8' = None /\ s9' = None /\ s10' = FALSE
  BY DEF R!AbortRestores
<1>1. s7 # None
  BY DEF RebaseInv, R!Places
<1>2. R!Cleanup
  <2>1. ~R!Beginning
    BY DEF R!Beginning, R!FastForward, R!Detach, R!ForgetPick, R!WriteState
  <2>2. ~R!Attempt /\ ~R!NoteDone /\ ~R!PickIsBlocked /\ ~R!PutBack /\ ~R!PickFastForward
    BY DEF R!Attempt, R!NoteDone, R!PickIsBlocked, R!PutBack, R!PickFastForward
  <2>3. ~R!PickMerges /\ ~R!PickConflicts /\ ~R!PickCommits /\ ~R!PickUnidentified
    BY DEF R!PickMerges, R!PickConflicts, R!PickCommits, R!PickUnidentified
  <2>4. ~R!FinishLoop /\ ~R!AbortRef /\ ~R!Reattach /\ ~R!ContinueClears /\ ~R!SkipClears
    BY DEF R!FinishLoop, R!AbortRef, R!Reattach, R!ContinueClears, R!SkipClears
  <2>5. ~R!Crash
    BY <1>1 DEF R!Crash
  <2> QED
    BY <2>1, <2>2, <2>3, <2>4, <2>5, WhileOneRuns DEF R!Next, R!Command, R!Loop, R!Ending
<1>3. ~R!Marked /\ UNCHANGED <<s1, s2, s3, s4, s5, s8, s9, s10>>
  BY <1>1, <1>2 DEF R!Cleanup, R!repo, R!markers
<1>4. s8 = None /\ s9 = None /\ s10 = FALSE
  BY <1>3 DEF R!Marked
<1>5. /\ s5.tree = R!Tree(s15.origHead) /\ R!HeadCommit = s15.origHead
      /\ s15.headName # None => s3 = s15.headName
  BY DEF RebaseInv, R!AbortOnTheWay, R!Undoing
<1>6. R!HeadCommit' = R!HeadCommit
  BY <1>3 DEF R!HeadCommit
<1> QED
  BY <1>3, <1>4, <1>5, <1>6

\* What TLC checks as RebaseKeepsWork, wherever the process is cut off, before any of its
\* writes, and whatever the user does between commands: a rebase that is over has kept every
\* file of the branch and of what it went onto, but for those the user did without and the
\* pick it was cut off in; a branch is moved to a commit made on top of it, to one with all
\* that is to be kept, or back by --abort; finishing moves over no branch that somebody else
\* moved between commands; and an --abort that gets to its end brings back HEAD, the branch
\* and the files.  For any history, branches, files and conflicts; what is to be kept is
\* asked of a rebase onto its upstream, where commits only add (rebase-engine.ts,
\* commands/rebase.ts, lib/rebase.ts).
THEOREM RebaseKeepsAllWork ==
    ASSUME R!RebaseAssumption PROVE StoresSpec => RebaseKeepsWork
<1> DEFINE RInv == part = "rebase" => RebaseInv
           MovesKept == part = "rebase" =>
               R!FinishKeepsMoves /\ R!BranchMovesWhole /\ R!AbortRestores
<1>1. StoresInit => RInv
  BY RebaseBegins DEF StoresInit
<1>2. RInv /\ [StoresNext]_storesVars => RInv'
  <2> SUFFICES ASSUME RInv, [StoresNext]_storesVars, part' = "rebase" PROVE RebaseInv'
    OBVIOUS
  <2>1. part = "rebase" /\ RebaseInv
    BY DEF StoresNext, storesVars
  <2>2. CASE StoresNext
    <3>1. R!Next
      BY <2>1, <2>2 DEF StoresNext
    <3> QED
      BY <2>1, <3>1, RebaseStep
  <2>3. CASE UNCHANGED storesVars
    <3>1. s12' \in Nat /\ UNCHANGED <<s1, s2, s3, s4, s5, s7, s8, s9, s11, s13, s14, s15>>
      BY <2>1, <2>3 DEF storesVars, slots, RebaseInv, R!RebaseTypes
    <3> QED
      BY <2>1, <3>1, NothingHappens
  <2> QED
    BY <2>2, <2>3
<1>3. RInv => (part = "rebase" => R!NothingLost)
  BY NothingIsLost
<1>4. RInv /\ [StoresNext]_storesVars => [MovesKept]_storesVars
  <2> SUFFICES ASSUME RInv, StoresNext, part = "rebase"
               PROVE  R!FinishKeepsMoves /\ R!BranchMovesWhole /\ R!AbortRestores
    OBVIOUS
  <2>1. RebaseInv /\ R!Next
    BY DEF StoresNext
  <2> QED
    BY <2>1, FinishKeepsTheMoves, BranchesMoveWhole, AbortBringsBack
<1> QED
  BY <1>1, <1>2, <1>3, <1>4, PTL DEF StoresSpec, RebaseKeepsWork

-------------------------------------------------------------------------------
(* Worktrees: s1 is refs/heads; s2, s3 and s4 the HEADs, where they came   *)
(* from, and the rebases; s5 the admin directories, s6 and s7 the paths to *)
(* and from the checkouts, s8 the locks; s9 the branches that were taken   *)
(* where nobody asks who has them.                                         *)

WorktreesInv == W!WorktreeTypes /\ W!OnlyHolder

AnyTree == W!WorktreeId \cup {MainTree}

\* The branches two worktrees may have between them stay apart when HEADs and rebases of
\* listed worktrees only let go of branches.
LEMMA LettingGo ==
    ASSUME W!OnlyHolder, s9 \subseteq s9',
           \A b \in BranchName \ s9' : W!Holders(b)' \subseteq W!Holders(b)
    PROVE  W!OnlyHolder'
BY DEF W!OnlyHolder

\* One worktree takes a branch, and the others let go at most.
LEMMA Taking ==
    ASSUME W!OnlyHolder, s9 \subseteq s9', NEW b, NEW w,
           b \notin s9' => W!Holders(b) \subseteq {w},
           \A d \in BranchName \ s9' : W!Holders(d)' \subseteq W!Holders(d) \cup (IF d = b THEN {w} ELSE {})
    PROVE  W!OnlyHolder'
<1> SUFFICES ASSUME NEW d \in BranchName \ s9', NEW u \in W!Holders(d)', NEW v \in W!Holders(d)'
             PROVE  u = v
  BY DEF W!OnlyHolder
<1>1. CASE d = b
  BY <1>1
<1>2. CASE d # b
  BY <1>2 DEF W!OnlyHolder
<1> QED
  BY <1>1, <1>2

\* Who takes a branch either asks whether another worktree has it, or it is noted when one has.
LEMMA TakenIsAsked ==
    ASSUME NEW w, NEW b, NEW unasked \in BOOLEAN, W!Taken(w, b, unasked), unasked \/ W!Unclaimed(b, w)
    PROVE  s9 \subseteq s9' /\ (b \notin s9' => W!Holders(b) \subseteq {w})
BY DEF W!Taken, W!Unclaimed, W!Elsewhere

\* HEAD of a worktree moves to a branch that no other has, or that is noted.
LEMMA HeadMoves ==
    ASSUME W!WorktreesAssumption, WorktreesInv, NEW w \in W!Here, NEW b \in BranchName,
           s1' \in [BranchName -> Nat], s3' \in [AnyTree -> BranchName \cup {None}],
           s2' = [s2 EXCEPT ![w] = W!On(b)], UNCHANGED <<s4, s5>>,
           s9 \subseteq s9', b \notin s9' => W!Holders(b) \subseteq {w}
    PROVE  WorktreesInv'
<1>1. /\ s2 \in [AnyTree -> [on : BranchName \cup {None}, at : Nat]]
      /\ w \in W!Listed /\ W!Listed \subseteq AnyTree /\ W!Listed' = W!Listed
  BY DEF WorktreesInv, W!WorktreeTypes, W!Here, W!Listed, AnyTree
<1>2. s2' \in [AnyTree -> [on : BranchName \cup {None}, at : Nat]]
  BY <1>1 DEF W!On
<1>3. W!WorktreeTypes'
  BY <1>2 DEF WorktreesInv, W!WorktreeTypes, AnyTree
<1>4. \A d \in BranchName : W!Holders(d)' \subseteq W!Holders(d) \cup (IF d = b THEN {w} ELSE {})
  BY <1>1 DEF W!Holders, W!On
<1>5. W!OnlyHolder'
  BY <1>4, Taking DEF WorktreesInv
<1> QED
  BY <1>3, <1>5 DEF WorktreesInv

\* A HEAD that lets go of its branch, and a branch that is moved, change nobody's claim.
LEMMA ClaimsStay ==
    ASSUME W!WorktreesAssumption, WorktreesInv,
           s1' \in [BranchName -> Nat], s3' \in [AnyTree -> BranchName \cup {None}],
           s2' \in [AnyTree -> [on : BranchName \cup {None}, at : Nat]],
           s4' \in [AnyTree -> BranchName \cup {None}],
           s5' \subseteq s5, s9' = s9,
           \A v \in {MainTree} \cup s5', d \in BranchName :
              s2'[v].on = d \/ s4'[v] = d => s2[v].on = d \/ s4[v] = d
    PROVE  WorktreesInv'
<1>1. W!WorktreeTypes'
  BY DEF WorktreesInv, W!WorktreeTypes, AnyTree
<1>2. \A d \in BranchName : W!Holders(d)' \subseteq W!Holders(d)
  BY DEF W!Holders, W!Listed
<1>3. W!OnlyHolder'
  BY <1>2, LettingGo DEF WorktreesInv
<1> QED
  BY <1>1, <1>3 DEF WorktreesInv

\* switch and checkout.
LEMMA HeadsStep ==
    ASSUME W!WorktreesAssumption, WorktreesInv, W!Heads
    PROVE  WorktreesInv'
<1>0. PICK w \in W!Here, switch \in BOOLEAN :
         \/ W!Previous(w, switch)
         \/ \E b \in BranchName : W!Orphan(w, b, switch)
         \/ \E c \in W!Commit : W!Detach(w, c, switch)
         \/ \E b \in BranchName, i \in BOOLEAN :
               \/ W!Checkout(w, b, switch, i)
               \/ W!CreateUnborn(w, b, s1[b] # 0, switch, i)
               \/ \E c \in W!Commit : W!Create(w, b, c, s1[b] # 0, switch, i)
  BY DEF W!Heads
<1>typed. /\ w \in AnyTree /\ None \notin BranchName /\ W!Commit \subseteq Nat
          /\ s1 \in [BranchName -> Nat]
          /\ s2 \in [AnyTree -> [on : BranchName \cup {None}, at : Nat]]
          /\ s3 \in [AnyTree -> BranchName \cup {None}] /\ s4 \in [AnyTree -> BranchName \cup {None}]
  BY DEF W!Here, W!WorktreesAssumption, WorktreesInv, W!WorktreeTypes, AnyTree, W!Commit
<1>1. ASSUME NEW b \in BranchName, NEW i \in BOOLEAN, W!Checkout(w, b, switch, i) PROVE WorktreesInv'
  <2>1. /\ s2' = [s2 EXCEPT ![w] = W!On(b)] /\ s3' = [s3 EXCEPT ![w] = s2[w].on]
        /\ UNCHANGED <<s1, s4, s5>> /\ W!Taken(w, b, i) /\ (i \/ W!Unclaimed(b, w))
    BY <1>1 DEF W!Checkout, W!Go, W!trees
  <2>2. s1' \in [BranchName -> Nat] /\ s3' \in [AnyTree -> BranchName \cup {None}]
    BY <1>typed, <2>1
  <2>3. s9 \subseteq s9' /\ (b \notin s9' => W!Holders(b) \subseteq {w})
    BY <2>1, TakenIsAsked
  <2> QED
    BY <2>1, <2>2, <2>3, HeadMoves
<1>2. CASE W!Previous(w, switch)
  <2>1. PICK b \in BranchName, i \in BOOLEAN : b = s3[w] /\ i = ~switch
    BY <1>typed, <1>2 DEF W!Previous
  <2> QED
    BY <1>1, <1>2, <2>1 DEF W!Previous
<1>3. CASE \E b \in BranchName : W!Orphan(w, b, switch)
  <2>1. PICK b \in BranchName : W!Orphan(w, b, switch)
    BY <1>3
  <2>2. /\ s2' = [s2 EXCEPT ![w] = W!On(b)] /\ UNCHANGED <<s1, s3, s4, s5>> /\ W!Taken(w, b, TRUE)
    BY <2>1 DEF W!Orphan, W!trees
  <2> QED
    BY <1>typed, <2>2, TakenIsAsked, HeadMoves
<1>4. CASE \E c \in W!Commit : W!Detach(w, c, switch)
  <2>1. PICK c \in W!Commit : W!Detach(w, c, switch)
    BY <1>4
  <2>2. /\ s2' = [s2 EXCEPT ![w] = W!At(c)] /\ s3' = [s3 EXCEPT ![w] = s2[w].on]
        /\ UNCHANGED <<s1, s4, s5, s9>>
    BY <2>1 DEF W!Detach, W!Go, W!trees, W!NoOp
  <2>3. /\ s3' \in [AnyTree -> BranchName \cup {None}]
        /\ s2' \in [AnyTree -> [on : BranchName \cup {None}, at : Nat]]
    BY <1>typed, <2>2 DEF W!At
  <2>4. \A v \in {MainTree} \cup s5', d \in BranchName : s2'[v].on = d => s2[v].on = d
    <3>1. {MainTree} \cup s5' \subseteq AnyTree
      BY <2>2 DEF WorktreesInv, W!WorktreeTypes, AnyTree
    <3> QED
      BY <1>typed, <2>2, <3>1 DEF W!At
  <2> QED
    BY <1>typed, <2>2, <2>3, <2>4, ClaimsStay
<1>5. ASSUME NEW b \in BranchName, NEW f, NEW i \in BOOLEAN, W!CreateUnborn(w, b, f, switch, i)
      PROVE  WorktreesInv'
  <2>0. PICK unasked \in BOOLEAN : unasked = (i \/ switch \/ s1[b] = 0)
    OBVIOUS
  <2>1. /\ s2' = [s2 EXCEPT ![w] = W!On(b)] /\ s3' = [s3 EXCEPT ![w] = s2[w].on]
        /\ s1' = s1 \/ s1' = [s1 EXCEPT ![b] = 0]
        /\ UNCHANGED <<s4, s5>> /\ W!Taken(w, b, unasked) /\ (unasked \/ W!Unclaimed(b, w))
    BY <1>5, <2>0 DEF W!CreateUnborn, W!Go, W!trees
  <2>2. s1' \in [BranchName -> Nat] /\ s3' \in [AnyTree -> BranchName \cup {None}]
    BY <1>typed, <2>1
  <2>3. s9 \subseteq s9' /\ (b \notin s9' => W!Holders(b) \subseteq {w})
    BY <2>1, TakenIsAsked
  <2> QED
    BY <2>1, <2>2, <2>3, HeadMoves
<1>6. ASSUME NEW b \in BranchName, NEW f, NEW i \in BOOLEAN, NEW c \in W!Commit,
             W!Create(w, b, c, f, switch, i)
      PROVE  WorktreesInv'
  <2>0. PICK unasked \in BOOLEAN : unasked = (i \/ s1[b] = 0)
    OBVIOUS
  <2>1. /\ s1' = [s1 EXCEPT ![b] = c] /\ s1' \in [BranchName -> Nat]
        /\ unasked \/ W!Unclaimed(b, w)
    BY <1>typed, <1>6, <2>0 DEF W!Create
  <2>2. CASE W!Go(w, W!On(b)) /\ W!Taken(w, b, unasked)
    <3>1. /\ s2' = [s2 EXCEPT ![w] = W!On(b)] /\ s3' = [s3 EXCEPT ![w] = s2[w].on]
          /\ UNCHANGED <<s4, s5>>
      BY <2>2 DEF W!Go, W!trees
    <3>2. s3' \in [AnyTree -> BranchName \cup {None}]
      BY <1>typed, <3>1
    <3>3. s9 \subseteq s9' /\ (b \notin s9' => W!Holders(b) \subseteq {w})
      BY <2>1, <2>2, TakenIsAsked
    <3> QED
      BY <2>1, <3>1, <3>2, <3>3, HeadMoves
  <2>3. CASE UNCHANGED <<W!heads, W!trees, s9>>
    BY <1>typed, <2>1, <2>3, ClaimsStay DEF W!heads, W!trees
  <2> QED
    BY <1>6, <2>0, <2>2, <2>3 DEF W!Create
<1> QED
  BY <1>0, <1>1, <1>2, <1>3, <1>4, <1>5, <1>6

\* Commits, merges and resets, and a rebase, which keeps its branch while HEAD is detached.
LEMMA MovesStep ==
    ASSUME W!WorktreesAssumption, WorktreesInv, W!Moves
    PROVE  WorktreesInv'
<1>0. PICK w \in W!Here, c \in W!Commit : W!Advance(w, c) \/ W!RebaseStart(w, c) \/ W!RebaseEnd(w, c)
  BY DEF W!Moves
<1>typed. /\ w \in AnyTree /\ None \notin BranchName /\ c \in Nat
          /\ s1 \in [BranchName -> Nat]
          /\ s2 \in [AnyTree -> [on : BranchName \cup {None}, at : Nat]]
          /\ s3 \in [AnyTree -> BranchName \cup {None}] /\ s4 \in [AnyTree -> BranchName \cup {None}]
          /\ {MainTree} \cup s5 \subseteq AnyTree
  BY DEF W!Here, W!WorktreesAssumption, WorktreesInv, W!WorktreeTypes, AnyTree, W!Commit
<1>1. CASE W!Advance(w, c)
  <2>1. UNCHANGED <<s3, s4, s5, s9>>
    BY <1>1 DEF W!Advance, W!trees, W!NoOp
  <2>2. CASE s2[w].on = None
    <3>1. s2' = [s2 EXCEPT ![w] = W!At(c)] /\ UNCHANGED s1
      BY <1>1, <2>2 DEF W!Advance
    <3>2. /\ s2' \in [AnyTree -> [on : BranchName \cup {None}, at : Nat]]
          /\ \A v \in AnyTree : s2'[v].on = s2[v].on
      BY <1>typed, <2>2, <3>1 DEF W!At
    <3> QED
      BY <1>typed, <2>1, <3>1, <3>2, ClaimsStay
  <2>3. CASE s2[w].on # None
    <3>1. s1' = [s1 EXCEPT ![s2[w].on] = c] /\ UNCHANGED s2
      BY <1>1, <2>3 DEF W!Advance
    <3>2. s1' \in [BranchName -> Nat]
      BY <1>typed, <2>3, <3>1
    <3> QED
      BY <1>typed, <2>1, <3>1, <3>2, ClaimsStay
  <2> QED
    BY <2>2, <2>3
<1>2. CASE W!RebaseStart(w, c)
  <2>1. /\ s4' = [s4 EXCEPT ![w] = s2[w].on] /\ s2' = [s2 EXCEPT ![w] = W!At(c)]
        /\ UNCHANGED <<s1, s3, s5, s9>>
    BY <1>2 DEF W!RebaseStart, W!trees, W!NoOp
  <2>2. /\ s2' \in [AnyTree -> [on : BranchName \cup {None}, at : Nat]]
        /\ s4' \in [AnyTree -> BranchName \cup {None}]
    BY <1>typed, <2>1 DEF W!At
  <2>3. \A v \in AnyTree, d \in BranchName : s2'[v].on = d \/ s4'[v] = d => s2[v].on = d \/ s4[v] = d
    BY <1>typed, <2>1 DEF W!At
  <2> QED
    BY <1>typed, <2>1, <2>2, <2>3, ClaimsStay
<1>3. CASE W!RebaseEnd(w, c)
  <2>1. /\ s4[w] \in BranchName /\ s1' = [s1 EXCEPT ![s4[w]] = c]
        /\ s2' = [s2 EXCEPT ![w] = W!On(s4[w])] /\ s4' = [s4 EXCEPT ![w] = None]
        /\ UNCHANGED <<s3, s5, s9>>
    BY <1>typed, <1>3 DEF W!RebaseEnd, W!trees, W!NoOp
  <2>2. /\ s2' \in [AnyTree -> [on : BranchName \cup {None}, at : Nat]]
        /\ s4' \in [AnyTree -> BranchName \cup {None}] /\ s1' \in [BranchName -> Nat]
    BY <1>typed, <2>1 DEF W!On
  <2>3. \A v \in AnyTree, d \in BranchName : s2'[v].on = d \/ s4'[v] = d => s2[v].on = d \/ s4[v] = d
    BY <1>typed, <2>1 DEF W!On
  <2> QED
    BY <1>typed, <2>1, <2>2, <2>3, ClaimsStay
<1> QED
  BY <1>0, <1>1, <1>2, <1>3

\* git branch.  A rename takes the HEADs along, so who had the old name has the new one.
LEMMA RenameStep ==
    ASSUME W!WorktreesAssumption, WorktreesInv, NEW w \in AnyTree, NEW old \in BranchName,
           NEW new \in BranchName, NEW f, W!BranchRename(w, old, new, f)
    PROVE  WorktreesInv'
<1>1. /\ s1 \in [BranchName -> Nat]
      /\ s2 \in [AnyTree -> [on : BranchName \cup {None}, at : Nat]]
      /\ W!Listed \subseteq AnyTree
  BY DEF WorktreesInv, W!WorktreeTypes, AnyTree, W!Listed
<1>2. /\ s1' = [[s1 EXCEPT ![new] = s1[old]] EXCEPT ![old] = 0]
      /\ s2' = [v \in AnyTree |-> IF v \in W!Listed \cup {w} /\ s2[v].on = old THEN W!On(new) ELSE s2[v]]
      /\ UNCHANGED <<s3, s4, s5>>
      /\ s9' = IF (old # new /\ W!Holders(old) # {} /\ W!Holders(new) # {}) \/ old \in s9
               THEN s9 \cup {new} ELSE s9
  BY DEF W!BranchRename, W!Renamed, W!trees, AnyTree
<1>3. W!WorktreeTypes'
  <2>1. s1' \in [BranchName -> Nat] /\ s2' \in [AnyTree -> [on : BranchName \cup {None}, at : Nat]]
    BY <1>1, <1>2 DEF W!On
  <2> QED
    BY <1>2, <2>1 DEF WorktreesInv, W!WorktreeTypes, AnyTree
<1>4. \A d \in BranchName :
         W!Holders(d)' \subseteq W!Holders(d) \cup (IF d = new THEN W!Holders(old) ELSE {})
  <2>1. W!Listed' = W!Listed
    BY <1>2 DEF W!Listed
  <2> SUFFICES ASSUME NEW d \in BranchName, NEW v \in W!Listed, s2'[v].on = d \/ s4[v] = d
               PROVE  v \in W!Holders(d) \cup (IF d = new THEN W!Holders(old) ELSE {})
    BY <1>2, <2>1 DEF W!Holders
  <2>2. s2'[v] = IF s2[v].on = old THEN W!On(new) ELSE s2[v]
    BY <1>1, <1>2
  <2> QED
    BY <2>2 DEF W!Holders, W!On
<1>5. W!OnlyHolder'
  <2> SUFFICES ASSUME NEW d \in BranchName \ s9', NEW u \in W!Holders(d)', NEW v \in W!Holders(d)'
               PROVE  u = v
    BY DEF W!OnlyHolder
  <2>1. CASE d = new
    <3>1. /\ old = new \/ W!Holders(old) = {} \/ W!Holders(new) = {}
          /\ old \in BranchName \ s9 /\ new \in BranchName \ s9
      BY <1>2, <2>1
    <3>2. \/ u \in W!Holders(old) /\ v \in W!Holders(old)
          \/ u \in W!Holders(new) /\ v \in W!Holders(new)
      BY <1>4, <2>1, <3>1
    <3> QED
      BY <3>1, <3>2 DEF WorktreesInv, W!OnlyHolder
  <2>2. CASE d # new
    BY <1>2, <1>4, <2>2 DEF WorktreesInv, W!OnlyHolder
  <2> QED
    BY <2>1, <2>2
<1> QED
  BY <1>3, <1>5 DEF WorktreesInv

LEMMA BranchesStep ==
    ASSUME W!WorktreesAssumption, WorktreesInv, W!Branches
    PROVE  WorktreesInv'
<1>1. CASE \E b \in BranchName, c \in W!Commit : W!BranchCreate(b, c)
  <2>1. /\ UNCHANGED <<s2, s3, s4, s5, s9>> /\ s1' \in [BranchName -> Nat]
    BY <1>1 DEF W!BranchCreate, W!heads, W!trees, W!NoOp, WorktreesInv, W!WorktreeTypes, W!Commit
  <2> QED
    BY <2>1, ClaimsStay DEF WorktreesInv, W!WorktreeTypes, AnyTree
<1>2. CASE \E w \in W!Here, b \in BranchName : W!BranchDelete(w, b, s1[b] > W!HeadCommit(w))
  <2>1. /\ UNCHANGED <<s2, s3, s4, s5, s9>> /\ s1' \in [BranchName -> Nat]
    BY <1>2 DEF W!BranchDelete, W!heads, W!trees, W!NoOp, WorktreesInv, W!WorktreeTypes
  <2> QED
    BY <2>1, ClaimsStay DEF WorktreesInv, W!WorktreeTypes, AnyTree
<1>3. CASE \E w \in W!Here, b, new \in BranchName : W!BranchRename(w, b, new, s1[new] # 0)
  <2>1. PICK w \in W!Here, b \in BranchName, new \in BranchName : W!BranchRename(w, b, new, s1[new] # 0)
    BY <1>3
  <2>2. w \in AnyTree
    BY DEF W!Here, WorktreesInv, W!WorktreeTypes, AnyTree
  <2> QED
    BY <2>1, <2>2, RenameStep
<1> QED
  BY <1>1, <1>2, <1>3 DEF W!Branches

-------------------------------------------------------------------------------
(* git worktree.                                                           *)

\* A new admin directory, with a HEAD on a branch that is noted when it is taken, or detached.
LEMMA RegisterStep ==
    ASSUME W!WorktreesAssumption, WorktreesInv, NEW p \in TreePath,
           NEW b \in BranchName \cup {None}, NEW h \in [on : {b}, at : Nat],
           W!Register(p, h), s1' \in [BranchName -> Nat], s9 \subseteq s9',
           b # None /\ b \notin s9' => W!Holders(b) = {}
    PROVE  WorktreesInv'
<1>1. PICK w \in W!FreeId(p) :
         /\ s5' = s5 \cup {w}
         /\ s2' = [s2 EXCEPT ![w] = h]
         /\ s3' = [s3 EXCEPT ![w] = None] /\ s4' = [s4 EXCEPT ![w] = None]
  BY DEF W!Register
<1>2. w \in W!WorktreeId /\ w \notin s5 /\ w # MainTree
  BY <1>1 DEF W!FreeId, W!WorktreeId, W!WorktreesAssumption
<1>3. /\ s2 \in [AnyTree -> [on : BranchName \cup {None}, at : Nat]]
      /\ s3 \in [AnyTree -> BranchName \cup {None}] /\ s4 \in [AnyTree -> BranchName \cup {None}]
      /\ s5 \subseteq W!WorktreeId /\ w \in AnyTree /\ W!Listed \subseteq AnyTree
  BY <1>2 DEF WorktreesInv, W!WorktreeTypes, AnyTree, W!Listed
<1>4. W!WorktreeTypes'
  <2>1. s2' \in [AnyTree -> [on : BranchName \cup {None}, at : Nat]]
    BY <1>1, <1>3
  <2>2. s3' \in [AnyTree -> BranchName \cup {None}] /\ s4' \in [AnyTree -> BranchName \cup {None}]
    BY <1>1, <1>3
  <2> QED
    BY <1>1, <1>2, <1>3, <2>1, <2>2 DEF W!WorktreeTypes, AnyTree
<1>5. None \notin BranchName
  BY DEF W!WorktreesAssumption
<1>6. ASSUME NEW d \in BranchName
      PROVE  W!Holders(d)' \subseteq W!Holders(d) \cup (IF d = b THEN {w} ELSE {})
  <2>1. W!Listed' = W!Listed \cup {w}
    BY <1>1 DEF W!Listed
  <2>2. \A v \in W!Listed' : IF v = w THEN s2'[v].on = b /\ s4'[v] = None
                             ELSE s2'[v] = s2[v] /\ s4'[v] = s4[v]
    BY <1>1, <1>3, <2>1
  <2> QED
    BY <1>5, <2>1, <2>2 DEF W!Holders
<1>7. W!OnlyHolder'
  <2>1. CASE b = None
    BY <1>5, <1>6, <2>1, LettingGo DEF WorktreesInv
  <2>2. CASE b # None
    BY <1>6, <2>2, Taking DEF WorktreesInv
  <2> QED
    BY <2>1, <2>2
<1> QED
  BY <1>4, <1>7 DEF WorktreesInv

\* remove and prune.
LEMMA ForgetStep ==
    ASSUME W!WorktreesAssumption, WorktreesInv, NEW V \in SUBSET s5, W!Forget(V), UNCHANGED <<s1, s9>>
    PROVE  WorktreesInv'
<1>1. /\ s2 \in [AnyTree -> [on : BranchName \cup {None}, at : Nat]]
      /\ s3 \in [AnyTree -> BranchName \cup {None}] /\ s4 \in [AnyTree -> BranchName \cup {None}]
      /\ s1 \in [BranchName -> Nat] /\ {MainTree} \cup s5 \subseteq AnyTree /\ None \notin BranchName
  BY DEF WorktreesInv, W!WorktreeTypes, AnyTree, W!WorktreesAssumption
<1>2. /\ s5' = s5 \ V
      /\ s2' = [w \in AnyTree |-> IF w \in V THEN W!At(0) ELSE s2[w]]
      /\ s3' = [w \in AnyTree |-> IF w \in V THEN None ELSE s3[w]]
      /\ s4' = [w \in AnyTree |-> IF w \in V THEN None ELSE s4[w]]
  BY DEF W!Forget, AnyTree
<1>3. /\ s2' \in [AnyTree -> [on : BranchName \cup {None}, at : Nat]]
      /\ s3' \in [AnyTree -> BranchName \cup {None}] /\ s4' \in [AnyTree -> BranchName \cup {None}]
  BY <1>1, <1>2 DEF W!At
<1>4. \A v \in AnyTree, d \in BranchName : s2'[v].on = d \/ s4'[v] = d => s2[v].on = d \/ s4[v] = d
  BY <1>1, <1>2 DEF W!At
<1> QED
  BY <1>1, <1>2, <1>3, <1>4, ClaimsStay

LEMMA TreesStep ==
    ASSUME W!WorktreesAssumption, WorktreesInv, W!Trees
    PROVE  WorktreesInv'
<1>typed. /\ None \notin BranchName /\ s1 \in [BranchName -> Nat] /\ W!Commit \subseteq Nat
          /\ s2 \in [AnyTree -> [on : BranchName \cup {None}, at : Nat]]
          /\ s3 \in [AnyTree -> BranchName \cup {None}] /\ s4 \in [AnyTree -> BranchName \cup {None}]
  BY DEF W!WorktreesAssumption, WorktreesInv, W!WorktreeTypes, AnyTree, W!Commit
<1>1. ASSUME NEW p \in TreePath, NEW c \in W!Commit, NEW f, W!AddDetached(p, c, f) PROVE WorktreesInv'
  <2>1. W!Register(p, W!At(c)) /\ UNCHANGED <<s1, s9>> /\ W!At(c) \in [on : {None}, at : Nat]
    BY <1>typed, <1>1 DEF W!AddDetached, W!At, W!NoOp
  <2> QED
    BY <1>typed, <2>1, RegisterStep
<1>2. ASSUME NEW p \in TreePath, NEW c \in W!Commit, NEW b \in BranchName, NEW how, NEW f,
             W!Add(p, b, c, how, f)
      PROVE  WorktreesInv'
  <2>1. s1' \in [BranchName -> Nat]
    BY <1>typed, <1>2 DEF W!Add
  <2>2. CASE UNCHANGED <<W!heads, W!trees, s9>>
    BY <1>typed, <2>1, <2>2, ClaimsStay DEF W!heads, W!trees
  <2>3. CASE /\ f \/ ~(how \in W!Claimed /\ W!Holders(b) # {})
             /\ W!Register(p, W!On(b))
             /\ s9' = IF (f \/ how \notin W!Claimed) /\ W!Holders(b) # {} THEN s9 \cup {b} ELSE s9
    <3>1. W!On(b) \in [on : {b}, at : Nat]
      BY DEF W!On
    <3>2. s9 \subseteq s9' /\ (b \notin s9' => W!Holders(b) = {})
      BY <2>3
    <3> QED
      BY <1>typed, <2>1, <2>3, <3>1, <3>2, RegisterStep
  <2> QED
    BY <1>2, <2>2, <2>3 DEF W!Add
<1>3. ASSUME NEW p \in TreePath, NEW twice, W!Remove(p, twice) PROVE WorktreesInv'
  <2>1. PICK w \in W!Named(p) : W!Forget({w}) /\ UNCHANGED <<s1, s9>>
    BY <1>3 DEF W!Remove, W!NoOp
  <2>2. {w} \in SUBSET s5
    BY <2>1 DEF W!Named
  <2> QED
    BY <2>1, <2>2, ForgetStep
<1>4. CASE W!Prune
  <2>1. PICK V \in SUBSET s5 : W!Forget(V) /\ UNCHANGED <<s1, s9>>
    BY <1>4 DEF W!Prune, W!NoOp
  <2> QED
    BY <2>1, ForgetStep
<1>5. CASE UNCHANGED <<s1, s2, s3, s4, s5, s9>>
  BY <1>typed, <1>5, ClaimsStay
<1>6. ASSUME \/ \E p, q \in TreePath, twice \in BOOLEAN : W!Move(p, q, twice)
             \/ \E P \in SUBSET TreePath : W!Repair(P)
             \/ \E p \in TreePath : W!Lock(p) \/ W!Unlock(p) \/ W!ByHand(p)
      PROVE  UNCHANGED <<s1, s2, s3, s4, s5, s9>>
  BY <1>6 DEF W!Move, W!Repair, W!Lock, W!Unlock, W!ByHand, W!NoOp, W!heads
<1>7. CASE \E p \in TreePath, c \in W!Commit :
              \/ W!AddDetached(p, c, s7[p] # None)
              \/ \E b \in BranchName : \E force \in {FALSE, s7[p] # None \/ W!Holders(b) # {}},
                    how \in W!Kinds : W!Add(p, b, c, how, force)
  BY <1>1, <1>2, <1>7
<1>8. CASE \E p \in TreePath :
              LET twice == W!Named(p) \cap s8 # {}
              IN  W!Remove(p, twice) \/ \E q \in TreePath : W!Move(p, q, twice)
  BY <1>3, <1>5, <1>6, <1>8
<1> QED
  BY <1>4, <1>5, <1>6, <1>7, <1>8 DEF W!Trees

-------------------------------------------------------------------------------
(* No branch vanishes under a worktree.                                    *)

LEMMA HeadsKeepBranches ==
    ASSUME W!WorktreesAssumption, WorktreesInv, W!Heads
    PROVE  W!NoBranchVanishes
<1>0. PICK w \in W!Here, switch \in BOOLEAN :
         \/ W!Previous(w, switch)
         \/ \E b \in BranchName : W!Orphan(w, b, switch)
         \/ \E c \in W!Commit : W!Detach(w, c, switch)
         \/ \E b \in BranchName, i \in BOOLEAN :
               \/ W!Checkout(w, b, switch, i)
               \/ W!CreateUnborn(w, b, s1[b] # 0, switch, i)
               \/ \E c \in W!Commit : W!Create(w, b, c, s1[b] # 0, switch, i)
  BY DEF W!Heads
<1>typed. /\ w \in AnyTree /\ None \notin BranchName /\ W!Listed \subseteq AnyTree
          /\ \A c \in W!Commit : c \in Nat /\ c # 0
          /\ s1 \in [BranchName -> Nat]
          /\ s2 \in [AnyTree -> [on : BranchName \cup {None}, at : Nat]]
          /\ s3 \in [AnyTree -> BranchName \cup {None}]
  BY DEF W!Here, W!Listed, W!WorktreesAssumption, WorktreesInv, W!WorktreeTypes, AnyTree, W!Commit
<1>1. ASSUME NEW b \in BranchName, NEW i, W!Checkout(w, b, switch, i)
      PROVE  \A v \in W!Listed : ~W!Vanishes(v)
  <2>1. s2' = [s2 EXCEPT ![w] = W!On(b)] /\ s1' = s1 /\ s1[b] # 0
    BY <1>1 DEF W!Checkout, W!Go
  <2> SUFFICES ASSUME NEW v \in W!Listed PROVE ~W!Vanishes(v)
    OBVIOUS
  <2>2. v \in AnyTree /\ DOMAIN s2 = AnyTree
    BY <1>typed
  <2>3. CASE v = w
    <3>1. s2'[v].on = b
      BY <2>1, <2>2, <2>3 DEF W!On
    <3> QED
      BY <2>1, <3>1 DEF W!Vanishes
  <2>4. CASE v # w
    <3>1. s2'[v] = s2[v]
      BY <2>1, <2>2, <2>4
    <3> QED
      BY <2>1, <3>1 DEF W!Vanishes
  <2> QED
    BY <2>3, <2>4
<1>2. CASE W!Previous(w, switch)
  <2>1. s3[w] \in BranchName
    BY <1>typed, <1>2 DEF W!Previous
  <2> QED
    BY <1>1, <1>2, <2>1 DEF W!Previous, W!NoBranchVanishes
<1>3. CASE \E b \in BranchName : W!Orphan(w, b, switch)
  BY <1>3 DEF W!NoBranchVanishes
<1>4. CASE \E c \in W!Commit : W!Detach(w, c, switch)
  <2>1. PICK c \in W!Commit : W!Detach(w, c, switch)
    BY <1>4
  <2>2. s2' = [s2 EXCEPT ![w] = W!At(c)] /\ s1' = s1
    BY <2>1 DEF W!Detach, W!Go
  <2>3. \A v \in W!Listed : ~W!Vanishes(v)
    BY <1>typed, <2>2 DEF W!Vanishes, W!At
  <2> QED
    BY <2>3 DEF W!NoBranchVanishes
<1>5. ASSUME NEW b \in BranchName, NEW i \in BOOLEAN, W!CreateUnborn(w, b, s1[b] # 0, switch, i)
      PROVE  W!NoBranchVanishes
  <2>1. CASE switch
    <3>1. (s1[b] # 0) \in BOOLEAN /\ switch = TRUE
      BY <2>1
    <3> QED
      BY <1>5, <3>1 DEF W!NoBranchVanishes
  <2>2. CASE ~switch
    <3>1. s1' = s1 /\ s2' = [s2 EXCEPT ![w] = W!On(b)] /\ W!HeadCommit(w) = 0
      BY <1>5, <2>2 DEF W!CreateUnborn, W!Go
    <3>2. \A v \in W!Listed : ~W!Vanishes(v)
      BY <1>typed, <3>1 DEF W!Vanishes, W!HeadCommit, W!On
    <3> QED
      BY <3>2 DEF W!NoBranchVanishes
  <2> QED
    BY <2>1, <2>2
<1>6. ASSUME NEW b \in BranchName, NEW f, NEW i, NEW c \in W!Commit, W!Create(w, b, c, f, switch, i)
      PROVE  \A v \in W!Listed : ~W!Vanishes(v)
  <2>1. s1' = [s1 EXCEPT ![b] = c] /\ s2' \in {s2, [s2 EXCEPT ![w] = W!On(b)]}
    BY <1>6 DEF W!Create, W!Go, W!heads
  <2> QED
    BY <1>typed, <2>1 DEF W!Vanishes, W!On
<1> QED
  BY <1>0, <1>1, <1>2, <1>3, <1>4, <1>5, <1>6 DEF W!NoBranchVanishes

LEMMA OthersKeepBranches ==
    ASSUME W!WorktreesAssumption, WorktreesInv, W!Moves \/ W!Branches \/ W!Trees
    PROVE  W!NoBranchVanishes
<1>typed. /\ None \notin BranchName /\ W!Listed \subseteq AnyTree /\ W!Here \subseteq AnyTree
          /\ \A c \in W!Commit : c \in Nat /\ c # 0
          /\ s1 \in [BranchName -> Nat]
          /\ s2 \in [AnyTree -> [on : BranchName \cup {None}, at : Nat]]
          /\ s4 \in [AnyTree -> BranchName \cup {None}]
  BY DEF W!Here, W!Listed, W!WorktreesAssumption, WorktreesInv, W!WorktreeTypes, AnyTree, W!Commit
<1>refs. s1 \in [BranchName -> Nat]
  BY <1>typed
<1>on. \A v \in W!Listed : v \in AnyTree /\ (s2[v].on = None \/ s2[v].on \in BranchName)
  BY <1>typed
<1>1. ASSUME NEW w \in W!Here, NEW c \in W!Commit,
             W!Advance(w, c) \/ W!RebaseStart(w, c) \/ W!RebaseEnd(w, c), NEW v \in W!Listed
      PROVE  ~W!Vanishes(v)
  <2>0. w \in AnyTree /\ v \in AnyTree
    BY <1>typed
  <2>1. CASE W!Advance(w, c)
    BY <1>typed, <2>0, <2>1 DEF W!Advance, W!Vanishes, W!At
  <2>2. CASE W!RebaseStart(w, c)
    BY <1>typed, <2>0, <2>2 DEF W!RebaseStart, W!Vanishes, W!At
  <2>3. CASE W!RebaseEnd(w, c)
    <3>1. s1' = [s1 EXCEPT ![s4[w]] = c] /\ s2' = [s2 EXCEPT ![w] = W!On(s4[w])] /\ s4[w] \in BranchName
      BY <1>typed, <2>0, <2>3 DEF W!RebaseEnd
    <3> QED
      BY <1>typed, <2>0, <3>1 DEF W!Vanishes, W!On
  <2> QED
    BY <1>1, <2>1, <2>2, <2>3
<1>2. ASSUME NEW b \in BranchName, NEW c \in W!Commit, W!BranchCreate(b, c), NEW v \in W!Listed
      PROVE  ~W!Vanishes(v)
  BY <1>typed, <1>2 DEF W!BranchCreate, W!heads, W!Vanishes
<1>3. ASSUME NEW w \in W!Here, NEW b \in BranchName, NEW f, W!BranchDelete(w, b, f), NEW v \in W!Listed
      PROVE  ~W!Vanishes(v)
  <2>1. s1' = [s1 EXCEPT ![b] = 0] /\ s2' = s2 /\ s2[w].on # b /\ W!Holders(b) \ {w} = {}
    BY <1>3 DEF W!BranchDelete, W!heads, W!Unclaimed, W!Elsewhere
  <2>2. s2[v].on # b
    BY <2>1 DEF W!Holders
  <2> QED
    BY <1>typed, <2>1, <2>2 DEF W!Vanishes
<1>4. ASSUME NEW w \in W!Here, NEW old \in BranchName, NEW new \in BranchName,
             W!BranchRename(w, old, new, s1[new] # 0)
      PROVE  W!NoBranchVanishes
  <2>1. CASE old = new
    <3>1. (s1[new] # 0) \in BOOLEAN
      OBVIOUS
    <3> QED
      BY <1>4, <2>1, <3>1 DEF W!NoBranchVanishes
  <2>2. CASE old # new
    <3>1. /\ s1[old] # 0 /\ s1' = [[s1 EXCEPT ![new] = s1[old]] EXCEPT ![old] = 0]
          /\ s2' = [v \in AnyTree |-> IF v \in W!Listed \cup {w} /\ s2[v].on = old THEN W!On(new) ELSE s2[v]]
      BY <1>4 DEF W!BranchRename, W!Renamed, AnyTree
    <3>2. ASSUME NEW v \in W!Listed PROVE ~W!Vanishes(v)
      <4>1. s2'[v] = IF s2[v].on = old THEN W!On(new) ELSE s2[v]
        BY <1>typed, <3>1
      <4>2. CASE s2[v].on = old
        <5>1. s2'[v].on = new
          BY <4>1, <4>2 DEF W!On
        <5>2. s1'[new] # 0
          BY <1>refs, <2>2, <3>1
        <5> QED
          BY <5>1, <5>2 DEF W!Vanishes
      <4>3. CASE s2[v].on # old
        <5>1. s2'[v] = s2[v]
          BY <4>1, <4>3
        <5>2. s2[v].on \in BranchName /\ s1[s2[v].on] # 0 => s1'[s2[v].on] # 0
          BY <1>refs, <2>2, <3>1, <4>3
        <5> QED
          BY <1>on, <5>1, <5>2 DEF W!Vanishes
      <4> QED
        BY <4>2, <4>3
    <3> QED
      BY <3>2 DEF W!NoBranchVanishes
  <2> QED
    BY <2>1, <2>2
<1>5. ASSUME W!Trees, NEW v \in W!Listed
      PROVE  ~W!Vanishes(v)
  <2>1. ASSUME NEW p \in TreePath, NEW h, W!Register(p, h) PROVE s2'[v] = s2[v]
    <3>1. PICK w \in W!FreeId(p) : s2' = [s2 EXCEPT ![w] = h]
      BY <2>1 DEF W!Register
    <3>2. w # v
      BY <3>1 DEF W!FreeId, W!Listed, W!WorktreeId, W!WorktreesAssumption
    <3> QED
      BY <1>typed, <3>1, <3>2
  <2>2. ASSUME NEW p \in TreePath, NEW b \in BranchName, NEW c \in W!Commit, NEW how, NEW f,
               W!Add(p, b, c, how, f)
        PROVE  ~W!Vanishes(v)
    <3>1. s2'[v] = s2[v]
      BY <2>1, <2>2 DEF W!Add, W!heads
    <3>2. s1' = s1 \/ s1' = [s1 EXCEPT ![b] = c]
      BY <2>2 DEF W!Add
    <3> QED
      BY <1>typed, <3>1, <3>2 DEF W!Vanishes
  <2>3. ASSUME NEW p \in TreePath, NEW c \in W!Commit, NEW f, W!AddDetached(p, c, f)
        PROVE  ~W!Vanishes(v)
    BY <1>typed, <2>1, <2>3 DEF W!AddDetached, W!Vanishes
  <2>4. ASSUME NEW V, W!Forget(V), s1' = s1
        PROVE  ~W!Vanishes(v)
    <3>1. s2'[v] \in {W!At(0), s2[v]}
      BY <1>typed, <2>4 DEF W!Forget, AnyTree
    <3> QED
      BY <2>4, <3>1 DEF W!Vanishes, W!At
  <2>5. CASE UNCHANGED <<s1, s2>>
    BY <2>5 DEF W!Vanishes
  <2>6. ASSUME \/ \E p, q \in TreePath, twice \in BOOLEAN : W!Move(p, q, twice)
               \/ \E P \in SUBSET TreePath : W!Repair(P)
               \/ \E p \in TreePath : W!Lock(p) \/ W!Unlock(p) \/ W!ByHand(p)
        PROVE  UNCHANGED <<s1, s2>>
    BY <2>6 DEF W!Move, W!Repair, W!Lock, W!Unlock, W!ByHand, W!heads
  <2>7. CASE \E p \in TreePath, c \in W!Commit :
                \/ W!AddDetached(p, c, s7[p] # None)
                \/ \E b \in BranchName : \E force \in {FALSE, s7[p] # None \/ W!Holders(b) # {}},
                      how \in W!Kinds : W!Add(p, b, c, how, force)
    BY <2>2, <2>3, <2>7
  <2>8. CASE W!Prune \/ \E p \in TreePath, twice \in BOOLEAN : W!Remove(p, twice)
    BY <2>4, <2>8 DEF W!Prune, W!Remove
  <2>9. CASE \E p \in TreePath :
                LET twice == W!Named(p) \cap s8 # {}
                IN  W!Remove(p, twice) \/ \E q \in TreePath : W!Move(p, q, twice)
    BY <2>5, <2>6, <2>8, <2>9
  <2> QED
    BY <1>5, <2>5, <2>6, <2>7, <2>8, <2>9 DEF W!Trees
<1>6. CASE W!Moves
  BY <1>1, <1>6 DEF W!Moves, W!NoBranchVanishes
<1>7. CASE W!Trees
  BY <1>5, <1>7 DEF W!NoBranchVanishes
<1>8. CASE W!Branches
  <2>1. CASE \E b \in BranchName, c \in W!Commit : W!BranchCreate(b, c)
    BY <1>2, <2>1 DEF W!NoBranchVanishes
  <2>2. CASE \E w \in W!Here, b \in BranchName : W!BranchDelete(w, b, s1[b] > W!HeadCommit(w))
    BY <1>3, <2>2 DEF W!NoBranchVanishes
  <2>3. CASE \E w \in W!Here, b, new \in BranchName : W!BranchRename(w, b, new, s1[new] # 0)
    BY <1>4, <2>3
  <2> QED
    BY <1>8, <2>1, <2>2, <2>3 DEF W!Branches
<1> QED
  BY <1>6, <1>7, <1>8

\* What TLC checks as WorktreesApart: a branch is checked out, or being rebased, in one
\* worktree at most, unless it was taken where nobody asks who has it, and does not vanish
\* under a worktree that is on it; for any branches, paths and number of worktrees, whatever users do
\* to checkouts by hand (worktree-admin.ts, branch.ts).
THEOREM WorktreesStayApart ==
    ASSUME W!WorktreesAssumption PROVE StoresSpec => WorktreesApart
<1> DEFINE WInv == part = "worktrees" => WorktreesInv
           Stays == part = "worktrees" => W!NoBranchVanishes
<1>1. StoresInit => WInv
  <2> SUFFICES ASSUME W!Init PROVE WorktreesInv
    BY DEF StoresInit
  <2>1. PICK b \in BranchName :
           /\ s1 \in [BranchName -> 0..1]
           /\ s2 = [w \in AnyTree |-> IF w = MainTree THEN W!On(b) ELSE W!At(0)]
    BY DEF W!Init, AnyTree
  <2>2. s2 \in [AnyTree -> [on : BranchName \cup {None}, at : Nat]]
    BY <2>1 DEF W!On, W!At
  <2>3. W!WorktreeTypes
    BY <2>1, <2>2 DEF W!Init, W!WorktreeTypes, AnyTree
  <2>4. W!Listed = {MainTree}
    BY DEF W!Init, W!Listed
  <2>5. W!OnlyHolder
    BY <2>4 DEF W!OnlyHolder, W!Holders
  <2> QED
    BY <2>3, <2>5 DEF WorktreesInv
<1>2. WInv /\ [StoresNext]_storesVars => WInv'
  <2> SUFFICES ASSUME WInv, [StoresNext]_storesVars, part' = "worktrees" PROVE WorktreesInv'
    OBVIOUS
  <2>1. part = "worktrees" /\ WorktreesInv
    BY DEF StoresNext, storesVars
  <2>2. CASE StoresNext
    <3>1. W!Next
      BY <2>1, <2>2 DEF StoresNext
    <3> QED
      <4>1. W!Heads \/ W!Moves \/ W!Branches \/ W!Trees
        BY <3>1 DEF W!Next
      <4> QED
        BY <2>1, <4>1, HeadsStep, MovesStep, BranchesStep, TreesStep
  <2>3. CASE UNCHANGED storesVars
    BY <2>1, <2>3 DEF storesVars, slots, WorktreesInv, W!WorktreeTypes, W!OnlyHolder, W!Holders, W!Listed
  <2> QED
    BY <2>2, <2>3
<1>3. WInv => (part = "worktrees" => W!OneHolder)
  <2> SUFFICES ASSUME WorktreesInv, NEW b \in BranchName \ s9 PROVE W!Cardinality(W!Holders(b)) <= 1
    BY DEF W!OneHolder
  <2>1. W!Cardinality(W!Holders(b)) = Cardinality(W!Holders(b))
    BY DEF W!Cardinality, Cardinality
  <2>2. CASE W!Holders(b) = {}
    BY <2>1, <2>2, FS_EmptySet
  <2>3. CASE W!Holders(b) # {}
    <3>0. PICK w \in W!Holders(b) : TRUE
      BY <2>3
    <3>1. W!Holders(b) = {w}
      BY DEF WorktreesInv, W!OnlyHolder
    <3>2. Cardinality({w}) = 1
      BY FS_Singleton
    <3>3. Cardinality(W!Holders(b)) = 1
      BY <3>1, <3>2
    <3> QED
      BY <2>1, <3>3
  <2> QED
    BY <2>2, <2>3
<1>4. WInv /\ [StoresNext]_storesVars => [Stays]_storesVars
  <2> SUFFICES ASSUME WInv, StoresNext, part = "worktrees" PROVE W!NoBranchVanishes
    OBVIOUS
  <2>1. WorktreesInv /\ W!Next
    BY DEF StoresNext
  <2> QED
    BY <2>1, HeadsKeepBranches, OthersKeepBranches DEF W!Next
<1> QED
  BY <1>1, <1>2, <1>3, <1>4, PTL DEF StoresSpec, WorktreesApart

-------------------------------------------------------------------------------
(* Objects and refs on disk: the inductive invariant.                      *)

Oid == Obj \cup {0}

\* Who is about something is about a ref.
DiskTypes ==
    /\ loose \subseteq Obj /\ packFiles \subseteq SUBSET Obj /\ idxFiles \subseteq SUBSET Obj
    /\ looseRef \in [RefName -> Oid] /\ packedRef \in [RefName -> Oid]
    /\ log \subseteq Obj
    /\ swap \in [Caller -> [pc : {"idle", "wait", "write", "read", "drop"},
                            ref : RefName \cup {NoRef}, old : Oid, new : Oid,
                            seen : [RefName -> Oid]]]
    /\ \A c \in Caller : swap[c].pc # "idle" => swap[c].ref \in RefName
    /\ queue \in [RefName -> Seq(Caller)]
    /\ gc \in [Collector -> [pc : {"idle", "refs", "unloose", "roots", "pack", "packOnly",
                                   "idx", "idxOnly", "clean"},
                             snap : [RefName -> Oid], todo : SUBSET (RefName \cup SUBSET Obj),
                             new : SUBSET Obj]]
    /\ written \subseteq Obj /\ last \in [RefName -> Oid] /\ raced \subseteq RefName

\* Some one pack that is complete has all of S.
InOnePack(S) == \E P \in Packs : S \subseteq P

\* What a collector puts into its new pack stays in one pack, its own or a larger one that
\* another collector wrote: only what is redundant goes, and never the new pack itself.
PackInv(g) ==
    /\ gc[g].pc = "idx" => gc[g].new \in packFiles \/ InOnePack(gc[g].new)
    /\ gc[g].pc = "clean" => InOnePack(gc[g].new) /\ gc[g].new \notin gc[g].todo

\* Between its listing and its last loose file, a gc has listed each ref as it was last
\* written and puts it away as that, unless the ref is raced; so is one that is half deleted.
ListingInv(g) ==
    gc[g].pc \in {"refs", "unloose"} =>
       \A r \in RefName \ raced :
          /\ gc[g].snap[r] = last[r] /\ r \notin Deleting
          /\ gc[g].pc = "unloose" /\ r \in gc[g].todo => packedRef[r] = last[r]

\* Half deleted, a ref has its packed entry at most.
DeletionInv == \A r \in Deleting \ raced : looseRef[r] = 0 /\ last[r] = 0

\* A caller that waits is in line; one that writes is the first there, and its ref has the
\* value it compared with.
SwapInv(c) ==
    LET r == swap[c].ref
    IN  swap[c].pc \in {"wait", "write"} =>
           /\ \E n \in 1..Len(queue[r]) : queue[r][n] = c
           /\ swap[c].pc = "write" =>
                 /\ queue[r][1] = c
                 /\ r \in raced \/ (Current(r) = swap[c].old /\ r \notin Deleting)

ObjectInv == ObjectsStay /\ \A g \in Collector : PackInv(g)
RefInv == RefsAsWritten /\ DeletionInv /\ \A g \in Collector : ListingInv(g)
LineInv == \A c \in Caller : SwapInv(c)

DiskInv == DiskTypes /\ ObjectInv /\ RefInv /\ LineInv

-------------------------------------------------------------------------------
(* Types.                                                                  *)

GcPlaces == {"idle", "refs", "unloose", "roots", "pack", "packOnly", "idx", "idxOnly", "clean"}
GcTypes == [pc : GcPlaces, snap : [RefName -> Oid], todo : SUBSET (RefName \cup SUBSET Obj),
            new : SUBSET Obj]
SwapTypes == [pc : {"idle", "wait", "write", "read", "drop"}, ref : RefName \cup {NoRef},
              old : Oid, new : Oid, seen : [RefName -> Oid]]

LEMMA NothingTypes == NoGc \in GcTypes /\ NoSwap \in SwapTypes
<1>1. NoValues \in [RefName -> Oid]
  BY DEF NoValues, Oid
<1> QED
  BY <1>1 DEF NoGc, GcTypes, GcPlaces, NoSwap, SwapTypes, Oid

LEMMA TypesAre ==
    ASSUME DiskTypes
    PROVE  gc \in [Collector -> GcTypes] /\ swap \in [Caller -> SwapTypes]
BY DEF DiskTypes, GcTypes, SwapTypes, GcPlaces

LEMMA StepTypes ==
    ASSUME gc \in [Collector -> GcTypes], NEW g \in Collector, NEW p \in GcPlaces, Step(g, p)
    PROVE  gc' \in [Collector -> GcTypes]
<1>1. [gc[g] EXCEPT !.pc = p] \in GcTypes
  BY DEF GcTypes
<1>2. gc' = [gc EXCEPT ![g] = [gc[g] EXCEPT !.pc = p]]
  BY DEF Step
<1> QED
  BY <1>1, <1>2

\* A ref reads as an object or as none.
LEMMA CurrentType ==
    ASSUME DiskTypes, NEW r \in RefName PROVE Current(r) \in Oid
BY DEF DiskTypes, Current

LEMMA StoredType ==
    ASSUME DiskTypes PROVE Stored \subseteq Obj
BY DEF DiskTypes, Stored, Packs

LEMMA DeletingAreRefs ==
    ASSUME DiskTypes PROVE Deleting \subseteq RefName
BY DEF DiskTypes, Deleting, Unlinked

\* One caller goes on, with a record of the type.
LEMMA CallerTypes ==
    ASSUME DiskTypes, NEW c \in Caller, NEW s \in SwapTypes, swap' = [swap EXCEPT ![c] = s],
           s.pc # "idle" => s.ref \in RefName
    PROVE  /\ swap' \in [Caller -> SwapTypes]
           /\ \A d \in Caller : swap'[d].pc # "idle" => swap'[d].ref \in RefName
           /\ swap'[c] = s /\ \A d \in Caller \ {c} : swap'[d] = swap[d]
<1>1. swap \in [Caller -> SwapTypes]
  BY TypesAre
<1> QED
  BY <1>1 DEF DiskTypes

\* Who is done is about nothing any more, and has left the line.
LEMMA DoneTypes ==
    ASSUME DiskTypes, NEW c \in Caller, swap[c].pc # "idle", Done(c)
    PROVE  /\ swap' \in [Caller -> SwapTypes]
           /\ \A d \in Caller : swap'[d].pc # "idle" => swap'[d].ref \in RefName
           /\ queue' \in [RefName -> Seq(Caller)]
<1>1. NoSwap \in SwapTypes /\ NoSwap.pc = "idle"
  BY NothingTypes DEF NoSwap
<1>2. swap' = [swap EXCEPT ![c] = NoSwap]
  BY DEF Done
<1>3. queue' \in [RefName -> Seq(Caller)]
  <2> DEFINE r == swap[c].ref
             line == IF queue[r] # <<>> /\ Head(queue[r]) = c THEN Tail(queue[r]) ELSE queue[r]
  <2>1. r \in RefName /\ queue[r] \in Seq(Caller)
    BY DEF DiskTypes
  <2>2. line \in Seq(Caller)
    BY <2>1
  <2>3. queue' = [queue EXCEPT ![r] = line]
    BY <2>1 DEF Done, DiskTypes
  <2> HIDE DEF line, r
  <2> QED
    BY <2>1, <2>2, <2>3 DEF DiskTypes
<1> QED
  BY <1>1, <1>2, <1>3, CallerTypes

\* The steps of commands keep the types.
LEMMA CommandsKeepTypes ==
    ASSUME DiskAssumption, DiskTypes, Commands
    PROVE  DiskTypes'
<1> USE DEF DiskTypes
<1>0. swap \in [Caller -> SwapTypes]
  BY TypesAre
<1>1. ASSUME NEW o \in Obj, Write(o) PROVE DiskTypes'
  BY <1>1 DEF Write, refFiles
<1>2. ASSUME NEW o \in Obj, NEW r \in RefName, WriteRef(r, o) PROVE DiskTypes'
  BY <1>2 DEF WriteRef, Given, objectFiles, Oid
<1>3. ASSUME NEW P \in SUBSET Obj, IngestPack(P) PROVE DiskTypes'
  BY <1>3 DEF IngestPack, refFiles
<1>4. ASSUME NEW c \in Caller, NEW r \in RefName, DeleteLoose(c, r) PROVE DiskTypes'
  <2> DEFINE s == [NoSwap EXCEPT !.pc = "read", !.ref = r]
  <2>1. s \in SwapTypes /\ s.ref \in RefName
    BY NothingTypes DEF SwapTypes, NoSwap
  <2>2. swap' = [swap EXCEPT ![c] = s]
    BY <1>4 DEF DeleteLoose
  <2> HIDE DEF s
  <2>3. /\ swap' \in [Caller -> SwapTypes]
        /\ \A d \in Caller : swap'[d].pc # "idle" => swap'[d].ref \in RefName
    BY <2>1, <2>2, CallerTypes
  <2>4. looseRef' \in [RefName -> Oid] /\ last' \in [RefName -> Oid]
    BY <1>4 DEF DeleteLoose, Given, Oid
  <2> QED
    BY <1>4, <2>3, <2>4 DEF DeleteLoose, Given, objectFiles, SwapTypes
<1>5. ASSUME NEW c \in Caller, ReadPacked(c) PROVE DiskTypes'
  <2>1. swap[c] \in SwapTypes /\ swap[c].ref \in RefName
    BY <1>0, <1>5 DEF ReadPacked
  <2>2. /\ swap' \in [Caller -> SwapTypes] /\ queue' \in [RefName -> Seq(Caller)]
        /\ \A d \in Caller : swap'[d].pc # "idle" => swap'[d].ref \in RefName
    <3>1. CASE packedRef = NoValues
      BY <1>5, <3>1, DoneTypes DEF ReadPacked
    <3>2. CASE packedRef # NoValues
      <4> DEFINE s == [swap[c] EXCEPT !.pc = "drop", !.seen = packedRef]
      <4>1. s \in SwapTypes /\ s.ref \in RefName
        BY <2>1 DEF SwapTypes
      <4>2. swap' = [swap EXCEPT ![c] = s] /\ queue' = queue
        BY <1>5, <3>2, <1>0 DEF ReadPacked
      <4> HIDE DEF s
      <4> QED
        BY <4>1, <4>2, CallerTypes
    <3> QED
      BY <3>1, <3>2
  <2> QED
    BY <1>5, <2>2 DEF ReadPacked, objectFiles, SwapTypes
<1>6. ASSUME NEW c \in Caller, DropPacked(c) PROVE DiskTypes'
  <2>1. swap[c] \in SwapTypes /\ swap[c].ref \in RefName
    BY <1>0, <1>6 DEF DropPacked
  <2>2. packedRef' \in [RefName -> Oid] /\ raced' \subseteq RefName
    BY <1>6, <2>1 DEF DropPacked, SwapTypes, Oid
  <2>3. /\ swap' \in [Caller -> SwapTypes] /\ queue' \in [RefName -> Seq(Caller)]
        /\ \A d \in Caller : swap'[d].pc # "idle" => swap'[d].ref \in RefName
    BY <1>6, DoneTypes DEF DropPacked
  <2> QED
    BY <1>6, <2>2, <2>3 DEF DropPacked, objectFiles, SwapTypes
<1>7. ASSUME NEW c \in Caller, NEW r \in RefName, NEW o \in Obj \cup {0}, SwapBegin(c, r, o)
      PROVE  DiskTypes'
  <2> DEFINE s == [NoSwap EXCEPT !.pc = "wait", !.ref = r, !.old = Current(r), !.new = o]
  <2>1. s \in SwapTypes /\ s.ref \in RefName
    BY CurrentType, NothingTypes DEF SwapTypes, Oid, NoSwap
  <2>2. swap' = [swap EXCEPT ![c] = s]
    BY <1>7 DEF SwapBegin
  <2> HIDE DEF s
  <2>3. /\ swap' \in [Caller -> SwapTypes]
        /\ \A d \in Caller : swap'[d].pc # "idle" => swap'[d].ref \in RefName
    BY <2>1, <2>2, CallerTypes
  <2>4. queue' \in [RefName -> Seq(Caller)]
    BY <1>7 DEF SwapBegin
  <2> QED
    BY <1>7, <2>3, <2>4 DEF SwapBegin, objectFiles, SwapTypes
<1>8. ASSUME NEW c \in Caller, SwapRead(c) PROVE DiskTypes'
  <2>1. swap[c] \in SwapTypes /\ swap[c].ref \in RefName
    BY <1>0, <1>8 DEF SwapRead
  <2>2. raced' \subseteq RefName
    BY <1>8, <2>1 DEF SwapRead
  <2>3. /\ swap' \in [Caller -> SwapTypes] /\ queue' \in [RefName -> Seq(Caller)]
        /\ \A d \in Caller : swap'[d].pc # "idle" => swap'[d].ref \in RefName
    <3>1. CASE Current(swap[c].ref) = swap[c].old
      <4> DEFINE s == [swap[c] EXCEPT !.pc = "write"]
      <4>1. s \in SwapTypes /\ s.ref \in RefName
        BY <2>1 DEF SwapTypes
      <4>2. swap' = [swap EXCEPT ![c] = s] /\ queue' = queue
        BY <1>8, <3>1 DEF SwapRead
      <4> HIDE DEF s
      <4> QED
        BY <4>1, <4>2, CallerTypes
    <3>2. CASE Current(swap[c].ref) # swap[c].old
      BY <1>8, <3>2, DoneTypes DEF SwapRead
    <3> QED
      BY <3>1, <3>2
  <2> QED
    BY <1>8, <2>2, <2>3 DEF SwapRead, objectFiles, SwapTypes
<1>9. ASSUME NEW c \in Caller, SwapWrite(c) PROVE DiskTypes'
  <2>1. swap[c] \in SwapTypes /\ swap[c].ref \in RefName /\ swap[c].new \in Oid
    BY <1>0, <1>9 DEF SwapWrite, SwapTypes
  <2>2. /\ swap' \in [Caller -> SwapTypes] /\ queue' \in [RefName -> Seq(Caller)]
        /\ \A d \in Caller : swap'[d].pc # "idle" => swap'[d].ref \in RefName
    <3>1. CASE swap[c].new = 0
      <4> DEFINE s == [swap[c] EXCEPT !.pc = "read"]
      <4>1. s \in SwapTypes /\ s.ref \in RefName
        BY <2>1 DEF SwapTypes
      <4>2. swap' = [swap EXCEPT ![c] = s] /\ queue' = queue
        BY <1>9, <3>1 DEF SwapWrite
      <4> HIDE DEF s
      <4> QED
        BY <4>1, <4>2, CallerTypes
    <3>2. CASE swap[c].new # 0
      BY <1>9, <3>2, DoneTypes DEF SwapWrite
    <3> QED
      BY <3>1, <3>2
  <2>3. looseRef' \in [RefName -> Oid] /\ last' \in [RefName -> Oid]
    BY <1>9, <2>1 DEF SwapWrite
  <2>4. raced' \subseteq RefName /\ log' \subseteq Obj
    BY <1>9, <2>1 DEF SwapWrite, Oid
  <2> QED
    BY <1>9, <2>2, <2>3, <2>4 DEF SwapWrite, objectFiles, SwapTypes
<1> QED
  BY <1>1, <1>2, <1>3, <1>4, <1>5, <1>6, <1>7, <1>8, <1>9 DEF Commands

\* So do those of gc and repack, and the end of a process.
LEMMA HousekeepingKeepsTypes ==
    ASSUME DiskAssumption, DiskTypes, Housekeeping
    PROVE  DiskTypes'
<1>0. gc \in [Collector -> GcTypes]
  BY TypesAre
<1>1. ASSUME gc' \in [Collector -> GcTypes], KeepRefs,
             loose' \subseteq Obj, packFiles' \subseteq SUBSET Obj, idxFiles' \subseteq SUBSET Obj,
             log' \subseteq Obj
      PROVE  DiskTypes'
  BY <1>1 DEF DiskTypes, KeepRefs, refFiles, GcTypes, GcPlaces
<1>2. ASSUME NEW g \in Collector, GcBegin(g) PROVE DiskTypes'
  <2>1. Listing \in [RefName -> Oid]
    BY CurrentType DEF Listing
  <2>2. gc' \in [Collector -> GcTypes]
    BY <1>0, <1>2, <2>1, SMTT(40) DEF GcBegin, GcTypes, GcPlaces
  <2>3. raced' \subseteq RefName
    BY <1>2, DeletingAreRefs DEF GcBegin, DiskTypes
  <2> QED
    BY <1>2, <2>2, <2>3 DEF GcBegin, DiskTypes, objectFiles, GcTypes, GcPlaces
<1>3. ASSUME NEW g \in Collector, WritePackedRefs(g) PROVE DiskTypes'
  <2> DEFINE named == {r \in RefName : gc[g].snap[r] # 0}
             next == [gc[g] EXCEPT !.pc = "unloose", !.todo = named]
  <2>1. gc[g] \in GcTypes /\ gc[g].snap \in [RefName -> Oid]
    BY <1>0 DEF GcTypes
  <2>2. next \in GcTypes
    BY <2>1 DEF GcTypes, GcPlaces
  <2>3. gc' = [gc EXCEPT ![g] = next] /\ packedRef' \in {packedRef, gc[g].snap}
    BY <1>3 DEF WritePackedRefs
  <2> HIDE DEF next
  <2>4. gc' \in [Collector -> GcTypes]
    BY <1>0, <2>2, <2>3
  <2> QED
    BY <1>3, <2>1, <2>3, <2>4 DEF WritePackedRefs, DiskTypes, objectFiles, GcTypes, GcPlaces
<1>4. ASSUME NEW g \in Collector, RemoveLooseRef(g) PROVE DiskTypes'
  <2>1. gc' \in [Collector -> GcTypes]
    BY <1>0, <1>4 DEF RemoveLooseRef, GcTypes
  <2>2. looseRef' \in [RefName -> Oid]
    BY <1>4 DEF RemoveLooseRef, DiskTypes, Oid
  <2>3. UNCHANGED <<objectFiles, packedRef, swap, queue, last, raced, log, written>>
    BY <1>4 DEF RemoveLooseRef
  <2> QED
    BY <2>1, <2>2, <2>3 DEF DiskTypes, objectFiles, GcTypes, GcPlaces
<1>5. ASSUME NEW g \in Collector, Expire(g) PROVE DiskTypes'
  <2>1. gc' \in [Collector -> GcTypes]
    BY <1>0, <1>5, StepTypes DEF Expire, GcPlaces
  <2> QED
    BY <1>1, <1>5, <2>1 DEF Expire, objectFiles, DiskTypes
<1>6. ASSUME NEW g \in Collector, NEW all \in BOOLEAN, NEW cleanup \in BOOLEAN,
             Enumerate(g, all, cleanup)
      PROVE  DiskTypes'
  <2>1. Reach(Roots) \in SUBSET Obj
    BY StoredType DEF DiskAssumption, Reach, Roots
  <2> DEFINE P == IF all THEN Reach(Roots) ELSE Reach(Roots) \ UNION idxFiles
             at == IF P = {} THEN NoGc
                   ELSE [NoGc EXCEPT !.pc = IF cleanup THEN "pack" ELSE "packOnly", !.new = P]
  <2>2. P \in SUBSET Obj
    BY <2>1
  <2>3. at \in GcTypes
    <3> HIDE DEF P
    <3>1. [NoGc EXCEPT !.pc = IF cleanup THEN "pack" ELSE "packOnly", !.new = P] \in GcTypes
      BY <2>2, NothingTypes DEF GcTypes, GcPlaces
    <3> QED
      BY <3>1, NothingTypes
  <2>4. gc' = [gc EXCEPT ![g] = at]
    BY <1>6 DEF Enumerate
  <2> HIDE DEF at
  <2>5. gc' \in [Collector -> GcTypes]
    BY <1>0, <2>3, <2>4
  <2> QED
    BY <1>1, <1>6, <2>5 DEF Enumerate, objectFiles, DiskTypes
<1>7. ASSUME NEW g \in Collector, WritePack(g) PROVE DiskTypes'
  <2>1. gc' \in [Collector -> GcTypes]
    BY <1>0, <1>7, StepTypes DEF WritePack, GcPlaces
  <2>2. gc[g].new \in SUBSET Obj
    BY <1>0 DEF GcTypes
  <2> QED
    BY <1>1, <1>7, <2>1, <2>2 DEF WritePack, DiskTypes
<1>8. ASSUME NEW g \in Collector, WriteIdx(g) PROVE DiskTypes'
  <2>1. gc[g] \in GcTypes /\ gc[g].new \in SUBSET Obj
    BY <1>0 DEF GcTypes
  <2>2. [gc[g] EXCEPT !.pc = "clean", !.todo = idxFiles \ {gc[g].new}] \in GcTypes
    BY <2>1 DEF GcTypes, GcPlaces, DiskTypes
  <2>3. gc' \in [Collector -> GcTypes]
    BY <1>0, <1>8, <2>2, NothingTypes DEF WriteIdx
  <2> QED
    BY <1>1, <1>8, <2>1, <2>3 DEF WriteIdx, DiskTypes
<1>9. ASSUME NEW g \in Collector, CleanPack(g) PROVE DiskTypes'
  <2>1. PICK P \in gc[g].todo : CleanPack(g)!(P)
    BY <1>9 DEF CleanPack
  <2>2. [gc EXCEPT ![g].todo = @ \ {P}] \in [Collector -> GcTypes]
    BY <1>0 DEF GcTypes
  <2>3. gc' \in [Collector -> GcTypes]
    BY <1>0, <2>1, <2>2
  <2> QED
    BY <1>1, <2>1, <2>3 DEF DiskTypes
<1>10. ASSUME NEW g \in Collector, CleanLoose(g) PROVE DiskTypes'
  <2>1. gc' \in [Collector -> GcTypes]
    BY <1>0, <1>10, NothingTypes DEF CleanLoose
  <2> QED
    BY <1>1, <1>10, <2>1 DEF CleanLoose, DiskTypes
<1> QED
  BY <1>2, <1>3, <1>4, <1>5, <1>6, <1>7, <1>8, <1>9, <1>10 DEF Housekeeping

LEMMA EndsKeepTypes ==
    ASSUME DiskAssumption, DiskTypes, ProcessEnds
    PROVE  DiskTypes'
<1>0. gc \in [Collector -> GcTypes] /\ swap \in [Caller -> SwapTypes]
  BY TypesAre
<1>1. ASSUME NEW g \in Collector, gc' = [gc EXCEPT ![g] = NoGc],
             UNCHANGED <<objectFiles, log, gcs>>, KeepRefs
      PROVE  DiskTypes'
  <2>1. gc' \in [Collector -> GcTypes]
    BY <1>0, <1>1, NothingTypes
  <2> QED
    BY <1>1, <2>1 DEF KeepRefs, refFiles, objectFiles, DiskTypes, GcTypes, GcPlaces
<1>2. ASSUME swap' = [c \in Caller |-> NoSwap],
             queue' = [r \in RefName |-> <<>>], raced' = raced \cup Deleting,
             UNCHANGED <<objectFiles, looseRef, packedRef, last, log, gc, ops, gcs, written>>
      PROVE  DiskTypes'
  <2>1. swap' \in [Caller -> SwapTypes] /\ \A c \in Caller : swap'[c].pc = "idle"
    BY <1>2, NothingTypes DEF NoSwap
  <2>2. raced' \subseteq RefName
    BY <1>2, DeletingAreRefs DEF DiskTypes
  <2> QED
    BY <1>2, <2>1, <2>2 DEF objectFiles, DiskTypes, SwapTypes
<1> QED
  BY <1>1, <1>2 DEF ProcessEnds

-------------------------------------------------------------------------------
(* What is stored stays.                                                   *)

\* Steps that only add files lose no object.
LEMMA PacksGrow ==
    ASSUME loose \subseteq loose', packFiles \subseteq packFiles',
           idxFiles \subseteq idxFiles'
    PROVE  Stored \subseteq Stored'
BY DEF Packs, Stored

\* A step that adds to what is on disk and leaves the collectors where they are.
LEMMA AddingKeeps ==
    ASSUME ObjectInv, loose \subseteq loose', packFiles \subseteq packFiles',
           idxFiles \subseteq idxFiles', gc' = gc, written' \ written \subseteq Stored'
    PROVE  ObjectInv'
<1>1. ObjectsStay'
  BY PacksGrow DEF ObjectInv, ObjectsStay
<1>2. ASSUME NEW g \in Collector PROVE PackInv(g)'
  <2>1. InOnePack(gc[g].new) => InOnePack(gc[g].new)'
    BY DEF InOnePack, Packs
  <2>2. PackInv(g)
    BY DEF ObjectInv
  <2> QED
    BY <2>1, <2>2 DEF PackInv
<1> QED
  BY <1>1, <1>2 DEF ObjectInv

\* A collector that goes where no pack is at stake.
LEMMA GoingKeeps ==
    ASSUME ObjectInv, UNCHANGED <<objectFiles, written>>, NEW g \in Collector,
           \A h \in Collector \ {g} : gc'[h] = gc[h],
           gc'[g].pc \notin {"idx", "clean"}
    PROVE  ObjectInv'
BY DEF ObjectInv, ObjectsStay, Stored, Packs, objectFiles, PackInv, InOnePack

\* The new pack comes before its index.
LEMMA WritePackKeeps ==
    ASSUME DiskTypes, ObjectInv, NEW g \in Collector, WritePack(g)
    PROVE  ObjectInv'
<1>0. gc \in [Collector -> GcTypes]
  BY TypesAre
<1>1. /\ packFiles' = packFiles \cup {gc[g].new} /\ loose' = loose /\ idxFiles' = idxFiles
      /\ written' = written
  BY DEF WritePack, KeepRefs
<1>2. /\ \A h \in Collector \ {g} : gc'[h] = gc[h]
      /\ gc'[g].pc \in {"idx", "idxOnly"} /\ gc'[g].new = gc[g].new
  BY <1>0 DEF WritePack, Step, GcTypes
<1>3. ObjectsStay'
  BY <1>1 DEF ObjectInv, ObjectsStay, Stored, Packs
<1>4. \A h \in Collector : PackInv(h)'
  BY <1>1, <1>2 DEF ObjectInv, PackInv, InOnePack, Packs
<1> QED
  BY <1>3, <1>4 DEF ObjectInv

\* With its index, the new pack is one that has all of what was enumerated; should another
\* collector have removed it meanwhile, that one's pack has.
LEMMA WriteIdxKeeps ==
    ASSUME DiskTypes, ObjectInv, NEW g \in Collector, WriteIdx(g)
    PROVE  ObjectInv'
<1>0. gc \in [Collector -> GcTypes]
  BY TypesAre
<1>1. /\ idxFiles' = idxFiles \cup {gc[g].new} /\ loose' = loose /\ packFiles' = packFiles
      /\ written' = written
  BY DEF WriteIdx, KeepRefs
<1>2. /\ \A h \in Collector \ {g} : gc'[h] = gc[h]
      /\ gc[g].pc = "idxOnly" => gc'[g] = NoGc
      /\ gc[g].pc # "idxOnly" =>
            /\ gc[g].pc = "idx" /\ gc'[g].pc = "clean" /\ gc'[g].new = gc[g].new
            /\ gc'[g].todo = idxFiles \ {gc[g].new}
  BY <1>0 DEF WriteIdx, GcTypes
<1>3. ObjectsStay'
  BY <1>1 DEF ObjectInv, ObjectsStay, Stored, Packs
<1>4. \A h \in Collector \ {g} : PackInv(h)'
  BY <1>1, <1>2 DEF ObjectInv, PackInv, InOnePack, Packs
<1>5. PackInv(g)'
  BY <1>1, <1>2 DEF ObjectInv, PackInv, InOnePack, Packs, NoGc
<1> QED
  BY <1>3, <1>4, <1>5 DEF ObjectInv

\* Of the packs that are cleaned up only those go whose objects are in a pack that stays.
LEMMA CleanPackKeeps ==
    ASSUME DiskTypes, ObjectInv, NEW g \in Collector, CleanPack(g)
    PROVE  ObjectInv'
<1>0. gc \in [Collector -> GcTypes]
  BY TypesAre
<1>1. PICK P \in gc[g].todo : CleanPack(g)!(P)
  BY DEF CleanPack
<1>2. gc[g].pc = "clean" /\ loose' = loose /\ written' = written
  BY <1>1 DEF KeepRefs
<1>3. CASE gc' = [gc EXCEPT ![g].todo = @ \ {P}] /\ UNCHANGED packFiles
  <2>1. /\ \A h \in Collector \ {g} : gc'[h] = gc[h]
        /\ gc'[g].pc = gc[g].pc /\ gc'[g].new = gc[g].new /\ gc'[g].todo = gc[g].todo \ {P}
    BY <1>0, <1>3 DEF GcTypes
  <2>2. Packs' = Packs
    BY <1>1, <1>3 DEF Packs
  <2> QED
    BY <1>2, <1>3, <2>1, <2>2 DEF ObjectInv, ObjectsStay, Stored, PackInv, InOnePack
<1>4. CASE packFiles' = packFiles \ {P} /\ UNCHANGED <<idxFiles, gc>>
  <2>1. P \subseteq gc[g].new \/ (packFiles' = packFiles /\ idxFiles' = idxFiles)
    BY <1>1 DEF Redundant
  <2>2. PICK S \in Packs : gc[g].new \subseteq S
    BY <1>2 DEF ObjectInv, PackInv, InOnePack
  <2>3. P # gc[g].new
    BY <1>1, <1>2 DEF ObjectInv, PackInv
  <2>4. P \subseteq gc[g].new => S \in Packs' /\ P \subseteq S
    BY <1>4, <2>2, <2>3 DEF Packs
  <2>5. Packs \ {P} \subseteq Packs'
    BY <1>4 DEF Packs
  <2>6. CASE P \subseteq gc[g].new
    <3>1. ObjectsStay'
      BY <1>2, <2>4, <2>5, <2>6 DEF ObjectInv, ObjectsStay, Stored
    <3>2. ASSUME NEW D, InOnePack(D) PROVE \E Q \in Packs' : D \subseteq Q
      BY <2>4, <2>5, <2>6, <3>2 DEF InOnePack
    <3>3. ASSUME NEW h \in Collector PROVE PackInv(h)'
      <4>1. PackInv(h)
        BY DEF ObjectInv
      <4>2. gc[h].new \in packFiles => gc[h].new \in packFiles' \/ gc[h].new = P
        BY <1>4
      <4>3. gc[h].new = P => \E Q \in Packs' : gc[h].new \subseteq Q
        BY <2>4, <2>6
      <4>4. InOnePack(gc[h].new) => \E Q \in Packs' : gc[h].new \subseteq Q
        BY <3>2
      <4> QED
        BY <1>4, <4>1, <4>2, <4>3, <4>4 DEF PackInv, InOnePack
    <3> QED
      BY <3>1, <3>3 DEF ObjectInv
  <2>7. CASE packFiles' = packFiles /\ idxFiles' = idxFiles
    BY <1>2, <1>4, <2>7 DEF ObjectInv, ObjectsStay, Stored, PackInv, InOnePack, Packs
  <2> QED
    BY <2>1, <2>6, <2>7
<1> QED
  BY <1>1, <1>3, <1>4

\* Loose files go that the new pack, or a larger one, has.
LEMMA CleanLooseKeeps ==
    ASSUME DiskTypes, ObjectInv, NEW g \in Collector, CleanLoose(g)
    PROVE  ObjectInv'
<1>0. gc \in [Collector -> GcTypes]
  BY TypesAre
<1>1. /\ packFiles' = packFiles /\ idxFiles' = idxFiles /\ written' = written
      /\ gc[g].pc = "clean"
  BY DEF CleanLoose, KeepRefs
<1>2. /\ \A h \in Collector \ {g} : gc'[h] = gc[h]
      /\ gc'[g] = gc[g] \/ gc'[g] = NoGc
  BY <1>0 DEF CleanLoose
<1>3. Packs' = Packs /\ loose \ gc[g].new \subseteq loose'
  BY <1>1 DEF CleanLoose, Packs
<1>4. gc[g].new \subseteq UNION Packs
  BY <1>1 DEF ObjectInv, PackInv, InOnePack
<1>5. ObjectsStay'
  BY <1>1, <1>3, <1>4 DEF ObjectInv, ObjectsStay, Stored
<1>6. \A h \in Collector : PackInv(h)'
  BY <1>1, <1>2, <1>3 DEF ObjectInv, PackInv, InOnePack, NoGc
<1> QED
  BY <1>5, <1>6 DEF ObjectInv

\* Every step keeps what is stored.
LEMMA ObjectInvStays ==
    ASSUME DiskTypes, ObjectInv, DiskNext
    PROVE  ObjectInv'
<1>0. gc \in [Collector -> GcTypes]
  BY TypesAre
<1>1. ASSUME loose \subseteq loose', packFiles \subseteq packFiles', idxFiles \subseteq idxFiles',
             gc' = gc, written' \ written \subseteq Stored'
      PROVE  ObjectInv'
  BY <1>1, AddingKeeps DEF ObjectInv
<1>2. ASSUME UNCHANGED <<objectFiles, written, gc>> PROVE ObjectInv'
  BY <1>2 DEF ObjectInv, ObjectsStay, Stored, Packs, objectFiles, PackInv, InOnePack
<1>3. CASE Commands
  <2>1. ASSUME NEW o \in Obj, Write(o) PROVE ObjectInv'
    BY <1>1, <2>1 DEF Write, Stored
  <2>2. ASSUME NEW P \in SUBSET Obj, IngestPack(P) PROVE ObjectInv'
    BY <1>1, <2>2 DEF IngestPack, Stored, Packs
  <2>3. CASE UNCHANGED <<objectFiles, written, gc>>
    BY <1>2, <2>3
  <2> QED
    BY <1>3, <2>1, <2>2, <2>3 DEF Commands, WriteRef, DeleteLoose, ReadPacked, DropPacked,
                                  SwapBegin, SwapRead, SwapWrite
<1>4. CASE Housekeeping
  <2>1. ASSUME NEW g \in Collector,
               \/ GcBegin(g) \/ WritePackedRefs(g) \/ RemoveLooseRef(g) \/ Expire(g)
               \/ \E all, cleanup \in BOOLEAN : Enumerate(g, all, cleanup)
        PROVE  ObjectInv'
    <3>1. UNCHANGED <<objectFiles, written>>
      BY <2>1 DEF GcBegin, WritePackedRefs, RemoveLooseRef, Expire, Enumerate, KeepRefs
    <3>2. \A h \in Collector \ {g} : gc'[h] = gc[h]
      BY <1>0, <2>1 DEF GcBegin, WritePackedRefs, RemoveLooseRef, Expire, Step, Enumerate
    <3>3. gc'[g].pc \notin {"idx", "clean"}
      <4>1. CASE GcBegin(g) \/ WritePackedRefs(g) \/ RemoveLooseRef(g) \/ Expire(g)
        BY <1>0, <4>1 DEF GcBegin, WritePackedRefs, RemoveLooseRef, Expire, Step, GcTypes
      <4>2. CASE \E all, cleanup \in BOOLEAN : Enumerate(g, all, cleanup)
        BY <1>0, <4>2 DEF Enumerate, NoGc
      <4> QED
        BY <2>1, <4>1, <4>2
    <3> QED
      BY <3>1, <3>2, <3>3, GoingKeeps
  <2> QED
    BY <1>4, <2>1, WritePackKeeps, WriteIdxKeeps, CleanPackKeeps, CleanLooseKeeps
       DEF Housekeeping
<1>5. CASE ProcessEnds
  <2>1. ASSUME NEW g \in Collector, gc' = [gc EXCEPT ![g] = NoGc],
               UNCHANGED <<objectFiles, log, gcs>>, KeepRefs
        PROVE  ObjectInv'
    BY <1>0, <2>1, GoingKeeps DEF KeepRefs, NoGc
  <2> QED
    BY <1>2, <1>5, <2>1 DEF ProcessEnds
<1> QED
  BY <1>3, <1>4, <1>5 DEF DiskNext


-------------------------------------------------------------------------------
(* Refs read as they were written.                                         *)

\* Between its listing and its last loose file.
Listed(g) == gc[g].pc \in {"refs", "unloose"}

\* Where a step leaves the other callers, what is half deleted is so but for the ref of
\* this one.
LEMMA DeletingOf ==
    ASSUME NEW c \in Caller, \A d \in Caller \ {c} : swap'[d] = swap[d]
    PROVE  /\ Deleting \subseteq Deleting' \cup (IF Unlinked(c) THEN {swap[c].ref} ELSE {})
           /\ Deleting' \subseteq Deleting \cup (IF Unlinked(c)' THEN {swap'[c].ref} ELSE {})
BY DEF Deleting, Unlinked

LEMMA DoneCaller ==
    ASSUME DiskTypes, NEW c \in Caller, Done(c)
    PROVE  /\ \A d \in Caller \ {c} : swap'[d] = swap[d]
           /\ swap'[c].pc = "idle" /\ ~Unlinked(c)'
BY TypesAre DEF Done, NoSwap, Unlinked

\* A step that gives no ref a value, though a ref may turn out to be raced, and others may
\* be deleted to the end.
LEMMA SameRefs ==
    ASSUME RefInv, UNCHANGED <<looseRef, packedRef, last>>, raced \subseteq raced',
           Deleting' \subseteq Deleting,
           \A r \in Deleting \ (Deleting' \cup raced') : Current(r) = last[r],
           \A g \in Collector : gc'[g] = gc[g] \/ gc'[g].pc \notin {"refs", "unloose"}
    PROVE  RefInv'
<1>1. RefsAsWritten'
  BY DEF RefInv, RefsAsWritten, Current
<1>2. DeletionInv'
  BY DEF RefInv, DeletionInv
<1>3. ASSUME NEW g \in Collector PROVE ListingInv(g)'
  <2>1. ListingInv(g)
    BY DEF RefInv
  <2> QED
    BY <2>1 DEF ListingInv
<1> QED
  BY <1>1, <1>2, <1>3 DEF RefInv

\* A ref is given a new value in its loose file: one that is listed meanwhile, or half
\* deleted, is raced from then on.
LEMMA LooseWritten ==
    ASSUME DiskTypes, RefInv, NEW r \in RefName, NEW o \in Oid, o # 0,
           looseRef' = [looseRef EXCEPT ![r] = o], last' = [last EXCEPT ![r] = o],
           UNCHANGED <<packedRef, gc>>, raced \subseteq raced', Deleting' = Deleting,
           r \in Deleting \/ (\E g \in Collector : Listed(g)) => r \in raced'
    PROVE  RefInv'
<1>1. looseRef'[r] = o /\ last'[r] = o
  BY DEF DiskTypes
<1>2. \A x \in RefName \ {r} : looseRef'[x] = looseRef[x] /\ last'[x] = last[x]
  BY DEF DiskTypes
<1>3. RefsAsWritten'
  BY <1>1, <1>2 DEF RefInv, RefsAsWritten, Current
<1>4. DeletionInv'
  BY <1>2, DeletingAreRefs DEF RefInv, DeletionInv
<1>5. ASSUME NEW g \in Collector PROVE ListingInv(g)'
  <2>1. ListingInv(g)
    BY DEF RefInv
  <2> QED
    BY <2>1, <1>2 DEF ListingInv, Listed
<1> QED
  BY <1>3, <1>4, <1>5 DEF RefInv

\* The loose file of a ref goes, whoever removes it.
LEMMA LooseRemoved ==
    ASSUME DiskTypes, RefInv, NEW r \in RefName,
           looseRef' = [looseRef EXCEPT ![r] = 0], last' = [last EXCEPT ![r] = 0],
           UNCHANGED <<packedRef, gc>>, raced \subseteq raced', Deleting' = Deleting \cup {r},
           (\E g \in Collector : Listed(g)) => r \in raced'
    PROVE  RefInv'
<1>1. looseRef'[r] = 0 /\ last'[r] = 0
  BY DEF DiskTypes
<1>2. \A x \in RefName \ {r} : looseRef'[x] = looseRef[x] /\ last'[x] = last[x]
  BY DEF DiskTypes
<1>3. RefsAsWritten'
  BY <1>2 DEF RefInv, RefsAsWritten, Current
<1>4. DeletionInv'
  BY <1>1, <1>2, DeletingAreRefs DEF RefInv, DeletionInv
<1>5. ASSUME NEW g \in Collector PROVE ListingInv(g)'
  <2>1. ListingInv(g)
    BY DEF RefInv
  <2> QED
    BY <2>1, <1>2 DEF ListingInv, Listed
<1> QED
  BY <1>3, <1>4, <1>5 DEF RefInv

LEMMA DeleteLooseKeepsRefs ==
    ASSUME DiskTypes, RefInv, NEW c \in Caller, NEW r \in RefName, DeleteLoose(c, r)
    PROVE  RefInv'
<1>0. swap \in [Caller -> SwapTypes]
  BY TypesAre
<1>1. /\ looseRef' = [looseRef EXCEPT ![r] = 0] /\ last' = [last EXCEPT ![r] = 0]
      /\ UNCHANGED <<packedRef, gc>> /\ raced \subseteq raced'
      /\ (\E g \in Collector : Listed(g)) => r \in raced'
  BY DEF DeleteLoose, Given, Busy, Listed
<1>2. /\ swap[c].pc = "idle" /\ swap'[c].pc = "read" /\ swap'[c].ref = r
      /\ \A d \in Caller \ {c} : swap'[d] = swap[d]
  BY <1>0 DEF DeleteLoose, NoSwap
<1>3. Deleting' = Deleting \cup {r}
  BY <1>2 DEF Deleting, Unlinked
<1> QED
  BY <1>1, <1>3, LooseRemoved

\* packed-refs is not there: the ref is deleted.
LEMMA ReadPackedKeepsRefs ==
    ASSUME DiskTypes, RefInv, NEW c \in Caller, ReadPacked(c)
    PROVE  RefInv'
<1>0. swap \in [Caller -> SwapTypes]
  BY TypesAre
<1>1. UNCHANGED <<looseRef, packedRef, last, raced, gc>> /\ swap[c].ref \in RefName
  BY DEF ReadPacked, DiskTypes
<1>2. CASE packedRef = NoValues
  <2>1. (\A d \in Caller \ {c} : swap'[d] = swap[d]) /\ ~Unlinked(c)'
    BY <1>2, DoneCaller DEF ReadPacked
  <2>2. Deleting' \subseteq Deleting /\ Deleting \ Deleting' \subseteq {swap[c].ref}
    BY <2>1, DeletingOf
  <2>3. \A r \in Deleting \ (Deleting' \cup raced') : Current(r) = last[r]
    <3>1. \A r \in Deleting \ raced : looseRef[r] = 0 /\ last[r] = 0
      BY DEF RefInv, DeletionInv
    <3>2. packedRef[swap[c].ref] = 0
      BY <1>1, <1>2 DEF NoValues
    <3> QED
      BY <1>1, <2>2, <3>1, <3>2 DEF Current
  <2> QED
    BY <1>1, <2>2, <2>3, SameRefs
<1>3. CASE packedRef # NoValues
  <2>1. /\ \A d \in Caller \ {c} : swap'[d] = swap[d]
        /\ swap[c].pc = "read" /\ swap'[c].pc = "drop" /\ swap'[c].ref = swap[c].ref
    <3>1. swap' = [swap EXCEPT ![c] = [swap[c] EXCEPT !.pc = "drop", !.seen = packedRef]]
      BY <1>0, <1>3 DEF ReadPacked
    <3> QED
      BY <1>0, <3>1 DEF ReadPacked, SwapTypes
  <2>2. Deleting' = Deleting
    BY <2>1 DEF Deleting, Unlinked
  <2> QED
    BY <1>1, <2>2, SameRefs
<1> QED
  BY <1>2, <1>3

\* The file as it was read is written over what it is: whose line has changed is raced.
LEMMA DropPackedKeepsRefs ==
    ASSUME DiskTypes, RefInv, NEW c \in Caller, DropPacked(c)
    PROVE  RefInv'
<1>0. swap \in [Caller -> SwapTypes]
  BY TypesAre
<1> DEFINE r == swap[c].ref
<1>1. r \in RefName /\ Unlinked(c)
  BY DEF DropPacked, DiskTypes, Unlinked
<1>2. /\ (\A d \in Caller \ {c} : swap'[d] = swap[d]) /\ ~Unlinked(c)'
      /\ UNCHANGED <<looseRef, last, gc>> /\ raced \subseteq raced'
  BY DoneCaller DEF DropPacked
<1>3. r \in Deleting /\ Deleting' \subseteq Deleting /\ Deleting \ Deleting' \subseteq {r}
  BY <1>1, <1>2, DeletingOf DEF Deleting
<1>4. swap[c].seen \in [RefName -> Oid]
  BY <1>0 DEF SwapTypes
<1>5. packedRef'[r] = 0 /\ \A x \in RefName \ ({r} \cup raced') : packedRef'[x] = packedRef[x]
  BY <1>1, <1>4 DEF DropPacked
<1> HIDE DEF r
<1>6. RefsAsWritten'
  <2> SUFFICES ASSUME NEW x \in RefName, x \notin raced', x \notin Deleting'
               PROVE  Current(x)' = last'[x]
    BY DEF RefsAsWritten
  <2>1. CASE x = r
    <3>1. looseRef[x] = 0 /\ last[x] = 0
      BY <1>2, <1>3, <2>1 DEF RefInv, DeletionInv
    <3> QED
      BY <1>2, <1>5, <2>1, <3>1 DEF Current
  <2>2. CASE x # r
    <3>1. Current(x) = last[x]
      BY <1>2, <1>3, <2>2 DEF RefInv, RefsAsWritten
    <3> QED
      BY <1>2, <1>5, <2>2, <3>1 DEF Current
  <2> QED
    BY <2>1, <2>2
<1>7. DeletionInv'
  BY <1>2, <1>3 DEF RefInv, DeletionInv
<1>8. ASSUME NEW g \in Collector PROVE ListingInv(g)'
  <2>1. ListingInv(g)
    BY DEF RefInv
  <2> QED
    BY <1>2, <1>3, <1>5, <2>1 DEF ListingInv
<1> QED
  BY <1>6, <1>7, <1>8 DEF RefInv

\* A caller whose turn it is writes the new value, or removes the loose file.
LEMMA SwapWriteKeepsRefs ==
    ASSUME DiskAssumption, DiskTypes, RefInv, NEW c \in Caller, SwapWrite(c)
    PROVE  RefInv'
<1>0. swap \in [Caller -> SwapTypes]
  BY TypesAre
<1> DEFINE r == swap[c].ref
           o == swap[c].new
<1>1. r \in RefName /\ o \in Oid /\ ~Unlinked(c)
  BY <1>0 DEF SwapWrite, DiskTypes, SwapTypes, Unlinked
<1>2. /\ looseRef' = [looseRef EXCEPT ![r] = o] /\ last' = [last EXCEPT ![r] = o]
      /\ UNCHANGED <<packedRef, gc>> /\ raced \subseteq raced'
      /\ r \in Deleting \/ (\E g \in Collector : Listed(g)) => r \in raced'
  BY DEF SwapWrite, Listed
<1>3. CASE o = 0
  <2>1. swap' = [swap EXCEPT ![c] = [swap[c] EXCEPT !.pc = "read"]]
    BY <1>3 DEF SwapWrite
  <2>2. /\ \A d \in Caller \ {c} : swap'[d] = swap[d]
        /\ swap'[c].pc = "read" /\ swap'[c].ref = r
    BY <1>0, <2>1 DEF SwapTypes
  <2>3. Deleting' = Deleting \cup {r}
    <3> HIDE DEF r
    <3> QED
      BY <1>1, <2>2 DEF Deleting, Unlinked
  <2> HIDE DEF r, o
  <2> QED
    BY <1>1, <1>2, <1>3, <2>3, LooseRemoved
<1>4. CASE o # 0
  <2>1. (\A d \in Caller \ {c} : swap'[d] = swap[d]) /\ ~Unlinked(c)'
    BY <1>4, DoneCaller DEF SwapWrite
  <2>2. Deleting' = Deleting
    BY <1>1, <2>1, DeletingOf
  <2> HIDE DEF r, o
  <2> QED
    BY <1>1, <1>2, <1>4, <2>2, LooseWritten
<1> QED
  BY <1>3, <1>4

\* gc lists the refs, writes the listing, and removes the loose files it listed.
LEMMA GcBeginKeepsRefs ==
    ASSUME DiskTypes, RefInv, NEW g \in Collector, GcBegin(g)
    PROVE  RefInv'
<1>0. gc \in [Collector -> GcTypes]
  BY TypesAre
<1>1. /\ UNCHANGED <<looseRef, packedRef, swap, last>>
      /\ raced' = raced \cup Deleting
      /\ \A h \in Collector \ {g} : gc'[h] = gc[h]
      /\ gc'[g].pc = "refs" /\ gc'[g].snap = Listing
  BY <1>0 DEF GcBegin
<1>2. Deleting' = Deleting
  BY <1>1 DEF Deleting, Unlinked
<1>3. RefsAsWritten' /\ DeletionInv'
  BY <1>1, <1>2 DEF RefInv, RefsAsWritten, DeletionInv, Current
<1>4. \A h \in Collector \ {g} : ListingInv(h)'
  BY <1>1, <1>2 DEF RefInv, ListingInv
<1>5. ListingInv(g)'
  <2>1. \A r \in RefName \ raced' : r \notin Deleting /\ Listing[r] = last[r]
    BY <1>1 DEF RefInv, RefsAsWritten, Listing
  <2> QED
    BY <1>1, <1>2, <2>1 DEF ListingInv
<1> QED
  BY <1>3, <1>4, <1>5 DEF RefInv

LEMMA WritePackedRefsKeepsRefs ==
    ASSUME DiskTypes, RefInv, NEW g \in Collector, WritePackedRefs(g)
    PROVE  RefInv'
<1>0. gc \in [Collector -> GcTypes]
  BY TypesAre
<1> DEFINE named == {r \in RefName : gc[g].snap[r] # 0}
<1>1. /\ UNCHANGED <<looseRef, swap, last, raced>> /\ gc[g].pc = "refs"
      /\ \A h \in Collector \ {g} : gc'[h] = gc[h]
      /\ gc'[g].pc = "unloose" /\ gc'[g].snap = gc[g].snap /\ gc'[g].todo = named
      /\ packedRef' = packedRef \/ packedRef' = gc[g].snap
      /\ named # {} => packedRef' = gc[g].snap
  BY <1>0 DEF WritePackedRefs, GcTypes
<1>8. Deleting' = Deleting
  BY <1>1 DEF Deleting, Unlinked
<1>2. \A r \in RefName \ raced : gc[g].snap[r] = last[r] /\ r \notin Deleting
  BY <1>1 DEF RefInv, ListingInv
<1>3. \A r \in RefName \ raced : packedRef'[r] = packedRef[r] \/ packedRef'[r] = last[r]
  BY <1>1, <1>2
<1>4. RefsAsWritten'
  <2>1. \A r \in RefName \ raced : Current(r) = last[r]
    BY <1>2 DEF RefInv, RefsAsWritten
  <2> QED
    BY <1>1, <1>3, <2>1 DEF RefsAsWritten, Current
<1>5. DeletionInv'
  BY <1>1, <1>8 DEF RefInv, DeletionInv
<1>6. ASSUME NEW h \in Collector \ {g} PROVE ListingInv(h)'
  <2>1. ListingInv(h)
    BY DEF RefInv
  <2> QED
    BY <1>1, <1>3, <1>8, <2>1 DEF ListingInv
<1>7. ListingInv(g)'
  BY <1>1, <1>2, <1>8 DEF ListingInv
<1> QED
  BY <1>4, <1>5, <1>6, <1>7 DEF RefInv

LEMMA RemoveLooseRefKeepsRefs ==
    ASSUME DiskTypes, RefInv, NEW g \in Collector, RemoveLooseRef(g)
    PROVE  RefInv'
<1>0. gc \in [Collector -> GcTypes]
  BY TypesAre
<1>1. PICK r \in gc[g].todo : RemoveLooseRef(g)!(r)
  BY DEF RemoveLooseRef
<1>2. /\ UNCHANGED <<packedRef, swap, last, raced>> /\ gc[g].pc = "unloose"
      /\ \A h \in Collector \ {g} : gc'[h] = gc[h]
      /\ gc'[g].pc = "unloose" /\ gc'[g].snap = gc[g].snap /\ gc'[g].todo = gc[g].todo \ {r}
  BY <1>0, <1>1 DEF GcTypes
<1>8. Deleting' = Deleting
  BY <1>2 DEF Deleting, Unlinked
<1>3. \A x \in RefName : looseRef'[x] = looseRef[x] \/ (x = r /\ looseRef'[x] = 0)
  BY <1>1 DEF DiskTypes
<1>4. \A x \in RefName \ raced : x = r => packedRef[x] = last[x]
  BY <1>1, <1>2 DEF RefInv, ListingInv
<1>5. RefsAsWritten'
  <2>1. \A x \in RefName \ (raced \cup Deleting) : Current(x) = last[x]
    BY DEF RefInv, RefsAsWritten
  <2> QED
    BY <1>2, <1>3, <1>4, <1>8, <2>1 DEF RefsAsWritten, Current
<1>6. DeletionInv'
  BY <1>2, <1>3, <1>8, DeletingAreRefs DEF RefInv, DeletionInv
<1>7. ASSUME NEW h \in Collector PROVE ListingInv(h)'
  <2>1. ListingInv(h)
    BY DEF RefInv
  <2> QED
    BY <1>2, <1>8, <2>1 DEF ListingInv
<1> QED
  BY <1>5, <1>6, <1>7 DEF RefInv

\* Every step keeps the refs.
LEMMA RefInvStays ==
    ASSUME DiskAssumption, DiskTypes, RefInv, DiskNext
    PROVE  RefInv'
<1>0. gc \in [Collector -> GcTypes] /\ swap \in [Caller -> SwapTypes]
  BY TypesAre
<1>5. ASSUME swap' = swap PROVE Deleting' = Deleting
  BY <1>5 DEF Deleting, Unlinked
<1>1. ASSUME UNCHANGED <<refFiles, gc>> PROVE RefInv'
  BY <1>1, <1>5, SameRefs DEF refFiles
<1>2. CASE Commands
  <2>1. ASSUME NEW r \in RefName, NEW o \in Obj, WriteRef(r, o) PROVE RefInv'
    <3>1. r \in Deleting \/ (\E g \in Collector : Listed(g)) => r \in raced'
      BY <2>1 DEF WriteRef, Given, Busy, Listed
    <3>2. /\ looseRef' = [looseRef EXCEPT ![r] = o] /\ last' = [last EXCEPT ![r] = o]
          /\ UNCHANGED <<packedRef, swap, gc>> /\ raced \subseteq raced'
          /\ o \in Oid /\ o # 0
      BY <2>1 DEF WriteRef, Given, Oid, DiskAssumption
    <3> QED
      BY <1>5, <3>1, <3>2, LooseWritten
  <2>3. ASSUME NEW c \in Caller, SwapRead(c) PROVE RefInv'
    <3>1. /\ UNCHANGED <<looseRef, packedRef, last, gc>> /\ raced \subseteq raced'
          /\ swap[c].pc = "wait"
      BY <2>3 DEF SwapRead
    <3>2. (\A d \in Caller \ {c} : swap'[d] = swap[d]) /\ ~Unlinked(c)'
      <4>1. CASE Current(swap[c].ref) = swap[c].old
        <5>1. swap' = [swap EXCEPT ![c] = [swap[c] EXCEPT !.pc = "write"]]
          BY <2>3, <4>1 DEF SwapRead
        <5> QED
          BY <1>0, <5>1 DEF SwapTypes, Unlinked
      <4>2. CASE Current(swap[c].ref) # swap[c].old
        BY <2>3, <4>2, DoneCaller DEF SwapRead
      <4> QED
        BY <4>1, <4>2
    <3>3. Deleting' = Deleting
      BY <3>1, <3>2, DeletingOf DEF Unlinked
    <3> QED
      BY <3>1, <3>3, SameRefs
  <2>4. ASSUME NEW c \in Caller, NEW r \in RefName, NEW o \in Obj \cup {0}, SwapBegin(c, r, o)
        PROVE  RefInv'
    <3>1. /\ UNCHANGED <<looseRef, packedRef, last, raced, gc>>
          /\ swap[c].pc = "idle" /\ swap'[c].pc = "wait"
          /\ \A d \in Caller \ {c} : swap'[d] = swap[d]
      BY <1>0, <2>4 DEF SwapBegin, NoSwap
    <3>2. Deleting' = Deleting
      BY <3>1, DeletingOf DEF Unlinked
    <3> QED
      BY <3>1, <3>2, SameRefs
  <2>5. ASSUME NEW o \in Obj, Write(o) PROVE RefInv'
    BY <1>1, <2>5 DEF Write
  <2>6. ASSUME NEW P \in SUBSET Obj, IngestPack(P) PROVE RefInv'
    BY <1>1, <2>6 DEF IngestPack
  <2> QED
    BY <1>2, <2>1, <2>3, <2>4, <2>5, <2>6, DeleteLooseKeepsRefs, ReadPackedKeepsRefs,
       DropPackedKeepsRefs, SwapWriteKeepsRefs DEF Commands
<1>3. CASE Housekeeping
  <2>1. ASSUME NEW g \in Collector, KeepRefs, \A h \in Collector \ {g} : gc'[h] = gc[h],
               gc'[g].pc \notin {"refs", "unloose"}
        PROVE  RefInv'
    BY <1>5, <2>1, SameRefs DEF KeepRefs, refFiles
  <2>2. ASSUME NEW g \in Collector, Expire(g) PROVE RefInv'
    <3>1. (\A h \in Collector \ {g} : gc'[h] = gc[h]) /\ gc'[g].pc = "roots"
      BY <1>0, <2>2 DEF Expire, Step, GcTypes
    <3> QED
      BY <2>1, <2>2, <3>1 DEF Expire
  <2>3. ASSUME NEW g \in Collector, NEW all \in BOOLEAN, NEW cleanup \in BOOLEAN,
               Enumerate(g, all, cleanup)
        PROVE  RefInv'
    <3>1. \A h \in Collector \ {g} : gc'[h] = gc[h]
      BY <1>0, <2>3 DEF Enumerate
    <3>2. gc'[g].pc \in {"idle", "pack", "packOnly"}
      BY <1>0, <2>3 DEF Enumerate, NoGc
    <3> QED
      BY <2>1, <2>3, <3>1, <3>2 DEF Enumerate
  <2>4. ASSUME NEW g \in Collector, WritePack(g) \/ WriteIdx(g) \/ CleanPack(g) \/ CleanLoose(g)
        PROVE  RefInv'
    <3>1. \A h \in Collector \ {g} : gc'[h] = gc[h]
      BY <1>0, <2>4 DEF WritePack, Step, WriteIdx, CleanPack, CleanLoose
    <3>2. CASE WritePack(g) \/ WriteIdx(g)
      <4>1. gc'[g].pc \in {"idx", "idxOnly", "idle", "clean"}
        <5>1. CASE WritePack(g)
          BY <1>0, <5>1 DEF WritePack, Step, GcTypes
        <5>2. CASE WriteIdx(g)
          BY <1>0, <5>2 DEF WriteIdx, NoGc, GcTypes
        <5> QED
          BY <3>2, <5>1, <5>2
      <4> QED
        BY <2>1, <3>1, <3>2, <4>1 DEF WritePack, WriteIdx
    <3>3. CASE CleanPack(g) \/ CleanLoose(g)
      <4>1. gc'[g].pc \in {"idle", "clean"}
        BY <1>0, <3>3 DEF CleanPack, CleanLoose, NoGc, GcTypes
      <4> QED
        BY <2>1, <3>1, <3>3, <4>1 DEF CleanPack, CleanLoose
    <3> QED
      BY <2>4, <3>2, <3>3
  <2> QED
    BY <1>3, <2>2, <2>3, <2>4, GcBeginKeepsRefs, WritePackedRefsKeepsRefs,
       RemoveLooseRefKeepsRefs DEF Housekeeping
<1>4. CASE ProcessEnds
  <2>1. ASSUME NEW g \in Collector, gc' = [gc EXCEPT ![g] = NoGc], KeepRefs PROVE RefInv'
    BY <1>0, <1>5, <2>1, SameRefs DEF KeepRefs, refFiles, NoGc
  <2>2. ASSUME swap' = [c \in Caller |-> NoSwap], raced' = raced \cup Deleting,
               UNCHANGED <<looseRef, packedRef, last, gc>>
        PROVE  RefInv'
    <3>1. Deleting' = {}
      BY <2>2 DEF Deleting, Unlinked, NoSwap
    <3> QED
      BY <2>2, <3>1, SameRefs
  <2> QED
    BY <1>4, <2>1, <2>2 DEF ProcessEnds
<1> QED
  BY <1>2, <1>3, <1>4 DEF DiskNext


-------------------------------------------------------------------------------
(* Callers of compareAndSwapRef wait for one another.                      *)

\* A step of nobody in line: a ref that is compared and not yet written reads the same
\* after it, or is raced.
LEMMA SameLine ==
    ASSUME DiskTypes, LineInv, UNCHANGED <<swap, queue>>, raced \subseteq raced',
           \A c \in Caller, r \in RefName \ raced' :
              swap[c].pc = "write" /\ swap[c].ref = r => Current(r)' = Current(r)
    PROVE  LineInv'
<1> SUFFICES ASSUME NEW c \in Caller PROVE SwapInv(c)'
  BY DEF LineInv
<1>1. SwapInv(c) /\ (swap[c].pc = "write" => swap[c].ref \in RefName)
  BY DEF LineInv, DiskTypes
<1>2. Deleting' = Deleting
  BY DEF Deleting, Unlinked
<1> QED
  BY <1>1, <1>2 DEF SwapInv

\* A caller goes on and leaves the lines as they are: so do the refs of the others that write.
LEMMA OtherLines ==
    ASSUME DiskTypes, LineInv, NEW c \in Caller, \A d \in Caller \ {c} : swap'[d] = swap[d],
           queue' = queue, raced \subseteq raced', SwapInv(c)',
           \A d \in Caller \ {c}, r \in RefName \ raced' :
              swap[d].pc = "write" /\ swap[d].ref = r =>
                 Current(r)' = Current(r) /\ (r \notin Deleting => r \notin Deleting')
    PROVE  LineInv'
<1> SUFFICES ASSUME NEW d \in Caller \ {c} PROVE SwapInv(d)'
  BY DEF LineInv
<1>1. SwapInv(d) /\ (swap[d].pc = "write" => swap[d].ref \in RefName)
  BY DEF LineInv, DiskTypes
<1> QED
  BY <1>1 DEF SwapInv

\* Who is done gives way to the next, if it stood first in a line; the others stay in line.
LEMMA NextInLine ==
    ASSUME DiskTypes, LineInv, NEW c \in Caller, swap[c].pc # "idle", Done(c),
           raced \subseteq raced',
           \A d \in Caller \ {c}, r \in RefName \ raced' :
              swap[d].pc = "write" /\ swap[d].ref = r => Current(r)' = Current(r)
    PROVE  LineInv'
<1> DEFINE s == swap[c].ref
           q == queue[s]
<1>1. s \in RefName /\ q \in Seq(Caller)
  BY DEF DiskTypes
<1>2. /\ swap'[c].pc = "idle" /\ ~Unlinked(c)'
      /\ \A d \in Caller \ {c} : swap'[d] = swap[d]
  BY DoneCaller
<1>3. /\ queue'[s] = IF q # <<>> /\ Head(q) = c THEN Tail(q) ELSE q
      /\ \A r \in RefName \ {s} : queue'[r] = queue[r]
  BY <1>1 DEF Done, DiskTypes
<1>4. Deleting' \subseteq Deleting
  BY <1>2, DeletingOf
<1> HIDE DEF s, q
<1> SUFFICES ASSUME NEW d \in Caller, d # c, swap[d].pc \in {"wait", "write"} PROVE SwapInv(d)'
  BY <1>2 DEF LineInv, SwapInv
<1>5. SwapInv(d) /\ swap'[d] = swap[d] /\ swap[d].ref \in RefName
  BY <1>2 DEF LineInv, DiskTypes
<1>6. CASE swap[d].ref # s \/ q = <<>> \/ Head(q) # c
  <2>1. queue'[swap[d].ref] = queue[swap[d].ref]
    BY <1>3, <1>5, <1>6 DEF q
  <2> QED
    BY <1>4, <1>5, <2>1 DEF SwapInv
<1>7. CASE swap[d].ref = s /\ q # <<>> /\ Head(q) = c
  <2>1. PICK n \in 1..Len(q) : q[n] = d
    BY <1>5, <1>7 DEF SwapInv, q
  <2>2. q[1] = c
    BY <1>1, <1>7
  <2>3. n # 1 /\ swap[d].pc # "write"
    BY <1>5, <1>7, <2>1, <2>2 DEF SwapInv, q
  <2>4. n - 1 \in 1..Len(Tail(q)) /\ Tail(q)[n - 1] = d
    BY <1>1, <1>7, <2>1, <2>3
  <2> QED
    BY <1>3, <1>5, <1>7, <2>3, <2>4 DEF SwapInv
<1> QED
  BY <1>6, <1>7

\* A caller gets in line behind the others.
LEMMA SwapBeginKeepsLine ==
    ASSUME DiskTypes, LineInv, NEW c \in Caller, NEW r \in RefName, NEW o \in Obj \cup {0},
           SwapBegin(c, r, o)
    PROVE  LineInv'
<1>0. swap \in [Caller -> SwapTypes]
  BY TypesAre
<1> DEFINE q == queue[r]
<1>1. q \in Seq(Caller)
  BY DEF DiskTypes
<1>2. /\ \A d \in Caller \ {c} : swap'[d] = swap[d]
      /\ swap[c].pc = "idle" /\ swap'[c].pc = "wait" /\ swap'[c].ref = r
  BY <1>0 DEF SwapBegin, NoSwap
<1>3. queue'[r] = Append(q, c) /\ \A x \in RefName \ {r} : queue'[x] = queue[x]
  BY DEF SwapBegin, DiskTypes
<1>4. UNCHANGED <<looseRef, packedRef, raced>> /\ Deleting' = Deleting
  BY <1>2, DeletingOf DEF SwapBegin, Unlinked
<1> HIDE DEF q
<1>5. /\ Len(Append(q, c)) = Len(q) + 1 /\ Append(q, c)[Len(q) + 1] = c
      /\ \A n \in 1..Len(q) : Append(q, c)[n] = q[n]
      /\ Len(q) \in Nat
  BY <1>1
<1> SUFFICES ASSUME NEW d \in Caller PROVE SwapInv(d)'
  BY DEF LineInv
<1>6. CASE d = c
  <2>1. Len(q) + 1 \in 1..Len(Append(q, c))
    BY <1>5
  <2> QED
    BY <1>2, <1>3, <1>5, <1>6, <2>1 DEF SwapInv
<1>7. CASE d # c
  <2>1. SwapInv(d) /\ swap'[d] = swap[d]
    BY <1>2, <1>7 DEF LineInv
  <2>2. CASE swap[d].pc \in {"wait", "write"} /\ swap[d].ref = r
    <3>1. PICK n \in 1..Len(q) : q[n] = d
      BY <2>1, <2>2 DEF SwapInv, q
    <3>2. n \in 1..Len(Append(q, c)) /\ Append(q, c)[n] = d /\ Append(q, c)[1] = q[1]
      BY <1>5, <3>1
    <3>3. (\E m \in 1..Len(queue'[r]) : queue'[r][m] = d) /\ queue'[r][1] = queue[r][1]
      BY <1>3, <3>2 DEF q
    <3>4. Current(r)' = Current(r)
      BY <1>4 DEF Current
    <3> HIDE DEF Current
    <3> QED
      BY <1>4, <2>1, <2>2, <3>3, <3>4 DEF SwapInv
  <2>3. CASE swap[d].pc \in {"wait", "write"} /\ swap[d].ref # r
    <3>1. queue'[swap[d].ref] = queue[swap[d].ref]
      BY <1>3, <2>3 DEF DiskTypes
    <3> QED
      BY <1>4, <2>1, <3>1 DEF SwapInv, Current
  <2>4. CASE swap[d].pc \notin {"wait", "write"}
    BY <2>1, <2>4 DEF SwapInv
  <2> QED
    BY <2>2, <2>3, <2>4
<1> QED
  BY <1>6, <1>7

\* A caller whose turn it is compares: it writes next, or is through.
LEMMA SwapReadKeepsLine ==
    ASSUME DiskTypes, LineInv, NEW c \in Caller, SwapRead(c)
    PROVE  LineInv'
<1>0. swap \in [Caller -> SwapTypes]
  BY TypesAre
<1> DEFINE s == swap[c].ref
<1>1. /\ UNCHANGED <<looseRef, packedRef>> /\ raced \subseteq raced'
      /\ s \in Deleting => s \in raced'
      /\ s \in RefName /\ swap[c].pc = "wait" /\ Turn(c)
  BY DEF SwapRead, DiskTypes
<1>2. \A r : Current(r)' = Current(r)
  BY <1>1 DEF Current
<1>3. CASE Current(s) = swap[c].old
  <2>1. swap' = [swap EXCEPT ![c] = [swap[c] EXCEPT !.pc = "write"]] /\ queue' = queue
    BY <1>3 DEF SwapRead
  <2>2. /\ \A d \in Caller \ {c} : swap'[d] = swap[d]
        /\ swap'[c].pc = "write" /\ swap'[c].ref = s /\ swap'[c].old = swap[c].old
    BY <1>0, <2>1 DEF SwapTypes
  <2>3. Deleting' = Deleting
    BY <1>1, <2>2, DeletingOf DEF Unlinked
  <2>4. SwapInv(c)'
    <3>1. PICK n \in 1..Len(queue[s]) : queue[s][n] = c
      BY <1>1 DEF LineInv, SwapInv
    <3>2. queue[s] \in Seq(Caller) /\ queue[s] # <<>>
      BY <1>1, <3>1 DEF DiskTypes
    <3>3. queue[s][1] = c
      BY <1>1, <3>2 DEF Turn
    <3> HIDE DEF s
    <3> QED
      BY <1>1, <1>2, <1>3, <2>1, <2>2, <2>3, <3>1, <3>3 DEF SwapInv
  <2> QED
    BY <1>1, <1>2, <2>1, <2>2, <2>3, <2>4, OtherLines
<1>4. CASE Current(s) # swap[c].old
  <2>1. Done(c)
    BY <1>4 DEF SwapRead
  <2> QED
    BY <1>1, <1>2, <2>1, NextInLine
<1> QED
  BY <1>3, <1>4

\* A caller that writes is the only one that does: the next is served when it is through.
LEMMA OneWrites ==
    ASSUME LineInv, NEW c \in Caller, NEW d \in Caller, swap[c].pc = "write",
           swap[d].pc = "write", swap[c].ref = swap[d].ref
    PROVE  c = d
BY DEF LineInv, SwapInv

LEMMA SwapWriteKeepsLine ==
    ASSUME DiskTypes, LineInv, NEW c \in Caller, SwapWrite(c)
    PROVE  LineInv'
<1>0. swap \in [Caller -> SwapTypes]
  BY TypesAre
<1> DEFINE s == swap[c].ref
<1>1. /\ s \in RefName /\ swap[c].pc = "write" /\ raced \subseteq raced'
      /\ packedRef' = packedRef /\ \A r \in RefName \ {s} : looseRef'[r] = looseRef[r]
  BY DEF SwapWrite, DiskTypes
<1>2. ASSUME NEW d \in Caller \ {c}, NEW r \in RefName, swap[d].pc = "write", swap[d].ref = r
      PROVE  r # s /\ Current(r)' = Current(r)
  <2>1. r # s
    BY <1>1, <1>2, OneWrites
  <2> QED
    BY <1>1, <2>1 DEF Current
<1>3. CASE swap[c].new = 0
  <2>1. swap' = [swap EXCEPT ![c] = [swap[c] EXCEPT !.pc = "read"]] /\ queue' = queue
    BY <1>3 DEF SwapWrite
  <2>2. /\ \A d \in Caller \ {c} : swap'[d] = swap[d]
        /\ swap'[c].pc = "read" /\ swap'[c].ref = s
    BY <1>0, <2>1 DEF SwapTypes
  <2>3. Deleting' \subseteq Deleting \cup {s}
    BY <2>2, DeletingOf
  <2>4. SwapInv(c)'
    BY <2>2 DEF SwapInv
  <2> HIDE DEF s
  <2>5. \A d \in Caller \ {c}, r \in RefName \ raced' :
           swap[d].pc = "write" /\ swap[d].ref = r =>
              Current(r)' = Current(r) /\ (r \notin Deleting => r \notin Deleting')
    BY <1>2, <2>3
  <2> QED
    BY <1>1, <2>1, <2>2, <2>4, <2>5, OtherLines
<1>4. CASE swap[c].new # 0
  <2>1. Done(c)
    BY <1>4 DEF SwapWrite
  <2> QED
    BY <1>1, <1>2, <2>1, NextInLine
<1> QED
  BY <1>3, <1>4

\* A ref that somebody is to write is raced when it is deleted meanwhile.
LEMMA DeleteLooseKeepsLine ==
    ASSUME DiskTypes, LineInv, NEW c \in Caller, NEW r \in RefName, DeleteLoose(c, r)
    PROVE  LineInv'
<1>0. swap \in [Caller -> SwapTypes]
  BY TypesAre
<1>1. /\ UNCHANGED <<packedRef, queue>> /\ raced \subseteq raced'
      /\ \A x \in RefName \ {r} : looseRef'[x] = looseRef[x]
  BY DEF DeleteLoose, Given, DiskTypes
<1>2. /\ \A d \in Caller \ {c} : swap'[d] = swap[d]
      /\ swap'[c].pc = "read" /\ swap'[c].ref = r
  BY <1>0 DEF DeleteLoose, NoSwap
<1>3. Deleting' \subseteq Deleting \cup {r}
  BY <1>2, DeletingOf
<1>4. SwapInv(c)'
  BY <1>2 DEF SwapInv
<1>5. ASSUME NEW d \in Caller, NEW x \in RefName \ raced', swap[d].pc = "write", swap[d].ref = x
      PROVE  Current(x)' = Current(x) /\ (x \notin Deleting => x \notin Deleting')
  <2>1. x # r
    BY <1>5 DEF DeleteLoose, Given, Busy
  <2> QED
    BY <1>1, <1>3, <2>1 DEF Current
<1> QED
  BY <1>1, <1>2, <1>4, <1>5, OtherLines

\* A deletion goes on: nobody is to write its ref, or that is raced.
LEMMA DeletionKeepsLine ==
    ASSUME DiskTypes, LineInv, NEW c \in Caller, ReadPacked(c) \/ DropPacked(c)
    PROVE  LineInv'
<1>0. swap \in [Caller -> SwapTypes]
  BY TypesAre
<1>1. /\ looseRef' = looseRef /\ raced \subseteq raced'
      /\ Unlinked(c) /\ swap[c].pc # "idle"
  BY DEF ReadPacked, DropPacked, Unlinked
<1>2. ASSUME NEW d \in Caller, NEW q \in RefName \ raced', swap[d].pc = "write", swap[d].ref = q
      PROVE  Current(q)' = Current(q)
  <2>1. CASE ReadPacked(c)
    BY <2>1 DEF ReadPacked, Current
  <2>2. CASE DropPacked(c)
    <3>1. q \notin Deleting
      BY <1>1, <1>2 DEF LineInv, SwapInv
    <3>2. q # swap[c].ref
      BY <1>1, <3>1 DEF Deleting
    <3>3. packedRef[q] = swap[c].seen[q]
      BY <2>2, <3>2 DEF DropPacked
    <3>4. swap[c].seen \in [RefName -> Oid]
      BY <1>0 DEF SwapTypes
    <3>5. packedRef'[q] = swap[c].seen[q]
      BY <2>2, <3>2, <3>4 DEF DropPacked
    <3> QED
      BY <1>1, <3>3, <3>5 DEF Current
  <2> QED
    BY <2>1, <2>2
<1>3. CASE Done(c)
  BY <1>1, <1>2, <1>3, NextInLine
<1>4. CASE swap' = [swap EXCEPT ![c].pc = "drop", ![c].seen = packedRef] /\ queue' = queue
  <2>1. swap' = [swap EXCEPT ![c] = [swap[c] EXCEPT !.pc = "drop", !.seen = packedRef]]
    BY <1>0, <1>4
  <2>2. /\ \A d \in Caller \ {c} : swap'[d] = swap[d]
        /\ swap'[c].pc = "drop" /\ swap'[c].ref = swap[c].ref
    BY <1>0, <2>1 DEF SwapTypes
  <2>3. Deleting' = Deleting
    BY <1>1, <2>2 DEF Deleting, Unlinked
  <2>4. SwapInv(c)'
    BY <2>2 DEF SwapInv
  <2> QED
    BY <1>1, <1>2, <1>4, <2>2, <2>3, <2>4, OtherLines
<1> QED
  BY <1>3, <1>4 DEF ReadPacked, DropPacked

\* Every step keeps the lines.
LEMMA LineInvStays ==
    ASSUME DiskAssumption, DiskTypes, RefInv, RefInv', LineInv, DiskNext
    PROVE  LineInv'
<1>1. ASSUME UNCHANGED <<looseRef, packedRef, swap, queue>>, raced \subseteq raced'
      PROVE  LineInv'
  BY <1>1, SameLine DEF Current
<1>2. ASSUME NEW c \in Caller, swap[c].pc = "write"
      PROVE  /\ swap[c].ref \in RefName
             /\ swap[c].ref \in raced \/ swap[c].ref \notin Deleting
  BY <1>2 DEF LineInv, SwapInv, DiskTypes
<1>3. CASE Commands
  <2>1. ASSUME NEW r \in RefName, NEW o \in Obj, WriteRef(r, o) PROVE LineInv'
    <3>1. /\ UNCHANGED <<packedRef, swap, queue>> /\ raced \subseteq raced'
          /\ \A x \in RefName \ {r} : looseRef'[x] = looseRef[x]
      BY <2>1 DEF WriteRef, Given, DiskTypes
    <3>2. ASSUME NEW c \in Caller, swap[c].pc = "write", swap[c].ref = r PROVE r \in raced'
      BY <2>1, <3>2 DEF WriteRef, Given, Busy
    <3> QED
      BY <1>2, <3>1, <3>2, SameLine DEF Current
  <2>2. ASSUME NEW o \in Obj, Write(o) PROVE LineInv'
    BY <1>1, <2>2 DEF Write, refFiles
  <2>3. ASSUME NEW P \in SUBSET Obj, IngestPack(P) PROVE LineInv'
    BY <1>1, <2>3, SMTT(40) DEF IngestPack, refFiles
  <2> QED
    BY <1>3, <2>1, <2>2, <2>3, SwapBeginKeepsLine, SwapReadKeepsLine, SwapWriteKeepsLine,
       DeleteLooseKeepsLine, DeletionKeepsLine DEF Commands
<1>4. CASE Housekeeping
  <2>1. ASSUME UNCHANGED <<last, swap, queue, raced>> PROVE LineInv'
    <3>1. Deleting' = Deleting
      BY <2>1 DEF Deleting, Unlinked
    <3>2. \A r \in RefName \ raced :
             r \notin Deleting => Current(r) = last[r] /\ Current(r)' = last[r]
      BY <2>1, <3>1 DEF RefInv, RefsAsWritten
    <3> QED
      BY <1>2, <2>1, <3>2, SameLine
  <2>2. ASSUME KeepRefs PROVE LineInv'
    BY <1>1, <2>2 DEF KeepRefs, refFiles
  <2>3. ASSUME NEW g \in Collector, GcBegin(g) PROVE LineInv'
    BY <1>1, <2>3 DEF GcBegin
  <2> QED
    BY <1>4, <2>1, <2>2, <2>3 DEF Housekeeping, WritePackedRefs, RemoveLooseRef, Expire,
                                  Enumerate, WritePack, WriteIdx, CleanPack, CleanLoose
<1>5. CASE ProcessEnds
  <2>1. CASE KeepRefs
    BY <1>1, <2>1 DEF KeepRefs, refFiles
  <2>2. CASE swap' = [c \in Caller |-> NoSwap]
    BY <2>2 DEF LineInv, SwapInv, NoSwap
  <2> QED
    BY <1>5, <2>1, <2>2 DEF ProcessEnds
<1> QED
  BY <1>3, <1>4, <1>5 DEF DiskNext

-------------------------------------------------------------------------------
(* The invariant holds.                                                    *)

LEMMA DiskInitInv ==
    ASSUME DiskAssumption, DiskInit
    PROVE  DiskInv
<1>1. DiskTypes
  <2>1. swap \in [Caller -> SwapTypes] /\ gc \in [Collector -> GcTypes]
    BY NothingTypes DEF DiskInit
  <2>2. NoValues \in [RefName -> Oid] /\ \A c \in Caller : swap[c].pc = "idle"
    BY DEF DiskInit, NoValues, NoSwap, Oid
  <2> QED
    BY <2>1, <2>2 DEF DiskInit, DiskTypes, SwapTypes, GcTypes, GcPlaces
<1>2. ObjectInv
  BY DEF DiskInit, ObjectInv, ObjectsStay, PackInv, NoGc
<1>3. RefInv
  <2>1. Deleting = {}
    BY DEF DiskInit, Deleting, Unlinked, NoSwap
  <2> QED
    BY <2>1 DEF DiskInit, RefInv, RefsAsWritten, Current, DeletionInv, ListingInv, NoGc
<1>4. LineInv
  BY DEF DiskInit, LineInv, SwapInv, NoSwap
<1> QED
  BY <1>1, <1>2, <1>3, <1>4 DEF DiskInv

LEMMA DiskInvStays ==
    ASSUME DiskAssumption, DiskInv, [DiskNext]_diskVars
    PROVE  DiskInv'
<1>1. CASE DiskNext
  <2>1. DiskTypes'
    BY <1>1, CommandsKeepTypes, HousekeepingKeepsTypes, EndsKeepTypes DEF DiskNext, DiskInv
  <2>2. ObjectInv' /\ RefInv'
    BY <1>1, ObjectInvStays, RefInvStays DEF DiskInv
  <2> QED
    BY <1>1, <2>1, <2>2, LineInvStays DEF DiskInv
<1>2. CASE UNCHANGED diskVars
  <2>1. DiskTypes' /\ ObjectInv'
    BY <1>2 DEF diskVars, objectFiles, refFiles, DiskInv, DiskTypes, ObjectInv, ObjectsStay,
                Stored, Packs, PackInv, InOnePack
  <2>2. RefInv'
    <3>1. Deleting' = Deleting
      BY <1>2 DEF diskVars, refFiles, Deleting, Unlinked
    <3> QED
      BY <1>2, <3>1, SameRefs DEF diskVars, refFiles, DiskInv
  <2>3. LineInv'
    BY <1>2, SameLine DEF diskVars, refFiles, DiskInv, Current
  <2> QED
    BY <2>1, <2>2, <2>3 DEF DiskInv
<1> QED
  BY <1>1, <1>2

\* A swap writes over the value it compared with: of the callers of one process the first
\* in line writes, and nobody else gives the ref a value, or deletes it, without its being
\* raced.
LEMMA SwapsFromExpected ==
    ASSUME DiskInv
    PROVE  SwapFromExpected
BY DEF SwapFromExpected, SwapWrite, DiskInv, LineInv, SwapInv

\* Any number of runs of gc and repack, of deletions and of swaps beside one another and
\* beside commands, each cut off anywhere: every object that was stored is on disk, every
\* ref that is not raced reads as it was last written or deleted, and a swap overwrites or
\* deletes the value it compared with.
THEOREM DiskKeepsAllHolds ==
    ASSUME DiskAssumption
    PROVE  DiskSpec => DiskKeepsAll
<1>1. DiskInit => DiskInv
  BY DiskInitInv
<1>2. DiskInv /\ [DiskNext]_diskVars => DiskInv'
  BY DiskInvStays
<1>3. DiskInv => ObjectsStay /\ RefsAsWritten
  BY DEF DiskInv, ObjectInv, RefInv
<1>4. DiskInv => SwapFromExpected
  BY SwapsFromExpected
<1> QED
  BY <1>1, <1>2, <1>3, <1>4, PTL DEF DiskSpec, DiskKeepsAll
===============================================================================
