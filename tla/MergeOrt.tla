------------------------------- MODULE MergeOrt -------------------------------
(***************************************************************************)
(* The merge of trees.  A tree is a function from paths to versions, a     *)
(* path a pair of a directory (a sequence) and a base name, a version a    *)
(* content and a mode.  Paths that one side alone changed are taken from   *)
(* it; renames are followed, those of files and those of directories; the  *)
(* rest is merged as text or left as a conflict with its stages.  There is *)
(* no merge driver here, and messages are left out.                        *)
(***************************************************************************)
EXTENDS Diff3, Renames, Functions

CONSTANT MaxCallDepth           \* MAX_MERGE_CALL_DEPTH, smaller

H == INSTANCE History

Regular == 1
Executable == 2
Symlink == 3

Stage(t, p) == IF p \in DOMAIN t THEN {t[p]} ELSE {}
The(S) == CHOOSE x \in S : TRUE
Entry(p, hash, mode, stage) == [path |-> p, hash |-> hash, mode |-> mode, stage |-> stage]
Flat(p, v, stage) == Entry(p, v.hash, v.mode, stage)
Conflicted(p, reason) == [path |-> p, reason |-> reason, ours |-> p, theirs |-> p]

\* Paths in the order of their names; the base names and directories are numbers.
Before(p, q) ==
    LET s == Append(p[1], p[2])
        t == Append(q[1], q[2])
        ends == {i \in 1..Min({Len(s), Len(t)}) : s[i] # t[i]}
    IN  IF ends = {} THEN Len(s) < Len(t) ELSE LET i == Min(ends) IN s[i] < t[i]
SortedPaths(P) == SetToSortSeq(P, Before)
AllPaths(T) == DOMAIN T.base \cup DOMAIN T.ours \cup DOMAIN T.theirs

\* The mode of a merged regular file: whichever side changed it; none for a link.
MergeFileMode(base, ours, theirs) ==
    IF {base, ours, theirs} \subseteq {Regular, Executable}
    THEN {IF ours = base THEN theirs ELSE ours} ELSE {}
ModeOr(b, o, t, mode) ==
    LET m == MergeFileMode(b.mode, o.mode, t.mode) IN IF m = {} THEN mode ELSE The(m)

-------------------------------------------------------------------------------
(* Contents.  A conflict is shown between marks, which are lines as well;  *)
(* a content with a 0 is binary.                                           *)

Binary(s) == 0 \in Range(s)
Marked(blocks) ==
    FlattenSeq([i \in DOMAIN blocks |->
        IF blocks[i].ok THEN blocks[i].lines
        ELSE <<-1>> \o blocks[i].a \o <<-2>> \o blocks[i].b \o <<-3>>])
RenderConflictMarkers(ours, base, theirs) == Marked(Diff3Merge(ours, base, theirs, FALSE, 0))
MergeTexts(base, ours, theirs) ==
    LET m == Diff3Merge(ours, base, theirs, FALSE, 0)
    IN  [hash |-> IF HasConflict(m) THEN Marked(m) ELSE Resolved(m, "a"), conflict |-> HasConflict(m)]

\* Two versions of one file against a third: a side that did not change gives way;
\* links and binary files are not merged.
MergeRenameContent(b, o, t) ==
    CASE o.hash = b.hash -> [hash |-> t.hash, conflict |-> FALSE]
      [] o.hash # b.hash /\ (t.hash = b.hash \/ o.hash = t.hash) -> [hash |-> o.hash, conflict |-> FALSE]
      [] OTHER -> IF Symlink \in {b.mode, o.mode, t.mode} \/ Binary(b.hash \o o.hash \o t.hash)
                  THEN [hash |-> o.hash, conflict |-> TRUE]
                  ELSE MergeTexts(b.hash, o.hash, t.hash)

-------------------------------------------------------------------------------
(* Phase 1: what a path was in the base and is on both sides, and the      *)
(* paths this settles.  A path is done when nothing is left to decide.     *)

Settled(v) == [done |-> TRUE, keep |-> v, base |-> {}, ours |-> {}, theirs |-> {}]
Open(b, o, t) == [done |-> FALSE, keep |-> {}, base |-> b, ours |-> o, theirs |-> t]

\* Versions are the same when blob and mode are; two absent ones are the same.
TriviallyResolve(b, o, t) ==
    CASE o = t \/ t = b -> Settled(o)
      [] o # t /\ t # b /\ o = b -> Settled(t)
      [] OTHER -> Open(b, o, t)

CollectMergeInfo(T) ==
    [p \in AllPaths(T) |-> TriviallyResolve(Stage(T.base, p), Stage(T.ours, p), Stage(T.theirs, p))]

-------------------------------------------------------------------------------
(* Phase 2: renames.  What it makes of them: entries, conflicts, the blobs *)
(* that stand for conflicts in the worktree, the paths it leaves to phase  *)
(* 3 with the versions to merge there, and those it took care of.  A side  *)
(* is 2, ours, or 3, theirs, as its stage.                                 *)

Nothing == [entries |-> <<>>, conflicts |-> <<>>, blobs |-> <<>>, todo |-> <<>>, handled |-> {}]

Put(out, p, entries) == [out EXCEPT !.entries = @ \o entries, !.handled = @ \cup {p}]
Conflict2(out, conflicts) == [out EXCEPT !.conflicts = @ \o conflicts]
Blob(out, p, hash, mode) == [out EXCEPT !.blobs = (p :> [hash |-> hash, mode |-> mode]) @@ @]
Later(out, p, b, o, t) ==
    [out EXCEPT !.todo = (p :> Open({b}, {o}, {t})) @@ @, !.handled = @ \cup {p}]

\* The deleted and added paths of a side, and the pairs among them.
DiffsOf(T, side) ==
    LET entry(status, p, t) == [status |-> status, path |-> p, old |-> t[p].hash, new |-> t[p].hash]
        all(status, P, t) == LET s == SortedPaths(P) IN [i \in DOMAIN s |-> entry(status, s[i], t)]
        t == IF side = 2 THEN T.ours ELSE T.theirs
    IN  all("deleted", DOMAIN T.base \ DOMAIN t, T.base) \o all("added", DOMAIN t \ DOMAIN T.base, t)
RenamesOf(T, side) == DetectRenames(DiffsOf(T, side)).renames
NewPaths(renames) == {r.to.path : r \in Range(renames)}
Target(renames, p) == {r.to.path : r \in {x \in Range(renames) : x.from.path = p}}

\* Both sides added p: the stages, and their merge without a base in the worktree.
AddAdd(out, p, o, t) ==
    Blob(Put(Conflict2(out, <<Conflicted(p, "add-add")>>), p, <<Flat(p, o, 2), Flat(p, t, 3)>>),
         p, RenderConflictMarkers(o.hash, <<>>, t.hash), o.mode)

\* Both sides renamed the file, to the same path or to two.
RenamedByBoth(T, out, p, to2, to3) ==
    LET b == T.base[p]
        o == T.ours[to2]
        t == T.theirs[to3]
        m == MergeRenameContent(b, o, t)
        mode2 == ModeOr(b, o, t, o.mode)
        mode3 == ModeOr(b, o, t, t.mode)
        apart == [path |-> p, reason |-> "rename-rename", ours |-> to2, theirs |-> to3]
    IN  IF to2 = to3
        THEN IF o.hash = t.hash THEN Put(out, to2, <<Entry(to2, o.hash, mode2, 0)>>)
             ELSE Later(out, to2, b, o, t)
        ELSE LET put == Put(Conflict2(out, <<apart>>), to2,
                            <<Flat(p, b, 1), Entry(to2, m.hash, mode2, 2), Entry(to3, m.hash, mode3, 3)>>)
             IN  Blob(Blob([put EXCEPT !.handled = @ \cup {to3}], to2, m.hash, mode2), to3, m.hash, mode3)

\* One side renamed the file, the other deleted it, or has another one in its new place.
RenamedAndDeleted(T, out, p, to, side) ==
    LET b == T.base[p]
        mine == (IF side = 2 THEN T.ours ELSE T.theirs)[to]
        there == Stage(IF side = 2 THEN T.theirs ELSE T.ours, to)
        told == Conflict2(out, <<Conflicted(to, "rename-delete")>>)
    IN  IF there # {}
        THEN IF side = 2 THEN AddAdd(told, to, mine, The(there)) ELSE AddAdd(told, to, The(there), mine)
        ELSE Blob(Put(told, to, <<Entry(to, b.hash, b.mode, 1), Flat(to, mine, side)>>),
                  to, mine.hash, mine.mode)

\* One side renamed the file to where the other added one: the file is merged under its
\* old name, and the result meets the other one.
HandleRenameAddAdd(T, out, p, to, side) ==
    LET b == T.base[p]
        mine == (IF side = 2 THEN T.ours ELSE T.theirs)[to]
        other == (IF side = 2 THEN T.theirs ELSE T.ours)[p]
        there == (IF side = 2 THEN T.theirs ELSE T.ours)[to]
        m == IF side = 2 THEN MergeRenameContent(b, mine, other) ELSE MergeRenameContent(b, other, mine)
        v == [hash |-> m.hash, mode |-> mine.mode]
    IN  IF there.hash \in {mine.hash, m.hash} THEN Put(out, to, <<Entry(to, there.hash, there.mode, 0)>>)
        ELSE IF side = 2 THEN AddAdd(out, to, v, there) ELSE AddAdd(out, to, there, v)

\* One side renamed the file, the other has it where it was.
RenamedByOne(T, out, p, to, side) ==
    LET b == T.base[p]
        mine == (IF side = 2 THEN T.ours ELSE T.theirs)[to]
        other == (IF side = 2 THEN T.theirs ELSE T.ours)[p]
        o == IF side = 2 THEN mine ELSE other
        t == IF side = 2 THEN other ELSE mine
        mode == ModeOr(b, o, t, mine.mode)
    IN  IF other.hash = b.hash THEN Put(out, to, <<Entry(to, mine.hash, mode, 0)>>)
        ELSE IF mine.hash = b.hash THEN Put(out, to, <<Entry(to, other.hash, mode, 0)>>)
        ELSE Later(out, to, b, o, t)

RenameStep(T, ours, theirs, out, p) ==
    LET to2 == Target(ours, p)
        to3 == Target(theirs, p)
        side == IF to2 # {} THEN 2 ELSE 3
        to == The(to2 \cup to3)
        other == IF side = 2 THEN T.theirs ELSE T.ours
        seen == [out EXCEPT !.handled = @ \cup {p}]
    IN  CASE to2 = {} /\ to3 = {} -> out
          [] to2 # {} /\ to3 # {} -> RenamedByBoth(T, seen, p, The(to2), The(to3))
          [] OTHER -> IF p \notin DOMAIN other THEN RenamedAndDeleted(T, seen, p, to, side)
                      ELSE IF to \in DOMAIN other THEN HandleRenameAddAdd(T, seen, p, to, side)
                      ELSE RenamedByOne(T, seen, p, to, side)

-------------------------------------------------------------------------------
(* Phase 2b: directories.  One that is in the base and not on a side was   *)
(* renamed by it to where most of its files went, and takes along what the *)
(* other side added in it.                                                 *)

DirsOf(t) == UNION {{SubSeq(p[1], 1, k) : k \in 1..Len(p[1])} : p \in DOMAIN t}
RemovedDirs(base, t) == DirsOf(base) \ DirsOf(t)

\* Those the opposite side added a file in, directly, and the removed ones above them.
RelevantRemovedDirs(removed, opposite, base) ==
    LET direct == {p[1] : p \in DOMAIN opposite \ DOMAIN base} \cap removed
    IN  {d \in removed : \E e \in direct : IsPrefix(d, e)}

\* A rename counts for its directory, and for those above as long as the names left
\* behind are the same.
CountedFor(r) ==
    LET o == r.from.path[1]
        n == r.to.path[1]
        ks == {k \in 0..Min({Len(o), Len(n)}) :
                 \A j \in 0..(k - 1) : o[Len(o) - j] = n[Len(n) - j]}
    IN  {<<SubSeq(o, 1, Len(o) - k), SubSeq(n, 1, Len(n) - k)>> : k \in ks}

\* The directory most files of d went to, when no other has as many.
DirRenames(renames, dirs) ==
    LET counted(d, e) == Cardinality({i \in DOMAIN renames : <<d, e>> \in CountedFor(renames[i])})
        goals(d) == {x[2] : x \in {y \in UNION {CountedFor(r) : r \in Range(renames)} : y[1] = d}}
        best(d) == {e \in goals(d) : \A f \in goals(d) \ {e} : counted(d, f) < counted(d, e)}
    IN  [d \in {x \in dirs : best(x) # {}} |-> The(best(d))]

\* The longest part of p's directory that was renamed; none into a directory the other
\* side renamed.
ApplyDirRename(p, moved, excluded) ==
    LET above == {k \in 1..Len(p[1]) : SubSeq(p[1], 1, k) \in DOMAIN moved}
        k == Max(above)
        to == moved[SubSeq(p[1], 1, k)]
    IN  IF above = {} \/ to \in excluded THEN {}
        ELSE {<<to \o SubSeq(p[1], k + 1, Len(p[1])), p[2]>>}

\* A file a side added in a directory the other one renamed goes there, as a conflict;
\* not when its own side has something there.
MoveAdded(T, out, p, to, side) ==
    LET mine == (IF side = 2 THEN T.ours ELSE T.theirs)
        v == mine[p]
        other == IF side = 2 THEN T.theirs ELSE T.ours
        there == IF Stage(other, to) # {} THEN Stage(other, to) ELSE Stage(T.base, to)
        at == IF there = {} THEN <<>> ELSE <<Flat(to, The(there), 5 - side)>>
        stages == IF side = 2 THEN <<Flat(to, v, 2)>> \o at ELSE at \o <<Flat(to, v, 3)>>
        reason == IF there = {} THEN "directory-rename" ELSE "add-add"
        put == Blob(Put(Conflict2(out, <<Conflicted(to, reason)>>), p, stages), to, v.hash, v.mode)
    IN  IF to \in DOMAIN mine THEN out
        ELSE [put EXCEPT !.todo = (p :> Settled({})) @@ @]

MoveAllAdded(T, out, side, renames, moved, excluded) ==
    LET added == SelectSeq(DiffsOf(T, side), LAMBDA d : d.status = "added" /\ d.path \notin NewPaths(renames))
        step(o, d) == LET to == ApplyDirRename(d.path, moved, excluded)
                      IN  IF to = {} THEN o ELSE MoveAdded(T, o, d.path, The(to), side)
    IN  FoldLeft(step, out, added)

\* The directories each side renamed; one that both renamed stays where it is.
DirectoryMoves(T, ours, theirs) ==
    LET all2 == DirRenames(ours, RelevantRemovedDirs(RemovedDirs(T.base, T.ours), T.theirs, T.base))
        all3 == DirRenames(theirs, RelevantRemovedDirs(RemovedDirs(T.base, T.theirs), T.ours, T.base))
    IN  [ours |-> Restrict(all2, DOMAIN all2 \ DOMAIN all3),
         theirs |-> Restrict(all3, DOMAIN all3 \ DOMAIN all2)]

DetectAndProcessRenames(T) ==
    LET ours == RenamesOf(T, 2)
        theirs == RenamesOf(T, 3)
        files == FoldLeft(LAMBDA out, p : RenameStep(T, ours, theirs, out, p), Nothing,
                          SortedPaths(DOMAIN T.base))
        moved == DirectoryMoves(T, ours, theirs)
    IN  IF ours = <<>> /\ theirs = <<>> THEN Nothing
        ELSE MoveAllAdded(T, MoveAllAdded(T, files, 2, ours, moved.theirs, DOMAIN moved.ours),
                          3, theirs, moved.ours, DOMAIN moved.theirs)

\* (Mutant: what phase 2 set up for a merge of contents is taken for done.)
Gone_setUp(out, info, p) == p \in {e.path : e \in Range(out.entries)} \cup out.handled
\* The paths phase 3 leaves alone: those that have entries already, and of those phase 2
\* took care of the ones that are neither settled nor set up for a merge.
Gone(out, info, p) ==
    \/ p \in {e.path : e \in Range(out.entries)}
    \/ p \in out.handled /\ p \notin DOMAIN out.todo /\ ~info[p].done

LeftOver(T, out) ==
    LET info == out.todo @@ CollectMergeInfo(T)
    IN  [p \in DOMAIN info |-> IF Gone(out, info, p) THEN Settled({}) ELSE info[p]]

-------------------------------------------------------------------------------
(* Phase 3: one path after the other.                                      *)

\* One side deleted the file, the other changed it.
DeletedAndModified(out, p, b, v, side) ==
    Blob(Put(Conflict2(out, <<Conflicted(p, "delete-modify")>>), p, <<Flat(p, b, 1), Flat(p, v, side)>>),
         p, v.hash, v.mode)

\* Both added a file: ours keeps its mode, and another mode alone is a conflict too.
BothAdded(out, p, o, t) ==
    LET modes == o.mode # t.mode /\ {o.mode, t.mode} = {Regular, Executable}
        m == IF o.hash = t.hash THEN [hash |-> o.hash, conflict |-> FALSE]
             ELSE IF Binary(o.hash \o t.hash) THEN [hash |-> o.hash, conflict |-> TRUE]
             ELSE MergeTexts(<<>>, o.hash, t.hash)
    IN  IF m.conflict \/ modes
        THEN Blob(Put(Conflict2(out, <<Conflicted(p, "add-add")>>), p, <<Flat(p, o, 2), Flat(p, t, 3)>>),
                  p, m.hash, o.mode)
        ELSE Put(out, p, <<Entry(p, m.hash, o.mode, 0)>>)

\* All three have the file.
BothModified(out, p, b, o, t) ==
    LET m == MergeRenameContent(b, o, t)
        link == Symlink \in {b.mode, o.mode, t.mode}
        mode == IF o.hash = b.hash THEN ModeOr(b, o, t, t.mode) ELSE ModeOr(b, o, t, o.mode)
    IN  IF ~m.conflict THEN Put(out, p, <<Entry(p, m.hash, mode, 0)>>)
        ELSE Blob(Put(Conflict2(out, <<Conflicted(p, "content")>>), p,
                      <<Flat(p, b, 1), Flat(p, o, 2), Flat(p, t, 3)>>),
                  p, m.hash, IF link THEN o.mode ELSE mode)

ProcessEntry(out, p, ci) ==
    LET b == The(ci.base)  o == The(ci.ours)  t == The(ci.theirs)
    IN  CASE ci.done -> IF ci.keep = {} THEN out ELSE Put(out, p, <<Flat(p, The(ci.keep), 0)>>)
          [] ~ci.done /\ ci.ours = {} -> DeletedAndModified(out, p, b, t, 3)
          [] ~ci.done /\ ci.theirs = {} -> DeletedAndModified(out, p, b, o, 2)
          [] ~ci.done /\ ci.ours # {} /\ ci.theirs # {} ->
                IF ci.base = {} THEN BothAdded(out, p, o, t) ELSE BothModified(out, p, b, o, t)

\* The tree the worktree is set to: the clean entries, and what stands for the others.
ResultTree(out) ==
    LET clean == SelectSeq(out.entries, LAMBDA e : e.stage = 0)
        rest == SortedPaths(DOMAIN out.blobs \ {e.path : e \in Range(clean)})
    IN  clean \o [i \in DOMAIN rest |-> Flat(rest[i], out.blobs[rest[i]], 0)]

MergeOrtNonRecursive(base, ours, theirs) ==
    LET T == [base |-> base, ours |-> ours, theirs |-> theirs]
        renamed == DetectAndProcessRenames(T)
        info == LeftOver(T, renamed)
    IN  FoldLeft(LAMBDA out, p : ProcessEntry(out, p, info[p]), renamed, SortedPaths(DOMAIN info))

-------------------------------------------------------------------------------
(* The base of a criss-cross merge: the bases are merged one after the     *)
(* other, the oldest first, and what conflicts is settled for the purpose. *)

\* A tree read back from its entries: of two for one path the later counts.
TreeOf(entries) ==
    FoldLeft(LAMBDA t, e : (e.path :> [hash |-> e.hash, mode |-> e.mode]) @@ t, <<>>, entries)

Staged(out, p, stage) ==
    LET s == SelectSeq(out.entries, LAMBDA e : e.path = p /\ e.stage = stage)
    IN  IF s = <<>> THEN {} ELSE {Last(s)}

\* What one conflict leaves in the virtual base.
Virtual(out, c) ==
    LET base == Staged(out, c.path, 1)
        o == Staged(out, c.ours, 2)
        t == Staged(out, c.theirs, 3)
        at(p, e, hash) == Entry(p, hash, e.mode, 0)
        text(S) == IF S = {} THEN <<>> ELSE The(S).hash
        marks == RenderConflictMarkers(text(o), text(IF c.reason = "add-add" THEN {} ELSE base), text(t))
    IN  CASE c.reason \in {"delete-modify", "rename-delete"} /\ base # {} ->
                <<at(c.path, The(base), text(base))>>
          [] c.reason = "rename-rename" /\ o # {} /\ t # {} ->
                <<at(c.ours, The(o), marks), at(c.theirs, The(t), marks)>>
          [] c.reason \in {"content", "add-add"} /\ o # {} /\ t # {} -> <<at(c.path, The(o), marks)>>
          [] OTHER -> IF o # {} THEN <<at(c.ours, The(o), text(o))>>
                      ELSE IF t # {} THEN <<at(c.theirs, The(t), text(t))>> ELSE <<>>

ResolveVirtualBaseConflicts(out) ==
    SelectSeq(out.entries, LAMBDA e : e.stage = 0)
        \o FlattenSeq([i \in DOMAIN out.conflicts |-> Virtual(out, out.conflicts[i])])

\* h is a history whose commits have trees; the virtual commits are added to it.
OldestFirst(h, bases) ==
    SetToSortSeq(bases, LAMBDA c, d : h.date[c] < h.date[d] \/ (h.date[c] = h.date[d] /\ c < d))
WithVirtual(h, parents, tree) ==
    [h EXCEPT !.parents = Append(@, parents), !.date = Append(@, 0), !.tree = Append(@, 0),
              !.trees = Append(@, tree), !.here = @ \cup {Len(h.parents) + 1}]

\* (Mutant: the bases of the bases are never asked for.)
TooDeep_atOnce(depth) == TRUE
\* Too many levels of bases: the first base has to do.
TooDeep(depth) == depth >= MaxCallDepth

RECURSIVE VirtualBase(_, _, _), MergeBasesInto(_, _, _, _)
\* The tree of the merge base of commits c and d, none for unrelated ones.
VirtualBase(h, cd, depth) ==
    LET bases == OldestFirst(h, H!MergeBases(h, cd[1], cd[2]))
    IN  IF bases = <<>> THEN <<>>
        ELSE IF Len(bases) = 1 THEN h.trees[bases[1]]
        ELSE MergeBasesInto(h, bases[1], Tail(bases), depth)
\* The bases left are merged into commit c.
MergeBasesInto(h, c, left, depth) ==
    IF left = <<>> THEN h.trees[c]
    ELSE LET inner == IF TooDeep(depth) THEN h.trees[c] ELSE VirtualBase(h, <<c, left[1]>>, depth + 1)
             out == MergeOrtNonRecursive(inner, h.trees[c], h.trees[left[1]])
             tree == TreeOf(ResolveVirtualBaseConflicts(out))
         IN  MergeBasesInto(WithVirtual(h, <<c, left[1]>>, tree), Len(h.parents) + 1, Tail(left), depth)

MergeOrtRecursive(h, ours, theirs) ==
    MergeOrtNonRecursive(VirtualBase(h, <<ours, theirs>>, 1), h.trees[ours], h.trees[theirs])
===============================================================================
