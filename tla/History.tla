------------------------------- MODULE History --------------------------------
(***************************************************************************)
(* What the log is read from: the walks over commits in date and in        *)
(* topological order, the walk that keeps to a path, the counts and the    *)
(* names taken from them, and the names of revisions.  A history is a      *)
(* record: parents, the date and the content of the one watched path of    *)
(* every commit, the commits that are here (a shallow clone misses some).  *)
(***************************************************************************)
EXTENDS Integers, Sequences, SequencesExt, FiniteSetsExt

Kin(h, c, first) ==
    IF first /\ h.parents[c] # <<>> THEN <<h.parents[c][1]>> ELSE h.parents[c]

\* The heap: the newest first, of equals the one pushed first.
Newest(h, q) ==
    CHOOSE i \in DOMAIN q :
        \A j \in DOMAIN q : \/ h.date[q[i]] > h.date[q[j]]
                            \/ h.date[q[i]] = h.date[q[j]] /\ i <= j

\* The parents a walk goes on to.
Onward(h, c, seen, o) ==
    IF c \in o.shallow THEN <<>>
    ELSE SelectSeq(Kin(h, c, o.first), LAMBDA p : p \notin seen /\ p \in h.here)

RECURSIVE DateWalk(_, _, _, _, _)
DateWalk(h, q, seen, out, o) ==
    IF q = <<>> THEN out
    ELSE LET i == Newest(h, q)
             c == q[i]
             rest == RemoveAt(q, i)
         IN  IF c \in seen THEN DateWalk(h, rest, seen, out, o)
             ELSE IF Len(out) + 1 = o.limit THEN Append(out, c)
             ELSE DateWalk(h, rest \o Onward(h, c, seen \cup {c}, o), seen \cup {c},
                           Append(out, c), o)

Plain == [first |-> FALSE, shallow |-> {}, limit |-> -1]
Everything(h, from) == Range(DateWalk(h, from, {}, <<>>, Plain))

\* walkCommits: what exclude reaches is taken to be seen before.
WalkCommits(h, from, exclude, o) ==
    LET out == Everything(h, exclude)
    IN  DateWalk(h, SelectSeq(from, LAMBDA c : c \notin out), out, <<>>, o)

\* How often c is a parent of one of cs.
Children(h, c, cs, first) ==
    FoldLeft(LAMBDA n, x : n + Cardinality({i \in DOMAIN Kin(h, x, first) :
                                                     Kin(h, x, first)[i] = c}), 0, cs)

\* (Mutant: a parent is pushed with the first of its children.)
Ready_first(h, p, out, all, first) == p \in Range(all) /\ Children(h, p, out, first) = 1
\* The last child of p that is walked is out.
Ready(h, p, out, all, first) ==
    p \in Range(all) /\ Children(h, p, out, first) = Children(h, p, all, first)

\* Kahn's algorithm on a stack: a commit is pushed when its last child is out.
RECURSIVE Unstack(_, _, _, _, _)
Unstack(h, stack, out, all, first) ==
    IF stack = <<>> THEN out
    ELSE LET c == Last(stack)
             done == Append(out, c)
             ready == SelectSeq(Kin(h, c, first), LAMBDA p : Ready(h, p, done, all, first))
         IN  Unstack(h, Front(stack) \o ready, done, all, first)

\* The commits without a child start it, the newest on top.
TopoWalk(h, from, exclude, o) ==
    LET all == WalkCommits(h, from, exclude, [o EXCEPT !.limit = -1])
        tips == SelectSeq(all, LAMBDA c : Children(h, c, all, o.first) = 0)
    IN  Unstack(h, Reverse(tips), <<>>, all, o.first)

-------------------------------------------------------------------------------
(* Counts.                                                                 *)

CountAheadBehind(h, local, upstream) ==
    LET L == Everything(h, <<local>>)
        U == Everything(h, <<upstream>>)
    IN  [ahead |-> Cardinality(L \ U), behind |-> Cardinality(U \ L)]

\* What is lost when HEAD leaves start: not beyond a commit some ref reaches.
RECURSIVE Lost(_, _, _, _, _, _)
Lost(h, q, seen, kept, out, max) ==
    IF q = <<>> \/ Len(out) >= max THEN out
    ELSE LET i == Newest(h, q)
             c == q[i]
             rest == RemoveAt(q, i)
             new == SelectSeq(h.parents[c], LAMBDA p : p \notin seen \cup {c})
         IN  IF c \in seen THEN Lost(h, rest, seen, kept, out, max)
             ELSE IF c \in kept THEN Lost(h, rest, seen \cup {c}, kept, out, max)
             ELSE Lost(h, rest \o new, seen \cup {c}, kept, Append(out, c), max)

FindOrphanedCommits(h, start, tips, max) ==
    LET kept == IF tips = <<>> THEN {} ELSE Everything(h, tips)
    IN  IF start \in kept THEN <<>> ELSE Lost(h, <<start>>, {}, kept, <<>>, max)

-------------------------------------------------------------------------------
(* The walk for a path: at a merge that has the path as a parent has it,   *)
(* only that parent is followed.                                           *)

SameAs(h, c, p) == p \in h.here /\ h.tree[p] = h.tree[c]

\* Whether c is shown: a root for having the path, a commit whose parent is not
\* here always, a merge when it differs from every parent.
Shown(h, c, ps) ==
    IF ps = <<>> THEN h.tree[c] # 0 ELSE \A p \in Range(ps) : ~SameAs(h, c, p)

\* (Mutant: of the parents of a merge always the first.)
Followed_first(h, c, ps) == IF Len(ps) > 1 THEN <<ps[1]>> ELSE ps
Followed(h, c, ps) ==
    LET same == SelectSeq(ps, LAMBDA p : SameAs(h, c, p))
    IN  IF Len(ps) > 1 /\ same # <<>> THEN <<same[1]>> ELSE ps

RECURSIVE PathLoop(_, _, _, _, _)
PathLoop(h, q, seen, out, first) ==
    IF q = <<>> THEN out
    ELSE LET i == Newest(h, q)
             c == q[i]
             rest == RemoveAt(q, i)
             ps == Kin(h, c, first)
             new == SelectSeq(Followed(h, c, ps),
                              LAMBDA p : p \notin seen \cup {c} /\ p \in h.here)
         IN  IF c \in seen THEN PathLoop(h, rest, seen, out, first)
             ELSE PathLoop(h, rest \o new, seen \cup {c},
                           IF Shown(h, c, ps) THEN Append(out, c) ELSE out, first)

WalkCommitsSimplified(h, from, exclude, first) ==
    LET out == Everything(h, exclude)
    IN  PathLoop(h, SelectSeq(from, LAMBDA c : c \notin out), out, <<>>, first)

\* The commits a log of left..right or left...right shows.
MergeBases(h, l, r) ==
    LET C == Everything(h, <<l>>) \cap Everything(h, <<r>>)
    IN  {c \in C : \A d \in C \ {c} : c \notin Everything(h, <<d>>)}
LogRange(h, l, r, dots) ==
    IF dots = 2 THEN WalkCommits(h, <<r>>, <<l>>, Plain)
    ELSE WalkCommits(h, <<l, r>>, SetToSeq(MergeBases(h, l, r)), Plain)

\* The filter, --skip and --max-count of the log, and --reverse last.
Shortened(s, keep, skip, max, reverse) ==
    LET left == SelectSeq(s, LAMBDA c : c \in keep)
        cut == SubSeq(left, skip + 1, IF max < 0 THEN Len(left)
                                      ELSE IF skip + max < Len(left) THEN skip + max ELSE Len(left))
    IN  IF reverse THEN Reverse(cut) ELSE cut

-------------------------------------------------------------------------------
(* describe: the nearest commit with a tag, breadth first.                 *)

\* Of the tags of a commit the newest, then the first by name.
PickBestTag(tags) ==
    CHOOSE t \in tags : \A u \in tags : \/ t.time > u.time
                                        \/ t.time = u.time /\ t.name <= u.name

RECURSIVE Nearest(_, _, _, _, _, _)
Nearest(h, q, seen, tags, first, deepest) ==
    IF q = <<>> THEN {}
    ELSE LET c == Head(q).at
             d == Head(q).depth
             on == {t \in tags : t.on = c}
             ps == SelectSeq(Kin(h, c, first), LAMBDA p : p \notin seen \cup {c})
         IN  IF c \in seen THEN Nearest(h, Tail(q), seen, tags, first, deepest)
             ELSE IF deepest # -1 /\ d > deepest
                  THEN Nearest(h, Tail(q), seen \cup {c}, tags, first, deepest)
             ELSE IF on # {} THEN {[tag |-> PickBestTag(on), depth |-> d]}
             ELSE Nearest(h, Tail(q) \o (IF c \in h.here
                                         THEN [i \in DOMAIN ps |-> [at |-> ps[i], depth |-> d + 1]]
                                         ELSE <<>>),
                          seen \cup {c}, tags, first, deepest)

FindNearestTag(h, c, tags, first, deepest) ==
    Nearest(h, <<[at |-> c, depth |-> 0]>>, {}, tags, first, deepest)

\* A lightweight tag counts only with --tags, and is older than any other.
Candidates(refs, light) == {t \in refs : t.time > 0 \/ light}
===============================================================================
