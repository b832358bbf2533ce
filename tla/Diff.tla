---------------------------------- MODULE Diff --------------------------------
(***************************************************************************)
(* The line diff: ends trimmed, lines without a partner discarded, the     *)
(* middle snake found from both sides, the groups of changes slid up and   *)
(* down, and the edit script cut into hunks.  Lines are numbered from 0; a *)
(* set of changed lines stands for the flags of a file.                    *)
(***************************************************************************)
EXTENDS Integers, Sequences, SequencesExt, FiniteSetsExt

CONSTANTS
    SnakeCnt, HeurMin, MaxCost, \* SNAKE_CNT, HEUR_MIN_COST and MAX_COST_MIN, smaller
    KHeur                       \* K_HEUR, smaller

At(s, i) == s[i + 1]
Least(S) == CHOOSE i \in S : \A j \in S : i <= j
Greatest(S) == CHOOSE i \in S : \A j \in S : i >= j
Smaller(i, j) == IF i < j THEN i ELSE j
Bigger(i, j) == IF i < j THEN j ELSE i

\* How far two texts agree from i1 and i2 on, and back from there.
Run(a, b, i1, i2, lim1, lim2) ==
    Greatest({k \in 0..Bigger(0, Smaller(lim1 - i1, lim2 - i2)) :
                \A j \in 0..(k - 1) : At(a, i1 + j) = At(b, i2 + j)})
RunBack(a, b, i1, i2, off1, off2) ==
    Greatest({k \in 0..Bigger(0, Smaller(i1 - off1, i2 - off2)) :
                \A j \in 1..k : At(a, i1 - j) = At(b, i2 - j)})

-------------------------------------------------------------------------------
(* trimEnds and cleanupRecords.                                            *)

Bogosqrt(n) == Least({i \in 1..(n + 1) : i * i >= n})
Occurs(x, s) == Cardinality({i \in DOMAIN s : s[i] = x})

\* What cleanupRecords first thinks of line i of a.
Action(a, b, i) ==
    LET matches == Occurs(At(a, i), b)
    IN  IF matches = 0 THEN "discard"
        ELSE IF matches >= Bogosqrt(Len(a)) THEN "investigate" ELSE "keep"

\* A line with many partners goes where most of those around it go.
CleanMmatch(a, b, i, s, e) ==
    LET weak(j) == Action(a, b, j) # "keep"
        up == {j \in s..(i - 1) : \A k \in j..(i - 1) : weak(k)}
        down == {j \in (i + 1)..e : \A k \in (i + 1)..j : weak(k)}
        gone(S) == Cardinality({j \in S : Action(a, b, j) = "discard"})
        some(S) == Cardinality({j \in S : Action(a, b, j) = "investigate"})
        few == 2 + some(up) + some(down)
    IN  gone(up) > 0 /\ gone(down) > 0 /\ few * 4 < few + gone(up) + gone(down)

\* The lines of a between s and e that are left to the search.
Referenced(a, b, s, e) ==
    {i \in s..e : \/ Action(a, b, i) = "keep"
                  \/ Action(a, b, i) = "investigate" /\ ~CleanMmatch(a, b, i, s, e)}

-------------------------------------------------------------------------------
(* splitMidSnake: two searches meet on a diagonal.                         *)

Diagonals(lo, hi) == {d \in lo..hi : (hi - d) % 2 = 0}

\* Where the searches enter diagonal d, and how far they slide on it.
Enter(f, d) == IF f[d - 1] >= f[d + 1] THEN f[d - 1] + 1 ELSE f[d + 1]
Forward(a, b, f, d, lim1, lim2) == Run(a, b, Enter(f, d), Enter(f, d) - d, lim1, lim2)
EnterBack(g, d) == IF g[d - 1] < g[d + 1] THEN g[d - 1] ELSE g[d + 1] - 1
Backward(a, b, g, d, off1, off2) == RunBack(a, b, EnterBack(g, d), EnterBack(g, d) - d, off1, off2)

\* The two searches have met on diagonal d.
Meets(g, d, i) == g[d] <= i

Far == 1000

\* Where the search stops after MaxCost rounds although nothing has met: on the diagonal
\* that came furthest forward, or furthest back.
CutOff(f, g, fD, gD, box) ==
    LET fx(d) == LET i == Smaller(f[d], box.lim1) IN IF box.lim2 < i - d THEN box.lim2 + d ELSE i
        gx(d) == LET i == Bigger(box.off1, g[d]) IN IF i - d < box.off2 THEN box.off2 + d ELSE i
        fsum(d) == 2 * fx(d) - d
        gsum(d) == 2 * gx(d) - d
        fb == Greatest({d \in fD : \A e \in fD : fsum(d) >= fsum(e)})
        gb == Greatest({d \in gD : \A e \in gD : gsum(d) <= gsum(e)})
    IN  IF box.lim1 + box.lim2 - gsum(gb) < fsum(fb) - (box.off1 + box.off2)
        THEN [i1 |-> fx(fb), i2 |-> fx(fb) - fb, minLo |-> TRUE, minHi |-> FALSE]
        ELSE [i1 |-> gx(gb), i2 |-> gx(gb) - gb, minLo |-> FALSE, minHi |-> TRUE]

\* Diagonals on which a long snake has come far enough to be taken for the middle, those
\* that came furthest.
Furthest(D, v(_)) == {d \in D : \A e \in D : v(d) >= v(e)}
Off(d, mid) == Bigger(d - mid, mid - d)
GoodForward(a, b, f, fD, ec, box) ==
    LET v(d) == f[d] - box.off1 + (f[d] - d - box.off2) - Off(d, box.off1 - box.off2)
    IN  Furthest({d \in fD :
            LET i1 == f[d] i2 == f[d] - d
            IN  /\ v(d) > KHeur * ec
                /\ box.off1 + SnakeCnt <= i1 /\ i1 < box.lim1
                /\ box.off2 + SnakeCnt <= i2 /\ i2 < box.lim2
                /\ \A k \in 1..SnakeCnt : At(a, i1 - k) = At(b, i2 - k)}, v)
GoodBackward(a, b, g, gD, ec, box) ==
    LET v(d) == box.lim1 - g[d] + (box.lim2 - (g[d] - d)) - Off(d, box.lim1 - box.lim2)
    IN  Furthest({d \in gD :
            LET i1 == g[d] i2 == g[d] - d
            IN  /\ v(d) > KHeur * ec
                /\ box.off1 < i1 /\ i1 <= box.lim1 - SnakeCnt
                /\ box.off2 < i2 /\ i2 <= box.lim2 - SnakeCnt
                /\ \A k \in 0..(SnakeCnt - 1) : At(a, i1 + k) = At(b, i2 + k)}, v)

\* One diagonal more on every side, or one less where the box ends; the new one is walled in.
Widened(f, lo, hi, box, far) ==
    LET wider == lo > box.off1 - box.lim2
        higher == hi < box.lim1 - box.off2
        min == IF wider THEN lo - 1 ELSE lo + 1
        max == IF higher THEN hi + 1 ELSE hi - 1
    IN  [min |-> min, max |-> max, on |-> Diagonals(min, max),
         at |-> [d \in DOMAIN f |-> IF (wider /\ d = min - 1) \/ (higher /\ d = max + 1) THEN far
                                    ELSE f[d]]]

RECURSIVE Rounds(_, _, _, _, _)
Rounds(a, b, box, needMin, s) ==
    LET odd == ((box.off1 - box.off2) - (box.lim1 - box.lim2)) % 2 = 1
        F == Widened(s.f, s.fmin, s.fmax, box, -1)
        slid == [d \in F.on |-> Forward(a, b, F.at, d, box.lim1, box.lim2)]
        f == [d \in DOMAIN s.f |-> IF d \in F.on THEN Enter(F.at, d) + slid[d] ELSE F.at[d]]
        fHit == {d \in F.on : odd /\ s.bmin <= d /\ d <= s.bmax /\ Meets(s.g, d, f[d])}
        G == Widened(s.g, s.bmin, s.bmax, box, Far)
        back == [d \in G.on |-> Backward(a, b, G.at, d, box.off1, box.off2)]
        g == [d \in DOMAIN s.g |-> IF d \in G.on THEN EnterBack(G.at, d) - back[d] ELSE G.at[d]]
        gHit == {d \in G.on : ~odd /\ F.min <= d /\ d <= F.max /\ g[d] <= f[d]}
        Mid(i1, d) == [i1 |-> i1, i2 |-> i1 - d, minLo |-> TRUE, minHi |-> TRUE]
        hurry == /\ ~needMin /\ s.ec > HeurMin
                 /\ {d \in F.on : slid[d] > SnakeCnt} \cup {d \in G.on : back[d] > SnakeCnt} # {}
        goodF == GoodForward(a, b, f, F.on, s.ec, box)
        goodB == GoodBackward(a, b, g, G.on, s.ec, box)
    IN  IF fHit # {} THEN Mid(f[Greatest(fHit)], Greatest(fHit))
        ELSE IF gHit # {} THEN Mid(g[Greatest(gHit)], Greatest(gHit))
        ELSE IF hurry /\ goodF # {} THEN [Mid(f[Greatest(goodF)], Greatest(goodF)) EXCEPT !.minHi = FALSE]
        ELSE IF hurry /\ goodB # {} THEN [Mid(g[Greatest(goodB)], Greatest(goodB)) EXCEPT !.minLo = FALSE]
        ELSE IF ~needMin /\ s.ec >= MaxCost THEN CutOff(f, g, F.on, G.on, box)
        ELSE Rounds(a, b, box, needMin,
                    [f |-> f, g |-> g, fmin |-> F.min, fmax |-> F.max, bmin |-> G.min,
                     bmax |-> G.max, ec |-> s.ec + 1])

SplitMidSnake(a, b, box, needMin) ==
    LET K == (-(box.lim1 + box.lim2) - 3)..(box.lim1 + box.lim2 + 3)
        fmid == box.off1 - box.off2
        bmid == box.lim1 - box.lim2
    IN  Rounds(a, b, box, needMin,
               [f |-> [d \in K |-> IF d = fmid THEN box.off1 ELSE 0],
                g |-> [d \in K |-> IF d = bmid THEN box.lim1 ELSE 0],
                fmin |-> fmid, fmax |-> fmid, bmin |-> bmid, bmax |-> bmid, ec |-> 1])

\* recsCmp: the changed positions of both texts within a box.
RECURSIVE RecsCmp(_, _, _, _)
RecsCmp(a, b, box, needMin) ==
    LET k == Run(a, b, box.off1, box.off2, box.lim1, box.lim2)
        off1 == box.off1 + k
        off2 == box.off2 + k
        j == RunBack(a, b, box.lim1, box.lim2, off1, off2)
        lim1 == box.lim1 - j
        lim2 == box.lim2 - j
        Box(o1, l1, o2, l2) == [off1 |-> o1, lim1 |-> l1, off2 |-> o2, lim2 |-> l2]
    IN  IF off1 = lim1 \/ off2 = lim2
        THEN [a |-> off1..(lim1 - 1), b |-> off2..(lim2 - 1)]
        ELSE LET m == SplitMidSnake(a, b, Box(off1, lim1, off2, lim2), needMin)
                 lo == RecsCmp(a, b, Box(off1, m.i1, off2, m.i2), m.minLo)
                 hi == RecsCmp(a, b, Box(m.i1, lim1, m.i2, lim2), m.minHi)
             IN  [a |-> lo.a \cup hi.a, b |-> lo.b \cup hi.b]

-------------------------------------------------------------------------------
(* changeCompact: groups of changes of one file are slid, in step with the *)
(* groups of the other.  State: the flags ch, the group gs..ge, the group  *)
(* os..oe of the other file o, and where they last ended together.         *)

GroupEnd(ch, i) == Least({j \in i..(i + Cardinality(ch)) : j \notin ch})
GroupStart(ch, j) == Least({i \in (j - Cardinality(ch))..j : i..(j - 1) \subseteq ch})

OtherBack(o, s) == [s EXCEPT !.oe = s.os - 1, !.os = GroupStart(o, s.os - 1)]
OtherForth(o, s) == [s EXCEPT !.os = s.oe + 1, !.oe = GroupEnd(o, s.oe + 1)]
GroupBack(s) ==
    LET ch == (s.ch \cup {s.gs - 1}) \ {s.ge - 1}
    IN  [s EXCEPT !.ch = ch, !.gs = GroupStart(ch, s.gs - 1), !.ge = s.ge - 1]
GroupForth(s) ==
    LET ch == (s.ch \ {s.gs}) \cup {s.ge}
    IN  [s EXCEPT !.ch = ch, !.gs = s.gs + 1, !.ge = GroupEnd(ch, s.ge + 1)]

RECURSIVE SlideUp(_, _, _)
SlideUp(t, o, s) ==
    IF s.gs = 0 \/ At(t, s.gs - 1) # At(t, s.ge - 1) THEN s
    ELSE IF s.os = 0 THEN GroupBack(s) ELSE SlideUp(t, o, OtherBack(o, GroupBack(s)))

EndMark(s) == [s EXCEPT !.both = IF s.oe > s.os THEN s.ge ELSE s.both]

\* (Mutant: the first line after the group is not compared.)
Follows_always(t, s) == s.ge < Len(t)

Follows(t, s) == s.ge < Len(t) /\ At(t, s.gs) = At(t, s.ge)

RECURSIVE SlideDown(_, _, _, _)
SlideDown(t, o, on, s) ==
    IF ~Follows(t, s) THEN s
    ELSE IF s.oe >= on THEN GroupForth(s)
    ELSE SlideDown(t, o, on, EndMark(OtherForth(o, GroupForth(s))))

\* Up and down until the group has swallowed no other.
RECURSIVE Slide(_, _, _, _)
Slide(t, o, on, s) ==
    LET up == SlideUp(t, o, [s EXCEPT !.both = -1])
        down == SlideDown(t, o, on, EndMark([up EXCEPT !.early = up.ge]))
    IN  IF down.ge - down.gs = s.ge - s.gs THEN down ELSE Slide(t, o, on, down)

RECURSIVE BackWhile(_, _, _)
BackWhile(o, s, best) ==
    IF s.ge > best /\ (s.oe = s.os \/ s.both = -1) THEN BackWhile(o, OtherBack(o, GroupBack(s)), best) ELSE s

\* The other file's group, or else the place that looks best, measureSplit and scoreCmp: how
\* lines are indented is left open, "taste" is how far down the best place is.
Settle(o, taste, s) ==
    LET best == Smaller(s.ge, Bigger(s.early, s.ge - (s.ge - s.gs) - 1) + taste)
    IN  IF s.ge = s.early THEN s
        ELSE IF s.both # -1 THEN BackWhile(o, s, 0)
        ELSE BackWhile(o, s, best)

RECURSIVE Groups(_, _, _, _, _)
Groups(t, o, on, taste, s) ==
    LET d == IF s.ge = s.gs THEN s ELSE Settle(o, taste, Slide(t, o, on, s))
    IN  IF d.ge >= Len(t) \/ d.oe >= on THEN d.ch
        ELSE Groups(t, o, on, taste, OtherForth(o, [d EXCEPT !.gs = d.ge + 1, !.ge = GroupEnd(d.ch, d.ge + 1)]))

ChangeCompact(t, ch, o, on, taste) ==
    Groups(t, o, on, taste, [ch |-> ch, gs |-> 0, ge |-> GroupEnd(ch, 0),
                             os |-> 0, oe |-> GroupEnd(o, 0), early |-> 0, both |-> -1])

-------------------------------------------------------------------------------
(* computeChangedLines, myersDiff, buildHunks.                             *)

\* The search sees the referenced lines only, and its positions are mapped back.
Search(a, b, ra, rb) ==
    LET la == SetToSortSeq(ra, <)
        lb == SetToSortSeq(rb, <)
        box == [off1 |-> 0, lim1 |-> Len(la), off2 |-> 0, lim2 |-> Len(lb)]
        r == RecsCmp([i \in DOMAIN la |-> At(a, la[i])], [i \in DOMAIN lb |-> At(b, lb[i])], box, FALSE)
    IN  [a |-> {At(la, i) : i \in r.a}, b |-> {At(lb, i) : i \in r.b}]

ChangedLines(a, b, taste) ==
    LET n == Len(a)
        m == Len(b)
        start == Run(a, b, 0, 0, n, m)
        tail == RunBack(a, b, n, m, start, start)
        da == start..(n - tail - 1)
        db == start..(m - tail - 1)
        ra == Referenced(a, b, start, n - tail - 1)
        rb == Referenced(b, a, start, m - tail - 1)
        r == Search(a, b, ra, rb)
        ca == (da \ ra) \cup r.a
        cb == (db \ rb) \cup r.b
        ka == ChangeCompact(a, ca, cb, m, taste)
    IN  IF n = 0 \/ m = 0 \/ da = {} \/ db = {} THEN [a |-> da, b |-> db]
        ELSE [a |-> ka, b |-> ChangeCompact(b, cb, ka, n, taste)]

\* changedToEdits: kept lines, and before each the deleted ones, then the inserted ones.
RECURSIVE Edits(_, _, _, _, _)
Edits(a, b, c, i, j) ==
    LET Edit(ty, x, o, n) == <<[type |-> ty, line |-> x, old |-> o, new |-> n]>>
    IN  IF i = Len(a) /\ j = Len(b) THEN <<>>
        ELSE IF i < Len(a) /\ j < Len(b) /\ i \notin c.a /\ j \notin c.b
        THEN Edit("keep", At(a, i), i + 1, j + 1) \o Edits(a, b, c, i + 1, j + 1)
        ELSE IF i < Len(a) /\ i \in c.a
        THEN Edit("delete", At(a, i), i + 1, 0) \o Edits(a, b, c, i + 1, j)
        ELSE IF j < Len(b) /\ j \in c.b
        THEN Edit("insert", At(b, j), 0, j + 1) \o Edits(a, b, c, i, j + 1)
        ELSE Edit("stuck", At(a, i), 0, 0)

Diff(a, b, taste) == Edits(a, b, ChangedLines(a, b, taste), 0, 0)

\* buildHunks: edits around changes, joined where they touch.
Near(e, context) == {i \in DOMAIN e : \E k \in DOMAIN e : e[k].type # "keep" /\ k - context <= i /\ i <= k + context}
HunkRanges(e, context) ==
    LET N == Near(e, context)
    IN  {<<i, Greatest({j \in N : i..j \subseteq N})>> : i \in {k \in N : k - 1 \notin N}}

\* buildOneHunk.
FirstOld(e, r) == LET S == {i \in r[1]..r[2] : e[i].old # 0} IN IF S = {} THEN 0 ELSE e[Least(S)].old
FirstNew(e, r) == LET S == {i \in r[1]..r[2] : e[i].new # 0} IN IF S = {} THEN 0 ELSE e[Least(S)].new

Hunk(e, r) ==
    LET old == Cardinality({i \in r[1]..r[2] : e[i].old # 0})
        new == Cardinality({i \in r[1]..r[2] : e[i].new # 0})
    IN  [oldStart |-> IF old = 0 THEN FirstNew(e, r) - 1 ELSE FirstOld(e, r), oldCount |-> old,
         newStart |-> IF new = 0 THEN FirstOld(e, r) - 1 ELSE FirstNew(e, r), newCount |-> new,
         lines |-> SubSeq(e, r[1], r[2])]
Hunks(a, b, taste, context) ==
    LET e == Diff(a, b, taste) IN {Hunk(e, r) : r \in HunkRanges(e, context)}
===============================================================================
