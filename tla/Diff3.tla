--------------------------------- MODULE Diff3 --------------------------------
(***************************************************************************)
(* The three-way merge of texts.  The chunks in which both sides differ    *)
(* from the base are grouped into regions; a region only one side changed  *)
(* is taken from that side, one both changed alike is taken once, and any  *)
(* other becomes a conflict, which is refined by comparing the sides and   *)
(* joined with a neighbour that is only a few lines away.                  *)
(***************************************************************************)
EXTENDS Diff

CONSTANT Gap                    \* lines between two conflicts that are then joined, 3

-------------------------------------------------------------------------------
(* diffIndices: the gaps between the lines two texts keep.                 *)

Chunks(x, y, taste) ==
    LET c == ChangedLines(x, y, taste)
        kx == <<-1>> \o SetToSortSeq((0..(Len(x) - 1)) \ c.a, <) \o <<Len(x)>>
        ky == <<-1>> \o SetToSortSeq((0..(Len(y) - 1)) \ c.b, <) \o <<Len(y)>>
        chunk(k) == [start |-> kx[k] + 1, end |-> kx[k + 1], from |-> ky[k] + 1, to |-> ky[k + 1]]
    IN  SelectSeq([k \in 1..(Len(kx) - 1) |-> chunk(k)],
                  LAMBDA h : h.start < h.end \/ h.from < h.to)

Slice(s, from, to) == SubSeq(s, from + 1, to)

-------------------------------------------------------------------------------
(* diff3MergeRegions.                                                      *)

Ok(lines) == [ok |-> TRUE, lines |-> lines, a |-> <<>>, o |-> <<>>, b |-> <<>>]
Conflict(a, o, b) == [ok |-> FALSE, lines |-> <<>>, a |-> a, o |-> o, b |-> b]

\* The chunks of both sides in the order of the base, those of a first.
Hunks3(a, o, b, taste) ==
    LET of(side, x) == LET c == Chunks(o, x, taste)
                       IN  [i \in DOMAIN c |-> [ab |-> side, start |-> c[i].start, end |-> c[i].end,
                                                from |-> c[i].from, to |-> c[i].to]]
        hs == of("a", a) \o of("b", b)
        before(i, j) == hs[i].start < hs[j].start \/ (hs[i].start = hs[j].start /\ i < j)
        order == SetToSortSeq(DOMAIN hs, before)
    IN  [i \in DOMAIN order |-> hs[order[i]]]

\* (Mutant: a chunk that only touches the region starts one of its own.)
Opens_touching(hs, j) == \A k \in 1..(j - 1) : hs[k].end <= hs[j].start

\* A region ends where the next chunk starts beyond all before it.
Opens(hs, j) == \A k \in 1..(j - 1) : hs[k].end < hs[j].start

\* The part of side x that stands for a region of the base.
PartOf(hs, side, x, start, end) ==
    LET H == {h \in Range(hs) : h.ab = side}
        first == CHOOSE h \in H : \A g \in H : h.from <= g.from
        last == CHOOSE h \in H : \A g \in H : h.to >= g.to
    IN  Slice(x, first.from + start - first.start, last.to + end - last.end)

RegionEnd(hs) == Greatest({h.end : h \in Range(hs)})

\* One region: a single chunk is taken, the same change on both sides is taken once.
RegionBlock(a, o, b, hs) ==
    LET start == hs[1].start
        end == RegionEnd(hs)
        pa == PartOf(hs, "a", a, start, end)
        pb == PartOf(hs, "b", b, start, end)
    IN  IF Len(hs) = 1 THEN Ok(Slice(IF hs[1].ab = "a" THEN a ELSE b, hs[1].from, hs[1].to))
        ELSE IF pa = pb THEN Ok(pa)
        ELSE Conflict(pa, Slice(o, start, end), pb)

\* Blocks put end to end, those without conflict in one.
Joined(blocks, blk) ==
    IF blk = Ok(<<>>) THEN blocks
    ELSE IF blk.ok /\ blocks # <<>> /\ Last(blocks).ok
    THEN Append(Front(blocks), Ok(Last(blocks).lines \o blk.lines))
    ELSE Append(blocks, blk)

Regions(a, o, b, taste) ==
    LET hs == Hunks3(a, o, b, taste)
        heads == SetToSortSeq({j \in DOMAIN hs : Opens(hs, j)}, <)
        region(k) == SubSeq(hs, heads[k], IF k = Len(heads) THEN Len(hs) ELSE heads[k + 1] - 1)
        from(k) == IF k = 1 THEN 0 ELSE RegionEnd(region(k - 1))
        to(k) == IF k > Len(heads) THEN Len(o) ELSE region(k)[1].start
        rest(k) == Ok(Slice(o, from(k), to(k)))
        both == [k \in DOMAIN heads |-> <<rest(k), RegionBlock(a, o, b, region(k))>>]
    IN  FoldLeft(Joined, <<>>, FlattenSeq(both) \o <<rest(Len(heads) + 1)>>)

-------------------------------------------------------------------------------
(* refineConflicts and simplifyNonConflicts.                               *)

Refined(blk, taste) ==
    LET c == Chunks(blk.a, blk.b, taste)
        from(k) == IF k = 1 THEN 0 ELSE c[k - 1].end
        part(k) == <<Ok(Slice(blk.a, from(k), c[k].start)),
                     Conflict(Slice(blk.a, c[k].start, c[k].end), <<>>, Slice(blk.b, c[k].from, c[k].to))>>
        all == FoldLeft(Joined, <<>>, FlattenSeq([k \in DOMAIN c |-> part(k)])
                                      \o <<Ok(Slice(blk.a, c[Len(c)].end, Len(blk.a)))>>)
    IN  IF blk.ok \/ blk.a = <<>> \/ blk.b = <<>> \/ Len(all) = 1 THEN <<blk>> ELSE all

\* Two conflicts with at most Gap lines between them become one.
Absorbed(blocks, blk) ==
    LET n == Len(blocks)
        p == blocks[n - 1]
        mid == blocks[n].lines
    IN  IF ~blk.ok /\ n >= 2 /\ blocks[n].ok /\ Len(mid) <= Gap /\ ~p.ok
        THEN Append(SubSeq(blocks, 1, n - 2),
                    Conflict(p.a \o mid \o blk.a, p.o \o mid \o blk.o, p.b \o mid \o blk.b))
        ELSE Append(blocks, blk)

Diff3Merge(a, o, b, keepsBase, taste) ==
    LET r == Regions(a, o, b, taste)
        refined == IF keepsBase THEN r ELSE FlattenSeq([i \in DOMAIN r |-> Refined(r[i], taste)])
    IN  FoldLeft(Absorbed, <<>>, FoldLeft(Joined, <<>>, refined))

\* merge: what is left when every conflict is resolved for one side.
Resolved(blocks, side) ==
    FlattenSeq([i \in DOMAIN blocks |-> IF blocks[i].ok THEN blocks[i].lines ELSE blocks[i][side]])
HasConflict(blocks) == \E i \in DOMAIN blocks : ~blocks[i].ok
===============================================================================
