--------------------------------- MODULE Packs --------------------------------
(***************************************************************************)
(* Pack files: the delta of one content against another, the search for    *)
(* bases in a sliding window, the entries of a pack and their offsets, the *)
(* three readers (buffered, streaming, by index) and the index with its    *)
(* binary search.  A content is a sequence of bytes, a pack a sequence of  *)
(* entries; a hash is a number that no two objects share.                  *)
(***************************************************************************)
EXTENDS Integers, Sequences, SequencesExt, FiniteSetsExt

CONSTANTS
    Win, HashLimit, Buckets,         \* RABIN_WINDOW, HASH_LIMIT, the hash table's size
    MinCopy, GoodEnough, MaxCopy, MaxInsert,
    Byte, Seven, Low,                \* 256, 2^7 and 2^4: the digits of the encodings
    MinDelta, Ratio,                 \* 16 and 32: the least delta, the most a base may be larger
    MaxDepth,                        \* the longest chain, for writers and readers
    Fan, Large                       \* objects per first byte, and the largest plain offset

At(s, i) == s[i + 1]
Least(S) == CHOOSE i \in S : \A j \in S : i <= j
Greatest(S) == CHOOSE i \in S : \A j \in S : i >= j
Smaller(i, j) == IF i < j THEN i ELSE j
None == <<>>                    \* no delta, no offset
Bad == <<-1>>                   \* no content

-------------------------------------------------------------------------------
(* createDeltaIndex: the blocks of the source by a hash under which        *)
(* different blocks may meet.                                              *)

HashOf(s, end) == FoldLeft(+, 0, SubSeq(s, end - Win + 2, end + 1))

\* From the last block to the first; of equal blocks in a row only the first is kept.
Blocks(src) ==
    LET n == (Len(src) - 1) \div Win
        end(k) == k * Win - 1
        kept == {k \in 1..n : k = 1 \/ HashOf(src, end(k)) # HashOf(src, end(k - 1))}
        order == SetToSortSeq(kept, >)
    IN  [i \in DOMAIN order |-> [ptr |-> end(order[i]), val |-> HashOf(src, end(order[i]))]]

Culled(list) ==
    IF Len(list) <= HashLimit THEN list
    ELSE [i \in 1..HashLimit |-> list[((i - 1) * Len(list)) \div HashLimit + 1]]

Bucket(src, val) == Culled(SelectSeq(Blocks(src), LAMBDA e : e.val % Buckets = val % Buckets))

-------------------------------------------------------------------------------
(* createDelta.  s: the next byte of the target, the instructions, the     *)
(* bytes still to be inserted, and the match that was found.               *)

Digits(n, base) == Least({k \in 1..5 : n < base ^ k})
NonZero(n, base) == Cardinality({k \in 0..3 : (n \div base ^ k) % base # 0})

Insert(bytes) == [copy |-> FALSE, off |-> 0, size |-> 0, bytes |-> bytes]
Copy(off, size) == [copy |-> TRUE, off |-> off, size |-> size % MaxCopy, bytes |-> <<>>]

OpSize(op) == IF op.copy THEN 1 + NonZero(op.off, Byte) + NonZero(op.size, Byte) ELSE 1 + Len(op.bytes)
DeltaSize(d) == Digits(d.base, Seven) + Digits(d.target, Seven) + FoldLeft(+, 0, [i \in DOMAIN d.ops |-> OpSize(d.ops[i])])

MatchLen(src, t, ref, pos) ==
    Greatest({k \in 0..Smaller(Len(src) - ref, Len(t) - pos) :
                \A j \in 0..(k - 1) : At(src, ref + j) = At(t, pos + j)})

\* The first block of the bucket that gives the longest match; the search ends at a block with
\* no more left after it than the match that is there, or when the match is good enough.
Matched(src, t, s) ==
    LET val == HashOf(t, s.pos)
        Try(m, e) ==
            LET len == MatchLen(src, t, e.ptr, s.pos)
                room == Smaller(Len(src) - e.ptr, Len(t) - s.pos)
            IN  IF m.done \/ e.val # val THEN m
                ELSE IF room <= m.size THEN [m EXCEPT !.done = TRUE]
                ELSE IF len > m.size THEN [size |-> len, off |-> e.ptr, done |-> len >= GoodEnough]
                ELSE m
        m == FoldLeft(Try, [size |-> s.msize, off |-> s.moff, done |-> FALSE], Bucket(src, val))
    IN  IF s.msize < GoodEnough THEN [s EXCEPT !.msize = m.size, !.moff = m.off] ELSE s

OneByte(t, s) ==
    LET ins == Append(s.ins, At(t, s.pos))
        full == Len(ins) = MaxInsert
    IN  [s EXCEPT !.pos = @ + 1, !.msize = 0, !.ins = IF full THEN <<>> ELSE ins,
                  !.ops = IF full THEN Append(@, Insert(ins)) ELSE @]

\* How far the match reaches back into the bytes still to be inserted.
Back(src, t, s) ==
    Greatest({k \in 0..Smaller(s.moff, Len(s.ins)) :
                \A j \in 1..k : At(src, s.moff - j) = At(t, s.pos - j)})

\* (Mutant: what is left of a long match goes on where the match began.)
CopyOut_again(src, t, s) ==
    LET k == Back(src, t, s)
        all == s.msize + k
        size == Smaller(all, MaxCopy)
        kept == SubSeq(s.ins, 1, Len(s.ins) - k)
    IN  [pos |-> s.pos - k + size, ins |-> <<>>, msize |-> all - size, moff |-> s.moff - k,
         ops |-> (IF kept = <<>> THEN s.ops ELSE Append(s.ops, Insert(kept))) \o <<Copy(s.moff - k, size)>>]

CopyOut(src, t, s) ==
    LET k == Back(src, t, s)
        all == s.msize + k
        size == Smaller(all, MaxCopy)
        kept == SubSeq(s.ins, 1, Len(s.ins) - k)
    IN  [pos |-> s.pos - k + size, ins |-> <<>>, msize |-> all - size, moff |-> s.moff - k + size,
         ops |-> (IF kept = <<>> THEN s.ops ELSE Append(s.ops, Insert(kept))) \o <<Copy(s.moff - k, size)>>]

Written(src, t, s) ==
    [base |-> Len(src), target |-> Len(t),
     ops |-> IF s.ins = <<>> THEN s.ops ELSE Append(s.ops, Insert(s.ins))]

RECURSIVE Scan(_, _, _, _)
Scan(src, t, maxSize, s) ==
    LET m == Matched(src, t, s)
        next == IF m.msize < MinCopy THEN OneByte(t, m) ELSE CopyOut(src, t, m)
    IN  IF s.pos >= Len(t) THEN Written(src, t, s)
        ELSE IF maxSize # 0 /\ DeltaSize(Written(src, t, next)) > maxSize THEN None
        ELSE Scan(src, t, maxSize, next)

CreateDelta(src, t, maxSize) ==
    LET first == Smaller(Win, Len(t))
    IN  IF (Len(src) - 1) \div Win = 0 \/ src = <<>> \/ t = <<>> THEN None
        ELSE Scan(src, t, maxSize, [pos |-> first, ops |-> <<>>, ins |-> SubSeq(t, 1, first),
                                    msize |-> 0, moff |-> 0])

\* applyDelta.
ApplyDelta(base, d) ==
    LET Do(out, op) == IF ~op.copy THEN out \o op.bytes
                       ELSE out \o SubSeq(base, op.off + 1, op.off + (IF op.size = 0 THEN MaxCopy ELSE op.size))
        out == FoldLeft(Do, <<>>, d.ops)
    IN  IF d.base # Len(base) \/ Len(out) # d.target THEN Bad ELSE out

-------------------------------------------------------------------------------
(* findBestDeltas: objects by type and falling size, each against those    *)
(* shortly before it.                                                      *)

ObjectHash(o) == 2 * FoldLeft(LAMBDA n, b : 2 * n + b, 1, o.content) + o.type
Objects(list) == [i \in DOMAIN list |-> list[i] @@ [hash |-> ObjectHash(list[i])]]

SizeOrder(list) ==
    LET before(i, j) == \/ list[i].type < list[j].type
                        \/ list[i].type = list[j].type /\ Len(list[i].content) > Len(list[j].content)
                        \/ list[i].type = list[j].type /\ Len(list[i].content) = Len(list[j].content) /\ i < j
        order == SetToSortSeq(DOMAIN list, before)
    IN  [i \in DOMAIN order |-> list[order[i]]]

\* The candidate's delta if it is one, and smaller than the best so far.
Tried(done, o, best, w) ==
    LET base == done[w]
        maxSize == IF best.delta = None THEN Len(o.content) \div 2 ELSE DeltaSize(best.delta)
        d == CreateDelta(base.content, o.content, maxSize)
    IN  IF \/ base.type # o.type
           \/ base.depth >= MaxDepth
           \/ Len(o.content) < Len(base.content) \div Ratio
           \/ maxSize < MinDelta
        THEN best
        ELSE IF d # None /\ (best.delta = None \/ DeltaSize(d) < maxSize)
        THEN [delta |-> d, base |-> base.hash, depth |-> base.depth + 1]
        ELSE best

FindBestDeltas(list, window) ==
    LET Next(done, o) ==
            LET n == Len(done)
                near == [k \in 1..Smaller(window, n) |-> n + 1 - k]
                best == FoldLeft(LAMBDA b, w : Tried(done, o, b, w), [delta |-> None, base |-> 0, depth |-> 0], near)
            IN  Append(done, [hash |-> o.hash, type |-> o.type, content |-> o.content,
                              delta |-> best.delta, base |-> best.base, depth |-> best.depth])
    IN  FoldLeft(Next, <<>>, SizeOrder(list))

-------------------------------------------------------------------------------
(* writePackDeltified: encodeTypeSize, encodeOfsOffset and the offsets.    *)

RECURSIVE OfsRest(_)
OfsRest(n) == IF n = 0 THEN <<>> ELSE OfsRest((n - 1) \div Seven) \o <<(n - 1) % Seven>>
EncodeOfs(n) == OfsRest(n \div Seven) \o <<n % Seven>>
DecodeOfs(c) == FoldLeft(LAMBDA n, d : (n + 1) * Seven + d, c[1], Tail(c))

TypeSizeLen(n) == IF n < Low THEN 1 ELSE 1 + Digits(n \div Low, Seven)

\* Compressed data is as long as the data and a header.
Entry(o, at, offsets) ==
    LET ofs == o.delta # None /\ o.base \in DOMAIN offsets
        ref == IF ofs THEN EncodeOfs(at - offsets[o.base]) ELSE <<>>
        size == IF ofs THEN DeltaSize(o.delta) ELSE Len(o.content)
    IN  [kind |-> IF ofs THEN "ofs" ELSE "full", type |-> IF ofs THEN 0 ELSE o.type,
         data |-> IF ofs THEN o.delta ELSE o.content, ref |-> ref,
         offset |-> at, next |-> at + TypeSizeLen(size) + Len(ref) + size + 1]

WritePack(objs) ==
    LET Put(p, o) ==
            LET at == IF p.entries = <<>> THEN 12 ELSE Last(p.entries).next
                e == Entry(o, at, [h \in p.hashes \cup {o.hash} |-> IF h = o.hash THEN at ELSE p.offsets[h]])
            IN  [entries |-> Append(p.entries, e), hashes |-> p.hashes \cup {o.hash},
                 offsets |-> [h \in p.hashes \cup {o.hash} |-> IF h = o.hash THEN at ELSE p.offsets[h]]]
    IN  FoldLeft(Put, [entries |-> <<>>, hashes |-> {}, offsets |-> <<>>], objs).entries

\* What other writers send: the base by its hash, and it need not be in the pack.
Thin(p, objs) ==
    [i \in DOMAIN p |-> IF p[i].kind = "ofs" THEN [p[i] EXCEPT !.kind = "ref", !.ref = objs[i].base] ELSE p[i]]
Without(p, i) == SubSeq(p, 1, i - 1) \o SubSeq(p, i + 1, Len(p))

-------------------------------------------------------------------------------
(* readPack and resolveEntries.  "done" is what has been resolved so far,  *)
(* "ext" what the store behind a thin pack has.                            *)

Missing == [type |-> 0, content |-> <<>>, hash |-> 0, bad |-> TRUE]
Made(type, content) ==
    IF content = Bad THEN Missing
    ELSE [type |-> type, content |-> content, bad |-> FALSE,
          hash |-> ObjectHash([type |-> type, content |-> content])]
Patched(base, d) == IF base.bad THEN Missing ELSE Made(base.type, ApplyDelta(base.content, d))
External(ext, h) == IF h \in DOMAIN ext THEN Made(ext[h].type, ext[h].content) ELSE Missing

BaseOffset(e) == e.offset - DecodeOfs(e.ref)
ByOffset(p, at) == {i \in DOMAIN p : p[i].offset = at}
ByHash(p, done, h) ==
    LET known == {i \in DOMAIN done : done[i].hash = h}
        full == {i \in DOMAIN p : p[i].kind = "full" /\ Made(p[i].type, p[i].data).hash = h}
    IN  IF known # {} THEN known ELSE full

RECURSIVE Resolve(_, _, _, _, _)
Resolve(p, done, ext, i, depth) ==
    LET e == p[i]
        at == IF e.kind = "ofs" THEN ByOffset(p, BaseOffset(e)) ELSE ByHash(p, done, e.ref)
        base == IF at # {} THEN Resolve(p, done, ext, Least(at), depth + 1)
                ELSE IF e.kind = "ref" THEN External(ext, e.ref) ELSE Missing
    IN  IF depth > MaxDepth THEN Missing
        ELSE IF i \in DOMAIN done THEN done[i]
        ELSE IF e.kind = "full" THEN Made(e.type, e.data)
        ELSE Patched(base, e.data)

ReadPack(p, ext) ==
    FoldLeft(LAMBDA done, i : Append(done, Resolve(p, done, ext, i, 0)), <<>>, [i \in DOMAIN p |-> i])

\* readPackStreaming: a base comes before what is made from it.
ReadPackStreaming(p, ext) ==
    LET Next(done, i) ==
            LET e == p[i]
                at == IF e.kind = "ofs" THEN {j \in DOMAIN done : p[j].offset = BaseOffset(e)}
                      ELSE {j \in DOMAIN done : done[j].hash = e.ref}
                base == IF at # {} THEN done[Greatest(at)]
                        ELSE IF e.kind = "ref" THEN External(ext, e.ref) ELSE Missing
            IN  Append(done, IF e.kind = "full" THEN Made(e.type, e.data) ELSE Patched(base, e.data))
    IN  FoldLeft(Next, <<>>, [i \in DOMAIN p |-> i])

-------------------------------------------------------------------------------
(* writePackIndex, PackIndex and PackReader.                               *)

FirstByte(h) == h \div Fan

BuildIndex(metas) ==
    LET s == SetToSortSeq(metas, LAMBDA m, n : m.hash < n.hash)
        big == SelectSeq(s, LAMBDA m : m.offset >= Large)
        slot(i) == Cardinality({j \in 1..(i - 1) : s[j].offset >= Large})
    IN  [hashes |-> [i \in DOMAIN s |-> s[i].hash],
         fanout |-> [b \in 0..FirstByte(2 ^ 18) |-> Cardinality({i \in DOMAIN s : FirstByte(s[i].hash) <= b})],
         offsets |-> [i \in DOMAIN s |-> IF s[i].offset >= Large THEN Large + slot(i) ELSE s[i].offset],
         large |-> [i \in DOMAIN big |-> big[i].offset]]

RECURSIVE Find(_, _, _, _)
Find(idx, h, left, right) ==
    LET mid == (left + right) \div 2
    IN  IF left >= right THEN None
        ELSE IF At(idx.hashes, mid) < h THEN Find(idx, h, mid + 1, right)
        ELSE IF At(idx.hashes, mid) > h THEN Find(idx, h, left, mid)
        ELSE LET o == At(idx.offsets, mid) IN IF o >= Large THEN <<At(idx.large, o - Large)>> ELSE <<o>>

\* Where the object is in the pack, <<offset>>, or None.
Lookup(idx, h) ==
    LET b == FirstByte(h) IN Find(idx, h, IF b = 0 THEN 0 ELSE idx.fanout[b - 1], idx.fanout[b])

RECURSIVE ReadAt(_, _, _, _)
ReadAt(p, idx, at, depth) ==
    LET e == p[Least(ByOffset(p, at))]
        ref == Lookup(idx, e.ref)
    IN  IF depth > MaxDepth \/ ByOffset(p, at) = {} THEN Missing
        ELSE IF e.kind = "full" THEN Made(e.type, e.data)
        ELSE IF e.kind = "ofs" THEN Patched(ReadAt(p, idx, BaseOffset(e), depth + 1), e.data)
        ELSE IF ref = None THEN Missing
        ELSE Patched(ReadAt(p, idx, ref[1], depth + 1), e.data)

ReadObject(p, idx, h) ==
    LET at == Lookup(idx, h) IN IF at = None THEN Missing ELSE ReadAt(p, idx, at[1], 0)
===============================================================================
