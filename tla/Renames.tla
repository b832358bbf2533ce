------------------------------- MODULE Renames --------------------------------
(***************************************************************************)
(* Rename detection: deleted and added files of a tree diff are paired,    *)
(* first those of one content, then those of one base name, then the most  *)
(* similar.  A content is a sequence of chunks of one size; equal contents *)
(* have equal hashes.  A path is a pair, directory and base name.          *)
(***************************************************************************)
EXTENDS Integers, Sequences, SequencesExt, FiniteSetsExt

CONSTANTS
    Threshold,      \* the least similarity of a pair, in percent
    RenameLimit     \* how many sources and destinations are compared; 0: any

Base(e) == e.path[2]
Of(diffs, status) == SelectSeq(diffs, LAMBDA e : e.status = status)

\* The entries of s that none of the pairs took, in their order.
Without(s, taken) == SelectSeq(s, LAMBDA e : e \notin taken)
Sources(pairs) == {p.from : p \in Range(pairs)}
Targets(pairs) == {p.to : p \in Range(pairs)}
Pair(d, a, similarity) == [from |-> d, to |-> a, similarity |-> similarity]

-------------------------------------------------------------------------------
(* How similar two contents are: the chunks they share, of the larger one. *)

Shared(s, t) ==
    FoldSet(LAMBDA c, n : n + Min({Cardinality({i \in DOMAIN s : s[i] = c}),
                                   Cardinality({i \in DOMAIN t : t[i] = c})}), 0, Range(s))

\* A size that differs by more than half is never compared.
ComputeSimilarity(s, t) ==
    LET large == Max({Len(s), Len(t)})
        small == Min({Len(s), Len(t)})
    IN  CASE s = <<>> /\ t = <<>> -> 100
          [] (s = <<>>) # (t = <<>>) -> 0
          [] OTHER -> IF small < large - small THEN 0 ELSE (Shared(s, t) * 100) \div large

\* The comparison of all pairs skips the case of the empty file.
SimilarityFromChunks(s, t) ==
    LET large == Max({Len(s), Len(t)})
        small == Min({Len(s), Len(t)})
    IN  IF large = 0 \/ small < large - small THEN 0 ELSE (Shared(s, t) * 100) \div large

-------------------------------------------------------------------------------
(* The same content: an added file takes a deleted one, of its name if it  *)
(* can, else the first; a source is taken once.                            *)

PickBestExactMatch(list, a) ==
    LET named == SelectSeq(list, LAMBDA d : Base(d) = Base(a))
    IN  IF named # <<>> THEN named[1] ELSE list[1]

ExactRenames(deleted, added) ==
    LET take(pairs, a) ==
            LET list == SelectSeq(Without(deleted, Sources(pairs)), LAMBDA d : d.old = a.new)
            IN  IF list = <<>> THEN pairs
                ELSE Append(pairs, Pair(PickBestExactMatch(list, a), a, 100))
    IN  FoldLeft(take, <<>>, added)

\* The deleted files come out of the map from hashes in groups of one content.
Grouped(s) ==
    FlattenSeq([i \in DOMAIN s |-> IF \E j \in 1..(i - 1) : s[j].old = s[i].old THEN <<>>
                                   ELSE SelectSeq(s, LAMBDA e : e.old = s[i].old)])

\* A base name only one source and one destination have.
Sole(s, e) == \A x \in Range(s) : Base(x) = Base(e) => x = e
BasenameRenames(deleted, added) ==
    LET meets(d) == {a \in Range(added) : /\ Base(a) = Base(d)
                                          /\ Sole(added, a) /\ Sole(deleted, d)
                                          /\ d.old # a.new
                                          /\ ComputeSimilarity(d.old, a.new) >= Threshold}
        take(pairs, d) == IF meets(d) = {} THEN pairs
                          ELSE LET a == CHOOSE x \in meets(d) : TRUE
                               IN  Append(pairs, Pair(d, a, ComputeSimilarity(d.old, a.new)))
    IN  FoldLeft(take, <<>>, deleted)

\* Every pair that is similar enough, the most similar first, of equals one that
\* keeps the name, else as they were listed.
Candidates(deleted, added) ==
    LET all == {Pair(d, a, SimilarityFromChunks(d.old, a.new)) : d \in Range(deleted), a \in Range(added)}
        ok == {p \in all : p.similarity >= Threshold}
        place(s, e) == CHOOSE i \in DOMAIN s : s[i] = e
        named(p) == IF Base(p.from) = Base(p.to) THEN 1 ELSE 0
        rank(p) == <<-p.similarity, -named(p), place(deleted, p.from), place(added, p.to)>>
        before(v, w) == \E i \in DOMAIN v : v[i] < w[i] /\ \A j \in 1..(i - 1) : v[j] = w[j]
    IN  SetToSortSeq(ok, LAMBDA p, q : before(rank(p), rank(q)))

\* (Mutant: only the source is looked at.)
Free_from(pairs, p) == p.from \notin Sources(pairs)
\* A candidate is free when neither of its files was taken.
Free(pairs, p) == p.from \notin Sources(pairs) /\ p.to \notin Targets(pairs)
SimilarityRenames(deleted, added) ==
    FoldLeft(LAMBDA pairs, p : IF Free(pairs, p) THEN Append(pairs, p) ELSE pairs,
             <<>>, Candidates(deleted, added))

-------------------------------------------------------------------------------
(* detectRenames.  The comparison of all pairs is skipped over the limit.  *)

DetectRenames(diffs) ==
    LET deleted == Of(diffs, "deleted")
        added == Of(diffs, "added")
        other == SelectSeq(diffs, LAMBDA e : e.status \notin {"deleted", "added"})
        exact == ExactRenames(deleted, added)
        d1 == Without(Grouped(deleted), Sources(exact))
        a1 == Without(added, Targets(exact))
        named == BasenameRenames(d1, a1)
        d2 == Without(d1, Sources(named))
        a2 == Without(a1, Targets(named))
        skip == RenameLimit > 0 /\ Len(d2) * Len(a2) > RenameLimit * RenameLimit
        similar == IF skip THEN <<>> ELSE SimilarityRenames(d2, a2)
    IN  [renames |-> exact \o named \o similar,
         remaining |-> other \o Without(d2, Sources(similar)) \o Without(a2, Targets(similar)),
         needed |-> IF skip THEN Max({Len(d2), Len(a2)}) ELSE 0]
===============================================================================
