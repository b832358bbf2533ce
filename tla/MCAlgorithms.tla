----------------------------- MODULE MCAlgorithms -----------------------------
(***************************************************************************)
(* The pure algorithms over bounded inputs: a state is one input, made in  *)
(* two steps, x and then y, and dropped in a third one, where the          *)
(* properties compare what the code computes from it with what it has to   *)
(* mean.                                                                   *)
(***************************************************************************)
EXTENDS Integers, Sequences, FiniteSets, TLC

CONSTANTS
    SnakeCnt, HeurMin, MaxCost, KHeur, Gap,
    Win, HashLimit, Buckets, MinCopy, GoodEnough, MaxCopy, MaxInsert,
    Byte, Seven, Low, MinDelta, Ratio, MaxDepth, Fan, Large,
    Threshold, RenameLimit, MaxCallDepth,
    MaxPkt, FirstWord,
    Families        \* the algorithms asked

D == INSTANCE Diff3
B == INSTANCE Blame
P == INSTANCE Packs
G == INSTANCE Patterns
H == INSTANCE History
R == INSTANCE Revisions
N == INSTANCE Renames
O == INSTANCE MergeOrt
W == INSTANCE Wire
S == INSTANCE SequencesExt

VARIABLES what,     \* the algorithm asked
          step,     \* how much of its input is there
          x, y      \* the input
vars == <<what, step, x, y>>

UpTo(T, n) == UNION {[1..k -> T] : k \in 0..n}
Injective(s) == \A i, j \in DOMAIN s : s[i] = s[j] => i = j
Set(s) == {s[i] : i \in DOMAIN s}

-------------------------------------------------------------------------------
(* Texts: two, or a base and its two sides.                                *)

Lines == {1, 2, 3}
Texts == UpTo(Lines, 3)
\* Long enough for lines with many partners.
LongTexts == {a \o b : a \in {<<1, 1, 2>>, <<2, 1, 1>>, <<1, 2, 1>>, <<1, 3, 2>>},
                       b \in {<<1, 1, 1>>, <<2, 2, 1>>, <<1, 4, 1>>, <<4, 2, 3>>}}

\* The text of one side of an edit script.
Side(e, other) == LET K == SelectSeq(e, LAMBDA l : l.type # other) IN [i \in DOMAIN K |-> K[i].line]

HunkFits(t, start, count, other, h) ==
    LET K == SelectSeq(h.lines, LAMBDA l : l.type # other)
    IN  Len(K) = count /\ \A i \in DOMAIN K : K[i].line = t[start + i - 1]

\* A line diff is a script from the old text to the new one, wherever groups of
\* changes are let slide to, and every hunk stands where its header says: the lines
\* it shows are those of both files from there on (myersDiff, buildHunks).
DiffIsScript ==
    what \in {"diff", "long"} /\ step = 2 =>
        \A taste \in 0..1 :
            /\ LET e == D!Diff(x, y, taste) IN Side(e, "insert") = x /\ Side(e, "delete") = y
            /\ \A context \in 0..1 : \A h \in D!Hunks(x, y, taste, context) :
                  /\ h.oldCount > 0 => HunkFits(x, h.oldStart, h.oldCount, "insert", h)
                  /\ h.newCount > 0 => HunkFits(y, h.newStart, h.newCount, "delete", h)

\* A three-way merge takes the side that changed when the other did not, agrees
\* with sides that agree, keeps every line either side added, loses no line that
\* all three have, and makes none up (diff3Merge, refineConflicts,
\* simplifyNonConflicts).
MergeSound ==
    what = "merge" /\ step = 2 =>
        LET o == y.base  a == y.ours  b == x
            m == D!Diff3Merge(a, o, b, y.keep, y.taste)
            ra == D!Resolved(m, "a")
            rb == D!Resolved(m, "b")
        IN  /\ a = o => ra = b /\ ~D!HasConflict(m)
            /\ b = o => rb = a /\ ~D!HasConflict(m)
            /\ a = b => ra = a /\ ~D!HasConflict(m)
            /\ Set(a) \ Set(o) \subseteq Set(ra)
            /\ Set(b) \ Set(o) \subseteq Set(rb)
            /\ \A l \in Set(a) \cap Set(o) \cap Set(b) :
                  D!Occurs(l, o) = 1 => l \in Set(ra) \cup Set(rb)
            /\ Set(ra) \cup Set(rb) \subseteq Set(a) \cup Set(b)

-------------------------------------------------------------------------------
(* Blame: a line of three commits in a row, or a merge of two, and a file  *)
(* that may have been renamed before the last commit.                      *)

Shapes == {<<<<>>, <<1>>, <<2>>, <<3>>>>, <<<<>>, <<1>>, <<1>>, <<2, 3>>>>, <<<<>>, <<1>>, <<2, 1>>, <<3, 2>>>>}
FileTexts == {<<>>, <<1>>, <<2>>, <<1, 2>>, <<2, 1>>, <<1, 2, 1>>}
Files(t, old) == [c \in 1..4 |-> IF c \in old THEN <<"d", "p">> :> t[c] ELSE <<"d", "q">> :> t[c]]

\* Every line asked for is blamed once, on a commit that has this very line where
\* the entry says, on a root when and only when it is marked as a boundary, and
\* never on a commit that took the file as it is from a parent (blame, blameLines).
BlameHonest ==
    what = "blame" /\ step = 2 =>
        LET h == [parents |-> x, files |-> Files(y.texts, y.old)]
            text(c) == y.texts[c]
            all == B!BlameFile(h, 4, <<"d", "q">>, 1, Len(text(4)))
            near(c, p) == (c \in y.old) = (p \in y.old)
        IN  /\ {e.final : e \in all} = 1..Len(text(4))
            /\ Cardinality(all) = Len(text(4))
            /\ \A e \in all :
                  /\ e.line \in 1..Len(text(e.hash)) /\ text(e.hash)[e.line] = text(4)[e.final]
                  /\ e.boundary <=> x[e.hash] = <<>>
                  /\ \A p \in Set(x[e.hash]) : near(e.hash, p) => text(p) # text(e.hash)
-------------------------------------------------------------------------------
(* Packs.  A byte is a bit here, an object one of a few short contents.    *)

Bits(n) == UpTo(0..1, n)
Pieces == {<<0, 0, 0>>, <<0, 1, 1>>, <<1, 0, 1>>}
LongBits == {a \o b \o c \o d : a \in Pieces, b \in Pieces, c \in Pieces, d \in Pieces}
Zeros(n) == [i \in 1..n |-> 0]
Contents == {Zeros(16), Zeros(14), <<1>> \o Zeros(15), Zeros(15) \o <<1>>, <<1, 1>> \o Zeros(14),
             <<0, 1, 1, 0>>}
Objects == [type : 0..1, content : Contents]

SameObjects(read, given) ==
    Len(read) = Len(given) /\ \A i \in DOMAIN given : read[i].hash = given[i].hash /\ ~read[i].bad

\* What is packed is read back: a delta applied to its base gives the target; a pack
\* with deltas by offset or by hash, read whole, streamed, or object by object through
\* its index, and a thin pack read beside the base it lacks, give the same objects; the
\* index finds no other hash; an offset is decoded to what was encoded (createDelta,
\* applyDelta, findBestDeltas, the pack writers and readers).
PacksReadBack ==
    /\ what \in {"bits", "longbits"} /\ step = 2 =>
          LET d == P!CreateDelta(x, y, 0) IN d # P!None => P!ApplyDelta(x, d) = y
    /\ what = "offset" /\ step = 2 => P!DecodeOfs(P!EncodeOfs(x[1])) = x[1]
    /\ what = "pack" /\ step = 2 =>
          LET f == P!FindBestDeltas(P!Objects(x), y[1])
              ofs == P!WritePack(f)
              ref == P!Thin(ofs, f)
              index == P!BuildIndex({[hash |-> f[i].hash, offset |-> ofs[i].offset] : i \in DOMAIN f})
              base == f[1].hash :> f[1]
              reads(p) ==
                  /\ SameObjects(P!ReadPack(p, <<>>), f)
                  /\ SameObjects(P!ReadPackStreaming(p, <<>>), f)
                  /\ \A i \in DOMAIN f :
                        LET o == P!ReadObject(p, index, f[i].hash) IN ~o.bad /\ o.hash = f[i].hash
          IN  /\ reads(ofs) /\ reads(ref)
              /\ SameObjects(P!ReadPack(P!Without(ref, 1), base), Tail(f))
              /\ SameObjects(P!ReadPackStreaming(P!Without(ref, 1), base), Tail(f))
              /\ \A h \in 0..300 : h \notin {f[i].hash : i \in DOMAIN f} => P!Lookup(index, h) = P!None

-------------------------------------------------------------------------------
(* Patterns: what a glob means, told by trying every split of the text.    *)

PatternChars == {"a", "/", "*", "?", "[!a]"}
IgnoreChars == {"a", "/", "*", "!", "#", " "}
PathChars == {"a", "b", "/"}

\* A star crosses slashes where the path does not matter, and when it is one of two
\* or more that stand alone between slashes, which may then match nothing at all.
RECURSIVE Glob(_, _, _, _)
Glob(p, i, t, paths) ==
    LET ends == {m \in i..Len(p) : \A l \in i..m : p[l] = "*"}
        j == CHOOSE m \in ends : \A l \in ends : l <= m
        alone == j > i /\ (i = 1 \/ p[i - 1] = "/") /\ (j = Len(p) \/ p[j + 1] = "/")
        rest(k) == SubSeq(t, k, Len(t))
        one(set) == t # <<>> /\ (~paths \/ t[1] # "/") /\ t[1] \in set /\ Glob(p, i + 1, Tail(t), paths)
    IN  IF i > Len(p) THEN t = <<>>
        ELSE CASE p[i] = "*" ->
                    \/ \E k \in 0..Len(t) : /\ ~paths \/ alone \/ "/" \notin Set(SubSeq(t, 1, k))
                                            /\ Glob(p, j + 1, rest(k + 1), paths)
                    \/ paths /\ alone /\ j < Len(p) /\ Glob(p, j + 2, t, paths)
               [] p[i] = "?" -> one(Set(t))
               [] p[i] \in DOMAIN G!Class -> one(G!Class[p[i]])
               [] OTHER -> t # <<>> /\ p[i] = t[1] /\ Glob(p, i + 1, Tail(t), paths)

\* wildmatch matches the texts that split as its pattern says, and a pathspec with
\* wildcards the same, in spite of its plain start being compared first.
WildmatchIsGlob ==
    what \in {"glob", "stars"} /\ step = 2 =>
        \A paths \in BOOLEAN :
            LET spec == G!Pathspec(IF paths THEN {"glob"} ELSE {}, <<x>>, <<>>)
            IN  /\ G!Wildmatch(x, y, paths, FALSE) = Glob(x, 1, y, paths)
                /\ spec.wild /\ "/" \notin Set(x) => G!MatchPathspec(spec, y) = Glob(x, 1, y, paths)

\* What a pattern of an ignore file means, without its short cuts for plain patterns,
\* for "*" and a plain rest, and for the plain start of a path.
Means(pt, path, isDir) ==
    LET inside == pt.base = <<>> \/ S!IsPrefix(Append(pt.base, "/"), path)
        p == IF pt.pat # <<>> /\ pt.pat[1] = "/" THEN Tail(pt.pat) ELSE pt.pat
    IN  /\ pt.mustBeDir => isDir
        /\ IF pt.nodir THEN G!Under(path, pt.base) /\ G!Wildmatch(pt.pat, G!Basename(path), TRUE, FALSE)
           ELSE inside /\ G!Wildmatch(p, G!NameUnder(path, pt.base), TRUE, FALSE)

\* A path is ignored as the last line that means it says, where the lines of a deeper
\* directory come after those above it, and these after info/exclude and the user's
\* file: the short cuts and the order of the lists change nothing (isIgnored).
IgnoredAsLastLine ==
    what = "ignore" /\ step = 2 =>
        \A isDir \in BOOLEAN : \A where \in {"global", "exclude", "top", "sub"} :
            LET other == G!ParseIgnoreFile(<<y.other>>, <<>>)
                here(w) == IF where = w THEN G!ParseIgnoreFile(<<x>>, IF w = "sub" THEN <<"a">> ELSE <<>>) ELSE <<>>
                stack == [global |-> here("global"), exclude |-> other,
                          dirs |-> <<here("exclude") \o here("top"), here("sub")>>]
                lines == stack.global \o stack.exclude \o stack.dirs[1] \o stack.dirs[2]
                hits == {i \in DOMAIN lines : lines[i].pat # <<>> /\ Means(lines[i], y.path, isDir)}
            IN  (\A i \in DOMAIN lines : lines[i].pat # <<>>) =>
                    G!IsIgnored(stack, y.path, isDir) =
                        IF hits = {} THEN "undecided"
                        ELSE IF lines[CHOOSE i \in hits : \A j \in hits : j <= i].negative
                             THEN "not-ignored" ELSE "ignored"

-------------------------------------------------------------------------------
(* Histories of four commits, some with dates out of order, or shallow.    *)

ParentLists(n) == {<<>>} \cup {<<i>> : i \in 1..(n - 1)} \cup {s \in [1..2 -> 1..(n - 1)] : s[1] # s[2]}
Histories == [parents : {<<a, b, c, d>> : a \in ParentLists(1), b \in ParentLists(2),
                                          c \in ParentLists(3), d \in ParentLists(4)},
              date : {<<1, 2, 3, 4>>, <<1, 1, 2, 1>>, <<2, 1, 1, 2>>},
              tree : {<<1, 0, 1, 1>>, <<1, 1, 0, 1>>, <<0, 1, 1, 1>>}, here : {1..4, 2..4}]
Walks == [from : {<<4>>, <<3, 4>>}, exclude : {<<>>, <<2>>, <<3>>}, first : BOOLEAN]
Tags == {[name |-> 1, on |-> 2, time |-> 0], [name |-> 2, on |-> 1, time |-> 1], [name |-> 3, on |-> 3, time |-> 2]}

RECURSIVE Reach(_, _, _)
Reach(h, C, first) ==
    LET E == C \cup (h.here \cap UNION {Set(H!Kin(h, c, first)) : c \in C})
    IN  IF E = C THEN C ELSE Reach(h, E, first)
Place(s, c) == CHOOSE i \in DOMAIN s : s[i] = c
Full(h) == h.here = 1..4

\* Both walks give each commit that is reached and not excluded once; the topological
\* one gives no parent before its child, however the dates are (walkCommits).
WalksGiveEachOnce ==
    what = "walk" /\ step = 2 =>
        LET o == [first |-> y.first, shallow |-> {}, limit |-> -1]
            w == H!WalkCommits(x, y.from, y.exclude, o)
            t == H!TopoWalk(x, y.from, y.exclude, o)
            want == Reach(x, Set(y.from), y.first) \ Reach(x, Set(y.exclude), FALSE)
        IN  /\ Injective(w) /\ Set(w) = want
            /\ Injective(t) /\ Set(t) = want
            /\ \A c \in want : \A p \in Set(H!Kin(x, c, y.first)) \cap want : Place(t, c) < Place(t, p)

\* What is counted from walks is what the sets say: ahead and behind, the commits a
\* checkout leaves behind, the commits of left...right; a log of one path, from a
\* commit that has it, lists one that gave it this content; describe names a tag as
\* near as any (countAheadBehind, findOrphanedCommits, walkCommitsSimplified,
\* findNearestTag).
WalksCountRight ==
    what = "walk" /\ step = 2 =>
        LET from(c) == Reach(x, {c}, FALSE)
            RECURSIVE Far(_, _)
            Far(C, n) == IF C \cap {t.on : t \in Tags} # {} \/ C = {} THEN n
                         ELSE Far(x.here \cap UNION {Set(x.parents[c]) : c \in C}, n + 1)
            path == H!WalkCommitsSimplified(x, y.from, <<>>, y.first)
            tag == H!FindNearestTag(x, 4, Tags, FALSE, -1)
        IN  /\ \A a, b \in 2..4 :
                  /\ H!CountAheadBehind(x, a, b) = [ahead |-> Cardinality(from(a) \ from(b)),
                                                    behind |-> Cardinality(from(b) \ from(a))]
                  /\ Set(H!LogRange(x, a, b, 3)) = (from(a) \ from(b)) \cup (from(b) \ from(a))
            /\ Full(x) => \A a \in 2..4 :
                  Set(H!FindOrphanedCommits(x, a, y.exclude, 9)) = from(a) \ Reach(x, Set(y.exclude), FALSE)
            /\ Injective(path)
            /\ Full(x) /\ y.from = <<4>> /\ x.tree[4] # 0 => \E c \in Set(path) : x.tree[c] = x.tree[4]
            /\ Full(x) => IF tag = {} THEN from(4) \cap {t.on : t \in Tags} = {}
                          ELSE \A t \in tag : t.tag.on \in from(4) /\ t.depth = Far({4}, 0)

-------------------------------------------------------------------------------
(* Names of revisions, in a repository with a merge, a tag of a commit, a  *)
(* tag of a tree, a tree in a tree, and two words that read as short       *)
(* hashes, one of them also a branch.                                      *)

Commit(parents, tree) == [type |-> "commit", parents |-> parents, to |-> tree, entries |-> <<>>]
Tag(to) == [type |-> "tag", parents |-> <<>>, to |-> to, entries |-> <<>>]
Tree(entries) == [type |-> "tree", parents |-> <<>>, to |-> "", entries |-> entries]
Repo == [obj |-> "c1" :> Commit(<<>>, "t1") @@ "c2" :> Commit(<<"c1">>, "t1") @@ "c3" :> Commit(<<"c1">>, "t2")
                 @@ "c4" :> Commit(<<"c2", "c3">>, "t2") @@ "v" :> Tag("c4") @@ "vv" :> Tag("v") @@ "vt" :> Tag("t2")
                 @@ "t1" :> Tree("f" :> "b1") @@ "t2" :> Tree("f" :> "b2" @@ "d" :> "t1")
                 @@ "b1" :> [Tree(<<>>) EXCEPT !.type = "blob"] @@ "b2" :> [Tree(<<>>) EXCEPT !.type = "blob"],
         refs |-> <<"", "HEAD">> :> "c4" @@ <<"heads", "main">> :> "c4" @@ <<"heads", "abcd">> :> "c2"
                  @@ <<"tags", "v1">> :> "vv" @@ <<"tags", "main">> :> "c1" @@ <<"tags", "tt">> :> "vt",
         logs |-> <<"", "HEAD">> :> <<"c1", "c2", "c4">> @@ <<"heads", "main">> :> <<"c3", "c4">>,
         short |-> "abcd" :> {"c3"} @@ "beef" :> {"c1", "b1"}, full |-> "full" :> {"c2"},
         index |-> <<0, <<"d", "f">>>> :> "b1" @@ <<2, <<"f">>>> :> "b2"]

Token(kind, n, word) == [kind |-> kind, n |-> n, word |-> word]
Word(w) == Token("word", 0, w)
Words == {Word(w) : w \in {"HEAD", "@", "main", "abcd", "beef", "full", "v1", "tt", "gone"}}
Hung == {Token("tilde", n, "") : n \in 0..2} \cup {Token("caret", n, "") : n \in 0..3}
            \cup {Token("peel", 0, w) : w \in {"", "commit", "tree", "tag", "blob"}}
Names == {<<w>> : w \in Words} \cup {<<w, Token("log", n, "")>> : w \in Words, n \in 0..2}

\* A name means what its parts mean one after the other: each ~n is n times ^1, each
\* suffix is taken from what the name before it found; @{0} is the newest logged value;
\* <rev>:a/b is b in the tree <rev>:a (resolveRevision, resolveRevPath).
NamesCompose ==
    what = "name" /\ step = 2 =>
        LET found(rev) == R!ResolveRevision(Repo, rev)
            caret(n) == Token("caret", n, "")
            whole == x \o y
            shorter == x \o (IF y = <<>> THEN <<>> ELSE SubSeq(y, 1, Len(y) - 1))
            last == y[Len(y)]
            walks == \E t \in Set(y) : t.kind \in {"tilde", "caret"}
            commits == \A o \in found(shorter) : Repo.obj[o].type = "commit"
            at(path) == R!ResolveRevPath(Repo, whole, path, <<"d">>)
        IN  /\ y # <<>> /\ commits =>
                  found(whole) = UNION {R!OneSuffix(Repo, o, last) : o \in found(shorter)}
            /\ y # <<>> /\ last.kind = "tilde" /\ last.n > 0 =>
                  found(whole) = found(Append(shorter \o <<Token("tilde", last.n - 1, "")>>, caret(1)))
            /\ walks /\ last.kind # "peel" /\ last.n > 0 => \A o \in found(whole) : Repo.obj[o].type = "commit"
            /\ \A p \in {<<"d">>, <<"f">>} : \A q \in {"f", "d"} :
                  at(Append(p, q)) = UNION {R!Entry(Repo, t, q) : t \in at(p)}
            /\ at(<<".", "f">>) = at(<<"d", "f">>) /\ at(<<"..", "f">>) = at(<<"f">>)

-------------------------------------------------------------------------------
(* Renames among three deleted and three added files.                      *)

ChunkTexts == {<<>>, <<1, 2>>, <<1, 3>>, <<2, 1>>, <<3, 4>>, <<1, 2, 3>>}
Deleted == <<<<"d", "m">>, <<"d", "n">>, <<"e", "m">>>>
Added == <<<<"a", "m">>, <<"a", "n">>, <<"b", "n">>>>
FileList(status, paths, f) ==
    [i \in DOMAIN paths |-> [status |-> IF f[i] = <<9>> THEN "modified" ELSE status, path |-> paths[i],
                             old |-> f[i], new |-> f[i]]]

\* Every entry is in one pair or left; no source and no destination is used twice; a
\* pair is similar enough; no deleted file of the very content of a renamed one was
\* passed over; and, below the limit, nothing that is left could have been paired
\* (detectRenames).
RenamesRight ==
    what = "renames" /\ step = 2 =>
        LET diffs == FileList("deleted", Deleted, x) \o FileList("added", Added, y)
            r == N!DetectRenames(diffs)
            from == [i \in DOMAIN r.renames |-> r.renames[i].from]
            to == [i \in DOMAIN r.renames |-> r.renames[i].to]
            left(status) == {e \in Set(r.remaining) : e.status = status}
        IN  /\ Injective(from \o to \o r.remaining)
            /\ Set(from \o to \o r.remaining) = Set(diffs)
            /\ \A p \in Set(r.renames) :
                  /\ p.from.status = "deleted" /\ p.to.status = "added"
                  /\ p.from.old = p.to.new \/ p.similarity >= Threshold
                  /\ \A d \in left("deleted") : p.to.new = d.old => p.from.old = d.old
            /\ \A d \in left("deleted"), a \in left("added") :
                  /\ d.old # a.new
                  /\ r.needed = 0 => N!ComputeSimilarity(d.old, a.new) < Threshold

-------------------------------------------------------------------------------
(* Merges of trees: at most two files on each side, or one of any mode, or *)
(* the bases of a criss-cross.                                             *)

File(content, mode) == [hash |-> content, mode |-> mode]
Place1 == <<<<1>>, 1>>
Place2 == <<<<1>>, 2>>
Places == {Place1, Place2, <<<<2>>, 1>>, <<<<2>>, 2>>}
TreesOf(places, Vs, n) == UNION {[T -> Vs] : T \in {Q \in SUBSET places : Cardinality(Q) <= n}}
Plain == {File(c, 1) : c \in {<<1, 2>>, <<1, 3>>, <<4, 2>>, <<5, 6>>}}
Kinds == {File(c, m) : c \in {<<1, 2>>, <<1, 3>>, <<0, 2>>}, m \in 1..3}
Bases == {Place1 :> File(<<1, 2>>, 1) @@ t : t \in {<<>>, Place2 :> File(<<5, 6>>, 1), Place2 :> File(<<1, 3>>, 1)}}
PlainTrees == TreesOf(Places, Plain, 2)
KindTrees == TreesOf({Place1, <<<<2>>, 1>>}, Kinds, 1)
Rows == {File(<<a, 5, 6, b>>, 1) : a \in {1, 2, 3}, b \in {1, 2}}
RowTrees == TreesOf({Place1, <<<<2>>, 1>>}, Rows, 1)

LinesOf(t) == UNION {Set(t[p].hash) : p \in DOMAIN t}
MergeIs(out, t) == out.conflicts = <<>> /\ O!TreeOf(out.entries) = t

\* Every path has one entry, or one at each of some stages.
OnePerStage(s) ==
    \A i, j \in DOMAIN s : i # j /\ s[i].path = s[j].path =>
        s[i].stage > 0 /\ s[j].stage > 0 /\ s[i].stage # s[j].stage

\* Who goes where in a merge, by a rename or with a renamed directory.
Moves(T) ==
    LET r2 == O!RenamesOf(T, 2)
        r3 == O!RenamesOf(T, 3)
        dirs == O!DirectoryMoves(T, r2, r3)
        follow(t, r, m, ex) ==
            UNION {{<<p, to>> : to \in O!ApplyDirRename(p, m, ex)} :
                   p \in (DOMAIN t \ DOMAIN T.base) \ O!NewPaths(r)}
    IN  {<<r.from.path, r.to.path>> : r \in Set(r2) \cup Set(r3)}
            \cup follow(T.ours, r2, dirs.theirs, DOMAIN dirs.ours)
            \cup follow(T.theirs, r3, dirs.ours, DOMAIN dirs.theirs)
MeetNowhere(T) == \A a, b \in Moves(T) : a[2] = b[2] => a = b

\* A file one side renamed to p, where the other side has another file: one of the very
\* same content, or next to a second new name of the first.
Crowded(T) ==
    LET meets(mine, other, there) ==
            \E r \in Set(mine) :
                LET to == r.to.path
                    also == {q \in Set(other) : q.from.path = r.from.path}
                IN  /\ to \in DOMAIN there /\ \A q \in also : q.to.path # to
                    /\ also # {} \/ there[to].hash = r.to.new
        r2 == O!RenamesOf(T, 2)
        r3 == O!RenamesOf(T, 3)
    IN  meets(r2, r3, T.theirs) \/ meets(r3, r2, T.ours)

\* What one side alone did, or both did alike, is the merge.  Else every line a side
\* added is in an entry, the worktree has a file where and only where a side has an
\* entry, sides changed over give the entries changed over, and as long as no two files
\* go to one place no path has two entries of a stage (mergeOrtNonRecursive).
TreesMergeWhole ==
    what \in {"trees", "kinds"} /\ step = 2 =>
        LET T == [base |-> x.base, ours |-> x.ours, theirs |-> y]
            out == O!MergeOrtNonRecursive(x.base, x.ours, y)
            back == O!MergeOrtNonRecursive(x.base, y, x.ours)
            stages(o, two, three) == {<<e.path, IF e.stage = 2 THEN two ELSE IF e.stage = 3 THEN three ELSE e.stage>> :
                                      e \in Set(o.entries)}
        IN  /\ y \in {x.base, x.ours} => MergeIs(out, x.ours)
            /\ x.ours = x.base => MergeIs(out, y)
            /\ stages(out, 3, 2) = stages(back, 2, 3)
            /\ MeetNowhere(T) => OnePerStage(out.entries)
            /\ MeetNowhere(T) /\ ~Crowded(T) =>
                  (LinesOf(x.ours) \cup LinesOf(y)) \ LinesOf(x.base)
                      \subseteq UNION {Set(e.hash) : e \in Set(out.entries)}
            /\ {e.path : e \in {f \in Set(out.entries) : f.stage # 1}}
                  = {e.path : e \in Set(O!ResultTree(out))}

\* The file a path that both added leaves in the worktree shows both of them.
AddAddShown ==
    what = "trees" /\ step = 2 =>
        LET out == O!MergeOrtNonRecursive(x.base, x.ours, y)
            tree == O!TreeOf(O!ResultTree(out))
        IN  \A c \in Set(out.conflicts) : \A e \in Set(out.entries) :
                c.reason = "add-add" /\ e.path = c.path /\ e.stage # 1 => Set(e.hash) \subseteq Set(tree[c.path].hash)

\* A criss-cross whose two bases merge without conflict is merged against just that: when
\* one side is this merge, the result is the other side (mergeOrtRecursive,
\* computeRecursiveMergeBase).
CrissCrossSettles ==
    what = "cross" /\ step = 2 =>
        LET both == O!MergeOrtNonRecursive(x.trees[1], x.trees[2], x.trees[3])
            merged == O!TreeOf(both.entries)
            h == [parents |-> <<<<>>, <<1>>, <<1>>, <<2, 3>>, <<3, 2>>>>, date |-> x.date, tree |-> <<1, 1, 1, 1, 1>>,
                  here |-> 1..5, trees |-> x.trees \o <<merged, y>>]
        IN  both.conflicts = <<>> =>
                MergeIs(O!MergeOrtRecursive(h, 4, 5), y) /\ MergeIs(O!MergeOrtRecursive(h, 5, 4), y)

-------------------------------------------------------------------------------
(* The wire, in chunks of any size.                                        *)

Hash(i) == FirstWord + 20 + i
Hashes == {<<>>, <<Hash(1)>>, <<Hash(1), Hash(2)>>}
PackBytes(n) == [i \in 1..n |-> i % 5]
ShallowUpdates == {[shallow |-> s, unshallow |-> u] : s \in UpTo({Hash(3)}, 1), u \in UpTo({Hash(4)}, 1)}
Commands == {[old |-> W!ZeroHash, new |-> Hash(1), ref |-> Hash(5)], [old |-> Hash(1), new |-> W!ZeroHash, ref |-> Hash(6)],
             [old |-> Hash(1), new |-> Hash(2), ref |-> Hash(7)]}
Results == [name : {Hash(5), Hash(6)}, ok : {TRUE}, error : {0}] \cup [name : {Hash(5)}, ok : {FALSE}, error : {Hash(7)}]
Refs == [hash : {Hash(1)}, name : {<<Hash(5)>>, <<Hash(6)>>, <<Hash(5), W!Peel>>}]

\* A buffer in chunks, the first of one size, the others of another.
Chunked(buf, first, size) ==
    LET n == Len(buf)
        starts == [i \in 1..(n \div size + 2) |-> IF i = 1 THEN 1 ELSE first + 1 + (i - 2) * size]
        end(i) == LET e == IF i = 1 THEN first ELSE starts[i] + size - 1 IN IF e > n THEN n ELSE e
    IN  [i \in DOMAIN starts |-> SubSeq(buf, starts[i], end(i))]

\* What is sent is read back, whole or in chunks of any size: a fetch request, the
\* answer to it with its acknowledgments, shallow updates and pack, an advertisement, a
\* push, the report on it, and the pack of version 2, streamed or not
\* (pkt-line.ts, smart-http.ts, protocol.ts).
WireReadsBack ==
    step = 2 =>
        LET cut(buf) == Chunked(buf, y.first, y.size)
            acks(h) == IF h = <<>> THEN <<<<W!Nak>>>>
                       ELSE [i \in DOMAIN h |-> <<W!Ack, h[i], W!Common>>]
                            \o <<<<W!Ack, h[Len(h)], W!Ready>>, <<W!Ack, h[Len(h)]>>>>
        IN  CASE what = "fetchwire" ->
                    LET pack == PackBytes(x.size)
                        ask == W!ParseUploadPackRequest(W!FetchRequest(x.wants, <<Hash(8)>>, x.common, <<<<W!Deepen, 3>>>>, x.common))
                        sent == W!FramePackResponse(W!Preamble(x.common, x.shallow), pack, TRUE)
                        got == [pack |-> pack, failed |-> FALSE,
                                acks |-> [i \in DOMAIN acks(x.common) |-> [type |-> "data", data |-> acks(x.common)[i]]],
                                shallow |-> IF x.shallow = <<>> THEN <<>> ELSE x.shallow[1].shallow,
                                unshallow |-> IF x.shallow = <<>> THEN <<>> ELSE x.shallow[1].unshallow]
                        sections == W!V2Sections(x.common, IF x.shallow = <<>> THEN [shallow |-> <<>>, unshallow |-> <<>>]
                                                           ELSE x.shallow[1], <<>>)
                        v2(bytes) == W!DemuxSidebandStreaming(W!ParsePktLinesFromStream(cut(bytes)).lines)
                        whole == v2(W!BuildV2FetchResponse(sections, pack))
                        pieces == v2(W!ConcatPktLines(W!BuildV2FetchResponseStreaming(sections, cut(pack))))
                    IN  /\ ask = [bad |-> FALSE, wants |-> x.wants, haves |-> x.common, caps |-> <<Hash(8)>>,
                                  shallows |-> x.common, depth |-> <<3>>, done |-> TRUE]
                        /\ W!ParseFetchResponseStreaming(cut(sent)) = got
                        /\ W!ParseFetchResponseBatch(sent, TRUE) = got
                        /\ whole = pieces /\ whole.pack = pack /\ ~whole.failed
             [] what = "pushwire" ->
                    LET sent == W!PushRequest(x.commands, <<Hash(8), Hash(9)>>, PackBytes(7))
                        plain == W!BuildReportStatus(TRUE, x.results, FALSE)
                        banded == W!BuildReportStatus(TRUE, x.results, TRUE)
                        report == [bad |-> FALSE, report |-> [unpacked |-> TRUE, results |-> x.results]]
                        peeled == {i \in DOMAIN x.refs : Len(x.refs[i].name) = 2}
                        adv == W!ParseRefAdvertisement(
                                   W!ParsePktLinesFromStream(cut(W!BuildRefAdvertisement(x.refs, Hash(10), <<Hash(8)>>))).lines, Hash(10))
                    IN  /\ W!ParseReceivePackRequest(sent) =
                              [commands |-> x.commands, flush |-> TRUE, pack |-> PackBytes(7), caps |-> <<Hash(8), Hash(9)>>]
                        /\ W!ParseReportStatusBatch(plain, FALSE) = report
                        /\ banded # W!Bad => /\ W!ParseReportStatusStreaming(cut(banded)) = report
                                              /\ W!ParseReportStatusBatch(banded, TRUE) = report
                        /\ adv.caps = <<Hash(8)>> /\ adv.refs = SelectSeq(x.refs, LAMBDA r : Len(r.name) = 1)
                        /\ adv.peeled = {<<x.refs[i].hash, <<Hash(5)>>>> : i \in peeled}
             [] OTHER -> TRUE

-------------------------------------------------------------------------------
(* The inputs.                                                             *)

FirstInput ==
    \/ what = "diff" /\ x' \in Texts
    \/ what = "long" /\ x' \in LongTexts
    \/ what = "merge" /\ x' \in Texts
    \/ what = "blame" /\ x' \in Shapes
    \/ what = "bits" /\ x' \in Bits(5)
    \/ what = "longbits" /\ x' \in LongBits
    \/ what = "offset" /\ x' \in [1..1 -> 0..40]
    \/ what = "pack" /\ x' \in {s \in [1..3 -> Objects] : Injective(s)}
    \/ what = "glob" /\ x' \in UpTo(PatternChars, 4)
    \/ what = "stars" /\ x' \in [1..5 -> {"a", "/", "*"}] \cup [1..6 -> {"/", "*"}]
    \/ what = "ignore" /\ x' \in UpTo(IgnoreChars, 4)
    \/ what = "walk" /\ x' \in Histories
    \/ what = "name" /\ x' \in Names
    \/ what = "renames" /\ x' \in [1..3 -> ChunkTexts \cup {<<9>>}]
    \/ what = "trees" /\ x' \in [base : Bases, ours : PlainTrees]
    \/ what = "kinds" /\ x' \in [base : KindTrees, ours : KindTrees]
    \/ what = "cross" /\ x' \in [trees : [1..3 -> RowTrees], date : {<<1, 2, 3, 4, 5>>, <<1, 3, 2, 4, 5>>}]
    \/ what = "fetchwire" /\ x' \in [wants : Hashes \ {<<>>}, common : Hashes, size : {0, 25, 26, 60},
                                     shallow : {<<>>} \cup {<<u>> : u \in ShallowUpdates}]
    \/ what = "pushwire" /\ x' \in [commands : UpTo(Commands, 2) \ {<<>>}, results : UpTo(Results, 2), refs : UpTo(Refs, 2)]

SecondInput ==
    \/ what = "diff" /\ y' \in Texts
    \/ what = "long" /\ y' \in LongTexts
    \/ what = "merge" /\ y' \in [base : UpTo(Lines, 2), ours : UpTo(Lines, 2), keep : BOOLEAN, taste : 0..1]
    \/ what = "blame" /\ y' \in [texts : [1..4 -> FileTexts], old : {{}, 1..3, {1, 3}}]
    \/ what = "bits" /\ y' \in Bits(5)
    \/ what = "longbits" /\ y' \in LongBits
    \/ what = "offset" /\ UNCHANGED y
    \/ what = "pack" /\ y' \in {<<1>>, <<2>>}
    \/ what = "glob" /\ y' \in UpTo(PathChars, 3)
    \/ what = "stars" /\ y' \in UpTo({"a", "/"}, 5)
    \/ what = "ignore" /\ y' \in [path : UpTo(PathChars, 3), other : {<<"!", "a">>, <<"b", "/">>}]
    \/ what = "walk" /\ y' \in Walks
    \/ what = "name" /\ y' \in UpTo(Hung, 2)
    \/ what = "renames" /\ y' \in [1..3 -> ChunkTexts \cup {<<9>>}]
    \/ what = "trees" /\ y' \in PlainTrees
    \/ what = "kinds" /\ y' \in KindTrees
    \/ what = "cross" /\ y' \in RowTrees
    \/ what \in {"fetchwire", "pushwire"} /\ y' \in [first : {0, 3}, size : {1, 40}]

Init == what \in Families /\ step = 0 /\ x = <<>> /\ y = <<>>
Next == \/ step = 0 /\ step' = 1 /\ FirstInput /\ UNCHANGED <<what, y>>
        \/ step = 1 /\ step' = 2 /\ SecondInput /\ UNCHANGED <<what, x>>
        \/ step = 2 /\ step' = 3 /\ x' = <<>> /\ y' = <<>> /\ UNCHANGED what
Spec == Init /\ [][Next]_vars

-------------------------------------------------------------------------------
(* What is asked of each kind of input.                                    *)

\* Texts: a diff is a script from one text to the other, a three-way merge keeps what
\* each side did, blame names the commit a line came with (diff-algorithm.ts, diff3.ts,
\* blame.ts).
TextsRight == [][DiffIsScript /\ MergeSound /\ BlameHonest]_vars

\* Bytes: packs, deltas and indexes, and what goes over the wire in chunks of any size,
\* are read back as they were (packfile.ts, pack-index.ts, pkt-line.ts, protocol.ts).
BytesReadBack == [][PacksReadBack /\ WireReadsBack]_vars

\* Paths: wildmatch, pathspecs and ignore rules mean what their patterns say, whatever
\* short cut is taken (wildmatch.ts, pathspec.ts, ignore.ts).
PathsRight == [][WildmatchIsGlob /\ IgnoredAsLastLine]_vars

\* Histories: walks, counts, ranges, describe and names of revisions agree with the
\* graph, however its dates run (commit-walk.ts, rev-parse.ts).
HistoryRight == [][WalksGiveEachOnce /\ WalksCountRight /\ NamesCompose]_vars

\* Trees: renames are paired as they should, and the recursive merge loses nothing and
\* treats its sides alike (rename-detection.ts, merge-ort.ts).
TreesMergeRight == [][RenamesRight /\ TreesMergeWhole /\ CrissCrossSettles]_vars

\* "Conflicted entries use conflict-marker blobs (content/add-add)": the file a path that
\* both added leaves in the worktree shows both of them (MergeOrtResult.resultTree).
AddAddShowsBoth == [][AddAddShown]_vars
===============================================================================
