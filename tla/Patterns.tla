-------------------------------- MODULE Patterns ------------------------------
(***************************************************************************)
(* The patterns of .gitignore files and of pathspecs: wildmatch with its   *)
(* early exits, the ignore lists with their shortcuts around it, the order *)
(* in which the lists are asked, and pathspecs.  A pattern or a path is a  *)
(* sequence of characters; a bracket expression counts as one of them.     *)
(***************************************************************************)
EXTENDS Integers, Sequences, SequencesExt, FiniteSetsExt

\* Bracket expressions, and what they stand for among the characters of a path.
Class == [c \in {"[ab]", "[!a]"} |-> IF c = "[ab]" THEN {"a", "b"} ELSE {"b", "B", "#", " "}]

Least(S) == CHOOSE i \in S : \A j \in S : i <= j
Smaller(i, j) == IF i < j THEN i ELSE j
Greatest(S) == CHOOSE i \in S : \A j \in S : i >= j
Chars(s) == {s[i] : i \in DOMAIN s}
From(s, i) == SubSeq(s, i, Len(s))
Folded(c) == CASE c = "A" -> "a" [] c = "B" -> "b" [] OTHER -> c

-------------------------------------------------------------------------------
(* wildmatch.                                                              *)

GlobSpecial == {"*", "?", "\\"} \cup DOMAIN Class
CharEqual(x, y, fold) == x = y \/ (fold /\ Folded(x) = Folded(y))
InClass(c, x, fold) == x \in Class[c] \/ (fold /\ \E y \in Class[c] : Folded(x) = Folded(y))

\* The stars that begin at i cross directories: any do without WM_PATHNAME, and with it two
\* or more that are all there is between slashes.
Crosses(p, i, j, pathname) ==
    \/ ~pathname
    \/ /\ j > i
       /\ i = 1 \/ p[i - 1] = "/"
       /\ j = Len(p) \/ p[j + 1] = "/" \/ (j + 2 <= Len(p) /\ p[j + 1] = "\\" /\ p[j + 2] = "/")

\* (Mutant: a failure below one star ends the search below "**" too.)
Ends_all(r, crosses) == r # "nomatch"

\* What a failure further right ends: one at a slash does not end a search that may cross it.
Ends(r, crosses) == r # "nomatch" /\ (~crosses \/ r # "starstar")

\* dowild: the pattern from i against the text from k.
RECURSIVE Dowild(_, _, _, _, _, _), Stars(_, _, _, _, _, _, _)
Dowild(p, i, t, k, pathname, fold) ==
    LET Step(n) == Dowild(p, i + n, t, k + 1, pathname, fold)
        j == Greatest({m \in i..Len(p) : \A l \in i..m : p[l] = "*"})
        crosses == Crosses(p, i, j, pathname)
        slashes == {l \in k..Len(t) : t[l] = "/"}
    IN  IF i > Len(p) THEN IF k > Len(t) THEN "match" ELSE "nomatch"
        ELSE IF p[i] # "*" /\ k > Len(t) THEN "all"
        ELSE IF p[i] = "\\"
        THEN IF i = Len(p) THEN "all" ELSE IF CharEqual(t[k], p[i + 1], fold) THEN Step(2) ELSE "nomatch"
        ELSE IF p[i] = "?" THEN IF pathname /\ t[k] = "/" THEN "nomatch" ELSE Step(1)
        ELSE IF p[i] \in DOMAIN Class
        THEN IF (pathname /\ t[k] = "/") \/ ~InClass(p[i], t[k], fold) THEN "nomatch" ELSE Step(1)
        ELSE IF p[i] # "*" THEN IF CharEqual(t[k], p[i], fold) THEN Step(1) ELSE "nomatch"
        ELSE IF /\ pathname /\ crosses /\ j < Len(p) /\ p[j + 1] = "/"
                /\ Dowild(p, j + 2, t, k, pathname, fold) = "match"
        THEN "match"
        ELSE IF j = Len(p) THEN IF ~crosses /\ slashes # {} THEN "starstar" ELSE "match"
        ELSE IF ~crosses /\ p[j + 1] = "/"
        THEN IF slashes = {} THEN "all" ELSE Dowild(p, j + 2, t, Least(slashes) + 1, pathname, fold)
        ELSE Stars(p, j + 1, t, k, pathname, fold, crosses)

\* The rest of the pattern at k, or further right; a plain character is looked for first.
Stars(p, i, t, k, pathname, fold, crosses) ==
    LET here(l) == CharEqual(t[l], p[i], fold)
        stops == {l \in k..Len(t) : ~crosses /\ t[l] = "/"}
        hits == {l \in k..Len(t) : here(l) /\ ~\E s \in stops : s <= l}
        at == IF p[i] \in GlobSpecial THEN k ELSE IF hits = {} THEN 0 ELSE Least(hits)
        r == Dowild(p, i, t, at, pathname, fold)
    IN  IF k > Len(t) THEN "all"
        ELSE IF at = 0 THEN IF crosses THEN "all" ELSE "starstar"
        ELSE IF Ends(r, crosses) THEN r
        ELSE IF r = "nomatch" /\ ~crosses /\ t[at] = "/" THEN "starstar"
        ELSE Stars(p, i, t, at + 1, pathname, fold, crosses)

Wildmatch(p, t, pathname, fold) == Dowild(p, 1, t, 1, pathname, fold) = "match"

-------------------------------------------------------------------------------
(* parsePatternLine.  An ignore pattern is the empty sequence where the    *)
(* line gives none.                                                        *)

RECURSIVE Stripped(_)
Stripped(line) ==
    LET n == Len(line)
    IN  IF n = 0 \/ line[n] # " " THEN line
        ELSE IF n >= 2 /\ line[n - 1] = "\\" THEN Append(SubSeq(line, 1, n - 2), " ")
        ELSE Stripped(Front(line))

\* simpleLength: how far a pattern is plain; an escaped character counts as plain, and its
\* backslash is counted with it.
RECURSIVE SimpleLength(_)
SimpleLength(p) ==
    IF p = <<>> \/ Head(p) \in {"*", "?"} \cup DOMAIN Class THEN 0
    ELSE IF Head(p) = "\\" /\ Len(p) > 1 THEN 2 + SimpleLength(From(p, 3))
    ELSE 1 + SimpleLength(Tail(p))

Pattern(line, base) ==
    LET s == Stripped(line)
        negative == s # <<>> /\ s[1] = "!"
        q == IF negative THEN Tail(s) ELSE s
        mustBeDir == q # <<>> /\ Last(q) = "/"
        p == IF mustBeDir THEN Front(q) ELSE q
    IN  IF s = <<>> \/ s[1] = "#" \/ q = <<>> THEN <<>>
        ELSE <<[pat |-> p, negative |-> negative, mustBeDir |-> mustBeDir,
                nodir |-> "/" \notin Chars(p), plain |-> SimpleLength(p),
                endsWith |-> p # <<>> /\ p[1] = "*" /\ SimpleLength(Tail(p)) = Len(p) - 1,
                base |-> base]>>

ParseIgnoreFile(lines, base) == FlattenSeq([i \in DOMAIN lines |-> Pattern(lines[i], base)])

-------------------------------------------------------------------------------
(* matchBasename, matchPathname, lastMatchingPattern, isIgnored.           *)

Basename(path) ==
    LET S == {i \in DOMAIN path : path[i] = "/"}
    IN  IF S = {} THEN path ELSE From(path, Greatest(S) + 1)
Under(path, base) == base = <<>> \/ IsStrictPrefix(Append(base, "/"), path)
NameUnder(path, base) == IF base = <<>> THEN path ELSE From(path, Len(base) + 2)

MatchBasename(pt, name) ==
    IF pt.plain = Len(pt.pat) THEN name = pt.pat
    ELSE IF pt.endsWith THEN IsSuffix(Tail(pt.pat), name)
    ELSE Wildmatch(pt.pat, name, TRUE, FALSE)

MatchPathname(pt, path) ==
    LET rooted == pt.pat # <<>> /\ pt.pat[1] = "/"
        pat == IF rooted THEN Tail(pt.pat) ELSE pt.pat
        plain == IF rooted /\ pt.plain > 0 THEN pt.plain - 1 ELSE pt.plain
        name == NameUnder(path, pt.base)
    IN  /\ pt.base = <<>> \/ (Len(path) > Len(pt.base) /\ IsPrefix(Append(pt.base, "/"), path))
        /\ plain > 0 => plain <= Len(name) /\ SubSeq(name, 1, plain) = SubSeq(pat, 1, plain)
        /\ \/ plain > 0 /\ Len(pat) = plain /\ Len(name) = plain
           \/ Wildmatch(pat, name, TRUE, FALSE)

\* (Mutant: a pattern for directories is matched against files too.)
Applies_anyKind(pt, path, isDir) ==
    IF pt.nodir THEN Under(path, pt.base) /\ MatchBasename(pt, Basename(path)) ELSE MatchPathname(pt, path)

Applies(pt, path, isDir) ==
    /\ pt.mustBeDir => isDir
    /\ IF pt.nodir THEN Under(path, pt.base) /\ MatchBasename(pt, Basename(path)) ELSE MatchPathname(pt, path)

\* The last pattern of a list that applies, <<pattern>>, or none.
LastMatching(list, path, isDir) ==
    LET S == {i \in DOMAIN list : Applies(list[i], path, isDir)}
    IN  IF S = {} THEN <<>> ELSE <<list[Greatest(S)]>>

\* The directories' lists from the deepest up, then info/exclude, then core.excludesFile.
IsIgnored(stack, path, isDir) ==
    LET asked == Reverse(stack.dirs) \o <<stack.exclude, stack.global>>
        S == {i \in DOMAIN asked : LastMatching(asked[i], path, isDir) # <<>>}
    IN  IF S = {} THEN "undecided"
        ELSE IF LastMatching(asked[Least(S)], path, isDir)[1].negative THEN "not-ignored" ELSE "ignored"

-------------------------------------------------------------------------------
(* parsePathspec, matchPathspec, matchPathspecs.  A pathspec is given as   *)
(* its magic and its parts between slashes.                                *)

Dot == <<".">>
DotDot == <<".", ".">>
Normalized(parts) ==
    LET Next(out, part) == IF part \in {<<>>, Dot} THEN out
                           ELSE IF part = DotDot THEN IF out = <<>> THEN out ELSE Front(out)
                           ELSE Append(out, part)
    IN  FoldLeft(Next, <<>>, parts)
Slashed(parts) == FoldLeft(LAMBDA s, part : IF s = <<>> THEN part ELSE s \o <<"/">> \o part, <<>>, parts)

Pathspec(magic, parts, cwd) ==
    LET pat == Slashed(Normalized(IF "top" \in magic THEN parts ELSE cwd \o parts))
        literal == "literal" \in magic
        specials == {i \in DOMAIN pat : pat[i] \in GlobSpecial}
    IN  [pat |-> pat, magic |-> IF literal THEN magic \ {"glob"} ELSE magic,
         wild |-> ~literal /\ specials # {},
         plain |-> IF literal \/ specials = {} THEN Len(pat) ELSE Least(specials) - 1]

SameText(x, y, fold) == Len(x) = Len(y) /\ \A i \in DOMAIN x : CharEqual(x[i], y[i], fold)

MatchPathspec(spec, path) ==
    LET fold == "icase" \in spec.magic
        n == Len(spec.pat)
        begins(k) == SameText(SubSeq(spec.pat, 1, k), SubSeq(path, 1, Smaller(k, Len(path))), fold)
    IN  \/ spec.pat = <<>>
        \/ ~spec.wild /\ begins(n) /\ (Len(path) = n \/ path[n + 1] = "/" \/ Last(spec.pat) = "/")
        \/ /\ spec.wild
           /\ begins(spec.plain)
           /\ Wildmatch(spec.pat, path, "glob" \in spec.magic, fold)

MatchPathspecs(specs, path) ==
    /\ \E s \in specs : "exclude" \notin s.magic /\ MatchPathspec(s, path)
    /\ ~\E s \in specs : "exclude" \in s.magic /\ MatchPathspec(s, path)
===============================================================================
