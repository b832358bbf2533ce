------------------------------ MODULE Revisions -------------------------------
(***************************************************************************)
(* The names of revisions: what ~n, ^n, ^{type}, @{n} and :path make of    *)
(* the name of a ref.  A name is a sequence of tokens, a word and what is  *)
(* hung on it; the texts between are taken apart by the same greedy rules. *)
(* An answer is a set: empty when there is no such object.                 *)
(***************************************************************************)
EXTENDS Integers, Sequences, SequencesExt, FiniteSetsExt

Specials == {"HEAD", "FETCH_HEAD", "ORIG_HEAD", "MERGE_HEAD", "CHERRY_PICK_HEAD", "REBASE_HEAD"}
Suffix == {"tilde", "caret", "peel"}

\* Where the suffixes start: something has to be left in front of them.
SuffixStart(rev) ==
    CHOOSE i \in 1..Len(rev) :
        /\ \A j \in (i + 1)..Len(rev) : rev[j].kind \in Suffix
        /\ i = 1 \/ rev[i].kind \notin Suffix

\* The reflog index is taken only when a ref stands before it.
ParseRevSuffixes(rev) ==
    LET i == SuffixStart(rev)
        logged == i > 1 /\ rev[i].kind = "log"
    IN  [base |-> SubSeq(rev, 1, IF logged THEN i - 1 ELSE i),
         entry |-> IF logged THEN rev[i].n ELSE -1,
         suffixes |-> SubSeq(rev, i + 1, Len(rev))]

-------------------------------------------------------------------------------
(* The base.                                                               *)

At(f, x) == IF x \in DOMAIN f THEN {f[x]} ELSE {}

\* A word is looked for as a ref under each of these, in this order.
Places(w) == <<<<"heads", w>>, <<"tags", w>>, <<"remotes", w>>>>
FirstRef(r, names) ==
    LET there == {i \in DOMAIN names : names[i] \in DOMAIN r.refs}
    IN  IF there = {} THEN {} ELSE {r.refs[names[CHOOSE i \in there : \A j \in there : i <= j]]}

\* A word that reads as a short hash is one if an object has it, before any ref.
ResolveBaseRef(r, base) ==
    IF Len(base) # 1 \/ base[1].kind # "word" THEN {}
    ELSE LET w == base[1].word
             hits == IF w \in DOMAIN r.short THEN r.short[w] ELSE {}
         IN  IF w = "@" THEN At(r.refs, <<"", "HEAD">>)
             ELSE IF w \in Specials THEN At(r.refs, <<"", w>>)
             ELSE IF w \in DOMAIN r.full THEN r.full[w]
             ELSE IF Cardinality(hits) > 1 THEN {}
             ELSE IF hits # {} THEN hits
             ELSE FirstRef(r, Places(w))

ReflogRefName(base) ==
    IF base[1].word = "@" THEN <<"", "HEAD">>
    ELSE IF base[1].word \in Specials THEN <<"", base[1].word>>
    ELSE <<"heads", base[1].word>>

\* @{0} is the newest entry of the log.
ResolveReflogEntry(r, base, n) ==
    LET log == IF Len(base) = 1 /\ base[1].kind = "word" /\ ReflogRefName(base) \in DOMAIN r.logs
               THEN r.logs[ReflogRefName(base)] ELSE <<>>
    IN  IF n < Len(log) THEN {log[Len(log) - n]} ELSE {}

-------------------------------------------------------------------------------
(* The suffixes.                                                           *)

RECURSIVE PeelToCommit(_, _)
PeelToCommit(r, o) ==
    CASE r.obj[o].type = "commit" -> {o}
      [] r.obj[o].type = "tag" -> PeelToCommit(r, r.obj[o].to)
      [] OTHER -> {}

RECURSIVE PeelToTree(_, _)
PeelToTree(r, o) ==
    CASE r.obj[o].type = "tree" -> {o}
      [] r.obj[o].type \in {"tag", "commit"} -> PeelToTree(r, r.obj[o].to)
      [] OTHER -> {}

PeelToType(r, o, type) ==
    CASE type \in {"", "commit"} -> PeelToCommit(r, o)
      [] type = "tree" -> {r.obj[c].to : c \in PeelToCommit(r, o)}
      [] OTHER -> {x \in {o} : r.obj[x].type = type}

\* The parents of what is read as a commit: of anything else there are none.
Parents(r, o) == IF r.obj[o].type = "commit" THEN r.obj[o].parents ELSE <<>>
NthParent(r, o, n) == IF n <= Len(Parents(r, o)) THEN {Parents(r, o)[n]} ELSE {}

\* (Mutant: ~n taken for ^1.)
Ancestor_once(r, o, n) == NthParent(r, o, 1)
\* Tilde: the first parent, n times.
RECURSIVE Ancestor(_, _, _)
Ancestor(r, o, n) ==
    IF n = 0 THEN {o} ELSE UNION {Ancestor(r, p, n - 1) : p \in NthParent(r, o, 1)}

OneSuffix(r, o, s) ==
    CASE s.kind = "peel" -> PeelToType(r, o, s.word)
      [] s.kind = "tilde" -> Ancestor(r, o, s.n)
      [] s.kind = "caret" -> IF s.n = 0 THEN {o} ELSE NthParent(r, o, s.n)

\* A tag is peeled once, before the first suffix, when one of them is ~ or ^.
ApplySuffixes(r, o, suffixes) ==
    LET walks == \E i \in DOMAIN suffixes : suffixes[i].kind \in {"tilde", "caret"}
        step(found, s) == UNION {OneSuffix(r, x, s) : x \in found}
    IN  FoldLeft(step, IF walks THEN PeelToCommit(r, o) ELSE {o}, suffixes)

ResolveRevision(r, rev) ==
    LET p == ParseRevSuffixes(rev)
        base == IF p.entry >= 0 THEN ResolveReflogEntry(r, p.base, p.entry)
                ELSE ResolveBaseRef(r, p.base)
    IN  UNION {ApplySuffixes(r, o, p.suffixes) : o \in base}

-------------------------------------------------------------------------------
(* <rev>:<path> and :<stage>:<path>.  A path is a sequence of names; an    *)
(* empty last name is a trailing slash.                                    *)

\* join and normalize: "." dropped, ".." taken back, {} when it leaves the root.
RECURSIVE Normal(_, _)
Normal(done, rest) ==
    IF rest = <<>> THEN {done}
    ELSE IF Head(rest) \in {"", "."} THEN Normal(done, Tail(rest))
    ELSE IF Head(rest) = ".." THEN (IF done = <<>> THEN {} ELSE Normal(Front(done), Tail(rest)))
    ELSE Normal(Append(done, Head(rest)), Tail(rest))

ResolveCwdRelative(path, cwd) ==
    IF Len(path) < 2 \/ path[1] \notin {".", ".."} THEN {path}
    ELSE {IF Last(path) = "" /\ p # <<>> THEN Append(p, "") ELSE p : p \in Normal(cwd, path)}

\* One name looked up in what has to be a tree.
Entry(r, o, name) ==
    IF name \in {"", ".", ".."} \/ r.obj[o].type # "tree" THEN {} ELSE At(r.obj[o].entries, name)

InTree(r, tree, path) ==
    LET slash == path # <<>> /\ Last(path) = ""
        names == IF slash THEN Front(path) ELSE path
        found == FoldLeft(LAMBDA at, name : UNION {Entry(r, o, name) : o \in at}, {tree}, names)
    IN  {o \in found : slash => r.obj[o].type = "tree"}

ResolveRevPath(r, rev, path, cwd) ==
    UNION {UNION {InTree(r, t, p) : p \in ResolveCwdRelative(path, cwd)} :
              t \in UNION {PeelToTree(r, o) : o \in ResolveRevision(r, rev)}}

ResolveStagePath(r, stage, path, cwd) ==
    UNION {At(r.index, <<stage, p>>) : p \in ResolveCwdRelative(path, cwd)}
===============================================================================
