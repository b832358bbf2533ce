-------------------------------- MODULE Blame ---------------------------------
(***************************************************************************)
(* blame: every line of a file is followed back through the parents that   *)
(* have it.  A history has the parents of every commit and the text of     *)
(* each file it has; a file has a line diff to each version it came from.  *)
(* A line is a record: where it is in the file asked for, and where in the *)
(* version of the commit it was followed to.                               *)
(***************************************************************************)
EXTENDS Diff, Renames

Has(h, c, path) == path \in DOMAIN h.files[c]
Text(h, c, path) == h.files[c][path]

\* The changes from one commit to another, as the rename detection sees them.
Changes(h, p, c) ==
    LET gone == DOMAIN h.files[p] \ DOMAIN h.files[c]
        new == DOMAIN h.files[c] \ DOMAIN h.files[p]
        entry(status, path, f) == [status |-> status, path |-> path, old |-> f, new |-> f]
    IN  SetToSeq({entry("deleted", x, Text(h, p, x)) : x \in gone}
                     \cup {entry("added", x, Text(h, c, x)) : x \in new})

FindRenamedPath(h, p, c, path) ==
    {r.from.path : r \in {x \in Range(DetectRenames(Changes(h, p, c)).renames) : x.to.path = path}}

\* The parents that have the file, under its name or the one it was renamed from.
\* The first that has the very same text ends the list.
ParentsWith(h, c, path) ==
    LET names(p) == IF Has(h, p, path) THEN {path} ELSE FindRenamedPath(h, p, c, path)
        of(p) == IF names(p) = {} THEN <<>>
                 ELSE <<[hash |-> p, path |-> CHOOSE x \in names(p) : TRUE]>>
    IN  FlattenSeq([i \in DOMAIN h.parents[c] |-> of(h.parents[c][i])])
Same(h, c, path, info) == Text(h, info.hash, info.path) = Text(h, c, path)

\* Which line of the old text the diff keeps as line n: 0 if none.
KeptAs(old, new, n) ==
    LET K == {e \in Range(Diff(old, new, 1)) : e.type = "keep" /\ e.new = n}
    IN  IF K = {} THEN 0 ELSE (CHOOSE e \in K : TRUE).old

Entry(u, c, path, boundary) ==
    [final |-> u.final, hash |-> c, path |-> path, line |-> u.line, boundary |-> boundary]
Entries(us, c, path, boundary) == {Entry(u, c, path, boundary) : u \in us}

\* (Mutant: a line keeps its number.)
Traced_unmoved(h, c, path, info, us) ==
    {u \in us : KeptAs(Text(h, info.hash, info.path), Text(h, c, path), u.line) # 0}
\* The lines of us a parent has, where they are in it.
Traced(h, c, path, info, us) ==
    LET old(u) == KeptAs(Text(h, info.hash, info.path), Text(h, c, path), u.line)
    IN  {[final |-> u.final, line |-> old(u)] : u \in {x \in us : old(x) # 0}}
Rest(us, gone) == {u \in us : \A g \in gone : g.final # u.final}

\* blameLines, for lines of a merge's other parent: of several parents that have
\* the file it follows the first.
RECURSIVE BlameLines(_, _, _, _)
BlameLines(h, c, path, us) ==
    LET infos == ParentsWith(h, c, path)
        same == {i \in DOMAIN infos : Same(h, c, path, infos[i])}
    IN  IF us = {} THEN {}
        ELSE IF ~Has(h, c, path) THEN Entries(us, c, path, FALSE)
        ELSE IF h.parents[c] = <<>> THEN Entries(us, c, path, TRUE)
        ELSE IF same # {}
        THEN LET to == infos[Least(same)] IN BlameLines(h, to.hash, to.path, us)
        ELSE IF infos = <<>> THEN Entries(us, c, path, FALSE)
        ELSE LET on == Traced(h, c, path, infos[1], us)
             IN  Entries(Rest(us, on), c, path, FALSE)
                    \cup BlameLines(h, infos[1].hash, infos[1].path, on)

\* blame: at a merge each line goes to the first parent that has it, those of the
\* first are followed on here, the others by blameLines.
RECURSIVE Follow(_, _, _, _)
Follow(h, c, path, us) ==
    LET infos == ParentsWith(h, c, path)
        same == {i \in DOMAIN infos : Same(h, c, path, infos[i])}
        traced(i) == Traced(h, c, path, infos[i], us)
        group(i) == {u \in traced(i) : \A j \in 1..(i - 1) : \A v \in traced(j) : v.final # u.final}
        found == UNION {group(i) : i \in DOMAIN infos}
    IN  IF us = {} THEN {}
        ELSE IF h.parents[c] = <<>> THEN Entries(us, c, path, TRUE)
        ELSE IF same # {}
        THEN LET to == infos[Least(same)] IN Follow(h, to.hash, to.path, us)
        ELSE IF infos = <<>> THEN Entries(us, c, path, FALSE)
        ELSE Entries(Rest(us, found), c, path, FALSE)
                \cup Follow(h, infos[1].hash, infos[1].path, group(1))
                \cup UNION {BlameLines(h, infos[i].hash, infos[i].path, group(i)) : i \in 2..Len(infos)}

\* The lines from first to last of the file at c.
BlameFile(h, c, path, first, last) ==
    Follow(h, c, path, {[final |-> n, line |-> n] : n \in first..last})
===============================================================================
