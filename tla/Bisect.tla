--------------------------------- MODULE Bisect -------------------------------
(***************************************************************************)
(* git bisect: marks in refs/bisect, the choice of the commit to test, bad *)
(* and good, skip, run and reset.  The user may answer falsely or out of   *)
(* turn; the command of a run is taken to be right or to give up.  Commits *)
(* are numbers and a parent is less than its child.                        *)
(***************************************************************************)
EXTENDS Integers, Sequences, FiniteSets

CONSTANTS
    None,
    Parents,        \* for each commit, the sequence of its parents
    Tip,            \* the commit of the branch
    MaxMarks        \* bound: marks made by hand and starts

BisectAssumption ==
    /\ Parents \in Seq(Seq(Nat)) /\ Tip \in DOMAIN Parents /\ None \notin DOMAIN Parents
    /\ \A c \in DOMAIN Parents : \A i \in DOMAIN Parents[c] : Parents[c][i] \in 1..c - 1

VARIABLES
    culprit,        \* what made the tip bad: it and its descendants are bad
    onBranch, at,   \* HEAD: is it on the branch, and its commit
    start,          \* BISECT_START: None, a commit, or 0 for the branch
    bad, good, skip,    \* refs/bisect
    firstParent,    \* BISECT_FIRST_PARENT
    bisectHead,     \* BISECT_HEAD of --no-checkout, or None
    expected,       \* BISECT_EXPECTED_REV
    answer,         \* what was told last: "waiting", "test", "found", "skipped", "none",
                    \* "refused"
    honest,         \* has every mark been true
    marks

vars == <<culprit, onBranch, at, start, bad, good, skip, firstParent, bisectHead,
          expected, answer, honest, marks>>

Commit == DOMAIN Parents
ToSet(s) == {s[i] : i \in DOMAIN s}

\* All that a walk reaches that goes from a commit to those in line.
Reach(line) ==
    LET reach[c \in Commit] == {c} \cup UNION {reach[p] : p \in line[c]}
    IN reach

AllParents == [c \in Commit |-> ToSet(Parents[c])]
FirstParents == [c \in Commit |-> IF Parents[c] = <<>> THEN {} ELSE {Parents[c][1]}]

Ancestors == Reach(AllParents)

IsBad(c) == culprit \in Ancestors[c]

-------------------------------------------------------------------------------
(* findBisectionCommit.                                                    *)

\* (Mutant: what was skipped is no candidate any more.)
Candidates_unskipped(b, g) == Ancestors[b] \ ((UNION {Ancestors[c] : c \in g}) \cup (skip \ {b}))

Candidates(b, g) == Ancestors[b] \ UNION {Ancestors[c] : c \in g}

\* How many candidates a commit reaches, itself included, by first parents only or
\* by all of them.
Weight(c, cand, fp) ==
    Cardinality(Reach(IF fp THEN FirstParents ELSE AllParents)[c] \cap cand)

\* The candidates among cs that split best, the tip of all left out; the walk, which
\* is by date, says which of them it is.
Best(cs, cand, fp) ==
    LET dist(c) == LET d == 2 * Weight(c, cand, fp) - Cardinality(cand)
                   IN IF d < 0 THEN -d ELSE d
    IN {c \in cs : /\ dist(c) < Cardinality(cand)
                   /\ \A d \in cs : dist(c) <= dist(d)}

\* (Mutant: skipped commits are chosen like any other.)
Choices_skipped(cand, s, fp) == Best(cand, cand, fp)

Choices(cand, s, fp) == Best(cand \ s, cand, fp)

-------------------------------------------------------------------------------
(* checkAndAdvanceBisect, with the marks as they are after the command.    *)

Tell(a) == answer' = a /\ UNCHANGED <<onBranch, at, bisectHead, expected>>

\* The commit is checked out, unless the files are in the way or there is to be no
\* checkout.
Visit(c) ==
    \/ /\ bisectHead # None /\ bisectHead' = c /\ expected' = c /\ answer' = "test"
       /\ UNCHANGED <<onBranch, at>>
    \/ /\ bisectHead = None /\ onBranch' = FALSE /\ at' = c /\ expected' = c /\ answer' = "test"
       /\ UNCHANGED bisectHead
    \/ bisectHead = None /\ Tell("refused")

Advance(b, g, s, fp) ==
    IF b = None \/ g = {} THEN Tell("waiting")
    ELSE LET cand == Candidates(b, g)
         IN IF cand = {} THEN Tell("none")
            ELSE IF Cardinality(cand) = 1 THEN Tell("found")
            ELSE IF Choices(cand, s, fp) = {} THEN Tell("skipped")
            ELSE \E c \in Choices(cand, s, fp) : Visit(c)

Here == IF bisectHead # None THEN bisectHead ELSE at

-------------------------------------------------------------------------------
(* The commands.                                                           *)

Init ==
    /\ culprit \in Ancestors[Tip]
    /\ onBranch = TRUE /\ at = Tip /\ start = None
    /\ bad = None /\ good = {} /\ skip = {} /\ firstParent = FALSE /\ bisectHead = None
    /\ expected = None /\ answer = "waiting" /\ honest = TRUE /\ marks = 0

\* What cleanBisectState and the first lines of handleStart leave; one that is
\* under way is given up, and HEAD, wherever it is, is where to return to.
Start(fp) ==
    /\ marks < MaxMarks /\ marks' = marks + 1
    /\ start' = (IF onBranch THEN 0 ELSE at)
    /\ bad' = None /\ good' = {} /\ skip' = {} /\ firstParent' = fp /\ honest' = TRUE
    /\ bisectHead' \in {None, at} /\ expected' = None /\ answer' = "waiting"
    /\ UNCHANGED <<culprit, onBranch, at>>

\* (Mutant: a commit marked bad when there is one already is not noted.)
MarkBad_once(c) == bad' = (IF bad = None THEN c ELSE bad) /\ UNCHANGED good

MarkBad(c) == bad' = c /\ UNCHANGED good

MarkGood(c) == good' = good \cup {c} /\ UNCHANGED bad

\* markRevision.
Mark(c, isBad) ==
    /\ start # None
    /\ IF isBad THEN MarkBad(c) ELSE MarkGood(c)
    /\ honest' = (honest /\ isBad = IsBad(c))
    /\ Advance(bad', good', skip, firstParent)
    /\ UNCHANGED <<culprit, start, skip, firstParent>>

Skip(c) ==
    /\ start # None
    /\ skip' = skip \cup {c}
    /\ Advance(bad, good, skip', firstParent)
    /\ UNCHANGED <<culprit, start, bad, good, firstParent, honest>>

\* By hand, on any commit.
ByHand ==
    /\ marks < MaxMarks /\ marks' = marks + 1
    /\ \E c \in Commit : Skip(c) \/ \E b \in BOOLEAN : Mark(c, b)

\* One round of the loop of handleRun, which is left once it is told anything but
\* what to test next.
Run ==
    /\ answer = "test" \/ (answer = "waiting" /\ start # None)
    /\ Mark(Here, IsBad(Here)) \/ Skip(Here)
    /\ UNCHANGED marks

\* The state is gone before the checkout, which may be refused.
Reset ==
    /\ start # None
    /\ bad' = None /\ good' = {} /\ skip' = {} /\ firstParent' = FALSE /\ bisectHead' = None
    /\ expected' = None /\ start' = None
    /\ \/ onBranch' = (start = 0) /\ at' = (IF start = 0 THEN Tip ELSE start)
          /\ answer' = "waiting"
       \/ answer' = "refused" /\ UNCHANGED <<onBranch, at>>
    /\ UNCHANGED <<culprit, honest, marks>>

Next ==
    \/ \E fp \in BOOLEAN : Start(fp)
    \/ ByHand \/ Run \/ Reset

Spec == Init /\ [][Next]_vars

-------------------------------------------------------------------------------
(* Properties.                                                             *)

\* When every mark was true, whatever was skipped, started over or visited out of
\* turn, the commit that is named as the first bad one is the culprit.
FoundIsCulprit ==
    answer = "found" /\ honest => Candidates(bad, good) = {culprit}

Left(cand, s) == Cardinality(cand) + Cardinality(cand \ s)

\* A run comes to an end: each round on the commit it was told to test leaves fewer
\* candidates, or fewer that may still be chosen.  (Not so with --first-parent: the
\* weights leave side lines out, the candidates do not, and the bad commit may be
\* chosen again and again.)
RunNarrows ==
    /\ answer = "test" /\ ~firstParent /\ Here = expected /\ marks' = marks /\ start' # None
    /\ Candidates(bad, good) # {}
    => Left(Candidates(bad', good'), skip') < Left(Candidates(bad, good), skip)

-------------------------------------------------------------------------------
(* Why: invariants that imply the properties.                                *)

BisectTypes ==
    /\ culprit \in Commit /\ at \in Commit /\ start \in Commit \cup {0, None}
    /\ bad \in Commit \cup {None} /\ good \subseteq Commit /\ skip \subseteq Commit
    /\ firstParent \in BOOLEAN /\ bisectHead \in Commit \cup {None} /\ honest \in BOOLEAN
    /\ marks \in Nat

\* The culprit is between the good commits and the bad one.
CulpritBetween ==
    honest => /\ bad # None => culprit \in Ancestors[bad]
              /\ \A c \in good : culprit \notin Ancestors[c]

\* What was told last is still so.
AnswerHolds ==
    LET cand == Candidates(bad, good)
    IN /\ answer \in {"found", "test"} => bad # None
       /\ answer = "found" => Cardinality(cand) = 1
       /\ answer = "test" => expected \in Choices(cand, skip, firstParent)
===============================================================================
