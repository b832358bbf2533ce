-------------------------- MODULE SshSession_proofs --------------------------
(***************************************************************************)
(* Theorems about SSH sessions, for any number of haves, commands and      *)
(* refs, any window and any limit of a request.  The invariant is at the   *)
(* end of SshSession.                                                      *)
(***************************************************************************)
EXTENDS SshSession, FiniteSetTheorems, NaturalsInduction, SequenceTheorems, TLAPS

-------------------------------------------------------------------------------
\* Sequences, one element at a time.
LEMMA TailSeq ==
    ASSUME NEW S, NEW s \in Seq(S), s # <<>>
    PROVE  /\ Tail(s) \in Seq(S) /\ Head(s) \in S /\ Head(s) = s[1] /\ Len(s) \in Nat /\ Len(s) >= 1
           /\ Len(Tail(s)) = Len(s) - 1 /\ DOMAIN s = 1..Len(s) /\ DOMAIN Tail(s) = 1..Len(s) - 1
           /\ \A i \in 1..Len(s) - 1 : Tail(s)[i] = s[i + 1]
  OBVIOUS

LEMMA LenOfNone ==
    ASSUME NEW S, NEW s \in Seq(S)
    PROVE  s = <<>> <=> Len(s) = 0
  OBVIOUS

LEMMA ConcatSeq ==
    ASSUME NEW S, NEW s \in Seq(S), NEW t \in Seq(S)
    PROVE  /\ s \o t \in Seq(S) /\ Len(s \o t) = Len(s) + Len(t)
           /\ Len(s) \in Nat /\ Len(t) \in Nat
           /\ DOMAIN s = 1..Len(s) /\ DOMAIN t = 1..Len(t) /\ DOMAIN (s \o t) = 1..Len(s) + Len(t)
           /\ \A i \in 1..Len(s) : (s \o t)[i] = s[i]
           /\ \A i \in 1..Len(t) : (s \o t)[Len(s) + i] = t[i]
  OBVIOUS

\* To read a line moves it from one side of what was read to the other.
LEMMA ReadOn ==
    ASSUME NEW S, NEW s \in Seq(S), NEW t \in Seq(S), t # <<>>
    PROVE  Append(s, Head(t)) \o Tail(t) = s \o t
  OBVIOUS

LEMMA ReadLast ==
    ASSUME NEW S, NEW s \in Seq(S), NEW u \in Seq(S), NEW t \in Seq(S)
    PROVE  (s \o t) \o u = s \o (t \o u)
  OBVIOUS

-------------------------------------------------------------------------------
(* How often an element occurs.                                             *)

LEMMA TimesOfNone == \A x : Times(x, <<>>) = 0
<1> TAKE x
<1>1. {i \in DOMAIN <<>> : <<>>[i] = x} = {}
  OBVIOUS
<1> QED
  BY <1>1, FS_EmptySet DEF Times

LEMMA TimesType ==
    ASSUME NEW S, NEW s \in Seq(S), NEW x
    PROVE  Times(x, s) \in Nat /\ IsFiniteSet({i \in DOMAIN s : s[i] = x})
<1>1. IsFiniteSet(1..Len(s)) /\ DOMAIN s = 1..Len(s)
  BY FS_Interval
<1>2. IsFiniteSet({i \in DOMAIN s : s[i] = x})
  BY <1>1, FS_Subset
<1> QED
  BY <1>2, FS_CardinalityType DEF Times

\* Sets of as many elements, and one more.
LEMMA Shifted ==
    ASSUME NEW P, NEW Q, NEW f \in [P -> Q], IsFiniteSet(P),
           \A x, y \in P : f[x] = f[y] => x = y, \A y \in Q : \E x \in P : f[x] = y
    PROVE  IsFiniteSet(Q) /\ Cardinality(Q) = Cardinality(P)
<1>1. f \in Bijection(P, Q)
  BY DEF Bijection, Injection, Surjection, IsInjective
<1> QED
  BY <1>1, FS_Bijection DEF ExistsBijection

LEMMA OneMore ==
    ASSUME NEW P, NEW e, IsFiniteSet(P), e \notin P
    PROVE  Cardinality(P) \in Nat /\ Cardinality(P \cup {e}) = Cardinality(P) + 1
  BY FS_AddElement, FS_CardinalityType

LEMMA TimesOfMore ==
    ASSUME NEW S, NEW s \in Seq(S), NEW e \in S, NEW x
    PROVE  Times(x, Append(s, e)) = Times(x, s) + (IF e = x THEN 1 ELSE 0)
<1> DEFINE P == {i \in DOMAIN s : s[i] = x}
           Q == {i \in DOMAIN Append(s, e) : Append(s, e)[i] = x}
           n == Len(s) + 1
<1>1. IsFiniteSet(P) /\ Times(x, s) = Cardinality(P) /\ Times(x, Append(s, e)) = Cardinality(Q)
  BY TimesType DEF Times
<1>2. /\ Append(s, e)[n] = e /\ DOMAIN Append(s, e) = 1..n /\ \A i \in 1..Len(s) : Append(s, e)[i] = s[i]
      /\ DOMAIN s = 1..Len(s) /\ Len(s) \in Nat
  OBVIOUS
<1>3. n \notin P
  BY <1>2
<1>4. Q = IF e = x THEN P \cup {n} ELSE P
  BY <1>2
<1> HIDE DEF P, Q, n
<1>5. Cardinality(P) \in Nat /\ Cardinality(P \cup {n}) = Cardinality(P) + 1
  BY <1>1, <1>3, OneMore
<1> QED
  BY <1>1, <1>4, <1>5

LEMMA TimesOfTail ==
    ASSUME NEW S, NEW s \in Seq(S), s # <<>>, NEW x
    PROVE  Times(x, s) = Times(x, Tail(s)) + (IF s[1] = x THEN 1 ELSE 0)
<1> DEFINE P == {i \in DOMAIN Tail(s) : Tail(s)[i] = x}
           Q == {i \in DOMAIN s : s[i] = x}
           Later == Q \ {1}
           shift == [i \in P |-> i + 1]
<1>1. IsFiniteSet(P) /\ Times(x, Tail(s)) = Cardinality(P) /\ Times(x, s) = Cardinality(Q)
  <2>1. Tail(s) \in Seq(S)
    BY TailSeq
  <2> QED
    BY <2>1, TimesType DEF Times
<1>2. /\ DOMAIN s = 1..Len(s) /\ DOMAIN Tail(s) = 1..Len(s) - 1 /\ Len(s) \in Nat /\ Len(s) >= 1
      /\ \A i \in 1..Len(s) - 1 : Tail(s)[i] = s[i + 1]
  BY TailSeq
<1>3. \A i \in P : i + 1 \in Later
  BY <1>2
<1>4. \A j \in Later : j - 1 \in P /\ shift[j - 1] = j
  BY <1>2
<1>5. \A i, j \in P : shift[i] = shift[j] => i = j
  BY <1>2
<1>6. Q = IF s[1] = x THEN Later \cup {1} ELSE Later
  BY <1>2
<1>7. 1 \notin Later
  OBVIOUS
<1> HIDE DEF P, Q, Later
<1>8. shift \in [P -> Later]
  BY <1>3
<1> HIDE DEF shift
<1>9. IsFiniteSet(Later) /\ Cardinality(Later) = Cardinality(P)
  BY <1>1, <1>4, <1>5, <1>8, Shifted
<1>10. Cardinality(Later) \in Nat /\ Cardinality(Later \cup {1}) = Cardinality(Later) + 1
  BY <1>7, <1>9, OneMore
<1> QED
  BY <1>1, <1>6, <1>9, <1>10

LEMMA TimesOfBoth ==
    ASSUME NEW S, NEW s \in Seq(S), NEW t \in Seq(S), NEW x
    PROVE  Times(x, s \o t) = Times(x, s) + Times(x, t)
<1> DEFINE P == {i \in DOMAIN s : s[i] = x}
           R == {i \in DOMAIN t : t[i] = x}
           Q == {i \in DOMAIN (s \o t) : (s \o t)[i] = x}
           Later == Q \ P
           shift == [i \in R |-> i + Len(s)]
<1>0. s \o t \in Seq(S)
  BY ConcatSeq
<1>1. /\ IsFiniteSet(P) /\ Times(x, s) = Cardinality(P)
      /\ IsFiniteSet(R) /\ Times(x, t) = Cardinality(R)
      /\ IsFiniteSet(Q) /\ Times(x, s \o t) = Cardinality(Q)
  BY <1>0, TimesType DEF Times
<1>2. /\ Len(s) \in Nat /\ Len(t) \in Nat
      /\ DOMAIN s = 1..Len(s) /\ DOMAIN t = 1..Len(t) /\ DOMAIN (s \o t) = 1..Len(s) + Len(t)
      /\ \A i \in 1..Len(s) : (s \o t)[i] = s[i]
      /\ \A i \in 1..Len(t) : (s \o t)[Len(s) + i] = t[i]
  BY ConcatSeq
<1>3. \A i \in R : i + Len(s) \in Later
  BY <1>2
<1>4. \A j \in Later : j - Len(s) \in R /\ shift[j - Len(s)] = j
  <2> SUFFICES ASSUME NEW j \in Later PROVE j - Len(s) \in R /\ shift[j - Len(s)] = j
    OBVIOUS
  <2>1. j \in Len(s) + 1..Len(s) + Len(t)
    BY <1>2
  <2>2. j - Len(s) \in 1..Len(t) /\ Len(s) + (j - Len(s)) = j /\ (s \o t)[j] = x
    BY <1>2, <2>1
  <2>3. t[j - Len(s)] = x
    BY <1>2, <2>2
  <2> QED
    BY <1>2, <2>2, <2>3
<1>5. \A i, j \in R : shift[i] = shift[j] => i = j
  BY <1>2
<1>6. Q = P \cup Later /\ P \cap Later = {}
  BY <1>2
<1> HIDE DEF P, Q, R, Later
<1>7. shift \in [R -> Later]
  BY <1>3
<1> HIDE DEF shift
<1>8. IsFiniteSet(Later) /\ Cardinality(Later) = Cardinality(R)
  BY <1>1, <1>4, <1>5, <1>7, Shifted
<1>9. /\ Cardinality(P \cup Later) = Cardinality(P) + Cardinality(Later) - Cardinality(P \cap Later)
      /\ Cardinality(P) \in Nat /\ Cardinality(Later) \in Nat /\ Cardinality(P \cap Later) = 0
  <2>1. Cardinality(P \cup Later) = Cardinality(P) + Cardinality(Later) - Cardinality(P \cap Later)
    BY <1>1, <1>8, FS_Union
  <2>2. Cardinality(P \cap Later) = 0
    BY <1>6, FS_EmptySet
  <2> QED
    BY <1>1, <1>8, <2>1, <2>2, FS_CardinalityType
<1> QED
  BY <1>1, <1>6, <1>8, <1>9

\* What does not occur.
LEMMA TimesOfAbsent ==
    ASSUME NEW S, NEW s \in Seq(S), NEW x
    PROVE  Times(x, s) \in Nat /\ (Times(x, s) = 0 <=> \A i \in DOMAIN s : s[i] # x)
<1> DEFINE P == {i \in DOMAIN s : s[i] = x}
<1>1. IsFiniteSet(P) /\ Times(x, s) = Cardinality(P)
  BY TimesType DEF Times
<1>2. P = {} <=> \A i \in DOMAIN s : s[i] # x
  OBVIOUS
<1> HIDE DEF P
<1>3. Cardinality(P) \in Nat /\ (Cardinality(P) = 0 <=> P = {})
  BY <1>1, FS_EmptySet, FS_CardinalityType
<1> QED
  BY <1>1, <1>2, <1>3

LEMMA TimesOfOne ==
    ASSUME NEW S, NEW e \in S, NEW x
    PROVE  Times(x, <<e>>) = IF e = x THEN 1 ELSE 0
<1>1. <<e>> = Append(<<>>, e) /\ <<>> \in Seq(S)
  OBVIOUS
<1>2. Times(x, Append(<<>>, e)) = Times(x, <<>>) + (IF e = x THEN 1 ELSE 0)
  BY <1>1, TimesOfMore
<1> QED
  BY <1>1, <1>2, TimesOfNone

-------------------------------------------------------------------------------
(* What is found in common is a sequence of haves: the definition follows    *)
(* the pending ones one by one.                                              *)

IsAmong(among, n) ==
    among = [i \in 0..n |->
                IF i = 0 THEN <<>>
                ELSE IF Common(pending[i]) THEN Append(among[i - 1], pending[i]) ELSE among[i - 1]]

\* A set of numbers that is not empty has a least member.
LEMMA Least ==
    ASSUME NEW T \in SUBSET Nat, T # {}
    PROVE  \E n \in T : \A m \in T : n <= m
<1>1. PICK n \in T : \A m \in T : ~(<<m, n>> \in OpToRel(<, Nat))
  BY NatLessThanWellFounded, WFMin, Zenon
<1>2. \A m \in T : ~(m < n)
  BY <1>1, Zenon DEF OpToRel
<1> QED
  BY <1>2

LEMMA AmongExists ==
    ASSUME NEW n \in Nat
    PROVE  \E among : IsAmong(among, n)
<1> DEFINE Bad == {m \in Nat : ~\E among : IsAmong(among, m)}
<1> SUFFICES ASSUME Bad # {} PROVE FALSE
  OBVIOUS
<1>1. PICK m \in Bad : \A k \in Bad : m <= k
  <2>1. Bad \in SUBSET Nat
    OBVIOUS
  <2> QED
    BY <2>1, Least
<1>2. m # 0
  <2>1. IsAmong([i \in 0..0 |-> <<>>], 0)
    BY DEF IsAmong
  <2> QED
    BY <2>1, <1>1
<1>3. m - 1 \in Nat /\ m - 1 \notin Bad
  BY <1>1, <1>2
<1>4. PICK among : IsAmong(among, m - 1)
  BY <1>3
<1> DEFINE Extend(a, i) == IF Common(pending[i]) THEN Append(a[i - 1], pending[i]) ELSE a[i - 1]
           longer == [i \in 0..m |-> IF i = m THEN Extend(among, m) ELSE among[i]]
<1>5. IsAmong(longer, m)
  <2> SUFFICES ASSUME NEW i \in 0..m
               PROVE  longer[i] = IF i = 0 THEN <<>> ELSE Extend(longer, i)
    BY DEF IsAmong
  <2>1. CASE i = m
    <3>1. longer[m - 1] = among[m - 1] /\ m # 0 /\ longer[m] = Extend(among, m)
      BY <1>2, <1>3
    <3> QED
      BY <2>1, <3>1
  <2>2. CASE i # m
    <3>1. longer[i] = among[i] /\ i \in 0..m - 1
      BY <2>2, <1>3
    <3>2. among[i] = IF i = 0 THEN <<>> ELSE Extend(among, i)
      BY <3>1, <1>4 DEF IsAmong
    <3>3. i # 0 => longer[i - 1] = among[i - 1]
      BY <2>2, <1>3
    <3> QED
      BY <3>1, <3>2, <3>3
  <2> QED
    BY <2>1, <2>2
<1> QED
  BY <1>1, <1>5

LEMMA FoundType ==
    ASSUME NEW S, pending \in Seq(S)
    PROVE  Found \in Seq(S)
<1> DEFINE n == Len(pending)
           among == CHOOSE a : IsAmong(a, n)
<1>0. n \in Nat /\ \A i \in 1..n : pending[i] \in S
  OBVIOUS
<1>1. IsAmong(among, n)
  BY <1>0, AmongExists, Zenon
<1>2. Found = among[n]
  BY Zenon DEF Found, IsAmong
<1> HIDE DEF among
<1> DEFINE Bad == {i \in 0..n : among[i] \notin Seq(S)}
<1>3. Bad = {}
  <2> SUFFICES ASSUME Bad # {} PROVE FALSE
    OBVIOUS
  <2>1. PICK i \in Bad : \A j \in Bad : i <= j
    <3>1. Bad \in SUBSET Nat
      BY <1>0
    <3> QED
      BY <3>1, Least
  <2>2. among[i] = IF i = 0 THEN <<>>
                   ELSE IF Common(pending[i]) THEN Append(among[i - 1], pending[i]) ELSE among[i - 1]
    <3>1. i \in 0..n
      BY <2>1
    <3> QED
      BY <1>1, <3>1, Zenon DEF IsAmong
  <2>3. CASE i = 0
    <3>1. among[i] = <<>>
      BY <2>2, <2>3
    <3>2. <<>> \in Seq(S)
      OBVIOUS
    <3> QED
      BY <2>1, <3>1, <3>2
  <2>4. CASE i # 0
    <3>1. i - 1 \in 0..n /\ i - 1 \notin Bad /\ pending[i] \in S
      BY <1>0, <2>1, <2>4
    <3>2. among[i - 1] \in Seq(S)
      BY <3>1
    <3>3. Append(among[i - 1], pending[i]) \in Seq(S)
      BY <3>1, <3>2
    <3> QED
      BY <2>1, <2>2, <2>4, <3>2, <3>3
  <2> QED
    BY <2>3, <2>4
<1> QED
  BY <1>0, <1>2, <1>3

-------------------------------------------------------------------------------
(* What is said.                                                             *)

LEMMA CommandParts ==
    \A x \in Commands : x[1] \in {"create", "delete"}
  BY DEF Commands, Create, Delete

LEMMA LineParts ==
    ASSUME NEW x \in Line
    PROVE  /\ x[1] = "have" => x[2] \in Offers /\ x = <<"have", x[2]>>
           /\ x[1] \in {"create", "delete"} <=> x \in Commands
           /\ x[1] = "flush" <=> x = Flush
           /\ x[1] = "done" <=> x = <<"done">>
           /\ x[1] = "want" <=> x = <<"want">>
           /\ x[1] = "deepen" <=> x = <<"deepen">>
           /\ x[1] = "data" <=> x = <<"data">>
           /\ x[1] = "fetch" <=> x = <<"fetch">>
           /\ x[1] = "ls-refs" <=> x = <<"ls-refs">>
<1>1. CASE x \in {<<"want">>, <<"deepen">>, Flush, <<"done">>, <<"ls-refs">>, <<"fetch">>, <<"data">>}
  BY <1>1, CommandParts DEF Flush
<1>2. CASE x \in {<<"have", h>> : h \in Offers}
  BY <1>2, CommandParts DEF Flush
<1>3. CASE x \in Commands
  BY <1>3, CommandParts DEF Flush
<1> QED
  BY <1>1, <1>2, <1>3 DEF Line

LEMMA IsLine ==
    /\ <<"want">> \in Line /\ <<"deepen">> \in Line /\ Flush \in Line /\ <<"done">> \in Line
    /\ <<"ls-refs">> \in Line /\ <<"fetch">> \in Line /\ <<"data">> \in Line
    /\ Commands \subseteq Line
    /\ \A h \in Offers : <<"have", h>> \in Line
  BY DEF Line

LEMMA MessageParts ==
    ASSUME NEW x \in Message
    PROVE  /\ x[1] \in {"common", "ACK"} => x[2] \in Offers
           /\ x[1] \in {"acks", "pack"} => x[2] \subseteq Offers
           /\ x[1] = "report" => x[2] \subseteq Line
           /\ x[1] = "NAK" <=> x = <<"NAK">>
           /\ x[1] = "refs" <=> x = <<"refs">>
           /\ x[1] = "shallow" <=> x = <<"shallow">>
<1>1. CASE x \in {<<"refs">>, <<"shallow">>, <<"NAK">>}
  BY <1>1
<1>2. CASE x \in {<<"common", h>> : h \in Offers} \cup {<<"ACK", h>> : h \in Offers}
  BY <1>2
<1>3. CASE x \in {<<"acks", c>> : c \in SUBSET Offers} \cup {<<"pack", c>> : c \in SUBSET Offers}
  BY <1>3
<1>4. CASE x \in {<<"report", c>> : c \in SUBSET Line}
  BY <1>4
<1> QED
  BY <1>1, <1>2, <1>3, <1>4 DEF Message

LEMMA IsMessage ==
    /\ <<"refs">> \in Message /\ <<"shallow">> \in Message /\ <<"NAK">> \in Message
    /\ \A h \in Offers : <<"common", h>> \in Message /\ <<"ACK", h>> \in Message
    /\ \A c \in SUBSET Offers : <<"acks", c>> \in Message /\ <<"pack", c>> \in Message
    /\ \A c \in SUBSET Line : <<"report", c>> \in Message
  BY DEF Message

LEMMA Both ==
    ASSUME NEW S, NEW x \in S, NEW y \in S
    PROVE  <<x>> \o <<y>> = <<x, y>>
<1>1. /\ <<x>> \in Seq(S) /\ <<y>> \in Seq(S) /\ Len(<<x>>) = 1 /\ Len(<<y>>) = 1
      /\ <<x, y>> \in Seq(S) /\ Len(<<x, y>>) = 2
      /\ <<x>>[1] = x /\ <<y>>[1] = y /\ 1 \in 1..1 /\ 1 + 1 = 2
  OBVIOUS
<1>2. /\ <<x>> \o <<y>> \in Seq(S) /\ Len(<<x>> \o <<y>>) = 2
      /\ (<<x>> \o <<y>>)[1] = x /\ (<<x>> \o <<y>>)[1 + 1] = y
  BY <1>1, ConcatSeq
<1>3. \A i \in 1..2 : (<<x>> \o <<y>>)[i] = <<x, y>>[i]
  BY <1>2
<1> QED
  BY <1>1, <1>2, <1>3, SeqEqual

LEMMA TailOfTwo ==
    ASSUME NEW S, NEW x \in S, NEW y \in S
    PROVE  Tail(<<x, y>>) = <<y>>
<1>1. <<y>> \in Seq(S) /\ Len(<<y>>) = 1 /\ <<x, y>> \in Seq(S) /\ Len(<<x, y>>) = 2 /\ <<x, y>> # <<>>
  OBVIOUS
<1>2. Tail(<<x, y>>) \in Seq(S) /\ Len(Tail(<<x, y>>)) = 1
      /\ \A i \in 1..1 : Tail(<<x, y>>)[i] = <<x, y>>[i + 1]
  BY <1>1, TailSeq
<1> QED
  BY <1>1, <1>2, SeqEqual

LEMMA ThreeAsTwo ==
    ASSUME NEW S, NEW x \in S, NEW y \in S, NEW z \in S
    PROVE  <<x, y>> \o <<z>> = <<x, y, z>>
<1>1. /\ <<x, y>> \in Seq(S) /\ <<z>> \in Seq(S) /\ Len(<<x, y>>) = 2 /\ Len(<<z>>) = 1
      /\ <<x, y>>[1] = x /\ <<x, y>>[2] = y /\ <<z>>[1] = z /\ 1 \in 1..1 /\ 1 \in 1..2 /\ 2 \in 1..2
      /\ <<x, y, z>> \in Seq(S) /\ Len(<<x, y, z>>) = 3
  OBVIOUS
<1>2. /\ <<x, y>> \o <<z>> \in Seq(S) /\ Len(<<x, y>> \o <<z>>) = 2 + 1
      /\ (<<x, y>> \o <<z>>)[1] = x /\ (<<x, y>> \o <<z>>)[2] = y /\ (<<x, y>> \o <<z>>)[2 + 1] = z
  BY <1>1, ConcatSeq
<1>3. /\ \A i \in 1..3 : (<<x, y>> \o <<z>>)[i] = <<x, y, z>>[i]
      /\ Len(<<x, y>> \o <<z>>) = 3
  BY <1>2
<1> QED
  BY <1>1, <1>2, <1>3, SeqEqual

\* Sequences of one, two and three.
LEMMA Few ==
    ASSUME NEW S, NEW x \in S, NEW y \in S, NEW z \in S
    PROVE  /\ <<x>> \in Seq(S) /\ <<x, y>> \in Seq(S) /\ <<x, y, z>> \in Seq(S)
           /\ Len(<<x>>) = 1 /\ Len(<<x, y>>) = 2 /\ Len(<<x, y, z>>) = 3
           /\ <<x>> # <<>> /\ <<x, y>> # <<>> /\ <<x, y, z>> # <<>>
           /\ Head(<<x>>) = x /\ Head(<<x, y>>) = x /\ Head(<<x, y, z>>) = x
           /\ Tail(<<x>>) = <<>> /\ Tail(<<x, y>>) = <<y>> /\ Tail(<<x, y, z>>) = <<y, z>>
           /\ <<x>> \o <<y>> = <<x, y>> /\ <<x, y>> \o <<z>> = <<x, y, z>>
<1>1. <<x>> \in Seq(S) /\ <<x, y>> \in Seq(S) /\ <<x, y, z>> \in Seq(S)
  OBVIOUS
<1>2. Len(<<x>>) = 1 /\ Len(<<x, y>>) = 2 /\ Len(<<x, y, z>>) = 3
  OBVIOUS
<1>3. <<x>> # <<>> /\ <<x, y>> # <<>> /\ <<x, y, z>> # <<>>
  OBVIOUS
<1>4. Head(<<x>>) = x /\ Head(<<x, y>>) = x /\ Head(<<x, y, z>>) = x
  OBVIOUS
<1>5. Tail(<<x>>) = <<>>
  OBVIOUS
<1>6. Tail(<<x, y>>) = <<y>>
  BY TailOfTwo
<1>7. Tail(<<x, y, z>>) = <<y, z>>
  <2>1. <<y, z>> \in Seq(S) /\ Len(<<y, z>>) = 2 /\ <<x, y, z>> \in Seq(S) /\ Len(<<x, y, z>>) = 3
        /\ <<x, y, z>> # <<>>
    BY <1>1, <1>2, <1>3
  <2>2. Tail(<<x, y, z>>) \in Seq(S) /\ Len(Tail(<<x, y, z>>)) = 2
        /\ \A i \in 1..2 : Tail(<<x, y, z>>)[i] = <<x, y, z>>[i + 1]
    BY <2>1, TailSeq
  <2> QED
    BY <2>1, <2>2, SeqEqual
<1>8. <<x>> \o <<y>> = <<x, y>>
  BY Both
<1>9. <<x, y>> \o <<z>> = <<x, y, z>>
  BY ThreeAsTwo
<1> QED
  BY <1>1, <1>2, <1>3, <1>4, <1>5, <1>6, <1>7, <1>8, <1>9


-------------------------------------------------------------------------------
(* The types.                                                                *)

LEMMA ExpectedOf ==
    /\ DOMAIN Expected = {"refs", "shallow", "haves", "acks", "answers", "pack", "listed", "nothing",
                          "report", "commands", "done", "gone"}
    /\ Expected["refs"] = {"refs"} /\ Expected["shallow"] = {"shallow"}
    /\ Expected["haves"] = {"common", "ACK", "NAK"} /\ Expected["acks"] = {"common", "ACK", "NAK"}
    /\ Expected["answers"] = {"common", "ACK", "NAK", "pack"} /\ Expected["pack"] = {"pack"}
    /\ Expected["listed"] = {"refs"} /\ Expected["nothing"] = {"acks"} /\ Expected["report"] = {"report"}
    /\ Expected["commands"] = {} /\ Expected["done"] = {} /\ Expected["gone"] = {}
  BY DEF Expected

LEMMA SshStarts == ASSUME SshAssumption, SshInit PROVE SessionInv
<1>1. <<>> \in Seq(Line) /\ <<>> \in Seq(Message) /\ <<>> \in Seq(Offers)
  OBVIOUS
<1>2. SshTypes
  <2>1. /\ up \in Seq(Line) /\ down \in Seq(Message) /\ lines \in Seq(Line)
        /\ pending \in Seq(Offers) /\ commons \in Seq(Offers)
    BY <1>1 DEF SshInit
  <2>2. /\ \/ service \in {"fetch", "v2"} /\ want \in Fetches
           \/ service = "push" /\ want \in Pushes
        /\ present \subseteq Offers
    BY DEF SshInit, Offers
  <2>3. /\ spc = "advertise" /\ code = <<>> /\ cpc = "refs" /\ sent \in Nat /\ unread \in Int
        /\ told \subseteq Line /\ told \subseteq Offers /\ applied \subseteq Line /\ sent <= MaxHaves
    BY DEF SshInit, SshAssumption
  <2>6. ~hungUp /\ hungUp \in BOOLEAN /\ more \in BOOLEAN
    BY Zenon DEF SshInit
  <2>7. hungUp <=> cpc = "gone"
    BY <2>3, <2>6
  <2>5. cpc \in DOMAIN Expected
    BY <2>3, ExpectedOf
  <2>4. /\ spc \in {"advertise", "wants", "haves", "pack", "command", "commands", "ingest", "ended"}
        /\ code \in {<<>>, <<0>>, <<128>>} /\ (code # <<>> <=> spc = "ended")
    BY <2>3
  <2> QED
    BY <2>1, <2>2, <2>3, <2>4, <2>5, <2>6, <2>7, Zenon DEF SshTypes
<1>3. Stays
  BY DEF SshInit, Stays, Opening, Silent, PushTalk, V2Talk, WantsTalk, TalkDown, TalkUp, TalkCounts, TalkSingle, Talking
<1> QED
  BY <1>2, <1>3 DEF SessionInv

\* A line that is read.
LEMMA ReadTypes ==
    ASSUME SshTypes, NEW p, Reads(p)
    PROVE  /\ spc = p /\ up # <<>> /\ up' = Tail(up) /\ up' \in Seq(Line) /\ Head(up) \in Line /\ Head(up) = up[1]
           /\ Append(lines, Head(up)) \in Seq(Line)
<1>1. up # <<>> /\ up' = Tail(up) /\ up \in Seq(Line) /\ lines \in Seq(Line) /\ spc = p
  BY DEF Reads, SshTypes
<1>2. Tail(up) \in Seq(Line) /\ Head(up) \in Line /\ Head(up) = up[1]
  BY <1>1, TailSeq
<1>3. Append(lines, Head(up)) \in Seq(Line)
  BY <1>1, <1>2
<1> QED
  BY <1>1, <1>2, <1>3

LEMMA ReplyTypes ==
    ASSUME SshTypes, NEW s \in Seq(Message), Reply(s)
    PROVE  down' \in Seq(Message) /\ down' = down \o s
  BY ConcatSeq DEF Reply, SshTypes

LEMMA SendTypes ==
    ASSUME SshTypes, NEW s \in Seq(Line), Send(s)
    PROVE  up' \in Seq(Line) /\ up' = up \o s
  BY ConcatSeq DEF Send, SshTypes

LEMMA SeesTypes ==
    ASSUME SshTypes, NEW p, Sees(p)
    PROVE  /\ cpc = p /\ down # <<>> /\ down' = Tail(down) /\ down' \in Seq(Message)
           /\ Head(down) \in Message /\ Head(down) = down[1]
<1>1. down # <<>> /\ down' = Tail(down) /\ down \in Seq(Message) /\ cpc = p
  BY DEF Sees, SshTypes
<1> QED
  BY <1>1, TailSeq

-------------------------------------------------------------------------------
(* What the invariants say: the two sides are in step.                       *)

LEMMA NextIsExpected ==
    ASSUME SessionInv, ~hungUp, down # <<>>
    PROVE  /\ Head(down)[1] \in Expected[cpc]
           /\ cpc = "answers" /\ Head(down)[1] = "pack" => unread = 0 /\ ~more
<1>1. /\ down \in Seq(Message) /\ Len(down) \in Nat /\ Len(down) >= 1 /\ DOMAIN down = 1..Len(down) /\ 1 \in DOMAIN down
      /\ Head(down) = down[1]
  BY TailSeq DEF SessionInv, SshTypes
<1>2. service \in {"fetch", "v2", "push"} /\ Stays /\ cpc # "gone"
  BY DEF SessionInv, SshTypes
<1>3. CASE cpc = "refs"
  BY <1>1, <1>2, <1>3, ExpectedOf DEF Stays, Opening, Silent, Greeted
<1>4. CASE service = "push" /\ cpc # "refs"
  BY <1>1, <1>2, <1>4, ExpectedOf DEF Stays, PushTalk
<1>5. CASE service = "v2" /\ cpc # "refs"
  <2>1. CASE IsAnswer(down)
    BY <1>1, <2>1, ExpectedOf DEF IsAnswer, DepthPart
  <2> QED
    BY <1>1, <1>2, <1>5, <2>1, ExpectedOf DEF Stays, V2Talk
<1>6. CASE service = "fetch" /\ cpc # "refs"
  <2>1. WantsTalk
    BY <1>2 DEF Stays
  <2>2. CASE want.empty \/ cpc = "shallow"
    BY <1>1, <1>6, <2>1, <2>2, ExpectedOf DEF WantsTalk
  <2>3. CASE ~want.empty /\ cpc # "shallow"
    <3>1. Talking
      BY <1>6, <2>1, <2>3 DEF WantsTalk, Talking
    <3>2. TalkDown /\ TalkUp /\ TalkCounts /\ TalkSingle
      BY <1>2 DEF Stays
    <3>3. CASE cpc \in {"haves", "acks", "done"}
      BY <1>1, <3>1, <3>2, <3>3, ExpectedOf DEF TalkDown, TalkUp
    <3>4. CASE cpc = "pack"
      BY <1>1, <3>1, <3>2, <3>4, ExpectedOf DEF TalkDown, TalkUp, TalkCounts, TalkSingle
    <3>5. CASE cpc = "answers"
      <4>1. Head(down)[1] \in {"common", "ACK", "NAK", "pack"}
        BY <1>1, <3>1, <3>2 DEF TalkDown, TalkUp
      <4>2. CASE Head(down)[1] = "pack"
        <5>1. Len(down) = 1 /\ code = <<0>> /\ up = <<>>
          BY <1>1, <3>1, <3>2, <4>2 DEF TalkDown, TalkUp
        <5>2. CASE want.multi \/ commons = <<>>
          <6>1. commons = <<>>
            BY <3>1, <3>2, <3>5, <5>1, <5>2 DEF TalkCounts
          <6>2. ~more
            BY <3>1, <3>2, <3>5, <6>1 DEF TalkCounts
          <6>3. Unheard = 0
            <7>1. down[1] # <<"NAK">> /\ \A i \in DOMAIN down : i = 1
              BY <1>1, <4>2, <5>1
            <7> QED
              BY <1>1, <7>1, TimesOfAbsent DEF Unheard
          <6>4. Unanswered = 0
            <7>1. spc # "wants"
              BY <5>1, <1>2 DEF SessionInv, SshTypes
            <7> QED
              BY <5>1, <7>1, TimesOfNone DEF Unanswered
          <6> QED
            BY <3>1, <3>2, <3>5, <4>1, <5>1, <5>2, <6>1, <6>2, <6>3, <6>4, ExpectedOf DEF TalkCounts, Owed
        <5>3. CASE ~want.multi /\ commons # <<>>
          <6>1. ~more
            BY <3>1, <3>2, <5>3 DEF TalkDown, TalkUp
          <6>2. told # {}
            BY <1>1, <3>1, <3>2, <4>2, <5>1, <5>3 DEF TalkSingle
          <6> QED
            BY <3>1, <3>2, <3>5, <4>1, <5>3, <6>1, <6>2, ExpectedOf DEF TalkSingle
        <5> QED
          BY <5>2, <5>3
      <4> QED
        BY <3>5, <4>1, <4>2, ExpectedOf
    <3> QED
      BY <3>1, <3>3, <3>4, <3>5 DEF Talking
  <2> QED
    BY <2>2, <2>3
<1> QED
  BY <1>2, <1>3, <1>4, <1>5, <1>6

LEMMA InStepFollows == ASSUME SessionInv PROVE InStep
<1> SUFFICES ASSUME ~hungUp
             PROVE  /\ down # <<>> => Head(down)[1] \in Expected[cpc]
                    /\ cpc = "done" => /\ down = <<>>
                                       /\ service = "push" /\ want.report => told = applied
                                       /\ service = "fetch" => told \subseteq Range(commons)
                    /\ spc = "ended" /\ code = <<0>> /\ down = <<>> => cpc = "done"
  BY DEF InStep
<1>1. down # <<>> => Head(down)[1] \in Expected[cpc]
  BY NextIsExpected
<1>2. service \in {"fetch", "v2", "push"} /\ Stays /\ cpc # "gone" /\ more \in BOOLEAN
  BY DEF SessionInv, SshTypes
<1>3. CASE cpc = "refs"
  BY <1>1, <1>2, <1>3 DEF Stays, Opening, Silent, Greeted
<1>4. CASE service = "push" /\ cpc # "refs"
  <2>1. PushTalk
    BY <1>2 DEF Stays
  <2>2. cpc = "done" => down = <<>> /\ (want.report => told = applied)
    BY <1>4, <2>1 DEF PushTalk
  <2>3. spc = "ended" /\ code = <<0>> /\ down = <<>> => cpc = "done"
    BY <1>4, <2>1 DEF PushTalk
  <2> QED
    BY <1>1, <1>4, <2>2, <2>3
<1>5. CASE service = "v2" /\ cpc # "refs"
  <2>1. CASE IsAnswer(down)
    BY <1>1, <1>2, <1>5, <2>1 DEF IsAnswer, DepthPart, Stays, V2Talk
  <2>2. CASE IsFetch(lines \o up)
    BY <1>1, <1>2, <1>5, <2>2 DEF IsFetch, Stays, V2Talk
  <2> QED
    BY <1>1, <1>2, <1>5, <2>1, <2>2 DEF Stays, V2Talk
<1>6. CASE service = "fetch" /\ cpc # "refs"
  <2>1. WantsTalk /\ TalkDown
    BY <1>2 DEF Stays
  <2>2. CASE want.empty \/ cpc = "shallow"
    BY <1>1, <1>6, <2>1, <2>2 DEF WantsTalk
  <2>3. CASE ~want.empty /\ cpc # "shallow"
    <3>1. Talking
      BY <1>6, <2>1, <2>3 DEF WantsTalk, Talking
    <3> QED
      BY <1>1, <1>6, <2>1, <3>1 DEF TalkDown, TalkUp
  <2> QED
    BY <2>2, <2>3
<1> QED
  BY <1>2, <1>3, <1>4, <1>5, <1>6

-------------------------------------------------------------------------------
(* The server's steps keep the types.                                        *)

LEMMA EndTypes ==
    ASSUME NEW c \in {0, 128}, End(c)
    PROVE  /\ spc' = "ended" /\ code' = <<c>>
           /\ code' \in {<<>>, <<0>>, <<128>>} /\ (code' # <<>> <=> spc' = "ended")
           /\ spc' \in {"advertise", "wants", "haves", "pack", "command", "commands", "ingest", "ended"}
  BY DEF End

LEMMA AdvertiseTypes == ASSUME SshTypes, Advertise PROVE SshTypes'
<1>1. <<<<"refs">>>> \in Seq(Message)
  BY IsMessage, Few
<1>2. down' \in Seq(Message)
  BY <1>1, ReplyTypes DEF Advertise, SshTypes
<1>3. /\ spc' \in {"advertise", "wants", "haves", "pack", "command", "commands", "ingest", "ended"}
      /\ code' \in {<<>>, <<0>>, <<128>>} /\ (code' # <<>> <=> spc' = "ended")
  BY EndTypes DEF Advertise, SshTypes
<1> QED
  BY <1>2, <1>3 DEF Advertise, SshTypes, fixed, sshClientVars

LEMMA ReadLineTypes ==
    ASSUME SshTypes, ReadWant \/ ReadCommandLine \/ ReadPushCommand
    PROVE  SshTypes'
<1>1. PICK p : Reads(p) /\ lines' = Append(lines, Head(up))
  BY DEF ReadWant, ReadCommandLine, ReadPushCommand
<1>2. up' \in Seq(Line) /\ lines' \in Seq(Line)
  BY <1>1, ReadTypes
<1> QED
  BY <1>2, SMTT(40) DEF ReadWant, ReadCommandLine, ReadPushCommand, SshTypes, fixed, sshClientVars

LEMMA RefuseTypes == ASSUME SshTypes, RefuseLine \/ EofEnds \/ WriteFails PROVE SshTypes'
<1>1. up' \in Seq(Line)
  <2>1. CASE RefuseLine
    BY <2>1, ReadTypes DEF RefuseLine
  <2> QED
    BY <2>1 DEF EofEnds, WriteFails, SshTypes
<1>2. /\ spc' \in {"advertise", "wants", "haves", "pack", "command", "commands", "ingest", "ended"}
      /\ code' \in {<<>>, <<0>>, <<128>>} /\ (code' # <<>> <=> spc' = "ended")
  BY EndTypes DEF RefuseLine, EofEnds, WriteFails
<1> QED
  BY <1>1, <1>2 DEF RefuseLine, EofEnds, WriteFails, SshTypes, fixed, sshClientVars

LEMMA EndWantsTypes == ASSUME SshTypes, EndWants PROVE SshTypes'
<1>1. up' \in Seq(Line) /\ lines' \in Seq(Line)
  <2>1. Append(lines, Flush) \in Seq(Line)
    BY IsLine DEF SshTypes
  <2> QED
    BY <2>1, ReadTypes DEF EndWants
<1>2. <<<<"shallow">>>> \in Seq(Message) /\ <<>> \in Seq(Message)
  BY IsMessage, Few
<1>3. down' \in Seq(Message)
  BY <1>2, ReplyTypes DEF EndWants, SshTypes
<1>4. /\ spc' \in {"advertise", "wants", "haves", "pack", "command", "commands", "ingest", "ended"}
      /\ code' \in {<<>>, <<0>>, <<128>>} /\ (code' # <<>> <=> spc' = "ended")
  <2>1. CASE spc' = "haves" /\ UNCHANGED code
    BY <2>1 DEF SshTypes, EndWants, Reads
  <2>2. CASE End(0) \/ End(128)
    BY <2>2, EndTypes
  <2> QED
    BY <2>1, <2>2 DEF EndWants
<1> QED
  BY <1>1, <1>3, <1>4 DEF EndWants, SshTypes, fixed, sshClientVars

LEMMA ReadHaveTypes == ASSUME SshTypes, ReadHave PROVE SshTypes'
<1>1. up' \in Seq(Line) /\ lines' \in Seq(Line) /\ Head(up) \in Line
  BY ReadTypes DEF ReadHave
<1>2. pending' \in Seq(Offers)
  BY <1>1, LineParts DEF ReadHave, SshTypes
<1> QED
  BY <1>1, <1>2 DEF ReadHave, SshTypes, fixed, sshClientVars

LEMMA AcksTypes ==
    ASSUME SshTypes
    PROVE  /\ Found \in Seq(Offers) /\ commons \o Found \in Seq(Offers)
           /\ Acks \in Seq(Message) /\ BatchEnd \in Seq(Message) /\ Acks \o BatchEnd \in Seq(Message)
<1>1. Found \in Seq(Offers)
  BY FoundType DEF SshTypes
<1>2. commons \o Found \in Seq(Offers)
  BY <1>1, ConcatSeq DEF SshTypes
<1>3. Acks \in Seq(Message)
  <2>1. Len(Found) \in Nat /\ DOMAIN Found = 1..Len(Found) /\ \A i \in 1..Len(Found) : Found[i] \in Offers
    BY <1>1
  <2>2. [i \in DOMAIN Found |-> <<"common", Found[i]>>] \in Seq(Message)
    <3>1. \A i \in 1..Len(Found) : <<"common", Found[i]>> \in Message
      BY <2>1, IsMessage
    <3> DEFINE f == [i \in DOMAIN Found |-> <<"common", Found[i]>>]
               n == Len(Found)
    <3>2. f \in [1..n -> Message] /\ n \in Nat
      BY <2>1, <3>1
    <3>3. \A g : g \in [1..n -> Message] => g \in Seq(Message)
      BY <3>2, SeqDef
    <3> HIDE DEF f, n
    <3> QED
      BY <3>2, <3>3 DEF f
  <2>3. Found # <<>> => <<<<"ACK", Found[1]>>>> \in Seq(Message)
    <3>0. Found # <<>> => Found[1] \in Offers
      BY <1>1, TailSeq
    <3>1. Found # <<>> => <<"ACK", Found[1]>> \in Message
      BY <3>0, IsMessage
    <3> QED
      BY <3>1
  <2> QED
    BY <2>2, <2>3 DEF Acks
<1>4. BatchEnd \in Seq(Message)
  BY IsMessage, Few DEF BatchEnd
<1> QED
  BY <1>1, <1>2, <1>3, <1>4, ConcatSeq

LEMMA EndBatchTypes == ASSUME SshTypes, EndBatch PROVE SshTypes'
<1>1. up' \in Seq(Line) /\ lines' \in Seq(Line)
  <2>1. Append(lines, Flush) \in Seq(Line)
    BY IsLine DEF SshTypes
  <2> QED
    BY <2>1, ReadTypes DEF EndBatch
<1>2. down' \in Seq(Message) /\ pending' \in Seq(Offers) /\ commons' \in Seq(Offers)
  <2>1. <<>> \in Seq(Offers) /\ Acks \o BatchEnd \in Seq(Message) /\ commons \o Found \in Seq(Offers)
    BY AcksTypes
  <2> QED
    BY <2>1, ReplyTypes DEF EndBatch, AckPending
<1> QED
  BY <1>1, <1>2 DEF EndBatch, SshTypes, fixed, sshClientVars

LEMMA ReadDoneTypes == ASSUME SshTypes, ReadDone PROVE SshTypes'
<1>1. up' \in Seq(Line) /\ lines' \in Seq(Line) /\ spc = "haves"
  <2>1. Append(lines, <<"done">>) \in Seq(Line)
    BY IsLine DEF SshTypes
  <2> QED
    BY <2>1, ReadTypes DEF ReadDone
<1>2. down' \in Seq(Message) /\ pending' \in Seq(Offers) /\ commons' \in Seq(Offers)
  BY AcksTypes, ReplyTypes DEF ReadDone, AckPending
<1> QED
  BY <1>1, <1>2 DEF ReadDone, SshTypes, fixed, sshClientVars

LEMMA SendPackTypes == ASSUME SshTypes, SendPack PROVE SshTypes'
<1> DEFINE ack == IF commons = <<>> THEN <<<<"NAK">>>> ELSE IF want.multi THEN <<<<"ACK", Last(commons)>>>> ELSE <<>>
           pack == <<<<"pack", Range(commons)>>>>
<1>1. commons \in Seq(Offers) /\ Range(commons) \subseteq Offers
  BY DEF SshTypes, Range
<1>2. ack \in Seq(Message)
  <2>1. commons # <<>> => <<"ACK", Last(commons)>> \in Message
    <3>1. commons # <<>> => Len(commons) \in 1..Len(commons) /\ commons[Len(commons)] \in Offers
      BY <1>1
    <3> QED
      BY <3>1, IsMessage DEF Last
  <2>2. <<<<"NAK">>>> \in Seq(Message)
    BY IsMessage
  <2>3. commons # <<>> => <<<<"ACK", Last(commons)>>>> \in Seq(Message)
    BY <2>1
  <2>4. <<>> \in Seq(Message)
    OBVIOUS
  <2> QED
    BY <2>2, <2>3, <2>4
<1>3. pack \in Seq(Message)
  BY <1>1, IsMessage, Few
<1>4. ack \o pack \in Seq(Message)
  BY <1>2, <1>3, ConcatSeq
<1>5. down' \in Seq(Message)
  <2>1. CASE Reply(ack \o pack)
    BY <1>4, <2>1, ReplyTypes
  <2>2. CASE UNCHANGED down
    BY <2>2 DEF SshTypes
  <2> QED
    BY <2>1, <2>2 DEF SendPack
<1>6. /\ spc' \in {"advertise", "wants", "haves", "pack", "command", "commands", "ingest", "ended"}
      /\ code' \in {<<>>, <<0>>, <<128>>} /\ (code' # <<>> <=> spc' = "ended")
  BY EndTypes DEF SendPack
<1> QED
  BY <1>5, <1>6 DEF SendPack, SshTypes, fixed, sshClientVars

LEMMA SetTypes ==
    ASSUME NEW l \in Seq(Line)
    PROVE  HavesOf(l) \subseteq Offers
<1> SUFFICES ASSUME NEW line \in Range(l), line[1] = "have" PROVE line[2] \in Offers
  BY DEF HavesOf
<1>1. line \in Line
  BY DEF Range
<1> QED
  BY <1>1, LineParts

LEMMA FetchReplyTypes == ASSUME SshTypes PROVE FetchReply \in Seq(Message)
<1> DEFINE common == HavesOf(lines) \cap present
           acks == IF common = {} THEN <<>> ELSE <<<<"acks", common>>>>
           boundary == IF <<"deepen">> \in Range(lines) THEN <<<<"shallow">>>> ELSE <<>>
           pack == <<<<"pack", common>>>>
<1>1. common \in SUBSET Offers /\ {} \in SUBSET Offers
  BY SetTypes DEF SshTypes
<1>2. <<"acks", common>> \in Message /\ <<"pack", common>> \in Message /\ <<"pack", {}>> \in Message
      /\ <<"acks", {}>> \in Message /\ <<"shallow">> \in Message
  BY <1>1, IsMessage
<1> HIDE DEF common
<1>3. /\ <<<<"acks", common>>>> \in Seq(Message) /\ pack \in Seq(Message) /\ <<>> \in Seq(Message)
      /\ <<<<"pack", {}>>>> \in Seq(Message) /\ <<<<"acks", {}>>>> \in Seq(Message) /\ <<<<"shallow">>>> \in Seq(Message)
  BY <1>2
<1>4. acks \in Seq(Message) /\ boundary \in Seq(Message)
  BY <1>3
<1> HIDE DEF acks, boundary, pack
<1>5. (acks \o boundary) \o pack \in Seq(Message)
  BY <1>3, <1>4, ConcatSeq
<1>6. FetchReply = (IF <<"want">> \notin Range(lines) THEN <<<<"pack", {}>>>>
                    ELSE IF ~Packs(common) THEN <<<<"acks", {}>>>>
                    ELSE (acks \o boundary) \o pack)
  BY DEF FetchReply, common, acks, boundary, pack
<1> QED
  BY <1>3, <1>5, <1>6

LEMMA RunCommandTypes == ASSUME SshTypes, RunCommand PROVE SshTypes'
<1>1. up' \in Seq(Line) /\ lines' \in Seq(Line)
  <2>1. up' \in Seq(Line)
    BY ReadTypes DEF RunCommand, SshTypes
  <2> QED
    BY <2>1 DEF RunCommand
<1>2. down' \in Seq(Message)
  <2>1. <<<<"refs">>>> \in Seq(Message)
    BY IsMessage
  <2> QED
    BY <2>1, FetchReplyTypes, ReplyTypes DEF RunCommand, SshTypes
<1>3. /\ spc' \in {"advertise", "wants", "haves", "pack", "command", "commands", "ingest", "ended"}
      /\ code' \in {<<>>, <<0>>, <<128>>} /\ (code' # <<>> <=> spc' = "ended")
  <2>1. CASE UNCHANGED <<spc, code>>
    BY <2>1 DEF SshTypes
  <2>2. CASE End(0) \/ End(128)
    BY <2>2, EndTypes
  <2> QED
    BY <2>1, <2>2 DEF RunCommand
<1> QED
  BY <1>1, <1>2, <1>3 DEF RunCommand, SshTypes, fixed, sshClientVars

LEMMA EndCommandsTypes == ASSUME SshTypes, EndCommands PROVE SshTypes'
<1>1. up' \in Seq(Line)
  BY ReadTypes DEF EndCommands, SshTypes
<1>2. spc = "commands" /\ spc' = "ingest"
  BY DEF EndCommands, Reads, AtEof
<1> QED
  BY <1>1, <1>2 DEF EndCommands, SshTypes, fixed, sshClientVars

LEMMA ReportTypes ==
    ASSUME SshTypes, NEW ok \in SUBSET Line
    PROVE  Report(ok) \in Seq(Message)
<1>1. <<"report", ok>> \in Message
  BY IsMessage
<1> QED
  BY <1>1 DEF Report, Reported

LEMMA ReceiveTypes == ASSUME SshTypes, Receive PROVE SshTypes'
<1>1. up' \in Seq(Line)
  BY ReadTypes DEF Receive, SshTypes
<1>2. down' \in Seq(Message) /\ applied' \subseteq Line
  <2>1. CASE \E ok \in SUBSET Range(lines) : applied' = ok /\ (Reply(Report(ok)) \/ UNCHANGED down)
    <3>1. Range(lines) \subseteq Line
      BY DEF SshTypes, Range
    <3>2. PICK ok \in SUBSET Range(lines) : applied' = ok /\ (Reply(Report(ok)) \/ UNCHANGED down)
      BY <2>1
    <3>3. applied' \subseteq Line /\ ok \in SUBSET Line
      BY <3>1, <3>2
    <3>4. CASE Reply(Report(ok))
      BY <3>3, <3>4, ReportTypes, ReplyTypes
    <3>5. CASE UNCHANGED down
      BY <3>3, <3>5 DEF SshTypes
    <3> QED
      BY <3>2, <3>4, <3>5
  <2>2. CASE Reply(Report({})) /\ UNCHANGED applied
    <3>1. applied' \subseteq Line
      BY <2>2 DEF SshTypes
    <3>2. {} \in SUBSET Line
      OBVIOUS
    <3> QED
      BY <2>2, <3>1, <3>2, ReportTypes, ReplyTypes
  <2> QED
    BY <2>1, <2>2 DEF Receive
<1>3. /\ spc' \in {"advertise", "wants", "haves", "pack", "command", "commands", "ingest", "ended"}
      /\ code' \in {<<>>, <<0>>, <<128>>} /\ (code' # <<>> <=> spc' = "ended")
  BY EndTypes DEF Receive
<1> QED
  BY <1>1, <1>2, <1>3 DEF Receive, SshTypes, fixed, sshClientVars

-------------------------------------------------------------------------------
(* The client's steps keep the types: it is there, so that what it sees is   *)
(* what it expects.                                                          *)

LEMMA ClientIsThere ==
    ASSUME SessionInv, ClientSide
    PROVE  SshTypes /\ ~hungUp /\ Stays
<1>1. cpc # "gone"
  BY DEF ClientSide, ReadRefs, ReadShallow, SendWindow, SendDone, ReadAck, ReadAnswer, AnswersOver, ReadPack,
         SendRound, ReadReady, SendCommand, ReadReport, SeesEnd, Sees
<1> QED
  BY <1>1 DEF SessionInv, SshTypes

\* What the client is told is one message.
LEMMA SeesMessage ==
    ASSUME SessionInv, ~hungUp, NEW p, Sees(p)
    PROVE  /\ cpc = p /\ down # <<>> /\ down' = Tail(down) /\ down' \in Seq(Message)
           /\ Head(down) \in Message /\ Head(down) = down[1] /\ Head(down)[1] \in Expected[p]
           /\ p = "answers" /\ Head(down)[1] = "pack" => unread = 0 /\ ~more
<1>1. SshTypes
  BY DEF SessionInv
<1>2. down # <<>> /\ cpc = p
  BY DEF Sees
<1> QED
  BY <1>1, <1>2, SeesTypes, NextIsExpected

LEMMA ClientStates ==
    /\ {"refs", "shallow", "haves", "acks", "answers", "pack", "listed", "nothing",
        "report", "commands", "done", "gone"} = DOMAIN Expected
  BY ExpectedOf

LEMMA ReadRefsTypes == ASSUME SshTypes, ReadRefs, SshAssumption PROVE SshTypes'
<1>1. down' \in Seq(Message) /\ cpc = "refs"
  BY SeesTypes DEF ReadRefs
<1>2. up' \in Seq(Line)
  <2>1. /\ <<>> \in Seq(Line) /\ <<Flush>> \in Seq(Line) /\ <<<<"want">>, Flush>> \in Seq(Line)
        /\ <<<<"want">>, <<"deepen">>, Flush>> \in Seq(Line) /\ <<<<"ls-refs">>, Flush>> \in Seq(Line)
    BY IsLine
  <2> QED
    BY <2>1, SendTypes DEF ReadRefs, SshTypes
<1>3. cpc' \in {"commands", "listed", "done", "shallow", "haves"}
  BY DEF ReadRefs
<1>4. cpc' \in DOMAIN Expected /\ cpc' # "gone"
  BY <1>3, ExpectedOf
<1>5. more' \in BOOLEAN
  <2>1. more \in BOOLEAN /\ (service # "push" => want.multi \in BOOLEAN)
    BY DEF SshTypes, Fetches
  <2>2. CASE service = "push" \/ service = "v2" \/ want.empty
    BY <2>1, <2>2, Zenon DEF ReadRefs
  <2>3. CASE ~(service = "push" \/ service = "v2" \/ want.empty)
    BY <2>1, <2>3, Zenon DEF ReadRefs
  <2> QED
    BY <2>2, <2>3
<1> QED
  BY <1>1, <1>2, <1>4, <1>5 DEF ReadRefs, SshTypes, fixed, sshServerVars

LEMMA ReadShallowTypes == ASSUME SshTypes, ReadShallow PROVE SshTypes'
<1>1. down' \in Seq(Message) /\ cpc = "shallow"
  BY SeesTypes DEF ReadShallow
<1>2. cpc' \in DOMAIN Expected /\ cpc' # "gone"
  BY ExpectedOf DEF ReadShallow
<1> QED
  BY <1>1, <1>2 DEF ReadShallow, SshTypes, fixed, sshServerVars

LEMMA HavesTypes ==
    ASSUME sent \in Nat, NEW n \in Nat, sent + n <= MaxHaves, MaxHaves \in Nat
    PROVE  /\ NextHaves(n) \in Seq(Line) /\ Len(NextHaves(n)) = n
           /\ \A i \in 1..n : NextHaves(n)[i] = <<"have", sent + i>> /\ sent + i \in Offers
<1>1. \A i \in 1..n : sent + i \in Offers
  BY DEF Offers
<1>2. \A i \in 1..n : <<"have", sent + i>> \in Line
  BY <1>1, IsLine
<1>3. NextHaves(n) \in [1..n -> Line]
  BY <1>2 DEF NextHaves
<1>4. \A g \in [1..n -> Line] : g \in Seq(Line) /\ Len(g) = n
  BY SeqDef
<1> QED
  BY <1>1, <1>3, <1>4 DEF NextHaves

LEMMA WindowTypes ==
    ASSUME SshTypes, SshAssumption, NEW n \in Nat, sent + n <= MaxHaves, NEW x \in Line
    PROVE  Append(NextHaves(n), x) \in Seq(Line)
<1>1. NextHaves(n) \in Seq(Line)
  BY HavesTypes DEF SshTypes, SshAssumption
<1> QED
  BY <1>1

LEMMA SendWindowTypes == ASSUME SshTypes, SendWindow, SshAssumption PROVE SshTypes'
<1>1. up' \in Seq(Line)
  <2>1. FirstWindow \in Nat /\ sent + FirstWindow <= MaxHaves /\ Flush \in Line
    BY IsLine DEF SshAssumption, SendWindow
  <2> QED
    BY <2>1, WindowTypes, SendTypes DEF SendWindow
<1>2. cpc' \in DOMAIN Expected /\ cpc' # "gone" /\ cpc # "gone"
  BY ExpectedOf DEF SendWindow
<1>3. sent' \in Nat /\ unread' \in Int /\ sent' <= MaxHaves
  BY DEF SendWindow, SshAssumption, SshTypes
<1> QED
  BY <1>1, <1>2, <1>3 DEF SendWindow, SshTypes, fixed, sshServerVars


LEMMA SendDoneTypes == ASSUME SessionInv, ~hungUp, SendDone, SshAssumption PROVE SshTypes'
<1> DEFINE n == IF told = {} THEN MaxHaves - sent ELSE 0
<1>0. SshTypes /\ service = "fetch" /\ sent <= MaxHaves /\ MaxHaves \in Nat /\ sent \in Nat /\ unread \in Int
  <2>1. cpc = "haves"
    BY DEF SendDone
  <2> QED
    BY <2>1 DEF SessionInv, SshTypes, Stays, PushTalk, V2Talk, SshAssumption
<1>1. n \in Nat /\ sent + n <= MaxHaves /\ <<"done">> \in Line
  BY <1>0, IsLine
<1>2. Send(Append(NextHaves(n), <<"done">>)) /\ sent' = sent + n
  BY DEF SendDone
<1> HIDE DEF n
<1>3. up' \in Seq(Line) /\ sent' \in Nat /\ sent' <= MaxHaves
  <2>1. Append(NextHaves(n), <<"done">>) \in Seq(Line)
    BY <1>0, <1>1, WindowTypes
  <2>2. up' \in Seq(Line)
    BY <1>0, <1>2, <2>1, SendTypes
  <2> QED
    BY <1>0, <1>1, <1>2, <2>2
<1>4. cpc' \in DOMAIN Expected /\ cpc' # "gone" /\ cpc # "gone"
  BY ExpectedOf DEF SendDone
<1>5. more' \in BOOLEAN
  <2>1. more' = (more /\ told # {})
    BY DEF SendDone
  <2> QED
    BY <2>1, Zenon
<1>6. unread' \in Int
  BY <1>0 DEF SendDone
<1> QED
  BY <1>0, <1>3, <1>4, <1>5, <1>6 DEF SendDone, SshTypes, fixed, sshServerVars

LEMMA ReadAckTypes == ASSUME SessionInv, ~hungUp, ReadAck PROVE SshTypes'
<1>0. SshTypes
  BY DEF SessionInv
<1>1. /\ cpc = "acks" /\ down' \in Seq(Message) /\ Head(down) \in Message
      /\ Head(down)[1] \in {"common", "ACK", "NAK"}
  BY SeesMessage, ExpectedOf DEF ReadAck
<1>2. service = "fetch"
  BY <1>0, <1>1 DEF SessionInv, SshTypes, Stays, PushTalk, V2Talk
<1>3. Head(down)[1] \in {"common", "ACK"} => Head(down)[2] \in Offers
  BY <1>1, MessageParts
<1>4. <<<<"done">>>> \in Seq(Line)
  BY IsLine
<1>5. CASE Head(down)[1] = "common"
  <2>1. told' = told \cup {Head(down)[2]} /\ UNCHANGED <<cpc, unread, more, up>>
    BY <1>5 DEF ReadAck
  <2>2. told' \subseteq Offers
    BY <1>0, <1>2, <1>3, <1>5, <2>1 DEF SshTypes
  <2> QED
    BY <1>0, <1>1, <1>2, <2>1, <2>2 DEF ReadAck, SshTypes, fixed, sshServerVars
<1>6. CASE Head(down)[1] = "ACK"
  <2>1. told' = {Head(down)[2]} /\ unread' = 0 /\ Send(<<<<"done">>>>) /\ cpc' = "answers"
    BY <1>6 DEF ReadAck
  <2>2. more' = FALSE
    BY <1>6 DEF ReadAck
  <2>3. more' \in BOOLEAN
    BY <2>2
  <2>4. up' \in Seq(Line) /\ told' \subseteq Offers /\ cpc' \in DOMAIN Expected
    BY <1>0, <1>3, <1>4, <1>6, <2>1, SendTypes, ExpectedOf
  <2> QED
    BY <1>0, <1>1, <1>2, <2>1, <2>3, <2>4 DEF ReadAck, SshTypes, fixed, sshServerVars
<1>7. CASE Head(down)[1] = "NAK"
  <2>1. unread' = unread - 1 /\ cpc' = "haves" /\ UNCHANGED <<more, told, up>>
    BY <1>7 DEF ReadAck
  <2>2. unread' \in Int /\ cpc' \in DOMAIN Expected
    BY <1>0, <2>1, ExpectedOf DEF SshTypes
  <2> QED
    BY <1>0, <1>1, <2>1, <2>2 DEF ReadAck, SshTypes, fixed, sshServerVars
<1> QED
  BY <1>1, <1>5, <1>6, <1>7

\* A pack is not an answer: none is read before the answers are over.
LEMMA AnswerIs ==
    ASSUME SessionInv, ~hungUp, ReadAnswer
    PROVE  /\ cpc = "answers" /\ down # <<>> /\ down' = Tail(down) /\ down' \in Seq(Message)
           /\ Head(down) \in Message /\ Head(down) = down[1] /\ Head(down)[1] \in {"common", "ACK", "NAK"}
           /\ service = "fetch"
<1>0. SshTypes
  BY DEF SessionInv
<1>1. (unread > 0 \/ more) /\ Sees("answers")
  BY DEF ReadAnswer
<1>2. /\ cpc = "answers" /\ down # <<>> /\ down' = Tail(down) /\ down' \in Seq(Message)
      /\ Head(down) \in Message /\ Head(down) = down[1] /\ Head(down)[1] \in {"common", "ACK", "NAK", "pack"}
      /\ (Head(down)[1] = "pack" => unread = 0 /\ ~more)
  BY <1>1, SeesMessage, ExpectedOf
<1>3. service = "fetch"
  BY <1>0, <1>2 DEF SessionInv, SshTypes, Stays, PushTalk, V2Talk
<1> QED
  BY <1>1, <1>2, <1>3

LEMMA ReadAnswerTypes == ASSUME SessionInv, ~hungUp, ReadAnswer PROVE SshTypes'
<1>0. SshTypes
  BY DEF SessionInv
<1>1. /\ cpc = "answers" /\ down' \in Seq(Message) /\ Head(down) \in Message
      /\ Head(down)[1] \in {"common", "ACK", "NAK"} /\ service = "fetch"
  BY AnswerIs
<1>3. Head(down)[1] \in {"common", "ACK"} => Head(down)[2] \in Offers
  BY <1>1, MessageParts
<1>5. CASE Head(down)[1] = "common"
  <2>1. told' = told \cup {Head(down)[2]} /\ UNCHANGED <<cpc, unread>>
    BY <1>5 DEF ReadAnswer
  <2>2. told' \subseteq Offers
    BY <1>0, <1>1, <1>3, <1>5, <2>1 DEF SshTypes
  <2>3. more' \in BOOLEAN
    BY <1>5 DEF ReadAnswer
  <2> QED
    BY <1>0, <1>1, <2>1, <2>2, <2>3 DEF ReadAnswer, SshTypes, fixed, sshServerVars
<1>6. CASE Head(down)[1] = "ACK"
  <2>1. told' = told \cup {Head(down)[2]} /\ cpc' = "pack" /\ UNCHANGED <<unread, more>>
    BY <1>6 DEF ReadAnswer
  <2>4. told' \subseteq Offers /\ cpc' \in DOMAIN Expected
    BY <1>0, <1>1, <1>3, <1>6, <2>1, ExpectedOf DEF SshTypes
  <2> QED
    BY <1>0, <1>1, <2>1, <2>4 DEF ReadAnswer, SshTypes, fixed, sshServerVars
<1>7. CASE Head(down)[1] = "NAK"
  <2>1. unread' = unread - 1 /\ UNCHANGED <<cpc, more, told>>
    BY <1>7 DEF ReadAnswer
  <2>2. unread' \in Int
    BY <1>0, <2>1 DEF SshTypes
  <2> QED
    BY <1>0, <1>1, <2>1, <2>2 DEF ReadAnswer, SshTypes, fixed, sshServerVars
<1> QED
  BY <1>1, <1>5, <1>6, <1>7

LEMMA AnswersOverTypes == ASSUME SshTypes, AnswersOver PROVE SshTypes'
<1>1. cpc' \in DOMAIN Expected /\ cpc' = "pack" /\ cpc = "answers"
  BY ExpectedOf DEF AnswersOver
<1> QED
  BY <1>1 DEF AnswersOver, SshTypes, fixed, sshServerVars

LEMMA ReadPackTypes == ASSUME SshTypes, ReadPack PROVE SshTypes'
<1>1. down' \in Seq(Message) /\ cpc = "pack"
  BY SeesTypes DEF ReadPack
<1>2. cpc' \in DOMAIN Expected /\ cpc' = "done"
  BY ExpectedOf DEF ReadPack
<1>3. up' \in Seq(Line)
  BY IsLine DEF ReadPack, SshTypes
<1> QED
  BY <1>1, <1>2, <1>3 DEF ReadPack, SshTypes, fixed, sshServerVars

\* What a round sends: the beginning of the request, the haves, and its end.
RoundSize == IF sent + FirstWindow <= MaxHaves THEN FirstWindow ELSE MaxHaves - sent
Round(n) ==
    <<<<"fetch">>, <<"want">>>> \o (IF want.deepen THEN <<<<"deepen">>>> ELSE <<>>)
        \o NextHaves(n) \o (IF n = 0 THEN <<<<"done">>>> ELSE <<>>) \o <<Flush>>

LEMMA RoundSizeType ==
    ASSUME SshAssumption, sent \in Nat, sent <= MaxHaves
    PROVE  RoundSize \in Nat /\ sent + RoundSize <= MaxHaves
  BY DEF RoundSize, SshAssumption

LEMMA RoundTypes ==
    ASSUME SshAssumption, sent \in Nat, NEW n \in Nat, sent + n <= MaxHaves
    PROVE  Round(n) \in Seq(Line)
<1> DEFINE a == <<<<"fetch">>, <<"want">>>>
           b == IF want.deepen THEN <<<<"deepen">>>> ELSE <<>>
           c == NextHaves(n)
           d == IF n = 0 THEN <<<<"done">>>> ELSE <<>>
           e == <<Flush>>
<1>1. a \in Seq(Line) /\ b \in Seq(Line) /\ d \in Seq(Line) /\ e \in Seq(Line)
  BY IsLine
<1>2. c \in Seq(Line)
  BY HavesTypes DEF SshAssumption
<1> HIDE DEF a, b, c, d, e
<1>3. a \o b \in Seq(Line)
  BY <1>1, ConcatSeq
<1>4. (a \o b) \o c \in Seq(Line)
  BY <1>2, <1>3, ConcatSeq
<1>5. ((a \o b) \o c) \o d \in Seq(Line)
  BY <1>1, <1>4, ConcatSeq
<1>6. (((a \o b) \o c) \o d) \o e \in Seq(Line)
  BY <1>1, <1>5, ConcatSeq
<1> QED
  BY <1>6 DEF Round, a, b, c, d, e

LEMMA RoundIs ==
    ASSUME SendRound
    PROVE  /\ cpc \in {"listed", "nothing"} /\ Sees(cpc)
           /\ IF want.empty THEN Send(<<Flush>>) /\ cpc' = "done" /\ UNCHANGED <<sent, more>>
              ELSE /\ Send(Round(RoundSize)) /\ sent' = sent + RoundSize /\ more' = (RoundSize # 0)
                   /\ cpc' = IF RoundSize # 0 THEN "nothing" ELSE IF want.deepen THEN "shallow" ELSE "pack"
  BY DEF SendRound, Round, RoundSize, Sees

LEMMA SendRoundTypes == ASSUME SessionInv, ~hungUp, SendRound, SshAssumption PROVE SshTypes'
<1>0. SshTypes /\ service = "v2" /\ sent \in Nat /\ sent <= MaxHaves
  <2>1. cpc \in {"listed", "nothing"}
    BY RoundIs
  <2> QED
    BY <2>1 DEF SessionInv, SshTypes, Stays, PushTalk, WantsTalk
<1>1. down' \in Seq(Message) /\ cpc # "gone"
  BY <1>0, RoundIs, SeesTypes
<1>2. CASE want.empty
  <2>1. Send(<<Flush>>) /\ cpc' = "done" /\ UNCHANGED <<sent, more>>
    BY <1>2, RoundIs
  <2>2. up' \in Seq(Line) /\ cpc' \in DOMAIN Expected
    <3>1. <<Flush>> \in Seq(Line)
      BY IsLine
    <3> QED
      BY <1>0, <2>1, <3>1, SendTypes, ExpectedOf
  <2> QED
    BY <1>0, <1>1, <2>1, <2>2 DEF SendRound, SshTypes, fixed, sshServerVars
<1>3. CASE ~want.empty
  <2>1. Send(Round(RoundSize)) /\ sent' = sent + RoundSize /\ cpc' \in {"nothing", "shallow", "pack"}
    BY <1>3, RoundIs
  <2>2. more' \in BOOLEAN
    <3>1. more' = (RoundSize # 0)
      BY <1>3, RoundIs
    <3> QED
      BY <3>1, Zenon
  <2>3. RoundSize \in Nat /\ sent + RoundSize <= MaxHaves
    BY <1>0, RoundSizeType
  <2>4. Round(RoundSize) \in Seq(Line)
    BY <1>0, <2>3, RoundTypes
  <2>5. up' \in Seq(Line) /\ cpc' \in DOMAIN Expected /\ cpc' # "gone" /\ sent' \in Nat /\ sent' <= MaxHaves
    BY <1>0, <2>1, <2>3, <2>4, SendTypes, ExpectedOf
  <2> QED
    BY <1>0, <1>1, <2>2, <2>5 DEF SendRound, SshTypes, fixed, sshServerVars
<1> QED
  BY <1>2, <1>3

LEMMA ReadReadyTypes == ASSUME SessionInv, ~hungUp, ReadReady PROVE SshTypes'
<1>1. /\ SshTypes /\ cpc = "nothing" /\ down' \in Seq(Message) /\ Head(down) \in Message
      /\ Head(down)[1] = "acks"
  BY SeesMessage DEF ReadReady, SessionInv
<1>2. service = "v2"
  BY <1>1 DEF SessionInv, SshTypes, Stays, PushTalk, WantsTalk
<1>3. told' \subseteq Offers
  BY <1>1, MessageParts DEF ReadReady
<1>4. cpc' \in DOMAIN Expected /\ cpc' # "gone"
  BY ExpectedOf DEF ReadReady
<1>5. more' \in BOOLEAN
  BY Zenon DEF ReadReady
<1> QED
  BY <1>1, <1>2, <1>3, <1>4, <1>5 DEF ReadReady, SshTypes, fixed, sshServerVars

LEMMA SeqOfCommands ==
    ASSUME service = "push", want \in Pushes
    PROVE  want.commands \in Seq(Commands) /\ want.commands \in Seq(Line) /\ want.report \in BOOLEAN
<1>1. want.commands \in SeqOf(Commands, MaxCommands) /\ want.report \in BOOLEAN
  BY DEF Pushes
<1>2. PICK m \in 0..MaxCommands : want.commands \in [1..m -> Commands]
  BY <1>1 DEF SeqOf
<1>3. m \in Nat
  OBVIOUS
<1>4. want.commands \in Seq(Commands)
  BY <1>2, <1>3, SeqDef
<1>5. want.commands \in Seq(Line)
  BY <1>4, IsLine
<1> QED
  BY <1>1, <1>4, <1>5

LEMMA SendCommandTypes == ASSUME SessionInv, ~hungUp, SendCommand PROVE SshTypes'
<1>0. SshTypes /\ service = "push" /\ want \in Pushes /\ cpc = "commands" /\ sent \in Nat
  BY DEF SessionInv, SshTypes, Stays, V2Talk, WantsTalk, SendCommand
<1>1. want.commands \in Seq(Line)
  BY <1>0, SeqOfCommands
<1>2. up' \in Seq(Line)
  <2>1. <<Flush>> \in Seq(Line) /\ <<Flush, <<"data">>>> \in Seq(Line)
    BY IsLine
  <2>2. sent < Len(want.commands) => <<want.commands[sent + 1]>> \in Seq(Line)
    <3>1. sent < Len(want.commands) => want.commands[sent + 1] \in Line
      BY <1>0, <1>1
    <3> QED
      BY <3>1
  <2> QED
    BY <1>0, <2>1, <2>2, SendTypes DEF SendCommand
<1>3. cpc' \in DOMAIN Expected /\ cpc' # "gone"
  BY <1>0, ExpectedOf DEF SendCommand
<1> QED
  BY <1>0, <1>2, <1>3 DEF SendCommand, SshTypes, fixed, sshServerVars

LEMMA ReadReportTypes == ASSUME SessionInv, ~hungUp, ReadReport PROVE SshTypes'
<1>1. /\ SshTypes /\ cpc = "report" /\ down' \in Seq(Message) /\ Head(down) \in Message
      /\ Head(down)[1] = "report"
  BY SeesMessage DEF ReadReport, SessionInv
<1>2. service = "push"
  BY <1>1 DEF SessionInv, SshTypes, Stays, V2Talk, WantsTalk
<1>3. told' \subseteq Line
  BY <1>1, MessageParts DEF ReadReport
<1>4. cpc' \in DOMAIN Expected /\ cpc' # "gone"
  BY ExpectedOf DEF ReadReport
<1> QED
  BY <1>1, <1>2, <1>3, <1>4 DEF ReadReport, SshTypes, fixed, sshServerVars

LEMMA GoneTypes == ASSUME SshTypes, SeesEnd \/ HangUp PROVE SshTypes'
<1>1. up' \in Seq(Line)
  <2>1. up \in Seq(Line)
    BY DEF SshTypes
  <2>2. ASSUME NEW n \in 0..Len(up) PROVE SubSeq(up, 1, n) \in Seq(Line)
    <3>1. \A i \in 1..n : up[i] \in Line
      BY <2>1
    <3> QED
      BY <2>1, <3>1, SubSeqProperties
  <2> QED
    BY <2>1, <2>2 DEF SeesEnd, HangUp
<1>2. cpc' = "gone" /\ cpc' \in DOMAIN Expected
  BY ExpectedOf DEF SeesEnd, HangUp
<1>3. hungUp' /\ hungUp' \in BOOLEAN
  BY Zenon DEF SeesEnd, HangUp
<1> QED
  BY <1>1, <1>2, <1>3 DEF SeesEnd, HangUp, SshTypes, fixed, sshServerVars

\* Together.
LEMMA StepTypes == ASSUME SessionInv, SshNext, SshAssumption PROVE SshTypes'
<1>0. SshTypes
  BY DEF SessionInv
<1>1. CASE ServerSide
  BY <1>0, <1>1, AdvertiseTypes, ReadLineTypes, RefuseTypes, EndWantsTypes, ReadHaveTypes, EndBatchTypes,
     ReadDoneTypes, SendPackTypes, RunCommandTypes, EndCommandsTypes, ReceiveTypes DEF ServerSide
<1>2. CASE ClientSide
  <2>1. ~hungUp
    BY <1>2, ClientIsThere
  <2> QED
    BY <1>0, <1>2, <2>1, ReadRefsTypes, ReadShallowTypes, SendWindowTypes, SendDoneTypes, ReadAckTypes,
       ReadAnswerTypes, AnswersOverTypes, ReadPackTypes, SendRoundTypes, ReadReadyTypes, SendCommandTypes,
       ReadReportTypes, GoneTypes DEF ClientSide
<1>3. CASE HangUp
  BY <1>0, <1>3, GoneTypes
<1> QED
  BY <1>1, <1>2, <1>3 DEF SshNext

-------------------------------------------------------------------------------
(* Which steps are taken where, as long as the client is there.              *)

LEMMA ServerAt ==
    ASSUME ServerSide, ~hungUp
    PROVE  \/ Advertise /\ spc = "advertise"
           \/ RefuseLine /\ spc \in {"wants", "haves", "command"}
           \/ (ReadWant \/ EndWants) /\ spc = "wants"
           \/ (ReadHave \/ EndBatch \/ ReadDone) /\ spc = "haves"
           \/ SendPack /\ spc = "pack"
           \/ (ReadCommandLine \/ (RunCommand /\ Reads("command"))) /\ spc = "command"
           \/ (ReadPushCommand \/ (EndCommands /\ Reads("commands"))) /\ spc = "commands"
           \/ Receive /\ spc = "ingest"
<1>1. \A p : ~AtEof(p)
  BY DEF AtEof
<1>2. ~EofEnds /\ ~WriteFails
  BY <1>1 DEF EofEnds, WriteFails
<1>3. RunCommand => Reads("command")
  BY <1>1 DEF RunCommand
<1>4. EndCommands => Reads("commands")
  BY <1>1 DEF EndCommands
<1> QED
  BY <1>2, <1>3, <1>4 DEF ServerSide, Advertise, RefuseLine, ReadWant, EndWants, ReadHave, EndBatch, ReadDone,
     SendPack, ReadCommandLine, ReadPushCommand, Receive, Reads

LEMMA ClientAt ==
    ASSUME ClientSide \/ HangUp, ~hungUp'
    PROVE  \/ ReadRefs /\ cpc = "refs"
           \/ ReadShallow /\ cpc = "shallow"
           \/ (SendWindow \/ SendDone) /\ cpc = "haves"
           \/ ReadAck /\ cpc = "acks"
           \/ (ReadAnswer \/ AnswersOver) /\ cpc = "answers"
           \/ ReadPack /\ cpc = "pack"
           \/ SendRound /\ cpc \in {"listed", "nothing"}
           \/ ReadReady /\ cpc = "nothing"
           \/ SendCommand /\ cpc = "commands"
           \/ ReadReport /\ cpc = "report"
<1>1. ~HangUp /\ ~SeesEnd
  BY DEF HangUp, SeesEnd
<1>2. /\ ReadRefs => cpc = "refs"
      /\ ReadShallow => cpc = "shallow"
      /\ SendWindow \/ SendDone => cpc = "haves"
      /\ ReadAck => cpc = "acks"
      /\ ReadAnswer \/ AnswersOver => cpc = "answers"
  BY Zenon DEF ReadRefs, ReadShallow, SendWindow, SendDone, ReadAck, ReadAnswer, AnswersOver, Sees
<1>3. /\ ReadPack => cpc = "pack"
      /\ SendRound => cpc \in {"listed", "nothing"}
      /\ ReadReady => cpc = "nothing"
      /\ SendCommand => cpc = "commands"
      /\ ReadReport => cpc = "report"
  BY Zenon DEF ReadPack, SendRound, ReadReady, SendCommand, ReadReport, Sees
<1> QED
  BY <1>1, <1>2, <1>3 DEF ClientSide

\* Once there, it stays there until it is gone.
LEMMA StillThere == ASSUME SshNext, ~hungUp' PROVE ~hungUp
<1>1. CASE ServerSide
  <2>1. UNCHANGED hungUp
    BY <1>1, Zenon DEF ServerSide, Advertise, RefuseLine, ReadWant, EndWants, ReadHave, EndBatch, ReadDone, SendPack,
       ReadCommandLine, RunCommand, EofEnds, ReadPushCommand, EndCommands, Receive, WriteFails
  <2> QED
    BY <2>1
<1>2. CASE ClientSide \/ HangUp
  <2>1. UNCHANGED hungUp
    BY <1>2, ClientAt, Zenon DEF ReadRefs, ReadShallow, SendWindow, SendDone, ReadAck, ReadAnswer, AnswersOver,
       ReadPack, SendRound, ReadReady, SendCommand, ReadReport
  <2> QED
    BY <2>1
<1> QED
  BY <1>1, <1>2 DEF SshNext

\* What is never changed.
LEMMA FixedStays == ASSUME SshNext PROVE UNCHANGED fixed
<1>1. CASE ServerSide
  BY <1>1, Zenon DEF ServerSide, Advertise, RefuseLine, ReadWant, EndWants, ReadHave, EndBatch, ReadDone, SendPack,
     ReadCommandLine, RunCommand, EofEnds, ReadPushCommand, EndCommands, Receive, WriteFails
<1>2. CASE ClientSide
  BY <1>2, Zenon DEF ClientSide, ReadRefs, ReadShallow, SendWindow, SendDone, ReadAck, ReadAnswer, AnswersOver,
     ReadPack, SendRound, ReadReady, SendCommand, ReadReport, SeesEnd
<1>3. CASE HangUp
  BY <1>3 DEF HangUp
<1> QED
  BY <1>1, <1>2, <1>3 DEF SshNext

\* Each changes what is its own.
LEMMA ServerClient == ASSUME ServerSide PROVE UNCHANGED sshClientVars
  BY Zenon DEF ServerSide, Advertise, RefuseLine, ReadWant, EndWants, ReadHave, EndBatch, ReadDone, SendPack,
     ReadCommandLine, RunCommand, EofEnds, ReadPushCommand, EndCommands, Receive, WriteFails

LEMMA ClientServer == ASSUME ClientSide PROVE UNCHANGED sshServerVars /\ UNCHANGED applied
  BY Zenon DEF ClientSide, ReadRefs, ReadShallow, SendWindow, SendDone, ReadAck, ReadAnswer, AnswersOver,
     ReadPack, SendRound, ReadReady, SendCommand, ReadReport, SeesEnd

\* A conversation that began does not begin again.
LEMMA BegunStays ==
    ASSUME SshNext, ~hungUp', SessionInv, cpc # "refs"
    PROVE  cpc' # "refs" /\ spc' # "advertise" /\ spc # "advertise"
<1>1. ~hungUp /\ spc # "advertise"
  BY StillThere DEF SessionInv, Stays, Opening
<1>2. CASE ServerSide
  <2>1. UNCHANGED cpc
    BY <1>1, <1>2, ServerClient DEF sshClientVars
  <2>2. spc' # "advertise"
    BY <1>1, <1>2, ServerAt DEF RefuseLine, ReadWant, EndWants, ReadHave, EndBatch, ReadDone, SendPack,
       ReadCommandLine, RunCommand, ReadPushCommand, EndCommands, Receive, End
  <2> QED
    BY <1>1, <2>1, <2>2
<1>3. CASE ClientSide \/ HangUp
  <2>1. UNCHANGED spc
    BY <1>3, ClientAt DEF ReadRefs, ReadShallow, SendWindow, SendDone, ReadAck, ReadAnswer, AnswersOver,
       ReadPack, SendRound, ReadReady, SendCommand, ReadReport, sshServerVars
  <2>2. cpc' # "refs"
    <3>1. SessionInv /\ (ReadAck \/ ReadAnswer) =>
             Head(down)[1] \in {"common", "ACK", "NAK"}
      BY <1>1, SeesMessage, AnswerIs, ExpectedOf DEF ReadAck
    <3> QED
      BY <1>1, <1>3, <3>1, ClientAt DEF ReadRefs, ReadShallow, SendWindow, SendDone, ReadAck, ReadAnswer, AnswersOver,
         ReadPack, SendRound, ReadReady, SendCommand, ReadReport
  <2> QED
    BY <1>1, <2>1, <2>2
<1> QED
  BY <1>2, <1>3 DEF SshNext

-------------------------------------------------------------------------------
(* A push.                                                                   *)

\* Where the first flush is, two ways to cut a conversation agree.
LEMMA CutAtFlush ==
    ASSUME NEW S, NEW s \in Seq(S), NEW t \in Seq(S), NEW c \in Seq(S), NEW e \in Seq(S)
    PROVE  /\ s \o t = c \o e
           /\ t # <<>> /\ t[1] = Flush /\ e # <<>> /\ e[1] = Flush
           /\ \A i \in 1..Len(s) : s[i] # Flush
           /\ \A i \in 1..Len(c) : c[i] # Flush
           => s = c
<1>1. /\ \A i \in 1..Len(s) : (s \o t)[i] = s[i]
      /\ \A i \in 1..Len(t) : (s \o t)[Len(s) + i] = t[i]
      /\ \A i \in 1..Len(c) : (c \o e)[i] = c[i]
      /\ \A i \in 1..Len(e) : (c \o e)[Len(c) + i] = e[i]
  OBVIOUS
<1>2. Len(s) \in Nat /\ Len(t) \in Nat /\ Len(c) \in Nat /\ Len(e) \in Nat
  OBVIOUS
<1>3. t # <<>> => Len(t) >= 1
  OBVIOUS
<1>4. e # <<>> => Len(e) >= 1
  OBVIOUS
<1> DEFINE r == s \o t
           q == c \o e
<1>5. /\ \A i \in 1..Len(s) : r[i] = s[i]
      /\ \A i \in 1..Len(t) : r[Len(s) + i] = t[i]
      /\ \A i \in 1..Len(c) : q[i] = c[i]
      /\ \A i \in 1..Len(e) : q[Len(c) + i] = e[i]
  BY <1>1
<1> HIDE DEF r, q
<1> SUFFICES ASSUME r = q, t # <<>>, t[1] = Flush, e # <<>>, e[1] = Flush,
                    \A i \in 1..Len(s) : s[i] # Flush, \A i \in 1..Len(c) : c[i] # Flush
             PROVE  s = c
  BY DEF r, q
<1>7. r[Len(s) + 1] = Flush /\ r[Len(c) + 1] = Flush
  <2>1. Len(t) >= 1 /\ Len(e) >= 1
    BY <1>2, <1>3, <1>4
  <2>2. 1 \in 1..Len(t) /\ 1 \in 1..Len(e)
    BY <1>2, <2>1
  <2>3. r[Len(s) + 1] = t[1] /\ q[Len(c) + 1] = e[1]
    BY <1>5, <2>2
  <2> QED
    BY <2>3
<1>8. ~(Len(s) < Len(c))
  <2>1. Len(s) < Len(c) => Len(s) + 1 \in 1..Len(c)
    BY <1>2
  <2> QED
    BY <1>5, <1>7, <2>1
<1>9. ~(Len(c) < Len(s))
  <2>1. Len(c) < Len(s) => Len(c) + 1 \in 1..Len(s)
    BY <1>2
  <2> QED
    BY <1>5, <1>7, <2>1
<1>10. Len(s) = Len(c)
  BY <1>2, <1>8, <1>9
<1>11. \A i \in 1..Len(s) : s[i] = c[i]
  BY <1>5, <1>10
<1> QED
  BY <1>10, <1>11, SeqEqual

LEMMA PushIsAll ==
    ASSUME service = "push", cpc # "refs", spc # "advertise", PushTalk
    PROVE  Stays
  BY DEF Stays, Opening, V2Talk, WantsTalk, TalkDown, TalkUp, TalkCounts, TalkSingle, Talking

LEMMA EndingIs ==
    ASSUME service = "push", want \in Pushes
    PROVE  /\ Ending \in Seq(Line) /\ Ending # <<>> /\ Ending[1] = Flush
           /\ \A i \in 1..Len(want.commands) : want.commands[i] # Flush
<1>1. <<Flush>> \in Seq(Line) /\ <<Flush, <<"data">>>> \in Seq(Line)
  BY IsLine
<1>2. <<Flush>> # <<>> /\ <<Flush, <<"data">>>> # <<>>
  OBVIOUS
<1>3. \A i \in 1..Len(want.commands) : want.commands[i] \in Commands
  BY SeqOfCommands
<1>4. Flush \notin Commands
  BY DEF Flush, Commands, Create, Delete
<1> QED
  BY <1>1, <1>2, <1>3, <1>4 DEF Ending

LEMMA PushSteps ==
    ASSUME SessionInv, SshNext, ~hungUp', service = "push", cpc # "refs"
    PROVE  /\ PushTalk /\ SshTypes /\ want \in Pushes /\ ~hungUp
           /\ \/ ReadPushCommand /\ spc = "commands"
              \/ EndCommands /\ Reads("commands")
              \/ Receive /\ spc = "ingest"
              \/ SendCommand
              \/ ReadReport
<1>1. ~hungUp /\ PushTalk /\ SshTypes /\ want \in Pushes
  BY StillThere DEF SessionInv, Stays, SshTypes
<1>2. spc \in {"commands", "ingest", "ended"} /\ cpc \in {"commands", "report", "done"}
  BY <1>1 DEF PushTalk
<1>3. CASE ServerSide
  BY <1>1, <1>2, <1>3, ServerAt
<1>4. CASE ClientSide \/ HangUp
  BY <1>1, <1>2, <1>4, ClientAt
<1> QED
  BY <1>1, <1>3, <1>4 DEF SshNext

LEMMA ReadPushCommandStays ==
    ASSUME PushTalk, SshTypes, want \in Pushes, service = "push", cpc # "refs", UNCHANGED fixed,
           ReadPushCommand, spc = "commands"
    PROVE  PushTalk'
<1>1. /\ UNCHANGED <<service, want, spc, cpc, sent, down, told, applied>>
      /\ Reads("commands") /\ Head(up) # Flush /\ lines' = Append(lines, Head(up))
  BY DEF ReadPushCommand, fixed, sshClientVars
<1>2. up # <<>> /\ up' = Tail(up) /\ up \in Seq(Line) /\ lines \in Seq(Line)
  BY <1>1 DEF Reads, SshTypes
<1>3. lines' \o up' = lines \o up
  BY <1>1, <1>2, ReadOn
<1>4. Flush \notin Range(lines) => Flush \notin Range(lines')
  <2>1. Head(up) \in Line
    BY <1>2
  <2> QED
    BY <1>1, <1>2, <2>1 DEF Range
<1>5. Ending' = Ending /\ Awaited' = Awaited
  BY <1>1 DEF Ending, NeedsPack, Awaited
<1> QED
  BY <1>1, <1>3, <1>4, <1>5 DEF PushTalk

LEMMA EndCommandsStays ==
    ASSUME PushTalk, SshTypes, want \in Pushes, service = "push", cpc # "refs", UNCHANGED fixed,
           EndCommands, Reads("commands")
    PROVE  PushTalk'
<1>1. /\ UNCHANGED <<service, want, cpc, sent, down, told, applied, lines>>
      /\ spc = "commands" /\ spc' = "ingest" /\ up # <<>> /\ up \in Seq(Line) /\ lines \in Seq(Line)
  BY DEF EndCommands, fixed, sshClientVars, Reads, SshTypes
<1>2. Head(up) = Flush /\ up[1] = Flush
  BY <1>1 DEF EndCommands, AtEof
<1>3. want.commands \in Seq(Line)
  BY SeqOfCommands
<1>4. \A i \in 1..Len(lines) : lines[i] # Flush
  BY <1>1 DEF PushTalk, Range
<1>5. cpc # "commands"
  <2> SUFFICES ASSUME cpc = "commands" PROVE FALSE
    OBVIOUS
  <2>1. sent \in 0..Len(want.commands) /\ lines \o up = SubSeq(want.commands, 1, sent)
    BY DEF PushTalk
  <2>2. /\ (lines \o up)[Len(lines) + 1] = Flush /\ Len(lines \o up) = Len(lines) + Len(up)
        /\ Len(lines) \in Nat /\ Len(up) \in Nat /\ Len(up) >= 1
    BY <1>1, <1>2, ConcatSeq, TailSeq
  <2>3. Len(SubSeq(want.commands, 1, sent)) = sent /\ \A i \in 1..sent : SubSeq(want.commands, 1, sent)[i] = want.commands[i]
    BY <1>3, <2>1
  <2>4. Len(lines) + 1 \in 1..sent
    BY <2>1, <2>2, <2>3
  <2>5. want.commands[Len(lines) + 1] = Flush /\ Len(lines) + 1 \in 1..Len(want.commands)
    BY <1>3, <2>1, <2>2, <2>3, <2>4
  <2> QED
    BY <2>5, EndingIs
<1>6. lines \o up = want.commands \o Ending
  BY <1>1, <1>5 DEF PushTalk
<1>7. lines = want.commands
  <2>1. /\ Ending \in Seq(Line) /\ Ending # <<>> /\ Ending[1] = Flush
        /\ \A i \in 1..Len(want.commands) : want.commands[i] # Flush
    BY EndingIs
  <2>2. lines \in Seq(Line) /\ up \in Seq(Line) /\ up # <<>> /\ up[1] = Flush
    BY <1>1, <1>2
  <2>3. want.commands \in Seq(Line)
    BY SeqOfCommands
  <2>4. /\ lines \o up = want.commands \o Ending
        /\ up # <<>> /\ up[1] = Flush /\ Ending # <<>> /\ Ending[1] = Flush
        /\ \A i \in 1..Len(lines) : lines[i] # Flush
        /\ \A i \in 1..Len(want.commands) : want.commands[i] # Flush
        => lines = want.commands
    <3>1. lines \in Seq(Line) /\ up \in Seq(Line) /\ Ending \in Seq(Line) /\ want.commands \in Seq(Line)
      BY <2>1, <2>2, <2>3
    <3> QED
      BY <3>1, CutAtFlush, Zenon
  <2> QED
    BY <1>4, <1>6, <2>1, <2>2, <2>4
<1>8. Awaited' = Awaited
  BY <1>1 DEF Awaited
<1> QED
  BY <1>1, <1>5, <1>7, <1>8 DEF PushTalk


LEMMA ReceiveStays ==
    ASSUME PushTalk, SshTypes, want \in Pushes, service = "push", cpc # "refs", UNCHANGED fixed,
           Receive, spc = "ingest", ~hungUp
    PROVE  PushTalk'
<1>1. /\ UNCHANGED <<service, want, cpc, sent, told, lines>> /\ spc' = "ended"
      /\ lines = want.commands /\ cpc # "commands" /\ down = <<>> /\ told = {} /\ applied = {}
      /\ cpc = IF Awaited THEN "report" ELSE "done"
  BY DEF Receive, fixed, sshClientVars, PushTalk, End
<1>2. PICK ok \in SUBSET Range(lines) :
         applied' = ok /\ ((End(0) /\ Reply(Report(ok))) \/ (End(128) /\ UNCHANGED down))
  BY DEF Receive, AtEof
<1>3. (IF Awaited /\ code' = <<0>> THEN down' = <<<<"report", ok>>>> ELSE down' = <<>>) /\ code' \in {<<0>>, <<128>>}
  <2>1. CASE End(0) /\ Reply(Report(ok))
    <3>1. Report(ok) = IF Awaited THEN <<<<"report", ok>>>> ELSE <<>>
      BY <1>1 DEF Report, Reported, Awaited
    <3>2. \A s : <<>> \o <<s>> = <<s>> /\ <<>> \o <<>> = <<>>
      OBVIOUS
    <3>3. down' = IF Awaited THEN <<<<"report", ok>>>> ELSE <<>>
      BY <1>1, <2>1, <3>1, <3>2 DEF Reply
    <3> QED
      BY <2>1, <3>3 DEF End
  <2>2. CASE End(128) /\ UNCHANGED down
    <3>1. code' = <<128>> /\ down' = <<>>
      BY <1>1, <2>2 DEF End
    <3> QED
      BY <3>1
  <2> QED
    BY <1>2, <2>1, <2>2
<1>4. ~Awaited => (want.report => ok = {})
  <2>1. lines = <<>> => Range(lines) = {}
    BY DEF Range
  <2> QED
    BY <1>1, <1>2, <2>1 DEF Awaited
<1>5. Awaited' = Awaited
  BY <1>1 DEF Awaited
<1>6. cpc' = "report" => down' = IF code' = <<128>> THEN <<>> ELSE <<<<"report", applied'>>>>
  BY <1>1, <1>2, <1>3
<1>7. cpc' = "done" => down' = <<>> /\ (want'.report => told' = applied')
  BY <1>1, <1>2, <1>3, <1>4
<1> QED
  BY <1>1, <1>5, <1>6, <1>7 DEF PushTalk

LEMMA SendCommandStays ==
    ASSUME PushTalk, SshTypes, want \in Pushes, service = "push", cpc # "refs", UNCHANGED fixed, SendCommand
    PROVE  PushTalk'
<1> DEFINE c == want.commands
<1>1. /\ UNCHANGED <<service, want, spc, down, told, lines, applied>> /\ sent' = sent + 1
      /\ cpc = "commands" /\ spc = "commands" /\ sent \in 0..Len(c) /\ lines \o up = SubSeq(c, 1, sent)
      /\ lines \in Seq(Line) /\ up \in Seq(Line) /\ c \in Seq(Line) /\ Len(c) \in Nat
  BY SeqOfCommands, SMTT(40) DEF SendCommand, fixed, sshServerVars, PushTalk, SshTypes
<1>2. Ending' = Ending /\ Awaited' = Awaited
  BY <1>1 DEF Ending, NeedsPack, Awaited
<1>3. CASE sent < Len(c)
  <2>1. Send(<<c[sent + 1]>>) /\ cpc' = "commands"
    BY <1>1, <1>3 DEF SendCommand
  <2>2. <<c[sent + 1]>> \in Seq(Line)
    <3>1. c[sent + 1] \in Line
      BY <1>1, <1>3
    <3> QED
      BY <3>1
  <2>3. lines \o up' = SubSeq(c, 1, sent) \o <<c[sent + 1]>>
    <3>1. up' = up \o <<c[sent + 1]>>
      BY <2>1 DEF Send
    <3>2. (lines \o up) \o <<c[sent + 1]>> = lines \o (up \o <<c[sent + 1]>>)
      <4>1. lines \in Seq(Line) /\ up \in Seq(Line) /\ <<c[sent + 1]>> \in Seq(Line)
        BY <1>1, <2>2
      <4> QED
        BY <4>1, ReadLast
    <3> QED
      BY <1>1, <3>1, <3>2
  <2>4. SubSeq(c, 1, sent + 1) = SubSeq(c, 1, sent) \o <<c[sent + 1]>>
    <3>1. 1 \in 1..Len(c) /\ sent + 1 \in 1..Len(c) /\ (sent + 1) - 1 = sent
      BY <1>1, <1>3
    <3>2. SubSeq(c, 1, sent + 1) = SubSeq(c, 1, (sent + 1) - 1) \o <<c[sent + 1]>>
      BY <1>1, <3>1, SubSeqRecursiveSecond
    <3> QED
      BY <3>1, <3>2
  <2>6. lines' \o up' = SubSeq(want'.commands, 1, sent') /\ sent' \in 0..Len(want'.commands)
    BY <1>1, <1>3, <2>3, <2>4
  <2> QED
    BY <1>1, <2>1, <2>6 DEF PushTalk
<1>4. CASE ~(sent < Len(c))
  <2>1. Send(Ending) /\ cpc' = IF Awaited THEN "report" ELSE "done"
    BY <1>1, <1>4 DEF SendCommand, Ending, Awaited
  <2>2. lines \o up = c
    BY <1>1, <1>4, SubSeqFull
  <2>3. lines \o up' = c \o Ending
    <3>1. Ending \in Seq(Line) /\ up' = up \o Ending
      BY <2>1, EndingIs DEF Send
    <3>2. (lines \o up) \o Ending = lines \o (up \o Ending)
      <4>1. lines \in Seq(Line) /\ up \in Seq(Line) /\ Ending \in Seq(Line)
        BY <1>1, <3>1
      <4> QED
        BY <4>1, ReadLast
    <3> QED
      BY <2>2, <3>1, <3>2
  <2> QED
    BY <1>1, <1>2, <2>1, <2>3 DEF PushTalk
<1> QED
  BY <1>3, <1>4

LEMMA ReadReportStays ==
    ASSUME PushTalk, SshTypes, want \in Pushes, service = "push", cpc # "refs", UNCHANGED fixed, ReadReport
    PROVE  PushTalk'
<1>1. /\ UNCHANGED <<service, want, spc, sent, lines, applied, up>> /\ cpc = "report" /\ cpc' = "done"
      /\ down # <<>> /\ down' = Tail(down) /\ told' = Head(down)[2]
  BY DEF ReadReport, Sees, fixed, sshServerVars
<1>2. spc = "ended" /\ down = <<<<"report", applied>>>>
  <2>1. spc = "ended" /\ down = IF code = <<128>> THEN <<>> ELSE <<<<"report", applied>>>>
    BY <1>1 DEF PushTalk
  <2> QED
    BY <1>1, <2>1
<1>3. down' = <<>> /\ told' = applied
  BY <1>1, <1>2
<1> QED
  BY <1>1, <1>2, <1>3 DEF PushTalk

LEMMA PushStays ==
    ASSUME SessionInv, SshNext, ~hungUp', service = "push", cpc # "refs"
    PROVE  Stays'
<1>1. PushTalk'
  BY PushSteps, FixedStays, ReadPushCommandStays, EndCommandsStays, ReceiveStays, SendCommandStays, ReadReportStays
<1>2. service' = "push" /\ cpc' # "refs" /\ spc' # "advertise"
  BY BegunStays, FixedStays DEF fixed
<1> QED
  BY <1>1, <1>2 DEF Stays, Opening, V2Talk, WantsTalk, TalkDown, TalkUp, TalkCounts, TalkSingle, Talking

-------------------------------------------------------------------------------
(* Version 2: what a round of haves is, and how it is answered.              *)

LEMMA RangeOfFew ==
    ASSUME NEW x, NEW y
    PROVE  Range(<<>>) = {} /\ Range(<<x>>) = {x} /\ Range(<<x, y>>) = {x, y}
<1>1. DOMAIN <<>> = {} /\ DOMAIN <<x>> = {1} /\ DOMAIN <<x, y>> = {1, 2}
  OBVIOUS
<1> QED
  BY <1>1 DEF Range

LEMMA ConcatHead ==
    ASSUME NEW S, NEW s \in Seq(S), NEW t \in Seq(S), s # <<>>
    PROVE  (s \o t)[1] = s[1] /\ s \o t # <<>> /\ s \o t \in Seq(S)
<1>1. Len(s) \in Nat /\ Len(s) >= 1 /\ Len(t) \in Nat
  OBVIOUS
<1>2. s \o t \in Seq(S) /\ Len(s \o t) = Len(s) + Len(t) /\ (s \o t)[1] = s[1]
  BY <1>1, ConcatSeq
<1> QED
  BY <1>1, <1>2

LEMMA RoundShape ==
    ASSUME SshAssumption, sent \in Nat, NEW n \in Nat, sent + n <= MaxHaves
    PROVE  LET r == Round(n)
           IN  /\ r \in Seq(Line) /\ r # <<>> /\ r[1] = <<"fetch">> /\ r[Len(r)] = Flush
               /\ \A i \in 1..Len(r) - 1 : r[i] # Flush
               /\ <<"want">> \in Range(r) /\ (<<"deepen">> \in Range(r) <=> want.deepen)
               /\ (<<"done">> \in Range(r) <=> n = 0) /\ (n = 0 => HavesOf(r) = {})
<1> DEFINE a == <<<<"fetch">>, <<"want">>>>
           b == IF want.deepen THEN <<<<"deepen">>>> ELSE <<>>
           c == NextHaves(n)
           d == IF n = 0 THEN <<<<"done">>>> ELSE <<>>
           e == <<Flush>>
<1>1. /\ a \in Seq(Line) /\ b \in Seq(Line) /\ d \in Seq(Line) /\ e \in Seq(Line)
      /\ a # <<>> /\ a[1] = <<"fetch">> /\ Len(e) = 1 /\ e[1] = Flush
  BY IsLine
<1>2. c \in Seq(Line) /\ Len(c) = n /\ \A i \in 1..n : c[i] = <<"have", sent + i>>
  BY HavesTypes DEF SshAssumption
<1>3. /\ Range(a) = {<<"fetch">>, <<"want">>} /\ Range(e) = {Flush}
      /\ Range(b) = IF want.deepen THEN {<<"deepen">>} ELSE {}
      /\ Range(d) = IF n = 0 THEN {<<"done">>} ELSE {}
  BY RangeOfFew
<1>4. Range(c) = {<<"have", sent + i>> : i \in 1..n}
  <2>1. DOMAIN c = 1..n
    BY DEF NextHaves
  <2> QED
    BY <1>2, <2>1 DEF Range
<1> DEFINE ab == a \o b
           abc == ab \o c
           f == abc \o d
<1> HIDE DEF a, b, c, d, e
<1>5. ab \in Seq(Line) /\ ab # <<>> /\ ab[1] = <<"fetch">> /\ Range(ab) = Range(a) \cup Range(b)
  BY <1>1, ConcatHead, RangeConcatenation
<1> HIDE DEF ab
<1>6. abc \in Seq(Line) /\ abc # <<>> /\ abc[1] = <<"fetch">> /\ Range(abc) = Range(ab) \cup Range(c)
  BY <1>2, <1>5, ConcatHead, RangeConcatenation
<1> HIDE DEF abc
<1>7. f \in Seq(Line) /\ f # <<>> /\ f[1] = <<"fetch">> /\ Range(f) = Range(abc) \cup Range(d)
  BY <1>1, <1>6, ConcatHead, RangeConcatenation
<1> HIDE DEF f
<1>8. f \o e \in Seq(Line) /\ f \o e # <<>> /\ (f \o e)[1] = <<"fetch">> /\ Range(f \o e) = Range(f) \cup Range(e)
  BY <1>1, <1>7, ConcatHead, RangeConcatenation
<1>9. Range(f) = {<<"fetch">>, <<"want">>} \cup Range(b) \cup Range(c) \cup Range(d)
  BY <1>3, <1>5, <1>6, <1>7
<1>10. Flush \notin Range(f)
  BY <1>3, <1>4, <1>9 DEF Flush
<1>11. /\ Len(f \o e) = Len(f) + 1 /\ Len(f) \in Nat
       /\ \A i \in 1..Len(f) : (f \o e)[i] = f[i]
       /\ (f \o e)[Len(f) + 1] = Flush
  <2>1. 1 \in 1..Len(e)
    BY <1>1
  <2>2. /\ Len(f \o e) = Len(f) + Len(e) /\ Len(f) \in Nat
        /\ \A i \in 1..Len(f) : (f \o e)[i] = f[i]
        /\ \A i \in 1..Len(e) : (f \o e)[Len(f) + i] = e[i]
    <3>1. f \in Seq(Line) /\ e \in Seq(Line)
      BY <1>1, <1>7
    <3> QED
      BY <3>1, ConcatSeq
  <2> QED
    BY <1>1, <2>1, <2>2
<1>12. \A i \in 1..Len(f) : f[i] \in Range(f)
  BY <1>7 DEF Range
<1>13. Round(n) = f \o e
  BY DEF Round, f, abc, ab, a, b, c, d, e
<1>14. n = 0 => HavesOf(f \o e) = {}
  <2>1. n = 0 => Range(c) = {}
    BY <1>4
  <2>2. n = 0 => \A x \in Range(f \o e) : x[1] # "have"
    BY <1>3, <1>8, <1>9, <2>1 DEF Flush
  <2> QED
    BY <2>2 DEF HavesOf
<1>15. /\ <<"want">> \in Range(f \o e) /\ (<<"deepen">> \in Range(f \o e) <=> want.deepen)
       /\ (<<"done">> \in Range(f \o e) <=> n = 0)
  BY <1>3, <1>4, <1>8, <1>9 DEF Flush
<1>16. (f \o e)[Len(f \o e)] = Flush /\ \A i \in 1..Len(f \o e) - 1 : (f \o e)[i] # Flush
  BY <1>10, <1>11, <1>12
<1> QED
  BY <1>8, <1>13, <1>14, <1>15, <1>16

LEMMA V2IsAll ==
    ASSUME service = "v2", cpc # "refs", spc # "advertise", V2Talk
    PROVE  Stays
  BY DEF Stays, Opening, PushTalk, WantsTalk, TalkDown, TalkUp, TalkCounts, TalkSingle, Talking

LEMMA V2Steps ==
    ASSUME SessionInv, SshNext, ~hungUp', service = "v2", cpc # "refs"
    PROVE  /\ V2Talk /\ SshTypes /\ want \in Fetches /\ ~hungUp
           /\ \/ (RefuseLine \/ ReadCommandLine \/ RunCommand) /\ Reads("command")
              \/ ReadShallow \/ ReadPack \/ SendRound \/ ReadReady
<1>1. ~hungUp /\ V2Talk /\ SshTypes /\ want \in Fetches
  BY StillThere DEF SessionInv, Stays, SshTypes
<1>2. spc \in {"command", "ended"} /\ cpc \in {"listed", "nothing", "shallow", "pack", "done"}
  BY <1>1 DEF V2Talk
<1>3. CASE ServerSide
  <2>1. (RefuseLine \/ ReadCommandLine \/ RunCommand) /\ spc = "command"
    BY <1>1, <1>2, <1>3, ServerAt
  <2>2. RefuseLine => Reads("command")
    BY <2>1 DEF RefuseLine, Reads
  <2>3. ReadCommandLine => Reads("command")
    BY DEF ReadCommandLine
  <2>4. RunCommand => Reads("command")
    BY <1>1 DEF RunCommand, AtEof
  <2> QED
    BY <1>1, <2>1, <2>2, <2>3, <2>4
<1>4. CASE ClientSide \/ HangUp
  BY <1>1, <1>2, <1>4, ClientAt
<1> QED
  BY <1>1, <1>3, <1>4 DEF SshNext


\* The flush that ends a request is the last thing that was sent.
LEMMA RequestRead ==
    ASSUME NEW s \in Seq(Line), NEW t \in Seq(Line)
    PROVE  LET r == s \o t
           IN  /\ t # <<>> /\ t[1] = Flush /\ Len(r) >= 2 /\ r[1] # Flush
               /\ \A i \in 1..Len(r) - 1 : r[i] # Flush
               => s # <<>> /\ s[1] = r[1] /\ Tail(t) = <<>> /\ Range(r) = Range(s) \cup {Flush}
<1> DEFINE r == s \o t
<1>1. /\ Len(s) \in Nat /\ Len(t) \in Nat /\ Len(r) = Len(s) + Len(t)
      /\ \A i \in 1..Len(s) : r[i] = s[i]
      /\ \A i \in 1..Len(t) : r[Len(s) + i] = t[i]
      /\ Range(r) = Range(s) \cup Range(t)
  BY ConcatSeq, RangeConcatenation
<1> HIDE DEF r
<1> SUFFICES ASSUME t # <<>>, t[1] = Flush, Len(r) >= 2, r[1] # Flush, \A i \in 1..Len(r) - 1 : r[i] # Flush
             PROVE  s # <<>> /\ s[1] = r[1] /\ Tail(t) = <<>> /\ Range(r) = Range(s) \cup {Flush}
  BY DEF r
<1>3. Len(t) >= 1
  BY TailSeq
<1>4. r[Len(s) + 1] = Flush
  BY <1>1, <1>3
<1>5. Len(s) # 0
  BY <1>4
<1>6. Len(t) = 1
  <2>1. Len(s) + 1 \notin 1..Len(r) - 1
    BY <1>4
  <2>2. Len(s) \in Nat /\ Len(t) \in Nat /\ Len(r) = Len(s) + Len(t)
    BY <1>1
  <2>3. \A i, j \in Nat : i + 1 \notin 1..(i + j) - 1 /\ j >= 1 => j = 1
    OBVIOUS
  <2> QED
    BY <1>3, <2>1, <2>2, <2>3
<1>7. s # <<>> /\ s[1] = r[1]
  BY <1>1, <1>5
<1>8. Tail(t) = <<>> /\ Range(t) = {Flush}
  <2>1. DOMAIN t = {1}
    BY <1>6
  <2>2. Tail(t) = <<>>
    <3>1. t = <<Flush>>
      BY <1>6
    <3> QED
      BY <3>1
  <2>3. Range(t) = {t[1]}
    BY <2>1 DEF Range
  <2> QED
    BY <2>2, <2>3
<1> QED
  BY <1>1, <1>7, <1>8

LEMMA FetchAnswers ==
    ASSUME SshTypes, IsFetch(lines \o up), Reads("command"), Head(up) = Flush
    PROVE  /\ lines # <<>> /\ lines[1] = <<"fetch">> /\ up' = <<>> /\ IsAnswer(FetchReply)
<1>1. lines \in Seq(Line) /\ up \in Seq(Line) /\ up # <<>> /\ up[1] = Flush /\ up' = Tail(up)
  BY DEF Reads, SshTypes
<1> DEFINE r == lines \o up
<1>2. /\ r # <<>> /\ r[1] = <<"fetch">> /\ r[Len(r)] = Flush
      /\ \A i \in 1..Len(r) - 1 : r[i] # Flush
      /\ <<"want">> \in Range(r) /\ (<<"deepen">> \in Range(r) <=> want.deepen)
      /\ (<<"done">> \in Range(r) <=> ~more)
      /\ (~more => HavesOf(r) = {} /\ cpc = IF want.deepen THEN "shallow" ELSE "pack")
      /\ (more => cpc = "nothing")
  BY DEF IsFetch
<1>3. r \in Seq(Line) /\ Len(r) \in Nat /\ Len(r) >= 1
  <2>1. r \in Seq(Line)
    BY <1>1, ConcatSeq
  <2> QED
    BY <1>2, <2>1
<1>4. r[1] # Flush /\ Len(r) >= 2
  BY <1>2, <1>3 DEF Flush
<1>5. lines # <<>> /\ lines[1] = <<"fetch">> /\ up' = <<>> /\ Range(r) = Range(lines) \cup {Flush}
  <2>1. /\ up # <<>> /\ up[1] = Flush /\ Len(r) >= 2 /\ r[1] # Flush
        /\ \A i \in 1..Len(r) - 1 : r[i] # Flush
        => lines # <<>> /\ lines[1] = r[1] /\ Tail(up) = <<>> /\ Range(r) = Range(lines) \cup {Flush}
    BY <1>1, RequestRead
  <2> QED
    BY <1>1, <1>2, <1>4, <2>1
<1>6. /\ <<"want">> \in Range(lines) /\ (<<"deepen">> \in Range(lines) <=> want.deepen)
      /\ (<<"done">> \in Range(lines) <=> ~more)
  BY <1>2, <1>5 DEF Flush
<1>7. HavesOf(r) = HavesOf(lines)
  BY <1>5 DEF HavesOf, Flush
<1> HIDE DEF r
<1> DEFINE common == HavesOf(lines) \cap present
<1>8. common \in SUBSET Offers
  BY <1>1, SetTypes DEF SshTypes
<1>9. FetchReply = (IF ~Packs(common) THEN <<<<"acks", {}>>>>
                    ELSE (IF common = {} THEN <<>> ELSE <<<<"acks", common>>>>) \o DepthPart \o <<<<"pack", common>>>>)
  BY <1>6 DEF FetchReply, common, DepthPart
<1>10. Packs(common) <=> common # {} \/ ~more
  BY <1>6 DEF Packs
<1>11. CASE more
  <2>1. cpc = "nothing"
    BY <1>2, <1>11
  <2>2. IF common = {} THEN FetchReply = <<<<"acks", common>>>>
        ELSE FetchReply = <<<<"acks", common>>>> \o DepthPart \o <<<<"pack", common>>>>
    BY <1>9, <1>10, <1>11
  <2> HIDE DEF common
  <2> QED
    BY <1>5, <1>8, <2>1, <2>2 DEF IsAnswer
<1>12. CASE ~more
  <2>1. common = {}
    BY <1>2, <1>7, <1>12
  <2>2. cpc = IF want.deepen THEN "shallow" ELSE "pack"
    BY <1>2, <1>12
  <2>3. FetchReply = (<<>> \o DepthPart) \o <<<<"pack", common>>>>
    BY <1>9, <1>10, <1>12, <2>1
  <2> HIDE DEF common
  <2>4. FetchReply = IF want.deepen THEN <<<<"shallow">>, <<"pack", common>>>> ELSE <<<<"pack", common>>>>
    <3>1. <<"shallow">> \in Message /\ <<"pack", common>> \in Message
      BY <1>8, IsMessage
    <3>2. <<<<"shallow">>>> \o <<<<"pack", common>>>> = <<<<"shallow">>, <<"pack", common>>>>
      BY <3>1, Both
    <3>3. <<>> \o <<<<"shallow">>>> = <<<<"shallow">>>> /\ (<<>> \o <<>>) \o <<<<"pack", common>>>> = <<<<"pack", common>>>>
      OBVIOUS
    <3> QED
      BY <2>3, <3>2, <3>3 DEF DepthPart
  <2> QED
    BY <1>5, <1>8, <2>2, <2>4 DEF IsAnswer
<1> QED
  BY <1>11, <1>12


\* The steps of version 2.
LEMMA V2ReadStays ==
    ASSUME V2Talk, SshTypes, service = "v2", cpc # "refs", UNCHANGED fixed, Reads("command"),
           RefuseLine \/ ReadCommandLine \/ RunCommand
    PROVE  V2Talk'
<1>1. /\ UNCHANGED <<service, want, cpc>> /\ (more' <=> more)
      /\ spc = "command" /\ up # <<>> /\ up' = Tail(up) /\ up \in Seq(Line) /\ lines \in Seq(Line)
      /\ cpc \in {"listed", "nothing", "shallow", "pack", "done"}
  <2>1. UNCHANGED <<service, want, cpc, more>>
    BY DEF RefuseLine, ReadCommandLine, RunCommand, fixed, sshClientVars
  <2> QED
    BY <2>1 DEF Reads, SshTypes, V2Talk
<1>2. \/ cpc = "listed" /\ lines \o up = <<<<"ls-refs">>, Flush>>
      \/ IsFetch(lines \o up)
      \/ cpc = "done" /\ lines = <<>> /\ up = <<Flush>>
  BY <1>1 DEF V2Talk
<1>3. down = <<>>
  BY <1>1 DEF V2Talk
<1>4. CASE spc' = "ended" /\ code' = <<128>> /\ UNCHANGED down
  BY <1>1, <1>3, <1>4 DEF V2Talk
<1>5. CASE ReadCommandLine
  <2>1. Head(up) # Flush /\ lines' = Append(lines, Head(up)) /\ UNCHANGED <<down, spc>>
    BY <1>5 DEF ReadCommandLine
  <2>2. lines' \o up' = lines \o up
    BY <1>1, <2>1, ReadOn
  <2>3. ~(cpc = "done" /\ lines = <<>> /\ up = <<Flush>>)
    BY <2>1
  <2>4. IsFetch(lines \o up) => IsFetch(lines \o up)'
    BY <1>1, <2>2 DEF IsFetch
  <2> QED
    BY <1>1, <1>2, <1>3, <2>1, <2>2, <2>3, <2>4 DEF V2Talk
<1>6. CASE RunCommand /\ ~(spc' = "ended" /\ code' = <<128>> /\ UNCHANGED down)
  <2>1. /\ Head(up) = Flush /\ lines' = <<>>
        /\ \/ lines # <<>> /\ lines[1] = <<"ls-refs">> /\ down' = down \o <<<<"refs">>>> /\ UNCHANGED spc
           \/ lines # <<>> /\ lines[1] = <<"fetch">> /\ down' = down \o FetchReply /\ UNCHANGED spc
           \/ lines = <<>> /\ spc' = "ended" /\ code' = <<0>> /\ UNCHANGED down
    BY <1>1, <1>6 DEF RunCommand, AtEof, Reply, End
  <2>2. CASE cpc = "listed" /\ lines \o up = <<<<"ls-refs">>, Flush>>
    <3>1. lines # <<>> /\ lines[1] = <<"ls-refs">> /\ Tail(up) = <<>>
      <4> DEFINE r == lines \o up
      <4>1. Len(r) >= 2 /\ r[1] = <<"ls-refs">> /\ r[1] # Flush /\ \A i \in 1..Len(r) - 1 : r[i] # Flush
        BY <2>2 DEF Flush
      <4>2. up[1] = Flush
        BY <1>1, <2>1
      <4>3. /\ up # <<>> /\ up[1] = Flush /\ Len(r) >= 2 /\ r[1] # Flush
            /\ \A i \in 1..Len(r) - 1 : r[i] # Flush
            => lines # <<>> /\ lines[1] = r[1] /\ Tail(up) = <<>> /\ Range(r) = Range(lines) \cup {Flush}
        BY <1>1, RequestRead
      <4> HIDE DEF r
      <4> QED
        BY <1>1, <4>1, <4>2, <4>3
    <3>2. down' = <<<<"refs">>>> /\ spc' = "command"
      BY <1>1, <1>3, <2>1, <3>1
    <3> QED
      BY <1>1, <2>1, <2>2, <3>1, <3>2 DEF V2Talk
  <2>3. CASE IsFetch(lines \o up)
    <3>1. lines # <<>> /\ lines[1] = <<"fetch">> /\ up' = <<>> /\ IsAnswer(FetchReply)
      BY <1>1, <2>1, <2>3, FetchAnswers
    <3>2. down' = FetchReply /\ spc' = "command"
      BY <1>1, <1>3, <2>1, <3>1, FetchReplyTypes
    <3>3. IsAnswer(down')
      BY <3>1, <3>2
    <3>4. IsAnswer(down)'
      BY <1>1, <3>3 DEF IsAnswer, DepthPart
    <3> QED
      BY <1>1, <2>1, <3>1, <3>2, <3>4 DEF V2Talk
  <2>4. CASE cpc = "done" /\ lines = <<>> /\ up = <<Flush>>
    BY <1>1, <1>3, <2>1, <2>4 DEF V2Talk
  <2> QED
    BY <1>2, <2>2, <2>3, <2>4
<1>7. CASE RefuseLine
  BY <1>4, <1>7 DEF RefuseLine, End
<1> QED
  BY <1>4, <1>5, <1>6, <1>7

\* What the client reads.
LEMMA V2AnswerStays ==
    ASSUME V2Talk, SshTypes, service = "v2", cpc # "refs", UNCHANGED fixed,
           ReadShallow \/ ReadPack \/ ReadReady
    PROVE  V2Talk'
<1>1. /\ UNCHANGED <<service, want, spc, lines>> /\ down # <<>> /\ down' = Tail(down)
      /\ down \in Seq(Message) /\ cpc \in {"shallow", "pack", "nothing"}
  BY DEF ReadShallow, ReadPack, ReadReady, Sees, fixed, sshServerVars, SshTypes
<1>2. spc = "command" /\ lines = <<>> /\ up = <<>> /\ IsAnswer(down)
  BY <1>1 DEF V2Talk
<1>3. PICK c \in SUBSET Offers :
         CASE cpc = "nothing" -> IF c = {} THEN down = <<<<"acks", c>>>>
                                 ELSE down = <<<<"acks", c>>>> \o DepthPart \o <<<<"pack", c>>>>
           [] cpc = "shallow" -> down = <<<<"shallow">>, <<"pack", c>>>>
           [] cpc = "pack" -> down = <<<<"pack", c>>>>
           [] OTHER -> FALSE
  BY <1>2 DEF IsAnswer
<1>4. <<"shallow">> \in Message /\ <<"pack", c>> \in Message /\ <<"acks", c>> \in Message
  BY IsMessage
<1>5. CASE ReadShallow
  <2>1. cpc = "shallow" /\ cpc' = "pack" /\ UNCHANGED up
    BY <1>5 DEF ReadShallow, Sees
  <2>2. down' = <<<<"pack", c>>>>
    <3>1. Tail(<<<<"shallow">>, <<"pack", c>>>>) = <<<<"pack", c>>>>
      BY <1>4, TailOfTwo
    <3> QED
      BY <1>1, <1>3, <2>1, <3>1
  <2> QED
    BY <1>1, <1>2, <2>1, <2>2 DEF V2Talk, IsAnswer
<1>6. CASE ReadPack
  <2>1. cpc = "pack" /\ cpc' = "done" /\ up' = Append(up, Flush)
    BY <1>6 DEF ReadPack, Sees
  <2>2. down' = <<>> /\ up' = <<Flush>>
    BY <1>1, <1>2, <1>3, <2>1
  <2> QED
    BY <1>1, <1>2, <2>1, <2>2 DEF V2Talk
<1>7. CASE ReadReady
  <2>1. /\ cpc = "nothing" /\ Head(down)[2] # {} /\ UNCHANGED up
        /\ cpc' = IF want.deepen THEN "shallow" ELSE "pack"
    BY <1>7 DEF ReadReady, Sees
  <2>2. c # {}
    BY <1>3, <2>1
  <2>3. down = (<<<<"acks", c>>>> \o DepthPart) \o <<<<"pack", c>>>>
    BY <1>3, <2>1, <2>2
  <2>4. down' = IF want.deepen THEN <<<<"shallow">>, <<"pack", c>>>> ELSE <<<<"pack", c>>>>
    <3>1. <<<<"acks", c>>>> \o <<<<"shallow">>>> = <<<<"acks", c>>, <<"shallow">>>>
      BY <1>4, Both
    <3>2. <<<<"acks", c>>, <<"shallow">>>> \o <<<<"pack", c>>>> = <<<<"acks", c>>, <<"shallow">>, <<"pack", c>>>>
      BY <1>4, ThreeAsTwo
    <3>3. <<<<"acks", c>>>> \o <<>> = <<<<"acks", c>>>>
      OBVIOUS
    <3>4. <<<<"acks", c>>>> \o <<<<"pack", c>>>> = <<<<"acks", c>>, <<"pack", c>>>>
      BY <1>4, Both
    <3>5. Tail(<<<<"acks", c>>, <<"shallow">>, <<"pack", c>>>>) = <<<<"shallow">>, <<"pack", c>>>>
      BY <1>4, Few
    <3>6. Tail(<<<<"acks", c>>, <<"pack", c>>>>) = <<<<"pack", c>>>>
      BY <1>4, TailOfTwo
    <3>7. CASE want.deepen
      BY <1>1, <2>3, <3>1, <3>2, <3>5, <3>7 DEF DepthPart
    <3>8. CASE ~want.deepen
      BY <1>1, <2>3, <3>3, <3>4, <3>6, <3>8 DEF DepthPart
    <3> QED
      BY <3>7, <3>8
  <2> QED
    BY <1>1, <1>2, <2>1, <2>4 DEF V2Talk, IsAnswer
<1> QED
  BY <1>5, <1>6, <1>7


LEMMA SendRoundStays ==
    ASSUME V2Talk, SshTypes, SshAssumption, service = "v2", cpc # "refs", want \in Fetches, UNCHANGED fixed, SendRound
    PROVE  V2Talk'
<1>1. /\ UNCHANGED <<service, want, spc, lines>> /\ down # <<>> /\ down' = Tail(down)
      /\ down \in Seq(Message) /\ cpc \in {"listed", "nothing"} /\ Head(down) \in {<<"refs">>, <<"acks", {}>>}
      /\ sent \in Nat /\ sent <= MaxHaves
  BY DEF SendRound, Sees, fixed, sshServerVars, SshTypes
<1>2. spc = "command" /\ lines = <<>> /\ up = <<>> /\ Tail(down) = <<>>
  <2>1. CASE cpc = "listed"
    BY <1>1, <2>1 DEF V2Talk, IsAnswer
  <2>2. CASE cpc = "nothing"
    <3>1. spc = "command" /\ lines = <<>> /\ up = <<>> /\ IsAnswer(down)
      BY <1>1, <2>2 DEF V2Talk
    <3>2. PICK c \in SUBSET Offers : IF c = {} THEN down = <<<<"acks", c>>>>
                                    ELSE down = <<<<"acks", c>>>> \o DepthPart \o <<<<"pack", c>>>>
      BY <2>2, <3>1 DEF IsAnswer
    <3>3. c # {} => Head(down) = <<"acks", c>>
      <4>1. <<<<"acks", c>>>> \in Seq(Message) /\ DepthPart \in Seq(Message) /\ <<<<"pack", c>>>> \in Seq(Message)
        BY IsMessage DEF DepthPart
      <4>2. /\ <<<<"acks", c>>>> \o DepthPart \in Seq(Message) /\ <<<<"acks", c>>>> \o DepthPart # <<>>
            /\ (<<<<"acks", c>>>> \o DepthPart)[1] = <<"acks", c>>
        BY <4>1, ConcatHead
      <4> DEFINE both == <<<<"acks", c>>>> \o DepthPart
      <4> HIDE DEF both
      <4>3. (both \o <<<<"pack", c>>>>)[1] = <<"acks", c>>
        BY <4>1, <4>2, ConcatHead DEF both
      <4>4. c # {} => down = both \o <<<<"pack", c>>>>
        BY <3>2 DEF both
      <4>5. Head(down) = down[1]
        BY <1>1, TailSeq
      <4> QED
        BY <4>3, <4>4, <4>5
    <3>4. c = {}
      BY <1>1, <3>3
    <3>5. down = <<<<"acks", c>>>>
      BY <3>2, <3>4, Zenon
    <3>6. Tail(down) = <<>>
      BY <3>5
    <3> QED
      BY <3>1, <3>6
  <2> QED
    BY <1>1, <2>1, <2>2
<1>3. CASE want.empty
  <2>1. Send(<<Flush>>) /\ cpc' = "done"
    BY <1>3, RoundIs
  <2>2. up' = <<Flush>>
    BY <1>2, <2>1 DEF Send
  <2> QED
    BY <1>1, <1>2, <2>1, <2>2 DEF V2Talk
<1>4. CASE ~want.empty
  <2> DEFINE n == RoundSize
  <2>1. /\ Send(Round(n)) /\ more' = (n # 0)
        /\ cpc' = IF n # 0 THEN "nothing" ELSE IF want.deepen THEN "shallow" ELSE "pack"
    BY <1>4, RoundIs
  <2>2. n \in Nat /\ sent + n <= MaxHaves
    BY <1>1, RoundSizeType
  <2>3. more' <=> n # 0
    BY <2>1
  <2> HIDE DEF n
  <2> DEFINE r == Round(n)
  <2>4. /\ r \in Seq(Line) /\ r # <<>> /\ r[1] = <<"fetch">> /\ r[Len(r)] = Flush
        /\ \A i \in 1..Len(r) - 1 : r[i] # Flush
        /\ <<"want">> \in Range(r) /\ (<<"deepen">> \in Range(r) <=> want.deepen)
        /\ (<<"done">> \in Range(r) <=> n = 0) /\ (n = 0 => HavesOf(r) = {})
    BY <1>1, <2>2, RoundShape
  <2> HIDE DEF r
  <2>5. lines' \o up' = r
    BY <1>1, <1>2, <2>1, <2>4 DEF Send, r
  <2>6. IsFetch(lines \o up)'
    BY <1>1, <2>1, <2>3, <2>4, <2>5 DEF IsFetch
  <2> QED
    BY <1>1, <1>2, <2>1, <2>6 DEF V2Talk
<1> QED
  BY <1>3, <1>4

LEMMA V2Stays ==
    ASSUME SessionInv, SshNext, SshAssumption, ~hungUp', service = "v2", cpc # "refs"
    PROVE  Stays'
<1>1. V2Talk'
  <2>1. /\ V2Talk /\ SshTypes /\ want \in Fetches /\ UNCHANGED fixed
        /\ \/ (RefuseLine \/ ReadCommandLine \/ RunCommand) /\ Reads("command")
           \/ ReadShallow \/ ReadPack \/ SendRound \/ ReadReady
    BY V2Steps, FixedStays
  <2> QED
    BY <2>1, V2ReadStays, V2AnswerStays, SendRoundStays
<1>2. service' = "v2" /\ cpc' # "refs" /\ spc' # "advertise"
  BY BegunStays, FixedStays DEF fixed
<1> QED
  BY <1>1, <1>2 DEF Stays, Opening, PushTalk, WantsTalk, TalkDown, TalkUp, TalkCounts, TalkSingle, Talking


-------------------------------------------------------------------------------
(* A fetch of version 0.                                                     *)

LEMMA RequestIs ==
    /\ Request \in Seq(Line) /\ Len(Request) \in {2, 3} /\ (want.deepen <=> Len(Request) = 3)
    /\ Request[1] = <<"want">> /\ Request[Len(Request)] = Flush
    /\ \A i \in 1..Len(Request) - 1 : Request[i] # Flush
    /\ (want.deepen => Request[2] = <<"deepen">>)
<1>1. <<<<"want">>, Flush>> \in Seq(Line) /\ <<<<"want">>, <<"deepen">>, Flush>> \in Seq(Line)
  BY IsLine
<1> QED
  BY <1>1 DEF Request, Flush

\* Before the request is read through, its flush is on its way.
LEMMA FlushUnderWay ==
    ASSUME SshTypes, WantsTalk, service = "fetch", cpc # "refs", ~want.empty, spc = "wants"
    PROVE  \E j \in 1..Len(up) : up[j] = Flush /\ Len(lines) + j = Len(Request)
<1>1. lines \in Seq(Line) /\ up \in Seq(Line)
  BY DEF SshTypes
<1> DEFINE r == lines \o up
<1>2. /\ Len(lines) \in Nat /\ Len(up) \in Nat /\ Len(r) = Len(lines) + Len(up)
      /\ \A i \in 1..Len(up) : r[Len(lines) + i] = up[i]
  BY <1>1, ConcatSeq
<1>3. Len(lines) < Len(Request) /\ Len(Request) <= Len(r) /\ \A i \in 1..Len(Request) : r[i] = Request[i]
  BY DEF WantsTalk
<1> HIDE DEF r
<1>4. Len(Request) \in {2, 3} /\ Request[Len(Request)] = Flush
  BY RequestIs
<1> DEFINE j == Len(Request) - Len(lines)
<1>5. j \in 1..Len(up) /\ Len(lines) + j = Len(Request)
  BY <1>2, <1>3, <1>4
<1>6. up[j] = Flush
  BY <1>2, <1>3, <1>4, <1>5
<1> QED
  BY <1>5, <1>6

LEMMA TimesOfPresent ==
    ASSUME NEW S, NEW s \in Seq(S), NEW j \in 1..Len(s)
    PROVE  Times(s[j], s) \in Nat /\ Times(s[j], s) >= 1
<1>1. Times(s[j], s) \in Nat /\ Times(s[j], s) # 0
  BY TimesOfAbsent
<1> QED
  BY <1>1

\* The invariants of a fetch, together.
FetchTalk == WantsTalk /\ TalkDown /\ TalkUp /\ TalkCounts /\ TalkSingle

LEMMA AdvertiseStays == ASSUME SessionInv, ~hungUp, Advertise PROVE Stays'
<1>1. SshTypes /\ Opening /\ spc = "advertise" /\ cpc = "refs"
  BY DEF SessionInv, Stays, Opening, Advertise
<1>2. /\ UNCHANGED <<service, want, up, lines, pending, commons, cpc, sent, unread, told, applied>>
      /\ (more' <=> more)
  <2>1. UNCHANGED <<service, want, up, lines, pending, commons, cpc, sent, unread, more, told, applied>>
    BY DEF Advertise, fixed, sshClientVars
  <2> QED
    BY <2>1
<1>3. /\ told = {} /\ applied = {} /\ sent = 0 /\ unread = 0 /\ pending = <<>> /\ commons = <<>> /\ ~more
      /\ Silent
  <2>1. more = FALSE /\ told = {} /\ applied = {} /\ sent = 0 /\ unread = 0 /\ pending = <<>> /\ commons = <<>> /\ Silent
    BY <1>1 DEF Opening
  <2> QED
    BY <2>1
<1>4. more' = FALSE
  <2>1. UNCHANGED more /\ more = FALSE
    BY <1>1 DEF Opening, Advertise, sshClientVars
  <2> QED
    BY <2>1
<1>5. CASE down' = <<<<"refs">>>> /\ spc' = (CASE service = "fetch" -> "wants" [] service = "v2" -> "command" [] OTHER -> "commands")
           /\ code' = code
  <2>1. code' # <<128>>
    BY <1>1, <1>5 DEF SshTypes
  <2>2. Greeted'
    BY <1>2, <1>3, <1>5 DEF Silent, Greeted
  <2>3. service \in {"fetch", "v2", "push"}
    BY <1>1 DEF SshTypes
  <2>4. Opening'
    BY <1>1, <1>2, <1>3, <1>4, <1>5, <2>1, <2>2, <2>3 DEF Opening
  <2> QED
    BY <1>1, <1>2, <2>4 DEF Stays, PushTalk, V2Talk, WantsTalk, TalkDown, TalkUp, TalkCounts, TalkSingle, Talking
<1>6. CASE spc' = "ended" /\ code' = <<128>> /\ UNCHANGED down
  <2>1. Silent'
    BY <1>2, <1>3, <1>6 DEF Silent
  <2>2. Opening'
    BY <1>1, <1>2, <1>3, <1>4, <1>6, <2>1 DEF Opening
  <2> QED
    BY <1>1, <1>2, <2>2 DEF Stays, PushTalk, V2Talk, WantsTalk, TalkDown, TalkUp, TalkCounts, TalkSingle, Talking
<1>7. <<>> \o <<<<"refs">>>> = <<<<"refs">>>>
  OBVIOUS
<1> QED
  BY <1>3, <1>5, <1>6, <1>7 DEF Advertise, Reply, End, Silent


\* Two sequences, where the first has nothing.
LEMMA ConcatNone ==
    ASSUME NEW S, NEW s \in Seq(S)
    PROVE  <<>> \o s = s /\ s \o <<>> = s
  OBVIOUS

LEMMA ReadRefsIs ==
    ASSUME ReadRefs
    PROVE  /\ service = "push" => cpc' = "commands" /\ UNCHANGED up
           /\ service = "v2" => cpc' = "listed" /\ Send(<<<<"ls-refs">>, Flush>>)
<1>1. CASE service = "push"
  <2>1. cpc' = "commands" /\ UNCHANGED <<up, more>>
    BY <1>1 DEF ReadRefs
  <2> QED
    BY <1>1, <2>1
<1>2. CASE service = "v2"
  <2>1. service # "push"
    BY <1>2
  <2>2. Send(<<<<"ls-refs">>, Flush>>) /\ cpc' = "listed" /\ UNCHANGED more
    BY <1>2, <2>1, Zenon DEF ReadRefs
  <2> QED
    BY <2>1, <2>2
<1> QED
  BY <1>1, <1>2

LEMMA ReadRefsStays == ASSUME SessionInv, ~hungUp, ReadRefs, SshAssumption PROVE Stays'
<1>1. SshTypes /\ Opening /\ cpc = "refs" /\ down # <<>> /\ down' = Tail(down)
  BY DEF SessionInv, Stays, ReadRefs, Sees
<1>2. UNCHANGED <<service, want, lines, pending, commons, spc, code, sent, unread, told, applied>>
  BY DEF ReadRefs, fixed, sshServerVars
<1>3. more = FALSE
  BY <1>1 DEF Opening
<1>4. /\ told = {} /\ applied = {} /\ sent = 0 /\ unread = 0 /\ pending = <<>> /\ commons = <<>>
      /\ up = <<>> /\ lines = <<>> /\ down = <<<<"refs">>>> /\ spc # "advertise" /\ code # <<128>>
      /\ spc = (CASE service = "fetch" -> "wants" [] service = "v2" -> "command" [] service = "push" -> "commands")
  BY <1>1 DEF Opening, Silent, Greeted
<1>5. down' = <<>> /\ service \in {"fetch", "v2", "push"}
  BY <1>1, <1>4 DEF SshTypes
<1>6. code = <<>>
  BY <1>1, <1>4, <1>5 DEF SshTypes
<1>7. CASE service = "push"
  <2>1. cpc' = "commands" /\ UNCHANGED up
    BY <1>7, ReadRefsIs
  <2>2. want \in Pushes
    BY <1>1, <1>7 DEF SshTypes
  <2>3. /\ lines' \o up' = <<>> /\ SubSeq(want'.commands, 1, 0) = <<>> /\ 0 \in 0..Len(want'.commands)
        /\ Range(<<>>) = {}
    <3>1. lines' \o up' = <<>>
      BY <1>2, <1>4, <2>1
    <3>2. want'.commands = want.commands /\ want.commands \in Seq(Line)
      BY <1>2, <1>7, <2>2, SeqOfCommands
    <3>3. SubSeq(want.commands, 1, 0) = <<>>
      BY SubSeqEmpty
    <3>4. 0 \in 0..Len(want.commands)
      BY <3>2
    <3> QED
      BY <3>1, <3>2, <3>3, <3>4, RangeOfFew
  <2>4. PushTalk'
    BY <1>2, <1>4, <1>5, <1>7, <2>1, <2>3 DEF PushTalk
  <2> QED
    BY <1>2, <1>4, <1>7, <2>1, <2>4
       DEF Stays, Opening, V2Talk, WantsTalk, TalkDown, TalkUp, TalkCounts, TalkSingle, Talking
<1>8. CASE service = "v2"
  <2>1. cpc' = "listed" /\ Send(<<<<"ls-refs">>, Flush>>)
    BY <1>8, ReadRefsIs
  <2>2. <<<<"ls-refs">>, Flush>> \in Seq(Line)
    BY IsLine
  <2>3. up' = <<<<"ls-refs">>, Flush>> /\ lines' \o up' = <<<<"ls-refs">>, Flush>>
    BY <1>2, <1>4, <2>1, <2>2, ConcatNone DEF Send
  <2>4. V2Talk'
    BY <1>2, <1>4, <1>5, <1>8, <2>1, <2>3 DEF V2Talk
  <2> QED
    BY <1>2, <1>4, <1>8, <2>1, <2>4
       DEF Stays, Opening, PushTalk, WantsTalk, TalkDown, TalkUp, TalkCounts, TalkSingle, Talking
<1>9. CASE service = "fetch" /\ want.empty
  <2>1. cpc' = "done" /\ Send(<<Flush>>)
    BY <1>9 DEF ReadRefs
  <2>2. up' = <<Flush>>
    BY <1>4, <2>1 DEF Send
  <2>3. WantsTalk'
    BY <1>2, <1>4, <1>5, <1>9, <2>1, <2>2 DEF WantsTalk
  <2> QED
    BY <1>2, <1>4, <1>9, <2>1, <2>3
       DEF Stays, Opening, PushTalk, V2Talk, TalkDown, TalkUp, TalkCounts, TalkSingle, Talking
<1>10. CASE service = "fetch" /\ ~want.empty
  <2>1. Send(Request) /\ cpc' = (IF want.deepen THEN "shallow" ELSE "haves") /\ more' = want.multi
    BY <1>10 DEF ReadRefs, Request
  <2>2. /\ Request \in Seq(Line) /\ Len(Request) \in {2, 3} /\ Request[Len(Request)] = Flush
        /\ \A i \in 1..Len(Request) - 1 : Request[i] # Flush
    BY RequestIs
  <2>3. up' = Request /\ lines' \o up' = Request /\ Request' = Request
    BY <1>2, <1>4, <2>1, <2>2, ConcatNone DEF Send, Request
  <2>4. more' <=> want.multi
    BY <2>1
  <2>5. WantsTalk'
    <3>1. /\ cpc' \in {"shallow", "haves"} /\ spc' = "wants" /\ down' = <<>> /\ commons' = <<>> /\ pending' = <<>>
          /\ (want'.deepen => cpc' = "shallow") /\ (cpc' = "shallow" => want'.deepen) /\ ~want'.empty
          /\ sent' = 0 /\ unread' = 0 /\ told' = {} /\ (more' <=> want'.multi)
      BY <1>2, <1>4, <1>5, <1>10, <2>1, <2>4
    <3>2. /\ Len(lines') < Len(Request') /\ Len(Request') <= Len(lines' \o up')
          /\ \A i \in 1..Len(Request') : (lines' \o up')[i] = Request'[i]
          /\ Len(lines' \o up') = Len(Request')
      BY <1>2, <1>4, <2>2, <2>3
    <3> QED
      BY <3>1, <3>2 DEF WantsTalk
  <2>6. CASE want.deepen
    BY <1>2, <1>4, <1>10, <2>1, <2>5, <2>6
       DEF Stays, Opening, PushTalk, V2Talk, TalkDown, TalkUp, TalkCounts, TalkSingle, Talking
  <2>7. CASE ~want.deepen
    <3>1. up' = <<<<"want">>, Flush>> /\ cpc' = "haves"
      BY <2>1, <2>3, <2>7 DEF Request
    <3>2. Times(Flush, up') = 1
      <4>1. <<<<"want">>>> \in Seq(Line) /\ Flush \in Line /\ <<"want">> \in Line
        BY IsLine
      <4>2. up' = Append(<<<<"want">>>>, Flush)
        BY <3>1
      <4>3. Times(Flush, <<<<"want">>>>) = 0
        BY <4>1, TimesOfOne DEF Flush
      <4> QED
        <5>1. Times(Flush, Append(<<<<"want">>>>, Flush)) = Times(Flush, <<<<"want">>>>) + 1
          BY <4>1, TimesOfMore
        <5> QED
          BY <4>2, <4>3, <5>1
    <3>3. Times(<<"NAK">>, down') = 0
      BY <1>5, TimesOfNone
    <3>4. Unheard' = 0 /\ Unanswered' = 0
      BY <1>2, <1>4, <1>10, <3>2, <3>3 DEF Unheard, Unanswered, Times
    <3>5. TalkDown'
      BY <1>2, <1>4, <1>5, <1>6, <3>1 DEF TalkDown
    <3>6. TalkUp'
      BY <1>2, <1>4, <1>6, <1>10, <2>4, <3>1 DEF TalkUp, Flush
    <3>7. TalkCounts'
      BY <1>2, <1>4, <1>5, <1>6, <3>1, <3>4 DEF TalkCounts, Acked
    <3>8. TalkSingle'
      BY <1>2, <1>4 DEF TalkSingle
    <3> QED
      BY <1>2, <1>4, <1>10, <2>5, <3>1, <3>5, <3>6, <3>7, <3>8 DEF Stays, Opening, PushTalk, V2Talk
  <2> QED
    BY <2>6, <2>7
<1> QED
  BY <1>5, <1>7, <1>8, <1>9, <1>10

-------------------------------------------------------------------------------
(* The steps of a fetch.                                                     *)

LEMMA FetchSteps ==
    ASSUME SessionInv, SshNext, SshAssumption, ~hungUp', service = "fetch", cpc # "refs"
    PROVE  /\ FetchTalk /\ SshTypes /\ SshTypes' /\ want \in Fetches /\ ~hungUp /\ UNCHANGED fixed
           /\ \/ /\ UNCHANGED sshClientVars
                 /\ \/ (RefuseLine \/ ReadWant \/ EndWants \/ ReadHave \/ EndBatch \/ ReadDone) /\ up # <<>>
                    \/ SendPack
              \/ /\ UNCHANGED sshServerVars
                 /\ ReadShallow \/ SendWindow \/ SendDone \/ ReadAck \/ ReadAnswer \/ AnswersOver \/ ReadPack
<1>1. ~hungUp /\ FetchTalk /\ SshTypes /\ SshTypes' /\ want \in Fetches /\ UNCHANGED fixed
  BY StillThere, StepTypes, FixedStays DEF SessionInv, Stays, SshTypes, FetchTalk
<1>2. /\ spc \in {"wants", "haves", "pack", "ended"}
      /\ cpc \in {"shallow", "haves", "acks", "answers", "pack", "done"}
  BY <1>1 DEF WantsTalk, FetchTalk
<1>3. CASE ServerSide
  <2>1. \/ RefuseLine \/ ReadWant \/ EndWants \/ ReadHave \/ EndBatch \/ ReadDone
        \/ SendPack
    BY <1>1, <1>2, <1>3, ServerAt
  <2>2. \/ (RefuseLine \/ ReadWant \/ EndWants \/ ReadHave \/ EndBatch \/ ReadDone) /\ up # <<>>
        \/ SendPack
    BY <2>1 DEF RefuseLine, ReadWant, EndWants, ReadHave, EndBatch, ReadDone, Reads
  <2> QED
    BY <1>1, <1>3, <2>2, ServerClient
<1>4. CASE ClientSide \/ HangUp
  <2>1. ReadShallow \/ SendWindow \/ SendDone \/ ReadAck \/ ReadAnswer \/ AnswersOver \/ ReadPack
    BY <1>1, <1>2, <1>4, ClientAt
  <2>2. ClientSide
    BY <2>1 DEF ClientSide
  <2> QED
    BY <1>1, <2>1, <2>2, ClientServer
<1> QED
  BY <1>3, <1>4 DEF SshNext

\* A line, or a message, that is taken.
LEMMA UpRead ==
    ASSUME SshTypes, up # <<>>, up' = Tail(up)
    PROVE  /\ Len(up) \in Nat /\ Len(up) >= 1 /\ DOMAIN up = 1..Len(up) /\ Head(up) = up[1] /\ up[1] \in Line
           /\ Len(up') = Len(up) - 1 /\ DOMAIN up' = 1..Len(up) - 1 /\ \A i \in 1..Len(up) - 1 : up'[i] = up[i + 1]
           /\ Times(Flush, up') \in Nat
           /\ Times(Flush, up) = Times(Flush, up') + (IF up[1] = Flush THEN 1 ELSE 0)
           /\ (up' = <<>> <=> Len(up) = 1)
<1>1. up \in Seq(Line)
  BY DEF SshTypes
<1>2. /\ Tail(up) \in Seq(Line) /\ Head(up) \in Line /\ Head(up) = up[1] /\ Len(up) \in Nat /\ Len(up) >= 1
      /\ Len(Tail(up)) = Len(up) - 1 /\ DOMAIN up = 1..Len(up) /\ DOMAIN Tail(up) = 1..Len(up) - 1
      /\ \A i \in 1..Len(up) - 1 : Tail(up)[i] = up[i + 1]
  BY <1>1, TailSeq
<1>3. Times(Flush, Tail(up)) \in Nat
  BY <1>2, TimesType
<1>4. Times(Flush, up) = Times(Flush, Tail(up)) + (IF up[1] = Flush THEN 1 ELSE 0)
  BY <1>1, TimesOfTail
<1>5. Tail(up) = <<>> <=> Len(up) = 1
  <2>1. Tail(up) = <<>> <=> Len(Tail(up)) = 0
    BY <1>2, LenOfNone
  <2> QED
    BY <1>2, <2>1
<1> QED
  BY <1>2, <1>3, <1>4, <1>5

LEMMA DownRead ==
    ASSUME SshTypes, down # <<>>, down' = Tail(down)
    PROVE  /\ Len(down) \in Nat /\ Len(down) >= 1 /\ DOMAIN down = 1..Len(down) /\ Head(down) = down[1]
           /\ down[1] \in Message
           /\ Len(down') = Len(down) - 1 /\ DOMAIN down' = 1..Len(down) - 1
           /\ \A i \in 1..Len(down) - 1 : down'[i] = down[i + 1]
           /\ Unheard' \in Nat /\ Unheard = Unheard' + (IF down[1] = <<"NAK">> THEN 1 ELSE 0)
           /\ (down' = <<>> <=> Len(down) = 1)
<1>1. down \in Seq(Message)
  BY DEF SshTypes
<1>2. /\ Tail(down) \in Seq(Message) /\ Head(down) \in Message /\ Head(down) = down[1]
      /\ Len(down) \in Nat /\ Len(down) >= 1
      /\ Len(Tail(down)) = Len(down) - 1 /\ DOMAIN down = 1..Len(down) /\ DOMAIN Tail(down) = 1..Len(down) - 1
      /\ \A i \in 1..Len(down) - 1 : Tail(down)[i] = down[i + 1]
  BY <1>1, TailSeq
<1>3. Times(<<"NAK">>, Tail(down)) \in Nat
  BY <1>2, TimesType
<1>4. Times(<<"NAK">>, down) = Times(<<"NAK">>, Tail(down)) + (IF down[1] = <<"NAK">> THEN 1 ELSE 0)
  BY <1>1, TimesOfTail
<1>5. Tail(down) = <<>> <=> Len(down) = 1
  <2>1. Tail(down) = <<>> <=> Len(Tail(down)) = 0
    BY <1>2, LenOfNone
  <2> QED
    BY <1>2, <2>1
<1>6. Unheard' = Times(<<"NAK">>, Tail(down))
  BY DEF Unheard, Times
<1> QED
  BY <1>2, <1>3, <1>4, <1>5, <1>6 DEF Unheard

LEMMA NakRead ==
    ASSUME SshTypes, down # <<>>, down' = Tail(down)
    PROVE  /\ down[1][1] = "NAK" => Unheard' = Unheard - 1
           /\ down[1][1] # "NAK" => Unheard' = Unheard
<1> DEFINE d == IF down[1] = <<"NAK">> THEN 1 ELSE 0
<1>1. Unheard' \in Nat /\ Unheard = Unheard' + d
  BY DownRead
<1>2. down[1][1] = "NAK" <=> down[1] = <<"NAK">>
  <2>1. down[1] \in Message
    BY DownRead
  <2> QED
    BY <2>1, MessageParts
<1>3. (down[1][1] = "NAK" => d = 1) /\ (down[1][1] # "NAK" => d = 0)
  BY <1>2
<1> HIDE DEF d
<1>4. (d = 1 => Unheard' = Unheard - 1) /\ (d = 0 => Unheard' = Unheard)
  BY <1>1
<1> QED
  BY <1>3, <1>4

\* What there is and what is added to it.
LEMMA DownGrows ==
    ASSUME SshTypes, NEW s \in Seq(Message), down' = down \o s
    PROVE  /\ Len(down) \in Nat /\ Len(s) \in Nat /\ DOMAIN down = 1..Len(down) /\ DOMAIN s = 1..Len(s)
           /\ Len(down') = Len(down) + Len(s) /\ DOMAIN down' = 1..Len(down) + Len(s)
           /\ \A i \in 1..Len(down) : down'[i] = down[i]
           /\ \A i \in 1..Len(s) : down'[Len(down) + i] = s[i]
           /\ \A i \in DOMAIN down' : i \in 1..Len(down) \/ (i - Len(down) \in 1..Len(s) /\ down'[i] = s[i - Len(down)])
           /\ Unheard \in Nat /\ Times(<<"NAK">>, s) \in Nat
           /\ Unheard' = Unheard + Times(<<"NAK">>, s)
<1>1. down \in Seq(Message)
  BY DEF SshTypes
<1>2. /\ Len(down) \in Nat /\ Len(s) \in Nat /\ DOMAIN down = 1..Len(down) /\ DOMAIN s = 1..Len(s)
      /\ Len(down') = Len(down) + Len(s) /\ DOMAIN down' = 1..Len(down) + Len(s)
      /\ \A i \in 1..Len(down) : down'[i] = down[i]
      /\ \A i \in 1..Len(s) : down'[Len(down) + i] = s[i]
  BY <1>1, ConcatSeq
<1>3. \A i \in DOMAIN down' : i \in 1..Len(down) \/ (i - Len(down) \in 1..Len(s) /\ down'[i] = s[i - Len(down)])
  <2> SUFFICES ASSUME NEW i \in 1..Len(down) + Len(s), i \notin 1..Len(down)
               PROVE  i - Len(down) \in 1..Len(s) /\ down'[i] = s[i - Len(down)]
    BY <1>2
  <2>1. i - Len(down) \in 1..Len(s) /\ Len(down) + (i - Len(down)) = i
    BY <1>2
  <2> QED
    BY <1>2, <2>1
<1>4. Times(<<"NAK">>, down) \in Nat /\ Times(<<"NAK">>, s) \in Nat
  BY <1>1, TimesType
<1>5. Times(<<"NAK">>, down \o s) = Times(<<"NAK">>, down) + Times(<<"NAK">>, s)
  BY <1>1, TimesOfBoth
<1>6. Unheard' = Times(<<"NAK">>, down \o s)
  BY DEF Unheard, Times
<1> QED
  BY <1>2, <1>3, <1>4, <1>5, <1>6 DEF Unheard

LEMMA UpGrows ==
    ASSUME SshTypes, NEW s \in Seq(Line), up' = up \o s
    PROVE  /\ Len(up) \in Nat /\ Len(s) \in Nat /\ DOMAIN up = 1..Len(up) /\ DOMAIN s = 1..Len(s)
           /\ Len(up') = Len(up) + Len(s) /\ DOMAIN up' = 1..Len(up) + Len(s)
           /\ \A i \in 1..Len(up) : up'[i] = up[i]
           /\ \A i \in 1..Len(s) : up'[Len(up) + i] = s[i]
           /\ \A i \in DOMAIN up' : i \in 1..Len(up) \/ (i - Len(up) \in 1..Len(s) /\ up'[i] = s[i - Len(up)])
           /\ Times(Flush, up) \in Nat /\ Times(Flush, s) \in Nat
           /\ Times(Flush, up') = Times(Flush, up) + Times(Flush, s)
<1>1. up \in Seq(Line)
  BY DEF SshTypes
<1>2. /\ Len(up) \in Nat /\ Len(s) \in Nat /\ DOMAIN up = 1..Len(up) /\ DOMAIN s = 1..Len(s)
      /\ Len(up') = Len(up) + Len(s) /\ DOMAIN up' = 1..Len(up) + Len(s)
      /\ \A i \in 1..Len(up) : up'[i] = up[i]
      /\ \A i \in 1..Len(s) : up'[Len(up) + i] = s[i]
  BY <1>1, ConcatSeq
<1>3. \A i \in DOMAIN up' : i \in 1..Len(up) \/ (i - Len(up) \in 1..Len(s) /\ up'[i] = s[i - Len(up)])
  <2> SUFFICES ASSUME NEW i \in 1..Len(up) + Len(s), i \notin 1..Len(up)
               PROVE  i - Len(up) \in 1..Len(s) /\ up'[i] = s[i - Len(up)]
    BY <1>2
  <2>1. i - Len(up) \in 1..Len(s) /\ Len(up) + (i - Len(up)) = i
    BY <1>2
  <2> QED
    BY <1>2, <2>1
<1>4. Times(Flush, up) \in Nat /\ Times(Flush, s) \in Nat
  BY <1>1, TimesType
<1>5. Times(Flush, up \o s) = Times(Flush, up) + Times(Flush, s)
  BY <1>1, TimesOfBoth
<1> QED
  BY <1>2, <1>3, <1>4, <1>5

\* The batches under way are counted.
LEMMA UnansweredType ==
    ASSUME SshTypes, WantsTalk, Talking
    PROVE  Unanswered \in Nat /\ Unheard \in Nat
<1>1. up \in Seq(Line) /\ down \in Seq(Message)
  BY DEF SshTypes
<1>2. Times(Flush, up) \in Nat /\ Times(<<"NAK">>, down) \in Nat
  BY <1>1, TimesType
<1>3. CASE spc = "wants"
  <2>1. service = "fetch" /\ cpc # "refs" /\ ~want.empty
    BY DEF Talking
  <2>2. PICK j \in 1..Len(up) : up[j] = Flush
    BY <1>3, <2>1, FlushUnderWay
  <2>3. Times(Flush, up) >= 1
    <3>1. Times(up[j], up) >= 1
      BY <1>1, TimesOfPresent
    <3> QED
      BY <2>2, <3>1
  <2> QED
    BY <1>2, <1>3, <2>3 DEF Unanswered, Unheard
<1> QED
  BY <1>2, <1>3 DEF Unanswered, Unheard

\* Nothing is said, and the reader of what was sent stays.
LEMMA ReadOnUp ==
    ASSUME SshTypes, Talking, TalkUp, UNCHANGED fixed, UNCHANGED sshClientVars, UNCHANGED code,
           up # <<>>, up' = Tail(up), up[1] # <<"done">>,
           spc \in {"wants", "haves"}, spc' \in {"wants", "haves"}
    PROVE  TalkUp'
<1>1. UNCHANGED <<service, want, cpc>> /\ (more' <=> more)
  <2>1. UNCHANGED <<service, want, cpc, more>>
    BY DEF fixed, sshClientVars
  <2> QED
    BY <2>1
<1>2. /\ Len(up) \in Nat /\ Len(up) >= 1 /\ DOMAIN up = 1..Len(up)
      /\ Len(up') = Len(up) - 1 /\ DOMAIN up' = 1..Len(up) - 1 /\ \A i \in 1..Len(up) - 1 : up'[i] = up[i + 1]
      /\ (up' = <<>> <=> Len(up) = 1)
  BY UpRead
<1>3. code = <<>>
  BY DEF SshTypes
<1>4. cpc \in {"haves", "acks"} => /\ \A i \in DOMAIN up' : up'[i] # <<"done">>
                                   /\ more <=> want.multi
  BY <1>2 DEF TalkUp
<1>5. cpc \in {"answers", "pack"} => up' # <<>> /\ \A i \in DOMAIN up' : up'[i] = <<"done">> <=> i = Len(up')
  <2> SUFFICES ASSUME cpc \in {"answers", "pack"}
               PROVE  up' # <<>> /\ \A i \in DOMAIN up' : up'[i] = <<"done">> <=> i = Len(up')
    OBVIOUS
  <2>2. \A i \in DOMAIN up : up[i] = <<"done">> <=> i = Len(up)
    BY DEF TalkUp
  <2>3. Len(up) # 1
    BY <1>2, <2>2
  <2> QED
    BY <1>2, <2>2, <2>3
<1>6. more => want.multi
  BY DEF TalkUp
<1> QED
  BY <1>1, <1>3, <1>4, <1>5, <1>6 DEF TalkUp

\* A server that refuses says nothing and reads no more.
LEMMA RefusedStays ==
    ASSUME FetchTalk, SshTypes, service = "fetch", cpc # "refs", UNCHANGED fixed, UNCHANGED sshClientVars,
           UNCHANGED <<down, commons, pending>>, up # <<>>, up' = Tail(up), spc \in {"wants", "haves"}, End(128)
    PROVE  FetchTalk'
<1>1. UNCHANGED <<service, want, cpc, sent, unread, told, down, commons, pending>> /\ (more' <=> more)
  <2>1. UNCHANGED <<service, want, cpc, sent, unread, more, told, down, commons, pending>>
    BY DEF fixed, sshClientVars
  <2> QED
    BY <2>1
<1>2. spc' = "ended" /\ code' = <<128>> /\ code = <<>>
  BY DEF End, SshTypes
<1>3. WantsTalk /\ TalkDown /\ TalkUp /\ TalkCounts /\ TalkSingle
  BY DEF FetchTalk
<1>4. WantsTalk'
  BY <1>1, <1>2, <1>3 DEF WantsTalk
<1>5. CASE ~Talking
  <2>1. ~Talking'
    BY <1>1, <1>5 DEF Talking
  <2> QED
    BY <1>4, <2>1 DEF FetchTalk, TalkDown, TalkUp, TalkCounts, TalkSingle
<1>6. CASE Talking
  <2>1. TalkDown'
    BY <1>1, <1>2, <1>3, <1>6 DEF TalkDown, Talking
  <2>2. TalkUp'
    <3>1. /\ DOMAIN up = 1..Len(up) /\ DOMAIN up' = 1..Len(up) - 1 /\ Len(up) \in Nat
          /\ \A i \in 1..Len(up) - 1 : up'[i] = up[i + 1]
      BY UpRead
    <3>2. cpc \in {"haves", "acks"} => (\A i \in DOMAIN up' : up'[i] # <<"done">>) /\ (more <=> want.multi)
      BY <1>3, <1>6, <3>1 DEF TalkUp
    <3>3. more => want.multi
      BY <1>3, <1>6 DEF TalkUp
    <3> QED
      BY <1>1, <1>2, <3>2, <3>3 DEF TalkUp
  <2>3. TalkCounts'
    <3>1. Unheard' = Unheard /\ Unheard \in Nat /\ Unanswered \in Nat /\ unread \in Int
      BY <1>1, <1>3, <1>6, UnansweredType DEF Unheard, Times, SshTypes
    <3>2. Owed = 1 /\ (Acked' <=> Acked)
      BY <1>1, <1>2 DEF Owed, Acked
    <3> SUFFICES ASSUME want.multi \/ commons = <<>>
                 PROVE  TalkCounts'
      BY <1>1 DEF TalkCounts
    <3>4. cpc \in {"haves", "acks"} => unread >= Unheard
      BY <1>2, <1>3, <1>6, <3>1 DEF TalkCounts
    <3>5. cpc = "answers" /\ ~more => unread >= Unheard + 1
      BY <1>2, <1>3, <1>6, <3>1, <3>2 DEF TalkCounts
    <3>6. /\ cpc = "answers" /\ more => commons # <<>>
          /\ cpc # "pack" /\ ~Acked
      BY <1>2, <1>3, <1>6 DEF TalkCounts
    <3> QED
      BY <1>1, <1>2, <3>1, <3>2, <3>4, <3>5, <3>6 DEF TalkCounts, Acked
  <2>4. TalkSingle'
    BY <1>1, <1>3, <1>6 DEF TalkSingle
  <2> QED
    BY <1>4, <2>1, <2>2, <2>3, <2>4 DEF FetchTalk
<1> QED
  BY <1>5, <1>6

LEMMA RefuseLineStays ==
    ASSUME FetchTalk, SshTypes, service = "fetch", cpc # "refs", UNCHANGED fixed, UNCHANGED sshClientVars, RefuseLine
    PROVE  FetchTalk'
<1>1. UNCHANGED <<down, commons, pending>> /\ up # <<>> /\ up' = Tail(up) /\ End(128)
  BY DEF RefuseLine, Reads
<1>2. spc \in {"wants", "haves"}
  BY DEF RefuseLine, Reads, FetchTalk, WantsTalk
<1> QED
  BY <1>1, <1>2, RefusedStays

\* Nothing was said and no batch was answered: the counts are what they were.
LEMMA SameCounts ==
    ASSUME FetchTalk, SshTypes, UNCHANGED fixed, UNCHANGED sshClientVars, UNCHANGED <<down, commons, code>>,
           Unanswered' = Unanswered
    PROVE  TalkDown' /\ TalkCounts' /\ TalkSingle'
<1>1. UNCHANGED <<service, want, cpc, unread, told, down, commons, code>> /\ (more' <=> more)
  <2>1. UNCHANGED <<service, want, cpc, unread, more, told, down, commons, code>>
    BY DEF fixed, sshClientVars
  <2> QED
    BY <2>1
<1>2. TalkDown /\ TalkCounts /\ TalkSingle
  BY DEF FetchTalk
<1>3. (Talking' <=> Talking) /\ Unheard' = Unheard /\ Owed' = Owed /\ (Acked' <=> Acked)
  BY <1>1 DEF Talking, Unheard, Times, Owed, Acked
<1>4. TalkDown'
  BY <1>1, <1>2, <1>3 DEF TalkDown
<1>5. TalkCounts'
  BY <1>1, <1>2, <1>3 DEF TalkCounts
<1>6. TalkSingle'
  BY <1>1, <1>2, <1>3 DEF TalkSingle
<1> QED
  BY <1>4, <1>5, <1>6

LEMMA UnansweredThen == Unanswered' = Times(Flush, up') - (IF spc' = "wants" THEN 1 ELSE 0)
  BY DEF Unanswered, Times, Flush

LEMMA ReadWantStays ==
    ASSUME FetchTalk, SshTypes, service = "fetch", cpc # "refs", UNCHANGED fixed, UNCHANGED sshClientVars, ReadWant
    PROVE  FetchTalk'
<1>1. /\ UNCHANGED <<service, want, cpc, sent, unread, told, down, commons, pending, code, spc>> /\ (more' <=> more)
      /\ spc = "wants" /\ up # <<>> /\ up' = Tail(up) /\ Head(up) # Flush /\ lines' = Append(lines, Head(up))
      /\ UNCHANGED <<down, commons, code>>
  <2>1. UNCHANGED <<service, want, cpc, sent, unread, more, told, down, commons, pending, code, spc>>
    BY DEF fixed, sshClientVars, ReadWant
  <2> QED
    BY <2>1 DEF ReadWant, Reads
<1>2. /\ Len(up) \in Nat /\ Len(up) >= 1 /\ Head(up) = up[1] /\ DOMAIN up = 1..Len(up)
      /\ Times(Flush, up') \in Nat /\ Times(Flush, up) = Times(Flush, up')
  BY <1>1, UpRead
<1>3. WantsTalk
  BY DEF FetchTalk
<1>4. ~want.empty
  BY <1>1, <1>2, <1>3 DEF WantsTalk
<1>5. PICK j \in 1..Len(up) : up[j] = Flush /\ Len(lines) + j = Len(Request)
  BY <1>1, <1>3, <1>4, FlushUnderWay
<1>6. j # 1 /\ lines \in Seq(Line) /\ up \in Seq(Line)
  BY <1>1, <1>2, <1>5 DEF SshTypes
<1>7. lines' \o up' = lines \o up
  BY <1>1, <1>6, ReadOn
<1>8. Len(lines') = Len(lines) + 1 /\ Len(lines) \in Nat
  BY <1>1, <1>6
<1>9. Request' = Request
  BY <1>1 DEF Request
<1> DEFINE r == lines \o up
<1>10. WantsTalk'
  <2>1. /\ down = <<>> /\ commons = <<>> /\ pending = <<>> /\ cpc # "done" /\ (want.deepen => cpc = "shallow")
        /\ Len(Request) <= Len(r) /\ \A i \in 1..Len(Request) : r[i] = Request[i]
        /\ (cpc = "shallow" => /\ want.deepen /\ sent = 0 /\ unread = 0 /\ told = {} /\ (more <=> want.multi)
                               /\ Len(r) = Len(Request))
        /\ cpc \in {"shallow", "haves", "acks", "answers", "pack", "done"}
    BY <1>1, <1>3, <1>4 DEF WantsTalk
  <2>2. lines' \o up' = r
    BY <1>7
  <2> HIDE DEF r
  <2>3. Len(lines') < Len(Request)
    BY <1>5, <1>6, <1>8
  <2> QED
    BY <1>1, <1>4, <1>9, <2>1, <2>2, <2>3 DEF WantsTalk
<1>11. TalkDown' /\ TalkCounts' /\ TalkSingle'
  <2>1. Unanswered' = Unanswered
    <3>1. Unanswered' = Times(Flush, up') - 1
      BY <1>1, UnansweredThen
    <3> QED
      BY <1>1, <1>2, <3>1 DEF Unanswered
  <2> QED
    BY <1>1, <2>1, SameCounts
<1>12. TalkUp'
  <2>1. CASE Talking
    <3>1. TalkUp /\ UNCHANGED code
      BY <1>1 DEF FetchTalk
    <3>2. up[1] # <<"done">>
      <4>1. CASE cpc \in {"haves", "acks"}
        BY <1>2, <1>6, <2>1, <3>1, <4>1 DEF TalkUp
      <4>2. CASE cpc \in {"answers", "pack"}
        <5>1. \A i \in DOMAIN up : up[i] = <<"done">> <=> i = Len(up)
          BY <1>1, <2>1, <3>1, <4>2 DEF TalkUp
        <5>2. Len(up) # 1
          BY <1>2, <1>5, <1>6
        <5> QED
          BY <1>2, <5>1, <5>2
      <4>3. cpc # "done"
        BY <1>1, <1>3, <1>4 DEF WantsTalk
      <4> QED
        BY <2>1, <4>1, <4>2, <4>3 DEF Talking
    <3> QED
      BY <1>1, <2>1, <3>1, <3>2, ReadOnUp
  <2>2. CASE ~Talking
    BY <1>1, <2>2 DEF TalkUp, Talking
  <2> QED
    BY <2>1, <2>2
<1> QED
  BY <1>10, <1>11, <1>12 DEF FetchTalk

LEMMA ReadHaveStays ==
    ASSUME FetchTalk, SshTypes, service = "fetch", cpc # "refs", UNCHANGED fixed, UNCHANGED sshClientVars, ReadHave
    PROVE  FetchTalk'
<1>1. /\ UNCHANGED <<service, want, cpc, sent, unread, told, down, commons, code, spc>> /\ (more' <=> more)
      /\ spc = "haves" /\ up # <<>> /\ up' = Tail(up) /\ Head(up)[1] = "have"
      /\ UNCHANGED <<down, commons, code>>
  <2>1. UNCHANGED <<service, want, cpc, sent, unread, more, told, down, commons, code, spc>>
    BY DEF fixed, sshClientVars, ReadHave
  <2> QED
    BY <2>1 DEF ReadHave, Reads
<1>2. /\ Head(up) = up[1] /\ up[1] \in Line /\ Times(Flush, up') \in Nat
      /\ Times(Flush, up) = Times(Flush, up') + (IF up[1] = Flush THEN 1 ELSE 0)
  BY <1>1, UpRead
<1>3. up[1] # Flush /\ up[1] # <<"done">>
  BY <1>1, <1>2 DEF Flush
<1>4. WantsTalk
  BY DEF FetchTalk
<1>5. ~want.empty /\ cpc # "shallow"
  BY <1>1, <1>4 DEF WantsTalk
<1>6. WantsTalk' /\ Talking
  BY <1>1, <1>4, <1>5 DEF WantsTalk, Talking
<1>7. TalkDown' /\ TalkCounts' /\ TalkSingle'
  <2>1. Unanswered' = Unanswered
    BY <1>1, <1>2, <1>3, UnansweredThen DEF Unanswered
  <2> QED
    BY <1>1, <2>1, SameCounts
<1>8. TalkUp'
  BY <1>1, <1>3, <1>6, ReadOnUp DEF FetchTalk
<1> QED
  BY <1>6, <1>7, <1>8 DEF FetchTalk

LEMMA EndWantsStays ==
    ASSUME FetchTalk, SshTypes, service = "fetch", cpc # "refs", UNCHANGED fixed, UNCHANGED sshClientVars, EndWants
    PROVE  FetchTalk'
<1>1. /\ UNCHANGED <<service, want, cpc, sent, unread, told, commons, pending>> /\ (more' <=> more)
      /\ spc = "wants" /\ up # <<>> /\ up' = Tail(up) /\ Head(up) = Flush /\ lines' = Append(lines, Flush)
  <2>1. UNCHANGED <<service, want, cpc, sent, unread, more, told, commons, pending>>
    BY DEF fixed, sshClientVars, EndWants
  <2> QED
    BY <2>1 DEF EndWants, Reads
<1>2. /\ Len(up) \in Nat /\ Len(up) >= 1 /\ Head(up) = up[1] /\ (up' = <<>> <=> Len(up) = 1)
      /\ Times(Flush, up') \in Nat /\ Times(Flush, up) = Times(Flush, up') + 1
      /\ DOMAIN up = 1..Len(up)
  BY <1>1, UpRead
<1>3. WantsTalk
  BY DEF FetchTalk
<1>4. CASE want.empty
  <2>1. cpc = "done" /\ down = <<>> /\ told = {} /\ lines = <<>>
    BY <1>1, <1>3, <1>4 DEF WantsTalk
  <2>2. spc' = "ended" /\ UNCHANGED down
    BY <2>1 DEF EndWants, End
  <2> QED
    BY <1>1, <1>4, <2>1, <2>2
       DEF FetchTalk, WantsTalk, TalkDown, TalkUp, TalkCounts, TalkSingle, Talking
<1>5. CASE ~want.empty
  <2> DEFINE r == lines \o up
  <2>1. /\ down = <<>> /\ commons = <<>> /\ pending = <<>> /\ cpc # "done" /\ (want.deepen => cpc = "shallow")
        /\ Len(lines) < Len(Request) /\ Len(Request) <= Len(r) /\ \A i \in 1..Len(Request) : r[i] = Request[i]
        /\ (cpc = "shallow" => /\ want.deepen /\ sent = 0 /\ unread = 0 /\ told = {} /\ (more <=> want.multi)
                               /\ Len(r) = Len(Request))
        /\ cpc \in {"shallow", "haves", "acks", "answers", "pack", "done"}
    BY <1>1, <1>3, <1>5 DEF WantsTalk
  <2>2. lines \in Seq(Line) /\ up \in Seq(Line)
    BY DEF SshTypes
  <2>3. /\ Len(lines) \in Nat /\ Len(r) = Len(lines) + Len(up) /\ DOMAIN lines = 1..Len(lines)
        /\ \A i \in 1..Len(lines) : r[i] = lines[i]
        /\ r[Len(lines) + 1] = up[1]
    BY <1>2, <2>2, ConcatSeq
  <2> HIDE DEF r
  <2>4. /\ Len(Request) \in {2, 3} /\ (want.deepen <=> Len(Request) = 3)
        /\ Request[1] = <<"want">> /\ \A i \in 1..Len(Request) - 1 : Request[i] # Flush
        /\ (want.deepen => Request[2] = <<"deepen">>)
    BY RequestIs
  <2>5. Len(lines) + 1 = Len(Request)
    <3>1. r[Len(lines) + 1] = Flush
      BY <1>1, <1>2, <2>3
    <3>2. Len(lines) + 1 \in 1..Len(Request)
      BY <2>1, <2>3, <2>4
    <3>3. Request[Len(lines) + 1] = Flush
      BY <2>1, <3>1, <3>2
    <3>4. Len(lines) + 1 \notin 1..Len(Request) - 1
      BY <2>4, <3>3
    <3> QED
      BY <2>3, <2>4, <3>2, <3>4
  <2>6. <<"deepen">> \in Range(lines) <=> want.deepen
    <3>1. \A i \in 1..Len(lines) : lines[i] = Request[i]
      BY <2>1, <2>3, <2>4, <2>5
    <3>2. CASE want.deepen
      <4>1. Len(lines) = 2 /\ lines[2] = <<"deepen">>
        BY <2>3, <2>4, <2>5, <3>1, <3>2
      <4>2. 2 \in DOMAIN lines
        BY <2>3, <4>1
      <4> QED
        BY <3>2, <4>1, <4>2 DEF Range
    <3>3. CASE ~want.deepen
      <4>1. Len(lines) = 1
        BY <2>3, <2>4, <2>5, <3>3
      <4>2. lines[1] = <<"want">>
        BY <2>4, <3>1, <4>1
      <4> QED
        BY <2>3, <3>3, <4>1, <4>2 DEF Range
    <3> QED
      BY <3>2, <3>3
  <2>7. lines # <<>>
    BY <2>4, <2>5
  <2>8. CASE End(128) /\ UNCHANGED down
    BY <1>1, <2>8, RefusedStays
  <2>9. CASE /\ spc' = "haves" /\ UNCHANGED code
             /\ Reply(IF <<"deepen">> \in Range(lines) THEN <<<<"shallow">>>> ELSE <<>>)
    <3>1. down' = IF want.deepen THEN <<<<"shallow">>>> ELSE <<>>
      <4>1. <<>> \o <<<<"shallow">>>> = <<<<"shallow">>>> /\ <<>> \o <<>> = <<>>
        OBVIOUS
      <4> QED
        BY <2>1, <2>6, <2>9, <4>1 DEF Reply
    <3>2. CASE cpc = "shallow"
      <4>1. up' = <<>> /\ down' = <<<<"shallow">>>>
        BY <1>2, <2>1, <2>3, <2>5, <3>1, <3>2
      <4> QED
        BY <1>1, <1>5, <2>1, <2>9, <3>2, <4>1
           DEF FetchTalk, WantsTalk, TalkDown, TalkUp, TalkCounts, TalkSingle, Talking
    <3>3. CASE cpc # "shallow"
      <4>1. Talking /\ down' = down
        BY <1>5, <2>1, <3>1, <3>3 DEF Talking
      <4>2. WantsTalk'
        BY <1>1, <1>5, <2>1, <2>9, <3>3 DEF WantsTalk
      <4>3. Unanswered' = Unanswered
        BY <1>1, <1>2, <2>9, UnansweredThen DEF Unanswered
      <4>4. TalkDown' /\ TalkCounts' /\ TalkSingle'
        BY <1>1, <2>9, <4>1, <4>3, SameCounts
      <4>5. TalkUp'
        <5>1. up[1] # <<"done">>
          BY <1>1, <1>2 DEF Flush
        <5> QED
          BY <1>1, <2>9, <4>1, <5>1, ReadOnUp DEF FetchTalk
      <4> QED
        BY <4>2, <4>4, <4>5 DEF FetchTalk
    <3> QED
      BY <3>2, <3>3
  <2> QED
    BY <2>7, <2>8, <2>9 DEF EndWants
<1> QED
  BY <1>4, <1>5

LEMMA RangeOfBoth ==
    ASSUME NEW S, NEW s \in Seq(S), NEW t \in Seq(S)
    PROVE  /\ \A x \in Range(s) : x \in Range(s \o t)
           /\ \A i \in 1..Len(t) : t[i] \in Range(s \o t)
           /\ (s \o t = <<>> <=> s = <<>> /\ t = <<>>)
<1>1. /\ s \o t \in Seq(S) /\ Len(s \o t) = Len(s) + Len(t) /\ Len(s) \in Nat /\ Len(t) \in Nat
      /\ DOMAIN s = 1..Len(s) /\ DOMAIN (s \o t) = 1..Len(s) + Len(t)
      /\ \A i \in 1..Len(s) : (s \o t)[i] = s[i]
      /\ \A i \in 1..Len(t) : (s \o t)[Len(s) + i] = t[i]
  BY ConcatSeq
<1>2. \A x \in Range(s) : x \in Range(s \o t)
  BY <1>1 DEF Range
<1>3. \A i \in 1..Len(t) : t[i] \in Range(s \o t)
  <2> SUFFICES ASSUME NEW i \in 1..Len(t) PROVE t[i] \in Range(s \o t)
    OBVIOUS
  <2>1. Len(s) + i \in DOMAIN (s \o t) /\ (s \o t)[Len(s) + i] = t[i]
    BY <1>1
  <2> QED
    BY <2>1 DEF Range
<1>4. s \o t = <<>> <=> s = <<>> /\ t = <<>>
  <2>1. (s \o t = <<>> <=> Len(s \o t) = 0) /\ (s = <<>> <=> Len(s) = 0) /\ (t = <<>> <=> Len(t) = 0)
    BY <1>1, LenOfNone
  <2> QED
    BY <1>1, <2>1
<1> QED
  BY <1>2, <1>3, <1>4

\* What the server says of the haves it has looked up.
LEMMA AcksAre ==
    ASSUME SshTypes
    PROVE  /\ Acks \in Seq(Message) /\ commons \o Found \in Seq(Offers)
           /\ \A i \in DOMAIN Acks : Acks[i][1] \in {"common", "ACK"} /\ Acks[i][2] \in Range(commons \o Found)
           /\ Times(<<"NAK">>, Acks) = 0
           /\ want.multi => \A i \in DOMAIN Acks : Acks[i][1] # "ACK"
           /\ ~want.multi /\ (commons # <<>> \/ commons \o Found = <<>>) => Acks = <<>>
           /\ ~want.multi /\ commons = <<>> /\ commons \o Found # <<>> =>
                 Acks = <<<<"ACK", Found[1]>>>> /\ Found[1] \in Range(commons \o Found)
           /\ \A x \in Range(commons) : x \in Range(commons \o Found)
           /\ (commons \o Found = <<>> => commons = <<>>)
<1>1. Found \in Seq(Offers) /\ commons \in Seq(Offers) /\ commons \o Found \in Seq(Offers) /\ Acks \in Seq(Message)
  BY AcksTypes DEF SshTypes
<1>2. /\ \A x \in Range(commons) : x \in Range(commons \o Found)
      /\ \A i \in 1..Len(Found) : Found[i] \in Range(commons \o Found)
      /\ (commons \o Found = <<>> <=> commons = <<>> /\ Found = <<>>)
  BY <1>1, RangeOfBoth
<1>3. DOMAIN Found = 1..Len(Found) /\ Len(Found) \in Nat
  BY <1>1
<1>4. Found # <<>> => Found[1] \in Range(commons \o Found)
  BY <1>1, <1>2, <1>3
<1>5. CASE want.multi
  <2>1. Acks = [i \in DOMAIN Found |-> <<"common", Found[i]>>]
    BY <1>5 DEF Acks
  <2>2. \A i \in DOMAIN Acks : Acks[i][1] = "common" /\ Acks[i][2] \in Range(commons \o Found)
    BY <1>2, <1>3, <2>1
  <2>3. Times(<<"NAK">>, Acks) = 0
    <3>1. \A i \in DOMAIN Acks : Acks[i] # <<"NAK">>
      BY <2>2
    <3> QED
      BY <1>1, <3>1, TimesOfAbsent
  <2> QED
    BY <1>1, <1>2, <1>5, <2>2, <2>3
<1>6. CASE ~want.multi
  <2>1. Acks = IF commons = <<>> /\ Found # <<>> THEN <<<<"ACK", Found[1]>>>> ELSE <<>>
    BY <1>6 DEF Acks
  <2>2. \A i \in DOMAIN Acks : Acks[i][1] = "ACK" /\ Acks[i][2] \in Range(commons \o Found)
    BY <1>4, <2>1
  <2>3. Times(<<"NAK">>, Acks) = 0
    <3>1. \A i \in DOMAIN Acks : Acks[i] # <<"NAK">>
      BY <2>2
    <3> QED
      BY <1>1, <3>1, TimesOfAbsent
  <2> QED
    BY <1>1, <1>2, <1>4, <1>6, <2>1, <2>2, <2>3
<1> QED
  BY <1>5, <1>6

LEMMA BatchSays ==
    ASSUME SshTypes
    PROVE  LET s == Acks \o BatchEnd
               c == commons \o Found
           IN  /\ s \in Seq(Message)
               /\ \A i \in DOMAIN s : /\ s[i][1] \in {"common", "ACK", "NAK"}
                                      /\ s[i][1] \in {"common", "ACK"} => s[i][2] \in Range(c)
               /\ want.multi => Times(<<"NAK">>, s) = 1 /\ \A i \in DOMAIN s : s[i][1] # "ACK"
               /\ ~want.multi /\ c = <<>> => s = <<<<"NAK">>>> /\ Times(<<"NAK">>, s) = 1
               /\ ~want.multi /\ commons = <<>> /\ c # <<>> => s = <<<<"ACK", Found[1]>>>>
               /\ ~want.multi /\ commons # <<>> => s = <<>>
<1> DEFINE s == Acks \o BatchEnd
           c == commons \o Found
<1>1. /\ Acks \in Seq(Message)
      /\ \A i \in DOMAIN Acks : Acks[i][1] \in {"common", "ACK"} /\ Acks[i][2] \in Range(c)
      /\ Times(<<"NAK">>, Acks) = 0
      /\ want.multi => \A i \in DOMAIN Acks : Acks[i][1] # "ACK"
      /\ ~want.multi /\ (commons # <<>> \/ c = <<>>) => Acks = <<>>
      /\ ~want.multi /\ commons = <<>> /\ c # <<>> => Acks = <<<<"ACK", Found[1]>>>>
      /\ (c = <<>> => commons = <<>>)
  BY AcksAre
<1>2. /\ BatchEnd = (IF c = <<>> \/ want.multi THEN <<<<"NAK">>>> ELSE <<>>)
      /\ BatchEnd \in Seq(Message)
  BY AcksTypes DEF BatchEnd
<1> HIDE DEF c
<1>0. Acks \in Seq(Message) /\ BatchEnd \in Seq(Message)
  BY AcksTypes
<1>3. /\ s \in Seq(Message) /\ Len(s) = Len(Acks) + Len(BatchEnd)
      /\ Len(Acks) \in Nat /\ Len(BatchEnd) \in Nat
      /\ DOMAIN Acks = 1..Len(Acks) /\ DOMAIN BatchEnd = 1..Len(BatchEnd)
      /\ DOMAIN s = 1..Len(Acks) + Len(BatchEnd)
      /\ \A i \in 1..Len(Acks) : s[i] = Acks[i]
      /\ \A i \in 1..Len(BatchEnd) : s[Len(Acks) + i] = BatchEnd[i]
  BY <1>0, ConcatSeq
<1>4. Times(<<"NAK">>, s) = Times(<<"NAK">>, BatchEnd)
  <2>1. Times(<<"NAK">>, s) = Times(<<"NAK">>, Acks) + Times(<<"NAK">>, BatchEnd)
    BY <1>0, TimesOfBoth
  <2>2. Times(<<"NAK">>, BatchEnd) \in Nat
    BY <1>2, TimesType
  <2> QED
    BY <1>1, <2>1, <2>2
<1>5. Times(<<"NAK">>, <<<<"NAK">>>>) = 1
  <2>1. <<"NAK">> \in Message
    BY IsMessage
  <2> QED
    BY <2>1, TimesOfOne
<1>6. \A i \in DOMAIN BatchEnd : BatchEnd[i] = <<"NAK">>
  BY <1>2
<1>7. \A i \in DOMAIN s : /\ s[i][1] \in {"common", "ACK", "NAK"}
                          /\ s[i][1] \in {"common", "ACK"} => s[i][2] \in Range(c)
                          /\ want.multi => s[i][1] # "ACK"
  <2> SUFFICES ASSUME NEW i \in DOMAIN s
               PROVE  /\ s[i][1] \in {"common", "ACK", "NAK"}
                      /\ s[i][1] \in {"common", "ACK"} => s[i][2] \in Range(c)
                      /\ want.multi => s[i][1] # "ACK"
    OBVIOUS
  <2>1. CASE i <= Len(Acks)
    <3>1. i \in DOMAIN Acks /\ s[i] = Acks[i]
      BY <1>3, <2>1
    <3> QED
      BY <1>1, <3>1
  <2>2. CASE ~(i <= Len(Acks))
    <3> DEFINE k == i - Len(Acks)
    <3>1. k \in 1..Len(BatchEnd) /\ Len(Acks) + k = i
      BY <1>3, <2>2
    <3>2. s[i] = BatchEnd[k]
      BY <1>3, <3>1
    <3> QED
      BY <1>3, <1>6, <3>1, <3>2
  <2> QED
    BY <2>1, <2>2
<1>8. <<>> \o BatchEnd = BatchEnd /\ Acks \o <<>> = Acks
  BY <1>1, <1>2, ConcatNone
<1>9. want.multi => Times(<<"NAK">>, s) = 1
  BY <1>2, <1>4, <1>5
<1>10. ~want.multi /\ c = <<>> => s = <<<<"NAK">>>> /\ Times(<<"NAK">>, s) = 1
  BY <1>1, <1>2, <1>4, <1>5, <1>8
<1>11. ~want.multi /\ commons = <<>> /\ c # <<>> => s = <<<<"ACK", Found[1]>>>>
  BY <1>1, <1>2, <1>8
<1>12. ~want.multi /\ commons # <<>> => s = <<>>
  BY <1>1, <1>2, <1>8
<1> HIDE DEF s
<1> QED
  BY <1>3, <1>7, <1>9, <1>10, <1>11, <1>12 DEF s, c

\* What is said about haves keeps what the client may hear.
LEMMA SaidOfHaves ==
    ASSUME SshTypes, Talking, TalkDown, UNCHANGED fixed, UNCHANGED sshClientVars, UNCHANGED code, code = <<>>,
           NEW s \in Seq(Message), down' = down \o s,
           \A x \in Range(commons) : x \in Range(commons'),
           \A i \in DOMAIN s : /\ s[i][1] \in {"common", "ACK", "NAK"}
                               /\ s[i][1] \in {"common", "ACK"} => s[i][2] \in Range(commons')
    PROVE  TalkDown' /\ cpc # "done"
<1>1. UNCHANGED <<service, want, cpc, told, code>>
  BY DEF fixed, sshClientVars
<1>2. /\ Len(down) \in Nat /\ Len(s) \in Nat /\ DOMAIN down = 1..Len(down) /\ DOMAIN s = 1..Len(s)
      /\ \A i \in 1..Len(down) : down'[i] = down[i]
      /\ \A i \in DOMAIN down' : i \in 1..Len(down) \/ (i - Len(down) \in 1..Len(s) /\ down'[i] = s[i - Len(down)])
  BY DownGrows
<1>3. /\ \A i \in DOMAIN down : /\ down[i][1] \in {"common", "ACK", "NAK"}
                                /\ down[i][1] \in {"common", "ACK"} => down[i][2] \in Range(commons)
      /\ told \subseteq Range(commons) /\ cpc # "done"
  BY DEF TalkDown
<1>4. \A i \in DOMAIN down' : /\ down'[i][1] \in {"common", "ACK", "NAK"}
                              /\ down'[i][1] \in {"common", "ACK"} => down'[i][2] \in Range(commons')
  <2> SUFFICES ASSUME NEW i \in DOMAIN down'
               PROVE  /\ down'[i][1] \in {"common", "ACK", "NAK"}
                      /\ down'[i][1] \in {"common", "ACK"} => down'[i][2] \in Range(commons')
    OBVIOUS
  <2>1. CASE i \in 1..Len(down)
    BY <1>2, <1>3, <2>1
  <2>2. CASE i - Len(down) \in 1..Len(s) /\ down'[i] = s[i - Len(down)]
    BY <1>2, <2>2
  <2> QED
    BY <1>2, <2>1, <2>2
<1>5. told' \subseteq Range(commons')
  BY <1>1, <1>3
<1> QED
  BY <1>1, <1>3, <1>4, <1>5, SMTT(40) DEF TalkDown

\* Before anything is acknowledged every message is a NAK.
LEMMA AllNaks ==
    ASSUME SshTypes, Talking, TalkDown, commons = <<>>, code # << 0 >>
    PROVE  /\ Len(down) \in Nat /\ DOMAIN down = 1..Len(down) /\ Unheard = Len(down)
           /\ \A i \in DOMAIN down : down[i] = <<"NAK">>
           /\ told = {}
<1>1. Len(down) \in Nat /\ DOMAIN down = 1..Len(down) /\ \A i \in DOMAIN down : down[i] \in Message
  BY DEF SshTypes
<1>2. Range(commons) = {}
  BY RangeOfFew
<1>3. told = {} /\ \A i \in DOMAIN down : down[i][1] = "NAK"
  BY <1>2 DEF TalkDown
<1>4. \A i \in DOMAIN down : down[i] = <<"NAK">>
  BY <1>1, <1>3, MessageParts
<1>5. {i \in DOMAIN down : down[i] = <<"NAK">>} = 1..Len(down)
  BY <1>1, <1>4
<1>6. Cardinality(1..Len(down)) = Len(down)
  <2>1. Cardinality(1..Len(down)) = IF 1 > Len(down) THEN 0 ELSE Len(down) - 1 + 1
    BY <1>1, FS_Interval
  <2> QED
    BY <1>1, <2>1
<1> QED
  BY <1>1, <1>3, <1>4, <1>5, <1>6 DEF Unheard, Times

LEMMA FirstAck ==
    ASSUME FetchTalk, SshTypes, Talking, UNCHANGED fixed, UNCHANGED sshClientVars,
           NEW h, <<"ACK", h>> \in Message, down' = down \o <<<<"ACK", h>>>>, code = <<>>,
           ~want.multi, commons = <<>>, spc = "haves",
           cpc \in {"answers", "haves", "acks"}, Unanswered >= 1 \/ cpc = "answers"
    PROVE  TalkSingle'
<1>1. UNCHANGED <<service, want, cpc, told, unread>>
  BY DEF fixed, sshClientVars
<1>2. TalkDown /\ TalkUp /\ TalkCounts /\ WantsTalk
  BY DEF FetchTalk
<1>3. /\ Len(down) \in Nat /\ DOMAIN down = 1..Len(down) /\ Unheard = Len(down)
      /\ \A i \in DOMAIN down : down[i] = <<"NAK">>
      /\ told = {}
  BY <1>2, AllNaks
<1>4. <<<<"ACK", h>>>> \in Seq(Message) /\ Len(<<<<"ACK", h>>>>) = 1 /\ <<<<"ACK", h>>>>[1] = <<"ACK", h>>
  OBVIOUS
<1> DEFINE s == <<<<"ACK", h>>>>
<1> HIDE DEF s
<1>5. /\ Len(down') = Len(down) + 1 /\ DOMAIN down' = 1..Len(down) + 1
      /\ \A i \in 1..Len(down) : down'[i] = down[i]
      /\ down'[Len(down) + 1] = <<"ACK", h>>
  <2>1. s \in Seq(Message) /\ Len(s) = 1 /\ s[1] = <<"ACK", h>> /\ down' = down \o s /\ 1 \in 1..1
    BY <1>4 DEF s
  <2>2. /\ Len(down') = Len(down) + Len(s) /\ DOMAIN down' = 1..Len(down) + Len(s)
        /\ \A i \in 1..Len(down) : down'[i] = down[i]
        /\ \A i \in 1..Len(s) : down'[Len(down) + i] = s[i]
    BY <2>1, DownGrows
  <2> QED
    BY <2>1, <2>2
<1>6. Unanswered \in Nat /\ unread \in Int
  BY <1>2, UnansweredType DEF SshTypes
<1>7. Len(down) + 1 <= unread
  <2>1. CASE cpc \in {"haves", "acks"}
    BY <1>2, <1>3, <1>6, <2>1 DEF TalkCounts
  <2>2. CASE cpc = "answers"
    <3>1. ~more
      BY <1>2 DEF TalkUp
    <3>2. Owed = 1
      BY DEF Owed
    <3> QED
      BY <1>2, <1>3, <1>6, <2>2, <3>1, <3>2 DEF TalkCounts
  <2> QED
    BY <2>1, <2>2
<1>8. \A i \in DOMAIN down' : down'[i][1] # "common"
  BY <1>3, <1>5
<1>9. /\ Len(down) + 1 \in DOMAIN down' /\ down'[Len(down) + 1][1] = "ACK"
      /\ \A i \in 1..(Len(down) + 1) - 1 : down'[i][1] = "NAK"
      /\ \A i \in (Len(down) + 1) + 1..Len(down') : down'[i][1] = "pack"
  BY <1>3, <1>5, SMTT(40)
<1> QED
  BY <1>1, <1>3, <1>7, <1>8, <1>9 DEF TalkSingle

LEMMA EndBatchStays ==
    ASSUME FetchTalk, SshTypes, service = "fetch", cpc # "refs", UNCHANGED fixed, UNCHANGED sshClientVars, EndBatch
    PROVE  FetchTalk'
<1> DEFINE s == Acks \o BatchEnd
           c == commons \o Found
<1>1. /\ UNCHANGED <<service, want, cpc, sent, unread, told, code, spc>> /\ (more' <=> more)
      /\ spc = "haves" /\ up # <<>> /\ up' = Tail(up) /\ Head(up) = Flush /\ down' = down \o s
      /\ commons' = c /\ pending' = <<>> /\ UNCHANGED code
  <2>1. UNCHANGED <<service, want, cpc, sent, unread, more, told, code, spc>>
    BY DEF fixed, sshClientVars, EndBatch
  <2> QED
    BY <2>1 DEF EndBatch, Reads, AckPending, Reply
<1>2. /\ Head(up) = up[1] /\ Times(Flush, up') \in Nat /\ Times(Flush, up) = Times(Flush, up') + 1
  BY <1>1, UpRead
<1>3. WantsTalk /\ TalkDown /\ TalkUp /\ TalkCounts /\ TalkSingle /\ code = <<>>
  BY <1>1 DEF FetchTalk, SshTypes
<1>4. ~want.empty /\ cpc # "shallow"
  BY <1>1, <1>3 DEF WantsTalk
<1>5. WantsTalk' /\ Talking
  BY <1>1, <1>3, <1>4 DEF WantsTalk, Talking
<1>6. /\ s \in Seq(Message)
      /\ \A i \in DOMAIN s : /\ s[i][1] \in {"common", "ACK", "NAK"}
                             /\ s[i][1] \in {"common", "ACK"} => s[i][2] \in Range(c)
      /\ want.multi => Times(<<"NAK">>, s) = 1 /\ \A i \in DOMAIN s : s[i][1] # "ACK"
      /\ ~want.multi /\ c = <<>> => s = <<<<"NAK">>>> /\ Times(<<"NAK">>, s) = 1
      /\ ~want.multi /\ commons = <<>> /\ c # <<>> => s = <<<<"ACK", Found[1]>>>>
      /\ ~want.multi /\ commons # <<>> => s = <<>>
  BY BatchSays
<1>7. (\A x \in Range(commons) : x \in Range(c)) /\ (c = <<>> => commons = <<>>)
  BY AcksAre
<1> HIDE DEF s, c
<1>8. TalkDown' /\ cpc # "done"
  BY <1>1, <1>3, <1>5, <1>6, <1>7, SaidOfHaves
<1>9. TalkUp'
  <2>1. up[1] # <<"done">>
    BY <1>1, <1>2 DEF Flush
  <2> QED
    BY <1>1, <1>3, <1>5, <2>1, ReadOnUp
<1>10. /\ Len(down) \in Nat /\ Len(s) \in Nat /\ DOMAIN down = 1..Len(down) /\ DOMAIN s = 1..Len(s)
       /\ \A i \in 1..Len(down) : down'[i] = down[i]
       /\ \A i \in DOMAIN down' : i \in 1..Len(down) \/ (i - Len(down) \in 1..Len(s) /\ down'[i] = s[i - Len(down)])
       /\ Unheard \in Nat /\ Unheard' = Unheard + Times(<<"NAK">>, s)
  BY <1>1, <1>6, DownGrows
<1>11. Unanswered' = Unanswered - 1 /\ Unanswered \in Nat /\ Unanswered >= 1
  BY <1>1, <1>2, UnansweredThen DEF Unanswered
<1>12. Owed = 1 /\ Owed' = 1
  BY <1>1, <1>3 DEF Owed
<1>13. TalkCounts'
  <2> SUFFICES ASSUME want.multi \/ c = <<>>
               PROVE  TalkCounts'
    BY <1>1 DEF TalkCounts
  <2>1. want.multi \/ commons = <<>>
    BY <1>7
  <2>2. Unheard' = Unheard + 1
    BY <1>6, <1>10
  <2>3. cpc \in {"haves", "acks"} => unread = Unheard + Unanswered
    BY <1>3, <1>5, <2>1 DEF TalkCounts
  <2>4. cpc = "answers" /\ ~more => unread = Unheard + Unanswered + 1
    BY <1>3, <1>5, <1>12, <2>1 DEF TalkCounts
  <2>5. (cpc = "answers" /\ more => commons # <<>>) /\ cpc # "pack" /\ ~Acked
    BY <1>3, <1>5, <2>1 DEF TalkCounts
  <2>6. \A i \in DOMAIN s : s[i][1] # "ACK"
    BY <1>6
  <2>7. \A i \in DOMAIN down' : down'[i][1] # "ACK"
    <3> SUFFICES ASSUME NEW i \in DOMAIN down' PROVE down'[i][1] # "ACK"
      OBVIOUS
    <3>1. CASE i \in 1..Len(down)
      BY <1>10, <2>5, <3>1 DEF Acked
    <3>2. CASE i - Len(down) \in 1..Len(s) /\ down'[i] = s[i - Len(down)]
      BY <1>10, <2>6, <3>2
    <3> QED
      BY <1>10, <3>1, <3>2
  <2>8. ~Acked'
    BY <2>7 DEF Acked
  <2>9. unread \in Int /\ Unanswered \in Nat
    BY <1>11 DEF SshTypes
  <2>13. unread' = unread /\ Unanswered' = Unanswered - 1
    BY <1>1, <1>11
  <2>14. Unheard \in Nat
    BY <1>10
  <2>10. cpc \in {"haves", "acks"} => unread' = Unheard' + Unanswered'
    BY <2>2, <2>3, <2>9, <2>13, <2>14
  <2>11. cpc = "answers" /\ ~more => unread' = Unheard' + Unanswered' + 1
    BY <2>2, <2>4, <2>9, <2>13, <2>14
  <2>12. cpc = "answers" /\ more => c # <<>>
    BY <1>7, <2>5
  <2> QED
    BY <1>1, <1>3, <1>12, <2>5, <2>7, <2>8, <2>10, <2>11, <2>12 DEF TalkCounts
<1>14. TalkSingle'
  <2>1. CASE want.multi \/ c = <<>>
    BY <1>1, <2>1 DEF TalkSingle
  <2>2. CASE ~want.multi /\ commons = <<>> /\ c # <<>>
    <3>1. s = <<<<"ACK", Found[1]>>>>
      BY <1>6, <2>2
    <3>2. <<"ACK", Found[1]>> \in Message
      BY <1>6, <3>1
    <3>3. cpc \in {"answers", "haves", "acks"}
      BY <1>3, <1>5, <1>8, <2>2 DEF TalkCounts, Talking
    <3>4. down' = down \o <<<<"ACK", Found[1]>>>>
      BY <1>1, <3>1
    <3> QED
      BY <1>1, <1>3, <1>5, <1>11, <2>2, <3>2, <3>3, <3>4, FirstAck
  <2>3. CASE ~want.multi /\ commons # <<>>
    <3>1. s = <<>> /\ down \in Seq(Message)
      BY <1>6, <2>3 DEF SshTypes
    <3>2. down' = down
      BY <1>1, <3>1, ConcatNone
    <3> QED
      BY <1>1, <1>3, <1>5, <2>3, <3>2 DEF TalkSingle
  <2> QED
    BY <2>1, <2>2, <2>3
<1> QED
  BY <1>5, <1>8, <1>9, <1>13, <1>14 DEF FetchTalk

\* The client that is done has sent nothing after it.
LEMMA ReadDoneStays ==
    ASSUME FetchTalk, SshTypes, service = "fetch", cpc # "refs", UNCHANGED fixed, UNCHANGED sshClientVars, ReadDone
    PROVE  FetchTalk'
<1> DEFINE s == Acks
           c == commons \o Found
<1>1. /\ UNCHANGED <<service, want, cpc, sent, unread, told, code>> /\ (more' <=> more)
      /\ spc = "haves" /\ spc' = "pack" /\ up # <<>> /\ up' = Tail(up) /\ Head(up) = <<"done">> /\ down' = down \o s
      /\ commons' = c /\ pending' = <<>> /\ UNCHANGED code
  <2>1. UNCHANGED <<service, want, cpc, sent, unread, more, told, code>>
    BY DEF fixed, sshClientVars, ReadDone
  <2> QED
    BY <2>1 DEF ReadDone, Reads, AckPending, Reply
<1>2. /\ Head(up) = up[1] /\ Times(Flush, up') \in Nat /\ (up' = <<>> <=> Len(up) = 1)
      /\ Times(Flush, up) = Times(Flush, up') + (IF up[1] = Flush THEN 1 ELSE 0)
      /\ DOMAIN up = 1..Len(up) /\ Len(up) \in Nat /\ Len(up) >= 1
  BY <1>1, UpRead
<1>3. WantsTalk /\ TalkDown /\ TalkUp /\ TalkCounts /\ TalkSingle /\ code = <<>>
  BY <1>1 DEF FetchTalk, SshTypes
<1>4. ~want.empty /\ cpc # "shallow"
  BY <1>1, <1>3 DEF WantsTalk
<1>5. WantsTalk' /\ Talking
  BY <1>1, <1>3, <1>4 DEF WantsTalk, Talking
<1>6. /\ s \in Seq(Message)
      /\ \A i \in DOMAIN s : s[i][1] \in {"common", "ACK"} /\ s[i][2] \in Range(c)
      /\ Times(<<"NAK">>, s) = 0
      /\ want.multi => \A i \in DOMAIN s : s[i][1] # "ACK"
      /\ ~want.multi /\ (commons # <<>> \/ c = <<>>) => s = <<>>
      /\ ~want.multi /\ commons = <<>> /\ c # <<>> => s = <<<<"ACK", Found[1]>>>>
      /\ (\A x \in Range(commons) : x \in Range(c)) /\ (c = <<>> => commons = <<>>)
  BY AcksAre
<1> HIDE DEF s, c
<1>7. TalkDown' /\ cpc # "done"
  <2>1. /\ \A x \in Range(commons) : x \in Range(commons')
        /\ \A i \in DOMAIN s : /\ s[i][1] \in {"common", "ACK", "NAK"}
                               /\ s[i][1] \in {"common", "ACK"} => s[i][2] \in Range(commons')
    BY <1>1, <1>6
  <2> QED
    BY <1>1, <1>3, <1>5, <1>6, <2>1, SaidOfHaves
<1>8. cpc \in {"answers", "pack"} /\ up' = <<>>
  <2>1. cpc \notin {"haves", "acks"}
    BY <1>1, <1>2, <1>3, <1>5 DEF TalkUp
  <2>2. cpc \in {"answers", "pack"}
    BY <1>5, <1>7, <2>1 DEF Talking
  <2>3. \A i \in DOMAIN up : up[i] = <<"done">> <=> i = Len(up)
    BY <1>1, <1>3, <1>5, <2>2 DEF TalkUp
  <2>4. Len(up) = 1
    BY <1>1, <1>2, <2>3, SMTT(40)
  <2> QED
    BY <1>2, <2>2, <2>4
<1>9. TalkUp'
  <2>1. more => want.multi
    BY <1>3, <1>5 DEF TalkUp
  <2> QED
    BY <1>1, <1>3, <1>8, <2>1 DEF TalkUp
<1>10. /\ Len(down) \in Nat /\ Len(s) \in Nat /\ DOMAIN down = 1..Len(down) /\ DOMAIN s = 1..Len(s)
       /\ \A i \in 1..Len(down) : down'[i] = down[i]
       /\ \A i \in DOMAIN down' : i \in 1..Len(down) \/ (i - Len(down) \in 1..Len(s) /\ down'[i] = s[i - Len(down)])
       /\ Unheard \in Nat /\ Unheard' = Unheard
  BY <1>1, <1>6, DownGrows, SMTT(40)
<1>11. Unanswered' = 0 /\ Unanswered = 0
  <2>1. Times(Flush, up') = 0
    BY <1>8, TimesOfNone
  <2>2. Times(Flush, up) = 0
    BY <1>1, <1>2, <2>1 DEF Flush
  <2> QED
    BY <1>1, <2>1, <2>2, UnansweredThen DEF Unanswered
<1>12. Owed = 1 /\ Owed' = 1
  BY <1>1, <1>3 DEF Owed
<1>13. TalkCounts'
  <2> SUFFICES ASSUME want.multi \/ c = <<>>
               PROVE  TalkCounts'
    BY <1>1 DEF TalkCounts
  <2>1. want.multi \/ commons = <<>>
    BY <1>6
  <2>4. cpc = "answers" /\ ~more => unread = Unheard + Unanswered + 1
    BY <1>3, <1>5, <1>12, <2>1 DEF TalkCounts
  <2>5. (cpc = "answers" /\ more => commons # <<>>) /\ cpc # "pack" /\ ~Acked
    BY <1>3, <1>5, <2>1 DEF TalkCounts
  <2>6. \A i \in DOMAIN s : s[i][1] # "ACK"
    BY <1>6
  <2>7. \A i \in DOMAIN down' : down'[i][1] # "ACK"
    <3> SUFFICES ASSUME NEW i \in DOMAIN down' PROVE down'[i][1] # "ACK"
      OBVIOUS
    <3>1. CASE i \in 1..Len(down)
      BY <1>10, <2>5, <3>1 DEF Acked
    <3>2. CASE i - Len(down) \in 1..Len(s) /\ down'[i] = s[i - Len(down)]
      BY <1>10, <2>6, <3>2
    <3> QED
      BY <1>10, <3>1, <3>2
  <2>8. ~Acked'
    BY <2>7 DEF Acked
  <2>9. cpc = "answers" /\ ~more => unread' = Unheard' + Unanswered' + 1
    BY <1>1, <1>10, <1>11, <2>4
  <2>10. cpc = "answers" /\ more => c # <<>>
    BY <1>6, <2>5
  <2> QED
    BY <1>1, <1>3, <1>8, <1>12, <2>5, <2>7, <2>8, <2>9, <2>10 DEF TalkCounts
<1>14. TalkSingle'
  <2>1. CASE want.multi \/ c = <<>>
    BY <1>1, <2>1 DEF TalkSingle
  <2>2. CASE ~want.multi /\ commons = <<>> /\ c # <<>>
    <3>1. s = <<<<"ACK", Found[1]>>>>
      BY <1>6, <2>2
    <3>2. <<"ACK", Found[1]>> \in Message
      BY <1>6, <3>1
    <3>3. cpc = "answers"
      BY <1>3, <1>5, <1>8, <2>2 DEF TalkCounts, Talking
    <3>4. down' = down \o <<<<"ACK", Found[1]>>>>
      BY <1>1, <3>1
    <3> QED
      BY <1>1, <1>3, <1>5, <2>2, <3>2, <3>3, <3>4, FirstAck
  <2>3. CASE ~want.multi /\ commons # <<>>
    <3>1. s = <<>> /\ down \in Seq(Message)
      BY <1>6, <2>3 DEF SshTypes
    <3>2. down' = down
      BY <1>1, <3>1, ConcatNone
    <3> QED
      BY <1>1, <1>3, <1>5, <2>3, <3>2 DEF TalkSingle
  <2> QED
    BY <2>1, <2>2, <2>3
<1> QED
  BY <1>5, <1>7, <1>9, <1>13, <1>14 DEF FetchTalk

\* The acknowledgment owed to done, and the pack.
\* A server that cannot build the pack has said what it said before.
LEMMA NoPackStays ==
    ASSUME FetchTalk, SshTypes, service = "fetch", cpc # "refs", UNCHANGED fixed, UNCHANGED sshClientVars,
           SendPack, End(128), UNCHANGED down
    PROVE  FetchTalk'
<1>1. /\ UNCHANGED <<service, want, cpc, sent, unread, told, up, down, commons, pending>> /\ (more' <=> more)
      /\ spc = "pack" /\ spc' = "ended" /\ code' = <<128>>
  <2>1. UNCHANGED <<service, want, cpc, sent, unread, more, told, up, commons, pending>>
    BY DEF fixed, sshClientVars, SendPack
  <2> QED
    BY <2>1 DEF SendPack, End
<1>2. WantsTalk /\ TalkDown /\ TalkUp /\ TalkCounts /\ TalkSingle /\ code = <<>>
  BY <1>1 DEF FetchTalk, SshTypes
<1>3. ~want.empty /\ cpc # "shallow"
  BY <1>1, <1>2 DEF WantsTalk
<1>4. WantsTalk' /\ Talking
  BY <1>1, <1>2, <1>3 DEF WantsTalk, Talking
<1>5. cpc \in {"answers", "pack"} /\ up = <<>> /\ (more => want.multi)
  BY <1>1, <1>2, <1>4 DEF TalkUp
<1>6. TalkDown' /\ TalkUp' /\ TalkSingle'
  BY <1>1, <1>2, <1>4, <1>5 DEF TalkDown, TalkUp, TalkSingle, Talking
<1>7. TalkCounts'
  <2>1. Unheard' = Unheard /\ Unheard \in Nat /\ Unanswered \in Nat /\ unread \in Int
    BY <1>1, <1>2, <1>4, UnansweredType DEF Unheard, Times, SshTypes
  <2>2. Owed = 1 /\ (Acked' <=> Acked)
    BY <1>1, <1>2 DEF Owed, Acked
  <2> SUFFICES ASSUME want.multi \/ commons = <<>>
               PROVE  TalkCounts'
    BY <1>1 DEF TalkCounts
  <2>3. cpc = "answers" /\ ~more => unread >= Unheard + 1
    BY <1>2, <1>4, <2>1, <2>2 DEF TalkCounts
  <2>4. /\ cpc = "answers" /\ more => commons # <<>>
        /\ cpc # "pack" /\ ~Acked
    BY <1>2, <1>4 DEF TalkCounts
  <2>5. \A i \in DOMAIN down : down[i][1] = "ACK" => i = Len(down) - 1
    BY <1>2, <1>4 DEF TalkCounts
  <2> QED
    BY <1>1, <1>5, <2>1, <2>2, <2>3, <2>4, <2>5 DEF TalkCounts
<1> QED
  BY <1>4, <1>6, <1>7 DEF FetchTalk

LEMMA PackStays ==
    ASSUME FetchTalk, SshTypes, service = "fetch", cpc # "refs", UNCHANGED fixed, UNCHANGED sshClientVars,
           SendPack, ~End(128)
    PROVE  FetchTalk'
<1> DEFINE ack == IF commons = <<>> THEN <<<<"NAK">>>> ELSE IF want.multi THEN <<<<"ACK", Last(commons)>>>> ELSE <<>>
           pack == <<<<"pack", Range(commons)>>>>
           s == ack \o pack
<1>1. /\ UNCHANGED <<service, want, cpc, sent, unread, told, up, commons, pending>> /\ (more' <=> more)
      /\ spc = "pack" /\ spc' = "ended" /\ code' = <<0>> /\ down' = down \o s
  <2>1. UNCHANGED <<service, want, cpc, sent, unread, more, told, up, commons, pending>>
    BY DEF fixed, sshClientVars, SendPack
  <2> QED
    BY <2>1 DEF SendPack, Reply, End
<1>2. WantsTalk /\ TalkDown /\ TalkUp /\ TalkCounts /\ TalkSingle /\ code = <<>>
  BY <1>1 DEF FetchTalk, SshTypes
<1>3. ~want.empty /\ cpc # "shallow"
  BY <1>1, <1>2 DEF WantsTalk
<1>4. WantsTalk' /\ Talking
  BY <1>1, <1>2, <1>3 DEF WantsTalk, Talking
<1>5. cpc \in {"answers", "pack"} /\ up = <<>> /\ (more => want.multi)
  BY <1>1, <1>2, <1>4 DEF TalkUp
<1>6. /\ commons # <<>> => Last(commons) \in Range(commons) /\ <<"ACK", Last(commons)>> \in Message
      /\ <<"pack", Range(commons)>> \in Message /\ <<"NAK">> \in Message
  <2>1. commons \in Seq(Offers)
    BY DEF SshTypes
  <2>2. commons # <<>> => Len(commons) \in DOMAIN commons /\ commons[Len(commons)] \in Offers
    BY <2>1
  <2>3. Range(commons) \subseteq Offers
    BY <2>1 DEF Range
  <2> QED
    BY <2>2, <2>3, IsMessage DEF Last, Range
<1>7. /\ Len(s) \in {1, 2} /\ s \in Seq(Message) /\ s[Len(s)] = <<"pack", Range(commons)>>
      /\ commons = <<>> => Len(s) = 2 /\ s[1] = <<"NAK">>
      /\ commons # <<>> /\ want.multi => Len(s) = 2 /\ s[1] = <<"ACK", Last(commons)>>
      /\ commons # <<>> /\ ~want.multi => Len(s) = 1
  <2> DEFINE p == <<"pack", Range(commons)>>
             a == <<"ACK", Last(commons)>>
             n == <<"NAK">>
  <2>1. p \in Message /\ n \in Message /\ (commons # <<>> => a \in Message)
    BY <1>6
  <2> HIDE DEF p, a, n
  <2>2. CASE commons = <<>>
    <3>1. s = <<n>> \o <<p>>
      BY <2>2 DEF n, p
    <3>2. s = <<n, p>>
      BY <2>1, <3>1, Both
    <3> QED
      BY <2>1, <2>2, <3>2 DEF n, p
  <2>3. CASE commons # <<>> /\ want.multi
    <3>1. s = <<a>> \o <<p>>
      BY <2>3 DEF a, p
    <3>2. s = <<a, p>>
      BY <2>1, <2>3, <3>1, Both
    <3> QED
      BY <2>1, <2>3, <3>2 DEF a, p
  <2>4. CASE commons # <<>> /\ ~want.multi
    <3>1. s = <<>> \o <<p>> /\ <<p>> \in Seq(Message)
      BY <2>1, <2>4 DEF p
    <3>2. s = <<p>>
      BY <3>1, ConcatNone
    <3> QED
      BY <2>1, <2>4, <3>2 DEF p
  <2> QED
    BY <2>2, <2>3, <2>4
<1> HIDE DEF s
<1>8. Times(<<"NAK">>, s) = IF commons = <<>> THEN 1 ELSE 0
  <2>1. CASE commons = <<>>
    <3>1. {i \in DOMAIN s : s[i] = <<"NAK">>} = {1}
      <4>1. Len(s) = 2 /\ s[1] = <<"NAK">> /\ s[2] = <<"pack", Range(commons)>>
        BY <1>7, <2>1
      <4>2. DOMAIN s = 1..2
        BY <1>7, <4>1
      <4>3. s[2] # <<"NAK">>
        BY <4>1
      <4> QED
        BY <4>1, <4>2, <4>3
    <3> QED
      BY <2>1, <3>1, FS_Singleton DEF Times
  <2>2. CASE commons # <<>>
    <3>1. \A i \in DOMAIN s : s[i] # <<"NAK">>
      BY <1>7, <2>2
    <3> QED
      BY <1>7, <2>2, <3>1, TimesOfAbsent
  <2> QED
    BY <2>1, <2>2
<1>9. /\ Len(down) \in Nat /\ Len(s) \in Nat /\ DOMAIN down = 1..Len(down) /\ DOMAIN s = 1..Len(s)
      /\ Len(down') = Len(down) + Len(s) /\ DOMAIN down' = 1..Len(down) + Len(s)
      /\ \A i \in 1..Len(down) : down'[i] = down[i]
      /\ \A i \in 1..Len(s) : down'[Len(down) + i] = s[i]
      /\ \A i \in DOMAIN down' : i \in 1..Len(down) \/ (i - Len(down) \in 1..Len(s) /\ down'[i] = s[i - Len(down)])
      /\ Unheard \in Nat /\ Unheard' = Unheard + (IF commons = <<>> THEN 1 ELSE 0)
  BY <1>1, <1>7, <1>8, DownGrows
\* Only the last message is the pack, and the one before it, if any, the acknowledgment.
<1>10. /\ Len(down') >= 1 /\ down'[Len(down')] = <<"pack", Range(commons)>>
       /\ Len(s) = 2 => down'[Len(down') - 1] = s[1] /\ Len(down') >= 2
       /\ \A i \in DOMAIN down' : i \in 1..Len(down) \/ i = Len(down') \/ (Len(s) = 2 /\ i = Len(down') - 1)
  <2> DEFINE n == Len(down)  m == Len(s)  k == Len(down')
  <2>1. n \in Nat /\ m \in {1, 2} /\ k = n + m /\ DOMAIN down' = 1..(n + m) /\ s[m] = <<"pack", Range(commons)>>
    BY <1>7, <1>9
  <2>2. \A i \in 1..m : down'[n + i] = s[i]
    BY <1>9
  <2> HIDE DEF n, m, k
  <2>3. k >= 1 /\ down'[k] = <<"pack", Range(commons)>>
    BY <2>1, <2>2
  <2>4. m = 2 => down'[k - 1] = s[1] /\ k >= 2
    BY <2>1, <2>2
  <2>5. \A i \in DOMAIN down' : i \in 1..n \/ i = k \/ (m = 2 /\ i = k - 1)
    BY <2>1
  <2> QED
    BY <2>3, <2>4, <2>5 DEF n, m, k
<1>11. \A i \in DOMAIN down : /\ down[i][1] \in {"common", "ACK", "NAK"}
                              /\ down[i][1] \in {"common", "ACK"} => down[i][2] \in Range(commons)
  BY <1>2, <1>4 DEF TalkDown
<1>12. \A i \in DOMAIN down' : /\ down'[i][1] \in {"common", "ACK", "NAK", "pack"}
                               /\ down'[i][1] \in {"common", "ACK"} => down'[i][2] \in Range(commons)
                               /\ down'[i][1] = "pack" => i = Len(down')
  <2> SUFFICES ASSUME NEW i \in DOMAIN down'
               PROVE  /\ down'[i][1] \in {"common", "ACK", "NAK", "pack"}
                      /\ down'[i][1] \in {"common", "ACK"} => down'[i][2] \in Range(commons)
                      /\ down'[i][1] = "pack" => i = Len(down')
    OBVIOUS
  <2>1. CASE i \in 1..Len(down)
    BY <1>9, <1>11, <2>1
  <2>2. CASE i = Len(down')
    BY <1>10, <2>2
  <2>3. CASE Len(s) = 2 /\ i = Len(down') - 1
    <3>1. down'[i] = s[1]
      BY <1>10, <2>3
    <3> QED
      BY <1>6, <1>7, <2>3, <3>1
  <2> QED
    BY <1>10, <2>1, <2>2, <2>3
<1>13. TalkDown'
  <2>1. told \subseteq Range(commons) /\ cpc # "done"
    BY <1>2, <1>4, <1>5 DEF TalkDown
  <2>2. down' # <<>>
    BY <1>10
  <2> QED
    BY <1>1, <1>10, <1>12, <2>1, <2>2 DEF TalkDown
<1>14. TalkUp'
  BY <1>1, <1>5 DEF TalkUp
<1>15. TalkCounts'
  <2> SUFFICES ASSUME want.multi \/ commons = <<>>
               PROVE  TalkCounts'
    BY <1>1 DEF TalkCounts
  <2>1. cpc = "answers" /\ ~Acked /\ (more => commons # <<>>)
    BY <1>2, <1>4, <1>5 DEF TalkCounts
  <2>2. Unanswered = 0 /\ Unanswered' = 0
    <3>1. Times(Flush, up) = 0 /\ Times(Flush, up') = 0
      BY <1>1, <1>5, TimesOfNone
    <3> QED
      BY <1>1, <3>1, UnansweredThen DEF Unanswered
  <2>3. Owed = 1 /\ Owed' = (IF commons = <<>> THEN 0 ELSE 1)
    BY <1>1, <1>2 DEF Owed
  <2>4. ~more => unread = Unheard + 1
    <3>1. ~more => unread = Unheard + Unanswered + Owed
      BY <1>2, <1>4, <2>1 DEF TalkCounts
    <3> QED
      BY <1>9, <2>2, <2>3, <3>1
  <2>5. ~more => unread' = Unheard' + Unanswered' + Owed'
    BY <1>1, <1>9, <2>2, <2>3, <2>4
  <2>6. commons # <<>> => Len(down') >= 2 /\ down'[Len(down') - 1][1] = "ACK"
    BY <1>7, <1>10
  <2>7. \A i \in DOMAIN down' : down'[i][1] = "ACK" => i = Len(down') - 1
    <3> SUFFICES ASSUME NEW i \in DOMAIN down', down'[i][1] = "ACK" PROVE i = Len(down') - 1
      OBVIOUS
    <3>1. i \notin 1..Len(down)
      BY <1>9, <2>1 DEF Acked
    <3>2. i # Len(down')
      BY <1>10
    <3> QED
      BY <1>10, <3>1, <3>2
  <2> QED
    BY <1>1, <2>1, <2>5, <2>6, <2>7 DEF TalkCounts
<1>16. TalkSingle'
  <2> SUFFICES ASSUME ~want.multi, commons # <<>>
               PROVE  TalkSingle'
    BY <1>1 DEF TalkSingle
  <2>1. Len(s) = 1 /\ Len(down') = Len(down) + 1 /\ down'[Len(down) + 1][1] = "pack"
    BY <1>7, <1>9, <1>10
  <2>2. \A i \in DOMAIN down' : i \in 1..Len(down) \/ i = Len(down) + 1
    BY <1>9, <2>1
  <2>3. \A i \in DOMAIN down : down[i][1] # "common"
    BY <1>2, <1>4 DEF TalkSingle
  <2>4. \A i \in DOMAIN down' : down'[i][1] # "common"
    BY <1>9, <2>1, <2>2, <2>3
  <2>5. CASE told = {}
    <3>1. PICK k \in DOMAIN down : /\ down[k][1] = "ACK" /\ k <= unread
                                   /\ \A i \in 1..k - 1 : down[i][1] = "NAK"
                                   /\ \A i \in k + 1..Len(down) : down[i][1] = "pack"
      BY <1>2, <1>4, <2>5 DEF TalkSingle
    <3>2. k \in DOMAIN down' /\ down'[k][1] = "ACK" /\ k <= unread
      BY <1>9, <3>1
    <3>3. \A i \in 1..k - 1 : down'[i][1] = "NAK"
      BY <1>9, <3>1
    <3>4. \A i \in k + 1..Len(down') : down'[i][1] = "pack"
      BY <1>9, <2>1, <3>1
    <3>5. cpc \in {"haves", "acks", "answers"}
      BY <1>2, <1>4, <2>5 DEF TalkSingle
    <3> QED
      BY <1>1, <2>4, <2>5, <3>2, <3>3, <3>4, <3>5 DEF TalkSingle
  <2>6. CASE told # {}
    <3>1. /\ \A i \in DOMAIN down : down[i][1] = "pack"
          /\ cpc \in {"answers", "pack", "done"} /\ (cpc = "answers" => unread = 0)
      BY <1>2, <1>4, <2>6 DEF TalkSingle
    <3>2. \A i \in DOMAIN down' : down'[i][1] = "pack"
      BY <1>9, <2>1, <2>2, <3>1
    <3> QED
      BY <1>1, <2>4, <2>6, <3>1, <3>2 DEF TalkSingle
  <2> QED
    BY <2>5, <2>6
<1> QED
  BY <1>4, <1>13, <1>14, <1>15, <1>16 DEF FetchTalk

LEMMA SendPackStays ==
    ASSUME FetchTalk, SshTypes, service = "fetch", cpc # "refs", UNCHANGED fixed, UNCHANGED sshClientVars, SendPack
    PROVE  FetchTalk'
<1>1. CASE End(128)
  <2>1. UNCHANGED down
    BY <1>1 DEF SendPack, End
  <2> QED
    BY <1>1, <2>1, NoPackStays
<1>2. CASE ~End(128)
  BY <1>2, PackStays
<1> QED
  BY <1>1, <1>2

LEMMA ReadShallowStays ==
    ASSUME FetchTalk, SshTypes, service = "fetch", cpc # "refs", UNCHANGED fixed, UNCHANGED sshServerVars, ReadShallow
    PROVE  FetchTalk'
<1>1. /\ UNCHANGED <<service, want, sent, unread, told, up, commons, pending, code, spc, lines>> /\ (more' <=> more)
      /\ cpc = "shallow" /\ cpc' = "haves" /\ down # <<>> /\ down' = Tail(down)
  <2>1. UNCHANGED <<service, want, sent, unread, more, told, up, commons, pending, code, spc, lines>>
    BY DEF fixed, sshServerVars, ReadShallow
  <2> QED
    BY <2>1 DEF ReadShallow, Sees
<1>2. WantsTalk
  BY DEF FetchTalk
<1>3. /\ spc = "haves" /\ up = <<>> /\ down = <<<<"shallow">>>> /\ ~want.empty
      /\ want.deepen /\ sent = 0 /\ unread = 0 /\ told = {} /\ (more <=> want.multi) /\ commons = <<>> /\ pending = <<>>
  BY <1>1, <1>2 DEF WantsTalk
<1>4. down' = <<>> /\ code = <<>>
  BY <1>1, <1>3 DEF SshTypes
<1>5. WantsTalk'
  BY <1>1, <1>3, <1>4 DEF WantsTalk
<1>6. Unheard' = 0 /\ Unanswered' = 0
  <2>1. Times(Flush, up') = 0 /\ Times(<<"NAK">>, down') = 0
    BY <1>1, <1>3, <1>4, TimesOfNone
  <2> QED
    BY <1>1, <1>3, <2>1, UnansweredThen DEF Unheard, Times
<1>7. TalkDown' /\ TalkUp'
  BY <1>1, <1>3, <1>4 DEF TalkDown, TalkUp
<1>8. TalkCounts' /\ TalkSingle'
  BY <1>1, <1>3, <1>4, <1>6 DEF TalkCounts, TalkSingle, Acked
<1> QED
  BY <1>5, <1>7, <1>8 DEF FetchTalk

\* The request is not affected by what the client says after it.
LEMMA SaidMore ==
    ASSUME FetchTalk, SshTypes, service = "fetch", cpc \in {"haves", "acks"}, UNCHANGED fixed, UNCHANGED sshServerVars,
           NEW s \in Seq(Line), up' = up \o s, cpc' \in {"haves", "acks", "answers"}, down' = down \/ spc # "wants"
    PROVE  WantsTalk'
<1>1. UNCHANGED <<service, want, commons, pending, code, spc, lines>>
  BY DEF fixed, sshServerVars
<1>2. /\ ~want.empty /\ spc \in {"wants", "haves", "pack", "ended"}
      /\ spc = "wants" =>
              /\ down = <<>> /\ commons = <<>> /\ pending = <<>>
              /\ ~want.deepen
              /\ Len(lines) < Len(Request) /\ Len(Request) <= Len(lines \o up)
              /\ \A i \in 1..Len(Request) : (lines \o up)[i] = Request[i]
  BY DEF FetchTalk, WantsTalk
<1>3. /\ Len(lines' \o up') >= Len(lines \o up)
      /\ \A i \in 1..Len(lines \o up) : (lines' \o up')[i] = (lines \o up)[i]
      /\ Len(lines \o up) \in Nat /\ Len(lines' \o up') \in Nat
  <2>1. lines \in Seq(Line) /\ up \in Seq(Line)
    BY DEF SshTypes
  <2>2. lines' \o up' = (lines \o up) \o s
    BY <1>1, <2>1, ReadLast, SMTT(40)
  <2> DEFINE r == lines \o up
  <2>3. r \in Seq(Line)
    BY <2>1, ConcatSeq
  <2> HIDE DEF r
  <2>4. /\ Len(r \o s) = Len(r) + Len(s) /\ Len(r) \in Nat /\ Len(s) \in Nat
        /\ \A i \in 1..Len(r) : (r \o s)[i] = r[i]
    BY <2>3, ConcatSeq
  <2> QED
    BY <2>2, <2>4 DEF r
<1>4. Request' = Request /\ Len(Request) \in Nat
  BY <1>1, RequestIs DEF Request
<1> DEFINE r == lines \o up
           q == lines' \o up'
<1> HIDE DEF r, q
<1>5. spc = "wants" => Len(Request) <= Len(q) /\ \A i \in 1..Len(Request) : q[i] = Request[i]
  <2>1. Len(q) >= Len(r) /\ (\A i \in 1..Len(r) : q[i] = r[i]) /\ Len(r) \in Nat /\ Len(q) \in Nat
    BY <1>3 DEF q, r
  <2>2. spc = "wants" => Len(Request) <= Len(r) /\ \A i \in 1..Len(Request) : r[i] = Request[i]
    BY <1>2 DEF r
  <2> QED
    BY <1>4, <2>1, <2>2
<1>6. spc = "wants" => Len(Request') <= Len(lines' \o up') /\ \A i \in 1..Len(Request') : (lines' \o up')[i] = Request'[i]
  BY <1>4, <1>5 DEF q
<1>7. spc = "wants" => Len(lines') < Len(Request') /\ down' = <<>>
  BY <1>1, <1>2, <1>4
<1> QED
  BY <1>1, <1>2, <1>6, <1>7 DEF WantsTalk

LEMMA HavesAre ==
    ASSUME SshTypes, SshAssumption, NEW n \in Nat, sent + n <= MaxHaves, NEW x \in Line
    PROVE  LET s == Append(NextHaves(n), x)
           IN  /\ s \in Seq(Line) /\ Len(s) = n + 1 /\ s[n + 1] = x
               /\ \A i \in 1..n : s[i] # <<"done">> /\ s[i] # Flush
               /\ Times(Flush, s) = IF x = Flush THEN 1 ELSE 0
<1> DEFINE h == NextHaves(n)
<1>1. h \in Seq(Line) /\ Len(h) = n /\ \A i \in 1..n : h[i] = <<"have", sent + i>>
  BY HavesTypes DEF SshTypes, SshAssumption
<1>2. \A i \in 1..n : h[i] # <<"done">> /\ h[i] # Flush
  BY <1>1 DEF Flush
<1> HIDE DEF h
<1>3. Times(Flush, h) = 0
  <2>1. \A i \in DOMAIN h : h[i] # Flush
    BY <1>1, <1>2
  <2> QED
    BY <1>1, <2>1, TimesOfAbsent
<1>4. Times(Flush, Append(h, x)) = Times(Flush, h) + (IF x = Flush THEN 1 ELSE 0)
  BY <1>1, TimesOfMore
<1>5. /\ Append(h, x) \in Seq(Line) /\ Len(Append(h, x)) = n + 1 /\ Append(h, x)[n + 1] = x
      /\ \A i \in 1..n : Append(h, x)[i] = h[i]
  BY <1>1
<1> QED
  BY <1>2, <1>3, <1>4, <1>5 DEF h

LEMMA SendWindowStays ==
    ASSUME FetchTalk, SshTypes, service = "fetch", cpc # "refs", UNCHANGED fixed, UNCHANGED sshServerVars, SshAssumption,
           SendWindow
    PROVE  FetchTalk'
<1> DEFINE s == Append(NextHaves(FirstWindow), Flush)
<1>1. /\ UNCHANGED <<service, want, told, down, commons, pending, code, spc, lines>> /\ (more' <=> more)
      /\ cpc = "haves" /\ cpc' \in {"haves", "acks"} /\ unread' = unread + 1 /\ up' = up \o s
      /\ UNCHANGED down
  <2>1. UNCHANGED <<service, want, told, more, down, commons, pending, code, spc, lines>>
    BY DEF fixed, sshServerVars, SendWindow
  <2> QED
    BY <2>1 DEF SendWindow, Send
<1>2. /\ s \in Seq(Line) /\ Times(Flush, s) = 1 /\ \A i \in 1..Len(s) : s[i] # <<"done">>
  <2>1. FirstWindow \in Nat /\ sent + FirstWindow <= MaxHaves
    BY DEF SendWindow, SshAssumption
  <2>2. Flush \in Line /\ Flush # <<"done">>
    BY IsLine DEF Flush
  <2>3. /\ s \in Seq(Line) /\ Len(s) = FirstWindow + 1 /\ s[FirstWindow + 1] = Flush
        /\ \A i \in 1..FirstWindow : s[i] # <<"done">>
        /\ Times(Flush, s) = 1
    BY <2>1, <2>2, HavesAre
  <2> HIDE DEF s
  <2>4. \A i \in 1..FirstWindow + 1 : i \in 1..FirstWindow \/ i = FirstWindow + 1
    BY <2>1
  <2>5. \A i \in 1..FirstWindow + 1 : s[i] # <<"done">>
    BY <2>2, <2>3, <2>4
  <2> QED
    BY <2>3, <2>5
<1> HIDE DEF s
<1>3. WantsTalk /\ TalkDown /\ TalkUp /\ TalkCounts /\ TalkSingle
  BY DEF FetchTalk
<1>4. Talking /\ Talking'
  BY <1>1, <1>3 DEF WantsTalk, Talking
<1>5. WantsTalk'
  BY <1>1, <1>2, SaidMore
<1>6. TalkDown'
  BY <1>1, <1>3, <1>4 DEF TalkDown
<1>7. /\ DOMAIN up = 1..Len(up)
      /\ \A i \in 1..Len(up) : up'[i] = up[i]
      /\ \A i \in DOMAIN up' : i \in 1..Len(up) \/ (i - Len(up) \in 1..Len(s) /\ up'[i] = s[i - Len(up)])
      /\ Times(Flush, up) \in Nat /\ Times(Flush, up') = Times(Flush, up) + 1
  BY <1>1, <1>2, UpGrows
<1>8. TalkUp'
  <2>1. (\A i \in DOMAIN up : up[i] # <<"done">>) /\ spc # "pack" /\ code # <<0>> /\ (more <=> want.multi)
    BY <1>1, <1>3, <1>4 DEF TalkUp
  <2>2. \A i \in DOMAIN up' : up'[i] # <<"done">>
    BY <1>2, <1>7, <2>1
  <2> QED
    BY <1>1, <2>1, <2>2 DEF TalkUp
<1>9. TalkCounts'
  <2>1. Unanswered' = Unanswered + 1 /\ Unanswered \in Nat /\ Unheard \in Nat /\ Unheard' = Unheard /\ unread \in Int
    <3>1. Unanswered \in Nat /\ Unheard \in Nat
      BY <1>3, <1>4, UnansweredType
    <3>2. Unanswered' = Unanswered + 1
      BY <1>1, <1>7, UnansweredThen DEF Unanswered
    <3> QED
      BY <1>1, <3>1, <3>2 DEF Unheard, Times, SshTypes
  <2> SUFFICES ASSUME want.multi \/ commons = <<>> PROVE TalkCounts'
    BY <1>1 DEF TalkCounts
  <2>2. IF code = <<128>> THEN unread >= Unheard ELSE unread = Unheard + Unanswered
    BY <1>1, <1>3, <1>4 DEF TalkCounts
  <2>3. IF code = <<128>> THEN unread' >= Unheard' ELSE unread' = Unheard' + Unanswered'
    BY <1>1, <2>1, <2>2
  <2>4. ~Acked /\ code # <<0>>
    BY <1>1, <1>3, <1>4 DEF TalkCounts, TalkUp
  <2> QED
    BY <1>1, <2>3, <2>4 DEF TalkCounts, Acked
<1>10. TalkSingle'
  <2> SUFFICES ASSUME ~want.multi, commons # <<>> PROVE TalkSingle'
    BY <1>1 DEF TalkSingle
  <2>1. told = {} /\ \A i \in DOMAIN down : down[i][1] # "common"
    BY <1>1, <1>3, <1>4 DEF TalkSingle
  <2>2. PICK k \in DOMAIN down : /\ down[k][1] = "ACK" /\ k <= unread
                                 /\ \A i \in 1..k - 1 : down[i][1] = "NAK"
                                 /\ \A i \in k + 1..Len(down) : down[i][1] = "pack"
    BY <1>3, <1>4, <2>1 DEF TalkSingle
  <2>3. k <= unread'
    <3>1. k \in Nat /\ unread \in Int
      BY DEF SshTypes
    <3> QED
      BY <1>1, <2>2, <3>1
  <2> QED
    BY <1>1, <2>1, <2>2, <2>3 DEF TalkSingle
<1> QED
  BY <1>5, <1>6, <1>8, <1>9, <1>10 DEF FetchTalk

LEMMA SendDoneStays ==
    ASSUME FetchTalk, SshTypes, service = "fetch", cpc # "refs", UNCHANGED fixed, UNCHANGED sshServerVars, SshAssumption,
           SendDone
    PROVE  FetchTalk'
<1> DEFINE n == IF told = {} THEN MaxHaves - sent ELSE 0
           s == Append(NextHaves(n), <<"done">>)
<1>0. SshAssumption /\ sent \in Nat /\ sent <= MaxHaves /\ unread \in Int /\ MaxHaves \in Nat
  BY DEF SshTypes, SshAssumption
<1>1. /\ UNCHANGED <<service, want, told, down, commons, pending, code, spc, lines>>
      /\ cpc = "haves" /\ cpc' = "answers" /\ unread' = (IF told = {} THEN unread + 1 ELSE unread) /\ up' = up \o s
      /\ UNCHANGED down
  BY DEF SendDone, Send, fixed, sshServerVars
<1>2. more' <=> more /\ told # {}
  <2>1. more' = (more /\ told # {})
    BY DEF SendDone
  <2> QED
    BY <2>1
<1>3. n \in Nat /\ sent + n <= MaxHaves
  BY <1>0
<1> HIDE DEF n
<1>4. /\ s \in Seq(Line) /\ Len(s) = n + 1 /\ s[n + 1] = <<"done">> /\ Times(Flush, s) = 0
      /\ \A i \in 1..n : s[i] # <<"done">>
  <2>1. <<"done">> \in Line /\ <<"done">> # Flush
    BY IsLine DEF Flush
  <2> QED
    BY <1>0, <1>3, <2>1, HavesAre
<1> HIDE DEF s
<1>5. WantsTalk /\ TalkDown /\ TalkUp /\ TalkCounts /\ TalkSingle
  BY DEF FetchTalk
<1>6. Talking /\ Talking'
  BY <1>1, <1>5 DEF WantsTalk, Talking
<1>7. WantsTalk'
  BY <1>1, <1>4, SaidMore
<1>8. (\A i \in DOMAIN up : up[i] # <<"done">>) /\ spc # "pack" /\ code # <<0>> /\ (more <=> want.multi)
  BY <1>1, <1>5, <1>6 DEF TalkUp
<1>9. TalkDown'
  BY <1>1, <1>5, <1>6, <1>8 DEF TalkDown
<1>10. /\ DOMAIN up = 1..Len(up) /\ Len(up) \in Nat /\ Len(s) \in Nat /\ Len(up') = Len(up) + Len(s)
       /\ DOMAIN up' = 1..Len(up) + Len(s)
       /\ \A i \in 1..Len(up) : up'[i] = up[i]
       /\ \A i \in 1..Len(s) : up'[Len(up) + i] = s[i]
       /\ \A i \in DOMAIN up' : i \in 1..Len(up) \/ (i - Len(up) \in 1..Len(s) /\ up'[i] = s[i - Len(up)])
       /\ Times(Flush, up) \in Nat /\ Times(Flush, up') = Times(Flush, up)
  BY <1>1, <1>4, UpGrows, SMTT(40)
<1>11. TalkUp'
  <2>1. up' # <<>>
    BY <1>3, <1>4, <1>10
  <2>2. \A i \in DOMAIN up' : up'[i] = <<"done">> <=> i = Len(up')
    <3> SUFFICES ASSUME NEW i \in DOMAIN up' PROVE up'[i] = <<"done">> <=> i = Len(up')
      OBVIOUS
    <3>1. CASE i \in 1..Len(up)
      <4>1. up'[i] # <<"done">>
        BY <1>8, <1>10, <3>1
      <4>2. Len(up') = Len(up) + (n + 1) /\ i <= Len(up) /\ i \in Nat /\ Len(up) \in Nat
        BY <1>4, <1>10, <3>1
      <4>3. i # Len(up')
        BY <1>3, <4>2
      <4> QED
        BY <4>1, <4>3
    <3>2. CASE i - Len(up) \in 1..Len(s) /\ up'[i] = s[i - Len(up)]
      <4>1. i = Len(up') <=> i - Len(up) = n + 1
        <5>1. Len(up') = Len(up) + (n + 1) /\ Len(up) \in Nat /\ i \in Int
          BY <1>3, <1>4, <1>10
        <5> QED
          BY <1>3, <5>1
      <4>2. i - Len(up) \in 1..n \/ i - Len(up) = n + 1
        BY <1>3, <1>4, <3>2
      <4>3. s[i - Len(up)] = <<"done">> <=> i - Len(up) = n + 1
        BY <1>3, <1>4, <4>2
      <4> QED
        BY <3>2, <4>1, <4>3
    <3> QED
      BY <1>10, <3>1, <3>2
  <2> QED
    BY <1>1, <1>2, <1>8, <2>1, <2>2 DEF TalkUp
<1>12. TalkCounts'
  <2> SUFFICES ASSUME want.multi \/ commons = <<>> PROVE TalkCounts'
    BY <1>1 DEF TalkCounts
  <2>1. Unanswered' = Unanswered /\ Unanswered \in Nat /\ Unheard \in Nat /\ Unheard' = Unheard
    <3>1. Unanswered \in Nat /\ Unheard \in Nat
      BY <1>5, <1>6, UnansweredType
    <3>2. Unanswered' = Unanswered
      BY <1>1, <1>10, UnansweredThen DEF Unanswered
    <3> QED
      BY <1>1, <3>1, <3>2 DEF Unheard, Times
  <2>2. IF code = <<128>> THEN unread >= Unheard ELSE unread = Unheard + Unanswered
    BY <1>1, <1>5, <1>6 DEF TalkCounts
  <2>3. ~Acked
    BY <1>5, <1>6, <1>8 DEF TalkCounts
  <2>4. told # {} => commons # <<>>
    BY <1>5, <1>6, RangeOfFew DEF TalkDown
  <2>5. told # {} => more'
    BY <1>2, <1>8, <2>4
  <2>6. more' => commons' # <<>>
    BY <1>1, <1>2, <2>4
  <2>7. Owed' = 1
    BY <1>1, <1>8 DEF Owed
  <2>8. ~more' => IF code = <<128>> THEN unread' >= Unheard' + 1 ELSE unread' = Unheard' + Unanswered' + 1
    BY <1>0, <1>1, <2>1, <2>2, <2>5
  <2> QED
    BY <1>1, <1>8, <2>3, <2>6, <2>7, <2>8 DEF TalkCounts, Acked
<1>13. TalkSingle'
  <2> SUFFICES ASSUME ~want.multi, commons # <<>> PROVE TalkSingle'
    BY <1>1 DEF TalkSingle
  <2>1. told = {} /\ \A i \in DOMAIN down : down[i][1] # "common"
    BY <1>1, <1>5, <1>6 DEF TalkSingle
  <2>2. PICK k \in DOMAIN down : /\ down[k][1] = "ACK" /\ k <= unread
                                 /\ \A i \in 1..k - 1 : down[i][1] = "NAK"
                                 /\ \A i \in k + 1..Len(down) : down[i][1] = "pack"
    BY <1>5, <1>6, <2>1 DEF TalkSingle
  <2>3. k <= unread'
    <3>1. k \in Nat
      BY DEF SshTypes
    <3> QED
      BY <1>0, <1>1, <2>1, <2>2, <3>1
  <2> QED
    BY <1>1, <2>1, <2>2, <2>3 DEF TalkSingle
<1> QED
  BY <1>7, <1>9, <1>11, <1>12, <1>13 DEF FetchTalk

\* When the request was read through, the client may say what it likes.
LEMMA WantsOver ==
    ASSUME WantsTalk, Talking, UNCHANGED fixed, UNCHANGED sshServerVars, spc # "wants",
           cpc' \in {"haves", "acks", "answers", "pack", "done"}
    PROVE  WantsTalk' /\ Talking'
<1>1. UNCHANGED <<service, want, spc>>
  BY DEF fixed, sshServerVars
<1>2. service = "fetch" /\ ~want.empty /\ spc \in {"haves", "pack", "ended"}
  BY DEF WantsTalk, Talking
<1> QED
  BY <1>1, <1>2 DEF WantsTalk, Talking

\* The client has heard one message; it is not the pack, or it is the last.
LEMMA Heard ==
    ASSUME SshTypes, Talking, TalkDown, UNCHANGED fixed, UNCHANGED sshServerVars, down # <<>>, down' = Tail(down),
           told' \subseteq Range(commons), cpc # "done", cpc' # "done", down[1][1] # "pack"
    PROVE  TalkDown'
<1>1. UNCHANGED <<service, want, code, commons>>
  BY DEF fixed, sshServerVars
<1>2. /\ Len(down) \in Nat /\ Len(down) >= 1 /\ DOMAIN down = 1..Len(down)
      /\ Len(down') = Len(down) - 1 /\ DOMAIN down' = 1..Len(down) - 1
      /\ \A i \in 1..Len(down) - 1 : down'[i] = down[i + 1]
      /\ (down' = <<>> <=> Len(down) = 1)
  BY DownRead
<1>3. \A i \in DOMAIN down : /\ down[i][1] \in {"common", "ACK", "NAK", "pack"}
                             /\ down[i][1] \in {"common", "ACK"} => down[i][2] \in Range(commons)
                             /\ down[i][1] = "pack" => i = Len(down) /\ code = <<0>>
  BY DEF TalkDown
<1>4. \A i \in DOMAIN down' : i + 1 \in DOMAIN down /\ down'[i] = down[i + 1] /\ (i + 1 = Len(down) => i = Len(down'))
  BY <1>2
<1>5. \A i \in DOMAIN down' : /\ down'[i][1] \in {"common", "ACK", "NAK", "pack"}
                              /\ down'[i][1] \in {"common", "ACK"} => down'[i][2] \in Range(commons)
                              /\ down'[i][1] = "pack" => i = Len(down') /\ code = <<0>>
  BY <1>3, <1>4
<1>6. code = <<0>> => down' # <<>> /\ down'[Len(down')][1] = "pack"
  <2> SUFFICES ASSUME code = << 0 >> PROVE down' # <<>> /\ down'[Len(down')][1] = "pack"
    OBVIOUS
  <2>1. down[Len(down)][1] = "pack"
    BY DEF TalkDown
  <2>2. Len(down) # 1
    BY <2>1
  <2>3. Len(down') \in 1..Len(down) - 1 /\ Len(down') + 1 = Len(down)
    BY <1>2, <2>2
  <2>4. down'[Len(down')] = down[Len(down)]
    BY <1>2, <2>3
  <2> QED
    BY <1>2, <2>1, <2>2, <2>4
<1> QED
  BY <1>1, <1>5, <1>6 DEF TalkDown

\* With multi_ack, or before the first acknowledgment, nothing that is left is an ACK but
\* the one before the pack.
LEMMA HeardAcks ==
    ASSUME SshTypes, down # <<>>, down' = Tail(down), \A i \in DOMAIN down : down[i][1] = "ACK" => i = Len(down) - 1
    PROVE  /\ \A i \in DOMAIN down' : down'[i][1] = "ACK" => i = Len(down') - 1
           /\ Acked' => Acked
           /\ down[1][1] # "ACK" /\ Len(down) >= 2 /\ down[Len(down) - 1][1] = "ACK" =>
                 Len(down') >= 2 /\ down'[Len(down') - 1][1] = "ACK"
<1>2. /\ Len(down) \in Nat /\ Len(down) >= 1 /\ DOMAIN down = 1..Len(down)
      /\ Len(down') = Len(down) - 1 /\ DOMAIN down' = 1..Len(down) - 1
      /\ \A i \in 1..Len(down) - 1 : down'[i] = down[i + 1]
  BY DownRead
<1>3. \A i \in DOMAIN down' : i + 1 \in DOMAIN down /\ down'[i] = down[i + 1] /\ (i + 1 = Len(down) - 1 => i = Len(down') - 1)
  BY <1>2
<1>4. \A i \in DOMAIN down' : down'[i][1] = "ACK" => i = Len(down') - 1
  BY <1>3
<1>5. Acked' => Acked
  BY <1>3 DEF Acked
<1>6. ASSUME down[1][1] # "ACK", Len(down) >= 2, down[Len(down) - 1][1] = "ACK"
      PROVE  Len(down') >= 2 /\ down'[Len(down') - 1][1] = "ACK"
  <2>1. Len(down) - 1 # 1
    BY <1>6
  <2>2. Len(down') - 1 \in 1..Len(down) - 1 /\ (Len(down') - 1) + 1 = Len(down) - 1 /\ Len(down') >= 2
    BY <1>2, <1>6, <2>1
  <2>3. down'[Len(down') - 1] = down[Len(down) - 1]
    BY <1>2, <2>2
  <2> QED
    BY <1>6, <2>2, <2>3
<1> QED
  BY <1>4, <1>5, <1>6

\* Without it, a NAK that is read was sent before the acknowledgment.
LEMMA HeardNak ==
    ASSUME SshTypes, Talking, TalkSingle, UNCHANGED fixed, UNCHANGED sshServerVars, down # <<>>, down' = Tail(down),
           down[1][1] = "NAK", told' = told, unread' = unread - 1, cpc' \in {"haves", "acks", "answers"}
    PROVE  TalkSingle'
<1>1. UNCHANGED <<service, want, code, commons>>
  BY DEF fixed, sshServerVars
<1>2. /\ Len(down) \in Nat /\ Len(down) >= 1 /\ DOMAIN down = 1..Len(down)
      /\ Len(down') = Len(down) - 1 /\ DOMAIN down' = 1..Len(down) - 1
      /\ \A i \in 1..Len(down) - 1 : down'[i] = down[i + 1]
  BY DownRead
<1> SUFFICES ASSUME ~want.multi, commons # <<>> PROVE TalkSingle'
  BY <1>1 DEF TalkSingle
<1>3. 1 \in DOMAIN down
  BY <1>2
<1>4. told = {} /\ \A i \in DOMAIN down : down[i][1] # "common"
  BY <1>3 DEF TalkSingle
<1>5. PICK k \in DOMAIN down : /\ down[k][1] = "ACK" /\ k <= unread
                               /\ \A i \in 1..k - 1 : down[i][1] = "NAK"
                               /\ \A i \in k + 1..Len(down) : down[i][1] = "pack"
  BY <1>4 DEF TalkSingle
<1>6. k # 1 /\ k \in 1..Len(down)
  BY <1>2, <1>5
<1> DEFINE m == k - 1
<1>7. m \in 1..Len(down) - 1 /\ m + 1 = k
  BY <1>2, <1>6
<1>8. m \in DOMAIN down' /\ down'[m][1] = "ACK"
  <2>1. down'[m] = down[m + 1]
    BY <1>2, <1>7
  <2> QED
    BY <1>2, <1>5, <1>7, <2>1
<1>9. m <= unread'
  <2>1. unread \in Int
    BY DEF SshTypes
  <2> QED
    BY <1>5, <1>6, <2>1
<1>10. \A i \in 1..m - 1 : down'[i][1] = "NAK"
  <2> SUFFICES ASSUME NEW i \in 1..m - 1 PROVE down'[i][1] = "NAK"
    OBVIOUS
  <2>1. i + 1 \in 1..k - 1 /\ i \in 1..Len(down) - 1
    BY <1>2, <1>7
  <2> QED
    BY <1>2, <1>5, <2>1
<1>11. \A i \in m + 1..Len(down') : down'[i][1] = "pack"
  <2> SUFFICES ASSUME NEW i \in m + 1..Len(down') PROVE down'[i][1] = "pack"
    OBVIOUS
  <2>1. i + 1 \in k + 1..Len(down) /\ i \in 1..Len(down) - 1
    BY <1>2, <1>7
  <2> QED
    BY <1>2, <1>5, <2>1
<1>12. \A i \in DOMAIN down' : down'[i][1] # "common"
  <2> SUFFICES ASSUME NEW i \in DOMAIN down' PROVE down'[i][1] # "common"
    OBVIOUS
  <2>1. i + 1 \in DOMAIN down /\ down'[i] = down[i + 1]
    BY <1>2
  <2> QED
    BY <1>4, <2>1
<1> HIDE DEF m
<1> QED
  BY <1>1, <1>4, <1>8, <1>9, <1>10, <1>11, <1>12 DEF TalkSingle

\* The first acknowledgment, when it is the next message, is the last but the pack.
LEMMA HeardAck ==
    ASSUME SshTypes, Talking, TalkSingle, UNCHANGED fixed, UNCHANGED sshServerVars, down # <<>>, down' = Tail(down),
           ~want.multi, commons # <<>>, down[1][1] = "ACK", told' # {},
           cpc' \in {"answers", "pack"}, cpc' = "answers" => unread' = 0
    PROVE  TalkSingle'
<1>1. UNCHANGED <<service, want, code, commons>>
  BY DEF fixed, sshServerVars
<1>2. /\ Len(down) \in Nat /\ Len(down) >= 1 /\ DOMAIN down = 1..Len(down)
      /\ Len(down') = Len(down) - 1 /\ DOMAIN down' = 1..Len(down) - 1
      /\ \A i \in 1..Len(down) - 1 : down'[i] = down[i + 1]
  BY DownRead
<1>3. 1 \in DOMAIN down
  BY <1>2
<1>4. told = {}
  BY <1>3 DEF TalkSingle
<1>5. PICK k \in DOMAIN down : /\ \A i \in 1..k - 1 : down[i][1] = "NAK"
                               /\ \A i \in k + 1..Len(down) : down[i][1] = "pack"
  BY <1>4 DEF TalkSingle
<1>6. k = 1
  <2>1. k \in 1..Len(down)
    BY <1>2, <1>5
  <2>2. CASE k # 1
    <3>1. 1 \in 1..k - 1
      BY <2>1, <2>2
    <3> QED
      BY <1>5, <3>1
  <2> QED
    BY <2>2
<1>7. \A i \in DOMAIN down' : down'[i][1] = "pack"
  <2> SUFFICES ASSUME NEW i \in DOMAIN down' PROVE down'[i][1] = "pack"
    OBVIOUS
  <2>1. i + 1 \in 1 + 1..Len(down) /\ i \in 1..Len(down) - 1
    BY <1>2
  <2> QED
    BY <1>2, <1>5, <1>6, <2>1
<1> QED
  BY <1>1, <1>7 DEF TalkSingle

\* What the client has sent is where it was.
LEMMA SentStays ==
    ASSUME Talking, TalkUp, UNCHANGED fixed, UNCHANGED sshServerVars, UNCHANGED up, more' => want.multi,
           \/ cpc \in {"haves", "acks"} /\ cpc' \in {"haves", "acks"} /\ (more' <=> more)
           \/ cpc \in {"answers", "pack"} /\ cpc' \in {"answers", "pack"}
           \/ cpc' = "done" /\ spc # "pack"
    PROVE  TalkUp'
<1>1. UNCHANGED <<service, want, code, spc, up>>
  BY DEF fixed, sshServerVars
<1>2. CASE cpc \in {"haves", "acks"} /\ cpc' \in {"haves", "acks"} /\ (more' <=> more)
  BY <1>1, <1>2 DEF TalkUp
<1>3. CASE cpc \in {"answers", "pack"} /\ cpc' \in {"answers", "pack"}
  BY <1>1, <1>3 DEF TalkUp
<1>4. CASE cpc' = "done" /\ spc # "pack"
  BY <1>1, <1>4 DEF TalkUp
<1> QED
  BY <1>2, <1>3, <1>4

LEMMA ReadAckStays ==
    ASSUME FetchTalk, SshTypes, service = "fetch", cpc # "refs", UNCHANGED fixed, UNCHANGED sshServerVars, ReadAck
    PROVE  FetchTalk'
<1>1. /\ UNCHANGED <<service, want, commons, pending, code, spc, lines>>
      /\ cpc = "acks" /\ down # <<>> /\ down' = Tail(down)
  BY DEF fixed, sshServerVars, ReadAck, Sees
<1>2. WantsTalk /\ TalkDown /\ TalkUp /\ TalkCounts /\ TalkSingle
  BY DEF FetchTalk
<1>3. Talking /\ code # <<0>> /\ (more <=> want.multi) /\ spc # "pack" /\ spc # "wants" /\ unread \in Int
  BY <1>1, <1>2 DEF WantsTalk, Talking, TalkUp, SshTypes
<1>4. /\ Len(down) \in Nat /\ Len(down) >= 1 /\ DOMAIN down = 1..Len(down) /\ Head(down) = down[1]
      /\ Unheard' \in Nat /\ Unheard = Unheard' + (IF down[1] = <<"NAK">> THEN 1 ELSE 0)
      /\ down[1] \in Message /\ 1 \in DOMAIN down
  BY <1>1, DownRead
<1>5. /\ down[1][1] \in {"common", "ACK", "NAK"}
      /\ down[1][1] \in {"common", "ACK"} => down[1][2] \in Range(commons) /\ commons # <<>>
      /\ told \subseteq Range(commons)
  <2>1. /\ down[1][1] \in {"common", "ACK", "NAK"}
        /\ down[1][1] \in {"common", "ACK"} => down[1][2] \in Range(commons)
        /\ told \subseteq Range(commons)
    BY <1>2, <1>3, <1>4 DEF TalkDown
  <2> QED
    BY <2>1, RangeOfFew
<1>6. want.multi \/ commons = <<>> =>
         /\ IF code = <<128>> THEN unread >= Unheard ELSE unread = Unheard + Unanswered
         /\ ~Acked /\ \A i \in DOMAIN down : down[i][1] = "ACK" => i = Len(down) - 1
  BY <1>1, <1>2, <1>3 DEF TalkCounts
<1>7. (want.multi \/ commons = <<>>) => ~Acked'
  BY <1>1, <1>6, HeardAcks
<1>8. CASE down[1][1] = "common"
  <2>1. told' = told \cup {down[1][2]} /\ UNCHANGED <<cpc, unread, up>>
    BY <1>4, <1>8 DEF ReadAck
  <2>2. more' <=> more
    <3>1. UNCHANGED more
      BY <1>4, <1>8 DEF ReadAck
    <3> QED
      BY <3>1
  <2>3. WantsTalk' /\ Talking'
    BY <1>1, <1>2, <1>3, <2>1, WantsOver
  <2>4. TalkDown'
    BY <1>1, <1>2, <1>3, <1>5, <1>8, <2>1, Heard
  <2>5. TalkUp'
    BY <1>1, <1>2, <1>3, <2>1, <2>2, SentStays
  <2>6. want.multi
    BY <1>2, <1>3, <1>4, <1>5, <1>8 DEF TalkSingle
  <2>7. TalkCounts'
    <3>1. Unheard' = Unheard
      BY <1>1, <1>8, NakRead
    <3>2. Unanswered' = Unanswered
      BY <1>1, <2>1, UnansweredThen DEF Unanswered
    <3> QED
      BY <1>1, <1>3, <1>6, <1>7, <2>1, <2>6, <3>1, <3>2 DEF TalkCounts, Acked
  <2>8. TalkSingle'
    BY <1>1, <2>6 DEF TalkSingle
  <2> QED
    BY <2>3, <2>4, <2>5, <2>7, <2>8 DEF FetchTalk
<1>9. CASE down[1][1] = "ACK"
  <2>1. told' = {down[1][2]} /\ unread' = 0 /\ up' = up \o <<<<"done">>>> /\ cpc' = "answers"
    BY <1>4, <1>9 DEF ReadAck, Send
  <2>2. ~more'
    <3>1. more' = FALSE
      BY <1>4, <1>9 DEF ReadAck
    <3> QED
      BY <3>1
  <2>3. WantsTalk' /\ Talking'
    BY <1>1, <1>2, <1>3, <2>1, WantsOver
  <2>4. TalkDown'
    BY <1>1, <1>2, <1>3, <1>5, <1>9, <2>1, Heard
  <2>5. ~want.multi /\ commons # <<>>
    BY <1>4, <1>5, <1>6, <1>9 DEF Acked
  <2>6. TalkUp'
    <3> DEFINE s == <<<<"done">>>>
    <3>1. s \in Seq(Line) /\ Len(s) = 1 /\ s[1] = <<"done">>
      BY IsLine
    <3> HIDE DEF s
    <3>2. /\ DOMAIN up = 1..Len(up) /\ Len(up) \in Nat /\ Len(up') = Len(up) + Len(s)
          /\ DOMAIN up' = 1..Len(up) + Len(s)
          /\ \A i \in 1..Len(up) : up'[i] = up[i]
          /\ \A i \in 1..Len(s) : up'[Len(up) + i] = s[i]
      <4>1. up' = up \o s
        BY <2>1 DEF s
      <4> QED
        BY <3>1, <4>1, UpGrows
    <3>3. Len(up') = Len(up) + 1 /\ DOMAIN up' = 1..Len(up) + 1 /\ up'[Len(up) + 1] = <<"done">>
      BY <3>1, <3>2
    <3>4. \A i \in DOMAIN up : up[i] # <<"done">>
      BY <1>1, <1>2, <1>3 DEF TalkUp
    <3>5. \A i \in DOMAIN up' : up'[i] = <<"done">> <=> i = Len(up')
      <4> SUFFICES ASSUME NEW i \in DOMAIN up' PROVE up'[i] = <<"done">> <=> i = Len(up')
        OBVIOUS
      <4>1. CASE i = Len(up) + 1
        BY <3>3, <4>1
      <4>2. CASE i # Len(up) + 1
        <5>1. i \in 1..Len(up) /\ i # Len(up')
          BY <3>2, <3>3, <4>2
        <5>2. up'[i] # <<"done">>
          BY <3>2, <3>4, <5>1
        <5> QED
          BY <5>1, <5>2
      <4> QED
        BY <4>1, <4>2
    <3>6. up' # <<>>
      BY <3>2, <3>3
    <3> QED
      BY <1>1, <1>3, <2>1, <2>2, <3>5, <3>6 DEF TalkUp
  <2>7. TalkCounts'
    BY <1>1, <2>5 DEF TalkCounts
  <2>8. TalkSingle'
    <3>1. told' # {}
      BY <2>1
    <3> QED
      BY <1>1, <1>2, <1>3, <1>9, <2>1, <2>5, <3>1, HeardAck
  <2> QED
    BY <2>3, <2>4, <2>6, <2>7, <2>8 DEF FetchTalk
<1>10. CASE down[1][1] = "NAK"
  <2>1. unread' = unread - 1 /\ cpc' = "haves" /\ UNCHANGED <<told, up>>
    BY <1>4, <1>10 DEF ReadAck
  <2>2. more' <=> more
    <3>1. UNCHANGED more
      BY <1>4, <1>10 DEF ReadAck
    <3> QED
      BY <3>1
  <2>3. WantsTalk' /\ Talking'
    BY <1>1, <1>2, <1>3, <2>1, WantsOver
  <2>4. TalkDown'
    BY <1>1, <1>2, <1>3, <1>5, <1>10, <2>1, Heard
  <2>5. TalkUp'
    BY <1>1, <1>2, <1>3, <2>1, <2>2, SentStays
  <2>6. TalkCounts'
    <3> SUFFICES ASSUME want.multi \/ commons = <<>> PROVE TalkCounts'
      BY <1>1 DEF TalkCounts
    <3>1. Unheard' = Unheard - 1
      BY <1>1, <1>10, NakRead
    <3>2. Unanswered' = Unanswered /\ Unanswered \in Nat /\ Unheard \in Nat
      BY <1>1, <1>2, <1>3, <2>1, UnansweredThen, UnansweredType DEF Unanswered
    <3>3. IF code = <<128>> THEN unread' >= Unheard' ELSE unread' = Unheard' + Unanswered'
      BY <1>3, <1>6, <2>1, <3>1, <3>2
    <3> QED
      BY <1>1, <1>3, <1>6, <1>7, <2>1, <3>3 DEF TalkCounts, Acked
  <2>7. TalkSingle'
    BY <1>1, <1>2, <1>3, <1>10, <2>1, HeardNak
  <2> QED
    BY <2>3, <2>4, <2>5, <2>6, <2>7 DEF FetchTalk
<1> QED
  BY <1>5, <1>8, <1>9, <1>10

LEMMA ReadAnswerStays ==
    ASSUME FetchTalk, SshTypes, service = "fetch", cpc # "refs", UNCHANGED fixed, UNCHANGED sshServerVars, ReadAnswer,
           Head(down)[1] \in {"common", "ACK", "NAK"}
    PROVE  FetchTalk'
<1>1. /\ UNCHANGED <<service, want, commons, pending, code, spc, lines, up>>
      /\ cpc = "answers" /\ down # <<>> /\ down' = Tail(down)
      /\ UNCHANGED up
  BY DEF fixed, sshServerVars, ReadAnswer, Sees
<1>2. WantsTalk /\ TalkDown /\ TalkUp /\ TalkCounts /\ TalkSingle
  BY DEF FetchTalk
<1>3. Talking /\ (more => want.multi)
  BY <1>1, <1>2 DEF WantsTalk, Talking, TalkUp
<1>4. spc # "wants" /\ unread \in Int /\ (code = <<0>> => spc = "ended")
  <2>1. spc # "wants"
    BY <1>1, <1>2, <1>3 DEF WantsTalk, Talking
  <2>2. unread \in Int /\ (code = <<0>> => spc = "ended")
    <3>1. code # <<>> <=> spc = "ended"
      BY DEF SshTypes
    <3>2. <<0>> # <<>>
      OBVIOUS
    <3> QED
      BY <3>1, <3>2 DEF SshTypes
  <2> QED
    BY <2>1, <2>2
<1>5. /\ Len(down) \in Nat /\ Len(down) >= 1 /\ DOMAIN down = 1..Len(down) /\ Head(down) = down[1]
      /\ Len(down') = Len(down) - 1 /\ DOMAIN down' = 1..Len(down) - 1
      /\ \A i \in 1..Len(down) - 1 : down'[i] = down[i + 1]
      /\ Unheard' \in Nat /\ Unheard = Unheard' + (IF down[1] = <<"NAK">> THEN 1 ELSE 0)
      /\ down[1] \in Message /\ 1 \in DOMAIN down
  BY <1>1, DownRead
<1>13. Len(down) \in Nat
  BY <1>5
<1>6. /\ down[1][1] \in {"common", "ACK", "NAK"}
      /\ down[1][1] \in {"common", "ACK"} => down[1][2] \in Range(commons) /\ commons # <<>>
      /\ told \subseteq Range(commons)
  <2>1. /\ down[1][1] \in {"common", "ACK", "NAK"}
        /\ down[1][1] \in {"common", "ACK"} => down[1][2] \in Range(commons)
        /\ told \subseteq Range(commons)
    BY <1>2, <1>3, <1>5 DEF TalkDown
  <2> QED
    BY <2>1, RangeOfFew
<1>7. want.multi \/ commons = <<>> =>
         /\ ~more => IF code = <<128>> THEN unread >= Unheard + 1 ELSE unread = Unheard + Unanswered + Owed
         /\ more => commons # <<>>
         /\ Acked => code = <<0>>
         /\ code = <<0>> /\ commons # <<>> => Len(down) >= 2 /\ down[Len(down) - 1][1] = "ACK"
         /\ \A i \in DOMAIN down : down[i][1] = "ACK" => i = Len(down) - 1
  BY <1>1, <1>2, <1>3 DEF TalkCounts
<1>8. want.multi \/ commons = <<>> =>
         /\ \A i \in DOMAIN down' : down'[i][1] = "ACK" => i = Len(down') - 1
         /\ Acked' => code = <<0>>
         /\ down[1][1] # "ACK" /\ code = <<0>> /\ commons # <<>> => Len(down') >= 2 /\ down'[Len(down') - 1][1] = "ACK"
  <2> SUFFICES ASSUME want.multi \/ commons = <<>>
               PROVE  /\ \A i \in DOMAIN down' : down'[i][1] = "ACK" => i = Len(down') - 1
                      /\ Acked' => code = <<0>>
                      /\ down[1][1] # "ACK" /\ code = <<0>> /\ commons # <<>> =>
                            Len(down') >= 2 /\ down'[Len(down') - 1][1] = "ACK"
    OBVIOUS
  <2>1. \A i \in DOMAIN down : down[i][1] = "ACK" => i = Len(down) - 1
    BY <1>7
  <2>2. /\ \A i \in DOMAIN down' : down'[i][1] = "ACK" => i = Len(down') - 1
        /\ Acked' => Acked
        /\ down[1][1] # "ACK" /\ Len(down) >= 2 /\ down[Len(down) - 1][1] = "ACK" =>
              Len(down') >= 2 /\ down'[Len(down') - 1][1] = "ACK"
    BY <1>1, <2>1, HeardAcks
  <2> QED
    BY <1>7, <2>2
<1>9. CASE down[1][1] = "common"
  <2>1. told' = told \cup {down[1][2]} /\ UNCHANGED <<cpc, unread>>
    BY <1>5, <1>9 DEF ReadAnswer
  <2>2. more'
    <3>1. more' = TRUE
      BY <1>5, <1>9 DEF ReadAnswer
    <3> QED
      BY <3>1
  <2>3. WantsTalk' /\ Talking'
    BY <1>1, <1>2, <1>3, <1>4, <2>1, WantsOver
  <2>4. TalkDown'
    BY <1>1, <1>2, <1>3, <1>6, <1>9, <2>1, Heard
  <2>5. want.multi /\ commons # <<>>
    BY <1>2, <1>3, <1>5, <1>6, <1>9 DEF TalkSingle
  <2>6. TalkUp'
    BY <1>1, <1>2, <1>3, <2>1, <2>5, SentStays
  <2>7. TalkCounts'
    <3>1. down[1][1] # "ACK"
      BY <1>9
    <3> QED
      BY <1>1, <1>8, <2>1, <2>2, <2>5, <3>1 DEF TalkCounts
  <2>8. TalkSingle'
    BY <1>1, <2>5 DEF TalkSingle
  <2> QED
    BY <2>3, <2>4, <2>6, <2>7, <2>8 DEF FetchTalk
<1>10. CASE down[1][1] = "ACK"
  <2>1. told' = told \cup {down[1][2]} /\ cpc' = "pack" /\ UNCHANGED unread
    BY <1>5, <1>10 DEF ReadAnswer
  <2>2. more' <=> more
    <3>1. UNCHANGED more
      BY <1>5, <1>10 DEF ReadAnswer
    <3> QED
      BY <3>1
  <2>3. WantsTalk' /\ Talking'
    BY <1>1, <1>2, <1>3, <1>4, <2>1, WantsOver
  <2>4. TalkDown'
    BY <1>1, <1>2, <1>3, <1>6, <1>10, <2>1, Heard
  <2>5. TalkUp'
    BY <1>1, <1>2, <1>3, <2>1, <2>2, SentStays
  <2>6. TalkCounts'
    <3> SUFFICES ASSUME want.multi \/ commons = <<>> PROVE TalkCounts'
      BY <1>1 DEF TalkCounts
    <3>1. code = <<0>> /\ Len(down) = 2
      <4>1. Acked
        BY <1>5, <1>10 DEF Acked
      <4>2. 1 = Len(down) - 1
        BY <1>5, <1>7, <1>10
      <4> QED
        BY <1>7, <1>13, <4>1, <4>2
    <3>2. Len(down') = 1
      BY <1>5, <3>1
    <3> QED
      BY <1>1, <1>8, <2>1, <3>1, <3>2 DEF TalkCounts
  <2>7. TalkSingle'
    <3>1. CASE want.multi
      BY <1>1, <3>1 DEF TalkSingle
    <3>2. CASE ~want.multi
      <4>1. told' # {} /\ commons # <<>>
        BY <1>6, <1>10, <2>1
      <4> QED
        BY <1>1, <1>2, <1>3, <1>10, <2>1, <3>2, <4>1, HeardAck
    <3> QED
      BY <3>1, <3>2
  <2> QED
    BY <2>3, <2>4, <2>5, <2>6, <2>7 DEF FetchTalk
<1>11. CASE down[1][1] = "NAK"
  <2>1. unread' = unread - 1 /\ UNCHANGED <<cpc, told>>
    BY <1>5, <1>11 DEF ReadAnswer
  <2>2. more' <=> more
    <3>1. UNCHANGED more
      BY <1>5, <1>11 DEF ReadAnswer
    <3> QED
      BY <3>1
  <2>3. WantsTalk' /\ Talking'
    BY <1>1, <1>2, <1>3, <1>4, <2>1, WantsOver
  <2>4. TalkDown'
    BY <1>1, <1>2, <1>3, <1>6, <1>11, <2>1, Heard
  <2>5. TalkUp'
    BY <1>1, <1>2, <1>3, <2>1, <2>2, SentStays
  <2>6. TalkCounts'
    <3> SUFFICES ASSUME want.multi \/ commons = <<>> PROVE TalkCounts'
      BY <1>1 DEF TalkCounts
    <3>1. Unheard' = Unheard - 1
      BY <1>1, <1>11, NakRead
    <3>2. Unanswered' = Unanswered /\ Unanswered \in Nat /\ Unheard \in Nat /\ Owed' = Owed /\ Owed \in {0, 1}
      BY <1>1, <1>2, <1>3, UnansweredThen, UnansweredType DEF Unanswered, Owed
    <3>3. ~more => IF code = <<128>> THEN unread' >= Unheard' + 1 ELSE unread' = Unheard' + Unanswered' + Owed'
      BY <1>4, <1>7, <2>1, <3>1, <3>2
    <3>4. down[1][1] # "ACK"
      BY <1>11
    <3> QED
      BY <1>1, <1>7, <1>8, <2>1, <2>2, <3>3, <3>4 DEF TalkCounts
  <2>7. TalkSingle'
    BY <1>1, <1>2, <1>3, <1>11, <2>1, HeardNak
  <2> QED
    BY <2>3, <2>4, <2>5, <2>6, <2>7 DEF FetchTalk
<1> QED
  BY <1>6, <1>9, <1>10, <1>11

\* When no answer is missing and none is owed, only the pack is left.
LEMMA AnswersOverStays ==
    ASSUME FetchTalk, SshTypes, service = "fetch", cpc # "refs", UNCHANGED fixed, UNCHANGED sshServerVars, AnswersOver
    PROVE  FetchTalk'
<1>1. /\ UNCHANGED <<service, want, commons, pending, code, spc, lines, up, down, told, unread>> /\ (more' <=> more)
      /\ cpc = "answers" /\ cpc' = "pack" /\ unread = 0 /\ ~more /\ UNCHANGED up
  <2>1. UNCHANGED <<service, want, commons, pending, code, spc, lines, up, down, told, unread, more>>
    BY DEF fixed, sshServerVars, AnswersOver
  <2> QED
    BY <2>1 DEF AnswersOver
<1>2. WantsTalk /\ TalkDown /\ TalkUp /\ TalkCounts /\ TalkSingle
  BY DEF FetchTalk
<1>3. Talking
  BY <1>1, <1>2 DEF WantsTalk, Talking
<1>4. Unanswered \in Nat /\ Unheard \in Nat
  BY <1>2, <1>3, UnansweredType
<1>5. want.multi \/ commons = <<>> => code = <<0>> /\ commons = <<>> /\ Len(down) = 1 /\ ~Acked
  <2> SUFFICES ASSUME want.multi \/ commons = <<>>
               PROVE  code = <<0>> /\ commons = <<>> /\ Len(down) = 1 /\ ~Acked
    OBVIOUS
  <2>1. IF code = <<128>> THEN unread >= Unheard + 1 ELSE unread = Unheard + Unanswered + Owed
    BY <1>1, <1>2, <1>3 DEF TalkCounts
  <2>2. Owed \in {0, 1} /\ (Owed = 0 => code = <<0>> /\ commons = <<>>)
    BY DEF Owed
  <2>3. code # <<128>>
    BY <1>1, <1>4, <2>1
  <2>4. Unheard = 0 /\ Owed = 0
    BY <1>1, <1>4, <2>1, <2>2, <2>3
  <2>5. code = <<0>> /\ commons = <<>>
    BY <2>2, <2>4
  <2>6. down \in Seq(Message) /\ DOMAIN down = 1..Len(down) /\ Len(down) \in Nat /\ \A i \in DOMAIN down : down[i] \in Message
    BY DEF SshTypes
  <2>7. \A i \in DOMAIN down : down[i] # <<"NAK">>
    BY <2>4, <2>6, TimesOfAbsent DEF Unheard
  <2>8. \A i \in DOMAIN down : down[i][1] # "NAK"
    BY <2>6, <2>7, MessageParts
  <2>9. Range(commons) = {}
    BY <2>5, RangeOfFew
  <2>10. \A i \in DOMAIN down : down[i][1] = "pack" /\ i = Len(down)
    BY <1>2, <1>3, <2>8, <2>9 DEF TalkDown
  <2>11. down # <<>>
    BY <1>1, <1>2, <1>3, <2>5 DEF TalkDown
  <2>12. Len(down) # 0
    BY <2>6, <2>11, LenOfNone
  <2>13. 1 \in DOMAIN down
    BY <2>6, <2>12
  <2> QED
    BY <2>5, <2>10, <2>13 DEF Acked
<1>6. code # <<0>> => ~want.multi /\ commons # <<>>
  BY <1>5
<1>8. WantsTalk' /\ Talking'
  <2>1. spc # "wants"
    <3>1. spc = "wants" => commons = <<>>
      BY <1>2, <1>3 DEF WantsTalk, Talking
    <3>2. code = <<0>> => spc = "ended"
      <4>1. code # <<>> <=> spc = "ended"
        BY DEF SshTypes
      <4> QED
        BY <4>1
    <3> QED
      BY <1>5, <3>1, <3>2
  <2> QED
    BY <1>1, <1>2, <1>3, <2>1, WantsOver
<1>9. TalkDown'
  BY <1>1, <1>2, <1>3 DEF TalkDown
<1>10. TalkUp'
  BY <1>1, <1>2, <1>3, SentStays
<1>11. TalkCounts'
  BY <1>1, <1>5 DEF TalkCounts, Acked
<1>12. TalkSingle'
  <2> SUFFICES ASSUME ~want.multi, commons # <<>> PROVE TalkSingle'
    BY <1>1 DEF TalkSingle
  <2>1. told # {}
    <3> SUFFICES ASSUME told = {} PROVE FALSE
      OBVIOUS
    <3>1. PICK k \in DOMAIN down : k <= unread
      BY <1>2, <1>3 DEF TalkSingle
    <3>2. k \in Nat /\ k >= 1
      BY DEF SshTypes
    <3> QED
      BY <1>1, <3>1, <3>2
  <2> QED
    BY <1>1, <1>2, <1>3, <2>1 DEF TalkSingle
<1> QED
  BY <1>8, <1>9, <1>10, <1>11, <1>12 DEF FetchTalk

LEMMA ReadPackStays ==
    ASSUME FetchTalk, SshTypes, service = "fetch", cpc # "refs", UNCHANGED fixed, UNCHANGED sshServerVars, ReadPack
    PROVE  FetchTalk'
<1>1. /\ UNCHANGED <<service, want, commons, pending, code, spc, lines, up, told, unread>> /\ (more' <=> more)
      /\ cpc = "pack" /\ cpc' = "done" /\ down # <<>> /\ down' = Tail(down) /\ Head(down)[1] = "pack" /\ UNCHANGED up
  <2>1. UNCHANGED <<service, want, commons, pending, code, spc, lines, up, told, unread, more>>
    BY DEF fixed, sshServerVars, ReadPack
  <2> QED
    BY <2>1 DEF ReadPack, Sees
<1>2. WantsTalk /\ TalkDown /\ TalkUp /\ TalkCounts /\ TalkSingle
  BY DEF FetchTalk
<1>3. Talking
  BY <1>1, <1>2 DEF WantsTalk, Talking
<1>4. /\ DOMAIN down = 1..Len(down) /\ Head(down) = down[1] /\ (down' = <<>> <=> Len(down) = 1) /\ 1 \in DOMAIN down
  BY <1>1, DownRead
<1>5. code = <<0>> /\ Len(down) = 1 /\ told \subseteq Range(commons)
  BY <1>1, <1>2, <1>3, <1>4 DEF TalkDown
<1>6. down' = <<>> /\ spc = "ended"
  <2>1. code # <<>> <=> spc = "ended"
    BY DEF SshTypes
  <2> QED
    BY <1>4, <1>5, <2>1
<1>7. WantsTalk' /\ Talking'
  BY <1>1, <1>2, <1>3, <1>6, WantsOver
<1>8. TalkDown'
  BY <1>1, <1>5, <1>6 DEF TalkDown
<1>9. TalkUp'
  <2>1. more => want.multi
    BY <1>2, <1>3 DEF TalkUp
  <2> QED
    BY <1>1, <1>2, <1>3, <1>6, <2>1, SentStays
<1>10. TalkCounts'
  BY <1>1, <1>6 DEF TalkCounts, Acked
<1>11. TalkSingle'
  <2> SUFFICES ASSUME ~want.multi, commons # <<>> PROVE TalkSingle'
    BY <1>1 DEF TalkSingle
  <2>1. told # {}
    BY <1>1, <1>2, <1>3 DEF TalkSingle
  <2> QED
    BY <1>1, <1>6, <2>1 DEF TalkSingle
<1> QED
  BY <1>7, <1>8, <1>9, <1>10, <1>11 DEF FetchTalk

LEMMA FetchStays ==
    ASSUME SessionInv, SshNext, SshAssumption, ~hungUp', service = "fetch", cpc # "refs"
    PROVE  Stays'
<1>1. FetchTalk'
  <2>1. /\ FetchTalk /\ SshTypes /\ UNCHANGED fixed /\ ~hungUp
        /\ \/ /\ UNCHANGED sshClientVars
              /\ \/ (RefuseLine \/ ReadWant \/ EndWants \/ ReadHave \/ EndBatch \/ ReadDone) /\ up # <<>>
                 \/ SendPack
           \/ /\ UNCHANGED sshServerVars
              /\ ReadShallow \/ SendWindow \/ SendDone \/ ReadAck \/ ReadAnswer \/ AnswersOver \/ ReadPack
    BY FetchSteps
  <2>2. ReadAnswer => Head(down)[1] \in {"common", "ACK", "NAK"}
    BY <2>1, AnswerIs
  <2>3. UNCHANGED sshClientVars /\ (RefuseLine \/ ReadWant \/ EndWants \/ ReadHave \/ EndBatch \/ ReadDone \/ SendPack)
           => FetchTalk'
    BY <2>1, RefuseLineStays, ReadWantStays, EndWantsStays, ReadHaveStays, EndBatchStays, ReadDoneStays, SendPackStays
  <2>4. UNCHANGED sshServerVars /\ (ReadShallow \/ SendWindow \/ SendDone \/ ReadAck) => FetchTalk'
    BY <2>1, ReadShallowStays, SendWindowStays, SendDoneStays, ReadAckStays
  <2>5. UNCHANGED sshServerVars /\ (ReadAnswer \/ AnswersOver \/ ReadPack) => FetchTalk'
    BY <2>1, <2>2, ReadAnswerStays, AnswersOverStays, ReadPackStays
  <2> QED
    BY <2>1, <2>3, <2>4, <2>5
<1>2. service' = "fetch" /\ cpc' # "refs" /\ spc' # "advertise"
  BY BegunStays, FixedStays DEF fixed
<1> QED
  BY <1>1, <1>2 DEF Stays, Opening, PushTalk, V2Talk, FetchTalk

-------------------------------------------------------------------------------
\* Every step keeps the two sides where they say they are.
LEMMA SessionStays == ASSUME SessionInv, SshNext, SshAssumption PROVE SessionInv'
<1>1. SshTypes'
  BY StepTypes
<1>2. ASSUME ~hungUp' PROVE Stays'
  <2>1. ~hungUp /\ Stays /\ SshTypes
    BY <1>2, StillThere DEF SessionInv
  <2>2. service \in {"fetch", "v2", "push"}
    BY <2>1 DEF SshTypes
  <2>3. CASE cpc = "refs"
    <3>1. CASE ServerSide
      <4>1. spc = "advertise" \/ Greeted \/ Silent
        BY <2>1, <2>3 DEF Stays, Opening
      <4>2. CASE spc = "advertise"
        <5>1. Advertise
          BY <2>1, <3>1, <4>2, ServerAt
        <5> QED
          BY <2>1, <5>1, AdvertiseStays
      <4>3. CASE spc # "advertise"
        <5>1. up = <<>> /\ (spc \in {"wants", "command", "commands"} \/ code = <<128>>)
          BY <2>1, <2>2, <2>3, <4>3 DEF Stays, Opening, Silent, Greeted
        <5>2. spc \in {"wants", "command", "commands", "ended"}
          <6>1. code # <<>> <=> spc = "ended"
            BY <2>1 DEF SshTypes
          <6> QED
            BY <5>1, <6>1
        <5>3. FALSE
          BY <2>1, <3>1, <5>1, <5>2, ServerAt DEF RefuseLine, ReadWant, EndWants, ReadCommandLine,
             ReadPushCommand, Reads
        <5> QED
          BY <5>3
      <4> QED
        BY <4>2, <4>3
    <3>2. CASE ClientSide \/ HangUp
      <4>1. ReadRefs
        BY <1>2, <2>3, <3>2, ClientAt
      <4> QED
        BY <2>1, <4>1, ReadRefsStays
    <3> QED
      BY <3>1, <3>2 DEF SshNext
  <2>4. CASE cpc # "refs"
    BY <1>2, <2>2, <2>4, PushStays, V2Stays, FetchStays
  <2> QED
    BY <2>3, <2>4
<1> QED
  BY <1>1, <1>2 DEF SessionInv

LEMMA SessionIdles == ASSUME SessionInv, UNCHANGED sshVars PROVE SessionInv'
<1>1. /\ UNCHANGED <<service, want, present, up, down, spc, lines, pending, commons, code, cpc, sent, unread, told, applied>>
      /\ (more' <=> more) /\ (hungUp' <=> hungUp) /\ (hungUp \in BOOLEAN => hungUp' \in BOOLEAN)
      /\ (more \in BOOLEAN => more' \in BOOLEAN)
  <2>1. UNCHANGED <<service, want, present, up, down, hungUp, spc, lines, pending, commons, code,
                    cpc, sent, unread, more, told, applied>>
    BY DEF sshVars, fixed, sshServerVars, sshClientVars
  <2> QED
    BY <2>1
<1>2. SshTypes'
  BY <1>1 DEF SessionInv, SshTypes
<1>3. ASSUME ~hungUp' PROVE Stays'
  <2>1. Opening /\ PushTalk /\ V2Talk /\ WantsTalk /\ TalkDown /\ TalkUp /\ TalkCounts /\ TalkSingle
    BY <1>1, <1>3 DEF SessionInv, Stays
  <2>2. Opening'
    BY <1>1, <2>1 DEF Opening, Silent, Greeted
  <2>3. PushTalk'
    <3>1. Ending' = Ending /\ (Awaited' <=> Awaited)
      BY <1>1 DEF Ending, Awaited
    <3> QED
      BY <1>1, <2>1, <3>1 DEF PushTalk
  <2>4. V2Talk'
    <3>1. IsFetch(lines \o up)' <=> IsFetch(lines \o up)
      BY <1>1 DEF IsFetch
    <3>2. IsAnswer(down)' <=> IsAnswer(down)
      BY <1>1 DEF IsAnswer, DepthPart
    <3> QED
      BY <1>1, <2>1, <3>1, <3>2 DEF V2Talk
  <2>5. WantsTalk'
    <3>1. Request' = Request
      BY <1>1 DEF Request
    <3> QED
      BY <1>1, <2>1, <3>1 DEF WantsTalk
  <2>6. (Talking' <=> Talking) /\ Unheard' = Unheard /\ Unanswered' = Unanswered /\ Owed' = Owed /\ (Acked' <=> Acked)
    BY <1>1 DEF Talking, Unheard, Unanswered, Times, Flush, Owed, Acked
  <2>7. TalkDown'
    BY <1>1, <2>1, <2>6 DEF TalkDown
  <2>8. TalkUp'
    BY <1>1, <2>1, <2>6 DEF TalkUp
  <2>9. TalkCounts'
    BY <1>1, <2>1, <2>6 DEF TalkCounts
  <2>10. TalkSingle'
    BY <1>1, <2>1, <2>6 DEF TalkSingle
  <2> QED
    BY <2>2, <2>3, <2>4, <2>5, <2>7, <2>8, <2>9, <2>10 DEF Stays
<1> QED
  BY <1>2, <1>3 DEF SessionInv

\* As long as the client is there, what it reads next is an answer it waits for; when it
\* is done nothing is left unread, and what it was told is what took effect or what the
\* server found in common; and a session that ends well leaves nobody waiting
\* (handleSshSession in ssh-session.ts, handleV2Fetch at operations.ts:1118), for any
\* number of haves, commands and refs and any limit of a request.
THEOREM SessionsInStep == ASSUME SshAssumption PROVE SshSpec => []InStep
<1>1. SshInit => SessionInv
  BY SshStarts
<1>2. SessionInv /\ [SshNext]_sshVars => SessionInv'
  BY SessionStays, SessionIdles
<1>3. SessionInv => InStep
  BY InStepFollows
<1> QED
  BY <1>1, <1>2, <1>3, PTL DEF SshSpec
===============================================================================
