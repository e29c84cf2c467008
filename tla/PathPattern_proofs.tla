------------------------- MODULE PathPattern_proofs -------------------------
(***************************************************************************)
(* The matcher means what the wildcards mean, overlap does not ask who     *)
(* came first, and on the common shapes it is exact: for patterns of any   *)
(* length over any names and wildcards, and files of any depth.            *)
(*                                                                         *)
(* The argument has two halves.  A cutting of the rest of the pattern over *)
(* the rest of the path satisfies the equation of match, and nothing else  *)
(* does, which a last place where the two differ would show.  From then on *)
(* matching is a matter of cuttings: for dir/** the one that gives the     *)
(* last segment all that is left, for names and "*" the only one there is. *)
(***************************************************************************)
EXTENDS PathPattern, SequenceTheorems, FiniteSetTheorems, WellFoundedInduction, TLAPS

-----------------------------------------------------------------------------
(* Numbers.                                                                *)

\* A set of numbers that is not empty has a least one.
LEMMA Least ==
    ASSUME NEW S, S \subseteq Nat, S # {}
    PROVE  \E m \in S : \A n \in S : m <= n
<1> DEFINE Upto(i) == 1..i
           Prefixes == {Upto(i) : i \in S}
<1>1. Prefixes \subseteq FiniteSubsetsOf(Nat) /\ Prefixes # {}
  <2>1. \A i \in Nat : IsFiniteSet(1..i) /\ 1..i \subseteq Nat
    BY FS_Interval
  <2> QED
    BY <2>1 DEF FiniteSubsetsOf
<1>2. PICK p \in Prefixes : \A q \in Prefixes : ~(<<q, p>> \in StrictSubsetOrdering(Nat))
  <2> HIDE DEF Prefixes
  <2> QED
    BY <1>1, FS_StrictSubsetOrderingWellFounded, WFMin
<1>3. PICK m \in S : p = Upto(m)
  OBVIOUS
<1>4. \A n \in S : m <= n
  <2> SUFFICES ASSUME NEW n \in S, n < m
               PROVE  FALSE
    OBVIOUS
  <2>1. 1..n \subseteq 1..m /\ 1..n # 1..m /\ 1..m \subseteq Nat
    OBVIOUS
  <2>2. <<Upto(n), p>> \in StrictSubsetOrdering(Nat)
    BY <1>3, <2>1 DEF StrictSubsetOrdering
  <2> QED
    BY <1>2, <2>2
<1> QED
  BY <1>4

-----------------------------------------------------------------------------
(* The matcher and the cuttings.                                           *)

\* One segment between two cuts.
Piece(pattern, concrete, i, from, to) ==
    IF pattern[i] = DoubleStar THEN from <= to
    ELSE to = from + 1 /\ Fits(pattern[i], concrete[to])

\* What the pattern has after its first i segments cuts what the path has after j.
Cuts(pattern, concrete, i, j) ==
    \E cut \in [i..Len(pattern) -> 0..Len(concrete)] :
       /\ cut[i] = j /\ cut[Len(pattern)] = Len(concrete)
       /\ \A k \in (i + 1)..Len(pattern) : Piece(pattern, concrete, k, cut[k - 1], cut[k])

\* The right-hand side of match, with g for match.
Column(pattern, concrete, g, i) ==
    IF i = Len(pattern) THEN {Len(concrete)}
    ELSE IF pattern[i + 1] = DoubleStar THEN {j \in 0..Len(concrete) : \E k \in g[i + 1] : j <= k}
    ELSE {j \in 0..(Len(concrete) - 1) : Fits(pattern[i + 1], concrete[j + 1]) /\ j + 1 \in g[i + 1]}

Table(pattern, concrete, g) == [i \in 0..Len(pattern) |-> Column(pattern, concrete, g, i)]

\* matchGlob reads the first column of a table that satisfies its equation, if there is one.
LEMMA MatchIsATable ==
    ASSUME NEW pattern, NEW concrete, NEW g, g = Table(pattern, concrete, g)
    PROVE  \E h : h = Table(pattern, concrete, h) /\ (matchGlob(pattern, concrete) <=> 0 \in h[0])
<1> DEFINE match == CHOOSE h : h = Table(pattern, concrete, h)
<1>1. match = Table(pattern, concrete, match)
  <2> HIDE DEF Table
  <2> QED OBVIOUS
<1>2. matchGlob(pattern, concrete) <=> 0 \in match[0]
  BY DEF matchGlob, Table, Column
<1> QED
  BY <1>1, <1>2

\* At the end of the pattern there is nothing left to cut.
LEMMA CutsAtEnd ==
    ASSUME NEW pattern \in Seq(Segment), NEW concrete \in Seq(Name), NEW j \in 0..Len(concrete)
    PROVE  Cuts(pattern, concrete, Len(pattern), j) <=> j = Len(concrete)
<1> DEFINE n == Len(pattern)
           m == Len(concrete)
<1>1. n \in Nat /\ m \in Nat
  BY LenProperties
<1>2. ASSUME Cuts(pattern, concrete, n, j)
      PROVE  j = m
  BY <1>2 DEF Cuts
<1>3. ASSUME j = m
      PROVE  Cuts(pattern, concrete, n, j)
  <2> DEFINE cut == [x \in n..n |-> m]
  <2>1. (n + 1)..n = {} /\ n \in n..n /\ m \in 0..m
    BY <1>1
  <2>2. cut \in [n..n -> 0..m] /\ cut[n] = m
    BY <2>1
  <2> HIDE DEF cut
  <2> QED
    BY <1>3, <2>1, <2>2 DEF Cuts
<1> QED
  BY <1>2, <1>3

\* Before it, the next segment has its piece and the others cut the rest.
LEMMA CutsHere ==
    ASSUME NEW pattern \in Seq(Segment), NEW concrete \in Seq(Name),
           NEW i \in 0..(Len(pattern) - 1), NEW j \in 0..Len(concrete)
    PROVE  Cuts(pattern, concrete, i, j) <=>
              \E k \in j..Len(concrete) :
                 Piece(pattern, concrete, i + 1, j, k) /\ Cuts(pattern, concrete, i + 1, k)
<1> DEFINE n == Len(pattern)
           m == Len(concrete)
           Good(c, k) == Piece(pattern, concrete, k, c[k - 1], c[k])
<1>1. n \in Nat /\ m \in Nat /\ i \in Nat /\ j \in Nat /\ i + 1 <= n /\ i + 1 - 1 = i
  BY LenProperties
<1>2. ASSUME Cuts(pattern, concrete, i, j)
      PROVE  \E k \in j..m : Piece(pattern, concrete, i + 1, j, k) /\ Cuts(pattern, concrete, i + 1, k)
  <2>1. PICK cut \in [i..n -> 0..m] :
           /\ cut[i] = j /\ cut[n] = m
           /\ \A k \in (i + 1)..n : Good(cut, k)
    BY <1>2 DEF Cuts
  <2> DEFINE rest == [x \in (i + 1)..n |-> cut[x]]
             k == cut[i + 1]
  <2>2. i + 1 \in (i + 1)..n /\ i + 1 \in i..n /\ k \in 0..m
    BY <1>1, <2>1
  <2>3. Piece(pattern, concrete, i + 1, j, k)
    BY <1>1, <2>1, <2>2
  <2>4. k \in j..m
    BY <1>1, <2>2, <2>3 DEF Piece
  <2>5. rest \in [(i + 1)..n -> 0..m] /\ rest[i + 1] = k /\ rest[n] = m
    BY <1>1, <2>1
  <2>6. ASSUME NEW x \in (i + 1 + 1)..n
        PROVE  Good(rest, x)
    <3>1. x \in (i + 1)..n /\ x - 1 \in (i + 1)..n
      BY <1>1
    <3>2. rest[x] = cut[x] /\ rest[x - 1] = cut[x - 1] /\ Good(cut, x)
      BY <2>1, <3>1
    <3> HIDE DEF rest
    <3> QED
      BY <3>2
  <2>7. Cuts(pattern, concrete, i + 1, k)
    <3> HIDE DEF rest, k
    <3> QED
      BY <2>5, <2>6 DEF Cuts
  <2> QED
    BY <2>3, <2>4, <2>7
<1>3. ASSUME NEW k \in j..m, Piece(pattern, concrete, i + 1, j, k), Cuts(pattern, concrete, i + 1, k)
      PROVE  Cuts(pattern, concrete, i, j)
  <2>1. PICK cut \in [(i + 1)..n -> 0..m] :
           /\ cut[i + 1] = k /\ cut[n] = m
           /\ \A x \in (i + 1 + 1)..n : Good(cut, x)
    BY <1>3 DEF Cuts
  <2> DEFINE whole == [x \in i..n |-> IF x = i THEN j ELSE cut[x]]
  <2>2. /\ whole \in [i..n -> 0..m]
        /\ whole[i] = j
        /\ \A x \in (i + 1)..n : whole[x] = cut[x]
    BY <1>1, <2>1
  <2>3. whole[n] = m /\ whole[i + 1] = k
    BY <1>1, <2>1, <2>2
  <2> HIDE DEF whole
  <2>4. ASSUME NEW x \in (i + 1)..n
        PROVE  Good(whole, x)
    <3>1. CASE x = i + 1
      BY <1>1, <1>3, <2>2, <2>3, <3>1
    <3>2. CASE x # i + 1
      <4>1. x \in (i + 1 + 1)..n /\ x - 1 \in (i + 1)..n
        BY <1>1, <3>2
      <4>2. whole[x] = cut[x] /\ whole[x - 1] = cut[x - 1] /\ Good(cut, x)
        BY <2>1, <2>2, <4>1
      <4> QED
        BY <4>2
    <3> QED
      BY <3>1, <3>2
  <2> QED
    BY <2>2, <2>3, <2>4 DEF Cuts
<1> QED
  BY <1>2, <1>3

CutsFrom(pattern, concrete, i) == {j \in 0..Len(concrete) : Cuts(pattern, concrete, i, j)}

\* The equation of match gives a column of cuttings where the next is one.
LEMMA ColumnIsCuts ==
    ASSUME NEW pattern \in Seq(Segment), NEW concrete \in Seq(Name), NEW g, NEW i \in 0..Len(pattern),
           i < Len(pattern) => g[i + 1] = CutsFrom(pattern, concrete, i + 1)
    PROVE  Column(pattern, concrete, g, i) = CutsFrom(pattern, concrete, i)
<1> DEFINE n == Len(pattern)
           m == Len(concrete)
<1>1. n \in Nat /\ m \in Nat /\ i \in Nat /\ i <= n
  BY LenProperties
<1>2. CASE i = n
  <2>1. \A j \in 0..m : Cuts(pattern, concrete, i, j) <=> j = m
    BY <1>2, CutsAtEnd
  <2>2. Column(pattern, concrete, g, i) = {m} /\ m \in 0..m
    BY <1>1, <1>2 DEF Column
  <2> QED
    BY <2>1, <2>2 DEF CutsFrom
<1>3. CASE i < n
  <2>1. i # n /\ i \in 0..(n - 1) /\ g[i + 1] = CutsFrom(pattern, concrete, i + 1)
    BY <1>1, <1>3
  <2>2. \A j \in 0..m : Cuts(pattern, concrete, i, j) <=>
           \E k \in j..m : Piece(pattern, concrete, i + 1, j, k) /\ Cuts(pattern, concrete, i + 1, k)
    BY <2>1, CutsHere
  <2>3. CASE pattern[i + 1] = DoubleStar
    <3>1. Column(pattern, concrete, g, i) = {j \in 0..m : \E k \in CutsFrom(pattern, concrete, i + 1) : j <= k}
      BY <2>1, <2>3 DEF Column
    <3>2. \A j, k \in 0..m : Piece(pattern, concrete, i + 1, j, k) <=> j <= k
      BY <2>3 DEF Piece
    <3>3. \A j, k \in 0..m : j <= k <=> k \in j..m
      BY <1>1
    <3>4. \A j \in 0..m : Cuts(pattern, concrete, i, j) <=>
             \E k \in CutsFrom(pattern, concrete, i + 1) : j <= k
      <4> TAKE j \in 0..m
      <4>1. \A k \in j..m : k \in 0..m
        BY <1>1
      <4> QED
        BY <2>2, <3>2, <3>3, <4>1 DEF CutsFrom
    <3> QED
      BY <3>1, <3>4 DEF CutsFrom
  <2>4. CASE pattern[i + 1] # DoubleStar
    <3>1. Column(pattern, concrete, g, i) =
             {j \in 0..(m - 1) : Fits(pattern[i + 1], concrete[j + 1])
                                   /\ j + 1 \in CutsFrom(pattern, concrete, i + 1)}
      BY <2>1, <2>4 DEF Column
    <3>2. \A j, k \in 0..m : Piece(pattern, concrete, i + 1, j, k) <=>
                                k = j + 1 /\ Fits(pattern[i + 1], concrete[k])
      BY <2>4 DEF Piece
    <3>3. ASSUME NEW j \in 0..m
          PROVE  j \in 0..(m - 1) <=> j + 1 \in j..m
      BY <1>1
    <3>4. ASSUME NEW j \in 0..m
          PROVE  Cuts(pattern, concrete, i, j) <=>
                    /\ j \in 0..(m - 1) /\ Fits(pattern[i + 1], concrete[j + 1])
                    /\ j + 1 \in CutsFrom(pattern, concrete, i + 1)
      <4>1. \A k \in j..m : k \in 0..m
        BY <1>1
      <4>2. j + 1 \in CutsFrom(pattern, concrete, i + 1) <=>
               j + 1 \in 0..m /\ Cuts(pattern, concrete, i + 1, j + 1)
        BY DEF CutsFrom
      <4> QED
        BY <2>2, <3>2, <3>3, <4>1, <4>2
    <3>5. \A j \in 0..(m - 1) : j \in 0..m
      BY <1>1
    <3> QED
      BY <3>1, <3>4, <3>5 DEF CutsFrom
  <2> QED
    BY <2>3, <2>4
<1> QED
  BY <1>1, <1>2, <1>3

\* There is such a table: that of the cuttings.
LEMMA CutsAreATable ==
    ASSUME NEW pattern \in Seq(Segment), NEW concrete \in Seq(Name)
    PROVE  \E g : g = Table(pattern, concrete, g)
<1> DEFINE g == [i \in 0..Len(pattern) |-> CutsFrom(pattern, concrete, i)]
<1>1. ASSUME NEW i \in 0..Len(pattern)
      PROVE  g[i] = Column(pattern, concrete, g, i)
  <2>1. i < Len(pattern) => i + 1 \in 0..Len(pattern)
    BY LenProperties
  <2>2. i < Len(pattern) => g[i + 1] = CutsFrom(pattern, concrete, i + 1)
    BY <2>1
  <2>3. g[i] = CutsFrom(pattern, concrete, i)
    OBVIOUS
  <2> HIDE DEF g
  <2> QED
    BY <2>2, <2>3, ColumnIsCuts
<1>2. g = [i \in 0..Len(pattern) |-> g[i]]
  OBVIOUS
<1> HIDE DEF g
<1>3. g = [i \in 0..Len(pattern) |-> Column(pattern, concrete, g, i)]
  BY <1>1, <1>2
<1> QED
  BY <1>3 DEF Table

\* And no other: the last column where one differed would contradict the equation.
LEMMA TableIsCuts ==
    ASSUME NEW pattern \in Seq(Segment), NEW concrete \in Seq(Name), NEW g, g = Table(pattern, concrete, g),
           NEW i \in 0..Len(pattern)
    PROVE  g[i] = CutsFrom(pattern, concrete, i)
<1> DEFINE n == Len(pattern)
           Right(x) == g[x] = CutsFrom(pattern, concrete, x)
           Wrong == {d \in 0..n : ~Right(n - d)}
<1>1. n \in Nat
  BY LenProperties
<1>2. SUFFICES ASSUME Wrong # {}
               PROVE  FALSE
  <2>1. n - i \in 0..n /\ n - (n - i) = i
    BY <1>1
  <2> HIDE DEF n
  <2> QED
    BY <1>2, <2>1
<1>3. PICK d \in Wrong : \A e \in Wrong : d <= e
  <2>1. Wrong \subseteq Nat
    BY <1>1
  <2> HIDE DEF Wrong
  <2> QED
    BY <1>2, <2>1, Least
<1> DEFINE x == n - d
<1>4. d \in 0..n /\ ~Right(x) /\ x \in 0..n
  BY <1>1
<1>5. x < n => Right(x + 1)
  <2> SUFFICES ASSUME x < n, ~Right(x + 1)
               PROVE  FALSE
    OBVIOUS
  <2>1. d - 1 \in 0..n /\ n - (d - 1) = x + 1 /\ ~(d <= d - 1)
    BY <1>1, <1>4
  <2> HIDE DEF x, Right
  <2>2. d - 1 \in Wrong
    BY <2>1
  <2> QED
    BY <1>3, <2>1, <2>2
<1> HIDE DEF x
<1>6. g[x] = Column(pattern, concrete, g, x)
  <2>1. Table(pattern, concrete, g)[x] = Column(pattern, concrete, g, x)
    BY <1>4 DEF Table
  <2> QED
    BY <2>1
<1>7. Right(x)
  BY <1>4, <1>5, <1>6, ColumnIsCuts
<1> QED
  BY <1>4, <1>7

\* What the recursive matcher answers.
LEMMA MatchIsCuts ==
    ASSUME NEW pattern \in Seq(Segment), NEW concrete \in Seq(Name)
    PROVE  matchGlob(pattern, concrete) <=> Cuts(pattern, concrete, 0, 0)
<1>1. PICK g : g = Table(pattern, concrete, g)
  BY CutsAreATable
<1>2. PICK h : h = Table(pattern, concrete, h) /\ (matchGlob(pattern, concrete) <=> 0 \in h[0])
  BY ONLY <1>1, MatchIsATable
<1>3. 0 \in 0..Len(pattern) /\ 0 \in 0..Len(concrete)
  BY LenProperties
<1>4. h[0] = CutsFrom(pattern, concrete, 0)
  BY <1>2, <1>3, TableIsCuts
<1> QED
  BY <1>2, <1>3, <1>4 DEF CutsFrom

-----------------------------------------------------------------------------
(* Patterns and files.                                                     *)

\* The patterns the model builds: of one segment, and up to MaxDepth.
Patterns == {p \in Seq(Segment) : Len(p) \in 1..MaxDepth}

PatternsInv == a \in Patterns /\ b \in Patterns

\* Both patterns are that, at any time.
LEMMA PatternsStay == Spec => []PatternsInv
<1>1. MaxDepth \in Nat /\ 1 \in 1..MaxDepth
  BY PatternAssumption
<1>2. Init => PatternsInv
  <2>1. \A s \in Segment : <<s>> \in Seq(Segment) /\ Len(<<s>>) = 1
    OBVIOUS
  <2> QED
    BY <1>1, <2>1 DEF Init, PatternsInv, Patterns
<1>3. PatternsInv /\ [Deepen]_<<a, b>> => PatternsInv'
  <2> SUFFICES ASSUME PatternsInv, [Deepen]_<<a, b>>
               PROVE  PatternsInv'
    OBVIOUS
  <2>1. ASSUME NEW p \in Patterns, NEW s \in Segment, Len(p) < MaxDepth
        PROVE  Append(p, s) \in Patterns
    <3>1. Append(p, s) \in Seq(Segment) /\ Len(Append(p, s)) = Len(p) + 1
      BY AppendProperties DEF Patterns
    <3> QED
      BY <1>1, <2>1, <3>1 DEF Patterns
  <2> QED
    BY <2>1 DEF PatternsInv, Deepen
<1> QED
  BY <1>2, <1>3, PTL DEF Spec

\* Files are the sequences of up to MaxFileDepth names.
LEMMA FilesAreSequences ==
    ASSUME NEW f
    PROVE  f \in File <=> f \in Seq(Name) /\ Len(f) \in 1..MaxFileDepth
<1>1. ASSUME f \in File
      PROVE  f \in Seq(Name) /\ Len(f) \in 1..MaxFileDepth
  <2>1. PICK n \in 1..MaxFileDepth : f \in [1..n -> Name]
    BY <1>1 DEF File
  <2>2. n \in Nat
    BY PatternAssumption
  <2>3. f \in Seq(Name) /\ Len(f) = n
    BY <2>1, <2>2
  <2> QED
    BY <2>3
<1>2. ASSUME f \in Seq(Name), Len(f) \in 1..MaxFileDepth
      PROVE  f \in File
  BY <1>2, LenProperties DEF File
<1> QED
  BY <1>1, <1>2

\* A path of names is a pattern too.
LEMMA NamesAreSegments ==
    ASSUME NEW f \in Seq(Name)
    PROVE  f \in Seq(Segment)
BY SeqMonotonic DEF Segment

\* Only a name itself fits a name.
LEMMA NameFitsItself ==
    ASSUME NEW s \in Name, NEW name \in Name
    PROVE  Fits(s, name) <=> s = name
BY PatternAssumption DEF Fits

-----------------------------------------------------------------------------
(***************************************************************************)
(* What matchGlob says of a file is that it can be cut: one piece for each *)
(* segment, any piece for "**" and one fitting name for the others.        *)
(* (matchGlob.)                                                            *)
(***************************************************************************)
THEOREM MatcherMeansCutting == Spec => []GlobIsCutting
<1>1. PatternsInv => GlobIsCutting
  <2> SUFFICES ASSUME PatternsInv, NEW f \in File
               PROVE  matchGlob(a, f) <=>
                         \E cut \in [0..Len(a) -> 0..Len(f)] :
                            /\ cut[0] = 0 /\ cut[Len(a)] = Len(f)
                            /\ \A i \in DOMAIN a :
                                  IF a[i] = DoubleStar THEN cut[i - 1] <= cut[i]
                                  ELSE cut[i] = cut[i - 1] + 1 /\ Fits(a[i], f[cut[i]])
    BY DEF GlobIsCutting
  <2>1. a \in Seq(Segment) /\ f \in Seq(Name) /\ DOMAIN a = 1..Len(a) /\ 0 + 1 = 1
    BY FilesAreSequences, LenProperties DEF PatternsInv, Patterns
  <2>2. matchGlob(a, f) <=> Cuts(a, f, 0, 0)
    BY <2>1, MatchIsCuts
  <2>3. Cuts(a, f, 0, 0) <=>
           \E cut \in [0..Len(a) -> 0..Len(f)] :
              /\ cut[0] = 0 /\ cut[Len(a)] = Len(f)
              /\ \A i \in DOMAIN a : Piece(a, f, i, cut[i - 1], cut[i])
    BY <2>1 DEF Cuts
  <2> QED
    BY <2>2, <2>3 DEF Piece
<1> QED
  BY <1>1, PatternsStay, PTL

-----------------------------------------------------------------------------
(* The common shapes.                                                      *)

\* Where every segment takes one name the cuts follow the segments.
LEMMA StraightCuts ==
    ASSUME NEW k \in Nat, NEW cut, cut[0] = 0, \A i \in 1..k : cut[i] = cut[i - 1] + 1
    PROVE  \A i \in 0..k : cut[i] = i
<1> DEFINE Off == {i \in 0..k : cut[i] # i}
<1>1. SUFFICES ASSUME Off # {}
               PROVE  FALSE
  OBVIOUS
<1>2. PICK i \in Off : \A j \in Off : i <= j
  <2>1. Off \subseteq Nat
    OBVIOUS
  <2> HIDE DEF Off
  <2> QED
    BY <1>1, <2>1, Least
<1>3. i \in 1..k /\ i - 1 \in 0..k /\ ~(i <= i - 1)
  OBVIOUS
<1>4. cut[i - 1] = i - 1
  BY <1>2, <1>3
<1> QED
  BY <1>3, <1>4

\* The first k segments of the pattern are those of the path.
Begins(p, k, f) == k <= Len(f) /\ \A i \in 1..k : p[i] = f[i]

\* dir/** matches what lies in dir.
LEMMA SubtreeMatches ==
    ASSUME NEW p \in Patterns, Subtree(p), NEW f \in Seq(Name)
    PROVE  matchGlob(p, f) <=> Begins(p, Len(p) - 1, f)
<1> DEFINE n == Len(p)
           m == Len(f)
<1>1. /\ p \in Seq(Segment) /\ n \in Nat /\ n >= 1 /\ m \in Nat /\ n - 1 \in 0..n
      /\ \A i \in 1..m : f[i] \in Name
  BY LenProperties, ElementOfSeq, PatternAssumption DEF Patterns
<1>2. matchGlob(p, f) <=> Cuts(p, f, 0, 0)
  BY <1>1, MatchIsCuts
<1>3. p[n] = DoubleStar /\ \A i \in 1..(n - 1) : p[i] \in Name /\ p[i] # DoubleStar
  BY PatternAssumption DEF Subtree, Wildcard
<1>4. ASSUME Cuts(p, f, 0, 0)
      PROVE  Begins(p, n - 1, f)
  <2>1. PICK cut \in [0..n -> 0..m] :
           /\ cut[0] = 0 /\ cut[n] = m
           /\ \A k \in 1..n : Piece(p, f, k, cut[k - 1], cut[k])
    BY <1>4 DEF Cuts
  <2>2. \A k \in 1..(n - 1) : cut[k] = cut[k - 1] + 1 /\ Fits(p[k], f[cut[k]])
    <3> TAKE k \in 1..(n - 1)
    <3>1. k \in 1..n
      BY <1>1
    <3>2. p[k] # DoubleStar /\ Piece(p, f, k, cut[k - 1], cut[k])
      BY <1>3, <2>1, <3>1
    <3> QED
      BY ONLY <3>2 DEF Piece
  <2>3. \A k \in 0..(n - 1) : cut[k] = k
    <3>1. \A k \in 1..(n - 1) : cut[k] = cut[k - 1] + 1
      BY <2>2
    <3>2. cut[0] = 0 /\ n - 1 \in Nat
      BY <1>1, <2>1
    <3> QED
      BY ONLY <3>1, <3>2, StraightCuts
  <2>4. cut[n - 1] \in 0..m /\ cut[n - 1] = n - 1
    <3>1. n - 1 \in 0..(n - 1)
      BY <1>1
    <3> HIDE DEF n, m
    <3> QED
      BY <1>1, <2>1, <2>3, <3>1
  <2>5. ASSUME NEW i \in 1..(n - 1)
        PROVE  p[i] = f[i]
    <3>1. i \in 0..(n - 1) /\ i \in 1..m
      BY <1>1, <2>4
    <3>2. Fits(p[i], f[i])
      BY <2>2, <2>3, <3>1
    <3> QED
      BY <1>1, <1>3, <3>1, <3>2, NameFitsItself
  <2> QED
    BY <1>1, <2>4, <2>5 DEF Begins
<1>5. ASSUME Begins(p, n - 1, f)
      PROVE  Cuts(p, f, 0, 0)
  <2> DEFINE cut == [i \in 0..n |-> IF i = n THEN m ELSE i]
  <2>1. n - 1 <= m /\ \A i \in 1..(n - 1) : p[i] = f[i]
    BY <1>5 DEF Begins
  <2>2. /\ cut \in [0..n -> 0..m] /\ cut[0] = 0 /\ cut[n] = m
        /\ \A i \in 0..(n - 1) : cut[i] = i
    BY <1>1, <2>1
  <2> HIDE DEF cut
  <2>3. ASSUME NEW k \in 1..n
        PROVE  Piece(p, f, k, cut[k - 1], cut[k])
    <3>1. CASE k = n
      BY <1>1, <1>3, <2>1, <2>2, <3>1 DEF Piece
    <3>2. CASE k # n
      <4>1. k \in 1..(n - 1) /\ k \in 0..(n - 1) /\ k - 1 \in 0..(n - 1) /\ k \in 1..m
        BY <1>1, <2>1, <3>2
      <4>2. Fits(p[k], f[k])
        BY <1>1, <1>3, <2>1, <4>1, NameFitsItself
      <4>3. cut[k] = k /\ cut[k - 1] = k - 1 /\ k = k - 1 + 1 /\ p[k] # DoubleStar
        BY <1>3, <2>2, <4>1
      <4> QED
        BY <4>2, <4>3 DEF Piece
    <3> QED
      BY <3>1, <3>2
  <2>4. \A k \in (0 + 1)..n : Piece(p, f, k, cut[k - 1], cut[k])
    BY <2>3
  <2> QED
    BY ONLY <2>2, <2>4 DEF Cuts
<1> QED
  BY <1>2, <1>4, <1>5

\* Names and "*" match as many names, each where it stands.
LEMMA StarsMatch ==
    ASSUME NEW p \in Patterns, \A i \in DOMAIN p : p[i] \in Name \cup {Star}, NEW f \in Seq(Name)
    PROVE  matchGlob(p, f) <=> Len(p) = Len(f) /\ \A i \in 1..Len(p) : Fits(p[i], f[i])
<1> DEFINE n == Len(p)
           m == Len(f)
<1>1. p \in Seq(Segment) /\ n \in Nat /\ m \in Nat /\ DOMAIN p = 1..n /\ n \in 0..n
  BY LenProperties DEF Patterns
<1>2. matchGlob(p, f) <=> Cuts(p, f, 0, 0)
  BY <1>1, MatchIsCuts
<1>3. \A i \in 1..n : p[i] # DoubleStar
  BY <1>1, PatternAssumption DEF Wildcard
<1>4. ASSUME Cuts(p, f, 0, 0)
      PROVE  n = m /\ \A i \in 1..n : Fits(p[i], f[i])
  <2>1. PICK cut \in [0..n -> 0..m] :
           /\ cut[0] = 0 /\ cut[n] = m
           /\ \A k \in 1..n : Piece(p, f, k, cut[k - 1], cut[k])
    BY <1>4 DEF Cuts
  <2>2. \A k \in 1..n : cut[k] = cut[k - 1] + 1 /\ Fits(p[k], f[cut[k]])
    BY <1>3, <2>1 DEF Piece
  <2>3. \A k \in 0..n : cut[k] = k
    <3>1. \A k \in 1..n : cut[k] = cut[k - 1] + 1
      BY <2>2
    <3>2. cut[0] = 0 /\ n \in Nat
      BY <1>1, <2>1
    <3> QED
      BY ONLY <3>1, <3>2, StraightCuts
  <2>4. \A k \in 1..n : k \in 0..n
    BY <1>1
  <2> QED
    BY <1>1, <2>1, <2>2, <2>3, <2>4
<1>5. ASSUME n = m, \A i \in 1..n : Fits(p[i], f[i])
      PROVE  Cuts(p, f, 0, 0)
  <2> DEFINE cut == [i \in 0..n |-> i]
  <2>1. /\ cut \in [0..n -> 0..m] /\ cut[0] = 0 /\ cut[n] = m
        /\ \A i \in 0..n : cut[i] = i
    BY <1>1, <1>5
  <2> HIDE DEF cut
  <2>2. ASSUME NEW k \in 1..n
        PROVE  Piece(p, f, k, cut[k - 1], cut[k])
    <3>1. cut[k] = k /\ cut[k - 1] = k - 1 /\ k = k - 1 + 1
      BY <1>1, <2>1
    <3> QED
      BY <1>3, <1>5, <3>1 DEF Piece
  <2> QED
    BY <2>1, <2>2 DEF Cuts
<1> QED
  BY <1>2, <1>4, <1>5

\* The pattern has names as far as k, and no further.
LiteralUpTo(p, k) ==
    /\ k \in 0..Len(p)
    /\ \A i \in 1..k : p[i] \in Name
    /\ k < Len(p) => p[k + 1] \in Wildcard

\* Its literal prefix is what comes before.
LEMMA PrefixIs ==
    ASSUME NEW p \in Seq(Segment), NEW k, LiteralUpTo(p, k)
    PROVE  /\ Len(literalPrefix(p)) = k
           /\ DOMAIN literalPrefix(p) = 1..k
           /\ \A i \in 1..k : literalPrefix(p)[i] = p[i]
<1> DEFINE Upto(n) == /\ \A i \in 1..n : p[i] \in Name
                      /\ n < Len(p) => p[n + 1] \in Wildcard
           c == CHOOSE n \in 0..Len(p) : Upto(n)
<1>1. Len(p) \in Nat /\ k \in 0..Len(p) /\ k \in Nat /\ Upto(k) /\ \A i \in 1..Len(p) : p[i] \in Segment
  BY LenProperties, ElementOfSeq DEF LiteralUpTo
<1>2. c \in 0..Len(p) /\ Upto(c)
  <2> HIDE DEF Upto
  <2> QED
    BY <1>1
<1>3. literalPrefix(p) = SubSeq(p, 1, c)
  BY DEF literalPrefix
<1> HIDE DEF c
<1>4. c = k
  <2>1. Name \cap Wildcard = {}
    BY PatternAssumption
  <2>2. CASE c < k
    <3>1. c + 1 \in 1..k /\ c < Len(p)
      BY <1>1, <1>2, <2>2
    <3> QED
      BY <1>1, <1>2, <2>1, <3>1
  <2>3. CASE k < c
    <3>1. k + 1 \in 1..c /\ k < Len(p)
      BY <1>1, <1>2, <2>3
    <3> QED
      BY <1>1, <1>2, <2>1, <3>1
  <2> QED
    BY <1>1, <1>2, <2>2, <2>3
<1>5. /\ SubSeq(p, 1, k) \in Seq(Segment)
      /\ Len(SubSeq(p, 1, k)) = k
      /\ \A i \in 1..k : SubSeq(p, 1, k)[i] = p[i]
  <2>1. \A i \in 1..k : p[i] \in Segment
    BY <1>1
  <2>2. /\ SubSeq(p, 1, k) \in Seq(Segment)
        /\ Len(SubSeq(p, 1, k)) = IF 1 <= k THEN k - 1 + 1 ELSE 0
        /\ \A i \in 1..(k - 1 + 1) : SubSeq(p, 1, k)[i] = p[1 + i - 1]
    BY <1>1, <2>1, SubSeqProperties
  <2> QED
    BY <1>1, <2>2
<1> QED
  BY <1>3, <1>4, <1>5, LenProperties

\* Every pattern has such a place: its length, or where the first wildcard is.
LEMMA PrefixEnds ==
    ASSUME NEW p \in Seq(Segment)
    PROVE  \E k : LiteralUpTo(p, k)
<1> DEFINE Wild == {i \in 1..Len(p) : p[i] \in Wildcard}
<1>1. Len(p) \in Nat /\ \A i \in 1..Len(p) : p[i] \in Name \/ p[i] \in Wildcard
  BY LenProperties, ElementOfSeq DEF Segment
<1>2. CASE Wild = {}
  <2>1. LiteralUpTo(p, Len(p))
    BY <1>1, <1>2 DEF LiteralUpTo
  <2> QED
    BY <2>1
<1>3. CASE Wild # {}
  <2>1. PICK w \in Wild : \A i \in Wild : w <= i
    <3>1. Wild \subseteq Nat
      OBVIOUS
    <3> HIDE DEF Wild
    <3> QED
      BY <1>3, <3>1, Least
  <2>2. w \in 1..Len(p) /\ p[w] \in Wildcard /\ w - 1 \in 0..Len(p) /\ w - 1 + 1 = w
    BY <1>1
  <2>3. ASSUME NEW i \in 1..(w - 1)
        PROVE  p[i] \in Name
    <3>1. i \in 1..Len(p) /\ ~(w <= i)
      BY <1>1, <2>2
    <3> QED
      BY <1>1, <2>1, <3>1
  <2>4. LiteralUpTo(p, w - 1)
    BY <2>2, <2>3 DEF LiteralUpTo
  <2> QED
    BY <2>4
<1> QED
  BY <1>2, <1>3

\* How far a path, or a directory subtree, spells out its names.
Plain(p) == Concrete(p) \/ Subtree(p)
Stem(p) == IF Concrete(p) THEN Len(p) ELSE Len(p) - 1

\* It spells out its literal prefix, and has a wildcard only beyond.
LEMMA StemIsLiteral ==
    ASSUME NEW p \in Patterns, Plain(p)
    PROVE  /\ Stem(p) \in Nat /\ Stem(p) <= Len(p) /\ LiteralUpTo(p, Stem(p))
           /\ hasWildcard(p) => Subtree(p) /\ Stem(p) = Len(p) - 1
           /\ ~hasWildcard(p) => Stem(p) = Len(p) /\ p \in Seq(Name)
<1>1. /\ p \in Seq(Segment) /\ Len(p) \in Nat /\ Len(p) >= 1 /\ DOMAIN p = 1..Len(p)
      /\ \A i \in 1..Len(p) : p[i] \in Name \/ p[i] \in Wildcard
  BY LenProperties, ElementOfSeq, PatternAssumption DEF Patterns, Segment
<1>2. CASE Concrete(p)
  <2>1. ~hasWildcard(p) /\ \A i \in 1..Len(p) : p[i] \in Name
    BY <1>1, <1>2 DEF Concrete, hasWildcard
  <2>2. Stem(p) = Len(p)
    BY <1>2 DEF Stem
  <2>3. p \in Seq(Name)
    <3>1. p \in [1..Len(p) -> Segment]
      BY <1>1, LenProperties
    <3>2. p \in [1..Len(p) -> Name]
      BY <2>1, <3>1
    <3> QED
      BY <1>1, <3>2
  <2>4. LiteralUpTo(p, Len(p))
    BY <1>1, <2>1 DEF LiteralUpTo
  <2>5. Stem(p) \in Nat /\ Stem(p) <= Len(p) /\ LiteralUpTo(p, Stem(p))
    BY <1>1, <2>2, <2>4
  <2> QED
    BY ONLY <2>1, <2>2, <2>3, <2>5
<1>3. CASE ~Concrete(p)
  <2>1. Subtree(p) /\ hasWildcard(p) /\ Stem(p) = Len(p) - 1
    BY <1>3 DEF Plain, Concrete, Stem
  <2>2. p[Len(p)] \in Wildcard /\ \A i \in 1..(Len(p) - 1) : p[i] \in Name
    BY <2>1 DEF Subtree, Wildcard
  <2>3. Len(p) - 1 \in Nat /\ Len(p) - 1 + 1 = Len(p) /\ Len(p) - 1 \in 0..Len(p)
    BY <1>1
  <2> QED
    BY <2>1, <2>2, <2>3 DEF LiteralUpTo
<1> QED
  BY <1>2, <1>3

\* The files under it are those that begin with its stem.
LEMMA PlainCovers ==
    ASSUME NEW p \in Patterns, Plain(p), NEW f \in Seq(Name)
    PROVE  PathCoveredBy(p, f) <=> Begins(p, Stem(p), f)
<1>1. p \in Seq(Segment) /\ DOMAIN p = 1..Len(p)
  BY LenProperties DEF Patterns
<1>2. CASE hasWildcard(p)
  BY <1>2, StemIsLiteral, SubtreeMatches DEF PathCoveredBy
<1>3. CASE ~hasWildcard(p)
  BY <1>1, <1>3, StemIsLiteral DEF PathCoveredBy, isPrefixOf, Begins
<1> QED
  BY <1>2, <1>3

\* The two stems agree as far as both go.
Agree(p, q) == \A i \in 1..Stem(p) : i \in 1..Stem(q) => p[i] = q[i]

\* Then there is a file under both, and only then.
LEMMA PlainCollide ==
    ASSUME NEW p \in Patterns, Plain(p), NEW q \in Patterns, Plain(q)
    PROVE  Collide(p, q) <=> Agree(p, q)
<1> DEFINE k == Stem(p)
           l == Stem(q)
<1>1. /\ k \in Nat /\ l \in Nat /\ k <= MaxDepth /\ l <= MaxDepth /\ MaxDepth \in Nat
      /\ LiteralUpTo(p, k) /\ LiteralUpTo(q, l)
      /\ MaxFileDepth \in Nat /\ MaxFileDepth >= MaxDepth /\ MaxDepth >= 1
  <2>1. Len(p) \in Nat /\ Len(q) \in Nat /\ Len(p) <= MaxDepth /\ Len(q) <= MaxDepth
    BY PatternAssumption DEF Patterns
  <2>2. MaxDepth \in Nat /\ MaxDepth >= 1 /\ MaxFileDepth \in Nat /\ MaxFileDepth >= MaxDepth
    BY PatternAssumption
  <2>3. Stem(p) \in Nat /\ Stem(p) <= Len(p) /\ LiteralUpTo(p, Stem(p))
    BY StemIsLiteral
  <2>4. Stem(q) \in Nat /\ Stem(q) <= Len(q) /\ LiteralUpTo(q, Stem(q))
    BY StemIsLiteral
  <2> QED
    BY <2>1, <2>2, <2>3, <2>4
<1>2. ASSUME Collide(p, q)
      PROVE  Agree(p, q)
  <2>1. PICK f \in File : PathCoveredBy(p, f) /\ PathCoveredBy(q, f)
    BY <1>2 DEF Collide
  <2>2. f \in Seq(Name)
    BY FilesAreSequences
  <2>3. Begins(p, k, f) /\ Begins(q, l, f)
    BY <2>1, <2>2, PlainCovers
  <2> QED
    BY <2>3 DEF Begins, Agree
<1>3. ASSUME Agree(p, q)
      PROVE  Collide(p, q)
  <2>1. PICK name : name \in Name
    BY PatternAssumption
  <2> DEFINE n == IF k > l THEN k ELSE IF l > 0 THEN l ELSE 1
             f == [i \in 1..n |-> IF i <= k THEN p[i] ELSE IF i <= l THEN q[i] ELSE name]
  <2>2. n \in Nat /\ n \in 1..MaxFileDepth /\ k <= n /\ l <= n
    BY <1>1
  <2>3. \A i \in 1..n : f[i] \in Name
    BY <1>1, <2>1, <2>2 DEF LiteralUpTo
  <2>4. f \in Seq(Name) /\ Len(f) = n
    <3>1. f \in [1..n -> Name]
      BY <2>3
    <3> HIDE DEF f, n
    <3> QED
      BY <2>2, <3>1
  <2>5. f \in File
    BY <2>2, <2>4, FilesAreSequences
  <2>6. \A i \in 1..k : f[i] = p[i]
    BY <1>1, <2>2
  <2>7. \A i \in 1..l : f[i] = q[i]
    <3> TAKE i \in 1..l
    <3>1. CASE i <= k
      <4>1. i \in 1..k /\ f[i] = p[i]
        BY <1>1, <2>6, <3>1
      <4> QED
        BY <1>3, <4>1 DEF Agree
    <3>2. CASE ~(i <= k)
      BY <1>1, <2>2, <3>2
    <3> QED
      BY <3>1, <3>2
  <2> HIDE DEF f, n
  <2>8. Begins(p, k, f) /\ Begins(q, l, f)
    BY <2>2, <2>4, <2>6, <2>7 DEF Begins
  <2>9. PathCoveredBy(p, f) /\ PathCoveredBy(q, f)
    BY <2>4, <2>8, PlainCovers
  <2> QED
    BY <2>5, <2>9 DEF Collide
<1> QED
  BY <1>2, <1>3

\* One literal prefix continues the other when the patterns agree as far as both spell out
\* names.
LEMMA PrefixesMeet ==
    ASSUME NEW p \in Seq(Segment), NEW q \in Seq(Segment), NEW k, LiteralUpTo(p, k), NEW l, LiteralUpTo(q, l)
    PROVE  /\ isPrefixOf(literalPrefix(p), literalPrefix(q)) <=> k <= l /\ \A i \in 1..k : p[i] = q[i]
           /\ isPrefixOf(literalPrefix(q), literalPrefix(p)) <=> l <= k /\ \A i \in 1..l : q[i] = p[i]
           /\ isPrefixOf(p, literalPrefix(q)) <=> Len(p) <= l /\ \A i \in 1..Len(p) : p[i] = q[i]
<1>1. k \in Nat /\ l \in Nat /\ Len(p) \in Nat /\ DOMAIN p = 1..Len(p)
  BY LenProperties DEF LiteralUpTo
<1>2. /\ Len(literalPrefix(p)) = k /\ DOMAIN literalPrefix(p) = 1..k
      /\ \A i \in 1..k : literalPrefix(p)[i] = p[i]
  BY PrefixIs
<1>3. /\ Len(literalPrefix(q)) = l /\ DOMAIN literalPrefix(q) = 1..l
      /\ \A i \in 1..l : literalPrefix(q)[i] = q[i]
  BY PrefixIs
<1>4. isPrefixOf(literalPrefix(p), literalPrefix(q)) <=> k <= l /\ \A i \in 1..k : p[i] = q[i]
  <2>1. k <= l => \A i \in 1..k : i \in 1..l
    BY <1>1
  <2> QED
    BY <1>2, <1>3, <2>1 DEF isPrefixOf
<1>5. isPrefixOf(literalPrefix(q), literalPrefix(p)) <=> l <= k /\ \A i \in 1..l : q[i] = p[i]
  <2>1. l <= k => \A i \in 1..l : i \in 1..k
    BY <1>1
  <2> QED
    BY <1>2, <1>3, <2>1 DEF isPrefixOf
<1>6. isPrefixOf(p, literalPrefix(q)) <=> Len(p) <= l /\ \A i \in 1..Len(p) : p[i] = q[i]
  <2>1. Len(p) <= l => \A i \in 1..Len(p) : i \in 1..l
    BY <1>1
  <2> QED
    BY <1>1, <1>3, <2>1 DEF isPrefixOf
<1> QED
  BY <1>4, <1>5, <1>6

\* A path and a subtree overlap by the one rule or the other.
LEMMA ConcreteMeetsSubtree ==
    ASSUME NEW p \in Patterns, Plain(p), ~hasWildcard(p), NEW q \in Patterns, Plain(q), hasWildcard(q)
    PROVE  ConcreteOverlaps(p, q) <=> Agree(p, q)
<1>1. /\ Stem(p) \in Nat /\ LiteralUpTo(p, Stem(p)) /\ Stem(p) = Len(p) /\ p \in Seq(Name)
      /\ Stem(q) \in Nat /\ LiteralUpTo(q, Stem(q)) /\ Stem(q) = Len(q) - 1 /\ Subtree(q)
      /\ p \in Seq(Segment) /\ q \in Seq(Segment)
  BY StemIsLiteral DEF Patterns
<1>2. matchGlob(q, p) <=> Stem(q) <= Stem(p) /\ \A i \in 1..Stem(q) : q[i] = p[i]
  BY <1>1, SubtreeMatches DEF Begins
<1>3. isPrefixOf(p, literalPrefix(q)) <=> Stem(p) <= Stem(q) /\ \A i \in 1..Stem(p) : p[i] = q[i]
  BY <1>1, PrefixesMeet
<1> QED
  BY <1>1, <1>2, <1>3 DEF ConcreteOverlaps, Agree

\* Paths and subtrees overlap when their stems agree.
LEMMA PlainOverlap ==
    ASSUME NEW p \in Patterns, Plain(p), NEW q \in Patterns, Plain(q)
    PROVE  PathPatternsOverlap(p, q) <=> Agree(p, q)
<1> DEFINE k == Stem(p)
           l == Stem(q)
           Meet == \/ isPrefixOf(literalPrefix(p), literalPrefix(q))
                   \/ isPrefixOf(literalPrefix(q), literalPrefix(p))
<1>1. /\ k \in Nat /\ LiteralUpTo(p, k) /\ p \in Seq(Segment) /\ DOMAIN p = 1..Len(p)
      /\ (hasWildcard(p) => Subtree(p) /\ k = Len(p) - 1)
      /\ (~hasWildcard(p) => k = Len(p))
  BY StemIsLiteral, LenProperties DEF Patterns
<1>2. /\ l \in Nat /\ LiteralUpTo(q, l) /\ q \in Seq(Segment) /\ DOMAIN q = 1..Len(q)
      /\ (hasWildcard(q) => Subtree(q) /\ l = Len(q) - 1)
      /\ (~hasWildcard(q) => l = Len(q))
  BY StemIsLiteral, LenProperties DEF Patterns
<1>3. Meet <=> Agree(p, q)
  <2>1. /\ isPrefixOf(literalPrefix(p), literalPrefix(q)) <=> k <= l /\ \A i \in 1..k : p[i] = q[i]
        /\ isPrefixOf(literalPrefix(q), literalPrefix(p)) <=> l <= k /\ \A i \in 1..l : q[i] = p[i]
    BY <1>1, <1>2, PrefixesMeet
  <2> QED
    BY <1>1, <1>2, <2>1 DEF Agree
<1>4. p = q => Agree(p, q)
  BY DEF Agree
<1>5. Agree(p, q) <=> Agree(q, p)
  BY DEF Agree
<1>6. CASE ~hasWildcard(p) /\ ~hasWildcard(q)
  <2>1. isPrefixOf(p, q) \/ isPrefixOf(q, p) <=> Agree(p, q)
    BY <1>1, <1>2, <1>6 DEF isPrefixOf, Agree
  <2> QED
    BY <1>3, <1>4, <1>6, <2>1 DEF PathPatternsOverlap
<1>7. CASE ~hasWildcard(p) /\ hasWildcard(q)
  <2>1. ConcreteOverlaps(p, q) <=> Agree(p, q)
    BY <1>7, ConcreteMeetsSubtree
  <2> QED
    BY <1>3, <1>4, <1>7, <2>1 DEF PathPatternsOverlap
<1>8. CASE hasWildcard(p) /\ ~hasWildcard(q)
  <2>1. ConcreteOverlaps(q, p) <=> Agree(p, q)
    BY <1>5, <1>8, ConcreteMeetsSubtree
  <2> QED
    BY <1>3, <1>4, <1>8, <2>1 DEF PathPatternsOverlap
<1>9. CASE hasWildcard(p) /\ hasWildcard(q)
  <2>1. Len(literalPrefix(p)) = k /\ Subtree(p) /\ k = Len(p) - 1
    BY <1>1, <1>9, PrefixIs
  <2>2. k < Len(p) /\ p[k + 1] = DoubleStar /\ \A i \in (k + 1)..Len(p) : p[i] \in {Star, DoubleStar}
    <3>1. Len(p) \in Nat
      BY <1>1, LenProperties
    <3>2. p[Len(p)] = DoubleStar
      BY <2>1 DEF Subtree
    <3> HIDE DEF k
    <3> QED
      BY <2>1, <3>1, <3>2
  <2>3. coversSubtree(p)
    BY <2>1, <2>2 DEF coversSubtree
  <2> QED
    BY <1>3, <1>4, <1>9, <2>3 DEF PathPatternsOverlap
<1> QED
  BY <1>6, <1>7, <1>8, <1>9

\* Patterns with "*" segments overlap when they have one shape.
LEMMA StarsOverlap ==
    ASSUME NEW p \in Patterns, SingleStars(p), NEW q \in Patterns, SingleStars(q)
    PROVE  PathPatternsOverlap(p, q) <=> SameShape(p, q)
<1>1. /\ p \in Seq(Segment) /\ DOMAIN p = 1..Len(p) /\ Len(p) \in Nat
      /\ q \in Seq(Segment) /\ DOMAIN q = 1..Len(q) /\ Len(q) \in Nat
  BY LenProperties DEF Patterns
<1>2. PICK k : LiteralUpTo(p, k)
  BY <1>1, PrefixEnds
<1>3. PICK l : LiteralUpTo(q, l)
  BY <1>1, PrefixEnds
<1>4. k \in 0..Len(p) /\ k \in Nat /\ l \in 0..Len(q) /\ l \in Nat
  BY <1>1, <1>2, <1>3 DEF LiteralUpTo
<1>5. ASSUME SameShape(p, q)
      PROVE  \/ isPrefixOf(literalPrefix(p), literalPrefix(q))
             \/ isPrefixOf(literalPrefix(q), literalPrefix(p))
  <2>1. ASSUME NEW i \in 1..k, i \in 1..l
        PROVE  p[i] = q[i]
    <3>1. p[i] \in Name /\ q[i] \in Name
      BY <1>2, <1>3, <2>1 DEF LiteralUpTo
    <3>2. i \in DOMAIN p
      BY <1>1, <1>4
    <3>3. p[i] = q[i] \/ p[i] \in Wildcard \/ q[i] \in Wildcard
      BY <1>5, <3>2 DEF SameShape
    <3> QED
      BY <3>1, <3>3, PatternAssumption
  <2>2. /\ isPrefixOf(literalPrefix(p), literalPrefix(q)) <=> k <= l /\ \A i \in 1..k : p[i] = q[i]
        /\ isPrefixOf(literalPrefix(q), literalPrefix(p)) <=> l <= k /\ \A i \in 1..l : q[i] = p[i]
    BY <1>1, <1>2, <1>3, PrefixesMeet
  <2>3. k <= l => \A i \in 1..k : i \in 1..l
    BY <1>4
  <2>4. l <= k => \A i \in 1..l : i \in 1..k
    BY <1>4
  <2>5. k <= l \/ l <= k
    BY <1>4
  <2> QED
    BY <2>1, <2>2, <2>3, <2>4, <2>5
<1>6. ASSUME NEW r \in Patterns, SingleStars(r)
      PROVE  hasWildcard(r) /\ ~coversSubtree(r)
  <2>1. r \in Seq(Segment) /\ Len(r) \in Nat /\ DOMAIN r = 1..Len(r)
    BY LenProperties DEF Patterns
  <2>2. PICK n : LiteralUpTo(r, n)
    BY <2>1, PrefixEnds
  <2>3. Len(literalPrefix(r)) = n /\ n \in 0..Len(r)
    BY <2>1, <2>2, PrefixIs DEF LiteralUpTo
  <2>4. n < Len(r) => r[n + 1] # DoubleStar
    <3>1. n < Len(r) => n + 1 \in DOMAIN r
      BY <2>1, <2>3
    <3> QED
      BY <1>6, <3>1, PatternAssumption DEF SingleStars, Wildcard
  <2> QED
    BY <1>6, <2>3, <2>4 DEF SingleStars, coversSubtree
<1>7. hasWildcard(p) /\ hasWildcard(q) /\ ~coversSubtree(p) /\ ~coversSubtree(q)
  BY <1>6
<1>8. p = q => SameShape(p, q)
  BY DEF SameShape
<1> QED
  BY <1>5, <1>7, <1>8 DEF PathPatternsOverlap

\* And then there is a file under both, with a name for each segment.
LEMMA StarsCollide ==
    ASSUME NEW p \in Patterns, SingleStars(p), NEW q \in Patterns, SingleStars(q)
    PROVE  Collide(p, q) <=> SameShape(p, q)
<1> DEFINE n == Len(p)
<1>1. /\ DOMAIN p = 1..n /\ n \in Nat /\ n \in 1..MaxFileDepth
      /\ DOMAIN q = 1..Len(q) /\ Len(q) \in Nat
  BY LenProperties, PatternAssumption DEF Patterns
<1>2. /\ \A i \in DOMAIN p : p[i] \in Name \cup {Star}
      /\ \A i \in DOMAIN q : q[i] \in Name \cup {Star}
      /\ hasWildcard(p) /\ hasWildcard(q)
  BY DEF SingleStars
<1>3. Star \in Wildcard /\ Name \cap Wildcard = {} /\ \A name \in Name : Fits(Star, name)
  BY PatternAssumption DEF Wildcard, Fits
<1>4. \A f \in Seq(Name) :
         /\ PathCoveredBy(p, f) <=> n = Len(f) /\ \A i \in 1..n : Fits(p[i], f[i])
         /\ PathCoveredBy(q, f) <=> Len(q) = Len(f) /\ \A i \in 1..Len(q) : Fits(q[i], f[i])
  BY <1>2, StarsMatch DEF PathCoveredBy
<1>5. ASSUME Collide(p, q)
      PROVE  SameShape(p, q)
  <2>1. PICK f \in File : PathCoveredBy(p, f) /\ PathCoveredBy(q, f)
    BY <1>5 DEF Collide
  <2>2. f \in Seq(Name)
    BY FilesAreSequences
  <2>3. n = Len(f) /\ Len(q) = n /\ \A i \in 1..n : Fits(p[i], f[i]) /\ Fits(q[i], f[i])
    BY <1>4, <2>1, <2>2
  <2>4. \A i \in 1..n : f[i] \in Name
    BY <2>2, <2>3, ElementOfSeq
  <2>5. ASSUME NEW i \in 1..n, p[i] \in Name, q[i] \in Name
        PROVE  p[i] = q[i]
    BY <2>3, <2>4, <2>5, NameFitsItself
  <2> QED
    BY <1>1, <1>2, <1>3, <2>3, <2>5 DEF SameShape
<1>6. ASSUME SameShape(p, q)
      PROVE  Collide(p, q)
  <2>1. PICK name : name \in Name
    BY PatternAssumption
  <2>2. Len(q) = n /\ \A i \in 1..n : p[i] = q[i] \/ p[i] = Star \/ q[i] = Star
    BY <1>1, <1>2, <1>3, <1>6 DEF SameShape
  <2> DEFINE f == [i \in 1..n |-> IF p[i] \in Name THEN p[i] ELSE IF q[i] \in Name THEN q[i] ELSE name]
  <2>3. f \in Seq(Name) /\ Len(f) = n
    <3>1. f \in [1..n -> Name]
      BY <2>1
    <3> HIDE DEF f, n
    <3> QED
      BY <1>1, <3>1
  <2>4. ASSUME NEW i \in 1..n
        PROVE  Fits(p[i], f[i]) /\ Fits(q[i], f[i])
    <3>1. /\ p[i] \in Name \/ p[i] = Star
          /\ q[i] \in Name \/ q[i] = Star
          /\ f[i] = IF p[i] \in Name THEN p[i] ELSE IF q[i] \in Name THEN q[i] ELSE name
          /\ f[i] \in Name
      BY <1>1, <1>2, <2>1, <2>2
    <3>2. p[i] = q[i] \/ p[i] = Star \/ q[i] = Star
      BY <2>2
    <3> HIDE DEF f
    <3>3. Star \notin Name
      BY <1>3
    <3> QED
      BY <1>3, <3>1, <3>2, <3>3, NameFitsItself
  <2> HIDE DEF f
  <2>5. f \in File
    BY <1>1, <2>3, FilesAreSequences
  <2>6. PathCoveredBy(p, f) /\ PathCoveredBy(q, f)
    BY <1>4, <2>2, <2>3, <2>4
  <2> QED
    BY <2>5, <2>6 DEF Collide
<1> QED
  BY <1>5, <1>6

-----------------------------------------------------------------------------
(***************************************************************************)
(* Which pattern asks first makes no difference, and two paths or          *)
(* directory subtrees, or two patterns with "*" segments, overlap when a   *)
(* file falls under both, and only then.  (PathPatternsOverlap.)           *)
(***************************************************************************)
THEOREM OverlapIsMutualAndExact == Spec => []MutualAndExact
<1>1. PatternsInv => OverlapIsMutual
  <2> SUFFICES ASSUME NEW p \in Patterns, NEW q \in Patterns, PathPatternsOverlap(p, q)
               PROVE  PathPatternsOverlap(q, p)
    BY DEF PatternsInv, OverlapIsMutual
  <2>1. SameShape(p, q) => SameShape(q, p)
    <3>1. DOMAIN p = 1..Len(p) /\ DOMAIN q = 1..Len(q)
      BY LenProperties DEF Patterns
    <3> QED
      BY <3>1 DEF SameShape
  <2> QED
    BY <2>1 DEF PathPatternsOverlap
<1>2. PatternsInv => ExactOnCommonShapes
  <2> SUFFICES ASSUME NEW p \in Patterns, NEW q \in Patterns,
                      (Plain(p) /\ Plain(q)) \/ (SingleStars(p) /\ SingleStars(q))
               PROVE  PathPatternsOverlap(p, q) <=> Collide(p, q)
    BY DEF PatternsInv, ExactOnCommonShapes, Plain
  <2>1. CASE Plain(p) /\ Plain(q)
    BY <2>1, PlainOverlap, PlainCollide
  <2>2. CASE SingleStars(p) /\ SingleStars(q)
    BY <2>2, StarsOverlap, StarsCollide
  <2> QED
    BY <2>1, <2>2
<1>3. PatternsInv => MutualAndExact
  BY <1>1, <1>2 DEF MutualAndExact
<1> QED
  BY <1>3, PatternsStay, PTL
=============================================================================
