------------------------ MODULE TaskPositions_proofs ------------------------
(***************************************************************************)
(* Making room in a view keeps the order of its cards, puts no two on one  *)
(* place and lands the moved card where it was put, and a card of a board  *)
(* has a place at any time: for any number of tasks, any positions and     *)
(* indexes, and jobs that act on what they read before.                    *)
(*                                                                         *)
(* Each way to make room is shown to keep two relations between the rows   *)
(* before and after: Keeps, whoever came first comes first, and NoTie, who *)
(* shares a place shared one.  Both compose, so a handler keeps what its   *)
(* parts keep, and the loop over the conflicts of a batch keeps what each  *)
(* of its turns does.                                                      *)
(***************************************************************************)
EXTENDS TaskPositions, FiniteSetTheorems, WellFoundedInduction, TLAPS

-----------------------------------------------------------------------------
(* Numbers.                                                                *)

\* A set of numbers that is not empty has a least one.
LEMMA Least ==
    ASSUME NEW S, S \subseteq Nat, S # {}
    PROVE  \E m \in S : \A n \in S : m <= n
<1> DEFINE Upto(i) == 1..i
           Prefixes == {Upto(i) : i \in S}
<1>1. Prefixes \subseteq FiniteSubsetsOf(Nat) /\ Prefixes # {}
  <2>1. \A i \in Nat : IsFiniteSet(1..i) /\ 1..i \subseteq Nat
    BY FS_Interval
  <2> QED
    BY <2>1 DEF FiniteSubsetsOf
<1>2. PICK p \in Prefixes : \A q \in Prefixes : ~(<<q, p>> \in StrictSubsetOrdering(Nat))
  <2> HIDE DEF Prefixes
  <2> QED
    BY <1>1, FS_StrictSubsetOrderingWellFounded, WFMin
<1>3. PICK m \in S : p = Upto(m)
  OBVIOUS
<1>4. \A n \in S : m <= n
  <2> SUFFICES ASSUME NEW n \in S, n < m
               PROVE  FALSE
    OBVIOUS
  <2>1. 1..n \subseteq 1..m /\ 1..n # 1..m /\ 1..m \subseteq Nat
    OBVIOUS
  <2>2. <<Upto(n), p>> \in StrictSubsetOrdering(Nat)
    BY <1>3, <2>1 DEF StrictSubsetOrdering
  <2> QED
    BY <1>2, <2>2
<1> QED
  BY <1>4

\* What lies a whole divisor apart stays apart when it is divided.
LEMMA DivideApart ==
    ASSUME NEW x \in Nat, NEW y \in Nat, NEW n \in Nat \ {0}, y >= x + n
    PROVE  x \div n < y \div n
OBVIOUS

\* A share of at least one is one.
LEMMA DivideSome ==
    ASSUME NEW x \in Nat, NEW n \in Nat \ {0}, x >= n
    PROVE  x \div n \in Nat \ {0}
OBVIOUS

\* A share of less than the whole.
LEMMA DivideBelow ==
    ASSUME NEW x \in Nat, NEW n \in Nat \ {0}, NEW k \in Nat, x < k * n
    PROVE  x \div n \in Nat /\ x \div n < k
OBVIOUS

\* Multiples of a number are that number apart.
LEMMA MultiplesApart ==
    ASSUME NEW g \in Nat, NEW r \in Nat, NEW s \in Nat, r < s
    PROVE  g * r \in Nat /\ g * s \in Nat /\ g * s >= g * r + g
<1>1. PICK d \in Nat : s = r + 1 + d
  OBVIOUS
<1>2. g * s = g * r + g + g * d /\ g * d \in Nat /\ g * r \in Nat
  BY <1>1
<1> QED
  BY <1>2

\* The tasks are finitely many, and so is any set of them.
LEMMA TasksFinite ==
    ASSUME NEW S \in SUBSET Task
    PROVE  IsFiniteSet(S) /\ Cardinality(S) \in 0..Tasks
<1>1. Tasks \in Nat /\ IsFiniteSet(Task) /\ Cardinality(Task) = Tasks
  <2>1. Tasks \in Nat
    BY PositionAssumption
  <2> QED
    BY <2>1, FS_Interval DEF Task
<1> QED
  BY <1>1, FS_Subset, FS_CardinalityType

\* A set with something in it that another lacks, and nothing it has not, is larger.
LEMMA FewerThan ==
    ASSUME NEW S \in SUBSET Task, NEW T \in SUBSET S, NEW x \in S, x \notin T
    PROVE  Cardinality(T) \in Nat /\ Cardinality(T) < Cardinality(S)
<1>1. IsFiniteSet(S) /\ Cardinality(S) \in Nat
  BY TasksFinite
<1>2. IsFiniteSet(T) /\ Cardinality(T) <= Cardinality(S) /\ (Cardinality(S) = Cardinality(T) => S = T)
  BY <1>1, FS_Subset
<1>3. Cardinality(T) \in Nat
  BY <1>2, FS_CardinalityType
<1> QED
  BY <1>1, <1>2, <1>3

\* A share of at least k times the divisor is k.
LEMMA DivideAbove ==
    ASSUME NEW x \in Nat, NEW n \in Nat \ {0}, NEW k \in Nat, x >= k * n
    PROVE  x \div n \in Nat /\ x \div n >= k
OBVIOUS

\* A factor of at least one makes nothing smaller, and products of larger factors are larger.
LEMMA ProductsGrow ==
    ASSUME NEW g \in Nat, NEW h \in Nat, g <= h, NEW r \in Nat, NEW s \in Nat, r <= s
    PROVE  g * r \in Nat /\ h * s \in Nat /\ g * r <= h * s
<1>1. PICK d \in Nat : s = r + d
  OBVIOUS
<1>2. PICK e \in Nat : h = g + e
  OBVIOUS
<1>3. h * s = g * r + g * d + e * r + e * d
  BY <1>1, <1>2
<1>4. g * r \in Nat /\ g * d \in Nat /\ e * r \in Nat /\ e * d \in Nat
  OBVIOUS
<1> QED
  BY <1>3, <1>4

-----------------------------------------------------------------------------
(* Order.                                                                  *)

\* Rows as a view has them; while a task is being placed one may be at 0.
Positions == [Task -> (Nat \ {0}) \cup {NoRow}]
Places == [Task -> Nat \cup {NoRow}]

\* Whoever came first comes first, and who shares a place shared one.
Keeps(p, q, S) == \A x, y \in S : p[x] < p[y] => q[x] < q[y]
NoTie(p, q) == \A x, y \in Rows(q) : x # y /\ q[x] = q[y] => p[x] = p[y] /\ p[x] # NoRow

\* The tasks of a view are in one line.
LEMMA OneLine ==
    ASSUME NEW p \in Places, NEW x \in Task, NEW y \in Task
    PROVE  /\ ~ SortsBefore(p, x, x)
           /\ x # y => SortsBefore(p, x, y) \/ SortsBefore(p, y, x)
           /\ \A z \in Task : SortsBefore(p, z, x) /\ SortsBefore(p, x, y) => SortsBefore(p, z, y)
           /\ p[x] # NoRow /\ p[x] < p[y] => SortsBefore(p, x, y)
           /\ p[x] # NoRow /\ p[y] = NoRow => SortsBefore(p, x, y)
<1>1. Task \subseteq Int /\ NoRow = -1 /\ \A z \in Task : p[z] \in Nat \cup {NoRow}
  BY PositionAssumption DEF Task, NoRow, Places
<1> QED
  BY <1>1 DEF SortsBefore

\* Counting who comes before gives each of a set a number of its own.
LEMMA RankOrders ==
    ASSUME NEW p \in Places, NEW S \in SUBSET Task, NEW x \in S
    PROVE  /\ Rank(p, S, x) \in 1..Cardinality(S)
           /\ \A y \in S : SortsBefore(p, x, y) => Rank(p, S, x) < Rank(p, S, y)
<1> DEFINE Before(t) == {z \in S : SortsBefore(p, z, t)}
<1>1. \A t \in S : Before(t) \in SUBSET S /\ t \notin Before(t)
  BY OneLine
<1>2. \A t \in S : Cardinality(Before(t)) \in Nat /\ Cardinality(Before(t)) < Cardinality(S)
  <2> TAKE t \in S
  <2> HIDE DEF Before
  <2> QED
    BY <1>1, FewerThan
<1>3. Cardinality(S) \in Nat
  BY TasksFinite
<1>4. Rank(p, S, x) \in 1..Cardinality(S)
  BY <1>2, <1>3 DEF Rank
<1>5. ASSUME NEW y \in S, SortsBefore(p, x, y)
      PROVE  Rank(p, S, x) < Rank(p, S, y)
  <2>1. Before(x) \in SUBSET Before(y) /\ x \in Before(y) /\ x \notin Before(x)
    BY <1>1, <1>5, OneLine
  <2>2. Before(y) \in SUBSET Task
    OBVIOUS
  <2>3. Cardinality(Before(x)) < Cardinality(Before(y))
    <3> HIDE DEF Before
    <3> QED
      BY <2>1, <2>2, FewerThan
  <2> QED
    BY <1>2, <2>3 DEF Rank
<1> QED
  BY <1>4, <1>5

\* So does counting the smaller ids.
LEMMA IdOrders ==
    ASSUME NEW S \in SUBSET Task, NEW x \in S
    PROVE  /\ ById(S, x) \in 1..Cardinality(S)
           /\ \A y \in S : x < y => ById(S, x) < ById(S, y)
<1> DEFINE Before(t) == {z \in S : z < t}
<1>1. S \subseteq Int
  BY PositionAssumption DEF Task
<1>2. \A t \in S : Before(t) \in SUBSET S /\ t \notin Before(t)
  BY <1>1
<1>3. \A t \in S : Cardinality(Before(t)) \in Nat /\ Cardinality(Before(t)) < Cardinality(S)
  <2> TAKE t \in S
  <2> HIDE DEF Before
  <2> QED
    BY <1>2, FewerThan
<1>4. Cardinality(S) \in Nat
  BY TasksFinite
<1>5. ById(S, x) \in 1..Cardinality(S)
  BY <1>3, <1>4 DEF ById
<1>6. ASSUME NEW y \in S, x < y
      PROVE  ById(S, x) < ById(S, y)
  <2>1. Before(x) \in SUBSET Before(y) /\ x \in Before(y) /\ x \notin Before(x)
    <3>1. \A z \in S : z < x => z < y
      BY <1>1, <1>6
    <3> QED
      BY <1>2, <1>6, <3>1
  <2>2. Before(y) \in SUBSET Task
    OBVIOUS
  <2>3. Cardinality(Before(x)) < Cardinality(Before(y))
    <3> HIDE DEF Before
    <3> QED
      BY <2>1, <2>2, FewerThan
  <2> QED
    BY <1>3, <2>3 DEF ById
<1> QED
  BY <1>5, <1>6

-----------------------------------------------------------------------------
(* A view spread anew.                                                     *)

\* The tasks of a set, in the order they had, each on a place of its own with room on top.
LEMMA SpreadOrders ==
    ASSUME NEW p \in Places, NEW S \in SUBSET Task
    PROVE  /\ Spread(p, S) \in Positions /\ Rows(Spread(p, S)) = S
           /\ \A x \in S : Spread(p, S)[x] > Tasks
           /\ \A x, y \in S : SortsBefore(p, x, y) => Spread(p, S)[x] < Spread(p, S)[y]
           /\ \A x, y \in S : x # y => Spread(p, S)[x] # Spread(p, S)[y]
<1> DEFINE n == Cardinality(S)
           q == Spread(p, S)
<1>1. Tasks \in Nat /\ MaxPosition \in Nat /\ MaxPosition >= Tasks * (Tasks + 1) /\ n \in 0..Tasks
  BY TasksFinite, PositionAssumption
<1>2. ASSUME NEW x \in S
      PROVE  /\ n \in Nat \ {0} /\ Rank(p, S, x) \in Nat /\ Rank(p, S, x) >= 1
             /\ q[x] = (MaxPosition * Rank(p, S, x)) \div n
             /\ MaxPosition * Rank(p, S, x) \in Nat
             /\ q[x] \in Nat /\ q[x] >= Tasks + 1
  <2>1. Rank(p, S, x) \in 1..n
    BY RankOrders
  <2>2. n \in Nat \ {0} /\ Rank(p, S, x) \in Nat /\ Rank(p, S, x) >= 1
    BY <1>1, <2>1
  <2>3. q[x] = (MaxPosition * Rank(p, S, x)) \div n
    BY DEF Spread
  <2> HIDE DEF n, q
  <2>4. n * (Tasks + 1) <= Tasks * (Tasks + 1) /\ n * (Tasks + 1) \in Nat
    BY <1>1, <2>2, ProductsGrow
  <2>5. MaxPosition * 1 <= MaxPosition * Rank(p, S, x) /\ MaxPosition * Rank(p, S, x) \in Nat
    BY <1>1, <2>2, ProductsGrow
  <2>6. MaxPosition * Rank(p, S, x) >= (Tasks + 1) * n
    BY <1>1, <2>2, <2>4, <2>5
  <2>7. q[x] \in Nat /\ q[x] >= Tasks + 1
    BY <1>1, <2>2, <2>3, <2>5, <2>6, DivideAbove
  <2> QED
    BY <2>2, <2>3, <2>5, <2>7
<1>3. q \in Positions /\ Rows(q) = S
  <2>1. \A t \in Task : IF t \in S THEN q[t] \in Nat \ {0} /\ q[t] # NoRow ELSE q[t] = NoRow
    <3>1. \A t \in Task \ S : q[t] = NoRow
      BY DEF Spread
    <3>2. \A t \in S : q[t] \in Nat \ {0} /\ q[t] # NoRow
      BY <1>1, <1>2 DEF NoRow
    <3> QED
      BY <3>1, <3>2
  <2>2. q = [t \in Task |-> q[t]]
    BY DEF Spread
  <2> HIDE DEF q
  <2>3. \A t \in Task : q[t] \in (Nat \ {0}) \cup {NoRow}
    BY <2>1
  <2>4. q \in Positions
    BY <2>2, <2>3 DEF Positions
  <2> QED
    BY <2>1, <2>4 DEF Rows
<1>4. ASSUME NEW x \in S, NEW y \in S, SortsBefore(p, x, y)
      PROVE  q[x] < q[y]
  <2>1. Rank(p, S, x) < Rank(p, S, y)
    BY <1>4, RankOrders
  <2> HIDE DEF n, q
  <2>2. MaxPosition * Rank(p, S, y) >= MaxPosition * Rank(p, S, x) + MaxPosition
    BY <1>1, <1>2, <2>1, MultiplesApart
  <2>3. MaxPosition >= n
    <3>1. Tasks * 1 <= Tasks * (Tasks + 1)
      BY <1>1, ProductsGrow
    <3> QED
      BY <1>1, <3>1
  <2>4. MaxPosition * Rank(p, S, y) >= MaxPosition * Rank(p, S, x) + n
    BY <1>1, <1>2, <2>2, <2>3
  <2> QED
    BY <1>2, <2>4, DivideApart
<1>5. ASSUME NEW x \in S, NEW y \in S, x # y
      PROVE  q[x] # q[y]
  <2>1. SortsBefore(p, x, y) \/ SortsBefore(p, y, x)
    BY <1>5, OneLine
  <2> HIDE DEF q
  <2> QED
    BY <1>2, <1>4, <2>1
<1>6. \A x \in S : q[x] > Tasks
  <2> HIDE DEF q
  <2> QED
    BY <1>1, <1>2
<1> QED
  BY <1>3, <1>4, <1>5, <1>6

-----------------------------------------------------------------------------
(* A conflict resolved.                                                    *)

\* The smallest of some numbers.
LEMMA MinIs ==
    ASSUME NEW S, S \subseteq Nat, S # {}
    PROVE  Min(S) \in S /\ \A y \in S : Min(S) <= y
<1>1. PICK m \in S : \A y \in S : m <= y
  BY Least
<1> QED
  BY <1>1 DEF Min

\* The nearest place before a conflict, or 0.
LEMMA LowerIs ==
    ASSUME NEW p \in Positions, NEW at \in Nat
    PROVE  /\ LowerBound(p, at) \in Nat
           /\ LowerBound(p, at) < at \/ LowerBound(p, at) = 0
           /\ \A x \in Rows(p) : p[x] < at => p[x] <= LowerBound(p, at)
<1> DEFINE Left == {0} \cup {q \in {p[t] : t \in Rows(p)} : q < at}
           Away == {at - q : q \in Left}
<1>1. \A x \in Rows(p) : p[x] \in Nat
  BY DEF Rows, Positions
<1>2. \A q \in Left : q \in 0..at /\ (q < at \/ q = 0)
  BY <1>1
<1>3. Away \subseteq Nat /\ Away # {}
  <2> HIDE DEF Left
  <2>1. Left # {}
    BY DEF Left
  <2> QED
    BY <1>2, <2>1
<1>4. PICK d \in Away : \A e \in Away : d <= e
  <2> HIDE DEF Away
  <2> QED
    BY <1>3, Least
<1>5. PICK m \in Left : d = at - m
  OBVIOUS
<1>6. \A q \in Left : m >= q
  <2> HIDE DEF Left
  <2> TAKE q \in Left
  <2>1. at - m <= at - q
    BY <1>4, <1>5
  <2> QED
    BY <1>2, <2>1
<1>7. Max(Left) \in Left /\ \A q \in Left : Max(Left) >= q
  <2> HIDE DEF Left
  <2> QED
    BY <1>6 DEF Max
<1>8. LowerBound(p, at) = Max(Left)
  BY DEF LowerBound
<1>9. \A x \in Rows(p) : p[x] < at => p[x] \in Left
  OBVIOUS
<1> HIDE DEF Left
<1>10. \A x \in Rows(p) : p[x] < at => p[x] <= LowerBound(p, at)
  <2> TAKE x \in Rows(p)
  <2> SUFFICES ASSUME p[x] < at
               PROVE  p[x] <= LowerBound(p, at)
    OBVIOUS
  <2>1. p[x] \in Left /\ p[x] \in Nat /\ Max(Left) \in 0..at
    BY <1>1, <1>2, <1>7, <1>9
  <2> QED
    BY <1>7, <1>8, <2>1
<1>11. LowerBound(p, at) \in 0..at /\ (LowerBound(p, at) < at \/ LowerBound(p, at) = 0)
  BY <1>2, <1>7, <1>8
<1> QED
  BY <1>10, <1>11

\* The nearest place after it, or the top of the range.
LEMMA UpperIs ==
    ASSUME NEW p \in Positions, NEW at \in Nat
    PROVE  /\ UpperBound(p, at) \in Nat
           /\ \A x \in Rows(p) : p[x] > at => p[x] >= UpperBound(p, at)
<1> DEFINE Right == {q \in {p[t] : t \in Rows(p)} : q > at}
<1>1. \A x \in Rows(p) : p[x] \in Nat
  BY DEF Rows, Positions
<1>2. Right \subseteq Nat
  BY <1>1
<1>3. UpperBound(p, at) = IF Right = {} THEN MaxPosition ELSE Min(Right)
  BY DEF UpperBound
<1>4. \A x \in Rows(p) : p[x] > at => p[x] \in Right
  OBVIOUS
<1> HIDE DEF Right
<1>5. CASE Right = {}
  BY <1>3, <1>4, <1>5, PositionAssumption
<1>6. CASE Right # {}
  <2>1. Min(Right) \in Right /\ \A y \in Right : Min(Right) <= y
    BY <1>2, <1>6, MinIs
  <2>2. ASSUME NEW x \in Rows(p), p[x] > at
        PROVE  p[x] >= UpperBound(p, at)
    BY <1>1, <1>2, <1>3, <1>4, <1>6, <2>1, <2>2
  <2>3. UpperBound(p, at) \in Nat
    BY <1>2, <1>3, <1>6, <2>1
  <2> QED
    BY <2>2, <2>3
<1> QED
  BY <1>5, <1>6

\* Nobody shares its place.
Alone(p, x) == \A y \in Rows(p) : y # x => p[y] # p[x]

\* The rows stay rows, wherever the group is by now.
LEMMA ResolvedRows ==
    ASSUME NEW p \in Positions, NEW group \in SUBSET Task, NEW at \in Nat
    PROVE  Resolved(p, group, at) \in Positions /\ Rows(Resolved(p, group, at)) = Rows(p)
<1> DEFINE n == Cardinality(group) + 1
           lower == LowerBound(p, at)
           gap == UpperBound(p, at) - lower
           q == Resolved(p, group, at)
<1>1. p \in Places /\ Rows(p) \in SUBSET Task /\ lower \in Nat /\ UpperBound(p, at) \in Nat /\ n \in Nat \ {0}
  BY LowerIs, UpperIs, TasksFinite DEF Positions, Places, Rows
<1>2. CASE gap < MinSpacing * n
  <2>1. q = Spread(p, Rows(p))
    BY <1>2 DEF Resolved, Repaired
  <2> QED
    BY <1>1, <2>1, SpreadOrders
<1>3. CASE ~(gap < MinSpacing * n)
  <2>1. q = [t \in Task |-> IF t \in group \cap Rows(p) THEN lower + (gap * ById(group, t)) \div n ELSE p[t]]
    BY <1>3 DEF Resolved
  <2>2. gap \in Nat /\ gap >= n
    BY <1>1, <1>3 DEF MinSpacing
  <2> HIDE DEF gap, n, lower
  <2>3. ASSUME NEW t \in group
        PROVE  lower + (gap * ById(group, t)) \div n \in Nat \ {0}
    <3>1. ById(group, t) \in Nat /\ ById(group, t) >= 1
      BY IdOrders, TasksFinite
    <3>2. gap * 1 <= gap * ById(group, t) /\ gap * ById(group, t) \in Nat
      BY <2>2, <3>1, ProductsGrow
    <3>3. (gap * ById(group, t)) \div n \in Nat \ {0}
      BY <1>1, <2>2, <3>2, DivideSome
    <3> QED
      BY <1>1, <3>3
  <2>4. \A t \in Task : q[t] \in (Nat \ {0}) \cup {NoRow} /\ (q[t] # NoRow <=> p[t] # NoRow)
    <3> TAKE t \in Task
    <3>1. CASE t \in group \cap Rows(p)
      <4>1. q[t] \in Nat \ {0}
        BY <2>1, <2>3, <3>1
      <4> QED
        BY <3>1, <4>1 DEF Rows, NoRow
    <3>2. CASE t \notin group \cap Rows(p)
      BY <2>1, <3>2 DEF Positions
    <3> QED
      BY <3>1, <3>2
  <2>5. q \in Positions
    BY <2>1, <2>4 DEF Positions
  <2> QED
    BY <2>4, <2>5 DEF Rows
<1> QED
  BY <1>2, <1>3

\* Cards that share a place get one each, and nobody passes anybody.
LEMMA ResolvedOrders ==
    ASSUME NEW p \in Positions, NEW at \in Nat
    PROVE  /\ Keeps(p, Resolved(p, TiedAt(p, at), at), Rows(p))
           /\ \A x \in Rows(p) : Resolved(p, TiedAt(p, at), at)[x] # p[x] \/ p[x] = at =>
                 Alone(Resolved(p, TiedAt(p, at), at), x)
<1> DEFINE group == TiedAt(p, at)
           n == Cardinality(group) + 1
           lower == LowerBound(p, at)
           upper == UpperBound(p, at)
           gap == upper - lower
           q == Resolved(p, group, at)
<1>1. /\ p \in Places /\ Rows(p) \in SUBSET Task /\ group \in SUBSET Rows(p)
      /\ \A t \in Rows(p) : p[t] \in Nat /\ (t \in group <=> p[t] = at) /\ p[t] # NoRow
  BY DEF Positions, Places, Rows, TiedAt, NoRow
<1>2. /\ lower \in Nat /\ upper \in Nat /\ n \in Nat \ {0}
      /\ \A x \in Rows(p) : (p[x] < at => p[x] <= lower) /\ (p[x] > at => p[x] >= upper)
  <2>1. group \in SUBSET Task
    BY <1>1
  <2> QED
    BY <2>1, LowerIs, UpperIs, TasksFinite
<1>3. Rows(q) = Rows(p)
  <2>1. group \in SUBSET Task
    BY <1>1
  <2> QED
    BY <2>1, ResolvedRows
<1>4. CASE gap < MinSpacing * n
  <2>1. q = Spread(p, Rows(p))
    BY <1>4 DEF Resolved, Repaired
  <2>2. /\ \A x, y \in Rows(p) : SortsBefore(p, x, y) => q[x] < q[y]
        /\ \A x, y \in Rows(p) : x # y => q[x] # q[y]
    BY <1>1, <2>1, SpreadOrders
  <2>3. \A x, y \in Rows(p) : p[x] < p[y] => SortsBefore(p, x, y)
    BY <1>1, OneLine
  <2> HIDE DEF q
  <2> QED
    BY <1>3, <2>2, <2>3 DEF Keeps, Alone, q
<1>5. CASE ~(gap < MinSpacing * n)
  <2>1. q = [t \in Task |-> IF t \in group \cap Rows(p) THEN lower + (gap * ById(group, t)) \div n ELSE p[t]]
    BY <1>5 DEF Resolved
  <2>2. gap \in Nat /\ gap >= n
    BY <1>2, <1>5 DEF MinSpacing
  <2>3. /\ \A t \in group : q[t] = lower + (gap * ById(group, t)) \div n
        /\ \A t \in Rows(p) \ group : q[t] = p[t]
    BY <1>1, <2>1
  <2>4. \A t \in group : /\ ById(group, t) \in Nat /\ ById(group, t) >= 1 /\ ById(group, t) < n
                         /\ gap * ById(group, t) \in Nat
                         /\ (gap * ById(group, t)) \div n \in Nat
    <3> TAKE t \in group
    <3>1. group \in SUBSET Task /\ Cardinality(group) \in Nat
      BY <1>1, TasksFinite
    <3>2. ById(group, t) \in 1..Cardinality(group)
      BY <3>1, IdOrders
    <3> HIDE DEF gap, group
    <3>3. ById(group, t) \in Nat /\ ById(group, t) >= 1 /\ ById(group, t) < n
      BY <3>1, <3>2
    <3>4. gap * ById(group, t) \in Nat
      BY <2>2, <3>3
    <3>5. gap * 1 <= gap * ById(group, t)
      BY <2>2, <3>3, ProductsGrow
    <3>6. (gap * ById(group, t)) \div n \in Nat
      BY <1>2, <2>2, <3>4, <3>5, DivideSome
    <3> QED
      BY <3>3, <3>4, <3>6
  <2>5. ASSUME NEW t \in group
        PROVE  q[t] \in Nat /\ lower < q[t] /\ q[t] < upper
    <3> DEFINE r == ById(group, t)
    <3>1. r \in Nat /\ r >= 1 /\ r < n /\ gap * r \in Nat /\ q[t] = lower + (gap * r) \div n
      BY <2>3, <2>4
    <3> HIDE DEF r, q, group
    <3>2. gap * 1 <= gap * r
      BY <2>2, <3>1, ProductsGrow
    <3>3. (gap * r) \div n \in Nat \ {0}
      BY <1>2, <2>2, <3>1, <3>2, DivideSome
    <3>4. gap * n >= gap * r + gap /\ gap * n \in Nat
      BY <1>2, <2>2, <3>1, MultiplesApart
    <3>5. gap * r < gap * n
      BY <1>2, <2>2, <3>1, <3>4
    <3>6. (gap * r) \div n < gap
      <4> HIDE DEF gap, n
      <4> QED
        BY <1>2, <2>2, <3>1, <3>5, DivideBelow
    <3> QED
      BY <1>2, <3>1, <3>3, <3>6
  <2>6. ASSUME NEW t \in group, NEW u \in group, t < u
        PROVE  q[t] < q[u]
    <3>1. ById(group, t) < ById(group, u)
      <4>1. group \in SUBSET Task
        BY <1>1
      <4> HIDE DEF group
      <4> QED
        BY <2>6, <4>1, IdOrders
    <3> DEFINE r == ById(group, t)
               s == ById(group, u)
    <3>2. /\ r \in Nat /\ gap * r \in Nat /\ q[t] = lower + (gap * r) \div n /\ (gap * r) \div n \in Nat
          /\ s \in Nat /\ gap * s \in Nat /\ q[u] = lower + (gap * s) \div n /\ (gap * s) \div n \in Nat
          /\ r < s
      BY <2>3, <2>4, <3>1
    <3> HIDE DEF r, s, q, group, gap, n
    <3>3. gap * s >= gap * r + gap
      BY <2>2, <3>2, MultiplesApart
    <3>4. gap * s >= gap * r + n
      BY <1>2, <2>2, <3>2, <3>3
    <3>5. (gap * r) \div n < (gap * s) \div n
      BY <1>2, <3>2, <3>4, DivideApart
    <3> QED
      BY <1>2, <3>2, <3>5
  <2> HIDE DEF q, group, gap, n, lower, upper
  <2>7. Keeps(p, q, Rows(p))
    <3> SUFFICES ASSUME NEW x \in Rows(p), NEW y \in Rows(p), p[x] < p[y]
                 PROVE  q[x] < q[y]
      BY DEF Keeps
    <3> QED
      BY <1>1, <1>2, <2>3, <2>5
  <2>8. ASSUME NEW x \in Rows(p), q[x] # p[x] \/ p[x] = at
        PROVE  Alone(q, x)
    <3>1. x \in group
      BY <1>1, <2>3, <2>8
    <3>2. \A y \in Rows(p) \ group : q[y] # q[x]
      BY <1>1, <1>2, <2>3, <2>5, <3>1
    <3>3. \A y \in group : y # x => y < x \/ x < y
      BY <1>1, PositionAssumption DEF Task
    <3>4. \A y \in group : y # x => q[y] # q[x]
      BY <2>5, <2>6, <3>1, <3>3
    <3> QED
      BY <1>3, <3>2, <3>4 DEF Alone
  <2> QED
    BY <2>7, <2>8 DEF q, group
<1> QED
  BY <1>4, <1>5

\* So with a conflict or without: order stays, and what was at the place or moved is alone.
LEMMA ConflictGone ==
    ASSUME NEW p \in Positions, NEW at \in Nat
    PROVE  /\ WithoutConflict(p, at) \in Positions /\ Rows(WithoutConflict(p, at)) = Rows(p)
           /\ Keeps(p, WithoutConflict(p, at), Rows(p))
           /\ \A x \in Rows(p) : WithoutConflict(p, at)[x] # p[x] \/ p[x] = at =>
                 Alone(WithoutConflict(p, at), x)
<1>1. TiedAt(p, at) \in SUBSET Task
  BY DEF TiedAt
<1>2. CASE Cardinality(TiedAt(p, at)) > 1
  <2>1. WithoutConflict(p, at) = Resolved(p, TiedAt(p, at), at)
    BY <1>2 DEF WithoutConflict
  <2> QED
    BY <1>1, <2>1, ResolvedRows, ResolvedOrders
<1>3. CASE ~(Cardinality(TiedAt(p, at)) > 1)
  <2>1. WithoutConflict(p, at) = p
    BY <1>3 DEF WithoutConflict
  <2>2. ASSUME NEW x \in Rows(p), NEW y \in Rows(p), y # x, p[x] = at, p[y] = at
        PROVE  FALSE
    <3>1. {x} \in SUBSET TiedAt(p, at) /\ y \in TiedAt(p, at) /\ y \notin {x}
      BY <2>2 DEF TiedAt, Rows
    <3>2. Cardinality({x}) < Cardinality(TiedAt(p, at)) /\ Cardinality({x}) = 1
      BY <1>1, <3>1, FewerThan, FS_Singleton
    <3>3. Cardinality(TiedAt(p, at)) \in Nat
      BY <1>1, TasksFinite
    <3> QED
      BY <1>3, <3>2, <3>3
  <2> QED
    BY <2>1, <2>2 DEF Keeps, Alone
<1> QED
  BY <1>2, <1>3

-----------------------------------------------------------------------------
(* A row placed.                                                           *)

\* Where order stays among the same rows, no two fall together.
LEMMA KeepsNoTie ==
    ASSUME NEW p \in Positions, NEW q \in Positions, Rows(q) = Rows(p), Keeps(p, q, Rows(p))
    PROVE  NoTie(p, q) /\ \A x \in Rows(p) : Alone(p, x) => Alone(q, x)
<1>1. \A x \in Rows(p) : p[x] \in Nat /\ q[x] \in Nat /\ p[x] # NoRow
  BY DEF Positions, Rows
<1>2. \A x, y \in Rows(p) : q[x] = q[y] => p[x] = p[y]
  BY <1>1 DEF Keeps
<1> QED
  BY <1>1, <1>2 DEF NoTie, Alone

\* Both relations compose.
LEMMA Compose ==
    ASSUME NEW p \in Positions, NEW q \in Positions, NEW r \in Positions, NoTie(p, q), NoTie(q, r)
    PROVE  NoTie(p, r)
<1> SUFFICES ASSUME NEW x \in Rows(r), NEW y \in Rows(r), x # y, r[x] = r[y]
             PROVE  p[x] = p[y] /\ p[x] # NoRow
  BY DEF NoTie
<1>1. q[x] = q[y] /\ q[x] # NoRow
  BY DEF NoTie
<1>2. x \in Rows(q) /\ y \in Rows(q)
  BY <1>1 DEF Rows
<1> QED
  BY <1>1, <1>2 DEF NoTie

\* A recalculation keeps the order of what it finds.
LEMMA RecalculatedIs ==
    ASSUME NEW p \in Positions, NEW found \in SUBSET Task
    PROVE  /\ Recalculated(p, found) \in Positions
           /\ Rows(Recalculated(p, found)) = IF found = {} THEN Rows(p) ELSE found
           /\ Keeps(p, Recalculated(p, found), Rows(p) \cap Rows(Recalculated(p, found)))
           /\ NoTie(p, Recalculated(p, found))
<1>1. p \in Places /\ \A x \in Rows(p) : p[x] # NoRow
  BY DEF Positions, Places, Rows
<1>2. CASE found = {}
  <2>1. Recalculated(p, found) = p
    BY <1>2 DEF Recalculated
  <2>2. NoTie(p, p)
    BY DEF NoTie, Rows
  <2> QED
    BY <1>2, <2>1, <2>2 DEF Keeps
<1>3. CASE found # {}
  <2> DEFINE q == Spread(p, found)
  <2>1. Recalculated(p, found) = q
    BY <1>3 DEF Recalculated
  <2>2. /\ q \in Positions /\ Rows(q) = found
        /\ \A x, y \in found : SortsBefore(p, x, y) => q[x] < q[y]
        /\ \A x, y \in found : x # y => q[x] # q[y]
    BY <1>1, SpreadOrders
  <2> HIDE DEF q
  <2>3. Keeps(p, q, Rows(p) \cap Rows(q))
    <3>1. \A x, y \in Rows(p) \cap Rows(q) : p[x] < p[y] => SortsBefore(p, x, y)
      <4>1. Rows(p) \subseteq Task
        BY DEF Rows
      <4> QED
        BY <1>1, <4>1, OneLine
    <3> QED
      BY <2>2, <3>1 DEF Keeps
  <2>4. NoTie(p, q)
    BY <2>2 DEF NoTie
  <2> QED
    BY <1>3, <2>1, <2>2, <2>3, <2>4
<1> QED
  BY <1>2, <1>3

\* The card lands on its place, the others keep their order, and no two fall together.
LEMMA PlacedIs ==
    ASSUME NEW p \in Positions, NEW found \in SUBSET Task, NEW t \in Task, NEW at \in Nat,
           at >= 1 \/ t \in found
    PROVE  /\ Placed(p, found, t, at) \in Positions
           /\ Rows(Placed(p, found, t, at)) = IF at >= 1 THEN Rows(p) \cup {t} ELSE found
           /\ Keeps(p, Placed(p, found, t, at), (Rows(p) \cap Rows(Placed(p, found, t, at))) \ {t})
           /\ NoTie(p, Placed(p, found, t, at))
           /\ \A x \in (Rows(p) \cap Rows(Placed(p, found, t, at))) \ {t} :
                 /\ p[x] < at => Placed(p, found, t, at)[x] < Placed(p, found, t, at)[t]
                 /\ p[x] > at => Placed(p, found, t, at)[t] < Placed(p, found, t, at)[x]
<1> DEFINE q == [p EXCEPT ![t] = at]
           r == Placed(p, found, t, at)
<1>1. q \in Places /\ q[t] = at /\ at # NoRow /\ \A x \in Task \ {t} : q[x] = p[x]
  BY DEF Positions, Places, NoRow
<1>2. Rows(q) = Rows(p) \cup {t} /\ Rows(p) \subseteq Task
  BY <1>1 DEF Rows
<1>3. CASE at < MinSpacing
  <2>1. at = 0 /\ t \in found /\ found # {}
    BY <1>3 DEF MinSpacing
  <2>2. r = Spread(q, found)
    BY <1>3, <2>1 DEF Placed, Recalculated
  <2>3. /\ r \in Positions /\ Rows(r) = found
        /\ \A x, y \in found : SortsBefore(q, x, y) => r[x] < r[y]
        /\ \A x, y \in found : x # y => r[x] # r[y]
    <3> HIDE DEF q, r
    <3> QED
      BY <1>1, <2>2, SpreadOrders
  <2>4. \A x, y \in found : q[x] # NoRow /\ q[x] < q[y] => SortsBefore(q, x, y)
    BY <1>1, OneLine
  <2> HIDE DEF q, r
  <2>5. Keeps(p, r, (Rows(p) \cap Rows(r)) \ {t})
    <3> SUFFICES ASSUME NEW x \in (Rows(p) \cap Rows(r)) \ {t}, NEW y \in (Rows(p) \cap Rows(r)) \ {t},
                        p[x] < p[y]
                 PROVE  r[x] < r[y]
      BY DEF Keeps
    <3>1. x \in found /\ y \in found /\ q[x] = p[x] /\ q[y] = p[y] /\ q[x] # NoRow
      BY <1>1, <2>3 DEF Rows
    <3> QED
      BY <2>3, <2>4, <3>1
  <2>6. NoTie(p, r)
    BY <2>3 DEF NoTie
  <2>7. ASSUME NEW x \in (Rows(p) \cap Rows(r)) \ {t}
        PROVE  (p[x] < at => r[x] < r[t]) /\ (p[x] > at => r[t] < r[x])
    <3>1. x \in found /\ q[x] = p[x] /\ q[x] # NoRow /\ q[t] # NoRow
      BY <1>1, <2>3 DEF Rows
    <3>2. p[x] < at => SortsBefore(q, x, t)
      BY <1>1, <2>1, <2>4, <3>1
    <3>3. p[x] > at => SortsBefore(q, t, x)
      <4>1. p[x] \in Nat
        BY <1>2 DEF Positions, Rows
      <4>2. p[x] > at => q[t] < q[x]
        BY <1>1, <3>1, <4>1
      <4> QED
        BY <2>1, <2>4, <3>1, <4>2
    <3> QED
      BY <2>1, <2>3, <3>1, <3>2, <3>3
  <2>8. ~(at >= 1)
    BY <2>1
  <2> QED
    BY <2>3, <2>5, <2>6, <2>7, <2>8 DEF r
<1>4. CASE ~(at < MinSpacing)
  <2>1. at >= 1 /\ at \in Nat \ {0}
    BY <1>4 DEF MinSpacing
  <2>2. q \in Positions
    BY <2>1 DEF Positions
  <2>3. r = WithoutConflict(q, at)
    BY <1>4 DEF Placed
  <2>4. /\ r \in Positions /\ Rows(r) = Rows(q)
        /\ Keeps(q, r, Rows(q))
        /\ \A x \in Rows(q) : r[x] # q[x] \/ q[x] = at => Alone(r, x)
    BY <2>2, <2>3, ConflictGone
  <2> HIDE DEF q, r
  <2>5. Keeps(p, r, (Rows(p) \cap Rows(r)) \ {t})
    BY <1>1, <1>2, <2>4 DEF Keeps
  <2>6. NoTie(p, r)
    <3>1. NoTie(q, r)
      BY <2>2, <2>4, KeepsNoTie
    <3>2. Alone(r, t) /\ t \in Rows(r)
      BY <1>1, <1>2, <2>4
    <3> SUFFICES ASSUME NEW x \in Rows(r), NEW y \in Rows(r), x # y, r[x] = r[y]
                 PROVE  p[x] = p[y] /\ p[x] # NoRow
      BY DEF NoTie
    <3>3. x # t /\ y # t
      BY <3>2 DEF Alone
    <3>4. q[x] = q[y] /\ q[x] # NoRow
      BY <3>1 DEF NoTie
    <3>5. x \in Task /\ y \in Task
      BY DEF Rows
    <3> QED
      BY <1>1, <3>3, <3>4, <3>5
  <2>7. ASSUME NEW x \in (Rows(p) \cap Rows(r)) \ {t}
        PROVE  (p[x] < at => r[x] < r[t]) /\ (p[x] > at => r[t] < r[x])
    <3>1. x \in Rows(q) /\ t \in Rows(q) /\ q[x] = p[x] /\ q[t] = at /\ p[x] \in Nat
      BY <1>1, <1>2 DEF Positions, Rows
    <3>2. p[x] > at => q[t] < q[x]
      BY <3>1
    <3> QED
      BY <2>4, <3>1, <3>2 DEF Keeps
  <2> QED
    BY <1>2, <2>1, <2>4, <2>5, <2>6, <2>7 DEF r
<1> QED
  BY <1>3, <1>4

-----------------------------------------------------------------------------
(* The conflicts of a batch.                                               *)

\* The right-hand side of upTo, with u for upTo, and the first k turns of the loop.
Turn(p, new, u, t) ==
    IF t = 0 THEN p
    ELSE IF t \in DOMAIN new THEN WithoutConflict(u[t - 1], new[t])
    ELSE u[t - 1]

Turns(p, new, k, u) == [t \in 0..k |-> Turn(p, new, u, t)]

\* However many turns, there is a function that takes them: the first number for which
\* there was none would have one.
LEMMA TurnsExist ==
    ASSUME NEW p, NEW new, NEW k \in Nat
    PROVE  \E u : u = Turns(p, new, k, u)
<1> DEFINE Without == {n \in Nat : ~ \E u : u = Turns(p, new, n, u)}
<1>1. SUFFICES ASSUME Without # {}
               PROVE  FALSE
  OBVIOUS
<1>2. PICK n \in Without : \A m \in Without : n <= m
  <2>1. Without \subseteq Nat
    OBVIOUS
  <2> HIDE DEF Without
  <2> QED
    BY <1>1, <2>1, Least
<1>3. CASE n = 0
  <2> DEFINE u == [t \in 0..0 |-> p]
  <2>1. \A t \in 0..0 : Turn(p, new, u, t) = p
    BY DEF Turn
  <2>2. u = [t \in 0..0 |-> Turn(p, new, u, t)]
    <3> HIDE DEF Turn
    <3> QED
      BY <2>1
  <2> QED
    BY <1>3, <2>2 DEF Turns
<1>4. CASE n # 0
  <2>1. n - 1 \in Nat /\ ~(n <= n - 1) /\ n \in Nat
    BY <1>4
  <2>2. n - 1 \notin Without
    BY <1>2, <2>1
  <2>3. PICK u : u = Turns(p, new, n - 1, u)
    <3> HIDE DEF Turns
    <3> QED
      BY <2>1, <2>2
  <2> DEFINE v == [t \in 0..n |-> IF t = n THEN Turn(p, new, u, n) ELSE u[t]]
  <2>4. ASSUME NEW t \in 0..n
        PROVE  v[t] = Turn(p, new, v, t)
    <3>1. t # 0 => t - 1 \in 0..(n - 1) /\ v[t - 1] = u[t - 1]
      BY <2>1
    <3> HIDE DEF v
    <3>2. Turn(p, new, v, t) = Turn(p, new, u, t)
      BY <3>1 DEF Turn
    <3>3. CASE t = n
      BY <3>2, <3>3 DEF v
    <3>4. CASE t # n
      <4>1. t \in 0..(n - 1)
        BY <2>1, <3>4
      <4>2. Turns(p, new, n - 1, u)[t] = Turn(p, new, u, t)
        BY <4>1 DEF Turns
      <4>3. u[t] = Turn(p, new, u, t)
        BY <2>3, <4>2
      <4> QED
        BY <3>2, <3>4, <4>3 DEF v
    <3> QED
      BY <3>3, <3>4
  <2>5. v = [t \in 0..n |-> v[t]]
    OBVIOUS
  <2> HIDE DEF v
  <2>6. v = [t \in 0..n |-> Turn(p, new, v, t)]
    BY <2>4, <2>5
  <2>7. v = Turns(p, new, n, v)
    BY <2>6 DEF Turns
  <2> QED
    BY <1>2, <2>7
<1> QED
  BY <1>3, <1>4

\* AllResolved is where the last turn of such a function leads.
LEMMA AllResolvedTurns ==
    ASSUME NEW p, NEW new
    PROVE  \E u : u = Turns(p, new, Tasks, u) /\ AllResolved(p, new) = u[Tasks]
<1> DEFINE u == CHOOSE v : v = Turns(p, new, Tasks, v)
<1>1. u = Turns(p, new, Tasks, u)
  <2>1. \E v : v = Turns(p, new, Tasks, v)
    BY PositionAssumption, TurnsExist
  <2> HIDE DEF Turns
  <2> QED
    BY <2>1
<1>2. AllResolved(p, new) = u[Tasks]
  BY DEF AllResolved, Turns, Turn
<1> QED
  BY <1>1, <1>2

\* After t turns order is as it was, and a task of the batch waits for its own or is alone.
TurnsDone(p, new, q, t) ==
    /\ q \in Positions /\ Rows(q) = Rows(p) /\ Keeps(p, q, Rows(p))
    /\ \A x \in DOMAIN new : (x > t /\ q[x] = new[x]) \/ Alone(q, x)

\* A turn leads from there to there.
LEMMA OneTurn ==
    ASSUME NEW p \in Positions, NEW B \in SUBSET Rows(p), NEW new \in [B -> Nat], NEW u, NEW t \in 1..Tasks,
           TurnsDone(p, new, u[t - 1], t - 1)
    PROVE  TurnsDone(p, new, Turn(p, new, u, t), t)
<1> DEFINE q == u[t - 1]
           r == Turn(p, new, u, t)
<1>1. /\ Tasks \in Nat /\ t \in Nat /\ t # 0 /\ DOMAIN new = B /\ B \subseteq Task /\ Task \subseteq Int
      /\ Rows(p) \subseteq Task
  BY PositionAssumption DEF Task, Rows
<1>2. /\ q \in Positions /\ Rows(q) = Rows(p) /\ Keeps(p, q, Rows(p))
      /\ \A x \in B : (x > t - 1 /\ q[x] = new[x]) \/ Alone(q, x)
  BY <1>1 DEF TurnsDone
<1>3. CASE t \in B
  <2>1. r = WithoutConflict(q, new[t]) /\ new[t] \in Nat
    BY <1>1, <1>3 DEF Turn
  <2> HIDE DEF q, r
  <2>2. /\ r \in Positions /\ Rows(r) = Rows(q) /\ Keeps(q, r, Rows(q))
        /\ \A x \in Rows(q) : r[x] # q[x] \/ q[x] = new[t] => Alone(r, x)
    BY <1>2, <2>1, ConflictGone
  <2>3. Keeps(p, r, Rows(p))
    BY <1>2, <2>2 DEF Keeps
  <2>4. \A x \in Rows(q) : Alone(q, x) => Alone(r, x)
    BY <1>2, <2>2, KeepsNoTie
  <2>5. ASSUME NEW x \in B
        PROVE  (x > t /\ r[x] = new[x]) \/ Alone(r, x)
    <3>1. x \in Rows(q) /\ x \in Int
      BY <1>1, <1>2
    <3>2. CASE Alone(q, x)
      BY <2>4, <3>1, <3>2
    <3>3. CASE x > t - 1 /\ q[x] = new[x]
      <4>1. x = t \/ x > t
        BY <1>1, <3>1, <3>3
      <4> QED
        BY <2>2, <3>1, <3>3, <4>1
    <3> QED
      BY <1>2, <3>2, <3>3
  <2>6. TurnsDone(p, new, r, t)
    BY <1>1, <1>2, <2>2, <2>3, <2>5 DEF TurnsDone
  <2> QED
    BY <2>6 DEF r
<1>4. CASE t \notin B
  <2>1. r = q
    BY <1>1, <1>4 DEF Turn
  <2>2. \A x \in B : x > t - 1 => x > t
    BY <1>1, <1>4
  <2> HIDE DEF q, r
  <2>3. TurnsDone(p, new, r, t)
    BY <1>1, <1>2, <2>1, <2>2 DEF TurnsDone
  <2> QED
    BY <2>3 DEF r
<1> QED
  BY <1>3, <1>4

\* The whole loop keeps the order and leaves every task of the batch alone on its place.
LEMMA AllResolvedIs ==
    ASSUME NEW p \in Positions, NEW B \in SUBSET Rows(p), NEW new \in [B -> Nat],
           \A x \in B : p[x] = new[x]
    PROVE  /\ AllResolved(p, new) \in Positions /\ Rows(AllResolved(p, new)) = Rows(p)
           /\ Keeps(p, AllResolved(p, new), Rows(p))
           /\ \A x \in B : Alone(AllResolved(p, new), x)
<1>1. PICK u : u = Turns(p, new, Tasks, u) /\ AllResolved(p, new) = u[Tasks]
  BY AllResolvedTurns
<1>2. Tasks \in Nat /\ DOMAIN new = B /\ B \subseteq Task
  BY PositionAssumption DEF Rows
<1>3. \A t \in 0..Tasks : u[t] = Turn(p, new, u, t)
  <2> TAKE t \in 0..Tasks
  <2>1. Turns(p, new, Tasks, u)[t] = Turn(p, new, u, t)
    BY DEF Turns
  <2> QED
    BY <1>1, <2>1
<1> DEFINE Open == {t \in 0..Tasks : ~ TurnsDone(p, new, u[t], t)}
<1>4. Open = {}
  <2> SUFFICES ASSUME Open # {}
               PROVE  FALSE
    OBVIOUS
  <2>1. PICK t \in Open : \A s \in Open : t <= s
    <3>1. Open \subseteq Nat
      BY <1>2
    <3> HIDE DEF Open
    <3> QED
      BY <3>1, Least
  <2>2. CASE t = 0
    <3>1. u[0] = p
      BY <1>3, <2>2 DEF Turn
    <3>2. \A x \in B : x > 0 /\ p[x] = new[x]
      BY <1>2 DEF Task
    <3>3. TurnsDone(p, new, p, 0)
      BY <1>2, <3>2 DEF TurnsDone, Keeps
    <3> QED
      BY <2>1, <2>2, <3>1, <3>3
  <2>3. CASE t # 0
    <3>1. t \in 1..Tasks /\ t - 1 \in 0..Tasks /\ ~(t <= t - 1)
      BY <1>2, <2>3
    <3>2. TurnsDone(p, new, u[t - 1], t - 1)
      BY <2>1, <3>1
    <3>3. TurnsDone(p, new, Turn(p, new, u, t), t)
      BY <3>1, <3>2, OneTurn
    <3> QED
      BY <1>3, <2>1, <3>3
  <2> QED
    BY <2>2, <2>3
<1>5. TurnsDone(p, new, u[Tasks], Tasks)
  <2>1. Tasks \in 0..Tasks
    BY <1>2
  <2> QED
    BY <1>4, <2>1
<1>6. \A x \in B : ~(x > Tasks)
  BY <1>2 DEF Task
<1> QED
  BY <1>1, <1>2, <1>5, <1>6 DEF TurnsDone

\* Rows are written only for those that had none.
LEMMA InsertedIs ==
    ASSUME NEW p \in Positions, NEW B \in SUBSET Task, NEW new \in [B -> Nat \ {0}]
    PROVE  /\ Inserted(p, new) \in Positions /\ Rows(Inserted(p, new)) = Rows(p) \cup B
           /\ \A x \in Rows(p) : Inserted(p, new)[x] = p[x]
           /\ \A x \in B \ Rows(p) : Inserted(p, new)[x] = new[x]
<1> DEFINE q == Inserted(p, new)
<1>1. DOMAIN new = B /\ Rows(p) \subseteq Task
  BY DEF Rows
<1>2. q = [t \in Task |-> IF t \in B \ Rows(p) THEN new[t] ELSE p[t]]
  BY <1>1 DEF Inserted
<1>3. /\ \A t \in B \ Rows(p) : q[t] = new[t] /\ new[t] \in Nat \ {0} /\ new[t] # NoRow
      /\ \A t \in Task \ (B \ Rows(p)) : q[t] = p[t] /\ p[t] \in (Nat \ {0}) \cup {NoRow}
  BY <1>2 DEF Positions, NoRow
<1> HIDE DEF q
<1>4. q \in Positions
  <2>1. \A t \in Task : q[t] \in (Nat \ {0}) \cup {NoRow}
    BY <1>3
  <2> QED
    BY <1>2, <2>1 DEF Positions
<1>5. Rows(q) = Rows(p) \cup B
  BY <1>3 DEF Rows
<1> QED
  BY <1>1, <1>3, <1>4, <1>5 DEF q

\* A batch added: the rows that were there keep their order, no two fall together, and what
\* was to come before a row does.
LEMMA AddedIs ==
    ASSUME NEW p \in Positions, NEW B \in SUBSET Task, NEW new \in [B -> Nat \ {0}]
    PROVE  /\ Added(p, new) \in Positions /\ Rows(Added(p, new)) = Rows(p) \cup B
           /\ Keeps(p, Added(p, new), Rows(p))
           /\ NoTie(p, Added(p, new))
           /\ \A t \in B \ Rows(p), x \in Rows(p) : new[t] < p[x] => Added(p, new)[t] < Added(p, new)[x]
<1> DEFINE F == B \ Rows(p)
           fresh == [t \in F |-> new[t]]
           q == Inserted(p, fresh)
           r == Added(p, new)
<1>1. F \in SUBSET Task /\ fresh \in [F -> Nat \ {0}] /\ \A t \in F : fresh[t] = new[t]
  OBVIOUS
<1>2. r = AllResolved(q, fresh)
  BY DEF Added
<1> HIDE DEF fresh
<1>3. /\ q \in Positions /\ Rows(q) = Rows(p) \cup F
      /\ \A x \in Rows(p) : q[x] = p[x]
      /\ \A x \in F \ Rows(p) : q[x] = fresh[x]
  <2> HIDE DEF F
  <2> QED
    BY <1>1, InsertedIs
<1>4. F \ Rows(p) = F /\ Rows(p) \cup F = Rows(p) \cup B
  OBVIOUS
<1> HIDE DEF q, r, F
<1>5. fresh \in [F -> Nat] /\ F \in SUBSET Rows(q) /\ \A x \in F : q[x] = fresh[x]
  BY <1>1, <1>3, <1>4
<1>6. /\ r \in Positions /\ Rows(r) = Rows(q) /\ Keeps(q, r, Rows(q))
      /\ \A x \in F : Alone(r, x)
  BY <1>2, <1>3, <1>5, AllResolvedIs
<1>7. Keeps(p, r, Rows(p))
  BY <1>3, <1>6 DEF Keeps
<1>8. NoTie(p, r)
  <2>1. NoTie(q, r)
    BY <1>3, <1>6, KeepsNoTie
  <2> SUFFICES ASSUME NEW x \in Rows(r), NEW y \in Rows(r), x # y, r[x] = r[y]
               PROVE  p[x] = p[y] /\ p[x] # NoRow
    BY DEF NoTie
  <2>2. x \notin F /\ y \notin F
    BY <1>6 DEF Alone
  <2>3. x \in Rows(p) /\ y \in Rows(p)
    BY <1>3, <1>6, <2>2
  <2>4. q[x] = q[y]
    BY <2>1 DEF NoTie
  <2> QED
    BY <1>3, <2>3, <2>4 DEF Rows
<1>9. ASSUME NEW t \in F, NEW x \in Rows(p), new[t] < p[x]
      PROVE  r[t] < r[x]
  <2>1. q[t] < q[x] /\ t \in Rows(q) /\ x \in Rows(q)
    BY <1>1, <1>3, <1>5, <1>9
  <2> QED
    BY <1>6, <2>1 DEF Keeps
<1> QED
  BY <1>3, <1>4, <1>6, <1>7, <1>8, <1>9 DEF r, F

-----------------------------------------------------------------------------
(* A batch placed on top.                                                  *)

\* An index leads to a row.
LEMMA IndexIs ==
    ASSUME NEW t \in Task
    PROVE  Index(t) \in Nat \ {0} /\ Index(t) * IndexStep \in Nat \ {0}
<1>1. IndexStep \in Nat \ {0} /\ Index(t) \in Nat \ {0}
  BY PositionAssumption DEF Index, Task
<1>2. 1 * 1 <= Index(t) * IndexStep /\ Index(t) * IndexStep \in Nat
  BY <1>1, ProductsGrow
<1> QED
  BY <1>1, <1>2

\* Different numbers have different multiples.
LEMMA MultiplesDiffer ==
    ASSUME NEW x \in Nat, NEW y \in Nat, NEW g \in Nat \ {0}, x # y
    PROVE  x * g # y * g
<1>1. ASSUME NEW r \in Nat, NEW s \in Nat, r < s
      PROVE  r * g < s * g
  <2>1. g * s >= g * r + g /\ g * r \in Nat /\ g * s \in Nat
    BY <1>1, MultiplesApart
  <2> QED
    BY <2>1
<1>2. x * g \in Nat /\ y * g \in Nat
  OBVIOUS
<1>3. CASE x < y
  BY <1>1, <1>2, <1>3
<1>4. CASE y < x
  BY <1>1, <1>2, <1>4
<1> QED
  BY <1>3, <1>4

\* The first tasks of a view get a row each.
LEMMA EmptyViewIs ==
    ASSUME NEW S \in SUBSET Task
    PROVE  InEmptyView(S) \in [S -> Nat \ {0}] /\ \A x, y \in S : x # y => InEmptyView(S)[x] # InEmptyView(S)[y]
<1> DEFINE q == InEmptyView(S)
<1>1. IndexStep \in Nat \ {0} /\ Task \subseteq Int
  BY PositionAssumption DEF Task
<1>2. CASE \E x, y \in S : x # y /\ Index(x) = Index(y)
  <2>1. q = [t \in S |-> ById(S, t) * IndexStep]
    BY <1>2 DEF InEmptyView
  <2>2. \A t \in S : ById(S, t) \in Nat /\ ById(S, t) >= 1
    BY IdOrders, TasksFinite
  <2>3. \A x, y \in S : x # y => ById(S, x) # ById(S, y)
    <3> TAKE x \in S, y \in S
    <3>1. x # y => x < y \/ y < x
      BY <1>1
    <3>2. (x < y => ById(S, x) < ById(S, y)) /\ (y < x => ById(S, y) < ById(S, x))
      BY IdOrders
    <3> QED
      BY <2>2, <3>1, <3>2
  <2> HIDE DEF q
  <2>4. \A x, y \in S : x # y => q[x] # q[y]
    <3> TAKE x \in S, y \in S
    <3>1. q[x] = ById(S, x) * IndexStep /\ q[y] = ById(S, y) * IndexStep
      BY <2>1
    <3> QED
      BY <1>1, <2>2, <2>3, <3>1, MultiplesDiffer
  <2>5. \A t \in S : ById(S, t) * IndexStep \in Nat \ {0}
    <3> TAKE t \in S
    <3>1. 1 * 1 <= ById(S, t) * IndexStep /\ ById(S, t) * IndexStep \in Nat
      BY <1>1, <2>2, ProductsGrow
    <3> QED
      BY <3>1
  <2>6. q \in [S -> Nat \ {0}]
    BY <2>1, <2>5
  <2> QED
    BY <2>4, <2>6 DEF q
<1>3. CASE ~ \E x, y \in S : x # y /\ Index(x) = Index(y)
  <2>1. q = [t \in S |-> Index(t) * IndexStep]
    BY <1>3 DEF InEmptyView
  <2> HIDE DEF q
  <2>2. \A t \in S : Index(t) \in Nat \ {0} /\ Index(t) * IndexStep \in Nat \ {0}
    BY IndexIs
  <2>3. \A x, y \in S : x # y => q[x] # q[y]
    <3> TAKE x \in S, y \in S
    <3>1. q[x] = Index(x) * IndexStep /\ q[y] = Index(y) * IndexStep
      BY <2>1
    <3> QED
      BY <1>1, <1>3, <2>2, <3>1, MultiplesDiffer
  <2>4. q \in [S -> Nat \ {0}]
    BY <2>1, <2>2
  <2> QED
    BY <2>3, <2>4 DEF q
<1> QED
  BY <1>2, <1>3

\* Lowest is the lowest.
LEMMA LowestIs ==
    ASSUME NEW p \in Positions, Rows(p) # {}
    PROVE  Lowest(p) \in Nat \ {0} /\ (\A x \in Rows(p) : Lowest(p) <= p[x]) /\ \E x \in Rows(p) : p[x] = Lowest(p)
<1> DEFINE S == {p[t] : t \in Rows(p)}
<1>1. S \subseteq Nat \ {0} /\ S # {} /\ \A x \in Rows(p) : p[x] \in S
  BY DEF Rows, Positions
<1>2. Lowest(p) = Min(S) /\ \A y \in S : \E x \in Rows(p) : p[x] = y
  BY DEF Lowest
<1> HIDE DEF S
<1>3. Min(S) \in S /\ \A y \in S : Min(S) <= y
  BY <1>1, MinIs
<1> QED
  BY <1>1, <1>2, <1>3

\* Where there is room, each of a batch that asks for nothing gets a place of its own above
\* the whole view; who asks gets what it asks for.
LEMMA OnTopIs ==
    ASSUME NEW p \in Positions, NEW B \in SUBSET Task, NEW asked \in [B -> Nat],
           Rows(p) # {} => Lowest(p) >= Cardinality(Wanting(asked)) + 1
    PROVE  /\ OnTop(p, asked) \in [B -> Nat \ {0}]
           /\ \A t \in Wanting(asked), x \in Rows(p) : OnTop(p, asked)[t] < p[x]
           /\ \A x, y \in Wanting(asked) : x # y => OnTop(p, asked)[x] # OnTop(p, asked)[y]
           /\ \A t \in B \ Wanting(asked) : OnTop(p, asked)[t] = asked[t]
<1> DEFINE W == Wanting(asked)
           n == Cardinality(W) + 1
           q == OnTop(p, asked)
<1>1. DOMAIN asked = B /\ W \in SUBSET Task /\ W \subseteq B /\ \A t \in B : t \in W <=> asked[t] = 0
  BY DEF Wanting
<1>2. /\ q = [t \in B |-> q[t]]
      /\ \A t \in B \ W : q[t] = asked[t]
      /\ \A t \in W : q[t] = IF Rows(p) = {} THEN InEmptyView(W)[t] ELSE (Lowest(p) * ById(W, t)) \div n
  BY <1>1 DEF OnTop
<1>3. n \in Nat \ {0}
  BY <1>1, TasksFinite
<1>4. ASSUME Rows(p) = {}
      PROVE  (\A t \in W : q[t] \in Nat \ {0}) /\ \A x, y \in W : x # y => q[x] # q[y]
  <2> HIDE DEF W, q
  <2>1. InEmptyView(W) \in [W -> Nat \ {0}] /\ \A x, y \in W : x # y => InEmptyView(W)[x] # InEmptyView(W)[y]
    BY <1>1, EmptyViewIs
  <2> QED
    BY <1>2, <1>4, <2>1
<1>5. ASSUME Rows(p) # {}
      PROVE  /\ \A t \in W : q[t] \in Nat \ {0} /\ \A x \in Rows(p) : q[t] < p[x]
             /\ \A x, y \in W : x # y => q[x] # q[y]
  <2> DEFINE g == Lowest(p)
  <2>1. g \in Nat \ {0} /\ g >= n /\ \A x \in Rows(p) : g <= p[x] /\ p[x] \in Nat
    <3>1. \A x \in Rows(p) : p[x] \in Nat
      BY DEF Rows, Positions
    <3> QED
      BY <1>5, <3>1, LowestIs
  <2>2. \A t \in W : ById(W, t) \in Nat /\ ById(W, t) >= 1 /\ ById(W, t) < n
    <3> TAKE t \in W
    <3>1. ById(W, t) \in 1..Cardinality(W) /\ Cardinality(W) \in Nat
      <4> HIDE DEF W
      <4> QED
        BY <1>1, IdOrders, TasksFinite
    <3> QED
      BY <3>1
  <2>3. \A t \in W : q[t] = (g * ById(W, t)) \div n
    BY <1>2, <1>5
  <2> HIDE DEF W, g, q, n
  <2>4. ASSUME NEW t \in W
        PROVE  q[t] \in Nat \ {0} /\ q[t] < g
    <3> DEFINE r == ById(W, t)
    <3>1. r \in Nat /\ r >= 1 /\ r < n /\ q[t] = (g * r) \div n
      BY <2>2, <2>3
    <3> HIDE DEF r
    <3>2. g * 1 <= g * r /\ g * r \in Nat
      BY <2>1, <3>1, ProductsGrow
    <3>3. g * n >= g * r + g /\ g * n \in Nat
      BY <1>3, <2>1, <3>1, MultiplesApart
    <3>4. g * r < g * n
      BY <2>1, <3>2, <3>3
    <3>5. (g * r) \div n \in Nat \ {0}
      BY <1>3, <2>1, <3>2, DivideSome
    <3>6. (g * r) \div n < g
      BY <1>3, <2>1, <3>2, <3>4, DivideBelow
    <3> QED
      BY <3>1, <3>5, <3>6
  <2>5. ASSUME NEW x \in W, NEW y \in W, x < y
        PROVE  q[x] < q[y]
    <3> DEFINE r == ById(W, x)
               s == ById(W, y)
    <3>1. r \in Nat /\ s \in Nat /\ q[x] = (g * r) \div n /\ q[y] = (g * s) \div n
      BY <2>2, <2>3
    <3>2. r < s
      BY <1>1, <2>5, IdOrders
    <3> HIDE DEF r, s
    <3>3. g * s >= g * r + g /\ g * s \in Nat /\ g * r \in Nat
      BY <2>1, <3>1, <3>2, MultiplesApart
    <3>4. g * s >= g * r + n
      BY <1>3, <2>1, <3>3
    <3> QED
      BY <1>3, <3>1, <3>3, <3>4, DivideApart
  <2>6. \A x, y \in W : x # y => x < y \/ y < x
    BY <1>1, PositionAssumption DEF Task
  <2>7. \A x, y \in W : x # y => q[x] # q[y]
    BY <2>4, <2>5, <2>6
  <2>8. \A t \in W, x \in Rows(p) : q[t] < p[x]
    BY <2>1, <2>4
  <2> QED
    BY <2>4, <2>7, <2>8
<1> HIDE DEF q, W
<1>6. \A t \in B : q[t] \in Nat \ {0}
  BY <1>1, <1>2, <1>4, <1>5
<1>7. q \in [B -> Nat \ {0}]
  BY <1>2, <1>6
<1> QED
  BY <1>1, <1>2, <1>4, <1>5, <1>7 DEF q, W

\* A view recalculated for a batch has room for it, and drops the rows that gave the batch.
LEMMA RoomOnTopIs ==
    ASSUME NEW p \in Positions, NEW found \in SUBSET Task, NEW B \in SUBSET Task, NEW asked \in [B -> Nat],
           found = {} => Rows(p) = {}
    PROVE  /\ RoomOnTop(p, found, asked) \in Positions
           /\ Rows(RoomOnTop(p, found, asked)) # {} =>
                 Lowest(RoomOnTop(p, found, asked)) >= Cardinality(Wanting(asked)) + 1
           /\ Rows(RoomOnTop(p, found, asked)) \in {Rows(p), found \ (B \ Rows(p))}
           /\ Keeps(p, RoomOnTop(p, found, asked), Rows(p) \cap Rows(RoomOnTop(p, found, asked)))
           /\ NoTie(p, RoomOnTop(p, found, asked))
<1> DEFINE W == Wanting(asked)
           q == Recalculated(p, found)
           r == RoomOnTop(p, found, asked)
           full == W # {} /\ Rows(p) # {} /\ Lowest(p) < MinSpacing * (Cardinality(W) + 1)
<1>1. DOMAIN asked = B /\ W \in SUBSET Task /\ Cardinality(W) \in 0..Tasks /\ Tasks \in Nat
  <2>1. W \in SUBSET Task
    BY DEF Wanting
  <2> QED
    BY <2>1, TasksFinite, PositionAssumption
<1>2. CASE ~full
  <2>1. r = p
    BY <1>2 DEF RoomOnTop
  <2>2. Rows(p) # {} => Lowest(p) >= Cardinality(W) + 1
    <3> SUFFICES ASSUME Rows(p) # {}
                 PROVE  Lowest(p) >= Cardinality(W) + 1
      OBVIOUS
    <3>1. Lowest(p) \in Nat \ {0}
      BY LowestIs
    <3>2. CASE W = {}
      BY <3>1, <3>2, FS_EmptySet
    <3>3. CASE W # {}
      BY <1>1, <1>2, <3>1, <3>3 DEF MinSpacing
    <3> QED
      BY <3>2, <3>3
  <2>3. NoTie(p, p) /\ Keeps(p, p, Rows(p) \cap Rows(p))
    BY DEF NoTie, Keeps, Rows
  <2> QED
    BY <2>1, <2>2, <2>3
<1>3. CASE full
  <2>1. found # {}
    BY <1>3
  <2>2. r = [t \in Task |-> IF t \in B \ Rows(p) THEN NoRow ELSE q[t]]
    BY <1>1, <1>3 DEF RoomOnTop
  <2>3. /\ q \in Positions /\ Rows(q) = found /\ Keeps(p, q, Rows(p) \cap Rows(q)) /\ NoTie(p, q)
    BY <2>1, RecalculatedIs
  <2>4. \A x \in found : q[x] > Tasks
    <3>1. q = Spread(p, found) /\ p \in Places
      BY <2>1 DEF Recalculated, Positions, Places
    <3> QED
      BY <3>1, SpreadOrders
  <2> HIDE DEF q, r, W, full
  <2>5. /\ \A t \in B \ Rows(p) : r[t] = NoRow
        /\ \A t \in Task \ (B \ Rows(p)) : r[t] = q[t]
    BY <2>2
  <2>6. r \in Positions
    BY <2>2, <2>3 DEF Positions
  <2>7. Rows(r) = found \ (B \ Rows(p)) /\ \A x \in Rows(r) : r[x] = q[x] /\ x \in Rows(q)
    BY <2>3, <2>5 DEF Rows
  <2>8. Keeps(p, r, Rows(p) \cap Rows(r))
    BY <2>3, <2>7 DEF Keeps
  <2>9. NoTie(p, r)
    BY <2>3, <2>7 DEF NoTie
  <2>10. Rows(r) # {} => Lowest(r) >= Cardinality(W) + 1
    <3> SUFFICES ASSUME Rows(r) # {}
                 PROVE  Lowest(r) >= Cardinality(W) + 1
      OBVIOUS
    <3>1. Lowest(r) \in Nat /\ \E x \in Rows(r) : r[x] = Lowest(r)
      BY <2>6, LowestIs
    <3> QED
      BY <1>1, <2>3, <2>4, <2>7, <3>1
  <2> QED
    BY <2>6, <2>7, <2>8, <2>9, <2>10 DEF r, W
<1> QED
  BY <1>2, <1>3

\* Rows for a batch on top of a view with room for it, none of which is compared with the
\* others: still no two fall together, when none asks for a place.
LEMMA InsertedOnTop ==
    ASSUME NEW p \in Positions, NEW B \in SUBSET Task, NEW asked \in [B -> Nat],
           Rows(p) # {} => Lowest(p) >= Cardinality(Wanting(asked)) + 1,
           Wanting(asked) = B
    PROVE  NoTie(p, Inserted(p, OnTop(p, asked)))
<1> DEFINE new == OnTop(p, asked)
           q == Inserted(p, new)
<1>1. /\ new \in [B -> Nat \ {0}]
      /\ \A t \in B, x \in Rows(p) : new[t] < p[x]
      /\ \A x, y \in B : x # y => new[x] # new[y]
  <2>1. /\ new \in [B -> Nat \ {0}]
        /\ \A t \in Wanting(asked), x \in Rows(p) : new[t] < p[x]
        /\ \A x, y \in Wanting(asked) : x # y => new[x] # new[y]
        /\ \A t \in B \ Wanting(asked) : new[t] = asked[t]
    BY OnTopIs
  <2> QED
    BY <2>1
<1> HIDE DEF new
<1>2. /\ q \in Positions /\ Rows(q) = Rows(p) \cup B
      /\ \A x \in Rows(p) : q[x] = p[x]
      /\ \A x \in B \ Rows(p) : q[x] = new[x]
  <2>1. new \in [B -> Nat \ {0}]
    BY <1>1
  <2> QED
    BY <2>1, InsertedIs
<1> HIDE DEF q
<1>3. \A x \in Rows(p) : p[x] \in Nat /\ p[x] # NoRow
  BY DEF Rows, Positions
<1>4. \A t \in B, x \in Rows(p) : new[t] # p[x]
  BY <1>1, <1>3
<1> SUFFICES ASSUME NEW x \in Rows(q), NEW y \in Rows(q), x # y, q[x] = q[y]
             PROVE  p[x] = p[y] /\ p[x] # NoRow
  BY DEF NoTie, q, new
<1>5. x \in Rows(p) /\ y \in Rows(p)
  BY <1>1, <1>2, <1>4
<1> QED
  BY <1>2, <1>3, <1>5

-----------------------------------------------------------------------------
(* The view, the handlers and the jobs.                                    *)

JobNames == {"idle", "heal", "listener", "cron", "recalculation", "repair"}

\* Rows of a project's view are those of its tasks, all of them on a board; a filter with
\* a view matches something; what a job of a filter found is still about a filter.
PlacesInv ==
    /\ kind \in Kinds /\ member \in SUBSET Task /\ done \in SUBSET member /\ pos \in Positions
    /\ kind = "kanban" => Rows(pos) = member
    /\ kind = "list" => Rows(pos) \subseteq member
    /\ kind = "filter" => member # {} /\ done = {}
    /\ job \in [name : JobNames, tasks : SUBSET Task, at : Nat]
    /\ job.name \in {"heal", "listener", "cron", "recalculation"} => kind = "filter"
    /\ job.name = "heal" => job.at = 0

\* What OrderIsKept, NoNewTies and CardsLand say of a step.
OrderStep ==
    StaleRepair \/ StaleCron \/ \E moved \in Task :
       \A x, y \in (Shown \cap Shown') \ {moved} : pos[x] < pos[y] => pos'[x] < pos'[y]
TiesStep ==
    \/ StaleRepair
    \/ job.name = "listener" /\ job.at # 0 /\ job' = Idle
    \/ \A x, y \in Rows(pos)' : x # y /\ pos'[x] = pos'[y] => pos[x] = pos[y] /\ pos[x] # NoRow

\* A view always shows something of what it recalculates, or has no row.
LEMMA NothingToShow ==
    ASSUME PlacesInv, member = {}
    PROVE  Rows(pos) = {}
BY DEF PlacesInv, Kinds

\* Order and places kept between the rows of two states are kept by the step.
LEMMA StepKeeps ==
    ASSUME NEW moved \in Task, Keeps(pos, pos', (Shown \cap Shown') \ {moved}), NoTie(pos, pos')
    PROVE  OrderStep /\ TiesStep
<1>1. OrderStep
  BY DEF OrderStep, Keeps
<1>2. TiesStep
  BY DEF TiesStep, NoTie
<1> QED
  BY <1>1, <1>2

\* A drag.
LEMMA DragKeeps ==
    ASSUME PlacesInv, NEW t \in Task, NEW at \in DragTo, Drag(t, at)
    PROVE  PlacesInv' /\ OrderStep /\ TiesStep
<1>1. /\ t \in member /\ pos' = Placed(pos, member, t, at)
      /\ kind' = kind /\ member' = member /\ done' = done /\ job' = job
  BY DEF Drag
<1>2. pos \in Positions /\ member \in SUBSET Task /\ at \in Nat
  BY PositionAssumption DEF PlacesInv
<1>3. /\ pos' \in Positions /\ Rows(pos') = IF at >= 1 THEN Rows(pos) \cup {t} ELSE member
      /\ Keeps(pos, pos', (Rows(pos) \cap Rows(pos')) \ {t})
      /\ NoTie(pos, pos')
  <2>1. at >= 1 \/ t \in member
    BY <1>1
  <2> QED
    BY <1>1, <1>2, <2>1, PlacedIs
<1>4. PlacesInv'
  BY <1>1, <1>3 DEF PlacesInv
<1>5. Keeps(pos, pos', (Shown \cap Shown') \ {t})
  BY <1>3 DEF Keeps, Shown
<1> QED
  BY <1>3, <1>4, <1>5, StepKeeps

\* The place a card keeps, and the one it is given in the done bucket.
LEMMA DonePlace ==
    ASSUME PlacesInv, NEW p \in Positions, NEW t \in Task
    PROVE  /\ Kept(p, t) \in Nat \ {0} /\ TopOfDone(p, t) \in Nat
           /\ \A x \in (done \cap Rows(p)) \ {t} : TopOfDone(p, t) < p[x]
<1>1. Kept(p, t) \in Nat \ {0}
  BY IndexIs DEF Kept, Positions
<1> DEFINE S == {p[x] : x \in (done \ {t}) \cap Rows(p)}
<1>2. \A x \in Rows(p) : p[x] \in Nat \ {0}
  BY DEF Rows, Positions
<1>3. S \subseteq Nat \ {0} /\ \A x \in (done \cap Rows(p)) \ {t} : p[x] \in S
  BY <1>2
<1>4. TopOfDone(p, t) = IF S = {} THEN Kept(p, t) ELSE Min(S) \div 2
  BY DEF TopOfDone
<1> HIDE DEF S
<1>5. CASE S = {}
  BY <1>1, <1>3, <1>4, <1>5
<1>6. CASE S # {}
  <2>1. Min(S) \in S /\ \A y \in S : Min(S) <= y
    BY <1>3, <1>6, MinIs
  <2>2. Min(S) \in Nat \ {0}
    BY <1>3, <2>1
  <2>3. Min(S) \div 2 \in Nat /\ Min(S) \div 2 < Min(S)
    BY <2>2, DivideBelow
  <2>4. \A y \in S : Min(S) \div 2 < y
    BY <1>3, <2>1, <2>2, <2>3
  <2> QED
    BY <1>1, <1>3, <1>4, <1>6, <2>3, <2>4
<1> QED
  BY <1>5, <1>6

\* A card that is finished or opened again.
LEMMA BoardKeeps ==
    ASSUME PlacesInv, NEW t \in Task, Finish(t) \/ Reopen(t)
    PROVE  PlacesInv' /\ OrderStep /\ TiesStep
<1>1. pos \in Positions /\ member \in SUBSET Task /\ done \in SUBSET member
  BY DEF PlacesInv
<1>2. PICK at \in Nat : pos' = Placed(pos, member, t, at)
  <2>1. Kept(pos, t) \in Nat /\ TopOfDone(pos, t) \in Nat
    BY <1>1, DonePlace
  <2> QED
    BY <2>1 DEF Finish, Reopen
<1>3. /\ t \in member /\ kind' = kind /\ member' = member /\ job' = job
      /\ done' \in SUBSET member /\ kind = "kanban"
  BY <1>1 DEF Finish, Reopen
<1>4. /\ pos' \in Positions /\ Rows(pos') = IF at >= 1 THEN Rows(pos) \cup {t} ELSE member
      /\ Keeps(pos, pos', (Rows(pos) \cap Rows(pos')) \ {t})
      /\ NoTie(pos, pos')
  <2>1. at >= 1 \/ t \in member
    BY <1>3
  <2> QED
    BY <1>1, <1>2, <2>1, PlacedIs
<1>5. PlacesInv'
  <2>1. Rows(pos') = member
    BY <1>3, <1>4 DEF PlacesInv
  <2> QED
    BY <1>1, <1>3, <1>4, <2>1 DEF PlacesInv
<1>6. Keeps(pos, pos', (Shown \cap Shown') \ {t})
  BY <1>4 DEF Keeps, Shown
<1> QED
  BY <1>4, <1>5, <1>6, StepKeeps

\* Steps that move no card and write no row but to drop some.
LEMMA RowsStay ==
    ASSUME PlacesInv, pos' \in Positions, \A x \in Rows(pos') : pos'[x] = pos[x]
    PROVE  OrderStep /\ TiesStep
<1>1. 1 \in Task
  BY PositionAssumption DEF Task
<1>2. Keeps(pos, pos', (Shown \cap Shown') \ {1})
  BY DEF Keeps, Shown
<1>3. NoTie(pos, pos')
  BY DEF NoTie, Rows
<1> QED
  BY <1>1, <1>2, <1>3, StepKeeps

\* What a request for a batch asks for.
LEMMA AskedIs ==
    ASSUME NEW asked \in Asked
    PROVE  /\ DOMAIN asked \in SUBSET Task /\ DOMAIN asked # {}
           /\ asked \in [DOMAIN asked -> Nat]
<1>1. Explicit \cup {0} \subseteq Nat
  BY PositionAssumption
<1>2. PICK batch \in SUBSET Task \ {{}} :
         asked \in {[t \in batch |-> IF t = x THEN at ELSE 0] : x \in batch, at \in Explicit \cup {0}}
  BY DEF Asked
<1>3. PICK x \in batch : \E at \in Explicit \cup {0} : asked = [t \in batch |-> IF t = x THEN at ELSE 0]
  BY <1>2
<1>4. PICK at \in Explicit \cup {0} : asked = [t \in batch |-> IF t = x THEN at ELSE 0]
  BY <1>3
<1> QED
  BY <1>1, <1>4

\* The rows when a batch is created: one of its tasks may have been placed in the done bucket.
CreateBefore(asked, finished) ==
    IF finished = {} THEN pos
    ELSE LET t == CHOOSE x \in finished : TRUE
         IN  Placed(pos, member \cup DOMAIN asked, t, TopOfDone(pos, t))

\* That one aside, nobody passes anybody, and every row there was is there.
LEMMA CreateBeforeIs ==
    ASSUME PlacesInv, NEW asked \in Asked, NEW finished,
           finished = {} \/ \E t \in DOMAIN asked : finished = {t},
           kind # "filter", DOMAIN asked \cap member = {}
    PROVE  /\ CreateBefore(asked, finished) \in Positions
           /\ Rows(pos) \subseteq Rows(CreateBefore(asked, finished))
           /\ Rows(CreateBefore(asked, finished)) \subseteq member \cup DOMAIN asked
           /\ Keeps(pos, CreateBefore(asked, finished), Rows(pos))
           /\ NoTie(pos, CreateBefore(asked, finished))
<1> DEFINE found == member \cup DOMAIN asked
           p == CreateBefore(asked, finished)
<1>1. /\ pos \in Positions /\ Rows(pos) \subseteq member /\ member \in SUBSET Task
      /\ DOMAIN asked \in SUBSET Task /\ found \in SUBSET Task
  BY AskedIs DEF PlacesInv, Kinds
<1>2. CASE finished = {}
  <2>1. p = pos
    BY <1>2 DEF CreateBefore
  <2> QED
    BY <1>1, <2>1 DEF Keeps, NoTie, Rows
<1>3. CASE finished # {}
  <2>1. PICK t \in DOMAIN asked : finished = {t}
    BY <1>3
  <2>2. (CHOOSE x \in finished : TRUE) = t
    BY <2>1
  <2>3. p = Placed(pos, found, t, TopOfDone(pos, t))
    BY <1>3, <2>2 DEF CreateBefore
  <2>4. TopOfDone(pos, t) \in Nat /\ t \in Task /\ t \in found
    BY <1>1, DonePlace
  <2> DEFINE at == TopOfDone(pos, t)
  <2> HIDE DEF p, found, at
  <2>5. /\ p \in Positions /\ Rows(p) = (IF at >= 1 THEN Rows(pos) \cup {t} ELSE found)
        /\ Keeps(pos, p, (Rows(pos) \cap Rows(p)) \ {t})
        /\ NoTie(pos, p)
    <3>1. p = Placed(pos, found, t, at) /\ at \in Nat /\ (at >= 1 \/ t \in found)
      BY <2>3, <2>4 DEF at
    <3>2. t \in Task /\ pos \in Positions /\ found \in SUBSET Task
      BY <1>1, <2>4
    <3> QED
      BY <3>1, <3>2, PlacedIs
  <2>6. Rows(pos) \subseteq Rows(p) /\ Rows(p) \subseteq found /\ t \notin Rows(pos)
    BY <1>1, <2>5 DEF found
  <2>7. Keeps(pos, p, Rows(pos))
    BY <2>5, <2>6 DEF Keeps
  <2> QED
    BY <2>5, <2>6, <2>7 DEF p, found
<1> QED
  BY <1>2, <1>3

\* Tasks are created, on top of what was there.
LEMMA CreateKeeps ==
    ASSUME PlacesInv, NEW asked \in Asked, NEW finished,
           finished = {} \/ \E t \in DOMAIN asked : finished = {t},
           Create(asked, finished)
    PROVE  /\ PlacesInv' /\ OrderStep /\ TiesStep
           /\ finished = {} => \A t \in Wanting(asked), x \in Rows(pos) : Above(t, x)
<1> DEFINE B == DOMAIN asked
           found == member \cup B
           p == CreateBefore(asked, finished)
           r == RoomOnTop(p, found, asked)
           new == OnTop(r, asked)
<1>1. /\ kind # "filter" /\ B # {} /\ B \cap member = {}
      /\ member' = found /\ done' = done \cup finished /\ kind' = kind /\ job' = job
      /\ pos' = Added(r, new)
  BY DEF Create, CreateBefore
<1>2. /\ pos \in Positions /\ Rows(pos) \subseteq member /\ member \in SUBSET Task
      /\ B \in SUBSET Task /\ found \in SUBSET Task /\ asked \in [B -> Nat] /\ finished \in SUBSET B
      /\ done \in SUBSET member
  BY <1>1, AskedIs DEF PlacesInv, Kinds
<1>3. /\ p \in Positions /\ Rows(pos) \subseteq Rows(p) /\ Rows(p) \subseteq found
      /\ Keeps(pos, p, Rows(pos)) /\ NoTie(pos, p)
  BY <1>1, CreateBeforeIs
<1>4. found # {} /\ \A x \in member : x \in found /\ x \notin B
  BY <1>1
<1>5. finished = {} => p = pos
  BY DEF CreateBefore
<1> HIDE DEF p, found
<1>6. /\ r \in Positions
      /\ Rows(r) # {} => Lowest(r) >= Cardinality(Wanting(asked)) + 1
      /\ Rows(r) \in {Rows(p), found \ (B \ Rows(p))}
      /\ Keeps(p, r, Rows(p) \cap Rows(r))
      /\ NoTie(p, r)
  <2> HIDE DEF B
  <2> QED
    BY <1>2, <1>3, <1>4, RoomOnTopIs
<1> HIDE DEF r
<1>7. /\ new \in [B -> Nat \ {0}]
      /\ \A t \in Wanting(asked), x \in Rows(r) : new[t] < r[x]
  BY <1>2, <1>6, OnTopIs
<1> HIDE DEF new
<1>8. /\ pos' \in Positions /\ Rows(pos') = Rows(r) \cup B
      /\ Keeps(r, pos', Rows(r)) /\ NoTie(r, pos')
      /\ \A t \in B \ Rows(r), x \in Rows(r) : new[t] < r[x] => pos'[t] < pos'[x]
  <2> HIDE DEF B
  <2> QED
    BY <1>1, <1>2, <1>6, <1>7, AddedIs
<1>9. Rows(pos) \subseteq Rows(r) /\ Rows(r) \subseteq found
  BY <1>2, <1>3, <1>4, <1>6
<1>10. Keeps(pos, pos', Rows(pos))
  <2>1. Keeps(pos, r, Rows(pos))
    BY <1>3, <1>6, <1>9 DEF Keeps
  <2> QED
    BY <1>8, <1>9, <2>1 DEF Keeps
<1>11. NoTie(pos, pos')
  <2>1. NoTie(pos, r)
    BY <1>2, <1>3, <1>6, Compose
  <2> QED
    BY <1>2, <1>6, <1>8, <2>1, Compose
<1>12. PlacesInv'
  <2>1. Rows(pos') \subseteq found /\ (kind = "kanban" => Rows(pos') = found)
    BY <1>8, <1>9 DEF PlacesInv, found
  <2>2. done' \in SUBSET member'
    BY <1>1, <1>2 DEF found
  <2> QED
    BY <1>1, <1>2, <1>8, <2>1, <2>2 DEF PlacesInv, Kinds
<1>13. OrderStep /\ TiesStep
  <2>1. PICK t \in B : t \in Task
    BY <1>1, <1>2
  <2>2. Keeps(pos, pos', (Shown \cap Shown') \ {t})
    BY <1>10 DEF Keeps, Shown
  <2> QED
    BY <1>11, <2>1, <2>2, StepKeeps
<1>14. ASSUME finished = {}, NEW t \in Wanting(asked), NEW x \in Rows(pos)
       PROVE  Above(t, x)
  <2>1. t \in B /\ t \notin Rows(p)
    <3>1. t \in B
      BY DEF Wanting
    <3> QED
      BY <1>1, <1>2, <1>5, <1>14, <3>1
  <2>2. t \notin Rows(r) /\ x \in Rows(r)
    BY <1>6, <1>9, <2>1
  <2>3. pos'[t] < pos'[x] /\ t \in Rows(pos')
    BY <1>7, <1>8, <2>1, <2>2
  <2> QED
    BY <2>3 DEF Above
<1> QED
  BY <1>12, <1>13, <1>14

\* A task comes from another project.
LEMMA TransferKeeps ==
    ASSUME PlacesInv, NEW t \in Task, NEW at \in Explicit \cup {0}, TransferIn(t, at)
    PROVE  PlacesInv' /\ OrderStep /\ TiesStep
<1> DEFINE asked == [x \in {t} |-> at]
           r == RoomOnTop(pos, member, asked)
           new == OnTop(r, asked)
<1>1. /\ kind # "filter" /\ t \notin member /\ member' = member \cup {t} /\ kind' = kind /\ job' = job
      /\ pos' = IF kind = "kanban" THEN Placed(r, member, t, new[t]) ELSE pos
      /\ done' \in {done, done \cup {t}}
  BY DEF TransferIn
<1>2. /\ pos \in Positions /\ Rows(pos) \subseteq member /\ member \in SUBSET Task
      /\ asked \in [{t} -> Nat] /\ {t} \in SUBSET Task
  BY <1>1, PositionAssumption DEF PlacesInv, Kinds
<1> HIDE DEF asked
<1>3. CASE kind = "kanban"
  <2>1. pos' = Placed(r, member, t, new[t])
    BY <1>1, <1>3
  <2>2. /\ r \in Positions
        /\ Rows(r) # {} => Lowest(r) >= Cardinality(Wanting(asked)) + 1
        /\ Rows(r) \in {Rows(pos), member \ ({t} \ Rows(pos))}
        /\ Keeps(pos, r, Rows(pos) \cap Rows(r))
        /\ NoTie(pos, r)
    <3>1. member = {} => Rows(pos) = {}
      BY NothingToShow
    <3> QED
      BY <1>2, <3>1, RoomOnTopIs
  <2> HIDE DEF r
  <2>3. new \in [{t} -> Nat \ {0}]
    BY <1>2, <2>2, OnTopIs
  <2>4. new[t] \in Nat /\ new[t] >= 1
    BY <2>3
  <2> HIDE DEF new
  <2>5. Rows(pos) = member
    BY <1>3 DEF PlacesInv
  <2>6. Rows(r) = member
    BY <1>1, <2>2, <2>5
  <2>7. /\ pos' \in Positions /\ Rows(pos') = Rows(r) \cup {t}
        /\ Keeps(r, pos', (Rows(r) \cap Rows(pos')) \ {t})
        /\ NoTie(r, pos')
    <3> DEFINE top == new[t]
    <3>1. top \in Nat /\ top >= 1 /\ pos' = Placed(r, member, t, top)
      BY <2>1, <2>4
    <3> HIDE DEF top
    <3>2. /\ Placed(r, member, t, top) \in Positions
          /\ Rows(Placed(r, member, t, top)) = IF top >= 1 THEN Rows(r) \cup {t} ELSE member
          /\ Keeps(r, Placed(r, member, t, top), (Rows(r) \cap Rows(Placed(r, member, t, top))) \ {t})
          /\ NoTie(r, Placed(r, member, t, top))
      <4>1. r \in Positions /\ member \in SUBSET Task /\ t \in Task /\ top \in Nat /\ (top >= 1 \/ t \in member)
        BY <1>2, <2>2, <3>1
      <4> QED
        BY <4>1, PlacedIs
    <3> QED
      BY <3>1, <3>2
  <2>8. PlacesInv'
    BY <1>1, <1>2, <1>3, <2>4, <2>6, <2>7 DEF PlacesInv, Kinds
  <2>9. Keeps(pos, pos', (Shown \cap Shown') \ {t})
    <3>1. \A x \in (Shown \cap Shown') \ {t} : x \in Rows(pos) /\ x \in Rows(r) /\ x \in Rows(pos') /\ x # t
      BY <2>5, <2>6 DEF Shown
    <3> QED
      BY <2>2, <2>7, <3>1 DEF Keeps
  <2>10. NoTie(pos, pos')
    BY <1>2, <2>2, <2>7, Compose
  <2> QED
    BY <2>8, <2>9, <2>10, StepKeeps
<1>4. CASE kind # "kanban"
  <2>1. pos' = pos
    BY <1>1, <1>4
  <2>2. PlacesInv'
    BY <1>1, <1>2, <1>4, <2>1 DEF PlacesInv, Kinds
  <2> QED
    BY <1>2, <2>1, <2>2, RowsStay
<1> QED
  BY <1>3, <1>4

\* A task goes.
LEMMA LeaveKeeps ==
    ASSUME PlacesInv, NEW t \in Task, Leave(t)
    PROVE  PlacesInv' /\ OrderStep /\ TiesStep
<1>1. /\ t \in member /\ (kind = "filter" => member # {t})
      /\ member' = member \ {t} /\ done' = done \ {t} /\ kind' = kind /\ job' = job
      /\ pos' = [pos EXCEPT ![t] = NoRow]
  BY DEF Leave
<1>2. /\ pos' \in Positions /\ Rows(pos') = Rows(pos) \ {t} /\ \A x \in Rows(pos') : pos'[x] = pos[x]
  BY <1>1 DEF PlacesInv, Positions, Rows, NoRow
<1>3. PlacesInv'
  BY <1>1, <1>2 DEF PlacesInv, Kinds
<1> QED
  BY <1>2, <1>3, RowsStay

\* A recalculation, or nothing, as a list becomes a board or a filter is edited.
LEMMA RecalculationKeeps ==
    ASSUME PlacesInv, NEW found \in SUBSET Task, pos' \in {pos, Recalculated(pos, found)}
    PROVE  /\ pos' \in Positions /\ OrderStep /\ TiesStep
           /\ pos' = pos \/ Rows(pos') = (IF found = {} THEN Rows(pos) ELSE found)
<1>1. pos \in Positions
  BY DEF PlacesInv
<1>2. CASE pos' = pos
  BY <1>1, <1>2, RowsStay
<1>3. CASE pos' = Recalculated(pos, found)
  <2>1. /\ pos' \in Positions /\ Rows(pos') = (IF found = {} THEN Rows(pos) ELSE found)
        /\ Keeps(pos, pos', Rows(pos) \cap Rows(pos')) /\ NoTie(pos, pos')
    BY <1>1, <1>3, RecalculatedIs
  <2>2. 1 \in Task
    BY PositionAssumption DEF Task
  <2>3. Keeps(pos, pos', (Shown \cap Shown') \ {1})
    BY <2>1 DEF Keeps, Shown
  <2> QED
    BY <2>1, <2>2, <2>3, StepKeeps
<1> QED
  BY <1>2, <1>3

LEMMA BecomeKanbanKeeps ==
    ASSUME PlacesInv, BecomeKanban
    PROVE  PlacesInv' /\ OrderStep /\ TiesStep
<1>1. /\ kind = "list" /\ kind' = "kanban" /\ member' = member /\ done' = done /\ job' = job
      /\ pos' \in {pos, Recalculated(pos, member)}
      /\ pos' = Recalculated(pos, member) \/ member \subseteq Rows(pos)
  BY DEF BecomeKanban
<1>2. pos \in Positions /\ member \in SUBSET Task /\ Rows(pos) \subseteq member
  BY <1>1 DEF PlacesInv
<1>3. /\ pos' \in Positions /\ OrderStep /\ TiesStep
      /\ pos' = pos \/ Rows(pos') = (IF member = {} THEN Rows(pos) ELSE member)
  BY <1>1, <1>2, RecalculationKeeps
<1>4. Rows(pos') = member
  <2>1. CASE pos' = Recalculated(pos, member)
    <3>1. Rows(pos') = (IF member = {} THEN Rows(pos) ELSE member)
      BY <1>2, <2>1, RecalculatedIs
    <3> QED
      BY <1>2, <3>1
  <2>2. CASE pos' = pos /\ member \subseteq Rows(pos)
    BY <1>2, <2>2
  <2> QED
    BY <1>1, <2>1, <2>2
<1>5. PlacesInv'
  BY <1>1, <1>3, <1>4 DEF PlacesInv, Kinds
<1> QED
  BY <1>3, <1>5

LEMMA EditFilterKeeps ==
    ASSUME PlacesInv, NEW matching \in SUBSET Task, EditFilter(matching)
    PROVE  PlacesInv' /\ OrderStep /\ TiesStep
<1>1. /\ kind = "filter" /\ matching # {} /\ member' = matching /\ kind' = kind /\ done' = done /\ job' = job
      /\ pos' \in {pos, Recalculated(pos, matching)}
  BY DEF EditFilter
<1>2. pos' \in Positions /\ OrderStep /\ TiesStep
  BY <1>1, RecalculationKeeps
<1>3. PlacesInv'
  BY <1>1, <1>2 DEF PlacesInv
<1> QED
  BY <1>2, <1>3

\* What a filter's job or the repair reads before it has the lock, and other steps that
\* leave the rows alone.
LEMMA QuietKeeps ==
    ASSUME PlacesInv, NEW t \in Task, NEW at \in Explicit \cup {0},
           \/ ChangeColumn(t) \/ Match(t) \/ BecomeList
           \/ HealRead \/ ListenerRead(t, at) \/ CronRead \/ (t \in Rows(pos) /\ RepairRead(pos[t]))
    PROVE  PlacesInv' /\ OrderStep /\ TiesStep
<1>1. pos' = pos /\ pos \in Positions
  BY DEF PlacesInv, ChangeColumn, Match, BecomeList, HealRead, ListenerRead, CronRead, RepairRead
<1>2. OrderStep /\ TiesStep
  BY <1>1, RowsStay
<1>3. CASE ChangeColumn(t)
  BY <1>1, <1>2, <1>3 DEF PlacesInv, ChangeColumn
<1>4. CASE Match(t)
  BY <1>1, <1>2, <1>4 DEF PlacesInv, Match
<1>5. CASE BecomeList
  BY <1>1, <1>2, <1>5 DEF PlacesInv, BecomeList, Kinds
<1>6. CASE HealRead
  <2>1. job' \in [name : JobNames, tasks : SUBSET Task, at : Nat] /\ job'.name = "heal" /\ job'.at = 0
    BY <1>6 DEF PlacesInv, HealRead, JobNames
  <2> QED
    BY <1>1, <1>2, <1>6, <2>1 DEF PlacesInv, HealRead
<1>7. CASE ListenerRead(t, at)
  <2>1. at \in Nat
    BY PositionAssumption
  <2>2. job' \in [name : JobNames, tasks : SUBSET Task, at : Nat] /\ job'.name = "listener"
    BY <1>7, <2>1 DEF ListenerRead, JobNames
  <2> QED
    BY <1>1, <1>2, <1>7, <2>2 DEF PlacesInv, ListenerRead
<1>8. CASE CronRead
  <2>1. /\ job' \in [name : JobNames, tasks : SUBSET Task, at : Nat]
        /\ job'.name \in {"cron", "recalculation"}
    BY <1>8 DEF CronRead, JobNames
  <2> QED
    BY <1>1, <1>2, <1>8, <2>1 DEF PlacesInv, CronRead
<1>9. CASE t \in Rows(pos) /\ RepairRead(pos[t])
  <2>1. pos[t] \in Nat /\ TiedAt(pos, pos[t]) \in SUBSET Task
    BY <1>1, <1>9 DEF Positions, Rows, TiedAt
  <2>2. job' \in [name : JobNames, tasks : SUBSET Task, at : Nat] /\ job'.name = "repair"
    BY <1>9, <2>1 DEF RepairRead, JobNames
  <2> QED
    BY <1>1, <1>2, <1>9, <2>2 DEF PlacesInv, RepairRead
<1> QED
  BY <1>2, <1>3, <1>4, <1>5, <1>6, <1>7, <1>8, <1>9

\* The view is put right for tasks that were without a row when it was read.
LEMMA AddWriteKeeps ==
    ASSUME PlacesInv, AddWrite
    PROVE  /\ PlacesInv' /\ OrderStep /\ TiesStep
           /\ job.at = 0 => \A t \in job.tasks \ Rows(pos), x \in Shown : Above(t, x)
<1> DEFINE B == job.tasks
           asked == [t \in B |-> job.at]
           r == RoomOnTop(pos, member, asked)
           new == OnTop(r, asked)
<1>1. /\ job.name \in {"heal", "listener"} /\ job' = Idle
      /\ pos' = Inserted(r, new) /\ kind' = kind /\ member' = member /\ done' = done
  BY DEF AddWrite
<1>2. /\ kind = "filter" /\ member # {} /\ pos \in Positions /\ member \in SUBSET Task
      /\ B \in SUBSET Task /\ job.at \in Nat /\ (job.name = "heal" => job.at = 0)
      /\ \A t \in B : t \in Task
  BY <1>1 DEF PlacesInv
<1>3. asked \in [B -> Nat] /\ Wanting(asked) = IF job.at = 0 THEN B ELSE {}
  BY <1>2 DEF Wanting
<1> HIDE DEF asked, B
<1>4. /\ r \in Positions
      /\ Rows(r) # {} => Lowest(r) >= Cardinality(Wanting(asked)) + 1
      /\ Rows(r) \in {Rows(pos), member \ (B \ Rows(pos))}
      /\ Keeps(pos, r, Rows(pos) \cap Rows(r))
      /\ NoTie(pos, r)
  BY <1>2, <1>3, RoomOnTopIs
<1> HIDE DEF r
<1>5. /\ new \in [B -> Nat \ {0}]
      /\ \A t \in Wanting(asked), x \in Rows(r) : new[t] < r[x]
  BY <1>2, <1>3, <1>4, OnTopIs
<1>6. job.at = 0 => NoTie(r, Inserted(r, new))
  <2> SUFFICES ASSUME job.at = 0
               PROVE  NoTie(r, Inserted(r, new))
    OBVIOUS
  <2>1. Wanting(asked) = B
    BY <1>3
  <2> QED
    BY <1>2, <1>3, <1>4, <2>1, InsertedOnTop
<1> HIDE DEF new
<1>7. /\ pos' \in Positions /\ Rows(pos') = Rows(r) \cup B
      /\ \A x \in Rows(r) : pos'[x] = r[x]
      /\ \A x \in B \ Rows(r) : pos'[x] = new[x]
  <2>1. /\ Inserted(r, new) \in Positions /\ Rows(Inserted(r, new)) = Rows(r) \cup B
        /\ \A x \in Rows(r) : Inserted(r, new)[x] = r[x]
        /\ \A x \in B \ Rows(r) : Inserted(r, new)[x] = new[x]
    <3>1. B \in SUBSET Task /\ r \in Positions /\ new \in [B -> Nat \ {0}]
      BY <1>2, <1>4, <1>5
    <3> QED
      BY <3>1, InsertedIs
  <2> QED
    BY <1>1, <2>1
<1>8. \A x \in member \cap Rows(pos) : x \in Rows(r)
  BY <1>4
<1>9. PlacesInv'
  <2>1. Idle \in [name : JobNames, tasks : SUBSET Task, at : Nat] /\ Idle.name = "idle"
    BY DEF Idle, JobNames
  <2> QED
    BY <1>1, <1>2, <1>7, <2>1 DEF PlacesInv
<1>10. OrderStep
  <2>1. 1 \in Task
    BY PositionAssumption DEF Task
  <2>2. \A x \in (Shown \cap Shown') \ {1} : x \in Rows(pos) /\ x \in Rows(r) /\ pos'[x] = r[x]
    BY <1>1, <1>7, <1>8 DEF Shown
  <2>3. \A x, y \in (Shown \cap Shown') \ {1} : pos[x] < pos[y] => pos'[x] < pos'[y]
    BY <1>4, <2>2 DEF Keeps
  <2> QED
    BY <2>1, <2>3 DEF OrderStep
<1>11. TiesStep
  <2>1. CASE job.at = 0
    <3>1. NoTie(pos, pos')
      BY <1>1, <1>2, <1>4, <1>6, <1>7, <2>1, Compose
    <3> QED
      BY <3>1 DEF TiesStep, NoTie
  <2>2. CASE job.at # 0
    BY <1>1, <1>2, <2>2 DEF TiesStep
  <2> QED
    BY <2>1, <2>2
<1>12. ASSUME job.at = 0, NEW t \in B \ Rows(pos), NEW x \in Shown
       PROVE  Above(t, x)
  <2>1. x \in Rows(r) /\ t \notin Rows(r) /\ t \in B
    BY <1>4, <1>8, <1>12 DEF Shown
  <2>2. new[t] < r[x] /\ pos'[x] = r[x] /\ pos'[t] = new[t] /\ t \in Rows(pos')
    BY <1>3, <1>5, <1>7, <1>12, <2>1
  <2> QED
    BY <2>2 DEF Above
<1> QED
  BY <1>9, <1>10, <1>11, <1>12 DEF B

\* The cron drops the rows of what it found outside the filter, and may recalculate.
LEMMA CronWriteKeeps ==
    ASSUME PlacesInv, CronWrite
    PROVE  PlacesInv' /\ OrderStep /\ TiesStep
<1> DEFINE kept == [t \in Task |-> IF t \in job.tasks THEN NoRow ELSE pos[t]]
<1>1. /\ job.name \in {"cron", "recalculation"} /\ job' = Idle
      /\ pos' = (IF job.name = "cron" THEN kept ELSE Recalculated(kept, member))
      /\ kind' = kind /\ member' = member /\ done' = done
  BY DEF CronWrite
<1>2. kind = "filter" /\ member # {} /\ pos \in Positions /\ member \in SUBSET Task
  BY <1>1 DEF PlacesInv
<1>3. /\ kept \in Positions
      /\ \A x \in Rows(kept) : x \in Rows(pos) /\ kept[x] = pos[x]
      /\ \A x \in Rows(pos) \ job.tasks : x \in Rows(kept)
  BY <1>2 DEF Positions, Rows
<1> HIDE DEF kept
<1>4. ASSUME pos' \in Positions
      PROVE  PlacesInv'
  <2>1. Idle \in [name : JobNames, tasks : SUBSET Task, at : Nat] /\ Idle.name = "idle"
    BY DEF Idle, JobNames
  <2> QED
    BY <1>1, <1>2, <1>4, <2>1 DEF PlacesInv
<1>5. CASE job.name = "cron"
  <2>1. pos' = kept
    BY <1>1, <1>5
  <2> QED
    BY <1>3, <1>4, <2>1, RowsStay
<1>6. CASE job.name = "recalculation"
  <2>1. pos' = Recalculated(kept, member)
    BY <1>1, <1>6
  <2>2. /\ pos' \in Positions /\ Rows(pos') = member
        /\ Keeps(kept, pos', Rows(kept) \cap Rows(pos')) /\ NoTie(kept, pos')
    BY <1>2, <1>3, <2>1, RecalculatedIs
  <2>3. NoTie(pos, pos')
    <3> SUFFICES ASSUME NEW x \in Rows(pos'), NEW y \in Rows(pos'), x # y, pos'[x] = pos'[y]
                 PROVE  pos[x] = pos[y] /\ pos[x] # NoRow
      BY DEF NoTie
    <3>1. kept[x] = kept[y] /\ kept[x] # NoRow /\ x \in Task /\ y \in Task
      BY <2>2 DEF NoTie, Rows
    <3>2. x \in Rows(kept) /\ y \in Rows(kept)
      BY <3>1 DEF Rows
    <3> QED
      BY <1>3, <3>1, <3>2
  <2>4. CASE StaleCron
    BY <1>4, <2>2, <2>3, <2>4 DEF OrderStep, TiesStep, NoTie
  <2>5. CASE ~StaleCron
    <3>1. job.tasks \cap member = {}
      BY <1>1, <1>6, <2>5 DEF StaleCron
    <3>2. \A x \in Shown \cap Shown' : x \in Rows(kept) /\ x \in Rows(pos') /\ kept[x] = pos[x]
      BY <1>3, <2>2, <3>1 DEF Shown
    <3>3. 1 \in Task
      BY PositionAssumption DEF Task
    <3>4. Keeps(pos, pos', (Shown \cap Shown') \ {1})
      BY <2>2, <3>2 DEF Keeps
    <3> QED
      BY <1>4, <2>2, <2>3, <3>3, <3>4, StepKeeps
  <2> QED
    BY <2>4, <2>5
<1> QED
  BY <1>1, <1>5, <1>6

\* The repair of a group that is as it was found keeps the order; of another it keeps the rows.
LEMMA RepairWriteKeeps ==
    ASSUME PlacesInv, RepairWrite
    PROVE  PlacesInv' /\ OrderStep /\ TiesStep
<1>1. /\ job.name = "repair" /\ job' = Idle /\ pos' = Resolved(pos, job.tasks, job.at)
      /\ kind' = kind /\ member' = member /\ done' = done
  BY DEF RepairWrite
<1>2. pos \in Positions /\ job.tasks \in SUBSET Task /\ job.at \in Nat
  BY DEF PlacesInv
<1>3. pos' \in Positions /\ Rows(pos') = Rows(pos)
  BY <1>1, <1>2, ResolvedRows
<1>4. PlacesInv'
  <2>1. Idle \in [name : JobNames, tasks : SUBSET Task, at : Nat] /\ Idle.name = "idle"
    BY DEF Idle, JobNames
  <2> QED
    BY <1>1, <1>3, <2>1 DEF PlacesInv
<1>5. CASE StaleRepair
  BY <1>4, <1>5 DEF OrderStep, TiesStep
<1>6. CASE ~StaleRepair
  <2>1. TiedAt(pos, job.at) = job.tasks
    BY <1>1, <1>6 DEF StaleRepair
  <2>2. Keeps(pos, pos', Rows(pos))
    BY <1>1, <1>2, <2>1, ResolvedOrders
  <2>3. NoTie(pos, pos')
    BY <1>2, <1>3, <2>2, KeepsNoTie
  <2>4. 1 \in Task
    BY PositionAssumption DEF Task
  <2>5. Keeps(pos, pos', (Shown \cap Shown') \ {1})
    BY <2>2 DEF Keeps, Shown
  <2> QED
    BY <1>4, <2>3, <2>4, <2>5, StepKeeps
<1> QED
  BY <1>5, <1>6

\* Every step keeps the invariant, the order and the places.
LEMMA NextKeeps ==
    ASSUME PlacesInv, Next
    PROVE  PlacesInv' /\ OrderStep /\ TiesStep
<1>1. 1 \in Task /\ 0 \in Explicit \cup {0}
  BY PositionAssumption DEF Task
<1>2. ASSUME NEW t \in Task, \E at \in DragTo : Drag(t, at)
      PROVE  PlacesInv' /\ OrderStep /\ TiesStep
  BY <1>2, DragKeeps
<1>3. ASSUME NEW t \in Task, Finish(t) \/ Reopen(t)
      PROVE  PlacesInv' /\ OrderStep /\ TiesStep
  BY <1>3, BoardKeeps
<1>4. ASSUME NEW t \in Task, Leave(t)
      PROVE  PlacesInv' /\ OrderStep /\ TiesStep
  BY <1>4, LeaveKeeps
<1>5. ASSUME NEW t \in Task, ChangeColumn(t) \/ Match(t)
      PROVE  PlacesInv' /\ OrderStep /\ TiesStep
  BY <1>1, <1>5, QuietKeeps
<1>6. ASSUME NEW t \in Task, NEW at \in Explicit \cup {0}, TransferIn(t, at)
      PROVE  PlacesInv' /\ OrderStep /\ TiesStep
  BY <1>6, TransferKeeps
<1>7. ASSUME NEW t \in Task, NEW at \in Explicit \cup {0}, ListenerRead(t, at)
      PROVE  PlacesInv' /\ OrderStep /\ TiesStep
  BY <1>7, QuietKeeps
<1>8. ASSUME NEW asked \in Asked, Create(asked, {}) \/ \E t \in DOMAIN asked : Create(asked, {t})
      PROVE  PlacesInv' /\ OrderStep /\ TiesStep
  <2>1. CASE Create(asked, {})
    BY <2>1, CreateKeeps
  <2>2. ASSUME NEW t \in DOMAIN asked, Create(asked, {t})
        PROVE  PlacesInv' /\ OrderStep /\ TiesStep
    <3>1. \E x \in DOMAIN asked : {t} = {x}
      OBVIOUS
    <3> QED
      BY <2>2, <3>1, CreateKeeps
  <2> QED
    BY <1>8, <2>1, <2>2
<1>9. ASSUME NEW matching \in SUBSET Task, EditFilter(matching)
      PROVE  PlacesInv' /\ OrderStep /\ TiesStep
  BY <1>9, EditFilterKeeps
<1>10. ASSUME NEW t \in Rows(pos), RepairRead(pos[t])
       PROVE  PlacesInv' /\ OrderStep /\ TiesStep
  <2>1. t \in Task
    BY DEF Rows
  <2> QED
    BY <1>1, <1>10, <2>1, QuietKeeps
<1>11. CASE BecomeList \/ HealRead \/ CronRead
  BY <1>1, <1>11, QuietKeeps
<1>12. CASE BecomeKanban
  BY <1>12, BecomeKanbanKeeps
<1>13. CASE AddWrite
  BY <1>13, AddWriteKeeps
<1>14. CASE CronWrite
  BY <1>14, CronWriteKeeps
<1>15. CASE RepairWrite
  BY <1>15, RepairWriteKeeps
<1> QED
  BY <1>2, <1>3, <1>4, <1>5, <1>6, <1>7, <1>8, <1>9, <1>10, <1>11, <1>12, <1>13, <1>14, <1>15, Zenon DEF Next

\* The invariant holds at the start and stays.
LEMMA PlacesHold == Spec => []PlacesInv
<1>1. Init => PlacesInv
  <2> SUFFICES ASSUME Init
               PROVE  PlacesInv
    OBVIOUS
  <2>1. pos \in Positions
    <3>1. Legacy \cup {NoRow} \subseteq (Nat \ {0}) \cup {NoRow}
      BY PositionAssumption
    <3> QED
      BY <3>1 DEF Init, Positions
  <2>2. Idle \in [name : JobNames, tasks : SUBSET Task, at : Nat] /\ Idle.name = "idle"
    BY DEF Idle, JobNames
  <2> QED
    BY <2>1, <2>2 DEF Init, PlacesInv, Kinds
<1>2. PlacesInv /\ UNCHANGED vars => PlacesInv'
  BY DEF PlacesInv, vars
<1>3. PlacesInv /\ [Next]_vars => PlacesInv'
  BY <1>2, NextKeeps
<1> QED
  BY <1>1, <1>3, PTL DEF Spec

-----------------------------------------------------------------------------
(* The theorems.                                                           *)

\* Whatever a step does to make room, at most one card changes its place among the others
\* (updateTaskPosition, RecalculateTaskPositions, resolveTaskPositionConflicts and their
\* callers); only the two jobs that act on what is no longer so do otherwise.
THEOREM OrderKept == Spec => OrderIsKept
<1>1. PlacesInv /\ [Next]_vars => [OrderStep]_pos
  BY NextKeeps DEF vars
<1> QED
  BY <1>1, PlacesHold, PTL DEF Spec, OrderIsKept, OrderStep

\* No step puts two cards on one place (findPositionConflicts, filterNewTaskPositions), but
\* for the repair of a group that has changed and the listener with a request's position.
THEOREM NoTiesMade == Spec => NoNewTies
<1>1. PlacesInv /\ [Next]_vars => [TiesStep]_pos
  BY NextKeeps DEF vars
<1> QED
  BY <1>1, PlacesHold, PTL DEF Spec, NoNewTies, TiesStep

\* A card dragged lands between its neighbours, however much is rearranged for it.
LEMMA DragLands ==
    ASSUME PlacesInv, NEW t \in Task, NEW at \in DragTo, Drag(t, at), NEW x \in Rows(pos) \ {t}
    PROVE  (pos[x] < at => Below(t, x)) /\ (pos[x] > at => Above(t, x))
<1>1. t \in member /\ pos' = Placed(pos, member, t, at) /\ pos \in Positions /\ member \in SUBSET Task /\ at \in Nat
  BY PositionAssumption DEF Drag, PlacesInv
<1>2. /\ Rows(pos') = (IF at >= 1 THEN Rows(pos) \cup {t} ELSE member)
      /\ \A y \in (Rows(pos) \cap Rows(pos')) \ {t} :
            (pos[y] < at => pos'[y] < pos'[t]) /\ (pos[y] > at => pos'[t] < pos'[y])
  BY <1>1, PlacedIs
<1>3. t \in Rows(pos')
  BY <1>1, <1>2
<1> QED
  BY <1>2, <1>3 DEF Above, Below

\* A card that is finished lands above all the done bucket had.
LEMMA FinishLands ==
    ASSUME PlacesInv, NEW t \in Task, Finish(t), NEW x \in (done \cap Rows(pos)) \ {t}
    PROVE  Above(t, x)
<1> DEFINE at == TopOfDone(pos, t)
<1>1. /\ t \in member /\ pos' = Placed(pos, member, t, at) /\ pos \in Positions /\ member \in SUBSET Task
      /\ at \in Nat /\ at < pos[x]
  BY DonePlace DEF Finish, PlacesInv
<1> HIDE DEF at
<1>2. pos[x] \in Nat /\ pos[x] > at
  BY <1>1 DEF Positions, Rows
<1>3. /\ Rows(pos') = (IF at >= 1 THEN Rows(pos) \cup {t} ELSE member)
      /\ \A y \in (Rows(pos) \cap Rows(pos')) \ {t} :
            (pos[y] < at => pos'[y] < pos'[t]) /\ (pos[y] > at => pos'[t] < pos'[y])
  BY <1>1, PlacedIs
<1>4. t \in Rows(pos')
  BY <1>1, <1>3
<1> QED
  BY <1>2, <1>3, <1>4 DEF Above

\* What CardsLand says of a step.
LandStep ==
    /\ \A t \in Task, at \in DragTo : Drag(t, at) =>
          \A x \in Rows(pos) \ {t} : (pos[x] < at => Below(t, x)) /\ (pos[x] > at => Above(t, x))
    /\ \A t \in Task : Finish(t) => \A x \in (done \cap Rows(pos)) \ {t} : Above(t, x)
    /\ \A asked \in Asked : Create(asked, {}) =>
          \A t \in Wanting(asked), x \in Rows(pos) : Above(t, x)
    /\ AddWrite /\ job.at = 0 =>
          \A t \in job.tasks \ Rows(pos), x \in Shown : Above(t, x)

\* A dragged card lands between its neighbours, a finished one above all the done bucket
\* had, a new one and one a filter finds above the whole view (moveTaskToDoneBuckets,
\* calculateNewPositionsForTasks), in a view of any size.
THEOREM CardsLandInPlace == Spec => CardsLand
<1>1. PlacesInv => LandStep
  BY DragLands, FinishLands, CreateKeeps, AddWriteKeeps DEF LandStep
<1> QED
  BY <1>1, PlacesHold, PTL DEF Spec, CardsLand, LandStep

\* A card of a board has a place at any time, however it came there (createTasks,
\* updateSingleTask, syncManualKanbanBuckets), and nothing else has one.
THEOREM BoardCardsPlaced == Spec => [](kind = "kanban" => Rows(pos) = member)
<1>1. PlacesInv => (kind = "kanban" => Rows(pos) = member)
  BY DEF PlacesInv
<1> QED
  BY <1>1, PlacesHold, PTL
=============================================================================
