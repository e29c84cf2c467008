---------------------------- MODULE Ledger_proofs ----------------------------
(***************************************************************************)
(* What one process makes of the ledger, for any number of appends, faults *)
(* and entries: the chain is never broken, the file can always be written  *)
(* to, an acknowledged entry stays, the record on the disk only grows, and *)
(* what somebody edits or removes never goes unnoticed again.              *)
(*                                                                         *)
(* The first part is about files, the second about the steps.              *)
(***************************************************************************)
EXTENDS Ledger, SequenceTheorems, TLAPS

-----------------------------------------------------------------------------
\* The first n lines of f are entries, in one chain if w is "chained", and at most a torn
\* line follows.
Sound(f, n, w) ==
    /\ f \in Seq(Line)
    /\ n \in 0..Len(f)
    /\ \A i \in 1..n : IsEntry(f[i])
    /\ w = "chained" => \A i \in 1..n : f[i].sound /\ f[i].seq = i
    /\ w = "chained" => \A i \in 1..n : f[i].prev = IF i = 1 THEN 0 ELSE f[i - 1].id
    /\ n = Len(f) \/ (n + 1 = Len(f) /\ Unterminated(f[n + 1]))

\* Every entry of d is in f, at its place.
Holds(f, d) == Good(d) <= Good(f) /\ \A i \in 1..Good(d) : f[i] = d[i]

Fit(f, w) == Sound(f, Good(f), w)

(***************************************************************************)
(* scan counts the entries of such a file.                                 *)
(***************************************************************************)
LEMMA GoodIs ==
    ASSUME NEW w, NEW f, NEW n, Sound(f, n, w)
    PROVE  Good(f) = n
<1> DEFINE P(m) == /\ \A i \in 1..m : IsEntry(f[i])
                   /\ m < Len(f) => ~IsEntry(f[m + 1])
<1>0. n \in 0..Len(f) /\ Len(f) \in Nat
  BY LenProperties DEF Sound
<1>1. P(n)
  BY <1>0 DEF Sound, IsEntry, Unterminated
<1>2. Good(f) \in 0..Len(f) /\ P(Good(f))
  <2>1. \E m \in 0..Len(f) : P(m)
    BY <1>0, <1>1
  <2> HIDE DEF P
  <2>2. Good(f) = CHOOSE m \in 0..Len(f) : P(m)
    BY DEF Good, P
  <2> QED
    BY <2>1, <2>2
<1>3. \A m \in 0..Len(f) : P(m) => ~(m < n) /\ ~(n < m)
  BY <1>0, <1>1
<1> QED
  BY <1>0, <1>2, <1>3

(***************************************************************************)
(* A sound file can be repaired or written to, and Verify accepts it.      *)
(***************************************************************************)
LEMMA FitFile ==
    ASSUME NEW w, NEW f, Fit(f, w)
    PROVE  /\ ~Corrupt(f)
           /\ w = "chained" => ~Broken(f)
           /\ w = "chained" => \A i \in 1..Good(f) : f[i].seq = i
           /\ IsTorn(f) <=> Good(f) < Len(f)
<1>1. Good(f) \in 0..Len(f) /\ Len(f) \in Nat
  BY LenProperties DEF Fit, Sound
<1>2. IsTorn(f) <=> Good(f) < Len(f)
  BY <1>1 DEF Fit, Sound, IsTorn, IsEntry, Unterminated, HasNul
<1> QED
  BY <1>1, <1>2 DEF Fit, Sound, Corrupt, Broken

(***************************************************************************)
(* The entry that scan returns to be chained to.                           *)
(***************************************************************************)
LEMMA LastEntry ==
    ASSUME NEW w, NEW f, Fit(f, w)
    PROVE  /\ LastOf(f) \in Line
           /\ w = "chained" => LastOf(f).seq = Good(f)
           /\ LastOf(f).id = IF Good(f) = 0 THEN 0 ELSE f[Good(f)].id
<1>1. f \in Seq(Line) /\ Good(f) \in 0..Len(f) /\ Len(f) \in Nat
  BY LenProperties DEF Fit, Sound
<1>2. CASE Good(f) = 0
  BY <1>2 DEF LastOf, Nothing, Junk, Line
<1>3. CASE Good(f) # 0
  <2>1. f[Good(f)] \in Line
    BY <1>1, <1>3, ElementOfSeq
  <2> QED
    BY <1>1, <1>3, <2>1 DEF LastOf, Fit, Sound
<1> QED
  BY <1>2, <1>3

(***************************************************************************)
(* Where no torn line is in the way, what is written becomes a line.       *)
(***************************************************************************)
LEMMA WrittenApart ==
    ASSUME NEW w, NEW f, Fit(f, w), Good(f) = Len(f), NEW line
    PROVE  Written(f, line) = Append(f, line)
<1>1. f \in Seq(Line) /\ Len(f) \in Nat
  BY LenProperties DEF Fit, Sound
<1>2. ~(f # <<>> /\ Unterminated(f[Len(f)]))
  BY <1>1, EmptySeq DEF Fit, Sound, IsEntry, Unterminated
<1> QED
  BY <1>2 DEF Written

(***************************************************************************)
(* A line chained to the last entry of a file without a torn tail.         *)
(***************************************************************************)
LEMMA ChainedLine ==
    ASSUME NEW w, NEW f, Fit(f, w), Good(f) = Len(f),
           NEW id \in Nat, NEW line,
           line = [kind |-> "entry", id |-> id, seq |-> LastOf(f).seq + 1,
                   prev |-> LastOf(f).id, sound |-> TRUE]
    PROVE  /\ Written(f, line) = Append(f, line)
           /\ Fit(Written(f, line), w)
           /\ Good(Written(f, line)) = Len(Written(f, line))
           /\ LastOf(Written(f, line)) = line
           /\ Good(Written(f, line)) = Good(f) + 1
           /\ Holds(Written(f, line), f)
           /\ line \in Line
<1>1. f \in Seq(Line) /\ Len(f) \in Nat
  BY LenProperties DEF Fit, Sound
<1>2. line \in Line
  BY LastEntry DEF Line
<1>3. Written(f, line) = Append(f, line)
  BY WrittenApart
<1> DEFINE g == Append(f, line)
<1>4. /\ g \in Seq(Line) /\ Len(g) = Len(f) + 1
      /\ \A i \in 1..Len(f) : g[i] = f[i]
      /\ g[Len(f) + 1] = line
  BY <1>1, <1>2, AppendProperties
<1> HIDE DEF g
<1>5. (w = "chained" => LastOf(f).seq = Len(f)) /\ LastOf(f).id = IF Len(f) = 0 THEN 0 ELSE f[Len(f)].id
  BY LastEntry
<1>6. /\ IsEntry(line) /\ line.sound /\ (w = "chained" => line.seq = Len(f) + 1)
      /\ line.prev = IF Len(f) = 0 THEN 0 ELSE f[Len(f)].id
  BY <1>1, <1>5 DEF IsEntry
<1>7. Sound(g, Len(f) + 1, w)
  <2>0. \A i \in 1..Len(f) + 1 : IsEntry(g[i])
    BY <1>1, <1>4, <1>6 DEF Fit, Sound
  <2>1. w = "chained" => \A i \in 1..Len(f) + 1 : g[i].sound /\ g[i].seq = i
    BY <1>1, <1>4, <1>6 DEF Fit, Sound
  <2>2. ASSUME w = "chained", NEW i \in 1..Len(f) + 1
        PROVE  g[i].prev = IF i = 1 THEN 0 ELSE g[i - 1].id
    <3>1. CASE i = Len(f) + 1
      BY <1>1, <1>4, <1>6, <3>1
    <3>2. CASE i # Len(f) + 1
      <4>1. i \in 1..Len(f) /\ (i # 1 => i - 1 \in 1..Len(f))
        BY <1>1, <3>2
      <4> QED
        BY <1>4, <2>2, <4>1 DEF Fit, Sound
    <3> QED
      BY <3>1, <3>2
  <2> QED
    BY <1>1, <1>4, <2>0, <2>1, <2>2 DEF Sound
<1>8. Good(g) = Len(f) + 1
  BY <1>7, GoodIs
<1>9. LastOf(g) = line
  BY <1>1, <1>4, <1>8 DEF LastOf
<1>10. Holds(g, f)
  BY <1>1, <1>4, <1>8 DEF Holds
<1> QED
  BY <1>2, <1>3, <1>4, <1>7, <1>8, <1>9, <1>10 DEF g, Fit

(***************************************************************************)
(* A file cut at a line keeps the entries before it.                       *)
(***************************************************************************)
LEMMA CutFile ==
    ASSUME NEW w, NEW f, Fit(f, w), NEW n \in 0..Good(f)
    PROVE  /\ Fit(SubSeq(f, 1, n), w)
           /\ Good(SubSeq(f, 1, n)) = n /\ Len(SubSeq(f, 1, n)) = n
           /\ \A i \in 1..n : SubSeq(f, 1, n)[i] = f[i]
<1>1. f \in Seq(Line) /\ Good(f) \in 0..Len(f) /\ Len(f) \in Nat
  BY LenProperties DEF Fit, Sound
<1>2. \A i \in 1..n : f[i] \in Line
  BY <1>1, ElementOfSeq
<1> DEFINE g == SubSeq(f, 1, n)
<1>3. g \in Seq(Line) /\ Len(g) = n /\ \A i \in 1..n : g[i] = f[i]
  <2>1. /\ SubSeq(f, 1, n) \in Seq(Line)
        /\ Len(SubSeq(f, 1, n)) = IF 1 <= n THEN n - 1 + 1 ELSE 0
        /\ \A i \in 1..n - 1 + 1 : SubSeq(f, 1, n)[i] = f[1 + i - 1]
    BY <1>1, <1>2, SubSeqProperties
  <2> QED
    BY <1>1, <2>1
<1> HIDE DEF g
<1>4. Sound(g, n, w)
  <2>1. ASSUME NEW i \in 1..n
        PROVE  IsEntry(g[i]) /\ (w = "chained" => g[i].sound /\ g[i].seq = i)
    <3>1. i \in 1..Good(f)
      BY <1>1
    <3> QED
      BY <1>3, <3>1 DEF Fit, Sound
  <2>2. ASSUME w = "chained", NEW i \in 1..n
        PROVE  g[i].prev = IF i = 1 THEN 0 ELSE g[i - 1].id
    <3>1. i \in 1..Good(f) /\ (i # 1 => i - 1 \in 1..n)
      BY <1>1
    <3> QED
      BY <1>3, <2>2, <3>1 DEF Fit, Sound
  <2> QED
    BY <1>3, <2>1, <2>2 DEF Sound
<1> QED
  BY <1>3, <1>4, GoodIs DEF Fit, g

(***************************************************************************)
(* A torn line at the end changes no entry.                                *)
(***************************************************************************)
LEMMA TornFile ==
    ASSUME NEW w, NEW f, Fit(f, w), Good(f) = Len(f), NEW k \in {"cut", "nul"}
    PROVE  /\ Fit(Append(f, Junk(k)), w)
           /\ Good(Append(f, Junk(k))) = Good(f)
           /\ \A i \in 1..Good(f) : Append(f, Junk(k))[i] = f[i]
<1>1. f \in Seq(Line) /\ Len(f) \in Nat
  BY LenProperties DEF Fit, Sound
<1>2. Junk(k) \in Line /\ Unterminated(Junk(k))
  BY DEF Junk, Line, Unterminated
<1> DEFINE g == Append(f, Junk(k))
<1>3. /\ g \in Seq(Line) /\ Len(g) = Len(f) + 1
      /\ \A i \in 1..Len(f) : g[i] = f[i]
      /\ g[Len(f) + 1] = Junk(k)
  BY <1>1, <1>2, AppendProperties
<1> HIDE DEF g
<1>4. Sound(g, Len(f), w)
  BY <1>1, <1>2, <1>3 DEF Fit, Sound
<1> QED
  BY <1>3, <1>4, GoodIs DEF Fit, g

(***************************************************************************)
(* A power cut leaves a sound file that holds every synced entry and no    *)
(* other than were written.                                                *)
(***************************************************************************)
LEMMA SurvivorsFit ==
    ASSUME NEW w, NEW d, NEW f, Fit(d, w), Fit(f, w), Holds(f, d),
           NEW g \in Survivors(d, f)
    PROVE  Fit(g, w) /\ Holds(g, d) /\ Holds(f, g)
<1>1. /\ f \in Seq(Line) /\ Good(f) \in 0..Len(f) /\ Len(f) \in Nat
      /\ d \in Seq(Line) /\ Good(d) \in 0..Len(d) /\ Len(d) \in Nat
      /\ Good(f) = Len(f) \/ Good(f) + 1 = Len(f)
  BY LenProperties DEF Fit, Sound
<1>2. \A n \in Cuts(d, f) : n \in 0..Len(f) /\ Good(d) <= n
  <2> TAKE n \in Cuts(d, f)
  <2>1. n \in 0..Len(f) /\ \A i \in n + 1..Len(f) : i > Len(d) \/ d[i] # f[i]
    BY DEF Cuts
  <2>2. ~(n < Good(d))
    <3> SUFFICES ASSUME n < Good(d) PROVE FALSE
      OBVIOUS
    <3>1. n + 1 \in 1..Good(d) /\ n + 1 \in n + 1..Len(f)
      BY <1>1, <2>1 DEF Holds
    <3> QED
      BY <1>1, <2>1, <3>1 DEF Holds
  <2> QED
    BY <1>1, <2>1, <2>2
<1>3. CASE g = d
  BY <1>1, <1>3 DEF Holds
<1>4. ASSUME NEW n \in Cuts(d, f), g = SubSeq(f, 1, n)
      PROVE  Fit(g, w) /\ Holds(g, d) /\ Holds(f, g)
  <2>1. CASE n \in 0..Good(f)
    <3>1. Fit(g, w) /\ Good(g) = n /\ \A i \in 1..n : g[i] = f[i]
      BY <1>4, <2>1, CutFile
    <3>2. Good(d) <= n /\ n <= Good(f) /\ n \in Nat
      BY <1>1, <1>2, <2>1
    <3>3. Holds(f, g)
      BY <3>1, <3>2 DEF Holds
    <3>4. Holds(g, d)
      BY <1>1, <3>1, <3>2 DEF Holds
    <3> QED
      BY <3>1, <3>3, <3>4
  <2>2. CASE n = Len(f)
    <3>1. g = f
      BY <1>1, <1>4, <2>2, SubSeqFull
    <3> QED
      BY <1>1, <3>1 DEF Holds
  <2> QED
    BY <1>1, <1>2, <1>4, <2>1, <2>2
<1>5. ASSUME NEW n \in Cuts(d, f) \ {Len(f)}, NEW k \in {"cut", "nul"},
             g = Append(SubSeq(f, 1, n), Junk(k))
      PROVE  Fit(g, w) /\ Holds(g, d) /\ Holds(f, g)
  <2>1. n \in 0..Good(f)
    BY <1>1, <1>2, <1>5
  <2> DEFINE h == SubSeq(f, 1, n)
  <2>2. Fit(h, w) /\ Good(h) = n /\ Len(h) = n /\ \A i \in 1..n : h[i] = f[i]
    BY <2>1, CutFile
  <2> HIDE DEF h
  <2>3. g = Append(h, Junk(k))
    BY <1>5 DEF h
  <2>4. Fit(g, w) /\ Good(g) = n /\ \A i \in 1..n : g[i] = h[i]
    BY <2>2, <2>3, TornFile
  <2>5. Good(d) <= n /\ n <= Good(f) /\ n \in Nat
    BY <1>1, <1>2, <2>1
  <2>6. Holds(f, g)
    BY <2>2, <2>4, <2>5 DEF Holds
  <2>7. Holds(g, d)
    BY <1>1, <2>2, <2>4, <2>5 DEF Holds
  <2> QED
    BY <2>4, <2>6, <2>7
<1>6. g = d \/ \E n \in Cuts(d, f) : g \in LeftAt(f, n)
  BY DEF Survivors
<1>7. ASSUME NEW n \in Cuts(d, f), g \in LeftAt(f, n)
      PROVE  \/ g = SubSeq(f, 1, n)
             \/ n # Len(f) /\ \E k \in {"cut", "nul"} : g = Append(SubSeq(f, 1, n), Junk(k))
  BY <1>7 DEF LeftAt
<1> QED
  BY <1>3, <1>4, <1>5, <1>6, <1>7

\* g is f without the i-th line.
Removal(f, i, g) == g = SubSeq(f, 1, i - 1) \o SubSeq(f, i + 1, Len(f))

(***************************************************************************)
(* A file from which somebody removes an entry that another follows.       *)
(***************************************************************************)
LEMMA RemovedLine ==
    ASSUME NEW w, NEW f, Fit(f, w), NEW i \in 1..Good(f) - 1, NEW g, Removal(f, i, g)
    PROVE  /\ Fit(g, "loose")
           /\ Good(g) = Good(f) - 1
           /\ \A j \in 1..i - 1 : g[j] = f[j]
           /\ \A j \in i..Good(f) - 1 : g[j] = f[j + 1]
<1>1. /\ f \in Seq(Line) /\ Good(f) \in 0..Len(f) /\ Len(f) \in Nat
      /\ i \in Nat /\ 1 <= i /\ i < Good(f)
      /\ Good(f) = Len(f) \/ Good(f) + 1 = Len(f)
  BY LenProperties DEF Fit, Sound
<1>2. \A j \in 1..Len(f) : f[j] \in Line
  BY <1>1, ElementOfSeq
<1> DEFINE a == SubSeq(f, 1, i - 1)
           b == SubSeq(f, i + 1, Len(f))
<1>3. a \in Seq(Line) /\ Len(a) = i - 1 /\ \A j \in 1..i - 1 : a[j] = f[j]
  BY <1>1, CutFile
<1>4. b \in Seq(Line) /\ Len(b) = Len(f) - i /\ \A j \in 1..Len(f) - i : b[j] = f[j + i]
  <2>1. \A j \in i + 1..Len(f) : f[j] \in Line
    BY <1>1, <1>2
  <2>2. /\ b \in Seq(Line)
        /\ Len(b) = IF i + 1 <= Len(f) THEN Len(f) - (i + 1) + 1 ELSE 0
        /\ \A j \in 1..Len(f) - (i + 1) + 1 : b[j] = f[(i + 1) + j - 1]
    BY <1>1, <2>1, SubSeqProperties
  <2>3. Len(f) - (i + 1) + 1 = Len(f) - i /\ i + 1 <= Len(f)
    BY <1>1
  <2>4. ASSUME NEW j \in 1..Len(f) - i PROVE b[j] = f[j + i]
    <3>1. (i + 1) + j - 1 = j + i
      BY <1>1
    <3> QED
      BY <2>2, <2>3, <3>1
  <2> QED
    BY <2>2, <2>3, <2>4
<1> HIDE DEF a, b
<1>5. g = a \o b
  BY DEF Removal, a, b
<1>6. /\ g \in Seq(Line) /\ Len(g) = Len(f) - 1
      /\ \A j \in 1..i - 1 : g[j] = f[j]
      /\ \A j \in i..Len(f) - 1 : g[j] = f[j + 1]
  <2>0. Len(a) = i - 1 /\ Len(b) = Len(f) - i
    BY <1>3, <1>4
  <2>1. /\ g \in Seq(Line) /\ Len(g) = Len(a) + Len(b)
        /\ \A j \in 1..Len(a) + Len(b) : g[j] = IF j <= Len(a) THEN a[j] ELSE b[j - Len(a)]
    <3>1. /\ a \o b \in Seq(Line) /\ Len(a \o b) = Len(a) + Len(b)
          /\ \A j \in 1..Len(a) + Len(b) : (a \o b)[j] = IF j <= Len(a) THEN a[j] ELSE b[j - Len(a)]
      BY <1>3, <1>4, ConcatProperties
    <3> QED
      BY <1>5, <3>1
  <2>2. ASSUME NEW j \in i..Len(f) - 1 PROVE g[j] = f[j + 1]
    <3>1. /\ j - (i - 1) \in 1..Len(f) - i /\ j - (i - 1) + i = j + 1
          /\ j \in 1..Len(a) + Len(b) /\ ~(j <= Len(a))
      BY <1>1, <2>0
    <3>2. g[j] = b[j - Len(a)]
      BY <2>1, <3>1
    <3>3. b[j - (i - 1)] = f[j - (i - 1) + i]
      BY <1>4, <3>1
    <3> QED
      BY <2>0, <3>1, <3>2, <3>3
  <2>3. ASSUME NEW j \in 1..i - 1 PROVE g[j] = f[j]
    <3>1. j \in 1..Len(a) + Len(b) /\ j <= Len(a)
      BY <1>1, <2>0
    <3>2. g[j] = a[j]
      BY <2>1, <3>1
    <3> QED
      BY <1>3, <3>2
  <2>4. Len(g) = Len(f) - 1
    BY <1>1, <2>0, <2>1
  <2> QED
    BY <2>1, <2>2, <2>3, <2>4
<1>7. Sound(g, Good(f) - 1, "loose")
  <2>0. \A j \in 1..Good(f) : IsEntry(f[j])
    BY DEF Fit, Sound
  <2>1. ASSUME NEW j \in 1..Good(f) - 1 PROVE IsEntry(g[j])
    <3>1. CASE j < i
      <4>1. j \in 1..i - 1 /\ j \in 1..Good(f)
        BY <1>1, <3>1
      <4> QED
        BY <1>6, <2>0, <4>1
    <3>2. CASE ~(j < i)
      <4>1. j \in i..Len(f) - 1 /\ j + 1 \in 1..Good(f)
        BY <1>1, <3>2
      <4> QED
        BY <1>6, <2>0, <4>1
    <3> QED
      BY <3>1, <3>2
  <2>2. Len(g) = Len(f) - 1
    BY <1>6
  <2>3. \/ Good(f) - 1 = Len(g)
        \/ Good(f) - 1 + 1 = Len(g) /\ Unterminated(g[Good(f) - 1 + 1])
    <3>1. CASE Good(f) = Len(f)
      BY <1>1, <2>2, <3>1
    <3>2. CASE Good(f) + 1 = Len(f)
      <4>1. Unterminated(f[Good(f) + 1])
        BY <1>1, <3>2 DEF Fit, Sound
      <4>2. Good(f) \in i..Len(f) - 1 /\ Good(f) - 1 + 1 = Good(f) /\ Len(g) = Good(f)
        BY <1>1, <2>2, <3>2
      <4>3. g[Good(f)] = f[Good(f) + 1]
        BY <1>6, <4>2
      <4> QED
        BY <4>1, <4>2, <4>3
    <3> QED
      BY <1>1, <3>1, <3>2
  <2>4. Good(f) - 1 \in 0..Len(g)
    BY <1>1, <2>2
  <2> QED
    BY <1>6, <2>1, <2>3, <2>4 DEF Sound
<1>8. Good(g) = Good(f) - 1
  BY <1>7, GoodIs
<1>9. \A j \in i..Good(f) - 1 : j \in i..Len(f) - 1
  BY <1>1
<1> QED
  BY <1>6, <1>7, <1>8, <1>9 DEF Fit

\* g is f with another line in place of the i-th.
Edit(f, i, line, g) ==
    /\ g \in Seq(Line) /\ Len(g) = Len(f)
    /\ \A j \in 1..Len(f) : g[j] = IF j = i THEN line ELSE f[j]

(***************************************************************************)
(* A file in which somebody edits an entry and leaves it one.              *)
(***************************************************************************)
LEMMA EditedLine ==
    ASSUME NEW w, NEW f, Fit(f, w), NEW i \in 1..Good(f), NEW line \in Line,
           IsEntry(line), NEW g, Edit(f, i, line, g)
    PROVE  /\ Fit(g, "loose")
           /\ Good(g) = Good(f)
           /\ g[i] = line /\ \A j \in 1..Good(f) : j # i => g[j] = f[j]
<1>1. f \in Seq(Line) /\ Good(f) \in 0..Len(f) /\ Len(f) \in Nat
  BY LenProperties DEF Fit, Sound
<1>2. /\ g \in Seq(Line) /\ Len(g) = Len(f)
      /\ \A j \in 1..Len(f) : g[j] = IF j = i THEN line ELSE f[j]
  BY DEF Edit
<1>3. ASSUME NEW j \in 1..Good(f)
      PROVE  g[j] = IF j = i THEN line ELSE f[j]
  <2>1. j \in 1..Len(f)
    BY <1>1
  <2> QED
    BY <1>2, <2>1
<1>4. Sound(g, Good(f), "loose")
  <2>1. \A j \in 1..Good(f) : IsEntry(g[j])
    BY <1>3 DEF Fit, Sound
  <2>2. \/ Good(f) = Len(f)
        \/ Good(f) + 1 = Len(f) /\ Unterminated(f[Good(f) + 1])
    BY DEF Fit, Sound
  <2>3. ASSUME Good(f) + 1 = Len(f)
        PROVE  g[Good(f) + 1] = f[Good(f) + 1]
    <3>1. Good(f) + 1 \in 1..Len(f) /\ Good(f) + 1 # i
      BY <1>1, <2>3
    <3> QED
      BY <1>2, <3>1
  <2> QED
    BY <1>1, <1>2, <2>1, <2>2, <2>3 DEF Sound
<1>5. Good(g) = Good(f)
  BY <1>4, GoodIs
<1>6. Fit(g, "loose")
  BY <1>4, <1>5 DEF Fit
<1> QED
  BY <1>3, <1>5, <1>6

(***************************************************************************)
(* A file in which somebody damages an entry that another follows is not   *)
(* taken for one with a torn tail.                                         *)
(***************************************************************************)
LEMMA DamagedLine ==
    ASSUME NEW w, NEW f, Fit(f, w), NEW i \in 1..Good(f) - 1, NEW g,
           Edit(f, i, Junk("damaged"), g)
    PROVE  /\ g \in Seq(Line) /\ Len(g) = Len(f)
           /\ \A j \in 1..Len(f) : j # i => g[j] = f[j]
           /\ Corrupt(g)
<1>1. /\ f \in Seq(Line) /\ Good(f) \in 0..Len(f) /\ Len(f) \in Nat
      /\ i \in 1..Len(f) /\ i + 1 \in 1..Len(f) /\ i + 1 \in 1..Good(f) /\ i \in 1..Good(f)
  BY LenProperties DEF Fit, Sound
<1>2. Junk("damaged") \in Line /\ ~IsEntry(Junk("damaged"))
  BY DEF Junk, Line, IsEntry
<1>3. /\ g \in Seq(Line) /\ Len(g) = Len(f)
      /\ \A j \in 1..Len(f) : g[j] = IF j = i THEN Junk("damaged") ELSE f[j]
  BY DEF Edit
<1>4. Good(g) = i - 1
  <2> DEFINE P(n) == /\ \A j \in 1..n : IsEntry(g[j])
                     /\ n < Len(g) => ~IsEntry(g[n + 1])
  <2>1. \A j \in 1..i - 1 : IsEntry(g[j])
    BY <1>1, <1>3 DEF Fit, Sound
  <2>2. ~IsEntry(g[i])
    BY <1>1, <1>2, <1>3
  <2>3. i - 1 \in 0..Len(g) /\ i - 1 + 1 = i
    BY <1>1, <1>3
  <2>4. P(i - 1)
    BY <2>1, <2>2, <2>3
  <2>5. ASSUME NEW n \in 0..Len(g), P(n) PROVE n = i - 1
    <3>1. ~(i <= n)
      BY <1>1, <1>3, <2>2, <2>5
    <3>2. ~(n < i - 1)
      <4> SUFFICES ASSUME n < i - 1 PROVE FALSE
        OBVIOUS
      <4>1. n + 1 \in 1..i - 1 /\ n < Len(g)
        BY <1>1, <1>3, <2>5
      <4> QED
        BY <2>1, <2>5, <4>1
    <3> QED
      BY <1>1, <1>3, <3>1, <3>2
  <2> HIDE DEF P
  <2>6. Good(g) = CHOOSE n \in 0..Len(g) : P(n)
    BY DEF Good, P
  <2> QED
    BY <2>3, <2>4, <2>5, <2>6
<1>5. IsEntry(g[i + 1]) /\ i + 1 \in Good(g) + 1..Len(g) /\ Good(g) < Len(g)
  BY <1>1, <1>3, <1>4 DEF Fit, Sound
<1> QED
  BY <1>3, <1>5 DEF Corrupt, IsTorn

-----------------------------------------------------------------------------
\* The entries are one chain until somebody tampers.
Order == IF tampered THEN "loose" ELSE "chained"

\* Where process p stands: what it has in view is what the file says.
Abreast(p) ==
    /\ pc[p] = "torn" => view[p].good = Good(file)
    /\ pc[p] # "idle" => view[p].last = LastOf(file)
    /\ pc[p] \notin {"idle", "torn"} => Good(file) = Len(file)
    /\ pc[p] \in {"syncRepair", "sync"} => Good(file) > 0

\* Hashes are new when they are made.
Fresh(f) == \A i, j \in 1..Good(f) : f[i].id \in 1..lines /\ (i < j => f[i].id < f[j].id)

\* The strengthening: the disk holds what was acknowledged, the file holds what the disk
\* holds, and the one process that writes is abreast of the file.
Core ==
    /\ LedgerTypeOK
    /\ Fit(file, Order) /\ Fit(disk, Order) /\ Holds(file, disk)
    /\ \A p \in Process : Abreast(p)
    /\ \A a \in acked : \E i \in 1..Good(disk) : disk[i].id = a

\* The entries have fresh hashes until somebody tampers.  Where he did, the chain is
\* broken in what has reached the disk, so that no power cut takes the break away.
Marked == (~tampered => Fresh(file)) /\ (tampered => Broken(disk))

\* Somebody damaged a line that an entry follows: nothing is appended any more, and all
\* there is has reached the disk.
Frozen ==
    /\ LedgerTypeOK /\ AckedKept
    /\ tampered /\ Corrupt(file) /\ disk = file
    /\ \A p \in Process : pc[p] = "idle"

LedgerInv == (Core /\ Marked) \/ Frozen

\* A step takes nothing from the disk, and writes an entry of a new hash or none.
Grows ==
    /\ Holds(disk', disk) /\ tampered' = tampered
    /\ \/ Holds(file, file') /\ lines' = lines
       \/ /\ Good(file') = Good(file) + 1 /\ Holds(file', file)
          /\ lines' = lines + 1 /\ file'[Good(file')].id = lines'

OneProcess == \A p, q \in Process : p = q

(***************************************************************************)
(* The empty ledger.                                                       *)
(***************************************************************************)
LEMMA InitCore == Init => Core
<1> SUFFICES ASSUME Init PROVE Core
  OBVIOUS
<1>1. <<>> \in Seq(Line) /\ Len(<<>>) = 0
  BY EmptySeq
<1>2. Sound(<<>>, 0, Order)
  BY <1>1 DEF Sound
<1>3. Good(<<>>) = 0
  BY <1>2, GoodIs
<1>4. LedgerTypeOK
  BY <1>1 DEF Init, LedgerTypeOK, Nothing, Junk, Line
<1> QED
  BY <1>1, <1>2, <1>3, <1>4 DEF Init, Core, Fit, Holds, Abreast

(***************************************************************************)
(* An acknowledged entry is still on a disk that holds the disk before.    *)
(***************************************************************************)
LEMMA AckedStay ==
    ASSUME NEW d, NEW e, NEW as, Holds(e, d), Good(d) \in Nat, Good(e) \in Nat,
           \A a \in as : \E i \in 1..Good(d) : d[i].id = a
    PROVE  \A a \in as : \E i \in 1..Good(e) : e[i].id = a
<1> TAKE a \in as
<1>1. PICK i \in 1..Good(d) : d[i].id = a
  OBVIOUS
<1> QED
  BY <1>1 DEF Holds

(***************************************************************************)
(* Sizes of the files in hand.                                             *)
(***************************************************************************)
LEMMA FitSizes ==
    ASSUME NEW w, NEW f, Fit(f, w)
    PROVE  f \in Seq(Line) /\ Len(f) \in Nat /\ Good(f) \in Nat /\ Good(f) \in 0..Len(f)
BY LenProperties DEF Fit, Sound

(***************************************************************************)
(* A step of the one process, or of the disk, keeps the file sound.        *)
(***************************************************************************)
LEMMA StepCore ==
    ASSUME OneProcess, Core, Next, ~Tamper
    PROVE  Core' /\ Grows
<1> USE LedgerAssumption
<1>0. /\ file \in Seq(Line) /\ Len(file) \in Nat /\ Good(file) \in Nat /\ Good(file) \in 0..Len(file)
      /\ disk \in Seq(Line) /\ Len(disk) \in Nat /\ Good(disk) \in Nat
      /\ Holds(disk, disk) /\ Holds(file, file)
  BY FitSizes DEF Core, Holds
<1>1. ASSUME NEW p \in Process, Scan(p)
      PROVE  Core' /\ Grows
  <2>1. LastOf(file) \in Line
    BY LastEntry DEF Core
  <2>2. LedgerTypeOK'
    BY <1>0, <1>1, <2>1 DEF Core, LedgerTypeOK, Scan, Goto
  <2>3. IsTorn(file) <=> Good(file) < Len(file)
    BY FitFile DEF Core
  <2>4. \A q \in Process : Abreast(q)'
    <3> TAKE q \in Process
    <3>1. q = p
      BY DEF OneProcess
    <3> QED
      BY <1>0, <1>1, <2>3, <3>1 DEF Core, LedgerTypeOK, Abreast, Scan, Goto
  <2>5. Grows
    BY <1>0, <1>1 DEF Grows, Scan
  <2> QED
    BY <1>0, <1>1, <2>2, <2>4, <2>5 DEF Core, Order, Grows, Scan
<1>2. ASSUME NEW p \in Process, Truncate(p)
      PROVE  Core' /\ Grows
  <2>1. view[p].good = Good(file) /\ view[p].last = LastOf(file) /\ file' = SubSeq(file, 1, Good(file))
    BY <1>0, <1>2 DEF Core, Abreast, Truncate, CutTo
  <2>2. /\ Fit(file', Order) /\ Good(file') = Good(file) /\ Len(file') = Good(file)
        /\ \A i \in 1..Good(file) : file'[i] = file[i]
    BY <1>0, <2>1, CutFile DEF Core
  <2>3. LastOf(file') = LastOf(file)
    BY <1>0, <2>2 DEF LastOf
  <2>4. LedgerTypeOK'
    BY <1>2, <2>2, FitSizes DEF Core, LedgerTypeOK, Truncate, Goto
  <2>5. \A q \in Process : Abreast(q)'
    <3> TAKE q \in Process
    <3>1. q = p
      BY DEF OneProcess
    <3> QED
      BY <1>0, <1>2, <2>1, <2>2, <2>3, <3>1 DEF Core, LedgerTypeOK, Abreast, Truncate, Goto
  <2>6. Holds(file', disk)
    BY <1>0, <2>2 DEF Core, Holds
  <2>7. Grows
    BY <1>0, <1>2, <2>2 DEF Grows, Holds, Truncate
  <2> QED
    BY <1>0, <1>2, <2>2, <2>4, <2>5, <2>6, <2>7 DEF Core, Order, Grows, Truncate
<1>3. ASSUME NEW p \in Process, Write(p)
      PROVE  Core' /\ Grows
  <2>1. Good(file) = Len(file) /\ view[p].last = LastOf(file) /\ lines + 1 \in Nat
    BY <1>3 DEF Core, Abreast, Write, LedgerTypeOK
  <2> DEFINE line == NewLine(p)
  <2>2. line = [kind |-> "entry", id |-> lines + 1, seq |-> LastOf(file).seq + 1,
                prev |-> LastOf(file).id, sound |-> TRUE]
    BY <2>1 DEF NewLine
  <2> HIDE DEF line
  <2>3. file' = Written(file, line) /\ view' = [view EXCEPT ![p].last = line]
    BY <1>3 DEF Write, line
  <2>4. /\ Fit(file', Order) /\ Good(file') = Len(file') /\ LastOf(file') = line
        /\ Good(file') = Good(file) + 1 /\ Holds(file', file) /\ line \in Line
    BY <2>1, <2>2, <2>3, ChainedLine DEF Core
  <2>5. LedgerTypeOK'
    <3>1. file' \in Seq(Line)
      BY <2>4, FitSizes
    <3>2. view' \in [Process -> [last : Line, good : Nat]]
      <4>1. view \in [Process -> [last : Line, good : Nat]]
        BY DEF Core, LedgerTypeOK
      <4> QED
        BY <2>3, <2>4, <4>1
    <3>3. pc' \in [Process -> {"idle", "torn", "repair", "syncRepair", "write", "sync"}]
      BY <1>3 DEF Core, LedgerTypeOK, Write, Goto
    <3> QED
      BY <1>3, <2>1, <3>1, <3>2, <3>3 DEF Core, LedgerTypeOK, Write
  <2>6. \A q \in Process : Abreast(q)'
    <3> TAKE q \in Process
    <3>1. q = p
      BY DEF OneProcess
    <3> QED
      BY <1>0, <1>3, <2>3, <2>4, <3>1 DEF Core, LedgerTypeOK, Abreast, Write, Goto
  <2>7. Holds(file', disk)
    BY <1>0, <2>4 DEF Core, Holds
  <2>8. Grows
    <3>1. file'[Good(file')].id = lines + 1
      BY <1>0, <2>2, <2>4 DEF LastOf
    <3> QED
      BY <1>0, <1>3, <2>4, <3>1 DEF Grows, Write
  <2> QED
    BY <1>0, <1>3, <2>4, <2>5, <2>6, <2>7, <2>8 DEF Core, Order, Grows, Write
<1>4. ASSUME NEW p \in Process, Sync(p)
      PROVE  Core' /\ Grows
  <2>1. /\ Good(file) > 0 /\ Good(file) = Len(file) /\ view[p].last = LastOf(file)
        /\ disk' = file /\ file' = file
    BY <1>4 DEF Core, Abreast, Sync
  <2>2. view[p].last.id = file[Good(file)].id /\ view[p].last \in Line
    BY <1>0, <2>1, LastEntry DEF Core
  <2>3. \A a \in acked : \E i \in 1..Good(file) : file[i].id = a
    <3> TAKE a \in acked
    <3>1. PICK i \in 1..Good(disk) : disk[i].id = a
      BY DEF Core
    <3> QED
      BY <1>0, <3>1 DEF Core, Holds
  <2>4. \A a \in acked' : \E i \in 1..Good(file) : file[i].id = a
    BY <1>0, <1>4, <2>1, <2>2, <2>3 DEF Sync
  <2>5. LedgerTypeOK'
    BY <1>4, <2>1, <2>2 DEF Core, LedgerTypeOK, Sync, Goto, Line
  <2>6. \A q \in Process : Abreast(q)'
    <3> TAKE q \in Process
    <3>1. q = p
      BY DEF OneProcess
    <3> QED
      BY <1>0, <1>4, <2>1, <3>1 DEF Core, LedgerTypeOK, Abreast, Sync, Goto
  <2>7. tampered' = tampered /\ lines' = lines
    BY <1>4 DEF Sync
  <2>8. Grows
    BY <1>0, <2>1, <2>7 DEF Core, Grows
  <2> QED
    BY <1>0, <2>1, <2>4, <2>5, <2>6, <2>7, <2>8 DEF Core, Order, Grows
<1>5. ASSUME NEW p \in Process, ShortWrite(p)
      PROVE  Core' /\ Grows
  <2>1. Good(file) = Len(file)
    BY <1>5 DEF Core, Abreast, ShortWrite
  <2>2. file' = Append(file, Junk("cut"))
    BY <1>5, <2>1, WrittenApart DEF Core, ShortWrite
  <2>3. Fit(file', Order) /\ Good(file') = Good(file) /\ \A i \in 1..Good(file) : file'[i] = file[i]
    BY <2>1, <2>2, TornFile DEF Core
  <2>4. LedgerTypeOK'
    BY <1>5, <2>3, FitSizes DEF Core, LedgerTypeOK, ShortWrite, Fault, Goto
  <2>5. \A q \in Process : Abreast(q)'
    <3> TAKE q \in Process
    <3>1. q = p
      BY DEF OneProcess
    <3> QED
      BY <1>5, <3>1 DEF Core, LedgerTypeOK, Abreast, ShortWrite, Goto
  <2>6. Holds(file', disk)
    BY <1>0, <2>3 DEF Core, Holds
  <2>7. Grows
    BY <1>0, <1>5, <2>3 DEF Grows, Holds, ShortWrite
  <2> QED
    BY <1>0, <1>5, <2>3, <2>4, <2>5, <2>6, <2>7 DEF Core, Order, Grows, ShortWrite
<1>6. ASSUME NEW p \in Process, SyncFails(p) \/ Kill(p)
      PROVE  Core' /\ Grows
  <2>1. /\ UNCHANGED <<file, disk, view, lines, begun, acked, tampered>>
        /\ pc' = [pc EXCEPT ![p] = "idle"] /\ faults' = faults + 1
    BY <1>6 DEF SyncFails, Kill, Fault, Goto
  <2>2. LedgerTypeOK'
    BY <2>1 DEF Core, LedgerTypeOK
  <2>3. \A q \in Process : Abreast(q)'
    <3> TAKE q \in Process
    <3>1. q = p
      BY DEF OneProcess
    <3> QED
      BY <2>1, <3>1 DEF Core, LedgerTypeOK, Abreast
  <2>4. Grows
    BY <1>0, <2>1 DEF Grows
  <2> QED
    BY <1>0, <2>1, <2>2, <2>3, <2>4 DEF Core, Order, Grows
<1>7. ASSUME PowerCut
      PROVE  Core' /\ Grows
  <2>1. file' \in Survivors(disk, file) /\ disk' = file'
    BY <1>7 DEF PowerCut
  <2>2. Fit(file', Order) /\ Holds(file', disk) /\ Holds(file, file')
    BY <2>1, SurvivorsFit DEF Core
  <2>3. file' \in Seq(Line) /\ Good(file') \in Nat /\ Holds(file', file')
    BY <2>2, FitSizes DEF Holds
  <2>4. LedgerTypeOK'
    BY <1>7, <2>1, <2>3 DEF Core, LedgerTypeOK, PowerCut, Fault
  <2>5. \A q \in Process : Abreast(q)'
    BY <1>7 DEF Abreast, PowerCut
  <2>6. \A a \in acked : \E i \in 1..Good(file') : file'[i].id = a
    <3> TAKE a \in acked
    <3>1. Good(disk) \in Nat
      BY FitSizes DEF Core
    <3>2. PICK i \in 1..Good(disk) : disk[i].id = a
      BY DEF Core
    <3>3. i \in 1..Good(file') /\ file'[i] = disk[i]
      BY <2>2, <2>3, <3>1, <3>2 DEF Holds
    <3> QED
      BY <3>2, <3>3
  <2>7. Grows
    BY <1>7, <2>1, <2>2 DEF Grows, PowerCut
  <2> QED
    BY <1>7, <2>1, <2>2, <2>3, <2>4, <2>5, <2>6, <2>7 DEF Core, Order, Grows, PowerCut
<1> QED
  BY <1>1, <1>2, <1>3, <1>4, <1>5, <1>6, <1>7 DEF Next, Appending

(***************************************************************************)
(* As long as hashes are fresh, and once the chain is broken, it is so     *)
(* after the next step.                                                    *)
(***************************************************************************)
LEMMA StepMarked ==
    ASSUME Core, Core', Marked, Grows
    PROVE  Marked'
<1>1. /\ Good(file) \in Nat /\ Good(file') \in Nat /\ Good(disk) \in Nat /\ Good(disk') \in Nat
      /\ lines \in Nat
  BY FitSizes DEF Core, LedgerTypeOK
<1>2. ASSUME ~tampered, Holds(file, file'), lines' = lines
      PROVE  Fresh(file)'
  BY <1>1, <1>2 DEF Marked, Fresh, Holds
<1>3. ASSUME ~tampered, Good(file') = Good(file) + 1, Holds(file', file),
             lines' = lines + 1, file'[Good(file')].id = lines'
      PROVE  Fresh(file)'
  <2>1. \A i \in 1..Good(file) : file'[i].id = file[i].id /\ file[i].id \in 1..lines
    BY <1>3 DEF Marked, Fresh, Holds
  <2>2. \A i \in 1..Good(file') : i \in 1..Good(file) \/ i = Good(file')
    BY <1>1, <1>3
  <2>3. \A i, j \in 1..Good(file) : i < j => file[i].id < file[j].id
    BY <1>3 DEF Marked, Fresh
  <2> SUFFICES ASSUME NEW i \in 1..Good(file'), NEW j \in 1..Good(file')
               PROVE  file'[i].id \in 1..lines' /\ (i < j => file'[i].id < file'[j].id)
    BY DEF Fresh
  <2>4. file'[i].id \in 1..lines'
    BY <1>1, <1>3, <2>1, <2>2
  <2>5. ASSUME i < j PROVE file'[i].id < file'[j].id
    <3>1. i \in 1..Good(file)
      BY <1>1, <1>3, <2>5
    <3>2. CASE j \in 1..Good(file)
      BY <2>1, <2>3, <2>5, <3>1, <3>2
    <3>3. CASE j = Good(file')
      BY <1>1, <1>3, <2>1, <3>1, <3>3
    <3> QED
      BY <2>2, <3>2, <3>3
  <2> QED
    BY <2>4, <2>5
<1>4. Holds(disk', disk) /\ Broken(disk) => Broken(disk')
  BY <1>1 DEF Holds, Broken
<1> QED
  BY <1>2, <1>3, <1>4 DEF Grows, Marked

(***************************************************************************)
(* Whoever tampers breaks the chain, or leaves a file that is not appended *)
(* to.  Removing an entry, or giving it another hash, shows in the entry   *)
(* after it, which is chained to a hash no other entry has.                *)
(***************************************************************************)
LEMMA TamperInv ==
    ASSUME Core, Marked, Tamper
    PROVE  LedgerInv'
<1>1. /\ ~tampered /\ tampered' = TRUE /\ disk' = file' /\ lines' = lines + 1
      /\ \A p \in Process : pc'[p] = "idle"
      /\ UNCHANGED <<pc, view, begun>> /\ faults' = faults + 1
  BY DEF Tamper, Fault
<1>2. /\ Fit(file, "chained") /\ Fit(disk, "chained") /\ Holds(file, disk) /\ Fresh(file) /\ lines \in Nat
      /\ acked \subseteq Nat
  BY <1>1 DEF Core, Order, Marked, LedgerTypeOK
<1>3. /\ file \in Seq(Line) /\ Good(file) \in 0..Len(file) /\ Len(file) \in Nat
      /\ Good(disk) \in Nat /\ Good(disk) <= Good(file)
  BY <1>2, FitSizes DEF Holds
<1>4. PICK i \in 1..Good(file) - 1 :
         /\ file' \in {SubSeq(file, 1, i - 1) \o SubSeq(file, i + 1, Len(file)),
                       [file EXCEPT ![i] = Junk("damaged")],
                       [file EXCEPT ![i].sound = FALSE],
                       [file EXCEPT ![i].id = lines + 1]}
         /\ acked' = acked \ {file[i].id}
  BY DEF Tamper
<1>5. /\ i \in 1..Good(file) /\ i + 1 \in 1..Good(file) /\ i < i + 1
      /\ file[i] \in Line /\ file[i].id \in 1..lines
      /\ file[i + 1].prev = file[i].id
      /\ \A j \in 1..Good(file) : j # i => file[j].id # file[i].id
  <2>1. i \in 1..Good(file) /\ i + 1 \in 1..Good(file) /\ i + 1 # 1 /\ i + 1 - 1 = i
    BY <1>3
  <2>2. file[i + 1].prev = file[i].id
    BY <1>2, <2>1 DEF Fit, Sound
  <2>3. \A j \in 1..Good(file) : j # i => file[j].id # file[i].id
    <3> SUFFICES ASSUME NEW j \in 1..Good(file), j # i
                 PROVE  file[j].id # file[i].id
      OBVIOUS
    <3>1. file[j].id \in 1..lines /\ file[i].id \in 1..lines
      BY <1>2, <2>1 DEF Fresh
    <3>2. j < i => file[j].id < file[i].id
      BY <1>2, <2>1 DEF Fresh
    <3>3. i < j => file[i].id < file[j].id
      BY <1>2, <2>1 DEF Fresh
    <3> QED
      BY <1>2, <1>3, <2>1, <3>1, <3>2, <3>3
  <2> QED
    BY <1>2, <1>3, <2>1, <2>2, <2>3, ElementOfSeq DEF Fresh
<1>6. \A a \in acked' : \E j \in 1..Good(file) : j # i /\ file[j].id = a
  <2> TAKE a \in acked'
  <2>1. a \in acked /\ a # file[i].id
    BY <1>4
  <2>2. PICK j \in 1..Good(disk) : disk[j].id = a
    BY <2>1 DEF Core
  <2>3. j \in 1..Good(file) /\ file[j].id = a
    BY <1>2, <1>3, <2>2 DEF Holds
  <2> QED
    BY <2>1, <2>3
<1>7. acked' \subseteq Nat
  BY <1>2, <1>4
<1>edit. ASSUME NEW line \in Line, NEW g, g = [file EXCEPT ![i] = line]
       PROVE  Edit(file, i, line, g)
  <2>1. i \in 1..Len(file)
    BY <1>3
  <2> QED
    BY <1>3, <1>edit, <2>1, ExceptSeq DEF Edit
\* Where the entries are still read, all that is left to show is that the chain is broken.
<1>8. ASSUME Fit(file', "loose"), Broken(file'),
             \A a \in acked' : \E j \in 1..Good(file') : file'[j].id = a
      PROVE  LedgerInv'
  <2>1. file' \in Seq(Line) /\ Good(file') \in Nat /\ Holds(file', file')
    BY <1>8, FitSizes DEF Holds
  <2>2. LedgerTypeOK'
    BY <1>1, <1>2, <1>7, <2>1 DEF Core, LedgerTypeOK
  <2>3. Core'
    BY <1>1, <1>8, <2>1, <2>2 DEF Core, Order, Abreast
  <2> QED
    BY <1>1, <1>8, <2>3 DEF LedgerInv, Marked
<1>9. CASE file' = SubSeq(file, 1, i - 1) \o SubSeq(file, i + 1, Len(file))
  <2>1. /\ Fit(file', "loose") /\ Good(file') = Good(file) - 1
        /\ \A j \in 1..i - 1 : file'[j] = file[j]
        /\ \A j \in i..Good(file) - 1 : file'[j] = file[j + 1]
    <3>1. Removal(file, i, file')
      BY <1>9 DEF Removal
    <3> QED
      BY <1>2, <3>1, RemovedLine
  <2>2. i \in 1..Good(file') /\ file'[i] = file[i + 1]
    BY <1>3, <2>1
  <2>3. file'[i].prev # (IF i = 1 THEN 0 ELSE file'[i - 1].id)
    <3>1. CASE i = 1
      BY <1>2, <1>5, <2>2, <3>1
    <3>2. CASE i # 1
      <4>1. i - 1 \in 1..i - 1 /\ i - 1 \in 1..Good(file) /\ i - 1 # i
        BY <1>3, <3>2
      <4>2. file'[i - 1].id = file[i - 1].id /\ file[i - 1].id # file[i].id
        BY <1>5, <2>1, <4>1
      <4> QED
        BY <1>5, <2>2, <3>2, <4>2
    <3> QED
      BY <3>1, <3>2
  <2>4. Broken(file')
    BY <2>2, <2>3 DEF Broken
  <2>5. \A a \in acked' : \E j \in 1..Good(file') : file'[j].id = a
    <3> TAKE a \in acked'
    <3>1. PICK j \in 1..Good(file) : j # i /\ file[j].id = a
      BY <1>6
    <3>2. CASE j < i
      <4>1. j \in 1..i - 1 /\ j \in 1..Good(file')
        BY <1>3, <2>1, <3>2
      <4> QED
        BY <2>1, <3>1, <4>1
    <3>3. CASE i < j
      <4>1. j - 1 \in i..Good(file) - 1 /\ j - 1 \in 1..Good(file') /\ (j - 1) + 1 = j
        BY <1>3, <2>1, <3>3
      <4> QED
        BY <2>1, <3>1, <4>1
    <3> QED
      BY <1>3, <3>1, <3>2, <3>3
  <2> QED
    BY <1>8, <2>1, <2>4, <2>5
<1>10. ASSUME file' = [file EXCEPT ![i] = Junk("damaged")]
       PROVE  LedgerInv'
  <2>1. /\ file' \in Seq(Line) /\ Len(file') = Len(file)
        /\ \A j \in 1..Len(file) : j # i => file'[j] = file[j]
        /\ Corrupt(file')
    <3>1. Junk("damaged") \in Line
      BY DEF Junk, Line
    <3>2. Edit(file, i, Junk("damaged"), file')
      BY <1>10, <1>edit, <3>1
    <3> QED
      BY <1>2, <3>2, DamagedLine
  <2>2. LedgerTypeOK'
    BY <1>1, <1>2, <1>7, <2>1 DEF Core, LedgerTypeOK
  <2>3. AckedKept'
    <3> SUFFICES ASSUME NEW a \in acked'
                 PROVE  \E j \in 1..Len(file') : IsEntry(file'[j]) /\ file'[j].id = a
      BY DEF AckedKept
    <3>1. PICK j \in 1..Good(file) : j # i /\ file[j].id = a
      BY <1>6
    <3>2. j \in 1..Len(file') /\ file'[j] = file[j]
      BY <1>3, <2>1, <3>1
    <3> QED
      BY <1>2, <3>1, <3>2 DEF Fit, Sound
  <2>4. Frozen'
    BY <1>1, <2>1, <2>2, <2>3 DEF Frozen
  <2> QED
    BY <2>4 DEF LedgerInv
<1>11. CASE file' = [file EXCEPT ![i].sound = FALSE]
  <2> DEFINE line == [file[i] EXCEPT !.sound = FALSE]
  <2>1. line \in Line /\ IsEntry(line) /\ line.sound = FALSE
    BY <1>2, <1>5 DEF Fit, Sound, IsEntry, Line
  <2>2. Edit(file, i, line, file')
    BY <1>11, <1>edit, <2>1
  <2> HIDE DEF line
  <2>3. /\ Fit(file', "loose") /\ Good(file') = Good(file)
        /\ file'[i] = line /\ \A j \in 1..Good(file) : j # i => file'[j] = file[j]
    BY <1>2, <1>5, <2>1, <2>2, EditedLine
  <2>4. Broken(file')
    BY <1>5, <2>1, <2>3 DEF Broken
  <2>5. \A a \in acked' : \E j \in 1..Good(file') : file'[j].id = a
    BY <1>6, <2>3
  <2> QED
    BY <1>8, <2>3, <2>4, <2>5
<1>12. CASE file' = [file EXCEPT ![i].id = lines + 1]
  <2> DEFINE line == [file[i] EXCEPT !.id = lines + 1]
  <2>1. line \in Line /\ IsEntry(line) /\ line.id = lines + 1
    <3>1. lines + 1 \in Nat /\ IsEntry(file[i])
      BY <1>2, <1>5 DEF Fit, Sound
    <3> QED
      BY <1>5, <3>1 DEF IsEntry, Line
  <2>2. Edit(file, i, line, file')
    BY <1>12, <1>edit, <2>1
  <2> HIDE DEF line
  <2>3. /\ Fit(file', "loose") /\ Good(file') = Good(file)
        /\ file'[i] = line /\ \A j \in 1..Good(file) : j # i => file'[j] = file[j]
    BY <1>2, <1>5, <2>1, <2>2, EditedLine
  <2>4. Broken(file')
    <3>1. i + 1 # i /\ i + 1 # 1 /\ i + 1 - 1 = i
      BY <1>3
    <3>2. file'[i + 1].prev = file[i].id /\ file'[i].id = lines + 1
      BY <1>5, <2>1, <2>3, <3>1
    <3>3. file[i].id # lines + 1
      BY <1>2, <1>5
    <3> QED
      BY <1>5, <2>3, <3>1, <3>2, <3>3 DEF Broken
  <2>5. \A a \in acked' : \E j \in 1..Good(file') : file'[j].id = a
    BY <1>6, <2>3
  <2> QED
    BY <1>8, <2>3, <2>4, <2>5
<1> QED
  BY <1>4, <1>9, <1>10, <1>11, <1>12

(***************************************************************************)
(* A damaged ledger stays as it is: nobody appends to it, and a power cut  *)
(* takes nothing away that has reached the disk.                           *)
(***************************************************************************)
LEMMA StepFrozen ==
    ASSUME Frozen, Next
    PROVE  Frozen' /\ tampered'
<1>1. \A p \in Process : pc[p] = "idle"
  BY DEF Frozen
<1>2. ASSUME NEW p \in Process
      PROVE  ~Appending(p) /\ ~ShortWrite(p) /\ ~SyncFails(p) /\ ~Kill(p)
  BY <1>1 DEF Frozen, Appending, Scan, Truncate, Write, Sync, ShortWrite, SyncFails, Kill
<1>3. PowerCut
  BY <1>2 DEF Frozen, Next, Tamper
<1>4. \A g \in Survivors(file, file) : g = file
  <2> SUFFICES ASSUME NEW g \in Survivors(file, file), g # file
               PROVE  FALSE
    OBVIOUS
  <2>0. file \in Seq(Line) /\ Len(file) \in Nat
    BY LenProperties DEF Frozen, LedgerTypeOK
  <2>1. PICK n \in Cuts(file, file) : g \in LeftAt(file, n)
    BY DEF Survivors
  <2>2. n = Len(file)
    <3>1. n \in 0..Len(file) /\ \A i \in n + 1..Len(file) : i > Len(file)
      BY DEF Cuts
    <3>2. ~(n < Len(file))
      <4> SUFFICES ASSUME n < Len(file) PROVE FALSE
        OBVIOUS
      <4>1. n + 1 \in n + 1..Len(file)
        BY <2>0, <3>1
      <4> QED
        BY <2>0, <3>1, <4>1
    <3> QED
      BY <2>0, <3>1, <3>2
  <2>3. g = SubSeq(file, 1, Len(file))
    BY <2>1, <2>2 DEF LeftAt
  <2> QED
    BY <2>0, <2>3, SubSeqFull
<1>5. file' = file /\ disk' = file
  BY <1>3, <1>4 DEF Frozen, PowerCut
<1>6. /\ pc' = [p \in Process |-> "idle"] /\ faults' = faults + 1
      /\ UNCHANGED <<view, lines, begun, acked, tampered>>
  BY <1>3 DEF PowerCut, Fault
<1> QED
  BY <1>5, <1>6 DEF Frozen, LedgerTypeOK, AckedKept

(***************************************************************************)
(* Every step keeps the invariant; until somebody tampers, the record on   *)
(* the disk only grows.                                                    *)
(***************************************************************************)
LEMMA StepInv ==
    ASSUME OneProcess, LedgerInv, [Next]_vars
    PROVE  LedgerInv' /\ (~tampered' => Holds(disk', disk))
<1>1. CASE UNCHANGED vars
  <2>1. Core => Holds(disk, disk)
    BY FitSizes DEF Core, Holds
  <2>2. Core => Core'
    BY <1>1 DEF vars, Core, Order, LedgerTypeOK, Abreast
  <2>3. Marked => Marked'
    BY <1>1 DEF vars, Marked, Fresh
  <2>4. Frozen => Frozen'
    BY <1>1 DEF vars, Frozen, LedgerTypeOK, AckedKept
  <2> QED
    BY <1>1, <2>1, <2>2, <2>3, <2>4 DEF vars, LedgerInv, Frozen
<1>2. CASE Next /\ Frozen
  BY <1>2, StepFrozen DEF LedgerInv
<1>3. CASE Core /\ Marked /\ Tamper
  BY <1>3, TamperInv DEF Tamper
<1>4. CASE Core /\ Marked /\ Next /\ ~Tamper
  <2>1. Core' /\ Grows
    BY <1>4, StepCore
  <2> QED
    BY <1>4, <2>1, StepMarked DEF LedgerInv, Grows
<1> QED
  BY <1>1, <1>2, <1>3, <1>4 DEF LedgerInv

(***************************************************************************)
(* The inductive invariant.                                                *)
(***************************************************************************)
LEMMA AlwaysLedgerInv == ASSUME OneProcess PROVE Spec => []LedgerInv
<1>1. Init => LedgerInv
  <2> SUFFICES ASSUME Init PROVE LedgerInv
    OBVIOUS
  <2>1. Good(file) = 0
    <3>1. Sound(file, 0, "chained")
      BY EmptySeq DEF Init, Sound
    <3> QED
      BY <3>1, GoodIs
  <2>2. Marked
    BY <2>1 DEF Init, Marked, Fresh
  <2> QED
    BY <2>2, InitCore DEF LedgerInv
<1>2. LedgerInv /\ [Next]_vars => LedgerInv'
  BY StepInv
<1> QED
  BY <1>1, <1>2, PTL DEF Spec

(***************************************************************************)
(* One process never breaks the chain and never leaves a ledger that       *)
(* cannot be written to, whatever faults there are, until somebody edits   *)
(* the file.                                                               *)
(***************************************************************************)
THEOREM ChainStaysIntact == ASSUME OneProcess PROVE Spec => []ChainIntact
<1>1. LedgerInv => ChainIntact
  BY FitFile DEF LedgerInv, Core, Order, Frozen, ChainIntact
<1> QED
  BY <1>1, AlwaysLedgerInv, PTL

(***************************************************************************)
(* What an entry's hash or its successor gives away about an edited or     *)
(* removed line is given away for ever, whatever is appended, repaired,    *)
(* killed or cut afterwards.                                               *)
(***************************************************************************)
THEOREM TamperingStaysVisible == ASSUME OneProcess PROVE Spec => []TamperingShows
<1>1. LedgerInv => TamperingShows
  <2> SUFFICES ASSUME Core, Broken(disk)
               PROVE  Broken(file)
    BY DEF LedgerInv, Marked, Frozen, TamperingShows
  <2>1. Good(disk) \in Nat /\ Good(file) \in Nat /\ Holds(file, disk)
    BY FitSizes DEF Core
  <2> QED
    BY <2>1 DEF Broken, Holds
<1> QED
  BY <1>1, AlwaysLedgerInv, PTL

(***************************************************************************)
(* The state is well typed and the entries that were acknowledged stay,    *)
(* through every fault and whatever somebody does to other lines.          *)
(***************************************************************************)
THEOREM AcknowledgedStay ==
    ASSUME OneProcess
    PROVE  Spec => [](LedgerTypeOK /\ AckedKept)
<1>1. LedgerInv => LedgerTypeOK /\ AckedKept
  <2> SUFFICES ASSUME Core, NEW a \in acked
               PROVE  \E i \in 1..Len(file) : IsEntry(file[i]) /\ file[i].id = a
    BY DEF LedgerInv, Frozen, Core, AckedKept
  <2>1. PICK i \in 1..Good(disk) : disk[i].id = a
    BY DEF Core
  <2>2. i \in 1..Good(file) /\ file[i] = disk[i] /\ Good(file) \in 0..Len(file) /\ Len(file) \in Nat
    BY FitSizes DEF Core, Holds
  <2> QED
    BY <2>1, <2>2 DEF Core, Fit, Sound
<1> QED
  BY <1>1, AlwaysLedgerInv, PTL

(***************************************************************************)
(* The entries of a sound file are a chained record; the entries of a file *)
(* that holds another's extend its record.                                 *)
(***************************************************************************)
LEMMA EntriesChained ==
    ASSUME NEW f, Fit(f, "chained")
    PROVE  /\ Entries(f) \in Seq(Line) /\ Len(Entries(f)) = Good(f)
           /\ \A i \in 1..Good(f) : Entries(f)[i] = f[i]
           /\ Record!Chained(Entries(f))
<1>1. /\ Fit(Entries(f), "chained") /\ Good(Entries(f)) = Good(f) /\ Len(Entries(f)) = Good(f)
      /\ \A i \in 1..Good(f) : Entries(f)[i] = f[i]
  BY FitSizes, CutFile DEF Entries
<1>2. Entries(f) \in Seq(Line) /\ DOMAIN Entries(f) = 1..Good(f)
  BY <1>1, LenProperties DEF Fit, Sound
<1>3. Record!Chained(Entries(f))
  BY <1>1, <1>2 DEF Fit, Sound, Record!Chained, Record!HashBefore
<1> QED
  BY <1>1, <1>2, <1>3

(***************************************************************************)
(* One process implements the append-only record.                          *)
(***************************************************************************)
THEOREM LedgerImplementsRecord == ASSUME OneProcess PROVE Spec => ImplementsAppendOnly
<1>1. Init => Record!Init
  <2> SUFFICES ASSUME Init PROVE Record!Init
    OBVIOUS
  <2>1. Sound(disk, 0, "chained") /\ disk = <<>>
    BY EmptySeq DEF Init, Sound
  <2>2. Good(disk) = 0
    BY <2>1, GoodIs
  <2>3. Entries(disk) = <<>>
    BY <2>2, SubSeqEmpty DEF Entries
  <2> QED
    BY <2>3 DEF Init, Record!Init
<1>2. LedgerInv /\ [Next]_vars => [Record!Next]_<<Entries(disk), tampered>>
  <2> SUFFICES ASSUME LedgerInv, [Next]_vars
               PROVE  [Record!Next]_<<Entries(disk), tampered>>
    OBVIOUS
  <2>0. tampered' \in BOOLEAN
    BY StepInv DEF LedgerInv, Core, Frozen, LedgerTypeOK
  <2> SUFFICES ASSUME ~tampered'
               PROVE  Record!Grow /\ ~tampered
    BY <2>0 DEF Record!Next, Record!Tamper
  <2>1. LedgerInv' /\ Holds(disk', disk)
    BY StepInv
  <2>2. ~tampered
    BY DEF vars, Next, Appending, Scan, Truncate, Write, Sync, ShortWrite, SyncFails, Kill, PowerCut,
       Tamper
  <2>3. Fit(disk, "chained") /\ Fit(disk', "chained")
    BY <2>1, <2>2 DEF LedgerInv, Frozen, Core, Order
  <2>4. Record!Chained(Entries(disk'))
    BY <2>3, EntriesChained
  <2>5. Record!Extends(Entries(disk'), Entries(disk))
    <3>1. /\ Entries(disk) \in Seq(Line) /\ Len(Entries(disk)) = Good(disk)
          /\ \A i \in 1..Good(disk) : Entries(disk)[i] = disk[i]
          /\ Len(Entries(disk')) = Good(disk')
          /\ \A i \in 1..Good(disk') : Entries(disk')[i] = disk'[i]
      BY <2>3, EntriesChained
    <3>2. DOMAIN Entries(disk) = 1..Good(disk) /\ Good(disk) \in Nat /\ Good(disk') \in Nat
      BY <2>3, <3>1, LenProperties, FitSizes
    <3> QED
      BY <2>1, <3>1, <3>2 DEF Holds, Record!Extends
  <2> QED
    BY <2>1, <2>2, <2>4, <2>5 DEF LedgerInv, Frozen, Core, LedgerTypeOK, Record!Grow
<1> QED
  BY <1>1, <1>2, AlwaysLedgerInv, PTL DEF Spec, ImplementsAppendOnly, Record!Spec
=============================================================================
