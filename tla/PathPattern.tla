---------------------------- MODULE PathPattern ----------------------------
(***************************************************************************)
(* pkg/models/path_pattern.go: when a scope pattern covers a file, and     *)
(* when two patterns are taken to overlap.  Two tasks are kept apart by    *)
(* the second question only; what it has to keep apart is answered by the  *)
(* first.                                                                  *)
(*                                                                         *)
(* A pattern is the sequence of its normalised segments, all in one        *)
(* repository.  Segments are names, "**" (DoubleStar), "*" (Star) or other *)
(* wildcards; which names a wildcard segment matches is path.Match's       *)
(* business and a constant here.                                           *)
(***************************************************************************)
EXTENDS Naturals, Sequences

CONSTANTS
    Name,              \* literal segments
    Star, DoubleStar,  \* "*" and "**"
    Glob,              \* other segments with a wildcard
    Matches,           \* path.Match: pairs of a wildcard segment and a name
    MaxDepth,          \* bound: segments of a pattern
    MaxFileDepth       \* bound: segments of a file

Wildcard == {Star, DoubleStar} \cup Glob
Segment == Name \cup Wildcard

ASSUME PatternAssumption ==
    /\ Name \cap Wildcard = {} /\ Star # DoubleStar /\ {Star, DoubleStar} \cap Glob = {}
    /\ Matches \subseteq (Wildcard \ {DoubleStar}) \X Name
    /\ \A n \in Name : <<Star, n>> \in Matches
    \* Files are as deep as the patterns.
    /\ Name # {} /\ MaxDepth \in Nat \ {0} /\ MaxFileDepth \in Nat /\ MaxFileDepth >= MaxDepth

Fits(segment, name) == segment = name \/ <<segment, name>> \in Matches

-----------------------------------------------------------------------------
(* The algorithm.                                                          *)

hasWildcard(p) == \E i \in DOMAIN p : p[i] \in Wildcard

\* The segments before the first wildcard.
literalPrefix(p) ==
    SubSeq(p, 1, CHOOSE n \in 0..Len(p) :
                    /\ \A i \in 1..n : p[i] \in Name
                    /\ n < Len(p) => p[n + 1] \in Wildcard)

isPrefixOf(short, long) ==
    Len(short) <= Len(long) /\ \A i \in DOMAIN short : short[i] = long[i]

\* Mutant of matchGlob: "**" spans at least one segment.
matchSome(pattern, concrete) ==
    LET n == Len(pattern)
        m == Len(concrete)
        match[i \in 0..n] ==
           IF i = n THEN {m}
           ELSE LET rest == match[i + 1]
                IN  IF pattern[i + 1] = DoubleStar THEN {j \in 0..m : \E k \in rest : j < k}
                    ELSE {j \in 0..(m - 1) : Fits(pattern[i + 1], concrete[j + 1]) /\ j + 1 \in rest}
    IN  0 \in match[0]

\* match[i]: the j for which the pattern without its first i segments matches the path
\* without its first j.
matchGlob(pattern, concrete) ==
    LET n == Len(pattern)
        m == Len(concrete)
        match[i \in 0..n] ==
           IF i = n THEN {m}
           ELSE LET rest == match[i + 1]
                IN  IF pattern[i + 1] = DoubleStar THEN {j \in 0..m : \E k \in rest : j <= k}
                    ELSE {j \in 0..(m - 1) : Fits(pattern[i + 1], concrete[j + 1]) /\ j + 1 \in rest}
    IN  0 \in match[0]

\* dir/**, dir/**/*, **.
coversSubtree(p) ==
    LET lit == Len(literalPrefix(p))
    IN  /\ lit < Len(p) /\ p[lit + 1] = DoubleStar
        /\ \A i \in (lit + 1)..Len(p) : p[i] \in {Star, DoubleStar}

\* A file falls under a pattern that names it or a directory above it, or
\* that matches it.
PathCoveredBy(pattern, file) ==
    IF hasWildcard(pattern) THEN matchGlob(pattern, file) ELSE isPrefixOf(pattern, file)

\* Mutant of SameShape: only the wildcards of one side count.
FitsInto(p, q) ==
    Len(p) = Len(q) /\ \A i \in DOMAIN p : p[i] = q[i] \/ q[i] \in Wildcard

SameShape(p, q) ==
    /\ Len(p) = Len(q)
    /\ \A i \in DOMAIN p : p[i] = q[i] \/ p[i] \in Wildcard \/ q[i] \in Wildcard

\* Mutant of ConcreteOverlaps: a directory above the pattern does not count.
GlobMatches(concrete, glob) == matchGlob(glob, concrete)

\* A wildcard-free pattern against one with wildcards.
ConcreteOverlaps(concrete, glob) ==
    matchGlob(glob, concrete) \/ isPrefixOf(concrete, literalPrefix(glob))

PathPatternsOverlap(p, q) ==
    \/ p = q
    \/ /\ \/ isPrefixOf(literalPrefix(p), literalPrefix(q))
          \/ isPrefixOf(literalPrefix(q), literalPrefix(p))
       /\ CASE ~hasWildcard(p) /\ ~hasWildcard(q) -> isPrefixOf(p, q) \/ isPrefixOf(q, p)
            [] ~hasWildcard(p) /\ hasWildcard(q)  -> ConcreteOverlaps(p, q)
            [] hasWildcard(p) /\ ~hasWildcard(q)  -> ConcreteOverlaps(q, p)
            [] OTHER -> coversSubtree(p) \/ coversSubtree(q) \/ SameShape(p, q)

-----------------------------------------------------------------------------
(* Any two patterns, built up segment by segment.                          *)

VARIABLES a, b

Init == a \in {<<s>> : s \in Segment} /\ b \in {<<s>> : s \in Segment}

Deepen ==
    \E s \in Segment :
       \/ Len(a) < MaxDepth /\ a' = Append(a, s) /\ UNCHANGED b
       \/ Len(b) < MaxDepth /\ b' = Append(b, s) /\ UNCHANGED a

Spec == Init /\ [][Deepen]_<<a, b>>

File == UNION {[1..n -> Name] : n \in 1..MaxFileDepth}

\* There is a file both patterns cover.
Collide(p, q) == \E f \in File : PathCoveredBy(p, f) /\ PathCoveredBy(q, f)

\* The shapes the comment calls common: a path, a directory subtree (dir/**),
\* and names with "*" segments.
Concrete(p) == ~hasWildcard(p)
Subtree(p) == p[Len(p)] = DoubleStar /\ \A i \in 1..(Len(p) - 1) : p[i] \in Name
SingleStars(p) == hasWildcard(p) /\ \A i \in DOMAIN p : p[i] \in Name \cup {Star}

-----------------------------------------------------------------------------
(***************************************************************************)
(* Which of two tasks asks first makes no difference: LeaseAssumption      *)
(* takes this for granted.                                                 *)
(***************************************************************************)
OverlapIsMutual == PathPatternsOverlap(a, b) <=> PathPatternsOverlap(b, a)

(***************************************************************************)
(* "Exact for the common shapes": two paths or directory subtrees, or two  *)
(* patterns with "*" segments, overlap when some file falls under both,    *)
(* and only then.                                                          *)
(***************************************************************************)
ExactOnCommonShapes ==
    (\/ (Concrete(a) \/ Subtree(a)) /\ (Concrete(b) \/ Subtree(b))
     \/ SingleStars(a) /\ SingleStars(b))
       => (PathPatternsOverlap(a, b) <=> Collide(a, b))

\* What the exclusion of leases relies on: overlap is symmetric, and on the shapes people
\* write it is neither missed nor imagined.
MutualAndExact == OverlapIsMutual /\ ExactOnCommonShapes

(***************************************************************************)
(* The backtracking matcher agrees with the meaning of the wildcards: a    *)
(* path matches when it can be cut into one piece per segment, any piece   *)
(* for "**" and one fitting name for the others.                           *)
(***************************************************************************)
GlobIsCutting ==
    \A f \in File :
       matchGlob(a, f) <=>
          \E cut \in [0..Len(a) -> 0..Len(f)] :
             /\ cut[0] = 0 /\ cut[Len(a)] = Len(f)
             /\ \A i \in DOMAIN a :
                   IF a[i] = DoubleStar THEN cut[i - 1] <= cut[i]
                   ELSE cut[i] = cut[i - 1] + 1 /\ Fits(a[i], f[cut[i]])

(***************************************************************************)
(* "A real collision is never missed": two patterns that cover a common    *)
(* file overlap, so that two tasks never lease the same file.              *)
(***************************************************************************)
CollisionNeverMissed == Collide(a, b) => PathPatternsOverlap(a, b)
=============================================================================
