\* The same patterns, and files both cover.
CONSTANTS
    src = src  pkg = pkg  srcStar = srcStar
    Star = Star  DoubleStar = DoubleStar
    Name = {src, pkg}
    Glob = {srcStar}
    Matches <- MatchTable
    MaxDepth = 3
    MaxFileDepth = 4
SPECIFICATION Spec
INVARIANTS
    CollisionNeverMissed
\* Patterns stop growing at MaxDepth.
CHECK_DEADLOCK FALSE
