\* Every pair of patterns of up to three segments.
CONSTANTS
    src = src  pkg = pkg  srcStar = srcStar
    Star = Star  DoubleStar = DoubleStar
    Name = {src, pkg}
    Glob = {srcStar}
    Matches <- MatchTable
    MaxDepth = 3
    MaxFileDepth = 4
SPECIFICATION Spec
INVARIANTS
    MutualAndExact
    GlobIsCutting
\* Patterns stop growing at MaxDepth.
CHECK_DEADLOCK FALSE
