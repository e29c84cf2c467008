--------------------------- MODULE MCPathPattern ---------------------------
(***************************************************************************)
(* Patterns over two names, "*", "**" and a wildcard that matches one of   *)
(* the names.                                                              *)
(***************************************************************************)
EXTENDS PathPattern

CONSTANTS src, pkg, srcStar   \* srcStar stands for "s*"

MatchTable == {<<Star, src>>, <<Star, pkg>>, <<srcStar, src>>}
=============================================================================
