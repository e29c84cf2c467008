--------------------------- MODULE MCTaskPositions ---------------------------
(* A view of three tasks. *)
EXTENDS TaskPositions

MCFilterIndex == <<1, 1, 2>>
=============================================================================
