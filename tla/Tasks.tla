------------------------------- MODULE Tasks -------------------------------
(***************************************************************************)
(* What the models of the tables have in common.                           *)
(***************************************************************************)
CONSTANT Task    \* tasks
=============================================================================
