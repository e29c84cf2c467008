---------------------------- MODULE MCBranchLag -----------------------------
(***************************************************************************)
(* A task that owns or depends on files that the base moves.               *)
(***************************************************************************)
EXTENDS BranchLag, TLC

CONSTANTS t1, file, lib

OwnsFile == {file :> "owned" @@ lib :> "affected"}
Scopes   == OwnsFile \cup {file :> "affected" @@ lib :> "none"}
=============================================================================
