------------------------------ MODULE MCLedger ------------------------------
(***************************************************************************)
(* One marshal process (marshal serve) and a bounded number of faults.     *)
(***************************************************************************)
EXTENDS Ledger

CONSTANT service   \* marshal serve, alone on its ledger
=============================================================================
