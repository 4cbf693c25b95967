------------------------------ MODULE MCLedger ------------------------------
(***************************************************************************)
(* An instance of Ledger for TLC: r1 and r2 are results of one account, r1 *)
(* and the honest r3 of the audited unit.                                  *)
(***************************************************************************)
EXTENDS Ledger

CONSTANTS r1, r2, r3

OneCheat == [r \in Results |-> IF r = r3 THEN "honest" ELSE "cheat"]
=============================================================================
