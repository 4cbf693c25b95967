-------------------------- MODULE MCDispatchCache --------------------------
(***************************************************************************)
(* Instances of DispatchCache for TLC.                                     *)
(***************************************************************************)
EXTENDS DispatchCache

CONSTANT a1
=============================================================================
