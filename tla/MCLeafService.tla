--------------------------- MODULE MCLeafService ---------------------------
(***************************************************************************)
(* Instances of LeafService for TLC: two replicas that contend for the     *)
(* leader's lock, one of them with units of the leaf staged.               *)
(***************************************************************************)
EXTENDS LeafService, TLC

CONSTANTS r1, r2, q1, q2

OneEach == [q \in Requests |-> IF q = q1 THEN r1 ELSE r2]
=============================================================================
