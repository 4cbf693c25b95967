---------------------------- MODULE MCAuditJobs ----------------------------
(***************************************************************************)
(* An instance of AuditJobs for TLC.                                       *)
(***************************************************************************)
EXTENDS AuditJobs

CONSTANTS r1, r2, r3, c1, c2, h1, h2, accepted, unreadable, w1, w2

\* The first and the last runner have the same hardware.
ClassOf(r) == IF r = r2 THEN c2 ELSE c1
=============================================================================
