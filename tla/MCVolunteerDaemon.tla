-------------------------- MODULE MCVolunteerDaemon --------------------------
(***************************************************************************)
(* Instances of VolunteerDaemon for TLC.                                   *)
(***************************************************************************)
EXTENDS VolunteerDaemon

CONSTANTS u1, s1, s2
=============================================================================
