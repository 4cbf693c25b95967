------------------------- MODULE UnitLifecycleProofs -------------------------
(***************************************************************************)
(* What the lifecycle promises, and so every unit that implements it.      *)
(***************************************************************************)
EXTENDS UnitLifecycle, TLAPS

\* An accepted unit has nothing undecided, an unaccepted one has no winner.
Inv ==
    /\ TypeOK
    /\ phase = "accepted" => Open = {}
    /\ phase # "accepted" => \A v \in Voters : vote[v] # "won"

\* Every step of the lifecycle keeps the two apart.
LEMMA InvStep == Inv /\ [Next]_vars => Inv'
  <1> SUFFICES ASSUME Inv, [Next]_vars PROVE Inv'
    OBVIOUS
  <1> USE DEF Inv, TypeOK, Open, Votes
  <1>1. ASSUME NEW v \in Voters, Cast(v) PROVE Inv'
    BY <1>1 DEF Cast
  <1>2. ASSUME NEW v \in Voters, Restore(v) PROVE Inv'
    BY <1>2 DEF Restore
  <1>3. ASSUME NEW v \in Voters, Compensate(v) PROVE Inv'
    BY <1>3 DEF Compensate
  <1>4. CASE Accept
    BY <1>4 DEF Accept
  <1>5. CASE RejectRound
    BY <1>5 DEF RejectRound
  <1>6. CASE GiveUp
    BY <1>6 DEF GiveUp
  <1>7. CASE Revive
    BY <1>7 DEF Revive
  <1>8. CASE Refute
    BY <1>8 DEF Refute
  <1>9. CASE Demote
    BY <1>9 DEF Demote
  <1>10. CASE UNCHANGED vars
    BY <1>10 DEF vars
  <1> QED
    BY <1>1, <1>2, <1>3, <1>4, <1>5, <1>6, <1>7, <1>8, <1>9, <1>10 DEF Next

\* The lifecycle never shows a winner next to an undecided vote, or on a unit
\* that is not accepted: acceptResults, rejectAll, the dead letter, the revival
\* and the audit's demotion each leave a consistent unit behind.
THEOREM WinnersOnlyWhenAcceptedHolds == Spec => []WinnersOnlyWhenAccepted
  <1>1. Init => Inv
    BY DEF Init, Inv, TypeOK, Open, Votes
  <1>2. Inv => WinnersOnlyWhenAccepted
    BY DEF Inv, WinnersOnlyWhenAccepted
  <1> QED
    BY <1>1, <1>2, InvStep, PTL DEF Spec
=============================================================================
