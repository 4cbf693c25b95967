----------------------------- MODULE Redundancy -----------------------------
(***************************************************************************)
(* The pure redundancy policy of the head: how a leaf's validation config  *)
(* and a unit's stamped overrides resolve to target, quorum and ceilings   *)
(* (in Go, and again in SQL), and the one decision taken from a unit's     *)
(* snapshot.                                                               *)
(*                                                                         *)
(*   services/infrastructure/internal/transition/policy.go, trust.go,      *)
(*   decide.go; internal/workunit/state.go, redundancy_sql.go;             *)
(*   internal/leaf/validation.go, model.go                                 *)
(*                                                                         *)
(* A leaf config c has the fields redundancyFactor, targetCopies,          *)
(* minQuorum, maxTotalCopies, maxErrorCopies, threshold (in percent),      *)
(* spotCheckEnabled and minTrusted; a unit w has targetCopies, minQuorum,  *)
(* maxTotalCopies, maxErrorCopies and spotCheck.  0 means "not set".       *)
(***************************************************************************)
EXTENDS Integers

States == {"QUEUED", "COMPLETED", "VALIDATED", "REJECTED", "FAILED"}

IsTerminalState(s) == s \in {"VALIDATED", "FAILED"}

MaxOf(a, b) == IF a >= b THEN a ELSE b
MinOf(a, b) == IF a <= b THEN a ELSE b

\* The override chain "first if set, else second".
Override(first, second) == IF first > 0 THEN first ELSE second

-----------------------------------------------------------------------------
(* Leaf configuration: what the validator lets into the database.          *)

LeafConfigs ==
    [ redundancyFactor : Nat, targetCopies : Nat, minQuorum : Nat, maxTotalCopies : Nat,
      maxErrorCopies : Nat, threshold : Nat, spotCheckEnabled : BOOLEAN, minTrusted : Nat ]

EffectiveTargetCopies(c) == Override(c.targetCopies, MaxOf(c.redundancyFactor, 1))

EffectiveMinQuorum(c) ==
    MinOf(MaxOf(Override(c.minQuorum, c.redundancyFactor), 1), EffectiveTargetCopies(c))

ValidateValidationConfig(c) ==
    LET effTarget == EffectiveTargetCopies(c)
    IN  /\ c.redundancyFactor >= 1
        /\ c.targetCopies >= 0 /\ c.minQuorum >= 0
        /\ Override(c.minQuorum, c.redundancyFactor) <= effTarget
        /\ c.maxTotalCopies = 0 \/ c.maxTotalCopies >= effTarget
        /\ c.maxErrorCopies = 0 \/ c.maxErrorCopies >= effTarget
        /\ c.threshold \in 0..100
        /\ effTarget >= 2 => c.threshold \notin 1..50
        /\ c.minTrusted >= 0 /\ c.minTrusted <= EffectiveMinQuorum(c)
        /\ c.spotCheckEnabled => effTarget = 1

-----------------------------------------------------------------------------
(* Policy resolution in Go.                                                *)

DefaultCopyRetryMargin == 6

ResolvePolicy(c, w) ==
    LET target0 == Override(w.targetCopies, EffectiveTargetCopies(c))
        quorum0 == Override(w.minQuorum, EffectiveMinQuorum(c))
        target  == MaxOf(IF w.spotCheck THEN MaxOf(target0, 2) ELSE target0, 1)
        quorum  == MinOf(MaxOf(IF w.spotCheck THEN target ELSE quorum0, 1), target)
    IN  [ targetCopies   |-> target,
          minQuorum      |-> quorum,
          threshold      |-> Override(c.threshold, 100),
          maxTotalCopies |-> Override(w.maxTotalCopies,
                               Override(c.maxTotalCopies, target + DefaultCopyRetryMargin)),
          maxErrorCopies |-> Override(w.maxErrorCopies, c.maxErrorCopies) ]

\* The trust gate K of a leaf: 0 when the head's gate is off.
ResolveTrust(c, gate, defaultK, minQuorum) ==
    IF gate THEN MinOf(Override(c.minTrusted, defaultK), minQuorum) ELSE 0

-----------------------------------------------------------------------------
(* The same resolution as the SQL fragments every query embeds.            *)

EffTargetSQL(c, w) ==
    IF w.spotCheck THEN 2
    ELSE Override(w.targetCopies, Override(c.targetCopies, c.redundancyFactor))

\* Mutant of EffQuorumSQL: a spot check raises the target only.
EffQuorumIgnoringSpotCheck(c, w) ==
    Override(w.minQuorum, Override(c.minQuorum, c.redundancyFactor))

EffQuorumSQL(c, w) ==
    IF w.spotCheck THEN 2
    ELSE Override(w.minQuorum, Override(c.minQuorum, c.redundancyFactor))

EffMaxTotalSQL(c, w) ==
    Override(w.maxTotalCopies,
             Override(c.maxTotalCopies, EffTargetSQL(c, w) + DefaultCopyRetryMargin))

EffMaxErrorSQL(c, w) == Override(w.maxErrorCopies, Override(c.maxErrorCopies, 0))

EffTrustKSQL(c, w, gate, defaultK) ==
    LET quorum == EffQuorumSQL(c, w)
        baseK  == Override(c.minTrusted, defaultK)
    IN  CASE ~gate -> 0
          [] gate /\ quorum >= 1 /\ baseK > quorum -> quorum
          [] OTHER -> baseK

-----------------------------------------------------------------------------
(* The decision.  A snapshot s has state, policy (with the trust gate      *)
(* minTrusted overlaid), live, probationLive, total, errors, pending,      *)
(* probationPending and verdict, a record of distinct-subject counts or    *)
(* NoVerdict.                                                              *)

NoVerdict == [majority |-> 0, total |-> 0, trusted |-> 0]

CountableCopies(s) ==
    MaxOf(s.live - s.probationLive, 0) + MaxOf(s.pending - s.probationPending, 0)

DispatchHeadroom(s) == CountableCopies(s) < s.policy.targetCopies

\* Mutant of CapsExhausted: the last copy of the budget is not used.
CapsExhaustedEarly(s) ==
    \/ s.policy.maxTotalCopies > 0 /\ s.total + 1 >= s.policy.maxTotalCopies
    \/ s.policy.maxErrorCopies > 0 /\ s.errors >= s.policy.maxErrorCopies

CapsExhausted(s) ==
    \/ s.policy.maxTotalCopies > 0 /\ s.total  >= s.policy.maxTotalCopies
    \/ s.policy.maxErrorCopies > 0 /\ s.errors >= s.policy.maxErrorCopies

\* Decide's four acceptance gates over distinct subjects: ratio, quorum-sized
\* majority, strict majority, trusted corroborators.
QuorumAgreement(v, p) ==
    /\ v.total > 0
    /\ 100 * v.majority >= p.threshold * v.total
    /\ v.majority >= p.minQuorum
    /\ 2 * v.majority > v.total
    /\ v.trusted >= p.minTrusted

Decision(action, completeFirst, reopen) ==
    [action |-> action, completeFirst |-> completeFirst, reopen |-> reopen]

\* Mutant of Reopens: a COMPLETED unit that could take more copies stays closed.
NeverReopens(s) == FALSE

\* A COMPLETED unit that came up short and may have another copy takes dispatch
\* again.
Reopens(s) ==
    s.state = "COMPLETED" /\ s.live = 0 /\ DispatchHeadroom(s) /\ ~CapsExhausted(s)

\* A unit that is still open to votes: validate, wait for more copies, give up,
\* or close the round against everyone.
DecideOpen(s) ==
    LET p == s.policy
        short == s.pending < p.minQuorum
        more == s.live > 0 \/ (DispatchHeadroom(s) /\ ~CapsExhausted(s))
    IN  IF ~short /\ QuorumAgreement(s.verdict, p)
          THEN Decision("VALIDATE", TRUE, FALSE)
        ELSE IF more
          THEN Decision("WAIT", ~short /\ ~DispatchHeadroom(s), Reopens(s))
        ELSE IF short THEN Decision("DEADLETTER", FALSE, FALSE)
                      ELSE Decision("REJECT", TRUE, FALSE)

\* A REJECTED unit requeues once nothing is out, unless its budget is spent.
DecideRejected(s) ==
    IF s.live > 0 THEN Decision("WAIT", FALSE, FALSE)
    ELSE IF s.pending < s.policy.minQuorum /\ CapsExhausted(s)
      THEN Decision("DEADLETTER", FALSE, FALSE)
      ELSE Decision("WAIT", FALSE, TRUE)

Decide(s) ==
    IF IsTerminalState(s.state) THEN Decision("WAIT", FALSE, FALSE)
    ELSE IF s.state = "REJECTED" THEN DecideRejected(s) ELSE DecideOpen(s)
=============================================================================
