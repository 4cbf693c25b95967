------------------------------- MODULE Policy -------------------------------
(***************************************************************************)
(* A leaf's policy and a unit's overrides as they change under the head's  *)
(* operations, next to the snapshots a transitioner may take of the unit.  *)
(* Every rule exists twice in the head, in Go (the decider) and in SQL     *)
(* (dispatch, the sweeps and the executors); this module is about the two  *)
(* staying one rule, and about the decision leading somewhere.             *)
(*                                                                         *)
(*   services/infrastructure/internal/transition/decide.go, policy.go,     *)
(*   trust.go; internal/workunit/redundancy_sql.go, pgx-repo.go            *)
(***************************************************************************)
EXTENDS Redundancy

CONSTANTS
    Leafs,          \* validation configs, as they pass the leaf API
    Gate,           \* the head's trust gate
    DefaultTrust,   \* and its default number of trusted corroborators
    Refunds,        \* <<spent copies, spent errors>> at which a refund may happen
    MaxCeiling,     \* bound: no refund of a unit whose error ceiling is above
    Snapshots       \* the snapshots a transitioner may take, less the policy

UnitOverrides ==
    [ targetCopies : Nat, minQuorum : Nat, maxTotalCopies : Nat, maxErrorCopies : Nat,
      spotCheck : BOOLEAN ]

Verdicts == [majority : Nat, total : Nat, trusted : Nat]

Observations ==
    [ state : States, live : Nat, probationLive : Nat, total : Nat, errors : Nat,
      pending : Nat, probationPending : Nat, verdict : Verdicts ]

ASSUME PolicyAssumption ==
    /\ Leafs \subseteq {c \in LeafConfigs : ValidateValidationConfig(c)}
    /\ Gate \in BOOLEAN
    /\ DefaultTrust \in Nat
    /\ MaxCeiling \in Nat
    /\ Refunds \subseteq Nat \X Nat
    /\ Snapshots \subseteq Observations

VARIABLES
    leaf,   \* the leaf's config
    wu,     \* the unit's stamped overrides
    snap    \* the observation the transitioner decides on

vars == <<leaf, wu, snap>>

FreshUnit == [ targetCopies |-> 0, minQuorum |-> 0, maxTotalCopies |-> 0,
               maxErrorCopies |-> 0, spotCheck |-> FALSE ]

Nothing == [ state |-> "QUEUED", live |-> 0, probationLive |-> 0, total |-> 0, errors |-> 0,
             pending |-> 0, probationPending |-> 0, verdict |-> NoVerdict ]

Init == leaf \in Leafs /\ wu = FreshUnit /\ snap = Nothing

\* A hand-out of a single-copy unit promotes it to a spot check.
MarkSpotCheck ==
    /\ leaf.spotCheckEnabled /\ leaf.redundancyFactor = 1 /\ ~wu.spotCheck
    /\ wu' = [wu EXCEPT !.spotCheck = TRUE]
    /\ UNCHANGED <<leaf, snap>>

ClearSpotCheck ==
    /\ wu.spotCheck
    /\ wu' = [wu EXCEPT !.spotCheck = FALSE]
    /\ UNCHANGED <<leaf, snap>>

\* The budget refund of a demoted or revived unit, after `spent` billed copies
\* and `errors` wasted ones.
RefundCopyBudget(spent, errors) ==
    LET p == ResolvePolicy(leaf, wu)
        freshTotal == Override(leaf.maxTotalCopies, p.targetCopies + DefaultCopyRetryMargin)
    IN  /\ wu.maxErrorCopies <= MaxCeiling
        /\ wu' = [wu EXCEPT !.maxTotalCopies = spent + freshTotal,
                            !.maxErrorCopies = IF p.maxErrorCopies > 0
                                                 THEN errors + p.maxErrorCopies ELSE @]
        /\ UNCHANGED <<leaf, snap>>

\* The transitioner takes a snapshot; the next evaluation starts afresh.
Observe(s) == snap = Nothing /\ snap' = s /\ UNCHANGED <<leaf, wu>>

Forget == snap # Nothing /\ snap' = Nothing /\ UNCHANGED <<leaf, wu>>

Next ==
    \/ MarkSpotCheck \/ ClearSpotCheck
    \/ \E r \in Refunds : RefundCopyBudget(r[1], r[2])
    \/ \E s \in Snapshots : Observe(s)
    \/ Forget

Spec == Init /\ [][Next]_vars

-----------------------------------------------------------------------------
\* The decider's full input: the observation under the resolved policy.
Resolved ==
    LET p == ResolvePolicy(leaf, wu)
    IN  [ state |-> snap.state, live |-> snap.live, probationLive |-> snap.probationLive,
          total |-> snap.total, errors |-> snap.errors, pending |-> snap.pending,
          probationPending |-> snap.probationPending, verdict |-> snap.verdict,
          policy |-> [ targetCopies |-> p.targetCopies, minQuorum |-> p.minQuorum,
                       threshold |-> p.threshold, maxTotalCopies |-> p.maxTotalCopies,
                       maxErrorCopies |-> p.maxErrorCopies,
                       minTrusted |-> ResolveTrust(leaf, Gate, DefaultTrust, p.minQuorum) ] ]

\* Go and SQL resolve the same target, quorum, ceilings and trust gate for
\* every config the leaf API lets in and every override the head stamps.
PolicyParity ==
    LET p == ResolvePolicy(leaf, wu)
    IN  /\ EffTargetSQL(leaf, wu) = p.targetCopies
        /\ EffQuorumSQL(leaf, wu) = p.minQuorum
        /\ EffMaxTotalSQL(leaf, wu) = p.maxTotalCopies
        /\ EffMaxErrorSQL(leaf, wu) = p.maxErrorCopies
        /\ EffTrustKSQL(leaf, wu, Gate, DefaultTrust)
             = ResolveTrust(leaf, Gate, DefaultTrust, p.minQuorum)

\* When the decider says dead-letter, the executor's own SQL guards let it
\* happen on the same rows: no unit is told to fail again and again in vain.
DeadLetterExecutes ==
    Decide(Resolved).action = "DEADLETTER" =>
      /\ snap.state \in {"QUEUED", "COMPLETED", "REJECTED"}
      /\ snap.live = 0
      /\ snap.pending < EffQuorumSQL(leaf, wu)
      /\ \/ snap.total >= EffMaxTotalSQL(leaf, wu)
         \/ EffMaxErrorSQL(leaf, wu) > 0 /\ snap.errors >= EffMaxErrorSQL(leaf, wu)

\* A WAIT always waits for something: a copy that is out, a dispatcher that
\* may hand out another one (the unit is QUEUED once the decision is applied),
\* or the sweep that re-drives a QUEUED unit at quorum.
WaitsForSomething ==
    LET d == Decide(Resolved)
        stateAfter == IF d.reopen THEN "QUEUED"
                      ELSE IF d.completeFirst /\ snap.state = "QUEUED" THEN "COMPLETED"
                      ELSE snap.state
    IN  d.action = "WAIT" /\ ~IsTerminalState(snap.state) =>
          \/ snap.live > 0
          \/ /\ stateAfter = "QUEUED"
             /\ \/ DispatchHeadroom(Resolved) /\ ~CapsExhausted(Resolved)
                \/ snap.pending >= EffQuorumSQL(leaf, wu)
=============================================================================
