---------------------------- MODULE PolicyProofs ----------------------------
(***************************************************************************)
(* Policy's properties for every leaf config the API lets in, every refund *)
(* and every snapshot.                                                     *)
(***************************************************************************)
EXTENDS Policy, TLAPS

\* What the head's operations keep true of a unit's overrides: copies and
\* quorum are never stamped, and only a single-copy leaf's unit is ever marked
\* for a spot check.
Overrides ==
    /\ leaf \in LeafConfigs /\ ValidateValidationConfig(leaf)
    /\ wu \in UnitOverrides
    /\ wu.targetCopies = 0 /\ wu.minQuorum = 0
    /\ wu.spotCheck => leaf.spotCheckEnabled

IInv == Overrides /\ snap \in Observations

-----------------------------------------------------------------------------
(* What resolves to what.                                                  *)

\* The override chain, the larger and the smaller of two naturals.
LEMMA Arithmetic ==
    ASSUME NEW a \in Nat, NEW b \in Nat
    PROVE  /\ Override(a, b) \in Nat /\ (a > 0 \/ b > 0 => Override(a, b) > 0)
           /\ MaxOf(a, b) \in Nat /\ MaxOf(a, b) >= a /\ MaxOf(a, b) >= b
           /\ MinOf(a, b) \in Nat /\ MinOf(a, b) <= a /\ MinOf(a, b) <= b
           /\ (a >= b => MaxOf(a, b) = a) /\ (b >= a => MaxOf(a, b) = b)
           /\ (a <= b => MinOf(a, b) = a) /\ (b <= a => MinOf(a, b) = b)
  BY DEF Override, MaxOf, MinOf

\* A valid config's effective target and quorum are positive, and are the
\* plain override chains: the clamps of the Go code never bite.
LEMMA EffectiveValues ==
    ASSUME NEW c \in LeafConfigs, ValidateValidationConfig(c)
    PROVE  /\ EffectiveTargetCopies(c) = Override(c.targetCopies, c.redundancyFactor)
           /\ EffectiveTargetCopies(c) \in Nat /\ EffectiveTargetCopies(c) >= 1
           /\ EffectiveMinQuorum(c) = Override(c.minQuorum, c.redundancyFactor)
           /\ EffectiveMinQuorum(c) \in Nat /\ EffectiveMinQuorum(c) >= 1
           /\ EffectiveMinQuorum(c) <= EffectiveTargetCopies(c)
  <1> DEFINE f == c.redundancyFactor
             t == c.targetCopies
             q == c.minQuorum
  <1>1. f \in Nat /\ f >= 1 /\ t \in Nat /\ q \in Nat
    BY DEF LeafConfigs, ValidateValidationConfig
  <1>2. EffectiveTargetCopies(c) = Override(t, f)
    BY <1>1, Arithmetic DEF EffectiveTargetCopies, MaxOf
  <1>3. Override(t, f) \in Nat /\ Override(t, f) >= 1
    BY <1>1 DEF Override
  <1>4. Override(q, f) \in Nat /\ Override(q, f) >= 1 /\ Override(q, f) <= EffectiveTargetCopies(c)
    BY <1>1 DEF Override, ValidateValidationConfig
  <1>5. EffectiveMinQuorum(c) = Override(q, f)
    BY <1>2, <1>3, <1>4 DEF EffectiveMinQuorum, MinOf, MaxOf
  <1> QED
    BY <1>2, <1>3, <1>4, <1>5

\* The resolved policy of a unit whose target and quorum are not stamped, the
\* spot check being the only thing that moves them.
LEMMA ResolvedPolicy ==
    ASSUME NEW c \in LeafConfigs, ValidateValidationConfig(c),
           NEW w \in UnitOverrides, w.targetCopies = 0, w.minQuorum = 0,
           w.spotCheck => c.spotCheckEnabled,
           NEW p, p = ResolvePolicy(c, w)
    PROVE  /\ p.targetCopies \in Nat /\ p.targetCopies >= 1
           /\ p.targetCopies = IF w.spotCheck THEN 2 ELSE EffectiveTargetCopies(c)
           /\ p.minQuorum \in Nat /\ p.minQuorum >= 1 /\ p.minQuorum <= p.targetCopies
           /\ p.minQuorum = IF w.spotCheck THEN 2 ELSE EffectiveMinQuorum(c)
           /\ p.maxTotalCopies \in Nat /\ p.maxTotalCopies >= 1
           /\ p.maxTotalCopies = Override(w.maxTotalCopies,
                Override(c.maxTotalCopies, p.targetCopies + DefaultCopyRetryMargin))
           /\ p.maxErrorCopies \in Nat
           /\ p.maxErrorCopies = Override(w.maxErrorCopies, c.maxErrorCopies)
           /\ p.threshold = Override(c.threshold, 100) /\ p.threshold \in Nat
  <1> DEFINE et == EffectiveTargetCopies(c)
             eq == EffectiveMinQuorum(c)
             t0 == Override(w.targetCopies, et)
             q0 == Override(w.minQuorum, eq)
             t  == MaxOf(IF w.spotCheck THEN MaxOf(t0, 2) ELSE t0, 1)
             q  == MinOf(MaxOf(IF w.spotCheck THEN t ELSE q0, 1), t)
  <1>1. et \in Nat /\ et >= 1 /\ eq \in Nat /\ eq >= 1 /\ eq <= et
    BY EffectiveValues
  <1>2. w.spotCheck => et = 1
    BY DEF ValidateValidationConfig
  <1>3. t0 = et /\ q0 = eq
    BY <1>1 DEF Override
  <1>4. w.spotCheck \in BOOLEAN
    BY DEF UnitOverrides
  <1>5. t = IF w.spotCheck THEN 2 ELSE et
    BY <1>1, <1>2, <1>3, <1>4 DEF MaxOf
  <1>6. q = IF w.spotCheck THEN 2 ELSE eq
    BY <1>1, <1>3, <1>4, <1>5 DEF MaxOf, MinOf
  <1>7. /\ p.targetCopies = t /\ p.minQuorum = q
        /\ p.maxTotalCopies = Override(w.maxTotalCopies,
                                Override(c.maxTotalCopies, t + DefaultCopyRetryMargin))
        /\ p.maxErrorCopies = Override(w.maxErrorCopies, c.maxErrorCopies)
        /\ p.threshold = Override(c.threshold, 100)
    BY Zenon DEF ResolvePolicy
  <1> HIDE DEF t, q, et, eq
  <1>8. t \in Nat /\ t >= 1 /\ q \in Nat /\ q >= 1 /\ q <= t
    BY <1>1, <1>2, <1>4, <1>5, <1>6
  <1>9. /\ w.maxTotalCopies \in Nat /\ w.maxErrorCopies \in Nat
        /\ c.maxTotalCopies \in Nat /\ c.maxErrorCopies \in Nat /\ c.threshold \in Nat
    BY DEF UnitOverrides, LeafConfigs
  <1>10. Override(c.maxTotalCopies, t + DefaultCopyRetryMargin) \in Nat
         /\ Override(c.maxTotalCopies, t + DefaultCopyRetryMargin) >= 1
    BY <1>8, <1>9 DEF Override, DefaultCopyRetryMargin
  <1>11. p.maxTotalCopies \in Nat /\ p.maxTotalCopies >= 1
    BY <1>7, <1>9, <1>10 DEF Override
  <1>12. p.maxErrorCopies \in Nat /\ p.threshold \in Nat
    BY <1>7, <1>9 DEF Override
  <1> QED
    BY <1>5, <1>6, <1>7, <1>8, <1>11, <1>12 DEF t, q, et, eq

\* Go and SQL agree on any config and overrides of that shape.
LEMMA Parity == Overrides => PolicyParity
  <1> SUFFICES ASSUME Overrides PROVE PolicyParity
    OBVIOUS
  <1> USE DEF Overrides
  <1> DEFINE p == ResolvePolicy(leaf, wu)
             k == Override(leaf.minTrusted, DefaultTrust)
  <1>1. /\ p.targetCopies = IF wu.spotCheck THEN 2 ELSE EffectiveTargetCopies(leaf)
        /\ p.minQuorum = IF wu.spotCheck THEN 2 ELSE EffectiveMinQuorum(leaf)
        /\ p.minQuorum \in Nat /\ p.minQuorum >= 1
        /\ p.maxTotalCopies = Override(wu.maxTotalCopies,
             Override(leaf.maxTotalCopies, p.targetCopies + DefaultCopyRetryMargin))
        /\ p.maxErrorCopies = Override(wu.maxErrorCopies, leaf.maxErrorCopies)
    <2> HIDE DEF p
    <2> QED BY ResolvedPolicy DEF p
  <1> HIDE DEF p
  <1>2. EffTargetSQL(leaf, wu) = p.targetCopies
    BY <1>1, EffectiveValues DEF EffTargetSQL, Override
  <1>3. EffQuorumSQL(leaf, wu) = p.minQuorum
    BY <1>1, EffectiveValues DEF EffQuorumSQL, Override
  <1>4. EffMaxTotalSQL(leaf, wu) = p.maxTotalCopies
    BY <1>1, <1>2 DEF EffMaxTotalSQL
  <1>5. EffMaxErrorSQL(leaf, wu) = p.maxErrorCopies
    <2>1. leaf.maxErrorCopies \in Nat
      BY DEF LeafConfigs
    <2> QED BY <1>1, <2>1 DEF EffMaxErrorSQL, Override
  <1>6. k \in Nat
    BY PolicyAssumption, Arithmetic DEF LeafConfigs
  <1>7. EffTrustKSQL(leaf, wu, Gate, DefaultTrust)
          = ResolveTrust(leaf, Gate, DefaultTrust, p.minQuorum)
    BY <1>1, <1>3, <1>6, PolicyAssumption DEF EffTrustKSQL, ResolveTrust, MinOf
  <1> QED
    BY <1>2, <1>3, <1>4, <1>5, <1>7 DEF PolicyParity, p

\* The decider's input, field by field.
LEMMA ResolvedSnapshot ==
    ASSUME IInv
    PROVE  /\ Resolved.state = snap.state /\ snap.state \in States
           /\ Resolved.live = snap.live /\ snap.live \in Nat
           /\ Resolved.total = snap.total /\ snap.total \in Nat
           /\ Resolved.errors = snap.errors /\ snap.errors \in Nat
           /\ Resolved.pending = snap.pending /\ snap.pending \in Nat
           /\ Resolved.policy.minQuorum = EffQuorumSQL(leaf, wu)
           /\ Resolved.policy.minQuorum \in Nat
           /\ Resolved.policy.maxTotalCopies = EffMaxTotalSQL(leaf, wu)
           /\ Resolved.policy.maxTotalCopies \in Nat /\ Resolved.policy.maxTotalCopies >= 1
           /\ Resolved.policy.maxErrorCopies = EffMaxErrorSQL(leaf, wu)
           /\ Resolved.policy.maxErrorCopies \in Nat
           /\ Resolved.pending < Resolved.policy.minQuorum /\ Resolved.live = 0
                => DispatchHeadroom(Resolved)
  <1> DEFINE p == ResolvePolicy(leaf, wu)
  <1>1. /\ p.minQuorum \in Nat /\ p.maxTotalCopies \in Nat /\ p.maxTotalCopies >= 1
        /\ p.maxErrorCopies \in Nat
        /\ p.targetCopies \in Nat /\ p.minQuorum <= p.targetCopies
    <2> HIDE DEF p
    <2> QED BY ResolvedPolicy DEF p, IInv, Overrides
  <1>2. /\ EffQuorumSQL(leaf, wu) = p.minQuorum
        /\ EffMaxTotalSQL(leaf, wu) = p.maxTotalCopies
        /\ EffMaxErrorSQL(leaf, wu) = p.maxErrorCopies
    BY Parity DEF IInv, PolicyParity
  <1> HIDE DEF p
  <1>3. /\ Resolved.policy.minQuorum = p.minQuorum
        /\ Resolved.policy.maxTotalCopies = p.maxTotalCopies
        /\ Resolved.policy.maxErrorCopies = p.maxErrorCopies
        /\ Resolved.policy.targetCopies = p.targetCopies
    BY DEF Resolved, p
  <1>4. /\ Resolved.state = snap.state /\ Resolved.live = snap.live
        /\ Resolved.total = snap.total /\ Resolved.errors = snap.errors
        /\ Resolved.pending = snap.pending
        /\ Resolved.probationLive = snap.probationLive
        /\ Resolved.probationPending = snap.probationPending
    BY DEF Resolved
  <1>5. /\ snap.state \in States /\ snap.live \in Nat /\ snap.total \in Nat
        /\ snap.errors \in Nat /\ snap.pending \in Nat
        /\ snap.probationLive \in Nat /\ snap.probationPending \in Nat
    BY DEF IInv, Observations
  <1>6. Resolved.pending < p.minQuorum /\ Resolved.live = 0 => DispatchHeadroom(Resolved)
    BY <1>1, <1>3, <1>4, <1>5 DEF DispatchHeadroom, CountableCopies, MaxOf
  <1> QED
    BY <1>1, <1>2, <1>3, <1>4, <1>5, <1>6

\* A dead-letter decision is taken only on rows the executor's guards accept.
LEMMA DeadLetters == IInv => DeadLetterExecutes
  <1> SUFFICES ASSUME IInv, Decide(Resolved).action = "DEADLETTER"
               PROVE  /\ snap.state \in {"QUEUED", "COMPLETED", "REJECTED"}
                      /\ snap.live = 0
                      /\ snap.pending < EffQuorumSQL(leaf, wu)
                      /\ \/ snap.total >= EffMaxTotalSQL(leaf, wu)
                         \/ /\ EffMaxErrorSQL(leaf, wu) > 0
                            /\ snap.errors >= EffMaxErrorSQL(leaf, wu)
    BY DEF DeadLetterExecutes
  <1> DEFINE s == Resolved
  <1>1. /\ s.state = snap.state /\ snap.state \in States
        /\ s.live = snap.live /\ snap.live \in Nat
        /\ s.total = snap.total /\ snap.total \in Nat
        /\ s.errors = snap.errors /\ snap.errors \in Nat
        /\ s.pending = snap.pending /\ snap.pending \in Nat
        /\ s.policy.minQuorum = EffQuorumSQL(leaf, wu) /\ s.policy.minQuorum \in Nat
        /\ s.policy.maxTotalCopies = EffMaxTotalSQL(leaf, wu) /\ s.policy.maxTotalCopies >= 1
        /\ s.policy.maxErrorCopies = EffMaxErrorSQL(leaf, wu) /\ s.policy.maxErrorCopies \in Nat
        /\ s.pending < s.policy.minQuorum /\ s.live = 0 => DispatchHeadroom(s)
    BY ResolvedSnapshot
  <1> HIDE DEF s
  <1>2. Decide(s).action = "DEADLETTER"
    BY DEF s
  <1>3. /\ s.state \in {"QUEUED", "COMPLETED", "REJECTED"} /\ ~(s.live > 0)
        /\ s.pending < s.policy.minQuorum
        /\ CapsExhausted(s) \/ ~DispatchHeadroom(s)
    BY <1>1, <1>2 DEF Decide, DecideOpen, DecideRejected, Decision, IsTerminalState, States
  <1> QED
    BY <1>1, <1>3 DEF CapsExhausted

\* What a decision was built from.
LEMMA DecisionFields ==
    ASSUME NEW action, NEW complete, NEW reopen
    PROVE  /\ Decision(action, complete, reopen).action = action
           /\ Decision(action, complete, reopen).completeFirst = complete
           /\ Decision(action, complete, reopen).reopen = reopen
  BY DEF Decision

\* A wait leaves a copy out, headroom for the dispatcher, or a quorum for the
\* recovery sweep.
LEMMA Waits == IInv => WaitsForSomething
  <1> DEFINE s == Resolved
             d == Decide(s)
             after == IF d.reopen THEN "QUEUED"
                      ELSE IF d.completeFirst /\ snap.state = "QUEUED" THEN "COMPLETED"
                      ELSE snap.state
  <1> SUFFICES ASSUME IInv, d.action = "WAIT", ~IsTerminalState(snap.state), ~(snap.live > 0)
               PROVE  /\ after = "QUEUED"
                      /\ \/ DispatchHeadroom(s) /\ ~CapsExhausted(s)
                         \/ snap.pending >= EffQuorumSQL(leaf, wu)
    BY DEF WaitsForSomething
  <1>1. /\ s.state = snap.state /\ snap.state \in States
        /\ s.live = snap.live /\ snap.live \in Nat
        /\ s.pending = snap.pending /\ snap.pending \in Nat
        /\ s.policy.minQuorum = EffQuorumSQL(leaf, wu) /\ s.policy.minQuorum \in Nat
        /\ s.pending < s.policy.minQuorum /\ s.live = 0 => DispatchHeadroom(s)
    BY ResolvedSnapshot
  <1> HIDE DEF s
  <1>2. s.live = 0
    BY <1>1
  <1>3. CASE s.state = "REJECTED"
    <2>1. /\ ~(s.pending < s.policy.minQuorum /\ CapsExhausted(s))
          /\ d.reopen
      BY <1>2, <1>3 DEF Decide, DecideRejected, Decision, IsTerminalState
    <2> QED
      BY <1>1, <1>2, <2>1
  <1>4. CASE s.state \in {"QUEUED", "COMPLETED"}
    <2> DEFINE complete == ~(s.pending < s.policy.minQuorum) /\ ~DispatchHeadroom(s)
    <2>1. /\ ~(s.live > 0)
          /\ ~IsTerminalState(s.state) /\ s.state # "REJECTED"
      BY <1>2, <1>4 DEF IsTerminalState
    <2>2. d = DecideOpen(s)
      BY <2>1, Zenon DEF Decide
    <2>3. /\ DispatchHeadroom(s) /\ ~CapsExhausted(s)
          /\ ~(~(s.pending < s.policy.minQuorum) /\ QuorumAgreement(s.verdict, s.policy))
      BY <2>1, <2>2 DEF DecideOpen, Decision
    <2>4. d = Decision("WAIT", complete, Reopens(s))
      BY <2>1, <2>2, <2>3, Zenon DEF DecideOpen
    <2>5. d.completeFirst = complete /\ d.reopen = Reopens(s)
      <3> HIDE DEF d, complete
      <3> QED BY <2>4, DecisionFields
    <2>6. ~d.completeFirst
      BY <2>3, <2>5, Zenon
    <2>7. s.state = "COMPLETED" => d.reopen
      BY <1>2, <2>3, <2>5, Zenon DEF Reopens
    <2> HIDE DEF d
    <2> QED
      BY <1>1, <1>4, <2>3, <2>6, <2>7
  <1> QED
    BY <1>1, <1>3, <1>4 DEF States, IsTerminalState

\* The induction: operations keep the shape of the overrides.
LEMMA Induction ==
    /\ Init => IInv
    /\ IInv /\ [Next]_vars => IInv'
  <1>1. Init => IInv
    <2> SUFFICES ASSUME Init PROVE IInv
      OBVIOUS
    <2>1. Overrides
      BY PolicyAssumption DEF Init, FreshUnit, UnitOverrides, Overrides
    <2>2. snap \in Observations
      BY DEF Init, Nothing, Observations, NoVerdict, Verdicts, States
    <2> QED BY <2>1, <2>2 DEF IInv
  <1>2. ASSUME IInv, [Next]_vars PROVE IInv'
    <2> USE <1>2 DEF IInv, Overrides
    <2>1. CASE MarkSpotCheck
      BY <2>1 DEF MarkSpotCheck, UnitOverrides
    <2>2. CASE ClearSpotCheck
      BY <2>2 DEF ClearSpotCheck, UnitOverrides
    <2>3. ASSUME NEW r \in Refunds, RefundCopyBudget(r[1], r[2]) PROVE IInv'
      <3> DEFINE p == ResolvePolicy(leaf, wu)
      <3>1. r[1] \in Nat /\ r[2] \in Nat
        BY PolicyAssumption
      <3>2. p.targetCopies \in Nat /\ p.maxErrorCopies \in Nat
        <4> HIDE DEF p
        <4> QED BY ResolvedPolicy DEF p
      <3> HIDE DEF p
      <3> DEFINE total == r[1] + Override(leaf.maxTotalCopies,
                                          p.targetCopies + DefaultCopyRetryMargin)
                 errors == IF p.maxErrorCopies > 0 THEN r[2] + p.maxErrorCopies
                                                   ELSE wu.maxErrorCopies
      <3>3. wu' = [wu EXCEPT !.maxTotalCopies = total, !.maxErrorCopies = errors]
            /\ UNCHANGED <<leaf, snap>>
        BY <2>3 DEF RefundCopyBudget, p
      <3>4. total \in Nat
        BY <3>1, <3>2 DEF LeafConfigs, Override, DefaultCopyRetryMargin
      <3>5. errors \in Nat
        BY <3>1, <3>2 DEF UnitOverrides
      <3> HIDE DEF total, errors
      <3> QED
        BY <3>3, <3>4, <3>5 DEF UnitOverrides
    <2>4. ASSUME NEW s \in Snapshots, Observe(s) PROVE IInv'
      BY <2>4, PolicyAssumption DEF Observe
    <2>5. CASE Forget
      BY <2>5 DEF Forget, Nothing, Observations, NoVerdict, Verdicts, States
    <2>6. CASE UNCHANGED vars
      BY <2>6 DEF vars
    <2> QED
      BY <1>2, <2>1, <2>2, <2>3, <2>4, <2>5, <2>6 DEF Next
  <1> QED
    BY <1>1, <1>2

-----------------------------------------------------------------------------
(* The theorems.                                                           *)

\* ResolvePolicy and ResolveTrust in Go and the eff*SQL fragments are one rule
\* for every unit the head can produce.
THEOREM PolicyParityHolds == Spec => []PolicyParity
  <1>1. IInv => PolicyParity
    BY Parity DEF IInv
  <1> QED
    BY <1>1, Induction, PTL DEF Spec

\* Whatever the snapshot, DeadLetterIfExhausted executes what Decide decided.
THEOREM DeadLetterExecutesHolds == Spec => []DeadLetterExecutes
  BY DeadLetters, Induction, PTL DEF Spec

\* Whatever the snapshot, Decide never waits for nothing.
THEOREM WaitsForSomethingHolds == Spec => []WaitsForSomething
  BY Waits, Induction, PTL DEF Spec
=============================================================================
