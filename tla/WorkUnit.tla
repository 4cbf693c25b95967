------------------------------ MODULE WorkUnit ------------------------------
(***************************************************************************)
(* One work unit of the head: its row in work_units, the copies handed out *)
(* to volunteers (work_unit_assignment_history), the results submitted for *)
(* it, the credit ledger rows it produced, and everything that touches     *)
(* them concurrently: dispatch, run-start, submit, abandon, the fault      *)
(* monitor, the held-set reconciler, the content verifier, the operator,   *)
(* audit enforcement, the recovery sweep, and the transitioner's Evaluate. *)
(*                                                                         *)
(* Evaluate, the operator's requeue and the enforcement pass are sequences *)
(* of separate SQL statements, so each is a process (a member of Threads)  *)
(* with a program counter and the values it has read so far.  Every SQL    *)
(* transaction and every single SQL statement is one step, except the      *)
(* reservation flush, whose guards are evaluated on the statement's        *)
(* snapshot and whose row appears later (FlushSelect, FlushInsert).        *)
(*                                                                         *)
(* Time is abstracted: a deadline, a cooldown or a sweep's grace period    *)
(* may have passed at any moment.                                          *)
(***************************************************************************)
EXTENDS Redundancy, FiniteSets, Sequences

CONSTANTS
    Volunteers,     \* the accounts that take part
    Threads,        \* concurrent handler, sweep and transitioner goroutines
    Subject,        \* the trust subject of each volunteer (its DID, or itself)
    Trusted,        \* the volunteers whose subject's score is at the trust floor
    Outputs,        \* comparison keys (checksums) a result can have
    Unreadable,     \* outputs for which no comparison key can be computed
    Truth,          \* the output both audit runners compute
    Versions,       \* artifact versions a result can be stamped with, naturals
    Standings,      \* the account standings that occur, among OK, PROBATION, BENCHED
    Holds,          \* {FALSE}, or BOOLEAN when outputs may be submitted by reference
    Leaf,           \* the leaf's validation config
    TrustGate,      \* TRUE when the head enables the trust gate
    DefaultK,       \* the head's default for min_trusted_corroborators
    EmissionCap,    \* TRUE when a daily cap may suppress a credit grant
    LockHonored,    \* FALSE when the advisory unit lock may degrade to lock-free
    MaxRows,        \* bound: copies ever handed to one volunteer
    Budget,         \* bound: how often each kind of rare event happens
    Apart           \* bound: sets of kinds of which a behaviour shows one at most

Events == {"flush", "spot", "release", "requeue", "revive", "enforce", "crash", "standing"}

ASSUME ConstantsAssumption ==
    /\ Leaf \in LeafConfigs /\ ValidateValidationConfig(Leaf)
    /\ Trusted \subseteq Volunteers
    /\ \A v \in Trusted, w \in Volunteers : Subject[w] = Subject[v] => w \in Trusted
    /\ Versions \subseteq Nat
    /\ "OK" \in Standings
    /\ Holds \subseteq BOOLEAN
    /\ Unreadable \subseteq Outputs
    /\ EmissionCap \in BOOLEAN
    /\ LockHonored \in BOOLEAN
    /\ TrustGate \in BOOLEAN
    /\ DefaultK \in Nat
    /\ MaxRows \in Nat
    /\ Budget \in [Events -> Nat] /\ Apart \subseteq SUBSET Events

ASSUME ThreadsAssumption == "none" \notin Threads

ASSUME FiniteVolunteers == IsFiniteSet(Volunteers)

VARIABLES
    unit,       \* the work_units row
    rows,       \* each volunteer's copy rows, oldest first; only the last may be LIVE
    landing,    \* hand-outs of the cache half landed: a flush statement that passed its
                \* guards, its row not yet in, or a spot check marked, its copy not yet in
    res,        \* each volunteer's result row, if it has one
    credited,   \* volunteers whose result has a credit ledger row
    standing,   \* each volunteer's current effective standing
    sanctioned, \* volunteers whose result audit enforcement treated as fraud
    root,       \* the unit's confirmed MISMATCH audit: none, open or enforced
    ev,         \* the state of each thread
    lock,       \* the holder of the unit's advisory lock, or none
    used        \* how often each rare event has happened

vars == <<unit, rows, landing, res, credited, sanctioned, standing, root, ev, lock, used>>

-----------------------------------------------------------------------------
(* The tables.                                                             *)

InitUnit == [ state |-> "QUEUED", targetCopies |-> 0, minQuorum |-> 0,
              maxTotalCopies |-> 0, maxErrorCopies |-> 0, spotCheck |-> FALSE ]

Outcomes == {"LIVE", "COMPLETED", "EXPIRED", "ABANDONED", "RETURNED", "SUPERSEDED"}

NoResult == [status |-> "NONE", output |-> 0, version |-> 0, standing |-> "OK"]

Statuses == {"NONE", "PENDING", "AGREED", "DISAGREED", "SUPERSEDED",
             "AWAITING_CONTENT_VERIFICATION", "CONTENT_VERIFICATION_FAILED"}

LastRow(v) == rows[v][Len(rows[v])]

Live(v) == rows[v] # <<>> /\ LastRow(v).outcome = "LIVE"

LiveCopies == {v \in Volunteers : Live(v)}

WithStatus(st) == {v \in Volunteers : res[v].status = st}

Pending == WithStatus("PENDING")

\* A copy sequence with its last row closed.
Closed(copies, outcome) == [copies EXCEPT ![Len(copies)].outcome = outcome]

\* ... and with its last row run-started.
Started(copies) == [copies EXCEPT ![Len(copies)].started = TRUE]

\* Every row of the unit, as <<holder, position>>.
Rows == UNION {{<<v, i>> : i \in 1..Len(rows[v])} : v \in Volunteers}

RowsThat(P(_)) == {x \in Rows : P(rows[x[1]][x[2]])}

UnstartedAbandoners ==
    {x[1] : x \in RowsThat(LAMBDA r : r.outcome = "ABANDONED" /\ ~r.started)}

\* budgetCopiesSQL: rows other than give-backs, with a volunteer's un-started
\* abandons billed once.
BudgetCopies ==
    Cardinality(UnstartedAbandoners)
      + Cardinality(RowsThat(LAMBDA r : /\ r.outcome # "RETURNED"
                                        /\ ~(r.outcome = "ABANDONED" /\ ~r.started)))

\* errorCopiesSQL: wasted copies plus results that lost.
ErrorCopies ==
    Cardinality(UnstartedAbandoners)
      + Cardinality(RowsThat(LAMBDA r : \/ r.outcome = "EXPIRED"
                                        \/ r.outcome = "ABANDONED" /\ r.started))
      + Cardinality(WithStatus("DISAGREED"))

\* The negation of capsNotExhaustedSQL; DeadLetterIfExhausted's ceiling disjunct.
CapsExhaustedSQL ==
    \/ BudgetCopies >= EffMaxTotalSQL(Leaf, unit)
    \/ EffMaxErrorSQL(Leaf, unit) > 0 /\ ErrorCopies >= EffMaxErrorSQL(Leaf, unit)

-----------------------------------------------------------------------------
(* Comparison: version group, majority, verdict.  A result's output,       *)
(* version and stamps do not change while it is PENDING.                   *)

OfVersion(P, ver) == {v \in P : res[v].version = ver}

\* Mutant of VersionGroup: results of every version are compared with each other.
MixedVersions(P) == P

\* versionHomogeneousGroup: the largest single-version subset, ties to the
\* smaller version key.
VersionGroup(P) ==
    LET best == CHOOSE a \in Versions : \A b \in Versions :
                    \/ Cardinality(OfVersion(P, a)) > Cardinality(OfVersion(P, b))
                    \/ /\ Cardinality(OfVersion(P, a)) = Cardinality(OfVersion(P, b))
                       /\ a <= b
    IN  OfVersion(P, best)

OfOutput(G, o) == {v \in G : res[v].output = o}

\* compareExact: the largest group of equal outputs, nobody on a tie; an
\* unreadable output joins no group.
Majority(G) ==
    {v \in G : /\ res[v].output \notin Unreadable
               /\ \A o \in Outputs \ (Unreadable \cup {res[v].output}) :
                    Cardinality(OfOutput(G, res[v].output)) > Cardinality(OfOutput(G, o))}

StandingCountable(v) == res[v].standing = "OK"

\* Mutant of ComparisonVerdict: accounts are counted, not subjects.
VerdictByAccount(G, maj) ==
    LET counted == {v \in G : StandingCountable(v)}
    IN  [ majority |-> Cardinality(counted \cap maj),
          total    |-> Cardinality(counted),
          trusted  |-> Cardinality(counted \cap maj \cap Trusted) ]

\* BuildComparisonVerdict: distinct subjects; one that contradicts itself
\* never corroborates, one without good standing is not seen at all.
ComparisonVerdict(G, maj) ==
    LET counted  == {v \in G : StandingCountable(v)}
        subjects == {Subject[v] : v \in counted}
        agreeing == {s \in subjects : \A v \in counted : Subject[v] = s => v \in maj}
    IN  [ majority |-> Cardinality(agreeing),
          total    |-> Cardinality(subjects),
          trusted  |-> Cardinality({s \in agreeing :
                            \E v \in counted : Subject[v] = s /\ v \in Trusted}) ]

PolicyOf(u) ==
    LET p == ResolvePolicy(Leaf, u)
    IN  [ targetCopies   |-> p.targetCopies,
          minQuorum      |-> p.minQuorum,
          threshold      |-> p.threshold,
          maxTotalCopies |-> p.maxTotalCopies,
          maxErrorCopies |-> p.maxErrorCopies,
          minTrusted     |-> ResolveTrust(Leaf, TrustGate, DefaultK, p.minQuorum) ]

-----------------------------------------------------------------------------
(* Threads.                                                                *)

Idle == [ pc |-> "idle", enforcing |-> FALSE, unit |-> InitUnit, pend |-> {}, live |-> 0,
          action |-> "WAIT", retried |-> FALSE ]

Init ==
    /\ unit = InitUnit
    /\ rows = [v \in Volunteers |-> <<>>]
    /\ landing = {}
    /\ res = [v \in Volunteers |-> NoResult]
    /\ credited = {}
    /\ standing = [v \in Volunteers |-> "OK"]
    /\ sanctioned = {}
    /\ root = "none"
    /\ ev = [t \in Threads |-> Idle]
    /\ lock = "none"
    /\ used = [k \in Events |-> 0]

Spend(k) ==
    /\ used[k] < Budget[k]
    /\ \A S \in Apart : k \in S => \A j \in S \ {k} : used[j] = 0
    /\ used' = [used EXCEPT ![k] = @ + 1]

\* The handler that just committed goes on to call Evaluate.
Trigger(t) == ev[t].pc = "idle" /\ ev' = [ev EXCEPT ![t].pc = "lock"]

At(t, pc) == ev[t].pc = pc

Goto(t, pc) == ev' = [ev EXCEPT ![t].pc = pc] /\ UNCHANGED lock

\* WithUnitLock's fn has returned: unlock if this thread holds the lock.
Finish(t) ==
    /\ ev' = [ev EXCEPT ![t] = Idle]
    /\ lock' = IF lock = t THEN "none" ELSE lock

SetState(s) == unit' = [unit EXCEPT !.state = s]

CloseCopy(v, outcome) == rows' = [rows EXCEPT ![v] = Closed(@, outcome)]

ExpireLiveCopies(outcome) ==
    rows' = [v \in Volunteers |-> IF Live(v) THEN Closed(rows[v], outcome) ELSE rows[v]]

-----------------------------------------------------------------------------
(* Dispatch.                                                               *)

CountableCoverage ==
    Cardinality({v \in LiveCopies : standing[v] = "OK"})
      + Cardinality({v \in VersionGroup(Pending) : StandingCountable(v)})

TrustedPresent ==
    {Subject[v] : v \in Trusted \cap ({w \in LiveCopies : standing[w] = "OK"}
                                        \cup {w \in Pending : StandingCountable(w)})}

\* The last slots of a unit are kept for trusted subjects.
TrustReservation(v) ==
    LET k == EffTrustKSQL(Leaf, unit, TrustGate, DefaultK)
    IN  \/ k = 0
        \/ v \in Trusted
        \/ CountableCoverage + 1 + MaxOf(0, k - Cardinality(TrustedPresent))
             <= EffTargetSQL(Leaf, unit)

\* The guards every new copy must pass.  The post-failure cooldown and the
\* deadline feasibility test are clocks and hardware: they may let v pass.
MayHold(v) ==
    /\ unit.state = "QUEUED"
    /\ ~CapsExhaustedSQL
    /\ \A w \in Pending \cup LiveCopies : Subject[w] # Subject[v]
    /\ standing[v] # "BENCHED"
    /\ Len(rows[v]) < MaxRows

\* ... and those of FindNextAssignable and FlushReservations, which count the
\* headroom as well.
Eligible(v) ==
    /\ MayHold(v)
    /\ CountableCoverage < EffTargetSQL(Leaf, unit)
    /\ TrustReservation(v)

NewCopy(v) == rows' = [rows EXCEPT ![v] = Append(@, [outcome |-> "LIVE", started |-> FALSE])]

\* FlushReservations, the statement's snapshot.  It takes no lock on the unit.
\* (A flush whose rows appear at once is ReserveNextAssignable(v, FALSE).)
FlushSelect(v) ==
    /\ <<v, "flush">> \notin landing /\ Eligible(v) /\ Spend("flush")
    /\ landing' = landing \cup {<<v, "flush">>}
    /\ UNCHANGED <<unit, rows, res, credited, sanctioned, standing, root, ev, lock>>

\* FlushReservations, the rows become visible; ON CONFLICT DO NOTHING.
FlushInsert(v) ==
    /\ <<v, "flush">> \in landing
    /\ landing' = landing \ {<<v, "flush">>}
    /\ IF Live(v) THEN UNCHANGED rows ELSE NewCopy(v)
    /\ UNCHANGED <<unit, res, credited, sanctioned, standing, root, ev, lock, used>>

\* A single-copy leaf may ask for a second opinion on some of its units.
SpotChecked == Leaf.spotCheckEnabled /\ Leaf.redundancyFactor = 1

\* FindNextAssignable FOR UPDATE, ReserveCopy and, on a single-copy leaf, the
\* random promotion to a spot check, in one transaction.
ReserveNextAssignable(v, spot) ==
    /\ Eligible(v)
    /\ spot => SpotChecked /\ ~unit.spotCheck
    /\ NewCopy(v)
    /\ unit' = [unit EXCEPT !.spotCheck = @ \/ spot]
    /\ UNCHANGED <<landing, res, credited, sanctioned, standing, root, ev, lock, used>>

\* flushSpotChecks, first statement: a unit the cache handed out as a spot check,
\* to somebody new to it, is marked, whatever has become of it since.
MarkSpotCheck(v) ==
    /\ SpotChecked /\ <<v, "spot">> \notin landing /\ rows[v] = <<>> /\ Spend("spot")
    /\ unit' = [unit EXCEPT !.spotCheck = TRUE]
    /\ landing' = landing \cup {<<v, "spot">>}
    /\ UNCHANGED <<rows, res, credited, sanctioned, standing, root, ev, lock>>

\* Second statement: ReserveCopy, which leaves the headroom and the trust
\* reservation to the read that staged the unit.
ReserveCopy(v) ==
    /\ <<v, "spot">> \in landing
    /\ landing' = landing \ {<<v, "spot">>}
    /\ IF MayHold(v) THEN NewCopy(v) ELSE UNCHANGED rows
    /\ UNCHANGED <<unit, res, credited, sanctioned, standing, root, ev, lock, used>>

\* StartWork.  It tested unit.state = QUEUED in an earlier statement, so the
\* unit may have moved on by the time Assign runs; Assign only needs the copy.
StartWork(v) ==
    /\ Live(v) /\ ~LastRow(v).started
    /\ rows' = [rows EXCEPT ![v] = Started(@)]
    /\ UNCHANGED <<unit, landing, res, credited, sanctioned, standing, root, ev, lock, used>>

-----------------------------------------------------------------------------
(* Results.                                                                *)

\* SubmitResult's transaction, under the unit row lock: the live copy, or a
\* timed-out or abandoned one under the late-result grace, is COMPLETED, the
\* result is inserted (a second one of the same volunteer is refused and
\* changes nothing), and the unit is COMPLETED at quorum.
SubmitResult(v, o, ver, held, t) ==
    LET delta == IF held THEN 0 ELSE 1
    IN  /\ ~IsTerminalState(unit.state)
        /\ rows[v] # <<>> /\ LastRow(v).outcome \in {"LIVE", "EXPIRED", "ABANDONED"}
        /\ res[v].status = "NONE"
        /\ CloseCopy(v, "COMPLETED")
        /\ res' = [res EXCEPT ![v] =
                     [ status |-> IF held THEN "AWAITING_CONTENT_VERIFICATION" ELSE "PENDING",
                       output |-> o, version |-> ver, standing |-> standing[v] ]]
        /\ IF /\ unit.state = "QUEUED"
              /\ Cardinality(Pending) + delta >= ResolvePolicy(Leaf, unit).minQuorum
             THEN SetState("COMPLETED")
             ELSE UNCHANGED unit
        /\ Trigger(t)
        /\ UNCHANGED <<landing, credited, sanctioned, standing, root, lock, used>>

\* SubmitResult at the door of a finalized unit: the live copy is superseded.
SubmitTooLate(v) ==
    /\ IsTerminalState(unit.state) /\ Live(v)
    /\ CloseCopy(v, "SUPERSEDED")
    /\ UNCHANGED <<unit, landing, res, credited, sanctioned, standing, root, ev, lock, used>>

\* AbandonWorkUnit; an un-run give-back is RETURNED only if it never started.
AbandonWorkUnit(v, unrunGiveback, t) ==
    /\ Live(v)
    /\ CloseCopy(v, IF unrunGiveback /\ ~LastRow(v).started THEN "RETURNED" ELSE "ABANDONED")
    /\ Trigger(t)
    /\ UNCHANGED <<unit, landing, res, credited, sanctioned, standing, root, lock, used>>

\* The fault monitor closes a timed-out copy, then calls Evaluate.  Whether it
\* started was read by the scan: a copy run-started since is closed ABANDONED.
ExpireCopy(v, outcome, t) ==
    /\ Live(v)
    /\ outcome = "EXPIRED" => LastRow(v).started
    /\ CloseCopy(v, outcome)
    /\ Trigger(t)
    /\ UNCHANGED <<unit, landing, res, credited, sanctioned, standing, root, lock, used>>

\* reconcileHeldCopies: a copy missing from its machine's held report is
\* released; nothing re-evaluates the unit.
ReleaseStaleHeldCopy(v) ==
    /\ Live(v) /\ Spend("release")
    /\ CloseCopy(v, IF LastRow(v).started THEN "ABANDONED" ELSE "RETURNED")
    /\ UNCHANGED <<unit, landing, res, credited, sanctioned, standing, root, ev, lock>>

\* Mutant of PromoteHeld: the promotion does not look at the unit.
PromoteHeldUnguarded(v, served, t) ==
    /\ res[v].status = "AWAITING_CONTENT_VERIFICATION"
    /\ res' = [res EXCEPT ![v].status = "PENDING", ![v].output = served]
    /\ Trigger(t)
    /\ UNCHANGED <<unit, rows, landing, credited, sanctioned, standing, root, lock, used>>

\* The content verifier promotes a held result to a vote on the served bytes.
PromoteHeld(v, served, t) ==
    /\ res[v].status = "AWAITING_CONTENT_VERIFICATION"
    /\ ~IsTerminalState(unit.state)
    /\ res' = [res EXCEPT ![v].status = "PENDING", ![v].output = served]
    /\ Trigger(t)
    /\ UNCHANGED <<unit, rows, landing, credited, sanctioned, standing, root, lock, used>>

\* ... or fails it: bad content, retries spent, or the unit finalized meanwhile.
FailHeld(v) ==
    /\ res[v].status = "AWAITING_CONTENT_VERIFICATION"
    /\ res' = [res EXCEPT ![v].status = "CONTENT_VERIFICATION_FAILED"]
    /\ UNCHANGED <<unit, rows, landing, credited, sanctioned, standing, root, ev, lock, used>>

\* Mutant of ClearSpotCheck: a spot check with a result in is left alone.
ClearUnusedSpotCheck(t) ==
    /\ unit.spotCheck /\ Pending = {}
    /\ unit' = [unit EXCEPT !.spotCheck = FALSE]
    /\ Trigger(t)
    /\ UNCHANGED <<rows, landing, res, credited, sanctioned, standing, root, lock, used>>

\* The fault monitor gives up on a spot check that found no second volunteer.
\* Its scan saw the unit QUEUED; ClearSpotCheck itself does not look.
ClearSpotCheck(t) ==
    /\ unit.spotCheck
    /\ unit' = [unit EXCEPT !.spotCheck = FALSE]
    /\ Trigger(t)
    /\ UNCHANGED <<rows, landing, res, credited, sanctioned, standing, root, lock, used>>

\* An account's standing changes (the standing machine, the operator).
SetStanding(v, st) ==
    /\ standing[v] # st /\ Spend("standing")
    /\ standing' = [standing EXCEPT ![v] = st]
    /\ UNCHANGED <<unit, rows, landing, res, credited, sanctioned, root, ev, lock>>

\* The copy ceiling of a fresh unit of this leaf.
FreshTotal(u) ==
    Override(Leaf.maxTotalCopies, ResolvePolicy(Leaf, u).targetCopies + DefaultCopyRetryMargin)

Rejudged(r) == IF r.outcome = "ABANDONED" /\ ~r.started
                 THEN [r EXCEPT !.outcome = "RETURNED"] ELSE r

\* w is the unit row from which the caller resolved the fresh budget.
Refunded(u, w, budget, errors) ==
    LET fresh == ResolvePolicy(Leaf, w).maxErrorCopies
    IN  [u EXCEPT !.maxTotalCopies = budget + FreshTotal(w),
                  !.maxErrorCopies = IF fresh > 0 THEN errors + fresh ELSE @]

\* Mutant of ReviveDeadLettered: the results that lost vote again as well.
ReviveLosersToo(S, refund) ==
    /\ unit.state = "FAILED" /\ Spend("revive")
    /\ res' = [v \in Volunteers |->
                  IF res[v].status \in {"SUPERSEDED", "DISAGREED"}
                    THEN [res[v] EXCEPT !.status = "PENDING"] ELSE res[v]]
    /\ unit' = [unit EXCEPT !.state = "QUEUED"]
    /\ UNCHANGED <<rows, landing, credited, sanctioned, standing, root, ev, lock>>

\* ReviveDeadLettered, one transaction: re-judge the give-backs of the
\* volunteers in S, optionally refund the budget, refuse if it still reads
\* exhausted, resurrect the superseded results, requeue.
ReviveDeadLettered(S, refund) ==
    /\ unit.state = "FAILED" /\ Spend("revive")
    /\ rows' = [v \in Volunteers |->
                  IF v \in S THEN [i \in 1..Len(rows[v]) |-> Rejudged(rows[v][i])]
                             ELSE rows[v]]
    /\ res' = [v \in Volunteers |->
                  IF res[v].status = "SUPERSEDED" THEN [res[v] EXCEPT !.status = "PENDING"]
                                                  ELSE res[v]]
    /\ unit' = [(IF refund THEN Refunded(unit, unit, BudgetCopies', ErrorCopies') ELSE unit)
                  EXCEPT !.state = "QUEUED"]
    /\ ~CapsExhaustedSQL'
    /\ UNCHANGED <<landing, credited, sanctioned, standing, root, ev, lock>>

\* handleRequeue, its three statements: read the state, abandon the live
\* copies, requeue a REJECTED unit.  It takes no lock and calls no Evaluate.
RequeueRead(t) ==
    /\ At(t, "idle") /\ unit.state \in {"QUEUED", "REJECTED"} /\ Spend("requeue")
    /\ ev' = [ev EXCEPT ![t].pc = "rq_abandon", ![t].unit = unit]
    /\ UNCHANGED <<unit, rows, landing, res, credited, sanctioned, standing, root, lock>>

RequeueAbandon(t) ==
    /\ At(t, "rq_abandon")
    /\ ExpireLiveCopies("ABANDONED")
    /\ ev' = [ev EXCEPT ![t] = IF ev[t].unit.state = "QUEUED"
                                THEN Idle ELSE [@ EXCEPT !.pc = "rq_reassign"]]
    /\ UNCHANGED <<unit, landing, res, credited, sanctioned, standing, root, lock, used>>

\* Reassign: REJECTED back to QUEUED; a conflict from any other state.
Reassign == IF unit.state = "REJECTED" THEN SetState("QUEUED") ELSE UNCHANGED unit

RequeueReassign(t) ==
    /\ At(t, "rq_reassign")
    /\ Reassign
    /\ ev' = [ev EXCEPT ![t] = Idle]
    /\ UNCHANGED <<rows, landing, res, credited, sanctioned, standing, root, lock, used>>

-----------------------------------------------------------------------------
(* The transitioner: Evaluate under the unit's advisory lock.              *)

\* Mutant of StalledFinalization: COMPLETED units are not looked for.
StalledRejectedOnly == unit.state = "REJECTED"

\* The recovery sweep re-drives a parked COMPLETED or REJECTED unit and a
\* QUEUED one that already holds a quorum; residue of a half-written
\* finalization is only reported.
StalledFinalization ==
    \/ unit.state = "REJECTED"
    \/ unit.state = "COMPLETED" /\ (Pending # {} \/ WithStatus("AGREED") = {})

StalledQueuedAtQuorum ==
    /\ unit.state = "QUEUED" /\ Pending # {}
    /\ Cardinality(VersionGroup(Pending)) >= EffQuorumSQL(Leaf, unit)

RecoverySweep(t) ==
    /\ StalledFinalization \/ StalledQueuedAtQuorum
    /\ Trigger(t)
    /\ UNCHANGED <<unit, rows, landing, res, credited, sanctioned, standing, root, lock, used>>

\* A step that only reads the database.
ReadOnly == UNCHANGED <<unit, rows, landing, res, credited, sanctioned, standing, root, used>>

\* Mutant of WithUnitLock: nothing is waited for.
WithoutUnitLock(t) ==
    /\ At(t, "lock")
    /\ ev' = [ev EXCEPT ![t].pc = IF ev[t].enforcing THEN "fraud" ELSE "unit"]
    /\ UNCHANGED lock /\ ReadOnly

\* WithUnitLock: wait for the advisory lock, or run without it when it could
\* not be had in time.
WithUnitLock(t) ==
    /\ At(t, "lock")
    /\ \/ lock = "none" /\ lock' = t
       \/ ~LockHonored /\ UNCHANGED lock
    /\ ev' = [ev EXCEPT ![t].pc = IF ev[t].enforcing THEN "fraud" ELSE "unit"]
    /\ ReadOnly

EvUnit(t) ==
    /\ At(t, "unit")
    /\ IF IsTerminalState(unit.state)
         THEN Finish(t)
         ELSE /\ ev' = [ev EXCEPT ![t].pc = "results", ![t].unit = unit]
              /\ UNCHANGED lock
    /\ ReadOnly

\* Each of the snapshot's other reads is a statement of its own.
EvResults(t) ==
    /\ At(t, "results")
    /\ ev' = [ev EXCEPT ![t].pc = "live", ![t].pend = Pending]
    /\ UNCHANGED lock /\ ReadOnly

\* Mutant of EvLive: the caller's own copy is discounted.
EvLiveOffByOne(t) ==
    /\ At(t, "live")
    /\ ev' = [ev EXCEPT ![t].pc = "decide", ![t].live = Cardinality(LiveCopies) - 1]
    /\ UNCHANGED lock /\ ReadOnly

EvLive(t) ==
    /\ At(t, "live")
    /\ ev' = [ev EXCEPT ![t].pc = "decide", ![t].live = Cardinality(LiveCopies)]
    /\ UNCHANGED lock /\ ReadOnly

\* The snapshot e completed by the last three reads: CountTotalCopies,
\* CountErrorCopies, and CountProbationLiveCopies, which looks at the
\* holders' standing of now.
Snapshot(e) ==
    LET policy == PolicyOf(e.unit)
        G      == VersionGroup(e.pend)
    IN  [ state |-> e.unit.state, policy |-> policy,
          live |-> e.live, total |-> BudgetCopies, errors |-> ErrorCopies,
          probationLive |-> Cardinality({v \in LiveCopies : standing[v] # "OK"}),
          pending |-> Cardinality(G),
          probationPending |-> Cardinality({v \in G : ~StandingCountable(v)}),
          verdict |-> IF Cardinality(G) >= policy.minQuorum
                        THEN ComparisonVerdict(G, Majority(G)) ELSE NoVerdict ]

EvDecide(t) ==
    /\ At(t, "decide")
    /\ \E d \in {Decide(s) : s \in {Snapshot(ev[t])}} :
         LET next == CASE d.action = "DEADLETTER" -> "deadletter"
                       [] d.reopen                -> "reopen"
                       [] d.completeFirst         -> "mark"
                       [] OTHER                   -> "idle"
         IN  IF next = "idle"
               THEN Finish(t)
               ELSE /\ ev' = [ev EXCEPT ![t] = [@ EXCEPT !.pc = next, !.action = d.action,
                                                         !.live = 0]]
                    /\ UNCHANGED lock
    /\ ReadOnly

\* MarkCompleted, then the action.
EvMark(t) ==
    /\ At(t, "mark")
    /\ IF unit.state = "QUEUED" THEN SetState("COMPLETED") ELSE UNCHANGED unit
    /\ CASE ev[t].action = "VALIDATE" -> Goto(t, "accept")
         [] ev[t].action = "REJECT"   -> Goto(t, "reject")
         [] OTHER                     -> Finish(t)
    /\ UNCHANGED <<rows, landing, res, credited, sanctioned, standing, root, used>>

\* Mutant of StaleSnapshot: no recheck.
NeverStale(t) == FALSE

\* RunFinalization's recheck: the raw number of PENDING results has changed.
StaleSnapshot(t) == Cardinality(Pending) # Cardinality(ev[t].pend)

\* The finalization transaction finds its snapshot stale, its guarded flip misses, or a
\* grant hits uq_credit_ledger_result: everything rolls back.  ErrStaleSnapshot gets
\* one retry with a fresh snapshot; other errors end the evaluation.
EvRollback(t) ==
    /\ At(t, "accept") \/ At(t, "reject")
    /\ \/ StaleSnapshot(t)
       \/ unit.state # "COMPLETED"
       \/ At(t, "accept") /\ Majority(VersionGroup(ev[t].pend)) \cap credited # {}
    /\ IF StaleSnapshot(t) /\ ~ev[t].retried
         THEN /\ ev' = [ev EXCEPT ![t] = [Idle EXCEPT !.pc = "unit", !.retried = TRUE]]
              /\ UNCHANGED lock
         ELSE Finish(t)
    /\ ReadOnly

\* The statuses the accept transaction leaves behind.
Adjudicated(P) ==
    LET G == VersionGroup(P)
        agreed == Majority(G)
    IN  [v \in Volunteers |->
           IF v \in agreed THEN [res[v] EXCEPT !.status = "AGREED"]
           ELSE IF v \in G THEN [res[v] EXCEPT !.status = "DISAGREED"]
           ELSE IF v \in Pending /\ Cardinality(P) > Cardinality(G)
             THEN [res[v] EXCEPT !.status = "SUPERSEDED"]
           ELSE res[v]]

\* acceptResults; granted is what the emission cap lets through.
EvAccept(t, granted) ==
    LET agreed == Majority(VersionGroup(ev[t].pend))
    IN  /\ At(t, "accept") /\ ~StaleSnapshot(t)
        /\ unit.state = "COMPLETED"
        /\ granted \subseteq agreed /\ (EmissionCap \/ granted = agreed)
        /\ granted \cap credited = {}
        /\ res' = Adjudicated(ev[t].pend)
        /\ SetState("VALIDATED")
        /\ credited' = credited \cup granted
        /\ ev' = [ev EXCEPT ![t] = [Idle EXCEPT !.pc = "supersede"]]
        /\ UNCHANGED <<rows, landing, sanctioned, standing, root, lock, used>>

EvSupersede(t) ==
    /\ At(t, "supersede")
    /\ ExpireLiveCopies("SUPERSEDED")
    /\ Finish(t)
    /\ UNCHANGED <<unit, landing, res, credited, sanctioned, standing, root, used>>

\* rejectAll: COMPLETED to REJECTED and on to QUEUED in one transaction.
EvReject(t) ==
    LET G == VersionGroup(ev[t].pend)
    IN  /\ At(t, "reject") /\ ~StaleSnapshot(t)
        /\ unit.state = "COMPLETED"
        /\ res' = [v \in Volunteers |->
                      IF v \in G THEN [res[v] EXCEPT !.status = "DISAGREED"] ELSE res[v]]
        /\ SetState("QUEUED")
        /\ Finish(t)
        /\ UNCHANGED <<rows, landing, credited, sanctioned, standing, root, used>>

\* DeadLetterIfExhausted re-evaluates its own guards under the row lock.
Exhausted ==
    /\ unit.state \in {"QUEUED", "COMPLETED", "REJECTED"}
    /\ LiveCopies = {}
    /\ Cardinality(VersionGroup(Pending)) < EffQuorumSQL(Leaf, unit)
    /\ CapsExhaustedSQL

EvDeadLetter(t) ==
    /\ At(t, "deadletter")
    /\ IF Exhausted
         THEN /\ SetState("FAILED")
              /\ res' = [v \in Volunteers |->
                           IF v \in Pending THEN [res[v] EXCEPT !.status = "SUPERSEDED"]
                                            ELSE res[v]]
         ELSE UNCHANGED <<unit, res>>
    /\ Finish(t)
    /\ UNCHANGED <<rows, landing, credited, sanctioned, standing, root, used>>

\* reopen: a guarded flip back to QUEUED from the state the snapshot saw.
EvReopen(t) ==
    /\ At(t, "reopen")
    /\ IF unit.state = ev[t].unit.state THEN SetState("QUEUED") ELSE UNCHANGED unit
    /\ Finish(t)
    /\ UNCHANGED <<rows, landing, res, credited, sanctioned, standing, root, used>>

\* A process dies, or one of its statements returns an error.
Crash(t) ==
    /\ ~At(t, "idle") /\ Spend("crash")
    /\ Finish(t)
    /\ UNCHANGED <<unit, rows, landing, res, credited, sanctioned, standing, root>>

-----------------------------------------------------------------------------
(* Audit enforcement, enforceRootLocked from the point where a second      *)
(* runner has confirmed the first one's MISMATCH.                          *)

\* The verdicts of an audit and its confirmation are in: both runners refuted
\* the accepted output.
ConfirmMismatch ==
    /\ unit.state = "VALIDATED" /\ root # "open"
    /\ WithStatus("AGREED") # {}
    /\ \A v \in WithStatus("AGREED") : res[v].output # Truth
    /\ Spend("enforce")
    /\ root' = "open"
    /\ UNCHANGED <<unit, rows, landing, res, credited, sanctioned, standing, ev, lock>>

\* The enforcement sweep, a job of the elected leader, picks the open root; so
\* does every later sweep until a pass gets to the end.
EnforceRoot(t) ==
    /\ root = "open" /\ At(t, "idle")
    /\ \A u \in Threads : ~ev[u].enforcing
    /\ ev' = [ev EXCEPT ![t].pc = "lock", ![t].enforcing = TRUE]
    /\ UNCHANGED <<unit, rows, landing, res, credited, sanctioned, standing, root, lock, used>>

\* Mutant of LoadFraudSet: every adjudicated result is taken for fraud.
LoadAllAdjudicated(t) ==
    /\ At(t, "fraud")
    /\ ev' = [ev EXCEPT ![t].pc = "slash",
                        ![t].pend = WithStatus("AGREED") \cup WithStatus("DISAGREED")]
    /\ UNCHANGED lock /\ ReadOnly

LoadFraudSet(t) ==
    /\ At(t, "fraud")
    /\ ev' = [ev EXCEPT ![t].pc = "slash", ![t].pend = WithStatus("AGREED")]
    /\ UNCHANGED lock /\ ReadOnly

\* Mutant of Sanction: the step is skipped.
SanctionNobody(t) ==
    /\ At(t, "slash")
    /\ Goto(t, "flip")
    /\ ReadOnly

\* Slash the subjects of the fraud set and claw its credit back.
Sanction(t) ==
    /\ At(t, "slash")
    /\ sanctioned' = sanctioned \cup ev[t].pend
    /\ Goto(t, "flip")
    /\ UNCHANGED <<unit, rows, landing, res, credited, standing, root, used>>

FlipToDisagreed(t) ==
    /\ At(t, "flip")
    /\ res' = [v \in Volunteers |->
                  IF v \in ev[t].pend THEN [res[v] EXCEPT !.status = "DISAGREED"] ELSE res[v]]
    /\ ev' = [ev EXCEPT ![t].pc = "repair", ![t].pend = {}]
    /\ UNCHANGED <<unit, rows, landing, credited, sanctioned, standing, root, lock, used>>

\* Mutant of RepairFlip: restored without the grant.
RepairFlipUnpaid(t, v) ==
    /\ At(t, "repair")
    /\ res[v].status = "DISAGREED" /\ res[v].output = Truth /\ Truth \notin Unreadable
    /\ res' = [res EXCEPT ![v].status = "AGREED"]
    /\ UNCHANGED <<unit, rows, landing, credited, sanctioned, standing, root, ev, lock, used>>

\* RepairUnit, one losing result that matches the ground truth at a time: the
\* flip, then the grant (a ledger row that exists already is no error).
RepairFlip(t, v) ==
    /\ At(t, "repair")
    /\ res[v].status = "DISAGREED" /\ res[v].output = Truth /\ Truth \notin Unreadable
    /\ res' = [res EXCEPT ![v].status = "AGREED"]
    /\ ev' = [ev EXCEPT ![t].pc = "grant", ![t].pend = {v}]
    /\ UNCHANGED <<unit, rows, landing, credited, sanctioned, standing, root, lock, used>>

RepairGrant(t, granted) ==
    /\ At(t, "grant")
    /\ granted \subseteq ev[t].pend /\ (EmissionCap \/ granted = ev[t].pend)
    /\ credited' = credited \cup granted
    /\ ev' = [ev EXCEPT ![t].pc = "repair", ![t].pend = {}]
    /\ UNCHANGED <<unit, rows, landing, res, sanctioned, standing, root, lock, used>>

\* Mutant of RepairDone: the unit is demoted whoever was restored.
RepairDoneDemotes(t) ==
    /\ At(t, "repair")
    /\ ~ \E v \in WithStatus("DISAGREED") : res[v].output = Truth /\ Truth \notin Unreadable
    /\ Goto(t, "dispose")
    /\ ReadOnly

\* No candidate left: the unit is demoted only if nothing agrees any more.
RepairDone(t) ==
    /\ At(t, "repair")
    /\ ~ \E v \in WithStatus("DISAGREED") : res[v].output = Truth /\ Truth \notin Unreadable
    /\ Goto(t, IF WithStatus("AGREED") = {} THEN "dispose" ELSE "close")
    /\ ReadOnly

\* DemoteAndRequeue: where to resume, from the unit's state; an unexpected
\* state is an error that leaves the root open.  "reload" is the second look
\* after the guarded demotion missed.
DemoteLoad(t) ==
    LET next == CASE unit.state = "QUEUED"                             -> "close"
                  [] unit.state = "REJECTED"                           -> "refund"
                  [] unit.state = "VALIDATED" /\ At(t, "dispose")      -> "abandon"
                  [] OTHER                                             -> "error"
    IN  /\ At(t, "dispose") \/ At(t, "reload")
        /\ IF next = "error"
             THEN Finish(t)
             ELSE /\ ev' = [ev EXCEPT ![t].pc = next, ![t].unit = unit]
                  /\ UNCHANGED lock
        /\ ReadOnly

DemoteAbandon(t) ==
    /\ At(t, "abandon")
    /\ ExpireLiveCopies("ABANDONED")
    /\ Goto(t, "demote")
    /\ UNCHANGED <<unit, landing, res, credited, sanctioned, standing, root, used>>

DemoteUnit(t) ==
    /\ At(t, "demote")
    /\ IF unit.state = "VALIDATED"
         THEN SetState("REJECTED") /\ Goto(t, "refund")
         ELSE UNCHANGED unit /\ Goto(t, "reload")
    /\ UNCHANGED <<rows, landing, res, credited, sanctioned, standing, root, used>>

RefundCopyBudget(t) ==
    /\ At(t, "refund")
    /\ IF unit.state = "REJECTED"
         THEN /\ unit' = Refunded(unit, ev[t].unit, BudgetCopies, ErrorCopies)
              /\ Goto(t, "requeue")
         ELSE UNCHANGED unit /\ Goto(t, "close")
    /\ UNCHANGED <<rows, landing, res, credited, sanctioned, standing, root, used>>

DemoteRequeue(t) ==
    /\ At(t, "requeue")
    /\ Reassign
    /\ Goto(t, "close")
    /\ UNCHANGED <<rows, landing, res, credited, sanctioned, standing, root, used>>

\* Mutant of CloseRoot: only the root of a unit that is still VALIDATED is closed.
CloseRootOfValidated(t) ==
    /\ At(t, "close")
    /\ root' = IF unit.state = "VALIDATED" THEN "enforced" ELSE root
    /\ Finish(t)
    /\ UNCHANGED <<unit, rows, landing, res, credited, sanctioned, standing, used>>

CloseRoot(t) ==
    /\ At(t, "close")
    /\ root' = "enforced"
    /\ Finish(t)
    /\ UNCHANGED <<unit, rows, landing, res, credited, sanctioned, standing, used>>

-----------------------------------------------------------------------------
Evaluate(t) ==
    \/ EvUnit(t) \/ EvResults(t) \/ EvLive(t) \/ EvDecide(t)
    \/ EvMark(t) \/ EvRollback(t)
    \/ (\E granted \in SUBSET Volunteers : EvAccept(t, granted))
    \/ EvSupersede(t) \/ EvReject(t) \/ EvDeadLetter(t) \/ EvReopen(t)

Enforce(t) ==
    \/ LoadFraudSet(t) \/ Sanction(t) \/ FlipToDisagreed(t)
    \/ (\E v \in Volunteers : RepairFlip(t, v))
    \/ (\E granted \in SUBSET Volunteers : RepairGrant(t, granted))
    \/ RepairDone(t) \/ DemoteLoad(t) \/ DemoteAbandon(t) \/ DemoteUnit(t)
    \/ RefundCopyBudget(t) \/ DemoteRequeue(t) \/ CloseRoot(t)

Requeue(t) == RequeueAbandon(t) \/ RequeueReassign(t)

Volunteer(v) ==
    \/ FlushSelect(v) \/ FlushInsert(v) \/ MarkSpotCheck(v) \/ ReserveCopy(v)
    \/ (\E spot \in BOOLEAN : ReserveNextAssignable(v, spot))
    \/ StartWork(v) \/ SubmitTooLate(v) \/ ReleaseStaleHeldCopy(v) \/ FailHeld(v)
    \/ (\E st \in Standings : SetStanding(v, st))

Handler(v, t) ==
    \/ (\E o \in Outputs, ver \in Versions, held \in Holds : SubmitResult(v, o, ver, held, t))
    \/ (\E giveback \in BOOLEAN : AbandonWorkUnit(v, giveback, t))
    \/ (\E outcome \in {"EXPIRED", "ABANDONED"} : ExpireCopy(v, outcome, t))
    \/ (\E served \in Outputs : PromoteHeld(v, served, t))

Background(t) ==
    \/ ClearSpotCheck(t) \/ RecoverySweep(t) \/ RequeueRead(t) \/ EnforceRoot(t)

Next ==
    \/ \E v \in Volunteers : Volunteer(v)
    \/ \E v \in Volunteers, t \in Threads : Handler(v, t)
    \/ \E t \in Threads : Background(t)
    \/ \E t \in Threads : WithUnitLock(t) \/ Evaluate(t) \/ Enforce(t) \/ Requeue(t) \/ Crash(t)
    \/ \E S \in SUBSET Volunteers, refund \in BOOLEAN : ReviveDeadLettered(S, refund)
    \/ ConfirmMismatch

Spec == Init /\ [][Next]_vars

\* What the scheduling guarantees, no more than the properties need: some
\* goroutine that has work to do runs on, and the periodic scans (recovery,
\* enforcement, stuck spot checks, timed-out copies) come round again.  A scan
\* gets strong fairness because only the model's bound on Threads can keep it
\* from finding a goroutine.
Fairness ==
    /\ WF_vars(\E t \in Threads : WithUnitLock(t) \/ Evaluate(t) \/ Enforce(t) \/ Requeue(t))
    /\ SF_vars(\E t \in Threads : RecoverySweep(t))
    /\ SF_vars(\E t \in Threads : EnforceRoot(t))
    /\ SF_vars(\E t \in Threads : unit.state = "QUEUED" /\ ClearSpotCheck(t))
    /\ SF_vars(\E v \in Volunteers, t \in Threads : ExpireCopy(v, "ABANDONED", t))

FairSpec == Spec /\ Fairness

-----------------------------------------------------------------------------
(* The unit as UnitLifecycle sees it.                                      *)

Phase == CASE unit.state = "VALIDATED" -> "accepted"
           [] unit.state = "FAILED"    -> "failed"
           [] OTHER                    -> "open"

Vote(v) == CASE res[v].status = "PENDING"    -> "open"
             [] res[v].status = "AGREED"     -> "won"
             [] res[v].status = "DISAGREED"  -> "lost"
             [] res[v].status = "SUPERSEDED" -> "aside"
             [] OTHER                        -> "none"

Life == INSTANCE UnitLifecycle WITH Voters <- Volunteers, phase <- Phase,
                                    vote <- [v \in Volunteers |-> Vote(v)], paid <- credited

-----------------------------------------------------------------------------
(* Properties.                                                             *)

UnitRows == [ state : States, targetCopies : Nat, minQuorum : Nat, maxTotalCopies : Nat,
              maxErrorCopies : Nat, spotCheck : BOOLEAN ]

PCs == {"idle", "lock", "unit", "results", "live", "decide", "mark",
        "accept", "supersede", "reject", "deadletter", "reopen", "fraud", "slash", "flip", "repair",
        "grant", "dispose", "reload", "abandon", "demote", "refund", "requeue", "close",
        "rq_abandon", "rq_reassign"}

ThreadStates == [ pc : PCs, enforcing : BOOLEAN, unit : UnitRows, pend : SUBSET Volunteers,
                  live : Nat,
                  action : {"WAIT", "VALIDATE", "REJECT", "DEADLETTER"}, retried : BOOLEAN ]

\* Every variable keeps the shape of the table or of the goroutine it models.
TypeOK ==
    /\ unit \in UnitRows
    /\ rows \in [Volunteers -> Seq([outcome : Outcomes, started : BOOLEAN])]
    /\ landing \subseteq Volunteers \X {"flush", "spot"}
    /\ res \in [Volunteers -> [ status : Statuses, output : Outputs \cup {0},
                                version : Versions \cup {0}, standing : Standings ]]
    /\ credited \subseteq Volunteers
    /\ sanctioned \subseteq Volunteers
    /\ standing \in [Volunteers -> Standings]
    /\ root \in {"none", "open", "enforced"}
    /\ ev \in [Threads -> ThreadStates]
    /\ lock \in Threads \cup {"none"}
    /\ used \in [Events -> Nat]

\* A finalized unit has no PENDING result: every vote that was in when the
\* unit became VALIDATED or FAILED was adjudicated or disposed with it.
NoPendingUnderTerminal == IsTerminalState(unit.state) => Pending = {}

\* Credit stands only for work that is AGREED, or that an audit refuted and
\* clawed back.
CreditBacked == \A v \in credited : res[v].status = "AGREED" \/ v \in sanctioned

\* AGREED work is paid, except while an audit repair is under way.
AgreedPaid == root # "open" /\ ~EmissionCap => WithStatus("AGREED") \subseteq credited

\* Acceptance is sound at the moment it commits, judged on the results that
\* are then in the database: the winners share one version and one output,
\* their good-standing subjects reach the unit's quorum (the one it has
\* without a spot check), outnumber every other subject of that version, and
\* include the trusted corroborators.
AcceptSound ==
    unit.state # "VALIDATED" /\ unit'.state = "VALIDATED" =>
      LET won      == {v \in Volunteers : v \in Pending /\ res'[v].status = "AGREED"}
          counted  == {v \in Pending : res[v].standing = "OK" /\
                                       \A w \in won : res[w].version = res[v].version}
          for      == {Subject[v] : v \in counted \cap won}
          against  == {Subject[v] : v \in counted \ won}
          policy   == PolicyOf([unit EXCEPT !.spotCheck = FALSE])
      IN  /\ \A v, w \in won : /\ res[v].version = res[w].version
                               /\ res[v].output = res[w].output
          /\ Cardinality(for \ against) >= policy.minQuorum
          /\ Cardinality(for \ against) > Cardinality(against)
          /\ Cardinality({s \in for \ against : \E v \in Trusted \cap counted : Subject[v] = s})
               >= policy.minTrusted

AcceptsAreSound == [][AcceptSound]_vars

\* A verdict once given stands, unless a confirmed audit overturns it: an
\* adjudicated result never becomes a vote again, AGREED is revoked only under
\* an open root, and DISAGREED is reversed only for the audited truth.
VerdictsStand ==
    [][\A v \in Volunteers :
         /\ res[v].status = "AGREED" => res'[v].status \in {"AGREED", "DISAGREED"}
         /\ res[v].status = "DISAGREED" => res'[v].status \in {"AGREED", "DISAGREED"}
         /\ res[v].status # res'[v].status /\ res[v].status \in {"AGREED", "DISAGREED"} =>
              root = "open" /\ (res[v].status = "DISAGREED" => res[v].output = Truth)]_vars

\* The unit, with all the statements and processes behind it, behaves as the
\* lifecycle promises: rounds are atomic and leave no vote undecided, each
\* vote is paid at most once and only for winning, and only an audit of an
\* accepted unit overturns a decision.
ImplementsLifecycle == Life!Spec

\* No unit stays parked: whatever crashes between the statements, a COMPLETED
\* or REJECTED unit is finalized, requeued or given up.
ParkedUnitsMoveOn ==
    unit.state \in {"COMPLETED", "REJECTED"} ~> unit.state \in {"QUEUED", "VALIDATED", "FAILED"}

\* A spot check never strands a result: with or without a second volunteer the
\* result is adjudicated or disposed.
SpotChecksResolve == unit.spotCheck /\ Pending # {} ~> ~unit.spotCheck \/ Pending = {}

\* A confirmed mismatch is enforced to the end.
EnforcementCompletes == root = "open" ~> root # "open"

\* ... provided no pass is cut short by a crash (EnforceSweep's retry is the case
\* that EnforcementCompletes alone is about).
UncrashedEnforcementCompletes == [](used["crash"] = 0) => EnforcementCompletes

\* Audit enforcement sanctions nobody whose output is the audited truth.
HonestNotSanctioned == \A v \in sanctioned : res[v].output # Truth
=============================================================================
