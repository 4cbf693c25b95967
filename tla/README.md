# A TLA+ model of the lettuce-compute head

lettuce-compute is a volunteer-computing platform. A *head* (Go, Postgres) owns *leafs*
(projects) and their *work units*; volunteers take *copies* of a unit, run them and submit
results; the head compares the results, accepts a quorum, pays credit, and audits samples of
what it accepted. This directory models the core of the head - what happens to one work unit
between its creation and its final state, with everything that touches it concurrently - and
the parts around it that carry state across failures: the in-memory dispatch cache, the
volunteer's daemon, the credit ledger, the audits, and leafs with their generator and leader.

Paths below are relative to `services/infrastructure/internal/` unless they start with
`services/` or `guides/`.

## 1. The system

| Component | State | Operations | Hard because |
|---|---|---|---|
| Redundancy policy, decider (`transition/policy.go`, `trust.go`, `decide.go`, `workunit/redundancy_sql.go`, `leaf/validation.go`) | leaf validation config, overrides on the unit | resolve, decide, spot check on/off, refund | every rule exists in Go and in SQL; clamps, defaults and ceilings at their edges |
| Transitioner (`transition/transitioner.go`, `verdict.go`) | `work_units.state`, result statuses, advisory lock | `Evaluate` (read, decide, apply), `reopen`, `WithUnitLock` | a dozen statements without a common snapshot; the lock may degrade to none |
| Finalization (`validation/engine.go`, `txrunner.go`, `repair.go`) | results, credit ledger | accept, reject, repair | stale decisions, versions, ties, subjects behind accounts |
| Recovery sweep (`transition/recovery.go`) | - | re-drive parked units | must cover every place a process can die |
| Dispatch (`server/dispatch_cache.go`, `dispatch_requester_fallback.go`, `workunit/pgx-repo.go`) | ready pool, holds, in-flight meters, write queues; copy rows | refill, hand out, flush, fall back, reconcile | two sources of truth; guards on a snapshot; batches in flight |
| Volunteer RPCs (`server/volunteer-service.go`) | copies, results | StartWork, SubmitResult, AbandonWorkUnit, held report | late results, duplicates, races with finalization |
| Fault monitor (`server/fault-monitor.go`) | - | expire copies, clear stuck spot checks | acts on what a scan read earlier |
| Content verification (`contentverify/`) | held results | claim, fetch, promote, fail | promotion races finalization |
| Operator (`workunit/handler.go`, `revive.go`) | - | requeue, revive | no unit lock, no evaluation |
| Audits (`audit/`, `server/audit-service.go`, `validation/adjudicate.go`) | audit rows, runner registry | sample, claim, submit, release, reclaim, confirm, resolve | leases against late answers, overlapping sweeps |
| Audit consequences (`audit/enforcement_sweep.go`, `workunit/enforcement_demote.go`) | audit roots, sanctions | slash, claw back, flip, repair, demote, close | a long sequence of writes that is restarted from the top |
| Leader election (`server/leadership.go`) | session lock | acquire, hold, lose | loss is noticed late |
| Credit (`credit/`), attestations (`attestation/`) | ledger, adjustments, RAC, signed records | grant, cap, claw back, decay, emit, revoke | exactly-once next to best-effort |
| Standing (`standing/`), trust (`trust/`), reliability (`reliability/`) | decayed scores | fold, accrue, slash | thresholds, concurrent folds |
| Generation (`generate/`, `montecarlo/`, `paramsweep/`, `mapreduce/`), checkpoints (`checkpoint/`), leafs (`leaf/`) | cursors, files, leaf state | tick, save, CRUD | crash between two writes |
| Admission, auth, replay (`server/`, `admission/`, `apikey/`, `identity/`, `atproto/`) | windows, keys | gate requests | store outage |
| Volunteer daemon (`services/volunteer-cli/internal/daemon`) | prefetch buffer, slots, results, pending results, state files | fetch, start, run, submit, retry, pause, stop, resume | goroutines that move one unit along; lost answers, restarts |
| Dashboard, desktop app, management API | UI state | - | - |

The parts meet in three tables - `work_units`, `work_unit_assignment_history` (copies) and
`results` - and in the credit ledger. Handlers and sweeps write them in transactions of their
own and then call `Evaluate`, the only place where redundancy is decided.

What makes the core correct: the two resolutions of the policy agree; a decision can be
carried out, and a wait can end; acceptance rests on a real quorum of distinct, countable,
trusted subjects of one version *at the moment it commits*; a finalized unit leaves no vote
undecided; credit is paid exactly for agreed work; verdicts are overturned only by an audit,
and an audit has consequences only when two independent runners agree; the cache and the
database end up with the same copies; a finished result is not lost on its way; the money
taken back, the money published as taken back and the money granted add up; every trial of a
leaf is generated once; nothing stays parked. `PROJECT.json` lists each hazard at its line with
the property that would catch it.

## 2. The modules

* **Redundancy** - pure operators: config validation, the policy in Go (`ResolvePolicy`,
  `ResolveTrust`) and in SQL (`Eff...SQL`), and `Decide` (`DecideOpen`, `DecideRejected`).
* **Policy** - a leaf, a unit's stamped overrides and the observation an evaluation makes.
  Actions: `MarkSpotCheck`, `ClearSpotCheck`, `RefundCopyBudget`, `Observe`, `Forget`.
* **UnitLifecycle** - the promise: votes, atomic rounds, pay at most once and only for
  winning, audits as the only way to overturn.
* **WorkUnit** - the detailed unit. Variables: `unit` (its row), `rows` (copy rows by
  volunteer, oldest first), `landing` (flushes between snapshot and insert), `res` (result
  rows), `credited` (ledger rows), `sanctioned`, `standing`, `root` (the unit's confirmed
  mismatch), `ev` (a program counter and the values read, per goroutine), `lock`, `used`
  (counters of rare events). One action per SQL transaction or statement.
* **DispatchCache** - one head's in-memory dispatch against its tables, with copies reduced
  to what the cache can tell apart.
* **VolunteerDaemon** - one machine's custody of the units it was handed; the head is the
  environment and closes copies the way WorkUnit and DispatchCache do.
* **Ledger** - credit after it was granted: entries, adjustments, attestations, RAC.
* **AuditJobs** - the audits of one unit up to the point where consequences begin (those are
  WorkUnit's and Ledger's).
* **LeafService** - one leaf's row, the snapshots of it, the leader and its lazy generator.
* **PolicyProofs, UnitLifecycleProofs, WorkUnitProofs, AuditJobsProofs, LedgerProofs,
  LeafServiceProofs, VolunteerDaemonProofs, DispatchCacheProofs** - the theorems about each
  and their proofs (section 4).
* **MC...** - instances for TLC, one `.cfg` per run.

The modules meet in their environment actions. WorkUnit's `FlushSelect`/`FlushInsert` are what
DispatchCache calls `FlushLands`; DispatchCache's lost replies and held reports are
VolunteerDaemon's `RequestLost` and `ReleaseStale`; AuditJobs' step `consequences` is where
WorkUnit's `EnforceRoot` and Ledger's pass start. The product of two of them is beyond TLC, so
each is given the other's behaviour as nondeterminism.

How WorkUnit's actions correspond to the code:

| Actions | Code |
|---|---|
| `FlushSelect`, `FlushInsert` | `FlushReservations`: guards on the statement's snapshot, rows when it commits |
| `ReserveNextAssignable` | `requestWorkUnitFromDB`: select for update, `ReserveCopy`, spot-check promotion |
| `MarkSpotCheck`, `ReserveCopy` | `flushSpotChecks`, the landing of a spot check the cache handed out: the mark asks nothing of the unit, the copy neither headroom nor trust |
| `StartWork`, `SubmitResult`, `SubmitTooLate`, `AbandonWorkUnit`, `ReleaseStaleHeldCopy` | the RPC handlers; `SubmitResult` is the transaction under the unit row lock, then `Trigger` |
| `ExpireCopy`, `ClearSpotCheck` | the fault monitor's two loops |
| `PromoteHeld`, `FailHeld` | `contentverify/sweep.go` `apply`, `applyTerminal` |
| `RequeueRead`, `RequeueAbandon`, `RequeueReassign`, `ReviveDeadLettered` | the operator |
| `WithUnitLock`, `EvUnit` ... `EvReopen` | `Evaluate`, statement by statement; `EvRollback` is its finalization giving up on a stale snapshot or on a unit that moved |
| `RecoverySweep` | the sweep's two selecting predicates, then `Trigger` |
| `ConfirmMismatch`, `EnforceRoot`, `LoadFraudSet` ... `CloseRoot` | `enforceRootLocked` and `DemoteAndRequeue` |
| `SetStanding`, `Crash` | a standing change; a process death or a statement error |

The other modules:

| Module | Actions | Code |
|---|---|---|
| DispatchCache | `HandOut`; `FallbackLands`, `FallbackHolds` | `HandOutWithReason`, which voids a hand-out whose leaf it cannot load or must not show; `handOutFromDB` before and after its reservation |
| | `RefillQueries`, `LeafRefillQueries`, `RefillStages` | `refillOnce`, `leafRefillOnce` and `fetchAndStage`: query without the mutex, then evict for the leaves asked for, and stage |
| | `FlushTakes`, `FlushLands`, `FlushFails`, `FlushVoids`, `SpotTakes` ... `SpotRequeues` | `flushBatch`, `flushSpotChecks`, by the ticker or by a handler |
| | `StartWork`, `Flushed`, `FlushTimesOut`, `Assign`, `AbandonWorkUnit`, `CloseByVolunteer`, `SubmitResult`, `Notify` | the handlers and the notice each gives the cache after its commit |
| | `NoteVolunteerHeld`, `ReconcileHeld`, `ReconcileReads`, `ReconcileApplies`, `ReleaseLapsedHolds` | the reconciler |
| | `ExpireCopy`, `Requeue`, `Crash`, `CooldownEnds`, `BenchEnds` | fault monitor, operator, restart, time |
| VolunteerDaemon | `ReadBuffer`, `ReadSlots`, `RequestWorkUnit`, `RequestLost`, `BatchBegins` ... `BatchDone`, `SweepBuffer` | the fetcher (`ask`, `bufferBatch`) |
| | `FillSlots`, `PopFit`, `ReturnPopped`, `StartSlot`, `SlotStarted`, `TakeResult`, `Submit`, `SubmitAnswered`, `SaveActive`, `SaveBuffer` | the coordinator loop (`Run`, `fillSlots`, `handleSlotResult`) |
| | `StartWork`, `EndRun`, `CancelRun`, `RestartTask`, `SendResult`, `EndSlot` | `runSlot`; a call that fails may or may not have reached the head |
| | `RetryPending`, `Resubmit`, `Resubmitted` | `retryPendingResults` |
| | `Pause`, `Resume`, `Stop`, `BeginShutdown`, `StopAll`, `ReturnBuffer`, `Exit`, `SuspendAndQuit`, `Crash`, `Launch`, `ResumeTasks`, `ResumeBuffer` | the ways the process ends and starts; a launch drops what belongs to a server or a runtime that is gone |
| Ledger | `AcceptResults`, `CreateAttestation` | `acceptResults`, then `createAttestations` after its commit |
| | `HandleClawback`, `OperatorCommits`, `OperatorEmits` | the operator's clawback |
| | `LoadFraudSet`, `PassClaws`, `PassCommits`, `ListUnmatured`, `PassEmits`, `ApplyRACAdjustment`, `FlipToDisagreed`, `RepairFlips`, `RepairGrants`, `RepairAttests`, `SetEnforcementState`, `PassStops` | `enforceRootLocked` |
| | `Reconcile`, `ReconcileEmits` | `RevocationReconciler` |
| AuditJobs | `Sample`, `Register`, `Deactivate` | `maybeSampleForAudit`, the runner registry |
| | `ClaimJob`, `CompleteInconclusive`, `SubmitResult`, `EnqueueAtVerdict`, `ReleaseFailure` | `AuditService` |
| | `SweepLapsedLeases`, `SweepStaleQueued` | `ReclaimWorker` |
| | `ListActionableRoots`, `Resolve`, `EnqueueConfirmation`, `SetEnforcementState`, `PassFails`, `Failover` | `EnforcementWorker`, one process per head |
| LeafService | `TransitionLeaf`, `UpdateLeaf`, `CanDelete`, `Update`, `Delete`, `NotFound`, `InvalidateLeaf`, `RequestFails` | owner requests: read, check, write back, invalidate - or fail on the way |
| | `RefreshReads`, `RefreshStores`, `SnapshotAges` | the cache's `leafCache` |
| | `AcquireAndHold`, `LoseSession`, `Relinquish`, `Restart` | `LeadershipManager` |
| | `ScanProjects`, `CheckAndGenerate`, `NextSequenceNumber`, `PersistBatch`, `PersistFails`, `MarkExhausted` | `LazyManager`, `batchSink` |

Abstractions of WorkUnit:

* Time: a deadline, cooldown or grace period may have passed at any moment.
* An output is its comparison key. Only the EXACT comparator is modelled; its unreadable
  outputs are, comparator errors (NUMERIC_TOLERANCE, CUSTOM) are not.
* The agreement ratio is `100 * majority >= threshold * total` instead of a float division.
* A volunteer's subject and whether it is trusted are constants; trust does not change during
  a unit's life, and the trusted set is closed under subjects.
* Who may be offered a copy also depends on hardware, visibility, the host's in-flight cap,
  the homogeneous-redundancy class and deadline feasibility. These only restrict dispatch and
  the model lets them pass.
* `EvDecide` makes the last three reads (`CountTotalCopies`, `CountErrorCopies`,
  `CountProbationLiveCopies`) in one step; what they feed is re-tested by the statement that
  acts on it (`DeadLetterIfExhausted`, the guarded reopen).
* The states CREATED, ASSIGNED, RUNNING and EXPIRED, which per-copy dispatch no longer
  writes, and the copy outcome REJECTED are left out.
* Slash and clawback are one step (`sanctioned`); amounts, RAC, attestations, reliability and
  counters are left out.
* One enforcing goroutine at a time: a single leader (AuditJobs drops this assumption for the
  confirmation, not for the consequences).
* Evaluation under `WithUnitLock` after it degraded runs without the lock; `LockHonored` says
  whether that may happen. It is TRUE in every run, because the properties do need the lock:
  the mutant `WithoutUnitLock` of `enforce` shows what happens otherwise (section 3). Only
  `TypeCorrect` is proved for both.

Abstractions of the other modules:

* DispatchCache: an account stands for its machine and its trust subject; standing, trust
  reservation and copy budget are WorkUnit's, leaf visibility is LeafService's (a unit may be
  of a leaf of its own, so a requester's leaves are any set of units); the fallback's
  throttle may have passed at any time; a lease outlives the queued write and the call that
  hold it; a staged candidate's contributors are those the refill read. A spot check chosen by
  the fallback is not modelled.
* VolunteerDaemon: whether a unit fits the machine is left open; a work directory stands for
  everything a run leaves on disk; each file is written in one step.
* Ledger: one amount for all grants; RAC is whether each adjustment was applied to it; the
  emission cap may suppress any subset of a unit's grants.
* AuditJobs: an output is its comparison key, so two runs agree when the keys are equal; a
  runner keeps its hardware class; a unit has at most one open audit, so the limit of
  concurrent claims never binds; a unit is sampled again only after it was demoted, which is
  after its root was enforced or, if the pass died before it closed the root, after its
  confirmation: the model allows it from the confirmation on, a little wider than the code
  does. TLC samples once (`MaxOriginals = 1`); second samples are the theorems'. The reads of
  `SubmitResult` - the row, the unit, the accepted outputs - and its `CompleteVerdict` are one
  step, since what they read is constant here and the claim is tested by the statement.
* LeafService: the row is its state and its visibility; trial *i* is unit *i*; a request is
  served by the replica it was given to (`ServedBy`). `num_trials`, `lazy_batch_size` and
  `is_ongoing` are constants, though an owner may edit them (`leaf/handler.go:547-572`, `610`):
  what the leaf run and the theorems say of the exhausted flag is said for a number of trials
  that is not raised between `CheckAndGenerate` and `MarkExhausted`, or later. The scan reads
  one page of 200 ACTIVE leaves (`generate/lazy.go:75-77`); a leaf beyond it is never generated
  on, and the leaf of the model is always on it.

## 3. The runs

Instances are small because the hazards are: most need two or three actors and one rare event.
`Budget` (WorkUnit) and `Rare`, `MaxRare`, `MaxFaults` (the others) bound the rare events -
crashes, lost replies, failing statements, operator actions - and every kind of them occurs in
some run. `MaxRows` bounds the copies of a volunteer, or the audits of a unit; `MaxOriginals`,
`MaxRequests`, `MaxClaws` bound samples, owner requests and operator clawbacks. `Apart` names
sets of rare events of which a behaviour shows at most one (only `parked` uses it). Volunteers,
goroutines and outputs are symmetric where the constants treat them alike; liveness runs use
no symmetry. A finished unit, ledger or audit really stops, so those runs do not check for
deadlock; `policy` and `daemon` do.

| Run | Instance | Shows |
|---|---|---|
| `policy` | all valid configs with up to 3 copies and ceilings 0 or 3, spot checks, a refund, all snapshots with up to 2 results and 1 live copy | `PolicyParity`, `DeadLetterExecutes`, `WaitsForSomething` |
| `core` | 3 volunteers, two of them accounts of one trusted subject, 2 goroutines, 2-of-2 leaf with 3 copies to spend and the trust gate on, a late flush, a revival | `TypeOK`, `NoPendingUnderTerminal`, `AcceptsAreSound`, `ImplementsLifecycle` |
| `votes` | two artifact versions, results by reference, an unreadable output, a change of standing, a credit cap | `NoPendingUnderTerminal`, `AcceptsAreSound` |
| `enforce` | 3 volunteers, 2 goroutines under the lock, a leaf that wants two copies and accepts one undisputed result, an audit, an operator requeue, a released copy | `CreditBacked`, `AgreedPaid`, `HonestNotSanctioned`, `VerdictsStand`, `ImplementsLifecycle` |
| `parked` | spot-check leaf, 2 volunteers, an audit, a crash anywhere; or, without those two, a spot check landed by the cache | `ParkedUnitsMoveOn`, `SpotChecksResolve`, `UncrashedEnforcementCompletes` |
| `dispatch` | one machine, two units, a pool of one, flushes of up to two, spot checks, and one of: a failing write, a returned unit, a full maintenance pool, a refill for named leaves | `TypeOK`, `FlushSettles` |
| `progress` | one machine, one unit, spot checks, any one of all ten rare events | `GhostCopiesReturn`, `NoUnitForgotten` |
| `daemon` | one unit, two slots, any two of thirteen rare events (crash, quit, stop, lost call, finalization elsewhere, restart of a task, server gone, ...) | `TypeOK`, `FinishedSurvives`, `HeldOnce`, `HeldNotReaped`, `CopiesConclude` |
| `leaf` | two replicas, active or paused at first, two concurrent owner requests, three trials in batches of two, a lost session, restart, failed commit or failed request | `TypeOK`, `TrialsOnce`, `ExhaustedIsDone`, `GenerationFinishes`, `SnapshotsConverge` |
| `ledger` | an audited unit with a cheat and an honest loser, another unmatured entry of the cheat, an operator clawback in parts, two failures | `NetNeverNegative`, `FraudUnpaid`, `RACUnwound`, `AttestedNetSettles`, `EnforcedInTheEnd` |
| `audit` | three runners of two classes, two heads, two wrong outputs, two claims per job, two confirmations per root, one rare event | `TypeOK`, `TwoRunnersRefuted`, `ConfirmersAreFresh`, `RootsResolve` |
| `v_sanction` | two-of-three leaf, an audit, a crash | `HonestNotSanctioned` is violated |

One unit is enough for `daemon` and `progress` because custody is tracked unit by unit and the
hazards are a unit meeting its own past (a lost reply, a relaunch); `dispatch` needs two so
that a batch can land for one unit and be voided for another, and so that the pool can be too
small: a refill for named leaves then evicts. `enforce` has three volunteers with one copy each:
an evaluation may read one result, another evaluation reject it with a second one, and the next
round have one undecided result again when the first evaluation rechecks its number. In
`parked` the landing of a spot check by the cache is kept apart from the crash and the audit to
stay within TLC's reach; `ReserveNextAssignable` promotes a unit to a spot check next to both.
`progress` has a single account, since two with spot checks are beyond TLC; with one, a staged
candidate that was read while the account had a copy waits for a second volunteer who never
comes. `NoUnitForgotten` says so (`AwaitsNewcomer`) and asks for the rest: a unit that was only
marked, and one whose copy has ended, are offered again. Three trials in batches of two give a
full and a short batch. In `audit` the extra confirmation that a delayed verdict-time enqueue
can add is within the three rows, a fourth row is not. A lock session is lost at most once,
which is enough for two leaders at a time.

Fairness:

* WorkUnit: some goroutine that has a statement to execute executes it (weak fairness; the Go
  runtime and the database make progress), and the periodic scans come round again: the
  recovery sweep, the enforcement sweep, the stuck spot-check scan, the expiry of copies. The
  scans get strong fairness because in the model they need an idle member of `Threads`, which
  the code never lacks. No volunteer and no operator is assumed to do anything.
* DispatchCache: the refiller, the flusher, the reconciler and the notices after a commit run;
  a machine keeps asking and reporting (its daemon polls), and concludes what it was handed.
* VolunteerDaemon: the coordinator, the fetcher, the retry loop and started slots run, the
  head acts on held reports. The pop from the buffer gets strong fairness: it is enabled again
  and again, while other units occupy the slots.
* Ledger: a request, a pass and the reconciler run to their ends; accepts may stop anywhere.
* AuditJobs: the reclaim and enforcement tickers and a handler that owes an enqueue. No runner
  ever has to do anything.
* LeafService: replicas poll and ping the lock, the leader's ticker fires, a request is
  answered, a stale snapshot is refreshed on the refiller's tick, time passes, and queued
  units are worked off.

### Where code and comments disagree

`v_sanction` is expected to fail: an enforcement pass restarted after a repair takes the
restored result for fraud, where the comment says that re-execution converges (the quotation
is in `PROJECT.json`). The same model shows three more, each found by TLC with a property that
states the comment, without a run of their own:

* The unit lock is "never load-bearing" (`transition/transitioner.go:435-439`). Without it, a
  snapshot of an earlier round with the same *number* of PENDING results passes the recheck; a
  rejected result is accepted and a fresh one is stranded PENDING under VALIDATED. Needs a
  leaf with target above quorum, and room for a second round with as many results. It is the
  counterexample TLC gives for the mutant `WithoutUnitLock` of `VerdictsStand` in `enforce`.
* "Dead-lettering is reached on a later cycle" (`transition/decide.go:333-336`): a round that
  is rejected when the copy budget is spent leaves the unit QUEUED, and nothing evaluates it
  again - the recovery sweep selects COMPLETED, REJECTED and QUEUED-at-quorum units, the fault
  monitor units with a live copy - so it is neither dispatched nor dead-lettered.
* Between demotion and refund (`workunit/enforcement_demote.go:69-70`, `115-118`) the recovery
  sweep may dead-letter the unit; every later pass then fails and the root stays open. Hence
  the premise of `UncrashedEnforcementCompletes`.

Three more disagreements show in the model without a run of their own:

* A spot check is "a single-copy unit randomly promoted to require a 2-of-2 corroboration"
  (`transition/policy.go:52-53`), but a unit promoted after an evaluation read its row is
  still accepted on one result: the finalization rechecks the number of PENDING results, not
  the flag. `AcceptsAreSound` therefore asks for the quorum without the spot check.
* `ReserveCopy` refuses a volunteer whose subject has a PENDING result "so no compute is
  wasted on a copy that could never be accepted" (`workunit/pgx-repo.go:2016-2018`), but not
  one whose result was DISAGREED in an earlier round; its second result can only be refused as
  a duplicate.
* The refund is said to give "the fresh ceilings a brand-new unit of this leaf would get"
  (`server/router.go:142-144`) and to be "idempotent in value"
  (`workunit/enforcement_demote.go:48-50`). The error ceiling is resolved through the unit's
  own override (`Refunded`), so a second refund builds on the first.

### Observations on the other modules

What the models show of the code next to the properties that hold; each is why a property has
the form it has.

* DispatchCache. `reconcileOnce` replaces the in-flight meters by counts read earlier plus the
  queued writes of that moment; a batch in flight then is in neither, so the meter is low until
  the next pass, which the comment (`server/dispatch_cache.go:3629-3631`) excludes. The meter
  only throttles. A candidate read while an account had a copy keeps refusing that account
  until somebody else takes it or the head restarts, even when the copy has ended
  (`AwaitsNewcomer`). A `StartWork` whose flush times out fails with "the volunteer keeps the
  unit and retries" (`server/volunteer-service.go:2151`), but the daemon drops the unit on any
  error (`slot.go:401-414`), and the reservation is left to the reconciler.
* VolunteerDaemon. After an abrupt exit both state files may name a unit, which then runs in a
  slot and waits in the buffer (`twins`); a restarted unit on its way through the results
  channel is in no held report (`rerun`); a result waiting for its retry is in none either;
  the file of a
  result waiting for its retry is named after the unit, so when the unit is handed out again
  and its second run ends after the head has answered for the first result and before that
  file is removed, the second result's file goes instead (`overtaken`; "a result is deleted
  once it reaches the head", `daemon.go:5138-5141`); an aborted task is never told to the
  head, which notices by the report; persisted tasks
  beyond the last slot are forgotten; `Stop` and `SuspendAndQuit` drop what is on the results
  channel, though "zero work lost" (`daemon.go:3895-3898`).
* LeafService. `Update` writes the whole row without a version, so a slow edit revives a leaf
  archived meanwhile (`leaf/pgx-repo.go:333` against `state.go:19`), and `CanDelete` may be
  stale; the switch of `generation_mode` is checked before it is written
  (`leaf/handler.go:564-571`); a refresh that read before an invalidation stores after it,
  which the TTL bounds; `Update` reads the row back after its commit, and when that fails the
  handler leaves without the invalidation (`leaf/pgx-repo.go:376-380`), which the TTL bounds as
  well; raising `num_trials` after exhaustion does not resume generation.
* Ledger. A pass that fails between a clawback and its RAC decrement never comes back to it
  (`credit/rac-repo.go:203`: "double-apply and lost-apply are both structurally impossible"),
  hence the premise of `RACUnwound`. A repair that stops between grant and attestation attests
  0 on the retry (`validation/repair.go:298-348`), so `AttestedNetSettles` leaves restored
  results out. A decrement may precede the RAC upsert of its own grant and is clamped. An
  operator's clawback does not touch RAC. The cap can be overshot by concurrent grants, as
  the comment at `credit/pgx-repo.go:84-88` accepts.
* AuditJobs. The resolution runs whatever the root's state is, so a pass that was handed its
  root before another closed it repeats the consequences on what is AGREED by then; only the
  state column is guarded (`SetEnforcementState`: "a leadership-failover double-sweep is a
  no-op"). A delayed verdict-time enqueue can add a confirmation after a good one, and a pass
  that had to be repeated then reads that one. A runner whose lapsed claim was requeued is not
  excluded from later confirmations, since the requeue clears `claimed_by`.

## 4. What is proved

All for every value of the constants - any numbers of volunteers, goroutines, units, slots,
rows, outputs and rare events - under the named assumptions of the modules.

* `PolicyProofs`: `PolicyParityHolds`, `DeadLetterExecutesHolds`, `WaitsForSomethingHolds`.
  The invariant is that the leaf is valid, that target and quorum are never stamped on a unit,
  and that a unit is a spot check only if its leaf allows them. Parity fails without it:
  the SQL says 2 for a spot check where Go says max(target, 2), and clamps differ on configs
  the validator refuses. The other two follow by cases on `Decide` from parity.
* `UnitLifecycleProofs.WinnersOnlyWhenAcceptedHolds`: the abstract lifecycle never shows a
  winner next to an undecided vote.
* `WorkUnitProofs.TypeCorrect`: the type invariant, with or without the lock.
* `WorkUnitProofs`, assuming `LockHonored`: `NoPendingUnderTerminalHolds`,
  `CreditBackedHolds`, `AgreedPaidHolds`, `VerdictsStandHolds`, `AcceptsAreSoundHolds`. The
  inductive invariant adds to the properties:
  - `LockInv`: a goroutine inside `Evaluate` or the enforcement pass holds the lock, so there
    is at most one;
  - `SnapInv`: what an evaluation read as PENDING is still PENDING, since only the lock holder
    adjudicates; with the recheck of the number, the snapshot *is* the set of PENDING results;
  - `FraudInv`: the fraud set a pass has loaded stays AGREED until the pass flips it, and is
    sanctioned by then; a result being repaired is AGREED until it is paid;
  - `Sure`, `OnePass`: what a decision or a pass has established when it is about to write -
    the agreeing group is a quorum of countable, trusted subjects of one version, and the root
    a pass works on is still open, so an AGREED result it has not paid yet is excused;
  - `Filed`, `Unstamped`: every result has an output, and no unit a quorum of its own, so the
    quorum at commit is the one the decision read.
  Without `LockHonored` the proof breaks at `WithUnitLock` and nowhere else; the first
  disagreement of section 3 is what happens then.
* `WorkUnitProofs.HonestNotSanctionedHolds` and `ImplementsLifecycleHolds`, assuming moreover
  that no enforcement pass is cut short (`[][~PassCut]_vars`, where `PassCut` is a `Crash` of a
  goroutine inside a pass; evaluations may still die anywhere). `Calm` says what such a pass
  relies on: it starts from an accepted unit whose winners are all refuted, sanctions before it
  restores, and closes the root before anything else is decided. The refinement classifies
  every step (`Kinds`): it leaves the lifecycle's variables alone, casts a vote, decides a
  round in the one statement that commits it, or is one of the audit's steps. The hypothesis
  is needed for both. Without it the first is `v_sanction`; and TLC refutes the second with
  four volunteers, a threshold of 60 and one crash: a pass dies between `DemoteRequeue` and
  `CloseRoot`, the unit goes back to work, a later round is rejected, and the next pass's
  repair restores a loser of *that* round to AGREED in a QUEUED unit (`validation/repair.go`
  asks for the unit's truth, not for its state).
* `AuditJobsProofs`: `TypeCorrect`, `TwoRunnersRefutedHolds`, `ConfirmersAreFreshHolds`, and
  the action property `EvidenceStands` they rest on: no statement changes a row that is no
  longer open, its enforcement state aside, and only the newest row is open. What a pass read
  of a root and its confirmation is then true when it acts, however long it was held up and
  whatever other heads did meanwhile (`OwedInv`, `PassInv`).
* `LeafServiceProofs`: `TypeCorrect`, `TrialsOnceHolds`, `ExhaustedIsDoneHolds`. Nothing is
  assumed about who leads; `TickInv` says what a manager knows of the cursor it read, and the
  guard on the cursor does the rest.
* `LedgerProofs`: `NetNeverNegativeHolds`, `FraudUnpaidHolds`, `RACUnwoundHolds`. `ClawInv` is
  what selecting the entry FOR UPDATE buys: the amount a clawback computed is still there when
  it commits, and no two hold one entry. `FraudInv` and `RACInv` say how far a pass has come
  with the entries it convicts and the adjustments it made. What the sum over the adjustments
  does when one is appended or marked is proved by induction on the sequence.
* `VolunteerDaemonProofs`: `TypeCorrect`, `FinishedSurvivesHolds`, `HeldOnceHolds` and the
  action property `HeldNotReapedHolds`. `Boot` says what is empty while the process is down or
  starting and that the one unit between buffer and slot is the coordinator's; `Kept` what
  carries an unanswered result, and that the retry holds no answer that would remove it;
  `Places`, unit by unit, where a unit may be at once, what a report in the making has seen
  of it, and that a unit the report left out has not even a work directory that a relaunch
  could resume. The attempt to prove `FinishedSurvives` found the `overtaken` race of section
  3, which needs more rare events than the run allows.
* `DispatchCacheProofs`: `TypeCorrect`, `FlushSettlesHolds`. `Types` adds what the counters
  and the pool need to the type invariant. `Settled` says of a call whose forced flush is over,
  whether its hold is still there or not: of a hold that was found, no write is left. It is
  inductive because a write only ever moves - from a queue into a batch, from a batch back into
  the queue or away (`NothingNew`, for every batch size and failure) - because only a hand-out
  makes a new one, and because a hand-out of the very unit a call waits for makes the hold the
  call found a different one, which `rpc[a].found` forgets (`CallsWait`). What `Without`, the
  filter of the queues, keeps of a sequence is proved by induction on the sequence.

Induction over naturals is available to the proofs in one form: a set of naturals that is not
empty has a least element (from `NatLessThanWellFounded` and `WFMin`); sums and the queue
filter are therefore LET-recursive functions, which the prover can unfold.

Only model-checked: all liveness (`ParkedUnitsMoveOn`, `SpotChecksResolve`,
`UncrashedEnforcementCompletes`, `GhostCopiesReturn`, `NoUnitForgotten`, `CopiesConclude`,
`GenerationFinishes`, `SnapshotsConverge`, `AttestedNetSettles`, `EnforcedInTheEnd`,
`RootsResolve`): fairness and ENABLED are out of the prover's reach. Every invariant and every
action property of the passing runs has its theorem.

## 5. Not modelled

* Trust scores, reliability, the fold that computes AUTO standing: decayed floating-point
  scores; WorkUnit takes trust as a constant and lets standing change at any time.
* Checkpoints: a file and a row in two steps without a promise that spans them; to the daemon
  a checkpoint is part of the work directory.
* The parameter expansion of the generators, up-front generation, map-reduce: pure data.
* Admission, authentication, replay windows, rate limits, identity and atproto: they refuse
  requests before anything above happens; a refused request is one that was not made.
* Aggregation, statistics, health, configuration, bootstrap, logging, generated protobuf code,
  container and WASM runtimes, the management API, dashboard and desktop app: I/O and
  presentation. They are most of the repository's lines.

The reasons, part by part, are in `PROJECT.json`. The map covers about a tenth of the
repository: the parts whose correctness depends on the order in which things happen.

## 6. Plan

1. *Done*: all modules above, their runs, and the proofs of section 4.
2. Proofs next: that the abstract lifecycle holds of `enforce`'s crashes too, with a promise
   that allows the cut pass; and the dispatch cache against a specification of what a pool
   promises (no unit handed to one account twice while its copy is live).
3. Model next: the consequences of two overlapping passes, and the standing fold.
