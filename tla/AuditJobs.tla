----------------------------- MODULE AuditJobs -----------------------------
(***************************************************************************)
(* The result audits of one work unit: the jobs trusted runners claim, run *)
(* again and submit, the leases and lifetimes the reclaim sweep enforces,  *)
(* and the enforcement sweep's first half, which lets a mismatch have      *)
(* consequences only after a second runner has confirmed it.  What the     *)
(* consequences do is in WorkUnit and Ledger.                              *)
(*                                                                         *)
(* One step is one SQL statement.  Two passes may overlap: a head that has *)
(* lost the leadership goes on with the pass it is in until it notices,    *)
(* and the unit lock around a pass may degrade to none, so it is left out. *)
(*                                                                         *)
(* Time is abstract: a lease or a lifetime may have run out at any moment. *)
(* A unit has at most one open audit, so a runner's limit of concurrent    *)
(* claims never binds here.                                                *)
(***************************************************************************)
EXTENDS Naturals, Sequences, FiniteSets, FiniteSetsExt

CONSTANTS
    Runners,                    \* volunteers the operator may vet
    HRClass(_),                 \* the hardware class of a runner
    Pinned,                     \* the class the unit is pinned to, or None
    Accepted, Unreadable,       \* the accepted output, and one that cannot be compared
    Wrong,                      \* other outputs a re-execution may produce
    Enforcement,                \* LETTUCE_HEAD_AUDIT_ENFORCEMENT_ENABLED
    MaxAttempts, MaxConfirmationAttempts,
    Heads,                      \* replicas of the head
    None,
    MaxOriginals, MaxRows,      \* bounds: samples of the unit, audit rows
    Rare, MaxRare               \* rare events that occur, and their bound

RareEvents == {"lost", "gone", "crash", "registry", "failover"}
Outputs == {Accepted, Unreadable} \cup Wrong
Verdicts == {"MATCH", "MISMATCH", "INCONCLUSIVE"}

ASSUME AuditAssumption ==
    /\ None \notin Runners \cup Outputs \cup Verdicts /\ \A r \in Runners : HRClass(r) # None
    /\ Accepted # Unreadable /\ {Accepted, Unreadable} \cap Wrong = {}
    /\ Enforcement \in BOOLEAN
    /\ {MaxAttempts, MaxConfirmationAttempts} \subseteq Nat \ {0}
    /\ {MaxOriginals, MaxRows, MaxRare} \subseteq Nat /\ Rare \subseteq RareEvents

VARIABLES
    audits,     \* result_audits, oldest first
    active,     \* runners with an active registry row
    owed,       \* mismatching originals whose handler has not enqueued the confirmation yet
    leader,     \* the head that may start a pass
    pass,       \* each head's enforcement pass: step, root, and the confirmation it read
    used        \* rare events so far

vars == <<audits, active, owed, leader, pass, used>>

Rows == DOMAIN audits
IdlePass == [at |-> "idle", root |-> 0, confirm |-> 0]

\* A rare event may still happen.
May(kind) == kind \in Rare /\ used < MaxRare /\ used' = used + 1

\* root is confirms_audit_id, 0 for an original; author is the runner whose bytes were
\* stored, which the code does not record.
NewRow(root) ==
    [root |-> root, status |-> "QUEUED", by |-> None, class |-> None, attempts |-> 0,
     verdict |-> None, output |-> None, author |-> None, eligible |-> FALSE, state |-> "NONE"]

Init ==
    /\ audits = <<>> /\ active = Runners /\ owed = {}
    /\ leader = (CHOOSE h \in Heads : TRUE) /\ pass = [h \in Heads |-> IdlePass] /\ used = 0

Set(i, row) == audits' = [audits EXCEPT ![i] = row]

-----------------------------------------------------------------------------
(* Enqueueing.                                                             *)

\* uq_result_audits_open_unit: one QUEUED or CLAIMED audit per unit.
Open(i) == audits[i].status \in {"QUEUED", "CLAIMED"}
Insert(root) ==
    audits' = IF (\E i \in Rows : Open(i)) \/ Len(audits) = MaxRows THEN audits
              ELSE Append(audits, NewRow(root))

\* A second runner computed the same wrong output: a pass may have had consequences.
Confirmed(i) ==
    \E j \in Rows : /\ audits[j].root = i /\ audits[j].verdict = "MISMATCH"
                    /\ audits[j].output = audits[i].output

\* maybeSampleForAudit, after the unit was accepted: the first time, or again after a
\* pass demoted it - also one that failed before it closed its root.
Originals == {i \in Rows : audits[i].root = 0}
Sample ==
    /\ Cardinality(Originals) < MaxOriginals
    /\ \A i \in Originals : audits[i].state = "ENFORCED" \/ Confirmed(i)
    /\ Insert(0) /\ UNCHANGED <<active, owed, leader, pass, used>>

-----------------------------------------------------------------------------
(* Runners.                                                                *)

Register(r) == /\ r \notin active /\ active' = active \cup {r}
               /\ UNCHANGED <<audits, owed, leader, pass, used>>
Deactivate(r) == /\ May("registry") /\ r \in active /\ active' = active \ {r}
                 /\ UNCHANGED <<audits, owed, leader, pass>>

\* Mutant of EndedBadly: an inconclusive confirmation does not exclude its runner.
EndedExpired(j) == audits[j].status = "EXPIRED"

EndedBadly(j) == audits[j].status = "EXPIRED" \/ audits[j].verdict = "INCONCLUSIVE"

\* What Claim asks of a confirmation: another runner than the root's, none that failed
\* an earlier confirmation, and another class unless the unit is pinned.
MayConfirm(i, r) ==
    LET root == audits[i].root
    IN  /\ audits[root].by # r
        /\ \A j \in Rows : (audits[j].root = root /\ EndedBadly(j)) => audits[j].by # r
        /\ Pinned = None => audits[root].class # HRClass(r)

Claimable(i, r) ==
    /\ audits[i].status = "QUEUED" /\ Pinned \in {None, HRClass(r)}
    /\ audits[i].root # 0 => MayConfirm(i, r)

\* The claim stands whether or not the runner hears of it (a lost reply, a failed load of
\* the unit).
ClaimJob(r) ==
    /\ r \in active
    /\ \E i \in Rows :
        /\ Claimable(i, r)
        /\ Set(i, [audits[i] EXCEPT !.status = "CLAIMED", !.by = r, !.class = HRClass(r),
                                    !.attempts = @ + 1])
    /\ UNCHANGED <<active, owed, leader, pass, used>>

\* Mutant of Claimant: any runner may finish a claimed job.
AnyClaimed(i, r) == audits[i].status = "CLAIMED"

Claimant(i, r) == audits[i].status = "CLAIMED" /\ audits[i].by = r

Adjudicate(output) == IF output = Accepted THEN "MATCH"
                      ELSE IF output = Unreadable THEN "INCONCLUSIVE" ELSE "MISMATCH"

\* The handler of the claim found the unit or its leaf gone: the row ends INCONCLUSIVE,
\* if it is still that runner's.
CompleteInconclusive(r, i) ==
    /\ May("gone") /\ Claimant(i, r)
    /\ Set(i, [audits[i] EXCEPT !.status = "COMPLETED", !.verdict = "INCONCLUSIVE"])
    /\ UNCHANGED <<active, owed, leader, pass>>

\* SubmitResult with output, for any audit a runner may name: CompleteVerdict, refused
\* unless the runner is the claimant.  What the handler reads before it - the row's unit
\* and root, the accepted output - does not change in this model.
SubmitResult(r, i, output) ==
    /\ r \in active /\ i \in Rows /\ Claimant(i, r)
    /\ LET verdict == Adjudicate(output)
           await == Enforcement /\ verdict = "MISMATCH" /\ audits[i].root = 0
       IN  /\ Set(i, [audits[i] EXCEPT !.status = "COMPLETED", !.verdict = verdict,
                                       !.output = output, !.author = r, !.eligible = Enforcement,
                                       !.state = IF await THEN "AWAITING_CONFIRMATION" ELSE @])
           /\ owed' = IF await THEN owed \cup {i} ELSE owed
    /\ UNCHANGED <<active, leader, pass, used>>

\* ... and its best-effort EnqueueConfirmation.
EnqueueAtVerdict(i) ==
    /\ i \in owed /\ owed' = owed \ {i}
    /\ \/ Insert(i) /\ UNCHANGED used
       \/ May("lost") /\ UNCHANGED audits
    /\ UNCHANGED <<active, leader, pass>>

\* Mutant of Retries: one claim too many.
RetriesOnceMore(i) == audits[i].attempts <= MaxAttempts

Retries(i) == audits[i].attempts < MaxAttempts
GivenUp(i) == IF Retries(i) THEN [audits[i] EXCEPT !.status = "QUEUED", !.by = None]
              ELSE [audits[i] EXCEPT !.status = "EXPIRED"]

ReleaseFailure(r, i) ==
    /\ r \in active /\ i \in Rows /\ Claimant(i, r)
    /\ Set(i, GivenUp(i)) /\ UNCHANGED <<active, owed, leader, pass, used>>

-----------------------------------------------------------------------------
(* The reclaim sweep.                                                      *)

SweepLapsedLeases(i) ==
    /\ audits[i].status = "CLAIMED"
    /\ Set(i, GivenUp(i)) /\ UNCHANGED <<active, owed, leader, pass, used>>

\* Mutant of StaleQueued: only originals have a lifetime.
StaleOriginal(i) == audits[i].status = "QUEUED" /\ audits[i].root = 0

StaleQueued(i) == audits[i].status = "QUEUED"

SweepStaleQueued(i) ==
    /\ StaleQueued(i)
    /\ Set(i, [audits[i] EXCEPT !.status = "EXPIRED"])
    /\ UNCHANGED <<active, owed, leader, pass, used>>

-----------------------------------------------------------------------------
(* The enforcement sweep.                                                  *)

Unresolved(i) == audits[i].state \in {"NONE", "AWAITING_CONFIRMATION"}
Actionable(i) == /\ audits[i].verdict = "MISMATCH" /\ audits[i].eligible
                 /\ audits[i].root = 0 /\ Unresolved(i)

ListActionableRoots(h, i) ==
    /\ h = leader /\ pass[h].at = "idle" /\ Actionable(i)
    /\ pass' = [pass EXCEPT ![h] = [at |-> "resolve", root |-> i, confirm |-> 0]]
    /\ UNCHANGED <<audits, active, owed, leader, used>>

ConfirmationsForRoot(i) == {j \in Rows : audits[j].root = i}
EscalateOrStall(i) ==
    IF Cardinality(ConfirmationsForRoot(i)) < MaxConfirmationAttempts THEN "enqueue" ELSE "stall"

\* The newest confirmation decides what the pass does next; "idle" is to wait.
ResolveConfirmation(i) ==
    IF ConfirmationsForRoot(i) = {} THEN "enqueue"
    ELSE LET latest == audits[Max(ConfirmationsForRoot(i))]
         IN  CASE latest.status \in {"QUEUED", "CLAIMED"} -> "idle"
               [] latest.status = "EXPIRED" -> EscalateOrStall(i)
               [] latest.verdict = "INCONCLUSIVE" -> EscalateOrStall(i)
               [] latest.verdict = "MATCH" -> "contradict"
               [] latest.verdict = "MISMATCH" ->
                    IF latest.output = audits[i].output THEN "consequences" ELSE "contradict"

Resolve(h) ==
    /\ pass[h].at = "resolve"
    /\ LET i == pass[h].root
           next == ResolveConfirmation(i)
       IN  pass' = [pass EXCEPT ![h] =
                       IF next = "idle" THEN IdlePass
                       ELSE [at |-> next, root |-> i,
                             confirm |-> IF next = "enqueue" THEN 0 ELSE Max(ConfirmationsForRoot(i))]]
    /\ UNCHANGED <<audits, active, owed, leader, used>>

\* enqueueAndAwait; an open audit of the unit counts as enqueued.
EnqueueConfirmation(h) ==
    /\ pass[h].at = "enqueue" /\ Insert(pass[h].root)
    /\ pass' = [pass EXCEPT ![h].at = "await"]
    /\ UNCHANGED <<active, owed, leader, used>>

MayMove(i) == Unresolved(i)

Outcome == [await |-> "AWAITING_CONFIRMATION", stall |-> "STALLED",
            contradict |-> "CONTRADICTED", consequences |-> "ENFORCED"]

\* The pass ends with the root's state: at once, or when the consequences are done.
SetEnforcementState(h) ==
    /\ pass[h].at \in DOMAIN Outcome
    /\ LET i == pass[h].root
       IN  audits' = IF MayMove(i) THEN [audits EXCEPT ![i].state = Outcome[pass[h].at]] ELSE audits
    /\ pass' = [pass EXCEPT ![h] = IdlePass]
    /\ UNCHANGED <<active, owed, leader, used>>

\* A statement fails or the head dies; the next sweep starts from the top.
PassFails(h) ==
    /\ May("crash") /\ pass[h].at # "idle"
    /\ pass' = [pass EXCEPT ![h] = IdlePass]
    /\ UNCHANGED <<audits, active, owed, leader>>

\* Another head takes over.
Failover(h) ==
    /\ May("failover") /\ h # leader /\ leader' = h
    /\ UNCHANGED <<audits, active, owed, pass>>

Step(h) == Resolve(h) \/ EnqueueConfirmation(h) \/ SetEnforcementState(h)
Reclaim(i) == SweepLapsedLeases(i) \/ SweepStaleQueued(i)

Next ==
    \/ Sample
    \/ \E r \in Runners : \/ Register(r) \/ Deactivate(r)
                          \/ ClaimJob(r)
                          \/ \E i \in Rows : \/ CompleteInconclusive(r, i) \/ ReleaseFailure(r, i)
                                               \/ \E o \in Outputs : SubmitResult(r, i, o)
    \/ \E i \in Rows : EnqueueAtVerdict(i) \/ Reclaim(i)
    \/ \E h \in Heads : \/ Step(h) \/ PassFails(h) \/ Failover(h)
                        \/ \E i \in Rows : ListActionableRoots(h, i)

Spec == Init /\ [][Next]_vars

\* The reclaim and enforcement tickers keep firing and a head finishes what it began;
\* no runner needs to do anything.
Fairness ==
    /\ \A i \in 1..MaxRows : WF_vars(i \in Rows /\ Reclaim(i))
    /\ \A h \in Heads : /\ WF_vars(Step(h))
                        /\ \A i \in 1..MaxRows : WF_vars(i \in Rows /\ ListActionableRoots(h, i))
    /\ \A i \in 1..MaxRows : WF_vars(EnqueueAtVerdict(i))

FairSpec == Spec /\ Fairness

-----------------------------------------------------------------------------
(* Properties.                                                             *)

\* Every row keeps its shape; a job is claimed at most MaxAttempts times, whatever mix of
\* failures (ReleaseFailure) and lapsed leases (SweepLapsedLeases) it meets, and at most one
\* audit of the unit is open.
TypeOK ==
    /\ \A i \in Rows :
        /\ audits[i].root \in 0..(i - 1)
        /\ audits[i].status \in {"QUEUED", "CLAIMED", "COMPLETED", "EXPIRED"}
        /\ audits[i].attempts \in 0..MaxAttempts
        /\ audits[i].state \in {"NONE", "AWAITING_CONFIRMATION", "ENFORCED", "CONTRADICTED", "STALLED"}
        /\ (audits[i].status = "COMPLETED") = (audits[i].verdict # None)
    /\ Cardinality({i \in Rows : Open(i)}) <= 1
    /\ \A h \in Heads : pass[h].at \in {"idle", "resolve", "enqueue"} \cup DOMAIN Outcome

\* Consequences rest on two runs: a pass that goes on to slash has an original and a
\* confirmation whose bytes came from different runners, on different hardware unless
\* the unit is pinned, that both refute the accepted output and agree - whatever leases
\* lapsed, jobs were claimed again or late submissions arrived in between.
TwoRunnersRefuted ==
    \A h \in Heads : pass[h].at = "consequences" =>
        LET root == audits[pass[h].root]
            confirm == audits[pass[h].confirm]
        IN  /\ confirm.root = pass[h].root
            /\ {root.output, confirm.output} \subseteq Wrong /\ root.output = confirm.output
            /\ root.author # confirm.author
            /\ Pinned = None => root.class # confirm.class

\* A runner whose confirmation expired or was inconclusive does not get another one of the
\* same root (Claim), so that one broken confirmer cannot use up the attempts.
ConfirmersAreFresh ==
    \A j, k \in Rows :
        (j < k /\ audits[j].root # 0 /\ audits[j].root = audits[k].root
            /\ audits[j].by # None /\ (audits[j].status = "EXPIRED" \/ audits[j].verdict = "INCONCLUSIVE"))
        => audits[k].by # audits[j].by

\* Every mismatch that ListActionableRoots finds is enforced, contradicted or stalled in
\* the end, also when the confirmation's enqueue was lost and no runner ever answers.
RootsResolve ==
    \A i \in 1..MaxRows : (i \in Rows /\ Actionable(i)) ~> (i \in Rows /\ ~Unresolved(i))

=============================================================================
