------------------------------- MODULE Ledger -------------------------------
(***************************************************************************)
(* What happens to credit after it is granted: the append-only ledger, the *)
(* adjustments that claw it back, the attestations that publish both, and  *)
(* the decrement of the recent average credit (RAC).                       *)
(*                                                                         *)
(* Four writers share these tables and no common transaction: the accept   *)
(* of a unit (money first, attestations after its commit, best effort),    *)
(* the operator's clawback, the enforcement pass of a confirmed audit      *)
(* mismatch (it may stop between any two steps and is then run again from  *)
(* the top), and the sweep that publishes the revocations the others       *)
(* failed to.                                                              *)
(*                                                                         *)
(*   services/infrastructure/internal/credit (pgx-repo.go,                 *)
(*   adjustments-pgx-repo.go, rac-repo.go, admin-handler.go),              *)
(*   internal/attestation (pgx-repo.go, revocation.go, reconciler.go),     *)
(*   internal/validation (engine.go, repair.go), internal/audit            *)
(*   (enforcement_sweep.go), cmd/lettuce-server (enforcement_wiring.go)    *)
(***************************************************************************)
EXTENDS Integers, Sequences, FiniteSets, FiniteSetsExt

CONSTANTS
    Results,
    Audited,        \* the results of the unit whose audit found a mismatch
    Truthful,       \* those of them that lost and match the ground truth
    Account,        \* the account of a result
    Unmatured,      \* results whose entry is young enough for the account-wide sweep
    Amount,         \* credit per validated unit
    Capped,         \* a daily emission cap is configured
    MaxFaults, MaxClaws     \* bounds: failures, and operator clawbacks, in a behaviour

ASSUME LedgerAssumption ==
    /\ Truthful \subseteq Audited /\ Audited \subseteq Results /\ Unmatured \subseteq Results
    /\ Amount \in Nat \ {0}

VARIABLES
    status,     \* validation_status of each result
    ledger,     \* credit_ledger: the amount of a result's entry (0: no entry)
    adj,        \* credit_adjustments, in order
    attest,     \* the AGREED grant attestation of a result: its amount, or NoRow
    revoked,    \* adjustments that have their revocation attestation
    accept,     \* for each unit, what its acceptResults has yet to do
    claw,       \* the clawback transaction of each caller
    op,         \* the operator's request
    pass,       \* the enforcement pass
    root,       \* enforcement state of the root audit
    recon,      \* adjustments the revocation sweep has listed
    faults, claws,
    interrupted \* a pass has stopped before its end

entries == <<status, ledger>>
published == <<attest, revoked>>
vars == <<entries, adj, published, accept, claw, op, pass, root, recon, faults, claws, interrupted>>

NoRow == -1
NoClaw == [entry |-> {}, mag |-> 0]
Callers == {"operator", "pass"}
PassIdle == [ at |-> "idle", fraud |-> {}, accounts |-> {}, mine |-> {},
              todo |-> {}, cand |-> {}, granted |-> 0 ]

\* Every result outside the audited unit is the only winner of a unit of its own.
Units == {Audited} \cup {{r} : r \in Results \ Audited}
Winners(u) == u \ Truthful

Init ==
    /\ status = [r \in Results |-> "PENDING"]
    /\ ledger = [r \in Results |-> 0]
    /\ adj = <<>> /\ revoked = {} /\ attest = [r \in Results |-> NoRow]
    /\ accept = [u \in Units |-> [at |-> "idle", todo |-> {}]]
    /\ claw = [w \in Callers |-> NoClaw]
    /\ op = [at |-> "idle", adj |-> 0] /\ pass = PassIdle /\ root = "OPEN" /\ recon = {}
    /\ faults = 0 /\ claws = 0 /\ interrupted = FALSE

Fault == faults < MaxFaults /\ faults' = faults + 1

-----------------------------------------------------------------------------
(* Grant: the accept of a unit.                                            *)

\* The finalization transaction: statuses and entries; a capped grant may be
\* suppressed.
AcceptResults(u, granted) ==
    /\ accept[u].at = "idle"
    /\ granted \subseteq Winners(u) /\ (Capped \/ granted = Winners(u))
    /\ status' = [r \in Results |-> IF r \in Winners(u) THEN "AGREED"
                                    ELSE IF r \in u THEN "DISAGREED" ELSE status[r]]
    /\ ledger' = [r \in Results |-> IF r \in granted THEN Amount ELSE ledger[r]]
    /\ accept' = [accept EXCEPT ![u] = [at |-> "attest", todo |-> Winners(u)]]
    /\ UNCHANGED <<adj, published, claw, op, pass, root, recon, faults, claws, interrupted>>

\* attestedAmounts: what was granted, 0 for a suppressed result.
GrantAttested(r) == ledger[r]

\* createAttestations, one result: a failure is logged and skipped.
CreateAttestation(u, r) ==
    /\ r \in accept[u].todo
    /\ \/ attest' = [attest EXCEPT ![r] = GrantAttested(r)] /\ UNCHANGED faults
       \/ Fault /\ UNCHANGED attest
    /\ accept' = [accept EXCEPT ![u].todo = @ \ {r}]
    /\ UNCHANGED <<entries, adj, revoked, claw, op, pass, root, recon, claws, interrupted>>

-----------------------------------------------------------------------------
(* Clawback: a transaction that locks the entry, sums its adjustments and  *)
(* inserts one more.                                                       *)

AdjustmentsOf(r) == {i \in DOMAIN adj : adj[i].entry = r}
Magnitude(i) == adj[i].mag

\* The sum of r's adjustments among the rows of seq.
Total(seq, r) ==
    LET sum[n \in 0 .. Len(seq)] ==
          IF n = 0 THEN 0 ELSE sum[n - 1] + (IF seq[n].entry = r THEN seq[n].mag ELSE 0)
    IN  sum[Len(seq)]

SumForEntry(r) == Total(adj, r)
Net(r) == ledger[r] - SumForEntry(r)

\* Mutant of EntryUnlocked: the entry is not selected FOR UPDATE.
NeverLocked(r) == TRUE

EntryUnlocked(r) == \A w \in Callers : r \notin claw[w].entry

\* Mutant of Remaining: an entry with an adjustment counts as cancelled.
RemainingUnadjusted(r) == IF AdjustmentsOf(r) = {} THEN ledger[r] ELSE 0

\* What a clawback may still take; none of it left is ErrAdjustmentExhausted.
Remaining(r) == Net(r)

\* Caller w locks the entry and computes what to take: m, or all of it (m = 0).
ClawbackReads(w, r, m) ==
    /\ ledger[r] > 0 /\ EntryUnlocked(r)
    /\ Remaining(r) > 0 /\ m <= Remaining(r)
    /\ claw' = [claw EXCEPT ![w] = [entry |-> {r}, mag |-> IF m = 0 THEN Remaining(r) ELSE m]]

\* ... inserts the adjustment and commits.
ClawbackCommits(w) ==
    /\ claw[w] # NoClaw
    /\ \E r \in claw[w].entry :
         adj' = Append(adj, [entry |-> r, mag |-> claw[w].mag, audit |-> w = "pass", racApplied |-> FALSE])
    /\ claw' = [claw EXCEPT ![w] = NoClaw]

\* EmitForAdjustment: a result with no grant attestation gets no revocation, and a
\* second revocation of an adjustment is refused by its unique index.
EmitForAdjustment(i) ==
    revoked' = IF attest[adj[i].entry] # NoRow THEN revoked \cup {i} ELSE revoked

\* Every caller logs a failure and goes on.
EmitBestEffort(i) == \/ EmitForAdjustment(i) /\ UNCHANGED faults
                     \/ Fault /\ UNCHANGED revoked

-----------------------------------------------------------------------------
(* The operator's clawback.                                                *)

HandleClawback(r, m) ==
    /\ op.at = "idle" /\ claws < MaxClaws /\ claws' = claws + 1
    /\ ClawbackReads("operator", r, m)
    /\ op' = [op EXCEPT !.at = "commit"]
    /\ UNCHANGED <<entries, adj, published, accept, pass, root, recon, faults, interrupted>>

OperatorCommits ==
    /\ op.at = "commit" /\ ClawbackCommits("operator")
    /\ op' = [at |-> "emit", adj |-> Len(adj')]
    /\ UNCHANGED <<entries, published, accept, pass, root, recon, faults, claws, interrupted>>

\* The transaction fails: nothing is written.
OperatorFails ==
    /\ op.at = "commit" /\ Fault
    /\ op' = [op EXCEPT !.at = "idle"] /\ claw' = [claw EXCEPT !["operator"] = NoClaw]
    /\ UNCHANGED <<entries, adj, published, accept, pass, root, recon, claws, interrupted>>

OperatorEmits ==
    /\ op.at = "emit"
    /\ EmitBestEffort(op.adj)
    /\ op' = [at |-> "idle", adj |-> 0]
    /\ UNCHANGED <<entries, adj, attest, accept, claw, pass, root, recon, claws, interrupted>>

-----------------------------------------------------------------------------
(* The enforcement pass.                                                   *)

\* Sampled after the accept is through, confirmed, and not yet enforced: the fraud
\* set is what agrees now.
LoadFraudSet ==
    LET fraud == {r \in Audited : status[r] = "AGREED"}
    IN  /\ root = "OPEN" /\ pass.at = "idle"
        /\ accept[Audited] = [at |-> "attest", todo |-> {}]
        /\ pass' = [PassIdle EXCEPT !.at = "claw", !.fraud = fraud, !.todo = fraud,
                                    !.accounts = {Account[r] : r \in fraud}]
        /\ UNCHANGED <<entries, adj, published, accept, claw, op, root, recon, faults, claws, interrupted>>

\* ClawbackEntryForAudit and ClawbackUnmaturedForAudit, one entry.
PassClaws(r) ==
    /\ pass.at = "claw" /\ r \in pass.todo /\ claw["pass"] = NoClaw
    /\ ClawbackReads("pass", r, 0)
    /\ pass' = [pass EXCEPT !.todo = @ \ {r}]
    /\ UNCHANGED <<entries, adj, published, accept, op, root, recon, faults, claws, interrupted>>

PassCommits ==
    /\ pass.at = "claw" /\ ClawbackCommits("pass")
    /\ pass' = [pass EXCEPT !.mine = @ \cup {Len(adj')}]
    /\ UNCHANGED <<entries, published, accept, op, root, recon, faults, claws, interrupted>>

\* Mutant of PassSkips: ErrAdjustmentExhausted is an error like any other.
SkipsMissingEntry(r) ==
    /\ pass.at = "claw" /\ r \in pass.todo /\ claw["pass"] = NoClaw
    /\ ledger[r] = 0
    /\ pass' = [pass EXCEPT !.todo = @ \ {r}]
    /\ UNCHANGED <<entries, adj, published, accept, claw, op, root, recon, faults, claws, interrupted>>

\* No entry, or nothing left of it.
PassSkips(r) ==
    /\ pass.at = "claw" /\ r \in pass.todo /\ claw["pass"] = NoClaw
    /\ EntryUnlocked(r) /\ Remaining(r) <= 0
    /\ pass' = [pass EXCEPT !.todo = @ \ {r}]
    /\ UNCHANGED <<entries, adj, published, accept, claw, op, root, recon, faults, claws, interrupted>>

\* ListUnmaturedEntryIDs of one account, when the entries before are dealt with.
ListUnmatured(a) ==
    /\ pass.at = "claw" /\ pass.todo = {} /\ claw["pass"] = NoClaw /\ a \in pass.accounts
    /\ pass' = [pass EXCEPT !.accounts = @ \ {a},
                            !.todo = {r \in Unmatured : Account[r] = a /\ ledger[r] > 0}]
    /\ UNCHANGED <<entries, adj, published, accept, claw, op, root, recon, faults, claws, interrupted>>

ClawbacksDone ==
    /\ pass.at = "claw" /\ pass.todo = {} /\ claw["pass"] = NoClaw /\ pass.accounts = {}
    /\ pass' = [pass EXCEPT !.at = "emit", !.todo = pass.mine]
    /\ UNCHANGED <<entries, adj, published, accept, claw, op, root, recon, faults, claws, interrupted>>

\* An adjustment of this pass: its revocation, best effort, ...
PassEmits(i) ==
    /\ pass.at = "emit" /\ i \in pass.todo
    /\ EmitBestEffort(i)
    /\ pass' = [pass EXCEPT !.at = "rac", !.cand = {i}]
    /\ UNCHANGED <<entries, adj, attest, accept, claw, op, root, recon, claws, interrupted>>

\* Mutant of AppliesRAC: an adjustment that takes only a part has no decrement.
AppliesRACToWhole(i) == adj[i].mag = Amount

\* ... and ApplyAdjustment, which stamps it and decrements the RAC in one transaction.
AppliesRAC(i) == ~adj[i].racApplied

ApplyRACAdjustment(i) ==
    /\ pass.at = "rac" /\ i \in pass.cand
    /\ adj' = IF AppliesRAC(i) THEN [adj EXCEPT ![i].racApplied = TRUE] ELSE adj
    /\ pass' = [pass EXCEPT !.at = "emit", !.todo = @ \ {i}, !.cand = {}]
    /\ UNCHANGED <<entries, published, accept, claw, op, root, recon, faults, claws, interrupted>>

\* FlipToDisagreed, then RepairUnit loads its candidates.
FlipToDisagreed ==
    /\ pass.at = "emit" /\ pass.todo = {}
    /\ status' = [r \in Results |-> IF r \in pass.fraud THEN "DISAGREED" ELSE status[r]]
    /\ pass' = [pass EXCEPT !.at = "repair", !.todo = {r \in Truthful : status'[r] = "DISAGREED"}]
    /\ UNCHANGED <<ledger, adj, published, accept, claw, op, root, recon, faults, claws, interrupted>>

\* applyRepair of one candidate: the flip, ...
RepairFlips(r) ==
    /\ pass.at = "repair" /\ r \in pass.todo
    /\ status' = [status EXCEPT ![r] = "AGREED"]
    /\ pass' = [pass EXCEPT !.at = "grant", !.cand = {r}]
    /\ UNCHANGED <<ledger, adj, published, accept, claw, op, root, recon, faults, claws, interrupted>>

\* ... the grant: an entry that exists already is no error, and grants nothing, ...
RepairGrants(r, inserted) ==
    /\ pass.at = "grant" /\ r \in pass.cand
    /\ inserted => ledger[r] = 0
    /\ inserted \/ ledger[r] # 0 \/ Capped
    /\ ledger' = [ledger EXCEPT ![r] = IF inserted THEN Amount ELSE @]
    /\ pass' = [pass EXCEPT !.at = "attest", !.granted = IF inserted THEN Amount ELSE 0]
    /\ UNCHANGED <<status, adj, published, accept, claw, op, root, recon, faults, claws, interrupted>>

\* ... and the attestation of what this pass granted, unless there is one.
RepairAttests(r) ==
    /\ pass.at = "attest" /\ r \in pass.cand
    /\ \/ attest' = [attest EXCEPT ![r] = IF @ = NoRow THEN pass.granted ELSE @] /\ UNCHANGED faults
       \/ Fault /\ UNCHANGED attest
    /\ pass' = [pass EXCEPT !.at = "repair", !.todo = @ \ {r}, !.cand = {}, !.granted = 0]
    /\ UNCHANGED <<entries, adj, revoked, accept, claw, op, root, recon, claws, interrupted>>

SetEnforcementState ==
    /\ pass.at = "repair" /\ pass.todo = {}
    /\ root' = "ENFORCED" /\ pass' = PassIdle
    /\ UNCHANGED <<entries, adj, published, accept, claw, op, recon, faults, claws, interrupted>>

\* A statement fails, or the process dies: the sweep runs the pass again from the top.
PassStops ==
    /\ pass.at # "idle" /\ Fault
    /\ pass' = PassIdle /\ claw' = [claw EXCEPT !["pass"] = NoClaw] /\ interrupted' = TRUE
    /\ UNCHANGED <<entries, adj, published, accept, op, root, recon, claws>>

-----------------------------------------------------------------------------
(* The revocation reconciler.                                              *)

\* Mutant of Unreconciled: the operator's adjustments are left to its handler.
UnreconciledAudit(i) == i \notin revoked /\ attest[adj[i].entry] # NoRow /\ adj[i].audit

\* unreconciledAdjustmentsQuery.
Unreconciled(i) == i \notin revoked /\ attest[adj[i].entry] # NoRow

Reconcile ==
    /\ recon = {}
    /\ recon' = {i \in DOMAIN adj : Unreconciled(i)} /\ recon' # {}
    /\ UNCHANGED <<entries, adj, published, accept, claw, op, pass, root, faults, claws, interrupted>>

ReconcileEmits(i) ==
    /\ i \in recon
    /\ EmitBestEffort(i)
    /\ recon' = recon \ {i}
    /\ UNCHANGED <<entries, adj, attest, accept, claw, op, pass, root, claws, interrupted>>

\* The head restarts: what it was doing is not resumed, except for the pass and the sweep.
Crash ==
    /\ Fault
    /\ accept' = [u \in Units |-> IF accept[u].todo = {} THEN accept[u] ELSE [at |-> "lost", todo |-> {}]]
    /\ claw' = [w \in Callers |-> NoClaw] /\ op' = [at |-> "idle", adj |-> 0]
    /\ pass' = PassIdle /\ interrupted' = (interrupted \/ pass.at # "idle") /\ recon' = {}
    /\ UNCHANGED <<entries, adj, published, root, claws>>

-----------------------------------------------------------------------------

Validate(u) == \/ \E granted \in SUBSET Results : AcceptResults(u, granted)
               \/ \E r \in Results : CreateAttestation(u, r)
OperatorEnds == OperatorCommits \/ OperatorFails \/ OperatorEmits
Operator == (\E r \in Results, m \in 0 .. Amount : HandleClawback(r, m)) \/ OperatorEnds
Indices == 1 .. (Amount * Cardinality(Results))
Pass ==
    \/ LoadFraudSet \/ (\E r \in Results : PassClaws(r) \/ PassSkips(r)) \/ PassCommits
    \/ (\E r \in Results : ListUnmatured(Account[r])) \/ ClawbacksDone
    \/ (\E i \in Indices : PassEmits(i) \/ ApplyRACAdjustment(i))
    \/ FlipToDisagreed
    \/ (\E r \in Results : \/ RepairFlips(r) \/ RepairAttests(r)
                           \/ \E inserted \in BOOLEAN : RepairGrants(r, inserted))
    \/ SetEnforcementState
Sweep == Reconcile \/ \E i \in Indices : ReconcileEmits(i)

Next == \/ (\E u \in Units : Validate(u)) \/ Operator \/ Pass \/ PassStops \/ Sweep \/ Crash

Spec == Init /\ [][Next]_vars

\* A request runs to its end, the enforcement sweep and the reconciler tick.
FairSpec == /\ Spec /\ WF_vars(OperatorEnds) /\ WF_vars(Pass) /\ WF_vars(Sweep)
            /\ \A u \in Units : WF_vars(Validate(u))

-----------------------------------------------------------------------------

\* "two simultaneous full-cancels can no longer each snapshot the pre-commit net and
\* both insert": whatever the operator and the pass take at once, no entry is taken
\* below zero.
NetNeverNegative == \A r \in Results : Net(r) >= 0

\* An enforced root leaves nothing of the credit of the results it convicted, whatever
\* the operator took before or meanwhile and however often the pass was interrupted.
FraudUnpaid == root = "ENFORCED" => \A r \in Audited \ Truthful : Net(r) = 0

\* ClawbackForAudit's adjustments are decremented from the RAC before the root is
\* enforced - if no pass was interrupted: the pass that runs again finds the entry
\* exhausted and does not come back to the adjustment.
RACUnwound == root = "ENFORCED" /\ ~interrupted => \A i \in DOMAIN adj : adj[i].audit => adj[i].racApplied

\* What is published settles to what is owed: attested less revoked is the entry's net,
\* for every accepted result that was attested at all, through failed emissions and
\* restarts.
AttestedNetSettles ==
    \A r \in Results \ Truthful :
        <>[](attest[r] # NoRow =>
                attest[r] - MapThenSumSet(Magnitude, revoked \cap AdjustmentsOf(r)) = Net(r))

\* A confirmed mismatch is enforced in the end, the clawbacks of others notwithstanding.
EnforcedInTheEnd == (pass.at # "idle") ~> (root = "ENFORCED")
=============================================================================
