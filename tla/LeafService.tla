---------------------------- MODULE LeafService ----------------------------
(***************************************************************************)
(* One leaf at the head: its row and lifecycle under concurrent owner      *)
(* requests, the dispatch cache's snapshot of that row on each replica,    *)
(* the election of the leader that runs the background jobs, and the       *)
(* leader's lazy generation of the leaf's work units.                      *)
(*                                                                         *)
(* The leader is whoever holds a session lock in Postgres.  A replica that *)
(* lost the session goes on leading until its next ping, so two managers   *)
(* can generate at once; a manager reads the leaf, asks for a batch number *)
(* and commits in three separate steps.  An owner request likewise reads   *)
(* the row, writes it back whole and then withdraws its own replica's      *)
(* trust in the snapshot, unless it fails in between.  The leaf is a       *)
(* finite lazy one (Monte Carlo or parameter sweep): trial i is unit i.    *)
(* Of the row an owner edits the state and the visibility; the number of   *)
(* trials, the batch size and is_ongoing stay what they were, and the leaf *)
(* is among the 200 a scan of the active leaves returns.                   *)
(*                                                                         *)
(*   services/infrastructure/internal/leaf (handler.go, state.go,          *)
(*   pgx-repo.go), internal/generate (lazy.go, batchsink.go),              *)
(*   internal/server (leadership.go, dispatch_cache.go)                    *)
(***************************************************************************)
EXTENDS Naturals

CONSTANTS
    Replicas, Requests,
    ServedBy,           \* the replica the load balancer gives a request to
    Staging,            \* the replicas with units of the leaf in their ready pool
    Trials,             \* splitting_config.num_trials
    LazyBatchSize, LazyThreshold,
    MaxFaults, MaxRequests      \* bounds: faults, and owner requests, in a behaviour

None == "none"

\* validateLazyGenerationConfig refuses anything below 1.
ASSUME LeafAssumption ==
    /\ {Trials, LazyBatchSize, LazyThreshold} \subseteq Nat \ {0}
    /\ None \notin Replicas /\ ServedBy \in [Requests -> Replicas] /\ Staging \subseteq Replicas
    /\ {MaxFaults, MaxRequests} \subseteq Nat

VARIABLES
    row,        \* the leaf's row, less the cursor column
    cursor,     \* generation_cursor
    units,      \* generated units: <<trial, batch number>>
    worked,     \* generated units no longer QUEUED
    lock,       \* the holder of the singleton-jobs lock
    leads,      \* replicas whose leader jobs run
    tick,       \* each replica's lazy manager
    request,    \* each owner request: the row it read, with its change applied
    snapshot,   \* leafCache: the leaf's visibility, and whether it is fresh
    reading,    \* what the snapshot refreshes under way have read
    faults, served

generation == <<cursor, units, worked, tick>>
leadership == <<lock, leads>>
snapshots == <<snapshot, reading>>
vars == <<row, generation, leadership, snapshots, request, faults, served>>

Gone == "GONE"      \* the row is deleted
LeafStates == {"DRAFT", "CONFIGURING", "ACTIVE", "PAUSED", "COMPLETED", "ARCHIVED", Gone}
Visibilities == {"PUBLIC", "UNLISTED"}
Rows == [state : LeafStates, visibility : Visibilities]
Idle == [at |-> "idle", cursor |-> [total |-> 0, exhausted |-> FALSE], batch |-> 0]

FirstRow == [state |-> "ACTIVE", visibility |-> "PUBLIC"]
NoRequest == [at |-> "idle", on |-> None, row |-> FirstRow]
Written(r) == [at |-> "invalidate", on |-> r, row |-> FirstRow]     \* the row no longer matters

Init ==
    /\ \E s \in {"ACTIVE", "PAUSED"} : row = [FirstRow EXCEPT !.state = s]
    /\ cursor = [total |-> 0, exhausted |-> FALSE]
    /\ units = {} /\ worked = 0
    /\ lock = None /\ leads = {} /\ tick = [r \in Replicas |-> Idle]
    /\ request = [q \in Requests |-> NoRequest]
    /\ snapshot = [r \in Replicas |-> [visibility |-> "PUBLIC", fresh |-> FALSE]]
    /\ reading = [r \in Replicas |-> {}]
    /\ faults = 0 /\ served = 0

May == faults < MaxFaults /\ faults' = faults + 1

-----------------------------------------------------------------------------
(* Owner requests: read the row, check, write the whole row back.          *)

validTransitions ==
    [ DRAFT |-> {"CONFIGURING", "ARCHIVED"}, CONFIGURING |-> {"ACTIVE"},
      ACTIVE |-> {"PAUSED", "CONFIGURING", "COMPLETED"},
      PAUSED |-> {"ACTIVE", "CONFIGURING", "ARCHIVED"},
      COMPLETED |-> {"ARCHIVED"}, ARCHIVED |-> {} ]

\* The transitions that have an endpoint.
Endpoints == {"ACTIVE", "PAUSED", "CONFIGURING", "ARCHIVED"}

\* Request q, served by replica r, has read the row and is about to write this one.
Read(q, r, new) ==
    /\ request[q] = NoRequest /\ row.state # Gone
    /\ served < MaxRequests /\ served' = served + 1
    /\ request' = [request EXCEPT ![q] = [at |-> "write", on |-> r, row |-> new]]
    /\ UNCHANGED <<row, generation, leadership, snapshots, faults>>

\* handleTransition up to the write: the check is on the row it read.
TransitionLeaf(q, r, target) ==
    /\ row.state # Gone /\ target \in validTransitions[row.state]
    /\ Read(q, r, [row EXCEPT !.state = target])

\* handleUpdate up to the write: the state is not among what it may change, but
\* it is among what it writes.
UpdateLeaf(q, r, visibility) == Read(q, r, [row EXCEPT !.visibility = visibility])

\* handleDelete up to the delete; whether there is credit or audit history that
\* forbids it is left open.
CanDelete(q, r) ==
    /\ row.state # "ACTIVE"
    /\ Read(q, r, [row EXCEPT !.state = Gone])

\* PgxRepository.Update: every column but generation_cursor.
Update(q) ==
    /\ request[q].at = "write" /\ row.state # Gone /\ request[q].row.state # Gone
    /\ row' = request[q].row /\ request' = [request EXCEPT ![q] = Written(@.on)]
    /\ UNCHANGED <<generation, leadership, snapshots, faults, served>>

\* PgxRepository.Delete: batches and units go with the row.
Delete(q) ==
    /\ request[q].at = "write" /\ row.state # Gone /\ request[q].row.state = Gone
    /\ row' = request[q].row /\ request' = [request EXCEPT ![q] = Written(@.on)]
    /\ cursor' = [total |-> 0, exhausted |-> FALSE] /\ units' = {} /\ worked' = 0
    /\ UNCHANGED <<tick, leadership, snapshots, faults, served>>

\* The leaf is gone by the time of the write.
NotFound(q) ==
    /\ request[q].at = "write" /\ row.state = Gone
    /\ request' = [request EXCEPT ![q] = NoRequest]
    /\ UNCHANGED <<row, generation, leadership, snapshots, faults, served>>

\* InvalidateLeaf, on the replica that served the request, before it answers.
InvalidateLeaf(q) ==
    /\ request[q].at = "invalidate"
    /\ snapshot' = [snapshot EXCEPT ![request[q].on].fresh = FALSE]
    /\ request' = [request EXCEPT ![q] = NoRequest]
    /\ UNCHANGED <<row, generation, leadership, reading, faults, served>>

\* A statement of the request fails, or its caller hangs up: before the write nothing
\* happened; after it (Update reads the row once more before it returns) the handler
\* leaves without the invalidation.
RequestFails(q) ==
    /\ request[q].at # "idle" /\ May
    /\ request' = [request EXCEPT ![q] = NoRequest]
    /\ UNCHANGED <<row, generation, leadership, snapshots, served>>

-----------------------------------------------------------------------------
(* The dispatch cache's snapshot of the leaf.                              *)

\* Mutant of NeedsRefresh: an entry, once there, is never read again.
NeedsWarming(r) == FALSE

\* getLeaf, warmLeaf and refreshStaleLeafSnapshots: an entry that is not fresh.
NeedsRefresh(r) == ~snapshot[r].fresh

\* The refresh reads the row.
RefreshReads(r) ==
    /\ r \in Staging /\ NeedsRefresh(r) /\ row.state # Gone
    /\ reading' = [reading EXCEPT ![r] = @ \cup {row.visibility}]
    /\ UNCHANGED <<row, generation, leadership, snapshot, request, faults, served>>

\* The refresh stores what it read, as of now.
RefreshStores(r, v) ==
    /\ v \in reading[r]
    /\ snapshot' = [snapshot EXCEPT ![r] = [visibility |-> v, fresh |-> TRUE]]
    /\ reading' = [reading EXCEPT ![r] = @ \ {v}]
    /\ UNCHANGED <<row, generation, leadership, request, faults, served>>

\* leafSnapshotTTL passes.
SnapshotAges(r) ==
    /\ snapshot[r].fresh
    /\ snapshot' = [snapshot EXCEPT ![r].fresh = FALSE]
    /\ UNCHANGED <<row, generation, leadership, reading, request, faults, served>>

\* peekLeafFresh and the gate in eligibleLocked: the unit may go to a requester that
\* did not pin its leaf.
TrustsPublic(r) == snapshot[r].fresh /\ snapshot[r].visibility = "PUBLIC"

-----------------------------------------------------------------------------
(* Leader election.                                                        *)

\* acquireAndHold: pg_try_advisory_lock, then the leader's jobs.
AcquireAndHold(r) ==
    /\ r \notin leads /\ lock = None
    /\ lock' = r /\ leads' = leads \cup {r}
    /\ UNCHANGED <<row, generation, snapshots, request, faults, served>>

\* The session that holds the lock is gone; its replica does not know.
LoseSession ==
    /\ lock # None /\ May
    /\ lock' = None
    /\ UNCHANGED <<row, generation, leads, snapshots, request, served>>

\* The ping fails: the jobs' context is cancelled, a job's next statement fails.
Relinquish(r) ==
    /\ r \in leads /\ lock # r
    /\ leads' = leads \ {r} /\ tick' = [tick EXCEPT ![r] = Idle]
    /\ UNCHANGED <<row, cursor, units, worked, lock, snapshots, request, faults, served>>

\* The process stops, orderly (releaseLock) or not, and comes up again.
Restart(r) ==
    /\ r \in leads /\ May
    /\ leads' = leads \ {r} /\ tick' = [tick EXCEPT ![r] = Idle]
    /\ lock' = IF lock = r THEN None ELSE lock
    /\ UNCHANGED <<row, cursor, units, worked, snapshots, request, served>>

-----------------------------------------------------------------------------
(* The lazy manager's tick.                                                *)

MinOf(a, b) == IF a < b THEN a ELSE b

\* scanProjects: an ACTIVE lazy leaf that runs short of QUEUED units.
ScanProjects(r) ==
    /\ r \in leads /\ tick[r].at = "idle"
    /\ row.state = "ACTIVE" /\ cursor.total - worked < LazyThreshold
    /\ tick' = [tick EXCEPT ![r].at = "load"]
    /\ UNCHANGED <<row, cursor, units, worked, leadership, snapshots, request, faults, served>>

\* Mutant of CheckAndGenerate: a leaf with nothing left is left alone.
CheckIgnoringEnd(r) ==
    /\ tick[r].at = "load"
    /\ tick' = [tick EXCEPT ![r] =
         IF row.state # "ACTIVE" \/ cursor.exhausted \/ Trials - cursor.total <= 0 THEN Idle
         ELSE [at |-> "number", cursor |-> cursor, batch |-> 0]]
    /\ UNCHANGED <<row, cursor, units, worked, leadership, snapshots, request, faults, served>>

\* CheckAndGenerate reads the leaf again and decides.
CheckAndGenerate(r) ==
    /\ tick[r].at = "load"
    /\ tick' = [tick EXCEPT ![r] =
         IF row.state # "ACTIVE" \/ cursor.exhausted THEN Idle
         ELSE [at |-> IF Trials - cursor.total <= 0 THEN "exhaust" ELSE "number",
               cursor |-> cursor, batch |-> 0]]
    /\ UNCHANGED <<row, cursor, units, worked, leadership, snapshots, request, faults, served>>

\* The generator's NextSequenceNumber.
NextSequenceNumber(r) ==
    /\ tick[r].at = "number"
    /\ \E n \in 1 .. (cursor.total + 1) :
         /\ \A u \in units : u[2] < n
         /\ n = 1 \/ \E u \in units : u[2] = n - 1
         /\ tick' = [tick EXCEPT ![r] = [@ EXCEPT !.at = "persist", !.batch = n]]
    /\ UNCHANGED <<row, cursor, units, worked, leadership, snapshots, request, faults, served>>

\* Mutant of BatchOf: every tick asks for a full batch.
FullBatch(c) == LazyBatchSize

\* perTickNumTrials.
BatchOf(c) == MinOf(LazyBatchSize, Trials - c.total)

\* Mutant of ShortBatch: a full batch counts as short.
ShortOrFull(n) == n <= LazyBatchSize

ShortBatch(n) == n < LazyBatchSize

\* Mutant of Guard: the cursor is advanced unconditionally.
NoGuard(c) == row.state # Gone

\* UpdateGenerationCursorTx: the row's total must still be the one that was read.
Guard(c) == row.state # Gone /\ cursor.total = c.total

\* PersistBatch, one transaction: the batch (its number is unique), its units and
\* the cursor.
PersistBatch(r) ==
    LET t == tick[r]
        n == BatchOf(t.cursor)
        next == [t.cursor EXCEPT !.total = @ + n]
    IN  /\ t.at = "persist"
        /\ Guard(t.cursor) /\ \A u \in units : u[2] # t.batch
        /\ units' = units \cup {<<i, t.batch>> : i \in t.cursor.total .. (next.total - 1)}
        /\ cursor' = next
        /\ tick' = [tick EXCEPT ![r] = IF ShortBatch(n) THEN [t EXCEPT !.at = "exhaust", !.cursor = next]
                                       ELSE Idle]
        /\ UNCHANGED <<row, worked, leadership, snapshots, request, faults, served>>

\* The transaction is rolled back: a number taken, the cursor moved on, or an error.
PersistFails(r) ==
    /\ tick[r].at = "persist"
    /\ \/ /\ ~Guard(tick[r].cursor) \/ \E u \in units : u[2] = tick[r].batch
          /\ UNCHANGED faults
       \/ May
    /\ tick' = [tick EXCEPT ![r] = Idle]
    /\ UNCHANGED <<row, cursor, units, worked, leadership, snapshots, request, served>>

\* markExhausted: under the same guard, in a statement of its own.
MarkExhausted(r) ==
    /\ tick[r].at = "exhaust"
    /\ cursor' = IF Guard(tick[r].cursor) THEN [tick[r].cursor EXCEPT !.exhausted = TRUE] ELSE cursor
    /\ tick' = [tick EXCEPT ![r] = Idle]
    /\ UNCHANGED <<row, units, worked, leadership, snapshots, request, faults, served>>

\* Volunteers take a unit out of the queue.
WorkOff ==
    /\ worked < cursor.total
    /\ worked' = worked + 1
    /\ UNCHANGED <<row, cursor, units, tick, leadership, snapshots, request, faults, served>>

-----------------------------------------------------------------------------

Lead(r) == AcquireAndHold(r) \/ Relinquish(r)
Generate(r) == \/ ScanProjects(r) \/ CheckAndGenerate(r) \/ NextSequenceNumber(r)
               \/ PersistBatch(r) \/ PersistFails(r) \/ MarkExhausted(r)
Ask(q) == \/ \E s \in Endpoints : TransitionLeaf(q, ServedBy[q], s)
          \/ \E v \in Visibilities : UpdateLeaf(q, ServedBy[q], v)
          \/ CanDelete(q, ServedBy[q])
Answer(q) == Update(q) \/ Delete(q) \/ NotFound(q) \/ InvalidateLeaf(q)
Refresh(r) == RefreshReads(r) \/ \E v \in Visibilities : RefreshStores(r, v)

Next ==
    \/ \E r \in Replicas : Lead(r) \/ Generate(r) \/ Restart(r) \/ Refresh(r) \/ SnapshotAges(r)
    \/ \E q \in Requests : Ask(q) \/ Answer(q) \/ RequestFails(q)
    \/ LoseSession \/ WorkOff

Spec == Init /\ [][Next]_vars

\* Replicas poll for the lock and ping it, the leader's ticker fires, a request is
\* answered, and the units are worked off; the refiller's tick finds a stale snapshot
\* of a staged leaf and reads it, and time passes.
Fairness ==
    /\ \A r \in Replicas : WF_vars(AcquireAndHold(r)) /\ WF_vars(Relinquish(r)) /\ WF_vars(Generate(r))
    /\ \A q \in Requests : WF_vars(Answer(q))
    /\ \A r \in Replicas :
         /\ WF_vars(RefreshReads(r)) /\ WF_vars(SnapshotAges(r))
         /\ \A v \in Visibilities : WF_vars(RefreshStores(r, v))
    /\ WF_vars(WorkOff)
FairSpec == Spec /\ Fairness

-----------------------------------------------------------------------------

\* The rows, the lock, the managers and the requests keep their shape; in particular
\* the cursor never passes the leaf's declared number of trials.
TypeOK ==
    /\ row \in Rows
    /\ cursor \in [total : 0 .. Trials, exhausted : BOOLEAN]
    /\ units \subseteq Nat \X Nat /\ worked \in Nat
    /\ lock \in Replicas \cup {None} /\ leads \subseteq Replicas
    /\ tick \in [Replicas -> [at : {"idle", "load", "number", "persist", "exhaust"},
                              cursor : [total : 0 .. Trials, exhausted : BOOLEAN], batch : Nat]]
    /\ request \in [Requests -> [at : {"idle", "write", "invalidate"}, on : Replicas \cup {None},
                                 row : Rows]]
    /\ snapshot \in [Replicas -> [visibility : Visibilities, fresh : BOOLEAN]]
    /\ reading \in [Replicas -> SUBSET Visibilities]
    /\ faults \in 0 .. MaxFaults /\ served \in 0 .. MaxRequests

\* PersistBatch commits a batch and the cursor's advance together, "so a crash or
\* leadership-failover overlap cannot duplicate or lose ordinals": every trial below
\* the cursor has exactly one unit, whoever generated it, and none above it has one.
TrialsOnce ==
    /\ \A u, v \in units : u[1] = v[1] => u = v
    /\ {u[1] : u \in units} = 0 .. (cursor.total - 1)

\* The exhaustion flag is final - CheckAndGenerate stops at it - so it is set only
\* when every trial of the leaf has its unit, by however many managers.
ExhaustedIsDone == cursor.exhausted => cursor.total = Trials

\* An active lazy leaf is generated to its end and marked, through restarts, lost
\* sessions and overlapping leaders, unless its owner takes it out of ACTIVE.
GenerationFinishes == (row.state = "ACTIVE") ~> (cursor.exhausted \/ row.state # "ACTIVE")

\* Whatever refreshes were under way when the owner changed the visibility: a replica
\* ends up refusing a hidden leaf to requesters that did not pin it, and offering a
\* public one, "so a missed event bounds exposure rather than extending it".
SnapshotsConverge ==
    \A r \in Staging :
        /\ <>[](row.visibility = "UNLISTED") => <>[]~TrustsPublic(r)
        /\ <>[](row.state # Gone /\ row.visibility = "PUBLIC") => []<>TrustsPublic(r)
=============================================================================
