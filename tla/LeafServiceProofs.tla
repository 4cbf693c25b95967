------------------------- MODULE LeafServiceProofs -------------------------
(***************************************************************************)
(* LeafService's type invariant and the two safety invariants of lazy      *)
(* generation, for any number of replicas, requests, trials and faults:    *)
(* every trial below the cursor has exactly one unit, and a leaf is marked *)
(* exhausted only when all of its trials have one.                         *)
(*                                                                         *)
(* Nothing is assumed about who leads: any number of managers may be in    *)
(* any step of a tick.  What keeps them apart is the guard on the cursor,  *)
(* and TickInv, what a manager knows of the cursor it read.                *)
(***************************************************************************)
EXTENDS LeafService, TLAPS

\* A manager that is about to generate read a cursor that had trials left; one that is
\* about to mark the leaf exhausted has one that had none.
TickInv ==
    \A r \in Replicas :
        /\ tick[r].at \in {"number", "persist"} => ~tick[r].cursor.exhausted /\ tick[r].cursor.total < Trials
        /\ tick[r].at = "exhaust" => tick[r].cursor.total = Trials

GenerationInv == TrialsOnce /\ ExhaustedIsDone /\ TickInv

-----------------------------------------------------------------------------
(* Types.                                                                  *)

Cursors == [total : 0 .. Trials, exhausted : BOOLEAN]
Ticks == [at : {"idle", "load", "number", "persist", "exhaust"}, cursor : Cursors, batch : Nat]
OwnerRequests == [at : {"idle", "write", "invalidate"}, on : Replicas \cup {None}, row : Rows]

\* The constants that several steps need.
LEMMA Parameters ==
    /\ Trials \in Nat /\ LazyBatchSize \in Nat /\ MaxFaults \in Nat /\ MaxRequests \in Nat
    /\ Idle \in Ticks /\ NoRequest \in OwnerRequests
    /\ \A q \in Requests : ServedBy[q] \in Replicas
  BY LeafAssumption DEF Idle, NoRequest, Ticks, Cursors, OwnerRequests, Rows, FirstRow, LeafStates, Visibilities

\* What a tick asks for never goes past the leaf's trials.
LEMMA BatchFits ==
    ASSUME NEW c \in Cursors
    PROVE  /\ BatchOf(c) \in Nat /\ c.total + BatchOf(c) \in 0 .. Trials
           /\ ShortBatch(BatchOf(c)) => c.total + BatchOf(c) = Trials
  BY Parameters DEF Cursors, BatchOf, MinOf, ShortBatch

\* Owner requests keep the types.
LEMMA RequestTypes ==
    ASSUME TypeOK, NEW q \in Requests, Ask(q) \/ Answer(q) \/ RequestFails(q)
    PROVE  TypeOK'
  <1> USE Parameters DEF generation, leadership, snapshots
  <1>1. ASSUME NEW new \in Rows, Read(q, ServedBy[q], new)
        PROVE  TypeOK'
    BY <1>1 DEF Read, TypeOK
  <1>2. CASE \E s \in Endpoints : TransitionLeaf(q, ServedBy[q], s)
    BY <1>1, <1>2 DEF TransitionLeaf, Endpoints, TypeOK, Rows, LeafStates
  <1>3. CASE \E v \in Visibilities : UpdateLeaf(q, ServedBy[q], v)
    BY <1>1, <1>3 DEF UpdateLeaf, TypeOK, Rows
  <1>4. CASE CanDelete(q, ServedBy[q])
    BY <1>1, <1>4 DEF CanDelete, TypeOK, Rows, LeafStates, Gone
  <1>5. request[q] \in OwnerRequests /\ Written(request[q].on) \in OwnerRequests
    BY DEF TypeOK, OwnerRequests, Written, Rows, FirstRow, LeafStates, Visibilities
  <1>6. CASE Update(q)
    <2>1. row' \in Rows
      BY <1>5, <1>6 DEF Update, OwnerRequests
    <2>2. request' \in [Requests -> OwnerRequests]
      BY <1>5, <1>6 DEF Update, TypeOK, OwnerRequests
    <2> QED BY <1>6, <2>1, <2>2 DEF Update, TypeOK, OwnerRequests
  <1>7. CASE Delete(q)
    <2>1. row' \in Rows
      BY <1>5, <1>7 DEF Delete, OwnerRequests
    <2>2. request' \in [Requests -> OwnerRequests]
      BY <1>5, <1>7 DEF Delete, TypeOK, OwnerRequests
    <2> QED BY <1>7, <2>1, <2>2 DEF Delete, TypeOK, OwnerRequests
  <1>8. CASE NotFound(q)
    BY <1>8 DEF NotFound, TypeOK, OwnerRequests
  <1>9. CASE InvalidateLeaf(q)
    BY <1>9 DEF InvalidateLeaf, TypeOK, OwnerRequests
  <1>10. CASE RequestFails(q)
    <2>1. faults' \in 0 .. MaxFaults
      BY <1>10 DEF RequestFails, May, TypeOK
    <2> QED BY <1>10, <2>1 DEF RequestFails, TypeOK, OwnerRequests
  <1> QED BY <1>2, <1>3, <1>4, <1>6, <1>7, <1>8, <1>9, <1>10 DEF Ask, Answer

\* So do the managers.
LEMMA GenerateTypes ==
    ASSUME TypeOK, NEW r \in Replicas, Generate(r)
    PROVE  TypeOK'
  <1> USE Parameters DEF leadership, snapshots
  <1>0. tick \in [Replicas -> Ticks] /\ cursor \in Cursors /\ tick[r] \in Ticks /\ tick[r].cursor \in Cursors
    BY DEF TypeOK, Ticks, Cursors
  <1>1. CASE /\ tick' \in [Replicas -> Ticks] /\ cursor' \in Cursors /\ units' \subseteq Nat \X Nat
             /\ faults' \in 0 .. MaxFaults
             /\ UNCHANGED <<row, worked, leadership, snapshots, request, served>>
    BY <1>1 DEF TypeOK, Ticks, Cursors
  <1>2. CASE ScanProjects(r)
    <2>1. tick' \in [Replicas -> Ticks]
      BY <1>0, <1>2 DEF ScanProjects, Ticks
    <2> QED BY <1>0, <1>1, <1>2, <2>1 DEF ScanProjects, TypeOK
  <1>3. CASE CheckAndGenerate(r)
    <2>1. tick' \in [Replicas -> Ticks]
      BY <1>0, <1>3 DEF CheckAndGenerate, Ticks
    <2> QED BY <1>0, <1>1, <1>3, <2>1 DEF CheckAndGenerate, TypeOK
  <1>4. CASE NextSequenceNumber(r)
    <2>1. PICK n \in 1 .. (cursor.total + 1) : tick' = [tick EXCEPT ![r] = [@ EXCEPT !.at = "persist", !.batch = n]]
      BY <1>4 DEF NextSequenceNumber
    <2>2. tick' \in [Replicas -> Ticks]
      <3> DEFINE t == [tick[r] EXCEPT !.at = "persist", !.batch = n]
      <3>1. n \in Nat /\ tick' = [tick EXCEPT ![r] = t]
        BY <1>0, <2>1 DEF Cursors
      <3>2. t \in Ticks
        BY <1>0, <3>1 DEF Ticks
      <3> HIDE DEF t
      <3> QED BY <1>0, <3>1, <3>2
    <2> QED BY <1>0, <1>1, <1>4, <2>2 DEF NextSequenceNumber, TypeOK
  <1>5. CASE PersistBatch(r)
    <2> DEFINE t == tick[r]
               n == BatchOf(t.cursor)
               next == [t.cursor EXCEPT !.total = @ + n]
    <2>1. n \in Nat /\ t.cursor.total + n \in 0 .. Trials
      BY <1>0, BatchFits
    <2>2. next \in Cursors
      BY <1>0, <2>1 DEF Cursors
    <2>3. cursor' = next /\ tick' = [tick EXCEPT ![r] = IF ShortBatch(n)
                                       THEN [t EXCEPT !.at = "exhaust", !.cursor = next] ELSE Idle]
      BY <1>5 DEF PersistBatch
    <2>4. [t EXCEPT !.at = "exhaust", !.cursor = next] \in Ticks
      <3> HIDE DEF next
      <3> QED BY <1>0, <2>2 DEF Ticks
    <2>5. units' \subseteq Nat \X Nat
      <3>1. units' = units \cup {<<i, t.batch>> : i \in t.cursor.total .. (next.total - 1)}
        BY <1>5 DEF PersistBatch
      <3>2. t.batch \in Nat /\ \A i \in t.cursor.total .. (next.total - 1) : i \in Nat
        BY <1>0, <2>2 DEF Ticks, Cursors
      <3> QED BY <3>1, <3>2 DEF TypeOK
    <2>6. tick' \in [Replicas -> Ticks]
      <3> HIDE DEF next
      <3> QED BY <1>0, <2>3, <2>4
    <2> QED BY <1>1, <1>5, <2>2, <2>3, <2>5, <2>6 DEF PersistBatch, TypeOK
  <1>6. CASE PersistFails(r)
    <2>1. tick' \in [Replicas -> Ticks]
      BY <1>0, <1>6 DEF PersistFails
    <2>2. faults' \in 0 .. MaxFaults
      BY <1>6 DEF PersistFails, May, TypeOK
    <2> QED BY <1>0, <1>1, <1>6, <2>1, <2>2 DEF PersistFails, TypeOK
  <1>7. CASE MarkExhausted(r)
    <2>1. tick' \in [Replicas -> Ticks]
      BY <1>0, <1>7 DEF MarkExhausted
    <2>2. cursor' \in Cursors
      BY <1>0, <1>7 DEF MarkExhausted, Cursors
    <2> QED BY <1>0, <1>1, <1>7, <2>1, <2>2 DEF MarkExhausted, TypeOK
  <1> QED BY <1>2, <1>3, <1>4, <1>5, <1>6, <1>7 DEF Generate

\* And every other step.
LEMMA TypeStep == TypeOK /\ [Next]_vars => TypeOK'
  <1> SUFFICES ASSUME TypeOK, [Next]_vars PROVE TypeOK'
    OBVIOUS
  <1> USE Parameters DEF generation, leadership, snapshots
  <1>1. ASSUME NEW r \in Replicas, Lead(r) \/ Restart(r)
        PROVE  TypeOK'
    <2>1. CASE AcquireAndHold(r)
      BY <2>1 DEF AcquireAndHold, TypeOK
    <2>2. CASE Relinquish(r)
      BY <2>2 DEF Relinquish, TypeOK, Ticks, Cursors
    <2>3. CASE Restart(r)
      <3>1. faults' \in 0 .. MaxFaults
        BY <2>3 DEF Restart, May, TypeOK
      <3> QED BY <2>3, <3>1 DEF Restart, TypeOK, Ticks, Cursors
    <2> QED BY <1>1, <2>1, <2>2, <2>3 DEF Lead
  <1>2. ASSUME NEW r \in Replicas, Refresh(r) \/ SnapshotAges(r)
        PROVE  TypeOK'
    <2>1. CASE RefreshReads(r)
      BY <2>1 DEF RefreshReads, TypeOK, Rows
    <2>2. ASSUME NEW v \in Visibilities, RefreshStores(r, v)
          PROVE  TypeOK'
      BY <2>2 DEF RefreshStores, TypeOK
    <2>3. CASE SnapshotAges(r)
      BY <2>3 DEF SnapshotAges, TypeOK
    <2> QED BY <1>2, <2>1, <2>2, <2>3 DEF Refresh
  <1>3. CASE LoseSession
    BY <1>3 DEF LoseSession, May, TypeOK
  <1>4. CASE WorkOff
    BY <1>4 DEF WorkOff, TypeOK
  <1>5. CASE UNCHANGED vars
    BY <1>5 DEF vars, TypeOK
  <1> QED BY <1>1, <1>2, <1>3, <1>4, <1>5, RequestTypes, GenerateTypes DEF Next

-----------------------------------------------------------------------------
(* Generation.                                                             *)

\* The invariant looks only at the cursor, the units and the managers.
LEMMA GenerationUnchanged ==
    ASSUME GenerationInv, UNCHANGED <<cursor, units, tick>>
    PROVE  GenerationInv'
  BY DEF GenerationInv, TrialsOnce, ExhaustedIsDone, TickInv

\* A manager's step that leaves the cursor and the units alone.
LEMMA TickStep ==
    ASSUME TypeOK, GenerationInv, NEW r \in Replicas, UNCHANGED <<cursor, units>>,
           NEW t \in Ticks, tick' = [tick EXCEPT ![r] = t],
           t.at \in {"number", "persist"} => ~t.cursor.exhausted /\ t.cursor.total < Trials,
           t.at = "exhaust" => t.cursor.total = Trials
    PROVE  GenerationInv'
  <1>1. TickInv'
    BY DEF GenerationInv, TickInv, TypeOK
  <1> QED BY <1>1 DEF GenerationInv, TrialsOnce, ExhaustedIsDone

\* PersistBatch, under the guard: its trials are the ones that follow the cursor, so none
\* of them has a unit yet.
LEMMA PersistStep ==
    ASSUME TypeOK, GenerationInv, NEW r \in Replicas, PersistBatch(r)
    PROVE  GenerationInv'
  <1> USE Parameters
  <1> DEFINE t == tick[r]
             c == t.cursor.total
             n == BatchOf(t.cursor)
             next == [t.cursor EXCEPT !.total = @ + n]
             new == {<<i, t.batch>> : i \in c .. (c + n - 1)}
  <1>1. t \in Ticks /\ t.cursor \in Cursors /\ tick \in [Replicas -> Ticks] /\ t.at = "persist"
    BY DEF TypeOK, Ticks, Cursors, PersistBatch
  <1>2. n \in Nat /\ c \in Nat /\ c + n \in 0 .. Trials /\ (ShortBatch(n) => c + n = Trials)
    BY <1>1, BatchFits DEF Cursors
  <1>3. next.total = c + n /\ ~next.exhausted /\ next \in Cursors
    BY <1>1, <1>2 DEF Cursors, GenerationInv, TickInv
  <1>4. cursor' = next /\ cursor.total = c /\ units' = units \cup new
    BY <1>2, <1>3 DEF PersistBatch, Guard
  <1>5. tick' = [tick EXCEPT ![r] = IF ShortBatch(n) THEN [t EXCEPT !.at = "exhaust", !.cursor = next] ELSE Idle]
    BY DEF PersistBatch
  <1> HIDE DEF next, n
  <1>6. \A u \in units : u[1] \in 0 .. (c - 1)
    BY <1>4 DEF GenerationInv, TrialsOnce
  <1>7. \A u \in new : u[1] \in c .. (c + n - 1) /\ u = <<u[1], t.batch>>
    OBVIOUS
  <1>8. \A u, v \in units' : u[1] = v[1] => u = v
    <2> SUFFICES ASSUME NEW u \in units', NEW v \in units', u[1] = v[1]
                 PROVE  u = v
      OBVIOUS
    <2>1. CASE u \in units /\ v \in units
      BY <2>1 DEF GenerationInv, TrialsOnce
    <2>2. CASE u \in new /\ v \in new
      BY <2>2, <1>7
    <2>3. ~(u \in units /\ v \in new) /\ ~(u \in new /\ v \in units)
      BY <1>2, <1>6, <1>7
    <2> QED BY <1>4, <2>1, <2>2, <2>3
  <1>9. {u[1] : u \in units'} = 0 .. (c + n - 1)
    <2>1. ASSUME NEW u \in units' PROVE u[1] \in 0 .. (c + n - 1)
      BY <1>2, <1>4, <1>6, <1>7
    <2>2. ASSUME NEW i \in 0 .. (c + n - 1) PROVE \E u \in units' : i = u[1]
      <3>1. CASE i < c
        <4>1. {u[1] : u \in units} = 0 .. (cursor.total - 1)
          BY DEF GenerationInv, TrialsOnce
        <4>2. i \in 0 .. (cursor.total - 1)
          BY <1>2, <1>4, <3>1
        <4>3. PICK u \in units : i = u[1]
          BY <4>1, <4>2
        <4> QED BY <1>4, <4>3
      <3>2. CASE ~(i < c)
        <4>1. <<i, t.batch>> \in new /\ <<i, t.batch>>[1] = i
          BY <1>2, <3>2
        <4> QED BY <1>4, <4>1
      <3> QED BY <3>1, <3>2
    <2> QED BY <2>1, <2>2
  <1>10. TrialsOnce'
    <2> DEFINE ranks == {u[1] : u \in units'}
               total == cursor'.total
    <2>1. c \in Nat /\ n \in Nat /\ total = c + n /\ ranks = 0 .. (c + n - 1)
      BY <1>2, <1>3, <1>4, <1>9
    <2> HIDE DEF ranks, c, total
    <2>2. ranks = 0 .. (total - 1)
      BY <2>1
    <2> QED BY <1>8, <2>2 DEF TrialsOnce, ranks, total
  <1>11. ExhaustedIsDone'
    BY <1>3, <1>4 DEF ExhaustedIsDone
  <1>12. TickInv'
    <2> DEFINE s == [t EXCEPT !.at = "exhaust", !.cursor = next]
    <2>1. s.at = "exhaust" /\ s.cursor = next
      BY <1>1 DEF Ticks
    <2> HIDE DEF s
    <2>2. tick' = [tick EXCEPT ![r] = IF ShortBatch(n) THEN s ELSE Idle]
      BY <1>5 DEF s
    <2> SUFFICES ASSUME NEW g \in Replicas
                 PROVE  /\ tick'[g].at \in {"number", "persist"} =>
                             ~tick'[g].cursor.exhausted /\ tick'[g].cursor.total < Trials
                        /\ tick'[g].at = "exhaust" => tick'[g].cursor.total = Trials
      BY DEF TickInv
    <2>3. CASE g # r
      BY <1>1, <2>2, <2>3 DEF GenerationInv, TickInv
    <2>4. CASE g = r
      BY <1>1, <1>2, <1>3, <2>1, <2>2, <2>4 DEF Idle
    <2> QED BY <2>3, <2>4
  <1> QED BY <1>10, <1>11, <1>12 DEF GenerationInv

\* A manager's steps.
LEMMA GenerateStep ==
    ASSUME TypeOK, GenerationInv, NEW r \in Replicas, Generate(r)
    PROVE  GenerationInv'
  <1> USE Parameters
  <1>0. tick \in [Replicas -> Ticks] /\ cursor \in Cursors /\ tick[r] \in Ticks /\ tick[r].cursor \in Cursors
    BY DEF TypeOK, Ticks, Cursors
  <1>1. CASE ScanProjects(r)
    <2> DEFINE t == [tick[r] EXCEPT !.at = "load"]
    <2>1. t \in Ticks /\ t.at = "load" /\ tick' = [tick EXCEPT ![r] = t] /\ UNCHANGED <<cursor, units>>
      BY <1>0, <1>1 DEF Ticks, ScanProjects
    <2> HIDE DEF t
    <2> QED BY <2>1, TickStep
  <1>2. CASE CheckAndGenerate(r)
    <2> DEFINE t == [at |-> IF Trials - cursor.total <= 0 THEN "exhaust" ELSE "number",
                     cursor |-> cursor, batch |-> 0]
    <2>1. t \in Ticks
      BY <1>0 DEF Ticks
    <2>2. CASE row.state # "ACTIVE" \/ cursor.exhausted
      <3>1. tick' = [tick EXCEPT ![r] = Idle] /\ Idle.at = "idle" /\ UNCHANGED <<cursor, units>>
        BY <1>2, <2>2 DEF CheckAndGenerate, Idle
      <3> QED BY <3>1, TickStep
    <2>3. CASE ~(row.state # "ACTIVE" \/ cursor.exhausted)
      <3>1. tick' = [tick EXCEPT ![r] = t] /\ UNCHANGED <<cursor, units>>
        BY <1>2, <2>3 DEF CheckAndGenerate
      <3>2. /\ t.at \in {"number", "persist"} => ~t.cursor.exhausted /\ t.cursor.total < Trials
            /\ t.at = "exhaust" => t.cursor.total = Trials
        BY <1>0, <2>3 DEF Cursors
      <3> HIDE DEF t
      <3> QED BY <2>1, <3>1, <3>2, TickStep
    <2> QED BY <2>2, <2>3
  <1>3. CASE NextSequenceNumber(r)
    <2>1. PICK n \in 1 .. (cursor.total + 1) : tick' = [tick EXCEPT ![r] = [@ EXCEPT !.at = "persist", !.batch = n]]
      BY <1>3 DEF NextSequenceNumber
    <2> DEFINE t == [tick[r] EXCEPT !.at = "persist", !.batch = n]
    <2>2. n \in Nat /\ tick' = [tick EXCEPT ![r] = t]
      BY <1>0, <2>1 DEF Cursors
    <2>3. t \in Ticks /\ t.at = "persist" /\ t.cursor = tick[r].cursor
      BY <1>0, <2>2 DEF Ticks
    <2>4. ~tick[r].cursor.exhausted /\ tick[r].cursor.total < Trials /\ UNCHANGED <<cursor, units>>
      BY <1>3 DEF NextSequenceNumber, GenerationInv, TickInv
    <2> HIDE DEF t
    <2> QED BY <2>2, <2>3, <2>4, TickStep
  <1>4. CASE PersistBatch(r)
    BY <1>4, PersistStep
  <1>5. CASE PersistFails(r)
    <2>1. tick' = [tick EXCEPT ![r] = Idle] /\ Idle.at = "idle" /\ UNCHANGED <<cursor, units>>
      BY <1>5 DEF PersistFails, Idle
    <2> QED BY <2>1, TickStep
  <1>6. CASE MarkExhausted(r)
    <2>1. TickInv'
      BY <1>0, <1>6 DEF MarkExhausted, GenerationInv, TickInv, Idle
    <2>2. cursor'.total = cursor.total /\ units' = units
      BY <1>0, <1>6 DEF MarkExhausted, Guard, Cursors
    <2>3. TrialsOnce'
      BY <2>2 DEF GenerationInv, TrialsOnce
    <2>4. ExhaustedIsDone'
      BY <1>0, <1>6 DEF MarkExhausted, Guard, GenerationInv, ExhaustedIsDone, TickInv, Cursors
    <2> QED BY <2>1, <2>3, <2>4 DEF GenerationInv
  <1> QED BY <1>1, <1>2, <1>3, <1>4, <1>5, <1>6 DEF Generate

\* Every step.
LEMMA GenerationStep == TypeOK /\ GenerationInv /\ [Next]_vars => GenerationInv'
  <1> SUFFICES ASSUME TypeOK, GenerationInv, [Next]_vars PROVE GenerationInv'
    OBVIOUS
  <1> USE Parameters DEF generation
  <1>1. ASSUME NEW r \in Replicas, Relinquish(r) \/ Restart(r)
        PROVE  GenerationInv'
    <2>1. tick' = [tick EXCEPT ![r] = Idle] /\ Idle.at = "idle" /\ UNCHANGED <<cursor, units>>
      BY <1>1 DEF Relinquish, Restart, Idle
    <2> QED BY <2>1, TickStep
  <1>2. ASSUME NEW q \in Requests, Delete(q)
        PROVE  GenerationInv'
    <2>1. cursor'.total = 0 /\ ~cursor'.exhausted /\ units' = {} /\ tick' = tick
      BY <1>2 DEF Delete
    <2>2. 0 .. (0 - 1) = {}
      OBVIOUS
    <2>3. TrialsOnce'
      BY <2>1, <2>2 DEF TrialsOnce
    <2> QED BY <2>1, <2>3 DEF GenerationInv, ExhaustedIsDone, TickInv
  <1>3. CASE UNCHANGED <<cursor, units, tick>>
    BY <1>3, GenerationUnchanged
  <1>4. \/ UNCHANGED <<cursor, units, tick>>
        \/ \E r \in Replicas : Relinquish(r) \/ Restart(r) \/ Generate(r)
        \/ \E q \in Requests : Delete(q)
    BY DEF Next, vars, Lead, AcquireAndHold, Refresh, RefreshReads, RefreshStores, SnapshotAges,
           Ask, TransitionLeaf, UpdateLeaf, CanDelete, Read, Answer, Update, NotFound, InvalidateLeaf,
           RequestFails, LoseSession, WorkOff
  <1> QED BY <1>1, <1>2, <1>3, <1>4, GenerateStep

\* And the initial state.
LEMMA GenerationInit == Init => TypeOK /\ GenerationInv
  <1> SUFFICES ASSUME Init PROVE TypeOK /\ GenerationInv
    OBVIOUS
  <1> USE Parameters DEF Init
  <1>1. TypeOK
    BY DEF TypeOK, Rows, FirstRow, LeafStates, Visibilities, Ticks, Cursors, OwnerRequests
  <1>2. 0 .. (0 - 1) = {}
    OBVIOUS
  <1>3. TrialsOnce
    BY <1>2 DEF TrialsOnce
  <1> QED BY <1>1, <1>3 DEF GenerationInv, ExhaustedIsDone, TickInv, Idle

\* In every reachable state.
LEMMA Invariance == Spec => [](TypeOK /\ GenerationInv)
  <1>1. TypeOK /\ GenerationInv /\ [Next]_vars => (TypeOK /\ GenerationInv)'
    BY TypeStep, GenerationStep
  <1> QED BY <1>1, GenerationInit, PTL DEF Spec

-----------------------------------------------------------------------------
(* The theorems.                                                           *)

\* The leaf, its managers and the snapshots keep their shape, and the cursor never passes
\* the leaf's declared number of trials.
THEOREM TypeCorrect == Spec => []TypeOK
  BY Invariance, PTL

\* However many managers generate at once, crash or lose their session: every trial below
\* the cursor has exactly one unit, and no other trial has one.
THEOREM TrialsOnceHolds == Spec => []TrialsOnce
  <1>1. GenerationInv => TrialsOnce
    BY DEF GenerationInv
  <1> QED BY <1>1, Invariance, PTL

\* The flag that ends generation for good is set only when no trial is missing.
THEOREM ExhaustedIsDoneHolds == Spec => []ExhaustedIsDone
  <1>1. GenerationInv => ExhaustedIsDone
    BY DEF GenerationInv
  <1> QED BY <1>1, Invariance, PTL

=============================================================================
