--------------------------- MODULE WorkUnitProofs ---------------------------
(***************************************************************************)
(* What is proved of WorkUnit, for every value of its constants.  Its type *)
(* invariant holds of every head; the rest of every head whose advisory    *)
(* unit lock is honored:                                                   *)
(*   - no PENDING result under a finalized unit, credit only for work that *)
(*     is AGREED or was sanctioned, AGREED work paid when no root is open; *)
(*   - verdicts stand and acceptances are sound when they commit;          *)
(*   - when moreover no enforcement pass is cut short, no honest result is *)
(*     sanctioned and the unit implements UnitLifecycle.                   *)
(*                                                                         *)
(* The inductive invariant is the conjunction of                           *)
(*   Safe    what the lock buys: whoever is past WithUnitLock holds it     *)
(*           (LockInv), the results in its snapshot are still PENDING      *)
(*           (SnapInv), what enforcement works on is as it left it         *)
(*           (FraudInv);                                                   *)
(*   Paid    how far a pass and a decision have got (Sure), one pass at a  *)
(*           time (OnePass);                                               *)
(*   Filed   every result has an output; Unstamped, no unit has copies or  *)
(*           a quorum of its own;                                          *)
(*   Calm    what a pass that is never cut short can rely on.              *)
(***************************************************************************)
EXTENDS WorkUnit, FiniteSetTheorems, SequenceTheorems, TLAPS

\* The program counters at which a thread may be without the lock.
Unlocked == {"idle", "lock", "rq_abandon", "rq_reassign"}

LockInv == \A t \in Threads : ev[t].pc \notin Unlocked => lock = t

SnapInv ==
    \A t \in Threads : ev[t].pc \in {"live", "decide", "mark", "accept", "reject"} =>
        ev[t].pend \subseteq Pending

FraudInv ==
    \A t \in Threads :
      /\ ev[t].pc \in {"slash", "flip", "grant"} => ev[t].pend \subseteq WithStatus("AGREED")
      /\ ev[t].pc = "flip" => ev[t].pend \subseteq sanctioned

Safe == LockInv /\ SnapInv /\ FraudInv /\ NoPendingUnderTerminal /\ CreditBacked

-----------------------------------------------------------------------------
(* Cardinalities, policies and records.                                    *)

\* Every set of volunteers can be counted.
LEMMA Counting ==
    ASSUME NEW S \in SUBSET Volunteers
    PROVE  IsFiniteSet(S) /\ Cardinality(S) \in Nat
  BY FiniteVolunteers, FS_Subset, FS_CardinalityType

\* The types of the tables' rows.
CopyRow == [outcome : Outcomes, started : BOOLEAN]

RowsTyped == rows \in [Volunteers -> Seq(CopyRow)]

ResultRow == [ status : Statuses, output : Outputs \cup {0},
               version : Versions \cup {0}, standing : Standings ]

ResTyped == res \in [Volunteers -> ResultRow]

\* The copy rows of a unit are finitely many.
LEMMA RowsFinite == RowsTyped => IsFiniteSet(Rows)
  <1> SUFFICES ASSUME RowsTyped PROVE IsFiniteSet(Rows)
    OBVIOUS
  <1> DEFINE part(v) == {<<v, i>> : i \in 1..Len(rows[v])}
             parts == {part(v) : v \in Volunteers}
             f == [v \in Volunteers |-> part(v)]
  <1>1. \A v \in Volunteers : IsFiniteSet(part(v))
    <2> TAKE v \in Volunteers
    <2>1. Len(rows[v]) \in Nat
      BY DEF RowsTyped
    <2>2. IsFiniteSet(1..Len(rows[v]))
      BY <2>1, FS_Interval
    <2> DEFINE g == [i \in 1..Len(rows[v]) |-> <<v, i>>]
    <2>3. g \in Surjection(1..Len(rows[v]), part(v))
      BY DEF Surjection
    <2> HIDE DEF g
    <2> QED
      BY <2>2, <2>3, FS_Surjection
  <1>2. f \in Surjection(Volunteers, parts)
    BY DEF Surjection
  <1>3. IsFiniteSet(parts)
    BY <1>2, FS_Surjection, FiniteVolunteers
  <1>4. IsFiniteSet(UNION parts)
    BY <1>1, <1>3, FS_UNION
  <1> QED
    BY <1>4 DEF Rows

\* The counts behind the ceilings are naturals.
LEMMA CopyCounts == RowsTyped => BudgetCopies \in Nat /\ ErrorCopies \in Nat
  <1> SUFFICES ASSUME RowsTyped PROVE BudgetCopies \in Nat /\ ErrorCopies \in Nat
    OBVIOUS
  <1>1. Cardinality(UnstartedAbandoners) \in Nat
    <2>1. UnstartedAbandoners \subseteq Volunteers
      BY DEF UnstartedAbandoners, RowsThat, Rows
    <2> QED BY <2>1, Counting
  <1>2. ASSUME NEW S \in SUBSET Rows PROVE Cardinality(S) \in Nat
    BY <1>2, RowsFinite, FS_Subset, FS_CardinalityType
  <1>3. Cardinality(WithStatus("DISAGREED")) \in Nat
    BY Counting DEF WithStatus
  <1>4. BudgetCopies \in Nat
    BY <1>1, <1>2 DEF BudgetCopies, RowsThat
  <1>5. ErrorCopies \in Nat
    BY <1>1, <1>2, <1>3 DEF ErrorCopies, RowsThat
  <1> QED
    BY <1>4, <1>5

\* Whatever a unit row holds, its policy resolves to naturals.
LEMMA PolicyTyped ==
    ASSUME NEW u \in UnitRows
    PROVE  /\ ResolvePolicy(Leaf, u).targetCopies \in Nat
           /\ ResolvePolicy(Leaf, u).minQuorum \in Nat
           /\ ResolvePolicy(Leaf, u).maxErrorCopies \in Nat
  <1> DEFINE et == EffectiveTargetCopies(Leaf)
             eq == EffectiveMinQuorum(Leaf)
             t0 == Override(u.targetCopies, et)
             q0 == Override(u.minQuorum, eq)
             t  == MaxOf(IF u.spotCheck THEN MaxOf(t0, 2) ELSE t0, 1)
             q  == MinOf(MaxOf(IF u.spotCheck THEN t ELSE q0, 1), t)
  <1>1. /\ Leaf.redundancyFactor \in Nat /\ Leaf.targetCopies \in Nat
        /\ Leaf.minQuorum \in Nat /\ Leaf.maxErrorCopies \in Nat
    BY ConstantsAssumption DEF LeafConfigs
  <1>2. /\ u.targetCopies \in Nat /\ u.minQuorum \in Nat /\ u.maxErrorCopies \in Nat
        /\ u.spotCheck \in BOOLEAN
    BY DEF UnitRows
  <1>3. et \in Nat
    BY <1>1 DEF EffectiveTargetCopies, Override, MaxOf
  <1>4. eq \in Nat
    <2> HIDE DEF et
    <2> QED BY <1>1, <1>3 DEF EffectiveMinQuorum, Override, MaxOf, MinOf, et
  <1> HIDE DEF et, eq
  <1>5. t \in Nat
    BY <1>2, <1>3 DEF Override, MaxOf
  <1>6. q \in Nat
    <2> HIDE DEF t
    <2> QED BY <1>2, <1>4, <1>5 DEF Override, MaxOf, MinOf
  <1>7. /\ ResolvePolicy(Leaf, u).targetCopies = t
        /\ ResolvePolicy(Leaf, u).minQuorum = q
        /\ ResolvePolicy(Leaf, u).maxErrorCopies = Override(u.maxErrorCopies, Leaf.maxErrorCopies)
    BY Zenon DEF ResolvePolicy, et, eq
  <1> QED
    BY <1>1, <1>2, <1>5, <1>6, <1>7 DEF Override

\* A refund leaves a well-formed unit row.
LEMMA RefundTyped ==
    ASSUME NEW u \in UnitRows, NEW w \in UnitRows, NEW budget \in Nat, NEW errors \in Nat
    PROVE  Refunded(u, w, budget, errors) \in UnitRows
  <1> DEFINE fresh == ResolvePolicy(Leaf, w).maxErrorCopies
             total == budget + FreshTotal(w)
             error == IF fresh > 0 THEN errors + fresh ELSE u.maxErrorCopies
  <1>1. fresh \in Nat /\ ResolvePolicy(Leaf, w).targetCopies \in Nat
    BY PolicyTyped
  <1>2. Leaf.maxTotalCopies \in Nat
    BY ConstantsAssumption DEF LeafConfigs
  <1>3. total \in Nat
    BY <1>1, <1>2 DEF FreshTotal, Override, DefaultCopyRetryMargin
  <1>4. error \in Nat
    <2> HIDE DEF fresh
    <2> QED BY <1>1 DEF UnitRows
  <1>5. Refunded(u, w, budget, errors) = [u EXCEPT !.maxTotalCopies = total, !.maxErrorCopies = error]
    BY DEF Refunded
  <1> HIDE DEF total, error
  <1> QED
    BY <1>3, <1>4, <1>5 DEF UnitRows

\* The decider answers with one of the four actions.
LEMMA DecisionTyped ==
    ASSUME NEW s
    PROVE  Decide(s).action \in {"WAIT", "VALIDATE", "REJECT", "DEADLETTER"}
  BY DEF Decide, DecideOpen, DecideRejected, Decision

-----------------------------------------------------------------------------
(* Type correctness.                                                       *)

\* Replacing the last element of a sequence.
LEMMA LastReplaced ==
    ASSUME NEW R, NEW s \in Seq(R), s # <<>>, NEW r \in R
    PROVE  s[Len(s)] \in R /\ [s EXCEPT ![Len(s)] = r] \in Seq(R)
  <1>1. Len(s) \in Nat \ {0}
    BY EmptySeq
  <1>2. Len(s) \in 1..Len(s)
    BY <1>1
  <1> QED
    BY <1>2, ElementOfSeq, ExceptSeq

\* A copy sequence stays one, whatever happens to its last row.
LEMMA CopiesTyped ==
    ASSUME NEW s \in Seq(CopyRow), s # <<>>
    PROVE  /\ \A o \in Outcomes : Closed(s, o) \in Seq(CopyRow)
           /\ Started(s) \in Seq(CopyRow)
  <1> DEFINE last == s[Len(s)]
  <1>1. \A r \in CopyRow : last \in CopyRow /\ [s EXCEPT ![Len(s)] = r] \in Seq(CopyRow)
    BY LastReplaced
  <1>2. Len(s) \in 1..Len(s)
    BY EmptySeq
  <1>3. last \in CopyRow
    BY <1>2, ElementOfSeq
  <1>4. \A o \in Outcomes : [last EXCEPT !.outcome = o] \in CopyRow
    BY <1>3 DEF CopyRow
  <1>5. [last EXCEPT !.started = TRUE] \in CopyRow
    BY <1>3 DEF CopyRow
  <1> QED
    BY <1>1, <1>4, <1>5 DEF Closed, Started

\* ExpireLiveCopies keeps the table's shape.
LEMMA ExpireTyped ==
    ASSUME RowsTyped, NEW o \in Outcomes, ExpireLiveCopies(o)
    PROVE  RowsTyped'
  <1>1. \A v \in Volunteers : Live(v) => rows[v] # <<>>
    BY DEF Live
  <1>2. \A v \in Volunteers :
          (IF Live(v) THEN Closed(rows[v], o) ELSE rows[v]) \in Seq(CopyRow)
    BY <1>1, CopiesTyped DEF RowsTyped
  <1> QED
    BY <1>2 DEF ExpireLiveCopies, RowsTyped

\* One step of a thread keeps the shape of its local state.
LEMMA ThreadTyped ==
    ASSUME ev \in [Threads -> ThreadStates], NEW t \in Threads, NEW e \in ThreadStates,
           ev' = [ev EXCEPT ![t] = e]
    PROVE  ev' \in [Threads -> ThreadStates]
  OBVIOUS

\* ... in the forms in which the actions write it.
LEMMA FieldsTyped ==
    ASSUME ev \in [Threads -> ThreadStates], NEW t \in Threads, NEW pc \in PCs
    PROVE  /\ [ev EXCEPT ![t].pc = pc] \in [Threads -> ThreadStates]
           /\ \A u \in UnitRows :
                [ev EXCEPT ![t].pc = pc, ![t].unit = u] \in [Threads -> ThreadStates]
           /\ \A P \in SUBSET Volunteers :
                [ev EXCEPT ![t].pc = pc, ![t].pend = P] \in [Threads -> ThreadStates]
           /\ \A n \in Nat :
                [ev EXCEPT ![t].pc = pc, ![t].live = n] \in [Threads -> ThreadStates]
  <1> DEFINE e == [ev[t] EXCEPT !.pc = pc]
  <1>1. e \in ThreadStates
    BY DEF ThreadStates
  <1>2. [ev EXCEPT ![t].pc = pc] = [ev EXCEPT ![t] = e]
    OBVIOUS
  <1>3. ASSUME NEW u \in UnitRows
        PROVE  [ev EXCEPT ![t].pc = pc, ![t].unit = u] \in [Threads -> ThreadStates]
    <2>1. [e EXCEPT !.unit = u] \in ThreadStates
      BY <1>1 DEF ThreadStates
    <2>2. [ev EXCEPT ![t].pc = pc, ![t].unit = u] = [ev EXCEPT ![t] = [e EXCEPT !.unit = u]]
      OBVIOUS
    <2> QED
      BY <2>1, <2>2
  <1>4. ASSUME NEW P \in SUBSET Volunteers
        PROVE  [ev EXCEPT ![t].pc = pc, ![t].pend = P] \in [Threads -> ThreadStates]
    <2>1. [e EXCEPT !.pend = P] \in ThreadStates
      BY <1>1 DEF ThreadStates
    <2>2. [ev EXCEPT ![t].pc = pc, ![t].pend = P] = [ev EXCEPT ![t] = [e EXCEPT !.pend = P]]
      OBVIOUS
    <2> QED
      BY <2>1, <2>2
  <1>5. ASSUME NEW n \in Nat
        PROVE  [ev EXCEPT ![t].pc = pc, ![t].live = n] \in [Threads -> ThreadStates]
    <2>1. [e EXCEPT !.live = n] \in ThreadStates
      BY <1>1 DEF ThreadStates
    <2>2. [ev EXCEPT ![t].pc = pc, ![t].live = n] = [ev EXCEPT ![t] = [e EXCEPT !.live = n]]
      OBVIOUS
    <2> QED
      BY <2>1, <2>2
  <1> QED
    BY <1>1, <1>2, <1>3, <1>4, <1>5

\* A thread at rest.
LEMMA IdleTyped == Idle \in ThreadStates
  BY DEF Idle, ThreadStates, InitUnit, UnitRows, PCs, States

\* Finish, Trigger and Goto keep the shape of the threads and of the lock.
LEMMA ControlTyped ==
    ASSUME ev \in [Threads -> ThreadStates], lock \in Threads \cup {"none"},
           NEW t \in Threads,
           \/ Finish(t)
           \/ Trigger(t) /\ UNCHANGED lock
           \/ \E pc \in PCs : Goto(t, pc)
    PROVE  ev' \in [Threads -> ThreadStates] /\ lock' \in Threads \cup {"none"}
  <1>1. CASE Finish(t)
    BY <1>1, IdleTyped DEF Finish
  <1>2. CASE Trigger(t) /\ UNCHANGED lock
    BY <1>2 DEF Trigger, ThreadStates, PCs
  <1>3. ASSUME NEW pc \in PCs, Goto(t, pc)
        PROVE  ev' \in [Threads -> ThreadStates] /\ lock' \in Threads \cup {"none"}
    BY <1>3 DEF Goto, ThreadStates
  <1> QED
    BY <1>1, <1>2, <1>3

\* A unit row stays one when its state moves.
LEMMA StateTyped ==
    ASSUME unit \in UnitRows, NEW s \in States, SetState(s)
    PROVE  unit' \in UnitRows
  BY DEF SetState, UnitRows

\* Spending of a rare event's budget.
LEMMA SpendTyped ==
    ASSUME used \in [Events -> Nat], NEW k \in Events, Spend(k)
    PROVE  used' \in [Events -> Nat]
  BY DEF Spend

\* TypeOK, in the terms of the lemmas.
Types ==
    /\ unit \in UnitRows
    /\ RowsTyped
    /\ landing \subseteq Volunteers \X {"flush", "spot"}
    /\ ResTyped
    /\ credited \subseteq Volunteers
    /\ sanctioned \subseteq Volunteers
    /\ standing \in [Volunteers -> Standings]
    /\ root \in {"none", "open", "enforced"}
    /\ ev \in [Threads -> ThreadStates]
    /\ lock \in Threads \cup {"none"}
    /\ used \in [Events -> Nat]

\* Types is TypeOK, part by part.
LEMMA TypesAre == Types <=> TypeOK
  BY DEF Types, TypeOK, RowsTyped, CopyRow, ResTyped, ResultRow

\* The initial tables and threads are well typed.
LEMMA TypesInit == Init => Types
  <1> SUFFICES ASSUME Init PROVE Types
    OBVIOUS
  <1>1. InitUnit \in UnitRows
    BY DEF InitUnit, UnitRows, States
  <1>2. NoResult \in ResultRow
    BY ConstantsAssumption DEF NoResult, ResultRow, Statuses
  <1>3. RowsTyped
    BY EmptySeq DEF Init, RowsTyped
  <1> QED
    BY <1>1, <1>2, <1>3, IdleTyped, ConstantsAssumption DEF Init, Types, ResTyped

\* A copy of v is added, closed or started.
LEMMA RowTyped ==
    ASSUME RowsTyped, NEW v \in Volunteers,
           \/ NewCopy(v)
           \/ rows[v] # <<>> /\ \E o \in Outcomes : CloseCopy(v, o)
           \/ rows[v] # <<>> /\ rows' = [rows EXCEPT ![v] = Started(@)]
    PROVE  RowsTyped'
  <1> DEFINE r == [outcome |-> "LIVE", started |-> FALSE]
  <1>1. r \in CopyRow
    BY DEF CopyRow, Outcomes
  <1>2. CASE NewCopy(v)
    <2>1. rows' = [rows EXCEPT ![v] = Append(rows[v], r)]
      BY <1>2 DEF NewCopy
    <2> HIDE DEF r
    <2>2. Append(rows[v], r) \in Seq(CopyRow)
      BY <1>1, AppendProperties DEF RowsTyped
    <2> QED
      BY <2>1, <2>2 DEF RowsTyped
  <1>3. CASE rows[v] # <<>> /\ \E o \in Outcomes : CloseCopy(v, o)
    BY <1>3, CopiesTyped DEF RowsTyped, CloseCopy
  <1>4. CASE rows[v] # <<>> /\ rows' = [rows EXCEPT ![v] = Started(@)]
    BY <1>4, CopiesTyped DEF RowsTyped
  <1> QED
    BY <1>2, <1>3, <1>4

\* The steps of volunteers, except those of a handler that calls Evaluate.
LEMMA VolunteerTyped ==
    ASSUME Types, NEW v \in Volunteers, Volunteer(v)
    PROVE  Types'
  <1> USE DEF Types
  <1>1. CASE FlushSelect(v)
    BY <1>1, SpendTyped DEF FlushSelect, Events, RowsTyped, ResTyped
  <1>2. CASE FlushInsert(v)
    <2>1. RowsTyped'
      BY <1>2, RowTyped DEF FlushInsert, RowsTyped
    <2> QED
      BY <1>2, <2>1 DEF FlushInsert, ResTyped
  <1>0. CASE MarkSpotCheck(v)
    <2>1. unit' \in UnitRows
      BY <1>0 DEF MarkSpotCheck, UnitRows
    <2> QED
      BY <1>0, <2>1, SpendTyped DEF MarkSpotCheck, Events, RowsTyped, ResTyped
  <1>9. CASE ReserveCopy(v)
    <2>1. RowsTyped'
      BY <1>9, RowTyped DEF ReserveCopy, RowsTyped
    <2> QED
      BY <1>9, <2>1 DEF ReserveCopy, ResTyped
  <1>3. ASSUME NEW spot \in BOOLEAN, ReserveNextAssignable(v, spot) PROVE Types'
    <2>1. RowsTyped'
      BY <1>3, RowTyped DEF ReserveNextAssignable
    <2>2. unit' \in UnitRows
      BY <1>3 DEF ReserveNextAssignable, UnitRows
    <2> QED
      BY <1>3, <2>1, <2>2 DEF ReserveNextAssignable, ResTyped
  <1>4. CASE StartWork(v)
    <2>1. RowsTyped'
      BY <1>4, RowTyped DEF StartWork, Live
    <2> QED
      BY <1>4, <2>1 DEF StartWork, ResTyped
  <1>5. CASE SubmitTooLate(v)
    <2>1. RowsTyped'
      BY <1>5, RowTyped DEF SubmitTooLate, Live, Outcomes
    <2> QED
      BY <1>5, <2>1 DEF SubmitTooLate, ResTyped
  <1>6. CASE ReleaseStaleHeldCopy(v)
    <2>1. RowsTyped'
      BY <1>6, RowTyped DEF ReleaseStaleHeldCopy, Live, Outcomes
    <2> QED
      BY <1>6, <2>1, SpendTyped DEF ReleaseStaleHeldCopy, ResTyped, Events
  <1>7. CASE FailHeld(v)
    <2>1. ResTyped'
      BY <1>7 DEF FailHeld, ResTyped, ResultRow, Statuses
    <2> QED
      BY <1>7, <2>1 DEF FailHeld, RowsTyped
  <1>8. ASSUME NEW st \in Standings, SetStanding(v, st) PROVE Types'
    BY <1>8, SpendTyped DEF SetStanding, RowsTyped, ResTyped, Events
  <1> QED
    BY <1>0, <1>9, <1>1, <1>2, <1>3, <1>4, <1>5, <1>6, <1>7, <1>8 DEF Volunteer

\* The handlers that go on to call Evaluate.
LEMMA HandlerTyped ==
    ASSUME Types, NEW v \in Volunteers, NEW t \in Threads, Handler(v, t)
    PROVE  Types'
  <1> USE DEF Types
  <1>1. ASSUME NEW o \in Outputs, NEW ver \in Versions, NEW held \in Holds,
               SubmitResult(v, o, ver, held, t)
        PROVE  Types'
    <2>1. RowsTyped'
      BY <1>1, RowTyped DEF SubmitResult, Outcomes
    <2>2. ResTyped'
      BY <1>1 DEF SubmitResult, ResTyped, ResultRow, Statuses
    <2>3. unit' \in UnitRows
      BY <1>1, StateTyped DEF SubmitResult, States
    <2>4. ev' \in [Threads -> ThreadStates] /\ lock' \in Threads \cup {"none"}
      BY <1>1, ControlTyped DEF SubmitResult
    <2> QED
      BY <1>1, <2>1, <2>2, <2>3, <2>4 DEF SubmitResult
  <1>2. ASSUME NEW giveback \in BOOLEAN, AbandonWorkUnit(v, giveback, t) PROVE Types'
    <2>1. RowsTyped'
      BY <1>2, RowTyped DEF AbandonWorkUnit, Live, Outcomes
    <2>2. ev' \in [Threads -> ThreadStates] /\ lock' \in Threads \cup {"none"}
      BY <1>2, ControlTyped DEF AbandonWorkUnit
    <2> QED
      BY <1>2, <2>1, <2>2 DEF AbandonWorkUnit, ResTyped
  <1>3. ASSUME NEW outcome \in {"EXPIRED", "ABANDONED"}, ExpireCopy(v, outcome, t) PROVE Types'
    <2>1. RowsTyped'
      BY <1>3, RowTyped DEF ExpireCopy, Live, Outcomes
    <2>2. ev' \in [Threads -> ThreadStates] /\ lock' \in Threads \cup {"none"}
      BY <1>3, ControlTyped DEF ExpireCopy
    <2> QED
      BY <1>3, <2>1, <2>2 DEF ExpireCopy, ResTyped
  <1>4. ASSUME NEW served \in Outputs, PromoteHeld(v, served, t) PROVE Types'
    <2>1. ResTyped'
      BY <1>4 DEF PromoteHeld, ResTyped, ResultRow, Statuses
    <2>2. ev' \in [Threads -> ThreadStates] /\ lock' \in Threads \cup {"none"}
      BY <1>4, ControlTyped DEF PromoteHeld
    <2> QED
      BY <1>4, <2>1, <2>2 DEF PromoteHeld, RowsTyped
  <1> QED
    BY <1>1, <1>2, <1>3, <1>4 DEF Handler

\* A step that leaves the tables alone is well typed if its thread is.
LEMMA ReadOnlyTyped ==
    ASSUME Types, ReadOnly,
           ev' \in [Threads -> ThreadStates], lock' \in Threads \cup {"none"}
    PROVE  Types'
  BY DEF Types, ReadOnly, RowsTyped, ResTyped

\* The background jobs, the lock and the operator's requeue.
LEMMA BackgroundTyped ==
    ASSUME Types, NEW t \in Threads,
           Background(t) \/ WithUnitLock(t) \/ Requeue(t) \/ Crash(t)
    PROVE  Types'
  <1> USE DEF Types
  <1>1. CASE ClearSpotCheck(t)
    <2>1. unit' \in UnitRows
      BY <1>1 DEF ClearSpotCheck, UnitRows
    <2>2. ev' \in [Threads -> ThreadStates] /\ lock' \in Threads \cup {"none"}
      BY <1>1, ControlTyped DEF ClearSpotCheck
    <2> QED
      BY <1>1, <2>1, <2>2 DEF ClearSpotCheck, RowsTyped, ResTyped
  <1>2. CASE RecoverySweep(t)
    <2>1. ev' \in [Threads -> ThreadStates] /\ lock' \in Threads \cup {"none"}
      BY <1>2, ControlTyped DEF RecoverySweep
    <2> QED
      BY <1>2, <2>1, ReadOnlyTyped DEF RecoverySweep, ReadOnly
  <1>3. CASE RequeueRead(t)
    <2>1. ev' \in [Threads -> ThreadStates]
      BY <1>3, FieldsTyped DEF RequeueRead, PCs
    <2> QED
      BY <1>3, <2>1, SpendTyped DEF RequeueRead, RowsTyped, ResTyped, Events
  <1>4. CASE EnforceRoot(t)
    <2>1. ev' \in [Threads -> ThreadStates]
      BY <1>4 DEF EnforceRoot, ThreadStates, PCs
    <2> QED
      BY <1>4, <2>1 DEF EnforceRoot, RowsTyped, ResTyped
  <1>5. CASE WithUnitLock(t)
    <2>1. ev' \in [Threads -> ThreadStates]
      BY <1>5, FieldsTyped DEF WithUnitLock, PCs
    <2> QED
      BY <1>5, <2>1, ReadOnlyTyped DEF WithUnitLock
  <1>6. CASE RequeueAbandon(t)
    <2>1. RowsTyped'
      BY <1>6, ExpireTyped DEF RequeueAbandon, Outcomes
    <2>2. [ev[t] EXCEPT !.pc = "rq_reassign"] \in ThreadStates
      BY DEF ThreadStates, PCs
    <2>3. ev' \in [Threads -> ThreadStates]
      BY <1>6, <2>2, IdleTyped DEF RequeueAbandon
    <2> QED
      BY <1>6, <2>1, <2>3 DEF RequeueAbandon, ResTyped
  <1>7. CASE RequeueReassign(t)
    <2>1. unit' \in UnitRows
      BY <1>7, StateTyped DEF RequeueReassign, Reassign, States
    <2>2. ev' \in [Threads -> ThreadStates]
      BY <1>7, IdleTyped DEF RequeueReassign
    <2> QED
      BY <1>7, <2>1, <2>2 DEF RequeueReassign, RowsTyped, ResTyped
  <1>8. CASE Crash(t)
    <2>1. ev' \in [Threads -> ThreadStates] /\ lock' \in Threads \cup {"none"}
      BY <1>8, ControlTyped DEF Crash
    <2> QED
      BY <1>8, <2>1, SpendTyped DEF Crash, RowsTyped, ResTyped, Events
  <1> QED
    BY <1>1, <1>2, <1>3, <1>4, <1>5, <1>6, <1>7, <1>8 DEF Background, Requeue

\* A result row whose status moves stays one.
LEMMA StatusTyped ==
    ASSUME ResTyped, NEW v \in Volunteers, NEW st \in Statuses
    PROVE  res[v] \in ResultRow /\ [res[v] EXCEPT !.status = st] \in ResultRow
  BY DEF ResTyped, ResultRow

\* ... for each status an adjudication or a disposal writes.
LEMMA StatusesTyped ==
    ASSUME ResTyped
    PROVE  \A v \in Volunteers : /\ res[v] \in ResultRow
                                  /\ [res[v] EXCEPT !.status = "PENDING"] \in ResultRow
                                  /\ [res[v] EXCEPT !.status = "AGREED"] \in ResultRow
                                  /\ [res[v] EXCEPT !.status = "DISAGREED"] \in ResultRow
                                  /\ [res[v] EXCEPT !.status = "SUPERSEDED"] \in ResultRow
  <1>1. {"PENDING", "AGREED", "DISAGREED", "SUPERSEDED"} \subseteq Statuses
    BY DEF Statuses
  <1> QED
    BY <1>1, StatusTyped

\* The transitioner.
LEMMA EvaluateTyped ==
    ASSUME Types, NEW t \in Threads, Evaluate(t)
    PROVE  Types'
  <1> USE DEF Types
  <1>1. CASE EvUnit(t)
    <2>1. ev' \in [Threads -> ThreadStates] /\ lock' \in Threads \cup {"none"}
      <3>1. CASE Finish(t)
        BY <3>1, ControlTyped
      <3>2. CASE ev' = [ev EXCEPT ![t].pc = "results", ![t].unit = unit] /\ UNCHANGED lock
        BY <3>2, FieldsTyped DEF PCs
      <3> QED
        BY <1>1, <3>1, <3>2 DEF EvUnit
    <2> QED
      BY <1>1, <2>1, ReadOnlyTyped DEF EvUnit
  <1>2. CASE EvResults(t)
    <2>1. Pending \subseteq Volunteers
      BY DEF Pending, WithStatus
    <2>2. ev' \in [Threads -> ThreadStates]
      BY <1>2, <2>1, FieldsTyped DEF EvResults, PCs
    <2> QED
      BY <1>2, <2>2, ReadOnlyTyped DEF EvResults
  <1>3. CASE EvLive(t)
    <2>1. Cardinality(LiveCopies) \in Nat
      BY Counting DEF LiveCopies
    <2>2. ev' = [ev EXCEPT ![t].pc = "decide", ![t].live = Cardinality(LiveCopies)]
      BY <1>3 DEF EvLive
    <2>3. "decide" \in PCs
      BY DEF PCs
    <2> DEFINE n == Cardinality(LiveCopies)
    <2> HIDE DEF n
    <2>4. [ev EXCEPT ![t].pc = "decide", ![t].live = n] \in [Threads -> ThreadStates]
      BY <2>1, <2>3, FieldsTyped DEF n
    <2> QED
      BY <1>3, <2>2, <2>4, ReadOnlyTyped DEF EvLive, n
  <1>4. CASE EvDecide(t)
    <2>1. PICK d : /\ d = Decide(Snapshot(ev[t]))
                   /\ \/ Finish(t)
                      \/ \E next \in {"deadletter", "reopen", "mark"} :
                           /\ ev' = [ev EXCEPT ![t] = [@ EXCEPT !.pc = next, !.action = d.action,
                                                                !.live = 0]]
                           /\ UNCHANGED lock
      BY <1>4 DEF EvDecide
    <2>2. d.action \in {"WAIT", "VALIDATE", "REJECT", "DEADLETTER"}
      BY <2>1, DecisionTyped
    <2>3. ASSUME NEW next \in {"deadletter", "reopen", "mark"}
          PROVE  [ev[t] EXCEPT !.pc = next, !.action = d.action, !.live = 0] \in ThreadStates
      <3>1. ev[t] \in ThreadStates /\ next \in PCs
        BY DEF PCs
      <3> DEFINE a == d.action
      <3>2. a \in {"WAIT", "VALIDATE", "REJECT", "DEADLETTER"}
        BY <2>2
      <3> HIDE DEF a
      <3>3. [ev[t] EXCEPT !.pc = next, !.action = a, !.live = 0] \in ThreadStates
        BY <3>1, <3>2 DEF ThreadStates
      <3> QED BY <3>3 DEF a
    <2>4. ev' \in [Threads -> ThreadStates] /\ lock' \in Threads \cup {"none"}
      BY <2>1, <2>3, ControlTyped
    <2> QED
      BY <1>4, <2>4, ReadOnlyTyped DEF EvDecide
  <1>5. CASE EvMark(t)
    <2>1. unit' \in UnitRows
      BY <1>5, StateTyped DEF EvMark, States
    <2>2. ev' \in [Threads -> ThreadStates] /\ lock' \in Threads \cup {"none"}
      BY <1>5, ControlTyped DEF EvMark, PCs
    <2> QED
      BY <1>5, <2>1, <2>2 DEF EvMark, RowsTyped, ResTyped
  <1>6. CASE EvRollback(t)
    <2>1. [Idle EXCEPT !.pc = "unit", !.retried = TRUE] \in ThreadStates
      BY IdleTyped DEF ThreadStates, PCs
    <2>2. ev' \in [Threads -> ThreadStates] /\ lock' \in Threads \cup {"none"}
      BY <1>6, <2>1, ControlTyped DEF EvRollback
    <2> QED
      BY <1>6, <2>2, ReadOnlyTyped DEF EvRollback
  <1>8. ASSUME NEW granted \in SUBSET Volunteers, EvAccept(t, granted) PROVE Types'
    <2>1. ResTyped'
      BY <1>8, StatusesTyped DEF EvAccept, Adjudicated, ResTyped
    <2>2. unit' \in UnitRows
      BY <1>8, StateTyped DEF EvAccept, States
    <2>3. [Idle EXCEPT !.pc = "supersede"] \in ThreadStates
      BY IdleTyped DEF ThreadStates, PCs
    <2>4. ev' \in [Threads -> ThreadStates]
      BY <1>8, <2>3 DEF EvAccept
    <2> QED
      BY <1>8, <2>1, <2>2, <2>4 DEF EvAccept, RowsTyped
  <1>9. CASE EvSupersede(t)
    <2>1. RowsTyped'
      BY <1>9, ExpireTyped DEF EvSupersede, Outcomes
    <2>2. ev' \in [Threads -> ThreadStates] /\ lock' \in Threads \cup {"none"}
      BY <1>9, ControlTyped DEF EvSupersede
    <2> QED
      BY <1>9, <2>1, <2>2 DEF EvSupersede, ResTyped
  <1>10. CASE EvReject(t)
    <2>1. ResTyped'
      BY <1>10, StatusesTyped DEF EvReject, ResTyped
    <2>2. unit' \in UnitRows
      BY <1>10, StateTyped DEF EvReject, States
    <2>3. ev' \in [Threads -> ThreadStates] /\ lock' \in Threads \cup {"none"}
      BY <1>10, ControlTyped DEF EvReject
    <2> QED
      BY <1>10, <2>1, <2>2, <2>3 DEF EvReject, RowsTyped
  <1>11. CASE EvDeadLetter(t)
    <2>1. ResTyped'
      BY <1>11, StatusesTyped DEF EvDeadLetter, ResTyped
    <2>2. unit' \in UnitRows
      BY <1>11, StateTyped DEF EvDeadLetter, States
    <2>3. ev' \in [Threads -> ThreadStates] /\ lock' \in Threads \cup {"none"}
      BY <1>11, ControlTyped DEF EvDeadLetter
    <2> QED
      BY <1>11, <2>1, <2>2, <2>3 DEF EvDeadLetter, RowsTyped
  <1>12. CASE EvReopen(t)
    <2>1. unit' \in UnitRows
      BY <1>12, StateTyped DEF EvReopen, States
    <2>2. ev' \in [Threads -> ThreadStates] /\ lock' \in Threads \cup {"none"}
      BY <1>12, ControlTyped DEF EvReopen
    <2> QED
      BY <1>12, <2>1, <2>2 DEF EvReopen, RowsTyped, ResTyped
  <1> QED
    BY <1>1, <1>2, <1>3, <1>4, <1>5, <1>6, <1>8, <1>9, <1>10, <1>11, <1>12 DEF Evaluate

\* Audit enforcement.
LEMMA EnforceTyped ==
    ASSUME Types, NEW t \in Threads, Enforce(t)
    PROVE  Types'
  <1> USE DEF Types
  <1>0. \A st \in Statuses : WithStatus(st) \subseteq Volunteers
    BY DEF WithStatus
  <1>1. CASE LoadFraudSet(t)
    <2>1. ev' \in [Threads -> ThreadStates]
      BY <1>0, <1>1, FieldsTyped DEF LoadFraudSet, PCs, Statuses
    <2> QED
      BY <1>1, <2>1, ReadOnlyTyped DEF LoadFraudSet
  <1>2. CASE Sanction(t)
    <2>1. ev' \in [Threads -> ThreadStates] /\ lock' \in Threads \cup {"none"}
      BY <1>2, ControlTyped DEF Sanction, PCs
    <2>2. ev[t].pend \subseteq Volunteers
      BY DEF ThreadStates
    <2> QED
      BY <1>2, <2>1, <2>2 DEF Sanction, RowsTyped, ResTyped
  <1>3. CASE FlipToDisagreed(t)
    <2>1. ResTyped'
      BY <1>3, StatusesTyped DEF FlipToDisagreed, ResTyped
    <2>2. ev' \in [Threads -> ThreadStates]
      BY <1>3, FieldsTyped DEF FlipToDisagreed, PCs
    <2> QED
      BY <1>3, <2>1, <2>2 DEF FlipToDisagreed, RowsTyped
  <1>4. ASSUME NEW v \in Volunteers, RepairFlip(t, v) PROVE Types'
    <2>1. ResTyped'
      BY <1>4 DEF RepairFlip, ResTyped, ResultRow, Statuses
    <2>2. ev' \in [Threads -> ThreadStates]
      <3>1. {v} \in SUBSET Volunteers /\ "grant" \in PCs
        BY DEF PCs
      <3>2. ev' = [ev EXCEPT ![t].pc = "grant", ![t].pend = {v}]
        BY <1>4 DEF RepairFlip
      <3> QED
        BY <3>1, <3>2, FieldsTyped
    <2> QED
      BY <1>4, <2>1, <2>2 DEF RepairFlip, RowsTyped
  <1>5. ASSUME NEW granted \in SUBSET Volunteers, RepairGrant(t, granted) PROVE Types'
    <2>1. ev' \in [Threads -> ThreadStates]
      BY <1>5, FieldsTyped DEF RepairGrant, PCs
    <2> QED
      BY <1>5, <2>1 DEF RepairGrant, RowsTyped, ResTyped
  <1>6. CASE RepairDone(t)
    <2>1. ev' \in [Threads -> ThreadStates] /\ lock' \in Threads \cup {"none"}
      BY <1>6, ControlTyped DEF RepairDone, PCs
    <2> QED
      BY <1>6, <2>1, ReadOnlyTyped DEF RepairDone
  <1>7. CASE DemoteLoad(t)
    <2>1. \/ Finish(t)
          \/ \E pc \in PCs : ev' = [ev EXCEPT ![t].pc = pc, ![t].unit = unit] /\ UNCHANGED lock
      BY <1>7 DEF DemoteLoad, PCs
    <2>2. ev' \in [Threads -> ThreadStates] /\ lock' \in Threads \cup {"none"}
      <3>1. CASE Finish(t)
        BY <3>1, ControlTyped
      <3>2. ASSUME NEW pc \in PCs, ev' = [ev EXCEPT ![t].pc = pc, ![t].unit = unit], UNCHANGED lock
            PROVE  ev' \in [Threads -> ThreadStates] /\ lock' \in Threads \cup {"none"}
        BY <3>2, FieldsTyped
      <3> QED
        BY <2>1, <3>1, <3>2
    <2> QED
      BY <1>7, <2>2, ReadOnlyTyped DEF DemoteLoad
  <1>8. CASE DemoteAbandon(t)
    <2>1. RowsTyped'
      BY <1>8, ExpireTyped DEF DemoteAbandon, Outcomes
    <2>2. ev' \in [Threads -> ThreadStates] /\ lock' \in Threads \cup {"none"}
      BY <1>8, ControlTyped DEF DemoteAbandon, PCs
    <2> QED
      BY <1>8, <2>1, <2>2 DEF DemoteAbandon, ResTyped
  <1>9. CASE DemoteUnit(t)
    <2>1. unit' \in UnitRows
      BY <1>9, StateTyped DEF DemoteUnit, States
    <2>2. ev' \in [Threads -> ThreadStates] /\ lock' \in Threads \cup {"none"}
      BY <1>9, ControlTyped DEF DemoteUnit, PCs
    <2> QED
      BY <1>9, <2>1, <2>2 DEF DemoteUnit, RowsTyped, ResTyped
  <1>10. CASE RefundCopyBudget(t)
    <2>1. ev[t].unit \in UnitRows
      BY DEF ThreadStates
    <2>2. unit' \in UnitRows
      <3>1. BudgetCopies \in Nat /\ ErrorCopies \in Nat
        BY CopyCounts
      <3>2. Refunded(unit, ev[t].unit, BudgetCopies, ErrorCopies) \in UnitRows
        BY <2>1, <3>1, RefundTyped
      <3> QED
        BY <1>10, <3>2 DEF RefundCopyBudget
    <2>3. ev' \in [Threads -> ThreadStates] /\ lock' \in Threads \cup {"none"}
      BY <1>10, ControlTyped DEF RefundCopyBudget, PCs
    <2> QED
      BY <1>10, <2>2, <2>3 DEF RefundCopyBudget, RowsTyped, ResTyped
  <1>11. CASE DemoteRequeue(t)
    <2>1. unit' \in UnitRows
      BY <1>11, StateTyped DEF DemoteRequeue, Reassign, States
    <2>2. ev' \in [Threads -> ThreadStates] /\ lock' \in Threads \cup {"none"}
      BY <1>11, ControlTyped DEF DemoteRequeue, PCs
    <2> QED
      BY <1>11, <2>1, <2>2 DEF DemoteRequeue, RowsTyped, ResTyped
  <1>12. CASE CloseRoot(t)
    <2>1. ev' \in [Threads -> ThreadStates] /\ lock' \in Threads \cup {"none"}
      BY <1>12, ControlTyped DEF CloseRoot
    <2> QED
      BY <1>12, <2>1 DEF CloseRoot, RowsTyped, ResTyped
  <1> QED
    BY <1>1, <1>2, <1>3, <1>4, <1>5, <1>6, <1>7, <1>8, <1>9, <1>10, <1>11, <1>12 DEF Enforce

\* The operator's revival of a dead-lettered unit.
LEMMA ReviveTyped ==
    ASSUME Types, NEW S \in SUBSET Volunteers, NEW refund \in BOOLEAN,
           ReviveDeadLettered(S, refund)
    PROVE  Types'
  <1> USE DEF Types
  <1>1. RowsTyped'
    <2>1. \A r \in CopyRow : Rejudged(r) \in CopyRow
      BY DEF Rejudged, CopyRow, Outcomes
    <2>2. ASSUME NEW v \in Volunteers
          PROVE  [i \in 1..Len(rows[v]) |-> Rejudged(rows[v][i])] \in Seq(CopyRow)
      <3>1. rows[v] \in Seq(CopyRow) /\ Len(rows[v]) \in Nat
        BY LenProperties DEF RowsTyped
      <3>2. \A i \in 1..Len(rows[v]) : Rejudged(rows[v][i]) \in CopyRow
        BY <2>1, <3>1, ElementOfSeq
      <3>3. [i \in 1..Len(rows[v]) |-> Rejudged(rows[v][i])] \in [1..Len(rows[v]) -> CopyRow]
        BY <3>2
      <3> QED
        BY <3>1, <3>3, SeqDef
    <2> QED
      BY <2>2 DEF ReviveDeadLettered, RowsTyped
  <1>2. ResTyped'
    BY StatusesTyped DEF ReviveDeadLettered, ResTyped
  <1>3. BudgetCopies' \in Nat /\ ErrorCopies' \in Nat
    <2>1. (RowsTyped => BudgetCopies \in Nat /\ ErrorCopies \in Nat)'
      BY CopyCounts, PTL
    <2> QED
      BY <1>1, <2>1
  <1>4. unit' \in UnitRows
    <2> DEFINE u == IF refund THEN Refunded(unit, unit, BudgetCopies', ErrorCopies') ELSE unit
    <2>1. u \in UnitRows
      BY <1>3, RefundTyped
    <2>2. unit' = [u EXCEPT !.state = "QUEUED"]
      BY DEF ReviveDeadLettered
    <2> HIDE DEF u
    <2> QED
      BY <2>1, <2>2 DEF UnitRows, States
  <1> QED
    BY <1>1, <1>2, <1>4, SpendTyped DEF ReviveDeadLettered, Events

\* Every step keeps every variable in its type.
LEMMA TypesStep == Types /\ [Next]_vars => Types'
  <1> SUFFICES ASSUME Types, [Next]_vars PROVE Types'
    OBVIOUS
  <1>1. CASE ConfirmMismatch
    BY <1>1, SpendTyped DEF ConfirmMismatch, Types, RowsTyped, ResTyped, Events
  <1>2. CASE UNCHANGED vars
    BY <1>2 DEF vars, Types, RowsTyped, ResTyped
  <1> QED
    BY <1>1, <1>2, VolunteerTyped, HandlerTyped, BackgroundTyped, EvaluateTyped,
       EnforceTyped, ReviveTyped DEF Next

\* The tables and the goroutines keep their shape, with or without the lock.
THEOREM TypeCorrect == Spec => []TypeOK
  BY TypesAre, TypesInit, TypesStep, PTL DEF Spec

-----------------------------------------------------------------------------
(* Safety under the advisory lock.                                         *)

\* What a step of another thread may not take away from u.
Good(u) ==
    /\ ev[u].pc \notin Unlocked => lock = u
    /\ ev[u].pc \in {"live", "decide", "mark", "accept", "reject"} => ev[u].pend \subseteq Pending
    /\ ev[u].pc \in {"slash", "flip", "grant"} => ev[u].pend \subseteq WithStatus("AGREED")
    /\ ev[u].pc = "flip" => ev[u].pend \subseteq sanctioned

\* Good is the three thread invariants, thread by thread.
LEMMA GoodThreads == LockInv /\ SnapInv /\ FraudInv <=> \A u \in Threads : Good(u)
  BY DEF LockInv, SnapInv, FraudInv, Good

\* No vote and no win is withdrawn by this step.
ResKeeps ==
    \A v \in Volunteers :
      /\ res[v].status = "PENDING" => res'[v].status = "PENDING"
      /\ res[v].status = "AGREED" => res'[v].status = "AGREED"

\* A step of nobody, or of t alone, leaves the other threads good: it
\* withdraws no result, or t holds the lock and no other thread has a snapshot.
LEMMA OthersGood ==
    ASSUME NEW t \in Threads, NEW u \in Threads, u # t, Good(t), Good(u),
           ev'[u] = ev[u], lock = u => lock' = u, sanctioned \subseteq sanctioned',
           ResKeeps \/ ev[t].pc \notin Unlocked
    PROVE  Good(u)'
  <1>1. CASE ResKeeps
    BY <1>1 DEF ResKeeps, Good, Pending, WithStatus
  <1>2. CASE ev[t].pc \notin Unlocked
    BY <1>2 DEF Good, Unlocked
  <1> QED
    BY <1>1, <1>2

\* A step that moves no thread, withdraws no vote and no win.
LEMMA SameGood ==
    ASSUME NEW u \in Threads, Good(u), UNCHANGED <<ev, lock, sanctioned>>, ResKeeps
    PROVE  Good(u)'
  BY DEF ResKeeps, Good, Pending, WithStatus

\* Credit stays backed when no win is withdrawn and nobody is paid.
LEMMA CreditKept ==
    ASSUME Types, CreditBacked, ResKeeps, credited' = credited, sanctioned \subseteq sanctioned'
    PROVE  CreditBacked'
  BY DEF Types, CreditBacked, ResKeeps

\* A unit that is not final has no obligation; one that stays final must get
\* no new vote.
LEMMA NoNewPending ==
    ASSUME NoPendingUnderTerminal,
           ~IsTerminalState(unit'.state) \/ (unit'.state = unit.state /\ Pending' \subseteq Pending)
    PROVE  NoPendingUnderTerminal'
  BY DEF NoPendingUnderTerminal

\* A step outside the threads.
LEMMA OutsideSafe ==
    ASSUME Types, Safe, UNCHANGED <<ev, lock, credited, sanctioned>>, ResKeeps,
           ~IsTerminalState(unit'.state) \/ (unit'.state = unit.state /\ Pending' \subseteq Pending)
    PROVE  Safe'
  <1>1. \A u \in Threads : Good(u)'
    BY SameGood, GoodThreads DEF Safe
  <1>2. (LockInv /\ SnapInv /\ FraudInv)'
    BY <1>1 DEF LockInv, SnapInv, FraudInv, Good
  <1>3. CreditBacked' /\ NoPendingUnderTerminal'
    BY CreditKept, NoNewPending DEF Safe
  <1> QED
    BY <1>2, <1>3 DEF Safe

\* A step of thread t, given what is particular to it.
LEMMA ThreadSafe ==
    ASSUME Types, Safe, NEW t \in Threads,
           \A u \in Threads \ {t} : ev'[u] = ev[u] /\ (lock = u => lock' = u),
           sanctioned \subseteq sanctioned',
           ResKeeps \/ ev[t].pc \notin Unlocked,
           Good(t)', NoPendingUnderTerminal', CreditBacked'
    PROVE  Safe'
  <1>1. \A u \in Threads : Good(u)
    BY GoodThreads DEF Safe
  <1>2. \A u \in Threads : Good(u)'
    BY <1>1, OthersGood
  <1>3. (LockInv /\ SnapInv /\ FraudInv)'
    BY <1>2 DEF LockInv, SnapInv, FraudInv, Good
  <1> QED
    BY <1>3 DEF Safe

\* A fresh unit is safe.
LEMMA SafeInit == Init => Safe
  BY DEF Init, Safe, LockInv, SnapInv, FraudInv, NoPendingUnderTerminal, CreditBacked, Idle,
         Unlocked, InitUnit, IsTerminalState

\* Dispatch, run-start, a late submit, a released or failed copy.
LEMMA VolunteerSafe ==
    ASSUME Types, Safe, NEW v \in Volunteers, Volunteer(v)
    PROVE  Safe'
  <1>1. CASE FlushSelect(v) \/ FlushInsert(v) \/ ReserveCopy(v) \/ StartWork(v) \/ SubmitTooLate(v)
              \/ ReleaseStaleHeldCopy(v) \/ (\E st \in Standings : SetStanding(v, st))
    <2>1. UNCHANGED <<unit, res, ev, lock, credited, sanctioned>>
      BY <1>1 DEF FlushSelect, FlushInsert, ReserveCopy, StartWork, SubmitTooLate, ReleaseStaleHeldCopy,
                  SetStanding
    <2> QED
      BY <2>1, OutsideSafe DEF ResKeeps, Pending, WithStatus
  <1>2. CASE MarkSpotCheck(v) \/ \E spot \in BOOLEAN : ReserveNextAssignable(v, spot)
    <2>1. UNCHANGED <<res, ev, lock, credited, sanctioned>> /\ unit'.state = unit.state
      BY <1>2 DEF MarkSpotCheck, ReserveNextAssignable, Types, UnitRows
    <2> QED
      BY <2>1, OutsideSafe DEF ResKeeps, Pending, WithStatus
  <1>3. CASE FailHeld(v)
    <2>1. UNCHANGED <<unit, ev, lock, credited, sanctioned>> /\ ResKeeps /\ Pending' \subseteq Pending
      BY <1>3 DEF FailHeld, ResKeeps, Pending, WithStatus, Types, ResTyped, ResultRow
    <2> QED
      BY <2>1, OutsideSafe
  <1> QED
    BY <1>1, <1>2, <1>3 DEF Volunteer

\* The revived votes belong to a unit that is open again.
LEMMA ReviveSafe ==
    ASSUME Types, Safe, NEW S \in SUBSET Volunteers, NEW refund \in BOOLEAN,
           ReviveDeadLettered(S, refund)
    PROVE  Safe'
  <1>1. UNCHANGED <<ev, lock, credited, sanctioned>>
    BY DEF ReviveDeadLettered
  <1>2. ResKeeps
    BY DEF ReviveDeadLettered, ResKeeps, Types, ResTyped, ResultRow
  <1>3. unit' \in UnitRows
    BY ReviveTyped DEF Types
  <1>4. unit'.state = "QUEUED"
    <2> DEFINE u == IF refund THEN Refunded(unit, unit, BudgetCopies', ErrorCopies') ELSE unit
    <2>1. unit' = [u EXCEPT !.state = "QUEUED"]
      BY DEF ReviveDeadLettered
    <2> HIDE DEF u
    <2> QED
      BY <1>3, <2>1 DEF UnitRows
  <1> QED
    BY <1>1, <1>2, <1>4, OutsideSafe DEF IsTerminalState

\* A step of t that leaves results and credit alone and does not finalize the
\* unit: only t's own counter, snapshot and lock are left to look at.
LEMMA QuietSafe ==
    ASSUME Types, Safe, NEW t \in Threads,
           \A u \in Threads \ {t} : ev'[u] = ev[u] /\ (lock = u => lock' = u),
           UNCHANGED <<res, credited>>, sanctioned \subseteq sanctioned',
           unit'.state = unit.state \/ ~IsTerminalState(unit'.state),
           Good(t)'
    PROVE  Safe'
  <1>1. ResKeeps /\ Pending' = Pending
    BY DEF ResKeeps, Pending, WithStatus
  <1>2. CreditBacked' /\ NoPendingUnderTerminal'
    BY <1>1, CreditKept, NoNewPending DEF Safe
  <1> QED
    BY <1>1, <1>2, ThreadSafe

\* A thread that calls Evaluate, or that ends, keeps its promises trivially.
LEMMA ControlGood ==
    ASSUME Types, Safe, NEW t \in Threads,
           Finish(t) \/ (Trigger(t) /\ UNCHANGED lock)
    PROVE  /\ \A u \in Threads \ {t} : ev'[u] = ev[u] /\ (lock = u => lock' = u)
           /\ Good(t)'
  <1>1. CASE Finish(t)
    BY <1>1 DEF Finish, Types, Good, Idle, Unlocked
  <1>2. CASE Trigger(t) /\ UNCHANGED lock
    <2>1. ev'[t].pc = "lock" /\ \A u \in Threads \ {t} : ev'[u] = ev[u]
      BY <1>2 DEF Trigger, Types, ThreadStates
    <2> QED
      BY <1>2, <2>1 DEF Good, Unlocked
  <1> QED
    BY <1>1, <1>2

\* A thread that holds the lock and moves to a place where it promises nothing
\* but the lock.
LEMMA GotoGood ==
    ASSUME Types, Safe, NEW t \in Threads, ev[t].pc \notin Unlocked,
           ev' \in [Threads -> ThreadStates],
           \A u \in Threads \ {t} : ev'[u] = ev[u],
           ev'[t].pc \notin {"live", "decide", "mark", "accept", "reject", "slash", "flip", "grant"},
           UNCHANGED lock
    PROVE  /\ \A u \in Threads \ {t} : ev'[u] = ev[u] /\ (lock = u => lock' = u)
           /\ Good(t)'
  BY DEF Safe, LockInv, Good

\* A submitted or promoted result belongs to a unit that is not final.
LEMMA HandlerSafe ==
    ASSUME Types, Safe, NEW v \in Volunteers, NEW t \in Threads, Handler(v, t)
    PROVE  Safe'
  <1>1. ASSUME NEW o \in Outputs, NEW ver \in Versions, NEW held \in Holds,
               SubmitResult(v, o, ver, held, t)
        PROVE  Safe'
    <2>1. ResKeeps /\ UNCHANGED <<credited, sanctioned>>
      BY <1>1 DEF SubmitResult, ResKeeps, Types, ResTyped
    <2>2. ~IsTerminalState(unit'.state)
      BY <1>1 DEF SubmitResult, SetState, IsTerminalState, Types, UnitRows
    <2>3. Trigger(t) /\ UNCHANGED lock
      BY <1>1 DEF SubmitResult
    <2> QED
      BY <2>1, <2>2, <2>3, ControlGood, CreditKept, NoNewPending, ThreadSafe DEF Safe
  <1>2. CASE (\E giveback \in BOOLEAN : AbandonWorkUnit(v, giveback, t))
             \/ (\E outcome \in {"EXPIRED", "ABANDONED"} : ExpireCopy(v, outcome, t))
    <2>1. UNCHANGED <<unit, res, credited, sanctioned, lock>> /\ Trigger(t)
      BY <1>2 DEF AbandonWorkUnit, ExpireCopy
    <2> QED
      BY <2>1, ControlGood, QuietSafe
  <1>3. ASSUME NEW served \in Outputs, PromoteHeld(v, served, t) PROVE Safe'
    <2>1. ResKeeps /\ UNCHANGED <<credited, sanctioned>>
      BY <1>3 DEF PromoteHeld, ResKeeps, Types, ResTyped, ResultRow
    <2>2. ~IsTerminalState(unit'.state) /\ Trigger(t) /\ UNCHANGED lock
      BY <1>3 DEF PromoteHeld
    <2> QED
      BY <2>1, <2>2, ControlGood, CreditKept, NoNewPending, ThreadSafe DEF Safe
  <1> QED
    BY <1>1, <1>2, <1>3 DEF Handler

\* Background jobs; WithUnitLock lets t in only when the lock is free.
LEMMA BackgroundSafe ==
    ASSUME LockHonored, Types, Safe, NEW t \in Threads,
           Background(t) \/ WithUnitLock(t) \/ Requeue(t) \/ Crash(t)
    PROVE  Safe'
  <1>1. CASE ClearSpotCheck(t)
    <2>1. /\ UNCHANGED <<res, credited, sanctioned, lock>> /\ Trigger(t)
          /\ unit'.state = unit.state
      BY <1>1 DEF ClearSpotCheck, Types, UnitRows
    <2> QED
      BY <2>1, ControlGood, QuietSafe
  <1>2. CASE RecoverySweep(t)
    <2>1. UNCHANGED <<unit, res, credited, sanctioned, lock>> /\ Trigger(t)
      BY <1>2 DEF RecoverySweep
    <2> QED
      BY <2>1, ControlGood, QuietSafe
  <1>3. CASE RequeueRead(t)
    <2>1. /\ UNCHANGED <<unit, res, credited, sanctioned, lock>>
          /\ ev' = [ev EXCEPT ![t].pc = "rq_abandon", ![t].unit = unit]
      BY <1>3 DEF RequeueRead
    <2>2. ev'[t].pc = "rq_abandon" /\ \A u \in Threads \ {t} : ev'[u] = ev[u]
      BY <2>1 DEF Types, ThreadStates
    <2> QED
      BY <2>1, <2>2, QuietSafe DEF Good, Unlocked
  <1>4. CASE EnforceRoot(t)
    <2>1. /\ UNCHANGED <<unit, res, credited, sanctioned, lock>>
          /\ ev' = [ev EXCEPT ![t].pc = "lock", ![t].enforcing = TRUE]
      BY <1>4 DEF EnforceRoot
    <2>2. ev'[t].pc = "lock" /\ \A u \in Threads \ {t} : ev'[u] = ev[u]
      BY <2>1 DEF Types, ThreadStates
    <2> QED
      BY <2>1, <2>2, QuietSafe DEF Good, Unlocked
  <1>5. CASE WithUnitLock(t)
    <2>1. /\ UNCHANGED <<unit, res, credited, sanctioned>> /\ lock = "none" /\ lock' = t
      BY <1>5 DEF WithUnitLock, ReadOnly
    <2>2. ev'[t].pc \in {"fraud", "unit"} /\ \A u \in Threads \ {t} : ev'[u] = ev[u]
      BY <1>5 DEF WithUnitLock, Types, ThreadStates
    <2>3. \A u \in Threads : lock # u
      BY <2>1, ThreadsAssumption
    <2> QED
      BY <2>1, <2>2, <2>3, QuietSafe DEF Good
  <1>6. CASE RequeueAbandon(t)
    <2>1. UNCHANGED <<unit, res, credited, sanctioned, lock>>
      BY <1>6 DEF RequeueAbandon
    <2>2. ev'[t].pc \in {"idle", "rq_reassign"} /\ \A u \in Threads \ {t} : ev'[u] = ev[u]
      BY <1>6 DEF RequeueAbandon, Types, ThreadStates, Idle
    <2> QED
      BY <2>1, <2>2, QuietSafe DEF Good, Unlocked
  <1>7. CASE RequeueReassign(t)
    <2>1. /\ UNCHANGED <<res, credited, sanctioned, lock>>
          /\ unit'.state = unit.state \/ ~IsTerminalState(unit'.state)
      BY <1>7 DEF RequeueReassign, Reassign, SetState, Types, UnitRows, IsTerminalState
    <2>2. ev'[t].pc = "idle" /\ \A u \in Threads \ {t} : ev'[u] = ev[u]
      BY <1>7 DEF RequeueReassign, Types, Idle
    <2> QED
      BY <2>1, <2>2, QuietSafe DEF Good, Unlocked
  <1>8. CASE Crash(t)
    <2>1. UNCHANGED <<unit, res, credited, sanctioned>> /\ Finish(t)
      BY <1>8 DEF Crash
    <2> QED
      BY <2>1, ControlGood, QuietSafe
  <1> QED
    BY <1>1, <1>2, <1>3, <1>4, <1>5, <1>6, <1>7, <1>8 DEF Background, Requeue

\* The compared group and the winners come from the snapshot.
LEMMA GroupsInSnapshot ==
    ASSUME NEW P \in SUBSET Volunteers
    PROVE  VersionGroup(P) \subseteq P /\ Majority(VersionGroup(P)) \subseteq VersionGroup(P)
  BY DEF VersionGroup, OfVersion, Majority

\* The recheck of RunFinalization: a snapshot of results that are all still
\* PENDING, and as many as there are now, is the set of PENDING results.
LEMMA FreshSnapshot ==
    ASSUME Types, NEW t \in Threads, ev[t].pend \subseteq Pending, ~StaleSnapshot(t)
    PROVE  ev[t].pend = Pending
  <1>1. Pending \in SUBSET Volunteers
    BY DEF Pending, WithStatus
  <1>2. IsFiniteSet(Pending)
    BY <1>1, Counting
  <1>3. Cardinality(Pending) = Cardinality(ev[t].pend)
    BY DEF StaleSnapshot
  <1> QED
    BY <1>2, <1>3, FS_Subset

\* The accept transaction adjudicates or disposes every PENDING result.
LEMMA AcceptSettles ==
    ASSUME Types, NEW P \in SUBSET Volunteers, P = Pending, res' = Adjudicated(P)
    PROVE  /\ Pending' = {}
           /\ \A v \in Majority(VersionGroup(P)) : res'[v].status = "AGREED"
           /\ \A v \in Volunteers \ P : res'[v] = res[v]
  <1> DEFINE G == VersionGroup(P)
             A == Majority(G)
  <1>1. G \subseteq P /\ A \subseteq G
    BY GroupsInSnapshot
  <1>2. G # P => Cardinality(P) > Cardinality(G)
    <2>1. IsFiniteSet(P) /\ Cardinality(P) \in Nat /\ Cardinality(G) \in Nat
      BY <1>1, Counting
    <2>2. Cardinality(G) <= Cardinality(P) /\ (Cardinality(P) = Cardinality(G) => P = G)
      BY <1>1, <2>1, FS_Subset
    <2> HIDE DEF G
    <2> QED
      BY <2>1, <2>2
  <1> HIDE DEF G, A
  <1>3. res' = [v \in Volunteers |->
                  IF v \in A THEN [res[v] EXCEPT !.status = "AGREED"]
                  ELSE IF v \in G THEN [res[v] EXCEPT !.status = "DISAGREED"]
                  ELSE IF v \in Pending /\ Cardinality(P) > Cardinality(G)
                    THEN [res[v] EXCEPT !.status = "SUPERSEDED"]
                  ELSE res[v]]
    BY DEF Adjudicated, G, A
  <1>4. \A v \in Volunteers : res[v] \in ResultRow
    BY DEF Types, ResTyped
  <1>5. \A v \in A : res'[v].status = "AGREED"
    BY <1>1, <1>3, <1>4 DEF ResultRow
  <1>6. \A v \in G : res'[v].status # "PENDING"
    BY <1>1, <1>3, <1>4 DEF ResultRow
  <1>7. \A v \in P \ G : res'[v].status # "PENDING"
    BY <1>1, <1>2, <1>3, <1>4 DEF ResultRow
  <1>8. \A v \in Volunteers \ P : res'[v] = res[v]
    BY <1>1, <1>3
  <1>9. Pending' = {}
    BY <1>6, <1>7, <1>8 DEF Pending, WithStatus
  <1> QED
    BY <1>5, <1>8, <1>9 DEF A, G

\* The transitioner: what its snapshot says is still so when it commits.
LEMMA EvaluateSafe ==
    ASSUME Types, Safe, NEW t \in Threads, Evaluate(t)
    PROVE  Safe'
  <1>0. Types' /\ Good(t)
    BY EvaluateTyped, GoodThreads DEF Safe
  <1>1. CASE EvUnit(t)
    <2>1. UNCHANGED <<unit, res, credited, sanctioned>> /\ ev[t].pc \notin Unlocked
      BY <1>1 DEF EvUnit, ReadOnly, At, Unlocked
    <2>2. CASE Finish(t)
      BY <2>1, <2>2, ControlGood, QuietSafe
    <2>3. CASE ev' = [ev EXCEPT ![t].pc = "results", ![t].unit = unit] /\ UNCHANGED lock
      <3>1. ev'[t].pc = "results" /\ \A u \in Threads \ {t} : ev'[u] = ev[u]
        BY <2>3 DEF Types, ThreadStates
      <3> QED
        BY <1>0, <2>1, <2>3, <3>1, GotoGood, QuietSafe DEF Types
    <2> QED
      BY <1>1, <2>2, <2>3 DEF EvUnit
  <1>2. CASE EvResults(t)
    <2>1. UNCHANGED <<unit, res, credited, sanctioned, lock>> /\ ev[t].pc \notin Unlocked
      BY <1>2 DEF EvResults, ReadOnly, At, Unlocked
    <2>2. /\ ev'[t].pc = "live" /\ ev'[t].pend = Pending
          /\ \A u \in Threads \ {t} : ev'[u] = ev[u]
      BY <1>2 DEF EvResults, Types, ThreadStates
    <2>3. Good(t)'
      BY <1>0, <2>1, <2>2 DEF Good, Pending, WithStatus
    <2> QED
      BY <2>1, <2>2, <2>3, QuietSafe
  <1>3. CASE EvLive(t)
    <2>1. UNCHANGED <<unit, res, credited, sanctioned, lock>> /\ ev[t].pc = "live"
      BY <1>3 DEF EvLive, ReadOnly, At
    <2>2. /\ ev'[t].pc = "decide" /\ ev'[t].pend = ev[t].pend
          /\ \A u \in Threads \ {t} : ev'[u] = ev[u]
      BY <1>3 DEF EvLive, Types, ThreadStates
    <2>3. Good(t)'
      BY <1>0, <2>1, <2>2 DEF Good, Pending, WithStatus, Unlocked
    <2> QED
      BY <2>1, <2>2, <2>3, QuietSafe
  <1>4. CASE EvDecide(t)
    <2>1. UNCHANGED <<unit, res, credited, sanctioned>> /\ ev[t].pc = "decide"
      BY <1>4 DEF EvDecide, ReadOnly, At
    <2>2. \/ Finish(t)
          \/ \E next \in {"deadletter", "reopen", "mark"} : \E a :
               /\ ev' = [ev EXCEPT ![t] = [@ EXCEPT !.pc = next, !.action = a, !.live = 0]]
               /\ UNCHANGED lock
      BY <1>4 DEF EvDecide
    <2>3. CASE Finish(t)
      BY <2>1, <2>3, ControlGood, QuietSafe
    <2>4. ASSUME NEW next \in {"deadletter", "reopen", "mark"}, NEW a,
                 ev' = [ev EXCEPT ![t] = [@ EXCEPT !.pc = next, !.action = a, !.live = 0]],
                 UNCHANGED lock
          PROVE  Safe'
      <3>1. /\ ev'[t].pc = next /\ ev'[t].pend = ev[t].pend
            /\ \A u \in Threads \ {t} : ev'[u] = ev[u]
        BY <2>4 DEF Types, ThreadStates
      <3>2. Good(t)'
        BY <1>0, <2>1, <2>4, <3>1 DEF Good, Pending, WithStatus, Unlocked
      <3> QED
        BY <2>1, <2>4, <3>1, <3>2, QuietSafe
    <2> QED
      BY <2>2, <2>3, <2>4
  <1>5. CASE EvMark(t)
    <2>1. /\ UNCHANGED <<res, credited, sanctioned>> /\ ev[t].pc = "mark"
          /\ unit'.state = unit.state \/ ~IsTerminalState(unit'.state)
      BY <1>5 DEF EvMark, At, SetState, Types, UnitRows, IsTerminalState
    <2>2. CASE Finish(t)
      BY <2>1, <2>2, ControlGood, QuietSafe
    <2>3. ASSUME NEW pc \in {"accept", "reject"}, Goto(t, pc) PROVE Safe'
      <3>1. /\ ev'[t].pc = pc /\ ev'[t].pend = ev[t].pend /\ UNCHANGED lock
            /\ \A u \in Threads \ {t} : ev'[u] = ev[u]
        BY <2>3 DEF Goto, Types, ThreadStates
      <3>2. Good(t)'
        BY <1>0, <2>1, <3>1 DEF Good, Pending, WithStatus, Unlocked
      <3> QED
        BY <2>1, <3>1, <3>2, QuietSafe
    <2> QED
      BY <1>5, <2>2, <2>3 DEF EvMark
  <1>6. CASE EvRollback(t)
    <2>1. UNCHANGED <<unit, res, credited, sanctioned>> /\ ev[t].pc \notin Unlocked
      BY <1>6 DEF EvRollback, ReadOnly, At, Unlocked
    <2>2. CASE Finish(t)
      BY <2>1, <2>2, ControlGood, QuietSafe
    <2>3. CASE ev' = [ev EXCEPT ![t] = [Idle EXCEPT !.pc = "unit", !.retried = TRUE]]
               /\ UNCHANGED lock
      <3>1. ev'[t].pc = "unit" /\ \A u \in Threads \ {t} : ev'[u] = ev[u]
        BY <2>3 DEF Types, Idle
      <3> QED
        BY <1>0, <2>1, <2>3, <3>1, GotoGood, QuietSafe DEF Types
    <2> QED
      BY <1>6, <2>2, <2>3 DEF EvRollback
  <1>8. ASSUME NEW granted \in SUBSET Volunteers, EvAccept(t, granted) PROVE Safe'
    <2> DEFINE P == ev[t].pend
    <2>1. ev[t].pc = "accept" /\ ~StaleSnapshot(t) /\ UNCHANGED <<sanctioned, lock>>
      BY <1>8 DEF EvAccept, At
    <2>2. P \in SUBSET Volunteers /\ P = Pending
      BY <1>0, <2>1, FreshSnapshot DEF Good, Types, ThreadStates
    <2>3. /\ res' = Adjudicated(P) /\ credited' = credited \cup granted
          /\ granted \subseteq Majority(VersionGroup(P))
      BY <1>8 DEF EvAccept
    <2>4. /\ Pending' = {}
          /\ \A v \in Majority(VersionGroup(P)) : res'[v].status = "AGREED"
          /\ \A v \in Volunteers \ P : res'[v] = res[v]
      <3> HIDE DEF P
      <3> QED BY <2>2, <2>3, AcceptSettles
    <2>5. NoPendingUnderTerminal'
      BY <2>4 DEF NoPendingUnderTerminal
    <2>6. CreditBacked'
      <3>1. \A v \in granted : res'[v].status = "AGREED"
        BY <2>3, <2>4
      <3>2. \A v \in credited : v \in sanctioned \/ (v \in Volunteers \ P /\ res[v].status = "AGREED")
        BY <2>2 DEF Safe, CreditBacked, Types, Pending, WithStatus
      <3> HIDE DEF P
      <3> QED
        BY <2>1, <2>3, <2>4, <3>1, <3>2 DEF CreditBacked
    <2>7. ev'[t].pc = "supersede" /\ \A u \in Threads \ {t} : ev'[u] = ev[u]
      BY <1>8 DEF EvAccept, Types, Idle
    <2>8. ev[t].pc \notin Unlocked
      BY <2>1 DEF Unlocked
    <2> HIDE DEF P
    <2> QED
      BY <1>0, <2>1, <2>5, <2>6, <2>7, <2>8, GotoGood, ThreadSafe DEF Types
  <1>9. CASE EvSupersede(t)
    <2>1. UNCHANGED <<unit, res, credited, sanctioned>> /\ Finish(t)
      BY <1>9 DEF EvSupersede
    <2> QED
      BY <2>1, ControlGood, QuietSafe
  <1>10. CASE EvReject(t)
    <2> DEFINE G == VersionGroup(ev[t].pend)
    <2>1. /\ ev[t].pc = "reject" /\ UNCHANGED <<credited, sanctioned>> /\ Finish(t)
          /\ ~StaleSnapshot(t)
      BY <1>10 DEF EvReject, At
    <2>2. G \subseteq Pending
      BY <1>0, <2>1, GroupsInSnapshot DEF Good, Types, ThreadStates
    <2>3. res' = [v \in Volunteers |->
                    IF v \in G THEN [res[v] EXCEPT !.status = "DISAGREED"] ELSE res[v]]
      BY <1>10 DEF EvReject
    <2>4. ~IsTerminalState(unit'.state)
      BY <1>10 DEF EvReject, SetState, Types, UnitRows, IsTerminalState
    <2> HIDE DEF G
    <2>5. \A v \in Volunteers : res[v].status = "AGREED" => res'[v] = res[v]
      BY <2>2, <2>3 DEF Pending, WithStatus
    <2>6. CreditBacked'
      BY <2>1, <2>5 DEF Safe, CreditBacked, Types
    <2>7. ev[t].pc \notin Unlocked
      BY <2>1 DEF Unlocked
    <2> QED
      BY <2>1, <2>4, <2>6, <2>7, ControlGood, NoNewPending, ThreadSafe DEF Safe
  <1>11. CASE EvDeadLetter(t)
    <2>1. ev[t].pc = "deadletter" /\ UNCHANGED <<credited, sanctioned>> /\ Finish(t)
      BY <1>11 DEF EvDeadLetter, At
    <2>2. CASE UNCHANGED <<unit, res>>
      BY <2>1, <2>2, ControlGood, QuietSafe
    <2>3. CASE res' = [v \in Volunteers |->
                         IF v \in Pending THEN [res[v] EXCEPT !.status = "SUPERSEDED"] ELSE res[v]]
      <3>1. Pending' = {} /\ \A v \in Volunteers : res[v].status = "AGREED" => res'[v] = res[v]
        BY <2>3 DEF Pending, WithStatus, Types, ResTyped, ResultRow
      <3>2. CreditBacked' /\ NoPendingUnderTerminal'
        BY <2>1, <3>1 DEF Safe, CreditBacked, Types, NoPendingUnderTerminal
      <3>3. ev[t].pc \notin Unlocked
        BY <2>1 DEF Unlocked
      <3> QED
        BY <2>1, <3>2, <3>3, ControlGood, ThreadSafe
    <2> QED
      BY <1>11, <2>2, <2>3 DEF EvDeadLetter
  <1>12. CASE EvReopen(t)
    <2>1. /\ UNCHANGED <<res, credited, sanctioned>> /\ Finish(t)
          /\ unit'.state = unit.state \/ ~IsTerminalState(unit'.state)
      BY <1>12 DEF EvReopen, SetState, Types, UnitRows, IsTerminalState
    <2> QED
      BY <2>1, ControlGood, QuietSafe
  <1> QED
    BY <1>1, <1>2, <1>3, <1>4, <1>5, <1>6, <1>8, <1>9, <1>10, <1>11, <1>12 DEF Evaluate

\* Enforcement: only sanctioned work is refuted, only restored work is paid.
LEMMA EnforceSafe ==
    ASSUME Types, Safe, NEW t \in Threads, Enforce(t)
    PROVE  Safe'
  <1>0. Types' /\ Good(t)
    BY EnforceTyped, GoodThreads DEF Safe
  <1>1. CASE LoadFraudSet(t)
    <2>1. UNCHANGED <<unit, res, credited, sanctioned, lock>> /\ ev[t].pc = "fraud"
      BY <1>1 DEF LoadFraudSet, ReadOnly, At
    <2>2. /\ ev'[t].pc = "slash" /\ ev'[t].pend = WithStatus("AGREED")
          /\ \A u \in Threads \ {t} : ev'[u] = ev[u]
      BY <1>1 DEF LoadFraudSet, Types, ThreadStates
    <2>3. Good(t)'
      BY <1>0, <2>1, <2>2 DEF Good, Pending, WithStatus, Unlocked
    <2> QED
      BY <2>1, <2>2, <2>3, QuietSafe
  <1>2. CASE Sanction(t)
    <2>1. /\ UNCHANGED <<unit, res, credited, lock>> /\ ev[t].pc = "slash"
          /\ sanctioned' = sanctioned \cup ev[t].pend
      BY <1>2 DEF Sanction, Goto, At
    <2>2. /\ ev'[t].pc = "flip" /\ ev'[t].pend = ev[t].pend
          /\ \A u \in Threads \ {t} : ev'[u] = ev[u]
      BY <1>2 DEF Sanction, Goto, Types, ThreadStates
    <2>3. Good(t)'
      BY <1>0, <2>1, <2>2 DEF Good, Pending, WithStatus, Unlocked
    <2> QED
      BY <2>1, <2>2, <2>3, QuietSafe
  <1>3. CASE FlipToDisagreed(t)
    <2>1. /\ UNCHANGED <<unit, credited, sanctioned, lock>> /\ ev[t].pc = "flip"
          /\ res' = [v \in Volunteers |->
                       IF v \in ev[t].pend THEN [res[v] EXCEPT !.status = "DISAGREED"] ELSE res[v]]
      BY <1>3 DEF FlipToDisagreed, At
    <2>2. ev[t].pend \subseteq sanctioned
      BY <1>0, <2>1 DEF Good
    <2>3. CreditBacked'
      BY <2>1, <2>2 DEF Safe, CreditBacked, Types
    <2>4. Pending' \subseteq Pending
      BY <2>1 DEF Pending, WithStatus, Types, ResTyped, ResultRow
    <2>5. NoPendingUnderTerminal'
      BY <2>1, <2>4, NoNewPending DEF Safe
    <2>6. ev'[t].pc = "repair" /\ \A u \in Threads \ {t} : ev'[u] = ev[u]
      BY <1>3 DEF FlipToDisagreed, Types, ThreadStates
    <2>7. ev[t].pc \notin Unlocked
      BY <2>1 DEF Unlocked
    <2> QED
      BY <1>0, <2>1, <2>3, <2>5, <2>6, <2>7, GotoGood, ThreadSafe DEF Types
  <1>4. ASSUME NEW v \in Volunteers, RepairFlip(t, v) PROVE Safe'
    <2>1. /\ UNCHANGED <<unit, credited, sanctioned, lock>> /\ ev[t].pc = "repair"
          /\ res[v].status = "DISAGREED"
          /\ res' = [res EXCEPT ![v].status = "AGREED"]
      BY <1>4 DEF RepairFlip, At
    <2>2. ResKeeps /\ Pending' \subseteq Pending /\ res'[v].status = "AGREED"
      BY <2>1 DEF ResKeeps, Pending, WithStatus, Types, ResTyped, ResultRow
    <2>3. CreditBacked' /\ NoPendingUnderTerminal'
      BY <2>1, <2>2, CreditKept, NoNewPending DEF Safe
    <2>4. /\ ev'[t].pc = "grant" /\ ev'[t].pend = {v}
          /\ \A u \in Threads \ {t} : ev'[u] = ev[u]
      BY <1>4 DEF RepairFlip, Types, ThreadStates
    <2>5. Good(t)'
      BY <1>0, <2>1, <2>2, <2>4 DEF Good, Pending, WithStatus, Unlocked
    <2> QED
      BY <2>1, <2>2, <2>3, <2>4, <2>5, ThreadSafe
  <1>5. ASSUME NEW granted \in SUBSET Volunteers, RepairGrant(t, granted) PROVE Safe'
    <2>1. /\ UNCHANGED <<unit, res, sanctioned, lock>> /\ ev[t].pc = "grant"
          /\ granted \subseteq ev[t].pend /\ credited' = credited \cup granted
      BY <1>5 DEF RepairGrant, At
    <2>2. granted \subseteq WithStatus("AGREED")
      BY <1>0, <2>1 DEF Good
    <2>3. CreditBacked'
      BY <2>1, <2>2 DEF Safe, CreditBacked, WithStatus
    <2>4. ResKeeps /\ Pending' = Pending
      BY <2>1 DEF ResKeeps, Pending, WithStatus
    <2>5. NoPendingUnderTerminal'
      BY <2>1, <2>4, NoNewPending DEF Safe
    <2>6. ev'[t].pc = "repair" /\ \A u \in Threads \ {t} : ev'[u] = ev[u]
      BY <1>5 DEF RepairGrant, Types, ThreadStates
    <2>7. ev[t].pc \notin Unlocked
      BY <2>1 DEF Unlocked
    <2> QED
      BY <1>0, <2>1, <2>3, <2>4, <2>5, <2>6, <2>7, GotoGood, ThreadSafe DEF Types
  <1>6. CASE RepairDone(t) \/ DemoteAbandon(t) \/ DemoteUnit(t) \/ DemoteRequeue(t)
    <2>1. /\ UNCHANGED <<res, credited, sanctioned>> /\ ev[t].pc \notin Unlocked
          /\ unit'.state = unit.state \/ ~IsTerminalState(unit'.state)
      BY <1>6 DEF RepairDone, DemoteAbandon, DemoteUnit, DemoteRequeue, ReadOnly, At, Unlocked,
                  Reassign, SetState, Types, UnitRows, IsTerminalState
    <2>2. PICK pc \in {"dispose", "close", "demote", "refund", "reload"} : Goto(t, pc)
      BY <1>6 DEF RepairDone, DemoteAbandon, DemoteUnit, DemoteRequeue
    <2>3. /\ ev'[t].pc = pc /\ UNCHANGED lock
          /\ \A u \in Threads \ {t} : ev'[u] = ev[u]
      BY <2>2 DEF Goto, Types, ThreadStates
    <2> QED
      BY <1>0, <2>1, <2>3, GotoGood, QuietSafe DEF Types
  <1>7. CASE DemoteLoad(t)
    <2>1. UNCHANGED <<unit, res, credited, sanctioned>> /\ ev[t].pc \notin Unlocked
      BY <1>7 DEF DemoteLoad, ReadOnly, At, Unlocked
    <2>2. CASE Finish(t)
      BY <2>1, <2>2, ControlGood, QuietSafe
    <2>3. ASSUME NEW pc \in {"close", "refund", "abandon"},
                 ev' = [ev EXCEPT ![t].pc = pc, ![t].unit = unit], UNCHANGED lock
          PROVE  Safe'
      <3>1. ev'[t].pc = pc /\ \A u \in Threads \ {t} : ev'[u] = ev[u]
        BY <2>3 DEF Types, ThreadStates
      <3> QED
        BY <1>0, <2>1, <2>3, <3>1, GotoGood, QuietSafe DEF Types
    <2> QED
      BY <1>7, <2>2, <2>3 DEF DemoteLoad
  <1>8. CASE RefundCopyBudget(t)
    <2>1. UNCHANGED <<res, credited, sanctioned>> /\ ev[t].pc \notin Unlocked
      BY <1>8 DEF RefundCopyBudget, At, Unlocked
    <2>2. unit'.state = unit.state
      BY <1>8 DEF RefundCopyBudget, Refunded, Types, UnitRows
    <2>3. PICK pc \in {"requeue", "close"} : Goto(t, pc)
      BY <1>8 DEF RefundCopyBudget
    <2>4. /\ ev'[t].pc = pc /\ UNCHANGED lock
          /\ \A u \in Threads \ {t} : ev'[u] = ev[u]
      BY <2>3 DEF Goto, Types, ThreadStates
    <2> QED
      BY <1>0, <2>1, <2>2, <2>4, GotoGood, QuietSafe DEF Types
  <1>9. CASE CloseRoot(t)
    <2>1. UNCHANGED <<unit, res, credited, sanctioned>> /\ Finish(t)
      BY <1>9 DEF CloseRoot
    <2> QED
      BY <2>1, ControlGood, QuietSafe
  <1> QED
    BY <1>1, <1>2, <1>3, <1>4, <1>5, <1>6, <1>7, <1>8, <1>9 DEF Enforce

\* The inductive step.
LEMMA SafeStep == LockHonored /\ Types /\ Safe /\ [Next]_vars => Safe'
  <1> SUFFICES ASSUME LockHonored, Types, Safe, [Next]_vars PROVE Safe'
    OBVIOUS
  <1>1. CASE ConfirmMismatch
    <2>1. UNCHANGED <<unit, res, ev, lock, credited, sanctioned>>
      BY <1>1 DEF ConfirmMismatch
    <2> QED
      BY <2>1, OutsideSafe DEF ResKeeps, Pending, WithStatus
  <1>2. CASE UNCHANGED vars
    <2>1. UNCHANGED <<unit, res, ev, lock, credited, sanctioned>>
      BY <1>2 DEF vars
    <2> QED
      BY <2>1, OutsideSafe DEF ResKeeps, Pending, WithStatus
  <1> QED
    BY <1>1, <1>2, VolunteerSafe, HandlerSafe, BackgroundSafe, EvaluateSafe,
       EnforceSafe, ReviveSafe DEF Next

\* When the advisory lock is honored, RunFinalization's recount is enough: a
\* unit never becomes VALIDATED or FAILED over the head of a PENDING result.
THEOREM NoPendingUnderTerminalHolds ==
    ASSUME LockHonored
    PROVE  Spec => []NoPendingUnderTerminal
  <1>1. Safe => NoPendingUnderTerminal
    BY DEF Safe
  <1> QED
    BY <1>1, TypesInit, TypesStep, SafeInit, SafeStep, PTL DEF Spec

\* When the advisory lock is honored, every ledger row is backed by an AGREED
\* result or by a sanction, at every point of an enforcement pass and whatever
\* crashes.
THEOREM CreditBackedHolds ==
    ASSUME LockHonored
    PROVE  Spec => []CreditBacked
  <1>1. Safe => CreditBacked
    BY DEF Safe
  <1> QED
    BY <1>1, TypesInit, TypesStep, SafeInit, SafeStep, PTL DEF Spec

-----------------------------------------------------------------------------
(* What a pass and a decision have done so far.                            *)

EnforcePCs == {"fraud", "slash", "flip", "repair", "grant", "dispose", "reload", "abandon",
               "demote", "refund", "requeue", "close"}

\* Past the flip, no repair under way.
RepairPCs == {"repair", "dispose", "reload", "abandon", "demote", "refund", "requeue", "close"}

\* With an open unit in the snapshot.
EvaluatePCs == {"results", "live", "decide", "mark", "accept", "reject", "deadletter", "reopen"}

Agreed == WithStatus("AGREED")

Group(t) == VersionGroup(ev[t].pend)
Verdict(t) == ComparisonVerdict(Group(t), Majority(Group(t)))
Reached(t) == QuorumAgreement(Verdict(t), PolicyOf(ev[t].unit))

\* A thread in a pass works on an open root and has loaded every AGREED result; behind the
\* flip what agrees was paid, but for the one result whose grant comes next.  A thread about
\* to accept has a snapshot in which the quorum agrees.
Sure(u) ==
    /\ ev[u].pc \in EnforcePCs => ev[u].enforcing
    /\ ev[u].enforcing => root = "open"
    /\ ev[u].pc \in {"slash", "flip"} => Agreed \subseteq ev[u].pend
    /\ ev[u].pc \in RepairPCs /\ ~EmissionCap => Agreed \subseteq credited
    /\ ev[u].pc = "grant" /\ ~EmissionCap => Agreed \subseteq credited \cup ev[u].pend
    /\ ev[u].pc \in {"mark", "accept"} /\ ev[u].action = "VALIDATE" => Reached(u)
    /\ ev[u].pc = "accept" => ev[u].action = "VALIDATE"
    /\ ev[u].pc \in EvaluatePCs => ~IsTerminalState(ev[u].unit.state)
    /\ ev[u].unit.targetCopies = 0 /\ ev[u].unit.minQuorum = 0

\* One pass at a time: EnforceRoot is the leader's.
OnePass == \A t, u \in Threads : ev[t].enforcing /\ ev[u].enforcing => t = u

\* Copies and quorum of a unit are never stamped.
Unstamped == unit.targetCopies = 0 /\ unit.minQuorum = 0

Paid == (\A u \in Threads : Sure(u)) /\ OnePass /\ AgreedPaid

\* No vote is touched, and nobody wins, in this step.
VotesKept ==
    /\ \A v \in Pending : res'[v] = res[v]
    /\ Agreed' \subseteq Agreed

\* What a snapshot says depends only on the rows of its results.
LEMMA SameReached ==
    ASSUME NEW t \in Threads, ev[t].pend \subseteq Volunteers,
           ev'[t].pend = ev[t].pend, ev'[t].unit = ev[t].unit,
           \A v \in ev[t].pend : res'[v] = res[v]
    PROVE  Group(t)' = Group(t) /\ (Reached(t)' <=> Reached(t))
  <1> DEFINE G == Group(t)
  <1>1. \A a : OfVersion(ev[t].pend, a)' = OfVersion(ev[t].pend, a)
    BY DEF OfVersion
  <1>2. Group(t)' = Group(t)
    BY <1>1 DEF Group, VersionGroup
  <1>3. G \subseteq ev[t].pend
    BY GroupsInSnapshot DEF Group
  <1>4. Majority(Group(t))' = Majority(Group(t))
    <2>1. \A v \in G : res'[v] = res[v]
      BY <1>3
    <2>2. \A o : OfOutput(Group(t), o)' = OfOutput(Group(t), o)
      BY <1>2, <2>1 DEF OfOutput
    <2> QED BY <1>2, <2>1, <2>2 DEF Majority
  <1>5. Verdict(t)' = Verdict(t)
    <2>1. \A v \in G : StandingCountable(v)' <=> StandingCountable(v)
      BY <1>3 DEF StandingCountable
    <2>2. {v \in Group(t) : StandingCountable(v)}' = {v \in Group(t) : StandingCountable(v)}
      BY <1>2, <2>1
    <2> QED BY <1>2, <1>4, <2>2 DEF Verdict, ComparisonVerdict
  <1>6. PolicyOf(ev[t].unit)' = PolicyOf(ev[t].unit)
    BY DEF PolicyOf
  <1> QED BY <1>2, <1>5, <1>6 DEF Reached

\* A step of t, or of nobody, leaves another thread sure: it touches no vote, or t holds the
\* lock and u has nothing in hand.
LEMMA OthersSure ==
    ASSUME Types, NEW t \in Threads, NEW u \in Threads, u # t, Good(t), Good(u), Sure(u),
           ev'[u] = ev[u], root' \in {root, "open"} \/ ~ev[u].enforcing,
           credited \subseteq credited', VotesKept \/ ev[t].pc \notin Unlocked
    PROVE  Sure(u)'
  <1>1. CASE VotesKept
    <2>1. CASE ev[u].pc \in {"mark", "accept"}
      <3>1. ev[u].pend \subseteq Volunteers /\ \A v \in ev[u].pend : res'[v] = res[v]
        BY <1>1, <2>1 DEF VotesKept, Good, Types, ThreadStates
      <3>2. Reached(u)' <=> Reached(u)
        BY <3>1, SameReached
      <3> QED BY <1>1, <2>1, <3>2 DEF Sure, VotesKept, EnforcePCs, RepairPCs, EvaluatePCs
    <2>2. CASE ev[u].pc \notin {"mark", "accept"}
      BY <1>1, <2>2 DEF Sure, VotesKept
    <2> QED BY <2>1, <2>2
  <1>2. CASE ev[t].pc \notin Unlocked
    <2>1. ev[u].pc \in Unlocked
      BY <1>2 DEF Good
    <2> QED BY <2>1 DEF Sure, Unlocked, EnforcePCs, RepairPCs, EvaluatePCs
  <1> QED BY <1>1, <1>2

\* A step outside the threads.
LEMMA OutsidePaid ==
    ASSUME Types, Safe, Paid, UNCHANGED <<ev, credited>>, root' \in {root, "open"}, VotesKept
    PROVE  Paid'
  <1>1. ASSUME NEW u \in Threads PROVE Sure(u)'
    <2>1. Good(u) /\ Sure(u)
      BY GoodThreads DEF Safe, Paid
    <2>2. CASE ev[u].pc \in {"mark", "accept"}
      <3>1. ev[u].pend \subseteq Volunteers /\ \A v \in ev[u].pend : res'[v] = res[v]
        BY <2>1, <2>2 DEF VotesKept, Good, Types, ThreadStates
      <3>2. Reached(u)' <=> Reached(u)
        BY <3>1, SameReached
      <3> QED BY <2>1, <2>2, <3>2 DEF Sure, VotesKept, EnforcePCs, RepairPCs, EvaluatePCs
    <2>3. CASE ev[u].pc \notin {"mark", "accept"}
      BY <2>1, <2>3 DEF Sure, VotesKept
    <2> QED BY <2>2, <2>3
  <1>2. OnePass'
    BY DEF Paid, OnePass
  <1>3. AgreedPaid'
    BY DEF Paid, AgreedPaid, VotesKept, Agreed
  <1> QED BY <1>1, <1>2, <1>3 DEF Paid

\* A step of thread t, given what is particular to it.
LEMMA ThreadPaid ==
    ASSUME Types, Safe, Paid, NEW t \in Threads,
           \A u \in Threads \ {t} : ev'[u] = ev[u],
           root' \in {root, "open"} \/ ev[t].enforcing,
           credited \subseteq credited', VotesKept \/ ev[t].pc \notin Unlocked,
           ev'[t].enforcing => ev[t].enforcing \/ \A u \in Threads : ~ev[u].enforcing,
           Sure(t)', AgreedPaid'
    PROVE  Paid'
  <1>1. \A u \in Threads : Good(u) /\ Sure(u)
    BY GoodThreads DEF Safe, Paid
  <1>2. \A u \in Threads \ {t} : root' \in {root, "open"} \/ ~ev[u].enforcing
    BY DEF Paid, OnePass
  <1>3. \A u \in Threads : Sure(u)'
    BY <1>1, <1>2, OthersSure
  <1>4. OnePass'
    BY DEF Paid, OnePass
  <1> QED BY <1>3, <1>4 DEF Paid

\* A step of t that touches neither results nor credit nor the root.
LEMMA QuietPaid ==
    ASSUME Types, Safe, Paid, NEW t \in Threads,
           \A u \in Threads \ {t} : ev'[u] = ev[u], UNCHANGED <<res, credited, root>>,
           ev'[t].enforcing => ev[t].enforcing, Sure(t)'
    PROVE  Paid'
  <1>1. VotesKept
    BY DEF VotesKept, Agreed, WithStatus
  <1>2. AgreedPaid'
    BY DEF Paid, AgreedPaid, WithStatus
  <1> QED BY <1>1, <1>2, ThreadPaid

\* A thread that ends has nothing to be sure of.
LEMMA FinishSure ==
    ASSUME Types, NEW t \in Threads, Finish(t)
    PROVE  /\ \A u \in Threads \ {t} : ev'[u] = ev[u]
           /\ Sure(t)' /\ ~ev'[t].enforcing
  <1>1. ev'[t] = Idle /\ \A u \in Threads \ {t} : ev'[u] = ev[u]
    BY DEF Finish, Types
  <1>2. /\ Idle.pc = "idle" /\ Idle.enforcing = FALSE
        /\ Idle.unit.targetCopies = 0 /\ Idle.unit.minQuorum = 0
    BY DEF Idle, InitUnit
  <1> QED BY <1>1, <1>2 DEF Sure, EnforcePCs, RepairPCs, EvaluatePCs

\* A thread that is about to call Evaluate neither.
LEMMA TriggerSure ==
    ASSUME Types, NEW t \in Threads, Trigger(t), Sure(t), root' = root
    PROVE  /\ \A u \in Threads \ {t} : ev'[u] = ev[u]
           /\ Sure(t)' /\ (ev'[t].enforcing => ev[t].enforcing)
  <1>1. /\ ev'[t].pc = "lock" /\ ev'[t].enforcing = ev[t].enforcing /\ ev'[t].unit = ev[t].unit
        /\ \A u \in Threads \ {t} : ev'[u] = ev[u]
    BY DEF Trigger, Types, ThreadStates
  <1> QED BY <1>1 DEF Sure, EnforcePCs, RepairPCs, EvaluatePCs

\* Goto moves the counter and nothing else.
LEMMA GotoFields ==
    ASSUME Types, NEW t \in Threads, NEW pc, Goto(t, pc)
    PROVE  /\ \A u \in Threads \ {t} : ev'[u] = ev[u]
           /\ ev'[t].pc = pc /\ ev'[t].enforcing = ev[t].enforcing /\ ev'[t].unit = ev[t].unit
           /\ ev'[t].pend = ev[t].pend /\ ev'[t].action = ev[t].action
  BY DEF Goto, Types, ThreadStates

\* Dispatch, run-start, a late submit, a released or failed copy, a revived unit, a confirmed
\* mismatch: nobody's vote and nobody's pay.
LEMMA OutsideStepsPaid ==
    ASSUME Types, Safe, Paid,
           \/ \E v \in Volunteers : Volunteer(v)
           \/ \E S \in SUBSET Volunteers, refund \in BOOLEAN : ReviveDeadLettered(S, refund)
           \/ ConfirmMismatch
           \/ UNCHANGED vars
    PROVE  Paid'
  <1>1. CASE ConfirmMismatch \/ UNCHANGED vars
    <2>1. UNCHANGED <<ev, credited, res>> /\ root' \in {root, "open"}
      BY <1>1 DEF ConfirmMismatch, vars
    <2> QED BY <2>1, OutsidePaid DEF VotesKept, Agreed, WithStatus
  <1>2. CASE \E S \in SUBSET Volunteers, refund \in BOOLEAN : ReviveDeadLettered(S, refund)
    <2>1. UNCHANGED <<ev, credited, root>> /\ VotesKept
      BY <1>2 DEF ReviveDeadLettered, VotesKept, Agreed, Pending, WithStatus, Types, ResTyped, ResultRow
    <2> QED BY <2>1, OutsidePaid
  <1>3. ASSUME NEW v \in Volunteers, Volunteer(v) PROVE Paid'
    <2>1. UNCHANGED <<ev, credited, root>> /\ VotesKept
      <3>1. CASE FailHeld(v)
        BY <3>1 DEF FailHeld, VotesKept, Agreed, Pending, WithStatus, Types, ResTyped, ResultRow
      <3>2. CASE ~FailHeld(v)
        <4>1. UNCHANGED <<ev, credited, root, res>>
          BY <1>3, <3>2 DEF Volunteer, FlushSelect, FlushInsert, StartWork, SubmitTooLate,
                  ReleaseStaleHeldCopy, SetStanding, ReserveNextAssignable, MarkSpotCheck, ReserveCopy
        <4> QED BY <4>1 DEF VotesKept, Agreed, WithStatus
      <3> QED BY <3>1, <3>2
    <2> QED BY <2>1, OutsidePaid
  <1> QED BY <1>1, <1>2, <1>3

\* A handler: its result is a vote at most.
LEMMA HandlerPaid ==
    ASSUME Types, Safe, Paid, NEW v \in Volunteers, NEW t \in Threads, Handler(v, t)
    PROVE  Paid'
  <1>1. Trigger(t) /\ UNCHANGED <<credited, root>>
    BY DEF Handler, SubmitResult, AbandonWorkUnit, ExpireCopy, PromoteHeld
  <1>2. VotesKept
    <2>1. ASSUME NEW o \in Outputs, NEW ver \in Versions, NEW held \in Holds,
                 SubmitResult(v, o, ver, held, t)
          PROVE  VotesKept
      BY <2>1 DEF SubmitResult, VotesKept, Agreed, Pending, WithStatus, Types, ResTyped, ResultRow
    <2>2. ASSUME NEW served \in Outputs, PromoteHeld(v, served, t) PROVE VotesKept
      BY <2>2 DEF PromoteHeld, VotesKept, Agreed, Pending, WithStatus, Types, ResTyped, ResultRow
    <2>3. CASE UNCHANGED res
      BY <2>3 DEF VotesKept, Agreed, WithStatus
    <2> QED BY <2>1, <2>2, <2>3 DEF Handler, AbandonWorkUnit, ExpireCopy
  <1>3. AgreedPaid'
    BY <1>1, <1>2 DEF Paid, AgreedPaid, VotesKept, Agreed
  <1>4. Sure(t)
    BY DEF Paid
  <1> QED BY <1>1, <1>2, <1>3, <1>4, TriggerSure, ThreadPaid

\* Background jobs; a pass begins only when nobody is in one.
LEMMA BackgroundPaid ==
    ASSUME Types, Safe, Paid, Unstamped, NEW t \in Threads,
           Background(t) \/ WithUnitLock(t) \/ Requeue(t) \/ Crash(t)
    PROVE  Paid'
  <1> USE DEF EnforcePCs, RepairPCs, EvaluatePCs
  <1>0. Sure(t) /\ ev \in [Threads -> ThreadStates]
    BY DEF Paid, Types
  <1>1. CASE ClearSpotCheck(t) \/ RecoverySweep(t)
    <2>1. UNCHANGED <<res, credited, root>> /\ Trigger(t)
      BY <1>1 DEF ClearSpotCheck, RecoverySweep
    <2> QED BY <1>0, <2>1, TriggerSure, QuietPaid
  <1>2. CASE RequeueRead(t)
    <2>1. /\ UNCHANGED <<res, credited, root>> /\ ev'[t].pc = "rq_abandon" /\ ev'[t].unit = unit
          /\ ev'[t].enforcing = ev[t].enforcing /\ \A u \in Threads \ {t} : ev'[u] = ev[u]
      BY <1>0, <1>2 DEF RequeueRead, ThreadStates
    <2>2. Sure(t)'
      BY <1>0, <2>1 DEF Sure, Unstamped
    <2> QED BY <2>1, <2>2, QuietPaid
  <1>3. CASE EnforceRoot(t)
    <2>1. /\ UNCHANGED <<res, credited, root>> /\ ev'[t].pc = "lock" /\ ev'[t].unit = ev[t].unit
          /\ \A u \in Threads \ {t} : ev'[u] = ev[u]
          /\ root = "open" /\ \A u \in Threads : ~ev[u].enforcing
      BY <1>0, <1>3 DEF EnforceRoot, ThreadStates
    <2>2. Sure(t)'
      BY <1>0, <2>1 DEF Sure
    <2>3. VotesKept /\ AgreedPaid'
      BY <2>1 DEF Paid, AgreedPaid, VotesKept, Agreed, WithStatus
    <2> QED BY <2>1, <2>2, <2>3, ThreadPaid
  <1>4. CASE WithUnitLock(t)
    <2>1. /\ UNCHANGED <<res, credited, root>>
          /\ ev'[t].pc = (IF ev[t].enforcing THEN "fraud" ELSE "unit") /\ ev'[t].unit = ev[t].unit
          /\ ev'[t].enforcing = ev[t].enforcing /\ \A u \in Threads \ {t} : ev'[u] = ev[u]
      BY <1>0, <1>4 DEF WithUnitLock, ReadOnly, ThreadStates
    <2>2. Sure(t)'
      BY <1>0, <2>1 DEF Sure
    <2> QED BY <2>1, <2>2, QuietPaid
  <1>5. CASE Requeue(t)
    <2>1. UNCHANGED <<res, credited, root>> /\ \A u \in Threads \ {t} : ev'[u] = ev[u]
      BY <1>0, <1>5 DEF Requeue, RequeueAbandon, RequeueReassign
    <2>2. CASE ev'[t] = Idle
      <3>1. Idle.pc = "idle" /\ Idle.enforcing = FALSE /\ Idle.unit.targetCopies = 0 /\ Idle.unit.minQuorum = 0
        BY DEF Idle, InitUnit
      <3>2. Sure(t)'
        BY <2>2, <3>1 DEF Sure
      <3> QED BY <2>1, <2>2, <3>1, <3>2, QuietPaid
    <2>3. CASE ev'[t] = [ev[t] EXCEPT !.pc = "rq_reassign"]
      <3>1. ev'[t].pc = "rq_reassign" /\ ev'[t].enforcing = ev[t].enforcing /\ ev'[t].unit = ev[t].unit
        BY <1>0, <2>3 DEF ThreadStates
      <3>2. Sure(t)'
        BY <1>0, <2>1, <3>1 DEF Sure
      <3> QED BY <2>1, <3>1, <3>2, QuietPaid
    <2> QED BY <1>0, <1>5, <2>2, <2>3 DEF Requeue, RequeueAbandon, RequeueReassign
  <1>6. CASE Crash(t)
    <2>1. UNCHANGED <<res, credited, root>> /\ Finish(t)
      BY <1>6 DEF Crash
    <2> QED BY <2>1, FinishSure, QuietPaid
  <1> QED BY <1>1, <1>2, <1>3, <1>4, <1>5, <1>6 DEF Background

\* Decide says VALIDATE only of a verdict in which the quorum agrees.
LEMMA DecideValidates ==
    ASSUME NEW s, Decide(s).action = "VALIDATE"
    PROVE  QuorumAgreement(s.verdict, s.policy)
  BY DEF Decide, DecideRejected, DecideOpen, Decision

\* The transitioner: it accepts only what the snapshot has reached.
LEMMA EvaluatePaid ==
    ASSUME Types, Safe, Paid, Unstamped, NEW t \in Threads, Evaluate(t)
    PROVE  Paid'
  <1> USE DEF EnforcePCs, RepairPCs, EvaluatePCs
  <1>0. Sure(t) /\ Good(t) /\ ev \in [Threads -> ThreadStates] /\ ev[t].pend \subseteq Volunteers
    BY GoodThreads DEF Paid, Safe, Types, ThreadStates
  <1>1. CASE EvUnit(t)
    <2>1. UNCHANGED <<res, credited, root>> /\ ev[t].pc = "unit"
      BY <1>1 DEF EvUnit, ReadOnly, At
    <2>2. CASE Finish(t)
      BY <2>1, <2>2, FinishSure, QuietPaid
    <2>3. CASE ~IsTerminalState(unit.state) /\ ev' = [ev EXCEPT ![t].pc = "results", ![t].unit = unit]
      <3>1. /\ ev'[t].pc = "results" /\ ev'[t].unit = unit /\ ev'[t].enforcing = ev[t].enforcing
            /\ \A u \in Threads \ {t} : ev'[u] = ev[u]
        BY <1>0, <2>3 DEF ThreadStates
      <3>2. Sure(t)'
        BY <1>0, <2>1, <2>3, <3>1 DEF Sure, Unstamped
      <3> QED BY <2>1, <3>1, <3>2, QuietPaid
    <2> QED BY <1>1, <2>2, <2>3 DEF EvUnit
  <1>2. CASE EvResults(t) \/ EvLive(t)
    <2>1. UNCHANGED <<res, credited, root>> /\ ev[t].pc \in {"results", "live"}
      BY <1>2 DEF EvResults, EvLive, ReadOnly, At
    <2>2. /\ ev'[t].pc \in {"live", "decide"} /\ ev'[t].unit = ev[t].unit
          /\ ev'[t].enforcing = ev[t].enforcing /\ \A u \in Threads \ {t} : ev'[u] = ev[u]
      BY <1>0, <1>2 DEF EvResults, EvLive, ThreadStates
    <2>3. Sure(t)'
      BY <1>0, <2>1, <2>2 DEF Sure
    <2> QED BY <2>1, <2>2, <2>3, QuietPaid
  <1>3. CASE EvDecide(t)
    <2>1. UNCHANGED <<res, credited, root>> /\ ev[t].pc = "decide"
      BY <1>3 DEF EvDecide, ReadOnly, At
    <2>2. CASE Finish(t)
      BY <2>1, <2>2, FinishSure, QuietPaid
    <2>3. CASE ~Finish(t)
      <3>1. PICK d \in {Decide(s) : s \in {Snapshot(ev[t])}}, next \in {"deadletter", "reopen", "mark"} :
               ev' = [ev EXCEPT ![t] = [@ EXCEPT !.pc = next, !.action = d.action, !.live = 0]]
        BY <1>3, <2>3 DEF EvDecide
      <3>2. /\ ev'[t].pc = next /\ ev'[t].action = d.action /\ ev'[t].pend = ev[t].pend
            /\ ev'[t].unit = ev[t].unit /\ ev'[t].enforcing = ev[t].enforcing
            /\ \A u \in Threads \ {t} : ev'[u] = ev[u]
        BY <1>0, <3>1 DEF ThreadStates
      <3>3. d.action = "VALIDATE" => Reached(t)
        <4> SUFFICES ASSUME d.action = "VALIDATE" PROVE Reached(t)
          OBVIOUS
        <4>1. d = Decide(Snapshot(ev[t]))
          BY <3>1
        <4>2. QuorumAgreement(Snapshot(ev[t]).verdict, Snapshot(ev[t]).policy)
          BY <4>1, DecideValidates
        <4>3. /\ Snapshot(ev[t]).policy = PolicyOf(ev[t].unit)
              /\ Snapshot(ev[t]).verdict \in {NoVerdict, Verdict(t)}
          BY DEF Snapshot, Verdict, Group
        <4>4. ~QuorumAgreement(NoVerdict, PolicyOf(ev[t].unit))
          BY DEF QuorumAgreement, NoVerdict
        <4> QED BY <4>2, <4>3, <4>4 DEF Reached
      <3>4. Reached(t)' <=> Reached(t)
        BY <1>0, <2>1, <3>2, SameReached
      <3>5. Sure(t)'
        BY <1>0, <2>1, <3>2, <3>3, <3>4 DEF Sure
      <3> QED BY <2>1, <3>2, <3>5, QuietPaid
    <2> QED BY <2>2, <2>3
  <1>4. CASE EvMark(t)
    <2>1. UNCHANGED <<res, credited, root>> /\ ev[t].pc = "mark"
      BY <1>4 DEF EvMark, At
    <2>2. CASE Finish(t)
      BY <2>1, <2>2, FinishSure, QuietPaid
    <2>3. ASSUME NEW pc \in {"accept", "reject"}, Goto(t, pc), pc = "accept" => ev[t].action = "VALIDATE"
          PROVE  Paid'
      <3>1. /\ \A u \in Threads \ {t} : ev'[u] = ev[u]
            /\ ev'[t].pc = pc /\ ev'[t].enforcing = ev[t].enforcing /\ ev'[t].unit = ev[t].unit
            /\ ev'[t].pend = ev[t].pend /\ ev'[t].action = ev[t].action
        BY <2>3, GotoFields
      <3>2. Reached(t)' <=> Reached(t)
        BY <1>0, <2>1, <3>1, SameReached
      <3>3. Sure(t)'
        BY <1>0, <2>1, <2>3, <3>1, <3>2 DEF Sure
      <3> QED BY <2>1, <3>1, <3>3, QuietPaid
    <2> QED BY <1>4, <2>2, <2>3 DEF EvMark
  <1>5. CASE EvRollback(t)
    <2>1. UNCHANGED <<res, credited, root>>
      BY <1>5 DEF EvRollback, ReadOnly
    <2>2. CASE Finish(t)
      BY <2>1, <2>2, FinishSure, QuietPaid
    <2>3. CASE ev' = [ev EXCEPT ![t] = [Idle EXCEPT !.pc = "unit", !.retried = TRUE]]
      <3>1. /\ ev'[t].pc = "unit" /\ ev'[t].enforcing = FALSE /\ \A u \in Threads \ {t} : ev'[u] = ev[u]
            /\ ev'[t].unit.targetCopies = 0 /\ ev'[t].unit.minQuorum = 0
        BY <1>0, <2>3 DEF Idle, InitUnit
      <3>2. Sure(t)'
        BY <3>1 DEF Sure
      <3> QED BY <2>1, <3>1, <3>2, QuietPaid
    <2> QED BY <1>5, <2>2, <2>3 DEF EvRollback
  <1>6. CASE EvSupersede(t) \/ EvReopen(t)
    <2>1. UNCHANGED <<res, credited, root>> /\ Finish(t)
      BY <1>6 DEF EvSupersede, EvReopen, ReadOnly
    <2> QED BY <2>1, FinishSure, QuietPaid
  <1>7. ASSUME NEW granted \in SUBSET Volunteers, EvAccept(t, granted) PROVE Paid'
    <2> DEFINE P == ev[t].pend
               A == Majority(VersionGroup(P))
    <2>1. ev[t].pc = "accept" /\ ~StaleSnapshot(t) /\ root' = root /\ ev[t].pc \notin Unlocked
      BY <1>7 DEF EvAccept, At, Unlocked
    <2>2. P \in SUBSET Volunteers /\ P = Pending
      BY <1>0, <2>1, FreshSnapshot DEF Good, Types, ThreadStates
    <2>3. /\ res' = Adjudicated(P) /\ credited' = credited \cup granted
          /\ EmissionCap \/ granted = A
      BY <1>7 DEF EvAccept
    <2>4. /\ \A v \in A : res'[v].status = "AGREED"
          /\ \A v \in P \ A : res'[v].status # "AGREED"
          /\ \A v \in Volunteers \ P : res'[v] = res[v]
      <3>1. \A v \in P \ A : res'[v].status # "AGREED"
        BY <2>2, <2>3 DEF Adjudicated, Pending, WithStatus, Types, ResTyped, ResultRow
      <3> HIDE DEF P
      <3> QED BY <2>2, <2>3, <3>1, AcceptSettles
    <2>5. AgreedPaid'
      <3> HIDE DEF P, A
      <3>1. Agreed' \subseteq Agreed \cup A
        BY <2>4 DEF Agreed, WithStatus
      <3> QED BY <2>1, <2>3, <3>1 DEF Paid, AgreedPaid, Agreed
    <2>6. /\ ev'[t].pc = "supersede" /\ ev'[t].enforcing = FALSE /\ \A u \in Threads \ {t} : ev'[u] = ev[u]
          /\ ev'[t].unit.targetCopies = 0 /\ ev'[t].unit.minQuorum = 0
      BY <1>0, <1>7 DEF EvAccept, Idle, InitUnit
    <2>7. Sure(t)'
      BY <2>6 DEF Sure
    <2> HIDE DEF P, A
    <2> QED BY <2>1, <2>3, <2>5, <2>6, <2>7, ThreadPaid
  <1>8. CASE EvReject(t) \/ EvDeadLetter(t)
    <2>1. Finish(t) /\ UNCHANGED <<credited, root>> /\ ev[t].pc \notin Unlocked
      BY <1>8 DEF EvReject, EvDeadLetter, At, Unlocked
    <2>2. Agreed' \subseteq Agreed
      BY <1>8 DEF EvReject, EvDeadLetter, Agreed, WithStatus, Types, ResTyped, ResultRow
    <2>3. AgreedPaid'
      BY <2>1, <2>2 DEF Paid, AgreedPaid, Agreed
    <2> QED BY <2>1, <2>3, FinishSure, ThreadPaid
  <1> QED BY <1>1, <1>2, <1>3, <1>4, <1>5, <1>6, <1>7, <1>8 DEF Evaluate

\* Enforcement: every winner is refuted, and who is restored is paid before the root closes.
LEMMA EnforcePaid ==
    ASSUME Types, Safe, Paid, Unstamped, NEW t \in Threads, Enforce(t)
    PROVE  Paid'
  <1> USE DEF EnforcePCs, RepairPCs, EvaluatePCs
  <1>0. Sure(t) /\ Good(t) /\ ev \in [Threads -> ThreadStates]
    BY GoodThreads DEF Paid, Safe, Types
  <1>1. CASE LoadFraudSet(t)
    <2>1. UNCHANGED <<res, credited, root>> /\ ev[t].pc = "fraud"
      BY <1>1 DEF LoadFraudSet, ReadOnly, At
    <2>2. /\ ev'[t].pc = "slash" /\ ev'[t].pend = Agreed /\ ev'[t].enforcing = ev[t].enforcing
          /\ ev'[t].unit = ev[t].unit /\ \A u \in Threads \ {t} : ev'[u] = ev[u]
      BY <1>0, <1>1 DEF LoadFraudSet, ThreadStates, Agreed
    <2>3. Sure(t)'
      BY <1>0, <2>1, <2>2 DEF Sure, Agreed, WithStatus
    <2> QED BY <2>1, <2>2, <2>3, QuietPaid
  <1>2. CASE Sanction(t)
    <2>1. UNCHANGED <<res, credited, root>> /\ ev[t].pc = "slash" /\ Goto(t, "flip")
      BY <1>2 DEF Sanction, At
    <2>2. Sure(t)'
      BY <1>0, <2>1, GotoFields DEF Sure, Agreed, WithStatus
    <2> QED BY <2>1, <2>2, GotoFields, QuietPaid
  <1>3. CASE FlipToDisagreed(t)
    <2>1. /\ UNCHANGED <<credited, root>> /\ ev[t].pc = "flip" /\ ev[t].pc \notin Unlocked
          /\ res' = [v \in Volunteers |->
                       IF v \in ev[t].pend THEN [res[v] EXCEPT !.status = "DISAGREED"] ELSE res[v]]
      BY <1>3 DEF FlipToDisagreed, At, Unlocked
    <2>2. Agreed' = {}
      BY <1>0, <2>1 DEF Sure, Agreed, WithStatus, Types, ResTyped, ResultRow
    <2>3. /\ ev'[t].pc = "repair" /\ ev'[t].enforcing = ev[t].enforcing
          /\ ev'[t].unit = ev[t].unit /\ \A u \in Threads \ {t} : ev'[u] = ev[u]
      BY <1>0, <1>3 DEF FlipToDisagreed, ThreadStates
    <2>4. Sure(t)' /\ AgreedPaid'
      BY <1>0, <2>1, <2>2, <2>3 DEF Sure, AgreedPaid, Agreed
    <2> QED BY <2>1, <2>3, <2>4, ThreadPaid
  <1>4. ASSUME NEW v \in Volunteers, RepairFlip(t, v) PROVE Paid'
    <2>1. /\ UNCHANGED <<credited, root>> /\ ev[t].pc = "repair" /\ ev[t].pc \notin Unlocked
          /\ res' = [res EXCEPT ![v].status = "AGREED"]
      BY <1>4 DEF RepairFlip, At, Unlocked
    <2>2. Agreed' \subseteq Agreed \cup {v}
      BY <2>1 DEF Agreed, WithStatus, Types, ResTyped, ResultRow
    <2>3. /\ ev'[t].pc = "grant" /\ ev'[t].enforcing = ev[t].enforcing /\ ev'[t].pend = {v}
          /\ ev'[t].unit = ev[t].unit /\ \A u \in Threads \ {t} : ev'[u] = ev[u]
      BY <1>0, <1>4 DEF RepairFlip, ThreadStates
    <2>4. Sure(t)' /\ AgreedPaid'
      BY <1>0, <2>1, <2>2, <2>3 DEF Sure, AgreedPaid
    <2> QED BY <2>1, <2>3, <2>4, ThreadPaid
  <1>5. ASSUME NEW granted \in SUBSET Volunteers, RepairGrant(t, granted) PROVE Paid'
    <2>1. /\ UNCHANGED <<res, root>> /\ ev[t].pc = "grant" /\ ev[t].pc \notin Unlocked
          /\ EmissionCap \/ granted = ev[t].pend
          /\ credited' = credited \cup granted
      BY <1>5 DEF RepairGrant, At, Unlocked
    <2>2. Agreed' = Agreed
      BY <2>1 DEF Agreed, WithStatus
    <2>3. /\ ev'[t].pc = "repair" /\ ev'[t].enforcing = ev[t].enforcing
          /\ ev'[t].unit = ev[t].unit /\ \A u \in Threads \ {t} : ev'[u] = ev[u]
      BY <1>0, <1>5 DEF RepairGrant, ThreadStates
    <2>4. Sure(t)' /\ AgreedPaid'
      BY <1>0, <2>1, <2>2, <2>3 DEF Sure, AgreedPaid, Agreed
    <2> QED BY <2>1, <2>3, <2>4, ThreadPaid
  <1>6. CASE RepairDone(t) \/ DemoteAbandon(t) \/ DemoteUnit(t) \/ RefundCopyBudget(t) \/ DemoteRequeue(t)
    <2>1. UNCHANGED <<res, credited, root>> /\ ev[t].pc \in RepairPCs
      BY <1>6 DEF RepairDone, DemoteAbandon, DemoteUnit, RefundCopyBudget, DemoteRequeue, ReadOnly, At
    <2>2. PICK pc \in RepairPCs : Goto(t, pc)
      BY <1>6 DEF RepairDone, DemoteAbandon, DemoteUnit, RefundCopyBudget, DemoteRequeue
    <2>3. /\ ev'[t].pc \in RepairPCs /\ ev'[t].enforcing = ev[t].enforcing /\ ev'[t].unit = ev[t].unit
          /\ \A u \in Threads \ {t} : ev'[u] = ev[u]
      BY <2>2, GotoFields
    <2>4. Sure(t)'
      BY <1>0, <2>1, <2>3 DEF Sure, Agreed, WithStatus
    <2> QED BY <2>1, <2>3, <2>4, QuietPaid
  <1>7. CASE DemoteLoad(t)
    <2>1. UNCHANGED <<res, credited, root>> /\ ev[t].pc \in RepairPCs
      BY <1>7 DEF DemoteLoad, ReadOnly, At
    <2>2. CASE Finish(t)
      BY <2>1, <2>2, FinishSure, QuietPaid
    <2>3. ASSUME NEW pc \in {"close", "refund", "abandon"},
                 ev' = [ev EXCEPT ![t].pc = pc, ![t].unit = unit]
          PROVE  Paid'
      <3>1. /\ ev'[t].pc = pc /\ ev'[t].enforcing = ev[t].enforcing /\ ev'[t].unit = unit
            /\ \A u \in Threads \ {t} : ev'[u] = ev[u]
        BY <1>0, <2>3 DEF ThreadStates
      <3>2. Sure(t)'
        BY <1>0, <2>1, <3>1 DEF Sure, Agreed, WithStatus, Unstamped
      <3> QED BY <2>1, <3>1, <3>2, QuietPaid
    <2> QED BY <1>7, <2>2, <2>3 DEF DemoteLoad
  <1>8. CASE CloseRoot(t)
    <2>1. UNCHANGED <<res, credited>> /\ ev[t].pc = "close" /\ Finish(t)
      BY <1>8 DEF CloseRoot, At
    <2>2. ev[t].enforcing /\ (~EmissionCap => Agreed \subseteq credited)
      BY <1>0, <2>1 DEF Sure
    <2>3. VotesKept /\ AgreedPaid'
      BY <2>1, <2>2 DEF VotesKept, AgreedPaid, Agreed, WithStatus
    <2> QED BY <2>1, <2>2, <2>3, FinishSure, ThreadPaid
  <1> QED BY <1>1, <1>2, <1>3, <1>4, <1>5, <1>6, <1>7, <1>8 DEF Enforce

\* The unit's copies and quorum are never stamped.
LEMMA UnstampedStep ==
    ASSUME Types, Unstamped, [Next]_vars
    PROVE  Unstamped'
  <1> DEFINE Fixed == unit'.targetCopies = unit.targetCopies /\ unit'.minQuorum = unit.minQuorum
  <1> SUFFICES Fixed
    BY DEF Unstamped
  <1>0. ASSUME NEW s, SetState(s) PROVE Fixed
    BY <1>0 DEF SetState, Types, UnitRows
  <1>1. ASSUME NEW w, NEW b, NEW e, unit' = Refunded(unit, w, b, e) PROVE Fixed
    BY <1>1 DEF Refunded, Types, UnitRows
  <1>2. CASE UNCHANGED unit
    BY <1>2
  <1> HIDE DEF Fixed
  <1>3. ASSUME NEW v \in Volunteers, Volunteer(v) PROVE Fixed
    <2>1. ASSUME NEW spot \in BOOLEAN, ReserveNextAssignable(v, spot) PROVE Fixed
      BY <2>1 DEF ReserveNextAssignable, Types, UnitRows, Fixed
    <2>2. CASE MarkSpotCheck(v)
      BY <2>2 DEF MarkSpotCheck, Types, UnitRows, Fixed
    <2> QED BY <1>2, <1>3, <2>1, <2>2 DEF Volunteer, FlushSelect, FlushInsert, ReserveCopy, StartWork, SubmitTooLate,
                  ReleaseStaleHeldCopy, SetStanding, FailHeld
  <1>4. ASSUME NEW v \in Volunteers, NEW t \in Threads, Handler(v, t) PROVE Fixed
    BY <1>0, <1>2, <1>4 DEF Handler, SubmitResult, AbandonWorkUnit, ExpireCopy, PromoteHeld
  <1>5. ASSUME NEW t \in Threads, Background(t) \/ WithUnitLock(t) \/ Requeue(t) \/ Crash(t) PROVE Fixed
    <2>1. CASE ClearSpotCheck(t)
      BY <2>1 DEF ClearSpotCheck, Types, UnitRows, Fixed
    <2> QED BY <1>0, <1>2, <1>5, <2>1 DEF Background, RecoverySweep, RequeueRead, EnforceRoot, WithUnitLock,
              ReadOnly, Requeue, RequeueAbandon, RequeueReassign, Reassign, Crash
  <1>6. ASSUME NEW t \in Threads, Evaluate(t) PROVE Fixed
    BY <1>0, <1>2, <1>6 DEF Evaluate, EvUnit, EvResults, EvLive, EvDecide, EvMark, EvRollback,
       EvAccept, EvSupersede, EvReject, EvDeadLetter, EvReopen, ReadOnly
  <1>7. ASSUME NEW t \in Threads, Enforce(t) PROVE Fixed
    BY <1>0, <1>1, <1>2, <1>7 DEF Enforce, LoadFraudSet, Sanction, FlipToDisagreed, RepairFlip, RepairGrant,
       RepairDone, DemoteLoad, DemoteAbandon, DemoteUnit, RefundCopyBudget, DemoteRequeue, Reassign,
       CloseRoot, ReadOnly
  <1>8. ASSUME NEW S \in SUBSET Volunteers, NEW refund \in BOOLEAN, ReviveDeadLettered(S, refund)
        PROVE  Fixed
    <2> DEFINE w == Refunded(unit, unit, BudgetCopies', ErrorCopies')
               u == IF refund THEN w ELSE unit
    <2>1. unit' = [u EXCEPT !.state = "QUEUED"]
      BY <1>8 DEF ReviveDeadLettered
    <2>2. w.targetCopies = unit.targetCopies /\ w.minQuorum = unit.minQuorum
      BY DEF Refunded, Types, UnitRows
    <2> HIDE DEF w
    <2>3. unit'.targetCopies = u.targetCopies /\ unit'.minQuorum = u.minQuorum
      <3>1. unit' \in UnitRows
        BY <1>8, ReviveTyped DEF Types
      <3> HIDE DEF u
      <3> QED BY <2>1, <3>1 DEF UnitRows
    <2> QED BY <2>2, <2>3 DEF Fixed
  <1>9. CASE ConfirmMismatch \/ UNCHANGED vars
    BY <1>2, <1>9 DEF ConfirmMismatch, vars
  <1> QED BY <1>3, <1>4, <1>5, <1>6, <1>7, <1>8, <1>9 DEF Next

\* Paid and Unstamped hold together with Safe.
LEMMA PaidStep == Types /\ Safe /\ Paid /\ Unstamped /\ [Next]_vars => Paid' /\ Unstamped'
  <1> SUFFICES ASSUME Types, Safe, Paid, Unstamped, [Next]_vars PROVE Paid' /\ Unstamped'
    OBVIOUS
  <1>1. Paid'
    BY OutsideStepsPaid, HandlerPaid, BackgroundPaid, EvaluatePaid, EnforcePaid DEF Next
  <1> QED BY <1>1, UnstampedStep

\* ... and initially.
LEMMA PaidInit == Init => Paid /\ Unstamped
  <1> SUFFICES ASSUME Init PROVE Paid /\ Unstamped
    OBVIOUS
  <1>1. /\ Idle.pc = "idle" /\ Idle.enforcing = FALSE
        /\ Idle.unit.targetCopies = 0 /\ Idle.unit.minQuorum = 0
        /\ \A t \in Threads : ev[t] = Idle
    BY DEF Idle, InitUnit, Init
  <1>2. \A t \in Threads : Sure(t)
    BY <1>1 DEF Sure, EnforcePCs, RepairPCs, EvaluatePCs
  <1>3. OnePass /\ Unstamped
    BY <1>1 DEF OnePass, Unstamped, Init, InitUnit
  <1>4. AgreedPaid
    BY DEF AgreedPaid, WithStatus, Init, NoResult
  <1> QED BY <1>2, <1>3, <1>4 DEF Paid

\* When the advisory lock is honored and no emission cap suppresses a grant, AGREED work is
\* paid whenever no audit root is open: whatever crashes between the flip and the grant of a
\* repair, the root stays open until a pass has paid.
THEOREM AgreedPaidHolds ==
    ASSUME LockHonored
    PROVE  Spec => []AgreedPaid
  <1>1. Paid => AgreedPaid
    BY DEF Paid
  <1> QED BY <1>1, TypesInit, TypesStep, SafeInit, SafeStep, PaidInit, PaidStep, PTL DEF Spec

-----------------------------------------------------------------------------
(* What the steps do to the results.                                       *)

\* Nothing happens to results, credit and sanctions, and the unit is not finalized or reopened.
Still ==
    /\ UNCHANGED <<res, credited, sanctioned>>
    /\ unit'.state = unit.state \/ (~IsTerminalState(unit.state) /\ ~IsTerminalState(unit'.state))

\* A result is submitted, promoted or failed, or the unit is revived with its results.
Votes ==
    \/ \E v \in Volunteers, t \in Threads, o \in Outputs, ver \in Versions, held \in Holds :
          SubmitResult(v, o, ver, held, t)
    \/ \E v \in Volunteers, t \in Threads, served \in Outputs : PromoteHeld(v, served, t)
    \/ \E v \in Volunteers : FailHeld(v)
    \/ \E S \in SUBSET Volunteers, refund \in BOOLEAN : ReviveDeadLettered(S, refund)

\* A round is closed or the unit given up.
Decides ==
    \E t \in Threads : (\E granted \in SUBSET Volunteers : EvAccept(t, granted)) \/ EvReject(t) \/ EvDeadLetter(t)

\* A pass acts on the results, on the ledger or on the unit.
Audits ==
    \E t \in Threads : \/ Sanction(t) \/ FlipToDisagreed(t) \/ (\E v \in Volunteers : RepairFlip(t, v))
                       \/ (\E granted \in SUBSET Volunteers : RepairGrant(t, granted)) \/ DemoteUnit(t)

\* Every step is one of these.
LEMMA Kinds ==
    ASSUME Types, Paid, [Next]_vars
    PROVE  Still \/ Votes \/ Decides \/ Audits
  <1>1. CASE ConfirmMismatch \/ UNCHANGED vars
    BY <1>1 DEF ConfirmMismatch, vars, Still
  <1>2. ASSUME NEW v \in Volunteers, Volunteer(v) PROVE Still \/ Votes
    <2>1. ASSUME NEW spot \in BOOLEAN, ReserveNextAssignable(v, spot) PROVE Still
      BY <2>1 DEF ReserveNextAssignable, Types, UnitRows, Still
    <2>3. CASE MarkSpotCheck(v)
      BY <2>3 DEF MarkSpotCheck, Types, UnitRows, Still
    <2>2. CASE FlushSelect(v) \/ FlushInsert(v) \/ ReserveCopy(v) \/ StartWork(v) \/ SubmitTooLate(v)
              \/ ReleaseStaleHeldCopy(v) \/ (\E st \in Standings : SetStanding(v, st))
      BY <2>2 DEF FlushSelect, FlushInsert, ReserveCopy, StartWork, SubmitTooLate, ReleaseStaleHeldCopy, SetStanding, Still
    <2> QED BY <1>2, <2>1, <2>2, <2>3 DEF Volunteer, Votes
  <1>3. ASSUME NEW v \in Volunteers, NEW t \in Threads, Handler(v, t) PROVE Still \/ Votes
    <2>1. CASE (\E giveback \in BOOLEAN : AbandonWorkUnit(v, giveback, t))
             \/ (\E outcome \in {"EXPIRED", "ABANDONED"} : ExpireCopy(v, outcome, t))
      BY <2>1 DEF AbandonWorkUnit, ExpireCopy, Still
    <2> QED BY <1>3, <2>1 DEF Handler, Votes
  <1>4. ASSUME NEW t \in Threads, Background(t) \/ WithUnitLock(t) \/ Requeue(t) \/ Crash(t) PROVE Still
    <2>1. UNCHANGED <<res, credited, sanctioned>>
      BY <1>4 DEF Background, ClearSpotCheck, RecoverySweep, RequeueRead, EnforceRoot, WithUnitLock,
              ReadOnly, Requeue, RequeueAbandon, RequeueReassign, Crash
    <2>2. CASE ClearSpotCheck(t)
      BY <2>1, <2>2 DEF ClearSpotCheck, Types, UnitRows, Still
    <2>3. CASE RequeueReassign(t)
      BY <2>1, <2>3 DEF RequeueReassign, Reassign, SetState, Types, UnitRows, IsTerminalState, Still
    <2>4. CASE ~ClearSpotCheck(t) /\ ~RequeueReassign(t)
      BY <1>4, <2>1, <2>4 DEF Background, RecoverySweep, RequeueRead, EnforceRoot, WithUnitLock,
              ReadOnly, Requeue, RequeueAbandon, Crash, Still
    <2> QED BY <2>2, <2>3, <2>4
  <1>5. ASSUME NEW t \in Threads, Evaluate(t) PROVE Still \/ Decides
    <2>1. CASE EvMark(t)
      BY <2>1 DEF EvMark, SetState, Types, UnitRows, IsTerminalState, Still
    <2>2. CASE EvReopen(t)
      <3>1. ~IsTerminalState(ev[t].unit.state)
        BY <2>2 DEF Paid, Sure, EvReopen, At, EvaluatePCs
      <3> QED BY <2>2, <3>1 DEF EvReopen, SetState, Types, UnitRows, IsTerminalState, Still
    <2>3. CASE EvUnit(t) \/ EvResults(t) \/ EvLive(t) \/ EvDecide(t) \/ EvRollback(t) \/ EvSupersede(t)
      BY <2>3 DEF EvUnit, EvResults, EvLive, EvDecide, EvRollback, EvSupersede, ReadOnly, Still
    <2> QED BY <1>5, <2>1, <2>2, <2>3 DEF Evaluate, Decides
  <1>6. ASSUME NEW t \in Threads, Enforce(t) PROVE Still \/ Audits
    <2>1. CASE RefundCopyBudget(t)
      BY <2>1 DEF RefundCopyBudget, Refunded, Types, UnitRows, Still
    <2>2. CASE DemoteRequeue(t)
      BY <2>2 DEF DemoteRequeue, Reassign, SetState, Types, UnitRows, IsTerminalState, Still
    <2>3. CASE LoadFraudSet(t) \/ RepairDone(t) \/ DemoteLoad(t) \/ DemoteAbandon(t) \/ CloseRoot(t)
      BY <2>3 DEF LoadFraudSet, RepairDone, DemoteLoad, DemoteAbandon, CloseRoot, ReadOnly, Still
    <2> QED BY <1>6, <2>1, <2>2, <2>3 DEF Enforce, Audits
  <1> QED BY <1>1, <1>2, <1>3, <1>4, <1>5, <1>6 DEF Next, Votes

\* What a vote's row may become, whatever the step: only an undecided result gets a verdict,
\* and a decided one changes only in a pass.
LEMMA RowMoves ==
    ASSUME Types, Safe, Paid, [Next]_vars, NEW v \in Volunteers
    PROVE  /\ res[v].status = "AGREED" =>
                \/ res'[v] = res[v]
                \/ res'[v].status = "DISAGREED" /\ res'[v].output = res[v].output /\ root = "open"
           /\ res[v].status = "DISAGREED" =>
                \/ res'[v] = res[v]
                \/ /\ res'[v].status = "AGREED" /\ res'[v].output = res[v].output /\ root = "open"
                   /\ res[v].output = Truth
           /\ res'[v].status # "NONE" /\ (res[v].status # "NONE" => res[v].output \in Outputs)
                => res'[v].output \in Outputs
  <1>0. res[v] \in ResultRow /\ \A t \in Threads : Good(t) /\ Sure(t)
    BY GoodThreads DEF Types, ResTyped, Safe, Paid
  <1>1. CASE Still
    BY <1>1 DEF Still
  <1>2. CASE Votes
    <2>1. ASSUME NEW w \in Volunteers, NEW t \in Threads, NEW o \in Outputs, NEW ver \in Versions,
                 NEW held \in Holds, SubmitResult(w, o, ver, held, t)
          PROVE  res'[v] = res[v] \/ (res[v].status = "NONE" /\ res'[v].output = o)
      <3> DEFINE r == [ status |-> IF held THEN "AWAITING_CONTENT_VERIFICATION" ELSE "PENDING",
                        output |-> o, version |-> ver, standing |-> standing[w] ]
      <3>1. r.output = o
        OBVIOUS
      <3>2. res' = [res EXCEPT ![w] = r] /\ res[w].status = "NONE"
        BY <2>1 DEF SubmitResult
      <3> HIDE DEF r
      <3>3. res'[w] = r /\ (v # w => res'[v] = res[v])
        BY <3>2 DEF Types, ResTyped
      <3> QED BY <3>1, <3>2, <3>3
    <2>2. ASSUME NEW w \in Volunteers, NEW t \in Threads, NEW served \in Outputs, PromoteHeld(w, served, t)
          PROVE  \/ res'[v] = res[v]
                 \/ res[v].status = "AWAITING_CONTENT_VERIFICATION" /\ res'[v].output = served
      BY <1>0, <2>2 DEF PromoteHeld, ResultRow, Types, ResTyped
    <2>3. ASSUME NEW w \in Volunteers, FailHeld(w)
          PROVE  \/ res'[v] = res[v]
                 \/ res[v].status = "AWAITING_CONTENT_VERIFICATION" /\ res'[v].output = res[v].output
      BY <1>0, <2>3 DEF FailHeld, ResultRow, Types, ResTyped
    <2>4. ASSUME NEW S \in SUBSET Volunteers, NEW refund \in BOOLEAN, ReviveDeadLettered(S, refund)
          PROVE  \/ res'[v] = res[v]
                 \/ res[v].status = "SUPERSEDED" /\ res'[v].output = res[v].output
      BY <1>0, <2>4 DEF ReviveDeadLettered, ResultRow
    <2> QED BY <1>2, <2>1, <2>2, <2>3, <2>4 DEF Votes
  <1>3. ASSUME NEW t \in Threads, NEW granted \in SUBSET Volunteers, EvAccept(t, granted)
        PROVE  /\ res[v].status # "PENDING" => res'[v] = res[v]
               /\ res'[v].output = res[v].output
               /\ res[v].status = "NONE" => res'[v].status = "NONE"
    <2> DEFINE P == ev[t].pend
               G == VersionGroup(P)
    <2>1. P \subseteq Pending /\ res' = Adjudicated(P) /\ P \in SUBSET Volunteers
      BY <1>0, <1>3 DEF EvAccept, Good, At, Types, ThreadStates
    <2>2. G \subseteq Pending /\ Majority(G) \subseteq Pending
      BY <2>1, GroupsInSnapshot
    <2>3. res[v].status # "PENDING" => res'[v] = res[v]
      BY <2>1, <2>2 DEF Adjudicated, Pending, WithStatus
    <2>4. res'[v].output = res[v].output
      BY <1>0, <2>1 DEF Adjudicated, ResultRow
    <2> QED BY <2>3, <2>4
  <1>4. ASSUME NEW t \in Threads, EvReject(t) \/ EvDeadLetter(t)
        PROVE  /\ res[v].status # "PENDING" => res'[v] = res[v]
               /\ res'[v].output = res[v].output
    <2>1. CASE EvDeadLetter(t)
      BY <1>0, <2>1 DEF EvDeadLetter, Pending, WithStatus, ResultRow
    <2>2. CASE EvReject(t)
      <3>1. VersionGroup(ev[t].pend) \subseteq Pending
        BY <1>0, <2>2, GroupsInSnapshot DEF EvReject, Good, At, Types, ThreadStates
      <3>2. res' = [w \in Volunteers |->
                      IF w \in VersionGroup(ev[t].pend) THEN [res[w] EXCEPT !.status = "DISAGREED"] ELSE res[w]]
        BY <2>2 DEF EvReject
      <3> QED BY <1>0, <3>1, <3>2 DEF Pending, WithStatus, ResultRow
    <2> QED BY <1>4, <2>1, <2>2
  <1>5. CASE Decides
    BY <1>3, <1>4, <1>5 DEF Decides
  <1>6. ASSUME NEW t \in Threads, FlipToDisagreed(t)
        PROVE  \/ res'[v] = res[v]
               \/ /\ res[v].status = "AGREED" /\ root = "open"
                  /\ res'[v].status = "DISAGREED" /\ res'[v].output = res[v].output
    <2>1. ev[t].pend \subseteq Agreed /\ root = "open"
      BY <1>0, <1>6 DEF FlipToDisagreed, At, Good, Sure, EnforcePCs, Agreed
    <2> QED BY <1>0, <1>6, <2>1 DEF FlipToDisagreed, Agreed, WithStatus, ResultRow
  <1>7. ASSUME NEW t \in Threads, NEW w \in Volunteers, RepairFlip(t, w)
        PROVE  \/ res'[v] = res[v]
               \/ /\ res[v].status = "DISAGREED" /\ root = "open" /\ res[v].output = Truth
                  /\ res'[v].status = "AGREED" /\ res'[v].output = res[v].output
    <2>1. root = "open"
      BY <1>0, <1>7 DEF RepairFlip, At, Sure, EnforcePCs
    <2> QED BY <1>0, <1>7, <2>1 DEF RepairFlip, ResultRow, Types, ResTyped
  <1>8. CASE Audits
    <2>1. CASE \E t \in Threads : FlipToDisagreed(t)
      BY <1>0, <1>6, <2>1 DEF ResultRow
    <2>2. CASE \E t \in Threads, w \in Volunteers : RepairFlip(t, w)
      BY <1>0, <1>7, <2>2 DEF ResultRow
    <2>3. CASE UNCHANGED res
      BY <2>3
    <2> QED BY <1>8, <2>1, <2>2, <2>3 DEF Audits, Sanction, RepairGrant, DemoteUnit
  <1> QED BY <1>1, <1>2, <1>5, <1>8, Kinds

\* When the advisory lock is honored, a verdict once given stands unless a pass on an open
\* root overturns it, and then only for the audited truth.
THEOREM VerdictsStandHolds ==
    ASSUME LockHonored
    PROVE  Spec => VerdictsStand
  <1> DEFINE Stands ==
        \A v \in Volunteers :
         /\ res[v].status = "AGREED" => res'[v].status \in {"AGREED", "DISAGREED"}
         /\ res[v].status = "DISAGREED" => res'[v].status \in {"AGREED", "DISAGREED"}
         /\ res[v].status # res'[v].status /\ res[v].status \in {"AGREED", "DISAGREED"} =>
              root = "open" /\ (res[v].status = "DISAGREED" => res[v].output = Truth)
  <1>1. Types /\ Safe /\ Paid /\ [Next]_vars => Stands
    BY RowMoves
  <1>2. Types /\ Safe /\ Paid /\ [Next]_vars => [Stands]_vars
    BY <1>1
  <1> HIDE DEF Stands
  <1>3. Spec => [][Stands]_vars
    BY <1>2, TypesInit, TypesStep, SafeInit, SafeStep, PaidInit, PaidStep, PTL DEF Spec
  <1> QED BY <1>3 DEF VerdictsStand, Stands

-----------------------------------------------------------------------------
(* Acceptance.                                                             *)

\* Whoever has a result has submitted an output.
Filed == \A v \in Volunteers : res[v].status # "NONE" => res[v].output \in Outputs

\* No step files a result without an output.
LEMMA FiledStep == Types /\ Safe /\ Paid /\ Filed /\ [Next]_vars => Filed'
  BY RowMoves DEF Filed

\* A fresh unit has no results.
LEMMA FiledInit == Init => Filed
  BY DEF Init, Filed, NoResult

\* Distinct subjects can be counted.
LEMMA SubjectsFinite ==
    ASSUME NEW S \in SUBSET Volunteers
    PROVE  IsFiniteSet({Subject[v] : v \in S})
  <1> DEFINE f == [v \in S |-> Subject[v]]
  <1>1. IsFiniteSet(S)
    BY Counting
  <1>2. f \in Surjection(S, {Subject[v] : v \in S})
    BY DEF Surjection
  <1> QED BY <1>1, <1>2, FS_Surjection

\* The compared results share a version, and it is one of the snapshot's.
LEMMA GroupVersion ==
    ASSUME NEW P \in SUBSET Volunteers
    PROVE  \E a : VersionGroup(P) = OfVersion(P, a)
  BY DEF VersionGroup

\* Two winners have the same output: each group of equal outputs would outnumber the other.
LEMMA MajorityAgrees ==
    ASSUME Types, Filed, NEW G \in SUBSET Pending, NEW v \in Majority(G), NEW w \in Majority(G)
    PROVE  res[v].output = res[w].output
  <1> SUFFICES ASSUME res[v].output # res[w].output PROVE FALSE
    OBVIOUS
  <1> DEFINE n == Cardinality(OfOutput(G, res[v].output))
             m == Cardinality(OfOutput(G, res[w].output))
  <1>1. n \in Nat /\ m \in Nat
    BY Counting DEF OfOutput, Pending, WithStatus
  <1>2. v \in Volunteers /\ w \in Volunteers /\ res[v].status = "PENDING" /\ res[w].status = "PENDING"
    BY DEF Majority, Pending, WithStatus
  <1>3. /\ res[v].output \in Outputs \ Unreadable
        /\ res[w].output \in Outputs \ Unreadable
    BY <1>2 DEF Majority, Filed
  <1>4. n > m /\ m > n
    BY <1>3 DEF Majority
  <1> HIDE DEF n, m
  <1> QED BY <1>1, <1>4

\* A spot check only raises the quorum, and with it the number of trusted corroborators.
LEMMA SpotCheckRaises ==
    ASSUME NEW u \in UnitRows, NEW w \in UnitRows, u.targetCopies = 0, u.minQuorum = 0,
           w.targetCopies = 0, w.minQuorum = 0, w.spotCheck = FALSE
    PROVE  /\ PolicyOf(w).minQuorum \in Nat \ {0}
           /\ PolicyOf(u).minQuorum \in Nat
           /\ PolicyOf(w).minTrusted \in Nat
           /\ PolicyOf(u).minTrusted \in Nat
           /\ PolicyOf(w).minQuorum <= PolicyOf(u).minQuorum
           /\ PolicyOf(w).minTrusted <= PolicyOf(u).minTrusted
  <1> DEFINE et == EffectiveTargetCopies(Leaf)
             eq == EffectiveMinQuorum(Leaf)
             t(x) == MaxOf(IF x THEN MaxOf(Override(0, et), 2) ELSE Override(0, et), 1)
             q(x) == MinOf(MaxOf(IF x THEN t(x) ELSE Override(0, eq), 1), t(x))
             k == Override(Leaf.minTrusted, DefaultK)
  <1>1. /\ Leaf.redundancyFactor \in Nat /\ Leaf.targetCopies \in Nat /\ Leaf.minQuorum \in Nat
        /\ Leaf.minTrusted \in Nat
    BY ConstantsAssumption DEF LeafConfigs
  <1>2. et \in Nat /\ et >= 1
    BY <1>1 DEF EffectiveTargetCopies, Override, MaxOf
  <1>3. eq \in Nat /\ eq <= et /\ eq >= 1
    <2> HIDE DEF et
    <2> QED BY <1>1, <1>2 DEF EffectiveMinQuorum, Override, MaxOf, MinOf, et
  <1>4. k \in Nat
    BY <1>1, ConstantsAssumption DEF Override
  <1> HIDE DEF et, eq, k
  <1>5. Override(0, et) = et /\ Override(0, eq) = eq
    BY DEF Override
  <1>6. q(FALSE) = eq /\ q(TRUE) \in Nat /\ q(TRUE) >= eq
    BY <1>2, <1>3, <1>5 DEF MaxOf, MinOf
  <1>7. u.spotCheck \in BOOLEAN
    BY DEF UnitRows
  <1>8. ResolvePolicy(Leaf, u).minQuorum = q(u.spotCheck)
    BY Zenon DEF ResolvePolicy, et, eq
  <1>9. ResolvePolicy(Leaf, w).minQuorum = q(w.spotCheck)
    BY Zenon DEF ResolvePolicy, et, eq
  <1> DEFINE qu == ResolvePolicy(Leaf, u).minQuorum
             qw == ResolvePolicy(Leaf, w).minQuorum
  <1>10. qw = eq /\ qu \in Nat /\ qu >= eq
    <2> HIDE DEF q
    <2>1. qw = q(FALSE)
      BY <1>9, Zenon
    <2>2. qu = q(TRUE) \/ qu = q(FALSE)
      BY <1>7, <1>8, Zenon
    <2> DEFINE a == q(TRUE)
               b == q(FALSE)
    <2>3. (qu = a \/ qu = b) /\ qw = b /\ b = eq /\ a \in Nat /\ a >= eq
      BY <1>6, <2>1, <2>2, Zenon
    <2> HIDE DEF a, b, qu, qw
    <2> QED BY <1>3, <2>3
  <1>11. /\ PolicyOf(u).minQuorum = qu /\ PolicyOf(w).minQuorum = qw
         /\ PolicyOf(u).minTrusted = IF TrustGate THEN MinOf(k, qu) ELSE 0
         /\ PolicyOf(w).minTrusted = IF TrustGate THEN MinOf(k, qw) ELSE 0
    BY DEF PolicyOf, ResolveTrust, k
  <1> HIDE DEF qu, qw, q, t
  <1> QED BY <1>3, <1>4, <1>10, <1>11 DEF MinOf

\* The accept transaction, on a fresh snapshot in which the quorum agrees.
LEMMA AcceptIsSound ==
    ASSUME Types, Safe, Paid, Unstamped, Filed, NEW t \in Threads, NEW granted \in SUBSET Volunteers,
           EvAccept(t, granted)
    PROVE  AcceptSound
  <1> DEFINE P == ev[t].pend
             G == VersionGroup(P)
             maj == Majority(G)
             won == {v \in Volunteers : v \in Pending /\ res'[v].status = "AGREED"}
             counted == {v \in Pending : res[v].standing = "OK" /\
                                         \A w \in won : res[w].version = res[v].version}
             for == {Subject[v] : v \in counted \cap won}
             against == {Subject[v] : v \in counted \ won}
             trusted == {s \in for \ against : \E v \in Trusted \cap counted : Subject[v] = s}
             plain == [unit EXCEPT !.spotCheck = FALSE]
             policy == PolicyOf(plain)
             used0 == PolicyOf(ev[t].unit)
  <1>0. Good(t) /\ Sure(t) /\ ev[t].pc = "accept" /\ ev[t] \in ThreadStates
    BY GoodThreads DEF Safe, Paid, EvAccept, At, Types
  <1>1. P = Pending /\ P \in SUBSET Volunteers
    BY <1>0, FreshSnapshot DEF Good, EvAccept, Pending, WithStatus
  <1>2. G \subseteq Pending /\ maj \subseteq G
    BY <1>1, GroupsInSnapshot
  <1>3. won = maj
    <2>1. res' = Adjudicated(P)
      BY DEF EvAccept
    <2>2. \A v \in Volunteers : res[v] \in ResultRow
      BY DEF Types, ResTyped
    <2>3. ASSUME NEW v \in Volunteers PROVE v \in won <=> v \in maj
      BY <1>2, <2>1, <2>2 DEF Adjudicated, Pending, WithStatus, ResultRow
    <2> QED BY <1>1, <1>2, <2>3
  <1>4. Reached(t)
    BY <1>0 DEF Sure
  <1>5. PICK a : G = OfVersion(P, a)
    BY <1>1, GroupVersion
  <1>6. ev[t].unit \in UnitRows /\ plain \in UnitRows
    BY <1>0 DEF ThreadStates, Types, UnitRows
  <1>7. /\ ev[t].unit.targetCopies = 0 /\ ev[t].unit.minQuorum = 0
        /\ plain.targetCopies = 0 /\ plain.minQuorum = 0 /\ plain.spotCheck = FALSE
    BY <1>0 DEF Sure, Unstamped, Types, UnitRows
  <1>8. /\ policy.minQuorum \in Nat \ {0} /\ used0.minQuorum \in Nat
        /\ policy.minTrusted \in Nat /\ used0.minTrusted \in Nat
        /\ policy.minQuorum <= used0.minQuorum /\ policy.minTrusted <= used0.minTrusted
    <2> HIDE DEF plain
    <2> QED BY <1>6, <1>7, SpotCheckRaises
  <1> DEFINE good == {v \in G : StandingCountable(v)}
             subjects == {Subject[v] : v \in good}
             agreeing == {s \in subjects : \A v \in good : Subject[v] = s => v \in maj}
             backed == {s \in agreeing : \E v \in good : Subject[v] = s /\ v \in Trusted}
  <1>9. /\ Cardinality(agreeing) >= used0.minQuorum
        /\ 2 * Cardinality(agreeing) > Cardinality(subjects)
        /\ Cardinality(backed) >= used0.minTrusted
    BY <1>4 DEF Reached, Verdict, Group, ComparisonVerdict, QuorumAgreement
  <1> HIDE DEF policy, used0, maj, G, P
  <1>10. IsFiniteSet(subjects)
    <2>1. good \in SUBSET Volunteers
      BY <1>2 DEF Pending, WithStatus
    <2> QED BY <2>1, SubjectsFinite
  <1>11. IsFiniteSet(agreeing) /\ Cardinality(agreeing) \in Nat
    BY <1>10, FS_Subset, FS_CardinalityType
  <1>12. won # {}
    <2>1. agreeing # {}
      <3>1. Cardinality(agreeing) # 0
        <4> HIDE DEF agreeing
        <4> QED BY <1>8, <1>9, <1>11
      <3> QED BY <3>1, FS_EmptySet
    <2> QED BY <1>3, <2>1
  <1>13. counted = good
    <2>1. \A v \in Pending : v \in G <=> res[v].version = a
      BY <1>1, <1>5 DEF OfVersion
    <2>2. \A w \in won : res[w].version = a
      BY <1>2, <1>3, <2>1
    <2>3. \A v \in Pending : (\A w \in won : res[w].version = res[v].version) <=> v \in G
      <3> HIDE DEF won
      <3> QED BY <1>12, <2>1, <2>2
    <2> HIDE DEF won
    <2> QED BY <1>2, <2>3 DEF StandingCountable
  <1>14. agreeing = for \ against /\ subjects = (for \ against) \cup against
    <2> HIDE DEF won, counted, good
    <2> QED BY <1>3, <1>13
  <1>15. backed = trusted
    <2> HIDE DEF won, counted, good
    <2>1. backed = {s \in for \ against : \E v \in good : Subject[v] = s /\ v \in Trusted}
      BY <1>14
    <2> HIDE DEF backed, for, against
    <2> QED BY <1>13, <2>1
  <1>16. Cardinality(subjects) = Cardinality(for \ against) + Cardinality(against)
         /\ Cardinality(against) \in Nat
    <2> HIDE DEF for, subjects, agreeing, against
    <2>1. IsFiniteSet(against) /\ IsFiniteSet(for \ against)
      <3>1. against \in SUBSET subjects
        BY <1>14
      <3> QED BY <1>10, <1>11, <1>14, <3>1, FS_Subset
    <2>2. (for \ against) \cap against = {}
      OBVIOUS
    <2> DEFINE S == for \ against
    <2>3. /\ Cardinality(S \cup against) = Cardinality(S) + Cardinality(against) - Cardinality(S \cap against)
          /\ Cardinality(S) \in Nat /\ Cardinality(against) \in Nat
      BY <2>1, FS_Union, FS_CardinalityType
    <2>4. Cardinality(S \cap against) = 0
      BY <2>2, FS_EmptySet
    <2> QED BY <1>14, <2>3, <2>4
  <1>17. \A v, w \in won : res[v].version = res[w].version /\ res[v].output = res[w].output
    <2>1. \A v \in won : v \in G /\ res[v].version = a
      BY <1>3, <1>2, <1>5 DEF OfVersion
    <2>2. \A v, w \in maj : res[v].output = res[w].output
      BY <1>2, MajorityAgrees DEF maj
    <2> HIDE DEF won
    <2> QED BY <1>3, <2>1, <2>2
  <1> HIDE DEF subjects, agreeing, backed, good
  <1>18. /\ Cardinality(for \ against) >= policy.minQuorum
         /\ Cardinality(for \ against) > Cardinality(against)
    <2> DEFINE n == Cardinality(for \ against)
               m == Cardinality(against)
    <2>1. n >= used0.minQuorum /\ 2 * n > n + m /\ n \in Nat /\ m \in Nat
      BY <1>9, <1>11, <1>14, <1>16
    <2> HIDE DEF n, m
    <2> QED BY <1>8, <2>1 DEF n, m
  <1>19. Cardinality(trusted) >= policy.minTrusted
    <2>1. IsFiniteSet(trusted)
      BY <1>11, <1>14, FS_Subset
    <2>2. Cardinality(trusted) \in Nat /\ Cardinality(trusted) >= used0.minTrusted
      BY <1>9, <1>15, <2>1, FS_CardinalityType
    <2> HIDE DEF trusted
    <2> QED BY <1>8, <2>2
  <1> HIDE DEF won, counted, for, against, plain
  <1> QED BY <1>17, <1>18, <1>19, Zenon DEF AcceptSound, won, counted, for, against, policy, plain, trusted

\* A revived unit is QUEUED.
LEMMA ReviveState ==
    ASSUME Types, NEW S \in SUBSET Volunteers, NEW refund \in BOOLEAN, ReviveDeadLettered(S, refund)
    PROVE  unit'.state = "QUEUED"
  <1>1. unit' \in UnitRows
    BY ReviveTyped DEF Types
  <1> DEFINE u == IF refund THEN Refunded(unit, unit, BudgetCopies', ErrorCopies') ELSE unit
  <1>2. unit' = [u EXCEPT !.state = "QUEUED"]
    BY DEF ReviveDeadLettered
  <1> HIDE DEF u
  <1> QED BY <1>1, <1>2 DEF UnitRows

\* Only the accept transaction validates a unit.
LEMMA AcceptOnly ==
    ASSUME Types, Safe, Paid, [Next]_vars, unit.state # "VALIDATED", unit'.state = "VALIDATED"
    PROVE  \E t \in Threads, granted \in SUBSET Volunteers : EvAccept(t, granted)
  <1>1. CASE Still
    BY <1>1 DEF Still, IsTerminalState
  <1>2. CASE Votes
    <2>1. ASSUME NEW S \in SUBSET Volunteers, NEW refund \in BOOLEAN, ReviveDeadLettered(S, refund)
          PROVE  FALSE
      BY <2>1, ReviveState
    <2>2. ASSUME NEW v \in Volunteers, NEW t \in Threads, NEW o \in Outputs, NEW ver \in Versions,
                 NEW held \in Holds, SubmitResult(v, o, ver, held, t)
          PROVE  FALSE
      BY <2>2 DEF SubmitResult, SetState, Types, UnitRows
    <2>3. CASE UNCHANGED unit
      BY <2>3
    <2> QED BY <1>2, <2>1, <2>2, <2>3 DEF Votes, PromoteHeld, FailHeld
  <1>3. CASE Decides
    <2>1. ASSUME NEW t \in Threads, EvReject(t) \/ EvDeadLetter(t) PROVE FALSE
      BY <2>1 DEF EvReject, EvDeadLetter, SetState, Types, UnitRows
    <2> QED BY <1>3, <2>1 DEF Decides
  <1>4. CASE Audits
    <2>1. ASSUME NEW t \in Threads, DemoteUnit(t) PROVE FALSE
      BY <2>1 DEF DemoteUnit, SetState, Types, UnitRows
    <2> QED BY <1>4, <2>1 DEF Audits, Sanction, FlipToDisagreed, RepairFlip, RepairGrant
  <1> QED BY <1>1, <1>2, <1>3, <1>4, Kinds

\* When the advisory lock is honored, every acceptance is sound at the moment it commits: the
\* quorum that the snapshot showed some statements earlier is the quorum of the results then
\* in the database.
THEOREM AcceptsAreSoundHolds ==
    ASSUME LockHonored
    PROVE  Spec => AcceptsAreSound
  <1>1. Types /\ Safe /\ Paid /\ Unstamped /\ Filed /\ [Next]_vars => AcceptSound
    <2> SUFFICES ASSUME Types, Safe, Paid, Unstamped, Filed, [Next]_vars,
                        unit.state # "VALIDATED", unit'.state = "VALIDATED"
                 PROVE  AcceptSound
      BY Zenon DEF AcceptSound
    <2> QED BY AcceptOnly, AcceptIsSound
  <1>2. Types /\ Safe /\ Paid /\ Unstamped /\ Filed /\ [Next]_vars => [AcceptSound]_vars
    BY <1>1
  <1> QED BY <1>2, TypesInit, TypesStep, SafeInit, SafeStep, PaidInit, PaidStep, FiledInit, FiledStep,
             PTL DEF Spec, AcceptsAreSound

-----------------------------------------------------------------------------
(* Enforcement passes that run to their end.                               *)

\* A pass is cut short: the process that runs it dies, or one of its statements fails.
PassCut == \E t \in Threads : ev[t].enforcing /\ Crash(t)

\* Past the flip.
AuditPCs == RepairPCs \cup {"grant"}

\* What enforcement starts from: an accepted unit whose winners are all refuted.
Refuted == unit.state = "VALIDATED" /\ \A v \in Agreed : res[v].output # Truth

\* A pass repairs and demotes an accepted unit only, demotes it only when nobody is left
\* winning, and always finds the demotion it was about to make still to be made.
Placed(u) ==
    /\ ev[u].pc \in {"repair", "grant", "dispose", "abandon", "demote"} => unit.state = "VALIDATED"
    /\ ev[u].pc \in {"dispose", "abandon", "demote"} => Agreed = {}
    /\ ev[u].pc = "grant" => \E v \in Volunteers : ev[u].pend = {v}
    /\ ev[u].pc # "reload"

\* An open root is still as the runners left it, unless a pass is past the flip.
Rooted == root = "open" => Refuted \/ \E t \in Threads : ev[t].pc \in AuditPCs

\* Who was sanctioned has a verdict.
Settled == \A v \in sanctioned : res[v].status \in {"AGREED", "DISAGREED"}

Calm == (\A u \in Threads : Placed(u)) /\ Rooted /\ Settled /\ HonestNotSanctioned

\* A step neither enters nor leaves the second half of a pass, nor moves within it.
Steady == \A u \in Threads : ev[u].pc \in AuditPCs \/ ev'[u].pc \in AuditPCs => ev'[u] = ev[u]

\* Only a pass moves a thread there.
LEMMA OthersSteady ==
    ASSUME Types, Paid, [Next]_vars, ~PassCut, ~ \E t \in Threads : Enforce(t)
    PROVE  Steady
  <1> USE DEF AuditPCs, RepairPCs
  <1>0. Idle.pc = "idle"
    BY DEF Idle
  <1>1. CASE UNCHANGED ev
    BY <1>1 DEF Steady
  <1>2. ASSUME NEW t \in Threads, Finish(t), ev[t].pc \notin AuditPCs PROVE Steady
    <2>1. ev'[t] = Idle /\ \A u \in Threads \ {t} : ev'[u] = ev[u]
      BY <1>2 DEF Finish, Types
    <2> QED BY <1>0, <1>2, <2>1 DEF Steady
  <1>3. ASSUME NEW t \in Threads, Trigger(t) PROVE Steady
    <2>1. /\ ev[t].pc = "idle" /\ ev'[t].pc = "lock"
          /\ \A u \in Threads \ {t} : ev'[u] = ev[u]
      BY <1>3 DEF Trigger, Types, ThreadStates
    <2> QED BY <2>1 DEF Steady
  <1>4. ASSUME NEW t \in Threads, NEW pc, Goto(t, pc), pc \notin AuditPCs, ev[t].pc \notin AuditPCs PROVE Steady
    <2>1. ev'[t].pc = pc /\ \A u \in Threads \ {t} : ev'[u] = ev[u]
      BY <1>4, GotoFields
    <2> QED BY <1>4, <2>1 DEF Steady
  <1>5. ASSUME NEW t \in Threads, Background(t) \/ WithUnitLock(t) \/ Requeue(t) PROVE Steady
    <2>1. CASE RecoverySweep(t) \/ ClearSpotCheck(t)
      BY <1>3, <2>1 DEF RecoverySweep, ClearSpotCheck
    <2>2. CASE RequeueRead(t)
      <3>1. ev[t].pc = "idle" /\ ev'[t].pc = "rq_abandon" /\ \A u \in Threads \ {t} : ev'[u] = ev[u]
        BY <2>2 DEF RequeueRead, At, Types, ThreadStates
      <3> QED BY <3>1 DEF Steady
    <2>3. CASE EnforceRoot(t)
      <3>1. ev[t].pc = "idle" /\ ev'[t].pc = "lock" /\ \A u \in Threads \ {t} : ev'[u] = ev[u]
        BY <2>3 DEF EnforceRoot, At, Types, ThreadStates
      <3> QED BY <3>1 DEF Steady
    <2>4. CASE WithUnitLock(t)
      <3>1. ev[t].pc = "lock" /\ ev'[t].pc \in {"fraud", "unit"} /\ \A u \in Threads \ {t} : ev'[u] = ev[u]
        BY <2>4 DEF WithUnitLock, At, Types, ThreadStates
      <3> QED BY <3>1 DEF Steady
    <2>5. CASE Requeue(t)
      <3>1. /\ ev[t].pc \in {"rq_abandon", "rq_reassign"} /\ ev'[t].pc \in {"idle", "rq_reassign"}
            /\ \A u \in Threads \ {t} : ev'[u] = ev[u]
        BY <2>5, <1>0 DEF Requeue, RequeueAbandon, RequeueReassign, At, Types, ThreadStates
      <3> QED BY <3>1 DEF Steady
    <2> QED BY <1>5, <2>1, <2>2, <2>3, <2>4, <2>5 DEF Background
  <1>6. ASSUME NEW t \in Threads, Crash(t) PROVE Steady
    <2>1. ev[t].pc \notin AuditPCs
      BY <1>6 DEF PassCut, Paid, Sure, EnforcePCs
    <2> QED BY <1>2, <1>6, <2>1 DEF Crash
  <1>7. ASSUME NEW t \in Threads, Evaluate(t) PROVE Steady
    <2>1. ev[t].pc \notin AuditPCs
      BY <1>7 DEF Evaluate, EvUnit, EvResults, EvLive, EvDecide, EvMark, EvRollback,
       EvAccept, EvSupersede, EvReject, EvDeadLetter, EvReopen, At
    <2>2. CASE EvUnit(t) \/ EvResults(t) \/ EvLive(t)
      <3>1. CASE ~Finish(t)
        <4>1. ev'[t].pc \in {"results", "live", "decide"} /\ \A u \in Threads \ {t} : ev'[u] = ev[u]
          BY <2>2, <3>1 DEF EvUnit, EvResults, EvLive, Types, ThreadStates
        <4> QED BY <2>1, <4>1 DEF Steady
      <3> QED BY <1>2, <2>1, <3>1
    <2>3. CASE EvDecide(t)
      <3>1. CASE ~Finish(t)
        <4>1. PICK d \in {Decide(s) : s \in {Snapshot(ev[t])}}, next \in {"deadletter", "reopen", "mark"} :
                ev' = [ev EXCEPT ![t] = [@ EXCEPT !.pc = next, !.action = d.action, !.live = 0]]
          BY <2>3, <3>1 DEF EvDecide
        <4>2. ev'[t].pc = next /\ \A u \in Threads \ {t} : ev'[u] = ev[u]
          BY <4>1 DEF Types, ThreadStates
        <4> QED BY <2>1, <4>2 DEF Steady
      <3> QED BY <1>2, <2>1, <3>1
    <2>4. CASE EvMark(t)
      BY <1>2, <1>4, <2>1, <2>4 DEF EvMark
    <2>5. CASE EvRollback(t)
      <3>1. CASE ~Finish(t)
        <4>1. ev' = [ev EXCEPT ![t] = [Idle EXCEPT !.pc = "unit", !.retried = TRUE]]
          BY <2>5, <3>1 DEF EvRollback
        <4>2. ev'[t].pc = "unit" /\ \A u \in Threads \ {t} : ev'[u] = ev[u]
          BY <4>1 DEF Types, Idle
        <4> QED BY <2>1, <4>2 DEF Steady
      <3> QED BY <1>2, <2>1, <3>1
    <2>6. ASSUME NEW granted \in SUBSET Volunteers, EvAccept(t, granted) PROVE Steady
      <3>1. ev' = [ev EXCEPT ![t] = [Idle EXCEPT !.pc = "supersede"]]
        BY <2>6 DEF EvAccept
      <3>2. ev'[t].pc = "supersede" /\ \A u \in Threads \ {t} : ev'[u] = ev[u]
        BY <3>1 DEF Types, Idle
      <3> QED BY <2>1, <3>2 DEF Steady
    <2>7. CASE EvSupersede(t) \/ EvReject(t) \/ EvDeadLetter(t) \/ EvReopen(t)
      BY <1>2, <2>1, <2>7 DEF EvSupersede, EvReject, EvDeadLetter, EvReopen
    <2> QED BY <1>7, <2>2, <2>3, <2>4, <2>5, <2>6, <2>7 DEF Evaluate
  <1>8. ASSUME NEW v \in Volunteers, NEW t \in Threads, Handler(v, t) PROVE Steady
    BY <1>3, <1>8 DEF Handler, SubmitResult, AbandonWorkUnit, ExpireCopy, PromoteHeld
  <1>9. CASE \/ \E v \in Volunteers : Volunteer(v)
             \/ \E S \in SUBSET Volunteers, refund \in BOOLEAN : ReviveDeadLettered(S, refund)
             \/ ConfirmMismatch
             \/ UNCHANGED vars
    <2>1. UNCHANGED ev
      BY <1>9 DEF Volunteer, FlushSelect, FlushInsert, MarkSpotCheck, ReserveCopy, ReserveNextAssignable,
              StartWork, SubmitTooLate,
              ReleaseStaleHeldCopy, FailHeld, SetStanding, ReviveDeadLettered, ConfirmMismatch, vars
    <2> QED BY <1>1, <2>1
  <1> QED BY <1>5, <1>6, <1>7, <1>8, <1>9 DEF Next

\* Outside a pass an accepted unit stays accepted, with its winners.
LEMMA AcceptedStays ==
    ASSUME Types, Safe, Paid, [Next]_vars, ~ \E t \in Threads : Enforce(t), unit.state = "VALIDATED"
    PROVE  /\ unit'.state = "VALIDATED" /\ Agreed' = Agreed
           /\ \A v \in Agreed : res'[v].output = res[v].output
  <1>1. CASE Still
    BY <1>1 DEF Still, IsTerminalState, Agreed, WithStatus
  <1>2. CASE Votes
    <2>1. PICK w \in Volunteers : FailHeld(w)
      BY <1>2 DEF Votes, SubmitResult, PromoteHeld, ReviveDeadLettered, IsTerminalState
    <2> QED BY <2>1 DEF FailHeld, Agreed, WithStatus, Types, ResTyped, ResultRow
  <1>3. CASE Decides
    <2>1. UNCHANGED <<unit, res>>
      BY <1>3 DEF Decides, EvAccept, EvReject, EvDeadLetter, Exhausted
    <2> QED BY <2>1 DEF Agreed, WithStatus
  <1>4. ~Audits
    BY DEF Audits, Enforce
  <1> QED BY <1>1, <1>2, <1>3, <1>4, Kinds

\* Outside a pass a root opens only on refuted winners, and does not close.
LEMMA RootStays ==
    ASSUME [Next]_vars, ~ \E t \in Threads : Enforce(t)
    PROVE  root' = root \/ (root' = "open" /\ Refuted)
  <1>1. CASE ConfirmMismatch
    BY <1>1 DEF ConfirmMismatch, Refuted, Agreed
  <1>2. ASSUME NEW t \in Threads, Evaluate(t) PROVE UNCHANGED root
    BY <1>2 DEF Evaluate, EvUnit, EvResults, EvLive, EvDecide, EvMark, EvRollback, EvAccept,
                EvSupersede, EvReject, EvDeadLetter, EvReopen, ReadOnly
  <1>3. ASSUME NEW t \in Threads, Background(t) PROVE UNCHANGED root
    BY <1>3 DEF Background, ClearSpotCheck, RecoverySweep, RequeueRead, EnforceRoot, ReadOnly
  <1>4. ASSUME NEW t \in Threads, WithUnitLock(t) \/ Requeue(t) \/ Crash(t) PROVE UNCHANGED root
    BY <1>4 DEF WithUnitLock, Requeue, RequeueAbandon, RequeueReassign, Crash, ReadOnly
  <1>5. ASSUME NEW v \in Volunteers, Volunteer(v) PROVE UNCHANGED root
    BY <1>5 DEF Volunteer, FlushSelect, FlushInsert, MarkSpotCheck, ReserveCopy, ReserveNextAssignable,
                StartWork, SubmitTooLate,
                ReleaseStaleHeldCopy, FailHeld, SetStanding
  <1>6. ASSUME NEW v \in Volunteers, NEW t \in Threads, Handler(v, t) PROVE UNCHANGED root
    BY <1>6 DEF Handler, SubmitResult, AbandonWorkUnit, ExpireCopy, PromoteHeld
  <1>7. ASSUME NEW S \in SUBSET Volunteers, NEW refund \in BOOLEAN, ReviveDeadLettered(S, refund)
        PROVE UNCHANGED root
    BY <1>7 DEF ReviveDeadLettered
  <1> QED BY <1>1, <1>2, <1>3, <1>4, <1>5, <1>6, <1>7 DEF Next, vars

\* Outside a pass everything the pass relies on stays.
LEMMA OthersCalm ==
    ASSUME Types, Safe, Paid, \A u \in Threads : Placed(u), Rooted, [Next]_vars, ~PassCut,
           ~ \E t \in Threads : Enforce(t)
    PROVE  (\A u \in Threads : Placed(u)') /\ Rooted'
  <1>1. Steady
    BY OthersSteady
  <1>2. unit.state = "VALIDATED" =>
          /\ unit'.state = "VALIDATED" /\ Agreed' = Agreed
          /\ \A v \in Agreed : res'[v].output = res[v].output
    BY AcceptedStays
  <1>3. ASSUME NEW u \in Threads PROVE Placed(u)'
    BY <1>1, <1>2 DEF Placed, Steady, AuditPCs, RepairPCs
  <1>4. Refuted => Refuted'
    BY <1>2 DEF Refuted
  <1>5. (\E t \in Threads : ev[t].pc \in AuditPCs) => \E t \in Threads : ev'[t].pc \in AuditPCs
    BY <1>1 DEF Steady
  <1> QED BY <1>3, <1>4, <1>5, RootStays DEF Rooted

\* The steps of a pass.
LEMMA EnforceCalm ==
    ASSUME Types, Safe, Paid, \A u \in Threads : Placed(u), Rooted, NEW t \in Threads, Enforce(t)
    PROVE  (\A u \in Threads : Placed(u)') /\ Rooted'
  <1> USE DEF AuditPCs, RepairPCs
  <1>0. Sure(t) /\ Placed(t) /\ ev \in [Threads -> ThreadStates] /\ \A u \in Threads : Good(u)
    BY GoodThreads DEF Paid, Safe, Types
  <1>1. ev[t].pc \in EnforcePCs
    BY DEF Enforce, LoadFraudSet, Sanction, FlipToDisagreed, RepairFlip, RepairGrant,
       RepairDone, DemoteLoad, DemoteAbandon, DemoteUnit, RefundCopyBudget, DemoteRequeue,
       CloseRoot, At, EnforcePCs
  <1>2. \A u \in Threads \ {t} : ev[u].pc \in Unlocked
    BY <1>0, <1>1 DEF Good, EnforcePCs, Unlocked
  <1>3. root = "open" /\ (ev[t].pc \in {"fraud", "slash", "flip"} => Refuted)
    BY <1>0, <1>1, <1>2 DEF Sure, Rooted, EnforcePCs, Unlocked
  <1>4. ASSUME \A u \in Threads \ {t} : ev'[u] = ev[u], Placed(t)' PROVE \A u \in Threads : Placed(u)'
    <2>1. ASSUME NEW u \in Threads \ {t} PROVE Placed(u)'
      <3>1. ev'[u].pc \in Unlocked
        BY <1>2, <1>4
      <3> QED BY <3>1 DEF Placed, Unlocked
    <2> QED BY <1>4, <2>1
  <1>5. ASSUME \A u \in Threads \ {t} : ev'[u] = ev[u], Placed(t)',
               ev'[t].pc \in AuditPCs \/ root' # "open" \/ Refuted'
        PROVE  (\A u \in Threads : Placed(u)') /\ Rooted'
    BY <1>4, <1>5 DEF Rooted
  <1>6. CASE LoadFraudSet(t)
    <2>1. ev'[t].pc = "slash" /\ \A u \in Threads \ {t} : ev'[u] = ev[u]
      BY <1>0, <1>6 DEF LoadFraudSet, ThreadStates
    <2>2. Refuted'
      BY <1>3, <1>6 DEF LoadFraudSet, At, ReadOnly, Refuted, Agreed, WithStatus
    <2> QED BY <1>5, <2>1, <2>2 DEF Placed
  <1>7. CASE Sanction(t)
    <2>1. ev'[t].pc = "flip" /\ \A u \in Threads \ {t} : ev'[u] = ev[u]
      BY <1>7, GotoFields DEF Sanction
    <2>2. Refuted'
      BY <1>3, <1>7 DEF Sanction, At, Refuted, Agreed, WithStatus
    <2> QED BY <1>5, <2>1, <2>2 DEF Placed
  <1>8. CASE FlipToDisagreed(t)
    <2>1. ev'[t].pc = "repair" /\ \A u \in Threads \ {t} : ev'[u] = ev[u]
      BY <1>0, <1>8 DEF FlipToDisagreed, ThreadStates
    <2>2. unit'.state = "VALIDATED"
      BY <1>3, <1>8 DEF FlipToDisagreed, At, Refuted
    <2> QED BY <1>5, <2>1, <2>2 DEF Placed
  <1>9. ASSUME NEW v \in Volunteers, RepairFlip(t, v) PROVE (\A u \in Threads : Placed(u)') /\ Rooted'
    <2>1. ev'[t].pc = "grant" /\ ev'[t].pend = {v} /\ \A u \in Threads \ {t} : ev'[u] = ev[u]
      BY <1>0, <1>9 DEF RepairFlip, ThreadStates
    <2>2. unit'.state = "VALIDATED"
      BY <1>0, <1>9 DEF RepairFlip, At, Placed
    <2> QED BY <1>5, <2>1, <2>2 DEF Placed
  <1>10. ASSUME NEW granted \in SUBSET Volunteers, RepairGrant(t, granted)
         PROVE  (\A u \in Threads : Placed(u)') /\ Rooted'
    <2>1. ev'[t].pc = "repair" /\ \A u \in Threads \ {t} : ev'[u] = ev[u]
      BY <1>0, <1>10 DEF RepairGrant, ThreadStates
    <2>2. unit'.state = "VALIDATED"
      BY <1>0, <1>10 DEF RepairGrant, At, Placed
    <2> QED BY <1>5, <2>1, <2>2 DEF Placed
  <1>11. CASE RepairDone(t)
    <2>1. /\ ev'[t].pc = IF Agreed = {} THEN "dispose" ELSE "close"
          /\ \A u \in Threads \ {t} : ev'[u] = ev[u]
      BY <1>11, GotoFields DEF RepairDone, Agreed
    <2>2. unit'.state = "VALIDATED" /\ Agreed' = Agreed
      BY <1>0, <1>11 DEF RepairDone, At, Placed, ReadOnly, Agreed, WithStatus
    <2> QED BY <1>5, <2>1, <2>2 DEF Placed
  <1>12. CASE DemoteLoad(t)
    <2>1. ev[t].pc = "dispose" /\ unit.state = "VALIDATED" /\ Agreed = {}
      BY <1>0, <1>12 DEF DemoteLoad, At, Placed
    <2>2. ev'[t].pc = "abandon" /\ \A u \in Threads \ {t} : ev'[u] = ev[u]
      BY <1>0, <1>12, <2>1 DEF DemoteLoad, At, ThreadStates
    <2>3. unit'.state = "VALIDATED" /\ Agreed' = {}
      BY <1>12, <2>1 DEF DemoteLoad, ReadOnly, Agreed, WithStatus
    <2> QED BY <1>5, <2>2, <2>3 DEF Placed
  <1>13. CASE DemoteAbandon(t)
    <2>1. ev'[t].pc = "demote" /\ \A u \in Threads \ {t} : ev'[u] = ev[u]
      BY <1>13, GotoFields DEF DemoteAbandon
    <2>2. unit'.state = "VALIDATED" /\ Agreed' = {}
      BY <1>0, <1>13 DEF DemoteAbandon, At, Placed, Agreed, WithStatus
    <2> QED BY <1>5, <2>1, <2>2 DEF Placed
  <1>14. CASE DemoteUnit(t)
    <2>1. unit.state = "VALIDATED"
      BY <1>0, <1>14 DEF DemoteUnit, At, Placed
    <2>2. ev'[t].pc = "refund" /\ \A u \in Threads \ {t} : ev'[u] = ev[u]
      BY <1>14, <2>1, GotoFields DEF DemoteUnit
    <2> QED BY <1>5, <2>2 DEF Placed
  <1>15. CASE RefundCopyBudget(t) \/ DemoteRequeue(t)
    <2>1. ev'[t].pc \in {"requeue", "close"} /\ \A u \in Threads \ {t} : ev'[u] = ev[u]
      BY <1>15, GotoFields DEF RefundCopyBudget, DemoteRequeue
    <2> QED BY <1>5, <2>1 DEF Placed
  <1>16. CASE CloseRoot(t)
    <2>1. ev'[t].pc = "idle" /\ \A u \in Threads \ {t} : ev'[u] = ev[u]
      BY <1>0, <1>16 DEF CloseRoot, Finish, Idle
    <2>2. root' # "open"
      BY <1>16 DEF CloseRoot
    <2> QED BY <1>5, <2>1, <2>2 DEF Placed
  <1> QED BY <1>6, <1>7, <1>8, <1>9, <1>10, <1>11, <1>12, <1>13, <1>14, <1>15, <1>16 DEF Enforce

\* The sanctioned results have a verdict, and none of them the audited output.
LEMMA SanctionsCalm ==
    ASSUME Types, Safe, Paid, Calm, [Next]_vars
    PROVE  Settled' /\ HonestNotSanctioned'
  <1>1. ASSUME NEW v \in sanctioned PROVE res'[v].status \in {"AGREED", "DISAGREED"} /\ res'[v].output = res[v].output
    <2>1. v \in Volunteers /\ res[v].status \in {"AGREED", "DISAGREED"}
      BY DEF Calm, Settled, Types
    <2> QED BY <2>1, RowMoves
  <1>2. CASE UNCHANGED sanctioned
    BY <1>1, <1>2 DEF Calm, Settled, HonestNotSanctioned
  <1>3. ASSUME NEW t \in Threads, Sanction(t) PROVE Settled' /\ HonestNotSanctioned'
    <2>1. Good(t) /\ Sure(t) /\ \A u \in Threads : Good(u)
      BY GoodThreads DEF Safe, Paid
    <2>2. ev[t].pend \subseteq Agreed
      BY <1>3, <2>1 DEF Sanction, At, Good, Agreed
    <2>3. Refuted
      <3>1. ev[t].pc = "slash" /\ root = "open"
        BY <1>3, <2>1 DEF Sanction, At, Sure, EnforcePCs
      <3>2. \A u \in Threads \ {t} : ev[u].pc \in Unlocked
        BY <2>1, <3>1 DEF Good, Unlocked
      <3> QED BY <3>1, <3>2 DEF Calm, Rooted, AuditPCs, RepairPCs, Unlocked
    <2>4. UNCHANGED res /\ sanctioned' = sanctioned \cup ev[t].pend
      BY <1>3 DEF Sanction
    <2> QED BY <2>2, <2>3, <2>4 DEF Calm, Settled, HonestNotSanctioned, Refuted, Agreed, WithStatus
  <1>4. CASE Still
    BY <1>2, <1>4 DEF Still
  <1>5. CASE Votes \/ Decides
    BY <1>2, <1>5 DEF Votes, Decides, SubmitResult, PromoteHeld, FailHeld, ReviveDeadLettered, EvAccept,
       EvReject, EvDeadLetter
  <1>6. CASE Audits
    BY <1>2, <1>3, <1>6 DEF Audits, FlipToDisagreed, RepairFlip, RepairGrant, DemoteUnit
  <1> QED BY <1>4, <1>5, <1>6, Kinds

\* Calm is inductive as long as no pass is cut short.
LEMMA CalmStep == Types /\ Safe /\ Paid /\ Calm /\ [Next]_vars /\ [~PassCut]_vars => Calm'
  <1> SUFFICES ASSUME Types, Safe, Paid, Calm, [Next]_vars, [~PassCut]_vars PROVE Calm'
    OBVIOUS
  <1>1. (\A u \in Threads : Placed(u)') /\ Rooted'
    <2>1. CASE \E t \in Threads : Enforce(t)
      BY <2>1, EnforceCalm DEF Calm
    <2>2. CASE ~(\E t \in Threads : Enforce(t)) /\ ~PassCut
      BY <2>2, OthersCalm DEF Calm
    <2>3. CASE UNCHANGED vars
      BY <2>3 DEF vars, Calm, Placed, Rooted, Refuted, Agreed, WithStatus
    <2> QED BY <2>1, <2>2, <2>3
  <1> QED BY <1>1, SanctionsCalm DEF Calm

\* ... and holds of a fresh unit.
LEMMA CalmInit == Init => Calm
  <1> SUFFICES ASSUME Init PROVE Calm
    OBVIOUS
  <1>1. \A u \in Threads : ev[u].pc = "idle"
    BY DEF Init, Idle
  <1> QED BY <1>1 DEF Init, Calm, Placed, Rooted, Settled, HonestNotSanctioned

\* When the advisory lock is honored and no enforcement pass is cut short, audit enforcement
\* sanctions nobody whose output is the audited truth: every pass starts from an accepted unit
\* whose winners the runners refuted, and restores honest losers only after it has sanctioned.
THEOREM HonestNotSanctionedHolds ==
    ASSUME LockHonored
    PROVE  Spec /\ [][~PassCut]_vars => []HonestNotSanctioned
  <1>1. Calm => HonestNotSanctioned
    BY DEF Calm
  <1> QED BY <1>1, TypesInit, TypesStep, SafeInit, SafeStep, PaidInit, PaidStep, CalmInit, CalmStep,
             PTL DEF Spec

-----------------------------------------------------------------------------
(* The refinement.                                                         *)

Ballots == [v \in Volunteers |-> Vote(v)]

\* The mapped state, before and after a step, result by result.
LEMMA BallotsAre ==
    /\ Ballots \in [Volunteers -> Life!Votes]
    /\ Ballots' \in [Volunteers -> Life!Votes]
    /\ \A v \in Volunteers : Ballots[v] = Vote(v) /\ Ballots'[v] = Vote(v)'
    /\ Life!Open = Pending
  <1>1. \A v \in Volunteers : Vote(v) \in Life!Votes /\ Vote(v)' \in Life!Votes
    BY DEF Vote, Life!Votes
  <1>2. \A v \in Volunteers : Vote(v) = "open" <=> res[v].status = "PENDING"
    BY DEF Vote
  <1> QED BY <1>1, <1>2 DEF Ballots, Life!Open, Pending, WithStatus

\* A fresh unit is a fresh lifecycle.
LEMMA LifeInit == Init => Life!Init
  BY DEF Init, Life!Init, Phase, Vote, InitUnit, NoResult

\* How the result statuses and the unit's states map, before and after a step.
LEMMA MapIs ==
    /\ \A v \in Volunteers :
         /\ Vote(v) = "open" <=> res[v].status = "PENDING"
         /\ Vote(v) = "won" <=> res[v].status = "AGREED"
         /\ Vote(v) = "lost" <=> res[v].status = "DISAGREED"
         /\ Vote(v) = "aside" <=> res[v].status = "SUPERSEDED"
         /\ Vote(v) = "none" <=> res[v].status \notin {"PENDING", "AGREED", "DISAGREED", "SUPERSEDED"}
         /\ Vote(v)' = "open" <=> res'[v].status = "PENDING"
         /\ Vote(v)' = "won" <=> res'[v].status = "AGREED"
         /\ Vote(v)' = "lost" <=> res'[v].status = "DISAGREED"
         /\ Vote(v)' = "aside" <=> res'[v].status = "SUPERSEDED"
         /\ Vote(v)' = "none" <=> res'[v].status \notin {"PENDING", "AGREED", "DISAGREED", "SUPERSEDED"}
         /\ res'[v].status = res[v].status => Vote(v)' = Vote(v)
    /\ Phase = "accepted" <=> unit.state = "VALIDATED"
    /\ Phase = "failed" <=> unit.state = "FAILED"
    /\ Phase = "open" <=> ~IsTerminalState(unit.state)
    /\ Phase' = "accepted" <=> unit'.state = "VALIDATED"
    /\ Phase' = "failed" <=> unit'.state = "FAILED"
    /\ Phase' = "open" <=> ~IsTerminalState(unit'.state)
    /\ unit'.state = unit.state => Phase' = Phase
  BY DEF Vote, Phase, IsTerminalState

\* A step that leaves statuses, credit and phase alone is a stutter of the lifecycle.
LEMMA LifeStutter ==
    ASSUME \A v \in Volunteers : Vote(v)' = Vote(v), Phase' = Phase, credited' = credited
    PROVE  UNCHANGED Life!vars
  BY DEF Life!vars

\* The steps that touch no result.
LEMMA StillLife ==
    ASSUME Still
    PROVE  UNCHANGED Life!vars
  <1>1. \A v \in Volunteers : Vote(v)' = Vote(v)
    BY MapIs DEF Still
  <1>2. Phase' = Phase
    BY MapIs DEF Still
  <1> QED BY <1>1, <1>2, LifeStutter DEF Still

\* One result becomes a vote.
LEMMA CastLife ==
    ASSUME NEW v \in Volunteers, Vote(v) = "none", Vote(v)' = "open", Phase = "open", Phase' = "open",
           \A w \in Volunteers \ {v} : Vote(w)' = Vote(w), credited' = credited
    PROVE  Life!Cast(v)
  BY DEF Life!Cast

\* Results arrive, are promoted or failed, or come back with a revived unit.
LEMMA VotesLife ==
    ASSUME Types, Safe, Votes
    PROVE  [Life!Next]_(Life!vars)
  <1>0. \A v \in Volunteers : res[v] \in ResultRow
    BY DEF Types, ResTyped
  <1>1. ASSUME NEW v \in Volunteers, NEW t \in Threads, NEW o \in Outputs, NEW ver \in Versions,
               NEW held \in Holds, SubmitResult(v, o, ver, held, t)
        PROVE  [Life!Next]_(Life!vars)
    <2> DEFINE s == IF held THEN "AWAITING_CONTENT_VERIFICATION" ELSE "PENDING"
               r == [status |-> s, output |-> o, version |-> ver, standing |-> standing[v]]
    <2>1. r.status = s
      OBVIOUS
    <2>2. res' = [res EXCEPT ![v] = r] /\ res[v].status = "NONE" /\ credited' = credited
      BY <1>1 DEF SubmitResult
    <2> HIDE DEF r
    <2>3. res'[v].status = s /\ \A w \in Volunteers \ {v} : res'[w] = res[w]
      BY <2>1, <2>2 DEF Types, ResTyped
    <2>4. ~IsTerminalState(unit.state) /\ ~IsTerminalState(unit'.state)
      BY <1>1 DEF SubmitResult, SetState, IsTerminalState, Types, UnitRows
    <2>5. Phase = "open" /\ Phase' = "open"
      BY <2>4, MapIs
    <2>6. Vote(v) = "none" /\ \A w \in Volunteers \ {v} : Vote(w)' = Vote(w)
      BY <2>2, <2>3, MapIs
    <2>7. CASE s = "PENDING"
      <3>1. Vote(v)' = "open"
        BY <2>3, <2>7, MapIs
      <3>2. Life!Cast(v)
        BY <2>2, <2>5, <2>6, <3>1, CastLife
      <3> QED BY <3>2 DEF Life!Next
    <2>8. CASE s = "AWAITING_CONTENT_VERIFICATION"
      <3>1. Vote(v)' = "none"
        BY <2>3, <2>8, MapIs
      <3> QED BY <2>2, <2>5, <2>6, <3>1, LifeStutter
    <2> QED BY <2>7, <2>8
  <1>2. ASSUME NEW v \in Volunteers, NEW t \in Threads, NEW served \in Outputs, PromoteHeld(v, served, t)
        PROVE  [Life!Next]_(Life!vars)
    <2>1. /\ res[v].status = "AWAITING_CONTENT_VERIFICATION" /\ res'[v].status = "PENDING"
          /\ \A w \in Volunteers \ {v} : res'[w] = res[w]
          /\ credited' = credited /\ unit' = unit /\ ~IsTerminalState(unit.state)
      BY <1>0, <1>2 DEF PromoteHeld, Types, ResTyped, ResultRow
    <2>2. Life!Cast(v)
      BY <2>1, MapIs, CastLife
    <2> QED BY <2>2 DEF Life!Next
  <1>3. ASSUME NEW v \in Volunteers, FailHeld(v) PROVE [Life!Next]_(Life!vars)
    <2>1. /\ res[v].status = "AWAITING_CONTENT_VERIFICATION"
          /\ res'[v].status = "CONTENT_VERIFICATION_FAILED"
          /\ \A w \in Volunteers \ {v} : res'[w] = res[w]
          /\ credited' = credited /\ unit' = unit
      BY <1>0, <1>3 DEF FailHeld, Types, ResTyped, ResultRow
    <2>2. (\A w \in Volunteers : Vote(w)' = Vote(w)) /\ Phase' = Phase
      BY <2>1, MapIs
    <2> QED BY <2>1, <2>2, LifeStutter
  <1>4. ASSUME NEW S \in SUBSET Volunteers, NEW refund \in BOOLEAN, ReviveDeadLettered(S, refund)
        PROVE  [Life!Next]_(Life!vars)
    <2>1. unit.state = "FAILED" /\ unit'.state = "QUEUED" /\ credited' = credited
      BY <1>4, ReviveState DEF ReviveDeadLettered
    <2>2. \A v \in Volunteers : res'[v].status = IF res[v].status = "SUPERSEDED" THEN "PENDING" ELSE res[v].status
      BY <1>0, <1>4 DEF ReviveDeadLettered, ResultRow
    <2>3. \A v \in Volunteers : Vote(v)' = IF Vote(v) = "aside" THEN "open" ELSE Vote(v)
      BY <2>2, MapIs
    <2>4. Phase = "failed" /\ Phase' = "open"
      BY <2>1, MapIs DEF IsTerminalState
    <2>5. Life!Revive
      BY <2>1, <2>3, <2>4 DEF Life!Revive
    <2> QED BY <2>5 DEF Life!Next
  <1> QED BY <1>1, <1>2, <1>3, <1>4 DEF Votes

\* Where a quorum agrees, somebody wins.
LEMMA QuorumWins ==
    ASSUME NEW t \in Threads, ev[t].pend \subseteq Volunteers, Reached(t)
    PROVE  Majority(Group(t)) # {}
  <1> DEFINE G == Group(t)
             maj == Majority(G)
             good == {v \in G : StandingCountable(v)}
             subjects == {Subject[v] : v \in good}
             agreeing == {s \in subjects : \A v \in good : Subject[v] = s => v \in maj}
  <1>1. Cardinality(subjects) > 0 /\ 2 * Cardinality(agreeing) > Cardinality(subjects)
    BY DEF Reached, Verdict, ComparisonVerdict, QuorumAgreement
  <1>2. IsFiniteSet(subjects)
    <2>1. good \in SUBSET Volunteers
      BY GroupsInSnapshot DEF Group
    <2> QED BY <2>1, SubjectsFinite
  <1>3. Cardinality(agreeing) # 0
    <2> DEFINE n == Cardinality(subjects)
               m == Cardinality(agreeing)
    <2>1. n \in Nat /\ n > 0 /\ 2 * m > n
      BY <1>1, <1>2, FS_CardinalityType
    <2> HIDE DEF n, m
    <2> QED BY <2>1 DEF m
  <1>4. agreeing # {}
    BY <1>3, FS_EmptySet
  <1> QED BY <1>4

\* The accept transaction, the reject transaction and the dead letter close a round each.
LEMMA DecidesLife ==
    ASSUME Types, Safe, Paid, Calm, Decides
    PROVE  [Life!Next]_(Life!vars)
  <1>0. \A v \in Volunteers : res[v] \in ResultRow
    BY DEF Types, ResTyped
  <1>1. ASSUME NEW t \in Threads, NEW granted \in SUBSET Volunteers, EvAccept(t, granted)
        PROVE  [Life!Next]_(Life!vars)
    <2> DEFINE P == ev[t].pend
               maj == Majority(VersionGroup(P))
    <2>0. Good(t) /\ Sure(t) /\ ev[t].pc = "accept" /\ ev[t] \in ThreadStates
      BY <1>1, GoodThreads DEF Safe, Paid, EvAccept, At, Types
    <2>1. P = Pending /\ P \in SUBSET Volunteers
      BY <1>1, <2>0, FreshSnapshot DEF Good, EvAccept, Pending, WithStatus
    <2>2. /\ res' = Adjudicated(P) /\ unit.state = "COMPLETED" /\ unit'.state = "VALIDATED"
          /\ credited' = credited \cup granted /\ granted \subseteq maj
      BY <1>1 DEF EvAccept, SetState, Types, UnitRows
    <2>3. Phase = "open" /\ Phase' = "accepted"
      BY <2>2, MapIs DEF IsTerminalState
    <2>4. /\ Pending' = {} /\ \A v \in maj : res'[v].status = "AGREED"
          /\ \A v \in Volunteers \ P : res'[v] = res[v]
      BY <2>1, <2>2, AcceptSettles
    <2>5. maj \subseteq P /\ maj # {}
      <3>1. maj \subseteq P
        BY <2>1, GroupsInSnapshot
      <3>2. Reached(t) /\ Group(t) = VersionGroup(P)
        BY <2>0 DEF Sure, Group
      <3> QED BY <2>1, <3>1, <3>2, QuorumWins
    <2>6. \A v \in P : res'[v].status \in {"AGREED", "DISAGREED", "SUPERSEDED"}
      <3>1. \A v \in P : res'[v].status \in {"AGREED", "DISAGREED", "SUPERSEDED", "PENDING"}
        BY <1>0, <2>1, <2>2 DEF Adjudicated, ResultRow, Pending, WithStatus
      <3> QED BY <2>1, <2>4, <3>1 DEF Pending, WithStatus
    <2> HIDE DEF P, maj
    <2>7. \A v \in Volunteers \ P : Vote(v)' = Vote(v)
      BY <2>4, MapIs
    <2>8. \A v \in P : Vote(v)' \in {"won", "lost", "aside"}
      BY <2>1, <2>6, MapIs
    <2>9. \A v \in maj : Vote(v)' = "won"
      BY <2>1, <2>4, <2>5, MapIs
    <2>10. P \cap credited = {}
      BY <2>1 DEF Safe, CreditBacked, Calm, Settled, Pending, WithStatus
    <2>11. Life!Accept
      <3>1. Life!Open = P /\ Ballots' \in [Volunteers -> Life!Votes]
        BY <2>1, BallotsAre
      <3>2. \A v \in Volunteers : Ballots[v] = Vote(v) /\ Ballots'[v] = Vote(v)'
        BY BallotsAre
      <3>3. /\ Ballots' \in [Volunteers -> Life!Votes]
            /\ \A v \in Volunteers \ P : Ballots'[v] = Ballots[v]
            /\ \A v \in P : Ballots'[v] \in {"won", "lost", "aside"}
            /\ \E v \in P : Ballots'[v] = "won"
            /\ \A v \in P \cap credited : Ballots'[v] # "won"
            /\ credited \subseteq credited'
            /\ credited' \subseteq credited \cup {v \in P : Ballots'[v] = "won"}
        <4> HIDE DEF Ballots
        <4> QED BY <2>1, <2>2, <2>5, <2>7, <2>8, <2>9, <2>10, <3>1, <3>2
      <3> QED BY <2>3, <3>1, <3>3, Zenon DEF Life!Accept, Ballots
    <2> QED BY <2>11 DEF Life!Next
  <1>2. ASSUME NEW t \in Threads, EvReject(t) PROVE [Life!Next]_(Life!vars)
    <2> DEFINE G == VersionGroup(ev[t].pend)
    <2>1. G \subseteq Pending
      BY <1>2, GroupsInSnapshot, GoodThreads DEF EvReject, Safe, Good, At, Types, ThreadStates
    <2>2. /\ res' = [w \in Volunteers |-> IF w \in G THEN [res[w] EXCEPT !.status = "DISAGREED"] ELSE res[w]]
          /\ credited' = credited /\ unit.state = "COMPLETED" /\ unit'.state = "QUEUED"
      BY <1>2 DEF EvReject, SetState, Types, UnitRows
    <2> HIDE DEF G
    <2>3. \A v \in Volunteers : Vote(v)' = Vote(v) \/ (v \in Pending /\ Vote(v)' = "lost")
      BY <1>0, <2>1, <2>2, MapIs DEF ResultRow
    <2>4. Phase = "open" /\ Phase' = "open"
      BY <2>2, MapIs DEF IsTerminalState
    <2>5. Life!RejectRound
      <3>1. Life!Open = Pending /\ Ballots' \in [Volunteers -> Life!Votes]
        BY BallotsAre
      <3>2. \A v \in Volunteers : Ballots'[v] # Ballots[v] => v \in Pending /\ Ballots'[v] = "lost"
        BY <2>3, BallotsAre
      <3> QED BY <2>2, <2>4, <3>1, <3>2, Zenon DEF Life!RejectRound, Ballots
    <2> QED BY <2>5 DEF Life!Next
  <1>3. ASSUME NEW t \in Threads, EvDeadLetter(t) PROVE [Life!Next]_(Life!vars)
    <2>0. credited' = credited
      BY <1>3 DEF EvDeadLetter
    <2>1. CASE Exhausted
      <3>1. /\ ~IsTerminalState(unit.state) /\ unit'.state = "FAILED"
            /\ res' = [v \in Volunteers |->
                         IF v \in Pending THEN [res[v] EXCEPT !.status = "SUPERSEDED"] ELSE res[v]]
        BY <1>3, <2>1 DEF EvDeadLetter, Exhausted, SetState, IsTerminalState, Types, UnitRows
      <3>2. \A v \in Volunteers : Vote(v)' = IF v \in Pending THEN "aside" ELSE Vote(v)
        BY <1>0, <3>1, MapIs DEF ResultRow
      <3>3. Phase = "open" /\ Phase' = "failed"
        BY <3>1, MapIs
      <3>4. Life!GiveUp
        <4>1. Life!Open = Pending
          BY BallotsAre
        <4> QED BY <2>0, <3>2, <3>3, <4>1 DEF Life!GiveUp
      <3> QED BY <3>4 DEF Life!Next
    <2>2. CASE ~Exhausted
      <3>1. UNCHANGED <<unit, res>>
        BY <1>3, <2>2 DEF EvDeadLetter
      <3> QED BY <2>0, <3>1, MapIs, LifeStutter
    <2> QED BY <2>1, <2>2
  <1> QED BY <1>1, <1>2, <1>3 DEF Decides

\* A pass refutes, restores, compensates and demotes an accepted unit.
LEMMA AuditsLife ==
    ASSUME Types, Safe, Paid, Calm, Audits
    PROVE  [Life!Next]_(Life!vars)
  <1>0. /\ \A v \in Volunteers : res[v] \in ResultRow
        /\ \A u \in Threads : Good(u) /\ Sure(u) /\ Placed(u)
    BY GoodThreads DEF Types, ResTyped, Safe, Paid, Calm
  <1>1. ASSUME NEW t \in Threads, Sanction(t) PROVE [Life!Next]_(Life!vars)
    <2>1. UNCHANGED <<unit, res, credited>>
      BY <1>1 DEF Sanction
    <2> QED BY <2>1, MapIs, LifeStutter
  <1>2. ASSUME NEW t \in Threads, FlipToDisagreed(t) PROVE [Life!Next]_(Life!vars)
    <2>1. ev[t].pend = Agreed /\ root = "open" /\ ev[t].pc = "flip"
      BY <1>0, <1>2 DEF FlipToDisagreed, At, Good, Sure, EnforcePCs, Agreed
    <2>2. unit.state = "VALIDATED"
      <3>1. \A u \in Threads \ {t} : ev[u].pc \in Unlocked
        BY <1>0, <2>1 DEF Good, Unlocked
      <3> QED BY <2>1, <3>1 DEF Calm, Rooted, Refuted, AuditPCs, RepairPCs, Unlocked
    <2>3. /\ UNCHANGED <<unit, credited>>
          /\ res' = [v \in Volunteers |->
                       IF v \in Agreed THEN [res[v] EXCEPT !.status = "DISAGREED"] ELSE res[v]]
      BY <1>2, <2>1 DEF FlipToDisagreed
    <2>4. \A v \in Volunteers : v \in Agreed <=> Vote(v) = "won"
      BY MapIs DEF Agreed, WithStatus
    <2>5. \A v \in Volunteers : Vote(v)' = IF Vote(v) = "won" THEN "lost" ELSE Vote(v)
      BY <1>0, <2>3, <2>4, MapIs DEF ResultRow
    <2>6. Life!Refute
      BY <2>2, <2>3, <2>5, MapIs DEF Life!Refute
    <2> QED BY <2>6 DEF Life!Next
  <1>3. ASSUME NEW t \in Threads, NEW v \in Volunteers, RepairFlip(t, v) PROVE [Life!Next]_(Life!vars)
    <2>1. /\ unit.state = "VALIDATED" /\ UNCHANGED <<unit, credited>>
          /\ res[v].status = "DISAGREED" /\ res'[v].status = "AGREED"
          /\ \A w \in Volunteers \ {v} : res'[w] = res[w]
      BY <1>0, <1>3 DEF RepairFlip, At, Placed, Types, ResTyped, ResultRow
    <2>2. /\ Vote(v) = "lost" /\ Vote(v)' = "won" /\ \A w \in Volunteers \ {v} : Vote(w)' = Vote(w)
          /\ Phase = "accepted" /\ Phase' = Phase
      BY <2>1, MapIs
    <2>3. Life!Restore(v)
      BY <2>1, <2>2 DEF Life!Restore
    <2> QED BY <2>3 DEF Life!Next
  <1>4. ASSUME NEW t \in Threads, NEW granted \in SUBSET Volunteers, RepairGrant(t, granted)
        PROVE  [Life!Next]_(Life!vars)
    <2>1. PICK v \in Volunteers : ev[t].pend = {v}
      BY <1>0, <1>4 DEF RepairGrant, At, Placed
    <2>2. /\ unit.state = "VALIDATED" /\ UNCHANGED <<unit, res>> /\ res[v].status = "AGREED"
          /\ credited' = credited \cup granted /\ granted \subseteq {v}
      BY <1>0, <1>4, <2>1 DEF RepairGrant, At, Placed, Good, WithStatus
    <2>3. Phase = "accepted" /\ Phase' = Phase /\ Vote(v) = "won" /\ \A w \in Volunteers : Vote(w)' = Vote(w)
      BY <2>2, MapIs
    <2>4. CASE granted = {v}
      <3>1. Life!Compensate(v)
        BY <2>2, <2>3, <2>4 DEF Life!Compensate
      <3> QED BY <3>1 DEF Life!Next
    <2>5. CASE granted = {}
      BY <2>2, <2>3, <2>5, LifeStutter
    <2> QED BY <2>2, <2>4, <2>5
  <1>5. ASSUME NEW t \in Threads, DemoteUnit(t) PROVE [Life!Next]_(Life!vars)
    <2>1. unit.state = "VALIDATED" /\ Agreed = {}
      BY <1>0, <1>5 DEF DemoteUnit, At, Placed
    <2>2. UNCHANGED <<res, credited>> /\ unit'.state = "REJECTED"
      BY <1>5, <2>1 DEF DemoteUnit, SetState, Types, UnitRows
    <2>3. /\ Phase = "accepted" /\ Phase' = "open" /\ \A w \in Volunteers : Vote(w)' = Vote(w)
          /\ \A w \in Volunteers : Vote(w) # "won"
      BY <2>1, <2>2, MapIs DEF Agreed, WithStatus, IsTerminalState
    <2>4. Life!Demote
      BY <2>2, <2>3 DEF Life!Demote
    <2> QED BY <2>4 DEF Life!Next
  <1> QED BY <1>1, <1>2, <1>3, <1>4, <1>5 DEF Audits

\* When the advisory lock is honored and no enforcement pass is cut short, the unit with all its
\* statements and processes implements UnitLifecycle: every step is one of the lifecycle's or
\* none, a round of a dozen statements being decided in the one that commits it.
THEOREM ImplementsLifecycleHolds ==
    ASSUME LockHonored
    PROVE  Spec /\ [][~PassCut]_vars => ImplementsLifecycle
  <1>1. Types /\ Safe /\ Paid /\ Calm /\ [Next]_vars => [Life!Next]_(Life!vars)
    BY Kinds, StillLife, VotesLife, DecidesLife, AuditsLife
  <1> QED BY <1>1, LifeInit, TypesInit, TypesStep, SafeInit, SafeStep, PaidInit, PaidStep, CalmInit, CalmStep,
             PTL DEF Spec, ImplementsLifecycle, Life!Spec
=============================================================================
