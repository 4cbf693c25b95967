-------------------------- MODULE AuditJobsProofs --------------------------
(***************************************************************************)
(* AuditJobs' type invariant and its two safety invariants, for any number *)
(* of runners, heads, audit rows and attempts: consequences rest on two    *)
(* runners that refuted the accepted output alike, and a runner that       *)
(* failed a confirmation gets no other one of the same root.               *)
(*                                                                         *)
(* Both rest on one observation about the table: only its newest row is    *)
(* ever open (LastOpen), and no statement touches a row that is no longer  *)
(* open except for its enforcement state (EvidenceStands).  What a pass    *)
(* read about a root and its confirmation is then still true when it acts, *)
(* however long it was held up and whatever other heads did meanwhile.     *)
(***************************************************************************)
EXTENDS AuditJobs, FiniteSetTheorems, SequenceTheorems, WellFoundedInduction, TLAPS

RowStatuses == {"QUEUED", "CLAIMED", "COMPLETED", "EXPIRED"}
RowStates == {"NONE", "AWAITING_CONFIRMATION", "ENFORCED", "CONTRADICTED", "STALLED"}
Classes == {HRClass(r) : r \in Runners}

AuditRow ==
    [ root : Nat, status : RowStatuses, by : Runners \cup {None}, class : Classes \cup {None},
      attempts : Nat, verdict : Verdicts \cup {None}, output : Outputs \cup {None},
      author : Runners \cup {None}, eligible : BOOLEAN, state : RowStates ]

PassSteps == {"idle", "resolve", "enqueue", "await", "stall", "contradict", "consequences"}

Types ==
    /\ audits \in Seq(AuditRow)
    /\ active \subseteq Runners
    /\ pass \in [Heads -> [at : PassSteps, root : Nat, confirm : Nat]]

\* What a row says of itself: the claims it has left, and that a verdict other than
\* INCONCLUSIVE was computed from what its claimant submitted.
RowOK(row) ==
    /\ row.attempts <= MaxAttempts
    /\ row.status = "QUEUED" => row.attempts < MaxAttempts
    /\ row.status = "CLAIMED" => row.by \in Runners
    /\ (row.status = "COMPLETED") = (row.verdict # None)
    /\ row.verdict \in {"MATCH", "MISMATCH"} =>
         row.author = row.by /\ row.output \in Outputs /\ row.verdict = Adjudicate(row.output)

\* An original whose re-execution refuted the accepted output.
Refuted(i) == i \in Rows /\ audits[i].verdict = "MISMATCH" /\ audits[i].root = 0

\* What a row says of the root it confirms.
Independent(row, root) ==
    row.status \in {"CLAIMED", "COMPLETED"} =>
        row.by # root.by /\ (Pinned = None => row.class # root.class)

RowsInv == \A i \in Rows : RowOK(audits[i])
LinkInv ==
    \A i \in Rows : audits[i].root # 0 =>
        /\ audits[i].root < i /\ Refuted(audits[i].root)
        /\ Independent(audits[i], audits[audits[i].root])
LastOpen == \A i \in Rows : Open(i) => i = Len(audits)
OwedInv == \A i \in owed : Refuted(i)
PassInv ==
    \A h \in Heads :
        /\ pass[h].at # "idle" => Refuted(pass[h].root)
        /\ pass[h].at = "consequences" =>
             /\ pass[h].confirm \in Rows
             /\ audits[pass[h].confirm].root = pass[h].root
             /\ audits[pass[h].confirm].verdict = "MISMATCH"
             /\ audits[pass[h].confirm].output = audits[pass[h].root].output

TableInv == RowsInv /\ LinkInv /\ LastOpen /\ ConfirmersAreFresh
AuditInv == TableInv /\ OwedInv /\ PassInv

\* A step never loses a row, and leaves everything about a row that is no longer open as
\* it is but its enforcement state: no late submission, sweep or second claim changes
\* evidence that a pass may already have read.
Evidence(row) == <<row.root, row.status, row.by, row.class, row.attempts, row.verdict, row.output, row.author, row.eligible>>
ClosedRowsStand ==
    \A i \in Rows : ~Open(i) => i \in Rows' /\ Evidence(audits'[i]) = Evidence(audits[i])

-----------------------------------------------------------------------------
(* Rows and the newest of them.                                            *)

\* A nonempty set of naturals has a least element.
LEMMA LeastNatural ==
    ASSUME NEW T \in SUBSET Nat, T # {}
    PROVE  \E x \in T : \A y \in T : ~(y < x)
  <1> DEFINE R == OpToRel(<, Nat)
  <1>1. \E x \in T : \A y \in T : ~(<<y, x>> \in R)
    <2>1. IsWellFoundedOn(R, Nat)
      BY NatLessThanWellFounded
    <2> HIDE DEF R
    <2> QED BY <2>1, WFMin
  <1>2. \A x, y \in Nat : (<<y, x>> \in R) <=> y < x
    BY DEF OpToRel
  <1> HIDE DEF R
  <1>3. PICK x \in T : \A y \in T : ~(<<y, x>> \in R)
    BY <1>1
  <1>4. \A y \in T : ~(y < x)
    BY <1>2, <1>3
  <1> QED BY <1>4

\* Of finitely many rows there is a newest: what ResolveConfirmation takes for the latest
\* confirmation is one.
LEMMA NewestRow ==
    ASSUME NEW n \in Nat, NEW T \in SUBSET (1..n), T # {}
    PROVE  Max(T) \in T
  <1> DEFINE U == {n - x : x \in T}
  <1>1. U \in SUBSET Nat /\ U # {}
    <2>1. \A x \in T : x \in 1..n /\ n - x \in Nat
      OBVIOUS
    <2> QED BY <2>1
  <1>2. PICK u \in U : \A v \in U : ~(v < u)
    BY <1>1, LeastNatural
  <1>3. PICK x \in T : u = n - x
    BY <1>2
  <1>4. \A y \in T : x >= y
    <2> TAKE y \in T
    <2>1. ~(n - y < n - x) /\ x \in Nat /\ y \in Nat
      BY <1>2, <1>3
    <2> QED BY <2>1
  <1> QED BY <1>4 DEF Max

\* A row of the table is a row, and the rows are numbered from 1.
LEMMA RowTyped ==
    ASSUME Types
    PROVE  /\ Rows = 1..Len(audits) /\ Len(audits) \in Nat
           /\ \A i \in Rows : audits[i] \in AuditRow
  BY LenProperties, ElementOfSeq DEF Types, Rows

\* A refuted original is closed.
LEMMA RefutedClosed ==
    ASSUME Types, TableInv, NEW i, Refuted(i)
    PROVE  i \in Rows /\ audits[i].status = "COMPLETED" /\ ~Open(i)
  BY AuditAssumption DEF Refuted, TableInv, RowsInv, RowOK, Open, Verdicts

-----------------------------------------------------------------------------
(* The two ways a statement changes the table.                             *)

\* A new row does not disturb the others.
LEMMA InsertStep ==
    ASSUME Types, TableInv, NEW k \in Nat, k # 0 => Refuted(k), Insert(k)
    PROVE  audits' \in Seq(AuditRow) /\ TableInv' /\ ClosedRowsStand
  <1> USE RowTyped
  <1> DEFINE new == NewRow(k)
  <1>1. CASE audits' = audits
    <2>1. TableInv'
      BY <1>1 DEF TableInv, RowsInv, LinkInv, LastOpen, ConfirmersAreFresh, Rows, Refuted, Open
    <2>2. ClosedRowsStand
      BY <1>1 DEF ClosedRowsStand, Rows
    <2> QED BY <1>1, <2>1, <2>2 DEF Types
  <1>2. CASE audits' = Append(audits, new) /\ \A i \in Rows : ~Open(i)
    <2> DEFINE n == Len(audits)
    <2>1. new \in AuditRow /\ RowOK(new) /\ new.root = k /\ new.by = None /\ new.status = "QUEUED"
      BY AuditAssumption DEF NewRow, AuditRow, RowOK, RowStatuses, RowStates, Verdicts, Outputs
    <2> HIDE DEF new
    <2>2. /\ audits' \in Seq(AuditRow) /\ Len(audits') = n + 1 /\ Rows' = 1..(n + 1)
          /\ \A i \in Rows : audits'[i] = audits[i]
          /\ audits'[n + 1] = new
      BY <1>2, <2>1, AppendProperties, LenProperties DEF Types, Rows
    <2>3. \A i \in Rows : i \in Rows' /\ i # n + 1
      BY <2>2
    <2>4. \A i \in Rows' : i \in Rows \/ i = n + 1
      BY <2>2
    <2>5. RowsInv'
      BY <2>1, <2>2, <2>4 DEF TableInv, RowsInv
    <2>6. \A i \in Rows : Refuted(i) => Refuted(i)'
      BY <2>2, <2>3 DEF Refuted
    <2>7. LinkInv'
      <3> SUFFICES ASSUME NEW i \in Rows', audits'[i].root # 0
                   PROVE  /\ audits'[i].root < i /\ Refuted(audits[i].root)'
                          /\ Independent(audits'[i], audits'[audits'[i].root])
        BY DEF LinkInv
      <3>1. CASE i \in Rows
        BY <3>1, <2>2, <2>6 DEF TableInv, LinkInv, Refuted
      <3>2. CASE i = n + 1
        <4>1. k \in Rows /\ Refuted(k) /\ audits'[i].root = k /\ k < i
          BY <3>2, <2>1, <2>2 DEF Refuted
        <4>2. Independent(audits'[i], audits'[k])
          BY <3>2, <2>1, <2>2 DEF Independent
        <4> QED BY <4>1, <4>2, <2>6
      <3> QED BY <3>1, <3>2, <2>4
    <2>8. LastOpen'
      BY <1>2, <2>2, <2>4 DEF LastOpen, Open
    <2>9. ConfirmersAreFresh'
      <3> SUFFICES ASSUME NEW j \in Rows', NEW l \in Rows', j < l,
                          audits'[j].root # 0, audits'[j].root = audits'[l].root,
                          audits'[j].by # None,
                          audits'[j].status = "EXPIRED" \/ audits'[j].verdict = "INCONCLUSIVE"
                   PROVE  audits'[l].by # audits'[j].by
        BY DEF ConfirmersAreFresh
      <3>1. CASE l = n + 1
        BY <3>1, <2>1, <2>2
      <3>2. CASE l \in Rows /\ j \in Rows
        BY <3>2, <2>2 DEF TableInv, ConfirmersAreFresh
      <3> QED BY <3>1, <3>2, <2>2, <2>4
    <2>10. ClosedRowsStand
      BY <2>2, <2>3 DEF ClosedRowsStand
    <2> QED BY <2>2, <2>5, <2>7, <2>8, <2>9, <2>10 DEF TableInv
  <1> QED BY <1>1, <1>2 DEF Insert

\* Only the newest row is open, so a statement on an open row keeps the invariant if the
\* row it writes is sound, and its runner is fit for what it does.
LEMMA ReplaceStep ==
    ASSUME Types, TableInv, NEW i \in Rows, Open(i), NEW row \in AuditRow, Set(i, row),
           RowOK(row), row.root = audits[i].root,
           row.root # 0 => Independent(row, audits[row.root]),
           row.by \in {None, audits[i].by} \/
             \A j \in Rows : (audits[j].root = row.root /\ row.root # 0 /\ EndedBadly(j)) => audits[j].by # row.by
    PROVE  audits' \in Seq(AuditRow) /\ TableInv' /\ ClosedRowsStand
  <1> USE RowTyped
  <1>1. /\ audits' \in Seq(AuditRow) /\ Len(audits') = Len(audits) /\ Rows' = Rows
        /\ audits'[i] = row /\ \A j \in Rows : j # i => audits'[j] = audits[j]
    BY ExceptSeq, LenProperties DEF Types, Rows, Set
  <1>2. i = Len(audits)
    BY DEF TableInv, LastOpen
  <1>3. \A j \in Rows : ~Open(j) => j # i /\ audits'[j] = audits[j]
    BY <1>1
  <1>4. ClosedRowsStand
    BY <1>1, <1>3 DEF ClosedRowsStand
  <1>5. RowsInv'
    BY <1>1 DEF TableInv, RowsInv
  <1>6. \A j \in Rows : Refuted(j) => j # i /\ Refuted(j)'
    BY <1>1, <1>3, RefutedClosed DEF Refuted
  <1>7. LinkInv'
    <2> SUFFICES ASSUME NEW j \in Rows, audits'[j].root # 0
                 PROVE  /\ audits'[j].root < j /\ Refuted(audits[j].root)'
                        /\ Independent(audits'[j], audits'[audits'[j].root])
      BY <1>1 DEF LinkInv
    <2>1. audits'[j].root = audits[j].root
      BY <1>1
    <2>2. audits[j].root < j /\ Refuted(audits[j].root) /\ audits[j].root \in Rows
      BY <2>1 DEF TableInv, LinkInv, Refuted
    <2>3. Refuted(audits[j].root)' /\ audits'[audits[j].root] = audits[audits[j].root]
      BY <2>2, <1>6, <1>1
    <2>4. Independent(audits'[j], audits[audits[j].root])
      BY <1>1, <2>1 DEF TableInv, LinkInv
    <2> QED BY <2>1, <2>2, <2>3, <2>4
  <1>8. LastOpen'
    BY <1>1, <1>2 DEF TableInv, LastOpen, Open
  <1>9. ConfirmersAreFresh'
    <2> SUFFICES ASSUME NEW j \in Rows, NEW l \in Rows, j < l,
                        audits'[j].root # 0, audits'[j].root = audits'[l].root,
                        audits'[j].by # None,
                        audits'[j].status = "EXPIRED" \/ audits'[j].verdict = "INCONCLUSIVE"
                 PROVE  audits'[l].by # audits'[j].by
      BY <1>1 DEF ConfirmersAreFresh
    <2>1. j # i /\ audits'[j] = audits[j]
      BY <1>1, <1>2
    <2>2. CASE l # i
      BY <1>1, <2>1, <2>2 DEF TableInv, ConfirmersAreFresh
    <2>3. CASE l = i
      BY <1>1, <2>1, <2>3 DEF TableInv, ConfirmersAreFresh, EndedBadly
    <2> QED BY <2>2, <2>3
  <1> QED BY <1>1, <1>4, <1>5, <1>7, <1>8, <1>9 DEF TableInv

\* The enforcement state of a row is not evidence.
LEMMA StateStep ==
    ASSUME Types, TableInv, NEW i \in Rows, NEW s \in RowStates,
           audits' = [audits EXCEPT ![i].state = s]
    PROVE  audits' \in Seq(AuditRow) /\ TableInv' /\ ClosedRowsStand
  <1> USE RowTyped
  <1> DEFINE row == [audits[i] EXCEPT !.state = s]
  <1>1. row \in AuditRow /\ \A j \in Rows : audits[j] \in AuditRow
    BY DEF AuditRow
  <1>2. /\ audits' \in Seq(AuditRow) /\ Len(audits') = Len(audits) /\ Rows' = Rows
        /\ audits'[i] = row /\ \A j \in Rows : j # i => audits'[j] = audits[j]
    <2>1. audits' = [audits EXCEPT ![i] = row]
      OBVIOUS
    <2> HIDE DEF row
    <2>2. audits \in Seq(AuditRow) /\ row \in AuditRow /\ i \in 1 .. Len(audits)
      BY <1>1 DEF Types
    <2>3. /\ audits' \in Seq(AuditRow) /\ Len(audits') = Len(audits)
          /\ \A j \in 1 .. Len(audits) : audits'[j] = IF j = i THEN row ELSE audits[j]
      <3> DEFINE new == [audits EXCEPT ![i] = row]
      <3>1. /\ new \in Seq(AuditRow) /\ Len(new) = Len(audits)
            /\ \A j \in 1 .. Len(audits) : new[j] = IF j = i THEN row ELSE audits[j]
        BY <2>2, ExceptSeq
      <3> HIDE DEF new
      <3> QED BY <2>1, <3>1 DEF new
    <2>4. Rows' = Rows
      BY <2>3, LenProperties DEF Rows
    <2> QED BY <2>2, <2>3, <2>4
  <1>3. \A j \in Rows : /\ Evidence(audits'[j]) = Evidence(audits[j])
                        /\ audits'[j].root = audits[j].root /\ audits'[j].status = audits[j].status
                        /\ audits'[j].by = audits[j].by /\ audits'[j].class = audits[j].class
                        /\ audits'[j].attempts = audits[j].attempts /\ audits'[j].verdict = audits[j].verdict
                        /\ audits'[j].output = audits[j].output /\ audits'[j].author = audits[j].author
    <2> TAKE j \in Rows
    <2>1. CASE j = i
      BY <1>1, <1>2, <2>1 DEF AuditRow, Evidence
    <2>2. CASE j # i
      BY <1>1, <1>2, <2>2 DEF AuditRow
    <2> QED BY <2>1, <2>2
  <1>4. ClosedRowsStand
    BY <1>2, <1>3 DEF ClosedRowsStand
  <1>5. RowsInv'
    BY <1>2, <1>3 DEF TableInv, RowsInv, RowOK
  <1>6. LinkInv'
    BY <1>2, <1>3 DEF TableInv, LinkInv, Refuted, Independent
  <1>7. LastOpen'
    BY <1>2, <1>3 DEF TableInv, LastOpen, Open
  <1>8. ConfirmersAreFresh'
    BY <1>2, <1>3 DEF TableInv, ConfirmersAreFresh
  <1> QED BY <1>2, <1>4, <1>5, <1>6, <1>7, <1>8 DEF TableInv

-----------------------------------------------------------------------------
(* One lemma per statement that writes the table.                          *)

\* What the statements below keep of the table.
TableKept == audits' \in Seq(AuditRow) /\ TableInv' /\ ClosedRowsStand

\* A statement that does not write the table keeps it.
LEMMA TableUnchanged ==
    ASSUME Types, TableInv, UNCHANGED audits
    PROVE  TableKept
  <1>1. TableInv'
    BY DEF TableInv, RowsInv, LinkInv, LastOpen, ConfirmersAreFresh, Rows, Refuted, Open
  <1>2. ClosedRowsStand
    BY DEF ClosedRowsStand, Rows
  <1> QED BY <1>1, <1>2 DEF Types, TableKept

\* Claim: a runner that may confirm is not the root's, nor one that failed before.
LEMMA ClaimStep ==
    ASSUME Types, TableInv, NEW r \in Runners, ClaimJob(r)
    PROVE  TableKept
  <1> USE RowTyped
  <1>1. PICK i \in Rows :
          /\ Claimable(i, r)
          /\ LET row == [audits[i] EXCEPT !.status = "CLAIMED", !.by = r, !.class = HRClass(r),
                                          !.attempts = @ + 1]
             IN  Set(i, row)
    BY DEF ClaimJob
  <1> DEFINE row == [audits[i] EXCEPT !.status = "CLAIMED", !.by = r, !.class = HRClass(r),
                                      !.attempts = @ + 1]
  <1>2. audits[i] \in AuditRow /\ audits[i].status = "QUEUED" /\ RowOK(audits[i]) /\ Open(i)
    BY <1>1 DEF Claimable, TableInv, RowsInv, Open
  <1>3. /\ row \in AuditRow /\ row.root = audits[i].root /\ row.by = r /\ row.class = HRClass(r)
        /\ RowOK(row)
    <2>1. audits[i].attempts \in Nat /\ audits[i].attempts + 1 <= MaxAttempts /\ audits[i].verdict = None
      BY <1>2, AuditAssumption DEF AuditRow, RowOK
    <2>2. row \in AuditRow /\ row.root = audits[i].root /\ row.by = r /\ row.class = HRClass(r)
          /\ row.status = "CLAIMED" /\ row.attempts = audits[i].attempts + 1 /\ row.verdict = None
      <3> DEFINE c == HRClass(r)
                 a == audits[i].attempts + 1
      <3>1. c \in Classes \cup {None} /\ a \in Nat
        BY <2>1 DEF Classes
      <3>2. row = [audits[i] EXCEPT !.status = "CLAIMED", !.by = r, !.class = c, !.attempts = a]
        OBVIOUS
      <3> HIDE DEF c, a, row
      <3>3. row \in AuditRow
        BY <1>2, <3>1, <3>2 DEF AuditRow, RowStatuses
      <3>4. /\ row.root = audits[i].root /\ row.by = r /\ row.class = c
            /\ row.status = "CLAIMED" /\ row.attempts = a /\ row.verdict = None
        BY <1>2, <2>1, <3>2 DEF AuditRow
      <3> QED BY <3>3, <3>4 DEF c, a
    <2>3. RowOK(row)
      BY <2>1, <2>2, AuditAssumption DEF RowOK, Verdicts
    <2> QED BY <2>2, <2>3
  <1>4. audits[i].root # 0 => MayConfirm(i, r)
    BY <1>1 DEF Claimable
  <1>5. /\ row.root # 0 => Independent(row, audits[row.root])
        /\ \A j \in Rows : (audits[j].root = row.root /\ row.root # 0 /\ EndedBadly(j)) => audits[j].by # row.by
    <2> HIDE DEF row
    <2> QED BY <1>3, <1>4 DEF MayConfirm, Independent
  <1>6. Set(i, row)
    BY <1>1
  <1> HIDE DEF row
  <1> QED BY <1>2, <1>3, <1>5, <1>6, ReplaceStep DEF TableKept

\* CompleteVerdict: the verdict is computed from what the claimant submitted.
LEMMA SubmitStep ==
    ASSUME Types, TableInv, NEW r \in Runners, NEW i \in Rows, NEW o \in Outputs, SubmitResult(r, i, o)
    PROVE  TableKept
  <1> USE RowTyped
  <1>1. audits[i] \in AuditRow /\ audits[i].status = "CLAIMED" /\ audits[i].by = r /\ RowOK(audits[i]) /\ Open(i)
    BY DEF SubmitResult, Claimant, TableInv, RowsInv, Open
  <1>2. PICK st \in {"AWAITING_CONFIRMATION", audits[i].state} :
          Set(i, [audits[i] EXCEPT !.status = "COMPLETED", !.verdict = Adjudicate(o), !.output = o,
                                   !.author = r, !.eligible = Enforcement, !.state = st])
    BY DEF SubmitResult
  <1> DEFINE row == [audits[i] EXCEPT !.status = "COMPLETED", !.verdict = Adjudicate(o), !.output = o,
                                      !.author = r, !.eligible = Enforcement, !.state = st]
  <1>3. st \in RowStates /\ Adjudicate(o) \in Verdicts
    BY <1>1 DEF AuditRow, RowStates, Adjudicate, Verdicts
  <1>4. /\ row \in AuditRow /\ row.root = audits[i].root /\ row.by = r /\ row.class = audits[i].class
        /\ row.status = "COMPLETED" /\ row.verdict = Adjudicate(o) /\ row.output = o /\ row.author = r
        /\ row.attempts = audits[i].attempts
    BY <1>1, <1>3, AuditAssumption DEF AuditRow, RowStatuses
  <1> HIDE DEF row
  <1>5. RowOK(row)
    BY <1>1, <1>3, <1>4, AuditAssumption DEF RowOK
  <1>6. row.root # 0 => Independent(row, audits[row.root])
    BY <1>1, <1>4 DEF TableInv, LinkInv, Independent
  <1> QED BY <1>1, <1>2, <1>4, <1>5, <1>6, ReplaceStep DEF TableKept, row

\* CompleteInconclusive: a claim of a unit that is gone ends without an output.
LEMMA GoneStep ==
    ASSUME Types, TableInv, NEW r \in Runners, NEW i \in Rows, CompleteInconclusive(r, i)
    PROVE  TableKept
  <1> USE RowTyped
  <1> DEFINE row == [audits[i] EXCEPT !.status = "COMPLETED", !.verdict = "INCONCLUSIVE"]
  <1>1. audits[i] \in AuditRow /\ audits[i].status = "CLAIMED" /\ audits[i].by = r /\ RowOK(audits[i]) /\ Open(i)
    BY DEF CompleteInconclusive, Claimant, TableInv, RowsInv, Open
  <1>2. Set(i, row)
    BY DEF CompleteInconclusive
  <1>3. /\ row \in AuditRow /\ row.root = audits[i].root /\ row.by = r /\ row.class = audits[i].class
        /\ row.status = "COMPLETED" /\ row.verdict = "INCONCLUSIVE"
        /\ row.attempts = audits[i].attempts
    BY <1>1 DEF AuditRow, RowStatuses, Verdicts
  <1> HIDE DEF row
  <1>4. RowOK(row)
    BY <1>1, <1>3, AuditAssumption DEF RowOK, Verdicts
  <1>5. row.root # 0 => Independent(row, audits[row.root])
    BY <1>1, <1>3 DEF TableInv, LinkInv, Independent
  <1> QED BY <1>1, <1>2, <1>3, <1>4, <1>5, ReplaceStep DEF TableKept

\* ReleaseFailure and SweepLapsedLeases: the job goes back to the queue or expires.
LEMMA GivenUpStep ==
    ASSUME Types, TableInv, NEW i \in Rows, audits[i].status = "CLAIMED", Set(i, GivenUp(i))
    PROVE  TableKept
  <1> USE RowTyped
  <1> DEFINE row == GivenUp(i)
  <1>1. audits[i] \in AuditRow /\ RowOK(audits[i]) /\ Open(i) /\ audits[i].verdict = None
    BY DEF TableInv, RowsInv, RowOK, Open
  <1>2. /\ row \in AuditRow /\ row.root = audits[i].root /\ row.by \in {None, audits[i].by}
        /\ row.status \in {"QUEUED", "EXPIRED"} /\ row.verdict = None
        /\ row.attempts = audits[i].attempts
        /\ row.status = "QUEUED" => row.attempts < MaxAttempts
    <2>1. CASE Retries(i)
      <3>1. row = [audits[i] EXCEPT !.status = "QUEUED", !.by = None]
        BY <2>1 DEF GivenUp
      <3>2. audits[i].attempts < MaxAttempts
        BY <2>1 DEF Retries
      <3> HIDE DEF row
      <3>3. row \in AuditRow
        <4> DEFINE queued == [audits[i] EXCEPT !.status = "QUEUED"]
        <4>1. queued \in AuditRow
          BY <1>1 DEF AuditRow, RowStatuses
        <4>2. row = [queued EXCEPT !.by = None]
          BY <3>1
        <4> HIDE DEF queued
        <4> QED BY <4>1, <4>2 DEF AuditRow
      <3>4. /\ row.root = audits[i].root /\ row.by = None /\ row.status = "QUEUED"
            /\ row.verdict = None /\ row.attempts = audits[i].attempts
        BY <1>1, <3>1 DEF AuditRow
      <3> QED BY <3>2, <3>3, <3>4
    <2>2. CASE ~Retries(i)
      BY <1>1, <2>2 DEF AuditRow, GivenUp, RowStatuses
    <2> QED BY <2>1, <2>2
  <1>3. Set(i, row)
    OBVIOUS
  <1> HIDE DEF row
  <1>4. RowOK(row)
    BY <1>1, <1>2, AuditAssumption DEF RowOK, Verdicts
  <1>5. row.root # 0 => Independent(row, audits[row.root])
    BY <1>2 DEF Independent
  <1> QED BY <1>1, <1>2, <1>3, <1>4, <1>5, ReplaceStep DEF TableKept

\* SweepStaleQueued: the job expires.
LEMMA StaleStep ==
    ASSUME Types, TableInv, NEW i \in Rows, SweepStaleQueued(i)
    PROVE  TableKept
  <1> USE RowTyped
  <1> DEFINE row == [audits[i] EXCEPT !.status = "EXPIRED"]
  <1>1. audits[i] \in AuditRow /\ RowOK(audits[i]) /\ Open(i) /\ audits[i].verdict = None
    BY DEF SweepStaleQueued, StaleQueued, TableInv, RowsInv, RowOK, Open
  <1>2. /\ row \in AuditRow /\ row.root = audits[i].root /\ row.by = audits[i].by
        /\ row.status = "EXPIRED" /\ row.verdict = None /\ row.attempts = audits[i].attempts
    BY <1>1 DEF AuditRow, RowStatuses
  <1>3. Set(i, row)
    BY DEF SweepStaleQueued
  <1> HIDE DEF row
  <1>4. RowOK(row)
    BY <1>1, <1>2, AuditAssumption DEF RowOK, Verdicts
  <1>5. row.root # 0 => Independent(row, audits[row.root])
    BY <1>2 DEF Independent
  <1> QED BY <1>1, <1>2, <1>3, <1>4, <1>5, ReplaceStep DEF TableKept

\* SetEnforcementState: the root's state, and nothing else.
LEMMA OutcomeStep ==
    ASSUME Types, TableInv, PassInv, NEW h \in Heads, SetEnforcementState(h)
    PROVE  TableKept
  <1>1. pass[h].at \in {"await", "stall", "contradict", "consequences"}
    BY DEF SetEnforcementState, Outcome
  <1>2. Outcome[pass[h].at] \in RowStates
    BY <1>1 DEF Outcome, RowStates
  <1>3. pass[h].root \in Rows
    BY <1>1 DEF PassInv, Refuted
  <1>4. CASE audits' = audits
    BY <1>4, TableUnchanged
  <1>5. CASE audits' = [audits EXCEPT ![pass[h].root].state = Outcome[pass[h].at]]
    BY <1>2, <1>3, <1>5, StateStep DEF TableKept
  <1> QED BY <1>4, <1>5 DEF SetEnforcementState

-----------------------------------------------------------------------------
(* Every step keeps the invariant.                                         *)

\* Rows refuted once stay refuted, with the bytes that refuted.
LEMMA RefutedStands ==
    ASSUME Types, TableInv, ClosedRowsStand, NEW i, Refuted(i)
    PROVE  Refuted(i)' /\ audits'[i].output = audits[i].output
  BY RefutedClosed DEF ClosedRowsStand, Evidence, Refuted

\* The table, whatever the step.
LEMMA TableStep ==
    ASSUME Types, AuditInv, Next
    PROVE  TableKept
  <1> USE RowTyped DEF AuditInv
  <1>1. CASE Sample
    BY <1>1, InsertStep DEF Sample, TableKept
  <1>2. ASSUME NEW r \in Runners, Register(r) \/ Deactivate(r)
        PROVE  TableKept
    BY <1>2, TableUnchanged DEF Register, Deactivate
  <1>3. ASSUME NEW r \in Runners, ClaimJob(r)
        PROVE  TableKept
    BY <1>3, ClaimStep
  <1>4. ASSUME NEW r \in Runners, NEW i \in Rows, CompleteInconclusive(r, i) \/ ReleaseFailure(r, i)
        PROVE  TableKept
    BY <1>4, GoneStep, GivenUpStep DEF ReleaseFailure, Claimant
  <1>5. ASSUME NEW r \in Runners, NEW i \in Rows, NEW o \in Outputs, SubmitResult(r, i, o)
        PROVE  TableKept
    BY <1>5, SubmitStep
  <1>6. ASSUME NEW i \in Rows, EnqueueAtVerdict(i)
        PROVE  TableKept
    <2>1. CASE Insert(i)
      BY <1>6, <2>1, InsertStep DEF EnqueueAtVerdict, OwedInv, TableKept
    <2>2. CASE UNCHANGED audits
      BY <2>2, TableUnchanged
    <2> QED BY <1>6, <2>1, <2>2 DEF EnqueueAtVerdict
  <1>7. ASSUME NEW i \in Rows, Reclaim(i)
        PROVE  TableKept
    BY <1>7, GivenUpStep, StaleStep DEF Reclaim, SweepLapsedLeases
  <1>8. ASSUME NEW h \in Heads, Step(h)
        PROVE  TableKept
    <2>1. CASE Resolve(h)
      BY <2>1, TableUnchanged DEF Resolve
    <2>2. CASE EnqueueConfirmation(h)
      <3>1. Refuted(pass[h].root) /\ pass[h].root \in Nat /\ Insert(pass[h].root)
        BY <2>2 DEF EnqueueConfirmation, PassInv, Types, Refuted
      <3> QED BY <3>1, InsertStep DEF TableKept
    <2>3. CASE SetEnforcementState(h)
      BY <2>3, OutcomeStep
    <2> QED BY <1>8, <2>1, <2>2, <2>3 DEF Step
  <1>9. ASSUME NEW h \in Heads, PassFails(h) \/ Failover(h) \/ \E i \in Rows : ListActionableRoots(h, i)
        PROVE  TableKept
    BY <1>9, TableUnchanged DEF PassFails, Failover, ListActionableRoots
  <1> QED BY <1>1, <1>2, <1>3, <1>4, <1>5, <1>6, <1>7, <1>8, <1>9 DEF Next

\* What is owed stays refuted; a mismatching original is refuted from its verdict on.
LEMMA OwedStep ==
    ASSUME Types, AuditInv, Next, TableKept
    PROVE  OwedInv' /\ active' \subseteq Runners
  <1> USE RowTyped DEF AuditInv
  <1>0. \A i \in owed : Refuted(i)'
    BY RefutedStands DEF OwedInv, TableKept
  <1>1. CASE owed' \subseteq owed /\ active' \subseteq Runners
    BY <1>0, <1>1 DEF OwedInv
  <1>2. ASSUME NEW r \in Runners, NEW i \in Rows, NEW o \in Outputs, SubmitResult(r, i, o)
        PROVE  OwedInv' /\ active' \subseteq Runners
    <2>1. CASE owed' = owed
      BY <1>2, <1>0, <2>1 DEF SubmitResult, OwedInv, Types
    <2>2. CASE Adjudicate(o) = "MISMATCH" /\ audits[i].root = 0 /\ owed' = owed \cup {i}
      <3>1. audits' = [audits EXCEPT ![i] = audits'[i]]
            /\ audits'[i].verdict = "MISMATCH" /\ audits'[i].root = 0
        BY <1>2, <2>2 DEF SubmitResult, Set, AuditRow, Rows
      <3>2. i \in Rows'
        BY <1>2 DEF SubmitResult, Set, Rows
      <3>3. Refuted(i)'
        BY <3>1, <3>2 DEF Refuted
      <3> QED BY <1>0, <1>2, <2>2, <3>3 DEF OwedInv, SubmitResult, Types
    <2> QED BY <1>2, <2>1, <2>2 DEF SubmitResult
  <1>3. Next => \/ owed' \subseteq owed /\ active' \subseteq Runners
                \/ \E r \in Runners, i \in Rows, o \in Outputs : SubmitResult(r, i, o)
    BY DEF Next, Types, Sample, Register, Deactivate, ClaimJob, CompleteInconclusive, ReleaseFailure, EnqueueAtVerdict,
           Reclaim, SweepLapsedLeases, SweepStaleQueued, Step, Resolve, EnqueueConfirmation,
           SetEnforcementState, PassFails, Failover, ListActionableRoots
  <1> QED BY <1>1, <1>2, <1>3

\* Resolve reads the newest confirmation: if it says consequences, that row refuted too,
\* with the root's bytes.
LEMMA ResolveReads ==
    ASSUME Types, AuditInv, NEW i \in Rows, ResolveConfirmation(i) = "consequences"
    PROVE  LET j == Max(ConfirmationsForRoot(i))
           IN  /\ j \in Rows /\ audits[j].root = i
               /\ audits[j].verdict = "MISMATCH" /\ audits[j].output = audits[i].output
  <1> USE RowTyped
  <1> DEFINE T == ConfirmationsForRoot(i)
             j == Max(T)
  <1>1. T # {}
    BY DEF ResolveConfirmation
  <1>2. T \in SUBSET (1..Len(audits))
    BY DEF ConfirmationsForRoot
  <1>3. j \in T
    <2> HIDE DEF T
    <2> QED BY <1>1, <1>2, NewestRow
  <1>4. j \in Rows /\ audits[j].root = i /\ audits[j] \in AuditRow /\ RowOK(audits[j])
    BY <1>3 DEF ConfirmationsForRoot, AuditInv, TableInv, RowsInv
  <1>5. audits[j].verdict = "MISMATCH" /\ audits[j].output = audits[i].output
    <2> DEFINE latest == audits[j]
    <2>1. latest.status \in RowStatuses /\ latest.verdict \in Verdicts \cup {None}
          /\ (latest.status = "COMPLETED") = (latest.verdict # None)
      BY <1>4 DEF AuditRow, RowOK
    <2>2. ResolveConfirmation(i) =
            CASE latest.status \in {"QUEUED", "CLAIMED"} -> "idle"
              [] latest.status = "EXPIRED" -> EscalateOrStall(i)
              [] latest.verdict = "INCONCLUSIVE" -> EscalateOrStall(i)
              [] latest.verdict = "MATCH" -> "contradict"
              [] latest.verdict = "MISMATCH" ->
                   IF latest.output = audits[i].output THEN "consequences" ELSE "contradict"
      BY <1>1 DEF ResolveConfirmation
    <2>3. EscalateOrStall(i) # "consequences"
      BY DEF EscalateOrStall
    <2> HIDE DEF latest
    <2>4. latest.verdict = "MISMATCH" /\ latest.output = audits[i].output
      BY <2>1, <2>2, <2>3, AuditAssumption DEF RowStatuses, Verdicts
    <2> QED BY <2>4 DEF latest
  <1> QED BY <1>4, <1>5

\* What each head's pass knows stays true; a new pass and Resolve read it from the table.
LEMMA PassStep ==
    ASSUME Types, AuditInv, Next, TableKept
    PROVE  PassInv' /\ pass' \in [Heads -> [at : PassSteps, root : Nat, confirm : Nat]]
  <1> USE RowTyped DEF AuditInv
  <1> DEFINE Pass == [at : PassSteps, root : Nat, confirm : Nat]
             Knows(p) ==
               /\ p.at # "idle" => Refuted(p.root)
               /\ p.at = "consequences" =>
                    /\ p.confirm \in Rows /\ audits[p.confirm].root = p.root
                    /\ audits[p.confirm].verdict = "MISMATCH"
                    /\ audits[p.confirm].output = audits[p.root].output
  <1>1. ASSUME NEW p \in Pass, Knows(p)
        PROVE  /\ p.at # "idle" => Refuted(p.root)'
               /\ p.at = "consequences" =>
                    /\ p.confirm \in Rows' /\ audits'[p.confirm].root = p.root
                    /\ audits'[p.confirm].verdict = "MISMATCH"
                    /\ audits'[p.confirm].output = audits'[p.root].output
    <2>1. p.at # "idle" => Refuted(p.root)' /\ audits'[p.root].output = audits[p.root].output
      BY <1>1, RefutedStands DEF TableKept
    <2>2. ASSUME p.at = "consequences"
          PROVE  /\ p.confirm \in Rows' /\ audits'[p.confirm].root = audits[p.confirm].root
                 /\ audits'[p.confirm].verdict = audits[p.confirm].verdict
                 /\ audits'[p.confirm].output = audits[p.confirm].output
      <3>1. p.confirm \in Rows /\ ~Open(p.confirm)
        BY <1>1, <2>2, AuditAssumption DEF TableInv, RowsInv, RowOK, Open, Verdicts
      <3> QED BY <3>1 DEF TableKept, ClosedRowsStand, Evidence
    <2> QED BY <1>1, <2>1, <2>2
  <1>2. \A g \in Heads : pass[g] \in Pass /\ Knows(pass[g])
    BY DEF PassInv, Types
  <1>3. CASE pass' = pass
    <2> SUFFICES ASSUME NEW g \in Heads, NEW q \in {pass[g]}
                 PROVE  /\ q.at # "idle" => Refuted(q.root)'
                        /\ q.at = "consequences" =>
                             /\ q.confirm \in Rows' /\ audits'[q.confirm].root = q.root
                             /\ audits'[q.confirm].verdict = "MISMATCH"
                             /\ audits'[q.confirm].output = audits'[q.root].output
      BY <1>3 DEF PassInv, Types, Refuted
    <2>1. q \in Pass /\ Knows(q)
      BY <1>2
    <2> HIDE DEF Knows
    <2> QED BY <1>1, <2>1
  <1>4. ASSUME NEW h \in Heads, NEW p \in Pass, Knows(p), pass' = [pass EXCEPT ![h] = p]
        PROVE  PassInv' /\ pass' \in [Heads -> Pass]
    <2>1. pass' \in [Heads -> Pass] /\ \A g \in Heads : pass'[g] \in {p, pass[g]}
      BY <1>4 DEF Types
    <2> SUFFICES ASSUME NEW g \in Heads, NEW q \in {p, pass[g]}
                 PROVE  /\ q.at # "idle" => Refuted(q.root)'
                        /\ q.at = "consequences" =>
                             /\ q.confirm \in Rows' /\ audits'[q.confirm].root = q.root
                             /\ audits'[q.confirm].verdict = "MISMATCH"
                             /\ audits'[q.confirm].output = audits'[q.root].output
      BY <2>1 DEF PassInv, Refuted
    <2>2. q \in Pass /\ Knows(q)
      BY <1>2, <1>4
    <2> HIDE DEF Knows
    <2> QED BY <1>1, <2>2
  <1>5. IdlePass \in Pass /\ Knows(IdlePass)
    BY DEF IdlePass, PassSteps
  <1>6. ASSUME NEW h \in Heads, Resolve(h)
        PROVE  \E p \in Pass : Knows(p) /\ pass' = [pass EXCEPT ![h] = p]
    <2> DEFINE i == pass[h].root
               next == ResolveConfirmation(i)
               j == Max(ConfirmationsForRoot(i))
               p == [at |-> next, root |-> i, confirm |-> IF next = "enqueue" THEN 0 ELSE j]
    <2>1. i \in Rows /\ Refuted(i) /\ i \in Nat
      BY <1>6 DEF Resolve, PassInv, Refuted
    <2>2. CASE next = "idle"
      BY <1>5, <1>6, <2>2 DEF Resolve
    <2>3. CASE next # "idle"
      <3>1. pass' = [pass EXCEPT ![h] = p]
        BY <1>6, <2>3 DEF Resolve
      <3>2. next \in PassSteps /\ (next # "enqueue" => j \in Rows)
        <4>1. CASE ConfirmationsForRoot(i) = {}
          BY <4>1 DEF ResolveConfirmation, PassSteps
        <4>2. CASE ConfirmationsForRoot(i) # {}
          <5>1. ConfirmationsForRoot(i) \in SUBSET (1..Len(audits))
            BY DEF ConfirmationsForRoot
          <5>2. j \in ConfirmationsForRoot(i)
            BY <4>2, <5>1, NewestRow
          <5>3. j \in Rows /\ audits[j] \in AuditRow /\ RowOK(audits[j])
            BY <5>2 DEF ConfirmationsForRoot, TableInv, RowsInv
          <5> DEFINE latest == audits[j]
          <5>4. latest.status \in RowStatuses /\ latest.verdict \in Verdicts \cup {None}
                /\ (latest.status = "COMPLETED") = (latest.verdict # None)
            BY <5>3 DEF AuditRow, RowOK
          <5>5. next =
                  CASE latest.status \in {"QUEUED", "CLAIMED"} -> "idle"
                    [] latest.status = "EXPIRED" -> EscalateOrStall(i)
                    [] latest.verdict = "INCONCLUSIVE" -> EscalateOrStall(i)
                    [] latest.verdict = "MATCH" -> "contradict"
                    [] latest.verdict = "MISMATCH" ->
                         IF latest.output = audits[i].output THEN "consequences" ELSE "contradict"
            BY <4>2 DEF ResolveConfirmation
          <5>6. EscalateOrStall(i) \in PassSteps
            BY DEF EscalateOrStall, PassSteps
          <5> HIDE DEF latest
          <5>7. next \in PassSteps
            BY <5>4, <5>5, <5>6, AuditAssumption DEF RowStatuses, Verdicts, PassSteps
          <5> QED BY <5>3, <5>7
        <4> QED BY <4>1, <4>2
      <3>3. p \in Pass
        BY <2>1, <3>2
      <3>4. Knows(p)
        BY <2>1, ResolveReads
      <3> QED BY <3>1, <3>3, <3>4
    <2> QED BY <2>2, <2>3
  <1>7. ASSUME NEW h \in Heads, EnqueueConfirmation(h)
        PROVE  \E p \in Pass : Knows(p) /\ pass' = [pass EXCEPT ![h] = p]
    <2> DEFINE p == [pass[h] EXCEPT !.at = "await"]
    <2>1. p \in Pass /\ p.at = "await" /\ p.root = pass[h].root /\ pass' = [pass EXCEPT ![h] = p]
      BY <1>2, <1>7 DEF EnqueueConfirmation, PassSteps
    <2>2. Knows(p)
      BY <1>7, <2>1 DEF EnqueueConfirmation, PassInv
    <2> QED BY <2>1, <2>2
  <1>8. ASSUME NEW h \in Heads, NEW i \in Rows, ListActionableRoots(h, i)
        PROVE  \E p \in Pass : Knows(p) /\ pass' = [pass EXCEPT ![h] = p]
    <2> DEFINE p == [at |-> "resolve", root |-> i, confirm |-> 0]
    <2>1. p \in Pass /\ Knows(p) /\ pass' = [pass EXCEPT ![h] = p]
      BY <1>8 DEF ListActionableRoots, Actionable, Refuted, PassSteps
    <2> QED BY <2>1
  <1>9. ASSUME NEW h \in Heads, SetEnforcementState(h) \/ PassFails(h)
        PROVE  \E p \in Pass : Knows(p) /\ pass' = [pass EXCEPT ![h] = p]
    BY <1>5, <1>9 DEF SetEnforcementState, PassFails
  <1>10. \/ pass' = pass
         \/ \E h \in Heads : \E p \in Pass : Knows(p) /\ pass' = [pass EXCEPT ![h] = p]
    <2> HIDE DEF Knows, Pass
    <2>1. \/ pass' = pass
          \/ \E h \in Heads : Resolve(h) \/ EnqueueConfirmation(h) \/ SetEnforcementState(h) \/ PassFails(h)
          \/ \E h \in Heads : \E i \in Rows : ListActionableRoots(h, i)
      BY DEF Next, Sample, Register, Deactivate, ClaimJob, CompleteInconclusive, SubmitResult, ReleaseFailure,
             EnqueueAtVerdict, Reclaim, SweepLapsedLeases, SweepStaleQueued, Step, Failover
    <2> QED BY <2>1, <1>6, <1>7, <1>8, <1>9
  <1> HIDE DEF Knows
  <1> QED BY <1>3, <1>4, <1>10 DEF Types

\* All of it.
LEMMA InvStep ==
    ASSUME Types, AuditInv, [Next]_vars
    PROVE  Types' /\ AuditInv' /\ ClosedRowsStand
  <1>1. CASE Next
    <2>1. TableKept
      BY <1>1, TableStep
    <2> QED BY <1>1, <2>1, OwedStep, PassStep DEF TableKept, Types, AuditInv
  <1>2. CASE UNCHANGED vars
    <2>1. TableKept /\ UNCHANGED <<audits, active, owed, pass>>
      BY <1>2, TableUnchanged DEF vars, AuditInv
    <2>2. OwedInv' /\ PassInv'
      BY <2>1 DEF AuditInv, OwedInv, PassInv, Refuted, Rows
    <2> QED BY <2>1, <2>2 DEF TableKept, Types, AuditInv
  <1> QED BY <1>1, <1>2

\* It holds of an empty table.
LEMMA InvInit == Init => Types /\ AuditInv
  <1> SUFFICES ASSUME Init PROVE Types /\ AuditInv
    OBVIOUS
  <1>1. audits = <<>> /\ Rows = {} /\ owed = {} /\ \A h \in Heads : pass[h] = IdlePass
    BY DEF Init, Rows
  <1>2. Types
    BY EmptySeq DEF Init, Types, IdlePass, PassSteps
  <1>3. TableInv
    BY <1>1 DEF TableInv, RowsInv, LinkInv, LastOpen, ConfirmersAreFresh
  <1>4. OwedInv /\ PassInv
    BY <1>1 DEF OwedInv, PassInv, IdlePass
  <1> QED BY <1>2, <1>3, <1>4 DEF AuditInv

\* In every reachable state.
LEMMA Invariance == Spec => [](Types /\ AuditInv)
  <1>1. Types /\ AuditInv /\ [Next]_vars => (Types /\ AuditInv)'
    BY InvStep
  <1> QED BY <1>1, InvInit, PTL DEF Spec

-----------------------------------------------------------------------------
(* The theorems.                                                           *)

\* At most one audit is open, no job is claimed more than MaxAttempts times, and a row is
\* COMPLETED exactly when it has a verdict.
THEOREM TypeCorrect == Spec => []TypeOK
  <1>1. Types /\ AuditInv => TypeOK
    <2> SUFFICES ASSUME Types, AuditInv PROVE TypeOK
      OBVIOUS
    <2> USE RowTyped DEF AuditInv, TableInv
    <2>1. ASSUME NEW i \in Rows
          PROVE  /\ audits[i].root \in 0..(i - 1)
                 /\ audits[i].status \in {"QUEUED", "CLAIMED", "COMPLETED", "EXPIRED"}
                 /\ audits[i].attempts \in 0..MaxAttempts
                 /\ audits[i].state \in {"NONE", "AWAITING_CONFIRMATION", "ENFORCED", "CONTRADICTED", "STALLED"}
                 /\ (audits[i].status = "COMPLETED") = (audits[i].verdict # None)
      <3>1. audits[i] \in AuditRow /\ RowOK(audits[i]) /\ i \in Nat \ {0}
        BY DEF RowsInv
      <3>2. audits[i].root = 0 \/ audits[i].root < i
        BY DEF LinkInv
      <3>3. audits[i].root \in 0..(i - 1)
        BY <3>1, <3>2 DEF AuditRow
      <3> QED BY <3>1, <3>3, AuditAssumption DEF AuditRow, RowOK, RowStatuses, RowStates
    <2>2. Cardinality({i \in Rows : Open(i)}) <= 1
      <3> DEFINE S == {i \in Rows : Open(i)}
      <3>1. S = {} \/ S = {Len(audits)}
        BY DEF LastOpen
      <3> HIDE DEF S
      <3>2. Cardinality(S) = 0 \/ Cardinality(S) = 1
        BY <3>1, FS_EmptySet, FS_Singleton
      <3> QED BY <3>2 DEF S
    <2>3. \A h \in Heads : pass[h].at \in {"idle", "resolve", "enqueue"} \cup DOMAIN Outcome
      BY DEF Types, PassSteps, Outcome
    <2> QED BY <2>1, <2>2, <2>3 DEF TypeOK
  <1> QED BY <1>1, Invariance, PTL

\* A pass of the enforcement sweep goes on to consequences only with two re-executions, of
\* different runners and, unless the unit is pinned, of different hardware classes, that
\* both refute the accepted output with the same bytes.
THEOREM TwoRunnersRefutedHolds == Spec => []TwoRunnersRefuted
  <1>1. Types /\ AuditInv => TwoRunnersRefuted
    <2> SUFFICES ASSUME Types, AuditInv, NEW h \in Heads, pass[h].at = "consequences"
                 PROVE  LET root == audits[pass[h].root]
                            confirm == audits[pass[h].confirm]
                        IN  /\ confirm.root = pass[h].root
                            /\ {root.output, confirm.output} \subseteq Wrong
                            /\ root.output = confirm.output /\ root.author # confirm.author
                            /\ Pinned = None => root.class # confirm.class
      BY DEF TwoRunnersRefuted
    <2> USE RowTyped DEF AuditInv, TableInv
    <2> DEFINE i == pass[h].root
               j == pass[h].confirm
    <2>1. /\ Refuted(i) /\ j \in Rows /\ audits[j].root = i /\ audits[j].verdict = "MISMATCH"
          /\ audits[j].output = audits[i].output
      BY DEF PassInv
    <2>2. i \in Rows /\ i # 0 /\ audits[i].verdict = "MISMATCH"
      BY <2>1 DEF Refuted
    <2> HIDE DEF i, j
    <2>3. ASSUME NEW k \in {i, j}
          PROVE  audits[k].status = "COMPLETED" /\ audits[k].output \in Wrong /\ audits[k].author = audits[k].by
      <3>1. k \in Rows /\ RowOK(audits[k]) /\ audits[k].verdict = "MISMATCH"
        BY <2>1, <2>2 DEF RowsInv
      <3>2. audits[k].output \in Outputs /\ Adjudicate(audits[k].output) = "MISMATCH"
            /\ audits[k].author = audits[k].by /\ audits[k].status = "COMPLETED"
        BY <3>1, AuditAssumption DEF RowOK, Verdicts
      <3>3. audits[k].output \in Wrong
        BY <3>2 DEF Adjudicate, Outputs
      <3> QED BY <3>2, <3>3
    <2>4. Independent(audits[j], audits[i])
      BY <2>1, <2>2 DEF LinkInv
    <2>5. audits[j].by # audits[i].by /\ (Pinned = None => audits[j].class # audits[i].class)
      BY <2>3, <2>4 DEF Independent
    <2>6. audits[i].output \in Wrong /\ audits[j].output \in Wrong /\ audits[i].author # audits[j].author
      BY <2>3, <2>5
    <2> QED BY <2>1, <2>5, <2>6 DEF i, j
  <1> QED BY <1>1, Invariance, PTL

\* A runner whose confirmation of a root expired or was inconclusive gets no other one of
\* that root.
THEOREM ConfirmersAreFreshHolds == Spec => []ConfirmersAreFresh
  <1>1. Types /\ AuditInv => ConfirmersAreFresh
    BY DEF AuditInv, TableInv
  <1> QED BY <1>1, Invariance, PTL

\* No statement of any head, runner or sweep changes a row that is no longer open, its
\* enforcement state aside: CompleteVerdict, ReleaseFailure and the sweeps all ask for an
\* open row.
THEOREM EvidenceStands == Spec => [][ClosedRowsStand]_vars
  <1>1. Types /\ AuditInv /\ [Next]_vars => [ClosedRowsStand]_vars
    BY InvStep
  <1> QED BY <1>1, Invariance, PTL DEF Spec

=============================================================================
