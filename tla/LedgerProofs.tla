---------------------------- MODULE LedgerProofs ----------------------------
(***************************************************************************)
(* Ledger's three safety invariants, for any results, amounts, numbers of  *)
(* faults and of operator clawbacks: no entry is taken below zero, an      *)
(* enforced root leaves nothing of the credit it convicted, and the        *)
(* enforcement pass unwinds the RAC of what it took unless it was          *)
(* interrupted.                                                            *)
(*                                                                         *)
(* ClawInv is what selecting the entry FOR UPDATE buys: the amount a       *)
(* clawback computed is still there when it commits.  FraudInv and RACInv  *)
(* say how far the pass has come with the entries it convicts and with the *)
(* adjustments it made.                                                    *)
(***************************************************************************)
EXTENDS Ledger, SequenceTheorems, WellFoundedInduction, TLAPS

Statuses == {"PENDING", "AGREED", "DISAGREED"}
Adjustment == [entry : Results, mag : Nat, audit : BOOLEAN, racApplied : BOOLEAN]
PassSteps == {"idle", "claw", "emit", "rac", "repair", "grant", "attest"}

Accounts == {Account[r] : r \in Results}
PassRecord ==
    [ at : PassSteps, fraud : SUBSET Results, accounts : SUBSET Accounts, mine : SUBSET Nat,
      todo : SUBSET (Results \cup Nat), cand : SUBSET (Results \cup Nat), granted : Nat ]

Types ==
    /\ status \in [Results -> Statuses]
    /\ ledger \in [Results -> {0, Amount}]
    /\ adj \in Seq(Adjustment)
    /\ accept \in [Units -> [at : {"idle", "attest", "lost"}, todo : SUBSET Results]]
    /\ \A u \in Units : accept[u].at = "idle" => accept[u].todo = {}
    /\ claw \in [Callers -> [entry : SUBSET Results, mag : Nat]]
    /\ pass \in PassRecord

\* A clawback that holds an entry's lock will take something, and no more than is left;
\* no two hold the same entry.
ClawInv ==
    /\ \A w \in Callers : \A r \in claw[w].entry :
         claw[w].entry = {r} /\ claw[w].mag > 0 /\ claw[w].mag <= Net(r)
    /\ \A w, x \in Callers : w # x => claw[w].entry \cap claw[x].entry = {}

Convicted == Audited \ Truthful
Accepted == accept[Audited].at # "idle"

\* The repair works on candidates that match the ground truth.
CandInv ==
    /\ pass.at = "repair" => pass.todo \subseteq Truthful
    /\ pass.at \in {"grant", "attest"} => pass.cand \cup pass.todo \subseteq Truthful

\* Once the audited unit is accepted, what the pass convicted and flipped has nothing left;
\* a pass knows every result that still agrees, and has taken what is no longer on its list.
FraudInv ==
    /\ Accepted => \A r \in Convicted : status[r] # "AGREED" => Net(r) = 0
    /\ root = "ENFORCED" => Accepted /\ \A r \in Convicted : status[r] # "AGREED"
    /\ pass.at # "idle" => Accepted /\ \A r \in Convicted : status[r] = "AGREED" => r \in pass.fraud
    /\ pass.at = "claw" =>
         \A r \in Convicted \cap pass.fraud :
            \/ r \in pass.todo \/ Net(r) = 0
            \/ claw["pass"].entry = {r} /\ claw["pass"].mag = Net(r)
    /\ pass.at \in {"emit", "rac"} => \A r \in Convicted \cap pass.fraud : Net(r) = 0
    /\ pass.at \in {"repair", "grant", "attest"} => \A r \in Convicted : status[r] # "AGREED"

\* An adjustment of the pass is on the pass's list until its RAC is decremented.
RACInv ==
    /\ root = "ENFORCED" => pass.at = "idle"
    /\ pass.at = "claw" => pass.mine \subseteq DOMAIN adj
    /\ pass.at \in {"emit", "rac"} => pass.todo \subseteq DOMAIN adj
    /\ pass.at = "rac" => pass.cand \subseteq pass.todo
    /\ ~interrupted => \A i \in DOMAIN adj :
         adj[i].audit => \/ adj[i].racApplied
                         \/ pass.at = "claw" /\ i \in pass.mine
                         \/ pass.at \in {"emit", "rac"} /\ i \in pass.todo

LedgerInv == NetNeverNegative /\ ClawInv /\ CandInv /\ FraudInv /\ RACInv

-----------------------------------------------------------------------------
(* Sums of adjustments.                                                    *)

\* A nonempty set of naturals has a least element.
LEMMA LeastNatural ==
    ASSUME NEW T \in SUBSET Nat, T # {}
    PROVE  \E x \in T : \A y \in T : ~(y < x)
  <1> DEFINE R == OpToRel(<, Nat)
  <1>1. \E x \in T : \A y \in T : ~(<<y, x>> \in R)
    <2>1. IsWellFoundedOn(R, Nat)
      BY NatLessThanWellFounded
    <2> HIDE DEF R
    <2> QED BY <2>1, WFMin
  <1>2. \A x, y \in Nat : (<<y, x>> \in R) <=> y < x
    BY DEF OpToRel
  <1> HIDE DEF R
  <1>3. PICK x \in T : \A y \in T : ~(<<y, x>> \in R)
    BY <1>1
  <1>4. \A y \in T : ~(y < x)
    BY <1>2, <1>3
  <1> QED BY <1>4

\* What row n of seq takes from r.
Share(seq, r, n) == IF seq[n].entry = r THEN seq[n].mag ELSE 0

\* f holds the running sums of seq up to row m.
Sums(f, seq, r, m) ==
    /\ f \in [0 .. m -> Nat] /\ f[0] = 0
    /\ \A n \in 1 .. m : f[n] = f[n - 1] + Share(seq, r, n)

\* A share is a natural number.
LEMMA ShareNat ==
    ASSUME NEW seq \in Seq(Adjustment), NEW r
    PROVE  Len(seq) \in Nat /\ \A n \in 1 .. Len(seq) : Share(seq, r, n) \in Nat
  <1>1. \A n \in 1 .. Len(seq) : seq[n] \in Adjustment
    BY ElementOfSeq
  <1> QED BY <1>1, LenProperties DEF Share, Adjustment

\* There are running sums: by induction on the number of rows.
LEMMA SumsExist ==
    ASSUME NEW seq \in Seq(Adjustment), NEW r
    PROVE  \A m \in 0 .. Len(seq) : \E f : Sums(f, seq, r, m)
  <1> DEFINE Bad == {m \in 0 .. Len(seq) : \A f : ~Sums(f, seq, r, m)}
  <1> SUFFICES ASSUME Bad # {} PROVE FALSE
    OBVIOUS
  <1>1. Bad \in SUBSET Nat
    BY ShareNat
  <1>2. PICK m \in Bad : \A k \in Bad : ~(k < m)
    <2> HIDE DEF Bad
    <2> QED BY <1>1, LeastNatural
  <1>3. m \in 0 .. Len(seq) /\ \A f : ~Sums(f, seq, r, m)
    BY <1>2
  <1>4. CASE m = 0
    <2>1. Sums([n \in 0 .. 0 |-> 0], seq, r, 0)
      BY DEF Sums
    <2> QED BY <1>3, <1>4, <2>1
  <1>5. CASE m # 0
    <2>1. m - 1 \in 0 .. Len(seq) /\ m - 1 < m /\ m \in 1 .. Len(seq)
      BY <1>3, <1>5, ShareNat
    <2>2. PICK f : Sums(f, seq, r, m - 1)
      BY <1>2, <2>1
    <2> DEFINE g == [n \in 0 .. m |-> IF n = m THEN f[m - 1] + Share(seq, r, m) ELSE f[n]]
    <2>3. f[m - 1] \in Nat /\ f[m - 1] + Share(seq, r, m) \in Nat
      BY <2>1, <2>2, ShareNat DEF Sums
    <2>4. g \in [0 .. m -> Nat] /\ g[0] = 0
      BY <2>1, <2>2, <2>3 DEF Sums
    <2>5. \A n \in 1 .. m : g[n] = g[n - 1] + Share(seq, r, n)
      BY <2>1, <2>2 DEF Sums
    <2> QED BY <1>3, <2>4, <2>5 DEF Sums
  <1> QED BY <1>4, <1>5

\* Total is the last running sum.
LEMMA TotalIsSum ==
    ASSUME NEW seq \in Seq(Adjustment), NEW r
    PROVE  \E f : Sums(f, seq, r, Len(seq)) /\ Total(seq, r) = f[Len(seq)]
  <1> DEFINE N == Len(seq)
             Fits(f) == f = [n \in 0 .. N |-> IF n = 0 THEN 0 ELSE f[n - 1] + Share(seq, r, n)]
             s == CHOOSE f : Fits(f)
  <1>0. N \in Nat /\ N \in 0 .. Len(seq)
    BY ShareNat
  <1>1. PICK f : Sums(f, seq, r, N)
    BY <1>0, SumsExist
  <1>2. Fits(f)
    BY <1>0, <1>1 DEF Sums
  <1>3. Fits(s)
    BY <1>2
  <1>4. Total(seq, r) = s[N]
    BY DEF Total, Share
  <1>5. s = f
    <2> DEFINE Bad == {n \in 0 .. N : s[n] # f[n]}
    <2>1. CASE Bad # {}
      <3>1. Bad \in SUBSET Nat
        BY <1>0
      <3>2. PICK n \in Bad : \A k \in Bad : ~(k < n)
        <4> HIDE DEF Bad
        <4> QED BY <2>1, <3>1, LeastNatural
      <3>3. n \in 0 .. N /\ s[n] # f[n]
        BY <3>2
      <3> HIDE DEF s
      <3>4. n # 0
        BY <1>0, <1>2, <1>3, <3>3
      <3>5. n - 1 \in 0 .. N /\ n - 1 < n /\ n - 1 \notin Bad
        BY <1>0, <3>2, <3>3, <3>4
      <3>6. s[n - 1] = f[n - 1]
        BY <3>5
      <3> QED BY <1>2, <1>3, <3>3, <3>4, <3>6
    <2>2. CASE Bad = {}
      <3>1. \A n \in 0 .. N : s[n] = f[n]
        BY <2>2
      <3> HIDE DEF s
      <3> QED BY <1>2, <1>3, <3>1
    <2> QED BY <2>1, <2>2
  <1> QED BY <1>1, <1>4, <1>5

\* Running sums over rows that take the same are the same.
LEMMA SumsAgree ==
    ASSUME NEW seq, NEW seq2, NEW r, NEW f, NEW g, NEW m \in Nat, NEW k \in Nat, m <= k,
           Sums(f, seq, r, m), Sums(g, seq2, r, k),
           \A n \in 1 .. m : Share(seq, r, n) = Share(seq2, r, n)
    PROVE  f[m] = g[m]
  <1> DEFINE Bad == {n \in 0 .. m : f[n] # g[n]}
  <1> SUFFICES ASSUME Bad # {} PROVE FALSE
    OBVIOUS
  <1>1. Bad \in SUBSET Nat
    OBVIOUS
  <1>2. PICK n \in Bad : \A j \in Bad : ~(j < n)
    <2> HIDE DEF Bad
    <2> QED BY <1>1, LeastNatural
  <1>3. n \in 0 .. m /\ f[n] # g[n]
    BY <1>2
  <1>4. n # 0
    BY <1>3 DEF Sums
  <1>5. n - 1 \in 0 .. m /\ n - 1 < n /\ n - 1 \notin Bad
    BY <1>2, <1>3, <1>4
  <1>6. f[n - 1] = g[n - 1] /\ n \in 1 .. m /\ n \in 1 .. k
    BY <1>3, <1>4, <1>5
  <1>7. f[n] = f[n - 1] + Share(seq, r, n) /\ g[n] = g[n - 1] + Share(seq2, r, n)
    BY <1>6 DEF Sums
  <1> QED BY <1>3, <1>6, <1>7

\* What is taken from an entry is a natural number.
LEMMA TotalNat ==
    ASSUME NEW seq \in Seq(Adjustment), NEW r
    PROVE  Total(seq, r) \in Nat
  <1>1. PICK f : Sums(f, seq, r, Len(seq)) /\ Total(seq, r) = f[Len(seq)]
    BY TotalIsSum
  <1> QED BY <1>1, ShareNat DEF Sums

\* Rows that take the same take the same in all.
LEMMA TotalSame ==
    ASSUME NEW seq \in Seq(Adjustment), NEW seq2 \in Seq(Adjustment), NEW r, Len(seq2) = Len(seq),
           \A n \in 1 .. Len(seq) : seq[n].entry = seq2[n].entry /\ seq[n].mag = seq2[n].mag
    PROVE  Total(seq, r) = Total(seq2, r)
  <1>1. PICK f : Sums(f, seq, r, Len(seq)) /\ Total(seq, r) = f[Len(seq)]
    BY TotalIsSum
  <1>2. PICK g : Sums(g, seq2, r, Len(seq2)) /\ Total(seq2, r) = g[Len(seq2)]
    BY TotalIsSum
  <1>3. \A n \in 1 .. Len(seq) : Share(seq, r, n) = Share(seq2, r, n)
    BY DEF Share
  <1> DEFINE m == Len(seq)
  <1>4. /\ m \in Nat /\ m <= m /\ Sums(f, seq, r, m) /\ Sums(g, seq2, r, m)
        /\ \A n \in 1 .. m : Share(seq, r, n) = Share(seq2, r, n)
    BY <1>1, <1>2, <1>3, ShareNat
  <1>5. f[m] = g[m]
    <2> HIDE DEF m
    <2> QED BY <1>4, SumsAgree
  <1> QED BY <1>1, <1>2, <1>5

\* One more row takes its magnitude from its entry and nothing from the others.
LEMMA TotalAppend ==
    ASSUME NEW seq \in Seq(Adjustment), NEW e \in Adjustment, NEW r
    PROVE  Total(Append(seq, e), r) = Total(seq, r) + (IF e.entry = r THEN e.mag ELSE 0)
  <1> DEFINE seq2 == Append(seq, e)
             N == Len(seq)
  <1>1. /\ seq2 \in Seq(Adjustment) /\ Len(seq2) = N + 1 /\ N \in Nat
        /\ \A n \in 1 .. N : seq2[n] = seq[n]
        /\ seq2[N + 1] = e
    BY AppendProperties, ShareNat
  <1> HIDE DEF seq2
  <1>2. PICK f : Sums(f, seq, r, N) /\ Total(seq, r) = f[N]
    BY TotalIsSum
  <1>3. PICK g : Sums(g, seq2, r, N + 1) /\ Total(seq2, r) = g[N + 1]
    BY <1>1, TotalIsSum
  <1>4. \A n \in 1 .. N : Share(seq, r, n) = Share(seq2, r, n)
    BY <1>1 DEF Share
  <1>5. f[N] = g[N]
    <2>1. N \in Nat /\ N + 1 \in Nat /\ N <= N + 1 /\ Sums(f, seq, r, N) /\ Sums(g, seq2, r, N + 1)
      BY <1>1, <1>2, <1>3
    <2> HIDE DEF N
    <2> QED BY <1>4, <2>1, SumsAgree
  <1>6. g[N + 1] = g[(N + 1) - 1] + Share(seq2, r, N + 1) /\ (N + 1) - 1 = N
    BY <1>1, <1>3 DEF Sums
  <1>7. Share(seq2, r, N + 1) = IF e.entry = r THEN e.mag ELSE 0
    BY <1>1 DEF Share
  <1> QED BY <1>2, <1>3, <1>5, <1>6, <1>7 DEF seq2

-----------------------------------------------------------------------------
(* What the steps do to the net of an entry.                               *)

NetKept == \A r \in Results : Net(r)' = Net(r)

\* The net of an entry is an integer.
LEMMA NetTyped ==
    ASSUME Types, NEW r \in Results
    PROVE  Net(r) \in Int /\ ledger[r] \in Nat /\ SumForEntry(r) \in Nat
  <1>1. ledger[r] \in Nat /\ adj \in Seq(Adjustment)
    BY LedgerAssumption DEF Types
  <1>2. SumForEntry(r) \in Nat
    BY <1>1, TotalNat DEF SumForEntry
  <1> QED BY <1>1, <1>2 DEF Net

\* A step that writes neither entries nor adjustments.
LEMMA NetUnchanged ==
    ASSUME UNCHANGED <<ledger, adj>>
    PROVE  NetKept
  BY DEF NetKept, Net, SumForEntry

\* A grant does not lower a net, and leaves the entries it does not write.
LEMMA GrantNet ==
    ASSUME Types, UNCHANGED adj, ledger' \in [Results -> {0, Amount}], NEW r \in Results,
           ledger'[r] \in {ledger[r], Amount}
    PROVE  Net(r)' >= Net(r) /\ (ledger'[r] = ledger[r] => Net(r)' = Net(r))
  <1>1. SumForEntry(r)' = SumForEntry(r) /\ SumForEntry(r) \in Nat
    BY NetTyped DEF SumForEntry
  <1>2. ledger[r] \in {0, Amount} /\ Amount \in Nat
    BY LedgerAssumption DEF Types
  <1> QED BY <1>1, <1>2 DEF Net

\* The stamp on an adjustment is not an amount.
LEMMA StampNet ==
    ASSUME Types, UNCHANGED ledger, NEW i \in DOMAIN adj, adj' = [adj EXCEPT ![i].racApplied = TRUE]
    PROVE  /\ NetKept /\ adj' \in Seq(Adjustment) /\ DOMAIN adj' = DOMAIN adj
           /\ adj'[i].racApplied /\ adj'[i].audit = adj[i].audit
           /\ \A j \in DOMAIN adj : j # i => adj'[j] = adj[j]
  <1> DEFINE e == [adj[i] EXCEPT !.racApplied = TRUE]
  <1>1. adj \in Seq(Adjustment) /\ DOMAIN adj = 1 .. Len(adj) /\ i \in 1 .. Len(adj) /\ adj[i] \in Adjustment
    BY LenProperties, ElementOfSeq DEF Types
  <1>2. e \in Adjustment /\ e.entry = adj[i].entry /\ e.mag = adj[i].mag /\ e.audit = adj[i].audit /\ e.racApplied
    BY <1>1 DEF Adjustment
  <1>3. adj' = [adj EXCEPT ![i] = e]
    OBVIOUS
  <1> HIDE DEF e
  <1>4. /\ adj' \in Seq(Adjustment) /\ Len(adj') = Len(adj)
        /\ \A j \in 1 .. Len(adj) : adj'[j] = IF j = i THEN e ELSE adj[j]
    <2> DEFINE new == [adj EXCEPT ![i] = e]
    <2>1. /\ new \in Seq(Adjustment) /\ Len(new) = Len(adj)
          /\ \A j \in 1 .. Len(adj) : new[j] = IF j = i THEN e ELSE adj[j]
      <3>1. i \in 1 .. Len(adj) /\ e \in Adjustment /\ adj \in Seq(Adjustment)
        BY <1>1, <1>2
      <3> QED BY <3>1, ExceptSeq
    <2> HIDE DEF new
    <2> QED BY <1>3, <2>1 DEF new
  <1>5. \A j \in 1 .. Len(adj) : adj[j].entry = adj'[j].entry /\ adj[j].mag = adj'[j].mag
    BY <1>2, <1>4
  <1>6. ASSUME NEW r \in Results PROVE Total(adj', r) = Total(adj, r)
    <2> DEFINE new == adj'
    <2>1. /\ adj \in Seq(Adjustment) /\ new \in Seq(Adjustment) /\ Len(new) = Len(adj)
          /\ \A j \in 1 .. Len(adj) : adj[j].entry = new[j].entry /\ adj[j].mag = new[j].mag
      BY <1>1, <1>4, <1>5
    <2> HIDE DEF new
    <2>2. Total(adj, r) = Total(new, r)
      BY <2>1, TotalSame
    <2> QED BY <2>2 DEF new
  <1>7. NetKept
    BY <1>6 DEF NetKept, Net, SumForEntry
  <1> QED BY <1>1, <1>2, <1>3, <1>4, <1>7

\* A clawback's commit takes its magnitude from the entry it holds, and nothing else.
LEMMA CommitNet ==
    ASSUME Types, ClawInv, UNCHANGED ledger, NEW w \in Callers, ClawbackCommits(w)
    PROVE  \E r \in Results :
             /\ claw[w].entry = {r}
             /\ Net(r)' = Net(r) - claw[w].mag
             /\ \A x \in Results \ {r} : Net(x)' = Net(x)
             /\ adj' \in Seq(Adjustment) /\ Len(adj') = Len(adj) + 1
             /\ \A j \in DOMAIN adj : adj'[j] = adj[j]
             /\ DOMAIN adj' = DOMAIN adj \cup {Len(adj')}
             /\ adj'[Len(adj')].audit = (w = "pass")
             /\ claw' = [claw EXCEPT ![w] = NoClaw]
  <1>1. PICK r \in claw[w].entry :
          adj' = Append(adj, [entry |-> r, mag |-> claw[w].mag, audit |-> w = "pass", racApplied |-> FALSE])
    BY DEF ClawbackCommits
  <1> DEFINE e == [entry |-> r, mag |-> claw[w].mag, audit |-> w = "pass", racApplied |-> FALSE]
  <1>2. r \in Results /\ claw[w].entry = {r} /\ claw[w].mag \in Nat
    BY DEF Types, ClawInv
  <1>3. e \in Adjustment /\ e.entry = r /\ e.mag = claw[w].mag /\ e.audit = (w = "pass")
    BY <1>2 DEF Adjustment
  <1> HIDE DEF e
  <1>4. /\ adj' \in Seq(Adjustment) /\ Len(adj') = Len(adj) + 1 /\ adj \in Seq(Adjustment) /\ adj' = Append(adj, e)
        /\ \A j \in 1 .. Len(adj) : adj'[j] = adj[j]
        /\ adj'[Len(adj')] = e
        /\ DOMAIN adj = 1 .. Len(adj) /\ DOMAIN adj' = 1 .. Len(adj') /\ Len(adj) \in Nat
    BY <1>1, <1>3, AppendProperties, LenProperties DEF Types, e
  <1>5. \A x \in Results : Total(adj', x) = Total(adj, x) + (IF r = x THEN claw[w].mag ELSE 0)
    BY <1>3, <1>4, TotalAppend
  <1>6. \A x \in Results : Total(adj, x) \in Nat /\ ledger[x] \in Nat
    BY <1>4, TotalNat, NetTyped
  <1>7. \A x \in Results : Net(x)' = ledger[x] - Total(adj', x) /\ Net(x) = ledger[x] - Total(adj, x)
    BY DEF Net, SumForEntry
  <1>8. Net(r)' = Net(r) - claw[w].mag /\ \A x \in Results \ {r} : Net(x)' = Net(x)
    BY <1>2, <1>5, <1>6, <1>7
  <1>9. DOMAIN adj' = DOMAIN adj \cup {Len(adj')}
    BY <1>4
  <1>10. claw' = [claw EXCEPT ![w] = NoClaw]
    BY DEF ClawbackCommits
  <1> QED BY <1>2, <1>3, <1>4, <1>8, <1>9, <1>10

-----------------------------------------------------------------------------
(* The accept of a unit, the operator and the sweep.                       *)

\* What every step keeps.
Kept == Types' /\ LedgerInv'

\* The audited unit is one of the units; every other one has nothing to do with it.
LEMMA UnitsApart ==
    /\ Audited \in Units /\ Audited \subseteq Results
    /\ \A u \in Units : u \subseteq Results /\ (u = Audited \/ u \cap Audited = {})
  BY LedgerAssumption DEF Units

\* The invariant does not look at attestations, requests or the sweep.
LEMMA ElsewhereStep ==
    ASSUME Types, LedgerInv, UNCHANGED <<status, ledger, adj, accept, claw, pass, root, interrupted>>
    PROVE  Kept
  <1>1. NetKept
    BY NetUnchanged
  <1>2. Types' /\ Accepted' = Accepted
    BY DEF Types, Accepted
  <1>3. NetNeverNegative' /\ ClawInv' /\ CandInv' /\ FraudInv'
    BY <1>1, <1>2, UnitsApart DEF NetKept, LedgerInv, NetNeverNegative, ClawInv, CandInv, FraudInv, Convicted, Types
  <1>4. RACInv'
    BY DEF LedgerInv, RACInv
  <1> QED BY <1>2, <1>3, <1>4 DEF Kept, LedgerInv

\* The finalization transaction.
LEMMA AcceptStep ==
    ASSUME Types, LedgerInv, NEW u \in Units, NEW granted \in SUBSET Results, AcceptResults(u, granted)
    PROVE  Kept
  <1> USE UnitsApart
  <1>1. UNCHANGED <<adj, claw, pass, root, interrupted>> /\ accept[u].at = "idle" /\ granted \subseteq Winners(u)
    BY DEF AcceptResults
  <1>2. /\ status' \in [Results -> Statuses]
        /\ \A r \in Results : r \in Winners(u) => status'[r] = "AGREED"
        /\ \A r \in Results : r \notin u => status'[r] = status[r]
    BY DEF AcceptResults, Types, Statuses, Winners
  <1>3. /\ ledger' \in [Results -> {0, Amount}]
        /\ \A r \in Results : ledger'[r] \in {ledger[r], Amount}
        /\ \A r \in Results : r \notin u => ledger'[r] = ledger[r]
    BY <1>1 DEF AcceptResults, Types, Winners
  <1>4. /\ accept' \in [Units -> [at : {"idle", "attest", "lost"}, todo : SUBSET Results]]
        /\ \A x \in Units : accept'[x].at = "idle" => accept'[x].todo = {}
        /\ \A x \in Units : x # u => accept'[x] = accept[x]
    BY DEF AcceptResults, Types, Winners
  <1>5. Types'
    BY <1>1, <1>2, <1>3, <1>4 DEF Types
  <1>6. \A r \in Results : Net(r)' >= Net(r) /\ (ledger'[r] = ledger[r] => Net(r)' = Net(r))
    BY <1>1, <1>3, GrantNet
  <1>7. \A r \in Results : Net(r) \in Int /\ Net(r)' \in Int
    <2> TAKE r \in Results
    <2>1. Net(r) \in Int
      BY NetTyped
    <2>2. ledger'[r] \in Nat /\ Total(adj', r) \in Nat
      BY <1>5, TotalNat, LedgerAssumption DEF Types
    <2> QED BY <2>1, <2>2 DEF Net, SumForEntry
  <1>8. NetNeverNegative'
    BY <1>6, <1>7 DEF LedgerInv, NetNeverNegative
  <1>9. ClawInv'
    <2>1. \A w \in Callers : claw[w].entry \subseteq Results /\ claw[w].mag \in Nat
      BY DEF Types
    <2>2. \A w \in Callers : \A r \in claw[w].entry : claw[w].mag <= Net(r)'
      BY <2>1, <1>6, <1>7 DEF LedgerInv, ClawInv
    <2> QED BY <1>1, <2>2 DEF LedgerInv, ClawInv
  <1>10. CandInv'
    BY <1>1 DEF LedgerInv, CandInv
  <1>11. FraudInv'
    <2>1. CASE u = Audited
      <3>1. pass.at = "idle" /\ root # "ENFORCED"
        BY <1>1, <2>1 DEF LedgerInv, FraudInv, Accepted
      <3>2. \A r \in Convicted : status'[r] = "AGREED"
        BY <1>2, <2>1 DEF Convicted, Winners
      <3> QED BY <1>1, <3>1, <3>2 DEF FraudInv, Types
    <2>2. CASE u # Audited
      <3>1. Accepted' = Accepted
        BY <1>4, <2>2 DEF Accepted
      <3>2. \A r \in Convicted : r \in Results /\ status'[r] = status[r] /\ Net(r)' = Net(r)
        BY <1>2, <1>3, <1>6, <2>2 DEF Convicted
      <3> QED BY <1>1, <3>1, <3>2 DEF LedgerInv, FraudInv
    <2> QED BY <2>1, <2>2
  <1>12. RACInv'
    BY <1>1 DEF LedgerInv, RACInv
  <1> QED BY <1>5, <1>8, <1>9, <1>10, <1>11, <1>12 DEF Kept, LedgerInv

\* An attestation of the accept: only its list shrinks.
LEMMA AttestStep ==
    ASSUME Types, LedgerInv, NEW u \in Units, NEW r \in Results, CreateAttestation(u, r)
    PROVE  Kept
  <1> USE UnitsApart
  <1>1. UNCHANGED <<status, ledger, adj, claw, pass, root, interrupted>>
        /\ accept' = [accept EXCEPT ![u].todo = @ \ {r}] /\ r \in accept[u].todo
    BY DEF CreateAttestation, entries
  <1>2. Types' /\ accept'[Audited].at = accept[Audited].at
    BY <1>1 DEF Types
  <1>3. NetKept /\ Accepted' = Accepted
    BY <1>1, <1>2, NetUnchanged DEF Accepted
  <1>4. NetNeverNegative' /\ ClawInv' /\ CandInv' /\ FraudInv'
    BY <1>1, <1>3 DEF NetKept, LedgerInv, NetNeverNegative, ClawInv, CandInv, FraudInv, Convicted, Types
  <1>5. RACInv'
    BY <1>1 DEF LedgerInv, RACInv
  <1> QED BY <1>2, <1>4, <1>5 DEF Kept, LedgerInv

\* A clawback locks an entry nobody holds and computes at most what is left of it.
LEMMA ReadsStep ==
    ASSUME Types, LedgerInv, NEW w \in Callers, NEW r \in Results, NEW m \in Nat, ClawbackReads(w, r, m),
           UNCHANGED <<ledger, adj>>
    PROVE  /\ claw' \in [Callers -> [entry : SUBSET Results, mag : Nat]] /\ ClawInv'
           /\ claw'[w].entry = {r} /\ (m = 0 => claw'[w].mag = Net(r))
           /\ \A x \in Callers \ {w} : claw'[x] = claw[x]
  <1> DEFINE c == [entry |-> {r}, mag |-> IF m = 0 THEN Remaining(r) ELSE m]
  <1>1. Net(r) \in Int /\ Remaining(r) = Net(r) /\ Net(r) > 0 /\ m <= Net(r) /\ EntryUnlocked(r)
    BY NetTyped DEF ClawbackReads, Remaining
  <1>2. claw' = [claw EXCEPT ![w] = c]
    BY DEF ClawbackReads
  <1>3. c.entry = {r} /\ c.mag \in Nat /\ c.mag > 0 /\ c.mag <= Net(r) /\ (m = 0 => c.mag = Net(r))
        /\ c \in [entry : SUBSET Results, mag : Nat]
    BY <1>1
  <1> HIDE DEF c
  <1>4. /\ claw' \in [Callers -> [entry : SUBSET Results, mag : Nat]]
        /\ claw'[w] = c /\ \A x \in Callers \ {w} : claw'[x] = claw[x]
    BY <1>2, <1>3 DEF Types
  <1>5. NetKept
    BY NetUnchanged
  <1>6. ASSUME NEW x \in Callers, NEW q \in claw'[x].entry
        PROVE  q \in Results /\ claw'[x].entry = {q} /\ claw'[x].mag > 0 /\ claw'[x].mag <= Net(q)'
    <2>1. CASE x = w
      BY <1>3, <1>4, <1>5, <1>6, <2>1 DEF NetKept
    <2>2. CASE x # w
      BY <1>4, <1>5, <1>6, <2>2 DEF NetKept, LedgerInv, ClawInv, Types
    <2> QED BY <2>1, <2>2
  <1>7. \A x, y \in Callers : x # y => claw'[x].entry \cap claw'[y].entry = {}
    BY <1>1, <1>3, <1>4 DEF LedgerInv, ClawInv, EntryUnlocked
  <1>8. ClawInv'
    BY <1>6, <1>7 DEF ClawInv
  <1> QED BY <1>3, <1>4, <1>8

\* The operator's request: a clawback's first half ...
LEMMA OperatorReadsStep ==
    ASSUME Types, LedgerInv, NEW r \in Results, NEW m \in 0 .. Amount, HandleClawback(r, m)
    PROVE  Kept
  <1> USE UnitsApart
  <1>1. ClawbackReads("operator", r, m) /\ UNCHANGED <<status, ledger, adj, accept, pass, root, interrupted>>
    BY DEF HandleClawback, entries
  <1>2. m \in Nat /\ "operator" \in Callers /\ "pass" \in Callers \ {"operator"}
    BY LedgerAssumption DEF Callers
  <1>3. claw' \in [Callers -> [entry : SUBSET Results, mag : Nat]] /\ ClawInv' /\ claw'["pass"] = claw["pass"]
    BY <1>1, <1>2, ReadsStep
  <1>4. Types' /\ NetKept /\ Accepted' = Accepted
    BY <1>1, <1>3, NetUnchanged DEF Types, Accepted
  <1>5. NetNeverNegative' /\ CandInv' /\ FraudInv'
    BY <1>1, <1>3, <1>4 DEF NetKept, LedgerInv, NetNeverNegative, CandInv, FraudInv, Convicted
  <1>6. RACInv'
    BY <1>1 DEF LedgerInv, RACInv
  <1> QED BY <1>3, <1>4, <1>5, <1>6 DEF Kept, LedgerInv

\* What a commit does to the nets, for either caller: nothing that had nothing left changes,
\* nor anything the other caller holds.
LEMMA CommitsStep ==
    ASSUME Types, LedgerInv, NEW w \in Callers, ClawbackCommits(w), UNCHANGED ledger
    PROVE  /\ NetNeverNegative' /\ ClawInv'
           /\ claw' \in [Callers -> [entry : SUBSET Results, mag : Nat]]
           /\ \A x \in Callers \ {w} : claw'[x] = claw[x]
           /\ \A r \in Results : Net(r) = 0 => Net(r)' = 0
           /\ \A r \in Results : r \notin claw[w].entry => Net(r)' = Net(r)
           /\ \A r \in claw[w].entry : claw[w].mag = Net(r) => Net(r)' = 0
           /\ claw[w].entry \subseteq Results
  <1>1. PICK r \in Results :
             /\ claw[w].entry = {r}
             /\ Net(r)' = Net(r) - claw[w].mag
             /\ \A x \in Results \ {r} : Net(x)' = Net(x)
             /\ claw' = [claw EXCEPT ![w] = NoClaw]
    BY CommitNet DEF LedgerInv
  <1>2. claw[w].mag \in Nat /\ claw[w].mag > 0 /\ claw[w].mag <= Net(r) /\ \A x \in Results : Net(x) \in Int
    BY <1>1, NetTyped DEF LedgerInv, ClawInv, Types
  <1>3. \A x \in Results : Net(x)' = IF x = r THEN Net(r) - claw[w].mag ELSE Net(x)
    BY <1>1
  <1>4. NetNeverNegative'
    BY <1>2, <1>3 DEF LedgerInv, NetNeverNegative
  <1>5. /\ claw' \in [Callers -> [entry : SUBSET Results, mag : Nat]]
        /\ claw'[w].entry = {} /\ \A x \in Callers \ {w} : claw'[x] = claw[x]
    BY <1>1 DEF Types, NoClaw
  <1>6. \A x \in Callers \ {w} : r \notin claw[x].entry /\ claw[x].entry \subseteq Results
    BY <1>1 DEF LedgerInv, ClawInv, Types
  <1>7. \A x \in Callers : \A q \in claw'[x].entry :
          claw'[x].entry = {q} /\ claw'[x].mag > 0 /\ claw'[x].mag <= Net(q)'
    BY <1>3, <1>5, <1>6 DEF LedgerInv, ClawInv
  <1>8. \A x, y \in Callers : x # y => claw'[x].entry \cap claw'[y].entry = {}
    BY <1>5 DEF LedgerInv, ClawInv
  <1>9. ClawInv'
    BY <1>7, <1>8 DEF ClawInv
  <1>10. /\ \A q \in Results : Net(q) = 0 => Net(q)' = 0
         /\ \A q \in Results : q \notin claw[w].entry => Net(q)' = Net(q)
         /\ \A q \in claw[w].entry : claw[w].mag = Net(q) => Net(q)' = 0
    BY <1>1, <1>2, <1>3
  <1> QED BY <1>1, <1>4, <1>5, <1>9, <1>10

\* ... its commit ...
LEMMA OperatorCommitsStep ==
    ASSUME Types, LedgerInv, OperatorCommits
    PROVE  Kept
  <1> USE UnitsApart
  <1>1. ClawbackCommits("operator") /\ UNCHANGED <<status, ledger, accept, pass, root, interrupted>>
        /\ "operator" \in Callers /\ "pass" \in Callers \ {"operator"}
    BY DEF OperatorCommits, entries, Callers
  <1>2. /\ NetNeverNegative' /\ ClawInv'
        /\ claw' \in [Callers -> [entry : SUBSET Results, mag : Nat]]
        /\ claw'["pass"] = claw["pass"]
        /\ \A r \in Results : Net(r) = 0 => Net(r)' = 0
        /\ \A r \in Results : r \notin claw["operator"].entry => Net(r)' = Net(r)
    BY <1>1, CommitsStep
  <1>3. PICK r \in Results :
             /\ adj' \in Seq(Adjustment) /\ \A j \in DOMAIN adj : adj'[j] = adj[j]
             /\ DOMAIN adj' = DOMAIN adj \cup {Len(adj')}
             /\ adj'[Len(adj')].audit = ("operator" = "pass")
    BY <1>1, CommitNet DEF LedgerInv
  <1>4. Types' /\ Accepted' = Accepted
    BY <1>1, <1>2, <1>3 DEF Types, Accepted
  <1>5. CandInv'
    BY <1>1 DEF LedgerInv, CandInv
  <1>6. FraudInv'
    <2>1. \A q \in claw["pass"].entry : q \notin claw["operator"].entry /\ q \in Results
      BY <1>1 DEF LedgerInv, ClawInv, Types
    <2>2. \A q \in Results : claw["pass"].entry = {q} => Net(q)' = Net(q)
      BY <1>2, <2>1
    <2>3. Convicted \subseteq Results
      BY DEF Convicted
    <2> QED BY <1>1, <1>2, <1>4, <2>2, <2>3 DEF LedgerInv, FraudInv
  <1>7. RACInv'
    BY <1>1, <1>3 DEF LedgerInv, RACInv
  <1> QED BY <1>2, <1>4, <1>5, <1>6, <1>7 DEF Kept, LedgerInv

\* ... or its failure: the lock goes.
LEMMA OperatorFailsStep ==
    ASSUME Types, LedgerInv, OperatorFails
    PROVE  Kept
  <1> USE UnitsApart
  <1>1. UNCHANGED <<status, ledger, adj, accept, pass, root, interrupted>>
        /\ claw' = [claw EXCEPT !["operator"] = NoClaw]
    BY DEF OperatorFails, entries
  <1>2. /\ claw' \in [Callers -> [entry : SUBSET Results, mag : Nat]] /\ claw'["pass"] = claw["pass"]
        /\ claw'["operator"].entry = {} /\ Callers = {"operator", "pass"}
    BY <1>1 DEF Types, Callers, NoClaw
  <1>3. Types' /\ NetKept /\ Accepted' = Accepted
    BY <1>1, <1>2, NetUnchanged DEF Types, Accepted
  <1>4. ClawInv'
    BY <1>2, <1>3 DEF LedgerInv, ClawInv, NetKept, Types
  <1>5. NetNeverNegative' /\ CandInv' /\ FraudInv'
    BY <1>1, <1>2, <1>3 DEF NetKept, LedgerInv, NetNeverNegative, CandInv, FraudInv, Convicted
  <1>6. RACInv'
    BY <1>1 DEF LedgerInv, RACInv
  <1> QED BY <1>3, <1>4, <1>5, <1>6 DEF Kept, LedgerInv

-----------------------------------------------------------------------------
(* The enforcement pass.                                                   *)

\* A step that moves only the pass.
LEMMA PassMoves ==
    ASSUME Types, LedgerInv, UNCHANGED <<status, ledger, adj, accept, claw, root, interrupted>>,
           pass' \in PassRecord, CandInv', FraudInv', RACInv'
    PROVE  Kept
  <1>1. NetKept
    BY NetUnchanged
  <1>2. Types'
    BY DEF Types
  <1>3. NetNeverNegative' /\ ClawInv'
    BY <1>1 DEF NetKept, LedgerInv, NetNeverNegative, ClawInv, Types
  <1> QED BY <1>2, <1>3 DEF Kept, LedgerInv

\* The fraud set is every result of the unit that still agrees.
LEMMA LoadStep ==
    ASSUME Types, LedgerInv, LoadFraudSet
    PROVE  Kept
  <1> USE UnitsApart
  <1> DEFINE fraud == {r \in Audited : status[r] = "AGREED"}
             accs == {Account[r] : r \in fraud}
  <1>1. /\ UNCHANGED <<status, ledger, adj, accept, claw, root, interrupted>>
        /\ root = "OPEN" /\ pass.at = "idle" /\ accept[Audited].at = "attest"
        /\ pass' = [PassIdle EXCEPT !.at = "claw", !.fraud = fraud, !.todo = fraud, !.accounts = accs]
    BY DEF LoadFraudSet, entries
  <1>2. fraud \subseteq Results /\ accs \subseteq Accounts
    BY DEF Accounts
  <1>3. pass' = [ at |-> "claw", fraud |-> fraud, accounts |-> accs, mine |-> {}, todo |-> fraud,
                  cand |-> {}, granted |-> 0 ]
    BY <1>1 DEF PassIdle
  <1>8. \A r \in Audited : status[r] = "AGREED" => r \in fraud
    OBVIOUS
  <1> HIDE DEF accs, fraud
  <1>4. /\ pass' \in PassRecord /\ pass'.at = "claw" /\ pass'.fraud = fraud /\ pass'.todo = fraud
        /\ pass'.mine = {}
    BY <1>2, <1>3 DEF PassRecord, PassSteps
  <1>5. CandInv'
    BY <1>4 DEF CandInv
  <1>6. FraudInv'
    <2>1. NetKept /\ Accepted /\ Accepted'
      BY <1>1, NetUnchanged DEF Accepted
    <2>2. Convicted \subseteq Audited
      BY DEF Convicted
    <2>3. \A r \in Convicted : status'[r] = "AGREED" => r \in pass'.fraud
      BY <1>1, <1>4, <1>8, <2>2
    <2> QED BY <1>1, <1>4, <2>1, <2>2, <2>3 DEF LedgerInv, FraudInv, NetKept
  <1>7. RACInv'
    BY <1>1, <1>4 DEF LedgerInv, RACInv
  <1> QED BY <1>1, <1>4, <1>5, <1>6, <1>7, PassMoves

\* A clawback of the pass takes all that is left.
LEMMA PassClawsStep ==
    ASSUME Types, LedgerInv, NEW r \in Results, PassClaws(r)
    PROVE  Kept
  <1> USE UnitsApart
  <1>1. /\ UNCHANGED <<status, ledger, adj, accept, root, interrupted>>
        /\ pass.at = "claw" /\ claw["pass"] = NoClaw /\ ClawbackReads("pass", r, 0) /\ "pass" \in Callers
        /\ pass' = [pass EXCEPT !.todo = @ \ {r}]
    BY DEF PassClaws, entries, Callers
  <1>2. /\ claw' \in [Callers -> [entry : SUBSET Results, mag : Nat]] /\ ClawInv'
        /\ claw'["pass"].entry = {r} /\ claw'["pass"].mag = Net(r)
    BY <1>1, ReadsStep
  <1>3. /\ pass' \in PassRecord /\ pass'.at = "claw" /\ pass'.todo = pass.todo \ {r}
        /\ pass'.fraud = pass.fraud /\ pass'.mine = pass.mine
    BY <1>1 DEF Types, PassRecord
  <1>4. Types' /\ NetKept /\ Accepted' = Accepted
    BY <1>1, <1>2, <1>3, NetUnchanged DEF Types, Accepted
  <1>5. NetNeverNegative' /\ CandInv'
    BY <1>3, <1>4 DEF LedgerInv, NetNeverNegative, CandInv, NetKept
  <1>6. FraudInv'
    <2>1. claw["pass"].entry = {} /\ Convicted \subseteq Results
      BY <1>1 DEF NoClaw, Convicted
    <2>2. \A q \in Results : Net(q)' = Net(q)
      BY <1>4 DEF NetKept
    <2>3. ASSUME NEW q \in Convicted \cap pass'.fraud
          PROVE  \/ q \in pass'.todo \/ Net(q)' = 0
                 \/ claw'["pass"].entry = {q} /\ claw'["pass"].mag = Net(q)'
      <3>1. q \in pass.todo \/ Net(q) = 0
        BY <1>1, <1>3, <2>1, <2>3 DEF LedgerInv, FraudInv
      <3> QED BY <1>2, <1>3, <2>1, <2>2, <2>3, <3>1
    <2> QED BY <1>1, <1>3, <1>4, <2>1, <2>2, <2>3 DEF LedgerInv, FraudInv
  <1>7. RACInv'
    BY <1>1, <1>3 DEF LedgerInv, RACInv
  <1> QED BY <1>2, <1>4, <1>5, <1>6, <1>7 DEF Kept, LedgerInv

\* Its commit: the entry has nothing left, and the adjustment is on the pass's list.
LEMMA PassCommitsStep ==
    ASSUME Types, LedgerInv, PassCommits
    PROVE  Kept
  <1> USE UnitsApart
  <1>1. /\ UNCHANGED <<status, ledger, accept, root, interrupted>>
        /\ pass.at = "claw" /\ ClawbackCommits("pass") /\ "pass" \in Callers
        /\ pass' = [pass EXCEPT !.mine = @ \cup {Len(adj')}]
    BY DEF PassCommits, entries, Callers
  <1>2. /\ NetNeverNegative' /\ ClawInv'
        /\ claw' \in [Callers -> [entry : SUBSET Results, mag : Nat]]
        /\ \A r \in Results : Net(r) = 0 => Net(r)' = 0
        /\ \A r \in claw["pass"].entry : claw["pass"].mag = Net(r) => Net(r)' = 0
    BY <1>1, CommitsStep
  <1>3. PICK r \in Results :
             /\ adj' \in Seq(Adjustment) /\ \A j \in DOMAIN adj : adj'[j] = adj[j]
             /\ Len(adj') = Len(adj) + 1
             /\ DOMAIN adj' = DOMAIN adj \cup {Len(adj')}
    BY <1>1, CommitNet DEF LedgerInv
  <1>4. Len(adj') \in Nat
    BY <1>3, LenProperties
  <1>5. /\ pass' \in PassRecord /\ pass'.at = "claw" /\ pass'.mine = pass.mine \cup {Len(adj')}
        /\ pass'.todo = pass.todo /\ pass'.fraud = pass.fraud
    BY <1>1, <1>4 DEF Types, PassRecord
  <1>6. Types' /\ Accepted' = Accepted
    BY <1>1, <1>2, <1>3, <1>5 DEF Types, Accepted
  <1>7. CandInv'
    BY <1>5 DEF CandInv
  <1>8. FraudInv'
    <2>1. Convicted \subseteq Results
      BY DEF Convicted
    <2>2. ASSUME NEW q \in Convicted \cap pass.fraud
          PROVE  q \in pass.todo \/ Net(q)' = 0
      <3>1. \/ q \in pass.todo \/ Net(q) = 0
            \/ claw["pass"].entry = {q} /\ claw["pass"].mag = Net(q)
        BY <1>1, <2>2 DEF LedgerInv, FraudInv
      <3> QED BY <1>2, <2>1, <3>1
    <2> QED BY <1>1, <1>2, <1>5, <1>6, <2>1, <2>2 DEF LedgerInv, FraudInv
  <1>9. RACInv'
    BY <1>1, <1>3, <1>5 DEF LedgerInv, RACInv
  <1> QED BY <1>2, <1>6, <1>7, <1>8, <1>9 DEF Kept, LedgerInv

\* An entry with nothing left is passed over: by NetNeverNegative it has exactly nothing.
LEMMA PassSkipsStep ==
    ASSUME Types, LedgerInv, NEW r \in Results, PassSkips(r)
    PROVE  Kept
  <1> USE UnitsApart
  <1>1. /\ UNCHANGED <<status, ledger, adj, accept, claw, root, interrupted>>
        /\ pass.at = "claw" /\ Remaining(r) <= 0 /\ pass' = [pass EXCEPT !.todo = @ \ {r}]
    BY DEF PassSkips, entries
  <1>2. /\ pass' \in PassRecord /\ pass'.at = "claw" /\ pass'.todo = pass.todo \ {r}
        /\ pass'.fraud = pass.fraud /\ pass'.mine = pass.mine
    BY <1>1 DEF Types, PassRecord
  <1>3. Net(r) = 0
    BY <1>1, NetTyped DEF Remaining, LedgerInv, NetNeverNegative
  <1>4. CandInv'
    BY <1>2 DEF CandInv
  <1>5. FraudInv'
    <2>1. NetKept /\ Accepted' = Accepted /\ Convicted \subseteq Results
      BY <1>1, NetUnchanged DEF Accepted, Convicted
    <2> QED BY <1>1, <1>2, <1>3, <2>1 DEF LedgerInv, FraudInv, NetKept
  <1>6. RACInv'
    BY <1>1, <1>2 DEF LedgerInv, RACInv
  <1> QED BY <1>1, <1>2, <1>4, <1>5, <1>6, PassMoves

\* The account-wide list is read when the fraud set is dealt with.
LEMMA ListStep ==
    ASSUME Types, LedgerInv, NEW a, ListUnmatured(a)
    PROVE  Kept
  <1> USE UnitsApart
  <1>1. /\ UNCHANGED <<status, ledger, adj, accept, claw, root, interrupted>>
        /\ pass.at = "claw" /\ pass.todo = {} /\ claw["pass"] = NoClaw
        /\ pass' = [pass EXCEPT !.accounts = @ \ {a}, !.todo = {r \in Unmatured : Account[r] = a /\ ledger[r] > 0}]
    BY DEF ListUnmatured, entries
  <1>2. {r \in Unmatured : Account[r] = a /\ ledger[r] > 0} \subseteq Results
    BY LedgerAssumption
  <1>3. /\ pass' \in PassRecord /\ pass'.at = "claw"
        /\ pass'.fraud = pass.fraud /\ pass'.mine = pass.mine
    BY <1>1, <1>2 DEF Types, PassRecord
  <1>4. CandInv'
    BY <1>3 DEF CandInv
  <1>5. FraudInv'
    <2>1. NetKept /\ Accepted' = Accepted /\ Convicted \subseteq Results /\ claw["pass"].entry = {}
      BY <1>1, NetUnchanged DEF Accepted, Convicted, NoClaw
    <2> QED BY <1>1, <1>3, <2>1 DEF LedgerInv, FraudInv, NetKept
  <1>6. RACInv'
    BY <1>1, <1>3 DEF LedgerInv, RACInv
  <1> QED BY <1>1, <1>3, <1>4, <1>5, <1>6, PassMoves

\* The clawbacks are done: nothing is left of any convicted entry.
LEMMA ClawbacksDoneStep ==
    ASSUME Types, LedgerInv, ClawbacksDone
    PROVE  Kept
  <1> USE UnitsApart
  <1>1. /\ UNCHANGED <<status, ledger, adj, accept, claw, root, interrupted>>
        /\ pass.at = "claw" /\ pass.todo = {} /\ claw["pass"] = NoClaw
        /\ pass' = [pass EXCEPT !.at = "emit", !.todo = pass.mine]
    BY DEF ClawbacksDone, entries
  <1>2. pass' \in PassRecord /\ pass'.at = "emit" /\ pass'.todo = pass.mine /\ pass'.fraud = pass.fraud
    BY <1>1 DEF Types, PassRecord, PassSteps
  <1>3. CandInv'
    BY <1>2 DEF CandInv
  <1>4. FraudInv'
    <2>1. NetKept /\ Accepted' = Accepted /\ Convicted \subseteq Results /\ claw["pass"].entry = {}
      BY <1>1, NetUnchanged DEF Accepted, Convicted, NoClaw
    <2> QED BY <1>1, <1>2, <2>1 DEF LedgerInv, FraudInv, NetKept
  <1>5. RACInv'
    BY <1>1, <1>2 DEF LedgerInv, RACInv
  <1> QED BY <1>1, <1>2, <1>3, <1>4, <1>5, PassMoves

\* A revocation is published, or not: the adjustment's decrement comes next.
LEMMA PassEmitsStep ==
    ASSUME Types, LedgerInv, NEW i, PassEmits(i)
    PROVE  Kept
  <1> USE UnitsApart
  <1>1. /\ UNCHANGED <<status, ledger, adj, accept, claw, root, interrupted>>
        /\ pass.at = "emit" /\ i \in pass.todo /\ pass' = [pass EXCEPT !.at = "rac", !.cand = {i}]
    BY DEF PassEmits, entries
  <1>2. {i} \subseteq Results \cup Nat
    BY <1>1 DEF Types, PassRecord
  <1>3. /\ pass' \in PassRecord /\ pass'.at = "rac" /\ pass'.todo = pass.todo /\ pass'.fraud = pass.fraud
        /\ pass'.cand = {i}
    BY <1>1, <1>2 DEF Types, PassRecord, PassSteps
  <1>4. CandInv'
    BY <1>3 DEF CandInv
  <1>5. FraudInv'
    <2>1. NetKept /\ Accepted' = Accepted /\ Convicted \subseteq Results
      BY <1>1, NetUnchanged DEF Accepted, Convicted
    <2> QED BY <1>1, <1>3, <2>1 DEF LedgerInv, FraudInv, NetKept
  <1>6. RACInv'
    BY <1>1, <1>3 DEF LedgerInv, RACInv
  <1> QED BY <1>1, <1>3, <1>4, <1>5, <1>6, PassMoves

\* The decrement: the adjustment is stamped when it leaves the list.
LEMMA RACStep ==
    ASSUME Types, LedgerInv, NEW i, ApplyRACAdjustment(i)
    PROVE  Kept
  <1> USE UnitsApart
  <1>1. /\ UNCHANGED <<status, ledger, accept, claw, root, interrupted>>
        /\ pass.at = "rac" /\ i \in pass.cand
        /\ adj' = IF AppliesRAC(i) THEN [adj EXCEPT ![i].racApplied = TRUE] ELSE adj
        /\ pass' = [pass EXCEPT !.at = "emit", !.todo = @ \ {i}, !.cand = {}]
    BY DEF ApplyRACAdjustment, entries
  <1>2. i \in pass.todo /\ i \in DOMAIN adj
    BY <1>1 DEF LedgerInv, RACInv
  <1>3. /\ pass' \in PassRecord /\ pass'.at = "emit" /\ pass'.todo = pass.todo \ {i}
        /\ pass'.fraud = pass.fraud
    BY <1>1 DEF Types, PassRecord, PassSteps
  <1>4. /\ NetKept /\ adj' \in Seq(Adjustment) /\ DOMAIN adj' = DOMAIN adj
        /\ adj'[i].racApplied /\ \A j \in DOMAIN adj : j # i => adj'[j] = adj[j]
    <2>1. CASE AppliesRAC(i)
      BY <1>1, <1>2, <2>1, StampNet
    <2>2. CASE ~AppliesRAC(i)
      <3>1. adj' = adj /\ adj[i].racApplied
        BY <1>1, <2>2 DEF AppliesRAC
      <3> QED BY <1>1, <3>1, NetUnchanged DEF Types
    <2> QED BY <2>1, <2>2
  <1>5. Types' /\ Accepted' = Accepted
    BY <1>1, <1>3, <1>4 DEF Types, Accepted
  <1>6. NetNeverNegative' /\ ClawInv' /\ CandInv'
    BY <1>1, <1>3, <1>4 DEF NetKept, LedgerInv, NetNeverNegative, ClawInv, CandInv, Types
  <1>7. FraudInv'
    <2>1. Convicted \subseteq Results
      BY DEF Convicted
    <2> QED BY <1>1, <1>3, <1>4, <1>5, <2>1 DEF LedgerInv, FraudInv, NetKept
  <1>8. RACInv'
    BY <1>1, <1>2, <1>3, <1>4 DEF LedgerInv, RACInv
  <1> QED BY <1>5, <1>6, <1>7, <1>8 DEF Kept, LedgerInv

\* A step of the pass that writes statuses, not money, after the convicted were taken.
LEMMA StatusStep ==
    ASSUME Types, LedgerInv, UNCHANGED <<ledger, adj, accept, claw, root, interrupted>>,
           status' \in [Results -> Statuses], pass' \in PassRecord,
           pass.at # "idle", pass'.at \in {"repair", "grant", "attest"}, CandInv', RACInv',
           \A r \in Convicted : status'[r] # "AGREED" /\ Net(r) = 0
    PROVE  Kept
  <1>1. NetKept /\ Accepted' = Accepted /\ Accepted /\ Convicted \subseteq Results
    BY NetUnchanged, UnitsApart DEF LedgerInv, FraudInv, Accepted, Convicted
  <1>2. Types'
    BY DEF Types
  <1>3. NetNeverNegative' /\ ClawInv'
    BY <1>1 DEF NetKept, LedgerInv, NetNeverNegative, ClawInv, Types
  <1>4. FraudInv'
    BY <1>1 DEF NetKept, FraudInv, LedgerInv
  <1> QED BY <1>2, <1>3, <1>4 DEF Kept, LedgerInv

\* The fraud set is flipped: no convicted result agrees any more.
LEMMA FlipStep ==
    ASSUME Types, LedgerInv, FlipToDisagreed
    PROVE  Kept
  <1> USE UnitsApart
  <1> DEFINE losers == {r \in Truthful : status'[r] = "DISAGREED"}
  <1>1. /\ UNCHANGED <<ledger, adj, accept, claw, root, interrupted>>
        /\ pass.at = "emit" /\ pass.todo = {}
        /\ status' = [r \in Results |-> IF r \in pass.fraud THEN "DISAGREED" ELSE status[r]]
        /\ pass' = [pass EXCEPT !.at = "repair", !.todo = losers]
    BY DEF FlipToDisagreed
  <1>2. losers \subseteq Truthful /\ losers \subseteq Results /\ Convicted \subseteq Results
    BY LedgerAssumption DEF Convicted
  <1> HIDE DEF losers
  <1>3. pass' \in PassRecord /\ pass'.at = "repair" /\ pass'.todo = losers
    BY <1>1, <1>2 DEF Types, PassRecord, PassSteps
  <1>4. status' \in [Results -> Statuses]
    BY <1>1 DEF Types, Statuses
  <1>5. \A r \in Convicted : status'[r] # "AGREED" /\ Net(r) = 0
    BY <1>1, <1>2 DEF LedgerInv, FraudInv
  <1>6. CandInv'
    BY <1>2, <1>3 DEF CandInv
  <1>7. RACInv'
    BY <1>1, <1>3 DEF LedgerInv, RACInv
  <1> QED BY <1>1, <1>3, <1>4, <1>5, <1>6, <1>7, StatusStep

\* The repair of one candidate: its status ...
LEMMA RepairFlipsStep ==
    ASSUME Types, LedgerInv, NEW r \in Results, RepairFlips(r)
    PROVE  Kept
  <1> USE UnitsApart
  <1>1. /\ UNCHANGED <<ledger, adj, accept, claw, root, interrupted>>
        /\ pass.at = "repair" /\ r \in pass.todo
        /\ status' = [status EXCEPT ![r] = "AGREED"]
        /\ pass' = [pass EXCEPT !.at = "grant", !.cand = {r}]
    BY DEF RepairFlips
  <1>2. pass' \in PassRecord /\ pass'.at = "grant" /\ pass'.todo = pass.todo /\ pass'.cand = {r}
    BY <1>1 DEF Types, PassRecord, PassSteps
  <1>3. r \in Truthful /\ r \notin Convicted /\ Convicted \subseteq Results
    BY <1>1 DEF LedgerInv, CandInv, Convicted
  <1>4. status' \in [Results -> Statuses] /\ \A q \in Convicted : status'[q] = status[q]
    BY <1>1, <1>3 DEF Types, Statuses
  <1>5. \A q \in Convicted : status'[q] # "AGREED" /\ Net(q) = 0
    BY <1>1, <1>4 DEF LedgerInv, FraudInv
  <1>6. CandInv'
    BY <1>1, <1>2, <1>3 DEF LedgerInv, CandInv
  <1>7. RACInv'
    BY <1>1, <1>2 DEF LedgerInv, RACInv
  <1> QED BY <1>1, <1>2, <1>4, <1>5, <1>6, <1>7, StatusStep

\* ... its grant, to nobody who was convicted ...
LEMMA RepairGrantsStep ==
    ASSUME Types, LedgerInv, NEW r \in Results, NEW inserted \in BOOLEAN, RepairGrants(r, inserted)
    PROVE  Kept
  <1> USE UnitsApart
  <1>1. /\ UNCHANGED <<status, adj, accept, claw, root, interrupted>>
        /\ pass.at = "grant" /\ r \in pass.cand
        /\ ledger' = [ledger EXCEPT ![r] = IF inserted THEN Amount ELSE @]
        /\ pass' = [pass EXCEPT !.at = "attest", !.granted = IF inserted THEN Amount ELSE 0]
    BY DEF RepairGrants
  <1>2. pass' \in PassRecord /\ pass'.at = "attest" /\ pass'.todo = pass.todo /\ pass'.cand = pass.cand
    BY <1>1, LedgerAssumption DEF Types, PassRecord, PassSteps
  <1>3. r \in Truthful /\ r \notin Convicted /\ Convicted \subseteq Results
    BY <1>1 DEF LedgerInv, CandInv, Convicted
  <1>4. /\ ledger' \in [Results -> {0, Amount}]
        /\ \A q \in Results : ledger'[q] \in {ledger[q], Amount}
        /\ \A q \in Results : q # r => ledger'[q] = ledger[q]
    BY <1>1 DEF Types
  <1>5. Types' /\ Accepted' = Accepted
    BY <1>1, <1>2, <1>4 DEF Types, Accepted
  <1>6. \A q \in Results : Net(q)' >= Net(q) /\ (ledger'[q] = ledger[q] => Net(q)' = Net(q))
    BY <1>1, <1>4, GrantNet
  <1>7. \A q \in Results : Net(q) \in Int /\ Net(q)' \in Int
    <2> TAKE q \in Results
    <2>1. Net(q) \in Int
      BY NetTyped
    <2>2. ledger'[q] \in Nat /\ Total(adj', q) \in Nat
      BY <1>5, TotalNat, LedgerAssumption DEF Types
    <2> QED BY <2>1, <2>2 DEF Net, SumForEntry
  <1>8. NetNeverNegative'
    BY <1>6, <1>7 DEF LedgerInv, NetNeverNegative
  <1>9. ClawInv'
    <2>1. \A w \in Callers : claw[w].entry \subseteq Results /\ claw[w].mag \in Nat
      BY DEF Types
    <2>2. \A w \in Callers : \A q \in claw[w].entry : claw[w].mag <= Net(q)'
      BY <2>1, <1>6, <1>7 DEF LedgerInv, ClawInv
    <2> QED BY <1>1, <2>2 DEF LedgerInv, ClawInv
  <1>10. CandInv'
    BY <1>1, <1>2 DEF LedgerInv, CandInv
  <1>11. FraudInv'
    <2>1. \A q \in Convicted : Net(q)' = Net(q)
      BY <1>3, <1>4, <1>6
    <2> QED BY <1>1, <1>2, <1>5, <2>1 DEF LedgerInv, FraudInv
  <1>12. RACInv'
    BY <1>1, <1>2 DEF LedgerInv, RACInv
  <1> QED BY <1>5, <1>8, <1>9, <1>10, <1>11, <1>12 DEF Kept, LedgerInv

\* ... and its attestation.
LEMMA RepairAttestsStep ==
    ASSUME Types, LedgerInv, NEW r \in Results, RepairAttests(r)
    PROVE  Kept
  <1> USE UnitsApart
  <1>1. /\ UNCHANGED <<status, ledger, adj, accept, claw, root, interrupted>>
        /\ pass.at = "attest"
        /\ pass' = [pass EXCEPT !.at = "repair", !.todo = @ \ {r}, !.cand = {}, !.granted = 0]
    BY DEF RepairAttests, entries
  <1>2. pass' \in PassRecord /\ pass'.at = "repair" /\ pass'.todo = pass.todo \ {r}
    BY <1>1 DEF Types, PassRecord, PassSteps
  <1>3. \A q \in Convicted : status'[q] # "AGREED" /\ Net(q) = 0
    BY <1>1 DEF LedgerInv, FraudInv
  <1>4. CandInv'
    BY <1>1, <1>2 DEF LedgerInv, CandInv
  <1>5. RACInv'
    BY <1>1, <1>2 DEF LedgerInv, RACInv
  <1>6. status' \in [Results -> Statuses]
    BY <1>1 DEF Types
  <1> QED BY <1>1, <1>2, <1>3, <1>4, <1>5, <1>6, StatusStep

\* The root is enforced: the pass has nothing left to do.
LEMMA EnforcedStep ==
    ASSUME Types, LedgerInv, SetEnforcementState
    PROVE  Kept
  <1> USE UnitsApart
  <1>1. /\ UNCHANGED <<status, ledger, adj, accept, claw, interrupted>>
        /\ pass.at = "repair" /\ root' = "ENFORCED" /\ pass' = PassIdle
    BY DEF SetEnforcementState, entries
  <1>2. pass' \in PassRecord /\ pass'.at = "idle"
    BY <1>1 DEF PassRecord, PassSteps, PassIdle
  <1>3. NetKept /\ Accepted' = Accepted /\ Convicted \subseteq Results
    BY <1>1, NetUnchanged DEF Accepted, Convicted
  <1>4. Types'
    BY <1>1, <1>2 DEF Types
  <1>5. NetNeverNegative' /\ ClawInv' /\ CandInv'
    BY <1>1, <1>2, <1>3 DEF NetKept, LedgerInv, NetNeverNegative, ClawInv, CandInv, Types
  <1>6. FraudInv'
    BY <1>1, <1>2, <1>3 DEF NetKept, LedgerInv, FraudInv
  <1>7. RACInv'
    BY <1>1, <1>2 DEF LedgerInv, RACInv
  <1> QED BY <1>4, <1>5, <1>6, <1>7 DEF Kept, LedgerInv

\* The pass ends with locks dropped and nothing else written.
LEMMA PassEndsStep ==
    ASSUME Types, LedgerInv, UNCHANGED <<status, ledger, adj, root>>, pass' = PassIdle,
           interrupted' = (interrupted \/ pass.at # "idle"),
           accept' \in [Units -> [at : {"idle", "attest", "lost"}, todo : SUBSET Results]],
           \A u \in Units : /\ accept'[u].at = "idle" => accept'[u].todo = {}
                            /\ accept'[u].at = "idle" <=> accept[u].at = "idle",
           claw' \in [Callers -> [entry : SUBSET Results, mag : Nat]],
           \A w \in Callers : claw'[w] = claw[w] \/ claw'[w].entry = {}
    PROVE  Kept
  <1> USE UnitsApart
  <1>1. pass' \in PassRecord /\ pass'.at = "idle"
    BY DEF PassRecord, PassSteps, PassIdle
  <1>2. NetKept /\ Accepted' = Accepted /\ Convicted \subseteq Results
    BY NetUnchanged DEF Accepted, Convicted
  <1>3. Types'
    BY <1>1 DEF Types
  <1>4. NetNeverNegative' /\ CandInv'
    BY <1>1, <1>2 DEF NetKept, LedgerInv, NetNeverNegative, CandInv
  <1>5. ClawInv'
    <2>1. \A w \in Callers : claw[w].entry \subseteq Results
      BY DEF Types
    <2> QED BY <1>2, <2>1 DEF NetKept, LedgerInv, ClawInv
  <1>6. FraudInv'
    BY <1>1, <1>2 DEF NetKept, LedgerInv, FraudInv
  <1>7. RACInv'
    <2>1. ~interrupted' => ~interrupted /\ pass.at = "idle"
      OBVIOUS
    <2> QED BY <1>1, <2>1 DEF LedgerInv, RACInv
  <1> QED BY <1>3, <1>4, <1>5, <1>6, <1>7 DEF Kept, LedgerInv

\* A statement of the pass fails.
LEMMA PassStopsStep ==
    ASSUME Types, LedgerInv, PassStops
    PROVE  Kept
  <1>1. /\ UNCHANGED <<status, ledger, adj, accept, root>> /\ pass' = PassIdle
        /\ interrupted' = TRUE /\ pass.at # "idle" /\ claw' = [claw EXCEPT !["pass"] = NoClaw]
    BY DEF PassStops, entries
  <1>2. interrupted' = (interrupted \/ pass.at # "idle")
    BY <1>1
  <1>3. /\ claw' \in [Callers -> [entry : SUBSET Results, mag : Nat]]
        /\ \A w \in Callers : claw'[w] = claw[w] \/ claw'[w].entry = {}
    BY <1>1 DEF Types, NoClaw
  <1>4. /\ accept' \in [Units -> [at : {"idle", "attest", "lost"}, todo : SUBSET Results]]
        /\ \A u \in Units : /\ accept'[u].at = "idle" => accept'[u].todo = {}
                            /\ accept'[u].at = "idle" <=> accept[u].at = "idle"
    BY <1>1 DEF Types
  <1> QED BY <1>1, <1>2, <1>3, <1>4, PassEndsStep

\* The head restarts: an accept under way has been through its transaction.
LEMMA CrashStep ==
    ASSUME Types, LedgerInv, Crash
    PROVE  Kept
  <1>1. /\ UNCHANGED <<status, ledger, adj, root>> /\ pass' = PassIdle
        /\ interrupted' = (interrupted \/ pass.at # "idle")
        /\ claw' = [w \in Callers |-> NoClaw]
        /\ accept' = [u \in Units |-> IF accept[u].todo = {} THEN accept[u] ELSE [at |-> "lost", todo |-> {}]]
    BY DEF Crash, entries
  <1>2. /\ claw' \in [Callers -> [entry : SUBSET Results, mag : Nat]]
        /\ \A w \in Callers : claw'[w] = claw[w] \/ claw'[w].entry = {}
    BY <1>1 DEF NoClaw
  <1>3. /\ accept' \in [Units -> [at : {"idle", "attest", "lost"}, todo : SUBSET Results]]
        /\ \A u \in Units : /\ accept'[u].at = "idle" => accept'[u].todo = {}
                            /\ accept'[u].at = "idle" <=> accept[u].at = "idle"
    BY <1>1 DEF Types
  <1> QED BY <1>1, <1>2, <1>3, PassEndsStep

-----------------------------------------------------------------------------
(* Invariance.                                                             *)

\* Before the first accept nothing is owed and nothing was taken.
LEMMA InvInit ==
    ASSUME Init
    PROVE  Types /\ LedgerInv
  <1> USE UnitsApart
  <1>1. adj = <<>> /\ adj \in Seq(Adjustment) /\ Len(adj) = 0 /\ DOMAIN adj = {}
    BY EmptySeq, LenProperties DEF Init
  <1>2. pass \in PassRecord /\ pass.at = "idle" /\ root = "OPEN"
    BY DEF Init, PassRecord, PassSteps, PassIdle
  <1>3. claw \in [Callers -> [entry : SUBSET Results, mag : Nat]] /\ \A w \in Callers : claw[w].entry = {}
    BY DEF Init, NoClaw
  <1>4. /\ accept \in [Units -> [at : {"idle", "attest", "lost"}, todo : SUBSET Results]]
        /\ \A u \in Units : accept[u].at = "idle" /\ accept[u].todo = {}
    BY DEF Init
  <1>5. Types
    BY <1>1, <1>2, <1>3, <1>4, LedgerAssumption DEF Init, Types, Statuses
  <1>6. \A r \in Results : Net(r) = 0
    <2> TAKE r \in Results
    <2>1. PICK f : Sums(f, adj, r, Len(adj)) /\ Total(adj, r) = f[Len(adj)]
      BY <1>1, TotalIsSum
    <2>2. Total(adj, r) = 0
      BY <1>1, <2>1 DEF Sums
    <2>3. ledger[r] = 0
      BY DEF Init
    <2> QED BY <2>2, <2>3 DEF Net, SumForEntry
  <1>7. NetNeverNegative /\ ClawInv /\ CandInv
    BY <1>2, <1>3, <1>6 DEF NetNeverNegative, ClawInv, CandInv
  <1>8. FraudInv /\ RACInv
    BY <1>1, <1>2, <1>4 DEF FraudInv, RACInv, Accepted
  <1> QED BY <1>5, <1>7, <1>8 DEF LedgerInv

\* Every step keeps the invariant.
LEMMA InvStep ==
    ASSUME Types, LedgerInv, [Next]_vars
    PROVE  Kept
  <1>1. CASE UNCHANGED vars
    BY <1>1, ElsewhereStep DEF vars, entries
  <1>2. CASE \E u \in Units : Validate(u)
    BY <1>2, AcceptStep, AttestStep DEF Validate
  <1>3. CASE Operator
    <2>1. CASE \E r \in Results, m \in 0 .. Amount : HandleClawback(r, m)
      BY <2>1, OperatorReadsStep
    <2>2. CASE OperatorCommits
      BY <2>2, OperatorCommitsStep
    <2>3. CASE OperatorFails
      BY <2>3, OperatorFailsStep
    <2>4. CASE OperatorEmits
      BY <2>4, ElsewhereStep DEF OperatorEmits, entries
    <2> QED BY <1>3, <2>1, <2>2, <2>3, <2>4 DEF Operator, OperatorEnds
  <1>4. CASE Pass
    <2>1. CASE LoadFraudSet
      BY <2>1, LoadStep
    <2>2. CASE \E r \in Results : PassClaws(r) \/ PassSkips(r)
      BY <2>2, PassClawsStep, PassSkipsStep
    <2>3. CASE PassCommits
      BY <2>3, PassCommitsStep
    <2>4. CASE \E r \in Results : ListUnmatured(Account[r])
      BY <2>4, ListStep
    <2>5. CASE ClawbacksDone
      BY <2>5, ClawbacksDoneStep
    <2>6. CASE \E i \in Indices : PassEmits(i) \/ ApplyRACAdjustment(i)
      BY <2>6, PassEmitsStep, RACStep
    <2>7. CASE FlipToDisagreed
      BY <2>7, FlipStep
    <2>8. CASE \E r \in Results : \/ RepairFlips(r) \/ RepairAttests(r)
                                  \/ \E inserted \in BOOLEAN : RepairGrants(r, inserted)
      BY <2>8, RepairFlipsStep, RepairAttestsStep, RepairGrantsStep
    <2>9. CASE SetEnforcementState
      BY <2>9, EnforcedStep
    <2> QED BY <1>4, <2>1, <2>2, <2>3, <2>4, <2>5, <2>6, <2>7, <2>8, <2>9 DEF Pass
  <1>5. CASE PassStops
    BY <1>5, PassStopsStep
  <1>6. CASE Sweep
    <2>1. CASE Reconcile
      BY <2>1, ElsewhereStep DEF Reconcile, entries
    <2>2. CASE \E i \in Indices : ReconcileEmits(i)
      BY <2>2, ElsewhereStep DEF ReconcileEmits, entries
    <2> QED BY <1>6, <2>1, <2>2 DEF Sweep
  <1>7. CASE Crash
    BY <1>7, CrashStep
  <1> QED BY <1>1, <1>2, <1>3, <1>4, <1>5, <1>6, <1>7 DEF Next

\* The inductive invariant holds in every reachable state.
LEMMA Invariance == Spec => [](Types /\ LedgerInv)
  <1>1. Init => Types /\ LedgerInv
    BY InvInit
  <1>2. Types /\ LedgerInv /\ [Next]_vars => Types' /\ LedgerInv'
    BY InvStep DEF Kept
  <1> QED BY <1>1, <1>2, PTL DEF Spec

\* Whatever the operator and the pass take at once, no entry is taken below zero: the amount
\* a clawback read under the entry's lock is still there when it commits.
THEOREM NetNeverNegativeHolds == Spec => []NetNeverNegative
  <1>1. LedgerInv => NetNeverNegative
    BY DEF LedgerInv
  <1> QED BY <1>1, Invariance, PTL

\* An enforced root leaves nothing of the credit of the results it convicted, however often
\* the pass was interrupted and whatever else was taken meanwhile.
THEOREM FraudUnpaidHolds == Spec => []FraudUnpaid
  <1>1. LedgerInv => FraudUnpaid
    BY DEF LedgerInv, FraudInv, FraudUnpaid, Convicted
  <1> QED BY <1>1, Invariance, PTL

\* A pass that ran to its end without an interruption has decremented the RAC of every
\* adjustment it made before the root is enforced.
THEOREM RACUnwoundHolds == Spec => []RACUnwound
  <1>1. LedgerInv => RACUnwound
    BY DEF LedgerInv, RACInv, RACUnwound
  <1> QED BY <1>1, Invariance, PTL

=============================================================================
