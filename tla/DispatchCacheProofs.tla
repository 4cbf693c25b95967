------------------------ MODULE DispatchCacheProofs ------------------------
(***************************************************************************)
(* DispatchCache's two invariants, for any units, accounts, redundancy,    *)
(* caps, batch and pool sizes: no meter below zero, a ready pool within    *)
(* its size that stages a unit once, and flushPendingFor's promise that    *)
(* the reservation a handler found in memory is settled when the handler   *)
(* goes on to the database.                                                *)
(*                                                                         *)
(* The promise rests on one fact about the queues: a write moves between   *)
(* the queue, a batch and the queue again, and only a hand-out makes a new *)
(* one.  So it suffices that a hand-out after the look-up is told from the *)
(* hold the handler found, which is what rpc[a].found says.                *)
(***************************************************************************)
EXTENDS DispatchCache, SequenceTheorems, FiniteSetTheorems, WellFoundedInduction, TLAPS

Writers == Accounts \cup {Flusher}
CandidateRow ==
    [ unit : Units, effectiveRedundancy : Nat, spot : BOOLEAN, dbActiveCount : Nat,
      contributors : SUBSET Accounts, benched : SUBSET Accounts ]
FlightRow == [step : {"idle", "write", "void", "mark", "reserve"}, batch : Seq(Pairs)]
CallRow ==
    [ op : {"idle", "assign", "startFlush", "assignHeld", "close", "abandonFlush", "closeHeld"},
      unit : Units \cup {0}, found : BOOLEAN ]
Notice == [kind : {"started", "closed", "done", "void"}, of : Pairs]
Meter == [Accounts -> Nat]

Tables ==
    /\ unit \in [Units -> [queued : BOOLEAN, spot : BOOLEAN]]
    /\ copy \in [Pairs -> {None, "reserved", "running", "cooling", "result"}]
    /\ has \subseteq Pairs
    /\ fallback \in [Accounts -> SUBSET Units] /\ report \in [Accounts -> SUBSET Units]

Meters == holds \subseteq Pairs /\ inflight \in Meter /\ counts \in {<<>>} \cup {<<m>> : m \in Meter}

Queued == writes \in Seq(Pairs) /\ spots \in Seq(Pairs)

\* A goroutine is at a step of its flush exactly while it has a batch.
InFlight ==
    /\ flight \in [Writers -> FlightRow]
    /\ \A w \in Writers : flight[w].step = "idle" <=> flight[w].batch = <<>>

\* Candidates of different units.
Candidates(seq) ==
    /\ seq \in Seq(CandidateRow)
    /\ \A i, j \in 1 .. Len(seq) : seq[i].unit = seq[j].unit => i = j

Pool == Candidates(ready) /\ Len(ready) <= ReadyPoolSize /\ Candidates(refill.found)

Calls ==
    /\ rpc \in [Accounts -> CallRow] /\ notices \subseteq Notice
    /\ \A a \in Accounts : rpc[a].op # "idle" => rpc[a].unit \in Units

Types == Tables /\ Meters /\ Queued /\ InFlight /\ Pool /\ Calls

\* The handler of p has flushed the hold it found and has not acted on it yet.
Flushing(p) ==
    /\ rpc[p[2]].op \in {"assignHeld", "closeHeld"}
    /\ rpc[p[2]].unit = p[1] /\ rpc[p[2]].found

\* FlushSettles, whether the hold is still there or not.
Settled == \A p \in Pairs : Flushing(p) => ~Unsettled(p)

-----------------------------------------------------------------------------
(* Sequences.                                                              *)

\* A nonempty set of naturals has a least element.
LEMMA LeastNatural ==
    ASSUME NEW T \in SUBSET Nat, T # {}
    PROVE  \E x \in T : \A y \in T : ~(y < x)
  <1> DEFINE R == OpToRel(<, Nat)
  <1>1. \E x \in T : \A y \in T : ~(<<y, x>> \in R)
    <2>1. IsWellFoundedOn(R, Nat)
      BY NatLessThanWellFounded
    <2> HIDE DEF R
    <2> QED BY <2>1, WFMin
  <1>2. \A x, y \in Nat : (<<y, x>> \in R) <=> y < x
    BY DEF OpToRel
  <1> HIDE DEF R
  <1>3. PICK x \in T : \A y \in T : ~(<<y, x>> \in R)
    BY <1>1
  <1>4. \A y \in T : ~(y < x)
    BY <1>2, <1>3
  <1> QED BY <1>4

\* A sequence is a function on 1 .. Len(seq), and Range is what it returns there.
LEMMA SeqFacts ==
    ASSUME NEW S, NEW seq \in Seq(S)
    PROVE  /\ Len(seq) \in Nat /\ DOMAIN seq = 1 .. Len(seq)
           /\ \A i \in 1 .. Len(seq) : seq[i] \in S
           /\ \A x : x \in Range(seq) <=> \E i \in 1 .. Len(seq) : seq[i] = x
           /\ seq = <<>> <=> Len(seq) = 0
  <1>1. Len(seq) \in Nat /\ DOMAIN seq = 1 .. Len(seq)
    BY LenProperties
  <1>2. \A i \in 1 .. Len(seq) : seq[i] \in S
    BY ElementOfSeq
  <1>3. \A x : x \in Range(seq) <=> \E i \in 1 .. Len(seq) : seq[i] = x
    BY <1>1 DEF Range
  <1>4. seq = <<>> <=> Len(seq) = 0
    BY EmptySeq
  <1> QED BY <1>1, <1>2, <1>3, <1>4

\* f holds what Without keeps of the first n members of seq, for each n up to m.
Keeps(f, S, seq, ps, m) ==
    /\ f \in [0 .. m -> Seq(S)] /\ f[0] = <<>>
    /\ \A n \in 1 .. m : f[n] = IF seq[n] \in ps THEN f[n - 1] ELSE Append(f[n - 1], seq[n])

\* There is one: by induction on m.
LEMMA KeepsExist ==
    ASSUME NEW S, NEW seq \in Seq(S), NEW ps
    PROVE  \A m \in 0 .. Len(seq) : \E f : Keeps(f, S, seq, ps, m)
  <1> DEFINE Bad == {m \in 0 .. Len(seq) : \A f : ~Keeps(f, S, seq, ps, m)}
  <1> SUFFICES ASSUME Bad # {} PROVE FALSE
    OBVIOUS
  <1>1. Bad \in SUBSET Nat
    BY SeqFacts
  <1>2. PICK m \in Bad : \A k \in Bad : ~(k < m)
    <2> HIDE DEF Bad
    <2> QED BY <1>1, LeastNatural
  <1>3. m \in 0 .. Len(seq) /\ \A f : ~Keeps(f, S, seq, ps, m)
    BY <1>2
  <1>4. CASE m = 0
    <2>1. Keeps([n \in 0 .. 0 |-> <<>>], S, seq, ps, 0)
      BY EmptySeq DEF Keeps
    <2> QED BY <1>3, <1>4, <2>1
  <1>5. CASE m # 0
    <2>1. m - 1 \in 0 .. Len(seq) /\ m - 1 < m /\ m \in 1 .. Len(seq) /\ seq[m] \in S
      BY <1>3, <1>5, SeqFacts
    <2>2. PICK f : Keeps(f, S, seq, ps, m - 1)
      BY <1>2, <2>1
    <2> DEFINE last == IF seq[m] \in ps THEN f[m - 1] ELSE Append(f[m - 1], seq[m])
               g == [n \in 0 .. m |-> IF n = m THEN last ELSE f[n]]
    <2>3. f[m - 1] \in Seq(S)
      BY <2>1, <2>2 DEF Keeps
    <2>4. last \in Seq(S)
      BY <2>1, <2>3, AppendProperties
    <2>5. g[m] = last /\ \A n \in 0 .. m - 1 : g[n] = f[n]
      BY <2>1
    <2>6. g \in [0 .. m -> Seq(S)] /\ g[0] = <<>>
      <3> HIDE DEF last
      <3> QED BY <2>1, <2>2, <2>4, <1>5 DEF Keeps
    <2>7. ASSUME NEW n \in 1 .. m
          PROVE  g[n] = IF seq[n] \in ps THEN g[n - 1] ELSE Append(g[n - 1], seq[n])
      <3>1. n - 1 \in 0 .. m - 1 /\ g[n - 1] = f[n - 1]
        BY <2>1, <2>5
      <3>2. CASE n = m
        BY <2>5, <3>1, <3>2
      <3>3. CASE n # m
        <4>1. n \in 1 .. m - 1 /\ g[n] = f[n]
          BY <2>1, <2>5, <3>3
        <4>2. f[n] = IF seq[n] \in ps THEN f[n - 1] ELSE Append(f[n - 1], seq[n])
          BY <2>2, <4>1 DEF Keeps
        <4> HIDE DEF g
        <4> QED BY <3>1, <4>1, <4>2
      <3> QED BY <3>2, <3>3
    <2>8. Keeps(g, S, seq, ps, m)
      <3> HIDE DEF g
      <3> QED BY <2>6, <2>7 DEF Keeps
    <2> QED BY <1>3, <2>8
  <1> QED BY <1>4, <1>5

\* Without is the last of them.
LEMMA WithoutKeeps ==
    ASSUME NEW S, NEW seq \in Seq(S), NEW ps
    PROVE  \E f : /\ f[0] = <<>> /\ Without(seq, ps) = f[Len(seq)]
                  /\ \A n \in 1 .. Len(seq) :
                        f[n] = IF seq[n] \in ps THEN f[n - 1] ELSE Append(f[n - 1], seq[n])
  <1> DEFINE N == Len(seq)
             Fits(f) == f = [n \in 0 .. N |->
                                IF n = 0 THEN <<>>
                                ELSE IF seq[n] \in ps THEN f[n - 1] ELSE Append(f[n - 1], seq[n])]
             s == CHOOSE f : Fits(f)
  <1>1. N \in Nat /\ N \in 0 .. N
    BY SeqFacts
  <1>2. PICK f : Keeps(f, S, seq, ps, N)
    BY <1>1, KeepsExist
  <1>3. Fits(f)
    <2> DEFINE h == [n \in 0 .. N |->
                        IF n = 0 THEN <<>>
                        ELSE IF seq[n] \in ps THEN f[n - 1] ELSE Append(f[n - 1], seq[n])]
    <2>1. ASSUME NEW n \in 0 .. N PROVE h[n] = f[n]
      <3>1. CASE n = 0
        BY <1>2, <3>1 DEF Keeps
      <3>2. CASE n # 0
        <4>1. n \in 1 .. N
          BY <1>1, <3>2
        <4> QED BY <1>2, <3>2, <4>1 DEF Keeps
      <3> QED BY <3>1, <3>2
    <2>2. f \in [0 .. N -> Seq(S)] /\ DOMAIN h = 0 .. N /\ h = [n \in 0 .. N |-> h[n]]
      BY <1>2 DEF Keeps
    <2>3. f = h
      <3> HIDE DEF h
      <3> QED BY <2>1, <2>2
    <2> QED BY <2>3
  <1>4. Fits(s)
    BY <1>3
  <1>5. Without(seq, ps) = s[N]
    BY DEF Without
  <1> HIDE DEF s
  <1>6. s[0] = <<>> /\ \A n \in 1 .. N : s[n] = IF seq[n] \in ps THEN s[n - 1] ELSE Append(s[n - 1], seq[n])
    <2>1. s[0] = <<>>
      BY <1>1, <1>4
    <2>2. ASSUME NEW n \in 1 .. N
          PROVE  s[n] = IF seq[n] \in ps THEN s[n - 1] ELSE Append(s[n - 1], seq[n])
      <3>1. n \in 0 .. N /\ n # 0
        BY <1>1
      <3> QED BY <1>4, <3>1
    <2> QED BY <2>1, <2>2
  <1> QED BY <1>5, <1>6

\* w is made of members of the first n of seq that are not in ps, in their order.
Embeds(e, w, seq, ps, n) ==
    /\ e \in [1 .. Len(w) -> 1 .. n]
    /\ \A i \in 1 .. Len(w) : w[i] = seq[e[i]] /\ seq[e[i]] \notin ps
    /\ \A i, j \in 1 .. Len(w) : i < j => e[i] < e[j]

Thinned(w, S, seq, ps, n) == w \in Seq(S) /\ Len(w) <= n /\ \E e : Embeds(e, w, seq, ps, n)

\* One more member, kept or not.
LEMMA ThinnedNext ==
    ASSUME NEW S, NEW seq \in Seq(S), NEW ps, NEW n \in 1 .. Len(seq), NEW w,
           Thinned(w, S, seq, ps, n - 1)
    PROVE  /\ Thinned(w, S, seq, ps, n)
           /\ seq[n] \notin ps => Thinned(Append(w, seq[n]), S, seq, ps, n)
  <1>1. n \in Nat /\ n - 1 \in Nat /\ seq[n] \in S /\ w \in Seq(S) /\ Len(w) \in Nat /\ Len(w) <= n - 1
    BY SeqFacts DEF Thinned
  <1>2. PICK e : Embeds(e, w, seq, ps, n - 1)
    BY DEF Thinned
  <1>3. Thinned(w, S, seq, ps, n)
    <2>1. Embeds(e, w, seq, ps, n)
      BY <1>1, <1>2 DEF Embeds
    <2> QED BY <1>1, <2>1 DEF Thinned
  <1>4. ASSUME seq[n] \notin ps PROVE Thinned(Append(w, seq[n]), S, seq, ps, n)
    <2> DEFINE v == Append(w, seq[n])
               L == Len(w)
               d == [i \in 1 .. L + 1 |-> IF i = L + 1 THEN n ELSE e[i]]
    <2>1. /\ v \in Seq(S) /\ Len(v) = L + 1 /\ v[L + 1] = seq[n]
          /\ \A i \in 1 .. L : v[i] = w[i]
      BY <1>1, AppendProperties
    <2> HIDE DEF v
    <2>2. d \in [1 .. Len(v) -> 1 .. n]
      BY <1>1, <1>2, <2>1 DEF Embeds
    <2>3. \A i \in 1 .. L : d[i] = e[i] /\ e[i] \in 1 .. n - 1
      <3>1. e \in [1 .. L -> 1 .. n - 1]
        BY <1>2 DEF Embeds
      <3>2. \A i \in 1 .. L : i \in 1 .. L + 1 /\ i # L + 1
        BY <1>1
      <3> QED BY <3>1, <3>2
    <2>4. d[L + 1] = n
      BY <1>1
    <2> HIDE DEF d
    <2>5. ASSUME NEW i \in 1 .. Len(v) PROVE v[i] = seq[d[i]] /\ seq[d[i]] \notin ps
      <3>1. i \in 1 .. L \/ i = L + 1
        BY <1>1, <2>1
      <3> QED BY <1>2, <1>4, <2>1, <2>3, <2>4, <3>1 DEF Embeds
    <2>6. ASSUME NEW i \in 1 .. Len(v), NEW j \in 1 .. Len(v), i < j PROVE d[i] < d[j]
      <3>1. i \in 1 .. L /\ (j \in 1 .. L \/ j = L + 1)
        BY <1>1, <2>1, <2>6
      <3> QED BY <1>1, <1>2, <2>3, <2>4, <2>6, <3>1 DEF Embeds
    <2>7. Embeds(d, v, seq, ps, n)
      BY <2>2, <2>5, <2>6 DEF Embeds
    <2>8. Len(v) <= n
      BY <1>1, <2>1
    <2>9. Thinned(v, S, seq, ps, n)
      BY <2>1, <2>7, <2>8 DEF Thinned
    <2> QED BY <2>9 DEF v
  <1> QED BY <1>3, <1>4

\* Without thins its sequence.
LEMMA WithoutThins ==
    ASSUME NEW S, NEW seq \in Seq(S), NEW ps
    PROVE  Thinned(Without(seq, ps), S, seq, ps, Len(seq))
  <1>1. PICK f : /\ f[0] = <<>> /\ Without(seq, ps) = f[Len(seq)]
                 /\ \A n \in 1 .. Len(seq) :
                       f[n] = IF seq[n] \in ps THEN f[n - 1] ELSE Append(f[n - 1], seq[n])
    BY WithoutKeeps
  <1> DEFINE Bad == {n \in 0 .. Len(seq) : ~Thinned(f[n], S, seq, ps, n)}
  <1>2. Bad = {}
    <2> SUFFICES ASSUME Bad # {} PROVE FALSE
      OBVIOUS
    <2>1. Bad \in SUBSET Nat
      BY SeqFacts
    <2>2. PICK n \in Bad : \A k \in Bad : ~(k < n)
      <3> HIDE DEF Bad
      <3> QED BY <2>1, LeastNatural
    <2>3. n \in 0 .. Len(seq) /\ ~Thinned(f[n], S, seq, ps, n)
      BY <2>2
    <2>4. CASE n = 0
      <3>1. Thinned(<<>>, S, seq, ps, 0)
        <4>1. <<>> \in Seq(S) /\ Len(<<>>) = 0
          BY EmptySeq
        <4>2. Embeds([i \in 1 .. 0 |-> 1], <<>>, seq, ps, 0)
          BY <4>1 DEF Embeds
        <4> QED BY <4>1, <4>2 DEF Thinned
      <3> QED BY <1>1, <2>3, <2>4, <3>1
    <2>5. CASE n # 0
      <3>1. n \in 1 .. Len(seq) /\ n - 1 \in 0 .. Len(seq) /\ n - 1 < n
        BY <2>3, <2>5, SeqFacts
      <3>2. Thinned(f[n - 1], S, seq, ps, n - 1)
        BY <2>2, <3>1
      <3>3. CASE seq[n] \in ps
        <4>1. f[n] = f[n - 1]
          BY <1>1, <3>1, <3>3
        <4> QED BY <2>3, <3>1, <3>2, <4>1, ThinnedNext
      <3>4. CASE seq[n] \notin ps
        <4>1. f[n] = Append(f[n - 1], seq[n])
          BY <1>1, <3>1, <3>4
        <4> DEFINE g == f[n - 1]
        <4>2. Thinned(g, S, seq, ps, n - 1)
          BY <3>2
        <4>3. ~Thinned(Append(g, seq[n]), S, seq, ps, n)
          BY <2>3, <4>1
        <4> HIDE DEF g
        <4>4. Thinned(Append(g, seq[n]), S, seq, ps, n)
          BY <3>1, <3>4, <4>2, ThinnedNext
        <4> QED BY <4>3, <4>4
      <3> QED BY <3>3, <3>4
    <2> QED BY <2>4, <2>5
  <1>3. Len(seq) \in 0 .. Len(seq)
    BY SeqFacts
  <1> QED BY <1>1, <1>2, <1>3

\* What Without leaves: a sequence over the same set, no longer, of members that stay.
LEMMA WithoutTyped ==
    ASSUME NEW S, NEW seq \in Seq(S), NEW ps
    PROVE  /\ Without(seq, ps) \in Seq(S) /\ Len(Without(seq, ps)) <= Len(seq)
           /\ Range(Without(seq, ps)) \subseteq Range(seq) \ ps
  <1> DEFINE w == Without(seq, ps)
  <1>1. Thinned(w, S, seq, ps, Len(seq))
    BY WithoutThins
  <1> HIDE DEF w
  <1>2. w \in Seq(S) /\ Len(w) <= Len(seq)
    BY <1>1 DEF Thinned
  <1>3. Range(w) \subseteq Range(seq) \ ps
    BY <1>1, <1>2, SeqFacts DEF Thinned, Embeds
  <1> QED BY <1>2, <1>3 DEF w

-----------------------------------------------------------------------------
(* Counting, candidates and the critical sections.                         *)

\* Everything here can be counted.
LEMMA Counting ==
    /\ \A S \in SUBSET Units : Cardinality(S) \in Nat
    /\ \A S \in SUBSET Accounts : Cardinality(S) \in Nat
    /\ \A S \in SUBSET Pairs : Cardinality(S) \in Nat
  <1>1. IsFiniteSet(Units) /\ IsFiniteSet(Accounts)
    BY DispatchAssumption
  <1>2. IsFiniteSet(Pairs)
    BY <1>1, FS_Product DEF Pairs
  <1> QED BY <1>1, <1>2, FS_Subset, FS_CardinalityType

\* So can the members of a queue.
LEMMA QueuedForNat ==
    ASSUME NEW queue \in Seq(Pairs), NEW a
    PROVE  QueuedFor(a, queue) \in Nat
  <1>1. Len(queue) \in Nat /\ DOMAIN queue = 1 .. Len(queue)
    BY SeqFacts
  <1>2. IsFiniteSet(1 .. Len(queue))
    BY <1>1, FS_Interval
  <1>3. IsFiniteSet({i \in DOMAIN queue : queue[i][2] = a})
    BY <1>1, <1>2, FS_Subset
  <1> QED BY <1>3, FS_CardinalityType DEF QueuedFor

\* A function on 1 .. n is a sequence of n members.
LEMMA FunctionIsSeq ==
    ASSUME NEW S, NEW n \in Nat, NEW f \in [1 .. n -> S]
    PROVE  f \in Seq(S) /\ Len(f) = n
  <1>1. f \in Seq(S)
    BY SeqDef
  <1>2. 1 .. n = 1 .. Len(f) /\ Len(f) \in Nat
    BY <1>1, LenProperties
  <1> QED BY <1>1, <1>2

\* What is taken out of a list of candidates leaves one.
LEMMA CandidatesWithout ==
    ASSUME NEW seq, Candidates(seq), NEW cs
    PROVE  /\ Candidates(Without(seq, cs)) /\ Len(Without(seq, cs)) <= Len(seq)
           /\ Range(Without(seq, cs)) \subseteq Range(seq) \ cs
  <1> DEFINE w == Without(seq, cs)
  <1>1. seq \in Seq(CandidateRow)
    BY DEF Candidates
  <1>2. /\ Thinned(w, CandidateRow, seq, cs, Len(seq))
        /\ Range(w) \subseteq Range(seq) \ cs /\ w \in Seq(CandidateRow)
    BY <1>1, WithoutThins, WithoutTyped
  <1> HIDE DEF w
  <1>3. PICK e : Embeds(e, w, seq, cs, Len(seq))
    BY <1>2 DEF Thinned
  <1>4. Len(w) \in Nat
    BY <1>2, SeqFacts
  <1>5. ASSUME NEW i \in 1 .. Len(w), NEW j \in 1 .. Len(w), w[i].unit = w[j].unit
        PROVE  i = j
    <2>1. e[i] \in 1 .. Len(seq) /\ e[j] \in 1 .. Len(seq) /\ w[i] = seq[e[i]] /\ w[j] = seq[e[j]]
      BY <1>3 DEF Embeds
    <2>2. e[i] = e[j]
      BY <1>5, <2>1 DEF Candidates
    <2>3. ~(i < j) /\ ~(j < i)
      BY <1>1, <1>3, <2>1, <2>2, SeqFacts DEF Embeds
    <2> QED BY <1>4, <2>3
  <1>6. Len(w) <= Len(seq)
    BY <1>2 DEF Thinned
  <1> QED BY <1>2, <1>5, <1>6 DEF Candidates, w

\* A list of candidates rewritten member by member, unit for unit, is one.
LEMMA Relabelled ==
    ASSUME NEW seq, Candidates(seq), NEW new \in [1 .. Len(seq) -> CandidateRow],
           \A i \in 1 .. Len(seq) : new[i].unit = seq[i].unit
    PROVE  Candidates(new) /\ Len(new) = Len(seq)
  <1>1. Len(seq) \in Nat
    BY SeqFacts DEF Candidates
  <1>2. new \in Seq(CandidateRow) /\ Len(new) = Len(seq)
    BY <1>1, FunctionIsSeq
  <1> QED BY <1>2 DEF Candidates

\* The meters after some holds went.
LEMMA MeterDown ==
    ASSUME inflight \in Meter, holds \subseteq Pairs, NEW gone \in SUBSET holds
    PROVE  [a \in Accounts |-> Monus(inflight[a], Cardinality({p \in gone : p[2] = a}))] \in Meter
  <1>1. ASSUME NEW a \in Accounts
        PROVE  Monus(inflight[a], Cardinality({p \in gone : p[2] = a})) \in Nat
    <2>1. {p \in gone : p[2] = a} \in SUBSET Pairs
      OBVIOUS
    <2>2. Cardinality({p \in gone : p[2] = a}) \in Nat
      BY <2>1, Counting
    <2> QED BY <2>2 DEF Monus, Meter
  <1> QED BY <1>1 DEF Meter

\* Nothing is queued that was not.
NoNewWrites == Range(writes') \subseteq Range(writes) /\ Range(spots') \subseteq Range(spots)

LEMMA ReleaseTyped ==
    ASSUME holds \subseteq Pairs, inflight \in Meter, Queued, NEW ps, Release(ps)
    PROVE  holds' \subseteq holds /\ inflight' \in Meter /\ Queued' /\ NoNewWrites
  <1>1. holds' \subseteq holds
    BY DEF Release
  <1>2. inflight' \in Meter
    BY MeterDown DEF Release
  <1>3. Queued' /\ NoNewWrites
    BY WithoutTyped DEF Release, Queued, NoNewWrites
  <1> QED BY <1>1, <1>2, <1>3

LEMMA CloseCopyTyped ==
    ASSUME holds \subseteq Pairs, inflight \in Meter, Queued, Pool, NEW ps \in SUBSET Pairs, CloseCopy(ps)
    PROVE  /\ holds' \subseteq holds /\ inflight' \in Meter /\ Queued' /\ NoNewWrites
           /\ Candidates(ready') /\ Len(ready') <= ReadyPoolSize
  <1>1. holds' \subseteq holds /\ inflight' \in Meter /\ Queued' /\ NoNewWrites
    BY ReleaseTyped DEF CloseCopy
  <1>2. /\ Candidates(ready) /\ Len(ready) <= ReadyPoolSize /\ DOMAIN ready = 1 .. Len(ready)
        /\ \A i \in 1 .. Len(ready) : ready[i] \in CandidateRow
    BY SeqFacts DEF Pool, Candidates
  <1> DEFINE Out(i) == {p[2] : p \in {q \in ps : q[1] = ready[i].unit}}
             new == [i \in DOMAIN ready |-> [ready[i] EXCEPT !.benched = @ \cup Out(i)]]
  <1>3. ASSUME NEW i \in 1 .. Len(ready)
        PROVE  new[i] \in CandidateRow /\ new[i].unit = ready[i].unit
    <2>1. Out(i) \subseteq Accounts
      BY DEF Pairs
    <2> HIDE DEF Out
    <2>2. ready[i] \in CandidateRow /\ new[i] = [ready[i] EXCEPT !.benched = @ \cup Out(i)]
      BY <1>2
    <2> HIDE DEF new
    <2> QED BY <2>1, <2>2 DEF CandidateRow
  <1>4. ready' = new
    BY DEF CloseCopy
  <1>5. new \in [1 .. Len(ready) -> CandidateRow]
    <2>1. new = [i \in 1 .. Len(ready) |-> new[i]]
      BY <1>2
    <2> HIDE DEF new
    <2> QED BY <1>3, <2>1
  <1> HIDE DEF new
  <1>6. Candidates(new) /\ Len(new) = Len(ready)
    BY <1>2, <1>3, <1>5, Relabelled
  <1> QED BY <1>1, <1>2, <1>4, <1>6

LEMMA DropUnitTyped ==
    ASSUME Pool, NEW u
    PROVE  Candidates(DropUnit(u)) /\ Len(DropUnit(u)) <= ReadyPoolSize
  <1>1. Candidates(ready) /\ Len(ready) <= ReadyPoolSize /\ Len(ready) \in Nat
    BY SeqFacts DEF Pool, Candidates
  <1> DEFINE w == DropUnit(u)
  <1>2. Candidates(w) /\ Len(w) <= Len(ready)
    BY <1>1, CandidatesWithout DEF DropUnit
  <1> HIDE DEF w
  <1>3. Len(w) \in Nat
    BY <1>2, SeqFacts DEF Candidates
  <1>4. Len(w) <= ReadyPoolSize
    BY <1>1, <1>2, <1>3, DispatchAssumption
  <1> QED BY <1>2, <1>4 DEF w

LEMMA InvalidateTyped ==
    ASSUME holds \subseteq Pairs, inflight \in Meter, Queued, Pool, NEW u, Invalidate(u)
    PROVE  /\ holds' \subseteq holds /\ inflight' \in Meter /\ Queued' /\ NoNewWrites
           /\ Candidates(ready') /\ Len(ready') <= ReadyPoolSize
  BY ReleaseTyped, DropUnitTyped DEF Invalidate

LEMMA OnUnitDoneTyped ==
    ASSUME holds \subseteq Pairs, inflight \in Meter, Queued, Pool, NEW u, OnUnitDone(u)
    PROVE  /\ holds' \subseteq holds /\ inflight' \in Meter /\ Queued' /\ NoNewWrites
           /\ Candidates(ready') /\ Len(ready') <= ReadyPoolSize
  <1>1. holds' \subseteq holds /\ Queued' /\ NoNewWrites
    BY DEF OnUnitDone, Queued, NoNewWrites
  <1>2. inflight' \in Meter
    <2> DEFINE gone == Holders(holds, u)
    <2>1. gone \in SUBSET holds
      BY DEF Holders
    <2>2. inflight' = [a \in Accounts |-> Monus(inflight[a], Cardinality({p \in gone : p[2] = a}))]
      BY DEF OnUnitDone
    <2> HIDE DEF gone
    <2> QED BY <2>1, <2>2, MeterDown
  <1> QED BY <1>1, <1>2, DropUnitTyped DEF OnUnitDone

LEMMA OnRunStartTyped ==
    ASSUME holds \subseteq Pairs, inflight \in Meter, Queued, Pool, NEW p \in Pairs, OnRunStart(p)
    PROVE  /\ holds' \subseteq holds /\ inflight' \in Meter /\ Queued' /\ NoNewWrites
           /\ Candidates(ready') /\ Len(ready') <= ReadyPoolSize
  <1>1. holds' \subseteq holds /\ inflight' \in Meter /\ Queued' /\ NoNewWrites
    BY DEF OnRunStart, Queued, NoNewWrites
  <1>2. Candidates(ready) /\ Len(ready) <= ReadyPoolSize /\ Len(ready) \in Nat
    BY SeqFacts DEF Pool, Candidates
  <1> DEFINE Counted(c) == [c EXCEPT !.dbActiveCount = @ + 1, !.contributors = @ \cup {p[2]}]
             New(left) == [i \in DOMAIN left |->
                              IF left[i].unit = p[1] THEN Counted(left[i]) ELSE left[i]]
  <1>3. PICK cs : ready' = New(Without(ready, cs))
    BY DEF OnRunStart
  <1> DEFINE left == Without(ready, cs)
  <1>4. Candidates(left) /\ Len(left) <= Len(ready)
    BY <1>2, CandidatesWithout
  <1> DEFINE new == New(left)
  <1>5. ready' = new
    BY <1>3
  <1> HIDE DEF left
  <1>6. /\ DOMAIN left = 1 .. Len(left) /\ Len(left) \in Nat
        /\ \A i \in 1 .. Len(left) : left[i] \in CandidateRow
    BY <1>4, SeqFacts DEF Candidates
  <1>7. ASSUME NEW i \in 1 .. Len(left)
        PROVE  new[i] \in CandidateRow /\ new[i].unit = left[i].unit
    <2>1. left[i] \in CandidateRow /\ p[2] \in Accounts
      BY <1>6 DEF Pairs
    <2>2. Counted(left[i]) \in CandidateRow /\ Counted(left[i]).unit = left[i].unit
      <3> DEFINE c == left[i]
                 n == c.dbActiveCount + 1
                 who == c.contributors \cup {p[2]}
      <3>1. c \in CandidateRow /\ n \in Nat /\ who \subseteq Accounts
        BY <2>1 DEF CandidateRow
      <3>2. Counted(c) = [c EXCEPT !.dbActiveCount = n, !.contributors = who]
        OBVIOUS
      <3> HIDE DEF c, n, who, Counted
      <3>3. Counted(c) \in CandidateRow /\ Counted(c).unit = c.unit
        BY <3>1, <3>2 DEF CandidateRow
      <3> QED BY <3>3 DEF c
    <2> HIDE DEF Counted
    <2> QED BY <1>6, <2>1, <2>2
  <1>8. new \in [1 .. Len(left) -> CandidateRow]
    <2>1. new = [i \in 1 .. Len(left) |-> new[i]]
      BY <1>6
    <2> HIDE DEF new
    <2> QED BY <1>7, <2>1
  <1> HIDE DEF new
  <1>9. Candidates(new) /\ Len(new) = Len(left)
    BY <1>4, <1>7, <1>8, Relabelled
  <1>10. Len(new) <= ReadyPoolSize
    BY <1>2, <1>4, <1>6, <1>9, DispatchAssumption
  <1> QED BY <1>1, <1>5, <1>9, <1>10

\* The rows that appear are copies, and reports only shrink.
LEMMA LandTyped ==
    ASSUME Tables, NEW ps, Land(ps)
    PROVE  /\ copy' \in [Pairs -> {None, "reserved", "running", "cooling", "result"}]
           /\ report' \in [Accounts -> SUBSET Units]
  <1>1. copy' \in [Pairs -> {None, "reserved", "running", "cooling", "result"}]
    BY DEF Land, Tables
  <1>2. report' \in [Accounts -> SUBSET Units]
    BY DEF Land, Tables
  <1> QED BY <1>1, <1>2

-----------------------------------------------------------------------------
(* One lemma per group of actions: the types.                              *)

\* The hand-out from the pool.
LEMMA HandOutTyped ==
    ASSUME Types, NEW a \in Accounts, HandOut(a)
    PROVE  Types'
  <1>1. PICK i \in DOMAIN ready : HandOutFrom(a, i)
    BY DEF HandOut
  <1> DEFINE c == ready[i]
             p == <<c.unit, a>>
  <1>2. /\ Candidates(ready) /\ DOMAIN ready = 1 .. Len(ready) /\ Len(ready) \in Nat
        /\ Len(ready) <= ReadyPoolSize /\ i \in 1 .. Len(ready)
        /\ \A j \in 1 .. Len(ready) : ready[j] \in CandidateRow
    BY SeqFacts DEF Types, Pool, Candidates
  <1>3. c \in CandidateRow /\ c.unit \in Units /\ p \in Pairs
    BY <1>2 DEF CandidateRow, Pairs
  <1>4. Tables'
    <2>1. has' \subseteq has \cup {p} /\ UNCHANGED <<unit, copy, fallback, report>>
      BY <1>1 DEF HandOutFrom
    <2> HIDE DEF p
    <2> QED BY <1>3, <2>1 DEF Types, Tables
  <1>5. Meters'
    <2>1. holds' = holds \cup {p} /\ inflight' = [inflight EXCEPT ![a] = @ + 1] /\ UNCHANGED counts
      BY <1>1 DEF HandOutFrom
    <2> HIDE DEF p
    <2> QED BY <1>3, <2>1 DEF Types, Meters, Meter
  <1>6. Queued'
    <2>1. spots' \in {spots, Append(spots, p)} /\ writes' \in {writes, Append(writes, p)}
      BY <1>1 DEF HandOutFrom
    <2> HIDE DEF p
    <2>2. Append(spots, p) \in Seq(Pairs) /\ Append(writes, p) \in Seq(Pairs)
      BY <1>3, AppendProperties DEF Types, Queued
    <2> QED BY <2>1, <2>2 DEF Types, Queued
  <1>7. Pool'
    <2>1. PICK spot, red :
             /\ spot \in BOOLEAN /\ red \in Nat
             /\ \/ ready' = [ready EXCEPT ![i].spot = spot, ![i].effectiveRedundancy = red]
                \/ ready' = DropUnit(c.unit)
      <3>1. PICK sampled \in Samples(c) :
               LET spot == c.spot \/ sampled
                   red == IF sampled THEN 2 ELSE c.effectiveRedundancy
               IN  ready' = IF c.dbActiveCount + Cardinality(Holders(holds \cup {p}, c.unit)) < red
                            THEN [ready EXCEPT ![i].spot = spot, ![i].effectiveRedundancy = red]
                            ELSE DropUnit(c.unit)
        BY <1>1, Zenon DEF HandOutFrom
      <3> DEFINE spot == c.spot \/ sampled
                 red == IF sampled THEN 2 ELSE c.effectiveRedundancy
      <3>2. spot \in BOOLEAN /\ red \in Nat
        <4>1. sampled \in BOOLEAN
          BY DEF Samples
        <4> QED BY <1>3, <4>1 DEF CandidateRow
      <3>3. \/ ready' = [ready EXCEPT ![i].spot = spot, ![i].effectiveRedundancy = red]
            \/ ready' = DropUnit(c.unit)
        BY <3>1
      <3> HIDE DEF spot, red
      <3> QED BY <3>2, <3>3, Zenon
    <2>2. CASE ready' = DropUnit(c.unit)
      <3>1. UNCHANGED refill
        BY <1>1 DEF HandOutFrom
      <3> QED BY <2>2, <3>1, DropUnitTyped DEF Types, Pool
    <2>3. CASE ready' = [ready EXCEPT ![i].spot = spot, ![i].effectiveRedundancy = red]
      <3> DEFINE row == [c EXCEPT !.spot = spot, !.effectiveRedundancy = red]
      <3>1. row \in CandidateRow /\ row.unit = c.unit
        BY <1>3, <2>1 DEF CandidateRow
      <3>2. ready' = [ready EXCEPT ![i] = row]
        BY <2>3
      <3> HIDE DEF row
      <3> DEFINE new == [ready EXCEPT ![i] = row]
      <3>3. new \in [1 .. Len(ready) -> CandidateRow]
        BY <1>2, <3>1
      <3>4. \A j \in 1 .. Len(ready) : new[j].unit = ready[j].unit
        BY <1>2, <3>1
      <3>5. ready' = new
        BY <3>2
      <3> HIDE DEF new
      <3>6. Candidates(new) /\ Len(new) = Len(ready)
        BY <1>2, <3>3, <3>4, Relabelled
      <3>7. UNCHANGED refill
        BY <1>1 DEF HandOutFrom
      <3> QED BY <1>2, <3>5, <3>6, <3>7 DEF Types, Pool
    <2> QED BY <2>1, <2>2, <2>3
  <1>8. Calls' /\ InFlight'
    <2>1. /\ rpc' = [rpc EXCEPT ![a].found = @ /\ rpc[a].unit # c.unit]
          /\ notices' \subseteq notices \cup {[kind |-> "void", of |-> p]} /\ UNCHANGED flight
      BY <1>1 DEF HandOutFrom
    <2> HIDE DEF p
    <2> DEFINE b == rpc[a].found /\ rpc[a].unit # c.unit
    <2>2. rpc' = [rpc EXCEPT ![a].found = b] /\ b \in BOOLEAN
      BY <2>1 DEF Types, Calls, CallRow
    <2> HIDE DEF b
    <2>3. rpc' \in [Accounts -> CallRow]
      BY <2>2 DEF Types, Calls, CallRow
    <2>4. \A x \in Accounts : rpc'[x].op = rpc[x].op /\ rpc'[x].unit = rpc[x].unit
      BY <2>2 DEF Types, Calls, CallRow
    <2>5. notices' \subseteq Notice
      BY <1>3, <2>1 DEF Types, Calls, Notice
    <2> QED BY <2>1, <2>3, <2>4, <2>5 DEF Types, Calls, InFlight
  <1> QED BY <1>4, <1>5, <1>6, <1>7, <1>8 DEF Types

\* The hand-out outside the pool.
LEMMA FallbackTyped ==
    ASSUME Types, NEW a \in Accounts, FallbackLands(a) \/ FallbackHolds(a)
    PROVE  Types'
  <1>1. CASE FallbackLands(a)
    <2>1. PICK u \in Units : Land({<<u, a>>}) /\ fallback' = [fallback EXCEPT ![a] = {u}]
      BY <1>1 DEF FallbackLands
    <2>2. Tables'
      BY <1>1, <2>1, LandTyped DEF FallbackLands, Types, Tables
    <2> QED BY <1>1, <2>2 DEF FallbackLands, cache, Types, Meters, Queued, InFlight, Pool, Calls
  <1>2. CASE FallbackHolds(a)
    <2>1. {<<u, a>> : u \in fallback[a]} \subseteq Pairs
      BY DEF Types, Tables, Pairs
    <2> DEFINE ps == {<<u, a>> : u \in fallback[a]}
    <2>2. holds' = holds \cup ps /\ has' = has \cup ps /\ UNCHANGED counts
      BY <1>2 DEF FallbackHolds
    <2> HIDE DEF ps
    <2>3. holds' \subseteq Pairs /\ has' \subseteq Pairs
      BY <2>1, <2>2 DEF Types, Tables, Meters, ps
    <2>4. inflight' \in Meter
      BY <1>2 DEF FallbackHolds, Types, Meters, Meter
    <2>5. Tables' /\ Meters'
      BY <1>2, <2>2, <2>3, <2>4 DEF FallbackHolds, db, Types, Tables, Meters
    <2> QED BY <1>2, <2>5 DEF FallbackHolds, db, Types, Queued, InFlight, Pool, Calls
  <1> QED BY <1>1, <1>2

\* The candidate read for a unit.
LEMMA CandidateTyped ==
    ASSUME Types, NEW u \in Units
    PROVE  Candidate(u) \in CandidateRow /\ Candidate(u).unit = u
  <1> DEFINE r == EffectiveRedundancy(u)
             n == Cardinality(Covering(u))
             b == {a \in Accounts : copy[<<u, a>>] = "cooling"}
             s == unit[u].spot
  <1>1. r \in Nat /\ s \in BOOLEAN
    BY DispatchAssumption DEF EffectiveRedundancy, Types, Tables
  <1>2. Covering(u) \subseteq Accounts /\ n \in Nat /\ b \subseteq Accounts
    BY Counting DEF Covering
  <1>3. Candidate(u) = [ unit |-> u, effectiveRedundancy |-> r, spot |-> s, dbActiveCount |-> n,
                         contributors |-> Covering(u), benched |-> b ]
    BY DEF Candidate
  <1> HIDE DEF r, n, b, s
  <1> QED BY <1>1, <1>2, <1>3 DEF CandidateRow

\* The refiller's query.
LEMMA FetchTyped ==
    ASSUME Types, NEW among \in SUBSET Units, NEW want \in Nat, NEW wanted, Fetch(among, want, wanted)
    PROVE  Types' /\ UNCHANGED <<writes, spots, flight, rpc>>
  <1> DEFINE found == {u \in among : Dispatchable(u, Staged \cup {p[1] : p \in holds})}
             n == Least(Cardinality(found), want)
  <1>1. PICK row \in [1 .. n -> found] :
           /\ \A i, j \in DOMAIN row : i < j => row[i] < row[j]
           /\ refill' = [wanted |-> wanted, found |-> [i \in DOMAIN row |-> Candidate(row[i])]]
    BY DEF Fetch
  <1>2. found \subseteq Units /\ n \in Nat
    <2>1. found \subseteq Units
      OBVIOUS
    <2>2. Cardinality(found) \in Nat
      BY <2>1, Counting
    <2> HIDE DEF found
    <2> QED BY <2>1, <2>2 DEF Least
  <1> HIDE DEF found, n
  <1> DEFINE new == [i \in 1 .. n |-> Candidate(row[i])]
  <1>3. refill'.found = new
    BY <1>1
  <1>4. \A i \in 1 .. n : row[i] \in Units
    BY <1>1, <1>2
  <1>5. ASSUME NEW i \in 1 .. n PROVE new[i] \in CandidateRow /\ new[i].unit = row[i]
    BY <1>4, CandidateTyped
  <1>6. new \in [1 .. n -> CandidateRow]
    BY <1>5
  <1> HIDE DEF new
  <1>7. new \in Seq(CandidateRow) /\ Len(new) = n
    BY <1>2, <1>6, FunctionIsSeq
  <1>8. ASSUME NEW i \in 1 .. n, NEW j \in 1 .. n, new[i].unit = new[j].unit PROVE i = j
    <2>1. row[i] = row[j] /\ row[i] \in Nat
      BY <1>4, <1>5, <1>8, DispatchAssumption
    <2>2. ~(i < j) /\ ~(j < i)
      BY <1>1, <2>1
    <2> QED BY <1>2, <2>2
  <1>9. Pool'
    BY <1>3, <1>7, <1>8 DEF Fetch, cache, Types, Pool, Candidates
  <1> QED BY <1>9 DEF Fetch, db, cache, Types, Tables, Meters, Queued, InFlight, Calls

\* The refiller.
LEMMA RefillTyped ==
    ASSUME Types, Refill \/ LeafDemand
    PROVE  Types' /\ UNCHANGED <<writes, spots, flight, rpc>>
  <1>1. CASE RefillQueries
    <2>1. /\ Len(ready) \in Nat /\ Len(ready) <= ReadyPoolSize /\ ReadyPoolSize \in Nat
          /\ RefillBatchSize \in Nat
      BY SeqFacts, DispatchAssumption DEF Types, Pool, Candidates
    <2>2. Least(RefillBatchSize, ReadyPoolSize - Len(ready)) \in Nat
      BY <2>1 DEF Least
    <2>3. Fetch(Units, Least(RefillBatchSize, ReadyPoolSize - Len(ready)), {})
      BY <1>1 DEF RefillQueries
    <2> QED BY <2>2, <2>3, FetchTyped
  <1>2. CASE LeafDemand
    <2>1. PICK wanted \in SUBSET Units : Fetch(wanted, RefillBatchSize, wanted)
      BY <1>2 DEF LeafDemand, LeafRefillQueries
    <2> QED BY <2>1, FetchTyped, DispatchAssumption
  <1>3. CASE RefillStages
    <2> DEFINE new == Without(refill.found, {c \in Range(refill.found) : ~Stageable(c)})
               gone == IF refill.wanted = {} THEN {} ELSE Evicted(Len(new))
               kept == Without(ready, gone)
               k == Least(Len(new), Monus(ReadyPoolSize, Len(kept)))
               more == SubSeq(new, 1, k)
    <2>1. /\ ready' = kept \o more /\ refill' = NoRefill
          /\ UNCHANGED <<db, holds, inflight, writes, spots, flight, counts, fallback, report, rpc, has, notices>>
      BY <1>3 DEF RefillStages
    <2>2. Candidates(new) /\ \A i \in 1 .. Len(new) : new[i].unit \notin Staged
      <3>1. /\ Candidates(new)
            /\ Range(new) \subseteq Range(refill.found) \ {c \in Range(refill.found) : ~Stageable(c)}
        BY CandidatesWithout DEF Types, Pool
      <3> HIDE DEF new
      <3>2. \A i \in 1 .. Len(new) : Stageable(new[i])
        BY <3>1, SeqFacts DEF Candidates
      <3> QED BY <3>1, <3>2 DEF Stageable
    <2> HIDE DEF new, gone
    <2>11. Candidates(kept) /\ Len(kept) <= Len(ready) /\ Range(kept) \subseteq Range(ready)
      <3>1. Candidates(ready)
        BY DEF Types, Pool
      <3> QED BY <3>1, CandidatesWithout
    <2> HIDE DEF kept
    <2>3. /\ Len(kept) \in Nat /\ Len(kept) <= ReadyPoolSize /\ ReadyPoolSize \in Nat
          /\ kept \in Seq(CandidateRow) /\ new \in Seq(CandidateRow) /\ Len(new) \in Nat
          /\ \A i \in 1 .. Len(new) : new[i] \in CandidateRow
      <3>1. Len(ready) \in Nat /\ Len(ready) <= ReadyPoolSize /\ ReadyPoolSize \in Nat
        BY SeqFacts, DispatchAssumption DEF Types, Pool, Candidates
      <3> QED BY <2>2, <2>11, <3>1, SeqFacts DEF Candidates
    <2>12. \A x \in 1 .. Len(kept) : kept[x].unit \in Staged
      <3>1. \A x \in 1 .. Len(kept) : kept[x] \in Range(ready)
        BY <2>3, <2>11, SeqFacts
      <3>2. \A c \in Range(ready) : \E i \in DOMAIN ready : c = ready[i]
        BY DEF Range
      <3> QED BY <3>1, <3>2 DEF Staged
    <2>4. k \in 0 .. Len(new) /\ Len(kept) + k <= ReadyPoolSize
      BY <2>3 DEF Least, Monus
    <2> HIDE DEF k
    <2>5. /\ more \in Seq(CandidateRow) /\ Len(more) = k
          /\ \A i \in 1 .. k : more[i] = new[i]
      <3>1. \A i \in 1 .. k : new[i] \in CandidateRow /\ 1 + i - 1 = i
        BY <2>3, <2>4
      <3>2. k \in Int /\ 1 \in Int /\ k - 1 + 1 = k /\ k >= 0
        BY <2>3, <2>4
      <3>3. /\ more \in Seq(CandidateRow) /\ Len(more) = IF 1 <= k THEN k - 1 + 1 ELSE 0
            /\ \A i \in 1 .. k - 1 + 1 : more[i] = new[1 + i - 1]
        BY <3>1, <3>2, SubSeqProperties
      <3> HIDE DEF more
      <3> QED BY <3>1, <3>2, <3>3
    <2> HIDE DEF more
    <2> DEFINE all == kept \o more
    <2>6. /\ all \in Seq(CandidateRow) /\ Len(all) = Len(kept) + k
          /\ \A i \in 1 .. Len(kept) + k :
                all[i] = IF i <= Len(kept) THEN kept[i] ELSE more[i - Len(kept)]
      BY <2>3, <2>5, ConcatProperties
    <2> HIDE DEF all
    <2>7. ASSUME NEW i \in 1 .. Len(all), NEW j \in 1 .. Len(all), all[i].unit = all[j].unit
          PROVE  i = j
      <3>1. \A x \in 1 .. Len(all) :
              \/ x \in 1 .. Len(kept) /\ all[x] = kept[x]
              \/ x - Len(kept) \in 1 .. k /\ all[x] = new[x - Len(kept)]
        BY <2>3, <2>4, <2>5, <2>6
      <3>2. \A x \in 1 .. Len(kept) : kept[x].unit \in Staged
        BY <2>12
      <3>3. \A x \in 1 .. k : x \in 1 .. Len(new)
        BY <2>3, <2>4
      <3>4. CASE i \in 1 .. Len(kept) /\ j \in 1 .. Len(kept) /\ all[i] = kept[i] /\ all[j] = kept[j]
        BY <2>7, <2>11, <3>4 DEF Candidates
      <3>5. CASE /\ i - Len(kept) \in 1 .. k /\ all[i] = new[i - Len(kept)]
                 /\ j - Len(kept) \in 1 .. k /\ all[j] = new[j - Len(kept)]
        <4>1. i - Len(kept) = j - Len(kept)
          BY <2>2, <2>7, <3>3, <3>5 DEF Candidates
        <4> QED BY <2>3, <2>6, <4>1
      <3> QED BY <2>2, <2>7, <3>1, <3>2, <3>3, <3>4, <3>5
    <2>8. Candidates(all) /\ Len(all) <= ReadyPoolSize
      BY <2>4, <2>6, <2>7 DEF Candidates
    <2>9. Candidates(<<>>)
      BY EmptySeq DEF Candidates
    <2>10. Pool'
      BY <2>1, <2>8, <2>9 DEF Pool, all, NoRefill
    <2> QED BY <2>1, <2>10 DEF db, Types, Tables, Meters, Queued, InFlight, Calls
  <1> QED BY <1>1, <1>2, <1>3 DEF Refill

-----------------------------------------------------------------------------
(* The flusher: the types, and the queues gain nothing.                    *)

\* The writes accepted and not settled.
Outstanding == Range(writes) \cup Range(spots) \cup UNION {Range(flight[w].batch) : w \in Writers}
NothingNew == Outstanding' \subseteq Outstanding

LEMMA OutstandingIs ==
    ASSUME InFlight, NEW p
    PROVE  Unsettled(p) <=> p \in Outstanding
  <1>1. DOMAIN flight = Writers
    BY DEF InFlight
  <1>2. \A w \in Writers : p \in InBatch(w) <=> p \in Range(flight[w].batch)
    BY DEF InBatch, Range
  <1>3. (\E i \in DOMAIN writes : writes[i] = p) <=> p \in Range(writes)
    BY DEF Range
  <1>4. (\E i \in DOMAIN spots : spots[i] = p) <=> p \in Range(spots)
    BY DEF Range
  <1>5. (\E w \in DOMAIN flight : p \in InBatch(w)) <=> p \in UNION {Range(flight[w].batch) : w \in Writers}
    BY <1>1, <1>2
  <1> QED BY <1>3, <1>4, <1>5 DEF Unsettled, Outstanding

\* The same of the next state.
LEMMA OutstandingNext ==
    ASSUME InFlight', NEW p
    PROVE  Unsettled(p)' <=> p \in Outstanding'
  <1>1. DOMAIN flight' = Writers
    BY DEF InFlight
  <1>2. \A w \in Writers : p \in InBatch(w)' <=> p \in Range(flight'[w].batch)
    BY DEF InBatch, Range
  <1>3. (\E i \in DOMAIN writes' : writes'[i] = p) <=> p \in Range(writes')
    BY DEF Range
  <1>4. (\E i \in DOMAIN spots' : spots'[i] = p) <=> p \in Range(spots')
    BY DEF Range
  <1>5. (\E w \in DOMAIN flight' : p \in InBatch(w)') <=> p \in UNION {Range(flight'[w].batch) : w \in Writers}
    BY <1>1, <1>2
  <1> QED BY <1>3, <1>4, <1>5 DEF Unsettled, Outstanding

\* One goroutine's flight changes.
LEMMA OneFlight ==
    ASSUME InFlight, NEW w \in Writers, NEW r \in FlightRow, r.step = "idle" <=> r.batch = <<>>,
           flight' = [flight EXCEPT ![w] = r]
    PROVE  /\ InFlight'
           /\ (/\ Range(r.batch) \subseteq Outstanding
               /\ Range(writes') \subseteq Outstanding /\ Range(spots') \subseteq Outstanding) => NothingNew
  <1>1. flight' \in [Writers -> FlightRow] /\ flight'[w] = r
    BY DEF InFlight
  <1>2. \A x \in Writers : x # w => flight'[x] = flight[x]
    BY DEF InFlight
  <1>3. InFlight'
    BY <1>1, <1>2 DEF InFlight
  <1>4. ASSUME Range(r.batch) \subseteq Outstanding,
               Range(writes') \subseteq Outstanding, Range(spots') \subseteq Outstanding
        PROVE  NothingNew
    <2>1. ASSUME NEW x \in Writers PROVE Range(flight'[x].batch) \subseteq Outstanding
      <3>1. CASE x = w
        BY <1>1, <1>4, <3>1
      <3>2. CASE x # w
        BY <1>2, <3>2 DEF Outstanding
      <3> QED BY <3>1, <3>2
    <2> QED BY <1>4, <2>1 DEF NothingNew, Outstanding
  <1> QED BY <1>3, <1>4

\* A batch in flight, its first write and the rest.
LEMMA BatchFacts ==
    ASSUME Types, NEW w \in Writers
    PROVE  /\ flight[w] \in FlightRow /\ flight[w].batch \in Seq(Pairs)
           /\ Range(flight[w].batch) \subseteq Outstanding
           /\ flight[w].batch # <<>> => /\ Head(flight[w].batch) \in Pairs
                                        /\ Head(flight[w].batch) \in Outstanding
                                        /\ Tail(flight[w].batch) \in Seq(Pairs)
                                        /\ Range(Tail(flight[w].batch)) \subseteq Outstanding
  <1> DEFINE b == flight[w].batch
  <1>1. flight[w] \in FlightRow
    BY DEF Types, InFlight
  <1>2. b \in Seq(Pairs) /\ Range(b) \subseteq Outstanding
    BY <1>1 DEF FlightRow, Outstanding
  <1> HIDE DEF b
  <1>3. ASSUME b # <<>>
        PROVE  /\ Head(b) \in Pairs /\ Head(b) \in Range(b)
               /\ Tail(b) \in Seq(Pairs) /\ Range(Tail(b)) \subseteq Range(b)
    <2>1. /\ Head(b) \in Pairs /\ Tail(b) \in Seq(Pairs) /\ Len(Tail(b)) = Len(b) - 1
          /\ \A i \in 1 .. Len(Tail(b)) : Tail(b)[i] = b[i + 1]
      BY <1>2, <1>3, HeadTailProperties
    <2>2. Len(b) \in Nat /\ Len(b) # 0 /\ Head(b) = b[1]
      BY <1>2, <1>3, SeqFacts
    <2>3. Head(b) \in Range(b)
      <3>1. 1 \in 1 .. Len(b)
        BY <2>2
      <3> QED BY <1>2, <2>2, <3>1, SeqFacts
    <2>4. Range(Tail(b)) \subseteq Range(b)
      <3>1. \A i \in 1 .. Len(Tail(b)) : i + 1 \in 1 .. Len(b)
        BY <2>1, <2>2
      <3> DEFINE t == Tail(b)
      <3>2. t \in Seq(Pairs) /\ \A i \in 1 .. Len(t) : t[i] \in Range(b)
        <4>1. \A i \in 1 .. Len(b) : b[i] \in Range(b)
          BY <1>2, SeqFacts
        <4> QED BY <2>1, <3>1, <4>1
      <3> HIDE DEF t
      <3>3. Range(t) \subseteq Range(b)
        BY <3>2, SeqFacts
      <3> QED BY <3>3 DEF t
    <2> QED BY <2>1, <2>3, <2>4
  <1> QED BY <1>1, <1>2, <1>3 DEF b

\* A goroutine at a step, or done.
LEMMA AtTyped ==
    ASSUME NEW step \in {"void", "mark"}, NEW batch \in Seq(Pairs)
    PROVE  /\ At(step, batch) \in FlightRow /\ At(step, batch).batch = batch
           /\ At(step, batch).step = "idle" <=> At(step, batch).batch = <<>>
  BY DEF At, FlightRow

\* The front of a queue becomes a batch, the rest stays.
LEMMA Splits ==
    ASSUME NEW seq \in Seq(Pairs), seq # <<>>
    PROVE  LET n == Least(Len(seq), FlushBatchSize)
               b == SubSeq(seq, 1, n)
               r == SubSeq(seq, n + 1, Len(seq))
           IN  /\ b \in Seq(Pairs) /\ b # <<>> /\ r \in Seq(Pairs)
               /\ Range(b) \subseteq Range(seq) /\ Range(r) \subseteq Range(seq)
  <1> DEFINE n == Least(Len(seq), FlushBatchSize)
             b == SubSeq(seq, 1, n)
             r == SubSeq(seq, n + 1, Len(seq))
  <1>1. Len(seq) \in Nat /\ Len(seq) # 0
    BY SeqFacts
  <1>2. n \in 1 .. Len(seq)
    BY <1>1, DispatchAssumption DEF Least
  <1> HIDE DEF n
  <1>3. b \in Seq(Pairs) /\ b # <<>> /\ Range(b) \subseteq Range(seq)
    <2>1. \A i \in 1 .. n : i \in 1 .. Len(seq) /\ seq[i] \in Pairs /\ 1 + i - 1 = i
      BY <1>1, <1>2, SeqFacts
    <2>2. n \in Int /\ 1 \in Int /\ n - 1 + 1 = n /\ 1 <= n
      BY <1>1, <1>2
    <2>3. /\ b \in Seq(Pairs) /\ Len(b) = n
          /\ \A i \in 1 .. n : b[i] = seq[i]
      <3>1. /\ b \in Seq(Pairs) /\ Len(b) = IF 1 <= n THEN n - 1 + 1 ELSE 0
            /\ \A i \in 1 .. n - 1 + 1 : b[i] = seq[1 + i - 1]
        BY <2>1, <2>2, SubSeqProperties
      <3> HIDE DEF b
      <3> QED BY <2>1, <2>2, <3>1
    <2> HIDE DEF b
    <2> QED BY <2>1, <2>2, <2>3, SeqFacts
  <1>4. r \in Seq(Pairs) /\ Range(r) \subseteq Range(seq)
    <2>1. \A i \in n + 1 .. Len(seq) : i \in 1 .. Len(seq) /\ seq[i] \in Pairs
      BY <1>1, <1>2, SeqFacts
    <2>2. n + 1 \in Int /\ Len(seq) \in Int
      BY <1>1, <1>2
    <2>3. /\ r \in Seq(Pairs) /\ Len(r) = IF n + 1 <= Len(seq) THEN Len(seq) - (n + 1) + 1 ELSE 0
          /\ \A i \in 1 .. Len(seq) - (n + 1) + 1 : r[i] = seq[(n + 1) + i - 1]
      BY <2>1, <2>2, SubSeqProperties
    <2> HIDE DEF r
    <2>4. ASSUME NEW i \in 1 .. Len(r) PROVE r[i] \in Range(seq)
      <3>1. i \in 1 .. Len(seq) - (n + 1) + 1 /\ (n + 1) + i - 1 \in 1 .. Len(seq)
        BY <1>1, <1>2, <2>3
      <3> QED BY <2>3, <3>1, SeqFacts
    <2> QED BY <2>3, <2>4, SeqFacts
  <1> QED BY <1>3, <1>4 DEF n

\* flushBatch.
LEMMA FlushTakesTyped ==
    ASSUME Types, NEW w \in Writers, FlushTakes(w) \/ SpotTakes(w)
    PROVE  Types' /\ NothingNew
  <1>1. CASE FlushTakes(w)
    <2> DEFINE n == Least(Len(writes), FlushBatchSize)
               b == SubSeq(writes, 1, n)
               rest == SubSeq(writes, n + 1, Len(writes))
               r == [step |-> "write", batch |-> b]
    <2>1. /\ flight' = [flight EXCEPT ![w] = r] /\ writes' = rest /\ writes # <<>>
          /\ UNCHANGED <<db, ready, holds, inflight, spots, refill, counts, fallback, report, rpc, has, notices>>
      BY <1>1 DEF FlushTakes
    <2>2. /\ b \in Seq(Pairs) /\ b # <<>> /\ rest \in Seq(Pairs)
          /\ Range(b) \subseteq Range(writes) /\ Range(rest) \subseteq Range(writes)
      BY <2>1, Splits DEF Types, Queued
    <2> HIDE DEF b, rest
    <2>3. r \in FlightRow /\ r.step # "idle" /\ r.batch = b
      BY <2>2 DEF FlightRow
    <2> HIDE DEF r
    <2>4. Range(b) \cup Range(rest) \cup Range(spots) \subseteq Outstanding
      BY <2>2 DEF Outstanding
    <2>5. InFlight' /\ NothingNew
      <3>1. Range(writes') \subseteq Outstanding /\ Range(spots') \subseteq Outstanding
        BY <2>1, <2>4
      <3> QED BY <2>1, <2>2, <2>3, <2>4, <3>1, OneFlight DEF Types
    <2> QED BY <2>1, <2>2, <2>5 DEF db, Types, Tables, Meters, Queued, Pool, Calls
  <1>2. CASE SpotTakes(w)
    <2> DEFINE n == Least(Len(spots), FlushBatchSize)
               b == SubSeq(spots, 1, n)
               rest == SubSeq(spots, n + 1, Len(spots))
               r == [step |-> "mark", batch |-> b]
    <2>1. /\ flight' = [flight EXCEPT ![w] = r] /\ spots' = rest /\ spots # <<>>
          /\ UNCHANGED <<db, ready, holds, inflight, writes, refill, counts, fallback, report, rpc, has, notices>>
      BY <1>2 DEF SpotTakes
    <2>2. /\ b \in Seq(Pairs) /\ b # <<>> /\ rest \in Seq(Pairs)
          /\ Range(b) \subseteq Range(spots) /\ Range(rest) \subseteq Range(spots)
      BY <2>1, Splits DEF Types, Queued
    <2> HIDE DEF b, rest
    <2>3. r \in FlightRow /\ r.step # "idle" /\ r.batch = b
      BY <2>2 DEF FlightRow
    <2> HIDE DEF r
    <2>4. Range(b) \cup Range(rest) \cup Range(writes) \subseteq Outstanding
      BY <2>2 DEF Outstanding
    <2>5. InFlight' /\ NothingNew
      <3>1. Range(writes') \subseteq Outstanding /\ Range(spots') \subseteq Outstanding
        BY <2>1, <2>4
      <3> QED BY <2>1, <2>2, <2>3, <2>4, <3>1, OneFlight DEF Types
    <2> QED BY <2>1, <2>2, <2>5 DEF db, Types, Tables, Meters, Queued, Pool, Calls
  <1> QED BY <1>1, <1>2

\* FlushReservations, done or failed.
LEMMA FlushLandsTyped ==
    ASSUME Types, NEW w \in Writers, FlushLands(w) \/ FlushFails(w)
    PROVE  Types' /\ NothingNew
  <1>1. CASE FlushLands(w)
    <2>1. PICK ok : Land(ok) /\ flight' = [flight EXCEPT ![w] = At("void", Without(flight[w].batch, ok))]
      BY <1>1 DEF FlushLands, Types, InFlight
    <2> DEFINE b == Without(flight[w].batch, ok)
               r == At("void", b)
    <2>2. b \in Seq(Pairs) /\ Range(b) \subseteq Outstanding
      BY BatchFacts, WithoutTyped
    <2> HIDE DEF b
    <2>3. r \in FlightRow /\ r.batch = b /\ (r.step = "idle" <=> r.batch = <<>>)
      BY <2>2, AtTyped
    <2>4. flight' = [flight EXCEPT ![w] = r]
      BY <2>1 DEF b
    <2> HIDE DEF r
    <2>5. UNCHANGED <<unit, cache, refill, counts, fallback, rpc, has, notices>>
      BY <1>1 DEF FlushLands
    <2>6. InFlight' /\ NothingNew
      <3>1. Range(writes') \subseteq Outstanding /\ Range(spots') \subseteq Outstanding
        BY <2>5 DEF cache, Outstanding
      <3> QED BY <2>2, <2>3, <2>4, <3>1, OneFlight DEF Types
    <2>7. Tables'
      BY <2>1, <2>5, LandTyped DEF Types, Tables
    <2> QED BY <2>5, <2>6, <2>7 DEF cache, Types, Meters, Queued, Pool, Calls
  <1>2. CASE FlushFails(w)
    <2> DEFINE r == [step |-> "idle", batch |-> <<>>]
               all == flight[w].batch \o writes
    <2>1. /\ flight' = [flight EXCEPT ![w] = r] /\ writes' = all
          /\ UNCHANGED <<unit, ready, holds, inflight, spots, refill, counts, fallback, rpc, has, notices>>
      BY <1>2 DEF FlushFails
    <2>2. r \in FlightRow /\ r.step = "idle" /\ r.batch = <<>> /\ Range(r.batch) = {}
      <3>1. <<>> \in Seq(Pairs) /\ Range(<<>>) = {}
        <4>1. <<>> \in Seq(Pairs) /\ Len(<<>>) = 0
          BY EmptySeq
        <4>2. \A x : x \in Range(<<>>) <=> \E i \in 1 .. Len(<<>>) : <<>>[i] = x
          BY <4>1, SeqFacts
        <4>3. \A x : x \notin Range(<<>>)
          BY <4>1, <4>2
        <4> QED BY <4>1, <4>3
      <3> QED BY <3>1 DEF FlightRow
    <2> HIDE DEF r
    <2>3. all \in Seq(Pairs) /\ Range(all) \subseteq Outstanding
      <3> DEFINE b == flight[w].batch
      <3>1. /\ b \in Seq(Pairs) /\ writes \in Seq(Pairs)
            /\ Range(b) \subseteq Outstanding /\ Range(writes) \subseteq Outstanding
        BY BatchFacts DEF Types, Queued, Outstanding
      <3> HIDE DEF b
      <3>2. /\ b \o writes \in Seq(Pairs) /\ Len(b \o writes) = Len(b) + Len(writes)
            /\ \A i \in 1 .. Len(b) + Len(writes) :
                  (b \o writes)[i] = IF i <= Len(b) THEN b[i] ELSE writes[i - Len(b)]
        BY <3>1, ConcatProperties
      <3>3. Len(b) \in Nat /\ Len(writes) \in Nat
        BY <3>1, SeqFacts
      <3>4. ASSUME NEW i \in 1 .. Len(b) + Len(writes) PROVE (b \o writes)[i] \in Outstanding
        <4>1. CASE i <= Len(b)
          <5>1. i \in 1 .. Len(b) /\ (b \o writes)[i] = b[i]
            BY <3>2, <3>3, <4>1
          <5> QED BY <3>1, <5>1, SeqFacts
        <4>2. CASE ~(i <= Len(b))
          <5>1. i - Len(b) \in 1 .. Len(writes) /\ (b \o writes)[i] = writes[i - Len(b)]
            BY <3>2, <3>3, <4>2
          <5> QED BY <3>1, <5>1, SeqFacts
        <4> QED BY <4>1, <4>2
      <3>5. Range(b \o writes) \subseteq Outstanding
        <4> DEFINE s == b \o writes
        <4>1. s \in Seq(Pairs) /\ \A i \in 1 .. Len(s) : s[i] \in Outstanding
          BY <3>2, <3>4
        <4> HIDE DEF s
        <4>2. Range(s) \subseteq Outstanding
          BY <4>1, SeqFacts
        <4> QED BY <4>2 DEF s
      <3> QED BY <3>2, <3>5 DEF b
    <2> HIDE DEF all
    <2>4. InFlight' /\ NothingNew
      <3>1. Range(writes') \subseteq Outstanding /\ Range(spots') \subseteq Outstanding
        BY <2>1, <2>3 DEF Outstanding
      <3> QED BY <2>1, <2>2, <3>1, OneFlight DEF Types
    <2>5. PICK ok : Land(ok)
      BY <1>2 DEF FlushFails
    <2>6. Tables'
      BY <2>1, <2>5, LandTyped DEF Types, Tables
    <2> QED BY <2>1, <2>3, <2>4, <2>6 DEF Types, Meters, Queued, Pool, Calls
  <1> QED BY <1>1, <1>2

\* A batch goes on without its first write.
LEMMA TailTyped ==
    ASSUME Types, NEW w \in Writers, flight[w].batch # <<>>, NEW step \in {"void", "mark"},
           flight' = [flight EXCEPT ![w] = At(step, Tail(@.batch))]
    PROVE  /\ InFlight'
           /\ Range(writes') \subseteq Outstanding /\ Range(spots') \subseteq Outstanding => NothingNew
  <1> DEFINE b == Tail(flight[w].batch)
             r == At(step, b)
  <1>1. b \in Seq(Pairs) /\ Range(b) \subseteq Outstanding
    BY BatchFacts
  <1>2. flight' = [flight EXCEPT ![w] = r]
    BY DEF Types, InFlight
  <1> HIDE DEF b
  <1>3. r \in FlightRow /\ r.batch = b /\ (r.step = "idle" <=> r.batch = <<>>)
    BY <1>1, AtTyped
  <1> HIDE DEF r
  <1> QED BY <1>1, <1>2, <1>3, OneFlight DEF Types

\* The conflicts of a batch, and the spot checks one by one.
LEMMA FlushVoidsTyped ==
    ASSUME Types, NEW w \in Writers, FlushVoids(w)
    PROVE  Types' /\ NothingNew
  <1> DEFINE p == Head(flight[w].batch)
  <1>1. p \in Pairs
    BY BatchFacts DEF FlushVoids
  <1> HIDE DEF p
  <1>2. CloseCopy({p}) \/ Invalidate(p[1])
    BY DEF FlushVoids, p
  <1>3. /\ holds' \subseteq holds /\ inflight' \in Meter /\ Queued' /\ NoNewWrites
        /\ Candidates(ready') /\ Len(ready') <= ReadyPoolSize
    <2>1. {p} \in SUBSET Pairs /\ holds \subseteq Pairs /\ inflight \in Meter
      BY <1>1 DEF Types, Meters
    <2> QED BY <1>2, <2>1, CloseCopyTyped, InvalidateTyped DEF Types
  <1>4. /\ flight[w].batch # <<>> /\ flight' = [flight EXCEPT ![w] = At("void", Tail(@.batch))]
        /\ UNCHANGED <<db, refill, counts, fallback, report, rpc, has, notices>>
    BY DEF FlushVoids
  <1>5. InFlight' /\ NothingNew
    <2>1. Range(writes') \subseteq Outstanding /\ Range(spots') \subseteq Outstanding
      BY <1>3 DEF NoNewWrites, Outstanding
    <2> QED BY <1>4, <2>1, TailTyped
  <1> QED BY <1>3, <1>4, <1>5 DEF db, Types, Tables, Meters, Pool, Calls

\* The spot checks of a batch, one by one.
LEMMA SpotTyped ==
    ASSUME Types, NEW w \in Writers, SpotMarks(w) \/ SpotReserves(w) \/ SpotFails(w)
    PROVE  Types' /\ NothingNew
  <1> DEFINE p == Head(flight[w].batch)
  <1>0. flight[w].batch # <<>>
    BY DEF SpotMarks, SpotReserves, SpotFails, Types, InFlight
  <1>1. p \in Pairs /\ p[1] \in Units
    BY <1>0, BatchFacts DEF Pairs
  <1> HIDE DEF p
  <1>2. CASE SpotMarks(w)
    <2>1. /\ unit' = [unit EXCEPT ![p[1]].spot = TRUE]
          /\ flight' = [flight EXCEPT ![w].step = "reserve"]
          /\ UNCHANGED <<copy, cache, refill, counts, fallback, report, rpc, has, notices>>
      BY <1>2 DEF SpotMarks, p
    <2>2. Tables'
      BY <1>1, <2>1 DEF Types, Tables
    <2> DEFINE r == [flight[w] EXCEPT !.step = "reserve"]
    <2>3. r \in FlightRow /\ r.batch = flight[w].batch /\ r.step # "idle"
      BY BatchFacts DEF FlightRow
    <2>4. flight' = [flight EXCEPT ![w] = r]
      BY <2>1
    <2> HIDE DEF r
    <2>5. /\ Range(r.batch) \subseteq Outstanding
          /\ Range(writes') \subseteq Outstanding /\ Range(spots') \subseteq Outstanding
      BY <2>1, <2>3, BatchFacts DEF cache, Outstanding
    <2>6. InFlight' /\ NothingNew
      BY <1>0, <2>3, <2>4, <2>5, OneFlight DEF Types
    <2> QED BY <2>1, <2>2, <2>6 DEF cache, Types, Meters, Queued, Pool, Calls
  <1>3. CASE SpotReserves(w)
    <2>1. /\ \/ Land({p}) /\ UNCHANGED cache
             \/ Release({p}) /\ UNCHANGED <<copy, report, ready>>
          /\ flight' = [flight EXCEPT ![w] = At("mark", Tail(@.batch))]
          /\ UNCHANGED <<unit, refill, counts, fallback, rpc, has, notices>>
      BY <1>3 DEF SpotReserves, p
    <2>2. Tables'
      BY <2>1, LandTyped DEF Types, Tables
    <2>3. holds' \subseteq Pairs /\ inflight' \in Meter /\ Queued' /\ NoNewWrites /\ UNCHANGED ready
      <3>1. CASE UNCHANGED cache
        BY <3>1 DEF cache, Types, Meters, Queued, NoNewWrites
      <3>2. CASE Release({p}) /\ UNCHANGED ready
        BY <3>2, ReleaseTyped DEF Types, Meters
      <3> QED BY <2>1, <3>1, <3>2
    <2>4. InFlight' /\ NothingNew
      <3>1. Range(writes') \subseteq Outstanding /\ Range(spots') \subseteq Outstanding
        BY <2>3 DEF NoNewWrites, Outstanding
      <3> QED BY <1>0, <2>1, <3>1, TailTyped
    <2> QED BY <2>1, <2>2, <2>3, <2>4 DEF Types, Meters, Pool, Calls
  <1>4. CASE SpotFails(w)
    <2>1. PICK ok : Land(ok)
      BY <1>4 DEF SpotFails
    <2>2. /\ Release({p}) /\ flight' = [flight EXCEPT ![w] = At("mark", Tail(@.batch))]
          /\ UNCHANGED <<unit, ready, refill, counts, fallback, rpc, has, notices>>
      BY <1>4 DEF SpotFails, p
    <2>3. Tables'
      BY <2>1, <2>2, LandTyped DEF Types, Tables
    <2>4. holds' \subseteq Pairs /\ inflight' \in Meter /\ Queued' /\ NoNewWrites
      BY <2>2, ReleaseTyped DEF Types, Meters
    <2>5. InFlight' /\ NothingNew
      <3>1. Range(writes') \subseteq Outstanding /\ Range(spots') \subseteq Outstanding
        BY <2>4 DEF NoNewWrites, Outstanding
      <3> QED BY <1>0, <2>2, <3>1, TailTyped
    <2> QED BY <2>2, <2>3, <2>4, <2>5 DEF Types, Meters, Pool, Calls
  <1> QED BY <1>2, <1>3, <1>4

\* requeueSpotChecks.
LEMMA SpotRequeuesTyped ==
    ASSUME Types, SpotRequeues
    PROVE  Types' /\ NothingNew
  <1> DEFINE p == Head(flight[Flusher].batch)
             all == <<p>> \o spots
  <1>0. Flusher \in Writers
    BY DEF Writers
  <1>1. flight[Flusher].batch # <<>> /\ p \in Pairs /\ p \in Outstanding
    BY <1>0, BatchFacts DEF SpotRequeues
  <1>2. /\ spots' = all /\ flight' = [flight EXCEPT ![Flusher] = At("mark", Tail(@.batch))]
        /\ UNCHANGED <<db, ready, holds, inflight, writes, refill, counts, fallback, report, rpc, has, notices>>
    BY DEF SpotRequeues
  <1> HIDE DEF p
  <1>3. all \in Seq(Pairs) /\ Range(all) \subseteq Outstanding
    <2> DEFINE one == <<p>>
    <2>1. one \in Seq(Pairs) /\ Len(one) = 1 /\ one[1] = p
      BY <1>1
    <2>2. spots \in Seq(Pairs) /\ Len(spots) \in Nat /\ Range(spots) \subseteq Outstanding
      BY SeqFacts DEF Types, Queued, Outstanding
    <2> HIDE DEF one
    <2>3. /\ one \o spots \in Seq(Pairs) /\ Len(one \o spots) = 1 + Len(spots)
          /\ \A i \in 1 .. 1 + Len(spots) :
                (one \o spots)[i] = IF i <= 1 THEN one[i] ELSE spots[i - 1]
      <3>1. /\ one \o spots \in Seq(Pairs) /\ Len(one \o spots) = Len(one) + Len(spots)
            /\ \A i \in 1 .. Len(one) + Len(spots) :
                  (one \o spots)[i] = IF i <= Len(one) THEN one[i] ELSE spots[i - Len(one)]
        BY <2>1, <2>2, ConcatProperties
      <3> QED BY <2>1, <3>1
    <2>4. ASSUME NEW i \in 1 .. 1 + Len(spots) PROVE (one \o spots)[i] \in Outstanding
      <3>1. CASE i = 1
        BY <1>1, <2>1, <2>2, <2>3, <3>1
      <3>2. CASE i # 1
        <4>1. i - 1 \in 1 .. Len(spots) /\ (one \o spots)[i] = spots[i - 1]
          BY <2>2, <2>3, <3>2
        <4> QED BY <2>2, <4>1, SeqFacts
      <3> QED BY <3>1, <3>2
    <2> DEFINE s == one \o spots
    <2>5. s \in Seq(Pairs) /\ \A i \in 1 .. Len(s) : s[i] \in Outstanding
      BY <2>3, <2>4
    <2> HIDE DEF s
    <2>6. s \in Seq(Pairs) /\ Range(s) \subseteq Outstanding
      BY <2>5, SeqFacts
    <2> QED BY <2>6 DEF s, one
  <1> HIDE DEF all
  <1>4. InFlight' /\ NothingNew
    <2>1. Range(writes') \subseteq Outstanding /\ Range(spots') \subseteq Outstanding
      BY <1>2, <1>3 DEF Outstanding
    <2> QED BY <1>0, <1>1, <1>2, <2>1, TailTyped
  <1> QED BY <1>2, <1>3, <1>4 DEF db, Types, Tables, Meters, Queued, Pool, Calls

-----------------------------------------------------------------------------
(* The volunteer's calls.                                                  *)

\* The calls that leave the queues alone.
LEMMA CallTyped ==
    ASSUME Types, NEW p \in Pairs, StartWork(p) \/ AbandonWorkUnit(p) \/ SubmitResult(p)
    PROVE  Types' /\ UNCHANGED <<writes, spots, flight>>
  <1>0. p[1] \in Units /\ p[2] \in Accounts
    BY DEF Pairs
  <1>1. ASSUME NEW op \in {"assign", "startFlush", "close", "abandonFlush"}, NEW b \in BOOLEAN,
               rpc' = [rpc EXCEPT ![p[2]] = [op |-> op, unit |-> p[1], found |-> b]], UNCHANGED notices
        PROVE  Calls'
    <2> DEFINE r == [op |-> op, unit |-> p[1], found |-> b]
    <2>1. r \in CallRow /\ r.unit \in Units
      BY <1>0 DEF CallRow
    <2> HIDE DEF r
    <2>2. rpc' = [rpc EXCEPT ![p[2]] = r]
      BY <1>1 DEF r
    <2>3. rpc' \in [Accounts -> CallRow]
      BY <1>0, <2>1, <2>2 DEF Types, Calls
    <2>4. \A a \in Accounts : rpc'[a].op # "idle" => rpc'[a].unit \in Units
      BY <1>0, <2>1, <2>2 DEF Types, Calls
    <2> QED BY <1>1, <2>3, <2>4 DEF Types, Calls
  <1>2. CASE StartWork(p)
    <2>1. /\ has' \subseteq has
          /\ UNCHANGED <<db, cache, flight, refill, counts, fallback, report, notices>>
      BY <1>2 DEF StartWork
    <2>2. Calls'
      <3>1. CASE unit[p[1]].queued
        <4> DEFINE op == IF p \in holds THEN "startFlush" ELSE "assign"
        <4>1. rpc' = [rpc EXCEPT ![p[2]] = [op |-> op, unit |-> p[1], found |-> p \in holds]]
          BY <1>2, <3>1 DEF StartWork
        <4>2. op \in {"assign", "startFlush", "close", "abandonFlush"} /\ (p \in holds) \in BOOLEAN
          OBVIOUS
        <4> HIDE DEF op
        <4> QED BY <1>1, <2>1, <4>1, <4>2
      <3>2. CASE ~unit[p[1]].queued
        BY <1>2, <2>1, <3>2 DEF StartWork, Types, Calls
      <3> QED BY <3>1, <3>2
    <2> QED BY <2>1, <2>2 DEF db, cache, Types, Tables, Meters, Queued, InFlight, Pool
  <1>3. CASE AbandonWorkUnit(p)
    <2>1. UNCHANGED <<db, cache, flight, refill, counts, fallback, report, has, notices>>
      BY <1>3 DEF AbandonWorkUnit
    <2>2. Calls'
      <3> DEFINE op == IF p \in holds THEN "abandonFlush" ELSE "close"
      <3>1. rpc' = [rpc EXCEPT ![p[2]] = [op |-> op, unit |-> p[1], found |-> p \in holds]]
        BY <1>3 DEF AbandonWorkUnit
      <3>2. op \in {"assign", "startFlush", "close", "abandonFlush"} /\ (p \in holds) \in BOOLEAN
        OBVIOUS
      <3> HIDE DEF op
      <3> QED BY <1>1, <2>1, <3>1, <3>2
    <2> QED BY <2>1, <2>2 DEF db, cache, Types, Tables, Meters, Queued, InFlight, Pool
  <1>4. CASE SubmitResult(p)
    <2> DEFINE covered == {a \in Accounts : copy[<<p[1], a>>] = "result"} \cup {p[2]}
               done == Cardinality(covered) >= EffectiveRedundancy(p[1])
               b == ~done /\ unit[p[1]].queued
    <2>1. /\ copy' = [copy EXCEPT ![p] = "result"] /\ has' \subseteq has
          /\ notices' \subseteq notices \cup {[kind |-> "done", of |-> p]}
          /\ UNCHANGED <<cache, flight, refill, counts, fallback, report, rpc>>
      BY <1>4 DEF SubmitResult
    <2>2. unit' = [unit EXCEPT ![p[1]].queued = ~done /\ @]
      BY <1>4 DEF SubmitResult
    <2>3. b \in BOOLEAN
      OBVIOUS
    <2>4. unit' = [unit EXCEPT ![p[1]].queued = b]
      BY <2>2 DEF Types, Tables
    <2> HIDE DEF b
    <2>5. Tables'
      BY <1>0, <2>1, <2>3, <2>4 DEF Types, Tables
    <2>6. Calls'
      BY <2>1 DEF Types, Calls, Notice
    <2> QED BY <2>1, <2>5, <2>6 DEF cache, Types, Meters, Queued, InFlight, Pool
  <1> QED BY <1>2, <1>3, <1>4

\* Without a flush nothing is new unless the queues gain something.
LEMMA QueuesShrink ==
    ASSUME NoNewWrites, UNCHANGED flight
    PROVE  NothingNew
  BY DEF NoNewWrites, NothingNew, Outstanding

\* The next step of a call, and its answer.
LEMMA AnswerTyped ==
    ASSUME Types, NEW a \in Accounts, Answer(a) \/ FlushTimesOut(a)
    PROVE  Types' /\ NothingNew
  <1> USE QueuesShrink
  <1>1. CASE Flushed(a)
    <2> DEFINE op == IF rpc[a].op = "startFlush" THEN "assignHeld" ELSE "closeHeld"
    <2>1. /\ rpc[a].op # "idle" /\ rpc' = [rpc EXCEPT ![a].op = op]
          /\ UNCHANGED <<db, cache, flight, refill, counts, fallback, report, has, notices>>
      BY <1>1 DEF Flushed, Types, Calls
    <2>2. op \in {"assignHeld", "closeHeld"}
      OBVIOUS
    <2> HIDE DEF op
    <2>3. rpc' \in [Accounts -> CallRow] /\ \A x \in Accounts : rpc'[x].unit = rpc[x].unit
      BY <2>1, <2>2 DEF Types, Calls, CallRow
    <2>4. \A x \in Accounts : rpc'[x].op # "idle" => rpc[x].op # "idle"
      BY <2>1 DEF Types, Calls, CallRow
    <2>5. Calls'
      BY <2>1, <2>3, <2>4 DEF Types, Calls
    <2> QED BY <2>1, <2>5 DEF db, cache, Types, Tables, Meters, Queued, InFlight, Pool, NoNewWrites
  <1>2. ASSUME rpc' = [rpc EXCEPT ![a] = Idle], notices' \subseteq Notice
        PROVE  Calls'
    <2>1. Idle \in CallRow /\ Idle.op = "idle"
      BY DEF Idle, CallRow
    <2>2. rpc' \in [Accounts -> CallRow]
      BY <1>2, <2>1 DEF Types, Calls
    <2>3. \A x \in Accounts : rpc'[x].op # "idle" => rpc'[x].unit \in Units
      BY <1>2, <2>1 DEF Types, Calls
    <2> QED BY <1>2, <2>2, <2>3 DEF Calls
  <1>3. CASE FlushTimesOut(a)
    <2>1. /\ rpc' = [rpc EXCEPT ![a] = Idle] /\ has' \subseteq has
          /\ UNCHANGED <<db, cache, flight, refill, counts, fallback, report, notices>>
      BY <1>3 DEF FlushTimesOut
    <2>2. Calls'
      BY <1>2, <2>1 DEF Types, Calls
    <2> QED BY <2>1, <2>2 DEF db, cache, Types, Tables, Meters, Queued, InFlight, Pool, NoNewWrites
  <1> DEFINE p == <<rpc[a].unit, a>>
  <1>4. rpc[a].op # "idle" => p \in Pairs
    BY DEF Types, Calls, Pairs
  <1>5. CASE Assign(a)
    <2>1. p \in Pairs
      BY <1>4, <1>5 DEF Assign
    <2>2. /\ \/ copy' = [copy EXCEPT ![p] = "running"] /\ notices' = notices \cup {[kind |-> "started", of |-> p]}
             \/ UNCHANGED <<copy, notices>>
          /\ has' \subseteq has /\ rpc' = [rpc EXCEPT ![a] = Idle]
          /\ UNCHANGED <<unit, cache, flight, refill, counts, fallback, report>>
      BY <1>5 DEF Assign
    <2> HIDE DEF p
    <2>3. Tables'
      BY <2>1, <2>2 DEF Types, Tables
    <2>4. notices' \subseteq Notice
      BY <2>1, <2>2 DEF Types, Calls, Notice
    <2>5. Calls'
      BY <1>2, <2>2, <2>4
    <2> QED BY <2>2, <2>3, <2>5 DEF cache, Types, Meters, Queued, InFlight, Pool, NoNewWrites
  <1>6. CASE CloseByVolunteer(a)
    <2>1. p \in Pairs
      BY <1>4, <1>6 DEF CloseByVolunteer
    <2>2. /\ \/ copy' = [copy EXCEPT ![p] = "cooling"] /\ notices' = notices \cup {[kind |-> "closed", of |-> p]}
             \/ UNCHANGED <<copy, notices>>
          /\ \/ UNCHANGED <<holds, inflight, writes, spots>>
             \/ Release({p})
          /\ has' \subseteq has /\ rpc' = [rpc EXCEPT ![a] = Idle]
          /\ UNCHANGED <<unit, ready, flight, refill, counts, fallback, report>>
      BY <1>6 DEF CloseByVolunteer, cache
    <2> HIDE DEF p
    <2>3. Tables'
      BY <2>1, <2>2 DEF Types, Tables
    <2>4. notices' \subseteq Notice
      BY <2>1, <2>2 DEF Types, Calls, Notice
    <2>5. Calls'
      BY <1>2, <2>2, <2>4
    <2>6. holds' \subseteq Pairs /\ inflight' \in Meter /\ Queued' /\ NoNewWrites
      <3>1. CASE Release({p})
        BY <3>1, ReleaseTyped DEF Types, Meters
      <3>2. CASE UNCHANGED <<holds, inflight, writes, spots>>
        BY <3>2 DEF Types, Meters, Queued, NoNewWrites
      <3> QED BY <2>2, <3>1, <3>2
    <2> QED BY <2>2, <2>3, <2>5, <2>6 DEF Types, Meters, InFlight, Pool
  <1> QED BY <1>1, <1>3, <1>5, <1>6 DEF Answer

\* A handler tells the cache.
LEMMA NotifyTyped ==
    ASSUME Types, NEW n \in notices, Notify(n)
    PROVE  Types' /\ NothingNew
  <1> USE QueuesShrink
  <1>1. n \in Notice /\ n.of \in Pairs /\ n.kind \in {"started", "closed", "done", "void"}
    BY DEF Types, Calls, Notice
  <1>2. /\ notices' = notices \ {n}
        /\ UNCHANGED <<db, flight, refill, counts, fallback, report, rpc, has>>
    BY DEF Notify
  <1>3. \/ OnRunStart(n.of) \/ CloseCopy({n.of}) \/ OnUnitDone(n.of[1])
        \/ Release({n.of}) /\ UNCHANGED ready
    BY <1>1 DEF Notify
  <1>4. /\ holds' \subseteq holds /\ inflight' \in Meter /\ Queued' /\ NoNewWrites
        /\ Candidates(ready') /\ Len(ready') <= ReadyPoolSize
    <2>1. {n.of} \in SUBSET Pairs /\ holds \subseteq Pairs /\ inflight \in Meter /\ Queued /\ Pool
      BY <1>1 DEF Types, Meters
    <2>2. CASE Release({n.of}) /\ UNCHANGED ready
      BY <2>1, <2>2, ReleaseTyped DEF Pool
    <2> QED BY <1>1, <1>3, <2>1, <2>2, OnRunStartTyped, CloseCopyTyped, OnUnitDoneTyped
  <1>5. Calls' /\ Pool' /\ Meters'
    BY <1>2, <1>4 DEF Types, Calls, Pool, Meters
  <1> QED BY <1>2, <1>4, <1>5 DEF db, Types, Tables, InFlight

-----------------------------------------------------------------------------
(* Sweeps, time and failures.                                              *)

\* A copy's deadline and its cooldown.
LEMMA SweepTyped ==
    ASSUME Types, NEW p \in Pairs, Sweep(p)
    PROVE  Types' /\ UNCHANGED <<writes, spots, flight, rpc>>
  <1>1. /\ copy' \in {[copy EXCEPT ![p] = "cooling"], [copy EXCEPT ![p] = None]}
        /\ notices' \subseteq notices \cup {[kind |-> "closed", of |-> p]}
        /\ UNCHANGED <<unit, cache, flight, refill, counts, fallback, report, rpc, has>>
    BY DEF Sweep, ExpireCopy, CooldownEnds
  <1>2. Tables'
    BY <1>1 DEF Types, Tables
  <1>3. notices' \subseteq Notice
    BY <1>1 DEF Types, Calls, Notice
  <1>4. Calls'
    BY <1>1, <1>3 DEF Types, Calls
  <1> QED BY <1>1, <1>2, <1>4 DEF cache, Types, Meters, Queued, InFlight, Pool

\* A bench entry runs out.
LEMMA BenchTyped ==
    ASSUME Types, NEW i \in DOMAIN ready, NEW a \in Accounts, BenchEnds(i, a)
    PROVE  Types' /\ UNCHANGED <<writes, spots, flight, rpc>>
  <1>1. /\ ready' = [ready EXCEPT ![i].benched = @ \ {a}]
        /\ UNCHANGED <<db, holds, inflight, writes, spots, flight, refill, counts, fallback,
                       report, rpc, has, notices>>
    BY DEF BenchEnds
  <1>2. /\ Candidates(ready) /\ DOMAIN ready = 1 .. Len(ready) /\ i \in 1 .. Len(ready)
        /\ \A j \in 1 .. Len(ready) : ready[j] \in CandidateRow
    BY SeqFacts DEF Types, Pool, Candidates
  <1> DEFINE row == [ready[i] EXCEPT !.benched = @ \ {a}]
  <1>3. row \in CandidateRow /\ row.unit = ready[i].unit
    <2>1. ready[i] \in CandidateRow
      BY <1>2
    <2> QED BY <2>1 DEF CandidateRow
  <1>4. ready' = [ready EXCEPT ![i] = row]
    BY <1>1
  <1> HIDE DEF row
  <1> DEFINE new == [ready EXCEPT ![i] = row]
  <1>5. /\ new \in [1 .. Len(ready) -> CandidateRow]
        /\ \A j \in 1 .. Len(ready) : new[j].unit = ready[j].unit
    BY <1>2, <1>3
  <1>6. ready' = new
    BY <1>4
  <1> HIDE DEF new
  <1>7. Candidates(new) /\ Len(new) = Len(ready)
    BY <1>2, <1>5, Relabelled
  <1>8. Pool'
    BY <1>1, <1>6, <1>7 DEF Types, Pool
  <1> QED BY <1>1, <1>8 DEF db, Types, Tables, Meters, Queued, InFlight, Calls

\* The reconciler.
LEMMA ReconcileTyped ==
    ASSUME Types, Reconcile
    PROVE  Types' /\ NothingNew /\ UNCHANGED rpc
  <1> USE QueuesShrink
  <1>1. CASE ReleaseLapsedHolds
    <2>1. PICK over : Release(over)
      BY <1>1 DEF ReleaseLapsedHolds
    <2>2. UNCHANGED <<db, ready, flight, refill, counts, fallback, report, rpc, has, notices>>
      BY <1>1 DEF ReleaseLapsedHolds
    <2>3. holds' \subseteq holds /\ inflight' \in Meter /\ Queued' /\ NoNewWrites
      BY <2>1, ReleaseTyped DEF Types, Meters
    <2> QED BY <2>2, <2>3 DEF db, Types, Tables, Meters, InFlight, Pool, Calls
  <1>2. CountActiveByHost \in Meter
    <2>1. ASSUME NEW a \in Accounts PROVE Cardinality({u \in Units : Live(<<u, a>>)}) \in Nat
      BY Counting
    <2> QED BY <2>1 DEF CountActiveByHost, Meter
  <1>3. ASSUME NEW active \in Meter PROVE Recounted(active) \in Meter
    <2>1. ASSUME NEW a \in Accounts
          PROVE  active[a] + QueuedFor(a, writes) + QueuedFor(a, spots) \in Nat
      <3>1. QueuedFor(a, writes) \in Nat /\ QueuedFor(a, spots) \in Nat /\ active[a] \in Nat
        BY QueuedForNat DEF Types, Queued, Meter
      <3> QED BY <3>1
    <2> QED BY <2>1 DEF Recounted, Meter
  <1>4. CASE ReconcileCounts
    <2>1. /\ inflight' \in Meter
          /\ UNCHANGED <<db, ready, holds, writes, spots, flight, refill, counts, fallback, report,
                         rpc, has, notices>>
      BY <1>2, <1>3, <1>4 DEF ReconcileCounts
    <2> QED BY <2>1 DEF db, Types, Tables, Meters, Queued, InFlight, Pool, Calls, NoNewWrites
  <1>5. CASE ReconcileReads
    <2>1. /\ counts' = <<CountActiveByHost>>
          /\ UNCHANGED <<db, cache, flight, refill, fallback, report, rpc, has, notices>>
      BY <1>5 DEF ReconcileReads
    <2>2. Meters'
      BY <1>2, <2>1 DEF cache, Types, Meters
    <2> QED BY <2>1, <2>2 DEF db, cache, Types, Tables, Queued, InFlight, Pool, Calls, NoNewWrites
  <1>6. CASE ReconcileApplies
    <2>1. counts[1] \in Meter
      BY <1>6 DEF ReconcileApplies, Types, Meters
    <2>2. inflight' \in Meter
      BY <1>3, <1>6, <2>1 DEF ReconcileApplies
    <2>3. /\ counts' = <<>>
          /\ UNCHANGED <<db, ready, holds, writes, spots, flight, refill, fallback, report, rpc,
                         has, notices>>
      BY <1>6 DEF ReconcileApplies
    <2> QED BY <2>2, <2>3 DEF db, Types, Tables, Meters, Queued, InFlight, Pool, Calls, NoNewWrites
  <1>7. ASSUME NEW a \in Accounts, NoteVolunteerHeld(a)
        PROVE  Types' /\ NothingNew /\ UNCHANGED rpc
    <2>1. PICK missing \in SUBSET Units : report' = [report EXCEPT ![a] = missing]
      BY <1>7 DEF NoteVolunteerHeld
    <2>2. UNCHANGED <<db, cache, flight, refill, counts, fallback, rpc, has, notices>>
      BY <1>7 DEF NoteVolunteerHeld
    <2>3. Tables'
      BY <2>1, <2>2 DEF db, Types, Tables
    <2> QED BY <2>2, <2>3 DEF cache, Types, Meters, Queued, InFlight, Pool, Calls, NoNewWrites
  <1>8. ASSUME NEW a \in Accounts, ReconcileHeld(a)
        PROVE  Types' /\ NothingNew /\ UNCHANGED rpc
    <2> DEFINE stale == {<<u, a>> : u \in report[a]}
    <2>1. stale \subseteq Pairs
      BY DEF Types, Tables, Pairs
    <2>2. /\ copy' = [p \in Pairs |-> IF p \in stale /\ Live(p) THEN "cooling" ELSE copy[p]]
          /\ notices' = notices \cup {[kind |-> "closed", of |-> p] : p \in {q \in stale : Live(q)}}
          /\ report' = [report EXCEPT ![a] = {}]
          /\ UNCHANGED <<unit, cache, flight, refill, counts, fallback, rpc, has>>
      BY <1>8 DEF ReconcileHeld
    <2> HIDE DEF stale
    <2>3. Tables'
      BY <2>2 DEF Types, Tables
    <2>4. notices' \subseteq Notice
      BY <2>1, <2>2 DEF Types, Calls, Notice
    <2>5. Calls'
      BY <2>2, <2>4 DEF Types, Calls
    <2> QED BY <2>2, <2>3, <2>5 DEF cache, Types, Meters, Queued, InFlight, Pool, NoNewWrites
  <1> QED BY <1>1, <1>4, <1>5, <1>6, <1>7, <1>8 DEF Reconcile

\* A re-opened unit, and a head that starts over.
LEMMA RequeueTyped ==
    ASSUME Types, NEW u \in Units, Requeue(u)
    PROVE  Types' /\ NothingNew /\ UNCHANGED rpc
  <1> USE QueuesShrink
  <1>1. /\ copy' = [p \in Pairs |-> IF p[1] = u THEN None ELSE copy[p]]
        /\ unit' = [unit EXCEPT ![u].queued = TRUE] /\ Invalidate(u)
        /\ UNCHANGED <<flight, refill, counts, fallback, report, rpc, has, notices>>
    BY DEF Requeue
  <1>2. /\ holds' \subseteq holds /\ inflight' \in Meter /\ Queued' /\ NoNewWrites
        /\ Candidates(ready') /\ Len(ready') <= ReadyPoolSize
    BY <1>1, InvalidateTyped DEF Types, Meters
  <1>3. Tables'
    BY <1>1 DEF Types, Tables
  <1> QED BY <1>1, <1>2, <1>3 DEF Types, Meters, InFlight, Pool, Calls

\* Nothing is queued on a fresh head.
LEMMA EmptyTyped ==
    /\ Candidates(<<>>) /\ Len(<<>>) = 0 /\ <<>> \in Seq(Pairs)
    /\ [w \in Writers |-> [step |-> "idle", batch |-> <<>>]] \in [Writers -> FlightRow]
    /\ [a \in Accounts |-> Idle] \in [Accounts -> CallRow] /\ Idle.op = "idle"
    /\ [a \in Accounts |-> 0] \in Meter
    /\ 0 <= ReadyPoolSize
    /\ [a \in Accounts |-> {}] \in [Accounts -> SUBSET Units]
  <1>1. Candidates(<<>>) /\ Len(<<>>) = 0 /\ <<>> \in Seq(Pairs)
    BY EmptySeq DEF Candidates
  <1>2. [w \in Writers |-> [step |-> "idle", batch |-> <<>>]] \in [Writers -> FlightRow]
    BY <1>1 DEF FlightRow
  <1>3. [a \in Accounts |-> Idle] \in [Accounts -> CallRow] /\ Idle.op = "idle"
    BY DEF Idle, CallRow
  <1> QED BY <1>1, <1>2, <1>3, DispatchAssumption DEF Meter

LEMMA InitTyped == ASSUME Init PROVE Types /\ Settled
  <1>1. Tables
    BY EmptyTyped DEF Init, Tables
  <1>2. Meters /\ Queued
    BY EmptyTyped DEF Init, Meters, Queued
  <1>3. InFlight
    BY EmptyTyped DEF Init, InFlight, Writers
  <1>4. Pool
    BY EmptyTyped DEF Init, Pool, NoRefill
  <1>5. Calls /\ \A a \in Accounts : rpc[a].op = "idle"
    <2>1. rpc \in [Accounts -> CallRow] /\ \A a \in Accounts : rpc[a].op = "idle"
      BY EmptyTyped DEF Init
    <2>2. notices = {}
      BY DEF Init
    <2> QED BY <2>1, <2>2 DEF Calls
  <1>6. Settled
    BY <1>5 DEF Settled, Flushing, Pairs
  <1> QED BY <1>1, <1>2, <1>3, <1>4, <1>5, <1>6 DEF Types

LEMMA CrashTyped ==
    ASSUME Types, Crash
    PROVE  Types' /\ \A a \in Accounts : rpc'[a].op = "idle"
  <1>1. Tables'
    BY EmptyTyped DEF Crash, db, Types, Tables
  <1>2. Meters' /\ Queued'
    BY EmptyTyped DEF Crash, Meters, Queued
  <1>3. InFlight'
    BY EmptyTyped DEF Crash, Types, InFlight
  <1>4. Pool'
    BY EmptyTyped DEF Crash, Pool, NoRefill
  <1>5. Calls' /\ \A a \in Accounts : rpc'[a].op = "idle"
    <2>1. rpc' \in [Accounts -> CallRow] /\ \A a \in Accounts : rpc'[a].op = "idle"
      BY EmptyTyped DEF Crash
    <2>2. notices' = {}
      BY DEF Crash
    <2> QED BY <2>1, <2>2 DEF Calls
  <1> QED BY <1>1, <1>2, <1>3, <1>4, <1>5 DEF Types

-----------------------------------------------------------------------------
(* Every step, by what it does to the calls and to the queues.             *)

\* The calls wait as before.
CallsWait == \A p \in Pairs : Flushing(p)' => Flushing(p)

\* A hand-out is the only step that queues a write that was not there, and it is not
\* the hold that a call of the same account has found.
LEMMA HandOutSettles ==
    ASSUME Types, Settled, NEW a \in Accounts, HandOut(a)
    PROVE  Settled'
  <1>1. PICK i \in DOMAIN ready : HandOutFrom(a, i)
    BY DEF HandOut
  <1> DEFINE q == <<ready[i].unit, a>>
  <1>2. /\ spots' \in {spots, Append(spots, q)} /\ writes' \in {writes, Append(writes, q)}
        /\ UNCHANGED flight
    BY <1>1 DEF HandOutFrom
  <1>3. rpc' = [rpc EXCEPT ![a].found = @ /\ rpc[a].unit # ready[i].unit]
    BY <1>1 DEF HandOutFrom
  <1>4. q \in Pairs
    <2>1. ready \in Seq(CandidateRow)
      BY DEF Types, Pool, Candidates
    <2>2. ready[i] \in CandidateRow
      BY <2>1, SeqFacts
    <2> QED BY <2>2 DEF CandidateRow, Pairs
  <1>5. \A p \in Pairs : Flushing(p)' => Flushing(p) /\ p # q
    <2> SUFFICES ASSUME NEW p \in Pairs, Flushing(p)' PROVE Flushing(p) /\ p # q
      OBVIOUS
    <2>1. p[2] \in Accounts /\ p = <<p[1], p[2]>>
      BY DEF Pairs
    <2>2. CASE p[2] = a
      <3> DEFINE b == rpc[a].found /\ rpc[a].unit # ready[i].unit
      <3>1. rpc' = [rpc EXCEPT ![a].found = b]
        BY <1>3 DEF Types, Calls, CallRow
      <3> HIDE DEF b
      <3>2. rpc'[a].op = rpc[a].op /\ rpc'[a].unit = rpc[a].unit /\ rpc'[a].found = b
        BY <3>1 DEF Types, Calls, CallRow
      <3>3. b
        BY <2>2, <3>2 DEF Flushing
      <3> QED BY <2>2, <3>2, <3>3 DEF Flushing, b
    <2>3. CASE p[2] # a
      <3>1. rpc'[p[2]] = rpc[p[2]]
        BY <1>3, <2>1, <2>3 DEF Types, Calls
      <3> QED BY <2>3, <3>1 DEF Flushing
    <2> QED BY <2>2, <2>3
  <1> HIDE DEF q
  <1>6. /\ Range(Append(writes, q)) \subseteq Range(writes) \cup {q}
        /\ Range(Append(spots, q)) \subseteq Range(spots) \cup {q}
    <2>1. ASSUME NEW s \in Seq(Pairs) PROVE Range(Append(s, q)) \subseteq Range(s) \cup {q}
      <3>1. /\ Append(s, q) \in Seq(Pairs) /\ Len(Append(s, q)) = Len(s) + 1 /\ Len(s) \in Nat
            /\ \A j \in 1 .. Len(s) : Append(s, q)[j] = s[j]
            /\ Append(s, q)[Len(s) + 1] = q
        BY <1>4, AppendProperties, SeqFacts
      <3> DEFINE r == Append(s, q)
      <3> HIDE DEF r
      <3>2. ASSUME NEW j \in 1 .. Len(r) PROVE r[j] \in Range(s) \cup {q}
        <4>1. CASE j = Len(s) + 1
          BY <3>1, <4>1 DEF r
        <4>2. CASE j # Len(s) + 1
          <5>1. j \in 1 .. Len(s) /\ r[j] = s[j]
            BY <3>1, <4>2 DEF r
          <5> QED BY <5>1, SeqFacts
        <4> QED BY <4>1, <4>2
      <3>3. r \in Seq(Pairs)
        BY <3>1 DEF r
      <3>4. Range(r) \subseteq Range(s) \cup {q}
        BY <3>2, <3>3, SeqFacts
      <3> QED BY <3>4 DEF r
    <2> QED BY <2>1 DEF Types, Queued
  <1>7. Outstanding' \subseteq Outstanding \cup {q}
    BY <1>2, <1>6 DEF Outstanding
  <1>8. Types'
    BY HandOutTyped
  <1>9. ASSUME NEW p \in Pairs, Flushing(p)' PROVE ~Unsettled(p)'
    <2>1. Flushing(p) /\ p # q /\ p \notin Outstanding
      BY <1>5, <1>9, OutstandingIs DEF Settled, Types
    <2>2. p \notin Outstanding'
      BY <1>7, <2>1
    <2>3. Unsettled(p)' <=> p \in Outstanding'
      BY <1>8, OutstandingNext DEF Types
    <2> QED BY <2>2, <2>3
  <1> QED BY <1>9 DEF Settled

\* A step that queues nothing new, and after which only what waited waits.
LEMMA QuietSettles ==
    ASSUME Types, Settled, Types', NothingNew, CallsWait
    PROVE  Settled'
  <1> SUFFICES ASSUME NEW p \in Pairs, Flushing(p)' PROVE ~Unsettled(p)'
    BY DEF Settled
  <1>1. p \notin Outstanding
    BY OutstandingIs DEF Settled, CallsWait, Types
  <1> QED BY <1>1, OutstandingNext DEF NothingNew, Types

\* A call stops waiting for the flusher only when nothing is pending.
LEMMA FlushedSettles ==
    ASSUME Types, Types', NEW a \in Accounts, Flushed(a)
    PROVE  Settled'
  <1>1. /\ writes = <<>> /\ spots = <<>> /\ UNCHANGED <<writes, spots, flight>>
        /\ \A w \in Writers : flight[w].batch = <<>>
    BY DEF Flushed, cache, NothingPending, Types, InFlight
  <1>2. \A x : x \notin Range(<<>>)
    <2>1. <<>> \in Seq(Pairs) /\ Len(<<>>) = 0
      BY EmptySeq
    <2>2. \A x : x \in Range(<<>>) <=> \E i \in 1 .. Len(<<>>) : <<>>[i] = x
      BY <2>1, SeqFacts
    <2> QED BY <2>1, <2>2
  <1>3. Outstanding' = {}
    BY <1>1, <1>2 DEF Outstanding
  <1> QED BY <1>3, OutstandingNext DEF Settled, Types

\* A call that is answered, or a new one, waits for nothing.
LEMMA IdleWaits ==
    ASSUME Types, NEW a \in Accounts,
           \/ rpc' = [rpc EXCEPT ![a] = Idle]
           \/ \E op \in {"assign", "startFlush", "close", "abandonFlush"} : \E u, b :
                 rpc' = [rpc EXCEPT ![a] = [op |-> op, unit |-> u, found |-> b]]
    PROVE  CallsWait
  <1>1. rpc'[a].op \notin {"assignHeld", "closeHeld"}
    BY DEF Types, Calls, Idle
  <1>2. \A x \in Accounts : x # a => rpc'[x] = rpc[x]
    BY DEF Types, Calls
  <1> QED BY <1>1, <1>2 DEF CallsWait, Flushing, Pairs

\* Every step keeps the types and the promise.
LEMMA Step ==
    ASSUME Types, Settled, [Next]_vars
    PROVE  Types' /\ Settled'
  <1>0. UNCHANGED rpc => CallsWait
    BY DEF CallsWait, Flushing
  <1>1. CASE UNCHANGED vars
    <2>1. UNCHANGED <<unit, copy, ready, holds, inflight, writes, spots, flight, refill, counts,
                      fallback, report, rpc, has, notices>>
      BY <1>1 DEF vars
    <2>2. Types'
      BY <2>1 DEF Types, Tables, Meters, Queued, InFlight, Pool, Calls
    <2>3. NothingNew
      BY <2>1 DEF NothingNew, Outstanding
    <2> QED BY <1>0, <2>1, <2>2, <2>3, QuietSettles
  <1>2. CASE Refill \/ LeafDemand
    <2>1. Types' /\ UNCHANGED <<writes, spots, flight, rpc>>
      BY <1>2, RefillTyped
    <2>2. NothingNew
      BY <2>1 DEF NothingNew, Outstanding
    <2> QED BY <1>0, <2>1, <2>2, QuietSettles
  <1>3. CASE Reconcile
    BY <1>0, <1>3, ReconcileTyped, QuietSettles
  <1>4. CASE Failure
    <2>1. ASSUME NEW w \in Writers, FlushFails(w) \/ SpotFails(w) PROVE Types' /\ Settled'
      <3>1. UNCHANGED rpc
        BY <2>1 DEF FlushFails, SpotFails
      <3> QED BY <1>0, <2>1, <3>1, FlushLandsTyped, SpotTyped, QuietSettles
    <2>2. CASE SpotRequeues
      <3>1. UNCHANGED rpc
        BY <2>2 DEF SpotRequeues
      <3> QED BY <1>0, <2>2, <3>1, SpotRequeuesTyped, QuietSettles
    <2>3. CASE Crash
      <3>1. Types' /\ \A a \in Accounts : rpc'[a].op = "idle"
        BY <2>3, CrashTyped
      <3> QED BY <3>1 DEF Settled, Flushing, Pairs
    <2>4. ASSUME NEW a \in Accounts, FlushTimesOut(a) PROVE Types' /\ Settled'
      <3>1. CallsWait
        BY <2>4, IdleWaits DEF FlushTimesOut
      <3> QED BY <2>4, <3>1, AnswerTyped, QuietSettles
    <2>5. ASSUME NEW u \in Units, Requeue(u) PROVE Types' /\ Settled'
      BY <1>0, <2>5, RequeueTyped, QuietSettles
    <2>6. DOMAIN flight = Writers
      BY DEF Types, InFlight
    <2> QED BY <1>4, <2>1, <2>2, <2>3, <2>4, <2>5, <2>6 DEF Failure
  <1>5. ASSUME NEW a \in Accounts, Serve(a) PROVE Types' /\ Settled'
    <2>1. CASE HandOut(a)
      BY <2>1, HandOutTyped, HandOutSettles
    <2>2. CASE FallbackLands(a) \/ FallbackHolds(a)
      <3>1. UNCHANGED <<writes, spots, flight, rpc>>
        BY <2>2 DEF FallbackLands, FallbackHolds, cache
      <3>2. NothingNew
        BY <3>1 DEF NothingNew, Outstanding
      <3> QED BY <1>0, <2>2, <3>1, <3>2, FallbackTyped, QuietSettles
    <2> QED BY <1>5, <2>1, <2>2 DEF Serve
  <1>6. ASSUME NEW a \in Accounts, Answer(a) PROVE Types' /\ Settled'
    <2>1. Types' /\ NothingNew
      BY <1>6, AnswerTyped
    <2>2. CASE Flushed(a)
      BY <2>1, <2>2, FlushedSettles
    <2>3. CASE Assign(a) \/ CloseByVolunteer(a)
      <3>1. CallsWait
        BY <2>3, IdleWaits DEF Assign, CloseByVolunteer
      <3> QED BY <2>1, <3>1, QuietSettles
    <2> QED BY <1>6, <2>2, <2>3 DEF Answer
  <1>7. ASSUME NEW w \in Writers, Flush(w) PROVE Types' /\ Settled'
    <2>1. UNCHANGED rpc
      BY <1>7 DEF Flush, FlushTakes, FlushLands, FlushVoids, SpotTakes, SpotMarks, SpotReserves
    <2>2. Types' /\ NothingNew
      BY <1>7, FlushTakesTyped, FlushLandsTyped, FlushVoidsTyped, SpotTyped DEF Flush
    <2> QED BY <1>0, <2>1, <2>2, QuietSettles
  <1>8. ASSUME NEW p \in Pairs, Call(p) \/ AbandonWorkUnit(p) PROVE Types' /\ Settled'
    <2>1. Types' /\ UNCHANGED <<writes, spots, flight>>
      BY <1>8, CallTyped DEF Call
    <2>2. NothingNew
      BY <2>1 DEF NothingNew, Outstanding
    <2>3. CallsWait
      <3>1. p[2] \in Accounts
        BY DEF Pairs
      <3>2. CASE StartWork(p) /\ unit[p[1]].queued
        <4> DEFINE op == IF p \in holds THEN "startFlush" ELSE "assign"
        <4>1. rpc' = [rpc EXCEPT ![p[2]] = [op |-> op, unit |-> p[1], found |-> p \in holds]]
          BY <3>2 DEF StartWork
        <4>2. op \in {"assign", "startFlush", "close", "abandonFlush"}
          OBVIOUS
        <4> HIDE DEF op
        <4> QED BY <3>1, <4>1, <4>2, IdleWaits
      <3>3. CASE AbandonWorkUnit(p)
        <4> DEFINE op == IF p \in holds THEN "abandonFlush" ELSE "close"
        <4>1. rpc' = [rpc EXCEPT ![p[2]] = [op |-> op, unit |-> p[1], found |-> p \in holds]]
          BY <3>3 DEF AbandonWorkUnit
        <4>2. op \in {"assign", "startFlush", "close", "abandonFlush"}
          OBVIOUS
        <4> HIDE DEF op
        <4> QED BY <3>1, <4>1, <4>2, IdleWaits
      <3>4. CASE UNCHANGED rpc
        BY <1>0, <3>4
      <3> QED BY <1>8, <3>2, <3>3, <3>4 DEF Call, StartWork, SubmitResult
    <2> QED BY <2>1, <2>2, <2>3, QuietSettles
  <1>9. ASSUME NEW p \in Pairs, Sweep(p) PROVE Types' /\ Settled'
    <2>1. Types' /\ UNCHANGED <<writes, spots, flight, rpc>>
      BY <1>9, SweepTyped
    <2>2. NothingNew
      BY <2>1 DEF NothingNew, Outstanding
    <2> QED BY <1>0, <2>1, <2>2, QuietSettles
  <1>10. ASSUME NEW n \in notices, Notify(n) PROVE Types' /\ Settled'
    <2>1. UNCHANGED rpc
      BY <1>10 DEF Notify
    <2> QED BY <1>0, <1>10, <2>1, NotifyTyped, QuietSettles
  <1>11. ASSUME NEW i \in DOMAIN ready, NEW a \in Accounts, BenchEnds(i, a) PROVE Types' /\ Settled'
    <2>1. Types' /\ UNCHANGED <<writes, spots, flight, rpc>>
      BY <1>11, BenchTyped
    <2>2. NothingNew
      BY <2>1 DEF NothingNew, Outstanding
    <2> QED BY <1>0, <2>1, <2>2, QuietSettles
  <1>12. DOMAIN flight = Writers
    BY DEF Types, InFlight
  <1> QED BY <1>1, <1>2, <1>3, <1>4, <1>5, <1>6, <1>7, <1>8, <1>9, <1>10, <1>11, <1>12 DEF Next

-----------------------------------------------------------------------------
\* The types and the promise hold in every state.
LEMMA Invariant == Spec => [](Types /\ Settled)
  <1>1. Init => Types /\ Settled
    BY InitTyped
  <1>2. Types /\ Settled /\ [Next]_vars => (Types /\ Settled)'
    BY Step
  <1> QED BY <1>1, <1>2, PTL DEF Spec

\* TypeOK: whatever the flusher, the reconciler, the handlers and the database do, no
\* meter goes below zero, the ready pool stays within its size and stages a unit once.
THEOREM TypeCorrect == Spec => []TypeOK
  <1>1. Types => TypeOK
    <2> SUFFICES ASSUME Types PROVE TypeOK
      OBVIOUS
    <2>1. DOMAIN ready = 1 .. Len(ready)
      BY SeqFacts DEF Types, Pool, Candidates
    <2> QED BY <2>1 DEF Types, Tables, Meters, Meter, Pool, Candidates, TypeOK
  <1> QED BY <1>1, Invariant, PTL

\* FlushSettles: flushPendingFor's promise to StartWork and AbandonWorkUnit, for any
\* number of machines that flush at the same time, any batch size and any failures.
THEOREM FlushSettlesHolds == Spec => []FlushSettles
  <1>1. Types /\ Settled => FlushSettles
    <2> SUFFICES ASSUME Types, Settled, NEW p \in holds,
                        rpc[p[2]] \in [op : {"assignHeld", "closeHeld"}, unit : {p[1]}, found : {TRUE}]
                 PROVE  ~Unsettled(p)
      BY DEF FlushSettles
    <2>1. p \in Pairs
      BY DEF Types, Meters
    <2>2. Flushing(p)
      BY DEF Flushing
    <2> QED BY <2>1, <2>2 DEF Settled
  <1> QED BY <1>1, Invariant, PTL

=============================================================================
