--------------------------- MODULE DispatchCache ---------------------------
(***************************************************************************)
(* The in-memory dispatch cache of one head and the tables it works        *)
(* against: the ready pool, the in-memory holds, the queues of reservation *)
(* writes, and every goroutine that moves them - the hand-out, the         *)
(* per-requester fallback, the refiller, the flusher, the reconciler, and  *)
(* the StartWork, AbandonWorkUnit and SubmitResult handlers.               *)
(*                                                                         *)
(* One step is one critical section of the cache's mutex or one SQL        *)
(* statement.  A handler that closes a copy in the database and then tells *)
(* the cache leaves a member of notices in between; a close made by        *)
(* another replica leaves none.                                            *)
(*                                                                         *)
(* An account stands for its machine and its trust subject.  Standing, the *)
(* trust reservation and the copy budget are in WorkUnit; leaf visibility  *)
(* is in LeafService.  Time is abstract: a lease, a cooldown, a bench or   *)
(* a throttle may have passed at any moment.                               *)
(***************************************************************************)
EXTENDS Naturals, FiniteSets, Sequences, Functions

CONSTANTS
    Units,              \* natural numbers, the oldest unit first
    Accounts,
    Redundancy,         \* effective redundancy of a unit that is not a spot check
    SpotChecks,         \* TRUE when hand-outs may sample a spot check
    InflightCap,        \* copies one machine may hold
    ReadyPoolSize, LowWatermark, RefillBatchSize, FlushBatchSize,
    CooldownsEnd,       \* TRUE when cooldowns after a close run out within a behaviour
    Flusher,            \* the background flusher
    Rare,               \* the kinds of rare event that occur
    MaxRare             \* bound: rare events in a behaviour

RareEvents == {"crash", "dbError", "lostReply", "elsewhere", "invalidate", "giveBack", "noSlot",
               "slowCount", "leafDemand", "unbuildable"}

ASSUME DispatchAssumption ==
    /\ Units \subseteq Nat \ {0} /\ IsFiniteSet(Units) /\ IsFiniteSet(Accounts)
    /\ Redundancy \in Nat \ {0} /\ {SpotChecks, CooldownsEnd} \subseteq BOOLEAN
    /\ SpotChecks => Redundancy = 1
    /\ {InflightCap, ReadyPoolSize, LowWatermark, RefillBatchSize, FlushBatchSize} \subseteq Nat \ {0}
    /\ Flusher \notin Accounts
    /\ Rare \subseteq RareEvents /\ MaxRare \in Nat

VARIABLES
    unit,       \* each unit's row: state and spot_check
    copy,       \* each account's copy or result of each unit
    ready,      \* the pool, front first
    holds,      \* reservedInMem: <<unit, account>> pairs
    inflight,   \* copies charged to each machine
    writes,     \* pendingWrites
    spots,      \* pendingSpotChecks
    flight,     \* the batch each flushing goroutine has taken, and how far it is
    refill,     \* the candidates the refiller has read and not staged yet, and the
                \* units of the leaves it was asked for, if it was
    counts,     \* the reconciler's CountActiveByHost, before it is applied
    fallback,   \* the unit a fallback has landed for an account and not held yet
    report,     \* units a machine's held report says it does not hold
    rpc,        \* each account's StartWork or AbandonWorkUnit call, and whether the
                \* hold it found in memory is still the same one
    has,        \* units each volunteer has been handed
    notices,    \* database changes whose handler has not told the cache yet
    used        \* rare events so far

db == <<unit, copy>>
cache == <<ready, holds, inflight, writes, spots>>
vars == <<unit, copy, ready, holds, inflight, writes, spots, flight, refill,
          counts, fallback, report, rpc, has, notices, used>>

Pairs == Units \X Accounts
None == "none"
NoRefill == [wanted |-> {}, found |-> <<>>]
Idle == [op |-> "idle", unit |-> 0, found |-> FALSE]
Live(p) == copy[p] \in {"reserved", "running"}

\* A rare event may still happen.
May(kind) == kind \in Rare /\ used < MaxRare /\ used' = used + 1

Init ==
    /\ unit = [u \in Units |-> [queued |-> TRUE, spot |-> FALSE]]
    /\ copy = [p \in Pairs |-> None]
    /\ ready = <<>> /\ holds = {} /\ inflight = [a \in Accounts |-> 0]
    /\ writes = <<>> /\ spots = <<>>
    /\ flight = [w \in Accounts \cup {Flusher} |-> [step |-> "idle", batch |-> <<>>]]
    /\ refill = NoRefill
    /\ counts = <<>>
    /\ fallback = [a \in Accounts |-> {}]
    /\ report = [a \in Accounts |-> {}]
    /\ rpc = [a \in Accounts |-> Idle]
    /\ has = {} /\ notices = {} /\ used = 0

-----------------------------------------------------------------------------
(* The tables.                                                             *)

EffectiveRedundancy(u) == IF unit[u].spot THEN 2 ELSE Redundancy

\* Live copies and results waiting for a verdict.
Covering(u) == {a \in Accounts : Live(<<u, a>>) \/ copy[<<u, a>>] = "result"}

\* FlushReservations' guards for one record, on the statement's snapshot.
Lands(p) ==
    /\ unit[p[1]].queued
    /\ Cardinality(Covering(p[1])) < EffectiveRedundancy(p[1])
    /\ copy[p] = None

\* The rows of ps appear; no earlier held report speaks of them.
Land(ps) ==
    /\ copy' = [p \in Pairs |-> IF p \in ps THEN "reserved" ELSE copy[p]]
    /\ report' = [a \in Accounts |-> report[a] \ {p[1] : p \in {q \in ps : q[2] = a}}]

\* FindDispatchableBatch and ClaimDispatchableBatch: QUEUED, not excluded, with headroom.
Dispatchable(u, excluded) ==
    /\ unit[u].queued
    /\ u \notin excluded
    /\ Cardinality(Covering(u)) < EffectiveRedundancy(u)

\* The candidate record of a unit, as the refill reads it.
Candidate(u) ==
    [ unit |-> u, effectiveRedundancy |-> EffectiveRedundancy(u), spot |-> unit[u].spot,
      dbActiveCount |-> Cardinality(Covering(u)), contributors |-> Covering(u),
      benched |-> {a \in Accounts : copy[<<u, a>>] = "cooling"} ]

\* CountActiveByHost.
CountActiveByHost == [a \in Accounts |-> Cardinality({u \in Units : Live(<<u, a>>)})]

-----------------------------------------------------------------------------
(* The cache's critical sections, as the values they leave.                *)

Holders(h, u) == {p \in h : p[1] = u}
Staged == {ready[i].unit : i \in DOMAIN ready}

\* seq without its members in ps, in the same order.
Without(seq, ps) ==
    LET kept[n \in 0..Len(seq)] ==
            IF n = 0 THEN <<>>
            ELSE IF seq[n] \in ps THEN kept[n - 1] ELSE Append(kept[n - 1], seq[n])
    IN  kept[Len(seq)]

DropUnit(u) == Without(ready, {c \in Range(ready) : c.unit = u})
Monus(m, n) == IF m > n THEN m - n ELSE 0
Least(m, n) == IF m < n THEN m ELSE n

\* Mutant of Release: the charge is taken off even when a recount already did.
ReleaseUnclamped(ps) ==
    LET gone == holds \cap ps
    IN  /\ holds' = holds \ gone
        /\ inflight' = [a \in Accounts |-> inflight[a] - Cardinality({p \in gone : p[2] = a})]
        /\ writes' = Without(writes, gone)
        /\ spots' = Without(spots, gone)

\* releaseInMemLocked and purgePendingForLocked: the holds among ps go, with the
\* charge and the queued writes of each.
Release(ps) ==
    LET gone == holds \cap ps
    IN  /\ holds' = holds \ gone
        /\ inflight' = [a \in Accounts |-> Monus(inflight[a], Cardinality({p \in gone : p[2] = a}))]
        /\ writes' = Without(writes, gone)
        /\ spots' = Without(spots, gone)

\* closeCopyLocked: release, and bench the account on the staged candidate.
CloseCopy(ps) ==
    /\ Release(ps)
    /\ ready' = [i \in DOMAIN ready |->
                    [ready[i] EXCEPT !.benched = @ \cup {p[2] : p \in {q \in ps : q[1] = ready[i].unit}}]]

\* onUnitDone: the holds and the candidate go; queued writes stay.
OnUnitDone(u) ==
    LET gone == Holders(holds, u)
    IN  /\ holds' = holds \ gone
        /\ inflight' = [a \in Accounts |-> Monus(inflight[a], Cardinality({p \in gone : p[2] = a}))]
        /\ ready' = DropUnit(u)
        /\ UNCHANGED <<writes, spots>>

\* InvalidateWorkUnit.
Invalidate(u) ==
    /\ Release(Holders(holds, u))
    /\ ready' = DropUnit(u)

\* onRunStart: the hold becomes part of the candidate's covered count; a covered
\* candidate leaves the pool; the machine stays charged.
OnRunStart(p) ==
    LET h == holds \ {p}
        Counted(c) == [c EXCEPT !.dbActiveCount = @ + 1, !.contributors = @ \cup {p[2]}]
        Covered(c) == c.dbActiveCount + 1 + Cardinality(Holders(h, p[1])) >= c.effectiveRedundancy
        left == Without(ready, {c \in Range(ready) : c.unit = p[1] /\ Covered(c)})
    IN  /\ holds' = h
        /\ ready' = [i \in DOMAIN left |-> IF left[i].unit = p[1] THEN Counted(left[i]) ELSE left[i]]
        /\ UNCHANGED <<inflight, writes, spots>>

-----------------------------------------------------------------------------
(* HandOut.                                                                *)

\* The refusals that concern the requester itself.
RefusesAccount(a, c) ==
    \/ <<c.unit, a>> \in holds
    \/ a \in c.contributors
    \/ a \in c.benched

\* eligibleLocked.
Eligible(a, c) ==
    /\ c.dbActiveCount + Cardinality(Holders(holds, c.unit)) < c.effectiveRedundancy
    /\ ~RefusesAccount(a, c)
    /\ inflight[a] < InflightCap

\* Whether the first copy of a unit makes it a spot check.
Samples(c) ==
    IF SpotChecks /\ Holders(holds, c.unit) = {} /\ c.dbActiveCount = 0 /\ ~c.spot
    THEN BOOLEAN ELSE {FALSE}

\* HandOutWithReason served from the pool: the first eligible candidate, held in
\* memory, its write queued, the candidate kept while it has room.  The reply may
\* be lost; or the leaf cannot be loaded for it or is hidden by now, and the
\* handler voids the hand-out.
HandOutFrom(a, i) ==
    LET c == ready[i]
        p == <<c.unit, a>>
        h == holds \cup {p}
    IN  /\ Eligible(a, c)
        /\ \A j \in 1..(i - 1) : ~Eligible(a, ready[j])
        /\ holds' = h
        /\ inflight' = [inflight EXCEPT ![a] = @ + 1]
        /\ \E sampled \in Samples(c) :
               LET spot == c.spot \/ sampled
                   red == IF sampled THEN 2 ELSE c.effectiveRedundancy
               IN  /\ spots' = IF spot THEN Append(spots, p) ELSE spots
                   /\ writes' = IF spot THEN writes ELSE Append(writes, p)
                   /\ ready' = IF c.dbActiveCount + Cardinality(Holders(h, c.unit)) < red
                               THEN [ready EXCEPT ![i].spot = spot, ![i].effectiveRedundancy = red]
                               ELSE DropUnit(c.unit)
        /\ \/ has' = has \cup {p} /\ UNCHANGED <<notices, used>>
           \/ May("lostReply") /\ UNCHANGED <<has, notices>>
           \/ May("unbuildable") /\ notices' = notices \cup {[kind |-> "void", of |-> p]} /\ UNCHANGED has
        /\ rpc' = [rpc EXCEPT ![a].found = @ /\ rpc[a].unit # c.unit]
        /\ UNCHANGED <<unit, copy, flight, refill, counts, fallback, report>>

HandOut(a) == \E i \in DOMAIN ready : HandOutFrom(a, i)

\* The rest of HandOutWithReason: nothing in the pool suits the requester, some
\* candidate refused it on its own account, and planFallbackLocked's throttle is over.
\* handOutFromDB lands a unit outside the pool and the holds for it, if there is one.
FallbackLands(a) ==
    /\ \A i \in DOMAIN ready : ~Eligible(a, ready[i])
    /\ \E i \in DOMAIN ready : RefusesAccount(a, ready[i])
    /\ inflight[a] < InflightCap
    /\ fallback[a] = {}
    /\ \E u \in Units \ (Staged \cup {p[1] : p \in holds}) :
          /\ Lands(<<u, a>>)
          /\ Land({<<u, a>>})
          /\ fallback' = [fallback EXCEPT ![a] = {u}]
    /\ UNCHANGED <<unit, cache, flight, refill, counts, rpc, has, notices, used>>

\* handOutFromDB's bookkeeping: the hold and the charge, nothing staged.
FallbackHolds(a) ==
    /\ fallback[a] # {}
    /\ holds' = holds \cup {<<u, a>> : u \in fallback[a]}
    /\ inflight' = [inflight EXCEPT ![a] = @ + 1]
    /\ has' = has \cup {<<u, a>> : u \in fallback[a]}
    /\ fallback' = [fallback EXCEPT ![a] = {}]
    /\ UNCHANGED <<db, ready, writes, spots, flight, refill, counts, report, rpc, notices, used>>

-----------------------------------------------------------------------------
(* The refiller.                                                           *)

\* fetchAndStage's query: the oldest want dispatchable units among some.
Fetch(among, want, wanted) ==
    LET found == {u \in among : Dispatchable(u, Staged \cup {p[1] : p \in holds})}
    IN  /\ refill = NoRefill /\ found # {}
        /\ \E row \in [1..Least(Cardinality(found), want) -> found] :
               /\ \A i, j \in DOMAIN row : i < j => row[i] < row[j]
               /\ \A i \in DOMAIN row, u \in found \ Range(row) : row[i] < u
               /\ refill' = [wanted |-> wanted, found |-> [i \in DOMAIN row |-> Candidate(row[i])]]
        /\ UNCHANGED <<db, cache, flight, counts, fallback, report, rpc, has, notices>>

\* refillOnce, below the low watermark: the excluded set is read under the lock, then
\* the units the pool has room for are queried.
RefillQueries ==
    /\ Len(ready) < ReadyPoolSize /\ Len(ready) < LowWatermark
    /\ Fetch(Units, Least(RefillBatchSize, ReadyPoolSize - Len(ready)), {})
    /\ UNCHANGED used

\* leafRefillOnce, for a requester that named its leaves and was handed nothing:
\* neither the watermark nor the ceiling holds it back.  A unit may be of a leaf of
\* its own, so any units may be those of the leaves named.
LeafRefillQueries(wanted) ==
    /\ May("leafDemand")
    /\ Fetch(wanted, RefillBatchSize, wanted)

\* What fetchAndStage may still stage: not held and not staged by now.
Stageable(c) == Holders(holds, c.unit) = {} /\ c.unit \notin Staged

\* evictForLeafDemandLocked: as many candidates as n more need room for make way, from
\* the back, unless they are of the leaves asked for or have a hold.
Evicted(n) ==
    LET evictable == {i \in DOMAIN ready : /\ ready[i].unit \notin refill.wanted
                                          /\ Holders(holds, ready[i].unit) = {}}
    IN  {ready[i] : i \in {k \in evictable :
            Cardinality({j \in evictable : j > k}) + ReadyPoolSize < Len(ready) + n}}

\* fetchAndStage's staging, under one lock, up to the pool's size; room is made only
\* for leaves that were asked for.
RefillStages ==
    LET new == Without(refill.found, {c \in Range(refill.found) : ~Stageable(c)})
        kept == Without(ready, IF refill.wanted = {} THEN {} ELSE Evicted(Len(new)))
    IN  /\ refill # NoRefill
        /\ ready' = kept \o SubSeq(new, 1, Least(Len(new), Monus(ReadyPoolSize, Len(kept))))
        /\ refill' = NoRefill
        /\ UNCHANGED <<db, holds, inflight, writes, spots, flight, counts, fallback, report,
                       rpc, has, notices, used>>

-----------------------------------------------------------------------------
(* The flusher, and a handler that flushes while it waits.                 *)

MayFlush(w) == w = Flusher \/ \E a \in Accounts \cap {w} : rpc[a].op \in {"startFlush", "abandonFlush"}

\* flushBatch takes a batch off the front; flushInFlight is raised.
FlushTakes(w) ==
    /\ flight[w].step = "idle" /\ MayFlush(w) /\ writes # <<>>
    /\ LET n == Least(Len(writes), FlushBatchSize)
       IN  /\ flight' = [flight EXCEPT ![w] = [step |-> "write", batch |-> SubSeq(writes, 1, n)]]
           /\ writes' = SubSeq(writes, n + 1, Len(writes))
    /\ UNCHANGED <<db, ready, holds, inflight, spots, refill, counts, fallback, report,
                   rpc, has, notices, used>>

\* A goroutine at a step of its flush, or done with it: endFlushInFlight.
At(step, batch) == [step |-> IF batch = <<>> THEN "idle" ELSE step, batch |-> batch]

InBatch(w) == {flight[w].batch[i] : i \in DOMAIN flight[w].batch}

\* FlushReservations and notQueuedStates succeed: the conflicts are left to void.
FlushLands(w) ==
    /\ flight[w].step = "write"
    /\ LET ok == {p \in InBatch(w) : Lands(p)}
       IN  /\ Land(ok)
           /\ flight' = [flight EXCEPT ![w] = At("void", Without(@.batch, ok))]
    /\ UNCHANGED <<unit, cache, refill, counts, fallback, rpc, has, notices, used>>

\* No maintenance slot, or the statement failed - before it took effect, or after:
\* requeueWrites puts the batch back at the front.
FlushFails(w) ==
    /\ flight[w].step = "write"
    /\ May("dbError")
    /\ \E ok \in {{}, {p \in InBatch(w) : Lands(p)}} : Land(ok)
    /\ writes' = flight[w].batch \o writes
    /\ flight' = [flight EXCEPT ![w] = [step |-> "idle", batch |-> <<>>]]
    /\ UNCHANGED <<unit, ready, holds, inflight, spots, refill, counts, fallback, rpc,
                   has, notices>>

\* One conflict: a unit that is no longer QUEUED is invalidated, another's copy is voided.
FlushVoids(w) ==
    /\ flight[w].step = "void" /\ flight[w].batch # <<>>
    /\ LET p == Head(flight[w].batch)
       IN  IF unit[p[1]].queued THEN CloseCopy({p}) ELSE Invalidate(p[1])
    /\ flight' = [flight EXCEPT ![w] = At("void", Tail(@.batch))]
    /\ UNCHANGED <<db, refill, counts, fallback, report, rpc, has, notices, used>>

\* flushSpotChecks takes its batch.
SpotTakes(w) ==
    /\ flight[w].step = "idle" /\ MayFlush(w) /\ spots # <<>>
    /\ w # Flusher => writes = <<>>
    /\ LET n == Least(Len(spots), FlushBatchSize)
       IN  /\ flight' = [flight EXCEPT ![w] = [step |-> "mark", batch |-> SubSeq(spots, 1, n)]]
           /\ spots' = SubSeq(spots, n + 1, Len(spots))
    /\ UNCHANGED <<db, ready, holds, inflight, writes, refill, counts, fallback, report,
                   rpc, has, notices, used>>

\* MarkSpotCheck, for the first of the batch.
SpotMarks(w) ==
    /\ flight[w].step = "mark" /\ flight[w].batch # <<>>
    /\ unit' = [unit EXCEPT ![Head(flight[w].batch)[1]].spot = TRUE]
    /\ flight' = [flight EXCEPT ![w].step = "reserve"]
    /\ UNCHANGED <<copy, cache, refill, counts, fallback, report, rpc, has, notices, used>>

\* ReserveCopy, which re-checks everything but the headroom; a refusal voids the hold.
SpotReserves(w) ==
    /\ flight[w].step = "reserve"
    /\ LET p == Head(flight[w].batch)
       IN  IF unit[p[1]].queued /\ copy[p] = None
           THEN Land({p}) /\ UNCHANGED cache
           ELSE Release({p}) /\ UNCHANGED <<copy, report, ready>>
    /\ flight' = [flight EXCEPT ![w] = At("mark", Tail(@.batch))]
    /\ UNCHANGED <<unit, refill, counts, fallback, rpc, has, notices, used>>

\* MarkSpotCheck or ReserveCopy failed, perhaps after it took effect: the hold is voided, a mark stays.
SpotFails(w) ==
    /\ flight[w].step \in {"mark", "reserve"} /\ flight[w].batch # <<>>
    /\ May("dbError")
    /\ LET p == Head(flight[w].batch)
           effects == IF flight[w].step = "reserve" /\ unit[p[1]].queued /\ copy[p] = None
                      THEN {{}, {p}} ELSE {{}}
       IN  Release({p}) /\ \E ok \in effects : Land(ok)
    /\ flight' = [flight EXCEPT ![w] = At("mark", Tail(@.batch))]
    /\ UNCHANGED <<unit, ready, refill, counts, fallback, rpc, has, notices>>

\* No maintenance slot within the timeout: requeueSpotChecks.
SpotRequeues ==
    /\ flight[Flusher].step = "mark" /\ flight[Flusher].batch # <<>>
    /\ May("noSlot")
    /\ spots' = <<Head(flight[Flusher].batch)>> \o spots
    /\ flight' = [flight EXCEPT ![Flusher] = At("mark", Tail(@.batch))]
    /\ UNCHANGED <<db, ready, holds, inflight, writes, refill, counts, fallback, report,
                   rpc, has, notices>>

\* p's write has been accepted and is neither durable nor refused yet.
Unsettled(p) ==
    \/ \E i \in DOMAIN writes : writes[i] = p
    \/ \E i \in DOMAIN spots : spots[i] = p
    \/ \E w \in DOMAIN flight : p \in InBatch(w)

\* Mutant of NothingPending: a batch in flight is not waited for.
QueuesEmpty == writes = <<>> /\ spots = <<>>

\* flushAllPendingHeld's condition: nothing queued, no batch in flight.
NothingPending == writes = <<>> /\ spots = <<>> /\ \A w \in DOMAIN flight : flight[w].step = "idle"

-----------------------------------------------------------------------------
(* The volunteer's calls.                                                  *)

\* StartWork and AbandonWorkUnit look for an in-memory hold first.
\* A unit that is no longer QUEUED refuses the start, and the volunteer drops it.
StartWork(p) ==
    /\ p \in has /\ rpc[p[2]].op = "idle" /\ copy[p] # "running"
    /\ IF unit[p[1]].queued
       THEN /\ rpc' = [rpc EXCEPT ![p[2]] =
                          [op |-> IF p \in holds THEN "startFlush" ELSE "assign",
                           unit |-> p[1], found |-> p \in holds]]
            /\ UNCHANGED has
       ELSE has' = has \ {p} /\ UNCHANGED rpc
    /\ UNCHANGED <<db, cache, flight, refill, counts, fallback, report, notices, used>>

AbandonWorkUnit(p) ==
    /\ p \in has /\ rpc[p[2]].op = "idle"
    /\ May("giveBack")
    /\ rpc' = [rpc EXCEPT ![p[2]] =
                  [op |-> IF p \in holds THEN "abandonFlush" ELSE "close",
                   unit |-> p[1], found |-> p \in holds]]
    /\ UNCHANGED <<db, cache, flight, refill, counts, fallback, report, has, notices>>

\* flushPendingFor returns true.
Flushed(a) ==
    /\ rpc[a].op \in {"startFlush", "abandonFlush"}
    /\ NothingPending
    /\ rpc' = [rpc EXCEPT ![a].op = IF @ = "startFlush" THEN "assignHeld" ELSE "closeHeld"]
    /\ UNCHANGED <<db, cache, flight, refill, counts, fallback, report, has, notices, used>>

\* ... or times out: RESOURCE_EXHAUSTED, and the volunteer drops the unit.
FlushTimesOut(a) ==
    /\ rpc[a].op \in {"startFlush", "abandonFlush"} /\ flight[a].step = "idle"
    /\ May("noSlot")
    /\ rpc' = [rpc EXCEPT ![a] = Idle]
    /\ has' = has \ {<<rpc[a].unit, a>>}
    /\ UNCHANGED <<db, cache, flight, refill, counts, fallback, report, notices>>

\* Assign: the live copy is started; without one the start is refused.
Assign(a) ==
    LET p == <<rpc[a].unit, a>>
    IN  /\ rpc[a].op \in {"assign", "assignHeld"}
        /\ IF Live(p)
           THEN /\ copy' = [copy EXCEPT ![p] = "running"]
                /\ notices' = notices \cup {[kind |-> "started", of |-> p]}
                /\ UNCHANGED has
           ELSE has' = has \ {p} /\ UNCHANGED <<copy, notices>>
        /\ rpc' = [rpc EXCEPT ![a] = Idle]
        /\ UNCHANGED <<unit, cache, flight, refill, counts, fallback, report, used>>

\* CloseCopyByVolunteer: the copy is closed, un-run or failed; without one the
\* hold, if there was one, is released.  The volunteer drops the unit.
CloseByVolunteer(a) ==
    LET p == <<rpc[a].unit, a>>
    IN  /\ rpc[a].op \in {"close", "closeHeld"}
        /\ IF Live(p)
           THEN /\ copy' = [copy EXCEPT ![p] = "cooling"]
                /\ notices' = notices \cup {[kind |-> "closed", of |-> p]}
                /\ UNCHANGED cache
           ELSE /\ IF rpc[a].op = "closeHeld" THEN Release({p}) ELSE UNCHANGED <<holds, inflight, writes, spots>>
                /\ UNCHANGED <<copy, notices, ready>>
        /\ rpc' = [rpc EXCEPT ![a] = Idle]
        /\ has' = has \ {p}
        /\ UNCHANGED <<unit, flight, refill, counts, fallback, report, used>>

\* SubmitResult: the copy completes; the verdict falls when the target is reached,
\* and then the cache is told the unit is done.  Work begins with the answer to
\* StartWork, which is sent after its notice.
SubmitResult(p) ==
    LET covered == {a \in Accounts : copy[<<p[1], a>>] = "result"} \cup {p[2]}
        done == Cardinality(covered) >= EffectiveRedundancy(p[1])
    IN  /\ p \in has /\ copy[p] = "running" /\ [kind |-> "started", of |-> p] \notin notices
        /\ copy' = [copy EXCEPT ![p] = "result"]
        /\ unit' = [unit EXCEPT ![p[1]].queued = ~done /\ @]
        /\ has' = has \ {p}
        /\ notices' = IF done THEN notices \cup {[kind |-> "done", of |-> p]} ELSE notices
        /\ UNCHANGED <<cache, flight, refill, counts, fallback, report, rpc, used>>

\* The handler that made the change tells the cache.
Notify(n) ==
    /\ n \in notices
    /\ notices' = notices \ {n}
    /\ CASE n.kind = "started" -> OnRunStart(n.of)
         [] n.kind = "closed" -> CloseCopy({n.of})
         [] n.kind = "done" -> OnUnitDone(n.of[1])
         [] n.kind = "void" -> Release({n.of}) /\ UNCHANGED ready
    /\ UNCHANGED <<db, flight, refill, counts, fallback, report, rpc, has, used>>

-----------------------------------------------------------------------------
(* Sweeps, time and failures.                                              *)

\* Nobody is working on p's write or on p: leases and deadlines last longer than a
\* write stays queued and than a call takes.
Quiet(p) == ~Unsettled(p) /\ rpc[p[2]].unit # p[1] /\ \A n \in notices : n.of # p

\* A lease or a run deadline has run out: the fault monitor closes the copy, on this
\* replica or on another, which does not tell this one.
ExpireCopy(p) ==
    /\ Live(p) /\ Quiet(p)
    /\ copy' = [copy EXCEPT ![p] = "cooling"]
    /\ \/ notices' = notices \cup {[kind |-> "closed", of |-> p]} /\ UNCHANGED used
       \/ May("elsewhere") /\ UNCHANGED notices
    /\ UNCHANGED <<unit, cache, flight, refill, counts, fallback, report, rpc, has>>

\* The cooldown after a close has passed.
CooldownEnds(p) ==
    /\ copy[p] = "cooling" /\ CooldownsEnd
    /\ copy' = [copy EXCEPT ![p] = None]
    /\ UNCHANGED <<unit, cache, flight, refill, counts, fallback, report, rpc, has, notices, used>>

\* A bench entry of a staged candidate has run out.
BenchEnds(i, a) ==
    /\ i \in DOMAIN ready /\ a \in ready[i].benched
    /\ ready' = [ready EXCEPT ![i].benched = @ \ {a}]
    /\ UNCHANGED <<db, holds, inflight, writes, spots, flight, refill, counts, fallback,
                   report, rpc, has, notices, used>>

\* Mutant of NoteVolunteerHeld: units with a hold in memory are taken to be held.
NoteHeldTrustingHolds(a) ==
    LET missing == {u \in Units : Live(<<u, a>>) /\ <<u, a>> \notin has \cup holds}
    IN  /\ fallback[a] = {}
        /\ report[a] # missing /\ missing # {}
        /\ report' = [report EXCEPT ![a] = missing]
        /\ UNCHANGED <<db, cache, flight, refill, counts, fallback, rpc, has, notices, used>>

\* NoteVolunteerHeld: a request carries the units the machine holds.  What the
\* reconciler may release is decided by then: live rows older than the grace
\* period that the machine does not hold.
NoteVolunteerHeld(a) ==
    LET missing == {u \in Units : Live(<<u, a>>) /\ <<u, a>> \notin has}
    IN  /\ fallback[a] = {}
        /\ report[a] # missing /\ missing # {}
        /\ report' = [report EXCEPT ![a] = missing]
        /\ UNCHANGED <<db, cache, flight, refill, counts, fallback, rpc, has, notices, used>>

\* reconcileHeldCopies: ReleaseStaleHeldCopies closes the rows, then the cache is told.
ReconcileHeld(a) ==
    LET stale == {<<u, a>> : u \in report[a]}
    IN  /\ \E p \in stale : Live(p)
        /\ copy' = [p \in Pairs |-> IF p \in stale /\ Live(p) THEN "cooling" ELSE copy[p]]
        /\ notices' = notices \cup {[kind |-> "closed", of |-> p] : p \in {q \in stale : Live(q)}}
        /\ report' = [report EXCEPT ![a] = {}]
        /\ UNCHANGED <<unit, cache, flight, refill, counts, fallback, rpc, has, used>>

\* Mutant of ReleaseLapsedHolds: the backstop is not there.
KeepLapsedHolds == FALSE /\ UNCHANGED vars

\* releaseLapsedHolds: the lease ran out lapsedHoldGrace ago, time enough for the
\* fault monitor to have closed the copy.
ReleaseLapsedHolds ==
    LET over == {p \in holds : ~Live(p) /\ Quiet(p)}
    IN  /\ over # {}
        /\ Release(over)
        /\ UNCHANGED <<db, ready, flight, refill, counts, fallback, report, rpc, has, notices, used>>

\* reconcileOnce: the charge of every machine becomes the database's count plus what
\* is queued.
QueuedFor(a, queue) == Cardinality({i \in DOMAIN queue : queue[i][2] = a})
Recounted(active) == [a \in Accounts |-> active[a] + QueuedFor(a, writes) + QueuedFor(a, spots)]

ReconcileCounts ==
    /\ inflight' = Recounted(CountActiveByHost)
    /\ UNCHANGED <<db, ready, holds, writes, spots, flight, refill, counts, fallback, report,
                   rpc, has, notices, used>>

\* ... the count is read first, and applied under the lock later.
ReconcileReads ==
    /\ counts = <<>> /\ May("slowCount")
    /\ counts' = <<CountActiveByHost>>
    /\ UNCHANGED <<db, cache, flight, refill, fallback, report, rpc, has, notices>>

ReconcileApplies ==
    /\ counts # <<>>
    /\ inflight' = Recounted(counts[1])
    /\ counts' = <<>>
    /\ UNCHANGED <<db, ready, holds, writes, spots, flight, refill, fallback, report, rpc,
                   has, notices, used>>

\* The transitioner re-opens the unit, or an operator requeues it: its results and
\* copies are set aside and the cache is told to forget it.
Requeue(u) ==
    /\ May("invalidate")
    /\ copy' = [p \in Pairs |-> IF p[1] = u THEN None ELSE copy[p]]
    /\ unit' = [unit EXCEPT ![u].queued = TRUE]
    /\ Invalidate(u)
    /\ UNCHANGED <<flight, refill, counts, fallback, report, rpc, has, notices>>

\* The head crashes; a restarted head has an empty cache.  Volunteers keep their units,
\* except those a StartWork or AbandonWorkUnit was not answered for.
Crash ==
    /\ May("crash")
    /\ ready' = <<>> /\ holds' = {} /\ inflight' = [a \in Accounts |-> 0]
    /\ writes' = <<>> /\ spots' = <<>>
    /\ flight' = [w \in DOMAIN flight |-> [step |-> "idle", batch |-> <<>>]]
    /\ refill' = NoRefill /\ counts' = <<>>
    /\ fallback' = [a \in Accounts |-> {}]
    /\ report' = [a \in Accounts |-> {}]
    /\ rpc' = [a \in Accounts |-> Idle]
    /\ has' = has \ ({<<rpc[a].unit, a>> : a \in Accounts} \cup {n.of : n \in {m \in notices : m.kind = "started"}})
    /\ notices' = {}
    /\ UNCHANGED db

Serve(a) == HandOut(a) \/ FallbackLands(a) \/ FallbackHolds(a)
Refill == RefillQueries \/ RefillStages
LeafDemand == \E wanted \in SUBSET Units : LeafRefillQueries(wanted)
Flush(w) == FlushTakes(w) \/ FlushLands(w) \/ FlushVoids(w)
               \/ SpotTakes(w) \/ SpotMarks(w) \/ SpotReserves(w)
Call(p) == StartWork(p) \/ SubmitResult(p)
Answer(a) == Flushed(a) \/ Assign(a) \/ CloseByVolunteer(a)
Sweep(p) == ExpireCopy(p) \/ CooldownEnds(p)
Reconcile == ReleaseLapsedHolds \/ ReconcileCounts \/ ReconcileReads \/ ReconcileApplies
                \/ \E a \in Accounts : NoteVolunteerHeld(a) \/ ReconcileHeld(a)
Failure == \/ \E w \in DOMAIN flight : FlushFails(w) \/ SpotFails(w)
           \/ SpotRequeues \/ Crash
           \/ \E a \in Accounts : FlushTimesOut(a)
           \/ \E u \in Units : Requeue(u)

Next ==
    \/ Refill \/ LeafDemand \/ Reconcile \/ Failure
    \/ \E a \in Accounts : Serve(a) \/ Answer(a)
    \/ \E w \in DOMAIN flight : Flush(w)
    \/ \E p \in Pairs : Call(p) \/ AbandonWorkUnit(p) \/ Sweep(p)
    \/ \E n \in notices : Notify(n)
    \/ \E i \in DOMAIN ready, a \in Accounts : BenchEnds(i, a)

Spec == Init /\ [][Next]_vars

\* The tickers of the refiller, the flusher and the reconciler keep firing, handlers
\* run to their end, volunteers keep asking for work, reporting what they hold and
\* doing it, and cooldowns pass; no deadline needs to.
Fairness ==
    /\ WF_vars(Refill) /\ WF_vars(ReleaseLapsedHolds)
    /\ WF_vars(ReconcileCounts) /\ WF_vars(ReconcileApplies)
    /\ \A a \in Accounts : /\ WF_vars(HandOut(a))
                           /\ WF_vars(FallbackLands(a)) /\ WF_vars(FallbackHolds(a))
                           /\ WF_vars(Answer(a))
                           /\ WF_vars(NoteVolunteerHeld(a)) /\ WF_vars(ReconcileHeld(a))
    /\ \A w \in Accounts \cup {Flusher} : WF_vars(Flush(w))
    /\ \A p \in Pairs : /\ WF_vars(Call(p)) /\ WF_vars(CooldownEnds(p))
    /\ WF_vars(\E n \in notices : Notify(n))
    /\ \A i \in 1..ReadyPoolSize, a \in Accounts : WF_vars(BenchEnds(i, a))

FairSpec == Spec /\ Fairness

-----------------------------------------------------------------------------
(* Properties.                                                             *)

\* The rows and the cache keep their shape: in particular no meter goes below zero
\* (Release clamps a second release) and the ready pool stays within its size.
TypeOK ==
    /\ unit \in [Units -> [queued : BOOLEAN, spot : BOOLEAN]]
    /\ copy \in [Pairs -> {None, "reserved", "running", "cooling", "result"}]
    /\ holds \subseteq Pairs /\ has \subseteq Pairs
    /\ inflight \in [Accounts -> Nat]
    /\ Len(ready) <= ReadyPoolSize
    /\ \A i, j \in DOMAIN ready : ready[i].unit = ready[j].unit => i = j

\* When StartWork or AbandonWorkUnit goes on to the database after its flush, the
\* reservation it found in memory has landed or was voided - it cannot land behind
\* the handler's back - whatever the flusher, the reconciler and the database did.
FlushSettles ==
    \A p \in holds :
        rpc[p[2]] \in [op : {"assignHeld", "closeHeld"}, unit : {p[1]}, found : {TRUE}] => ~Unsettled(p)

\* A copy in the database that its volunteer does not have (a lost reply, a hold
\* dropped while its write was in flight) is given back.
GhostCopiesReturn ==
    \A p \in Pairs : (Live(p) /\ p \notin has) ~> (~Live(p) \/ p \in has)

\* A staged candidate that only lacks a volunteer who has not worked on the unit.
AwaitsNewcomer(u) ==
    \E c \in Range(ready) :
        /\ c.unit = u /\ Accounts \subseteq c.contributors
        /\ c.dbActiveCount + Cardinality(Holders(holds, u)) < c.effectiveRedundancy

\* A QUEUED unit nobody works on gets a copy: no hold whose close this replica never
\* heard of, no staged candidate nobody may take, no mark without a copy keeps it away.
\* A candidate read while an account had a copy refuses that account until somebody
\* else has taken it, even when the copy has ended.
NoUnitForgotten ==
    \A u \in Units : (unit[u].queued /\ Covering(u) = {})
                       ~> (~unit[u].queued \/ Covering(u) # {} \/ AwaitsNewcomer(u))

=============================================================================
