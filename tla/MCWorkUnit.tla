----------------------------- MODULE MCWorkUnit -----------------------------
(***************************************************************************)
(* Instances of WorkUnit for TLC.                                          *)
(***************************************************************************)
EXTENDS WorkUnit, TLC

CONSTANTS v1, v2, v3, t1, t2, o1, o2, o3

\* A leaf with the given effective target, quorum and ceilings (0: default).
LeafOf(target, quorum, maxTotal, maxError) ==
    [ redundancyFactor |-> 1, targetCopies |-> target, minQuorum |-> quorum,
      maxTotalCopies |-> maxTotal, maxErrorCopies |-> maxError, threshold |-> 0,
      spotCheckEnabled |-> FALSE, minTrusted |-> 0 ]

LeafPair      == LeafOf(2, 2, 3, 0)     \* two copies, both must agree
LeafTight     == LeafOf(2, 2, 2, 0)     \* ... and none to spare
LeafMajority  == [LeafOf(3, 2, 4, 0) EXCEPT !.threshold = 60]   \* two of three
LeafEither    == LeafOf(2, 1, 4, 0)     \* two copies, an undisputed one will do
LeafSpotCheck == [LeafOf(1, 1, 3, 0) EXCEPT !.spotCheckEnabled = TRUE]

\* How often each rare event may happen.
Rare(kinds) == [k \in Events |-> IF k \in kinds THEN 1 ELSE 0]

NoRareEvents   == Rare({})
CoreEvents     == Rare({"flush", "revive"})
StandingEvents == Rare({"standing"})
EnforceEvents  == Rare({"enforce", "requeue", "release"})
EnforceCrash   == Rare({"enforce", "crash"})
ParkedEvents   == Rare({"spot", "enforce", "crash"})

SpotAlone == {{"spot", "crash"}, {"spot", "enforce"}}

SubjectIsSelf == [v \in Volunteers |-> v]

\* v1 and v2 are accounts of one person, who has a DID.
Siblings == [v \in Volunteers |-> IF v \in {v1, v2} THEN "did" ELSE v]

OutputsAsymmetric == Permutations(Volunteers) \cup Permutations(Threads)
SiblingsSymmetric == Permutations({v1, v2}) \cup Permutations(Threads) \cup Permutations(Outputs)
=============================================================================
