------------------------------ MODULE MCPolicy ------------------------------
(***************************************************************************)
(* Instances of Policy for TLC.                                            *)
(***************************************************************************)
EXTENDS Policy, Sequences

LeafSpace(copies, ceilings, thresholds) ==
    {c \in [ redundancyFactor : copies, targetCopies : {0} \cup copies,
             minQuorum : {0} \cup copies, maxTotalCopies : ceilings,
             maxErrorCopies : ceilings, threshold : thresholds,
             spotCheckEnabled : BOOLEAN, minTrusted : 0..2 ] : ValidateValidationConfig(c)}

\* Up to three copies; the ceilings 0 (default) and 3; every trust requirement.
SmallLeafs == {c \in LeafSpace(1..3, {0, 3}, {60}) :
                 /\ c.targetCopies > 0 => c.redundancyFactor < 3
                 /\ c.minTrusted < 2}

SomeRefunds == {<<2, 1>>}

\* Up to two results and one live copy, with the counts around every ceiling that
\* the leafs and the refund produce.
SmallSnapshots ==
    {s \in [ state : States, live : 0..1, probationLive : 0..1, total : {0, 2, 3, 9},
             errors : {0, 3}, pending : 0..2, probationPending : 0..1,
             verdict : {NoVerdict, [majority |-> 2, total |-> 2, trusted |-> 1],
                        [majority |-> 1, total |-> 2, trusted |-> 0]} ] :
       /\ s.probationLive <= s.live /\ s.probationPending <= s.pending
       /\ s.verdict.total <= s.pending - s.probationPending}
=============================================================================
