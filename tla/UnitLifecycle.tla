---------------------------- MODULE UnitLifecycle ----------------------------
(***************************************************************************)
(* What the head promises about one work unit, with all of its machinery   *)
(* taken away: results are votes, a round ends in one atomic step that     *)
(* leaves no vote undecided behind, credit is paid in that step and at     *)
(* most once per vote, and a decided vote is only ever overturned by an    *)
(* audit of an accepted unit.                                              *)
(*                                                                         *)
(* WorkUnit implements this specification: there, a round is a dozen SQL   *)
(* statements of several processes.                                        *)
(***************************************************************************)
CONSTANT Voters

VARIABLES
    phase,      \* open, accepted or failed
    vote,       \* each voter's vote: none, open, won, lost or aside
    paid        \* the voters that were ever paid

vars == <<phase, vote, paid>>

Votes == {"none", "open", "won", "lost", "aside"}

Open == {v \in Voters : vote[v] = "open"}

TypeOK ==
    /\ phase \in {"open", "accepted", "failed"}
    /\ vote \in [Voters -> Votes]
    /\ paid \subseteq Voters

Init ==
    /\ phase = "open"
    /\ vote = [v \in Voters |-> "none"]
    /\ paid = {}

\* A result arrives; only an unfinished unit takes it.
Cast(v) ==
    /\ phase = "open" /\ vote[v] = "none"
    /\ vote' = [vote EXCEPT ![v] = "open"]
    /\ UNCHANGED <<phase, paid>>

\* The round is decided: somebody wins who was not paid before, everyone else
\* loses or is set aside, nobody stays undecided.  Only winners are paid (all
\* of them, unless credit is capped).
Accept ==
    /\ phase = "open" /\ phase' = "accepted"
    /\ vote' \in [Voters -> Votes]
    /\ \A v \in Voters \ Open : vote'[v] = vote[v]
    /\ \A v \in Open : vote'[v] \in {"won", "lost", "aside"}
    /\ \E v \in Open : vote'[v] = "won"
    /\ \A v \in Open \cap paid : vote'[v] # "won"
    /\ paid \subseteq paid'
    /\ paid' \subseteq paid \cup {v \in Open : vote'[v] = "won"}

\* The round is lost by some, won by nobody, and the unit goes on.
RejectRound ==
    /\ phase = "open"
    /\ vote' \in [Voters -> Votes]
    /\ \A v \in Voters : vote'[v] # vote[v] => v \in Open /\ vote'[v] = "lost"
    /\ UNCHANGED <<phase, paid>>

\* The unit is given up and its undecided votes are set aside, unpaid.
GiveUp ==
    /\ phase = "open"
    /\ phase' = "failed"
    /\ vote' = [v \in Voters |-> IF v \in Open THEN "aside" ELSE vote[v]]
    /\ UNCHANGED paid

\* The operator revives it; what was set aside votes again.
Revive ==
    /\ phase = "failed"
    /\ phase' = "open"
    /\ vote' = [v \in Voters |-> IF vote[v] = "aside" THEN "open" ELSE vote[v]]
    /\ UNCHANGED paid

\* An audit of the accepted unit: the winners are refuted, a loser v is restored
\* and then paid, and when nobody is left winning the unit goes back to work.
Refute ==
    /\ phase = "accepted"
    /\ vote' = [v \in Voters |-> IF vote[v] = "won" THEN "lost" ELSE vote[v]]
    /\ UNCHANGED <<phase, paid>>

Restore(v) ==
    /\ phase = "accepted" /\ vote[v] = "lost"
    /\ vote' = [vote EXCEPT ![v] = "won"]
    /\ UNCHANGED <<phase, paid>>

Compensate(v) ==
    /\ phase = "accepted" /\ vote[v] = "won"
    /\ paid' = paid \cup {v}
    /\ UNCHANGED <<phase, vote>>

Demote ==
    /\ phase = "accepted"
    /\ \A v \in Voters : vote[v] # "won"
    /\ phase' = "open"
    /\ UNCHANGED <<vote, paid>>

Next ==
    \/ \E v \in Voters : Cast(v) \/ Restore(v) \/ Compensate(v)
    \/ Accept \/ RejectRound \/ GiveUp \/ Revive \/ Refute \/ Demote

Spec == Init /\ [][Next]_vars

\* Somebody wins exactly while the unit is accepted and unaudited; winners
\* never coexist with undecided votes.
WinnersOnlyWhenAccepted ==
    (\E v \in Voters : vote[v] = "won") => phase = "accepted" /\ Open = {}
=============================================================================
