-------------------------------- MODULE Audit --------------------------------
(***************************************************************************)
(* The audit database: a decision is stored in one transaction, and        *)
(* outcomes and feedback are reported for it later.  A decision is known   *)
(* by the turn it was made in; the rows that describe it (proposals,       *)
(* trees, evaluations, hat snapshot) are stored with it and left out.      *)
(***************************************************************************)
EXTENDS Integers

VARIABLES
    decisions,   \* the turns that have a decision
    outcomes,    \* <<decision, report>>: the outcomes
    feedback     \* <<decision, report>>: the feedback

auditVars == <<decisions, outcomes, feedback>>

StoreDecision(turn) == decisions' = decisions \cup {turn}

HasOutcome(d) == \E o \in outcomes : o[1] = d

\* What report_outcome answers once it has read decision d, 0 if it goes on.
OutcomeRead(d) == CASE d \notin decisions                  -> 404
                    [] d \in decisions /\ HasOutcome(d)  -> 409
                    [] d \in decisions /\ ~HasOutcome(d) -> 0

\* Mutant: decision_id of an outcome is not unique.
StoreAnyOutcome(d, report) == outcomes' = outcomes \cup {<<d, report>>}

\* decision_id of an outcome is unique: the transaction of a second one fails.
StoreOutcome(d, report) ==
    /\ ~HasOutcome(d)
    /\ outcomes' = outcomes \cup {<<d, report>>}

StoreFeedback(d, report) == feedback' = feedback \cup {<<d, report>>}
=============================================================================
