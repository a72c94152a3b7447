--------------------------- MODULE MCEvaluationPanel ---------------------------
(***************************************************************************)
(* Instances of the evaluation panel.  The raw scores straddle every bound *)
(* the code compares with: -0.8 (veto), -0.5 (severe), -0.1 (GREEN), the   *)
(* flag ceilings, and the 0.8 distance.                                    *)
(***************************************************************************)
EXTENDS EvaluationPanel

Default(min) == [weights |-> DefaultWeights, thresholds |-> DefaultThresholds,
                 minTier |-> min]

\* A hat that trusts one evaluator only and has lenient thresholds.
Lenient == [weights    |-> [e \in Evaluators |-> IF e = "self_interest" THEN 10 ELSE 0],
            thresholds |-> [green |-> -30, yellow |-> -60, orange |-> -90],
            minTier    |-> NONE]

\* A hat whose weights are all zero: the score is 0 whatever is answered.
Weightless == [Default(YELLOW) EXCEPT !.weights = [e \in Evaluators |-> 0]]

MCHatConfigs == {Default(NONE), Lenient, Weightless}

\* No flag, the flag that all three rule-based evaluators know, and one of the
\* evaluator's own.
MCFlagSets == [tribal        |-> {{}, {"social_engineering"}, {"fabricated_claim"}},
               domain        |-> {{}, {"social_engineering"}, {"free_item_attempt"}},
               self_interest |-> {{}},
               authority     |-> {{}, {"social_engineering"}, {"cross_customer_access"}}]

MCRawScores == {-120, -80, -45, -5, 40}
MCMinTiers  == {NONE, ORANGE}
=============================================================================
