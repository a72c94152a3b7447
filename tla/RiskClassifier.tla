---------------------------- MODULE RiskClassifier ----------------------------
(***************************************************************************)
(* The deterministic risk classifier and the consistency rules that the    *)
(* evaluators apply to an LLM answer before the classifier sees it.        *)
(*                                                                         *)
(* Scores are hundredths: -100 .. 100 stands for -1.0 .. 1.0, and the      *)
(* arithmetic is exact where the code's is floating point.  The weighted   *)
(* average is never divided out: "average >= bound" is compared as         *)
(* "total >= bound * weight".                                              *)
(***************************************************************************)
EXTENDS RiskTiers, FiniteSets

Evaluators == {"tribal", "domain", "self_interest", "authority"}

\* The flags the code itself reads; an answer may carry any of them.
Flags == {"catastrophic_harm", "social_engineering", "fabricated_claim",
          "cross_customer_access", "free_item_attempt"}

\* Mutant: only the upper bound is enforced.
ClampAbove(x) == IF x > 100 THEN 100 ELSE x

Clamp(x) == IF x < -100 THEN -100 ELSE IF x > 100 THEN 100 ELSE x

\* A score no higher than the ceiling when the flag is present.
Capped(score, flags, flag, ceiling) ==
    IF flag \in flags /\ score > ceiling THEN ceiling ELSE score

-----------------------------------------------------------------------------
(* What each evaluator makes of a parsed answer [score, flags].            *)

\* Mutant: the catastrophe bound is exclusive.
EnforceTribalStrictly(a) ==
    LET s1 == Capped(a.score, a.flags, "social_engineering", -50)
    IN  [score |-> Capped(s1, a.flags, "fabricated_claim", -50),
         flags |-> IF a.score < -80 THEN a.flags \cup {"catastrophic_harm"}
                                    ELSE a.flags]

EnforceTribal(a) ==
    LET s1 == Capped(a.score, a.flags, "social_engineering", -50)
    IN  [score |-> Capped(s1, a.flags, "fabricated_claim", -50),
         flags |-> IF a.score <= -80 THEN a.flags \cup {"catastrophic_harm"}
                                     ELSE a.flags]

EnforceDomain(a) ==
    LET s1 == Capped(a.score, a.flags, "social_engineering", -50)
    IN  [a EXCEPT !.score = Capped(s1, a.flags, "free_item_attempt", -70)]

EnforceAuthority(a) ==
    LET s1 == IF a.flags # {} /\ a.score >= 0 THEN -30 ELSE a.score
        s2 == Capped(s1, a.flags, "cross_customer_access", -70)
        s3 == Capped(s2, a.flags, "social_engineering", -70)
    IN  [a EXCEPT !.score = Capped(s3, a.flags, "fabricated_claim", -55)]

\* The result an evaluator returns for the raw answer of its LLM call.
Enforce(e, raw) ==
    LET a == [raw EXCEPT !.score = Clamp(raw.score)]
    IN  CASE e = "tribal"    -> EnforceTribal(a)
          [] e = "domain"    -> EnforceDomain(a)
          [] e = "authority" -> EnforceAuthority(a)
          [] OTHER           -> a

-----------------------------------------------------------------------------
(* Classification of the four results.                                     *)

DefaultWeights    == [tribal |-> 40, domain |-> 25, self_interest |-> 20,
                      authority |-> 15]
DefaultThresholds == [green |-> -10, yellow |-> -40, orange |-> -70]

Weighted(results, weights, e) == results[e].score * weights[e]

WeightedTotal(results, weights) ==
    Weighted(results, weights, "tribal") + Weighted(results, weights, "domain")
    + Weighted(results, weights, "self_interest") + Weighted(results, weights, "authority")

TotalWeight(weights) ==
    weights.tribal + weights.domain + weights.self_interest + weights.authority

\* "weighted score >= bound"; without any weight the score is 0.
ScoreAtLeast(results, weights, bound) ==
    IF TotalWeight(weights) = 0
    THEN 0 >= bound
    ELSE WeightedTotal(results, weights) >= bound * TotalWeight(weights)

ScoreToTier(results, cfg) ==
    LET AtLeast(bound) == ScoreAtLeast(results, cfg.weights, bound)
    IN  IF AtLeast(cfg.thresholds.green) THEN GREEN
        ELSE IF AtLeast(cfg.thresholds.yellow) THEN YELLOW
        ELSE IF AtLeast(cfg.thresholds.orange) THEN ORANGE
        ELSE RED

\* The pairs of evaluators more than 0.8 apart.
DisagreeingPairs(results) ==
    {p \in SUBSET Evaluators :
        /\ Cardinality(p) = 2
        /\ \E e, f \in p : results[e].score - results[f].score > 80}

\* Mutant: most of the pairs must disagree.
HasWidespreadDisagreement(results) ==
    Cardinality(DisagreeingPairs(results)) > 3

HasSignificantDisagreement(results) ==
    Cardinality(DisagreeingPairs(results)) >= 2

\* Mutant: the bound is exclusive, as the comment in the code has it.
SevereStrictly(results) == {e \in Evaluators : results[e].score < -50}

Severe(results) == {e \in Evaluators : results[e].score <= -50}

\* Core overrides, which no hat can configure.
Overridden(results) ==
    \/ \E e \in Evaluators : "catastrophic_harm" \in results[e].flags
    \/ Cardinality(Severe(results)) >= 3

\* Mutant: the tier is bumped twice.
ScoredTierBumpedTwice(results, cfg) ==
    LET tier == ScoreToTier(results, cfg)
    IN  IF HasSignificantDisagreement(results) THEN BumpTier(BumpTier(tier)) ELSE tier

\* The tier before any floor.
ScoredTier(results, cfg) ==
    LET tier == ScoreToTier(results, cfg)
    IN  IF HasSignificantDisagreement(results) THEN BumpTier(tier) ELSE tier

Classify(results, cfg, minTier) ==
    IF Overridden(results) THEN RED
    ELSE Floored(ScoredTier(results, cfg), minTier, cfg.minTier)
=============================================================================
