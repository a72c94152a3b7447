------------------------- MODULE EvaluationPanelProofs -------------------------
(***************************************************************************)
(* What the evaluation panel guarantees for every hat configuration - any  *)
(* weights, thresholds and min_tier - and whatever scores and flags the    *)
(* LLM answers.                                                            *)
(***************************************************************************)
EXTENDS EvaluationPanel, TLAPS, FiniteSetTheorems

RawAnswers == [score : Int, flags : SUBSET Flags]
Results    == [score : -100..100, flags : SUBSET Flags]

\* Every result is what its evaluator makes of the answer; a verdict is that of
\* four results, and satisfies the properties to be proved.
PanelTyped ==
    /\ cfg \in HatConfigs /\ minTier \in MinTiers
    /\ DOMAIN results \subseteq Evaluators
    /\ DOMAIN raw = DOMAIN results
    /\ \A e \in DOMAIN results : raw[e] \in Answers(e) /\ results[e] = Enforce(e, raw[e])
    /\ status \in {"running", "classified", "failed"}
    /\ IF status = "classified"
       THEN DOMAIN results = Evaluators /\ verdict \in Tier
            /\ verdict = Classify(results, cfg, minTier)
       ELSE verdict = NONE

PanelIInv ==
    /\ PanelTyped
    /\ FloorsCompose
    /\ TribalVeto
    /\ AgreedSocialEngineeringIsRed
    /\ LoneDissentIsNotGreen

\* An answer of any of the evaluators is a raw answer.
LEMMA AnswersTyped ==
    ASSUME PanelAssumption, NEW e \in Evaluators, NEW a \in Answers(e)
    PROVE  a \in RawAnswers
<1>1. FlagSets[e] \subseteq SUBSET Flags /\ RawScores \subseteq Int
  BY DEF PanelAssumption
<1>2. PICK x \in RawScores, f \in FlagSets[e] : a = [score |-> x, flags |-> f]
  BY DEF Answers
<1> QED
  BY <1>1, <1>2 DEF RawAnswers

\* The rules of the tribal evaluator.
LEMMA TribalProps ==
    ASSUME NEW a \in Results
    PROVE  /\ EnforceTribal(a) \in Results
           /\ a.score <= -80 => "catastrophic_harm" \in EnforceTribal(a).flags
           /\ "social_engineering" \in a.flags => EnforceTribal(a).score <= -50
<1> DEFINE s1 == Capped(a.score, a.flags, "social_engineering", -50)
           s2 == Capped(s1, a.flags, "fabricated_claim", -50)
<1>1. a.score \in -100..100 /\ a.flags \in SUBSET Flags
  BY DEF Results
<1>2. /\ s1 \in -100..100
      /\ "social_engineering" \in a.flags => s1 <= -50
  BY <1>1 DEF Capped
<1> HIDE DEF s1
<1>3. s2 \in -100..100 /\ s2 <= s1
  BY <1>2 DEF Capped
<1>4. "catastrophic_harm" \in Flags
  BY DEF Flags
<1> HIDE DEF s2
<1> QED
  BY <1>1, <1>2, <1>3, <1>4 DEF EnforceTribal, Results, s1, s2

\* The rules of the domain evaluator.
LEMMA DomainProps ==
    ASSUME NEW a \in Results
    PROVE  /\ EnforceDomain(a) \in Results
           /\ "social_engineering" \in a.flags => EnforceDomain(a).score <= -50
<1> DEFINE s1 == Capped(a.score, a.flags, "social_engineering", -50)
           s2 == Capped(s1, a.flags, "free_item_attempt", -70)
<1>1. a.score \in -100..100 /\ a.flags \in SUBSET Flags
  BY DEF Results
<1>2. /\ s1 \in -100..100
      /\ "social_engineering" \in a.flags => s1 <= -50
  BY <1>1 DEF Capped
<1> HIDE DEF s1
<1>3. s2 \in -100..100 /\ s2 <= s1
  BY <1>2 DEF Capped
<1> HIDE DEF s2
<1>4. EnforceDomain(a) = [a EXCEPT !.score = s2]
  BY DEF EnforceDomain, s1, s2
<1> QED
  BY <1>1, <1>2, <1>3, <1>4 DEF Results

\* The rules of the authority evaluator.
LEMMA AuthorityProps ==
    ASSUME NEW a \in Results
    PROVE  /\ EnforceAuthority(a) \in Results
           /\ "social_engineering" \in a.flags => EnforceAuthority(a).score <= -50
<1> DEFINE s1 == IF a.flags # {} /\ a.score >= 0 THEN -30 ELSE a.score
           s2 == Capped(s1, a.flags, "cross_customer_access", -70)
           s3 == Capped(s2, a.flags, "social_engineering", -70)
           s4 == Capped(s3, a.flags, "fabricated_claim", -55)
<1>1. a.score \in -100..100 /\ a.flags \in SUBSET Flags /\ s1 \in -100..100
  BY DEF Results
<1> HIDE DEF s1
<1>2. s2 \in -100..100
  BY <1>1 DEF Capped
<1> HIDE DEF s2
<1>3. /\ s3 \in -100..100
      /\ "social_engineering" \in a.flags => s3 <= -70
  BY <1>2 DEF Capped
<1> HIDE DEF s3
<1>4. s4 \in -100..100 /\ s4 <= s3
  BY <1>3 DEF Capped
<1> HIDE DEF s4
<1>5. EnforceAuthority(a) = [a EXCEPT !.score = s4]
  BY DEF EnforceAuthority, s1, s2, s3, s4
<1> QED
  BY <1>1, <1>3, <1>4, <1>5 DEF Results

\* What an evaluator returns is a result with its rules enforced.
LEMMA EnforceProps ==
    ASSUME NEW e \in Evaluators, NEW a \in RawAnswers
    PROVE  /\ Enforce(e, a) \in Results
           /\ e = "tribal" /\ a.score <= -80 => "catastrophic_harm" \in Enforce(e, a).flags
           /\ e # "self_interest" /\ "social_engineering" \in a.flags
                  => Enforce(e, a).score <= -50
<1> DEFINE b == [a EXCEPT !.score = Clamp(a.score)]
<1>1. /\ b \in Results /\ b.flags = a.flags
      /\ a.score <= -80 => b.score <= -80
  BY DEF RawAnswers, Results, Clamp
<1> HIDE DEF b
<1>2. /\ e = "tribal" => Enforce(e, a) = EnforceTribal(b)
      /\ e = "domain" => Enforce(e, a) = EnforceDomain(b)
      /\ e = "authority" => Enforce(e, a) = EnforceAuthority(b)
      /\ e = "self_interest" => Enforce(e, a) = b
  BY DEF Enforce, b
<1> QED
  BY <1>1, <1>2, TribalProps, DomainProps, AuthorityProps DEF Evaluators

-----------------------------------------------------------------------------

\* The classification respects both floors, and is RED when overridden.
LEMMA ClassifyProps ==
    ASSUME NEW res, NEW c, c.minTier \in MaybeTier, NEW m \in MaybeTier
    PROVE  /\ Classify(res, c, m) \in Tier
           /\ Classify(res, c, m) >= m /\ Classify(res, c, m) >= c.minTier
           /\ Overridden(res) => Classify(res, c, m) = RED
<1>1. ScoreToTier(res, c) \in Tier
  BY DEF ScoreToTier, Tier, GREEN, YELLOW, ORANGE, RED
<1>2. ScoredTier(res, c) \in Tier
  BY <1>1 DEF ScoredTier, BumpTier, Tier, GREEN, RED
<1>3. Classify(res, c, m) \in {RED, Floored(ScoredTier(res, c), m, c.minTier)}
  BY DEF Classify
<1>4. Overridden(res) => Classify(res, c, m) = RED
  BY DEF Classify
<1> QED
  BY <1>2, <1>3, <1>4 DEF Floored, MaxTier, Tier, MaybeTier, NONE, GREEN, RED

\* A significant disagreement takes GREEN away.
LEMMA DisagreementIsNotGreen ==
    ASSUME NEW res, NEW c, c.minTier \in MaybeTier, NEW m \in MaybeTier,
           HasSignificantDisagreement(res)
    PROVE  Classify(res, c, m) # GREEN
<1>1. ScoreToTier(res, c) \in Tier
  BY DEF ScoreToTier, Tier, GREEN, YELLOW, ORANGE, RED
<1>2. ScoredTier(res, c) \in Tier \ {GREEN}
  BY <1>1 DEF ScoredTier, BumpTier, Tier, GREEN, RED
<1> QED
  BY <1>2 DEF Classify, Floored, MaxTier, Tier, MaybeTier, NONE, GREEN, RED

\* Two different elements are two.
LEMMA TwoElements ==
    ASSUME NEW x, NEW y, x # y
    PROVE  IsFiniteSet({x, y}) /\ Cardinality({x, y}) = 2
<1>1. IsFiniteSet({x}) /\ Cardinality({x}) = 1
  BY FS_Singleton
<1>2. {x, y} = {x} \cup {y} /\ y \notin {x}
  OBVIOUS
<1> QED
  BY <1>1, <1>2, FS_AddElement

\* The evaluators are finitely many.
LEMMA EvaluatorsFinite == IsFiniteSet(Evaluators)
<1>1. IsFiniteSet({"tribal", "domain"}) /\ IsFiniteSet({"self_interest", "authority"})
  BY TwoElements
<1>2. Evaluators = {"tribal", "domain"} \cup {"self_interest", "authority"}
  BY DEF Evaluators
<1> QED
  BY <1>1, <1>2, FS_Union

\* An evaluator far from each of the other three disagrees in several pairs.
LEMMA LoneDissenterDisagrees ==
    ASSUME NEW res, NEW e \in Evaluators,
           \A f \in Evaluators \ {e} : \/ res[e].score - res[f].score > 80
                                      \/ res[f].score - res[e].score > 80
    PROVE  HasSignificantDisagreement(res)
<1>1. PICK f, g \in Evaluators \ {e} : f # g
  BY DEF Evaluators
<1>2. ASSUME NEW h \in Evaluators \ {e} PROVE {e, h} \in DisagreeingPairs(res)
  BY TwoElements DEF DisagreeingPairs
<1> DEFINE P == {{e, f}, {e, g}}
<1>3. Cardinality(P) = 2
  BY <1>1, TwoElements
<1>4. P \subseteq DisagreeingPairs(res)
  BY <1>2
<1> HIDE DEF P
<1>6. IsFiniteSet(DisagreeingPairs(res))
  <2>1. DisagreeingPairs(res) \subseteq SUBSET Evaluators
    BY DEF DisagreeingPairs
  <2> QED
    BY EvaluatorsFinite, <2>1, FS_SUBSET, FS_Subset
<1>7. /\ Cardinality(P) <= Cardinality(DisagreeingPairs(res))
      /\ Cardinality(DisagreeingPairs(res)) \in Nat
  BY <1>4, <1>6, FS_Subset, FS_CardinalityType
<1> QED
  BY <1>3, <1>7 DEF HasSignificantDisagreement

\* Three severe results are at least a severe majority.
LEMMA ThreeAreSevere ==
    ASSUME NEW res, {"tribal", "domain", "authority"} \subseteq Severe(res)
    PROVE  Overridden(res)
<1> DEFINE D == {"domain", "authority"}
           S == {"tribal"} \cup D
<1>1. IsFiniteSet({"authority"}) /\ Cardinality({"authority"}) = 1
  BY FS_Singleton
<1>2. IsFiniteSet(D) /\ Cardinality(D) = 2
  <2>1. D = {"authority"} \cup {"domain"} /\ "domain" \notin {"authority"}
    OBVIOUS
  <2> QED
    BY <1>1, <2>1, FS_AddElement
<1>3. IsFiniteSet(S) /\ Cardinality(S) = 3
  <2>1. S = D \cup {"tribal"} /\ "tribal" \notin D
    OBVIOUS
  <2> QED
    BY <1>2, <2>1, FS_AddElement
<1>4. IsFiniteSet(Severe(res))
  BY EvaluatorsFinite, FS_Subset DEF Severe
<1>5. Cardinality(S) <= Cardinality(Severe(res)) /\ Cardinality(Severe(res)) \in Nat
  <2>1. S \subseteq Severe(res)
    OBVIOUS
  <2> QED
    BY <1>4, <2>1, FS_Subset, FS_CardinalityType
<1> QED
  BY <1>3, <1>5 DEF Overridden

-----------------------------------------------------------------------------
(* Worse evidence.                                                         *)

\* A lower score weighs no more.
LEMMA ProductMonotone ==
    ASSUME NEW x \in Int, NEW y \in Int, NEW w \in Nat, x <= y
    PROVE  x * w \in Int /\ y * w \in Int /\ x * w <= y * w
<1>1. (y - x) * w >= 0 /\ (y - x) * w = y * w - x * w
  BY SMTT(30)
<1> QED
  BY <1>1

\* The evidence less reassuring by one result.
Worsened(res, worse) ==
    /\ \A f \in Evaluators : /\ res[f].score \in Int /\ worse[f].score \in Int
                             /\ worse[f].score <= res[f].score
                             /\ worse[f].flags = res[f].flags

\* A bound that worse evidence reaches is reached.
LEMMA WorseReachesLess ==
    ASSUME NEW res, NEW worse, Worsened(res, worse), NEW weights \in [Evaluators -> Nat],
           NEW bound \in Int, ScoreAtLeast(worse, weights, bound)
    PROVE  ScoreAtLeast(res, weights, bound)
<1>1. ASSUME NEW f \in Evaluators
      PROVE  /\ Weighted(worse, weights, f) \in Int /\ Weighted(res, weights, f) \in Int
             /\ Weighted(worse, weights, f) <= Weighted(res, weights, f)
  BY ProductMonotone DEF Worsened, Weighted
<1>2. {"tribal", "domain", "self_interest", "authority"} \subseteq Evaluators
  BY DEF Evaluators
<1>3. /\ WeightedTotal(worse, weights) \in Int /\ WeightedTotal(res, weights) \in Int
      /\ WeightedTotal(worse, weights) <= WeightedTotal(res, weights)
  BY <1>1, <1>2 DEF WeightedTotal
<1>4. TotalWeight(weights) \in Int
  BY <1>2 DEF TotalWeight
<1>5. \A w \in Int : bound * w \in Int
  OBVIOUS
<1> QED
  BY <1>3, <1>4, <1>5 DEF ScoreAtLeast

\* So the scores of worse evidence make no lower tier, whatever the thresholds.
LEMMA WorseScoresHigher ==
    ASSUME NEW res, NEW worse, Worsened(res, worse), NEW c, c.weights \in [Evaluators -> Nat],
           c.thresholds \in [green : Int, yellow : Int, orange : Int]
    PROVE  /\ ScoreToTier(res, c) \in Tier /\ ScoreToTier(worse, c) \in Tier
           /\ ScoreToTier(res, c) <= ScoreToTier(worse, c)
<1>1. \A b \in {c.thresholds.green, c.thresholds.yellow, c.thresholds.orange} :
          ScoreAtLeast(worse, c.weights, b) => ScoreAtLeast(res, c.weights, b)
  BY WorseReachesLess
<1> QED
  BY <1>1 DEF ScoreToTier, Tier, GREEN, YELLOW, ORANGE, RED

\* Nor does it lift an override.
LEMMA WorseStaysOverridden ==
    ASSUME NEW res, NEW worse, Worsened(res, worse), Overridden(res)
    PROVE  Overridden(worse)
<1>1. CASE \E e \in Evaluators : "catastrophic_harm" \in res[e].flags
  BY <1>1 DEF Overridden, Worsened
<1>2. CASE Cardinality(Severe(res)) >= 3
  <2>1. Severe(res) \subseteq Severe(worse)
    BY DEF Severe, Worsened
  <2>2. Severe(worse) \subseteq Evaluators
    BY DEF Severe
  <2>3. IsFiniteSet(Severe(worse))
    BY <2>2, EvaluatorsFinite, FS_Subset
  <2>4. /\ Cardinality(Severe(res)) <= Cardinality(Severe(worse))
        /\ Cardinality(Severe(res)) \in Nat /\ Cardinality(Severe(worse)) \in Nat
    BY <2>1, <2>3, FS_Subset, FS_CardinalityType
  <2> QED
    BY <1>2, <2>4 DEF Overridden
<1> QED
  BY <1>1, <1>2 DEF Overridden

\* All it can take back is the bump of a disagreement.
LEMMA WorseClassifies ==
    ASSUME NEW res, NEW worse, Worsened(res, worse), NEW c, c.weights \in [Evaluators -> Nat],
           c.thresholds \in [green : Int, yellow : Int, orange : Int],
           c.minTier \in MaybeTier, NEW m \in MaybeTier
    PROVE  Classify(worse, c, m) >= Classify(res, c, m) - 1
<1>1. /\ ScoredTier(res, c) \in Tier /\ ScoredTier(worse, c) \in Tier
      /\ ScoredTier(worse, c) >= ScoredTier(res, c) - 1
  BY WorseScoresHigher DEF ScoredTier, BumpTier, Tier, GREEN, RED
<1>2. Classify(res, c, m) \in Tier
  BY ClassifyProps
<1>3. CASE Overridden(worse)
  BY <1>2, <1>3 DEF Classify, Tier, GREEN, RED
<1>4. CASE ~Overridden(worse)
  <2>1. ~Overridden(res)
    BY <1>4, WorseStaysOverridden
  <2>2. \A x, y \in Tier : y >= x - 1 => Floored(y, m, c.minTier) >= Floored(x, m, c.minTier) - 1
    BY DEF Floored, MaxTier, Tier, MaybeTier, NONE, GREEN, RED
  <2> QED
    BY <1>1, <1>4, <2>1, <2>2 DEF Classify
<1> QED
  BY <1>3, <1>4

-----------------------------------------------------------------------------

\* The invariant holds before any evaluator has answered.
LEMMA PanelInit == ASSUME Init PROVE PanelIInv
<1>1. DOMAIN raw = {} /\ DOMAIN results = {}
  BY DEF Init
<1> QED
  BY <1>1 DEF Init, PanelIInv, PanelTyped, FloorsCompose, TribalVeto,
              AgreedSocialEngineeringIsRed, LoneDissentIsNotGreen, Classified

\* Every step of a panel run keeps the invariant.
LEMMA PanelStep == ASSUME PanelAssumption, PanelIInv, [Next]_vars PROVE PanelIInv'
<1> USE DEF PanelIInv, PanelTyped
<1>1. ASSUME NEW e \in Evaluators, Answer(e) PROVE PanelIInv'
  <2>1. PICK a \in Answers(e) :
          /\ raw' = [f \in Answered \cup {e} |-> IF f = e THEN a ELSE raw[f]]
          /\ results' = [f \in Answered \cup {e} |->
                            IF f = e THEN Enforce(e, a) ELSE results[f]]
    BY <1>1 DEF Answer
  <2>2. status = "running" /\ UNCHANGED <<cfg, minTier, status, verdict>>
    BY <1>1 DEF Answer
  <2>3. DOMAIN raw' = DOMAIN results' /\ DOMAIN results' = DOMAIN results \cup {e}
    BY <2>1 DEF Answered
  <2>4. ASSUME NEW f \in DOMAIN results'
        PROVE  raw'[f] \in Answers(f) /\ results'[f] = Enforce(f, raw'[f])
    BY <2>1, <2>3, <2>4 DEF Answered
  <2>5. PanelTyped'
    BY <2>2, <2>3, <2>4
  <2> QED
    BY <2>2, <2>5 DEF FloorsCompose, TribalVeto, AgreedSocialEngineeringIsRed, LoneDissentIsNotGreen, Classified
<1>2. ASSUME NEW e \in Evaluators, AnswerFails(e) PROVE PanelIInv'
  BY <1>2 DEF AnswerFails, FloorsCompose, TribalVeto, AgreedSocialEngineeringIsRed, LoneDissentIsNotGreen, Classified
<1>3. CASE ClassifyResults
  <2>1. /\ status' = "classified" /\ verdict' = Classify(results, cfg, minTier)
        /\ DOMAIN results = Evaluators
        /\ UNCHANGED <<cfg, minTier, raw, results>>
    BY <1>3 DEF ClassifyResults, Answered
  <2>2. cfg.minTier \in MaybeTier /\ minTier \in MaybeTier
    BY DEF PanelAssumption
  <2>3. /\ verdict' \in Tier
        /\ verdict' >= minTier /\ verdict' >= cfg.minTier
        /\ Overridden(results) => verdict' = RED
        /\ HasSignificantDisagreement(results) => verdict' # GREEN
    BY <2>1, <2>2, ClassifyProps, DisagreementIsNotGreen
  <2>4. ASSUME NEW e \in Evaluators
        PROVE  raw[e] \in RawAnswers /\ results[e] = Enforce(e, raw[e])
    BY <2>1, AnswersTyped
  <2>5. ASSUME raw["tribal"].score <= -80 PROVE verdict' = RED
    <3>1. "tribal" \in Evaluators
      BY DEF Evaluators
    <3>2. "catastrophic_harm" \in results["tribal"].flags
      BY <2>4, <2>5, <3>1, EnforceProps
    <3> QED
      BY <2>3, <3>1, <3>2 DEF Overridden
  <2>6. ASSUME \A e \in {"tribal", "domain", "authority"} :
                   "social_engineering" \in raw[e].flags
        PROVE  verdict' = RED
    <3>1. ASSUME NEW e \in {"tribal", "domain", "authority"} PROVE e \in Severe(results)
      <4>1. e \in Evaluators /\ e # "self_interest"
        BY DEF Evaluators
      <4>2. results[e].score <= -50
        BY <2>4, <2>6, <4>1, EnforceProps
      <4> QED
        BY <4>1, <4>2 DEF Severe
    <3> QED
      BY <2>3, <3>1, ThreeAreSevere
  <2>7. ASSUME \E e \in Evaluators : \A f \in Evaluators \ {e} :
                   \/ results[e].score - results[f].score > 80
                   \/ results[f].score - results[e].score > 80
        PROVE  verdict' # GREEN
    BY <2>3, <2>7, LoneDissenterDisagrees
  <2>8. PanelTyped'
    BY <2>1, <2>3
  <2> QED
    BY <2>1, <2>3, <2>5, <2>6, <2>7, <2>8
    DEF FloorsCompose, TribalVeto, AgreedSocialEngineeringIsRed, LoneDissentIsNotGreen, Classified
<1>4. CASE UNCHANGED vars
  BY <1>4 DEF vars, FloorsCompose, TribalVeto, AgreedSocialEngineeringIsRed, LoneDissentIsNotGreen, Classified
<1> QED
  BY <1>1, <1>2, <1>3, <1>4 DEF Next

\* What TypeOK says of a result follows from the rules of its evaluator.
LEMMA PanelTypes == ASSUME PanelAssumption, PanelIInv PROVE TypeOK
<1>1. ASSUME NEW e \in DOMAIN results PROVE results[e] \in Results
  BY AnswersTyped, EnforceProps DEF PanelIInv, PanelTyped
<1>2. ASSUME NEW e \in DOMAIN results
      PROVE  results[e].score \in -100..100 /\ results[e].flags \subseteq Flags
  BY <1>1 DEF Results
<1> QED
  BY <1>2 DEF PanelIInv, PanelTyped, TypeOK, MaybeTier, Tier, NONE, GREEN, RED

\* Scores stay between -1.0 and 1.0 after the evaluators' rules, and a panel
\* run has a verdict exactly when it is classified (base.py, risk_classifier.py).
THEOREM PanelTypeCorrect == Spec => []TypeOK
<1>1. Init => PanelIInv
  BY PanelInit
<1>2. PanelIInv /\ [Next]_vars => PanelIInv'
  BY PanelStep, PanelAssumption
<1>3. PanelIInv => TypeOK
  BY PanelTypes, PanelAssumption
<1> QED
  BY <1>1, <1>2, <1>3, PTL DEF Spec

\* Both floors bound the verdict, whatever the evaluators answer and however the
\* hat weighs them (risk_classifier.py classify).
THEOREM FloorsBoundVerdict == Spec => []FloorsCompose
<1>1. Init => PanelIInv
  BY PanelInit
<1>2. PanelIInv /\ [Next]_vars => PanelIInv'
  BY PanelStep, PanelAssumption
<1>3. PanelIInv => FloorsCompose
  BY DEF PanelIInv
<1> QED
  BY <1>1, <1>2, <1>3, PTL DEF Spec

\* No hat can outvote the tribal veto (tribal.py evaluate, risk_classifier.py
\* classify, override 1).
THEOREM VetoIsFinal == Spec => []TribalVeto
<1>1. Init => PanelIInv
  BY PanelInit
<1>2. PanelIInv /\ [Next]_vars => PanelIInv'
  BY PanelStep, PanelAssumption
<1>3. PanelIInv => TribalVeto
  BY DEF PanelIInv
<1> QED
  BY <1>1, <1>2, <1>3, PTL DEF Spec

\* The flag ceilings of three evaluators reach the severe-majority override
\* (tribal.py, domain.py, authority.py evaluate; risk_classifier.py override 2).
THEOREM SocialEngineeringIsRed == Spec => []AgreedSocialEngineeringIsRed
<1>1. Init => PanelIInv
  BY PanelInit
<1>2. PanelIInv /\ [Next]_vars => PanelIInv'
  BY PanelStep, PanelAssumption
<1>3. PanelIInv => AgreedSocialEngineeringIsRed
  BY DEF PanelIInv
<1> QED
  BY <1>1, <1>2, <1>3, PTL DEF Spec

\* An evaluator that dissents from the other three is heard under every hat
\* (risk_classifier.py _has_significant_disagreement, classify).
THEOREM LoneDissenterIsHeard == Spec => []LoneDissentIsNotGreen
<1>1. Init => PanelIInv
  BY PanelInit
<1>2. PanelIInv /\ [Next]_vars => PanelIInv'
  BY PanelStep, PanelAssumption
<1>3. PanelIInv => LoneDissentIsNotGreen
  BY DEF PanelIInv
<1> QED
  BY <1>1, <1>2, <1>3, PTL DEF Spec

\* However the hat weighs the evaluators and wherever it puts its thresholds, a
\* worse score takes the tier down by at most one level (risk_classifier.py
\* _compute_weighted_score, _bump_tier).
THEOREM WorseEvidenceWeighs == Spec => []WorseScoreReassuresAtMostOneLevel
<1>1. Init => PanelIInv
  BY PanelInit
<1>2. PanelIInv /\ [Next]_vars => PanelIInv'
  BY PanelStep, PanelAssumption
<1>3. PanelIInv => WorseScoreReassuresAtMostOneLevel
  <2> SUFFICES ASSUME PanelIInv, Classified, NEW e \in Evaluators, NEW s \in RawScores,
                      s \in -100..results[e].score
               PROVE  Classify([results EXCEPT ![e].score = s], cfg, minTier) >= verdict - 1
    BY DEF WorseScoreReassuresAtMostOneLevel
  <2> DEFINE worse == [results EXCEPT ![e].score = s]
  <2>1. DOMAIN results = Evaluators /\ verdict = Classify(results, cfg, minTier)
    BY DEF PanelIInv, PanelTyped, Classified
  <2>2. \A f \in Evaluators : results[f] \in Results
    BY <2>1, AnswersTyped, EnforceProps, PanelAssumption DEF PanelIInv, PanelTyped
  <2>3. /\ worse[e] = [results[e] EXCEPT !.score = s]
        /\ \A f \in Evaluators \ {e} : worse[f] = results[f]
    BY <2>1
  <2>4. Worsened(results, worse)
    BY <2>2, <2>3, PanelAssumption DEF Worsened, Results, PanelAssumption
  <2>5. /\ cfg.weights \in [Evaluators -> Nat] /\ cfg.minTier \in MaybeTier
        /\ cfg.thresholds \in [green : Int, yellow : Int, orange : Int]
        /\ minTier \in MaybeTier
    BY PanelAssumption DEF PanelAssumption, PanelIInv, PanelTyped
  <2> HIDE DEF worse
  <2>6. Classify(worse, cfg, minTier) >= Classify(results, cfg, minTier) - 1
    BY <2>4, <2>5, WorseClassifies
  <2> QED
    BY <2>1, <2>6 DEF worse
<1> QED
  BY <1>1, <1>2, <1>3, PTL DEF Spec
=============================================================================
