---------------------------- MODULE EvaluationPanel ----------------------------
(***************************************************************************)
(* One run of the evaluation panel.  The four evaluators ask the LLM       *)
(* concurrently (asyncio.gather) and answer in any order; when the last    *)
(* one has answered the results are classified.  An answer that is not     *)
(* usable JSON, or an LLM call that raises, makes gather raise: no tier is *)
(* produced and the request fails.                                         *)
(***************************************************************************)
EXTENDS RiskClassifier

CONSTANTS
    RawScores,    \* the scores an LLM may put in an answer
    FlagSets,     \* [Evaluators -> sets of flag sets an LLM may raise]
    HatConfigs,   \* evaluator configurations of the hats
    MinTiers      \* floors handed to the classifier by the request

ASSUME PanelAssumption ==
    /\ RawScores \subseteq Int
    /\ FlagSets \in [Evaluators -> SUBSET SUBSET Flags]
    /\ HatConfigs \subseteq [weights    : [Evaluators -> Nat],
                             thresholds : [green : Int, yellow : Int, orange : Int],
                             minTier    : MaybeTier]
    /\ MinTiers \subseteq MaybeTier

VARIABLES
    cfg,        \* configuration of the equipped hat
    minTier,    \* the request's floor
    raw,        \* what the LLM answered, per evaluator that has answered
    results,    \* what the evaluator made of it
    status,     \* "running", "classified" or "failed"
    verdict     \* the tier, NONE until classified

vars == <<cfg, minTier, raw, results, status, verdict>>

Answers(e) == [score : RawScores, flags : FlagSets[e]]
Answered   == DOMAIN results

Init == /\ cfg \in HatConfigs
        /\ minTier \in MinTiers
        /\ raw = << >>
        /\ results = << >>
        /\ status = "running"
        /\ verdict = NONE

\* An evaluator's LLM call returns a usable answer.
Answer(e) ==
    /\ status = "running"
    /\ e \notin Answered
    /\ \E a \in Answers(e) :
          /\ raw' = [f \in Answered \cup {e} |-> IF f = e THEN a ELSE raw[f]]
          /\ results' = [f \in Answered \cup {e} |->
                            IF f = e THEN Enforce(e, a) ELSE results[f]]
    /\ UNCHANGED <<cfg, minTier, status, verdict>>

\* Mutant: the whole panel is asked again.
AnswerFailsRetried(e) ==
    /\ status = "running"
    /\ e \notin Answered
    /\ raw' = << >>
    /\ results' = << >>
    /\ UNCHANGED <<cfg, minTier, status, verdict>>

\* The call raises or the answer cannot be parsed: gather raises.
AnswerFails(e) ==
    /\ status = "running"
    /\ e \notin Answered
    /\ status' = "failed"
    /\ UNCHANGED <<cfg, minTier, raw, results, verdict>>

\* gather has returned the four results.
ClassifyResults ==
    /\ status = "running"
    /\ Answered = Evaluators
    /\ status' = "classified"
    /\ verdict' = Classify(results, cfg, minTier)
    /\ UNCHANGED <<cfg, minTier, raw, results>>

Next == \/ \E e \in Evaluators : Answer(e) \/ AnswerFails(e)
        \/ ClassifyResults

Fairness == /\ \A e \in Evaluators : WF_vars(Answer(e) \/ AnswerFails(e))
            /\ WF_vars(ClassifyResults)

Spec == Init /\ [][Next]_vars /\ Fairness

-----------------------------------------------------------------------------

TypeOK ==
    /\ cfg \in HatConfigs
    /\ minTier \in MinTiers
    /\ DOMAIN results \subseteq Evaluators
    /\ DOMAIN raw = DOMAIN results
    /\ \A e \in DOMAIN results : /\ raw[e] \in Answers(e)
                                 /\ results[e].score \in -100..100
                                 /\ results[e].flags \subseteq Flags
    /\ status \in {"running", "classified", "failed"}
    /\ verdict \in MaybeTier
    /\ (verdict # NONE) <=> (status = "classified")

Classified == status = "classified"

\* The two floors compose: whatever the evaluators answer, the verdict is at
\* least the floor the request carries (escalation gate, tool floors) and at
\* least the hat's min_tier, on the override paths too.
FloorsCompose == Classified => verdict >= minTier /\ verdict >= cfg.minTier

\* The tribal veto cannot be outvoted or configured away: a tribal answer of
\* -0.8 or worse is RED whatever the others say and whatever the hat's weights
\* and thresholds are.
TribalVeto == Classified /\ raw["tribal"].score <= -80 => verdict = RED

\* The flag floors and the severe-majority override fit each other: when the
\* three rule-based evaluators agree that a request is social engineering, the
\* verdict is RED even if every raw score was reassuring.  It holds only as the
\* domain and tribal ceilings sit exactly on the override's inclusive bound.
AgreedSocialEngineeringIsRed ==
    Classified /\ (\A e \in {"tribal", "domain", "authority"} :
                       "social_engineering" \in raw[e].flags)
        => verdict = RED

\* A lone dissenter is never averaged away: when one evaluator is more than
\* 0.8 from each of the other three, the verdict is not GREEN.
LoneDissentIsNotGreen ==
    Classified /\ (\E e \in Evaluators : \A f \in Evaluators \ {e} :
                      \/ results[e].score - results[f].score > 80
                      \/ results[f].score - results[e].score > 80)
        => verdict # GREEN

\* Worse evidence reassures by at most the one level that a vanished
\* disagreement takes back: replacing any result by a lower score never takes
\* the tier down by more than one level.
WorseScoreReassuresAtMostOneLevel ==
    Classified => \A e \in Evaluators : \A s \in RawScores :
        LET worse == [results EXCEPT ![e].score = s]
        IN  s \in -100..results[e].score =>
                Classify(worse, cfg, minTier) >= verdict - 1

\* Every panel run ends, classified or failed.
PanelEnds == <>(status # "running")
=============================================================================
