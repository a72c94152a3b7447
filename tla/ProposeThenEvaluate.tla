-------------------------- MODULE ProposeThenEvaluate --------------------------
(***************************************************************************)
(* What the pipeline promises of a session, whatever its stages are: a     *)
(* turn is decided once; only then may it act; it acts at most once, with  *)
(* a tool of the domain on a GREEN verdict and by escalating to a human on *)
(* an ORANGE one; and once it is closing it acts no more.  A turn may be   *)
(* abandoned at any point.                                                 *)
(***************************************************************************)
EXTENDS RiskTiers, Sequences

CONSTANTS Sessions, Tools, Escalate

VARIABLES
    number,    \* turns begun so far
    phase,     \* where the turn is
    verdict,   \* its tier, NONE until decided
    effects    \* what the turns have done, in order

absVars == <<number, phase, verdict, effects>>

Phases == {"idle", "open", "decided", "closing"}

Init == /\ number = [s \in Sessions |-> 0]
        /\ phase = [s \in Sessions |-> "idle"]
        /\ verdict = [s \in Sessions |-> NONE]
        /\ effects = << >>

Open(s) == /\ phase[s] = "idle"
           /\ number' = [number EXCEPT ![s] = @ + 1]
           /\ phase' \in {phase, [phase EXCEPT ![s] = "open"]}
           /\ UNCHANGED <<verdict, effects>>

\* The verdict leads to a tool, or to the answer alone.
Decide(s) == /\ phase[s] = "open"
             /\ \E tier \in Tier : verdict' = [verdict EXCEPT ![s] = tier]
             /\ \E p \in {"decided", "closing"} : phase' = [phase EXCEPT ![s] = p]
             /\ UNCHANGED <<number, effects>>

MayUse(tier, u) == \/ tier = GREEN /\ u # Escalate
                   \/ tier = ORANGE /\ u = Escalate

\* The tool is called: it has its effect or not, and returns or raises.
Call(s) ==
    /\ phase[s] = "decided"
    /\ \/ UNCHANGED effects
       \/ \E u \in Tools :
             /\ MayUse(verdict[s], u)
             /\ effects' = Append(effects, [session |-> s, turn |-> number[s],
                                               tool |-> u, tier |-> verdict[s]])
    /\ \/ phase' = [phase EXCEPT ![s] = "closing"] /\ UNCHANGED verdict
       \/ /\ phase' = [phase EXCEPT ![s] = "idle"]
          /\ verdict' = [verdict EXCEPT ![s] = NONE]
    /\ UNCHANGED number

\* The turn ends, or is abandoned.
Close(s) == /\ phase[s] # "idle"
            /\ phase' = [phase EXCEPT ![s] = "idle"]
            /\ verdict' = [verdict EXCEPT ![s] = NONE]
            /\ UNCHANGED <<number, effects>>

Next == \E s \in Sessions : Open(s) \/ Decide(s) \/ Call(s) \/ Close(s)

Spec == Init /\ [][Next]_absVars
=============================================================================
