-------------------------- MODULE AgentLoopProperties --------------------------
(***************************************************************************)
(* What the agent loop is checked for.                                     *)
(***************************************************************************)
EXTENDS AgentLoop

TypeOK ==
    /\ HatTypeOK
    /\ hatEquipped \in BOOLEAN
    /\ pc \in [Sessions -> Stage]
    /\ turn \in [Sessions -> Turns]
    /\ said \in [Sessions -> Seq(Messages)]
    /\ acts \in Seq(Acts)
    /\ audited \subseteq Records
    /\ switches \in Nat

\* The acts with a tool of the domain.
DomainAct(e) == e.tool # Escalate

\* Nothing acts unless it was cleared: a tool of the domain has an effect only
\* in a turn whose verdict is GREEN and whose floors - the escalation
\* trigger's, the proposed tools' and the hat's - allow GREEN.
ActsOnlyWhenCleared ==
    \A i \in DOMAIN acts : DomainAct(acts[i]) =>
        /\ acts[i].tier = GREEN
        /\ MaxTier(acts[i].esc, acts[i].floor) <= GREEN
        /\ HatMinTier[acts[i].hat] <= GREEN

\* Human escalation is not something the proposer can trigger: it happens only
\* on an ORANGE verdict.
EscalatesOnlyWhenOrange ==
    \A i \in DOMAIN acts : acts[i].tool = Escalate => acts[i].tier = ORANGE

\* A turn acts at most once: never twice with its tool, never both with a tool
\* and by escalating.
OneActPerTurn ==
    \A i, j \in DOMAIN acts :
        acts[i].session = acts[j].session /\ acts[i].turn = acts[j].turn => i = j

\* The conversation does not forget: once the user has said something that
\* matches one of the hat's triggers, no tool of the domain acts in that turn
\* or in any later one, also when later messages match other triggers, when
\* the turn with the trigger failed, or when the proposal was filtered.  (A
\* GREEN severity would be no floor.)
NoToolAfterTrigger ==
    \A i \in DOMAIN acts :
        LET e == acts[i]
            triggers == Triggers[e.hat]
        IN  /\ DomainAct(e)
            /\ Kind[e.session] = "websocket"
            /\ \A k \in DOMAIN triggers : triggers[k].severity >= YELLOW
            => \A j \in 1..e.turn : Matching(triggers, said[e.session][j]) = {}

\* A tool whose own risk floor is above GREEN never acts.
FlooredToolNeverActs ==
    \A i \in DOMAIN acts :
        DomainAct(acts[i]) => RiskFloor[acts[i].owner][acts[i].tool] <= GREEN

\* The state of the pipeline as ProposeThenEvaluate sees it.
PhaseOf(p) == CASE p = "idle" -> "idle"
                [] p \in {"execute", "escalate"} -> "decided"
                [] p \in {"respond", "persist", "deliver", "audit"} -> "closing"
                [] OTHER -> "open"
AbsNumber  == [s \in Sessions |-> Len(said[s])]
AbsPhase   == [s \in Sessions |-> PhaseOf(pc[s])]
AbsVerdict == [s \in Sessions |-> turn[s].tier]
AbsEffects == [i \in DOMAIN acts |->
                  [session |-> acts[i].session, turn |-> acts[i].turn,
                   tool    |-> acts[i].tool,    tier |-> acts[i].tier]]

\* The pipeline keeps the promise of ProposeThenEvaluate.
Promise == INSTANCE ProposeThenEvaluate WITH
    number <- AbsNumber, phase <- AbsPhase, verdict <- AbsVerdict, effects <- AbsEffects

KeepsPromise == Promise!Spec

\* Every turn ends, whatever raises and whoever switches the hat meanwhile.
TurnEnds == \A s \in Sessions : (pc[s] # "idle") ~> (pc[s] = "idle")

-----------------------------------------------------------------------------
(* What the documents say, and the code does not do.                       *)

\* Escalation carries forward: the floor a turn is evaluated under is at least
\* the one each earlier message of the conversation called for.
EscalationCarriesForward ==
    \A s \in Sessions : pc[s] = "evaluate" /\ Kind[s] = "websocket" =>
        \A j \in DOMAIN said[s] :
            turn[s].esc >= Severity(Triggers[turn[s].hat], said[s][j])

\* The pipeline cannot run a tool that declares risk_floor RED.
ProhibitedToolNeverActs ==
    \A i \in DOMAIN acts :
        DomainAct(acts[i]) => RiskFloor[acts[i].owner][acts[i].tool] # RED

\* The audit record snapshots the hat that took the decision.
SnapshotIsDecidingHat == \A a \in audited : a.snapshot = a.hat
=============================================================================
