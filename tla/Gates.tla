-------------------------------- MODULE Gates --------------------------------
(***************************************************************************)
(* The deterministic checks between the proposer and the evaluation panel: *)
(* the parameter gate, the escalation trigger gate and the risk floor of a *)
(* proposal.  None of them asks an LLM, and none of them waits.            *)
(*                                                                         *)
(* A candidate is the tool it names and whether its parameters are         *)
(* complete (every required one present, not empty, no placeholder).  A    *)
(* trigger is the set of messages it matches and its severity; the         *)
(* keyword match itself is left to those sets.                             *)
(***************************************************************************)
EXTENDS RiskTiers, Sequences, FiniteSetsExt

CONSTANTS
    Converse,   \* the framework tool that only answers
    Escalate,   \* the framework tool escalate_to_human
    NoTool      \* the top of an empty proposal

\* DEFENSIVE_TOOL_NAMES: proposals that do not act on the domain.
Defensive(u) == u \in {Converse, Escalate}

Candidates(tools) == [tool : tools \cup {Converse}, complete : BOOLEAN]

\* The positions the gate filters out: known tools with incomplete parameters.
\* Unknown tools are left to the executor, converse needs no parameters.
Failing(cs, known) ==
    {i \in DOMAIN cs : /\ cs[i].tool \in known
                       /\ cs[i].tool # Converse
                       /\ ~cs[i].complete}

\* The non-converse candidates that pass.
Passing(cs, known) ==
    {i \in DOMAIN cs \ Failing(cs, known) : cs[i].tool # Converse}

ToolsAt(cs, S) == {cs[i].tool : i \in S}
FirstOf(cs, S) == IF S = {} THEN NoTool ELSE cs[Min(S)].tool

\* Mutant: the ranking survives filtering, a failed top candidate included.
GatedKeepingTop(cs, known) ==
    [top   |-> FirstOf(cs, DOMAIN cs),
     tools |-> ToolsAt(cs, DOMAIN cs \ Failing(cs, known)),
     first |-> FirstOf(cs, Passing(cs, known))]

\* What is left of a proposal: its top, the tools it names, and its first tool
\* that is not converse.  A proposal nobody failed keeps its order; otherwise
\* the passing tools come before the converse candidates; if no tool passed,
\* only a converse candidate is left, a synthesized one if need be.
Gated(cs, known) ==
    LET passing == Passing(cs, known)
        first   == FirstOf(cs, passing)
    IN  IF Failing(cs, known) = {}
        THEN [top   |-> FirstOf(cs, DOMAIN cs),
              tools |-> ToolsAt(cs, DOMAIN cs),
              first |-> first]
        ELSE IF passing # {}
        THEN [top   |-> first,
              tools |-> ToolsAt(cs, DOMAIN cs \ Failing(cs, known)),
              first |-> first]
        ELSE [top |-> Converse, tools |-> {Converse}, first |-> NoTool]

-----------------------------------------------------------------------------

TriggerLists(messages) == Seq([matches : SUBSET messages, severity : Tier])

\* The triggers of the list that match a message; the first one decides.
Matching(triggers, m) == {i \in DOMAIN triggers : m \in triggers[i].matches}

Severity(triggers, m) ==
    IF Matching(triggers, m) = {}
    THEN NONE
    ELSE triggers[Min(Matching(triggers, m))].severity

\* The user messages that match any trigger.
Hits(triggers, said) ==
    {j \in DOMAIN said : Matching(triggers, said[j]) # {}}

\* Mutant: the history is never looked at.
EscalationFloorNow(triggers, said) ==
    IF Len(said) \in Hits(triggers, said)
    THEN Severity(triggers, said[Len(said)])
    ELSE NONE

\* The floor of the escalation gate for the last message of a conversation: the
\* message's own trigger if it has one, otherwise that of the earliest message
\* of the history that has one.
EscalationFloor(triggers, said) ==
    LET hits == Hits(triggers, said)
    IN  IF hits = {} THEN NONE
        ELSE IF Len(said) \in hits THEN Severity(triggers, said[Len(said)])
        ELSE Severity(triggers, said[Min(hits)])

-----------------------------------------------------------------------------

\* get_proposal_floor: the highest floor of the registered tools of a proposal;
\* floorOf is NONE for a tool that is not registered or declares no floor.
ProposalFloor(tools, floorOf) == Max({floorOf[u] : u \in tools} \cup {NONE})
=============================================================================
