---------------------------- MODULE AgentLoopProofs ----------------------------
(***************************************************************************)
(* The safety of the agent loop for any sessions, hats, tools, triggers,   *)
(* floors and LLM answers, and with any number of hat switches under way.  *)
(*                                                                         *)
(* The properties speak of acts of the past, so they are not inductive.    *)
(* The invariant adds what makes them so: what a turn carries at each      *)
(* await (TurnOK), and that a turn which has acted is past its last call   *)
(* (ActOK).  It is stated of a stage, a turn and a conversation, so that   *)
(* one lemma serves every action that only moves a turn along.             *)
(*                                                                         *)
(* The first section is about the gates, pure operators; then follow the   *)
(* invariant, a process whose hat is never switched, and the refinement of *)
(* ProposeThenEvaluate.  The registry's proofs come with HatDiscipline,    *)
(* whose flag the loop does not use.                                       *)
(***************************************************************************)
EXTENDS AgentLoopProperties, HatRegistryProofs, WellFoundedInduction

-----------------------------------------------------------------------------
(* What the gates return, for every proposal, trigger list and             *)
(* conversation.                                                           *)

\* The minimum of a set of positions is one of them, and the first.
LEMMA MinOfNaturals ==
    ASSUME NEW S \in SUBSET Nat, S # {}
    PROVE  Min(S) \in S /\ \A y \in S : Min(S) <= y
<1>1. PICK x \in S : \A y \in S : ~(<<y, x>> \in OpToRel(<, Nat))
  BY NatLessThanWellFounded, WFMin
<1>2. \A m, n \in Nat : m < n => <<m, n>> \in OpToRel(<, Nat)
  BY Zenon DEF OpToRel
<1>3. \A y \in S : ~(y < x)
  BY Zenon, <1>1, <1>2
<1>4. \A y \in S : x <= y
  BY <1>3
<1> QED
  BY <1>4 DEF Min

\* The maximum of a set of optional tiers with NONE is one of them, and the
\* highest.
LEMMA MaxOfTiers ==
    ASSUME NEW S \in SUBSET MaybeTier, NONE \in S
    PROVE  Max(S) \in S /\ \A y \in S : Max(S) >= y
<1>1. \E x \in S : \A y \in S : x >= y
  BY DEF MaybeTier, NONE, RED
<1> QED
  BY <1>1 DEF Max

\* The higher of two tiers is a tier, and at least each.
LEMMA MaxTierProps ==
    \A a, b \in MaybeTier :
        /\ MaxTier(a, b) \in MaybeTier
        /\ MaxTier(a, b) >= a /\ MaxTier(a, b) >= b
        /\ MaxTier(a, b) \in {a, b}
BY DEF MaxTier, MaybeTier, NONE, RED

\* A classified tier is a tier and respects every floor.
LEMMA FlooredProps ==
    \A t \in Tier : \A m, h \in MaybeTier :
        /\ Floored(t, m, h) \in Tier
        /\ Floored(t, m, h) >= m /\ Floored(t, m, h) >= h /\ Floored(t, m, h) >= t
BY DEF Floored, MaxTier, MaybeTier, Tier, NONE, GREEN, RED

\* The first candidate of a set of positions is a tool, or NoTool.
LEMMA FirstOfTyped ==
    ASSUME NEW tools, NEW cs \in Seq(Candidates(tools)),
           NEW S \in SUBSET DOMAIN cs
    PROVE  /\ FirstOf(cs, S) \in tools \cup {Converse, NoTool}
           /\ S # {} => FirstOf(cs, S) \in ToolsAt(cs, S)
<1>1. CASE S = {}
  BY <1>1 DEF FirstOf
<1>2. CASE S # {}
  <2>1. S \in SUBSET Nat
    OBVIOUS
  <2>2. Min(S) \in S
    BY <1>2, <2>1, MinOfNaturals
  <2>3. cs[Min(S)] \in Candidates(tools)
    BY <2>2
  <2> QED
    BY <1>2, <2>2, <2>3 DEF FirstOf, Candidates, ToolsAt
<1> QED
  BY <1>1, <1>2

\* The parameter gate returns tools of the proposal or converse, and the top of
\* what it returns is among them unless there is nothing.
LEMMA GatedTyped ==
    ASSUME NEW tools, NEW cs \in Seq(Candidates(tools)), NEW known
    PROVE  LET g == Gated(cs, known)
           IN  /\ g.top \in tools \cup {Converse, NoTool}
               /\ g.tools \in SUBSET (tools \cup {Converse})
               /\ g.top # NoTool => g.top \in g.tools
               /\ DOMAIN g = {"top", "tools", "first"}
<1> DEFINE failing == Failing(cs, known)
           passing == Passing(cs, known)
           kept    == DOMAIN cs \ failing
<1>1. passing \subseteq kept /\ kept \subseteq DOMAIN cs
  BY DEF Passing
<1>2. \A S \in SUBSET DOMAIN cs : ToolsAt(cs, S) \in SUBSET (tools \cup {Converse})
  <2>1. \A i \in DOMAIN cs : cs[i] \in Candidates(tools)
    OBVIOUS
  <2> QED
    BY <2>1 DEF ToolsAt, Candidates
<1>3. CASE failing = {}
  <2>1. Gated(cs, known) = [top   |-> FirstOf(cs, DOMAIN cs),
                            tools |-> ToolsAt(cs, DOMAIN cs),
                            first |-> FirstOf(cs, passing)]
    BY <1>3 DEF Gated
  <2>2. FirstOf(cs, DOMAIN cs) # NoTool => DOMAIN cs # {}
    BY DEF FirstOf
  <2> QED
    BY <2>1, <2>2, <1>2, FirstOfTyped
<1>4. CASE failing # {} /\ passing # {}
  <2>1. Gated(cs, known) = [top   |-> FirstOf(cs, passing),
                            tools |-> ToolsAt(cs, kept),
                            first |-> FirstOf(cs, passing)]
    BY <1>4 DEF Gated
  <2>2. FirstOf(cs, passing) \in ToolsAt(cs, kept)
    BY <1>1, <1>4, FirstOfTyped DEF ToolsAt
  <2> QED
    BY <2>1, <2>2, <1>1, <1>2, FirstOfTyped
<1>5. CASE failing # {} /\ passing = {}
  BY <1>5 DEF Gated
<1> QED
  BY <1>3, <1>4, <1>5

\* The severity of a message is a tier exactly when a trigger matches it.
LEMMA SeverityTyped ==
    ASSUME NEW messages, NEW triggers \in TriggerLists(messages), NEW m
    PROVE  /\ Severity(triggers, m) \in MaybeTier
           /\ Matching(triggers, m) # {} =>
                  \E k \in DOMAIN triggers : Severity(triggers, m) = triggers[k].severity
<1> DEFINE S == Matching(triggers, m)
<1>1. S \subseteq DOMAIN triggers /\ DOMAIN triggers \subseteq Nat
  BY DEF Matching, TriggerLists
<1>2. S # {} => Min(S) \in S
  BY <1>1, MinOfNaturals
<1>3. \A k \in DOMAIN triggers : triggers[k].severity \in Tier
  <2> DEFINE T == [matches : SUBSET messages, severity : Tier]
  <2>1. triggers \in Seq(T)
    BY DEF TriggerLists
  <2> HIDE DEF T
  <2>2. \A k \in DOMAIN triggers : triggers[k] \in T
    BY <2>1
  <2> QED
    BY <2>2 DEF T
<1>4. Tier \subseteq MaybeTier /\ NONE \in MaybeTier
  BY DEF Tier, MaybeTier, NONE, GREEN, RED
<1> QED
  BY <1>1, <1>2, <1>3, <1>4 DEF Severity

\* The floor of the escalation gate is a tier or NONE; with a hit anywhere in
\* the conversation it is the severity of one of the triggers.
LEMMA EscalationFloorProps ==
    ASSUME NEW messages, NEW triggers \in TriggerLists(messages),
           NEW msgs \in Seq(messages), msgs # << >>
    PROVE  /\ EscalationFloor(triggers, msgs) \in MaybeTier
           /\ Hits(triggers, msgs) # {} =>
                  \E k \in DOMAIN triggers :
                      EscalationFloor(triggers, msgs) = triggers[k].severity
<1> DEFINE hits == Hits(triggers, msgs)
           at   == IF Len(msgs) \in hits THEN Len(msgs) ELSE Min(hits)
<1>1. CASE hits = {}
  BY <1>1 DEF EscalationFloor, MaybeTier, NONE, RED
<1>2. CASE hits # {}
  <2>1. hits \in SUBSET Nat
    BY DEF Hits
  <2>2. at \in hits
    BY <1>2, <2>1, MinOfNaturals
  <2>3. EscalationFloor(triggers, msgs) = Severity(triggers, msgs[at])
    BY <1>2 DEF EscalationFloor
  <2>4. Matching(triggers, msgs[at]) # {}
    BY <2>2 DEF Hits
  <2> QED
    BY <2>3, <2>4, SeverityTyped
<1> QED
  BY <1>1, <1>2

\* The floor of a proposal is a tier or NONE and at least that of each tool.
LEMMA ProposalFloorProps ==
    ASSUME NEW tools, NEW floorOf, \A u \in tools : floorOf[u] \in MaybeTier
    PROVE  /\ ProposalFloor(tools, floorOf) \in MaybeTier
           /\ \A u \in tools : ProposalFloor(tools, floorOf) >= floorOf[u]
<1> DEFINE S == {floorOf[u] : u \in tools} \cup {NONE}
<1>1. S \in SUBSET MaybeTier /\ NONE \in S
  BY DEF MaybeTier, NONE, RED
<1>2. Max(S) \in S /\ \A y \in S : Max(S) >= y
  BY <1>1, MaxOfTiers
<1> QED
  BY <1>1, <1>2 DEF ProposalFloor

-----------------------------------------------------------------------------
(* The invariant.                                                          *)

LoopTyped ==
    /\ hatEquipped \in BOOLEAN
    /\ pc \in [Sessions -> Stage]
    /\ turn \in [Sessions -> Turns]
    /\ said \in [Sessions -> Seq(Messages)]
    /\ acts \in Seq(Acts)
    /\ audited \subseteq Records
    /\ switches \in Nat

Undecided == {"idle", "ensure", "parse", "propose", "ack", "evaluate", "situation"}
Routed    == {"ack", "evaluate", "situation", "execute", "escalate",
              "respond", "persist", "deliver", "audit"}
PastCalls == {"idle", "respond", "persist", "deliver", "audit"}

\* The conversation the gate sees, of the messages said.
HeardOf(s, msgs) == IF Kind[s] = "websocket" THEN msgs ELSE <<msgs[Len(msgs)]>>

\* What a turn at stage p carries in its locals u, the user having said msgs.
TurnOK(s, p, u, msgs) ==
    /\ p # "idle" => msgs # << >>
    /\ p \in Routed => u.hat \in Hats
    /\ IF p \in Undecided THEN u.tier = NONE ELSE u.tier \in Tier
    /\ p \in {"ack", "evaluate", "execute"} =>
           u.esc = EscalationFloor(Triggers[u.hat], HeardOf(s, msgs))
    /\ p \in {"evaluate", "execute"} => u.top \in Tools \ {Escalate}
    /\ p = "execute" => /\ u.tier = GREEN
                        /\ MaxTier(u.esc, u.floor) <= GREEN
                        /\ HatMinTier[u.hat] <= GREEN
    /\ p = "escalate" => u.tier = ORANGE

\* No message of the turn or before it has a trigger of the hat.
Untriggered(e, msgs) ==
    /\ Kind[e.session] = "websocket"
    /\ \A k \in DOMAIN Triggers[e.hat] : Triggers[e.hat][k].severity >= YELLOW
    => \A j \in 1..e.turn : Matching(Triggers[e.hat], msgs[j]) = {}

\* What is known of an act, its session being at stage p and having said msgs.
ActOK(e, p, msgs) ==
    /\ e.turn \in 1..Len(msgs)
    /\ e.turn = Len(msgs) => p \in PastCalls
    /\ DomainAct(e) => /\ e.hat \in Hats
                       /\ e.tier = GREEN
                       /\ MaxTier(e.esc, e.floor) <= GREEN
                       /\ HatMinTier[e.hat] <= GREEN
                       /\ Untriggered(e, msgs)
    /\ e.tool = Escalate => e.tier = ORANGE

IInv ==
    /\ HatIInv
    /\ LoopTyped
    /\ \A s \in Sessions : TurnOK(s, pc[s], turn[s], said[s])
    /\ \A i \in DOMAIN acts : ActOK(acts[i], pc[acts[i].session], said[acts[i].session])
    /\ OneActPerTurn

-----------------------------------------------------------------------------

\* The blank turn is typed, and right for every stage before the proposal.
LEMMA BlankOK ==
    /\ Blank \in Turns
    /\ \A h \in Hats \cup {NoHat} : [Blank EXCEPT !.hat = h] \in Turns
    /\ \A s, msgs : TurnOK(s, "idle", Blank, msgs)
    /\ \A s, msgs, h : msgs # << >> =>
           TurnOK(s, "ensure", Blank, msgs) /\ TurnOK(s, "parse", [Blank EXCEPT !.hat = h], msgs)
<1>1. Blank \in Turns
  BY DEF Blank, Turns, MaybeTier, NONE, RED
<1>2. \A h \in Hats \cup {NoHat} : [Blank EXCEPT !.hat = h] \in Turns
  BY <1>1 DEF Turns
<1>3. \A h : [Blank EXCEPT !.hat = h].tier = NONE /\ Blank.tier = NONE
  BY DEF Blank
<1> QED
  BY <1>1, <1>2, <1>3 DEF TurnOK, Undecided, Routed

\* A step that moves one turn along, without a call, keeps the invariant if the
\* turn is right where it arrives and does not go back before a call.
LEMMA QuietStep ==
    ASSUME IInv, NEW s \in Sessions, NEW p \in Stage, NEW u \in Turns,
           Goes(s, p, u), said' = said, acts' = acts,
           HatIInv', hatEquipped' \in BOOLEAN, audited' \subseteq Records,
           switches' = switches,
           TurnOK(s, p, u, said[s]),
           pc[s] \in PastCalls => p \in PastCalls
    PROVE  IInv'
<1>1. LoopTyped'
  BY DEF IInv, LoopTyped, Goes
<1>2. \A r \in Sessions : TurnOK(r, pc'[r], turn'[r], said'[r])
  <2> TAKE r \in Sessions
  <2>1. CASE r = s
    BY <2>1 DEF IInv, LoopTyped, Goes
  <2>2. CASE r # s
    BY <2>2 DEF IInv, LoopTyped, Goes
  <2> QED
    BY <2>1, <2>2
<1>3. \A i \in DOMAIN acts' : ActOK(acts'[i], pc'[acts'[i].session], said'[acts'[i].session])
  <2> SUFFICES ASSUME NEW i \in DOMAIN acts
               PROVE  ActOK(acts[i], pc'[acts[i].session], said[acts[i].session])
    OBVIOUS
  <2>1. ActOK(acts[i], pc[acts[i].session], said[acts[i].session])
    BY DEF IInv
  <2>2. pc[acts[i].session] \in PastCalls => pc'[acts[i].session] \in PastCalls
    BY DEF IInv, LoopTyped, Goes, Acts
  <2> QED
    BY <2>1, <2>2 DEF ActOK
<1>4. OneActPerTurn'
  BY DEF IInv, OneActPerTurn
<1> QED
  BY <1>1, <1>2, <1>3, <1>4 DEF IInv, TurnOK, ActOK

\* A sequence after an append.
LEMMA AppendProps ==
    ASSUME NEW S, NEW q \in Seq(S), NEW e \in S
    PROVE  /\ Append(q, e) \in Seq(S)
           /\ Append(q, e) # << >>
           /\ Len(Append(q, e)) = Len(q) + 1 /\ Len(q) \in Nat
           /\ DOMAIN q \subseteq DOMAIN Append(q, e)
           /\ \A i \in DOMAIN q : Append(q, e)[i] = q[i] /\ q[i] \in S
           /\ \A i \in DOMAIN Append(q, e) \ DOMAIN q :
                  i = Len(q) + 1 /\ Append(q, e)[i] = e
<1>1. Len(Append(q, e)) = Len(q) + 1 /\ Len(q) \in Nat
  OBVIOUS
<1>2. Append(q, e) # << >>
  BY <1>1
<1> QED
  BY <1>1, <1>2

\* A call that has its effect keeps the invariant: no act of the turn came
\* before, and the turn it leaves behind is past its calls.
LEMMA CallStep ==
    ASSUME LoopAssumption, IInv, NEW s \in Sessions, NEW p \in PastCalls, NEW u \in Turns,
           pc[s] \in {"execute", "escalate"},
           Goes(s, p, u), said' = said, acts' = Append(acts, Act(s)),
           UNCHANGED <<hatVars, hatEquipped, audited, switches>>,
           TurnOK(s, p, u, said[s])
    PROVE  IInv'
<1> DEFINE a == Act(s)
<1>1. TurnOK(s, pc[s], turn[s], said[s])
  BY DEF IInv
<1>2. said[s] \in Seq(Messages) /\ said[s] # << >> /\ turn[s] \in Turns
  BY <1>1 DEF IInv, LoopTyped, TurnOK
<1>3. Len(said[s]) \in Nat /\ Len(said[s]) >= 1
  BY <1>2
<1>4. a \in Acts
  <2>1. turn[s].tier \in Tier
    BY <1>1 DEF TurnOK, Undecided
  <2>2. (IF pc[s] = "escalate" THEN Escalate ELSE turn[s].top) \in Tools
    BY <1>1 DEF TurnOK, LoopAssumption
  <2> QED
    BY <1>2, <1>3, <2>1, <2>2 DEF Act, Acts, Turns
<1>5. LoopTyped'
  BY <1>4 DEF IInv, LoopTyped, Goes, PastCalls, Stage
<1>6. \A r \in Sessions : TurnOK(r, pc'[r], turn'[r], said'[r])
  <2> TAKE r \in Sessions
  <2>1. CASE r = s
    BY <2>1 DEF IInv, LoopTyped, Goes
  <2>2. CASE r # s
    BY <2>2 DEF IInv, LoopTyped, Goes
  <2> QED
    BY <2>1, <2>2
<1>7. \A i \in DOMAIN acts : acts[i].session = s => acts[i].turn < Len(said[s])
  <2> TAKE i \in DOMAIN acts
  <2>1. ActOK(acts[i], pc[acts[i].session], said[acts[i].session])
    BY DEF IInv
  <2> QED
    BY <2>1, <1>3 DEF ActOK, PastCalls
<1>8. Untriggered(a, said[s]) \/ ~DomainAct(a)
  <2> SUFFICES ASSUME DomainAct(a), Kind[s] = "websocket",
                      \A k \in DOMAIN Triggers[turn[s].hat] :
                          Triggers[turn[s].hat][k].severity >= YELLOW,
                      NEW j \in 1..Len(said[s]),
                      Matching(Triggers[turn[s].hat], said[s][j]) # {}
               PROVE  FALSE
    BY DEF Untriggered, Act
  <2>1. pc[s] = "execute"
    BY DEF Act, DomainAct
  <2>2. /\ turn[s].hat \in Hats
        /\ turn[s].esc = EscalationFloor(Triggers[turn[s].hat], said[s])
        /\ MaxTier(turn[s].esc, turn[s].floor) <= GREEN
    BY <1>1, <2>1 DEF TurnOK, Routed, HeardOf
  <2>3. Triggers[turn[s].hat] \in TriggerLists(Messages)
    BY <2>2 DEF LoopAssumption
  <2>4. j \in Hits(Triggers[turn[s].hat], said[s])
    BY <1>2 DEF Hits
  <2>5. turn[s].esc >= YELLOW
    BY <1>2, <2>2, <2>3, <2>4, EscalationFloorProps
  <2>6. turn[s].esc \in MaybeTier /\ turn[s].floor \in MaybeTier
    BY <1>2 DEF Turns
  <2>7. MaxTier(turn[s].esc, turn[s].floor) >= YELLOW
    BY <2>5, <2>6 DEF MaxTier, YELLOW, MaybeTier, NONE, RED
  <2>8. MaxTier(turn[s].esc, turn[s].floor) \in MaybeTier
    BY <2>6, MaxTierProps
  <2> QED
    BY <2>2, <2>7, <2>8 DEF YELLOW, GREEN, MaybeTier, NONE, RED
<1>9. ActOK(a, p, said[s])
  <2>1. a.turn = Len(said[s]) /\ a.session = s /\ a.hat = turn[s].hat
        /\ a.tier = turn[s].tier /\ a.esc = turn[s].esc /\ a.floor = turn[s].floor
    BY DEF Act
  <2>2. DomainAct(a) => pc[s] = "execute"
    BY DEF Act, DomainAct
  <2>3. a.tool = Escalate => pc[s] = "escalate"
    BY <1>1 DEF Act, TurnOK
  <2> QED
    BY <1>1, <1>3, <1>8, <2>1, <2>2, <2>3 DEF ActOK, TurnOK, Routed
<1>10. /\ DOMAIN acts \subseteq DOMAIN acts'
       /\ \A i \in DOMAIN acts : acts'[i] = acts[i] /\ acts[i] \in Acts
       /\ \A i \in DOMAIN acts' \ DOMAIN acts : i = Len(acts) + 1 /\ acts'[i] = a
  BY <1>4, AppendProps DEF IInv, LoopTyped
<1>11. \A i \in DOMAIN acts' : ActOK(acts'[i], pc'[acts'[i].session], said'[acts'[i].session])
  <2> TAKE i \in DOMAIN acts'
  <2>1. CASE i \in DOMAIN acts
    <3>1. ActOK(acts[i], pc[acts[i].session], said[acts[i].session])
      BY <2>1 DEF IInv
    <3>2. acts'[i] = acts[i] /\ acts[i] \in Acts
      BY <1>10, <2>1
    <3>3. pc[acts[i].session] \in PastCalls => pc'[acts[i].session] \in PastCalls
      BY <3>2 DEF IInv, LoopTyped, Goes, Acts
    <3> QED
      BY <3>1, <3>2, <3>3 DEF ActOK
  <2>2. CASE i \notin DOMAIN acts
    <3>1. acts'[i] = a /\ a.session = s
      BY <1>10, <2>2 DEF Act
    <3>2. pc'[s] = p
      BY DEF IInv, LoopTyped, Goes
    <3> QED
      BY <1>9, <3>1, <3>2 DEF ActOK
  <2> QED
    BY <2>1, <2>2
<1>12. OneActPerTurn'
  <2> SUFFICES ASSUME NEW i \in DOMAIN acts', NEW j \in DOMAIN acts',
                      acts'[i].session = acts'[j].session,
                      acts'[i].turn = acts'[j].turn
               PROVE  i = j
    BY DEF OneActPerTurn
  <2>1. a.session = s /\ a.turn = Len(said[s])
    BY DEF Act
  <2> QED
    BY <1>3, <1>7, <1>10, <2>1 DEF IInv, OneActPerTurn, ActOK
<1>13. HatIInv'
  BY DEF IInv, HatIInv, hatVars, Sound
<1> QED
  BY <1>5, <1>6, <1>11, <1>12, <1>13 DEF IInv, TurnOK, ActOK

\* The same as QuietStep for an action that changes nothing but the turn.
LEMMA MoveStep ==
    ASSUME IInv, NEW s \in Sessions, NEW p \in Stage, NEW u \in Turns,
           Goes(s, p, u),
           UNCHANGED <<hatEquipped, said, acts, audited, switches, hatVars>>,
           TurnOK(s, p, u, said[s]),
           pc[s] \in PastCalls => p \in PastCalls
    PROVE  IInv'
<1>1. HatIInv' /\ hatEquipped' \in BOOLEAN /\ audited' \subseteq Records
  BY DEF IInv, HatIInv, LoopTyped, hatVars, Sound
<1> QED
  BY <1>1, QuietStep

\* So does the end of a turn, whatever it was at.
LEMMA EndStep ==
    ASSUME IInv, NEW s \in Sessions, Ends(s),
           UNCHANGED <<hatEquipped, said, acts, audited, switches, hatVars>>
    PROVE  IInv'
<1>1. "idle" \in Stage /\ "idle" \in PastCalls
  BY DEF Stage, PastCalls
<1> QED
  BY <1>1, BlankOK, MoveStep DEF Ends

-----------------------------------------------------------------------------

\* The floors of the registered tools are tiers.
LEMMA FloorNowTyped ==
    ASSUME LoopAssumption, IInv
    PROVE  \A x \in Tools \cup {Converse} : FloorNow[x] \in MaybeTier
<1>1. \A x \in Tools : Registered(x) => equipped.tools[x] \in Hats
  BY DEF IInv, HatIInv, Sound, Scope, Registered
<1>2. NONE \in MaybeTier
  BY DEF MaybeTier, NONE, RED
<1> QED
  BY <1>1, <1>2 DEF FloorNow, LoopAssumption

\* The risk floor check and the choice of path, from wherever they are reached.
LEMMA RouteSound ==
    ASSUME LoopAssumption, IInv, NEW s \in Sessions, NEW u \in Turns,
           u.tier = NONE, u.hat \in Hats, said[s] # << >>,
           u.esc = EscalationFloor(Triggers[u.hat], HeardOf(s, said[s])),
           pc[s] \notin PastCalls,
           Route(s, u),
           UNCHANGED <<hatEquipped, said, acts, audited, switches, hatVars>>
    PROVE  IInv'
<1> DEFINE w == [u EXCEPT !.floor = ProposalFloor(u.tools, FloorNow)]
<1>1. w \in Turns
  <2>1. u.tools \subseteq Tools \cup {Converse}
    BY DEF Turns
  <2>2. ProposalFloor(u.tools, FloorNow) \in MaybeTier
    BY <2>1, FloorNowTyped, ProposalFloorProps
  <2> QED
    BY <2>2 DEF Turns
<1>2. /\ w.tier = NONE /\ w.hat = u.hat /\ w.esc = u.esc /\ w.top = u.top
      /\ \A t \in Tier : /\ [w EXCEPT !.tier = t] \in Turns
                         /\ [w EXCEPT !.tier = t].tier = t
                         /\ [w EXCEPT !.tier = t].hat = u.hat
  <2>1. Tier \subseteq MaybeTier
    BY DEF Tier, MaybeTier, NONE, GREEN, RED
  <2> QED
    BY <1>1, <2>1 DEF Turns
<1>3. RED \in Tier /\ GREEN \in Tier
  BY DEF Tier, RED, GREEN
<1>4. \A t \in Tier : TurnOK(s, "respond", [w EXCEPT !.tier = t], said[s])
  BY <1>2 DEF TurnOK, Undecided
<1>5. TurnOK(s, "situation", w, said[s])
  BY <1>2 DEF TurnOK, Undecided
<1>6. ~Defensive(u.top) /\ u.top # NoTool => TurnOK(s, "evaluate", w, said[s])
  BY <1>2 DEF TurnOK, Undecided, Defensive, Turns
<1>7. {"respond", "situation", "evaluate"} \subseteq Stage
  BY DEF Stage
<1>8. CASE \E t \in Tier : Goes(s, "respond", [w EXCEPT !.tier = t])
  BY <1>2, <1>4, <1>7, <1>8, MoveStep
<1>9. CASE Goes(s, "situation", w)
  BY <1>1, <1>5, <1>7, <1>9, MoveStep
<1>10. CASE ~Defensive(u.top) /\ u.top # NoTool /\ Goes(s, "evaluate", w)
  BY <1>1, <1>6, <1>7, <1>10, MoveStep
<1> QED
  BY <1>3, <1>8, <1>9, <1>10 DEF Route

-----------------------------------------------------------------------------
(* One lemma per action.                                                   *)

\* What the invariant says of the turn of a session.
LEMMA TurnFacts ==
    ASSUME IInv, NEW s \in Sessions
    PROVE  /\ turn[s] \in Turns
           /\ said[s] \in Seq(Messages)
           /\ TurnOK(s, pc[s], turn[s], said[s])
           /\ pc[s] # "idle" => said[s] # << >>
BY DEF IInv, LoopTyped, TurnOK

\* The input gate answers: the turn goes on with its intent.
LEMMA ParseSound ==
    ASSUME IInv, NEW s \in Sessions, ParseReturns(s)
    PROVE  IInv'
<1>1. PICK ex \in BOOLEAN : Goes(s, "propose", [turn[s] EXCEPT !.exempt = ex])
  BY DEF ParseReturns
<1>2. /\ [turn[s] EXCEPT !.exempt = ex] \in Turns
      /\ [turn[s] EXCEPT !.exempt = ex].tier = turn[s].tier
  BY TurnFacts DEF Turns
<1>3. TurnOK(s, "propose", [turn[s] EXCEPT !.exempt = ex], said[s])
  BY <1>2, TurnFacts DEF TurnOK, Undecided, Routed, ParseReturns
<1>4. "propose" \in Stage /\ pc[s] \notin PastCalls
  BY DEF Stage, ParseReturns, PastCalls
<1> QED
  BY <1>1, <1>2, <1>3, <1>4, MoveStep DEF ParseReturns

\* The proposer answers: what survives the gates is typed, and the escalation
\* floor is that of the conversation heard.
LEMMA ProposeSound ==
    ASSUME LoopAssumption, IInv, NEW s \in Sessions, ProposeReturns(s)
    PROVE  IInv'
<1> DEFINE known == {x \in Tools : Registered(x)}
           g(cs) == Gated(cs, known)
           esc   == EscalationFloor(Triggers[turn[s].hat], Heard(s))
           u(cs) == [turn[s] EXCEPT !.top = g(cs).top, !.tools = g(cs).tools, !.esc = esc]
<1>1. PICK cs \in Proposals :
          \/ turn[s].hat = NoHat /\ Ends(s)
          \/ /\ turn[s].hat # NoHat
             /\ \/ Goes(s, "ack", u(cs))
                \/ Route(s, u(cs))
  BY DEF ProposeReturns
<1>2. pc[s] = "propose" /\ UNCHANGED <<hatEquipped, said, acts, audited, switches, hatVars>>
  BY DEF ProposeReturns
<1>3. CASE turn[s].hat = NoHat /\ Ends(s)
  BY <1>2, <1>3, EndStep
<1>4. ASSUME turn[s].hat # NoHat
      PROVE  /\ u(cs) \in Turns
             /\ u(cs).hat = turn[s].hat /\ u(cs).tier = NONE /\ u(cs).esc = esc
             /\ turn[s].hat \in Hats
  <2>1. turn[s] \in Turns /\ turn[s].hat \in Hats /\ turn[s].tier = NONE
    BY <1>2, <1>4, TurnFacts DEF Turns, TurnOK, Undecided
  <2>2. Heard(s) \in Seq(Messages) /\ Heard(s) # << >>
    BY <1>2, TurnFacts DEF Heard
  <2>3. Triggers[turn[s].hat] \in TriggerLists(Messages)
    BY <2>1 DEF LoopAssumption
  <2>4. esc \in MaybeTier
    BY <2>2, <2>3, EscalationFloorProps
  <2>5. cs \in Seq(Candidates(Tools))
    BY DEF LoopAssumption
  <2>6. g(cs).top \in Tools \cup {Converse, NoTool} /\ g(cs).tools \in SUBSET (Tools \cup {Converse})
    BY <2>5, GatedTyped
  <2> HIDE DEF esc, g
  <2> QED
    BY <2>1, <2>4, <2>6 DEF Turns
<1>5. Heard(s) = HeardOf(s, said[s]) /\ said[s] # << >> /\ pc[s] \notin PastCalls
  BY <1>2, TurnFacts DEF Heard, HeardOf, PastCalls
<1>6. CASE turn[s].hat # NoHat /\ Goes(s, "ack", u(cs))
  <2>1. TurnOK(s, "ack", u(cs), said[s])
    BY <1>4, <1>5, <1>6 DEF TurnOK, Undecided
  <2>2. "ack" \in Stage
    BY DEF Stage
  <2> HIDE DEF u
  <2> QED
    BY <1>2, <1>4, <1>5, <1>6, <2>1, <2>2, MoveStep
<1>7. CASE turn[s].hat # NoHat /\ Route(s, u(cs))
  <2> HIDE DEF u
  <2> QED
    BY <1>2, <1>4, <1>5, <1>7, RouteSound
<1> QED
  BY <1>1, <1>3, <1>6, <1>7

\* The acknowledgment is sent: the pipeline goes on as it would have without.
LEMMA AckSound ==
    ASSUME LoopAssumption, IInv, NEW s \in Sessions, AckSent(s)
    PROVE  IInv'
<1>1. /\ turn[s].tier = NONE /\ turn[s].hat \in Hats
      /\ turn[s].esc = EscalationFloor(Triggers[turn[s].hat], HeardOf(s, said[s]))
  BY TurnFacts DEF AckSent, TurnOK, Undecided, Routed
<1>2. pc[s] \notin PastCalls /\ pc[s] # "idle"
  BY DEF AckSent, PastCalls
<1> QED
  BY <1>1, <1>2, TurnFacts, RouteSound DEF AckSent

\* The panel answers: whatever it scored, the verdict respects the floors, and
\* a call is under way only on the verdict that allows it.
LEMMA EvaluateSound ==
    ASSUME LoopAssumption, IInv, NEW s \in Sessions, EvaluateReturns(s)
    PROVE  IInv'
<1> DEFINE v(scored) == Verdict(turn[s], scored)
           q(scored) == Execution(turn[s], v(scored))
           w(scored) == [turn[s] EXCEPT
                !.tier = v(scored),
                !.owner = IF q(scored) = "execute" THEN equipped.tools[turn[s].top]
                          ELSE IF q(scored) = "escalate" THEN equipped.tools[Escalate]
                          ELSE NoHat]
<1>1. PICK scored \in Tier : Goes(s, q(scored), w(scored))
  BY DEF EvaluateReturns
<1>2. /\ turn[s] \in Turns /\ turn[s].hat \in Hats /\ said[s] # << >>
      /\ turn[s].top \in Tools \ {Escalate}
      /\ turn[s].esc = EscalationFloor(Triggers[turn[s].hat], HeardOf(s, said[s]))
  BY TurnFacts DEF EvaluateReturns, TurnOK, Routed
<1>3. /\ v(scored) \in Tier
      /\ v(scored) >= MaxTier(turn[s].esc, turn[s].floor)
      /\ v(scored) >= HatMinTier[turn[s].hat]
  <2>1. HatMinTier[turn[s].hat] \in MaybeTier
    BY <1>2 DEF LoopAssumption
  <2>2. MaxTier(turn[s].esc, turn[s].floor) \in MaybeTier
    BY <1>2, MaxTierProps DEF Turns
  <2> QED
    BY <2>1, <2>2, FlooredProps DEF Verdict
<1>4. \A x \in Tools : equipped.tools[x] \in Hats \cup {NoHat}
  BY DEF IInv, HatIInv, Sound, Scope
<1>5. /\ w(scored) \in Turns
      /\ w(scored).tier = v(scored) /\ w(scored).hat = turn[s].hat
      /\ w(scored).esc = turn[s].esc /\ w(scored).floor = turn[s].floor
      /\ w(scored).top = turn[s].top
  <2>1. v(scored) \in MaybeTier
    BY <1>3 DEF Tier, MaybeTier, NONE, GREEN, RED
  <2>2. Escalate \in Tools
    BY DEF LoopAssumption
  <2> HIDE DEF v, q
  <2> QED
    BY <1>2, <1>4, <2>1, <2>2 DEF Turns
<1>6. /\ q(scored) \in {"execute", "escalate", "respond", "persist"}
      /\ q(scored) = "execute" => v(scored) = GREEN
      /\ q(scored) = "escalate" => v(scored) = ORANGE
  <2> HIDE DEF v
  <2> QED
    BY DEF Execution, GREEN, YELLOW, ORANGE
<1> HIDE DEF v, q, w
<1>7. TurnOK(s, q(scored), w(scored), said[s])
  BY <1>2, <1>3, <1>5, <1>6 DEF TurnOK, Undecided, Routed
<1>8. q(scored) \in Stage /\ pc[s] \notin PastCalls
  BY <1>6 DEF Stage, EvaluateReturns, PastCalls
<1> QED
  BY <1>1, <1>5, <1>7, <1>8, MoveStep DEF EvaluateReturns

\* The situation is evaluated: the turn has a verdict and makes no call.
LEMMA SituationSound ==
    ASSUME LoopAssumption, IInv, NEW s \in Sessions, SituationReturns(s)
    PROVE  IInv'
<1> DEFINE t(scored) == Floored(scored, turn[s].esc, HatMinTier[turn[s].hat])
           w(scored) == [turn[s] EXCEPT !.tier = t(scored)]
<1>1. PICK scored \in Tier : Goes(s, "respond", w(scored))
  BY DEF SituationReturns
<1>2. turn[s] \in Turns /\ turn[s].hat \in Hats /\ said[s] # << >>
  BY TurnFacts DEF SituationReturns, TurnOK, Routed
<1>3. t(scored) \in Tier
  BY <1>2, FlooredProps DEF LoopAssumption, Turns
<1>4. /\ w(scored) \in Turns /\ w(scored).tier = t(scored)
      /\ w(scored).hat = turn[s].hat
  <2>1. t(scored) \in MaybeTier
    BY <1>3 DEF Tier, MaybeTier, NONE, GREEN, RED
  <2> HIDE DEF t
  <2> QED
    BY <1>2, <2>1 DEF Turns
<1> HIDE DEF t, w
<1>5. TurnOK(s, "respond", w(scored), said[s])
  BY <1>2, <1>3, <1>4 DEF TurnOK, Undecided, Routed
<1>6. "respond" \in Stage /\ pc[s] \notin PastCalls
  BY DEF Stage, SituationReturns, PastCalls
<1> QED
  BY <1>1, <1>4, <1>5, <1>6, MoveStep DEF SituationReturns

\* A tool of the domain returns or raises, with its effect or without.
LEMMA ToolSound ==
    ASSUME LoopAssumption, IInv, NEW s \in Sessions, ToolReturns(s) \/ ToolRaises(s)
    PROVE  IInv'
<1>1. pc[s] = "execute" /\ UNCHANGED <<hatEquipped, said, audited, switches, hatVars>>
  BY DEF ToolReturns, ToolRaises
<1>2. TurnOK(s, "respond", turn[s], said[s]) /\ TurnOK(s, "idle", Blank, said[s])
  BY <1>1, TurnFacts, BlankOK DEF TurnOK, Undecided, Routed
<1>3. /\ turn[s] \in Turns /\ Blank \in Turns
      /\ {"respond", "idle"} \subseteq PastCalls
      /\ {"respond", "idle"} \subseteq Stage
  BY TurnFacts, BlankOK DEF PastCalls, Stage
<1>4. \/ Goes(s, "respond", turn[s])
      \/ Goes(s, "idle", Blank)
  BY DEF ToolReturns, ToolRaises, Ends
<1>5. CASE acts' = acts
  BY <1>1, <1>2, <1>3, <1>4, <1>5, MoveStep
<1>6. CASE acts' = Append(acts, Act(s))
  BY <1>1, <1>2, <1>3, <1>4, <1>6, CallStep
<1> QED
  BY <1>5, <1>6 DEF ToolReturns, ToolRaises, MayAct

\* The escalation to a human returns or raises.
LEMMA EscalateSound ==
    ASSUME LoopAssumption, IInv, NEW s \in Sessions,
           EscalateReturns(s) \/ EscalateRaises(s)
    PROVE  IInv'
<1>1. CASE EscalateReturns(s)
  <2>1. TurnOK(s, "persist", turn[s], said[s])
    BY <1>1, TurnFacts DEF EscalateReturns, TurnOK, Undecided, Routed
  <2>2. "persist" \in PastCalls
    BY DEF PastCalls
  <2> QED
    BY <1>1, <2>1, <2>2, TurnFacts, CallStep DEF EscalateReturns
<1>2. CASE EscalateRaises(s)
  BY <1>2, EndStep DEF EscalateRaises
<1> QED
  BY <1>1, <1>2

\* A turn that is closing goes on to close, with the locals it has.
LEMMA CloseSound ==
    ASSUME IInv, NEW s \in Sessions, Respond(s) \/ Persist(s) \/ Deliver(s)
    PROVE  IInv'
<1>1. pc[s] \in {"respond", "persist", "deliver"}
      /\ UNCHANGED <<hatEquipped, said, acts, audited, switches, hatVars>>
  BY DEF Respond, Persist, Deliver
<1>2. \A p \in {"persist", "deliver", "audit"} :
          TurnOK(s, p, turn[s], said[s]) /\ p \in Stage /\ p \in PastCalls
  BY <1>1, TurnFacts DEF TurnOK, Undecided, Routed, Stage, PastCalls
<1>3. CASE Ends(s)
  BY <1>1, <1>3, EndStep
<1>4. CASE \E p \in {"persist", "deliver", "audit"} : Goes(s, p, turn[s])
  BY <1>1, <1>2, <1>4, TurnFacts, MoveStep
<1> QED
  BY <1>3, <1>4 DEF Respond, Persist, Deliver

\* The audit record, written or lost, ends the turn.
LEMMA AuditSound ==
    ASSUME IInv, NEW s \in Sessions, Audit(s)
    PROVE  IInv'
<1>1. turn[s].hat \in Hats \cup {NoHat} /\ Len(said[s]) \in Nat
  BY TurnFacts DEF Turns
<1>2. equipped.active \in Hats \cup {NoHat}
  BY DEF IInv, HatIInv, Sound, Scope
<1>3. audited' \subseteq Records
  BY <1>1, <1>2 DEF Audit, IInv, LoopTyped, Records
<1>4. HatIInv' /\ hatEquipped' \in BOOLEAN
  BY DEF Audit, IInv, HatIInv, LoopTyped, hatVars, Sound
<1>5. "idle" \in Stage /\ "idle" \in PastCalls
  BY DEF Stage, PastCalls
<1> QED
  BY <1>3, <1>4, <1>5, BlankOK, QuietStep DEF Audit, Ends

-----------------------------------------------------------------------------

\* After an equip made for a session, the turn raises, waits or goes on.
LEMMA SettleGoes ==
    ASSUME HatIInv', IInv, NEW s \in Sessions, Settle(s)
    PROVE  /\ \/ Goes(s, "idle", Blank)
              \/ Goes(s, "ensure", Blank)
              \/ \E h \in Hats \cup {NoHat} : Goes(s, "parse", [Blank EXCEPT !.hat = h])
           /\ hatEquipped' \in BOOLEAN
<1>1. equipped'.active \in Hats \cup {NoHat}
  BY DEF HatIInv, Sound, Scope
<1>2. hatEquipped \in BOOLEAN
  BY DEF IInv, LoopTyped
<1> QED
  BY <1>1, <1>2 DEF Settle, Ends

\* An equip made for a session goes on.
LEMMA EquipSound ==
    ASSUME LoopAssumption, HatAssumption, IInv, NEW s \in Sessions, EquipResumes(s)
    PROVE  IInv'
<1>1. s \in Tasks /\ HatIInv
  BY DEF LoopAssumption, IInv
<1>2. HatIInv'
  BY <1>1, ResumesSound DEF EquipResumes
<1>3. said[s] # << >> /\ pc[s] \notin PastCalls
  BY TurnFacts DEF EquipResumes, PastCalls
<1>4. {"idle", "ensure", "parse"} \subseteq Stage
  BY DEF Stage
<1>5. audited' \subseteq Records /\ said' = said /\ acts' = acts /\ switches' = switches
  BY DEF EquipResumes, IInv, LoopTyped
<1>6. PICK p \in {"idle", "ensure", "parse"}, u \in Turns :
          Goes(s, p, u) /\ TurnOK(s, p, u, said[s]) /\ hatEquipped' \in BOOLEAN
  BY <1>2, <1>3, SettleGoes, BlankOK DEF EquipResumes
<1> QED
  BY <1>2, <1>3, <1>4, <1>5, <1>6, QuietStep

\* An act of the conversation so far is one of every continuation of it, and of
\* an earlier turn.
LEMMA ActExtends ==
    ASSUME NEW e, NEW p, NEW q, NEW msgs \in Seq(Messages), NEW m \in Messages,
           ActOK(e, p, msgs)
    PROVE  ActOK(e, q, Append(msgs, m))
<1> DEFINE more == Append(msgs, m)
<1>1. e.turn \in 1..Len(msgs) /\ Len(msgs) \in Nat /\ Len(more) = Len(msgs) + 1
  BY AppendProps DEF ActOK
<1>2. \A j \in 1..e.turn : more[j] = msgs[j]
  BY <1>1
<1> HIDE DEF more
<1>3. Untriggered(e, msgs) => Untriggered(e, more)
  BY <1>2 DEF Untriggered
<1> QED
  BY <1>1, <1>3 DEF ActOK, more

\* A message arrives: what was said stays said, and the acts of earlier turns
\* are the acts of earlier turns.
LEMMA ReceiveSound ==
    ASSUME LoopAssumption, HatAssumption, IInv, NEW s \in Sessions, Receive(s)
    PROVE  IInv'
<1>1. PICK m \in Messages : said' = [said EXCEPT ![s] = Append(@, m)]
  BY DEF Receive
<1>2. pc[s] = "idle" /\ acts' = acts /\ audited' = audited /\ switches' = switches
  BY DEF Receive
<1>3. /\ \A r \in Sessions : said[r] \in Seq(Messages) /\ (r # s => said'[r] = said[r])
      /\ said'[s] = Append(said[s], m)
      /\ said' \in [Sessions -> Seq(Messages)]
  BY <1>1 DEF IInv, LoopTyped
<1>4. /\ said'[s] # << >> /\ Len(said'[s]) = Len(said[s]) + 1 /\ Len(said[s]) \in Nat
  <2>1. said[s] \in Seq(Messages)
    BY <1>3
  <2>2. /\ Append(said[s], m) # << >> /\ Len(said[s]) \in Nat
        /\ Len(Append(said[s], m)) = Len(said[s]) + 1
    BY <2>1, AppendProps
  <2> QED
    BY <1>3, <2>2
<1>5. HatIInv'
  <2>1. CASE UNCHANGED hatVars
    BY <2>1 DEF IInv, HatIInv, hatVars, Sound
  <2>2. CASE BeginEquip(s, DefaultHat)
    BY <2>2, BeginEquipSound DEF IInv, LoopAssumption
  <2> QED
    BY <2>1, <2>2 DEF Receive
<1>6. PICK p \in {"idle", "ensure", "parse"}, u \in Turns :
          /\ Goes(s, p, u) /\ hatEquipped' \in BOOLEAN
          /\ TurnOK(s, p, u, said'[s])
  <2>1. CASE hatEquipped /\ Goes(s, "parse", [Blank EXCEPT !.hat = equipped.active])
             /\ UNCHANGED hatEquipped
    <3>1. equipped.active \in Hats \cup {NoHat}
      BY DEF IInv, HatIInv, Sound, Scope
    <3> QED
      BY <2>1, <3>1, <1>4, BlankOK
  <2>2. CASE Settle(s)
    BY <2>2, <1>4, <1>5, SettleGoes, BlankOK
  <2> QED
    BY <2>1, <2>2 DEF Receive
<1>7. LoopTyped'
  BY <1>2, <1>3, <1>6 DEF IInv, LoopTyped, Goes, Stage
<1>8. \A r \in Sessions : TurnOK(r, pc'[r], turn'[r], said'[r])
  <2> TAKE r \in Sessions
  <2>1. CASE r = s
    BY <2>1, <1>6 DEF IInv, LoopTyped, Goes
  <2>2. CASE r # s
    BY <2>2, <1>3, <1>6 DEF IInv, LoopTyped, Goes
  <2> QED
    BY <2>1, <2>2
<1>9. \A i \in DOMAIN acts' : ActOK(acts'[i], pc'[acts'[i].session], said'[acts'[i].session])
  <2> SUFFICES ASSUME NEW i \in DOMAIN acts
               PROVE  ActOK(acts[i], pc'[acts[i].session], said'[acts[i].session])
    BY <1>2
  <2>1. ActOK(acts[i], pc[acts[i].session], said[acts[i].session])
    BY DEF IInv
  <2>2. CASE acts[i].session = s
    <3>1. ActOK(acts[i], pc[s], said[s])
      BY <2>1, <2>2
    <3>2. said[s] \in Seq(Messages)
      BY <1>3
    <3>3. \A q : ActOK(acts[i], q, Append(said[s], m))
      BY <3>1, <3>2, ActExtends
    <3>4. Untriggered(acts[i], Append(said[s], m)) => Untriggered(acts[i], said'[s])
      BY <1>3 DEF Untriggered
    <3> QED
      BY <2>2, <3>3, <3>4, <1>3 DEF ActOK
  <2>3. CASE acts[i].session # s
    <3>1. acts[i].session \in Sessions
      <4>1. acts[i] \in Acts
        BY DEF IInv, LoopTyped
      <4> QED
        BY <4>1 DEF Acts
    <3>2. /\ pc'[acts[i].session] = pc[acts[i].session]
          /\ said'[acts[i].session] = said[acts[i].session]
      BY <2>3, <3>1, <1>3, <1>6 DEF IInv, LoopTyped, Goes
    <3> QED
      BY <2>1, <3>2 DEF ActOK
  <2> QED
    BY <2>2, <2>3
<1>10. OneActPerTurn'
  BY <1>2 DEF IInv, OneActPerTurn
<1> QED
  BY <1>5, <1>7, <1>8, <1>9, <1>10 DEF IInv, TurnOK, ActOK

\* An operator switches the hat: no turn is touched.
LEMMA SwitchSound ==
    ASSUME LoopAssumption, HatAssumption, IInv,
           NEW b \in Admins, Switch(b) \/ SwitchResumes(b)
    PROVE  IInv'
<1>1. HatIInv'
  BY BeginEquipSound, ResumesSound DEF IInv, Admins, Switch, SwitchResumes
<1>2. UNCHANGED <<hatEquipped, pc, turn, said, acts, audited>>
  BY DEF Switch, SwitchResumes, loopVars
<1>3. switches' \in Nat
  BY DEF Switch, SwitchResumes, loopVars, IInv, LoopTyped
<1>4. LoopTyped' /\ OneActPerTurn'
  BY <1>2, <1>3 DEF IInv, LoopTyped, OneActPerTurn
<1> QED
  BY <1>1, <1>2, <1>4 DEF IInv, TurnOK, ActOK

-----------------------------------------------------------------------------

\* The invariant holds initially.
LEMMA IInvInit == Init => IInv
<1> SUFFICES ASSUME Init PROVE IInv
  OBVIOUS
<1>1. HatIInv
  BY HatInitSound DEF Init
<1>2. LoopTyped
  <2>1. "idle" \in Stage
    BY DEF Stage
  <2>2. \A S : << >> \in Seq(S)
    OBVIOUS
  <2>3. acts \in Seq(Acts) /\ said \in [Sessions -> Seq(Messages)]
    BY <2>2 DEF Init
  <2> QED
    BY <2>1, <2>3, BlankOK DEF Init, LoopTyped
<1>3. \A s \in Sessions : TurnOK(s, pc[s], turn[s], said[s])
  BY BlankOK DEF Init
<1>4. DOMAIN acts = {}
  BY DEF Init
<1> QED
  BY <1>1, <1>2, <1>3, <1>4 DEF IInv, OneActPerTurn

\* Every step keeps it.
LEMMA IInvInductive ==
    ASSUME LoopAssumption, HatAssumption, IInv, [Next]_vars
    PROVE  IInv'
<1>1. CASE UNCHANGED vars
  <2>1. HatIInv' /\ LoopTyped' /\ OneActPerTurn'
    BY <1>1 DEF IInv, HatIInv, LoopTyped, OneActPerTurn, vars, hatVars, loopVars, Sound
  <2>2. UNCHANGED <<pc, turn, said, acts>>
    BY <1>1 DEF vars, loopVars
  <2> QED
    BY <2>1, <2>2 DEF IInv, TurnOK, ActOK
<1>2. ASSUME NEW s \in Sessions, Receive(s)
      PROVE  IInv'
  BY <1>2, ReceiveSound
<1>3. ASSUME NEW s \in Sessions, Proceed(s)
      PROVE  IInv'
  <2>1. CASE EquipResumes(s)
    BY <2>1, EquipSound
  <2>2. CASE ParseReturns(s)
    BY <2>2, ParseSound
  <2>3. CASE ProposeReturns(s)
    BY <2>3, ProposeSound
  <2>4. CASE AckSent(s)
    BY <2>4, AckSound
  <2>5. CASE EvaluateReturns(s)
    BY <2>5, EvaluateSound
  <2>6. CASE SituationReturns(s)
    BY <2>6, SituationSound
  <2>7. CASE ToolReturns(s) \/ ToolRaises(s)
    BY <2>7, ToolSound
  <2>8. CASE EscalateReturns(s) \/ EscalateRaises(s)
    BY <2>8, EscalateSound
  <2>9. CASE Respond(s) \/ Persist(s) \/ Deliver(s)
    BY <2>9, CloseSound
  <2>10. CASE Audit(s)
    BY <2>10, AuditSound
  <2>11. CASE Fail(s)
    BY <2>11, EndStep DEF Fail
  <2> QED
    BY <1>3, <2>1, <2>2, <2>3, <2>4, <2>5, <2>6, <2>7, <2>8, <2>9, <2>10, <2>11
       DEF Proceed
<1>4. ASSUME NEW b \in Admins, Switch(b) \/ SwitchResumes(b)
      PROVE  IInv'
  BY <1>4, SwitchSound
<1> QED
  BY <1>1, <1>2, <1>3, <1>4 DEF Next

\* What it says of the acts and the types.
LEMMA IInvImplies ==
    ASSUME IInv
    PROVE  /\ TypeOK /\ ActsOnlyWhenCleared /\ EscalatesOnlyWhenOrange
           /\ OneActPerTurn /\ NoToolAfterTrigger
<1>1. TypeOK
  BY HatIInvImplies DEF IInv, LoopTyped, TypeOK
<1>2. ActsOnlyWhenCleared /\ EscalatesOnlyWhenOrange
  BY DEF IInv, ActOK, ActsOnlyWhenCleared, EscalatesOnlyWhenOrange
<1>3. NoToolAfterTrigger
  BY DEF IInv, ActOK, Untriggered, NoToolAfterTrigger
<1> QED
  BY <1>1, <1>2, <1>3 DEF IInv

\* The invariant holds in every state of every behaviour.
LEMMA Invariance == Spec => []IInv
<1>1. Init => IInv
  BY IInvInit
<1>2. IInv /\ [Next]_vars => IInv'
  BY LoopAssumption, HatAssumption, IInvInductive
<1> QED
  BY <1>1, <1>2, PTL DEF Spec

\* Types hold for any sessions, hats and proposals.
THEOREM LoopTypeCorrect == Spec => []TypeOK
<1>1. IInv => TypeOK
  BY IInvImplies
<1> QED
  BY <1>1, Invariance, PTL

\* No tool of the domain has an effect unless the verdict of its turn is GREEN
\* and every floor the turn knows of allows it, whatever the LLM answered and
\* whichever hats were switched meanwhile.
THEOREM ClearedBeforeActing == Spec => []ActsOnlyWhenCleared
<1>1. IInv => ActsOnlyWhenCleared
  BY IInvImplies
<1> QED
  BY <1>1, Invariance, PTL

\* A human is called only on an ORANGE verdict: no proposal can call one.
THEOREM EscalationIsOrange == Spec => []EscalatesOnlyWhenOrange
<1>1. IInv => EscalatesOnlyWhenOrange
  BY IInvImplies
<1> QED
  BY <1>1, Invariance, PTL

\* No turn acts twice, with any number of sessions and turns.
THEOREM ActsOnce == Spec => []OneActPerTurn
<1>1. IInv => OneActPerTurn
  BY IInvImplies
<1> QED
  BY <1>1, Invariance, PTL

\* Once a trigger of the hat has been said no tool of the domain acts in that
\* turn or a later one, however long the conversation.
THEOREM TriggerDisarms == Spec => []NoToolAfterTrigger
<1>1. IInv => NoToolAfterTrigger
  BY IInvImplies
<1> QED
  BY <1>1, Invariance, PTL

-----------------------------------------------------------------------------
(* Without hat switches: the floors of tools.                              *)

\* The tools of the default hat, and what they weigh.
DefaultTools == [x \in Tools |-> IF x \in HatTools[DefaultHat] THEN DefaultHat ELSE NoHat]
DefaultFloor(x) == IF x \in Tools /\ x \in HatTools[DefaultHat]
                   THEN RiskFloor[DefaultHat][x] ELSE NONE

\* What sessions that only equip the default hat share: nothing is taken off, so
\* once it is equipped its tools stay, and stay its own.
SteadyHat ==
    /\ hatEquipped <=> equipped.active # NoHat
    /\ \A x \in Tools : equipped.tools[x] # NoHat =>
           equipped.tools[x] = DefaultHat /\ x \in HatTools[DefaultHat]
    /\ hatEquipped => equipped.tools = DefaultTools
    /\ \A t \in Tasks : Awaiting(t) => /\ t \in Sessions
                                       /\ op[t].stage # "unequip"
                                       /\ op[t].hat = DefaultHat

\* What a turn at stage p carries in its locals u.
Weighed(p, u) ==
    /\ p = "ack" => u.top = NoTool \/ u.top \in u.tools
    /\ p = "evaluate" => u.floor >= DefaultFloor(u.top)
    /\ p = "execute" => RiskFloor[u.owner][u.top] <= GREEN

SteadyInv ==
    /\ IInv
    /\ SteadyHat
    /\ \A s \in Sessions : /\ pc[s] \notin {"idle", "ensure"} => hatEquipped
                           /\ Weighed(pc[s], turn[s])
    /\ FlooredToolNeverActs

\* What an equip of the default hat by task t does when no hat is taken off.
Adds(t) ==
    /\ \A x \in Tools : \/ equipped'.tools[x] = equipped.tools[x]
                        \/ x \in HatTools[DefaultHat] /\ equipped'.tools[x] = DefaultHat
    /\ op'[t].stage = "done" =>
          /\ equipped'.active = DefaultHat
          /\ \A x \in HatTools[DefaultHat] : equipped'.tools[x] = DefaultHat
    /\ op'[t].stage # "done" => equipped'.active = equipped.active
    /\ op'[t].stage # "unequip"
    /\ op'[t].stage \in {"teardown", "connect"} => op'[t].hat = DefaultHat
    /\ \A u \in Tasks \ {t} : op'[u].stage = op[u].stage /\ op'[u].hat = op[u].hat

\* The shared record but for its clients, and the places of all tasks, are as now.
AsNow(r, ops) ==
    /\ r \in Scope /\ r.tools = equipped.tools /\ r.active = equipped.active
    /\ ops \in [Tasks -> SoundOps]
    /\ \A u \in Tasks : ops[u].stage = op[u].stage /\ ops[u].hat = op[u].hat

\* Wiping services moves no task.
LEMMA WipedAsNow ==
    ASSUME HatIInv, NEW t \in Tasks, NEW r \in Scope, r.tools = equipped.tools,
           r.active = equipped.active
    PROVE  AsNow(r, op) /\ AsNow(r, WipedBy(t))
BY WipedTyped DEF HatIInv, AsNow, WipedBy, SoundOps, Ops

LEMMA RegisterAdds ==
    ASSUME HatAssumption, DefaultHat \in Hats, NEW t \in Tasks, NEW r, NEW ops, NEW lost,
           AsNow(r, ops), Register(t, DefaultHat, r, ops, lost)
    PROVE  Adds(t)
<1>1. HatTools[DefaultHat] \subseteq Tools
  BY DEF HatAssumption
<1>2. CASE /\ equipped' = [r EXCEPT !.active = DefaultHat,
                                    !.tools = Overlay(@, DefaultHat, HatTools[DefaultHat]),
                                    !.hooks = IF DefaultHat \in WebhookHats
                                              THEN DefaultHat ELSE @]
           /\ op' = [ops EXCEPT ![t] = Ended("done")]
  <2>1. /\ equipped'.active = DefaultHat
        /\ equipped'.tools = Overlay(equipped.tools, DefaultHat, HatTools[DefaultHat])
    BY <1>2 DEF AsNow, Scope
  <2>2. op'[t] = Ended("done") /\ \A u \in Tasks \ {t} : op'[u] = ops[u]
    BY <1>2 DEF AsNow
  <2> QED
    BY <1>1, <2>1, <2>2 DEF Adds, AsNow, Overlay, Ended
<1>3. CASE \E us \in SUBSET HatTools[DefaultHat] :
              /\ equipped' = [r EXCEPT !.tools = Overlay(@, DefaultHat, us)]
              /\ op' = [ops EXCEPT ![t] = Ended("failed")]
  <2>1. PICK us \in SUBSET HatTools[DefaultHat] :
              /\ equipped' = [r EXCEPT !.tools = Overlay(@, DefaultHat, us)]
              /\ op' = [ops EXCEPT ![t] = Ended("failed")]
    BY <1>3
  <2>2. /\ equipped'.active = equipped.active
        /\ equipped'.tools = Overlay(equipped.tools, DefaultHat, us)
    BY <2>1 DEF AsNow, Scope
  <2>3. op'[t] = Ended("failed") /\ \A u \in Tasks \ {t} : op'[u] = ops[u]
    BY <2>1 DEF AsNow
  <2> QED
    BY <1>1, <2>2, <2>3 DEF Adds, AsNow, Overlay, Ended
<1> QED
  BY <1>2, <1>3 DEF Register

\* A task that is put to a place, the record left alone but for its clients.
LEMMA MovedAdds ==
    ASSUME NEW t \in Tasks, NEW r, NEW ops, AsNow(r, ops), equipped' = r,
           NEW o \in {Ended("failed"), At("teardown", DefaultHat), At("connect", DefaultHat)},
           op' = [ops EXCEPT ![t] = o]
    PROVE  Adds(t)
<1>1. o.stage \in {"failed", "teardown", "connect"} /\ (o.stage # "failed" => o.hat = DefaultHat)
  BY DEF Ended, At
<1>2. op'[t] = o /\ \A u \in Tasks \ {t} : op'[u] = ops[u]
  BY DEF AsNow
<1> QED
  BY <1>1, <1>2 DEF Adds, AsNow

LEMMA ServicesAdds ==
    ASSUME HatAssumption, HatIInv, DefaultHat \in Hats, NEW t \in Tasks,
           Services(t, DefaultHat, equipped)
    PROVE  Adds(t)
<1> DEFINE torn == [equipped EXCEPT !.clients = {}]
<1>1. AsNow(torn, WipedBy(t))
  <2>1. torn \in Scope /\ torn.tools = equipped.tools /\ torn.active = equipped.active
    BY DEF HatIInv, Sound, Scope
  <2> HIDE DEF torn
  <2> QED
    BY <2>1, WipedAsNow
<1>2. CASE equipped' = torn /\ op' = [WipedBy(t) EXCEPT ![t] = At("connect", DefaultHat)]
  BY <1>1, <1>2, MovedAdds
<1>3. CASE Register(t, DefaultHat, torn, WipedBy(t), FALSE)
  BY <1>1, <1>3, RegisterAdds
<1> QED
  BY <1>2, <1>3 DEF Services

\* An equip of the default hat over none adds tools, and none over the default hat.
LEMMA BeginAdds ==
    ASSUME HatAssumption, HatIInv, DefaultHat \in Hats, NEW t \in Tasks,
           equipped.active = NoHat, BeginEquip(t, DefaultHat)
    PROVE  Adds(t)
<1>1. Load(t, DefaultHat, equipped, op)
  BY DEF BeginEquip
<1>2. AsNow(equipped, op) /\ AsNow(equipped, WipedBy(t))
  BY WipedAsNow DEF HatIInv, Sound
<1>3. CASE equipped' = equipped /\ op' = [op EXCEPT ![t] = Ended("failed")]
  BY <1>2, <1>3, MovedAdds
<1>4. CASE equipped' = equipped /\ op' = [WipedBy(t) EXCEPT ![t] = At("teardown", DefaultHat)]
  BY <1>2, <1>4, MovedAdds
<1>5. CASE Services(t, DefaultHat, equipped)
  BY <1>5, ServicesAdds
<1> QED
  BY <1>1, <1>3, <1>4, <1>5 DEF Load

LEMMA ResumesAdds ==
    ASSUME HatAssumption, HatIInv, DefaultHat \in Hats, SteadyHat,
           NEW t \in Tasks, Resumes(t)
    PROVE  Adds(t)
<1>1. op[t].stage \in {"teardown", "connect"} /\ op[t].hat = DefaultHat
  BY DEF SteadyHat, Awaiting, Resumes, UnequipResumes, TeardownResumes, ConnectReturns,
         ConnectFails
<1>2. AsNow(equipped, op)
  BY WipedAsNow DEF HatIInv, Sound
<1>3. CASE equipped' = equipped /\ op' = [op EXCEPT ![t] = Ended("failed")]
  BY <1>2, <1>3, MovedAdds
<1>4. CASE Services(t, DefaultHat, equipped)
  BY <1>4, ServicesAdds
<1>5. CASE ConnectReturns(t)
  <2> DEFINE r == [equipped EXCEPT !.clients = @ \cup {DefaultHat}]
  <2>1. r \in Scope /\ r.tools = equipped.tools /\ r.active = equipped.active
    BY DEF HatIInv, Sound, Scope
  <2>2. AsNow(r, op)
    <3> HIDE DEF r
    <3> QED
      BY <2>1, WipedAsNow
  <2>3. Register(t, DefaultHat, r, op, op[t].wiped)
    BY <1>1, <1>5 DEF ConnectReturns
  <2> QED
    BY <2>2, <2>3, RegisterAdds
<1> QED
  BY <1>1, <1>3, <1>4, <1>5
     DEF Resumes, UnequipResumes, TeardownResumes, ConnectFails, RaiseDisturbed

\* Sessions that add tools of the default hat keep it steady.
LEMMA AddsSteady ==
    ASSUME HatAssumption, HatIInv, HatIInv', DefaultHat \in Hats, hatEquipped \in BOOLEAN,
           Sessions \subseteq Tasks, SteadyHat,
           NEW s \in Sessions, Adds(s), hatEquipped' = (hatEquipped \/ op'[s].stage = "done")
    PROVE  SteadyHat'
<1>1. DefaultHat # NoHat /\ s \in Tasks /\ HatTools[DefaultHat] \subseteq Tools
  BY DEF HatAssumption
<1>2. hatEquipped' <=> equipped'.active # NoHat
  BY <1>1 DEF SteadyHat, Adds
<1>3. \A x \in Tools : equipped'.tools[x] # NoHat =>
          equipped'.tools[x] = DefaultHat /\ x \in HatTools[DefaultHat]
  BY DEF SteadyHat, Adds
<1>4. ASSUME hatEquipped' PROVE equipped'.tools = DefaultTools
  <2>1. \A x \in HatTools[DefaultHat] : equipped'.tools[x] = DefaultHat
    <3>1. CASE op'[s].stage = "done"
      BY <3>1 DEF Adds
    <3>2. CASE hatEquipped
      BY <1>1, <3>2 DEF SteadyHat, Adds, DefaultTools
    <3> QED
      BY <1>4, <3>1, <3>2
  <2>2. equipped'.tools \in [Tools -> Hats \cup {NoHat}]
    BY DEF HatIInv, Sound, Scope
  <2>3. \A x \in Tools : equipped'.tools[x] = DefaultTools[x]
    BY <1>3, <2>1 DEF DefaultTools
  <2>4. DefaultTools \in [Tools -> Hats \cup {NoHat}]
    BY DEF DefaultTools
  <2> QED
    BY <2>2, <2>3, <2>4
<1>5. ASSUME NEW t \in Tasks, Awaiting(t)'
      PROVE  t \in Sessions /\ op'[t].stage # "unequip" /\ op'[t].hat = DefaultHat
  BY <1>1, <1>5 DEF SteadyHat, Adds, Awaiting
<1> QED
  BY <1>2, <1>3, <1>4, <1>5 DEF SteadyHat

\* A step of one turn keeps the invariant if the turn is weighed where it arrives.
LEMMA SteadyStep ==
    ASSUME SteadyInv, IInv', SteadyHat', hatEquipped => hatEquipped',
           NEW s \in Sessions, NEW p, NEW u, Goes(s, p, u),
           p \notin {"idle", "ensure"} => hatEquipped', Weighed(p, u),
           FlooredToolNeverActs'
    PROVE  SteadyInv'
<1>1. \A r \in Sessions \ {s} : pc'[r] = pc[r] /\ turn'[r] = turn[r]
  BY DEF SteadyInv, IInv, LoopTyped, Goes
<1>2. pc'[s] = p /\ turn'[s] = u
  BY DEF SteadyInv, IInv, LoopTyped, Goes
<1>3. ASSUME NEW r \in Sessions
      PROVE  /\ pc'[r] \notin {"idle", "ensure"} => hatEquipped'
             /\ Weighed(pc'[r], turn'[r])
  BY <1>1, <1>2 DEF SteadyInv
<1> QED
  BY <1>3 DEF SteadyInv, Weighed

\* So does one that leaves the hat and the acts alone.
LEMMA SteadyMove ==
    ASSUME SteadyInv, IInv', NEW s \in Sessions, NEW p, NEW u, Goes(s, p, u),
           UNCHANGED <<hatEquipped, acts, hatVars>>,
           pc[s] \notin {"idle", "ensure"}, Weighed(p, u)
    PROVE  SteadyInv'
<1>1. SteadyHat'
  BY DEF SteadyInv, SteadyHat, hatVars, Awaiting
<1>2. FlooredToolNeverActs'
  BY DEF SteadyInv, FlooredToolNeverActs
<1>3. hatEquipped'
  BY DEF SteadyInv
<1> QED
  BY <1>1, <1>2, <1>3, SteadyStep

\* Stages at which nothing is weighed.
LEMMA Unweighed ==
    \A p, u : p \notin {"ack", "evaluate", "execute"} => Weighed(p, u)
BY DEF Weighed

\* The floors in force are those of the default hat once it is equipped.
LEMMA FloorsInForce ==
    ASSUME HatAssumption, LoopAssumption, SteadyInv, hatEquipped
    PROVE  \A x \in Tools \cup {Converse} : FloorNow[x] = DefaultFloor(x)
<1>1. \A x \in Tools : Registered(x) <=> x \in HatTools[DefaultHat]
  BY DEF SteadyInv, SteadyHat, DefaultTools, Registered, HatAssumption, LoopAssumption
<1>2. \A x \in Tools : Registered(x) => equipped.tools[x] = DefaultHat
  BY DEF SteadyInv, SteadyHat, Registered
<1> QED
  BY <1>1, <1>2 DEF FloorNow, DefaultFloor, LoopAssumption

\* The risk floor check weighs the proposal.
LEMMA RouteWeighs ==
    ASSUME HatAssumption, LoopAssumption, SteadyInv, IInv', NEW s \in Sessions,
           NEW u \in Turns, u.top = NoTool \/ u.top \in u.tools,
           pc[s] \notin {"idle", "ensure"}, Route(s, u),
           UNCHANGED <<hatEquipped, acts, hatVars>>
    PROVE  SteadyInv'
<1> DEFINE w == [u EXCEPT !.floor = ProposalFloor(u.tools, FloorNow)]
<1>1. hatEquipped /\ IInv
  BY DEF SteadyInv
<1>2. u.tools \subseteq Tools \cup {Converse}
  BY DEF Turns
<1>3. \A x \in u.tools : FloorNow[x] = DefaultFloor(x) /\ FloorNow[x] \in MaybeTier
  BY <1>1, <1>2, FloorsInForce, FloorNowTyped
<1>4. \A x \in u.tools : ProposalFloor(u.tools, FloorNow) >= DefaultFloor(x)
  BY <1>3, ProposalFloorProps
<1>5. w.top = u.top /\ w.floor = ProposalFloor(u.tools, FloorNow)
  BY DEF Turns
<1>6. u.top # NoTool => Weighed("evaluate", w)
  BY <1>4, <1>5 DEF Weighed
<1>7. \A x : Weighed("respond", x) /\ Weighed("situation", x)
  BY DEF Weighed
<1>8. \/ \E x : Goes(s, "respond", x)
      \/ Goes(s, "situation", w)
      \/ u.top # NoTool /\ Goes(s, "evaluate", w)
  BY DEF Route
<1> HIDE DEF w
<1> QED
  BY <1>6, <1>7, <1>8, SteadyMove

\* What passes the parameter gate names its top.
LEMMA ProposeWeighs ==
    ASSUME HatAssumption, LoopAssumption, SteadyInv, IInv', NEW s \in Sessions,
           ProposeReturns(s)
    PROVE  SteadyInv'
<1> DEFINE known == {x \in Tools : Registered(x)}
           g(cs) == Gated(cs, known)
           esc   == EscalationFloor(Triggers[turn[s].hat], Heard(s))
           u(cs) == [turn[s] EXCEPT !.top = g(cs).top, !.tools = g(cs).tools, !.esc = esc]
<1>1. PICK cs \in Proposals :
          \/ turn[s].hat = NoHat /\ Ends(s)
          \/ /\ turn[s].hat # NoHat
             /\ Goes(s, "ack", u(cs)) \/ Route(s, u(cs))
  BY DEF ProposeReturns
<1>2. pc[s] = "propose" /\ UNCHANGED <<hatEquipped, acts, hatVars>> /\ IInv
  BY DEF ProposeReturns, SteadyInv
<1>3. CASE Ends(s)
  <2>1. Weighed("idle", Blank)
    BY Unweighed
  <2> QED
    BY <1>2, <1>3, <2>1, SteadyMove DEF Ends
<1>4. ASSUME turn[s].hat # NoHat
      PROVE  u(cs) \in Turns /\ (u(cs).top = NoTool \/ u(cs).top \in u(cs).tools)
  <2>1. turn[s] \in Turns /\ turn[s].hat \in Hats
    BY <1>2, <1>4, TurnFacts DEF Turns
  <2>2. Heard(s) \in Seq(Messages) /\ Heard(s) # << >>
    BY <1>2, TurnFacts DEF Heard
  <2>3. Triggers[turn[s].hat] \in TriggerLists(Messages)
    BY <2>1 DEF LoopAssumption
  <2>4. esc \in MaybeTier
    BY <2>2, <2>3, EscalationFloorProps
  <2>5. cs \in Seq(Candidates(Tools))
    BY DEF LoopAssumption
  <2>6. /\ g(cs).top \in Tools \cup {Converse, NoTool}
        /\ g(cs).tools \in SUBSET (Tools \cup {Converse})
        /\ g(cs).top # NoTool => g(cs).top \in g(cs).tools
    BY <2>5, GatedTyped
  <2> HIDE DEF esc, g
  <2> QED
    BY <2>1, <2>4, <2>6 DEF Turns
<1>5. CASE turn[s].hat # NoHat /\ Goes(s, "ack", u(cs))
  <2>1. Weighed("ack", u(cs))
    BY <1>4, <1>5 DEF Weighed
  <2> HIDE DEF u
  <2> QED
    BY <1>2, <1>5, <2>1, SteadyMove
<1>6. CASE turn[s].hat # NoHat /\ Route(s, u(cs))
  <2> HIDE DEF u
  <2> QED
    BY <1>2, <1>4, <1>6, RouteWeighs
<1> QED
  BY <1>1, <1>3, <1>5, <1>6

\* A tool runs only on a verdict that its own floor allows: it belongs to the hat
\* whose floors were weighed.
LEMMA EvaluateWeighs ==
    ASSUME HatAssumption, LoopAssumption, SteadyInv, IInv', NEW s \in Sessions,
           EvaluateReturns(s)
    PROVE  SteadyInv'
<1> DEFINE v(scored) == Verdict(turn[s], scored)
           q(scored) == Execution(turn[s], v(scored))
           w(scored) == [turn[s] EXCEPT
                !.tier = v(scored),
                !.owner = IF q(scored) = "execute" THEN equipped.tools[turn[s].top]
                          ELSE IF q(scored) = "escalate" THEN equipped.tools[Escalate]
                          ELSE NoHat]
<1>1. PICK scored \in Tier : Goes(s, q(scored), w(scored))
  BY DEF EvaluateReturns
<1>2. /\ turn[s] \in Turns /\ turn[s].hat \in Hats /\ turn[s].top \in Tools
      /\ turn[s].floor >= DefaultFloor(turn[s].top) /\ hatEquipped
  BY TurnFacts DEF EvaluateReturns, TurnOK, Routed, SteadyInv, Weighed
<1>3. v(scored) \in Tier /\ v(scored) >= turn[s].floor
  <2>1. HatMinTier[turn[s].hat] \in MaybeTier
    BY <1>2 DEF LoopAssumption
  <2>2. turn[s].esc \in MaybeTier /\ turn[s].floor \in MaybeTier
    BY <1>2 DEF Turns
  <2>3. /\ MaxTier(turn[s].esc, turn[s].floor) \in MaybeTier
        /\ MaxTier(turn[s].esc, turn[s].floor) >= turn[s].floor
    BY <2>2, MaxTierProps
  <2>4. v(scored) \in Tier /\ v(scored) >= MaxTier(turn[s].esc, turn[s].floor)
    BY <2>1, <2>3, FlooredProps DEF Verdict
  <2> HIDE DEF v
  <2> QED
    BY <2>2, <2>3, <2>4 DEF MaybeTier, Tier, NONE, GREEN, RED
<1>4. ASSUME q(scored) = "execute"
      PROVE  RiskFloor[w(scored).owner][w(scored).top] <= GREEN
  <2>1. v(scored) = GREEN /\ Registered(turn[s].top)
    BY <1>4 DEF Execution
  <2>2. /\ equipped.tools[turn[s].top] = DefaultHat
        /\ turn[s].top \in HatTools[DefaultHat]
    BY <1>2, <2>1 DEF SteadyInv, SteadyHat, Registered
  <2>3. DefaultFloor(turn[s].top) = RiskFloor[DefaultHat][turn[s].top]
    BY <1>2, <2>2 DEF DefaultFloor
  <2>4. RiskFloor[DefaultHat][turn[s].top] \in MaybeTier /\ turn[s].floor \in MaybeTier
    BY <1>2 DEF LoopAssumption, Turns
  <2>5. RiskFloor[DefaultHat][turn[s].top] <= GREEN
    <3> HIDE DEF v
    <3> QED
      BY <1>2, <1>3, <2>1, <2>3, <2>4 DEF MaybeTier, Tier, NONE, GREEN, RED
  <2>6. w(scored).owner = DefaultHat /\ w(scored).top = turn[s].top
    <3> HIDE DEF v, q
    <3> QED
      BY <1>2, <1>4, <2>2 DEF Turns
  <2> QED
    BY <2>5, <2>6
<1>5. q(scored) \in {"execute", "escalate", "respond", "persist"}
  BY DEF Execution
<1> HIDE DEF v, q, w
<1>6. Weighed(q(scored), w(scored))
  BY <1>4, <1>5 DEF Weighed
<1> QED
  BY <1>1, <1>6, SteadyMove DEF EvaluateReturns

\* What a tool does is done by one whose floor allows it.
LEMMA ToolWeighs ==
    ASSUME LoopAssumption, SteadyInv, IInv', NEW s \in Sessions,
           ToolReturns(s) \/ ToolRaises(s) \/ EscalateReturns(s)
    PROVE  SteadyInv'
<1>1. /\ pc[s] \in {"execute", "escalate"} /\ UNCHANGED <<hatEquipped, hatVars>>
      /\ acts' \in {acts, Append(acts, Act(s))}
  BY DEF ToolReturns, ToolRaises, EscalateReturns, MayAct
<1>2. PICK p \in {"respond", "idle", "persist"}, u \in {turn[s], Blank} : Goes(s, p, u)
  BY DEF ToolReturns, ToolRaises, EscalateReturns, Ends
<1>3. DomainAct(Act(s)) => RiskFloor[Act(s).owner][Act(s).tool] <= GREEN
  BY <1>1 DEF SteadyInv, Weighed, DomainAct, Act
<1>4. FlooredToolNeverActs'
  <2>1. CASE acts' = acts
    BY <2>1 DEF SteadyInv, FlooredToolNeverActs
  <2>2. CASE acts' = Append(acts, Act(s))
    <3>1. acts \in Seq(Acts)
      BY DEF SteadyInv, IInv, LoopTyped
    <3>2. \A i \in DOMAIN acts' : (i \in DOMAIN acts /\ acts'[i] = acts[i]) \/ acts'[i] = Act(s)
      <4> DEFINE a == Act(s)
      <4>1. acts' = Append(acts, a)
        BY <2>2
      <4> HIDE DEF a
      <4>2. \A i \in DOMAIN acts' : (i \in DOMAIN acts /\ acts'[i] = acts[i]) \/ acts'[i] = a
        BY <3>1, <4>1
      <4> QED
        BY <4>2 DEF a
    <3> QED
      BY <1>3, <3>2 DEF SteadyInv, FlooredToolNeverActs, DomainAct
  <2> QED
    BY <1>1, <2>1, <2>2
<1>5. SteadyHat' /\ hatEquipped'
  BY <1>1 DEF SteadyInv, SteadyHat, hatVars, Awaiting
<1> QED
  BY <1>1, <1>2, <1>4, <1>5, Unweighed, SteadyStep

\* An equip made for a session.
LEMMA SettleWeighs ==
    ASSUME SteadyInv, IInv', SteadyHat', NEW s \in Sessions, Settle(s), acts' = acts
    PROVE  SteadyInv'
<1>1. FlooredToolNeverActs'
  BY DEF SteadyInv, FlooredToolNeverActs
<1>2. PICK p \in {"idle", "ensure", "parse"},
           u \in {Blank, [Blank EXCEPT !.hat = equipped'.active]} :
          Goes(s, p, u) /\ (p = "parse" => hatEquipped')
  BY DEF Settle, Ends
<1>3. hatEquipped => hatEquipped'
  BY DEF Settle
<1> QED
  BY <1>1, <1>2, <1>3, Unweighed, SteadyStep

\* Every step keeps it, as long as nobody switches the hat.
LEMMA SteadyInductive ==
    ASSUME LoopAssumption, HatAssumption, MaxSwitches = 0, SteadyInv, [Next]_vars
    PROVE  SteadyInv'
<1>1. IInv /\ IInv' /\ DefaultHat \in Hats /\ Sessions \subseteq Tasks
  BY IInvInductive DEF SteadyInv, LoopAssumption
<1>2. HatIInv /\ HatIInv' /\ hatEquipped \in BOOLEAN /\ SteadyHat
  BY <1>1 DEF SteadyInv, IInv, LoopTyped
<1>3. CASE UNCHANGED vars
  BY <1>1, <1>3 DEF vars, loopVars, hatVars, SteadyInv, SteadyHat, Awaiting, Weighed,
     FlooredToolNeverActs
<1>4. ASSUME NEW s \in Sessions, Receive(s)
      PROVE  SteadyInv'
  <2>1. acts' = acts
    BY <1>4 DEF Receive
  <2>2. CASE /\ hatEquipped /\ UNCHANGED <<hatEquipped, hatVars>>
             /\ Goes(s, "parse", [Blank EXCEPT !.hat = equipped.active])
    <3>1. SteadyHat' /\ FlooredToolNeverActs' /\ hatEquipped'
      BY <2>1, <2>2 DEF SteadyInv, SteadyHat, hatVars, Awaiting, FlooredToolNeverActs
    <3> QED
      BY <1>1, <2>2, <3>1, Unweighed, SteadyStep
  <2>3. CASE ~hatEquipped /\ BeginEquip(s, DefaultHat) /\ Settle(s)
    <3>1. Adds(s)
      BY <1>1, <1>2, <2>3, BeginAdds DEF SteadyHat
    <3>2. SteadyHat'
      BY <1>1, <1>2, <2>3, <3>1, AddsSteady DEF Settle
    <3> QED
      BY <1>1, <2>1, <2>3, <3>2, SettleWeighs
  <2> QED
    BY <1>4, <2>2, <2>3 DEF Receive
<1>5. ASSUME NEW s \in Sessions, EquipResumes(s)
      PROVE  SteadyInv'
  <2>1. Adds(s)
    BY <1>1, <1>2, <1>5, ResumesAdds DEF EquipResumes
  <2>2. SteadyHat'
    BY <1>1, <1>2, <1>5, <2>1, AddsSteady DEF EquipResumes, Settle
  <2> QED
    BY <1>1, <1>5, <2>2, SettleWeighs DEF EquipResumes
<1>6. ASSUME NEW s \in Sessions,
             \/ ParseReturns(s) \/ SituationReturns(s) \/ EscalateRaises(s) \/ Respond(s)
             \/ Persist(s) \/ Deliver(s) \/ Audit(s) \/ Fail(s)
      PROVE  SteadyInv'
  <2>1. /\ UNCHANGED <<hatEquipped, acts, hatVars>> /\ pc[s] \notin {"idle", "ensure"}
        /\ \E p \in {"propose", "respond", "persist", "deliver", "audit", "idle"} :
              \E u : Goes(s, p, u)
    BY <1>6 DEF ParseReturns, SituationReturns, EscalateRaises, Respond, Persist, Deliver,
       Audit, Fail, Ends
  <2> QED
    BY <1>1, <2>1, Unweighed, SteadyMove
<1>7. ASSUME NEW s \in Sessions, AckSent(s)
      PROVE  SteadyInv'
  <2>1. turn[s] \in Turns /\ (turn[s].top = NoTool \/ turn[s].top \in turn[s].tools)
    BY <1>1, <1>7, TurnFacts DEF AckSent, SteadyInv, Weighed
  <2> QED
    BY <1>1, <1>7, <2>1, RouteWeighs DEF AckSent
<1>8. ASSUME NEW b \in Admins, Switch(b) \/ SwitchResumes(b)
      PROVE  FALSE
  <2>1. switches \in Nat
    BY <1>1 DEF IInv, LoopTyped
  <2>2. b \in Tasks /\ ~Awaiting(b)
    BY <1>2 DEF Admins, SteadyHat
  <2> QED
    BY <1>8, <2>1, <2>2 DEF Switch, SwitchResumes, Resumes, UnequipResumes, TeardownResumes,
       ConnectReturns, ConnectFails, Awaiting
<1> QED
  BY <1>1, <1>3, <1>4, <1>5, <1>6, <1>7, <1>8, ProposeWeighs, EvaluateWeighs, ToolWeighs
     DEF Next, Proceed

\* While nobody switches the hat, no tool acts whose own risk floor is above GREEN,
\* however many sessions race for the first equip.  With a switch it is not so: the
\* tool looked up at the end may be another hat's than the one that was weighed.
THEOREM FlooredToolsKeepStill == MaxSwitches = 0 /\ Spec => []FlooredToolNeverActs
<1>1. Init => SteadyInv
  <2> SUFFICES ASSUME Init PROVE SteadyInv
    OBVIOUS
  <2>1. IInv /\ DOMAIN acts = {}
    BY IInvInit DEF Init
  <2>2. SteadyHat
    BY DEF Init, HatInit, SteadyHat, Awaiting, Ended
  <2>3. \A s \in Sessions : pc[s] = "idle"
    BY DEF Init
  <2> QED
    BY <2>1, <2>2, <2>3, Unweighed DEF SteadyInv, FlooredToolNeverActs
<1>2. MaxSwitches = 0 /\ SteadyInv /\ [Next]_vars => SteadyInv'
  BY LoopAssumption, HatAssumption, SteadyInductive
<1>3. SteadyInv => FlooredToolNeverActs
  BY DEF SteadyInv
<1>4. CASE MaxSwitches = 0
  <2>1. SteadyInv /\ [Next]_vars => SteadyInv'
    BY <1>2, <1>4
  <2> QED
    BY <1>1, <1>3, <2>1, PTL DEF Spec
<1>5. CASE MaxSwitches # 0
  BY <1>5
<1> QED
  BY <1>4, <1>5

-----------------------------------------------------------------------------
(* The pipeline keeps the promise of ProposeThenEvaluate: its initial       *)
(* states map to initial states, and each of its steps to a step of the     *)
(* promise or to none.  The invariant supplies what a step needs to know of *)
(* the turn it is taken in.                                                 *)

\* What moving one turn along does to the state the promise speaks of.
LEMMA GoesMaps ==
    ASSUME IInv, NEW s \in Sessions, NEW p, NEW u, Goes(s, p, u)
    PROVE  /\ AbsPhase' = [AbsPhase EXCEPT ![s] = PhaseOf(p)]
           /\ AbsVerdict' = [AbsVerdict EXCEPT ![s] = u.tier]
           /\ AbsPhase[s] = PhaseOf(pc[s]) /\ AbsVerdict[s] = turn[s].tier
BY DEF IInv, LoopTyped, Goes, AbsPhase, AbsVerdict

\* A step inside a phase that leaves the verdict alone is no step of the promise.
LEMMA StutterMaps ==
    ASSUME IInv, NEW s \in Sessions, NEW p, NEW u, Goes(s, p, u),
           PhaseOf(p) = PhaseOf(pc[s]), u.tier = turn[s].tier,
           said' = said, acts' = acts
    PROVE  UNCHANGED Promise!absVars
<1>1. AbsPhase' = AbsPhase /\ AbsVerdict' = AbsVerdict
  <2>1. /\ AbsPhase' = [AbsPhase EXCEPT ![s] = AbsPhase[s]]
        /\ AbsVerdict' = [AbsVerdict EXCEPT ![s] = AbsVerdict[s]]
    BY GoesMaps
  <2>2. /\ [AbsPhase EXCEPT ![s] = AbsPhase[s]] = AbsPhase
        /\ [AbsVerdict EXCEPT ![s] = AbsVerdict[s]] = AbsVerdict
    BY DEF AbsPhase, AbsVerdict
  <2> QED
    BY <2>1, <2>2
<1>2. AbsNumber' = AbsNumber /\ AbsEffects' = AbsEffects
  BY DEF AbsNumber, AbsEffects
<1> QED
  BY <1>1, <1>2 DEF Promise!absVars

\* A turn that ends without a call closes.
LEMMA EndMaps ==
    ASSUME IInv, NEW s \in Sessions, Ends(s), pc[s] # "idle",
           pc[s] \in Stage, said' = said, acts' = acts
    PROVE  Promise!Close(s)
<1>1. PhaseOf("idle") = "idle" /\ PhaseOf(pc[s]) # "idle" /\ Blank.tier = NONE
  BY DEF PhaseOf, Stage, Blank
<1>2. AbsPhase' = [AbsPhase EXCEPT ![s] = "idle"] /\ AbsVerdict' = [AbsVerdict EXCEPT ![s] = NONE]
      /\ AbsPhase[s] # "idle"
  BY <1>1, GoesMaps DEF Ends
<1>3. AbsNumber' = AbsNumber /\ AbsEffects' = AbsEffects
  BY DEF AbsNumber, AbsEffects
<1> QED
  BY <1>2, <1>3 DEF Promise!Close, Promise!NONE, NONE

\* A turn that gets its verdict is decided.
LEMMA DecideMaps ==
    ASSUME IInv, NEW s \in Sessions, NEW p, NEW u, Goes(s, p, u),
           PhaseOf(pc[s]) = "open", PhaseOf(p) \in {"decided", "closing"},
           u.tier \in Tier, said' = said, acts' = acts
    PROVE  Promise!Decide(s)
<1>1. AbsNumber' = AbsNumber /\ AbsEffects' = AbsEffects
  BY DEF AbsNumber, AbsEffects
<1> QED
  BY <1>1, GoesMaps DEF Promise!Decide, Promise!Tier, Tier, Promise!GREEN, GREEN, Promise!RED, RED

\* A call has its effect or not, and the turn goes on to close or ends.
LEMMA CallMaps ==
    ASSUME LoopAssumption, IInv, NEW s \in Sessions, NEW p, NEW u, Goes(s, p, u),
           pc[s] \in {"execute", "escalate"}, MayAct(s), said' = said,
           \/ PhaseOf(p) = "closing" /\ u.tier = turn[s].tier
           \/ PhaseOf(p) = "idle" /\ u.tier = NONE
    PROVE  Promise!Call(s)
<1> DEFINE e == [session |-> s, turn |-> AbsNumber[s],
                 tool |-> Act(s).tool, tier |-> AbsVerdict[s]]
<1>1. AbsNumber' = AbsNumber /\ AbsNumber[s] = Len(said[s])
  BY DEF AbsNumber
<1>2. AbsPhase[s] = "decided" /\ AbsVerdict[s] = turn[s].tier
  BY GoesMaps DEF PhaseOf
<1>3. TurnOK(s, pc[s], turn[s], said[s]) /\ acts \in Seq(Acts)
  BY DEF IInv, LoopTyped
<1>4. Act(s).tool \in Tools /\ Promise!MayUse(AbsVerdict[s], Act(s).tool)
  BY <1>2, <1>3 DEF Act, TurnOK, LoopAssumption, Promise!MayUse,
     Promise!GREEN, GREEN, Promise!ORANGE, ORANGE
<1>5. acts' = acts => AbsEffects' = AbsEffects
  BY DEF AbsEffects
<1>6. ASSUME acts' = Append(acts, Act(s))
      PROVE  AbsEffects' = Append(AbsEffects, e)
  <2> DEFINE E(a) == [session |-> a.session, turn |-> a.turn, tool |-> a.tool, tier |-> a.tier]
  <2>1. E(Act(s)) = e
    BY <1>1, <1>2 DEF Act
  <2> HIDE DEF e
  <2>2. /\ AbsEffects = [i \in 1..Len(acts) |-> E(acts[i])]
        /\ AbsEffects' = [i \in 1..(Len(acts) + 1) |-> E(acts'[i])]
    BY <1>3, <1>6 DEF AbsEffects
  <2>3. /\ \A i \in 1..Len(acts) : acts'[i] = acts[i]
        /\ acts'[Len(acts) + 1] = Act(s)
    BY <1>3, <1>6
  <2>4. Len(AbsEffects) = Len(acts) /\ Len(acts) \in Nat
    BY <1>3, <2>2
  <2> QED
    BY <2>1, <2>2, <2>3, <2>4
<1>7. \/ AbsPhase' = [AbsPhase EXCEPT ![s] = "closing"] /\ AbsVerdict' = AbsVerdict
      \/ /\ AbsPhase' = [AbsPhase EXCEPT ![s] = "idle"]
         /\ AbsVerdict' = [AbsVerdict EXCEPT ![s] = Promise!NONE]
  <2>1. [AbsVerdict EXCEPT ![s] = AbsVerdict[s]] = AbsVerdict
    BY DEF AbsVerdict
  <2> QED
    BY <2>1, GoesMaps DEF Promise!NONE, NONE
<1> QED
  BY <1>1, <1>2, <1>4, <1>5, <1>6, <1>7 DEF MayAct, Promise!Call

\* A message opens a turn; one whose equip fails at once is over already.
LEMMA ReceiveMaps ==
    ASSUME LoopAssumption, HatAssumption, IInv, NEW s \in Sessions, Receive(s)
    PROVE  Promise!Open(s)
<1>1. IInv'
  BY ReceiveSound
<1>2. PICK m \in Messages : said' = [said EXCEPT ![s] = Append(@, m)]
  BY DEF Receive
<1>3. AbsNumber' = [AbsNumber EXCEPT ![s] = @ + 1]
  <2>1. \A r \in Sessions : said[r] \in Seq(Messages)
    BY DEF IInv, LoopTyped
  <2>2. Len(Append(said[s], m)) = Len(said[s]) + 1
    BY <2>1, AppendProps
  <2>3. \A r \in Sessions : said'[r] = IF r = s THEN Append(said[s], m) ELSE said[r]
    BY <1>2 DEF IInv, LoopTyped
  <2>4. \A r \in Sessions : Len(said'[r]) = IF r = s THEN Len(said[s]) + 1 ELSE Len(said[r])
    BY <2>2, <2>3
  <2> QED
    BY <2>4 DEF AbsNumber
<1>4. pc[s] = "idle" /\ turn[s].tier = NONE /\ acts' = acts
  BY TurnFacts DEF Receive, TurnOK, Undecided
<1>5. PICK p, u : p \in {"idle", "ensure", "parse"} /\ Goes(s, p, u) /\ u.tier = NONE
  <2>1. Blank.tier = NONE /\ \A h : [Blank EXCEPT !.hat = h].tier = NONE
    BY DEF Blank
  <2> QED
    BY <2>1, <1>1, SettleGoes DEF Receive, IInv
<1>6. /\ AbsPhase' = [AbsPhase EXCEPT ![s] = PhaseOf(p)]
      /\ AbsVerdict' = [AbsVerdict EXCEPT ![s] = AbsVerdict[s]]
      /\ AbsPhase[s] = "idle" /\ PhaseOf(p) \in {"idle", "open"}
  BY <1>4, <1>5, GoesMaps DEF PhaseOf
<1>7. /\ [AbsPhase EXCEPT ![s] = AbsPhase[s]] = AbsPhase
      /\ [AbsVerdict EXCEPT ![s] = AbsVerdict[s]] = AbsVerdict
  BY DEF AbsPhase, AbsVerdict
<1>8. AbsEffects' = AbsEffects
  BY <1>4 DEF AbsEffects
<1> QED
  BY <1>3, <1>6, <1>7, <1>8 DEF Promise!Open

\* The choice of path decides the turn or leaves it open.
LEMMA RouteMaps ==
    ASSUME IInv, NEW s \in Sessions, NEW u \in Turns, Route(s, u),
           PhaseOf(pc[s]) = "open", turn[s].tier = NONE, u.tier = NONE,
           said' = said, acts' = acts
    PROVE  Promise!Decide(s) \/ UNCHANGED Promise!absVars
<1> DEFINE w == [u EXCEPT !.floor = ProposalFloor(u.tools, FloorNow)]
<1>1. w.tier = NONE /\ \A t : [w EXCEPT !.tier = t].tier = t
  BY DEF Turns
<1>2. /\ PhaseOf("respond") = "closing"
      /\ PhaseOf("situation") = "open" /\ PhaseOf("evaluate") = "open"
  BY DEF PhaseOf
<1>3. CASE \E t \in Tier : Goes(s, "respond", [w EXCEPT !.tier = t])
  BY <1>1, <1>2, <1>3, DecideMaps
<1>4. CASE Goes(s, "situation", w) \/ Goes(s, "evaluate", w)
  BY <1>1, <1>2, <1>4, StutterMaps
<1>5. RED \in Tier /\ GREEN \in Tier
  BY DEF Tier, RED, GREEN
<1> QED
  BY <1>3, <1>4, <1>5 DEF Route

\* Before the verdict a turn stays open, is decided, or ends.
LEMMA DeliberationMaps ==
    ASSUME LoopAssumption, HatAssumption, IInv, NEW s \in Sessions,
           \/ EquipResumes(s) \/ ParseReturns(s) \/ ProposeReturns(s)
           \/ AckSent(s) \/ EvaluateReturns(s) \/ SituationReturns(s)
    PROVE  Promise!Next \/ UNCHANGED Promise!absVars
<1>1. /\ pc[s] \in {"ensure", "parse", "propose", "ack", "evaluate", "situation"}
      /\ said' = said /\ acts' = acts
  BY DEF EquipResumes, ParseReturns, ProposeReturns, AckSent, EvaluateReturns,
         SituationReturns
<1>2. /\ PhaseOf(pc[s]) = "open" /\ pc[s] \in Stage /\ turn[s] \in Turns
      /\ turn[s].tier = NONE
  BY <1>1, TurnFacts DEF PhaseOf, Stage, TurnOK, Undecided
<1>3. \A p \in {"ensure", "parse", "propose", "ack"} : PhaseOf(p) = "open"
  BY DEF PhaseOf
<1>4. CASE Ends(s)
  BY <1>1, <1>2, <1>4, EndMaps DEF Promise!Next
<1>5. CASE \E p \in {"ensure", "parse", "propose", "ack"} :
               \E u : Goes(s, p, u) /\ u.tier = NONE
  BY <1>1, <1>2, <1>3, <1>5, StutterMaps
<1>6. CASE EquipResumes(s)
  <2>1. HatIInv'
    BY <1>6, ResumesSound DEF EquipResumes, LoopAssumption, IInv
  <2>2. Blank.tier = NONE /\ \A h : [Blank EXCEPT !.hat = h].tier = NONE
    BY DEF Blank
  <2> QED
    BY <1>4, <1>5, <1>6, <2>1, <2>2, SettleGoes DEF EquipResumes, Ends
<1>7. CASE ParseReturns(s)
  <2>1. \A ex : [turn[s] EXCEPT !.exempt = ex].tier = NONE
    BY <1>2 DEF Turns
  <2> QED
    BY <1>5, <1>7, <2>1 DEF ParseReturns
<1>8. CASE ProposeReturns(s)
  <2>1. CASE Ends(s)
    BY <1>4, <2>1
  <2>2. CASE \E u : u.tier = NONE /\ Goes(s, "ack", u)
    BY <1>5, <2>2
  <2> DEFINE known == {x \in Tools : Registered(x)}
             g(cs) == Gated(cs, known)
             esc   == EscalationFloor(Triggers[turn[s].hat], Heard(s))
             u(cs) == [turn[s] EXCEPT !.top = g(cs).top, !.tools = g(cs).tools, !.esc = esc]
  <2>3. PICK cs \in Proposals :
            \/ turn[s].hat = NoHat /\ Ends(s)
            \/ /\ turn[s].hat # NoHat
               /\ \/ Goes(s, "ack", u(cs))
                  \/ Route(s, u(cs))
    BY <1>8 DEF ProposeReturns
  <2>4. u(cs).tier = NONE /\ (turn[s].hat # NoHat => u(cs) \in Turns)
    <3>1. turn[s].hat # NoHat => esc \in MaybeTier
      <4>1. Heard(s) \in Seq(Messages) /\ Heard(s) # << >>
        BY <1>1, TurnFacts DEF Heard
      <4>2. turn[s].hat # NoHat => Triggers[turn[s].hat] \in TriggerLists(Messages)
        BY <1>2 DEF Turns, LoopAssumption
      <4> QED
        BY <4>1, <4>2, EscalationFloorProps
    <3>2. cs \in Seq(Candidates(Tools))
      BY DEF LoopAssumption
    <3>3. g(cs).top \in Tools \cup {Converse, NoTool} /\ g(cs).tools \in SUBSET (Tools \cup {Converse})
      BY <3>2, GatedTyped
    <3> HIDE DEF g, esc
    <3> QED
      BY <1>2, <3>1, <3>3 DEF Turns
  <2>5. CASE turn[s].hat # NoHat /\ Route(s, u(cs))
    <3> HIDE DEF u
    <3> QED
      BY <1>1, <1>2, <2>4, <2>5, RouteMaps DEF Promise!Next
  <2> HIDE DEF u
  <2> QED
    BY <2>1, <2>2, <2>3, <2>4, <2>5
<1>9. CASE AckSent(s)
  BY <1>1, <1>2, <1>9, RouteMaps DEF AckSent, Promise!Next
<1>10. CASE EvaluateReturns(s)
  <2> DEFINE v(scored) == Verdict(turn[s], scored)
             q(scored) == Execution(turn[s], v(scored))
             w(scored) == [turn[s] EXCEPT
                  !.tier = v(scored),
                  !.owner = IF q(scored) = "execute" THEN equipped.tools[turn[s].top]
                            ELSE IF q(scored) = "escalate" THEN equipped.tools[Escalate]
                            ELSE NoHat]
  <2>1. PICK scored \in Tier : Goes(s, q(scored), w(scored))
    BY <1>10 DEF EvaluateReturns
  <2>2. v(scored) \in Tier
    <3>1. turn[s].hat \in Hats
      BY <1>10, TurnFacts DEF EvaluateReturns, TurnOK, Routed
    <3>2. HatMinTier[turn[s].hat] \in MaybeTier
      BY <3>1 DEF LoopAssumption
    <3>3. MaxTier(turn[s].esc, turn[s].floor) \in MaybeTier
      BY <1>2, MaxTierProps DEF Turns
    <3> QED
      BY <3>2, <3>3, FlooredProps DEF Verdict
  <2>3. w(scored).tier = v(scored)
    BY <1>2 DEF Turns
  <2>4. PhaseOf(q(scored)) \in {"decided", "closing"}
    BY DEF Execution, PhaseOf
  <2> HIDE DEF v, q, w
  <2> QED
    BY <1>1, <1>2, <2>1, <2>2, <2>3, <2>4, DecideMaps DEF Promise!Next
<1>11. CASE SituationReturns(s)
  <2> DEFINE t(scored) == Floored(scored, turn[s].esc, HatMinTier[turn[s].hat])
  <2>1. PICK scored \in Tier : Goes(s, "respond", [turn[s] EXCEPT !.tier = t(scored)])
    BY <1>11 DEF SituationReturns
  <2>2. t(scored) \in Tier
    <3>1. turn[s].hat \in Hats
      BY <1>11, TurnFacts DEF SituationReturns, TurnOK, Routed
    <3>2. HatMinTier[turn[s].hat] \in MaybeTier /\ turn[s].esc \in MaybeTier
      BY <1>2, <3>1 DEF LoopAssumption, Turns
    <3> QED
      BY <3>2, FlooredProps
  <2> HIDE DEF t
  <2>3. [turn[s] EXCEPT !.tier = t(scored)].tier = t(scored)
    BY <1>2 DEF Turns
  <2>4. PhaseOf("respond") = "closing"
    BY DEF PhaseOf
  <2> QED
    BY <1>1, <1>2, <2>1, <2>2, <2>3, <2>4, DecideMaps DEF Promise!Next
<1> QED
  BY <1>6, <1>7, <1>8, <1>9, <1>10, <1>11

\* After the verdict it calls, closes, or ends.
LEMMA ActionMaps ==
    ASSUME LoopAssumption, IInv, NEW s \in Sessions,
           \/ ToolReturns(s) \/ ToolRaises(s) \/ EscalateReturns(s) \/ Respond(s)
           \/ EscalateRaises(s) \/ Persist(s) \/ Deliver(s) \/ Audit(s) \/ Fail(s)
    PROVE  Promise!Next \/ UNCHANGED Promise!absVars
<1>1. said' = said /\ pc[s] \in Stage /\ pc[s] # "idle"
  BY DEF ToolReturns, ToolRaises, EscalateReturns, EscalateRaises, Respond, Persist,
         Deliver, Audit, Fail, IInv, LoopTyped
<1>2. /\ \A p \in {"respond", "persist", "deliver", "audit"} : PhaseOf(p) = "closing"
      /\ PhaseOf("idle") = "idle" /\ Blank.tier = NONE
  BY DEF PhaseOf, Blank
<1>3. CASE ToolReturns(s) \/ ToolRaises(s) \/ EscalateReturns(s)
  <2>1. \/ Goes(s, "respond", turn[s]) \/ Goes(s, "persist", turn[s])
        \/ Goes(s, "idle", Blank)
    BY <1>3 DEF ToolReturns, ToolRaises, EscalateReturns, Ends
  <2>2. MayAct(s) /\ pc[s] \in {"execute", "escalate"}
    BY <1>3 DEF ToolReturns, ToolRaises, EscalateReturns, MayAct
  <2> QED
    BY <1>1, <1>2, <2>1, <2>2, CallMaps DEF Promise!Next
<1>4. CASE \/ EscalateRaises(s) \/ Respond(s) \/ Persist(s) \/ Deliver(s)
           \/ Audit(s) \/ Fail(s)
  <2>1. acts' = acts
    BY <1>4 DEF EscalateRaises, Respond, Persist, Deliver, Audit, Fail
  <2>2. CASE Ends(s)
    BY <1>1, <2>1, <2>2, EndMaps DEF Promise!Next
  <2>3. CASE /\ pc[s] \in {"respond", "persist", "deliver"}
             /\ \E p \in {"persist", "deliver", "audit"} : Goes(s, p, turn[s])
    BY <1>1, <1>2, <2>1, <2>3, StutterMaps
  <2> QED
    BY <1>4, <2>2, <2>3 DEF EscalateRaises, Respond, Persist, Deliver, Audit, Fail
<1> QED
  BY <1>3, <1>4

\* Every step of the loop is one of the promise, or none.
LEMMA StepMaps ==
    ASSUME LoopAssumption, HatAssumption, IInv, [Next]_vars
    PROVE  Promise!Next \/ UNCHANGED Promise!absVars
<1>1. CASE UNCHANGED <<pc, turn, said, acts>>
  BY <1>1 DEF Promise!absVars, AbsPhase, AbsVerdict, AbsNumber, AbsEffects
<1>2. ASSUME NEW s \in Sessions, Receive(s)
      PROVE  Promise!Next
  BY <1>2, ReceiveMaps DEF Promise!Next
<1>3. ASSUME NEW s \in Sessions, Proceed(s)
      PROVE  Promise!Next \/ UNCHANGED Promise!absVars
  BY <1>3, DeliberationMaps, ActionMaps DEF Proceed
<1>4. ASSUME NEW b \in Admins, Switch(b) \/ SwitchResumes(b)
      PROVE  UNCHANGED <<pc, turn, said, acts>>
  BY <1>4 DEF Switch, SwitchResumes, loopVars
<1>5. UNCHANGED vars => UNCHANGED <<pc, turn, said, acts>>
  BY DEF vars, loopVars
<1> QED
  BY <1>1, <1>2, <1>3, <1>4, <1>5 DEF Next

\* The agent loop, with any hats, sessions, LLM answers and switches of hats,
\* implements ProposeThenEvaluate: a turn is decided once, acts only after its
\* verdict and as the verdict allows, at most once, and never while it closes.
THEOREM LoopKeepsPromise == Spec => KeepsPromise
<1>1. Init => Promise!Init
  <2> SUFFICES ASSUME Init PROVE Promise!Init
    OBVIOUS
  <2>1. PhaseOf("idle") = "idle" /\ Blank.tier = NONE /\ Promise!NONE = NONE
    BY DEF PhaseOf, Blank, Promise!NONE, NONE
  <2>2. AbsNumber = [s \in Sessions |-> 0] /\ AbsEffects = << >>
    BY DEF Init, AbsNumber, AbsEffects
  <2>3. AbsPhase = [s \in Sessions |-> "idle"] /\ AbsVerdict = [s \in Sessions |-> NONE]
    BY <2>1 DEF Init, AbsPhase, AbsVerdict
  <2> QED
    BY <2>1, <2>2, <2>3 DEF Promise!Init
<1>2. IInv /\ [Next]_vars => [Promise!Next]_(Promise!absVars)
  BY LoopAssumption, HatAssumption, StepMaps
<1> QED
  BY <1>1, <1>2, Invariance, PTL DEF Spec, KeepsPromise, Promise!Spec
=============================================================================
