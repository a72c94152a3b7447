------------------------------- MODULE AgentLoop -------------------------------
(***************************************************************************)
(* AgentLoop.process: the turns of several sessions through the            *)
(* propose-then-evaluate pipeline, sharing one hat registry with each      *)
(* other and with operators who switch the hat.  An action is what a turn  *)
(* does between two awaits; every await may return, most may raise, and    *)
(* other sessions and operators run meanwhile.                             *)
(*                                                                         *)
(* The LLM is free: it may classify the intent either way, propose any of  *)
(* Proposals, and the panel may score any tier (EvaluationPanel models how *)
(* a tier comes about).  Memory recall and the consequence trees read      *)
(* nothing that another task writes and are part of the await they belong  *)
(* to.                                                                     *)
(***************************************************************************)
EXTENDS HatRegistry, Gates

CONSTANTS
    Sessions,      \* tasks that process turns; the others switch hats
    Kind,          \* [Sessions -> {"websocket", "http", "webhook"}]
    DefaultHat,
    Messages,
    Proposals,     \* what the proposer LLM may answer: sequences of candidates
    Triggers,      \* [Hats -> lists of escalation triggers]
    RiskFloor,     \* [Hats -> [Tools -> floors]]: the hat's class of each tool
    AckTools,      \* [Hats -> tools acknowledged before the pipeline goes on]
    HatMinTier,    \* [Hats -> floors]: min_tier of the evaluator configuration
    MaxTurns,      \* bound on the turns of a session
    MaxSwitches    \* bound on the hat switches of all operators

Admins == Tasks \ Sessions

ASSUME LoopAssumption ==
    /\ Sessions \subseteq Tasks
    /\ Kind \in [Sessions -> {"websocket", "http", "webhook"}]
    /\ DefaultHat \in Hats
    /\ Escalate \in Tools /\ Converse \notin Tools /\ NoTool \notin Tools
    /\ NoTool # Converse
    /\ Proposals \subseteq Seq(Candidates(Tools))
    /\ Triggers \in [Hats -> TriggerLists(Messages)]
    /\ RiskFloor \in [Hats -> [Tools -> MaybeTier]]
    /\ AckTools \in [Hats -> SUBSET Tools]
    /\ HatMinTier \in [Hats -> MaybeTier]
    /\ MaxTurns \in Nat /\ MaxSwitches \in Nat

VARIABLES
    hatEquipped,   \* _hat_equipped
    pc,            \* per session, the await its turn is at
    turn,          \* per session, the locals of process
    said,          \* per session, the user's messages so far
    acts,          \* the tool effects that have happened, in their order
    audited,       \* the decision records of the audit database
    switches       \* hat switches begun so far

loopVars == <<hatEquipped, pc, turn, said, acts, audited, switches>>
vars == <<loopVars, hatVars>>

Stage == {"idle", "ensure", "parse", "propose", "ack", "evaluate", "situation",
          "execute", "escalate", "respond", "persist", "deliver", "audit"}

Turns == [hat    : Hats \cup {NoHat},            \* captured after the equip
          exempt : BOOLEAN,                      \* intent is a general inquiry
          top    : Tools \cup {Converse, NoTool},
          tools  : SUBSET (Tools \cup {Converse}),
          esc    : MaybeTier,                    \* escalation_min_tier
          floor  : MaybeTier,                    \* proposal_floor
          tier   : MaybeTier,                    \* the turn's verdict
          owner  : Hats \cup {NoHat}]            \* hat whose tool is running

Blank == [hat |-> NoHat, exempt |-> FALSE, top |-> NoTool, tools |-> {},
          esc |-> NONE, floor |-> NONE, tier |-> NONE, owner |-> NoHat]

Acts == [session : Sessions, turn : Nat, tool : Tools, owner : Hats \cup {NoHat},
         hat : Hats \cup {NoHat}, esc : MaybeTier, floor : MaybeTier, tier : Tier]

Records == [session : Sessions, turn : Nat,
            hat : Hats \cup {NoHat}, snapshot : Hats \cup {NoHat}]

Init == /\ HatInit
        /\ hatEquipped = FALSE
        /\ pc = [s \in Sessions |-> "idle"]
        /\ turn = [s \in Sessions |-> Blank]
        /\ said = [s \in Sessions |-> << >>]
        /\ acts = << >>
        /\ audited = {}
        /\ switches = 0

\* The turn of s goes on to await p, with u for its locals.
Goes(s, p, u) == /\ pc' = [pc EXCEPT ![s] = p]
                 /\ turn' = [turn EXCEPT ![s] = u]

\* The turn of s is over, whether it returned or raised.
Ends(s) == Goes(s, "idle", Blank)

-----------------------------------------------------------------------------
(* Equipping.                                                              *)

\* After an equip made for s: raise, wait on, or go on with the hat that is
\* active now.
Settle(s) ==
    LET stage == op'[s].stage
    IN  /\ \/ stage = "failed" /\ Ends(s)
           \/ stage = "done" /\ Goes(s, "parse", [Blank EXCEPT !.hat = equipped'.active])
           \/ stage \notin {"failed", "done"} /\ Goes(s, "ensure", Blank)
        /\ hatEquipped' = (hatEquipped \/ stage = "done")

\* A message arrives; the first one of the process equips the default hat.
Receive(s) ==
    /\ pc[s] = "idle"
    /\ Len(said[s]) < MaxTurns
    /\ \E m \in Messages : said' = [said EXCEPT ![s] = Append(@, m)]
    /\ \/ /\ hatEquipped
          /\ Goes(s, "parse", [Blank EXCEPT !.hat = equipped.active])
          /\ UNCHANGED <<hatEquipped, hatVars>>
       \/ /\ ~hatEquipped
          /\ BeginEquip(s, DefaultHat)
          /\ Settle(s)
    /\ UNCHANGED <<acts, audited, switches>>

EquipResumes(s) ==
    /\ pc[s] = "ensure"
    /\ Resumes(s)
    /\ Settle(s)
    /\ UNCHANGED <<said, acts, audited, switches>>

\* An operator switches the hat.  get_agent_loop has equipped the default hat
\* before; equip_hat rebuilds the pipeline once equip has returned.
Switch(a) ==
    /\ hatEquipped
    /\ switches < MaxSwitches
    /\ \E h \in Hats : BeginEquip(a, h)
    /\ switches' = switches + 1
    /\ UNCHANGED <<hatEquipped, pc, turn, said, acts, audited>>

SwitchResumes(a) == Resumes(a) /\ UNCHANGED loopVars

-----------------------------------------------------------------------------
(* Deliberation.                                                           *)

ParseReturns(s) ==
    /\ pc[s] = "parse"
    /\ \E ex \in BOOLEAN : Goes(s, "propose", [turn[s] EXCEPT !.exempt = ex])
    /\ UNCHANGED <<hatEquipped, said, acts, audited, switches, hatVars>>

\* The conversation the escalation gate sees: only the websocket sends one.
Heard(s) == IF Kind[s] = "websocket" THEN said[s] ELSE <<said[s][Len(said[s])]>>

FloorNow == [u \in Tools \cup {Converse} |->
                IF u \in Tools /\ Registered(u)
                THEN RiskFloor[equipped.tools[u]][u]
                ELSE NONE]

\* The risk floor check and the choice of path: a RED floor is refused at once,
\* a defensive top has the situation evaluated or is mere conversation, an
\* empty proposal has no tree and is GREEN, and the rest goes to the panel.
Route(s, u) ==
    LET w == [u EXCEPT !.floor = ProposalFloor(u.tools, FloorNow)]
        evaluated == u.esc # NONE \/ ~u.exempt
    IN  \/ w.floor = RED /\ Goes(s, "respond", [w EXCEPT !.tier = RED])
        \/ /\ w.floor # RED
           /\ \/ Defensive(u.top) /\ evaluated /\ Goes(s, "situation", w)
              \/ Defensive(u.top) /\ ~evaluated
                    /\ Goes(s, "respond", [w EXCEPT !.tier = GREEN])
              \/ u.top = NoTool /\ Goes(s, "respond", [w EXCEPT !.tier = GREEN])
              \/ ~Defensive(u.top) /\ u.top # NoTool /\ Goes(s, "evaluate", w)

\* Only the websocket waits for the acknowledgment to be sent.
Acknowledged(s, u) == /\ Kind[s] = "websocket"
                      /\ u \in Tools
                      /\ Registered(u)
                      /\ u \in AckTools[equipped.tools[u]]

\* The proposer answers.  Without a hat the escalation gate raises.
ProposeReturns(s) ==
    /\ pc[s] = "propose"
    /\ \E cs \in Proposals :
          LET g == Gated(cs, {u \in Tools : Registered(u)})
              u == [turn[s] EXCEPT
                       !.top = g.top,
                       !.tools = g.tools,
                       !.esc = EscalationFloor(Triggers[turn[s].hat], Heard(s))]
          IN  \/ turn[s].hat = NoHat /\ Ends(s)
              \/ /\ turn[s].hat # NoHat
                 /\ \/ Acknowledged(s, g.first) /\ Goes(s, "ack", u)
                    \/ ~Acknowledged(s, g.first) /\ Route(s, u)
    /\ UNCHANGED <<hatEquipped, said, acts, audited, switches, hatVars>>

AckSent(s) ==
    /\ pc[s] = "ack"
    /\ Route(s, turn[s])
    /\ UNCHANGED <<hatEquipped, said, acts, audited, switches, hatVars>>

\* Mutant: the escalation floor does not reach the classifier.
VerdictWithoutEscalation(u, scored) == Floored(scored, u.floor, HatMinTier[u.hat])

\* Mutants: the hat's min_tier is not applied; every verdict is bumped, RED too.
VerdictWithoutHatFloor(u, scored) == MaxTier(scored, MaxTier(u.esc, u.floor))
VerdictBumped(u, scored) ==
    1 + Floored(scored, MaxTier(u.esc, u.floor), HatMinTier[u.hat])

\* The classifier's verdict on the tier the panel scored.
Verdict(u, scored) ==
    Floored(scored, MaxTier(u.esc, u.floor), HatMinTier[u.hat])

\* Mutant: a YELLOW verdict escalates instead of asking for confirmation.
ExecutionEscalatingYellow(u, tier) ==
    CASE tier = GREEN /\ Registered(u.top)                     -> "execute"
      [] tier = GREEN /\ ~Registered(u.top)                    -> "respond"
      [] tier \in {YELLOW, ORANGE} /\ Registered(Escalate)     -> "escalate"
      [] OTHER                                                 -> "persist"

\* Where _tiered_execute leads; the tools are looked up now, not when proposed.
Execution(u, tier) ==
    CASE tier = GREEN /\ Registered(u.top)     -> "execute"
      [] tier = GREEN /\ ~Registered(u.top)    -> "respond"   \* unknown tool
      [] tier = YELLOW                         -> "respond"   \* confirmation
      [] tier = ORANGE /\ Registered(Escalate) -> "escalate"
      [] OTHER                                 -> "persist"   \* refusal

EvaluateReturns(s) ==
    /\ pc[s] = "evaluate"
    /\ \E scored \in Tier :
          LET u    == turn[s]
              tier == Verdict(u, scored)
              p    == Execution(u, tier)
          IN  Goes(s, p, [u EXCEPT
                !.tier = tier,
                !.owner = IF p = "execute" THEN equipped.tools[u.top]
                          ELSE IF p = "escalate" THEN equipped.tools[Escalate]
                          ELSE NoHat])
    /\ UNCHANGED <<hatEquipped, said, acts, audited, switches, hatVars>>

\* Situation evaluation knows the escalation floor, not the floors of tools.
SituationReturns(s) ==
    /\ pc[s] = "situation"
    /\ \E scored \in Tier :
          LET u == turn[s]
          IN  Goes(s, "respond", [u EXCEPT
                !.tier = Floored(scored, u.esc, HatMinTier[u.hat])])
    /\ UNCHANGED <<hatEquipped, said, acts, audited, switches, hatVars>>

-----------------------------------------------------------------------------
(* Acting and closing.                                                     *)

\* What the running tool does: escalation runs only on an ORANGE verdict.
Act(s) == [session |-> s,
           turn    |-> Len(said[s]),
           tool    |-> IF pc[s] = "escalate" THEN Escalate ELSE turn[s].top,
           owner   |-> turn[s].owner,
           hat     |-> turn[s].hat,
           esc     |-> turn[s].esc,
           floor   |-> turn[s].floor,
           tier    |-> turn[s].tier]

\* The effect may or may not have happened, as the tool returns or raises.
MayAct(s) == acts' \in {acts, Append(acts, Act(s))}

\* Mutant: a tool that reports a failure is tried again.
ToolReturnsOrRetries(s) ==
    /\ pc[s] = "execute"
    /\ MayAct(s)
    /\ Goes(s, "respond", turn[s]) \/ Goes(s, "execute", turn[s])
    /\ UNCHANGED <<hatEquipped, said, audited, switches, hatVars>>

ToolReturns(s) ==
    /\ pc[s] = "execute"
    /\ MayAct(s)
    /\ Goes(s, "respond", turn[s])
    /\ UNCHANGED <<hatEquipped, said, audited, switches, hatVars>>

ToolRaises(s) ==
    /\ pc[s] = "execute"
    /\ MayAct(s)
    /\ Ends(s)
    /\ UNCHANGED <<hatEquipped, said, audited, switches, hatVars>>

\* Once its notification is over, sent or not, escalate_to_human succeeds.
EscalateReturns(s) ==
    /\ pc[s] = "escalate"
    /\ acts' = Append(acts, Act(s))
    /\ Goes(s, "persist", turn[s])
    /\ UNCHANGED <<hatEquipped, said, audited, switches, hatVars>>

\* A channel that cannot be connected raises through the tool and the executor.
EscalateRaises(s) ==
    /\ pc[s] = "escalate"
    /\ Ends(s)
    /\ UNCHANGED <<hatEquipped, said, acts, audited, switches, hatVars>>

Respond(s) ==
    /\ pc[s] = "respond"
    /\ Goes(s, "persist", turn[s])
    /\ UNCHANGED <<hatEquipped, said, acts, audited, switches, hatVars>>

\* Memory extraction swallows its failures.  A webhook's result is dropped.
Persist(s) ==
    /\ pc[s] = "persist"
    /\ \/ Kind[s] = "websocket" /\ Goes(s, "deliver", turn[s])
       \/ Kind[s] = "http" /\ Goes(s, "audit", turn[s])
       \/ Kind[s] = "webhook" /\ Ends(s)
    /\ UNCHANGED <<hatEquipped, said, acts, audited, switches, hatVars>>

\* Mutant: a delivery that fails is answered and delivered again.
DeliverOrRespondAgain(s) ==
    /\ pc[s] = "deliver"
    /\ Goes(s, "audit", turn[s]) \/ Goes(s, "respond", turn[s])
    /\ UNCHANGED <<hatEquipped, said, acts, audited, switches, hatVars>>

\* The websocket sends the stages of the turn before it is audited.
Deliver(s) ==
    /\ pc[s] = "deliver"
    /\ Goes(s, "audit", turn[s])
    /\ UNCHANGED <<hatEquipped, said, acts, audited, switches, hatVars>>

\* Mutant: a failure of the database sends the turn back to be persisted.
AuditOrPersistAgain(s) ==
    /\ pc[s] = "audit"
    /\ Goes(s, "persist", turn[s]) \/ Ends(s)
    /\ UNCHANGED <<hatEquipped, said, acts, audited, switches, hatVars>>

\* The record snapshots the hat active now; a failure of the database is
\* swallowed.
Audit(s) ==
    /\ pc[s] = "audit"
    /\ \/ audited' = audited \cup
              {[session |-> s, turn |-> Len(said[s]),
                hat |-> turn[s].hat, snapshot |-> equipped.active]}
       \/ UNCHANGED audited
    /\ Ends(s)
    /\ UNCHANGED <<hatEquipped, said, acts, switches, hatVars>>

\* An LLM call raises, or the websocket is gone.
Fail(s) ==
    /\ pc[s] \in {"parse", "propose", "ack", "evaluate", "situation",
                  "respond", "deliver"}
    /\ Ends(s)
    /\ UNCHANGED <<hatEquipped, said, acts, audited, switches, hatVars>>

-----------------------------------------------------------------------------

\* The turn of s goes on after an await.
Proceed(s) == \/ EquipResumes(s)
              \/ ParseReturns(s)
              \/ ProposeReturns(s)
              \/ AckSent(s)
              \/ EvaluateReturns(s)
              \/ SituationReturns(s)
              \/ ToolReturns(s)
              \/ ToolRaises(s)
              \/ EscalateReturns(s)
              \/ EscalateRaises(s)
              \/ Respond(s)
              \/ Persist(s)
              \/ Deliver(s)
              \/ Audit(s)
              \/ Fail(s)

Next == \/ \E s \in Sessions : Receive(s) \/ Proceed(s)
        \/ \E a \in Admins : Switch(a) \/ SwitchResumes(a)

\* Every await ends: LLM, MCP and database calls have timeouts, and the event
\* loop runs every task that is ready.  Nobody has to send a message.
Fairness == /\ \A s \in Sessions : WF_vars(Proceed(s))
            /\ \A a \in Admins : WF_vars(SwitchResumes(a))

Spec == Init /\ [][Next]_vars /\ Fairness
=============================================================================
