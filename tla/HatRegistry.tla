------------------------------ MODULE HatRegistry ------------------------------
(***************************************************************************)
(* Equipping a hat: HatRegistry.equip and unequip with the service         *)
(* registry they drive.  The hat, the tool registry, the MCP clients and   *)
(* the webhook router are shared by every task of the process and no lock  *)
(* protects them; a task gives up control only while it closes MCP clients *)
(* (teardown) and while it connects one (initialize).  What runs between   *)
(* two such awaits is one action.                                          *)
(*                                                                         *)
(* The services of a remote hat share one MCP client, and the closing of   *)
(* all the clients of one teardown is a single await.                      *)
(***************************************************************************)
EXTENDS Integers, FiniteSets

CONSTANTS
    Hats, NoHat,
    Tools,         \* tool names (converse, which every hat gets, is left out)
    HatTools,      \* [Hats -> sets of tools]: the manifest's tools list
    RemoteHats,    \* hats whose backends use the MCP provider
    WebhookHats,   \* hats with a webhooks block
    BadHats,       \* hats whose files do not load
    BrokenHats,    \* hats whose tools or outbound services cannot all be built
    Tasks          \* asyncio tasks that may equip a hat

ASSUME HatAssumption ==
    /\ NoHat \notin Hats
    /\ HatTools \in [Hats -> SUBSET Tools]
    /\ RemoteHats \subseteq Hats /\ WebhookHats \subseteq Hats
    /\ BadHats \subseteq Hats /\ BrokenHats \subseteq Hats

VARIABLES
    equipped,   \* what the tasks share: the active hat, the owner of each
                \* registered tool, the hats with an open MCP client, and the
                \* hat whose webhook router is installed
    op          \* per task, where its equip call is

hatVars == <<equipped, op>>

Scope == [active  : Hats \cup {NoHat},
          tools   : [Tools -> Hats \cup {NoHat}],
          clients : SUBSET Hats,
          hooks   : Hats \cup {NoHat}]

Stages == {"off", "unequip", "teardown", "connect", "done", "failed"}

Ops == [stage : Stages, hat : Hats \cup {NoHat}, seen : Nat, wiped : BOOLEAN]

At(stage, h) == [stage |-> stage,
                 hat   |-> h,
                 seen  |-> Cardinality(equipped.clients),
                 wiped |-> FALSE]

Ended(stage) == [stage |-> stage, hat |-> NoHat, seen |-> 0, wiped |-> FALSE]

Awaiting(t) == op[t].stage \in {"unequip", "teardown", "connect"}

HatInit ==
    /\ equipped = [active  |-> NoHat,
                   tools   |-> [u \in Tools |-> NoHat],
                   clients |-> {},
                   hooks   |-> NoHat]
    /\ op = [t \in Tasks |-> Ended("off")]

Registered(u) == equipped.tools[u] # NoHat

\* Mutants of unequip: it forgets to clear the tools, or the webhook router.
UnequippedKeepingTools ==
    [equipped EXCEPT !.active = NoHat, !.clients = {}, !.hooks = NoHat]
UnequippedKeepingRouter ==
    [equipped EXCEPT !.active = NoHat, !.clients = {},
                     !.tools = [u \in Tools |-> NoHat]]

\* What unequip leaves behind, all of it set without an await in between.
Unequipped ==
    [equipped EXCEPT !.active = NoHat, !.clients = {}, !.hooks = NoHat,
                     !.tools = [u \in Tools |-> NoHat]]

\* Mutant: the tools replace the registry's dict.
OverlayReplacing(tools, h, us) == [u \in us |-> h]

\* Registering overwrites a tool of the same name and keeps every other.
Overlay(tools, h, us) == [u \in Tools |-> IF u \in us THEN h ELSE tools[u]]

\* teardown empties _services at once: an equip that is still connecting loses
\* the services it has built so far.
WipedBy(t) == [u \in Tasks |-> IF u # t /\ op[u].stage = "connect"
                               THEN [op[u] EXCEPT !.wiped = TRUE]
                               ELSE op[u]]

\* Mutant: the hat becomes active before its tools are registered.
RegisterActiveFirst(t, h, s, ops, lost) ==
    /\ \E us \in SUBSET HatTools[h] :
          /\ h \in BrokenHats \/ lost \/ us = HatTools[h]
          /\ equipped' = [s EXCEPT !.active = h, !.tools = Overlay(@, h, us)]
    /\ op' = [ops EXCEPT ![t] = Ended("done")]

\* The rest of equip once the services exist, without an await: register the
\* tools one by one, build the outbound services, install the webhook router,
\* and only then set the active hat.  A tool or an outbound service that cannot
\* be built leaves the tools registered so far.
Register(t, h, s, ops, lost) ==
    \/ /\ h \notin BrokenHats
       /\ equipped' = [s EXCEPT !.active = h,
                                !.tools = Overlay(@, h, HatTools[h]),
                                !.hooks = IF h \in WebhookHats THEN h ELSE @]
       /\ op' = [ops EXCEPT ![t] = Ended("done")]
    \/ /\ h \in BrokenHats \/ lost
       /\ \E us \in SUBSET HatTools[h] :
             equipped' = [s EXCEPT !.tools = Overlay(@, h, us)]
       /\ op' = [ops EXCEPT ![t] = Ended("failed")]

\* After the second teardown: local services are built at once, remote ones
\* wait for their server.
Services(t, h, s) ==
    LET torn == [s EXCEPT !.clients = {}]
    IN  \/ /\ h \in RemoteHats
           /\ equipped' = torn
           /\ op' = [WipedBy(t) EXCEPT ![t] = At("connect", h)]
        \/ /\ h \notin RemoteHats
           /\ Register(t, h, torn, WipedBy(t), FALSE)

\* load_hat, then the second teardown, which awaits if a client is open.
Load(t, h, s, ops) ==
    \/ /\ h \in BadHats
       /\ equipped' = s
       /\ op' = [ops EXCEPT ![t] = Ended("failed")]
    \/ /\ h \notin BadHats
       /\ s.clients # {}
       /\ equipped' = s
       /\ op' = [WipedBy(t) EXCEPT ![t] = At("teardown", h)]
    \/ /\ h \notin BadHats
       /\ s.clients = {}
       /\ Services(t, h, s)

\* Mutant: the current hat is not unequipped first.
BeginEquipOverActive(t, h) == ~Awaiting(t) /\ Load(t, h, equipped, op)

BeginEquip(t, h) ==
    /\ ~Awaiting(t)
    /\ \/ /\ equipped.active # NoHat
          /\ equipped.clients # {}
          /\ op' = [WipedBy(t) EXCEPT ![t] = At("unequip", h)]
          /\ UNCHANGED equipped
       \/ /\ equipped.active # NoHat
          /\ equipped.clients = {}
          /\ Load(t, h, Unequipped, WipedBy(t))
       \/ /\ equipped.active = NoHat
          /\ Load(t, h, equipped, op)

\* The dict of clients is iterated across the await: a change of its size in
\* the meantime raises RuntimeError out of equip.
Disturbed(t) == Cardinality(equipped.clients) # op[t].seen

RaiseDisturbed(t) ==
    /\ Disturbed(t)
    /\ op' = [op EXCEPT ![t] = Ended("failed")]
    /\ UNCHANGED equipped

\* Mutant: instead of raising, the closing waits for the clients it counted.
UnequipResumesUndisturbed(t) ==
    /\ op[t].stage = "unequip"
    /\ ~Disturbed(t)
    /\ Load(t, op[t].hat, Unequipped, op)

UnequipResumes(t) ==
    /\ op[t].stage = "unequip"
    /\ \/ RaiseDisturbed(t)
       \/ ~Disturbed(t) /\ Load(t, op[t].hat, Unequipped, op)

TeardownResumes(t) ==
    /\ op[t].stage = "teardown"
    /\ \/ RaiseDisturbed(t)
       \/ ~Disturbed(t) /\ Services(t, op[t].hat, equipped)

\* Mutant: the client is used but never entered in _mcp_clients.
ConnectReturnsUnrecorded(t) ==
    /\ op[t].stage = "connect"
    /\ Register(t, op[t].hat, equipped, op, op[t].wiped)

\* The server answers: the client is kept and equip runs to its end.
ConnectReturns(t) ==
    /\ op[t].stage = "connect"
    /\ Register(t, op[t].hat, [equipped EXCEPT !.clients = @ \cup {op[t].hat}],
                op, op[t].wiped)

ConnectFails(t) ==
    /\ op[t].stage = "connect"
    /\ op' = [op EXCEPT ![t] = Ended("failed")]
    /\ UNCHANGED equipped

\* equip goes on after an await.
Resumes(t) == \/ UnequipResumes(t)
              \/ TeardownResumes(t)
              \/ ConnectReturns(t)
              \/ ConnectFails(t)

HatNext == \E t \in Tasks : \/ \E h \in Hats : BeginEquip(t, h)
                            \/ Resumes(t)

\* Every await of equip returns or raises: the MCP client has a timeout.
HatFairness == \A t \in Tasks : WF_hatVars(Resumes(t))

HatSpec == HatInit /\ [][HatNext]_hatVars /\ HatFairness

-----------------------------------------------------------------------------

HatTypeOK == /\ equipped \in Scope
             /\ op \in [Tasks -> Ops]

\* Under any interleaving of equips the active hat can serve its requests:
\* every tool it names is registered, if perhaps by another hat.
ActiveHatHasItsTools ==
    equipped.active # NoHat => \A u \in HatTools[equipped.active] : Registered(u)

\* Unequip is complete: with no hat active no webhook router is left, also when
\* the equip that followed has failed.
NoOrphanRouter == equipped.active = NoHat => equipped.hooks = NoHat

\* Every equip call ends, done or failed.
EquipEnds == \A t \in Tasks : Awaiting(t) ~> ~Awaiting(t)
=============================================================================
