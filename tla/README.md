# Sophia in TLA+

Formal models of Sophia, an agent framework whose LLM proposes tool calls and
whose deterministic code decides whether they happen. The modules here model
that code, TLC checks them on small instances, and TLAPS proves the most
important theorems for every value of the constants.

Paths are relative to the repository (`sophia/...`, `hats/...`, `decisions/...`).

## The system

| Component | State | Operations | Hard parts |
|---|---|---|---|
| Agent loop, `sophia/core/loop.py`, `executor.py` | `_hat_equipped`; the locals of each turn; tool effects | `process`: parse, propose, gates, panel, tiered execution, response, memory, audit | every stage awaits an LLM or a server; sessions, webhooks and operators interleave; any await may raise after a tool has acted |
| Gates, `parameter_gate.py`, `escalation_gate.py`, `risk_floor.py`, `preflight_ack.py` | none | filter candidates; floor by trigger; floor by tool; acknowledge | which floor reaches which path; conversation history |
| Panel and classifier, `evaluators/`, `risk_classifier.py` | per run: answers, results | four concurrent LLM calls, score rules, overrides, thresholds, bump, floors | answers in any order, failures, inclusive and exclusive bounds |
| Hat registry, `hats/registry.py`, `services/registry.py` | active hat, tool registry, MCP clients, webhook router | `equip`, `unequip`, `teardown`, `initialize` | no lock; awaits in the middle; failures half way |
| Consequence engine, `consequence.py`, `tree_analysis.py` | tree cache | `analyze`, `analyze_situation` | stale trees, concurrent misses |
| Webhooks, `api/webhook_routes.py`, `webhooks/` | router, validator, seen events, processed log | receive, route, execute | repeated deliveries, hat switch while a request is read, swallowed handler errors |
| Notifications, `notifications/` | counts per entity of an event | `check`, send | limits counted before the send, quiet hours |
| MCP client, `services/mcp/client.py` | HTTP client, request ids | `connect`, `call_tool`, `close` | retries of calls that may have happened |
| Service mappings, `services/mcp/*_mapping.py`, `*_service.py` | none of their own; the platforms' orders and refunds | method to tool and arguments, answer to model | answers that mean different things on each platform; lost requests sent again; platforms that move on |
| Customer-service tools, `hats/customer-service/tools/`, `services/mock/` | orders, returns of the mock | look up, place, cancel, refund, return, readdress, compensate | legal calls in any order; a mock store shared by services of different providers |
| Memory, `memory/` | connection, episodes, entities, relationships | connect, recall, extract and store | concurrent first connection, partial stores |
| Communication, `tools/communication.py`, `services/mcp/communication_service.py` | connected clients | notify, request approval, escalate | routing by policy, posting with retries, what is told of it |
| Audit, `audit/`, `api/audit_routes.py` | decision, outcome and feedback records | store, report | check in one await, write in another |
| Auth, `auth/`, `api/admin_routes.py` | keys, request windows | bootstrap, authenticate, create, revoke | a key revoked while a request goes on; window boundary; a WebSocket beside it that asks for no key |
| Tree measures, LLM providers, prompts, UI, eval, scripts, backend stubs | - | - | pure functions, I/O and text |

Interaction. `api/routes.py` and `api/webhook_routes.py` call
`AgentLoop.process` concurrently in one event loop. `process` equips the default
hat on first use, asks the LLM stages in turn, and reads the tool registry
several times: at the parameter gate, at the acknowledgment, at the risk floor
check and at execution. An operator's `equip_hat` rewrites that registry and the
webhook router in between. Around `process`, a request is authenticated against
the key database before it, recalls from and extracts into memory within it, and
is recorded in the audit database after it. The tools of a hat call the services
that the hat configures, each of them a mock or a platform behind an MCP client;
the communication tools of the framework do so too.

### What makes each component correct

* Agent loop: no effect without a verdict that allows it, under every floor of
  the turn; at most one effect per turn; every turn ends; the record names the
  hat that decided.
* Gates: a trigger is not forgotten in a conversation; a floored tool cannot
  slip through filtering.
* Panel: floors compose; the veto and the severe majority cannot be configured
  away; disagreement is not averaged away.
* Hat registry: one hat at a time, whole, and nothing left behind.
* Consequence engine: a shared tree fits the call, is fresh, and belongs to the
  hat of the call.
* Webhooks and notifications: a duplicate in the window is not processed again;
  a hat with a secret processes signed events only; the limit per entity of an
  event and the quiet hours hold whatever runs concurrently.
* MCP client: an outcome tells what the server may have done; calls do not
  disturb each other; every call ends.
* Service mappings and tools: what a tool tells the customer is so - a
  cancellation that was told has happened and is not untold by the order's
  status later, a refund that was told as processed is recorded at the platform with
  at least the amount told (just that amount, but at Shopify), and a failure has
  done nothing; an order is not both cancelled and returned.
* Memory: no edge without its entities and its episode, however the connection,
  the database or the process failed on the way.
* Communication: a message reported as sent was posted, to the channel of its
  role and nowhere else.
* Audit: a decision keeps one outcome, and reporters are told the truth.
* Auth: an endpoint that asks for a key works only for requests it let in, and lets
  none in with a key that was revoked before, also after a restart - which says
  nothing of the WebSocket, as it asks for none; no minute admits more than a key's
  limit, and none is refused before.

## Modules

    RiskTiers <- RiskClassifier <- EvaluationPanel
    RiskTiers <- Gates          <- AgentLoop <- AgentLoopProperties
                   HatRegistry  <- AgentLoop
    RiskTiers <- ProposeThenEvaluate, implemented by AgentLoop
                   HatRegistry  <- HatDiscipline
    Vendors <- Commerce
    Access, Memory, Communication, Audit <- ChatService
    Webhooks, ConsequenceCache, McpClient stand alone

| Module | Models | State | Proofs |
|---|---|---|---|
| `RiskTiers` | tiers as numbers, NONE below GREEN, floors as maxima | - | |
| `Gates` | parameter gate, escalation gate, risk floor of a proposal | none: pure operators | `AgentLoopProofs` |
| `RiskClassifier` | score rules of the evaluators, `classify` | none: pure operators | `EvaluationPanelProofs` |
| `EvaluationPanel` | one run of the four concurrent evaluators | configuration, raw answers, results, verdict | `EvaluationPanelProofs` |
| `HatRegistry` | `HatRegistry.equip`/`unequip` and the `ServiceRegistry` they drive | `equipped` (active hat, owner of each tool, open clients, router), `op` per task | `HatRegistryProofs` |
| `HatDiscipline` | callers of `HatRegistry` that wait for each other and whose hats build, next to callers that do not | whether they do | `HatRegistryProofs` |
| `AgentLoop` | `AgentLoop.process` and the routes around it, over `Gates` and `HatRegistry` | `pc` and locals per session, what users said, acts, audit records | `AgentLoopProofs` |
| `ProposeThenEvaluate` | what the pipeline promises of a session | turn number, phase, verdict, effects | |
| `Webhooks` | `receive_webhook`, `EventRouter`, `NotificationGate` | clock, routers, installed router and validators, requests | `WebhooksProofs` |
| `ConsequenceCache` | `ConsequenceEngine.analyze` and `analyze_situation` | clock, registry, engines with caches, calls | `ConsequenceCacheProofs` |
| `McpClient` | `MCPServiceAdapter._call`, `MCPClient` | tools, connected and open flags, close, calls | `McpClientProofs` |
| `Vendors` | the mappings: which platform serves which method by which tool, how its answers are parsed | none: pure operators | |
| `Commerce` | the tools of the customer-service hat over mocks and platforms | backend of each service, orders, returns, refunds, tool calls | `CommerceProofs` |
| `Access` | keys, authentication, `RateLimiter` | keys in the database, windows, clock | `ChatServiceProofs` |
| `Memory` | `SurrealMemoryProvider`, `MemoryExtractor`, `MockMemoryProvider` | connection, what is stored | `ChatServiceProofs` |
| `Communication` | `MCPCommunicationService`, the communication tools | connected clients, messages posted | `ChatServiceProofs` |
| `Audit` | `audit/service.py` and the routes that report | decisions, outcomes, feedback | `ChatServiceProofs` |
| `ChatService` | concurrent requests through these four, and restarts | deployment, requests | `ChatServiceProofs` |

`MC*` modules give the constants values. `PROJECT.json` maps each definition to
the lines it stands for. Operators commented `Mutant:` are plausible bugs; each
property is violated by at least one of them.

### How actions correspond to the code

Everything runs in one asyncio event loop, so code between two awaits is atomic:
an action is what runs from one await to the next. An await that may raise has an
action for the exception. The choice of which task goes on is the event loop's
and is free.

*`AgentLoop`.* `Receive` is a call of `process` up to its first await, with
`_ensure_hat_equipped`; `ParseReturns`, `ProposeReturns`, `AckSent`,
`EvaluateReturns`, `SituationReturns`, `ToolReturns`, `ToolRaises`,
`EscalateReturns`, `EscalateRaises`, `Respond`, `Persist`, `Deliver` and `Audit`
are the returns of its awaits in their order, and `Fail` is an LLM call that
raises or a websocket that is gone. The gates, the floor check, the classifier and
`_tiered_execute` run inside these actions. `Route` is the order of the early
returns. The tool registry is read three times in a turn - at the gates, at the
floor check, at execution - each time as it is then. The tier of the panel is
free, as `EvaluationPanel` has every tier reachable, and is then floored as
`classify` floors it. `hatEquipped` is shared, `turn` holds the locals. Memory
recall and the trees are part of the await they belong to.

*`HatRegistry`.* `BeginEquip` runs up to the first await; `UnequipResumes` and
`TeardownResumes` go on after MCP clients were closed, `ConnectReturns` and
`ConnectFails` after one was connected. `Load`, `Services` and `Register` are the
synchronous parts between, in order. Iterating a dict of clients that has changed
its size raises (`Disturbed`).

*`Webhooks`.* `Receive` answers 503 and 404 before the body is awaited;
`Refuse`, `DropDuplicate` and `RouteEvent` go on with it, under the hat that is
equipped by then; `StoreReturns`, `Notify`, `Blocked` and `WorkReturns` are
`execute` on the router that the request was routed by. An entity is the id that
the normalizer takes from the payload: of an order's event the order, not its
customer; the gate counts by it. `Configure` and
`Teardown` are what an equip does to the globals.

*`ConsequenceCache`.* `Starts` resolves the lifetime from the live registry and
looks the key up; `GenerateReturns` stores into the engine the call began on.
`Equip` builds a new engine; `EquipStalls` is the gap in which the registry no
longer, or not yet, holds the tools of the engine's hat.

*`McpClient`.* `post` is a request of the call at the server, `nap` the sleep
before the next attempt; `init` and `list` are the requests of the reconnection
between two attempts, which have attempts of their own (`sub`). `CloseBegins`
and `CloseEnds` are `close`.

*`Commerce`.* `Begin` is a tool call up to its first await: a mock answers at
once (`MockServes`, one action per tool family), a platform is asked if it serves
the method (`Asks`). `ProductReturns` is the lookup of the product before an order
is placed. `Answers`, `AnswersError` and `IsLost` are what becomes of a request,
with the platform's effect (`Performs`) and the parsing of its answer (`Reports`,
over `Vendors`) in one step, as the answer is a document of that moment. The answer
to a refund (`RefundDocuments`) carries its amount and, at Shopify, one transaction,
two or none; each parser takes its own part of it (`ParsedAmount`). A lost
request is sent again up to `Attempts` times, as `McpClient` shows. `OrderMoves`
and `RefundSettles` are the platform's staff and schedule. A platform keeps an
order in its own words (`unfulfilled`, `completed`), so that a parser that does
not know a word shows. Orders placed are counted, not named: no tool call of the
run asks for them again.

*`ChatService`.* A request is a record whose `stage` names the await it is at. A
turn comes by POST /chat (`chat`) or is a message on the WebSocket /ws/chat
(`socket`), which begins it without a key whatever the settings say (`Guarded`).
`Receive`, `LookupReads` and `Authenticate` are `require_auth` with
`require_scope`; `CreateReturns`, `SelectReturns` and `UpdateReturns` the
endpoints of keys; `ReportReads` and `ReportReturns` those of outcomes and
feedback. Of a turn, `ConnectReturns` and `AskReturns` are the memory calls, first
of the recall and then, after `ExtractReturns`, of the extraction, item by item;
`Think` stands for the pipeline up to its tool, which `AgentLoop` models;
`DialReturns` and `PostReturns` are `send_to_role`, whose errors are caught and
told, but for an answer that is no JSON object, which ends the turn;
`RespondReturns` and `AuditReturns` end the turn, on a WebSocket with the answer
before the record. Status 500 stands for the error event of a WebSocket, too.
`Restart` loses the requests under way, the windows, the clients and the
connection, and what the in-memory provider held; the databases stay, and
`Started` generates a key if there is none.

## Runs

Distinct states are those of the instance in the cfg.

| Run | States | What it shows |
|---|---|---|
| `panel` | 294,912 | Every order of answers, every combination of five raw scores and of the flag sets, three hat configurations, two request floors: floors compose, the tribal veto is final, agreed social engineering is RED, a lone dissenter is not averaged away, a worse score reassures by at most a level, every run ends |
| `hats` | 15,482 | Equips of hats that load, connect or build and that do not, one after the other and interleaved: the active hat always finds its tools, no router without a hat, each equip ends; and with discipline no overlap, the active hat is whole and no client leaks |
| `loop_conversation` | 129,756 | Three turns of a websocket session over every kind of proposal and trigger: no tool after a trigger, no floored tool, implements `ProposeThenEvaluate`, which holds that a turn acts at most once, on a verdict that allows it |
| `loop_switching` | 212,826 | An HTTP and a webhook session race for the first equip and an operator switches the hat: clearance and one act per turn survive, turns end |
| `loop_floored` | violation | The switch lets a tool with a RED floor act on a GREEN verdict |
| `loop_carry` | violation | A later ORANGE trigger replaces an earlier RED one |
| `loop_snapshot` | violation | The audit record snapshots a hat that did not decide |
| `webhooks` | 4,684,782 | Three requests about two entities over a day and a night with hats switched: duplicates, limits per entity, signatures |
| `consequence_cache` | 3,957,078 | Three analyses, concurrent and repeated, two equips: own tree, fresh tree, tree of the hat |
| `mcp_retries` | 296,523 | Two calls with three attempts each and a close at any time: outcomes, no spurious "not found", calls end |
| `commerce` | 1,606,205 | Two concurrent or successive tool calls under six configurations of mocks and platforms, with lost and repeated requests, refunds in parts and platforms that move on: what is told is so, a cancellation told stays told, no order is cancelled and returned |
| `chat_service` | 2,367,428 | Up to three requests under five deployments, failing databases and servers, a restart: the limit is exact, guarded endpoints keep requests out that they did not let in and keys that were revoked, memory is whole, what is reported as sent was posted, one outcome |

### Bounds, and why they are enough

* `panel`: the raw scores straddle every bound the code compares with: -1.2 is
  clamped, -0.8 sits on the catastrophe bound, -0.45 turns severe only by a flag
  ceiling, -0.05 and 0.4 are reassuring and differ from the severe ones by just
  less and more than 0.8. Flag sets hold the flag all rule-based evaluators know
  and one of the evaluator's own. The hats are the default, one with a single
  weight, one without weights.
* `hats`: two tasks suffice for every pair of interleaved awaits; the hats
  cover each combination the code distinguishes (remote or local, webhook or
  not, shared and own tools, not loading, not building).
* `loop_conversation`: three turns allow a trigger, another trigger and a turn
  without; `MCProposals` takes every way through the gates. One session is
  enough, as sessions share only the hat, which `loop_switching` covers with two
  sessions, two hats and one switch (`MaxTurns`, `MaxSwitches`).
* `webhooks`: three requests are the least in which a redelivery renews an entry
  that a third then finds (`MaxRequests`); `Window` = 2 and `MaxTime` = 3 give a
  delivery in, on and past the window; days of three hours with a quiet hour that
  ends at midnight let the count roll over. Two orders show counts that are kept
  apart; the shop notifies about `shipped` alone.
  `MaxEquips` = 2 switches once.
* `consequence_cache`: a tree, a call that may share it, a third that generates
  at the same time (`MaxCalls`); two engines (`MaxEquips`); lifetimes 0, 1 and 2
  over times 0 to 2 (`MaxTime`).
* `mcp_retries`: three attempts have a first, a middle and a last; two calls are
  enough to disturb each other (`MaxCalls`).
* `commerce`: the properties relate a call to another call of the same order or to
  the platform, so two calls (`Calls`) and two attempts, a first that is lost and
  one that is not (`Attempts`), reach each case. The amount 19.99 is one that
  floating point makes a cent less (`Lossy`); `Splits` = 500 pays a refund back in
  a transaction of five dollars and one of the rest. The six configurations are
  the hat as shipped, three deployments of it, and two whose platforms serve
  nothing of what most tools ask. Of the lookups that tell nothing of an order's
  status, three stand for all (`Offered`).
* `chat_service`: a deployment names the kinds of its requests, their number
  (`load`), the clock's end (`until`) and the restarts, as each question concerns
  one part: keys need a revoking request, one that comes before and one after, a
  turn on the WebSocket beside them, and a window of two requests over a minute of
  two ticks (`Rpm`, `Minute`); outcomes need the turn and two reports; memory and
  messages two turns that share the connection and the client. `Found` = 1 and one
  extraction of two entities and an edge have every kind of item, with an item
  after each; `Attempts` = 2 posts twice. One restart comes between any two steps.

`CHECK_DEADLOCK FALSE` is set where the bounds end the exploration, or the panel
run ends; the hat runs never stop and are checked for deadlock.

### Fairness

Only what the event loop owes. A task whose await has returned or raised goes on:
weak fairness per task of its resumption (`Proceed`, `Resumes`, `Proceeds`). LLM,
MCP and database calls have timeouts, so their awaits end. Nobody must send a
message, begin an equip, start a call or switch a hat. An evaluator answers or
fails (`WF` of both together: failing for ever is not required nor excluded).
`TurnEnds` holds in spite of equips under way; `CallEnds` in spite of
reconnections nested in retries; `EquipEnds` in spite of clients that change
under the iteration - the mutant that waits instead of raising loses it.
`webhooks`, `consequence_cache`, `commerce` and `chat_service` are checked for
safety only: nobody must make a call, and what a database or a platform does not
answer ends by timeouts that are part of `McpClient`.

## Proofs

TLAPS proves, for every value of the constants that satisfies the named
assumptions (`HatAssumption`, `PanelAssumption`, `LoopAssumption`,
`CacheAssumption`, `McpAssumption`, `WebhookAssumption`, `AccessAssumption`,
`MemoryAssumption`, `CommunicationAssumption`, `ChatAssumption`,
`NewKeysAssumption`, `CommerceAssumption`, `SeedAssumption`; TLC evaluates each of
them):

| Theorem | Of | Argument |
|---|---|---|
| `HatTypeCorrect`, `ActiveHatServes`, `RouterNeedsHat` | `HatSpec` | `Sound` of the shared record is handed from each synchronous part of an equip to the next. It adds that clients are finitely many (they are counted) and that an awaiting equip has a hat |
| `HatsDoNotOverlap`, `ActiveHatStaysWhole`, `ClientsAreClosed`, `DeploymentIsRegistry` | `DisciplineSpec` | `DisciplineInv`: while callers keep the discipline the shared record is `Whole` - the tools, the router and the client of the active hat and no others - and an equip that awaits is `Alone`: no other does, its hat builds, no hat is active while it connects, and nobody has taken its services. Each step of a deployment is one of the registry or of the flag |
| `PanelTypeCorrect`, `FloorsBoundVerdict`, `VetoIsFinal`, `SocialEngineeringIsRed`, `LoneDissenterIsHeard`, `WorseEvidenceWeighs` | `EvaluationPanel` | `PanelIInv`: each result is what its evaluator makes of the raw answer. The rest is arithmetic on the score rules and the cardinality of the severe results and of the disagreeing pairs. The last compares two runs that differ in one score: the weighted sum falls with it, the severe results and the veto only gain, and the bump for disagreement is the one thing a worse score can take away, so the verdict is at most one level milder |
| `LoopTypeCorrect`, `ClearedBeforeActing`, `EscalationIsOrange`, `ActsOnce`, `TriggerDisarms` | `AgentLoop` | `IInv`. The properties speak of past acts; the invariant adds what a turn carries at each await (`TurnOK`: its floor is that of the conversation it heard, at "execute" its verdict is GREEN and its floors allow it) and that a turn that acted is past its calls (`ActOK`). The first section supplies that a matching trigger yields a floor, and that filtering invents no tool |
| `FlooredToolsKeepStill` | `AgentLoop`, with `MaxSwitches = 0` | `SteadyInv`: without switches only the tools of the default hat are ever registered, and the floor weighed with a candidate is that of the tool that acts. With a switch it is false, as `loop_floored` shows |
| `LoopKeepsPromise` | `AgentLoop` | refinement: initial states map to initial states, and each step to `Open`, `Decide`, `Call`, `Close` or a stutter |
| `CacheTypeCorrect`, `CallsReturnTheirOwnTree`, `SharedTreesAreFresh`, `NoTreeOutlivesItsHat` | `ConsequenceCache` | `CacheInv`: each cached tree was answered to the call that generated it, at the time and under the hat it carries; a call under way knows the hat of its engine. Steps leave returned calls and the hats of engines alone (`Settled`), so one lemma serves all steps |
| `NoEventTwice`, `LimitsAreKept`, `OnlySignedEvents` | `Webhooks` | `HookInv`: a router remembers each event it let through less than a window ago, with the time of that routing or a later one (`FreshMarks`); its count of an entity's day is the number of notifications it sent about that entity on that day, and none was sent later (`Counted`); the hours of quiet as the gate compares them are those of the interval, past midnight too. The validators installed are always those of the router installed, so the hat that routes an event is the one whose signature was checked |
| `McpTypeCorrect`, `OutcomesTell`, `ToolsStayFound` | `McpClient` | `McpInv`: a call under way has been performed fewer times than attempted, and the client's tools are the server's |
| `WhatIsToldIsTrue`, `CancellationIsFinal`, `ReturnsAreOfKeptOrders` | `Commerce` | `CommerceIInv`: an order cancelled for a call keeps the mark of it in the words of its provider (`MarkedIn`: `cancelled_at` at Shopify, a status that only becomes `refunded` at WooCommerce, the status at the mock), whatever the provider does to it later; a refund told as processed is recorded, with the amount told or, at Shopify, with as much at least (`RefundOK`; `AmountParsing` says what each parser makes of a document), and only pending ones change; a call is after others only when they are over (`AfterOver`). A step leaves all that of other calls (`Grows`), so one lemma serves every step of a call (`CallMoves`), and one every way in which it ends (`TellsMoves`). Only WooCommerce and Shopify serve what is asked of orders, and the mock's returns are of orders it has delivered, which it does not cancel |
| `NotifiedIsPostedHolds`, `OneOutcomeHolds`, `GuardedEndpointsKeepOutHolds`, `RateLimitIsExactHolds`, `MemoryIsWholeHolds` | `ChatService` | A step changes one request, or is a tick or a restart (`Shaped`, `Becomes`); the first part of the module says for each step which fields it changes (`QuietEffect`, `ThinkEffect`, ..., `RestartEffect`). Five invariants then look only at the steps that touch what they speak of. `PostInv`: a request at a server has a tool whose channel the hat has, and a turn that has none yet has sent nothing. `OutcomeInv`: an outcome is that of a report that is over, and what a report was told was so. `KeyInv`: keys are never removed, retagged or active again (`Grows`), a request of a guarded endpoint that works was let in, one with a key revoked before it came is stopped by the record it reads, and a request about to revoke was let in with admin scope for a key of its tenant. `LimitInv`: what is left of a window in the last minute is exactly the requests of this process that passed in it, so its length is their number (a bijection; the requests that have come are finitely many), and limits never change. `MemoryInv`: in what is left of a todo list every item comes after those it rests on, or they are stored; a turn that gives up empties the list |

Only model-checked: all liveness, as the provers have neither fairness nor
ENABLED; and `FlooredToolNeverActs` for the instance with triggers and
conversation, which the theorem above covers for every value without switches. The
theorems hold for every value of the exploration bounds (`MaxTurns`, `MaxCalls`,
...) too.

The rate limiter's list of times is modelled as the set of admissions,
`<<request, time>>`: its length is all the code uses, and no request is admitted
twice.

## Where code and documents differ

Three are shown by the violation runs above (`findings` in `PROJECT.json`). Others
met while modelling, for which no run is kept:

* `decisions/ADR-010:18` has no overlap of hats; concurrent equips overlap too.
* `risk_classifier.py:58` and `decisions/ADR-008:16` bump the tier when two
  evaluators disagree; the code wants two disagreeing pairs.
* `loop.py:790`: an empty proposal is GREEN whatever its floor, against
  `escalation_gate.py:4`.
* `loop.py:480`: when the top candidate is defensive, the situation is evaluated
  under the trigger's floor alone; the floors of other candidates are dropped
  (`decisions/ADR-031:22`).
* `api/routes.py:114`: a turn that raises after its tool has acted leaves no
  record, nor does a webhook's turn, nor a turn on the WebSocket whose answer cannot
  be sent, as `:181-273` sends it before it records (`decisions/ADR-011:12`).
* `api/routes.py:178`: the WebSocket /ws/chat depends on no key, and no request
  limit, though `decisions/ADR-027:27,58` has all endpoints but `/health` and
  `/docs` require one and lists it under the scope "chat": with auth enabled
  whoever connects has turns of the pipeline, with a key that was revoked or none.
  The endpoints that list hats and tools, those of webhooks and those of the audit
  ask for none either.
* `webhooks/router.py:63`: every equip installs a router with an empty `_seen`,
  so a redelivery within the window is processed again (`decisions/ADR-025:81`).
* `webhooks/router.py:226` counts notifications by the id of the event, which for
  an order's event is the order, and `:206` looks the address up by it: the limit
  that `decisions/ADR-028:48` and the key `max_daily_per_customer` call one per
  customer is one per order, so a customer with two orders may be sent twice as
  many; and an order and a customer that have the same id share a count.
* Webhook failures are swallowed and answered 200, and are not in the audit
  trail (`decisions/ADR-025:79`).
* `notifications/gate.py:23`: the default limit is 10, documented as 3; counts
  start anew with each equip; notifications in quiet hours are dropped, not
  queued (`decisions/ADR-028:48-50`).
* `consequence.py`: the cache never evicts, though `decisions/ADR-033:18` calls
  it LRU; `clear_cache` (`:189`) is never called, as an equip builds a new
  engine; between an unequip and the end of the equip the default lifetime
  replaces a shorter one of the tool.
* `decisions/ADR-010:14`: an equip that fails after registering tools leaves them
  for the next hat, whose equip has nothing to take off. The clients of
  `mcp_communication` are not closed when the hat is taken off.
* `services/mcp/adapter.py:33` catches nothing, so MCP errors reach the pipeline
  (`decisions/ADR-026:75`). Requests that are not idempotent are repeated after
  timeouts, up to `max_retries` times, and an attempt after `close` opens an HTTP
  client that nobody closes.
* `hats/customer-service/tools/compensation.py:98,145` limit refunds to $50 and
  $100 without supervisor, and `constraints.json` discounts to 20 percent and
  replacements to one per order; these are text for the LLM and enforced by no code.
  Each refund is checked against the order's total alone, and the mock records
  none, so the refunds of an order can add up to more than was paid.
* A refund tool reports success whatever the refund's status, "failed" included
  (`tools/compensation.py`), and a Stripe refund that is pending is told as failed
  (`services/mcp/stripe_mapping.py`).
* `stripe_mapping.py:253` asks for `int(amount * 100)` cents: 1998 for 19.99. The
  tool tells the amount that was refunded, so what it tells is so.
* `tools/orders.py:131` says that a cancellation "Only works for unshipped
  orders"; at WooCommerce a completed order is cancelled as well. When the answer
  to such a cancellation is lost and staff refund the order before the repeat, the
  cancellation is reported as a failure.
* The message of a cancellation announces a refund that no code makes.
* The mock changes the address of an order that is processing, against
  `hats/customer-service/constraints.json:14` ("pending or confirmed status").
* `services/mcp/shipping_service.py:26` passes `new_address`, while
  `shipstation_mapping.py:187` takes `address`: changing an address at ShipStation
  raises TypeError before any request is made. Stripe's `generate_coupon` is not
  called as it is mapped either (`stripe_mapping.py:271`), but no tool calls it.
* `shopify_mapping.py:226-230` tells a refund by its first transaction, or as 0.0
  when the answer has none, and "processed" if it has an id: a refund that goes back
  in two transactions is told short.
* Order ids are normalized by the tools of `tools/orders.py` only, so an id without
  prefix is found by `cancel_order` and not by `initiate_return`.
* `memory/surrealdb.py`: edges relate `entity:{name}` while entities are stored
  under ids of their own; a statement that fails in an answer is not noticed; an
  entity is always created, though `memory/extractor.py` speaks of updating; a
  connection that failed half way is used until the process is restarted.
* `auth/keys.py`: an empty list of scopes is taken for no list, so that key has
  "chat" and "admin"; a key may be created for any tenant. The scopes for webhooks
  and audit, `Retry-After` and the tenant of a session that `decisions/ADR-027`
  names are not there.
* `services/mcp/communication_service.py:122`: an answer whose JSON is no object
  raises outside the `try` around the call, so a message that may have been posted
  ends the turn with an error.
* `services/mock/communication.py`: an escalation issues a ticket whether or not
  anybody could be told.

## What is not modelled, and why

LLM answers, prompts, rendering, the evaluation harness and the scripts are text
and I/O. Keyword matching, placeholder spelling and parameter shapes are
abstracted to the sets they decide. The measures of `tree_analysis.py` are pure
functions that only tests call. `hats/customer-service/backends/` is a stand-alone
copy of mock data and services that no code of `sophia` imports. Of the mappings,
what is copied without a decision is left out: items, names, addresses, dates,
products. The list of processed webhook events is only read by an endpoint. The
notifiers send one message and return, and are a call that returns or raises.
`recall_similar`, `recall_by_timerange` and `get_entity` of the memory providers
and the six service methods that no tool calls have no action.

### Limits of what is shown

* `NoOverlap`, `ActiveHatIsWhole` and `NoLeakedClient` hold while callers equip
  one at a time hats that load and build. Nothing in the code makes callers do so,
  and without that discipline all three fail: they say what sequential equips
  leave behind, and do not catch concurrent equips, equips that fail half way, or
  clients that change under the iteration. What holds regardless is
  `ActiveHatHasItsTools`, `NoOrphanRouter` and `EquipEnds`.
* `FlooredToolNeverActs` is checked and proved without hat switches. That a switch
  during a turn defeats it is shown by `loop_floored`.
* `DuplicatesDropped` and `NotificationsRespectLimits` are of one router; an equip
  begins with another.
* `ToldIsTrue` takes the platforms at their word: the answer to a refund is one of
  `RefundDocuments`, with the amount that the platform recorded. An answer that
  tells another amount would be told to the customer as it is.

Weighted scores are exact hundredths where the code computes floating point, so a
sum that lands exactly on a threshold may round differently in the code.

## What is left

1. `Webhooks` composed with `AgentLoop`: a redelivery after an equip that triggers
   a second turn, with its effects.
2. `Commerce` over `McpClient` by refinement: today the bound on attempts and what
   a lost request may have done are taken from the properties proved of `McpClient`.
