------------------------------- MODULE Webhooks -------------------------------
(***************************************************************************)
(* Webhook ingestion: the HTTP handler receive_webhook, the EventRouter it *)
(* drives and the NotificationGate of that router, while the hat is being  *)
(* switched.  The installed router and the validators are globals that an  *)
(* equip replaces; a request that has begun to execute keeps the router it *)
(* was routed by.  A request gives up control while its body arrives and   *)
(* while the memory, the notifier or the agent loop works for it; what     *)
(* runs between two such awaits is one action.                             *)
(*                                                                         *)
(* Only shopify has a normalizer, so every event that is routed is one of  *)
(* shopify's.  The memory and the agent loop are always configured.  The   *)
(* list of processed events, which only an endpoint reads, is left out.    *)
(***************************************************************************)
EXTENDS Integers, Sequences, FiniteSets

CONSTANTS
    Posts,         \* what a request may carry
    Hats,
    Routes,        \* [Hats -> [Topics -> actions]]: the events block
    Listens,       \* [Hats -> sets of sources]: the sources configured
    SecretHats,    \* hats whose shopify source has a secret in the environment
    NotifierHats,  \* hats with a notification service
    Window,        \* deduplication window
    MaxDaily, QuietStart, QuietEnd,   \* the hat's notification_limits
    DayHours,      \* hours of a day
    NoStamp,       \* the payload carries no timestamp
    MaxRequests, MaxEquips, MaxTime   \* bounds: requests, equips and hours

ASSUME WebhookAssumption ==
    /\ Window \in Nat \ {0} /\ DayHours \in Nat \ {0} /\ MaxDaily \in Nat
    /\ QuietStart \in 0..DayHours - 1 /\ QuietEnd \in 0..DayHours - 1
    /\ MaxRequests \in Nat
    /\ MaxEquips \in Nat /\ MaxTime \in Nat
    /\ SecretHats \subseteq Hats /\ NotifierHats \subseteq Hats
    /\ \A h \in SecretHats : "shopify" \in Listens[h]
    /\ Posts # {}

VARIABLES
    now,         \* the clock, in hours
    routers,     \* every EventRouter built so far
    current,     \* index of the installed one, 0 when none is
    validators,  \* index of the router whose validators are installed
    req          \* per request, where its handler is and what it has done

hookVars == <<now, routers, current, validators, req>>

Never == -1

\* Requests are numbered as they arrive; a redelivery is a request of its own.
Requests == 1..MaxRequests

DayOf(t) == t \div DayHours
HourOf(t) == t % DayHours

\* An event without a timestamp is stamped with the moment it is normalized,
\* which no other event shares.
Key(r, p) == [topic |-> p.topic, entity |-> p.entity, stamp |-> p.stamp,
              moment |-> IF p.stamp = NoStamp THEN r ELSE 0]

Keys == {Key(r, p) : r \in Requests, p \in Posts}
\* The ids of what the events are about: orders, products, customers.
Entities == {p.entity : p \in Posts}

Router(h) == [hat    |-> h,
              seen   |-> {},
              counts |-> [e \in Entities |-> [day |-> 0, sent |-> 0]]]

\* A request that routes no event leaves no trace: it is refused with an error
\* status, or acknowledged with 200.
Idle == [stage |-> "off", post |-> CHOOSE p \in Posts : TRUE, via |-> 0,
         routedAt |-> Never, sentAt |-> Never]

WebhookInit ==
    /\ now = 0
    /\ routers = <<>>
    /\ current = 0 /\ validators = 0
    /\ req = [r \in Requests |-> Idle]

Refused == [Idle EXCEPT !.stage = "refused"]
Acknowledged == [Idle EXCEPT !.stage = "answered"]

Answer(r) == req' = [req EXCEPT ![r].stage = "answered"]

-----------------------------------------------------------------------------
\* Equipping and unequipping a hat (HatRegistry).

Configure(h) ==
    /\ Len(routers) < MaxEquips
    /\ routers' = Append(routers, Router(h))
    /\ current' = Len(routers) + 1
    /\ validators' = Len(routers) + 1
    /\ UNCHANGED <<now, req>>

\* Mutant: the router is reset, the validators stay.
TeardownKeepingValidators ==
    /\ current # 0
    /\ current' = 0
    /\ UNCHANGED <<now, routers, validators, req>>

Teardown ==
    /\ current # 0
    /\ current' = 0
    /\ validators' = 0
    /\ UNCHANGED <<now, routers, req>>

Tick ==
    /\ now < MaxTime
    /\ now' = now + 1
    /\ UNCHANGED <<routers, current, validators, req>>

-----------------------------------------------------------------------------
\* receive_webhook.

Hears(i, source) == i # 0 /\ source \in Listens[routers[i].hat]

\* A request arrives: without a router, or with a source this hat does not
\* know, it is answered at once; otherwise the handler awaits the body.
Receive(r, p) ==
    /\ req[r].stage = "off"
    /\ \A q \in 1..r - 1 : req[q].stage # "off"
    /\ req' = [req EXCEPT
          ![r] = IF Hears(current, p.source)
                 THEN [Idle EXCEPT !.stage = "body", !.post = p]
                 ELSE Refused]   \* 503 or 404
    /\ UNCHANGED <<now, routers, current, validators>>

\* Mutant: the validators are set up once, by the first equip.
BadSignatureForFirstHat(p) ==
    /\ Hears(validators, p.source)
    /\ p.source = "shopify"
    /\ routers[1].hat \in SecretHats
    /\ ~p.signed

\* Only a shopify source with a secret checks signatures.
BadSignature(p) ==
    /\ Hears(validators, p.source)
    /\ p.source = "shopify"
    /\ routers[validators].hat \in SecretHats
    /\ ~p.signed

\* The handler goes on to route the event: the signature is right (401), the
\* body is JSON (400) and an object (500), its source has a normalizer (400), and
\* the router has not been torn down since (500).
Accepted(p) ==
    /\ ~BadSignature(p)
    /\ p.shape = "object"
    /\ p.source = "shopify"
    /\ current # 0

\* Or the client goes away before its body is complete.
Refuse(r) ==
    /\ req[r].stage = "body"
    /\ req' = [req EXCEPT ![r] = Refused]
    /\ UNCHANGED <<now, routers, current, validators>>

Young(mark) == now - mark.at < Window

Duplicate(k) == \E m \in routers[current].seen : m.key = k /\ Young(m)

\* The event is acknowledged and nothing else is done.
DropDuplicate(r) ==
    /\ req[r].stage = "body"
    /\ Accepted(req[r].post)
    /\ Duplicate(Key(r, req[r].post))
    /\ req' = [req EXCEPT ![r] = Acknowledged]
    /\ UNCHANGED <<now, routers, current, validators>>

\* Mutant: an entry already there, however old, is left as it is.
MarkedOnce(seen, k) ==
    {m \in seen \cup (IF \E n \in seen : n.key = k THEN {} ELSE {[key |-> k, at |-> now]}) :
        Young(m)}

\* _seen after an event: its entry is new, the old entries are purged.
Marked(seen, k) == {m \in seen : m.key # k /\ Young(m)} \cup {[key |-> k, at |-> now]}

\* What a hat's events block says of a topic: by default memory_update, nothing
\* when the hat does not listen to shopify at all.
ActionFor(h, topic) ==
    IF "shopify" \notin Listens[h] THEN "ignore"
    ELSE IF Routes[h][topic] = "unlisted" THEN "memory_update"
    ELSE Routes[h][topic]

\* The event is marked as seen and its execution begun by the router
\* that is installed now, all of it without an await.
RouteEvent(r) ==
    LET p == req[r].post
        k == Key(r, p)
        a == ActionFor(routers[current].hat, p.topic)
    IN  /\ req[r].stage = "body"
        /\ Accepted(p)
        /\ ~Duplicate(k)
        /\ routers' = [routers EXCEPT ![current].seen = Marked(@, k)]
        /\ req' = [req EXCEPT ![r].routedAt = now, ![r].via = current,
                              ![r].stage = CASE a = "ignore" -> "answered"
                                             [] a = "trigger_pipeline" -> "pipeline"
                                             [] OTHER -> "store"]
        /\ UNCHANGED <<now, current, validators>>

-----------------------------------------------------------------------------
\* EventRouter.execute, on the router the request holds.

Notifies(h, topic) == /\ ActionFor(h, topic) = "memory_update_and_notify"
                      /\ h \in NotifierHats

\* The memory has stored the entity or raised, which is swallowed; a hat that
\* notifies goes on to look a customer up under the id of the entity,
\* whatever the entity is.
StoreReturns(r) ==
    /\ req[r].stage = "store"
    /\ IF Notifies(routers[req[r].via].hat, req[r].post.topic)
       THEN req' = [req EXCEPT ![r].stage = "lookup"]
       ELSE Answer(r)
    /\ UNCHANGED <<now, routers, current, validators>>

InQuietHours ==
    IF QuietStart > QuietEnd
    THEN HourOf(now) >= QuietStart \/ HourOf(now) < QuietEnd
    ELSE QuietStart <= HourOf(now) /\ HourOf(now) < QuietEnd

Count(i, e) ==
    LET n == routers[i].counts[e]
    IN  IF n.day = DayOf(now) THEN n.sent ELSE 0

\* NotificationGate.check: it counts what it lets through.  The router hands it
\* the id of the entity where it takes a customer.
Allowed(i, e) == ~InQuietHours /\ Count(i, e) < MaxDaily

\* Mutant: a gate is built for every notification.
NotifyUncounted(r) ==
    /\ req[r].stage = "lookup"
    /\ Allowed(req[r].via, req[r].post.entity)
    /\ req' = [req EXCEPT ![r].stage = "send", ![r].sentAt = now]
    /\ UNCHANGED <<now, routers, current, validators>>

\* The lookup returns, the gate lets the notification through and the notifier
\* is called.
Notify(r) ==
    LET i == req[r].via
        e == req[r].post.entity
    IN  /\ req[r].stage = "lookup"
        /\ Allowed(i, e)
        /\ routers' = [routers EXCEPT ![i].counts[e] =
                          [day |-> DayOf(now), sent |-> Count(i, e) + 1]]
        /\ req' = [req EXCEPT ![r].stage = "send", ![r].sentAt = now]
        /\ UNCHANGED <<now, current, validators>>

\* The gate blocks the notification, which is dropped.
Blocked(r) ==
    /\ req[r].stage = "lookup"
    /\ ~Allowed(req[r].via, req[r].post.entity)
    /\ Answer(r)
    /\ UNCHANGED <<now, routers, current, validators>>

\* The notifier or the agent loop has returned or raised.
WorkReturns(r) ==
    /\ req[r].stage \in {"send", "pipeline"}
    /\ Answer(r)
    /\ UNCHANGED <<now, routers, current, validators>>

\* The handler of r goes on.
Proceeds(r) == \/ Refuse(r) \/ DropDuplicate(r) \/ RouteEvent(r)
               \/ StoreReturns(r) \/ Notify(r) \/ Blocked(r) \/ WorkReturns(r)

WebhookNext == \/ \E h \in Hats : Configure(h)
               \/ Teardown
               \/ Tick
               \/ \E r \in Requests : \/ \E p \in Posts : Receive(r, p)
                                      \/ Proceeds(r)

WebhookSpec == WebhookInit /\ [][WebhookNext]_hookVars
-----------------------------------------------------------------------------

Stages == {"off", "body", "store", "lookup", "send", "pipeline",
           "answered", "refused"}
Marks == [key : Keys, at : Nat]
RouterRecords == [hat    : Hats,
                  seen   : SUBSET Marks,
                  counts : [Entities -> [day : Nat, sent : Nat]]]
RequestRecords == [stage : Stages, post : Posts, via : Nat,
                   routedAt : Nat \cup {Never}, sentAt : Nat \cup {Never}]

\* Every variable has its type, an index names a router that was built, and the
\* validators are those of the installed router.
WebhookTypeOK ==
    /\ now \in Nat
    /\ routers \in Seq(RouterRecords)
    /\ current \in 0..Len(routers) /\ validators = current
    /\ req \in [Requests -> RequestRecords]
    /\ \A r \in Requests : req[r].via \in 0..Len(routers)

Routed(r) == req[r].routedAt # Never

\* Deduplication (ADR-025): two requests that one router let through with the
\* same key were routed a whole window apart, whatever was redelivered, and
\* however often, in between.  Across routers it does not hold: an equip, also
\* of the same hat, begins with an empty _seen.
DuplicatesDropped ==
    \A r, s \in Requests :
        /\ r # s /\ Routed(r) /\ Routed(s)
        /\ req[r].via = req[s].via
        /\ Key(r, req[r].post) = Key(s, req[s].post)
        => \/ req[r].routedAt - req[s].routedAt >= Window
           \/ req[s].routedAt - req[r].routedAt >= Window

\* Whatever handlers of one router run at the same time, no more than the
\* daily limit is sent by it about one entity.  It is no limit per customer, as the
\* config calls it: two orders of one customer are counted apart.
WithinDailyLimit ==
    \A i \in 1..Len(routers), e \in Entities, d \in 0..DayOf(now) :
        Cardinality({r \in Requests : /\ req[r].via = i
                                      /\ req[r].post.entity = e
                                      /\ req[r].sentAt # Never
                                      /\ DayOf(req[r].sentAt) = d}) <= MaxDaily

\* The quiet hours run from their start up to their end, past midnight if the
\* end is the earlier hour.
QuietHours ==
    {(QuietStart + i) % DayHours : i \in 0..((QuietEnd - QuietStart) % DayHours) - 1}

\* What the gate keeps to: a router sends no more than the daily limit about one
\* entity, and nothing during the quiet hours, however long the lookup before the
\* sending took.
NotificationsRespectLimits ==
    /\ WithinDailyLimit
    /\ \A r \in Requests : req[r].sentAt # Never =>
                               HourOf(req[r].sentAt) \notin QuietHours

\* A hat that has a signing secret never processes an unsigned event, whatever
\* hats were equipped while the body of the request arrived.
SignedOnly ==
    \A r \in Requests :
        Routed(r) /\ routers[req[r].via].hat \in SecretHats => req[r].post.signed
=============================================================================
