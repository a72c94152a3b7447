------------------------------ MODULE ChatService ------------------------------
(***************************************************************************)
(* Concurrent requests to the HTTP service: a chat turn, by POST /chat or  *)
(* over the WebSocket, the management of keys, and reports on a decision,  *)
(* from their authentication to their answer, with restarts of the         *)
(* process.  Composes Access, Memory, Communication and Audit.             *)
(*                                                                         *)
(* Of a turn, which AgentLoop models by itself, what touches the other     *)
(* components is left: recall, one tool, the response, the extraction and  *)
(* the record.  Each step is what one request does between two awaits.     *)
(***************************************************************************)
EXTENDS Access, Memory, Communication, Audit

CONSTANTS
    Requests,
    Deployments,     \* settings and hat: auth_enabled, the keys in the database, the memory
                     \* and communication providers, the hat's tools, policy and clients;
                     \* bounds: the kinds and number of requests, the clock, restarts
    NewKeys          \* <<tenant, scopes, rate_limit_rpm>>: what create_key is asked for

ASSUME ChatAssumption ==
    \A d \in Deployments :
        /\ \A id \in DOMAIN d.keys :
               /\ DOMAIN d.keys[id] = {"tenant", "scopes", "limit", "active"}
               /\ d.keys[id].limit \in Int
        /\ d.tools \subseteq DOMAIN RoleOf

ASSUME NewKeysAssumption == \A n \in NewKeys : n[3] \in Int

VARIABLES deployment, restarts, requests

chatVars == <<deployment, restarts, requests, accessVars, memoryVars,
              communicationVars, auditVars>>

Scope == [chat |-> "chat", create |-> "admin", revoke |-> "admin"]

NoRequest == [stage |-> "new", kind |-> "none", id |-> Bootstrap, target |-> Bootstrap,
              read |-> "unread", check |-> "none", at |-> 0, run |-> 0, revoked |-> {},
              todo |-> <<>>, then |-> "over", tool |-> "none", sent |-> FALSE,
              extracted |-> <<0, 0>>, told |-> 0]

\* A process with authentication starts with a key at least.
Started(stored_keys) == IF deployment.auth THEN Bootstrapped(stored_keys) ELSE stored_keys

ChatInit ==
    /\ deployment \in Deployments /\ restarts = 0
    /\ requests = [r \in Requests |-> NoRequest]
    /\ keys = Started(deployment.keys) /\ windows = [id \in Keys |-> {}] /\ now = 0
    /\ db = "none" /\ stored = {}
    /\ connected = {} /\ posts = {}
    /\ decisions = {} /\ outcomes = {} /\ feedback = {}

At(r, stage) == requests[r].stage = stage

\* Request r goes on as k, or is answered.
Goes(r, k) == requests' = [requests EXCEPT ![r] = k]
Awaits(r, k, stage) == Goes(r, [k EXCEPT !.stage = stage])
Tells(r, k, status) == Goes(r, [k EXCEPT !.stage = "over", !.told = status])

-----------------------------------------------------------------------------
(* Memory, as a turn uses it.                                              *)

\* r asks for the items of its todo list; with nothing to ask it goes on.
MemoryCall(r, k) ==
    /\ Connecting
    /\ Awaits(r, k, IF Opens THEN "connecting" ELSE "asking")
    /\ UNCHANGED stored

ConnectReturns(r) ==
    /\ At(r, "connecting")
    /\ \/ Connected /\ Awaits(r, requests[r], "asking")
       \/ UNCHANGED db /\ Awaits(r, [requests[r] EXCEPT !.todo = <<>>], requests[r].then)
    /\ UNCHANGED <<deployment, restarts, stored, accessVars, communicationVars, auditVars>>

\* Mutant: an item that cannot be stored is left out, and the next one tried.
AskReturnsOrSkips(r) ==
    /\ At(r, "asking")
    /\ LET k == requests[r] IN
          /\ Stores(r, Head(k.todo)) \/ UNCHANGED stored
          /\ Awaits(r, [k EXCEPT !.todo = Tail(@)],
                    IF Len(k.todo) = 1 THEN k.then ELSE "asking")
    /\ UNCHANGED <<deployment, restarts, db, accessVars, communicationVars, auditVars>>

\* An item is answered - an edge whose statement failed as well - or it raises,
\* done or not, and the turn goes on without the rest.
AskReturns(r) ==
    /\ At(r, "asking")
    /\ LET k == requests[r] IN
          \/ /\ \/ Stores(r, Head(k.todo))
                \/ Head(k.todo)[1] = "relationship" /\ db = "ready" /\ UNCHANGED stored
             /\ Awaits(r, [k EXCEPT !.todo = Tail(@)],
                       IF Len(k.todo) = 1 THEN k.then ELSE "asking")
          \/ /\ Stores(r, Head(k.todo)) \/ UNCHANGED stored
             /\ Awaits(r, [k EXCEPT !.todo = <<>>], k.then)
    /\ UNCHANGED <<deployment, restarts, db, accessVars, communicationVars, auditVars>>

-----------------------------------------------------------------------------
(* Arrival and authentication.                                             *)

\* A turn begins with the recall; the in-memory provider answers at once.
BeginTurn(r, k) ==
    \/ /\ deployment.memory = "surrealdb"
       /\ \E n \in 0..Found :
             MemoryCall(r, [k EXCEPT !.todo = Recall(n), !.then = "thinking"])
    \/ /\ deployment.memory = "mock"
       /\ Awaits(r, k, "thinking")
       /\ UNCHANGED memoryVars

\* Turns come by POST /chat and over the WebSocket /ws/chat, each message of which
\* is a request of its own.
Turns == {"chat", "socket"}

\* A key is required for the endpoints of keys, and for POST /chat if the settings
\* say so; the WebSocket asks for none, whatever they say.
Guarded(kind) == kind \in {"create", "revoke"} \/ (kind = "chat" /\ deployment.auth)

Load == Cardinality({r \in Requests : requests[r].stage # "new"})

Targets(kind) == CASE kind = "revoke"                 -> Keys
                   [] kind \in {"outcome", "feedback"} -> Requests
                   [] OTHER                           -> {Bootstrap}

Receive(r) ==
    /\ At(r, "new")
    /\ Load < deployment.load
    /\ \E kind \in deployment.kinds :
       \E id \in IF Guarded(kind) THEN Keys ELSE {Bootstrap}, target \in Targets(kind) :
          LET k == [NoRequest EXCEPT !.kind = kind, !.id = id, !.target = target,
                       !.run = restarts,
                       !.revoked = {i \in DOMAIN keys : ~keys[i].active}]
          IN  \/ /\ Guarded(kind)
                 /\ \/ Awaits(r, k, "lookup")
                    \/ Tells(r, k, 401)           \* no key is sent
                 /\ UNCHANGED memoryVars
              \/ kind \in Turns /\ ~Guarded(kind) /\ BeginTurn(r, k)
              \/ /\ kind \in {"outcome", "feedback"}
                 /\ Awaits(r, k, "reading")
                 /\ UNCHANGED memoryVars
    /\ UNCHANGED <<deployment, restarts, accessVars, communicationVars, auditVars>>

LookupReads(r) ==
    /\ At(r, "lookup")
    /\ \/ Awaits(r, [requests[r] EXCEPT !.read = Looked(requests[r].id)], "authenticating")
       \/ Tells(r, requests[r], 500)
    /\ UNCHANGED <<deployment, restarts, accessVars, memoryVars, communicationVars, auditVars>>

\* The record that was read decides, whatever has become of the key.
Authenticate(r) ==
    /\ At(r, "authenticating")
    /\ LET k      == requests[r]
           status == Admission(k.id, k.read, Scope[k.kind])
           c      == [k EXCEPT !.at = now,
                               !.check = CASE status = 401 -> "none"
                                           [] status = 429 -> "limited"
                                           [] OTHER        -> "passed"]
       IN  /\ IF status = 401 THEN UNCHANGED windows ELSE Counts(k.id, r)
           /\ \/ status # 200 /\ Tells(r, c, status) /\ UNCHANGED memoryVars
              \/ status = 200 /\ k.kind = "chat" /\ BeginTurn(r, c)
              \/ /\ status = 200 /\ k.kind # "chat"
                 /\ Awaits(r, c, IF k.kind = "create" THEN "creating" ELSE "selecting")
                 /\ UNCHANGED memoryVars
    /\ UNCHANGED <<deployment, restarts, keys, now, communicationVars, auditVars>>

-----------------------------------------------------------------------------
(* The endpoints of keys.                                                  *)

CreateReturns(r) ==
    /\ At(r, "creating")
    /\ \/ \E id \in Keys \ DOMAIN keys, n \in NewKeys, status \in {200, 500} :
             Creates(id, n[1], n[2], n[3]) /\ Tells(r, requests[r], status)
       \/ UNCHANGED keys /\ Tells(r, requests[r], 500)
    /\ UNCHANGED <<deployment, restarts, windows, now, memoryVars, communicationVars,
                   auditVars>>

\* Mutant: the key is looked up by its id alone.
SelectAnyTenant(r) ==
    /\ At(r, "selecting")
    /\ LET k == requests[r] IN
          \/ k.target \in DOMAIN keys /\ Awaits(r, k, "updating")
          \/ k.target \notin DOMAIN keys /\ Tells(r, k, 404)
          \/ Tells(r, k, 500)
    /\ UNCHANGED <<deployment, restarts, accessVars, memoryVars, communicationVars, auditVars>>

SelectReturns(r) ==
    /\ At(r, "selecting")
    /\ LET k == requests[r] IN
          \/ k.target \in Revocable(keys[k.id].tenant) /\ Awaits(r, k, "updating")
          \/ k.target \notin Revocable(keys[k.id].tenant) /\ Tells(r, k, 404)
          \/ Tells(r, k, 500)
    /\ UNCHANGED <<deployment, restarts, accessVars, memoryVars, communicationVars, auditVars>>

UpdateReturns(r) ==
    /\ At(r, "updating")
    /\ LET k == requests[r] IN
          \/ \E status \in {200, 500} : Revokes(k.target) /\ Tells(r, k, status)
          \/ UNCHANGED keys /\ Tells(r, k, 500)
    /\ UNCHANGED <<deployment, restarts, windows, now, memoryVars, communicationVars,
                   auditVars>>

-----------------------------------------------------------------------------
(* A turn.                                                                 *)

Client(k) == deployment.policy[RoleOf[k.tool]]

Responds(r, k, sent) == Awaits(r, [k EXCEPT !.sent = sent], "responding")

\* A tool that writes to a role; escalate_to_human tells nobody through the mock.
Sends(r, k) ==
    LET route == Route(deployment.policy, deployment.clients, RoleOf[k.tool])
    IN  \/ deployment.comms = "mock" /\ Responds(r, k, k.tool # "escalate_to_human")
        \/ deployment.comms = "mcp" /\ route = "fails" /\ Responds(r, k, FALSE)
        \/ deployment.comms = "mcp" /\ route = "raises" /\ Tells(r, k, 500)
        \/ deployment.comms = "mcp" /\ route = "sends"
              /\ Awaits(r, k, IF Client(k) \in connected THEN "posting" ELSE "dialling")

\* The pipeline up to its tool, which may be one that writes to nobody.
Think(r) ==
    /\ At(r, "thinking")
    /\ \/ \E tool \in deployment.tools : Sends(r, [requests[r] EXCEPT !.tool = tool])
       \/ Awaits(r, requests[r], "responding")
       \/ Tells(r, requests[r], 500)
    /\ UNCHANGED <<deployment, restarts, accessVars, memoryVars, communicationVars, auditVars>>

\* Two turns may find the client unconnected and both connect it.
DialReturns(r) ==
    /\ At(r, "dialling")
    /\ LET k == requests[r] IN
          \/ connected' = connected \cup {Client(k)} /\ Awaits(r, k, "posting")
          \/ UNCHANGED connected /\ Tells(r, k, 500)
    /\ UNCHANGED <<deployment, restarts, posts, accessVars, memoryVars, auditVars>>

\* The client answers after n postings, or it raises, which the service catches;
\* but an answer whose JSON is no object ends the turn.
PostReturns(r) ==
    /\ At(r, "posting")
    /\ LET k == requests[r] IN
          \E n \in 0..Attempts, answer \in Replies :
             /\ answer = "posted" => n > 0
             /\ answer \in {"refused", "error"} => n < Attempts
             /\ Posts(r, Client(k), n)
             /\ \/ answer # "no_object" /\ Responds(r, k, Accepted(answer))
                \/ answer = "no_object" /\ Tells(r, k, 500)
    /\ UNCHANGED <<deployment, restarts, connected, accessVars, memoryVars, auditVars>>

RespondReturns(r) ==
    /\ At(r, "responding")
    /\ \/ Awaits(r, requests[r], "extracting")
       \/ Tells(r, requests[r], 500)
    /\ UNCHANGED <<deployment, restarts, accessVars, memoryVars, communicationVars, auditVars>>

\* What the LLM extracts is stored; if it cannot be used, nothing is.
ExtractReturns(r) ==
    /\ At(r, "extracting")
    /\ LET k == requests[r] IN
          \/ \E e \in Extractions :
                LET x == [k EXCEPT !.extracted = e, !.then = "auditing",
                                   !.todo = Items(e[1], e[2])]
                IN  \/ deployment.memory = "surrealdb" /\ MemoryCall(r, x)
                    \/ /\ deployment.memory = "mock"
                       /\ StoresAll(r, x.todo)
                       /\ Awaits(r, [x EXCEPT !.todo = <<>>], "auditing")
                       /\ UNCHANGED db
          \/ Awaits(r, k, "auditing") /\ UNCHANGED memoryVars
    /\ UNCHANGED <<deployment, restarts, accessVars, communicationVars, auditVars>>

\* The answer is given whether or not the decision could be stored; on a WebSocket
\* it is given before, and nothing is stored when that fails.
AuditReturns(r) ==
    /\ At(r, "auditing")
    /\ \/ (StoreDecision(r) \/ UNCHANGED decisions) /\ Tells(r, requests[r], 200)
       \/ requests[r].kind = "socket" /\ UNCHANGED decisions /\ Tells(r, requests[r], 500)
    /\ UNCHANGED <<deployment, restarts, outcomes, feedback, accessVars, memoryVars,
                   communicationVars>>

-----------------------------------------------------------------------------
(* Reports on a decision.                                                  *)

ReportReads(r) ==
    /\ At(r, "reading")
    /\ LET k      == requests[r]
           status == IF k.kind = "outcome" THEN OutcomeRead(k.target)
                     ELSE IF k.target \in decisions THEN 0 ELSE 404
       IN  \/ status = 0 /\ Awaits(r, k, "reporting")
           \/ status # 0 /\ Tells(r, k, status)
           \/ Tells(r, k, 500)
    /\ UNCHANGED <<deployment, restarts, accessVars, memoryVars, communicationVars, auditVars>>

ReportReturns(r) ==
    /\ At(r, "reporting")
    /\ LET k == requests[r] IN
          \/ /\ \/ k.kind = "outcome" /\ StoreOutcome(k.target, r) /\ UNCHANGED feedback
                \/ k.kind = "feedback" /\ StoreFeedback(k.target, r) /\ UNCHANGED outcomes
             /\ \E status \in {200, 500} : Tells(r, k, status)
          \/ UNCHANGED <<outcomes, feedback>> /\ Tells(r, k, 500)
    /\ UNCHANGED <<deployment, restarts, decisions, accessVars, memoryVars,
                   communicationVars>>

-----------------------------------------------------------------------------

Tick ==
    /\ now < deployment.until
    /\ now' = now + 1
    /\ UNCHANGED <<deployment, restarts, requests, keys, windows, memoryVars,
                   communicationVars, auditVars>>

\* The process is restarted: requests under way are lost, and what it held in
\* memory with them; the databases and what was posted remain.
Restart ==
    /\ restarts < deployment.restarts
    /\ restarts' = restarts + 1
    /\ requests' = [r \in Requests |->
                       IF requests[r].stage \in {"new", "over"} THEN requests[r]
                       ELSE [requests[r] EXCEPT !.stage = "over", !.todo = <<>>]]
    /\ keys' = Started(keys)
    /\ windows' = [id \in Keys |-> {}]
    /\ db' = "none"
    /\ stored' = IF deployment.memory = "mock" THEN {} ELSE stored
    /\ connected' = {}
    /\ UNCHANGED <<deployment, now, posts, auditVars>>

ChatNext ==
    \/ \E r \in Requests :
          \/ Receive(r)        \/ LookupReads(r)   \/ Authenticate(r)
          \/ ConnectReturns(r) \/ AskReturns(r)
          \/ CreateReturns(r)  \/ SelectReturns(r) \/ UpdateReturns(r)
          \/ Think(r)          \/ DialReturns(r)   \/ PostReturns(r)
          \/ RespondReturns(r) \/ ExtractReturns(r) \/ AuditReturns(r)
          \/ ReportReads(r)    \/ ReportReturns(r)
    \/ Tick
    \/ Restart

ChatSpec == ChatInit /\ [][ChatNext]_chatVars

-----------------------------------------------------------------------------

\* The requests of this process that the rate limiter has let pass with a key
\* in the minute up to t.
PassedWithin(id, t) ==
    {r \in Requests : /\ requests[r].check = "passed"
                      /\ requests[r].run = restarts
                      /\ requests[r].id = id
                      /\ requests[r].at \in (t - Minute + 1)..t}

\* RateLimiter.check: no minute, wherever it begins, has more requests of a key
\* than its limit, and a request is refused only in a minute that has as many
\* (or more, a limit being any number).
\* A restart forgets the requests before it.
RateLimitIsExact ==
    \A r \in Requests :
        LET k == requests[r] IN
        k.run = restarts =>
            /\ k.check = "passed" =>
                   Cardinality(PassedWithin(k.id, k.at)) <= keys[k.id].limit
            /\ k.check = "limited" =>
                   Cardinality(PassedWithin(k.id, k.at)) >= keys[k.id].limit

\* An endpoint that asks for a key works for a request, or answers 200, only once
\* the request was let in, and never lets one in that comes with a key after its
\* revocation, also after a restart; and a key is only ever revoked by an admin of
\* its own tenant.  It says nothing of the WebSocket, which asks for no key.
GuardedEndpointsKeepOut ==
    /\ \A r \in Requests :
          LET k == requests[r] IN
          Guarded(k.kind) =>
              /\ k.stage \notin {"lookup", "authenticating", "over"} \/ k.told = 200
                    => k.check = "passed"
              /\ k.id \in k.revoked => k.check = "none"
    /\ \A id \in DOMAIN keys :
          ~keys[id].active =>
              \/ id \in DOMAIN deployment.keys /\ ~deployment.keys[id].active
              \/ \E r \in Requests : /\ requests[r].kind = "revoke"
                                    /\ requests[r].target = id
                                    /\ requests[r].check = "passed"
                                    /\ keys[requests[r].id].tenant = keys[id].tenant
                                    /\ "admin" \in keys[requests[r].id].scopes

\* Piece i of what an edge of a turn relates: its episode, or its entity i.
Piece(i) == IF i = 0 THEN <<"episode", 0>> ELSE <<"entity", i>>

RestsOn(item, i) == item[1] = "relationship" \/ (item[1] = "entity" /\ i < item[2])

\* Memory never holds an edge of a turn without all its entities and its episode,
\* nor a later entity without the earlier ones, however the connection, the
\* database or the process failed on the way.
MemoryIsWhole ==
    \A s \in stored : \A i \in 0..requests[s[1]].extracted[1] :
        RestsOn(s[2], i) => <<s[1], Piece(i)>> \in stored

\* A message that a tool reports as sent has been posted to the channel that the
\* policy gives the role, and no turn posts anywhere else, nor more often than
\* the client tries.
NotifiedIsPosted ==
    deployment.comms = "mcp" =>
        /\ \A r \in Requests : requests[r].sent => <<r, Client(requests[r]), 1>> \in posts
        /\ \A p \in posts : /\ p[2] = Client(requests[p[1]])
                            /\ p[2] \in deployment.clients
                            /\ p[3] <= Attempts

\* report_outcome reads the decision before it stores an outcome, and others may
\* store theirs in between: a decision keeps one outcome, that of the report that
\* was told so, and who is told that there is one is told the truth.
OneOutcome ==
    /\ \A o \in outcomes, p \in outcomes : o[1] = p[1] => o = p
    /\ \A o \in outcomes : o[1] \in decisions
    /\ \A r \in Requests :
          requests[r].kind = "outcome" =>
              /\ requests[r].told = 200 => <<requests[r].target, r>> \in outcomes
              /\ requests[r].told = 409 => \E q \in Requests \ {r} :
                                              <<requests[r].target, q>> \in outcomes
=============================================================================
