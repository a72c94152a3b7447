--------------------------- MODULE ChatServiceProofs ---------------------------
(***************************************************************************)
(* One outcome for a decision, revoked keys that stay out, an exact rate   *)
(* limit, messages that were posted when a tool says so, and a memory that *)
(* is whole, for any requests, keys and deployments.                       *)
(*                                                                         *)
(* Each step changes one request, or is a tick or a restart.  The first    *)
(* part says what the steps do to a request; each of the invariants then    *)
(* looks only at the steps that touch what it speaks of.                   *)
(***************************************************************************)
EXTENDS ChatService, TLAPS, SequenceTheorems, FiniteSetTheorems

Fields == {"stage", "kind", "id", "target", "read", "check", "at", "run", "revoked",
           "todo", "then", "tool", "sent", "extracted", "told"}

\* j and k are requests that differ in the fields F at most.
Alike(j, k, F) == /\ DOMAIN j = Fields /\ DOMAIN k = Fields
                  /\ \A f \in Fields \ F : j[f] = k[f]

\* Where the memory calls of a request lead.
Led(k) == k.stage \in {"connecting", "asking"} => k.then \in {"thinking", "auditing"}

Shaped == /\ DOMAIN requests = Requests
          /\ deployment \in Deployments
          /\ \A r \in Requests : /\ DOMAIN requests[r] = Fields
                                 /\ Led(requests[r])
                                 /\ requests[r].stage = "new" => requests[r] = NoRequest

\* Only the request r changes, to k.
Becomes(r, k) == /\ DOMAIN requests' = Requests
                 /\ requests'[r] = k
                 /\ \A q \in Requests \ {r} : requests'[q] = requests[q]

LEMMA NoRequestShaped ==
    /\ DOMAIN NoRequest = Fields
    /\ NoRequest.stage = "new" /\ NoRequest.kind = "none" /\ NoRequest.check = "none"
    /\ NoRequest.tool = "none" /\ NoRequest.sent = FALSE
BY DEF NoRequest, Fields

\* A request that goes on is what the step made of it, but for its stage.
LEMMA AwaitsTo ==
    ASSUME Shaped, NEW r \in Requests, NEW k, NEW s, DOMAIN k = Fields, Awaits(r, k, s)
    PROVE  \E j : Becomes(r, j) /\ j.stage = s /\ Alike(j, k, {"stage"})
<1> DEFINE j == [k EXCEPT !.stage = s]
<1>1. Becomes(r, j)
  BY DEF Shaped, Becomes, Goes, Awaits
<1>2. j.stage = s /\ Alike(j, k, {"stage"})
  BY DEF Alike, Fields
<1> QED  BY <1>1, <1>2

\* A request that is answered, likewise.
LEMMA TellsTo ==
    ASSUME Shaped, NEW r \in Requests, NEW k, NEW n, DOMAIN k = Fields, Tells(r, k, n)
    PROVE  \E j : /\ Becomes(r, j) /\ j.stage = "over" /\ j.told = n
                  /\ Alike(j, k, {"stage", "told"})
<1> DEFINE j == [k EXCEPT !.stage = "over", !.told = n]
<1>1. Becomes(r, j)
  BY DEF Shaped, Becomes, Goes, Tells
<1>2. j.stage = "over" /\ j.told = n /\ Alike(j, k, {"stage", "told"})
  BY DEF Alike, Fields
<1> QED  BY <1>1, <1>2

LEMMA OwnFields == Shaped => \A r \in Requests : DOMAIN requests[r] = Fields
BY DEF Shaped

-----------------------------------------------------------------------------
(* The steps of a turn.                                                    *)

TurnStages == {"connecting", "asking", "thinking", "dialling", "posting", "responding",
               "extracting", "auditing"}

\* What a turn changes of its request.
TurnFields == {"stage", "todo", "then", "tool", "sent", "extracted", "told"}

\* The steps that neither choose a tool nor post.
QuietFields == TurnFields \ {"tool", "sent"}

QuietStep(r) == ConnectReturns(r) \/ AskReturns(r) \/ RespondReturns(r)
                \/ ExtractReturns(r) \/ AuditReturns(r)

SendStep(r) == Think(r) \/ DialReturns(r) \/ PostReturns(r)

\* No tool has been chosen yet.
Early(k) == \/ k.stage \in {"new", "lookup", "authenticating", "creating", "selecting",
                            "updating", "reading", "reporting", "thinking"}
            \/ k.stage \in {"connecting", "asking"} /\ k.then = "thinking"

\* What a step leaves alone that is not of the turn.
Apart == /\ deployment' = deployment /\ keys' = keys
         /\ outcomes' = outcomes /\ decisions \subseteq decisions'

\* A quiet step keeps tool and sent, and a request early in its turn was so before.
QuietGoes(r) ==
    \E j : /\ Becomes(r, j) /\ Alike(j, requests[r], QuietFields)
           /\ j.stage \in {"connecting", "asking", "thinking", "extracting", "auditing", "over"}
           /\ Led(j) /\ (Early(j) => Early(requests[r]))

\* A request that is then as in k may go on in stage s by a quiet step of old.
MayGo(old, k, s) ==
    \/ s \in {"extracting", "auditing"}
    \/ s = "thinking" /\ Early(old)
    \/ /\ s \in {"connecting", "asking"} /\ k.then \in {"thinking", "auditing"}
       /\ k.then = "thinking" => Early(old)

\* A step made of r what k says, which changes quiet fields, and r goes on.
LEMMA QuietAwaits ==
    ASSUME Shaped, NEW r \in Requests, NEW k, NEW s,
           Alike(k, requests[r], QuietFields), Awaits(r, k, s), MayGo(requests[r], k, s)
    PROVE  QuietGoes(r)
<1>1. PICK j : Becomes(r, j) /\ j.stage = s /\ Alike(j, k, {"stage"})
  BY AwaitsTo DEF Alike
<1>2. Alike(j, requests[r], QuietFields) /\ j.then = k.then
  BY <1>1 DEF Alike, QuietFields, TurnFields, Fields
<1> QED  BY <1>1, <1>2 DEF QuietGoes, MayGo, Early, Led

LEMMA QuietTells ==
    ASSUME Shaped, NEW r \in Requests, NEW n, Tells(r, requests[r], n)
    PROVE  QuietGoes(r)
<1>1. PICK j : Becomes(r, j) /\ j.stage = "over" /\ Alike(j, requests[r], {"stage", "told"})
  BY TellsTo, OwnFields
<1>2. Alike(j, requests[r], QuietFields)
  BY <1>1 DEF Alike, QuietFields, TurnFields, Fields
<1> QED  BY <1>1, <1>2 DEF QuietGoes, Early, Led

LEMMA SameAlike ==
    ASSUME Shaped, NEW r \in Requests
    PROVE  Alike(requests[r], requests[r], QuietFields)
BY DEF Shaped, Alike

LEMMA TodoAlike ==
    ASSUME Shaped, NEW r \in Requests, NEW todo
    PROVE  LET k == [requests[r] EXCEPT !.todo = todo]
           IN  Alike(k, requests[r], QuietFields) /\ k.then = requests[r].then
BY DEF Shaped, Alike, QuietFields, TurnFields, Fields

\* The steps of a turn that neither choose a tool nor post.
LEMMA QuietEffect ==
    ASSUME Shaped, NEW r \in Requests, QuietStep(r)
    PROVE  QuietGoes(r) /\ Apart /\ posts' = posts /\ requests[r].stage \in TurnStages
<1>1. CASE ConnectReturns(r)
  <2>1. requests[r].stage = "connecting" /\ requests[r].then \in {"thinking", "auditing"}
    BY <1>1 DEF ConnectReturns, At, Shaped, Led
  <2> DEFINE none == [requests[r] EXCEPT !.todo = <<>>]
  <2>2. ASSUME Awaits(r, requests[r], "asking") PROVE QuietGoes(r)
    <3>1. MayGo(requests[r], requests[r], "asking")
      BY <2>1 DEF MayGo, Early
    <3> QED  BY <2>2, <3>1, QuietAwaits, SameAlike
  <2>3. ASSUME Awaits(r, none, requests[r].then) PROVE QuietGoes(r)
    <3>1. Alike(none, requests[r], QuietFields)
      BY TodoAlike
    <3> HIDE DEF none
    <3>2. MayGo(requests[r], none, requests[r].then)
      BY <2>1 DEF MayGo, Early
    <3> QED  BY <2>3, <3>1, <3>2, QuietAwaits
  <2> QED  BY <1>1, <2>1, <2>2, <2>3 DEF ConnectReturns, Apart, accessVars, auditVars,
                                         communicationVars, TurnStages
<1>2. CASE AskReturns(r)
  <2>1. requests[r].stage = "asking" /\ requests[r].then \in {"thinking", "auditing"}
    BY <1>2 DEF AskReturns, At, Shaped, Led
  <2> DEFINE none == [requests[r] EXCEPT !.todo = <<>>]
             tail == [requests[r] EXCEPT !.todo = Tail(@)]
             next == IF Len(requests[r].todo) = 1 THEN requests[r].then ELSE "asking"
  <2>2. ASSUME Awaits(r, tail, next) PROVE QuietGoes(r)
    <3>1. Alike(tail, requests[r], QuietFields) /\ tail.then = requests[r].then
      BY TodoAlike
    <3> HIDE DEF tail
    <3>2. MayGo(requests[r], tail, next)
      BY <2>1, <3>1 DEF MayGo, Early
    <3> HIDE DEF next
    <3> QED  BY <2>2, <3>1, <3>2, QuietAwaits
  <2>3. ASSUME Awaits(r, none, requests[r].then) PROVE QuietGoes(r)
    <3>1. Alike(none, requests[r], QuietFields)
      BY TodoAlike
    <3> HIDE DEF none
    <3>2. MayGo(requests[r], none, requests[r].then)
      BY <2>1 DEF MayGo, Early
    <3> QED  BY <2>3, <3>1, <3>2, QuietAwaits
  <2> QED  BY <1>2, <2>1, <2>2, <2>3 DEF AskReturns, Apart, accessVars, auditVars,
                                         communicationVars, TurnStages
<1>3. CASE RespondReturns(r)
  <2>1. QuietGoes(r)
    BY <1>3, QuietAwaits, QuietTells, SameAlike DEF RespondReturns, MayGo
  <2> QED  BY <1>3, <2>1 DEF RespondReturns, At, Apart, accessVars, auditVars,
                             communicationVars, TurnStages
<1>4. CASE ExtractReturns(r)
  <2>1. ASSUME Awaits(r, requests[r], "auditing") PROVE QuietGoes(r)
    BY <2>1, QuietAwaits, SameAlike DEF MayGo
  <2>2. ASSUME NEW e \in Extractions, NEW s \in {"connecting", "asking"},
               Awaits(r, [requests[r] EXCEPT !.extracted = e, !.then = "auditing",
                                              !.todo = Items(e[1], e[2])], s)
        PROVE  QuietGoes(r)
    <3> DEFINE k == [requests[r] EXCEPT !.extracted = e, !.then = "auditing",
                                        !.todo = Items(e[1], e[2])]
    <3>1. Alike(k, requests[r], QuietFields) /\ k.then = "auditing"
      BY DEF Shaped, Alike, QuietFields, TurnFields, Fields
    <3>2. Awaits(r, k, s)
      BY <2>2
    <3> HIDE DEF k
    <3> QED  BY <3>1, <3>2, QuietAwaits DEF MayGo
  <2>3. ASSUME NEW e \in Extractions,
               Awaits(r, [[requests[r] EXCEPT !.extracted = e, !.then = "auditing",
                                              !.todo = Items(e[1], e[2])]
                           EXCEPT !.todo = <<>>], "auditing")
        PROVE  QuietGoes(r)
    <3> DEFINE x == [requests[r] EXCEPT !.extracted = e, !.then = "auditing",
                                        !.todo = Items(e[1], e[2])]
               k == [x EXCEPT !.todo = <<>>]
    <3>1. Alike(x, requests[r], QuietFields)
      BY DEF Shaped, Alike, QuietFields, TurnFields, Fields
    <3>2. Alike(k, requests[r], QuietFields)
      <4> HIDE DEF x
      <4> QED  BY <3>1 DEF Alike, QuietFields, TurnFields, Fields
    <3>3. Awaits(r, k, "auditing")
      BY <2>3
    <3> HIDE DEF k
    <3> QED  BY <3>2, <3>3, QuietAwaits DEF MayGo
  <2> QED  BY <1>4, <2>1, <2>2, <2>3 DEF ExtractReturns, MemoryCall, At, Apart, accessVars,
                                         auditVars, communicationVars, TurnStages
<1>5. CASE AuditReturns(r)
  <2>1. QuietGoes(r)
    BY <1>5, QuietTells DEF AuditReturns
  <2> QED  BY <1>5, <2>1 DEF AuditReturns, StoreDecision, At, Apart, accessVars, auditVars,
                             communicationVars, TurnStages
<1> QED  BY <1>1, <1>2, <1>3, <1>4, <1>5 DEF QuietStep

\* The steps that choose a tool or post.
SendFields == {"stage", "tool", "sent", "told"}

SendGoes(r) ==
    \E j : /\ Becomes(r, j) /\ Alike(j, requests[r], SendFields)
           /\ j.stage \in {"dialling", "posting", "responding", "over"}

LEMMA RespondsTo ==
    ASSUME Shaped, NEW r \in Requests, NEW k, NEW b, DOMAIN k = Fields, Responds(r, k, b)
    PROVE  \E j : /\ Becomes(r, j) /\ j.stage = "responding" /\ j.sent = b
                  /\ Alike(j, k, {"stage", "sent"})
<1> DEFINE m == [k EXCEPT !.sent = b]
<1>1. m.sent = b /\ Alike(m, k, {"sent"})
  BY DEF Alike, Fields
<1>2. Awaits(r, m, "responding")
  BY DEF Responds
<1> HIDE DEF m
<1>3. PICK j : Becomes(r, j) /\ j.stage = "responding" /\ Alike(j, m, {"stage"})
  BY <1>1, <1>2, AwaitsTo DEF Alike
<1>4. j.sent = b /\ Alike(j, k, {"stage", "sent"})
  BY <1>1, <1>3 DEF Alike, Fields
<1> QED  BY <1>3, <1>4

\* What is known of the tool and the message of request r, that is as in k.
PostOK(r, k, posted) ==
    /\ k.tool \in deployment.tools \cup {"none"}
    /\ Early(k) => k.tool = "none" /\ ~k.sent
    /\ k.stage \in {"dialling", "posting"} =>
           /\ k.tool # "none" /\ ~k.sent
           /\ Client(k) \in deployment.clients
    /\ k.sent => <<r, Client(k), 1>> \in posted

PostInv ==
    deployment.comms = "mcp" =>
        /\ \A r \in Requests : PostOK(r, requests[r], posts)
        /\ \A p \in posts : /\ p[1] \in Requests
                            /\ requests[p[1]].tool # "none"
                            /\ p[2] = Client(requests[p[1]])
                            /\ p[2] \in deployment.clients
                            /\ p[3] <= Attempts

\* What a step of r must show of its message for PostInv to last.
PostsWell(r, j) ==
    deployment.comms = "mcp" =>
        /\ PostOK(r, j, posts')
        /\ requests[r].tool \in {"none", j.tool}
        /\ posts \subseteq posts'
        /\ \A p \in posts' \ posts : /\ p[1] = r /\ j.tool # "none"
                                    /\ p[2] = Client(j)
                                    /\ p[2] \in deployment.clients
                                    /\ p[3] <= Attempts

LEMMA NoTool == "none" \notin DOMAIN RoleOf
BY DEF RoleOf

\* A tool writes to somebody only through a channel that the hat has.
LEMMA ThinkEffect ==
    ASSUME Shaped, NEW r \in Requests, Think(r)
    PROVE  /\ SendGoes(r) /\ Apart /\ requests[r].stage = "thinking"
           /\ PostInv => \E j : Becomes(r, j) /\ PostsWell(r, j)
<1>1. Apart /\ posts' = posts /\ requests[r].stage = "thinking"
  BY DEF Think, At, Apart, accessVars, auditVars, communicationVars
<1>2. PostInv /\ deployment.comms = "mcp" => requests[r].tool = "none" /\ ~requests[r].sent
  BY <1>1 DEF PostInv, PostOK, Early
<1> DEFINE Right(j) == /\ Alike(j, requests[r], SendFields)
                       /\ j.stage \in {"dialling", "posting", "responding", "over"}
                       /\ j.tool \in deployment.tools \cup {requests[r].tool}
                       /\ deployment.comms = "mcp" =>
                              /\ j.sent => requests[r].sent
                              /\ j.stage \in {"dialling", "posting"} =>
                                     /\ j.tool \in deployment.tools
                                     /\ Client(j) \in deployment.clients
<1>3. SUFFICES \E j : Becomes(r, j) /\ Right(j)
  <2>1. PICK j : Becomes(r, j) /\ Right(j)
    BY <1>3
  <2>2. "none" \notin deployment.tools
    BY NoTool, ChatAssumption DEF Shaped
  <2>3. PostInv => PostsWell(r, j)
    BY <1>1, <1>2, <2>1, <2>2 DEF PostsWell, PostOK, Early
  <2> QED  BY <1>1, <2>1, <2>3 DEF SendGoes
<1> DEFINE T(tool) == [requests[r] EXCEPT !.tool = tool]
<1>4. ASSUME NEW tool \in deployment.tools, Sends(r, T(tool))
      PROVE  \E j : Becomes(r, j) /\ Right(j)
  <2> DEFINE k == T(tool)
  <2>1. k.tool = tool /\ Alike(k, requests[r], {"tool"})
    BY DEF Shaped, Alike, Fields
  <2>2. DOMAIN k = Fields
    BY <2>1 DEF Alike
  <2>3. Sends(r, k)
    BY <1>4
  <2> HIDE DEF k
  <2>4. ASSUME NEW b, Responds(r, k, b), deployment.comms = "mcp" => ~b
        PROVE  \E j : Becomes(r, j) /\ Right(j)
    <3>1. PICK j : /\ Becomes(r, j) /\ j.stage = "responding" /\ j.sent = b
                   /\ Alike(j, k, {"stage", "sent"})
      BY <2>2, <2>4, RespondsTo
    <3>2. j.tool = tool /\ Alike(j, requests[r], SendFields)
      BY <2>1, <3>1 DEF Alike, Fields, SendFields
    <3> QED  BY <2>4, <3>1, <3>2
  <2>5. ASSUME Tells(r, k, 500)
        PROVE  \E j : Becomes(r, j) /\ Right(j)
    <3>1. PICK j : Becomes(r, j) /\ j.stage = "over" /\ Alike(j, k, {"stage", "told"})
      BY <2>2, <2>5, TellsTo
    <3>2. /\ j.tool = tool /\ j.sent = requests[r].sent
          /\ Alike(j, requests[r], SendFields)
      BY <2>1, <3>1 DEF Alike, Fields, SendFields
    <3> QED  BY <3>1, <3>2
  <2>6. ASSUME NEW s \in {"dialling", "posting"}, Awaits(r, k, s),
               Route(deployment.policy, deployment.clients, RoleOf[k.tool]) = "sends"
        PROVE  \E j : Becomes(r, j) /\ Right(j)
    <3>1. PICK j : Becomes(r, j) /\ j.stage = s /\ Alike(j, k, {"stage"})
      BY <2>2, <2>6, AwaitsTo
    <3>2. /\ j.tool = tool /\ j.sent = requests[r].sent
          /\ Alike(j, requests[r], SendFields)
      BY <2>1, <3>1 DEF Alike, Fields, SendFields
    <3>3. Client(j) \in deployment.clients
      BY <2>1, <2>6, <3>2 DEF Client, Route
    <3> QED  BY <3>1, <3>2, <3>3
  <2> QED  BY <2>3, <2>4, <2>5, <2>6 DEF Sends
<1>5. ASSUME Awaits(r, requests[r], "responding")
      PROVE  \E j : Becomes(r, j) /\ Right(j)
  <2>1. PICK j : Becomes(r, j) /\ j.stage = "responding" /\ Alike(j, requests[r], {"stage"})
    BY <1>5, AwaitsTo, OwnFields
  <2>2. /\ j.tool = requests[r].tool /\ j.sent = requests[r].sent
        /\ Alike(j, requests[r], SendFields)
    BY <2>1 DEF Alike, Fields, SendFields
  <2> QED  BY <2>1, <2>2
<1>6. ASSUME Tells(r, requests[r], 500)
      PROVE  \E j : Becomes(r, j) /\ Right(j)
  <2>1. PICK j : /\ Becomes(r, j) /\ j.stage = "over"
                 /\ Alike(j, requests[r], {"stage", "told"})
    BY <1>6, TellsTo, OwnFields
  <2>2. /\ j.tool = requests[r].tool /\ j.sent = requests[r].sent
        /\ Alike(j, requests[r], SendFields)
    BY <2>1 DEF Alike, Fields, SendFields
  <2> QED  BY <2>1, <2>2
<1> QED  BY <1>4, <1>5, <1>6 DEF Think

\* A dialled client is of a channel that the hat has: the message goes there.
LEMMA DialEffect ==
    ASSUME Shaped, NEW r \in Requests, DialReturns(r)
    PROVE  /\ SendGoes(r) /\ Apart /\ requests[r].stage = "dialling"
           /\ PostInv => \E j : Becomes(r, j) /\ PostsWell(r, j)
<1>1. Apart /\ posts' = posts /\ requests[r].stage = "dialling"
  BY DEF DialReturns, At, Apart, accessVars, auditVars
<1>2. \E j : /\ Becomes(r, j) /\ Alike(j, requests[r], {"stage", "told"})
             /\ j.stage \in {"posting", "over"}
  <2>1. CASE Awaits(r, requests[r], "posting")
    <3>1. PICK j : Becomes(r, j) /\ j.stage = "posting" /\ Alike(j, requests[r], {"stage"})
      BY <2>1, AwaitsTo, OwnFields
    <3> QED  BY <3>1 DEF Alike
  <2>2. CASE Tells(r, requests[r], 500)
    BY <2>2, TellsTo, OwnFields
  <2> QED  BY <2>1, <2>2 DEF DialReturns
<1>3. PICK j : /\ Becomes(r, j) /\ Alike(j, requests[r], {"stage", "told"})
               /\ j.stage \in {"posting", "over"}
  BY <1>2
<1>4. /\ j.tool = requests[r].tool /\ j.sent = requests[r].sent
      /\ Client(j) = Client(requests[r]) /\ Alike(j, requests[r], SendFields)
  BY <1>3 DEF Alike, Fields, SendFields, Client
<1>5. PostInv => PostsWell(r, j)
  BY <1>1, <1>3, <1>4 DEF PostInv, PostsWell, PostOK, Early, Apart
<1> QED  BY <1>1, <1>3, <1>4, <1>5 DEF SendGoes

\* What is reported as sent has been posted once at least.
LEMMA PostEffect ==
    ASSUME Shaped, NEW r \in Requests, PostReturns(r)
    PROVE  /\ SendGoes(r) /\ Apart /\ requests[r].stage = "posting"
           /\ PostInv => \E j : Becomes(r, j) /\ PostsWell(r, j)
<1>1. Apart /\ requests[r].stage = "posting"
  BY DEF PostReturns, At, Apart, accessVars, auditVars
<1>2. PICK n \in 0..Attempts, answer \in Replies :
          /\ answer = "posted" => n > 0
          /\ Posts(r, Client(requests[r]), n)
          /\ \/ answer # "no_object" /\ Responds(r, requests[r], Accepted(answer))
             \/ answer = "no_object" /\ Tells(r, requests[r], 500)
  BY DEF PostReturns
<1>3. PICK j : /\ Becomes(r, j) /\ j.stage \in {"responding", "over"}
               /\ j.sent => answer = "posted" \/ requests[r].sent
               /\ Alike(j, requests[r], {"stage", "sent", "told"})
  <2>1. CASE Responds(r, requests[r], Accepted(answer))
    <3>1. PICK j : /\ Becomes(r, j) /\ j.stage = "responding" /\ j.sent = Accepted(answer)
                   /\ Alike(j, requests[r], {"stage", "sent"})
      BY <2>1, RespondsTo, OwnFields
    <3>2. j.sent => answer = "posted"
      BY <3>1 DEF Accepted
    <3>3. Alike(j, requests[r], {"stage", "sent", "told"})
      BY <3>1 DEF Alike
    <3> QED  BY <3>1, <3>2, <3>3
  <2>2. CASE Tells(r, requests[r], 500)
    <3>1. PICK j : /\ Becomes(r, j) /\ j.stage = "over"
                   /\ Alike(j, requests[r], {"stage", "told"})
      BY <2>2, TellsTo, OwnFields
    <3>2. j.sent = requests[r].sent /\ Alike(j, requests[r], {"stage", "sent", "told"})
      BY <3>1 DEF Alike, Fields
    <3> QED  BY <3>1, <3>2
  <2> QED  BY <1>2, <2>1, <2>2
<1>4. /\ j.tool = requests[r].tool
      /\ Client(j) = Client(requests[r]) /\ Alike(j, requests[r], SendFields)
  BY <1>3 DEF Alike, Fields, SendFields, Client
<1>5. Attempts \in Nat \ {0}
  BY CommunicationAssumption
<1>6. posts' = posts \cup {<<r, Client(requests[r]), i>> : i \in 1..n}
  BY <1>2 DEF Posts
<1>0. PostInv /\ deployment.comms = "mcp" => ~requests[r].sent
  BY <1>1 DEF PostInv, PostOK
<1>7. j.sent => requests[r].sent \/ <<r, Client(requests[r]), 1>> \in posts'
  <2>1. j.sent => requests[r].sent \/ (n \in Nat /\ n > 0)
    BY <1>2, <1>3, <1>5
  <2>2. n \in Nat /\ n > 0 => 1 \in 1..n
    OBVIOUS
  <2> QED  BY <1>6, <2>1, <2>2
<1>8. \A p \in posts' \ posts : p[1] = r /\ p[2] = Client(requests[r]) /\ p[3] <= Attempts
  BY <1>2, <1>5, <1>6
<1>9. PostInv => PostsWell(r, j)
  BY <1>0, <1>1, <1>3, <1>4, <1>6, <1>7, <1>8 DEF PostInv, PostsWell, PostOK, Early, Apart
<1> QED  BY <1>1, <1>3, <1>4, <1>9 DEF SendGoes

-----------------------------------------------------------------------------
(* The steps before a turn, and those of keys and reports.                 *)

LEMMA BeginEffect ==
    ASSUME Shaped, NEW r \in Requests, NEW k, DOMAIN k = Fields, BeginTurn(r, k)
    PROVE  \E j : /\ Becomes(r, j) /\ Alike(j, k, {"stage", "todo", "then"})
                  /\ j.stage \in {"thinking", "connecting", "asking"} /\ Led(j)
<1>1. CASE Awaits(r, k, "thinking")
  <2>1. PICK j : Becomes(r, j) /\ j.stage = "thinking" /\ Alike(j, k, {"stage"})
    BY <1>1, AwaitsTo
  <2> QED  BY <2>1 DEF Alike, Led
<1>2. ASSUME NEW n \in 0..Found,
             MemoryCall(r, [k EXCEPT !.todo = Recall(n), !.then = "thinking"])
      PROVE  \E j : /\ Becomes(r, j) /\ Alike(j, k, {"stage", "todo", "then"})
                    /\ j.stage \in {"thinking", "connecting", "asking"} /\ Led(j)
  <2> DEFINE m == [k EXCEPT !.todo = Recall(n), !.then = "thinking"]
  <2>1. m.then = "thinking" /\ Alike(m, k, {"todo", "then"})
    BY DEF Alike, Fields
  <2>2. PICK s \in {"connecting", "asking"} : Awaits(r, m, s)
    BY <1>2 DEF MemoryCall
  <2> HIDE DEF m
  <2>3. PICK j : Becomes(r, j) /\ j.stage = s /\ Alike(j, m, {"stage"})
    BY <2>1, <2>2, AwaitsTo DEF Alike
  <2>4. j.then = "thinking" /\ Alike(j, k, {"stage", "todo", "then"})
    BY <2>1, <2>3 DEF Alike, Fields
  <2> QED  BY <2>3, <2>4 DEF Led
<1> QED  BY <1>1, <1>2 DEF BeginTurn

\* What a step of another kind than those of a turn leaves alone.
Outside == deployment' = deployment /\ posts' = posts /\ decisions' = decisions

\* A request as it arrives.
Arrived(j) ==
    /\ DOMAIN j = Fields /\ Led(j)
    /\ j.check = "none" /\ j.tool = "none" /\ j.sent = FALSE
    /\ j.revoked = {i \in DOMAIN keys : ~keys[i].active}
    /\ j.id \in Keys /\ j.at = 0 /\ j.run = restarts
    /\ \/ j.stage = "lookup" /\ j.told = 0 /\ Guarded(j.kind)
       \/ j.stage = "over" /\ j.told = 401 /\ Guarded(j.kind)
       \/ /\ j.stage \in {"thinking", "connecting", "asking"} /\ j.told = 0
          /\ j.kind \in Turns /\ ~Guarded(j.kind)
       \/ j.stage = "reading" /\ j.told = 0 /\ j.kind \in {"outcome", "feedback"}

LEMMA ReceiveEffect ==
    ASSUME Shaped, NEW r \in Requests, Receive(r)
    PROVE  /\ Outside /\ keys' = keys /\ outcomes' = outcomes
           /\ requests[r] = NoRequest
           /\ \E j : Becomes(r, j) /\ Arrived(j)
<1>1. Outside /\ keys' = keys /\ outcomes' = outcomes /\ requests[r] = NoRequest
  BY DEF Receive, At, Shaped, Outside, accessVars, auditVars, communicationVars
<1> DEFINE revoked == {i \in DOMAIN keys : ~keys[i].active}
           New(kind, id, target) ==
               [NoRequest EXCEPT !.kind = kind, !.id = id, !.target = target,
                                 !.run = restarts, !.revoked = revoked]
<1>0. PICK kind \in deployment.kinds :
      \E id \in IF Guarded(kind) THEN Keys ELSE {Bootstrap}, target \in Targets(kind) :
          \/ /\ Guarded(kind)
             /\ \/ Awaits(r, New(kind, id, target), "lookup")
                \/ Tells(r, New(kind, id, target), 401)
             /\ UNCHANGED memoryVars
          \/ kind \in Turns /\ ~Guarded(kind) /\ BeginTurn(r, New(kind, id, target))
          \/ /\ kind \in {"outcome", "feedback"}
             /\ Awaits(r, New(kind, id, target), "reading")
             /\ UNCHANGED memoryVars
  BY Zenon DEF Receive
<1>2. PICK id \in IF Guarded(kind) THEN Keys ELSE {Bootstrap}, target \in Targets(kind) :
          \/ /\ Guarded(kind)
             /\ \/ Awaits(r, New(kind, id, target), "lookup")
                \/ Tells(r, New(kind, id, target), 401)
             /\ UNCHANGED memoryVars
          \/ kind \in Turns /\ ~Guarded(kind) /\ BeginTurn(r, New(kind, id, target))
          \/ /\ kind \in {"outcome", "feedback"}
             /\ Awaits(r, New(kind, id, target), "reading")
             /\ UNCHANGED memoryVars
  BY <1>0
<1> DEFINE k == New(kind, id, target)
<1>3. /\ DOMAIN k = Fields /\ k.kind = kind /\ k.revoked = revoked /\ k.check = "none"
      /\ k.tool = "none" /\ k.sent = FALSE /\ k.told = 0
      /\ k.id \in Keys /\ k.at = 0 /\ k.run = restarts
  BY AccessAssumption DEF NoRequest, Fields
<1>4. \/ Guarded(kind) /\ (Awaits(r, k, "lookup") \/ Tells(r, k, 401))
      \/ kind \in Turns /\ ~Guarded(kind) /\ BeginTurn(r, k)
      \/ kind \in {"outcome", "feedback"} /\ Awaits(r, k, "reading")
  BY <1>2
<1> HIDE DEF k
<1>5. ASSUME NEW s \in {"lookup", "reading"}, Awaits(r, k, s),
             s = "lookup" => Guarded(kind), s = "reading" => kind \in {"outcome", "feedback"}
      PROVE  \E j : Becomes(r, j) /\ Arrived(j)
  <2>1. PICK j : Becomes(r, j) /\ j.stage = s /\ Alike(j, k, {"stage"})
    BY <1>3, <1>5, AwaitsTo
  <2>2. /\ DOMAIN j = Fields /\ j.kind = kind /\ j.revoked = revoked /\ j.check = "none"
        /\ j.tool = "none" /\ j.sent = FALSE /\ j.told = 0
        /\ j.id \in Keys /\ j.at = 0 /\ j.run = restarts
    BY <1>3, <2>1 DEF Alike, Fields
  <2>3. Arrived(j)
    BY <1>5, <2>1, <2>2 DEF Arrived, Led
  <2> QED  BY <2>1, <2>3
<1>6. ASSUME Tells(r, k, 401), Guarded(kind)
      PROVE  \E j : Becomes(r, j) /\ Arrived(j)
  <2>1. PICK j : /\ Becomes(r, j) /\ j.stage = "over" /\ j.told = 401
                 /\ Alike(j, k, {"stage", "told"})
    BY <1>3, <1>6, TellsTo
  <2>2. /\ DOMAIN j = Fields /\ j.kind = kind /\ j.revoked = revoked /\ j.check = "none"
        /\ j.tool = "none" /\ j.sent = FALSE
        /\ j.id \in Keys /\ j.at = 0 /\ j.run = restarts
    BY <1>3, <2>1 DEF Alike, Fields
  <2>3. Arrived(j)
    BY <1>6, <2>1, <2>2 DEF Arrived, Led
  <2> QED  BY <2>1, <2>3
<1>7. ASSUME BeginTurn(r, k), kind \in Turns, ~Guarded(kind)
      PROVE  \E j : Becomes(r, j) /\ Arrived(j)
  <2>1. PICK j : /\ Becomes(r, j) /\ Alike(j, k, {"stage", "todo", "then"})
                 /\ j.stage \in {"thinking", "connecting", "asking"} /\ Led(j)
    BY <1>3, <1>7, BeginEffect
  <2>2. /\ DOMAIN j = Fields /\ j.kind = kind /\ j.revoked = revoked /\ j.check = "none"
        /\ j.tool = "none" /\ j.sent = FALSE /\ j.told = 0
        /\ j.id \in Keys /\ j.at = 0 /\ j.run = restarts
    BY <1>3, <2>1 DEF Alike, Fields
  <2>3. Arrived(j)
    BY <1>7, <2>1, <2>2 DEF Arrived
  <2> QED  BY <2>1, <2>3
<1>8. \E j : Becomes(r, j) /\ Arrived(j)
  BY <1>4, <1>5, <1>6, <1>7
<1> QED  BY <1>1, <1>8

LEMMA LookupEffect ==
    ASSUME Shaped, NEW r \in Requests, LookupReads(r)
    PROVE  /\ Outside /\ keys' = keys /\ outcomes' = outcomes
           /\ requests[r].stage = "lookup"
           /\ \E j : /\ Becomes(r, j) /\ Alike(j, requests[r], {"stage", "read", "told"})
                     /\ \/ /\ j.stage = "authenticating" /\ j.told = requests[r].told
                           /\ j.read = Looked(requests[r].id)
                        \/ j.stage = "over" /\ j.told = 500
<1>1. /\ Outside /\ keys' = keys /\ outcomes' = outcomes
      /\ requests[r].stage = "lookup"
  BY DEF LookupReads, At, Outside, accessVars, auditVars, communicationVars
<1> DEFINE Goal == \E j : /\ Becomes(r, j) /\ Alike(j, requests[r], {"stage", "read", "told"})
                          /\ \/ /\ j.stage = "authenticating" /\ j.told = requests[r].told
                                /\ j.read = Looked(requests[r].id)
                             \/ j.stage = "over" /\ j.told = 500
           k == [requests[r] EXCEPT !.read = Looked(requests[r].id)]
<1>2. ASSUME Awaits(r, k, "authenticating") PROVE Goal
  <2>1. k.read = Looked(requests[r].id) /\ Alike(k, requests[r], {"read"})
    BY DEF Shaped, Alike, Fields
  <2> HIDE DEF k
  <2>2. PICK j : Becomes(r, j) /\ j.stage = "authenticating" /\ Alike(j, k, {"stage"})
    BY <1>2, <2>1, AwaitsTo DEF Alike
  <2>3. /\ j.read = k.read /\ j.told = requests[r].told
        /\ Alike(j, requests[r], {"stage", "read", "told"})
    BY <2>1, <2>2 DEF Alike, Fields
  <2> QED  BY <2>1, <2>2, <2>3
<1>3. ASSUME Tells(r, requests[r], 500) PROVE Goal
  <2>1. PICK j : /\ Becomes(r, j) /\ j.stage = "over" /\ j.told = 500
                 /\ Alike(j, requests[r], {"stage", "told"})
    BY <1>3, TellsTo, OwnFields
  <2> QED  BY <2>1 DEF Alike
<1>4. Awaits(r, k, "authenticating") \/ Tells(r, requests[r], 500)
  BY DEF LookupReads
<1> QED  BY <1>1, <1>2, <1>3, <1>4

\* What the authentication makes of request k.
Admitted(k, j) ==
    \/ j.stage = "over" /\ j.check = "none" /\ j.told # 200
    \/ j.stage = "over" /\ k.read = "active" /\ j.told # 200
    \/ /\ k.read = "active" /\ j.check = "passed" /\ j.told = k.told
       /\ Scope[k.kind] \in keys[k.id].scopes
       /\ \/ j.stage \in {"thinking", "connecting", "asking"} /\ k.kind = "chat"
          \/ j.stage = "creating" /\ k.kind = "create"
          \/ j.stage = "selecting" /\ k.kind \notin {"chat", "create"}

AdmitFields == {"stage", "todo", "then", "check", "at", "told"}

\* What the rate limiter makes of request r, which becomes j.
Rated(r, j) ==
    LET k == requests[r] IN
    \/ j.check = "none" /\ windows' = windows
    \/ /\ k.read = "active" /\ Counts(k.id, r)
       /\ j.check = (IF WithinLimit(k.id) THEN "passed" ELSE "limited")

LEMMA AuthenticateEffect ==
    ASSUME Shaped, NEW r \in Requests, Authenticate(r)
    PROVE  /\ Outside /\ keys' = keys /\ outcomes' = outcomes
           /\ requests[r].stage = "authenticating"
           /\ \E j : /\ Becomes(r, j) /\ Alike(j, requests[r], AdmitFields) /\ Led(j)
                     /\ Admitted(requests[r], j) /\ Rated(r, j) /\ j.at = now
<1>1. /\ Outside /\ keys' = keys /\ outcomes' = outcomes
      /\ requests[r].stage = "authenticating"
  BY DEF Authenticate, At, Outside, auditVars, communicationVars
<1> DEFINE k      == requests[r]
           status == Admission(k.id, k.read, Scope[k.kind])
           check  == CASE status = 401 -> "none"
                       [] status = 429 -> "limited"
                       [] OTHER        -> "passed"
           c      == [k EXCEPT !.at = now, !.check = check]
           Goal   == \E j : /\ Becomes(r, j) /\ Alike(j, k, AdmitFields) /\ Led(j)
                            /\ Admitted(k, j) /\ Rated(r, j) /\ j.at = now
<1>2. /\ status # 401 => k.read = "active"
      /\ status = 200 => Scope[k.kind] \in keys[k.id].scopes
  BY DEF Admission
<1>3. /\ status = 401 => check = "none"
      /\ status = 200 => check = "passed"
  OBVIOUS
<1>0. ASSUME NEW j, j.check = check PROVE Rated(r, j)
  <2>1. status = 401 => windows' = windows
    BY DEF Authenticate
  <2>2. status # 401 => Counts(k.id, r)
    BY DEF Authenticate
  <2>3. status # 401 => (status = 429 <=> ~WithinLimit(k.id))
    BY DEF Admission
  <2>4. status # 401 => check = (IF WithinLimit(k.id) THEN "passed" ELSE "limited")
    BY <2>3
  <2> QED  BY <1>0, <1>2, <1>3, <2>1, <2>2, <2>4 DEF Rated
<1>4. \/ status # 200 /\ Tells(r, c, status)
      \/ status = 200 /\ k.kind = "chat" /\ BeginTurn(r, c)
      \/ /\ status = 200 /\ k.kind # "chat"
         /\ Awaits(r, c, IF k.kind = "create" THEN "creating" ELSE "selecting")
  BY DEF Authenticate
<1> HIDE DEF check, status
<1>5. c.check = check /\ c.at = now /\ Alike(c, k, {"at", "check"})
  BY DEF Shaped, Alike, Fields
<1>6. DOMAIN c = Fields
  BY <1>5 DEF Alike
<1> HIDE DEF c
<1>7. ASSUME status # 200, Tells(r, c, status) PROVE Goal
  <2>1. PICK j : /\ Becomes(r, j) /\ j.stage = "over" /\ j.told = status
                 /\ Alike(j, c, {"stage", "told"})
    BY <1>6, <1>7, TellsTo
  <2>2. j.check = check /\ j.at = now /\ Alike(j, k, AdmitFields)
    BY <1>5, <2>1 DEF Alike, Fields, AdmitFields
  <2> QED  BY <1>0, <1>2, <1>3, <1>7, <2>1, <2>2 DEF Admitted, Led
<1>8. ASSUME status = 200, k.kind = "chat", BeginTurn(r, c) PROVE Goal
  <2>1. PICK j : /\ Becomes(r, j) /\ Alike(j, c, {"stage", "todo", "then"})
                 /\ j.stage \in {"thinking", "connecting", "asking"} /\ Led(j)
    BY <1>6, <1>8, BeginEffect
  <2>2. j.check = check /\ j.at = now /\ j.told = k.told /\ Alike(j, k, AdmitFields)
    BY <1>5, <2>1 DEF Alike, Fields, AdmitFields
  <2> QED  BY <1>0, <1>2, <1>3, <1>8, <2>1, <2>2 DEF Admitted
<1>9. ASSUME status = 200, k.kind # "chat",
             Awaits(r, c, IF k.kind = "create" THEN "creating" ELSE "selecting")
      PROVE  Goal
  <2> DEFINE s == IF k.kind = "create" THEN "creating" ELSE "selecting"
  <2>1. Awaits(r, c, s)
    BY <1>9
  <2>2. /\ s \in {"creating", "selecting"}
        /\ s = "creating" <=> k.kind = "create"
    OBVIOUS
  <2> HIDE DEF s
  <2>3. PICK j : Becomes(r, j) /\ j.stage = s /\ Alike(j, c, {"stage"})
    BY <1>6, <2>1, AwaitsTo
  <2>4. j.check = check /\ j.at = now /\ j.told = k.told /\ Alike(j, k, AdmitFields)
    BY <1>5, <2>3 DEF Alike, Fields, AdmitFields
  <2> QED  BY <1>0, <1>2, <1>3, <1>9, <2>2, <2>3, <2>4 DEF Admitted, Led
<1> QED  BY <1>1, <1>4, <1>7, <1>8, <1>9

\* What a request that only goes on, or is answered, keeps.
LEMMA Moves ==
    ASSUME Shaped, NEW r \in Requests, NEW s, Awaits(r, requests[r], s)
    PROVE  \E j : /\ Becomes(r, j) /\ Alike(j, requests[r], {"stage", "told"})
                  /\ j.stage = s /\ j.told = requests[r].told
<1>1. PICK j : Becomes(r, j) /\ j.stage = s /\ Alike(j, requests[r], {"stage"})
  BY AwaitsTo, OwnFields
<1>2. Alike(j, requests[r], {"stage", "told"}) /\ j.told = requests[r].told
  BY <1>1 DEF Alike, Fields
<1> QED  BY <1>1, <1>2

LEMMA Ends ==
    ASSUME Shaped, NEW r \in Requests, NEW n, Tells(r, requests[r], n)
    PROVE  \E j : /\ Becomes(r, j) /\ Alike(j, requests[r], {"stage", "told"})
                  /\ j.stage = "over" /\ j.told = n
BY TellsTo, OwnFields

LEMMA CreateEffect ==
    ASSUME Shaped, NEW r \in Requests, CreateReturns(r)
    PROVE  /\ Outside /\ outcomes' = outcomes
           /\ requests[r].stage = "creating"
           /\ \/ keys' = keys
              \/ \E id \in Keys \ DOMAIN keys, n \in NewKeys : Creates(id, n[1], n[2], n[3])
           /\ \E j : /\ Becomes(r, j) /\ Alike(j, requests[r], {"stage", "told"})
                     /\ j.stage = "over"
<1>1. Outside /\ outcomes' = outcomes /\ requests[r].stage = "creating"
  BY DEF CreateReturns, At, Outside, auditVars, communicationVars
<1>2. PICK status : Tells(r, requests[r], status)
  BY DEF CreateReturns
<1>3. \E j : /\ Becomes(r, j) /\ Alike(j, requests[r], {"stage", "told"})
             /\ j.stage = "over"
  BY <1>2, Ends
<1>4. \/ keys' = keys
      \/ \E id \in Keys \ DOMAIN keys, n \in NewKeys : Creates(id, n[1], n[2], n[3])
  BY DEF CreateReturns
<1> QED  BY <1>1, <1>3, <1>4

LEMMA SelectEffect ==
    ASSUME Shaped, NEW r \in Requests, SelectReturns(r)
    PROVE  /\ Outside /\ keys' = keys /\ outcomes' = outcomes
           /\ requests[r].stage = "selecting"
           /\ \E j : /\ Becomes(r, j) /\ Alike(j, requests[r], {"stage", "told"})
                     /\ \/ j.stage = "over" /\ j.told # 200
                        \/ /\ j.stage = "updating"
                           /\ requests[r].target \in Revocable(keys[requests[r].id].tenant)
<1>1. /\ Outside /\ keys' = keys /\ outcomes' = outcomes
      /\ requests[r].stage = "selecting"
  BY DEF SelectReturns, At, Outside, accessVars, auditVars, communicationVars
<1>2. \/ /\ requests[r].target \in Revocable(keys[requests[r].id].tenant)
         /\ Awaits(r, requests[r], "updating")
      \/ Tells(r, requests[r], 404)
      \/ Tells(r, requests[r], 500)
  BY DEF SelectReturns
<1> QED  BY <1>1, <1>2, Moves, Ends

LEMMA UpdateEffect ==
    ASSUME Shaped, NEW r \in Requests, UpdateReturns(r)
    PROVE  /\ Outside /\ outcomes' = outcomes
           /\ requests[r].stage = "updating"
           /\ keys' = keys \/ Revokes(requests[r].target)
           /\ \E j : /\ Becomes(r, j) /\ Alike(j, requests[r], {"stage", "told"})
                     /\ j.stage = "over"
<1>1. Outside /\ outcomes' = outcomes /\ requests[r].stage = "updating"
  BY DEF UpdateReturns, At, Outside, auditVars, communicationVars
<1>2. PICK status : Tells(r, requests[r], status)
  BY DEF UpdateReturns
<1>3. keys' = keys \/ Revokes(requests[r].target)
  BY DEF UpdateReturns
<1> QED  BY <1>1, <1>2, <1>3, Ends

LEMMA ReadEffect ==
    ASSUME Shaped, NEW r \in Requests, ReportReads(r)
    PROVE  /\ Outside /\ keys' = keys /\ outcomes' = outcomes
           /\ requests[r].stage = "reading"
           /\ \E j : /\ Becomes(r, j) /\ Alike(j, requests[r], {"stage", "told"})
                     /\ \/ /\ j.stage = "reporting" /\ j.told = requests[r].told
                           /\ requests[r].kind = "outcome" => requests[r].target \in decisions
                        \/ /\ j.stage = "over" /\ j.told # 200
                           /\ requests[r].kind = "outcome" /\ j.told = 409
                                  => HasOutcome(requests[r].target)
<1>1. /\ Outside /\ keys' = keys /\ outcomes' = outcomes
      /\ requests[r].stage = "reading"
  BY DEF ReportReads, At, Outside, accessVars, auditVars, communicationVars
<1> DEFINE k      == requests[r]
           status == IF k.kind = "outcome" THEN OutcomeRead(k.target)
                     ELSE IF k.target \in decisions THEN 0 ELSE 404
<1>2. /\ status # 200
      /\ k.kind = "outcome" /\ status = 409 => HasOutcome(k.target)
      /\ k.kind = "outcome" /\ status = 0 => k.target \in decisions
  BY DEF OutcomeRead
<1>3. \/ status = 0 /\ Awaits(r, k, "reporting")
      \/ Tells(r, k, status)
      \/ Tells(r, k, 500)
  BY DEF ReportReads
<1> HIDE DEF status
<1> QED  BY <1>1, <1>2, <1>3, Moves, Ends

LEMMA ReportEffect ==
    ASSUME Shaped, NEW r \in Requests, ReportReturns(r)
    PROVE  /\ Outside /\ keys' = keys
           /\ requests[r].stage = "reporting"
           /\ \E j : /\ Becomes(r, j) /\ Alike(j, requests[r], {"stage", "told"})
                     /\ j.stage = "over" /\ j.told \in {200, 500}
                     /\ \/ outcomes' = outcomes /\ j.told = 500
                        \/ outcomes' = outcomes /\ requests[r].kind = "feedback"
                        \/ requests[r].kind = "outcome" /\ StoreOutcome(requests[r].target, r)
<1>1. Outside /\ keys' = keys /\ requests[r].stage = "reporting"
  BY DEF ReportReturns, At, Outside, accessVars, communicationVars
<1>2. PICK status \in {200, 500} :
          /\ Tells(r, requests[r], status)
          /\ \/ outcomes' = outcomes /\ status = 500
             \/ outcomes' = outcomes /\ requests[r].kind = "feedback"
             \/ requests[r].kind = "outcome" /\ StoreOutcome(requests[r].target, r)
  BY DEF ReportReturns
<1> QED  BY <1>1, <1>2, Ends

-----------------------------------------------------------------------------
(* Every step leaves the requests shaped.                                  *)

\* What a restart does: the requests under way end.
Cut == /\ DOMAIN requests' = Requests
       /\ \A r \in Requests :
             \/ requests'[r] = requests[r]
             \/ /\ requests[r].stage # "new" /\ requests'[r].stage = "over"
                /\ Alike(requests'[r], requests[r], {"stage", "todo"})

LEMMA RestartEffect ==
    ASSUME Shaped, Restart
    PROVE  Cut /\ Outside /\ outcomes' = outcomes /\ keys' = Started(keys)
<1>1. Outside /\ outcomes' = outcomes /\ keys' = Started(keys) /\ DOMAIN requests' = Requests
  BY DEF Restart, Outside, auditVars
<1>2. ASSUME NEW r \in Requests, requests'[r] # requests[r]
      PROVE  /\ requests[r].stage # "new" /\ requests'[r].stage = "over"
             /\ Alike(requests'[r], requests[r], {"stage", "todo"})
  <2>1. /\ requests[r].stage # "new"
        /\ requests'[r] = [requests[r] EXCEPT !.stage = "over", !.todo = <<>>]
    BY <1>2 DEF Restart
  <2>2. DOMAIN requests[r] = Fields
    BY OwnFields
  <2> QED  BY <2>1, <2>2 DEF Alike, Fields
<1> QED  BY <1>1, <1>2 DEF Cut

LEMMA BecomesShaped ==
    ASSUME Shaped, deployment' = deployment, NEW r \in Requests, NEW j, Becomes(r, j),
           DOMAIN j = Fields, Led(j), j.stage # "new"
    PROVE  Shaped'
BY DEF Shaped, Becomes, Led

LEMMA ShapedStep == Shaped /\ [ChatNext]_chatVars => Shaped'
<1> SUFFICES ASSUME Shaped, [ChatNext]_chatVars PROVE Shaped'
  OBVIOUS
<1>1. ASSUME NEW r \in Requests, QuietStep(r) PROVE Shaped'
  BY <1>1, QuietEffect, BecomesShaped DEF QuietGoes, Apart, Alike
<1>2. ASSUME NEW r \in Requests, SendStep(r) PROVE Shaped'
  <2>1. SendGoes(r) /\ Apart
    BY <1>2, ThinkEffect, DialEffect, PostEffect DEF SendStep
  <2> QED  BY <2>1, BecomesShaped DEF SendGoes, Apart, Alike, Led
<1>3. ASSUME NEW r \in Requests, Receive(r) PROVE Shaped'
  BY <1>3, ReceiveEffect, BecomesShaped DEF Arrived, Outside
<1>4. ASSUME NEW r \in Requests, LookupReads(r) PROVE Shaped'
  BY <1>4, LookupEffect, BecomesShaped DEF Outside, Alike, Led
<1>5. ASSUME NEW r \in Requests, Authenticate(r) PROVE Shaped'
  BY <1>5, AuthenticateEffect, BecomesShaped DEF Outside, Alike, Admitted
<1>6. ASSUME NEW r \in Requests,
             CreateReturns(r) \/ SelectReturns(r) \/ UpdateReturns(r) \/ ReportReads(r)
                              \/ ReportReturns(r)
      PROVE  Shaped'
  <2>1. /\ Outside
        /\ \E j : /\ Becomes(r, j) /\ Alike(j, requests[r], {"stage", "told"})
                  /\ j.stage \in {"over", "updating", "reporting"}
    BY <1>6, CreateEffect, SelectEffect, UpdateEffect, ReadEffect, ReportEffect
  <2> QED  BY <2>1, BecomesShaped DEF Outside, Alike, Led
<1>7. CASE Tick
  BY <1>7 DEF Tick, Shaped, Led
<1>8. CASE Restart
  <2>1. Cut /\ deployment' = deployment
    BY <1>8, RestartEffect DEF Outside
  <2>2. ASSUME NEW r \in Requests
        PROVE  /\ DOMAIN requests'[r] = Fields
               /\ Led(requests'[r])
               /\ requests'[r].stage = "new" => requests'[r] = NoRequest
    BY <2>1 DEF Cut, Shaped, Alike, Led
  <2> QED  BY <2>1, <2>2 DEF Cut, Shaped, Led
<1>9. CASE UNCHANGED chatVars
  BY <1>9 DEF chatVars, Shaped, Led
<1> QED  BY <1>1, <1>2, <1>3, <1>4, <1>5, <1>6, <1>7, <1>8, <1>9
         DEF ChatNext, QuietStep, SendStep

LEMMA ShapedInit == ChatInit => Shaped
<1>1. NoRequest.stage = "new" /\ Led(NoRequest)
  BY DEF NoRequest, Led
<1> QED  BY <1>1, NoRequestShaped DEF ChatInit, Shaped

-----------------------------------------------------------------------------
(* A message reported as sent was posted.                                  *)

LEMMA PostsBecome ==
    ASSUME Shaped, PostInv, deployment' = deployment, NEW r \in Requests, NEW j,
           Becomes(r, j), PostsWell(r, j)
    PROVE  PostInv'
<1> SUFFICES ASSUME deployment.comms = "mcp" PROVE PostInv'
  BY DEF PostInv
<1>1. \A k : Client(k)' = Client(k)
  BY DEF Client
<1>2. ASSUME NEW q \in Requests PROVE PostOK(q, requests[q], posts)'
  <2>1. CASE q = r
    BY <2>1, <1>1 DEF PostsWell, PostOK, Becomes, Early, Client
  <2>2. CASE q # r
    <3>1. requests'[q] = requests[q] /\ PostOK(q, requests[q], posts) /\ posts \subseteq posts'
      BY <2>2 DEF Becomes, PostInv, PostsWell
    <3> QED  BY <3>1, <1>1 DEF PostOK, Early, Client
  <2> QED  BY <2>1, <2>2
<1>3. ASSUME NEW p \in posts'
      PROVE  /\ p[1] \in Requests
             /\ requests'[p[1]].tool # "none"
             /\ p[2] = Client(requests[p[1]])'
             /\ p[2] \in deployment.clients
             /\ p[3] <= Attempts
  <2>1. CASE p \in posts
    <3>1. /\ p[1] \in Requests /\ requests[p[1]].tool # "none"
          /\ p[2] = Client(requests[p[1]])
          /\ p[2] \in deployment.clients
          /\ p[3] <= Attempts
      BY <2>1 DEF PostInv
    <3>2. requests'[p[1]].tool = requests[p[1]].tool
      BY <3>1 DEF Becomes, PostsWell
    <3> QED  BY <3>1, <3>2 DEF Client
  <2>2. CASE p \notin posts
    <3>1. /\ p[1] = r /\ j.tool # "none" /\ p[2] = Client(j)
          /\ p[2] \in deployment.clients /\ p[3] <= Attempts
      BY <2>2 DEF PostsWell
    <3> QED  BY <3>1 DEF Becomes, Client
  <2> QED  BY <2>1, <2>2
<1> QED  BY <1>2, <1>3 DEF PostInv

\* A step that keeps the tool and what was sent.
LEMMA PostsKept ==
    ASSUME Shaped, PostInv, deployment' = deployment, posts' = posts,
           NEW r \in Requests, NEW j, Becomes(r, j),
           j.tool = requests[r].tool, j.sent = requests[r].sent,
           j.stage \notin {"dialling", "posting"}, Early(j) => Early(requests[r])
    PROVE  PostInv'
<1>1. PostsWell(r, j)
  BY DEF PostInv, PostsWell, PostOK, Client
<1> QED  BY <1>1, PostsBecome

LEMMA PostStep == Shaped /\ PostInv /\ [ChatNext]_chatVars => PostInv'
<1> SUFFICES ASSUME Shaped, PostInv, [ChatNext]_chatVars PROVE PostInv'
  OBVIOUS
<1>1. ASSUME NEW r \in Requests, QuietStep(r) PROVE PostInv'
  <2>1. PICK j : /\ Becomes(r, j) /\ Alike(j, requests[r], QuietFields)
                 /\ j.stage \notin {"dialling", "posting"}
                 /\ Early(j) => Early(requests[r])
    BY <1>1, QuietEffect DEF QuietGoes
  <2>2. deployment' = deployment /\ posts' = posts
    BY <1>1, QuietEffect DEF Apart
  <2>3. j.tool = requests[r].tool /\ j.sent = requests[r].sent
    BY <2>1 DEF Alike, QuietFields, Fields
  <2> QED  BY <2>1, <2>2, <2>3, PostsKept
<1>2. ASSUME NEW r \in Requests, SendStep(r) PROVE PostInv'
  <2>1. Apart /\ \E j : Becomes(r, j) /\ PostsWell(r, j)
    BY <1>2, ThinkEffect, DialEffect, PostEffect DEF SendStep
  <2> QED  BY <2>1, PostsBecome DEF Apart
<1>3. ASSUME NEW r \in Requests, Receive(r) PROVE PostInv'
  <2>1. PICK j : Becomes(r, j) /\ Arrived(j)
    BY <1>3, ReceiveEffect
  <2>2. Outside /\ requests[r] = NoRequest
    BY <1>3, ReceiveEffect
  <2>3. /\ j.tool = requests[r].tool /\ j.sent = requests[r].sent
        /\ j.stage \notin {"dialling", "posting"} /\ Early(requests[r])
    BY <2>1, <2>2, NoRequestShaped DEF Arrived, Early
  <2> QED  BY <2>1, <2>2, <2>3, PostsKept DEF Outside
<1>4. ASSUME NEW r \in Requests,
             LookupReads(r) \/ Authenticate(r) \/ CreateReturns(r) \/ SelectReturns(r)
             \/ UpdateReturns(r) \/ ReportReads(r) \/ ReportReturns(r)
      PROVE  PostInv'
  <2>1. Outside /\ Early(requests[r])
    BY <1>4, LookupEffect, AuthenticateEffect, CreateEffect, SelectEffect, UpdateEffect,
       ReadEffect, ReportEffect DEF Early
  <2>2. \E j : /\ Becomes(r, j)
               /\ j.tool = requests[r].tool /\ j.sent = requests[r].sent
               /\ j.stage \notin {"dialling", "posting"}
    <3>1. CASE LookupReads(r)
      BY <3>1, LookupEffect DEF Alike, Fields
    <3>2. CASE Authenticate(r)
      BY <3>2, AuthenticateEffect DEF Alike, Fields, AdmitFields, Admitted
    <3>3. CASE \/ CreateReturns(r) \/ SelectReturns(r) \/ UpdateReturns(r)
               \/ ReportReads(r) \/ ReportReturns(r)
      BY <3>3, CreateEffect, SelectEffect, UpdateEffect, ReadEffect, ReportEffect
         DEF Alike, Fields
    <3> QED  BY <1>4, <3>1, <3>2, <3>3
  <2> QED  BY <2>1, <2>2, PostsKept DEF Outside
<1>5. CASE Tick
  BY <1>5 DEF Tick, communicationVars, PostInv, PostOK, Early, Client
<1>6. CASE Restart
  <2>1. Cut /\ deployment' = deployment /\ posts' = posts
    BY <1>6, RestartEffect DEF Outside
  <2>2. ASSUME NEW r \in Requests
        PROVE  /\ requests'[r].tool = requests[r].tool /\ requests'[r].sent = requests[r].sent
               /\ requests'[r].stage \in {requests[r].stage, "over"}
               /\ Early(requests[r])' => Early(requests[r])
    BY <2>1 DEF Cut, Alike, Fields, Early
  <2> QED  BY <2>1, <2>2 DEF PostInv, PostOK, Client
<1>7. CASE UNCHANGED chatVars
  BY <1>7 DEF chatVars, communicationVars, PostInv, PostOK, Early, Client
<1> QED  BY <1>1, <1>2, <1>3, <1>4, <1>5, <1>6, <1>7 DEF ChatNext, QuietStep, SendStep

LEMMA PostInit == ChatInit => PostInv
BY DEF ChatInit, PostInv, PostOK, NoRequest, Early

\* What a tool reports as sent has been posted, to the channel of its role, and no
\* turn posts anywhere else or too often, whoever connects the clients, whatever
\* the servers answer and whenever the process is restarted.
THEOREM NotifiedIsPostedHolds == ChatSpec => []NotifiedIsPosted
<1>1. ChatInit => Shaped /\ PostInv
  BY ShapedInit, PostInit
<1>2. Shaped /\ PostInv /\ [ChatNext]_chatVars => (Shaped /\ PostInv)'
  BY ShapedStep, PostStep
<1>3. Shaped /\ PostInv => NotifiedIsPosted
  BY DEF PostInv, PostOK, NotifiedIsPosted
<1> QED  BY <1>1, <1>2, <1>3, PTL DEF ChatSpec

-----------------------------------------------------------------------------
(* A decision keeps one outcome.                                           *)

\* What is known of a report of an outcome, request r that is as in k.
OutcomeOK(r, k, decided, stored_outcomes) ==
    k.kind = "outcome" =>
        /\ k.stage \in {"reading", "reporting", "over"}
        /\ k.stage # "over" => k.told \notin {200, 409}
        /\ k.stage = "reporting" => k.target \in decided
        /\ k.told = 200 => <<k.target, r>> \in stored_outcomes
        /\ k.told = 409 => \E q \in Requests \ {r} : <<k.target, q>> \in stored_outcomes

\* An outcome is that of a report that is over.
OutcomeInv ==
    /\ \A r \in Requests : OutcomeOK(r, requests[r], decisions, outcomes)
    /\ \A o \in outcomes : /\ o[1] \in decisions /\ o[2] \in Requests
                           /\ o = <<o[1], o[2]>> /\ requests[o[2]].stage = "over"
    /\ \A o \in outcomes, p \in outcomes : o[1] = p[1] => o = p

LEMMA OutcomeGrows ==
    ASSUME NEW r, NEW k, NEW d1, NEW d2, NEW o1, NEW o2,
           d1 \subseteq d2, o1 \subseteq o2, OutcomeOK(r, k, d1, o1)
    PROVE  OutcomeOK(r, k, d2, o2)
BY DEF OutcomeOK

\* A step that stores no outcome.
LEMMA OutcomeBecome ==
    ASSUME OutcomeInv, NEW r \in Requests, NEW j, Becomes(r, j),
           requests[r].stage # "over", outcomes' = outcomes, decisions \subseteq decisions',
           OutcomeOK(r, j, decisions, outcomes)
    PROVE  OutcomeInv'
<1>1. ASSUME NEW q \in Requests PROVE OutcomeOK(q, requests'[q], decisions', outcomes')
  <2>1. OutcomeOK(q, requests'[q], decisions, outcomes)
    BY DEF Becomes, OutcomeInv
  <2> QED  BY <2>1, OutcomeGrows
<1>2. ASSUME NEW o \in outcomes
      PROVE  /\ o[1] \in decisions' /\ o[2] \in Requests
             /\ o = <<o[1], o[2]>> /\ requests'[o[2]].stage = "over"
  BY DEF OutcomeInv, Becomes
<1> QED  BY <1>1, <1>2 DEF OutcomeInv

\* A step of a request that reports no outcome.
LEMMA OutcomeAside ==
    ASSUME OutcomeInv, NEW r \in Requests, NEW j, Becomes(r, j), j.kind = requests[r].kind,
           requests[r].stage \notin {"reading", "reporting", "over"},
           outcomes' = outcomes, decisions \subseteq decisions'
    PROVE  OutcomeInv'
<1>1. j.kind # "outcome"
  BY DEF OutcomeInv, OutcomeOK
<1> QED  BY <1>1, OutcomeBecome DEF OutcomeOK

\* The report that stores an outcome is the one that is told so.
LEMMA OutcomeStored ==
    ASSUME OutcomeInv, NEW r \in Requests, NEW j, Becomes(r, j),
           requests[r].stage = "reporting", requests[r].kind = "outcome", decisions' = decisions,
           Alike(j, requests[r], {"stage", "told"}), j.stage = "over", j.told \in {200, 500},
           StoreOutcome(requests[r].target, r)
    PROVE  OutcomeInv'
<1> DEFINE d == requests[r].target
<1>1. j.target = d /\ d \in decisions
  <2>1. j.target = d
    BY DEF Alike, Fields
  <2>2. OutcomeOK(r, requests[r], decisions, outcomes)
    BY DEF OutcomeInv
  <2> QED  BY <2>1, <2>2 DEF OutcomeOK
<1>2. outcomes' = outcomes \cup {<<d, r>>} /\ \A o \in outcomes : o[1] # d
  BY DEF StoreOutcome, HasOutcome
<1> HIDE DEF d
<1>3. ASSUME NEW q \in Requests PROVE OutcomeOK(q, requests'[q], decisions', outcomes')
  <2>1. CASE q = r
    BY <1>1, <1>2, <2>1 DEF OutcomeOK, Becomes
  <2>2. CASE q # r
    <3>1. requests'[q] = requests[q] /\ OutcomeOK(q, requests[q], decisions, outcomes)
      BY <2>2 DEF Becomes, OutcomeInv
    <3>2. outcomes \subseteq outcomes'
      BY <1>2
    <3> QED  BY <3>1, <3>2, OutcomeGrows
  <2> QED  BY <2>1, <2>2
<1>4. ASSUME NEW o \in outcomes'
      PROVE  /\ o[1] \in decisions' /\ o[2] \in Requests
             /\ o = <<o[1], o[2]>> /\ requests'[o[2]].stage = "over"
  <2>1. CASE o = <<d, r>>
    BY <1>1, <2>1 DEF Becomes
  <2>2. CASE o \in outcomes
    BY <2>2 DEF OutcomeInv, Becomes
  <2> QED  BY <1>2, <2>1, <2>2
<1>5. ASSUME NEW o \in outcomes', NEW p \in outcomes', o[1] = p[1] PROVE o = p
  BY <1>2, <1>5 DEF OutcomeInv
<1> QED  BY <1>3, <1>4, <1>5 DEF OutcomeInv

LEMMA OutcomeStep == Shaped /\ OutcomeInv /\ [ChatNext]_chatVars => OutcomeInv'
<1> SUFFICES ASSUME Shaped, OutcomeInv, [ChatNext]_chatVars PROVE OutcomeInv'
  OBVIOUS
<1>1. ASSUME NEW r \in Requests, QuietStep(r) \/ SendStep(r) PROVE OutcomeInv'
  <2>1. /\ Apart /\ requests[r].stage \in TurnStages
        /\ \E j : Becomes(r, j) /\ Alike(j, requests[r], TurnFields)
    <3>1. CASE QuietStep(r)
      BY <3>1, QuietEffect DEF QuietGoes, QuietFields, Alike
    <3>2. CASE SendStep(r)
      BY <3>2, ThinkEffect, DialEffect, PostEffect DEF SendStep, SendGoes, TurnStages,
         SendFields, TurnFields, Alike
    <3> QED  BY <1>1, <3>1, <3>2
  <2>2. \E j : Becomes(r, j) /\ j.kind = requests[r].kind
    BY <2>1 DEF Alike, TurnFields, Fields
  <2> QED  BY <2>1, <2>2, OutcomeAside DEF Apart, TurnStages
<1>2. ASSUME NEW r \in Requests, Receive(r) PROVE OutcomeInv'
  <2>1. PICK j : Becomes(r, j) /\ Arrived(j)
    BY <1>2, ReceiveEffect
  <2>2. /\ requests[r].stage # "over" /\ outcomes' = outcomes /\ decisions' = decisions
    BY <1>2, ReceiveEffect, NoRequestShaped DEF Outside
  <2>3. OutcomeOK(r, j, decisions, outcomes)
    BY <2>1 DEF Arrived, OutcomeOK, Guarded, Turns
  <2> QED  BY <2>1, <2>2, <2>3, OutcomeBecome
<1>3. ASSUME NEW r \in Requests,
             LookupReads(r) \/ Authenticate(r) \/ CreateReturns(r) \/ SelectReturns(r)
             \/ UpdateReturns(r)
      PROVE  OutcomeInv'
  <2>1. /\ Outside /\ outcomes' = outcomes
        /\ requests[r].stage \notin {"reading", "reporting", "over"}
    BY <1>3, LookupEffect, AuthenticateEffect, CreateEffect, SelectEffect, UpdateEffect
  <2>2. \E j : Becomes(r, j) /\ j.kind = requests[r].kind
    <3>1. CASE LookupReads(r)
      BY <3>1, LookupEffect DEF Alike, Fields
    <3>2. CASE Authenticate(r)
      BY <3>2, AuthenticateEffect DEF Alike, Fields, AdmitFields
    <3>3. CASE CreateReturns(r) \/ SelectReturns(r) \/ UpdateReturns(r)
      BY <3>3, CreateEffect, SelectEffect, UpdateEffect DEF Alike, Fields
    <3> QED  BY <1>3, <3>1, <3>2, <3>3
  <2> QED  BY <2>1, <2>2, OutcomeAside DEF Outside
<1>4. ASSUME NEW r \in Requests, ReportReads(r) PROVE OutcomeInv'
  <2>1. PICK j : /\ Becomes(r, j) /\ Alike(j, requests[r], {"stage", "told"})
                 /\ \/ /\ j.stage = "reporting" /\ j.told = requests[r].told
                       /\ requests[r].kind = "outcome" => requests[r].target \in decisions
                    \/ /\ j.stage = "over" /\ j.told # 200
                       /\ requests[r].kind = "outcome" /\ j.told = 409
                              => HasOutcome(requests[r].target)
    BY <1>4, ReadEffect
  <2>2. Outside /\ outcomes' = outcomes /\ requests[r].stage = "reading"
    BY <1>4, ReadEffect
  <2>3. j.kind = requests[r].kind /\ j.target = requests[r].target
    BY <2>1 DEF Alike, Fields
  <2>4. ASSUME HasOutcome(j.target)
        PROVE  \E q \in Requests \ {r} : <<j.target, q>> \in outcomes
    <3>1. PICK o \in outcomes : o[1] = j.target
      BY <2>4 DEF HasOutcome
    <3>2. o[2] \in Requests \ {r} /\ <<j.target, o[2]>> = o
      BY <2>2, <3>1 DEF OutcomeInv
    <3> QED  BY <3>1, <3>2
  <2>5. requests[r].kind = "outcome" => requests[r].told \notin {200, 409}
    <3>1. OutcomeOK(r, requests[r], decisions, outcomes)
      BY DEF OutcomeInv
    <3> QED  BY <2>2, <3>1 DEF OutcomeOK
  <2>6. OutcomeOK(r, j, decisions, outcomes)
    BY <2>1, <2>3, <2>4, <2>5 DEF OutcomeOK
  <2> QED  BY <2>1, <2>2, <2>6, OutcomeBecome DEF Outside
<1>5. ASSUME NEW r \in Requests, ReportReturns(r) PROVE OutcomeInv'
  <2>1. PICK j : /\ Becomes(r, j) /\ Alike(j, requests[r], {"stage", "told"})
                 /\ j.stage = "over" /\ j.told \in {200, 500}
                 /\ \/ outcomes' = outcomes /\ j.told = 500
                    \/ outcomes' = outcomes /\ requests[r].kind = "feedback"
                    \/ requests[r].kind = "outcome" /\ StoreOutcome(requests[r].target, r)
    BY <1>5, ReportEffect
  <2>2. Outside /\ requests[r].stage = "reporting"
    BY <1>5, ReportEffect
  <2>3. j.kind = requests[r].kind
    BY <2>1 DEF Alike, Fields
  <2>4. CASE outcomes' = outcomes /\ (j.told = 500 \/ requests[r].kind = "feedback")
    <3>1. OutcomeOK(r, j, decisions, outcomes)
      BY <2>1, <2>3, <2>4 DEF OutcomeOK
    <3> QED  BY <2>1, <2>2, <2>4, <3>1, OutcomeBecome DEF Outside
  <2>5. CASE requests[r].kind = "outcome" /\ StoreOutcome(requests[r].target, r)
    BY <2>1, <2>2, <2>5, OutcomeStored DEF Outside
  <2> QED  BY <2>1, <2>4, <2>5
<1>6. CASE Tick
  BY <1>6 DEF Tick, auditVars, OutcomeInv, OutcomeOK
<1>7. CASE Restart
  <2>1. Cut /\ outcomes' = outcomes /\ decisions' = decisions
    BY <1>7, RestartEffect DEF Outside
  <2>2. ASSUME NEW r \in Requests
        PROVE  /\ requests'[r].kind = requests[r].kind
               /\ requests'[r].target = requests[r].target
               /\ requests'[r].told = requests[r].told
               /\ requests'[r].stage \in {requests[r].stage, "over"}
    BY <2>1 DEF Cut, Alike, Fields
  <2>3. ASSUME NEW r \in Requests PROVE OutcomeOK(r, requests'[r], decisions', outcomes')
    <3>1. OutcomeOK(r, requests[r], decisions, outcomes)
      BY DEF OutcomeInv
    <3> QED  BY <2>1, <2>2, <3>1 DEF OutcomeOK
  <2>4. \A o \in outcomes : requests'[o[2]].stage = "over"
    BY <2>2 DEF OutcomeInv
  <2> QED  BY <2>1, <2>3, <2>4 DEF OutcomeInv
<1>8. CASE UNCHANGED chatVars
  BY <1>8 DEF chatVars, auditVars, OutcomeInv, OutcomeOK
<1> QED  BY <1>1, <1>2, <1>3, <1>4, <1>5, <1>6, <1>7, <1>8
         DEF ChatNext, QuietStep, SendStep

LEMMA OutcomeInit == ChatInit => OutcomeInv
BY NoRequestShaped DEF ChatInit, OutcomeInv, OutcomeOK

\* However the reports on a decision interleave, fail or are cut by a restart: it
\* keeps one outcome, and every report is told the truth about it.
THEOREM OneOutcomeHolds == ChatSpec => []OneOutcome
<1>1. ChatInit => Shaped /\ OutcomeInv
  BY ShapedInit, OutcomeInit
<1>2. Shaped /\ OutcomeInv /\ [ChatNext]_chatVars => (Shaped /\ OutcomeInv)'
  BY ShapedStep, OutcomeStep
<1>3. OutcomeInv => OneOutcome
  BY DEF OutcomeInv, OutcomeOK, OneOutcome
<1> QED  BY <1>1, <1>2, <1>3, PTL DEF ChatSpec

-----------------------------------------------------------------------------
(* A revoked key stays out.                                                *)

KeyShape(ks) ==
    \A id \in DOMAIN ks : /\ DOMAIN ks[id] = {"tenant", "scopes", "limit", "active"}
                          /\ ks[id].limit \in Int

\* Keys are never removed, changed but in being active, or active again.
Grows(ks, ls) == /\ DOMAIN ks \subseteq DOMAIN ls
                 /\ \A id \in DOMAIN ks : /\ ls[id].tenant = ks[id].tenant
                                          /\ ls[id].scopes = ks[id].scopes
                                          /\ ls[id].limit = ks[id].limit
                                          /\ ~ks[id].active => ~ls[id].active

\* A request with a key that was revoked before it came.
Out(k) == Guarded(k.kind) /\ k.id \in k.revoked

\* What is known of a request k, the keys being ks.
KeyOK(k, ks) ==
    /\ \A id \in k.revoked : id \in DOMAIN ks /\ ~ks[id].active
    /\ Out(k) => /\ k.stage \in {"lookup", "authenticating", "over"}
                 /\ k.check = "none" /\ k.told # 200
                 /\ k.stage = "authenticating" => k.read = "revoked"
    /\ k.stage \in {"new", "lookup", "authenticating"} => k.check = "none"
    /\ Guarded(k.kind) /\ (k.stage \notin {"new", "lookup", "authenticating", "over"}
                              \/ k.told = 200)
           => k.check = "passed"
    /\ k.stage \in {"lookup", "authenticating"} => Guarded(k.kind)
    /\ k.stage = "authenticating" /\ k.read = "active" => k.id \in DOMAIN ks
    /\ k.check = "passed" => k.id \in DOMAIN ks
    /\ k.stage \in {"selecting", "updating"} =>
           k.kind = "revoke" /\ k.check = "passed" /\ "admin" \in ks[k.id].scopes
    /\ k.stage = "updating" =>
           k.target \in DOMAIN ks /\ ks[k.id].tenant = ks[k.target].tenant

\* Request k was an admin's, who had key id revoked.
Revoker(k, id, ks) == /\ k.kind = "revoke" /\ k.target = id /\ k.check = "passed"
                      /\ ks[k.id].tenant = ks[id].tenant
                      /\ "admin" \in ks[k.id].scopes

Seeded(id) == id \in DOMAIN deployment.keys /\ ~deployment.keys[id].active

KeyInv ==
    /\ KeyShape(keys)
    /\ \A r \in Requests : KeyOK(requests[r], keys)
    /\ \A id \in DOMAIN keys :
           ~keys[id].active => Seeded(id) \/ \E r \in Requests : Revoker(requests[r], id, keys)

LEMMA GrowsOK ==
    ASSUME NEW k, NEW ks, NEW ls, Grows(ks, ls), KeyOK(k, ks)
    PROVE  KeyOK(k, ls)
BY DEF Grows, KeyOK

LEMMA GrowsSame == ASSUME NEW ks PROVE Grows(ks, ks)
BY DEF Grows

\* What a step of request r must show of the keys for KeyInv to last: it keeps who
\* has had keys revoked, and is itself the one if it revokes one.
LEMMA KeyBecome ==
    ASSUME KeyInv, deployment' = deployment, NEW r \in Requests, NEW j, Becomes(r, j),
           KeyShape(keys'), Grows(keys, keys'), KeyOK(j, keys),
           requests[r].check = "passed" =>
               /\ j.check = "passed" /\ j.kind = requests[r].kind
               /\ j.id = requests[r].id /\ j.target = requests[r].target,
           \A id \in DOMAIN keys' :
               ~keys'[id].active => \/ id \in DOMAIN keys /\ ~keys[id].active
                                    \/ Revoker(j, id, keys')
    PROVE  KeyInv'
<1>1. ASSUME NEW q \in Requests PROVE KeyOK(requests'[q], keys')
  <2>1. KeyOK(requests'[q], keys)
    BY DEF Becomes, KeyInv
  <2> QED  BY <2>1, GrowsOK
<1>2. ASSUME NEW q \in Requests PROVE KeyOK(requests[q], keys)'
  BY <1>1 DEF KeyOK, Out, Guarded
<1>3. ASSUME NEW id \in DOMAIN keys', ~keys'[id].active
      PROVE  Seeded(id) \/ \E q \in Requests : Revoker(requests'[q], id, keys')
  <2>1. CASE Revoker(j, id, keys')
    BY <2>1 DEF Becomes
  <2>2. CASE id \in DOMAIN keys /\ ~keys[id].active
    <3>1. CASE Seeded(id)
      BY <3>1
    <3>2. ASSUME NEW q \in Requests, Revoker(requests[q], id, keys)
          PROVE  Revoker(requests'[q], id, keys')
      <4>1. requests[q].id \in DOMAIN keys
        BY <3>2 DEF KeyInv, KeyOK, Revoker
      <4>2. /\ requests'[q].check = "passed" /\ requests'[q].kind = requests[q].kind
            /\ requests'[q].id = requests[q].id /\ requests'[q].target = requests[q].target
        BY <3>2 DEF Becomes, Revoker
      <4> QED  BY <2>2, <3>2, <4>1, <4>2 DEF Revoker, Grows
    <3> QED  BY <2>2, <3>1, <3>2 DEF KeyInv
  <2> QED  BY <1>3, <2>1, <2>2
<1> QED  BY <1>2, <1>3 DEF KeyInv, Seeded, Revoker, KeyShape

\* A step that leaves the keys alone.
LEMMA KeySame ==
    ASSUME KeyInv, deployment' = deployment, keys' = keys, NEW r \in Requests, NEW j,
           Becomes(r, j), KeyOK(j, keys),
           requests[r].check = "passed" =>
               /\ j.check = "passed" /\ j.kind = requests[r].kind
               /\ j.id = requests[r].id /\ j.target = requests[r].target
    PROVE  KeyInv'
<1>1. KeyShape(keys') /\ Grows(keys, keys')
  BY GrowsSame DEF KeyInv
<1> QED  BY <1>1, KeyBecome

\* A request that has no key to check, or has it checked, and is in none of the
\* stages of the endpoints of keys.
LEMMA KeyElsewhere ==
    ASSUME KeyInv, deployment' = deployment, keys' = keys, NEW r \in Requests, NEW j,
           Becomes(r, j), Alike(j, requests[r], TurnFields),
           requests[r].stage \notin {"new", "lookup", "authenticating", "over"},
           j.stage \notin {"new", "lookup", "authenticating", "selecting", "updating"}
    PROVE  KeyInv'
<1>1. /\ j.check = requests[r].check /\ j.kind = requests[r].kind
      /\ j.id = requests[r].id /\ j.target = requests[r].target
      /\ j.revoked = requests[r].revoked
  BY DEF Alike, TurnFields, Fields
<1>2. KeyOK(requests[r], keys)
  BY DEF KeyInv
<1>3. KeyOK(j, keys)
  BY <1>1, <1>2 DEF KeyOK, Out
<1> QED  BY <1>1, <1>3, KeySame

LEMMA KeyReceive == ASSUME Shaped, KeyInv, NEW r \in Requests, Receive(r) PROVE KeyInv'
<1>1. PICK j : Becomes(r, j) /\ Arrived(j)
  BY ReceiveEffect
<1>2. /\ deployment' = deployment /\ keys' = keys /\ requests[r].check # "passed"
  BY ReceiveEffect, NoRequestShaped DEF Outside
<1>3. KeyOK(j, keys)
  BY <1>1 DEF Arrived, KeyOK, Out, Guarded
<1> QED  BY <1>1, <1>2, <1>3, KeySame

LEMMA KeyLookup == ASSUME Shaped, KeyInv, NEW r \in Requests, LookupReads(r) PROVE KeyInv'
<1>1. PICK j : /\ Becomes(r, j) /\ Alike(j, requests[r], {"stage", "read", "told"})
               /\ \/ /\ j.stage = "authenticating" /\ j.told = requests[r].told
                     /\ j.read = Looked(requests[r].id)
                  \/ j.stage = "over" /\ j.told = 500
  BY LookupEffect
<1>2. /\ deployment' = deployment /\ keys' = keys /\ requests[r].stage = "lookup"
  BY LookupEffect DEF Outside
<1>3. /\ j.check = requests[r].check /\ j.kind = requests[r].kind
      /\ j.id = requests[r].id /\ j.target = requests[r].target
      /\ j.revoked = requests[r].revoked
  BY <1>1 DEF Alike, Fields
<1>4. KeyOK(requests[r], keys)
  BY DEF KeyInv
<1>5. KeyOK(j, keys)
  BY <1>1, <1>2, <1>3, <1>4 DEF KeyOK, Out, Looked
<1> QED  BY <1>1, <1>2, <1>3, <1>5, KeySame

\* With a revoked key the record that was read says so, which ends the request.
LEMMA KeyAuthenticate ==
    ASSUME Shaped, KeyInv, NEW r \in Requests, Authenticate(r) PROVE KeyInv'
<1>1. PICK j : /\ Becomes(r, j) /\ Alike(j, requests[r], AdmitFields)
               /\ Admitted(requests[r], j)
  BY AuthenticateEffect
<1>2. /\ deployment' = deployment /\ keys' = keys /\ requests[r].stage = "authenticating"
  BY AuthenticateEffect DEF Outside
<1>3. /\ j.kind = requests[r].kind /\ j.id = requests[r].id
      /\ j.target = requests[r].target /\ j.revoked = requests[r].revoked
  BY <1>1 DEF Alike, AdmitFields, Fields
<1>4. KeyOK(requests[r], keys)
  BY DEF KeyInv
<1>5. /\ requests[r].check = "none" /\ Guarded(j.kind)
      /\ requests[r].read = "active" => requests[r].id \in DOMAIN keys /\ ~Out(requests[r])
  BY <1>2, <1>3, <1>4 DEF KeyOK
<1>6. Out(j) <=> Out(requests[r])
  BY <1>3 DEF Out
<1>7. KeyOK(j, keys)
  <2>1. CASE j.stage = "over" /\ j.check = "none" /\ j.told # 200
    BY <1>3, <1>4, <2>1 DEF KeyOK
  <2>2. CASE j.stage = "over" /\ requests[r].read = "active" /\ j.told # 200
    BY <1>3, <1>4, <1>5, <1>6, <2>2 DEF KeyOK
  <2>3. CASE /\ requests[r].read = "active" /\ j.check = "passed"
             /\ Scope[requests[r].kind] \in keys[requests[r].id].scopes
             /\ \/ j.stage \in {"thinking", "connecting", "asking"}
                \/ j.stage = "creating"
                \/ j.stage = "selecting" /\ requests[r].kind \notin {"chat", "create"}
    <3>1. j.stage = "selecting" => j.kind = "revoke" /\ "admin" \in keys[j.id].scopes
      BY <1>3, <1>5, <2>3 DEF Guarded, Scope
    <3> QED  BY <1>3, <1>4, <1>5, <1>6, <2>3, <3>1 DEF KeyOK
  <2> QED  BY <1>1, <2>1, <2>2, <2>3 DEF Admitted
<1> QED  BY <1>1, <1>2, <1>5, <1>7, KeySame

\* A key is created active, and the others stay as they are.
LEMMA CreatesGrow ==
    ASSUME KeyShape(keys), NEW id \in Keys \ DOMAIN keys, NEW n \in NewKeys,
           Creates(id, n[1], n[2], n[3])
    PROVE  /\ KeyShape(keys') /\ Grows(keys, keys')
           /\ \A i \in DOMAIN keys' : ~keys'[i].active => i \in DOMAIN keys /\ ~keys[i].active
<1> DEFINE g == GeneratedKey(n[1], n[2], n[3])
<1>1. /\ DOMAIN g = {"tenant", "scopes", "limit", "active"} /\ g.active = TRUE
      /\ g.limit \in Int
  BY NewKeysAssumption DEF GeneratedKey
<1>2. keys' = [i \in DOMAIN keys \cup {id} |-> IF i = id THEN g ELSE keys[i]]
  BY DEF Creates
<1> HIDE DEF g
<1> QED  BY <1>1, <1>2 DEF KeyShape, Grows

\* A key that is revoked is only made inactive.
LEMMA RevokesGrow ==
    ASSUME KeyShape(keys), NEW id \in DOMAIN keys, Revokes(id)
    PROVE  /\ KeyShape(keys') /\ Grows(keys, keys')
           /\ DOMAIN keys' = DOMAIN keys /\ \A i \in DOMAIN keys \ {id} : keys'[i] = keys[i]
<1>1. DOMAIN keys' = DOMAIN keys /\ \A i \in DOMAIN keys \ {id} : keys'[i] = keys[i]
  BY DEF Revokes
<1>2. /\ DOMAIN keys[id] = {"tenant", "scopes", "limit", "active"}
      /\ keys'[id] = [keys[id] EXCEPT !.active = FALSE]
  BY DEF KeyShape, Revokes
<1>3. /\ DOMAIN keys'[id] = {"tenant", "scopes", "limit", "active"}
      /\ keys'[id].tenant = keys[id].tenant /\ keys'[id].scopes = keys[id].scopes
      /\ keys'[id].limit = keys[id].limit /\ keys'[id].active = FALSE
  BY <1>2
<1> QED  BY <1>1, <1>3 DEF KeyShape, Grows

LEMMA KeyCreate == ASSUME Shaped, KeyInv, NEW r \in Requests, CreateReturns(r) PROVE KeyInv'
<1>1. PICK j : /\ Becomes(r, j) /\ Alike(j, requests[r], {"stage", "told"})
               /\ j.stage = "over"
  BY CreateEffect
<1>2. /\ deployment' = deployment /\ requests[r].stage = "creating"
      /\ \/ keys' = keys
         \/ \E id \in Keys \ DOMAIN keys, n \in NewKeys : Creates(id, n[1], n[2], n[3])
  BY CreateEffect DEF Outside
<1>3. /\ j.check = requests[r].check /\ j.kind = requests[r].kind
      /\ j.id = requests[r].id /\ j.target = requests[r].target
      /\ j.revoked = requests[r].revoked
  BY <1>1 DEF Alike, Fields
<1>4. KeyOK(requests[r], keys)
  BY DEF KeyInv
<1>5. KeyOK(j, keys)
  BY <1>1, <1>2, <1>3, <1>4 DEF KeyOK, Out
<1>6. CASE keys' = keys
  BY <1>1, <1>2, <1>3, <1>5, <1>6, KeySame
<1>7. ASSUME NEW id \in Keys \ DOMAIN keys, NEW n \in NewKeys, Creates(id, n[1], n[2], n[3])
      PROVE  KeyInv'
  <2>1. /\ KeyShape(keys') /\ Grows(keys, keys')
        /\ \A i \in DOMAIN keys' : ~keys'[i].active => i \in DOMAIN keys /\ ~keys[i].active
    BY <1>7, CreatesGrow DEF KeyInv
  <2> QED  BY <1>1, <1>2, <1>3, <1>5, <2>1, KeyBecome
<1> QED  BY <1>2, <1>6, <1>7

LEMMA KeySelect == ASSUME Shaped, KeyInv, NEW r \in Requests, SelectReturns(r) PROVE KeyInv'
<1>1. PICK j : /\ Becomes(r, j) /\ Alike(j, requests[r], {"stage", "told"})
               /\ \/ j.stage = "over" /\ j.told # 200
                  \/ /\ j.stage = "updating"
                     /\ requests[r].target \in Revocable(keys[requests[r].id].tenant)
  BY SelectEffect
<1>2. /\ deployment' = deployment /\ keys' = keys /\ requests[r].stage = "selecting"
  BY SelectEffect DEF Outside
<1>3. /\ j.check = requests[r].check /\ j.kind = requests[r].kind
      /\ j.id = requests[r].id /\ j.target = requests[r].target
      /\ j.revoked = requests[r].revoked
  BY <1>1 DEF Alike, Fields
<1>4. KeyOK(requests[r], keys)
  BY DEF KeyInv
<1>5. KeyOK(j, keys)
  BY <1>1, <1>2, <1>3, <1>4 DEF KeyOK, Out, Revocable
<1> QED  BY <1>1, <1>2, <1>3, <1>5, KeySame

\* A key is revoked by the request that selected it.
LEMMA KeyUpdate == ASSUME Shaped, KeyInv, NEW r \in Requests, UpdateReturns(r) PROVE KeyInv'
<1>1. PICK j : /\ Becomes(r, j) /\ Alike(j, requests[r], {"stage", "told"})
               /\ j.stage = "over"
  BY UpdateEffect
<1>2. /\ deployment' = deployment /\ requests[r].stage = "updating"
      /\ keys' = keys \/ Revokes(requests[r].target)
  BY UpdateEffect DEF Outside
<1>3. /\ j.check = requests[r].check /\ j.kind = requests[r].kind
      /\ j.id = requests[r].id /\ j.target = requests[r].target
      /\ j.revoked = requests[r].revoked
  BY <1>1 DEF Alike, Fields
<1>4. KeyOK(requests[r], keys)
  BY DEF KeyInv
<1>5. KeyOK(j, keys)
  BY <1>1, <1>2, <1>3, <1>4 DEF KeyOK, Out
<1>6. CASE keys' = keys
  BY <1>1, <1>2, <1>3, <1>5, <1>6, KeySame
<1>7. CASE Revokes(requests[r].target)
  <2> DEFINE id == requests[r].target
  <2>1. /\ j.kind = "revoke" /\ j.check = "passed" /\ j.target = id /\ j.id \in DOMAIN keys
        /\ id \in DOMAIN keys /\ keys[j.id].tenant = keys[id].tenant
        /\ "admin" \in keys[j.id].scopes
    BY <1>2, <1>3, <1>4 DEF KeyOK
  <2>2. /\ KeyShape(keys') /\ Grows(keys, keys')
        /\ DOMAIN keys' = DOMAIN keys /\ \A i \in DOMAIN keys \ {id} : keys'[i] = keys[i]
    BY <1>7, <2>1, RevokesGrow DEF KeyInv
  <2> HIDE DEF id
  <2>3. Revoker(j, id, keys')
    BY <2>1, <2>2 DEF Revoker, Grows
  <2>4. \A i \in DOMAIN keys' : ~keys'[i].active => \/ i \in DOMAIN keys /\ ~keys[i].active
                                                   \/ Revoker(j, i, keys')
    BY <2>2, <2>3
  <2> QED  BY <1>1, <1>2, <1>3, <1>5, <2>2, <2>4, KeyBecome
<1> QED  BY <1>2, <1>6, <1>7

\* A restart adds a key, an active one, where there is none.
LEMMA StartedEffect ==
    ASSUME NEW ks, KeyShape(ks)
    PROVE  /\ KeyShape(Started(ks)) /\ Grows(ks, Started(ks))
           /\ \A id \in DOMAIN Started(ks) :
                 ~Started(ks)[id].active => id \in DOMAIN ks /\ ~ks[id].active
<1>1. CASE Started(ks) = ks
  BY <1>1, GrowsSame
<1>2. CASE Started(ks) # ks
  <2> DEFINE g == GeneratedKey("bootstrap", {"admin", "chat"}, Rpm)
  <2>1. /\ DOMAIN g = {"tenant", "scopes", "limit", "active"} /\ g.active = TRUE
        /\ g.limit \in Int
    BY AccessAssumption DEF GeneratedKey
  <2>2. DOMAIN ks = {} /\ Started(ks) = [id \in {Bootstrap} |-> g]
    BY <1>2 DEF Started, Bootstrapped
  <2> HIDE DEF g
  <2> QED  BY <2>1, <2>2 DEF KeyShape, Grows
<1> QED  BY <1>1, <1>2

LEMMA KeyRestart == ASSUME Shaped, KeyInv, Restart PROVE KeyInv'
<1>1. Cut /\ deployment' = deployment /\ keys' = Started(keys)
  BY RestartEffect DEF Outside
<1>2. /\ KeyShape(keys') /\ Grows(keys, keys')
      /\ \A id \in DOMAIN keys' : ~keys'[id].active => id \in DOMAIN keys /\ ~keys[id].active
  BY <1>1, StartedEffect DEF KeyInv
<1>3. ASSUME NEW r \in Requests
      PROVE  /\ requests'[r].kind = requests[r].kind /\ requests'[r].id = requests[r].id
             /\ requests'[r].target = requests[r].target
             /\ requests'[r].revoked = requests[r].revoked
             /\ requests'[r].check = requests[r].check
             /\ requests'[r].read = requests[r].read
             /\ requests'[r].told = requests[r].told
             /\ requests'[r].stage \in {requests[r].stage, "over"}
  BY <1>1 DEF Cut, Alike, Fields
<1>4. ASSUME NEW r \in Requests PROVE KeyOK(requests[r], keys)'
  <2>1. KeyOK(requests[r], keys')
    BY <1>2, GrowsOK DEF KeyInv
  <2>2. KeyOK(requests'[r], keys')
    BY <1>3, <2>1 DEF KeyOK, Out
  <2> QED  BY <1>1, <2>2 DEF KeyOK, Out, Guarded
<1>5. ASSUME NEW id \in DOMAIN keys', ~keys'[id].active
      PROVE  Seeded(id) \/ \E r \in Requests : Revoker(requests'[r], id, keys')
  <2>1. id \in DOMAIN keys /\ ~keys[id].active
    BY <1>2, <1>5
  <2>2. ASSUME NEW r \in Requests, Revoker(requests[r], id, keys)
        PROVE  Revoker(requests'[r], id, keys')
    <3>1. requests[r].id \in DOMAIN keys
      BY <2>2 DEF KeyInv, KeyOK, Revoker
    <3> QED  BY <1>2, <1>3, <2>1, <2>2, <3>1 DEF Revoker, Grows
  <2> QED  BY <2>1, <2>2 DEF KeyInv
<1> QED  BY <1>1, <1>2, <1>4, <1>5 DEF KeyInv, Seeded, Revoker, KeyShape

LEMMA KeyStep == Shaped /\ KeyInv /\ [ChatNext]_chatVars => KeyInv'
<1> SUFFICES ASSUME Shaped, KeyInv, [ChatNext]_chatVars PROVE KeyInv'
  OBVIOUS
<1>1. ASSUME NEW r \in Requests, QuietStep(r) \/ SendStep(r) PROVE KeyInv'
  <2>1. /\ deployment' = deployment /\ keys' = keys /\ requests[r].stage \in TurnStages
        /\ \E j : /\ Becomes(r, j) /\ Alike(j, requests[r], TurnFields)
                  /\ j.stage \in TurnStages \cup {"over"}
    <3>1. CASE QuietStep(r)
      BY <3>1, QuietEffect DEF QuietGoes, QuietFields, Alike, Apart, TurnStages
    <3>2. CASE SendStep(r)
      BY <3>2, ThinkEffect, DialEffect, PostEffect DEF SendStep, SendGoes, TurnStages, Apart,
         SendFields, TurnFields, Alike
    <3> QED  BY <1>1, <3>1, <3>2
  <2> QED  BY <2>1, KeyElsewhere DEF TurnStages
<1>2. ASSUME NEW r \in Requests, ReportReads(r) \/ ReportReturns(r) PROVE KeyInv'
  <2>1. /\ deployment' = deployment /\ keys' = keys
        /\ requests[r].stage \in {"reading", "reporting"}
        /\ \E j : /\ Becomes(r, j) /\ Alike(j, requests[r], {"stage", "told"})
                  /\ j.stage \in {"reporting", "over"}
    BY <1>2, ReadEffect, ReportEffect DEF Outside
  <2>2. \E j : /\ Becomes(r, j) /\ Alike(j, requests[r], TurnFields)
               /\ j.stage \in {"reporting", "over"}
    BY <2>1 DEF Alike, TurnFields
  <2> QED  BY <2>1, <2>2, KeyElsewhere
<1>3. CASE Tick
  BY <1>3 DEF Tick, KeyInv, KeyShape, KeyOK, Out, Guarded, Seeded, Revoker
<1>4. CASE UNCHANGED chatVars
  BY <1>4 DEF chatVars, accessVars, KeyInv, KeyShape, KeyOK, Out, Guarded, Seeded, Revoker
<1> QED  BY <1>1, <1>2, <1>3, <1>4, KeyReceive, KeyLookup, KeyAuthenticate, KeyCreate,
            KeySelect, KeyUpdate, KeyRestart DEF ChatNext, QuietStep, SendStep

LEMMA KeyInit == ChatInit => KeyInv
<1> SUFFICES ASSUME ChatInit PROVE KeyInv
  OBVIOUS
<1>1. /\ deployment \in Deployments /\ keys = Started(deployment.keys)
      /\ \A r \in Requests : requests[r] = NoRequest
  BY DEF ChatInit
<1>2. KeyShape(deployment.keys)
  BY <1>1, ChatAssumption DEF KeyShape
<1>3. /\ KeyShape(keys)
      /\ \A id \in DOMAIN keys : ~keys[id].active => Seeded(id)
  BY <1>1, <1>2, StartedEffect DEF Seeded
<1>4. KeyOK(NoRequest, keys)
  BY DEF NoRequest, KeyOK, Out, Guarded
<1> QED  BY <1>1, <1>3, <1>4 DEF KeyInv

\* Whatever was read of a key before it was revoked and whatever restarts come
\* between: an endpoint that asks for a key works for nobody it has not let in, lets
\* nobody in by a key revoked before, and nobody but an admin of its tenant has a
\* key revoked.
THEOREM GuardedEndpointsKeepOutHolds == ChatSpec => []GuardedEndpointsKeepOut
<1>1. ChatInit => Shaped /\ KeyInv
  BY ShapedInit, KeyInit
<1>2. Shaped /\ KeyInv /\ [ChatNext]_chatVars => (Shaped /\ KeyInv)'
  BY ShapedStep, KeyStep
<1>3. Shaped /\ KeyInv => GuardedEndpointsKeepOut
  <2> SUFFICES ASSUME Shaped, KeyInv PROVE GuardedEndpointsKeepOut
    OBVIOUS
  <2>1. ASSUME NEW r \in Requests, Guarded(requests[r].kind)
        PROVE  /\ requests[r].stage \notin {"lookup", "authenticating", "over"}
                     \/ requests[r].told = 200 => requests[r].check = "passed"
               /\ requests[r].id \in requests[r].revoked => requests[r].check = "none"
    <3>1. requests[r].stage # "new"
      BY <2>1, NoRequestShaped DEF Shaped, Guarded
    <3> QED  BY <2>1, <3>1 DEF KeyInv, KeyOK, Out
  <2> QED  BY <2>1 DEF KeyInv, Seeded, Revoker, GuardedEndpointsKeepOut
<1> QED  BY <1>1, <1>2, <1>3, PTL DEF ChatSpec

-----------------------------------------------------------------------------
(* The rate limit is exact.                                                *)

\* The requests that have come.
Seen == {r \in Requests : requests[r].stage # "new"}

\* PassedWithin, the requests of run n being reqs.
Passing(reqs, n, id, t) ==
    {r \in Requests : /\ reqs[r].check = "passed"
                      /\ reqs[r].run = n
                      /\ reqs[r].id = id
                      /\ reqs[r].at \in (t - Minute + 1)..t}

\* The limit was exact for request k, if it is of run n.
Exact(k, reqs, n, ks) ==
    LET count == Cardinality(Passing(reqs, n, k.id, k.at)) IN
    k.run = n => /\ k.check = "passed" => count <= ks[k.id].limit
                 /\ k.check = "limited" => count >= ks[k.id].limit

\* What is known of a request k, the keys being ks.
LimitOK(k, ks) ==
    /\ k.id \in Keys
    /\ k.at \in Int /\ k.at <= now
    /\ k.run \in Int /\ k.run <= restarts
    /\ k.stage \notin {"new", "over"} => k.run = restarts
    /\ k.check # "none" => k.id \in DOMAIN ks

\* The window of a key holds exactly the requests that passed in the last minute,
\* and perhaps older ones.
Remembers(id) ==
    /\ windows[id] \subseteq Requests \X Int
    /\ Recent(id) = {<<r, requests[r].at>> : r \in Passing(requests, restarts, id, now)}

LimitInv ==
    /\ now \in Int /\ restarts \in Int
    /\ DOMAIN windows = Keys
    /\ IsFiniteSet(Seen)
    /\ \A r \in Requests : LimitOK(requests[r], keys)
    /\ \A id \in Keys : Remembers(id)
    /\ \A r \in Requests : Exact(requests[r], requests, restarts, keys)

LEMMA PassedFinite ==
    ASSUME Shaped, IsFiniteSet(Seen), NEW id, NEW t
    PROVE  IsFiniteSet(Passing(requests, restarts, id, t)) /\ Cardinality(Passing(requests, restarts, id, t)) \in Nat
<1>1. Passing(requests, restarts, id, t) \subseteq Seen
  BY NoRequestShaped DEF Passing, Seen, Shaped
<1> QED  BY <1>1, FS_Subset, FS_CardinalityType

\* So the length of the window is the number of those requests.
LEMMA CountIsRight ==
    ASSUME Shaped, IsFiniteSet(Seen), NEW id, Remembers(id)
    PROVE  Cardinality(Recent(id)) = Cardinality(Passing(requests, restarts, id, now))
<1> DEFINE P == Passing(requests, restarts, id, now)
           f == [r \in P |-> <<r, requests[r].at>>]
<1>1. Recent(id) = {<<r, requests[r].at>> : r \in P}
  BY DEF Remembers
<1>2. IsFiniteSet(P)
  BY PassedFinite
<1> HIDE DEF P
<1>3. f \in Bijection(P, Recent(id))
  BY <1>1 DEF Bijection, Injection, Surjection, IsInjective
<1> QED  BY <1>2, <1>3, FS_Bijection DEF ExistsBijection, P

LEMMA SeenFinite ==
    ASSUME IsFiniteSet(Seen), NEW r \in Requests, NEW j, Becomes(r, j)
    PROVE  IsFiniteSet(Seen')
<1>1. Seen' \subseteq Seen \cup {r}
  BY DEF Seen, Becomes
<1>2. IsFiniteSet(Seen \cup {r})
  BY FS_AddElement
<1> QED  BY <1>1, <1>2, FS_Subset

\* What was exact for a request is so still, if as many passed by the time it came.
LEMMA StaysExact ==
    ASSUME LimitInv, Grows(keys, keys'), restarts' = restarts, NEW q \in Requests,
           requests'[q] = requests[q],
           requests[q].check # "none" /\ requests[q].run = restarts =>
               Passing(requests', restarts, requests[q].id, requests[q].at)
                   = Passing(requests, restarts, requests[q].id, requests[q].at)
    PROVE  Exact(requests'[q], requests', restarts', keys')
<1>1. Exact(requests[q], requests, restarts, keys) /\ LimitOK(requests[q], keys)
  BY DEF LimitInv
<1>2. requests[q].check # "none" => keys'[requests[q].id].limit = keys[requests[q].id].limit
  BY <1>1 DEF LimitOK, Grows
<1> QED  BY <1>1, <1>2 DEF Exact

\* A step that lets nobody pass, nor refuses anybody for the limit.
LEMMA LimitBecome ==
    ASSUME Shaped, LimitInv, Grows(keys, keys'), NEW r \in Requests, NEW j, Becomes(r, j),
           windows' = windows, now' = now, restarts' = restarts,
           LimitOK(j, keys), j.check = requests[r].check,
           j.check # "none" => /\ j.id = requests[r].id /\ j.at = requests[r].at
                               /\ j.run = requests[r].run
    PROVE  LimitInv'
<1>1. ASSUME NEW id, NEW t
      PROVE  Passing(requests', restarts, id, t) = Passing(requests, restarts, id, t)
  BY DEF Passing, Becomes
<1>2. ASSUME NEW q \in Requests PROVE Exact(requests'[q], requests', restarts', keys')
  <2>1. CASE q # r
    BY <1>1, <2>1, StaysExact DEF Becomes
  <2>2. CASE q = r
    <3>1. Exact(requests[r], requests, restarts, keys) /\ LimitOK(requests[r], keys)
      BY DEF LimitInv
    <3>2. j.check # "none" => keys'[j.id].limit = keys[j.id].limit
      BY <3>1 DEF LimitOK, Grows
    <3> QED  BY <1>1, <2>2, <3>1, <3>2 DEF Exact, Becomes
  <2> QED  BY <2>1, <2>2
<1>3. ASSUME NEW q \in Requests PROVE LimitOK(requests[q], keys)'
  <2>1. LimitOK(requests'[q], keys)
    BY DEF Becomes, LimitInv
  <2> QED  BY <2>1 DEF LimitOK, Grows
<1>4. ASSUME NEW id \in Keys PROVE Remembers(id)'
  <2> DEFINE P == Passing(requests, restarts, id, now)
  <2>1. \A q \in P : requests'[q].at = requests[q].at
    BY DEF Passing, Becomes
  <2>2. Passing(requests', restarts', id, now') = P
    BY <1>1
  <2>3. Recent(id)' = {<<q, requests[q].at>> : q \in P} /\ windows'[id] \subseteq Requests \X Int
    BY DEF LimitInv, Remembers, Recent
  <2> HIDE DEF P
  <2>4. Recent(id)' = {<<q, requests'[q].at>> : q \in P}
    BY <2>1, <2>3
  <2> QED  BY <2>2, <2>3, <2>4 DEF Remembers
<1>5. IsFiniteSet(Seen')
  BY SeenFinite DEF LimitInv
<1> QED  BY <1>2, <1>3, <1>4, <1>5 DEF LimitInv

\* A step of a request that goes on, or ends, with nothing new of its key.
LEMMA LimitAside ==
    ASSUME Shaped, LimitInv, Grows(keys, keys'), NEW r \in Requests, NEW j, Becomes(r, j),
           windows' = windows, now' = now, restarts' = restarts,
           Alike(j, requests[r], TurnFields \cup {"read"}),
           requests[r].stage \notin {"new", "over"}
    PROVE  LimitInv'
<1>1. /\ j.id = requests[r].id /\ j.at = requests[r].at /\ j.run = requests[r].run
      /\ j.check = requests[r].check
  BY DEF Alike, TurnFields, Fields
<1>2. LimitOK(j, keys)
  BY <1>1 DEF LimitInv, LimitOK
<1> QED  BY <1>1, <1>2, LimitBecome

LEMMA LimitReceive ==
    ASSUME Shaped, KeyInv, LimitInv, NEW r \in Requests, Receive(r) PROVE LimitInv'
<1>1. /\ keys' = keys /\ requests[r] = NoRequest
      /\ \E j : Becomes(r, j) /\ Arrived(j)
  BY ReceiveEffect
<1>2. windows' = windows /\ now' = now /\ restarts' = restarts
  BY DEF Receive, accessVars
<1>3. PICK j : Becomes(r, j) /\ Arrived(j)
  BY <1>1
<1>4. requests[r].at = 0 /\ requests[r].check = "none"
  BY <1>1 DEF NoRequest
<1>5. LimitOK(j, keys)
  BY <1>3, <1>4 DEF LimitInv, LimitOK, Arrived
<1> QED  BY <1>1, <1>2, <1>3, <1>4, <1>5, GrowsSame, LimitBecome DEF Arrived

\* Whoever is let pass is one more in a window that had room, and whoever is refused
\* found it full.
LEMMA LimitAuthenticate ==
    ASSUME Shaped, KeyInv, LimitInv, NEW r \in Requests, Authenticate(r) PROVE LimitInv'
<1>1. PICK j : /\ Becomes(r, j) /\ Alike(j, requests[r], AdmitFields)
               /\ Rated(r, j) /\ j.at = now
  BY AuthenticateEffect
<1>2. /\ keys' = keys /\ now' = now /\ restarts' = restarts
      /\ requests[r].stage = "authenticating"
  BY DEF Authenticate, At
<1>3. j.id = requests[r].id /\ j.run = requests[r].run
  BY <1>1 DEF Alike, AdmitFields, Fields
<1>4. LimitOK(requests[r], keys) /\ KeyOK(requests[r], keys)
  BY DEF LimitInv, KeyInv
<1>5. /\ requests[r].check = "none" /\ requests[r].run = restarts /\ requests[r].id \in Keys
      /\ requests[r].read = "active" => requests[r].id \in DOMAIN keys
  BY <1>2, <1>4 DEF LimitOK, KeyOK
<1>6. now \in Int /\ Minute \in Nat \ {0} /\ DOMAIN windows = Keys /\ IsFiniteSet(Seen)
  BY AccessAssumption DEF LimitInv
<1>7. LimitOK(j, keys)
  BY <1>1, <1>3, <1>4, <1>5, <1>6 DEF LimitOK, Rated
<1>8. CASE j.check = "none" /\ windows' = windows
  BY <1>1, <1>2, <1>5, <1>7, <1>8, GrowsSame, LimitBecome
<1>9. CASE /\ requests[r].read = "active" /\ Counts(requests[r].id, r)
           /\ j.check = (IF WithinLimit(requests[r].id) THEN "passed" ELSE "limited")
  <2>0. PICK id \in Keys : id = requests[r].id
    BY <1>5
  <2> DEFINE P  == Passing(requests, restarts, id, now)
             N  == Cardinality(P)
             W  == IF j.check = "passed" THEN Recent(id) \cup {<<r, now>>} ELSE Recent(id)
  <2>1. /\ IsFiniteSet(P) /\ N \in Nat /\ N = Cardinality(Recent(id))
        /\ Remembers(id)
    BY <1>6, PassedFinite, CountIsRight DEF LimitInv
  <2>2. /\ keys[id].limit \in Int /\ j.check \in {"passed", "limited"}
        /\ j.check = "passed" <=> N < keys[id].limit
    BY <1>5, <1>9, <2>0, <2>1 DEF WithinLimit, KeyInv, KeyShape
  <2>3. windows' = [windows EXCEPT ![id] = W]
    BY <1>9, <2>0, <2>2 DEF Counts
  <2>4. ASSUME NEW i, NEW t \in Int, i # id \/ t < now \/ j.check # "passed"
        PROVE  Passing(requests', restarts, i, t) = Passing(requests, restarts, i, t)
    BY <1>1, <1>3, <1>5, <1>6, <2>0, <2>4 DEF Passing, Becomes
  <2>5. j.check = "passed" => /\ Passing(requests', restarts, id, now) = P \cup {r}
                              /\ r \notin P
    BY <1>1, <1>3, <1>5, <1>6, <2>0 DEF Passing, Becomes
  <2>6. Cardinality(Passing(requests', restarts, id, now))
            = (IF j.check = "passed" THEN N + 1 ELSE N)
    BY <1>6, <2>1, <2>4, <2>5, FS_AddElement
  <2>7. ASSUME NEW q \in Requests \ {r}
        PROVE  Exact(requests'[q], requests', restarts', keys')
    <3> DEFINE k == requests[q]
    <3>1. requests'[q] = k
      BY <1>1 DEF Becomes
    <3>2. k.at \in Int /\ k.at <= now /\ Exact(k, requests, restarts, keys)
      BY DEF LimitInv, LimitOK
    <3>3. CASE k.id # id \/ k.at < now \/ j.check # "passed"
      BY <1>2, <2>4, <3>1, <3>2, <3>3, GrowsSame, StaysExact
    <3>4. CASE k.id = id /\ k.at = now /\ j.check = "passed"
      BY <1>2, <2>1, <2>2, <2>6, <3>1, <3>2, <3>4 DEF Exact
    <3> QED  BY <1>6, <3>2, <3>3, <3>4
  <2>8. Exact(j, requests', restarts', keys')
    BY <1>1, <1>2, <1>3, <2>0, <2>1, <2>2, <2>6 DEF Exact
  <2>9. ASSUME NEW i \in Keys PROVE Remembers(i)'
    <3>1. CASE i # id
      <4>1. windows'[i] = windows[i] /\ Recent(i)' = Recent(i) /\ Remembers(i)
        BY <1>2, <2>3, <3>1 DEF Recent, LimitInv
      <4>2. Passing(requests', restarts', i, now') = Passing(requests, restarts, i, now)
        BY <1>2, <1>6, <2>4, <3>1
      <4>3. \A q \in Passing(requests, restarts, i, now) : requests'[q].at = requests[q].at
        BY <1>1, <1>5 DEF Passing, Becomes
      <4> QED  BY <4>1, <4>2, <4>3 DEF Remembers
    <3>2. CASE i = id
      <4>1. windows'[id] = W
        BY <1>6, <2>1, <2>3
      <4>2. W \subseteq Requests \X Int /\ \A a \in W : a[2] > now - Minute
        BY <1>6, <2>1 DEF Remembers, Recent
      <4>3. Recent(id)' = W
        BY <1>2, <4>1, <4>2 DEF Recent
      <4>4. Recent(id) = {<<q, requests'[q].at>> : q \in P}
        <5>1. \A q \in P : requests'[q].at = requests[q].at
          BY <1>1, <1>5 DEF Passing, Becomes
        <5>2. Recent(id) = {<<q, requests[q].at>> : q \in P}
          BY <2>1 DEF Remembers
        <5> HIDE DEF P
        <5> QED  BY <5>1, <5>2
      <4>5. W = {<<q, requests'[q].at>> : q \in Passing(requests', restarts', id, now')}
        <5> DEFINE Q == Passing(requests', restarts', id, now')
        <5>1. Q = IF j.check = "passed" THEN P \cup {r} ELSE P
          BY <1>2, <1>6, <2>4, <2>5
        <5>2. requests'[r].at = now
          BY <1>1 DEF Becomes
        <5> HIDE DEF P, Q
        <5>3. W = {<<q, requests'[q].at>> : q \in Q}
          <6>1. CASE j.check = "passed"
            BY <4>4, <5>1, <5>2, <6>1
          <6>2. CASE j.check # "passed"
            BY <4>4, <5>1, <6>2
          <6> QED  BY <6>1, <6>2
        <5> QED  BY <5>3 DEF Q
      <4> QED  BY <3>2, <4>1, <4>2, <4>3, <4>5 DEF Remembers
    <3> QED  BY <3>1, <3>2
  <2>10. ASSUME NEW q \in Requests PROVE LimitOK(requests[q], keys)'
    <3>1. LimitOK(requests'[q], keys)
      BY <1>1, <1>7 DEF Becomes, LimitInv
    <3> QED  BY <1>2, <3>1 DEF LimitOK
  <2>11. IsFiniteSet(Seen')
    BY <1>1, <1>6, SeenFinite
  <2>12. \A q \in Requests : Exact(requests[q], requests, restarts, keys)'
    BY <1>1, <2>7, <2>8 DEF Becomes
  <2> QED  BY <1>2, <1>6, <2>3, <2>9, <2>10, <2>11, <2>12 DEF LimitInv
<1> QED  BY <1>1, <1>8, <1>9 DEF Rated

\* Of what a window held for the minute, what is a minute old by now is forgotten.
LEMMA LimitTick == ASSUME Shaped, LimitInv, Tick PROVE LimitInv'
<1>1. /\ now' = now + 1 /\ restarts' = restarts /\ requests' = requests
      /\ keys' = keys /\ windows' = windows
  BY DEF Tick
<1>2. now \in Int /\ restarts \in Int /\ Minute \in Nat \ {0}
  BY AccessAssumption DEF LimitInv
<1>3. ASSUME NEW q \in Requests
      PROVE  LimitOK(requests[q], keys)' /\ Exact(requests[q], requests, restarts, keys)'
  <2>1. LimitOK(requests[q], keys) /\ Exact(requests[q], requests, restarts, keys)
    BY DEF LimitInv
  <2> QED  BY <1>1, <1>2, <2>1 DEF LimitOK, Exact, Passing
<1>4. ASSUME NEW id \in Keys PROVE Remembers(id)'
  <2> DEFINE P == Passing(requests, restarts, id, now)
             Q == Passing(requests, restarts, id, now + 1)
  <2>1. windows[id] \subseteq Requests \X Int /\ Recent(id) = {<<q, requests[q].at>> : q \in P}
    BY DEF LimitInv, Remembers
  <2>2. Recent(id)' = {a \in Recent(id) : a[2] > now + 1 - Minute}
    BY <1>1, <1>2, <2>1 DEF Recent
  <2>3. Q = {q \in P : requests[q].at > now + 1 - Minute}
    <3>1. \A q \in Requests : requests[q].at \in Int /\ requests[q].at <= now
      BY DEF LimitInv, LimitOK
    <3> QED  BY <1>2, <3>1 DEF Passing
  <2>4. Passing(requests', restarts', id, now') = Q
    BY <1>1
  <2> HIDE DEF P, Q
  <2>5. Recent(id)' = {<<q, requests'[q].at>> : q \in Q}
    BY <1>1, <2>1, <2>2, <2>3
  <2> QED  BY <1>1, <2>1, <2>4, <2>5 DEF Remembers
<1>5. IsFiniteSet(Seen')
  BY <1>1 DEF LimitInv, Seen
<1> QED  BY <1>1, <1>2, <1>3, <1>4, <1>5 DEF LimitInv

\* No request is of the new run, and its windows are empty.
LEMMA LimitRestart == ASSUME Shaped, KeyInv, LimitInv, Restart PROVE LimitInv'
<1>1. Cut /\ keys' = Started(keys)
  BY RestartEffect
<1>2. /\ restarts' = restarts + 1 /\ now' = now /\ now \in Int /\ restarts \in Int
      /\ windows' = [id \in Keys |-> {}]
  BY DEF Restart, LimitInv
<1>3. Grows(keys, keys')
  BY <1>1, StartedEffect DEF KeyInv
<1>4. ASSUME NEW q \in Requests
      PROVE  /\ requests'[q].id = requests[q].id /\ requests'[q].at = requests[q].at
             /\ requests'[q].run = requests[q].run /\ requests'[q].check = requests[q].check
             /\ requests'[q].stage \in {"new", "over"}
             /\ requests[q].stage = "new" => requests'[q].stage = "new"
  <2>1. DOMAIN requests[q] = Fields
    BY OwnFields
  <2>2. \/ requests[q].stage \in {"new", "over"} /\ requests'[q] = requests[q]
        \/ /\ requests[q].stage # "new"
           /\ requests'[q] = [requests[q] EXCEPT !.stage = "over", !.todo = <<>>]
    BY DEF Restart
  <2> QED  BY <2>1, <2>2 DEF Fields
<1>5. ASSUME NEW q \in Requests PROVE LimitOK(requests[q], keys)' /\ requests'[q].run < restarts'
  <2>1. LimitOK(requests[q], keys)
    BY DEF LimitInv
  <2> QED  BY <1>2, <1>3, <1>4, <2>1 DEF LimitOK, Grows
<1>6. ASSUME NEW q \in Requests PROVE Exact(requests[q], requests, restarts, keys)'
  <2>1. requests'[q].run # restarts'
    BY <1>2, <1>5 DEF LimitOK
  <2> QED  BY <2>1 DEF Exact
<1>7. ASSUME NEW id \in Keys PROVE Remembers(id)'
  <2>1. Passing(requests', restarts', id, now') = {}
    <3>1. \A q \in Requests : requests'[q].run # restarts'
      BY <1>2, <1>5 DEF LimitOK
    <3> QED  BY <3>1 DEF Passing
  <2>2. windows'[id] = {} /\ Recent(id)' = {}
    BY <1>2 DEF Recent
  <2> QED  BY <2>1, <2>2 DEF Remembers
<1>8. IsFiniteSet(Seen')
  <2>1. Seen' \subseteq Seen
    BY <1>4 DEF Seen
  <2> QED  BY <2>1, FS_Subset DEF LimitInv
<1> QED  BY <1>2, <1>5, <1>6, <1>7, <1>8 DEF LimitInv

\* The steps that leave the rate limiter alone.
OffLimitStep(r) == QuietStep(r) \/ SendStep(r) \/ LookupReads(r) \/ CreateReturns(r)
                   \/ SelectReturns(r) \/ UpdateReturns(r) \/ ReportReads(r) \/ ReportReturns(r)

LEMMA OffLimitEffect ==
    ASSUME Shaped, KeyInv, NEW r \in Requests, OffLimitStep(r)
    PROVE  /\ windows' = windows /\ now' = now /\ restarts' = restarts
           /\ Grows(keys, keys') /\ requests[r].stage \notin {"new", "over"}
           /\ \E j : Becomes(r, j) /\ Alike(j, requests[r], TurnFields \cup {"read"})
<1>1. CASE QuietStep(r)
  <2>1. windows' = windows /\ now' = now /\ restarts' = restarts
    BY <1>1 DEF QuietStep, ConnectReturns, AskReturns, RespondReturns, ExtractReturns,
                AuditReturns, accessVars
  <2> QED  BY <1>1, <2>1, QuietEffect, GrowsSame
           DEF QuietGoes, QuietFields, Alike, Apart, TurnStages
<1>2. CASE SendStep(r)
  <2>1. windows' = windows /\ now' = now /\ restarts' = restarts
    BY <1>2 DEF SendStep, Think, DialReturns, PostReturns, accessVars
  <2>2. /\ keys' = keys /\ requests[r].stage \in {"thinking", "dialling", "posting"}
        /\ SendGoes(r)
    BY <1>2, ThinkEffect, DialEffect, PostEffect DEF SendStep, Apart
  <2> QED  BY <2>1, <2>2, GrowsSame DEF SendGoes, SendFields, TurnFields, Alike
<1>3. CASE LookupReads(r)
  <2>1. windows' = windows /\ now' = now /\ restarts' = restarts
    BY <1>3 DEF LookupReads, accessVars
  <2> QED  BY <1>3, <2>1, LookupEffect, GrowsSame DEF TurnFields, Alike
<1>4. CASE CreateReturns(r) \/ UpdateReturns(r)
  <2>1. windows' = windows /\ now' = now /\ restarts' = restarts
    BY <1>4 DEF CreateReturns, UpdateReturns
  <2>2. Grows(keys, keys')
    <3>1. CASE CreateReturns(r)
      BY <3>1, CreateEffect, CreatesGrow, GrowsSame DEF KeyInv
    <3>2. CASE UpdateReturns(r)
      <4>1. requests[r].target \in DOMAIN keys
        BY <3>2, UpdateEffect DEF KeyInv, KeyOK
      <4> QED  BY <3>2, <4>1, UpdateEffect, RevokesGrow, GrowsSame DEF KeyInv
    <3> QED  BY <1>4, <3>1, <3>2
  <2> QED  BY <1>4, <2>1, <2>2, CreateEffect, UpdateEffect DEF TurnFields, Alike
<1>5. CASE SelectReturns(r) \/ ReportReads(r) \/ ReportReturns(r)
  <2>1. windows' = windows /\ now' = now /\ restarts' = restarts
    BY <1>5 DEF SelectReturns, ReportReads, ReportReturns, accessVars
  <2> QED  BY <1>5, <2>1, SelectEffect, ReadEffect, ReportEffect, GrowsSame
           DEF TurnFields, Alike
<1> QED  BY <1>1, <1>2, <1>3, <1>4, <1>5 DEF OffLimitStep

LEMMA LimitStep == Shaped /\ KeyInv /\ LimitInv /\ [ChatNext]_chatVars => LimitInv'
<1> SUFFICES ASSUME Shaped, KeyInv, LimitInv, [ChatNext]_chatVars PROVE LimitInv'
  OBVIOUS
<1>1. ASSUME NEW r \in Requests, OffLimitStep(r) PROVE LimitInv'
  BY <1>1, OffLimitEffect, LimitAside
<1>2. CASE UNCHANGED chatVars
  BY <1>2 DEF chatVars, accessVars, LimitInv, LimitOK, Exact, Passing, Remembers, Recent, Seen
<1> QED  BY <1>1, <1>2, LimitReceive, LimitAuthenticate, LimitTick, LimitRestart
         DEF ChatNext, OffLimitStep, QuietStep, SendStep

LEMMA LimitInit == ChatInit => LimitInv
<1> SUFFICES ASSUME ChatInit PROVE LimitInv
  OBVIOUS
<1>1. /\ now = 0 /\ restarts = 0 /\ windows = [id \in Keys |-> {}]
      /\ \A r \in Requests : requests[r] = NoRequest
  BY DEF ChatInit
<1>2. /\ NoRequest.id \in Keys /\ NoRequest.at = 0 /\ NoRequest.run = 0
      /\ NoRequest.stage = "new" /\ NoRequest.check = "none"
  BY AccessAssumption DEF NoRequest
<1>3. \A r \in Requests : /\ LimitOK(requests[r], keys)
                          /\ Exact(requests[r], requests, restarts, keys)
  BY <1>1, <1>2 DEF LimitOK, Exact
<1>4. ASSUME NEW id \in Keys PROVE Remembers(id)
  BY <1>1, <1>2 DEF Remembers, Recent, Passing
<1>5. IsFiniteSet(Seen)
  <2>1. Seen = {}
    BY <1>1, <1>2 DEF Seen
  <2> QED  BY <2>1, FS_EmptySet
<1> QED  BY <1>1, <1>3, <1>4, <1>5 DEF LimitInv

\* However requests interleave, keys are created and revoked, and processes restart:
\* the window of a key is the record of who passed in the last minute, so no minute
\* has more requests of a key than its limit, and none is refused in one with fewer.
THEOREM RateLimitIsExactHolds == ChatSpec => []RateLimitIsExact
<1>1. ChatInit => Shaped /\ KeyInv /\ LimitInv
  BY ShapedInit, KeyInit, LimitInit
<1>2. Shaped /\ KeyInv /\ LimitInv /\ [ChatNext]_chatVars => (Shaped /\ KeyInv /\ LimitInv)'
  BY ShapedStep, KeyStep, LimitStep
<1>3. LimitInv => RateLimitIsExact
  BY DEF LimitInv, RateLimitIsExact, Exact, Passing, PassedWithin
<1> QED  BY <1>1, <1>2, <1>3, PTL DEF ChatSpec

-----------------------------------------------------------------------------
(* Memory is whole.                                                        *)

Item == {"search", "episodes", "edges", "episode", "entity", "relationship"} \X Int

\* The extraction of request k has been made; what it stores is known.
Past(k) == \/ k.stage \in {"auditing", "over"}
           \/ k.stage \in {"connecting", "asking"} /\ k.then = "auditing"

\* The items of a todo list come after the pieces they rest on, if st does not
\* hold those.
InOrder(r, todo, n, st) ==
    \A j \in DOMAIN todo : \A i \in 0..n :
        RestsOn(todo[j], i) => \/ <<r, Piece(i)>> \in st
                              \/ \E h \in 1..(j - 1) : todo[h] = Piece(i)

\* What is known of the memory calls of request r, that is as in k.
MemoryOK(r, k, st) ==
    /\ k.todo \in Seq(Item)
    /\ k.stage \in {"connecting", "asking"} =>
           /\ k.todo # <<>>
           /\ k.then = "thinking" => \A j \in DOMAIN k.todo : k.todo[j][1] \notin Writes
           /\ k.then = "auditing" => InOrder(r, k.todo, k.extracted[1], st)

MemoryInv ==
    /\ \A r \in Requests : MemoryOK(r, requests[r], stored)
    /\ \A s \in stored : s[1] \in Requests /\ Past(requests[s[1]])
    /\ MemoryIsWhole

\* A sequence given by its length and its elements.
LEMMA Sequence ==
    ASSUME NEW S, NEW n \in Nat, NEW s \in [1..n -> S]
    PROVE  s \in Seq(S) /\ Len(s) = n /\ DOMAIN s = 1..n
<1>1. s \in Seq(S)
  BY SeqDef
<1> QED  BY <1>1, LenProperties

\* A sequence with one more element in front, by position.
LEMMA Prefixed ==
    ASSUME NEW S, NEW x \in S, NEW t \in Seq(S), NEW m \in Nat, Len(t) = m
    PROVE  /\ <<x>> \o t \in Seq(S) /\ Len(<<x>> \o t) = 1 + m
           /\ DOMAIN (<<x>> \o t) = 1..(1 + m)
           /\ (<<x>> \o t)[1] = x
           /\ \A i \in 1..m : (<<x>> \o t)[1 + i] = t[i]
OBVIOUS

\* A recall stores nothing.
LEMMA RecallOnlyReads ==
    ASSUME NEW n \in Nat
    PROVE  /\ Recall(n) \in Seq(Item) /\ Recall(n) # <<>>
           /\ \A j \in DOMAIN Recall(n) : Recall(n)[j][1] \notin Writes
<1> DEFINE top == 2 * (IF n < 3 THEN n ELSE 3)
           Ask(i) == <<IF i % 2 = 1 THEN "episodes" ELSE "edges", (i + 1) \div 2>>
           asks == [i \in 1..top |-> Ask(i)]
           search == <<"search", 0>>
<1>1. top \in Nat
  OBVIOUS
<1> HIDE DEF top
<1>2. asks \in Seq(Item) /\ Len(asks) = top
  <2>1. asks \in [1..top -> Item]
    BY <1>1 DEF Item
  <2> HIDE DEF asks
  <2> QED  BY <1>1, <2>1, Sequence
<1>3. \A i \in 1..top : asks[i][1] \notin Writes
  BY DEF Writes
<1>4. search \in Item /\ search[1] \notin Writes
  BY DEF Writes, Item
<1>5. Recall(n) = <<search>> \o asks
  BY DEF Recall, top
<1> HIDE DEF asks, search
<1>6. /\ Recall(n) \in Seq(Item) /\ DOMAIN Recall(n) = 1..(1 + top)
      /\ Recall(n)[1] = search
      /\ \A i \in 1..top : Recall(n)[1 + i] = asks[i]
  BY <1>1, <1>2, <1>4, <1>5, Prefixed
<1>7. ASSUME NEW j \in 1..(1 + top) PROVE Recall(n)[j][1] \notin Writes
  <2>1. CASE j = 1
    BY <1>4, <1>6, <2>1
  <2>2. CASE j # 1
    <3>1. j - 1 \in 1..top /\ 1 + (j - 1) = j
      BY <1>1, <2>2
    <3> QED  BY <1>3, <1>6, <3>1
  <2> QED  BY <2>1, <2>2
<1>8. Recall(n) # <<>>
  BY <1>1, <1>6
<1> QED  BY <1>6, <1>7, <1>8

\* The episode, the entities and the relationships of an extraction, by position.
LEMMA ItemsAt ==
    ASSUME NEW n \in Nat, NEW m \in Nat
    PROVE  /\ Items(n, m) \in Seq(Item)
           /\ DOMAIN Items(n, m) = 1..(1 + n + m)
           /\ \A j \in 1..(1 + n + m) :
                 Items(n, m)[j] = IF j <= 1 + n THEN Piece(j - 1)
                                  ELSE <<"relationship", j - (1 + n)>>
<1> DEFINE first == <<"episode", 0>>
           Entity(i) == <<"entity", i>>
           Edge(i) == <<"relationship", i>>
           entities == [i \in 1..n |-> Entity(i)]
           edges == [i \in 1..m |-> Edge(i)]
<1>1. first \in Item /\ first = Piece(0)
  BY DEF Piece, Item
<1>2. /\ entities \in Seq(Item) /\ Len(entities) = n
      /\ edges \in Seq(Item) /\ Len(edges) = m
  <2>1. entities \in [1..n -> Item] /\ edges \in [1..m -> Item]
    BY DEF Item
  <2> HIDE DEF entities, edges
  <2> QED  BY <2>1, Sequence
<1>3. /\ \A i \in 1..n : entities[i] = Piece(i)
      /\ \A i \in 1..m : edges[i] = <<"relationship", i>>
  BY DEF Piece
<1>4. Items(n, m) = <<first>> \o entities \o edges
  BY DEF Items
<1> HIDE DEF first, entities, edges
<1> DEFINE pieces == <<first>> \o entities
<1>5. /\ pieces \in Seq(Item) /\ Len(pieces) = 1 + n /\ pieces[1] = first
      /\ \A i \in 1..n : pieces[1 + i] = entities[i]
  BY <1>1, <1>2, Prefixed
<1>6. Items(n, m) = pieces \o edges
  BY <1>4
<1> HIDE DEF pieces
<1>7. /\ Items(n, m) \in Seq(Item) /\ DOMAIN Items(n, m) = 1..(1 + n + m)
      /\ \A j \in 1..(1 + n + m) :
            Items(n, m)[j] = IF j <= 1 + n THEN pieces[j] ELSE edges[j - (1 + n)]
  <2> DEFINE whole == pieces \o edges
  <2>1. pieces \in Seq(Item) /\ edges \in Seq(Item)
    BY <1>2, <1>5
  <2>2. /\ whole \in Seq(Item) /\ Len(whole) = Len(pieces) + Len(edges)
        /\ \A j \in 1..(Len(pieces) + Len(edges)) :
               whole[j] = IF j <= Len(pieces) THEN pieces[j] ELSE edges[j - Len(pieces)]
    BY <2>1, ConcatProperties
  <2> HIDE DEF whole
  <2>3. Len(pieces) = 1 + n /\ Len(edges) = m
    BY <1>2, <1>5
  <2>4. Items(n, m) = whole
    BY <1>6 DEF whole
  <2> QED  BY <2>2, <2>3, <2>4
<1>8. ASSUME NEW j \in 1..(1 + n) PROVE pieces[j] = Piece(j - 1)
  <2>1. CASE j = 1
    BY <1>1, <1>5, <2>1
  <2>2. CASE j # 1
    <3>1. j - 1 \in 1..n /\ 1 + (j - 1) = j
      BY <2>2
    <3> QED  BY <1>3, <1>5, <3>1
  <2> QED  BY <2>1, <2>2
<1>9. ASSUME NEW j \in 1..(1 + n + m)
      PROVE  Items(n, m)[j] = IF j <= 1 + n THEN Piece(j - 1)
                              ELSE <<"relationship", j - (1 + n)>>
  <2>1. CASE j <= 1 + n
    <3>1. j \in 1..(1 + n)
      BY <2>1
    <3> QED  BY <1>7, <1>8, <2>1, <3>1
  <2>2. CASE ~(j <= 1 + n)
    <3>1. j - (1 + n) \in 1..m
      BY <2>2
    <3> QED  BY <1>3, <1>7, <2>2, <3>1
  <2> QED  BY <2>1, <2>2
<1> QED  BY <1>7, <1>9

\* What is extracted is stored in an order in which everything comes after what it
\* rests on.
LEMMA ItemsInOrder ==
    ASSUME NEW n \in Nat, NEW m \in Nat, NEW r, NEW st
    PROVE  InOrder(r, Items(n, m), n, st)
<1> DEFINE todo == Items(n, m)
<1>1. /\ DOMAIN todo = 1..(1 + n + m)
      /\ \A j \in 1..(1 + n + m) : todo[j] = IF j <= 1 + n THEN Piece(j - 1)
                                              ELSE <<"relationship", j - (1 + n)>>
  BY ItemsAt
<1> HIDE DEF todo
<1>2. ASSUME NEW j \in DOMAIN todo, NEW i \in 0..n, RestsOn(todo[j], i)
      PROVE  i + 1 \in 1..(j - 1)
  <2>1. j \in Nat
    BY <1>1
  <2>2. CASE j <= 1 + n
    <3>1. todo[j] = Piece(j - 1)
      BY <1>1, <2>2
    <3> QED  BY <1>2, <2>1, <2>2, <3>1 DEF RestsOn, Piece
  <2>3. CASE ~(j <= 1 + n)
    BY <2>1, <2>3
  <2> QED  BY <2>2, <2>3
<1>3. \A i \in 0..n : todo[i + 1] = Piece(i)
  BY <1>1
<1> QED  BY <1>2, <1>3 DEF InOrder, todo

LEMMA InOrderGrows ==
    ASSUME NEW r, NEW todo, NEW n, NEW st, NEW more, st \subseteq more, InOrder(r, todo, n, st)
    PROVE  InOrder(r, todo, n, more)
BY DEF InOrder

\* The first item rests on what is stored; when it is stored as well, or nothing
\* rests on it, the others are in order.
LEMMA InOrderHead ==
    ASSUME NEW r, NEW todo \in Seq(Item), todo # <<>>, NEW n, NEW st,
           InOrder(r, todo, n, st)
    PROVE  \A i \in 0..n : RestsOn(Head(todo), i) => <<r, Piece(i)>> \in st
<1>1. 1 \in DOMAIN todo /\ Head(todo) = todo[1] /\ 1..(1 - 1) = {}
  OBVIOUS
<1> QED  BY <1>1 DEF InOrder

LEMMA InOrderTail ==
    ASSUME NEW r, NEW todo \in Seq(Item), todo # <<>>, NEW n, NEW st, NEW more,
           InOrder(r, todo, n, st), st \subseteq more,
           Head(todo)[1] \in {"episode", "entity"} => <<r, Head(todo)>> \in more
    PROVE  InOrder(r, Tail(todo), n, more)
<1> SUFFICES ASSUME NEW j \in DOMAIN Tail(todo), NEW i \in 0..n, RestsOn(Tail(todo)[j], i),
                    <<r, Piece(i)>> \notin more
             PROVE  \E h \in 1..(j - 1) : Tail(todo)[h] = Piece(i)
  BY DEF InOrder
<1>1. /\ DOMAIN todo = 1..Len(todo) /\ Len(todo) \in Nat
      /\ DOMAIN Tail(todo) = 1..(Len(todo) - 1)
      /\ \A m \in 1..(Len(todo) - 1) : Tail(todo)[m] = todo[m + 1]
      /\ Head(todo) = todo[1]
  OBVIOUS
<1>2. j + 1 \in DOMAIN todo /\ todo[j + 1] = Tail(todo)[j] /\ (j + 1) - 1 = j
  BY <1>1
<1>3. PICK h \in 1..j : todo[h] = Piece(i)
  BY <1>2 DEF InOrder
<1>4. h # 1
  <2>1. Piece(i)[1] \in {"episode", "entity"}
    BY DEF Piece
  <2> QED  BY <1>1, <1>3, <2>1
<1>5. h - 1 \in 1..(j - 1) /\ Tail(todo)[h - 1] = todo[h]
  BY <1>1, <1>3, <1>4
<1> QED  BY <1>3, <1>5

\* What a step of request r must show of its todo list, and of what it stores, for
\* MemoryInv to last.
LEMMA MemoryBecome ==
    ASSUME MemoryInv, NEW r \in Requests, NEW j, Becomes(r, j), stored \subseteq stored',
           \A s \in stored' \ stored :
               /\ s[1] = r /\ Past(j)
               /\ \A i \in 0..j.extracted[1] : RestsOn(s[2], i) => <<r, Piece(i)>> \in stored',
           Past(requests[r]) => Past(j) /\ j.extracted = requests[r].extracted,
           MemoryOK(r, j, stored')
    PROVE  MemoryInv'
<1>1. ASSUME NEW q \in Requests PROVE MemoryOK(q, requests'[q], stored')
  <2>1. CASE q = r
    BY <2>1 DEF Becomes
  <2>2. CASE q # r
    <3>1. requests'[q] = requests[q] /\ MemoryOK(q, requests[q], stored)
      BY <2>2 DEF Becomes, MemoryInv
    <3> QED  BY <3>1, InOrderGrows DEF MemoryOK
  <2> QED  BY <2>1, <2>2
<1>2. ASSUME NEW s \in stored'
      PROVE  /\ s[1] \in Requests /\ Past(requests'[s[1]])
             /\ \A i \in 0..requests'[s[1]].extracted[1] :
                   RestsOn(s[2], i) => <<s[1], Piece(i)>> \in stored'
  <2>1. CASE s \in stored
    <3>1. /\ s[1] \in Requests /\ Past(requests[s[1]])
          /\ \A i \in 0..requests[s[1]].extracted[1] :
                RestsOn(s[2], i) => <<s[1], Piece(i)>> \in stored
      BY <2>1 DEF MemoryInv, MemoryIsWhole
    <3>2. Past(requests'[s[1]]) /\ requests'[s[1]].extracted = requests[s[1]].extracted
      BY <3>1 DEF Becomes
    <3> QED  BY <3>1, <3>2
  <2>2. CASE s \notin stored
    BY <2>2 DEF Becomes
  <2> QED  BY <2>1, <2>2
<1>3. \A i, n : /\ RestsOn(n, i)' = RestsOn(n, i) /\ Piece(i)' = Piece(i)
  BY DEF RestsOn, Piece
<1> QED  BY <1>1, <1>2, <1>3 DEF MemoryInv, MemoryIsWhole, MemoryOK, Past, InOrder

\* A step that stores nothing.
LEMMA MemoryKept ==
    ASSUME MemoryInv, NEW r \in Requests, NEW j, Becomes(r, j), stored' = stored,
           Past(requests[r]) => Past(j) /\ j.extracted = requests[r].extracted,
           MemoryOK(r, j, stored)
    PROVE  MemoryInv'
<1>1. MemoryOK(r, j, stored')
  BY DEF MemoryOK
<1> QED  BY <1>1, MemoryBecome

\* A step that leaves the memory of a request alone, which calls none.
LEMMA MemoryAside ==
    ASSUME MemoryInv, NEW r \in Requests, NEW j, Becomes(r, j), stored' = stored,
           j.todo = requests[r].todo, j.extracted = requests[r].extracted,
           j.stage \notin {"connecting", "asking"}, Past(requests[r]) => Past(j)
    PROVE  MemoryInv'
<1>1. requests[r].todo \in Seq(Item)
  BY DEF MemoryInv, MemoryOK
<1>2. MemoryOK(r, j, stored)
  BY <1>1 DEF MemoryOK
<1> QED  BY <1>2, MemoryKept

\* With a connection, opened or not, the items are asked for.
LEMMA MemoryConnect ==
    ASSUME Shaped, MemoryInv, NEW r \in Requests, ConnectReturns(r) PROVE MemoryInv'
<1>1. /\ stored' = stored /\ requests[r].stage = "connecting"
      /\ requests[r].then \in {"thinking", "auditing"}
  BY DEF ConnectReturns, At, Shaped, Led
<1>2. MemoryOK(r, requests[r], stored)
  BY DEF MemoryInv
<1>3. CASE Awaits(r, requests[r], "asking")
  <2>1. PICK j : Becomes(r, j) /\ j.stage = "asking" /\ Alike(j, requests[r], {"stage"})
    BY <1>3, AwaitsTo, OwnFields
  <2>2. /\ j.todo = requests[r].todo /\ j.then = requests[r].then
        /\ j.extracted = requests[r].extracted
    BY <2>1 DEF Alike, Fields
  <2>3. MemoryOK(r, j, stored)
    BY <1>1, <1>2, <2>1, <2>2 DEF MemoryOK
  <2> QED  BY <1>1, <2>1, <2>2, <2>3, MemoryKept DEF Past
<1>4. CASE Awaits(r, [requests[r] EXCEPT !.todo = <<>>], requests[r].then)
  <2> DEFINE k == [requests[r] EXCEPT !.todo = <<>>]
  <2>1. k.todo = <<>> /\ Alike(k, requests[r], {"todo"})
    BY DEF Shaped, Alike, Fields
  <2>2. Awaits(r, k, requests[r].then)
    BY <1>4
  <2> HIDE DEF k
  <2>3. PICK j : Becomes(r, j) /\ j.stage = requests[r].then /\ Alike(j, k, {"stage"})
    BY <2>1, <2>2, AwaitsTo DEF Alike
  <2>4. j.todo = <<>> /\ j.extracted = requests[r].extracted
    BY <2>1, <2>3 DEF Alike, Fields
  <2>5. MemoryOK(r, j, stored)
    BY <1>1, <2>3, <2>4 DEF MemoryOK
  <2> QED  BY <1>1, <2>3, <2>4, <2>5, MemoryKept DEF Past
<1> QED  BY <1>3, <1>4 DEF ConnectReturns

LEMMA TailFacts ==
    ASSUME NEW S, NEW s \in Seq(S), s # <<>>
    PROVE  /\ DOMAIN s = 1..Len(s) /\ 1 \in DOMAIN s /\ Head(s) = s[1]
           /\ Tail(s) \in Seq(S) /\ DOMAIN Tail(s) = 1..(Len(s) - 1)
           /\ \A i \in DOMAIN Tail(s) : i + 1 \in DOMAIN s /\ Tail(s)[i] = s[i + 1]
           /\ Len(s) # 1 => Tail(s) # <<>>
<1>1. Len(s) \in Nat /\ Len(s) # 0 /\ DOMAIN s = 1..Len(s)
  BY LenProperties
<1>2. /\ Tail(s) \in Seq(S) /\ Len(Tail(s)) = Len(s) - 1
      /\ \A i \in 1..Len(Tail(s)) : Tail(s)[i] = s[i + 1]
  BY HeadTailProperties
<1>3. DOMAIN Tail(s) = 1..(Len(s) - 1)
  BY <1>2, LenProperties
<1>4. Len(s) # 1 => Tail(s) # <<>>
  BY <1>1, <1>2
<1>5. Head(s) = s[1]
  OBVIOUS
<1> QED  BY <1>1, <1>2, <1>3, <1>4, <1>5

\* An answer: the next item is asked for, or none is left.
LEMMA AskTo ==
    ASSUME Shaped, MemoryInv, NEW r \in Requests, AskReturns(r)
    PROVE  \E j : /\ Becomes(r, j) /\ Alike(j, requests[r], {"stage", "todo"})
                  /\ \/ /\ j.stage = "asking" /\ j.todo = Tail(requests[r].todo)
                        /\ j.todo # <<>>
                        /\ \/ Stores(r, Head(requests[r].todo))
                           \/ Head(requests[r].todo)[1] = "relationship"
                     \/ j.stage = requests[r].then /\ j.todo \in Seq(Item)
<1>1. requests[r].todo \in Seq(Item) /\ requests[r].todo # <<>>
  BY DEF AskReturns, At, MemoryInv, MemoryOK
<1> DEFINE K(t) == [requests[r] EXCEPT !.todo = t]
<1>2. ASSUME NEW t \in Seq(Item), NEW s, Awaits(r, K(t), s)
      PROVE  \E j : /\ Becomes(r, j) /\ Alike(j, requests[r], {"stage", "todo"})
                    /\ j.stage = s /\ j.todo = t
  <2> DEFINE k == K(t)
  <2>1. k.todo = t /\ Alike(k, requests[r], {"todo"})
    BY DEF Shaped, Alike, Fields
  <2>2. Awaits(r, k, s)
    BY <1>2
  <2> HIDE DEF k
  <2>3. PICK j : Becomes(r, j) /\ j.stage = s /\ Alike(j, k, {"stage"})
    BY <2>1, <2>2, AwaitsTo DEF Alike
  <2>4. j.todo = t /\ Alike(j, requests[r], {"stage", "todo"})
    BY <2>1, <2>3 DEF Alike, Fields
  <2> QED  BY <2>3, <2>4
<1>3. CASE Awaits(r, [requests[r] EXCEPT !.todo = <<>>], requests[r].then)
  <2>1. <<>> \in Seq(Item)
    OBVIOUS
  <2>2. Awaits(r, K(<<>>), requests[r].then)
    BY <1>3
  <2> HIDE DEF K
  <2>3. PICK j : /\ Becomes(r, j) /\ Alike(j, requests[r], {"stage", "todo"})
                 /\ j.stage = requests[r].then /\ j.todo = <<>>
    BY <1>2, <2>1, <2>2
  <2>4. j.todo \in Seq(Item)
    BY <2>1, <2>3
  <2> QED  BY <2>3, <2>4
<1>4. CASE /\ Awaits(r, [requests[r] EXCEPT !.todo = Tail(@)],
                     IF Len(requests[r].todo) = 1 THEN requests[r].then ELSE "asking")
           /\ \/ Stores(r, Head(requests[r].todo))
              \/ Head(requests[r].todo)[1] = "relationship"
  <2> DEFINE t == Tail(requests[r].todo)
             n == Len(requests[r].todo)
  <2>1. t \in Seq(Item) /\ (n # 1 => t # <<>>)
    BY <1>1, TailFacts
  <2>2. Awaits(r, K(t), IF n = 1 THEN requests[r].then ELSE "asking")
    BY <1>4
  <2> HIDE DEF t, n, K
  <2>3. CASE n = 1
    BY <1>2, <2>1, <2>2, <2>3
  <2>4. CASE n # 1
    <3>1. PICK j : /\ Becomes(r, j) /\ Alike(j, requests[r], {"stage", "todo"})
                   /\ j.stage = "asking" /\ j.todo = t
      BY <1>2, <2>1, <2>2, <2>4
    <3> QED  BY <1>4, <2>1, <2>4, <3>1 DEF t
  <2> QED  BY <2>3, <2>4
<1> QED  BY <1>3, <1>4 DEF AskReturns

\* An item is stored after those it rests on; the rest is asked for in order, or not
\* at all.
LEMMA MemoryAsk ==
    ASSUME Shaped, MemoryInv, NEW r \in Requests, AskReturns(r) PROVE MemoryInv'
<1> DEFINE k == requests[r]
<1>1. k.stage = "asking" /\ k.then \in {"thinking", "auditing"}
  BY DEF AskReturns, At, Shaped, Led
<1>2. MemoryOK(r, k, stored) /\ k.todo \in Seq(Item) /\ k.todo # <<>>
  BY <1>1 DEF MemoryInv, MemoryOK
<1>3. PICK j : /\ Becomes(r, j) /\ Alike(j, k, {"stage", "todo"})
               /\ \/ /\ j.stage = "asking" /\ j.todo = Tail(k.todo) /\ j.todo # <<>>
                     /\ Stores(r, Head(k.todo)) \/ Head(k.todo)[1] = "relationship"
                  \/ j.stage = k.then /\ j.todo \in Seq(Item)
  BY AskTo
<1>4. j.then = k.then /\ j.extracted = k.extracted
  BY <1>3 DEF Alike, Fields
<1>5. j.todo \in Seq(Item) /\ j.stage \in {"asking", k.then}
  BY <1>2, <1>3, TailFacts
<1>6. \/ stored' = stored
      \/ Head(k.todo)[1] \in Writes /\ stored' = stored \cup {<<r, Head(k.todo)>>}
  BY DEF AskReturns, Stores
<1>7. CASE k.then = "thinking"
  <2>1. \A i \in DOMAIN k.todo : k.todo[i][1] \notin Writes
    BY <1>1, <1>2, <1>7 DEF MemoryOK
  <2>2. stored' = stored
    BY <1>2, <1>6, <2>1
  <2>3. j.stage = "asking" => \A i \in DOMAIN j.todo : j.todo[i][1] \notin Writes
    <3>1. \A i \in DOMAIN Tail(k.todo) :
              i + 1 \in DOMAIN k.todo /\ Tail(k.todo)[i] = k.todo[i + 1]
      BY <1>2, TailFacts
    <3> QED  BY <1>3, <1>7, <2>1, <3>1
  <2>4. MemoryOK(r, j, stored)
    BY <1>3, <1>4, <1>5, <1>7, <2>3 DEF MemoryOK
  <2> QED  BY <1>1, <1>3, <1>7, <2>2, <2>4, MemoryKept DEF Past
<1>8. CASE k.then = "auditing"
  <2> DEFINE n == k.extracted[1]
  <2>1. InOrder(r, k.todo, n, stored)
    BY <1>1, <1>2, <1>8 DEF MemoryOK
  <2>2. Past(k) /\ Past(j)
    BY <1>1, <1>4, <1>5, <1>8 DEF Past
  <2>3. \A i \in 0..n : RestsOn(Head(k.todo), i) => <<r, Piece(i)>> \in stored
    BY <1>2, <2>1, InOrderHead
  <2>4. stored \subseteq stored'
    BY <1>6
  <2>5. j.stage = "asking" => InOrder(r, j.todo, n, stored')
    <3>1. ASSUME j.stage = "asking"
          PROVE  /\ j.todo = Tail(k.todo)
                 /\ Head(k.todo)[1] \in {"episode", "entity"}
                        => <<r, Head(k.todo)>> \in stored'
      BY <1>1, <1>3, <3>1 DEF Stores, Writes
    <3> QED  BY <1>2, <2>1, <2>4, <3>1, InOrderTail
  <2>6. MemoryOK(r, j, stored')
    BY <1>3, <1>4, <1>5, <1>8, <2>5 DEF MemoryOK
  <2>7. \A s \in stored' \ stored : s = <<r, Head(k.todo)>>
    BY <1>6
  <2> HIDE DEF n
  <2> QED  BY <1>3, <1>4, <2>2, <2>3, <2>4, <2>6, <2>7, MemoryBecome DEF n
<1> QED  BY <1>1, <1>7, <1>8

\* What was extracted is asked for in order, or stored at once.
LEMMA MemoryExtract ==
    ASSUME Shaped, MemoryInv, NEW r \in Requests, ExtractReturns(r) PROVE MemoryInv'
<1>1. requests[r].stage = "extracting" /\ ~Past(requests[r])
  BY DEF ExtractReturns, At, Past
<1>2. CASE Awaits(r, requests[r], "auditing") /\ UNCHANGED memoryVars
  <2>1. PICK j : Becomes(r, j) /\ j.stage = "auditing" /\ Alike(j, requests[r], {"stage"})
    BY <1>2, AwaitsTo, OwnFields
  <2>2. j.todo = requests[r].todo /\ j.extracted = requests[r].extracted
    BY <2>1 DEF Alike, Fields
  <2> QED  BY <1>1, <1>2, <2>1, <2>2, MemoryAside DEF memoryVars
<1> DEFINE X(e) == [requests[r] EXCEPT !.extracted = e, !.then = "auditing",
                                       !.todo = Items(e[1], e[2])]
<1>3. ASSUME NEW e \in Extractions, MemoryCall(r, X(e))
      PROVE  MemoryInv'
  <2> DEFINE k == X(e)
  <2>1. /\ k.extracted = e /\ k.then = "auditing" /\ k.todo = Items(e[1], e[2])
        /\ DOMAIN k = Fields
    BY DEF Shaped, Fields
  <2>2. PICK s \in {"connecting", "asking"} : Awaits(r, k, s)
    BY <1>3 DEF MemoryCall
  <2> HIDE DEF k
  <2>3. PICK j : Becomes(r, j) /\ j.stage = s /\ Alike(j, k, {"stage"})
    BY <2>1, <2>2, AwaitsTo
  <2>4. j.extracted = e /\ j.then = "auditing" /\ j.todo = Items(e[1], e[2])
    BY <2>1, <2>3 DEF Alike, Fields
  <2>5. e[1] \in Nat /\ e[2] \in Nat
    BY MemoryAssumption
  <2>6. /\ Items(e[1], e[2]) \in Seq(Item) /\ InOrder(r, Items(e[1], e[2]), e[1], stored)
        /\ DOMAIN Items(e[1], e[2]) = 1..(1 + e[1] + e[2])
    BY <2>5, ItemsAt, ItemsInOrder
  <2>7. Items(e[1], e[2]) # <<>>
    BY <2>5, <2>6
  <2>8. MemoryOK(r, j, stored) /\ stored' = stored
    BY <1>3, <2>4, <2>6, <2>7 DEF MemoryOK, MemoryCall
  <2> QED  BY <1>1, <2>3, <2>8, MemoryKept
<1>4. ASSUME NEW e \in Extractions, StoresAll(r, X(e).todo),
             Awaits(r, [X(e) EXCEPT !.todo = <<>>], "auditing")
      PROVE  MemoryInv'
  <2> DEFINE x == X(e)
             k == [x EXCEPT !.todo = <<>>]
             items == Items(e[1], e[2])
  <2>1. x.extracted = e /\ x.todo = items /\ DOMAIN x = Fields
    BY DEF Shaped, Fields
  <2>2. StoresAll(r, items) /\ Awaits(r, k, "auditing")
    BY <1>4, <2>1
  <2> HIDE DEF x, items
  <2>3. k.extracted = e /\ k.todo = <<>> /\ DOMAIN k = Fields
    BY <2>1 DEF Fields
  <2> HIDE DEF k
  <2>4. PICK j : Becomes(r, j) /\ j.stage = "auditing" /\ Alike(j, k, {"stage"})
    BY <2>2, <2>3, AwaitsTo
  <2>5. j.extracted = e /\ j.todo = <<>>
    BY <2>3, <2>4 DEF Alike, Fields
  <2>6. MemoryOK(r, j, stored') /\ Past(j)
    BY <2>4, <2>5 DEF MemoryOK, Past
  <2>7. e[1] \in Nat /\ e[2] \in Nat
    BY MemoryAssumption
  <2>8. InOrder(r, items, e[1], {})
    BY <2>7, ItemsInOrder DEF items
  <2>9. stored' = stored \cup {<<r, items[i]>> : i \in DOMAIN items}
    BY <2>2 DEF StoresAll
  <2>10. DOMAIN items = 1..(1 + e[1] + e[2])
    BY <2>7, ItemsAt DEF items
  <2>11. ASSUME NEW s \in stored' \ stored
         PROVE  /\ s[1] = r
                /\ \A i \in 0..e[1] : RestsOn(s[2], i) => <<r, Piece(i)>> \in stored'
    <3>1. PICK h \in DOMAIN items : s = <<r, items[h]>>
      BY <2>9
    <3>2. ASSUME NEW i \in 0..e[1], RestsOn(items[h], i)
          PROVE  <<r, Piece(i)>> \in stored'
      <4>1. PICK g \in 1..(h - 1) : items[g] = Piece(i)
        BY <2>8, <3>2 DEF InOrder
      <4>2. g \in DOMAIN items
        BY <2>7, <2>10, <4>1
      <4> QED  BY <2>9, <4>1, <4>2
    <3> QED  BY <3>1, <3>2
  <2> QED  BY <1>1, <2>4, <2>5, <2>6, <2>9, <2>11, MemoryBecome
<1> QED  BY <1>2, <1>3, <1>4 DEF ExtractReturns

\* A turn begins with a recall, which only reads.
LEMMA MemoryBegin ==
    ASSUME Shaped, NEW r \in Requests, NEW k, DOMAIN k = Fields, k.todo \in Seq(Item),
           BeginTurn(r, k)
    PROVE  stored' = stored /\ MemoryOK(r, requests'[r], stored)
<1>1. CASE Awaits(r, k, "thinking") /\ UNCHANGED memoryVars
  <2>1. PICK j : Becomes(r, j) /\ j.stage = "thinking" /\ Alike(j, k, {"stage"})
    BY <1>1, AwaitsTo
  <2>2. j.todo = k.todo /\ requests'[r] = j
    BY <2>1 DEF Alike, Fields, Becomes
  <2> QED  BY <1>1, <2>1, <2>2 DEF MemoryOK, memoryVars
<1>2. ASSUME NEW n \in 0..Found,
             MemoryCall(r, [k EXCEPT !.todo = Recall(n), !.then = "thinking"])
      PROVE  stored' = stored /\ MemoryOK(r, requests'[r], stored)
  <2> DEFINE m == [k EXCEPT !.todo = Recall(n), !.then = "thinking"]
  <2>1. m.todo = Recall(n) /\ m.then = "thinking" /\ DOMAIN m = Fields
    BY DEF Fields
  <2>2. PICK s \in {"connecting", "asking"} : Awaits(r, m, s)
    BY <1>2 DEF MemoryCall
  <2> HIDE DEF m
  <2>3. PICK j : Becomes(r, j) /\ j.stage = s /\ Alike(j, m, {"stage"})
    BY <2>1, <2>2, AwaitsTo
  <2>4. j.todo = Recall(n) /\ j.then = "thinking" /\ requests'[r] = j
    BY <2>1, <2>3 DEF Alike, Fields, Becomes
  <2>5. n \in Nat
    BY MemoryAssumption
  <2>6. MemoryOK(r, j, stored)
    BY <2>4, <2>5, RecallOnlyReads DEF MemoryOK
  <2> QED  BY <1>2, <2>4, <2>6 DEF MemoryCall
<1> QED  BY <1>1, <1>2 DEF BeginTurn

LEMMA MemoryReceive ==
    ASSUME Shaped, MemoryInv, NEW r \in Requests, Receive(r) PROVE MemoryInv'
<1>1. PICK j : Becomes(r, j) /\ Arrived(j)
  BY ReceiveEffect
<1>2. ~Past(requests[r])
  BY ReceiveEffect, NoRequestShaped DEF Past
<1> DEFINE New(kind, id, target) ==
               [NoRequest EXCEPT !.kind = kind, !.id = id, !.target = target,
                                 !.run = restarts,
                                 !.revoked = {i \in DOMAIN keys : ~keys[i].active}]
           Either(kind, id, target) ==
               \/ /\ Guarded(kind)
                  /\ \/ Awaits(r, New(kind, id, target), "lookup")
                     \/ Tells(r, New(kind, id, target), 401)
                  /\ UNCHANGED memoryVars
               \/ kind \in Turns /\ ~Guarded(kind) /\ BeginTurn(r, New(kind, id, target))
               \/ /\ kind \in {"outcome", "feedback"}
                  /\ Awaits(r, New(kind, id, target), "reading")
                  /\ UNCHANGED memoryVars
<1>0. PICK kind \in deployment.kinds :
          \E id \in IF Guarded(kind) THEN Keys ELSE {Bootstrap}, target \in Targets(kind) :
              Either(kind, id, target)
  BY Zenon DEF Receive
<1>3. PICK id \in IF Guarded(kind) THEN Keys ELSE {Bootstrap}, target \in Targets(kind) :
          Either(kind, id, target)
  BY <1>0
<1> DEFINE k == New(kind, id, target)
<1>4. k.todo = <<>> /\ DOMAIN k = Fields
  BY DEF NoRequest, Fields
<1> HIDE DEF New
<1>5. k.todo \in Seq(Item)
  BY <1>4
<1>6. CASE BeginTurn(r, k)
  <2>1. stored' = stored /\ MemoryOK(r, j, stored)
    BY <1>1, <1>4, <1>5, <1>6, MemoryBegin DEF Becomes
  <2> QED  BY <1>1, <1>2, <2>1, MemoryKept
<1>7. CASE /\ Awaits(r, k, "lookup") \/ Tells(r, k, 401) \/ Awaits(r, k, "reading")
           /\ UNCHANGED memoryVars
  <2>1. PICK i : /\ Becomes(r, i) /\ i.stage \in {"lookup", "over", "reading"}
                 /\ Alike(i, k, {"stage", "told"})
    BY <1>4, <1>7, AwaitsTo, TellsTo DEF Alike
  <2>2. i.todo = <<>>
    BY <1>4, <2>1 DEF Alike, Fields
  <2>3. MemoryOK(r, i, stored)
    BY <2>1, <2>2 DEF MemoryOK
  <2> QED  BY <1>2, <1>7, <2>1, <2>3, MemoryKept DEF memoryVars
<1> QED  BY <1>3, <1>6, <1>7

LEMMA MemoryAuthenticate ==
    ASSUME Shaped, MemoryInv, NEW r \in Requests, Authenticate(r) PROVE MemoryInv'
<1>1. requests[r].stage = "authenticating" /\ ~Past(requests[r])
  BY DEF Authenticate, At, Past
<1>2. requests[r].todo \in Seq(Item)
  BY DEF MemoryInv, MemoryOK
<1>3. PICK j : Becomes(r, j)
  BY AuthenticateEffect
<1> DEFINE k      == requests[r]
           status == Admission(k.id, k.read, Scope[k.kind])
           c      == [k EXCEPT !.at = now,
                               !.check = CASE status = 401 -> "none"
                                           [] status = 429 -> "limited"
                                           [] OTHER        -> "passed"]
           s      == IF k.kind = "create" THEN "creating" ELSE "selecting"
<1>4. \/ Tells(r, c, status) /\ UNCHANGED memoryVars
      \/ BeginTurn(r, c)
      \/ Awaits(r, c, s) /\ UNCHANGED memoryVars
  BY DEF Authenticate
<1>5. c.todo = requests[r].todo /\ DOMAIN c = Fields /\ s \in {"creating", "selecting"}
  BY DEF Shaped, Fields
<1> HIDE DEF c, s, status
<1>6. CASE BeginTurn(r, c)
  <2>1. stored' = stored /\ MemoryOK(r, j, stored)
    BY <1>2, <1>3, <1>5, <1>6, MemoryBegin DEF Becomes
  <2> QED  BY <1>1, <1>3, <2>1, MemoryKept
<1>7. CASE (Tells(r, c, status) \/ Awaits(r, c, s)) /\ UNCHANGED memoryVars
  <2>1. PICK i : /\ Becomes(r, i) /\ i.stage \in {"creating", "selecting", "over"}
                 /\ Alike(i, c, {"stage", "told"})
    BY <1>5, <1>7, AwaitsTo, TellsTo DEF Alike
  <2>2. i.todo = requests[r].todo
    BY <1>5, <2>1 DEF Alike, Fields
  <2>3. MemoryOK(r, i, stored)
    BY <1>2, <2>1, <2>2 DEF MemoryOK
  <2> QED  BY <1>1, <1>7, <2>1, <2>3, MemoryKept DEF memoryVars
<1> QED  BY <1>4, <1>6, <1>7

\* After a restart no todo list is left; the in-memory provider has lost everything,
\* the database nothing.
LEMMA MemoryRestart == ASSUME Shaped, MemoryInv, Restart PROVE MemoryInv'
<1>1. Cut /\ (stored' = {} \/ stored' = stored)
  BY RestartEffect DEF Restart
<1>2. ASSUME NEW r \in Requests
      PROVE  /\ MemoryOK(r, requests'[r], stored')
             /\ Past(requests[r]) => Past(requests'[r])
             /\ requests'[r].extracted = requests[r].extracted
  <2>1. MemoryOK(r, requests[r], stored)
    BY DEF MemoryInv
  <2>2. CASE requests[r].stage \in {"new", "over"}
    <3>1. requests'[r] = requests[r]
      BY <2>2 DEF Restart
    <3> QED  BY <2>1, <2>2, <3>1 DEF MemoryOK
  <2>3. CASE requests[r].stage \notin {"new", "over"}
    <3>1. requests'[r] = [requests[r] EXCEPT !.stage = "over", !.todo = <<>>]
      BY <2>3 DEF Restart
    <3>2. /\ requests'[r].stage = "over" /\ requests'[r].todo = <<>>
          /\ requests'[r].extracted = requests[r].extracted
      BY <3>1, OwnFields DEF Fields
    <3> QED  BY <3>2 DEF MemoryOK, Past
  <2> QED  BY <2>2, <2>3
<1>3. ASSUME NEW t \in stored'
      PROVE  /\ t[1] \in Requests /\ Past(requests'[t[1]])
             /\ \A i \in 0..requests'[t[1]].extracted[1] :
                   RestsOn(t[2], i) => <<t[1], Piece(i)>> \in stored'
  <2>1. /\ stored' = stored /\ t[1] \in Requests /\ Past(requests[t[1]])
        /\ \A i \in 0..requests[t[1]].extracted[1] :
              RestsOn(t[2], i) => <<t[1], Piece(i)>> \in stored
    BY <1>1, <1>3 DEF MemoryInv, MemoryIsWhole
  <2> QED  BY <1>2, <2>1
<1> QED  BY <1>2, <1>3 DEF MemoryInv, MemoryIsWhole, MemoryOK, Past, InOrder, RestsOn, Piece

LEMMA MemoryStep == Shaped /\ MemoryInv /\ [ChatNext]_chatVars => MemoryInv'
<1> SUFFICES ASSUME Shaped, MemoryInv, [ChatNext]_chatVars PROVE MemoryInv'
  OBVIOUS
<1>1. ASSUME NEW r \in Requests, RespondReturns(r) \/ AuditReturns(r) PROVE MemoryInv'
  <2>1. /\ stored' = stored
        /\ \/ requests[r].stage = "auditing" \/ ~Past(requests[r])
        /\ \/ Awaits(r, requests[r], "extracting") /\ ~Past(requests[r])
           \/ \E n \in {200, 500} : Tells(r, requests[r], n)
    BY <1>1 DEF RespondReturns, AuditReturns, At, Past, memoryVars
  <2>2. PICK j : /\ Becomes(r, j) /\ Alike(j, requests[r], {"stage", "told"})
                 /\ j.stage = "over" \/ (j.stage = "extracting" /\ ~Past(requests[r]))
    BY <2>1, Moves, Ends
  <2>3. j.todo = requests[r].todo /\ j.extracted = requests[r].extracted
    BY <2>2 DEF Alike, Fields
  <2> QED  BY <2>1, <2>2, <2>3, MemoryAside DEF Past
<1>2. ASSUME NEW r \in Requests, SendStep(r) PROVE MemoryInv'
  <2>1. stored' = stored /\ requests[r].stage \in {"thinking", "dialling", "posting"}
    BY <1>2 DEF SendStep, Think, DialReturns, PostReturns, At, memoryVars
  <2>2. PICK j : /\ Becomes(r, j) /\ Alike(j, requests[r], SendFields)
                 /\ j.stage \in {"dialling", "posting", "responding", "over"}
    BY <1>2, ThinkEffect, DialEffect, PostEffect DEF SendStep, SendGoes
  <2>3. j.todo = requests[r].todo /\ j.extracted = requests[r].extracted
    BY <2>2 DEF Alike, Fields, SendFields
  <2> QED  BY <2>1, <2>2, <2>3, MemoryAside DEF Past
<1>3. ASSUME NEW r \in Requests,
             LookupReads(r) \/ CreateReturns(r) \/ SelectReturns(r) \/ UpdateReturns(r)
             \/ ReportReads(r) \/ ReportReturns(r)
      PROVE  MemoryInv'
  <2>1. stored' = stored /\ ~Past(requests[r])
    BY <1>3 DEF LookupReads, CreateReturns, SelectReturns, UpdateReturns, ReportReads,
                ReportReturns, At, Past, memoryVars
  <2>2. PICK j : /\ Becomes(r, j) /\ Alike(j, requests[r], {"stage", "read", "told"})
                 /\ j.stage \in {"authenticating", "updating", "reporting", "over"}
    <3>1. CASE LookupReads(r)
      BY <3>1, LookupEffect
    <3>2. CASE \/ CreateReturns(r) \/ SelectReturns(r) \/ UpdateReturns(r)
               \/ ReportReads(r) \/ ReportReturns(r)
      BY <3>2, CreateEffect, SelectEffect, UpdateEffect, ReadEffect, ReportEffect DEF Alike
    <3> QED  BY <1>3, <3>1, <3>2
  <2>3. j.todo = requests[r].todo /\ j.extracted = requests[r].extracted
    BY <2>2 DEF Alike, Fields
  <2> QED  BY <2>1, <2>2, <2>3, MemoryAside
<1>4. CASE Tick
  BY <1>4 DEF Tick, memoryVars, MemoryInv, MemoryIsWhole, MemoryOK, Past, InOrder, RestsOn, Piece
<1>5. CASE UNCHANGED chatVars
  BY <1>5 DEF chatVars, memoryVars, MemoryInv, MemoryIsWhole, MemoryOK, Past, InOrder, RestsOn,
              Piece
<1> QED  BY <1>1, <1>2, <1>3, <1>4, <1>5, MemoryReceive, MemoryAuthenticate, MemoryConnect,
            MemoryAsk, MemoryExtract, MemoryRestart DEF ChatNext, SendStep

LEMMA MemoryInit == ChatInit => MemoryInv
<1>1. NoRequest.todo = <<>> /\ NoRequest.stage = "new"
  BY DEF NoRequest
<1> SUFFICES ASSUME ChatInit PROVE MemoryInv
  OBVIOUS
<1>2. \A r \in Requests : MemoryOK(r, NoRequest, stored)
  <2>1. <<>> \in Seq(Item)
    OBVIOUS
  <2> QED  BY <1>1, <2>1 DEF MemoryOK
<1>3. stored = {} /\ \A r \in Requests : requests[r] = NoRequest
  BY DEF ChatInit
<1> QED  BY <1>2, <1>3 DEF MemoryInv, MemoryIsWhole

\* However the connection, the database or the process fails on the way: memory
\* never holds an edge without the entities and the episode it rests on, nor an
\* entity without the earlier ones.
THEOREM MemoryIsWholeHolds == ChatSpec => []MemoryIsWhole
<1>1. ChatInit => Shaped /\ MemoryInv
  BY ShapedInit, MemoryInit
<1>2. Shaped /\ MemoryInv /\ [ChatNext]_chatVars => (Shaped /\ MemoryInv)'
  BY ShapedStep, MemoryStep
<1>3. MemoryInv => MemoryIsWhole
  BY DEF MemoryInv
<1> QED  BY <1>1, <1>2, <1>3, PTL DEF ChatSpec
===============================================================================
