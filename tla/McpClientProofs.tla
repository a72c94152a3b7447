---------------------------- MODULE McpClientProofs ----------------------------
(***************************************************************************)
(* What the outcome of a call tells of the server, for any tools, number   *)
(* of calls and of attempts.                                               *)
(*                                                                         *)
(* The properties speak of calls that have ended.  The invariant adds what *)
(* holds of a call under way - every attempt that could have been          *)
(* performed has been counted - and that the tools of the client are       *)
(* always those of the server.                                             *)
(***************************************************************************)
EXTENDS McpClient, TLAPS

CallRecords == [stage : {"off"} \cup InFlight \cup Outcomes,
                tool : Tools, next : {"post", "init", "list"},
                attempt : 1..MaxRetries, sub : 1..MaxRetries,
                performed : Nat]

\* What is known of a call.
CallOK(call) ==
    /\ call \in CallRecords
    /\ call.stage \in InFlight => call.performed < call.attempt
    /\ call.performed <= call.attempt
    /\ call.stage = "returned" => call.performed >= 1
    /\ call.stage \in {"off", "not_found"} => call.performed = 0
    /\ call.stage = "not_found" => call.tool \notin ServerTools

ClientOK ==
    /\ client \in [tools : SUBSET Tools, connected : BOOLEAN, open : BOOLEAN]
    /\ client.tools = ServerTools
    /\ closing \in {"no", "draining", "closed"}

McpInv == /\ ClientOK
          /\ calls = [c \in Calls |-> calls[c]]
          /\ \A c \in Calls : CallOK(calls[c])

\* The invariant gives the properties.
LEMMA McpInvGives ==
    ASSUME McpInv
    PROVE  McpTypeOK /\ OutcomeTellsWhatWasDone /\ NoSpuriousNotFound
<1>1. \A c \in Calls : calls[c] \in CallRecords
  BY DEF McpInv, CallOK
<1>2. McpTypeOK
  BY <1>1 DEF McpInv, ClientOK, McpTypeOK, CallRecords
<1>3. OutcomeTellsWhatWasDone
  BY McpAssumption DEF McpInv, CallOK, CallRecords, OutcomeTellsWhatWasDone, InFlight
<1>4. NoSpuriousNotFound
  BY DEF McpInv, CallOK, NoSpuriousNotFound
<1> QED  BY <1>2, <1>3, <1>4

\* A call that has not begun.
LEMMA IdleOK == /\ Idle \in CallRecords /\ Idle.stage = "off"
                /\ Idle.attempt = 1 /\ Idle.performed = 0
<1>1. Idle.tool \in Tools
  BY McpAssumption DEF Idle
<1>2. 1 \in 1..MaxRetries
  BY McpAssumption
<1> QED  BY <1>1, <1>2 DEF Idle, CallRecords

LEMMA McpInvInit == McpInit => McpInv
<1> SUFFICES ASSUME McpInit PROVE McpInv
  OBVIOUS
<1>1. ClientOK
  BY McpAssumption DEF McpInit, ClientOK
<1>2. CallOK(Idle)
  BY IdleOK DEF CallOK, InFlight
<1> QED  BY <1>1, <1>2 DEF McpInit, McpInv

\* A call begins, or is refused.
LEMMA CallBegins ==
    ASSUME NEW u \in Tools
    PROVE  /\ CallOK([Idle EXCEPT !.tool = u, !.stage = "post"])
           /\ u \notin ServerTools => CallOK([Idle EXCEPT !.tool = u, !.stage = "not_found"])
<1> DEFINE post == [Idle EXCEPT !.tool = u, !.stage = "post"]
           refused == [Idle EXCEPT !.tool = u, !.stage = "not_found"]
<1>1. post \in CallRecords /\ refused \in CallRecords
  BY IdleOK DEF CallRecords, InFlight, Outcomes
<1>2. post.stage = "post" /\ post.attempt = 1 /\ post.performed = 0
  BY IdleOK DEF CallRecords
<1>3. /\ refused.stage = "not_found" /\ refused.tool = u
      /\ refused.attempt = 1 /\ refused.performed = 0
  BY IdleOK DEF CallRecords
<1>4. CallOK(post) /\ (u \notin ServerTools => CallOK(refused))
  <2> HIDE DEF post, refused
  <2> QED  BY <1>1, <1>2, <1>3 DEF CallOK, InFlight
<1> QED  BY <1>4

\* A request that is answered may have been performed, and has been counted.
LEMMA CallAnswered ==
    ASSUME NEW call, CallOK(call), call.stage = "post",
           NEW done \in {call, [call EXCEPT !.performed = @ + 1]}
    PROVE  /\ done \in CallRecords /\ done.stage = "post"
           /\ done.performed <= done.attempt
           /\ done # call => done.performed >= 1
<1>1. /\ call \in CallRecords /\ call.performed \in Nat /\ call.attempt \in Nat
      /\ call.performed < call.attempt
  BY McpAssumption DEF CallOK, CallRecords, InFlight
<1>2. CASE done = [call EXCEPT !.performed = call.performed + 1]
  <2>1. done \in CallRecords
    BY <1>1, <1>2 DEF CallRecords
  <2>2. /\ done.stage = "post" /\ done.attempt = call.attempt
        /\ done.performed = call.performed + 1
    BY <1>1, <1>2 DEF CallRecords
  <2> QED  BY <1>1, <2>1, <2>2
<1>3. CASE done = call
  BY <1>1, <1>3
<1> QED  BY <1>2, <1>3

LEMMA CallEnding ==
    ASSUME NEW call \in CallRecords, call.performed <= call.attempt,
           NEW outcome \in Outcomes \ {"not_found"},
           outcome = "returned" => call.performed >= 1
    PROVE  CallOK([call EXCEPT !.stage = outcome])
<1> DEFINE end == [call EXCEPT !.stage = outcome]
<1>1. end \in CallRecords
  BY DEF CallRecords
<1>2. end.stage = outcome /\ end.attempt = call.attempt /\ end.performed = call.performed
  BY DEF CallRecords
<1>3. CallOK(end)
  <2> HIDE DEF end
  <2> QED  BY <1>1, <1>2 DEF CallOK, InFlight, Outcomes
<1> QED  BY <1>3

LEMMA CallRetried ==
    ASSUME NEW call \in CallRecords, call.performed <= call.attempt,
           call.attempt < MaxRetries
    PROVE  CallOK([call EXCEPT !.stage = "init", !.attempt = @ + 1, !.sub = 1])
<1> DEFINE again == [call EXCEPT !.stage = "init", !.attempt = @ + 1, !.sub = 1]
<1>1. /\ call.attempt + 1 \in 1..MaxRetries /\ 1 \in 1..MaxRetries
      /\ call.performed < call.attempt + 1 /\ call.performed <= call.attempt + 1
  BY McpAssumption DEF CallRecords
<1>2. again \in CallRecords
  BY <1>1 DEF CallRecords, InFlight
<1>3. /\ again.stage = "init" /\ again.attempt = call.attempt + 1
      /\ again.performed = call.performed
  BY DEF CallRecords
<1>4. CallOK(again)
  <2> HIDE DEF again
  <2> QED  BY <1>1, <1>2, <1>3 DEF CallOK
<1> QED  BY <1>4

\* A step of one call preserves the invariant if it leaves that call and the
\* client in order.
LEMMA OneCallMoves ==
    ASSUME McpInv, NEW c \in Calls, NEW call, CallOK(call),
           calls' = [calls EXCEPT ![c] = call], ClientOK'
    PROVE  McpInv'
<1>1. \A b \in Calls : calls'[b] = IF b = c THEN call ELSE calls[b]
  BY DEF McpInv
<1>2. \A b \in Calls : CallOK(calls'[b])
  BY <1>1 DEF McpInv
<1>3. calls' = [b \in Calls |-> calls'[b]]
  BY DEF McpInv
<1> QED  BY <1>2, <1>3 DEF McpInv, CallOK

LEMMA McpInvNext == McpInv /\ [McpNext]_mcpVars => McpInv'
<1> SUFFICES ASSUME McpInv, [McpNext]_mcpVars PROVE McpInv'
  OBVIOUS
<1> USE McpAssumption
<1>1. ClientOK /\ MaxRetries \in Nat \ {0}
  BY DEF McpInv
<1>2. ASSUME NEW c \in Calls, NEW u \in Tools, CallTool(c, u) PROVE McpInv'
  <2>1. CASE u \in client.tools
    <3>1. /\ calls' = [calls EXCEPT ![c] = [Idle EXCEPT !.tool = u, !.stage = "post"]]
          /\ ClientOK'
      BY <1>1, <1>2, <2>1 DEF CallTool, Sends, ClientOK
    <3> QED  BY <3>1, CallBegins, OneCallMoves
  <2>2. CASE u \notin client.tools
    <3>1. /\ calls' = [calls EXCEPT ![c] = [Idle EXCEPT !.tool = u, !.stage = "not_found"]]
          /\ ClientOK' /\ u \notin ServerTools
      BY <1>1, <1>2, <2>2 DEF CallTool, ClientOK
    <3> QED  BY <3>1, CallBegins, OneCallMoves
  <2> QED  BY <2>1, <2>2
<1>3. ASSUME NEW c \in Calls, Proceeds(c) PROVE McpInv'
  <2> DEFINE now == calls[c]
  <2>1. CallOK(now)
    BY DEF McpInv
  <2>0. /\ now \in CallRecords /\ now.performed \in Nat
        /\ now.attempt \in 1..MaxRetries /\ now.sub \in 1..MaxRetries
        /\ 1 \in 1..MaxRetries
        /\ \A n \in 1..MaxRetries : n < MaxRetries => n + 1 \in 1..MaxRetries
    <3>1. now \in CallRecords
      BY <2>1 DEF CallOK
    <3> QED  BY <3>1 DEF CallRecords
  <2>2. ASSUME NEW call \in Perhaps(c), now.stage = "post"
        PROVE  /\ call \in CallRecords /\ call.performed <= call.attempt
               /\ call # now => call.performed >= 1
    BY <2>1, <2>2, CallAnswered DEF Perhaps, Performed
  <2>3. ASSUME NEW call \in Perhaps(c), now.stage = "post",
               NEW outcome \in {"declined", "mcp_error", "other_error"}
        PROVE  CallOK([call EXCEPT !.stage = outcome])
    BY <2>2, <2>3, CallEnding DEF Outcomes
  <2>4. CASE ToolAnswers(c)
    <3>1. now.stage = "post" /\ ClientOK'
      BY <1>1, <2>4 DEF ToolAnswers, ClientOK
    <3>2. CASE calls' = [calls EXCEPT ![c] = [Performed(c) EXCEPT !.stage = "returned"]]
      <4>1. Performed(c) \in Perhaps(c) /\ Performed(c) # now
        BY <2>0 DEF Performed, Perhaps, CallRecords
      <4>2. CallOK([Performed(c) EXCEPT !.stage = "returned"])
        BY <2>2, <3>1, <4>1, CallEnding DEF Outcomes
      <4> QED  BY <3>1, <3>2, <4>2, OneCallMoves
    <3>3. CASE \E call \in Perhaps(c) :
                   calls' = [calls EXCEPT ![c] = [call EXCEPT !.stage = "declined"]]
      BY <2>3, <3>1, <3>3, OneCallMoves
    <3> QED  BY <2>4, <3>2, <3>3 DEF ToolAnswers
  <2>5. CASE ToolRaises(c)
    <3>1. now.stage = "post" /\ ClientOK'
      BY <1>1, <2>5 DEF ToolRaises, ClientOK
    <3> QED  BY <2>3, <2>5, <3>1, OneCallMoves DEF ToolRaises
  <2>6. CASE ToolUnreachable(c)
    <3>1. now.stage = "post" /\ ClientOK'
      BY <1>1, <2>6 DEF ToolUnreachable, Disconnected, ClientOK
    <3>2. PICK call \in Perhaps(c) :
             \/ calls' = [calls EXCEPT ![c] = [call EXCEPT !.stage = "mcp_error"]]
             \/ /\ call.attempt < MaxRetries
                /\ calls' = [calls EXCEPT ![c] = [call EXCEPT !.stage = "init",
                                 !.attempt = @ + 1, !.sub = 1]]
      BY <2>6 DEF ToolUnreachable
    <3>3. call.attempt < MaxRetries =>
             CallOK([call EXCEPT !.stage = "init", !.attempt = @ + 1, !.sub = 1])
      BY <2>2, <3>1, CallRetried
    <3> QED  BY <2>3, <3>1, <3>2, <3>3, OneCallMoves
  \* Within a reconnection a call moves from stage to stage, or raises.
  <2>7. CASE Initialized(c)
    <3>1. now.stage \in InFlight /\ ClientOK'
      BY <1>1, <2>7 DEF Initialized, Sends, ClientOK, InFlight
    <3>2. calls' = [calls EXCEPT ![c] = [[now EXCEPT !.sub = 1] EXCEPT !.stage = "list"]]
      BY <2>7 DEF Initialized, Sends
    <3>3. CallOK([[now EXCEPT !.sub = 1] EXCEPT !.stage = "list"])
      BY <2>0, <2>1, <3>1 DEF CallOK, CallRecords, InFlight, Outcomes
    <3> QED  BY <3>1, <3>2, <3>3, OneCallMoves
  <2>8. ASSUME now.stage \in InFlight, NEW next \in {"post", "init", "list"}, Naps(c, next), ClientOK'
        PROVE  McpInv'
    <3>1. calls' = [calls EXCEPT ![c] = [now EXCEPT !.stage = "nap", !.next = next]]
      BY <2>8 DEF Naps, McpInv
    <3>2. CallOK([now EXCEPT !.stage = "nap", !.next = next])
      BY <2>1, <2>8 DEF CallOK, CallRecords, InFlight, Outcomes
    <3> QED  BY <2>8, <3>1, <3>2, OneCallMoves
  <2>9. CASE Listed(c)
    <3>1. now.stage \in InFlight /\ ClientOK' /\ Naps(c, "post")
      BY <1>1, <2>9 DEF Listed, ClientOK, InFlight
    <3> QED  BY <2>8, <3>1
  <2>10. CASE ConnectUnreachable(c)
    <3>1. now.stage \in {"init", "list"} /\ now.stage \in InFlight /\ ClientOK'
      BY <1>1, <2>10 DEF ConnectUnreachable, Disconnected, ClientOK, InFlight
    <3>2. CASE Naps(c, "post")
      BY <2>8, <3>1, <3>2
    <3>3. CASE /\ now.sub < MaxRetries
               /\ calls' = [calls EXCEPT ![c].stage = "nap", ![c].next = now.stage,
                                         ![c].sub = @ + 1]
      <4>1. calls' = [calls EXCEPT ![c] =
                         [now EXCEPT !.stage = "nap", !.next = now.stage, !.sub = @ + 1]]
        BY <3>3 DEF McpInv
      <4>2. CallOK([now EXCEPT !.stage = "nap", !.next = now.stage, !.sub = @ + 1])
        <5>1. now.sub + 1 \in 1..MaxRetries
          BY <2>0, <3>3
        <5> QED  BY <2>1, <3>1, <5>1 DEF CallOK, CallRecords, InFlight, Outcomes
      <4> QED  BY <3>1, <4>1, <4>2, OneCallMoves
    <3> QED  BY <2>10, <3>2, <3>3 DEF ConnectUnreachable
  <2>11. CASE ConnectRaises(c)
    <3>1. now.stage \in InFlight /\ ClientOK'
      BY <1>1, <2>11 DEF ConnectRaises, ClientOK, InFlight
    <3>2. CASE Naps(c, "post")
      BY <2>8, <3>1, <3>2
    <3>3. CASE Ends(c, "other_error")
      <4>1. calls' = [calls EXCEPT ![c] = [now EXCEPT !.stage = "other_error"]]
        BY <3>3 DEF Ends, McpInv
      <4>2. CallOK([now EXCEPT !.stage = "other_error"])
        BY <2>1 DEF CallOK, CallRecords, InFlight, Outcomes
      <4> QED  BY <3>1, <4>1, <4>2, OneCallMoves
    <3> QED  BY <2>11, <3>2, <3>3 DEF ConnectRaises
  <2>12. CASE NapEnds(c)
    <3>1. now.stage = "nap" /\ ClientOK' /\ now.next \in InFlight
      BY <1>1, <2>1, <2>12 DEF NapEnds, Sends, ClientOK, InFlight, CallOK, CallRecords
    <3>2. calls' = [calls EXCEPT ![c] = [now EXCEPT !.stage = now.next]]
      BY <2>12 DEF NapEnds, Sends
    <3>3. CallOK([now EXCEPT !.stage = now.next])
      BY <2>1, <3>1 DEF CallOK, CallRecords, InFlight, Outcomes
    <3> QED  BY <3>1, <3>2, <3>3, OneCallMoves
  <2> QED  BY <1>3, <2>4, <2>5, <2>6, <2>7, <2>9, <2>10, <2>11, <2>12 DEF Proceeds
<1>4. CASE CloseBegins \/ CloseEnds
  BY <1>4 DEF CloseBegins, CloseEnds, McpInv, ClientOK
<1>5. CASE UNCHANGED mcpVars
  BY <1>5 DEF mcpVars, McpInv, ClientOK
<1> QED  BY <1>2, <1>3, <1>4, <1>5 DEF McpNext

LEMMA McpInvAlways == McpSpec => []McpInv
BY McpInvInit, McpInvNext, PTL DEF McpSpec

\* A client stays well formed, and no request is attempted more often than
\* max_retries allows, however many calls share the client.
THEOREM McpTypeCorrect == McpSpec => []McpTypeOK
BY McpInvAlways, McpInvGives, PTL

\* The outcome of a call tells what the server has done: a call that returned
\* was performed, one that was refused was not, and none was performed more
\* often than it was attempted.
THEOREM OutcomesTell == McpSpec => []OutcomeTellsWhatWasDone
BY McpInvAlways, McpInvGives, PTL

\* Reconnecting never hides a tool that the server offers.
THEOREM ToolsStayFound == McpSpec => []NoSpuriousNotFound
BY McpInvAlways, McpInvGives, PTL
=============================================================================
