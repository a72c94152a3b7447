------------------------------- MODULE McpClient -------------------------------
(***************************************************************************)
(* One MCP client and the calls that share it: MCPServiceAdapter._call,    *)
(* MCPClient.call_tool, the attempts of _send_jsonrpc, the reconnection    *)
(* between two attempts and close.  A call gives up control while a        *)
(* request is at the server and while it sleeps before an attempt.  A      *)
(* request that times out may or may not have been performed.              *)
(*                                                                         *)
(* The client has been connected by the service registry.  Every entry of  *)
(* an answer to tools/list has a name, and the list does not change.       *)
(***************************************************************************)
EXTENDS Integers

CONSTANTS
    Tools,        \* tools a service may ask for
    ServerTools,  \* those the server offers
    MaxRetries,   \* attempts of one request (max_retries)
    MaxCalls      \* bound: calls of the client

ASSUME McpAssumption ==
    /\ Tools # {} /\ ServerTools \subseteq Tools
    /\ MaxRetries \in Nat \ {0}
    /\ MaxCalls \in Nat

VARIABLES
    client,   \* _tools, _connected, and whether _http_client is open
    closing,  \* close: not called, awaiting aclose, or done
    calls     \* per call: its stage, attempts, how often the server performed it

mcpVars == <<client, closing, calls>>

\* Calls are numbered as they begin.
Calls == 1..MaxCalls

Idle == [stage |-> "off", tool |-> CHOOSE u \in Tools : TRUE, next |-> "post",
         attempt |-> 1, sub |-> 1, performed |-> 0]

McpInit ==
    /\ client = [tools |-> ServerTools, connected |-> TRUE, open |-> TRUE]
    /\ closing = "no"
    /\ calls = [c \in Calls |-> Idle]

\* A request goes to the server, over a new HTTP client if none is open.
Sends(c, call, stage) ==
    /\ client' = [client EXCEPT !.open = TRUE]
    /\ calls' = [calls EXCEPT ![c] = [call EXCEPT !.stage = stage]]

Ends(c, outcome) == calls' = [calls EXCEPT ![c].stage = outcome]

\* A call that the server does not offer is refused without a request.
CallTool(c, u) ==
    /\ calls[c].stage = "off"
    /\ \A b \in 1..c - 1 : calls[b].stage # "off"
    /\ \/ /\ u \in client.tools
          /\ Sends(c, [Idle EXCEPT !.tool = u], "post")
       \/ /\ u \notin client.tools
          /\ calls' = [calls EXCEPT ![c] = [Idle EXCEPT !.tool = u,
                                                        !.stage = "not_found"]]
          /\ UNCHANGED client
    /\ UNCHANGED closing

-----------------------------------------------------------------------------
\* The request of the call itself.

\* The server may have performed a request whose answer says nothing of it.
Performed(c) == [calls[c] EXCEPT !.performed = @ + 1]
Perhaps(c) == {calls[c], Performed(c)}

\* The server answers with a result, or with isError, which the adapter maps to
\* a failure the tools understand.
ToolAnswers(c) ==
    /\ calls[c].stage = "post"
    /\ \/ calls' = [calls EXCEPT ![c] = [Performed(c) EXCEPT !.stage = "returned"]]
       \/ \E call \in Perhaps(c) :
              calls' = [calls EXCEPT ![c] = [call EXCEPT !.stage = "declined"]]
    /\ UNCHANGED <<client, closing>>

\* A JSON-RPC error is raised at once; so is what is no JSON, as ValueError.
ToolRaises(c) ==
    /\ calls[c].stage = "post"
    /\ \E call \in Perhaps(c), outcome \in {"mcp_error", "other_error"} :
           calls' = [calls EXCEPT ![c] = [call EXCEPT !.stage = outcome]]
    /\ UNCHANGED <<client, closing>>

Disconnected == [client EXCEPT !.connected = FALSE]

\* Mutant: the attempts are counted anew after every failure.
ToolUnreachableResets(c) ==
    /\ calls[c].stage = "post"
    /\ client' = Disconnected
    /\ \E call \in Perhaps(c) :
           calls' = [calls EXCEPT ![c] = [call EXCEPT
                         !.stage = "nap", !.next = "init", !.attempt = 1, !.sub = 1]]
    /\ UNCHANGED closing

\* Mutant: one attempt too many.
ToolUnreachableOnceMore(c) ==
    /\ calls[c].stage = "post"
    /\ \E call \in Perhaps(c) :
           \/ /\ call.attempt > MaxRetries
              /\ calls' = [calls EXCEPT ![c] = [call EXCEPT !.stage = "mcp_error"]]
              /\ client' = Disconnected
           \/ /\ call.attempt <= MaxRetries
              /\ calls' = [calls EXCEPT ![c] = [call EXCEPT !.stage = "init",
                               !.attempt = @ + 1, !.sub = 1]]
              /\ client' = [Disconnected EXCEPT !.open = TRUE]
    /\ UNCHANGED closing

\* A timeout, a broken connection or an HTTP error: the last attempt raises, any
\* other is followed by a reconnection, without an await in between.
ToolUnreachable(c) ==
    /\ calls[c].stage = "post"
    /\ \E call \in Perhaps(c) :
           \/ /\ call.attempt = MaxRetries
              /\ calls' = [calls EXCEPT ![c] = [call EXCEPT !.stage = "mcp_error"]]
              /\ client' = Disconnected
           \/ /\ call.attempt < MaxRetries
              /\ calls' = [calls EXCEPT ![c] = [call EXCEPT !.stage = "init",
                               !.attempt = @ + 1, !.sub = 1]]
              /\ client' = [Disconnected EXCEPT !.open = TRUE]
    /\ UNCHANGED closing

-----------------------------------------------------------------------------
\* connect, between two attempts: initialize and then tools/list, each with
\* attempts of its own.

Naps(c, next) ==
    calls' = [calls EXCEPT ![c].stage = "nap", ![c].next = next]

\* Mutant: the tools are forgotten before they are asked for again.
InitializedForgetting(c) ==
    /\ calls[c].stage = "init"
    /\ client' = [client EXCEPT !.open = TRUE, !.tools = {}]
    /\ calls' = [calls EXCEPT ![c].stage = "list", ![c].sub = 1]
    /\ UNCHANGED closing

Initialized(c) ==
    /\ calls[c].stage = "init"
    /\ Sends(c, [calls[c] EXCEPT !.sub = 1], "list")
    /\ UNCHANGED closing

\* The tools are replaced in one go and the client is connected again.
Listed(c) ==
    /\ calls[c].stage = "list"
    /\ client' = [client EXCEPT !.tools = ServerTools, !.connected = TRUE]
    /\ Naps(c, "post")
    /\ UNCHANGED closing

\* Mutant: the requests of a reconnection are retried without counting.
ConnectUnreachableUncounted(c) ==
    /\ calls[c].stage \in {"init", "list"}
    /\ client' = Disconnected
    /\ Naps(c, calls[c].stage)
    /\ UNCHANGED closing

\* The server is not reached: after the last attempt connect raises, which the
\* call ignores.
ConnectUnreachable(c) ==
    /\ calls[c].stage \in {"init", "list"}
    /\ client' = Disconnected
    /\ \/ /\ calls[c].sub = MaxRetries
          /\ Naps(c, "post")
       \/ /\ calls[c].sub < MaxRetries
          /\ calls' = [calls EXCEPT ![c].stage = "nap", ![c].next = calls[c].stage,
                                    ![c].sub = @ + 1]
    /\ UNCHANGED closing

\* An error the server states, or an answer to initialize that is no JSON, is an
\* MCPConnectionError, which the call ignores; an answer to tools/list that is no
\* JSON goes through to the caller.
ConnectRaises(c) ==
    /\ \/ calls[c].stage \in {"init", "list"} /\ Naps(c, "post")
       \/ calls[c].stage = "list" /\ Ends(c, "other_error")
    /\ UNCHANGED <<client, closing>>

NapEnds(c) ==
    /\ calls[c].stage = "nap"
    /\ Sends(c, calls[c], calls[c].next)
    /\ UNCHANGED closing

-----------------------------------------------------------------------------
\* close, called once by the teardown of the service registry.

CloseBegins ==
    /\ closing = "no"
    /\ closing' = "draining"
    /\ client' = [client EXCEPT !.open = FALSE]
    /\ UNCHANGED calls

CloseEnds ==
    /\ closing = "draining"
    /\ closing' = "closed"
    /\ client' = [client EXCEPT !.open = FALSE, !.connected = FALSE]
    /\ UNCHANGED calls

Proceeds(c) == \/ ToolAnswers(c) \/ ToolRaises(c) \/ ToolUnreachable(c)
               \/ Initialized(c) \/ Listed(c) \/ ConnectUnreachable(c)
               \/ ConnectRaises(c) \/ NapEnds(c)

McpNext == \/ \E c \in Calls : \/ \E u \in Tools : CallTool(c, u)
                               \/ Proceeds(c)
           \/ CloseBegins \/ CloseEnds

\* Every request returns or times out, and every sleep ends.
McpSpec == McpInit /\ [][McpNext]_mcpVars /\ \A c \in Calls : WF_mcpVars(Proceeds(c))

-----------------------------------------------------------------------------

InFlight == {"post", "init", "list", "nap"}
Outcomes == {"returned", "declined", "not_found", "mcp_error", "other_error"}

\* Every variable has its type, and no request is attempted more than MaxRetries
\* times.
McpTypeOK ==
    /\ client \in [tools : SUBSET Tools, connected : BOOLEAN, open : BOOLEAN]
    /\ closing \in {"no", "draining", "closed"}
    /\ calls \in [Calls -> [stage : {"off"} \cup InFlight \cup Outcomes,
                            tool : Tools, next : {"post", "init", "list"},
                            attempt : 1..MaxRetries, sub : 1..MaxRetries,
                            performed : Nat]]

\* What a caller may conclude: the server performed a call that returned, one
\* that was not found was never sent, and no call was performed more often than
\* it was attempted.
OutcomeTellsWhatWasDone ==
    \A c \in Calls :
        /\ calls[c].stage = "returned" => calls[c].performed >= 1
        /\ calls[c].stage \in {"off", "not_found"} => calls[c].performed = 0
        /\ calls[c].performed <= MaxRetries
        /\ calls[c].stage = "post" => calls[c].performed < calls[c].attempt

\* A reconnection of one call never makes another believe that the server does
\* not offer its tool.
NoSpuriousNotFound ==
    \A c \in Calls : calls[c].stage = "not_found" => calls[c].tool \notin ServerTools

\* Every call ends, however its attempts and those of the reconnections nest.
CallEnds == \A c \in Calls : calls[c].stage \in InFlight ~> calls[c].stage \in Outcomes
=============================================================================
