----------------------------- MODULE MCChatService -----------------------------
(***************************************************************************)
(* Instance of ChatService: five deployments, each with the requests that  *)
(* concern it.                                                             *)
(***************************************************************************)
EXTENDS ChatService, TLC

CONSTANTS boot, own, other   \* key ids

NoKeys == [id \in {} |-> "none"]

MCSeedKeys ==
    own   :> [tenant |-> "a", scopes |-> {"chat", "admin"}, limit |-> 2, active |-> TRUE] @@
    other :> [tenant |-> "b", scopes |-> {"chat"}, limit |-> 1, active |-> TRUE]

\* Auth enabled: requests for chat and for keys.
WithKeys(stored_keys, kinds, load, again) ==
    [auth |-> TRUE, keys |-> stored_keys, memory |-> "mock", comms |-> "mock",
     tools |-> {}, policy |-> [manager |-> "none", supervisor |-> "none"], clients |-> {},
     kinds |-> kinds, load |-> load, until |-> 2, restarts |-> again]

\* As developed with: reports on decisions.
Reporting ==
    [auth |-> FALSE, keys |-> NoKeys, memory |-> "mock", comms |-> "mock",
     tools |-> DOMAIN RoleOf, policy |-> [manager |-> "none", supervisor |-> "none"],
     clients |-> {}, kinds |-> {"chat", "outcome", "feedback"}, load |-> 3, until |-> 0, restarts |-> 1]

\* With SurrealDB and Slack, for a supervisor in a channel of this kind: two turns.
Wired(channel) ==
    [auth |-> FALSE, keys |-> NoKeys, memory |-> "surrealdb", comms |-> "mcp",
     tools |-> DOMAIN RoleOf, policy |-> [manager |-> "slack", supervisor |-> channel],
     clients |-> {"slack"}, kinds |-> {"chat"}, load |-> 2, until |-> 0, restarts |-> 1]

MCDeployments == {WithKeys(NoKeys, {"create", "revoke"}, 2, 1),
                  WithKeys(MCSeedKeys, {"chat", "socket", "revoke"}, 3, 0),
                  Reporting, Wired("email"), Wired("fax")}

MCNewKeys == {<<"a", {}, 1>>}

MCExtractions == {<<2, 1>>}

Symmetry == Permutations(Requests)
=============================================================================
