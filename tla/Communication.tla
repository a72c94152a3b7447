----------------------------- MODULE Communication -----------------------------
(***************************************************************************)
(* The communication service of a hat, and the three tools of the          *)
(* framework that send a message to a role.                                *)
(***************************************************************************)
EXTENDS Integers

CONSTANTS Attempts    \* max_retries of MCPClient: a message may be posted as often

ASSUME CommunicationAssumption == Attempts \in Nat \ {0}

VARIABLES
    connected,   \* the channels whose client is known to be connected
    posts        \* <<turn, channel, nth>>: the messages posted at the servers

communicationVars == <<connected, posts>>

Channels == {"slack", "email"}

\* The role that a tool writes to.
RoleOf == [notify_manager    |-> "manager",
           request_approval  |-> "supervisor",
           escalate_to_human |-> "manager"]

\* What send_to_role does before its first await.  A contact is the channel in
\* the policy, "none" for a role without contact and "no_address" for a contact
\* without address.
Route(policy, clients, role) ==
    CASE policy[role] \in {"none", "no_address"}              -> "fails"
      [] policy[role] \in Channels /\ policy[role] \notin clients -> "fails"
      [] policy[role] \in clients                             -> "sends"
      [] OTHER                                                -> "raises"

\* What the client tells of a message: the server posted it, refused it or answered
\* with an error, the client raised, or the answer's JSON is no object.
Replies == {"posted", "refused", "error", "raised", "no_object"}

\* Mutant: an answer is a success unless it is an error.
AnswerIsAccepted(answer) == answer # "error"

\* Whether the answer of a server is taken for a success: Slack says ok, Gmail
\* names a message.
Accepted(answer) == answer = "posted"

\* A server posts the message of a turn, or does not, up to once per attempt.
Posts(turn, channel, n) == posts' = posts \cup {<<turn, channel, i>> : i \in 1..n}

\* The success that a tool reports, sent telling whether its message was.
\* escalate_to_human issues a ticket whether or not anybody is told.
Reported(tool, sent) == tool = "escalate_to_human" \/ sent
=============================================================================
