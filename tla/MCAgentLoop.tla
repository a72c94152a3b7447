----------------------------- MODULE MCAgentLoop -----------------------------
(***************************************************************************)
(* Instances of the agent loop.  The shop hat has a tool without a floor   *)
(* (lookup), one that needs confirmation (refund) and one that is          *)
(* prohibited (gift); its first trigger is severe, its second is not.  The *)
(* desk hat has its own refund, without a floor, and no escalation tool.   *)
(***************************************************************************)
EXTENDS AgentLoopProperties

CONSTANTS shop, desk, chat, api, hook,
          lookup, refund, gift, hello, legal, angry, both

MCKind == [s \in Sessions |-> IF s = chat THEN "websocket"
                              ELSE IF s = api THEN "http" ELSE "webhook"]

MCHatTools == [h \in Hats |-> IF h = shop THEN Tools ELSE {refund}]

MCRiskFloor == [h \in Hats |-> [u \in Tools |->
                   IF h # shop THEN NONE
                   ELSE IF u = refund THEN YELLOW
                   ELSE IF u = gift THEN RED ELSE NONE]]

MCTriggers == [h \in Hats |->
                  IF h # shop THEN << >>
                  ELSE <<[matches |-> {legal, both} \cap Messages, severity |-> RED],
                         [matches |-> {angry, both} \cap Messages, severity |-> ORANGE]>>]

MCAckTools == [h \in Hats |-> IF h = shop THEN {lookup} ELSE {}]

NoMinTier     == [h \in Hats |-> NONE]
DeskMinYellow == [h \in Hats |-> IF h = desk THEN YELLOW ELSE NONE]

ok(u)      == [tool |-> u, complete |-> TRUE]
lacking(u) == [tool |-> u, complete |-> FALSE]

\* Proposals that take every way through the gates.
MCProposals == { << >>,
                 <<ok(lookup)>>,
                 <<lacking(lookup)>>,
                 <<ok(Converse)>>,
                 <<ok(Escalate), ok(lookup)>>,
                 <<lacking(lookup), ok(refund)>>,
                 <<ok(Converse), ok(gift)>>,
                 <<lacking(gift), ok(lookup)>>,
                 <<ok(Converse), lacking(refund), ok(lookup)>>,
                 <<ok(Converse), ok(refund)>> }

\* Fewer, for the instances with several tasks.
MCActing == {<<ok(lookup)>>, <<ok(refund)>>, <<ok(gift)>>, <<ok(Converse)>>}
MCRacing == {<<ok(lookup)>>, <<ok(refund)>>}
=============================================================================
