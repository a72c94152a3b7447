---------------------------- MODULE MCHatRegistry ----------------------------
(***************************************************************************)
(* Instance of HatDiscipline: a shop hat and a desk hat on MCP servers, a  *)
(* local faq hat that shares a tool name with the shop, a hat that does    *)
(* not load and a hat whose notifications cannot be configured.            *)
(***************************************************************************)
EXTENDS HatDiscipline

CONSTANTS shop, desk, faq, bad, broken, refund, lookup, mail

MCHatTools == [shop   |-> {refund, lookup}, desk |-> {refund, mail},
               faq    |-> {lookup},
               bad    |-> {mail},           broken |-> {mail, lookup}]
HatNamed(h) == CASE h = shop -> "shop" [] h = desk -> "desk" [] h = faq -> "faq"
                 [] h = bad -> "bad" [] h = broken -> "broken"
MCTools == [h \in Hats |-> MCHatTools[HatNamed(h)]]
=============================================================================
