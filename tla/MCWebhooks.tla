------------------------------ MODULE MCWebhooks ------------------------------
(***************************************************************************)
(* Instances of Webhooks: a shop hat that signs and notifies, a desk hat   *)
(* without a secret and a depot hat that listens to another source only.   *)
(* A day has three hours, the last of them quiet.                          *)
(***************************************************************************)
EXTENDS Webhooks

CONSTANTS shop, desk, depot, order, other

Listening == [shop |-> {"shopify", "erp"}, desk |-> {"shopify"}, depot |-> {"erp"}]
HatNamed(h) == CASE h = shop -> "shop" [] h = desk -> "desk" [] h = depot -> "depot"
MCListens == [h \in Hats |-> Listening[HatNamed(h)]]

Topic == {"shipped", "late"}
MCRoutes == [h \in Hats |->
    [t \in Topic |-> IF h = desk
                     THEN IF t = "late" THEN "trigger_pipeline" ELSE "unlisted"
                     ELSE IF t = "shipped" THEN "memory_update_and_notify" ELSE "ignore"]]

Post(topic, id, stamp) ==
    [source |-> "shopify", signed |-> TRUE, shape |-> "object",
     topic |-> topic, entity |-> id, stamp |-> stamp]

MCPosts == {Post("shipped", order, NoStamp), Post("shipped", other, 1),
            [Post("late", order, 1) EXCEPT !.signed = FALSE],
            [Post("shipped", order, 1) EXCEPT !.source = "erp"]}
=============================================================================
