------------------------------- MODULE Vendors -------------------------------
(***************************************************************************)
(* The MCP mappings of the four commerce platforms: which methods of the   *)
(* five services a platform serves, by which tool of its MCP server, and   *)
(* what its answers are parsed to.                                         *)
(*                                                                         *)
(* A document about an order is its status in the words of the platform    *)
(* and, at Shopify, whether cancelled_at is set; items, addresses and      *)
(* dates are carried over without a decision.  A document about a refund   *)
(* is its amount in cents, the amounts of its transactions and its status  *)
(* at the platform, "none" when it has no id.  Pure operators.             *)
(***************************************************************************)
EXTENDS Integers, Sequences

Services == {"order", "customer", "shipping", "inventory", "compensation"}

(* Each mapping lists the methods it serves, with their MCP tools: those    *)
(* whose build_args takes what the service passes.  The others are entered  *)
(* with a build_args that raises NotImplementedError, or, as ShipStation's  *)
(* update_shipping_address (address for new_address) and Stripe's           *)
(* generate_coupon (no customer_id), with one that cannot be called so.     *)

ShopifyOrders ==
    [get_order                 |-> "get_order",
     get_order_status          |-> "get_order",
     search_orders_by_customer |-> "list_orders",
     cancel_order              |-> "cancel_order"]

ShopifyCustomers ==
    [get_customer |-> "get_customer", search_customers |-> "search_customers"]

ShopifyInventory ==
    [get_product_details |-> "get_product", check_stock |-> "get_inventory_level"]

ShopifyCompensation ==
    [process_full_refund |-> "create_refund", process_partial_refund |-> "create_refund"]

WooOrders ==
    [get_order                 |-> "wc_orders_get",
     get_order_status          |-> "wc_orders_get",
     search_orders_by_customer |-> "wc_orders_list",
     cancel_order              |-> "wc_orders_update"]

WooCustomers ==
    [get_customer         |-> "wc_customers_get",
     search_customers     |-> "wc_customers_list",
     get_customer_history |-> "wc_orders_list"]

WooInventory ==
    [get_product_details |-> "wc_products_get", check_stock |-> "wc_products_list"]

WooCompensation ==
    [process_full_refund    |-> "wc_refunds_create",
     process_partial_refund |-> "wc_refunds_create"]

StripeCustomers ==
    [get_customer |-> "retrieve_customer", search_customers |-> "list_customers"]

StripeCompensation ==
    [process_full_refund    |-> "create_refund",
     process_partial_refund |-> "create_refund",
     apply_discount         |-> "create_coupon"]

ShipStationShipping ==
    [track_shipment        |-> "get_shipment",
     get_shipping_options  |-> "list_carrier_services",
     generate_return_label |-> "create_label"]

\* A mapping whose every method raises.
ServesNothing == [m \in {} |-> "none"]

WooShipping == ServesNothing

StripeOrders    == ServesNothing
StripeShipping  == ServesNothing
StripeInventory == ServesNothing

ShipStationOrders       == ServesNothing
ShipStationCustomers    == ServesNothing
ShipStationInventory    == ServesNothing
ShipStationCompensation == ServesNothing

\* PLATFORM_MAPPINGS with the mapping functions of each module.  Shopify has no
\* function for shipping: a hat that asks for one does not equip.
Mapping ==
    [shopify |->
        [order     |-> ShopifyOrders,    customer     |-> ShopifyCustomers,
         inventory |-> ShopifyInventory, compensation |-> ShopifyCompensation],
     woocommerce |->
        [order     |-> WooOrders,    customer |-> WooCustomers, shipping |-> WooShipping,
         inventory |-> WooInventory, compensation |-> WooCompensation],
     stripe |->
        [order     |-> StripeOrders,    customer |-> StripeCustomers,
         shipping  |-> StripeShipping,  inventory |-> StripeInventory,
         compensation |-> StripeCompensation],
     shipstation |->
        [order     |-> ShipStationOrders,   customer  |-> ShipStationCustomers,
         shipping  |-> ShipStationShipping, inventory |-> ShipStationInventory,
         compensation |-> ShipStationCompensation]]

Platforms == DOMAIN Mapping

\* A backend configuration that the service registry can build.
Buildable == {b \in [Services -> Platforms \cup {"mock"}] :
                 \A s \in Services : b[s] = "mock" \/ s \in DOMAIN Mapping[b[s]]}

Serves(platform, service, method) == method \in DOMAIN Mapping[platform][service]

-----------------------------------------------------------------------------

ShopifyFulfillment(status) ==
    CASE status = "partial"   -> "confirmed"
      [] status = "fulfilled" -> "shipped"
      [] status = "restocked" -> "cancelled"
      [] OTHER                -> "pending"

\* Mutant: cancelled_at does not override the fulfillment status.
ShopifyStatusByFulfillment(doc) == ShopifyFulfillment(doc.status)

\* The status of an order, read by itself, in a list or for its status alone.
ShopifyStatus(doc) == IF doc.cancelled THEN "cancelled" ELSE ShopifyFulfillment(doc.status)

WooStatusMap(status) ==
    CASE status = "processing"                          -> "processing"
      [] status = "completed"                           -> "delivered"
      [] status \in {"cancelled", "refunded", "failed"} -> "cancelled"
      [] OTHER                                          -> "pending"

WooStatus(doc) == WooStatusMap(doc.status)

ParsedStatus(platform, doc) ==
    CASE platform = "shopify"     -> ShopifyStatus(doc)
      [] platform = "woocommerce" -> WooStatus(doc)

ShopifyCancelled(doc) == doc.cancelled
WooCancelled(doc)     == doc.status = "cancelled"

\* Mutant: an answer that could be parsed is taken for a cancellation.
AnswerIsCancellation(platform, doc) == TRUE

\* Whether the answer to cancel_order is parsed to a success.
ParsedCancellation(platform, doc) ==
    CASE platform = "shopify"     -> ShopifyCancelled(doc)
      [] platform = "woocommerce" -> WooCancelled(doc)

\* Mutant: a Stripe refund is processed as soon as it has an id.
StripeRefundById(r) == IF r.status # "none" THEN "processed" ELSE "failed"

\* A refund with an id is processed; at Stripe it must have succeeded.
ShopifyRefund(r) == IF r.status # "none" THEN "processed" ELSE "failed"
WooRefund(r)     == IF r.status # "none" THEN "processed" ELSE "failed"
StripeRefund(r)  == IF r.status = "succeeded" THEN "processed" ELSE "failed"

ParsedRefund(platform, r) ==
    CASE platform = "shopify"     -> ShopifyRefund(r)
      [] platform = "woocommerce" -> WooRefund(r)
      [] platform = "stripe"      -> StripeRefund(r)

\* Shopify's refund is told by its first transaction alone, as nothing if the
\* answer has none; the others' by the amount of the refund.
ShopifyAmount(r) == IF r.transactions = <<>> THEN 0 ELSE r.transactions[1]
WooAmount(r)     == r.amount
StripeAmount(r)  == r.amount

ParsedAmount(platform, r) ==
    CASE platform = "shopify"     -> ShopifyAmount(r)
      [] platform = "woocommerce" -> WooAmount(r)
      [] platform = "stripe"      -> StripeAmount(r)

\* The cents that a partial refund of so many cents asks for.  Stripe gets
\* int(amount * 100), which loses a cent of the amounts that have no exact
\* binary fraction on that side, such as 19.99.
AskedCents(platform, cents, lossy) ==
    IF platform = "stripe" /\ cents \in lossy THEN cents - 1 ELSE cents
=============================================================================
