------------------------------ MODULE MCCommerce ------------------------------
(***************************************************************************)
(* Instance of Commerce: the customer-service hat as it is shipped, on     *)
(* mocks, and three deployments of it: all at Shopify with shipping by     *)
(* hand, WooCommerce with ShipStation, and Shopify orders paid through     *)
(* Stripe; and two whose platforms serve little of what they are asked.    *)
(***************************************************************************)
EXTENDS Commerce, TLC

CONSTANTS open, gone,   \* an order not yet shipped, and one shipped or delivered
          old           \* an order delivered long ago, or taken back

On(order, customer, shipping, inventory, compensation) ==
    [s \in Services |-> CASE s = "order" -> order         [] s = "customer" -> customer
                          [] s = "shipping" -> shipping   [] s = "inventory" -> inventory
                          [] s = "compensation" -> compensation]

MCBackends == {On("mock", "mock", "mock", "mock", "mock"),
               On("shopify", "shopify", "mock", "shopify", "shopify"),
               On("woocommerce", "woocommerce", "shipstation", "woocommerce", "mock"),
               On("shopify", "stripe", "mock", "mock", "stripe"),
               On("mock", "mock", "woocommerce", "woocommerce", "woocommerce"),
               On("shipstation", "shipstation", "stripe", "stripe", "shipstation")}

order(s) == [status |-> s, cancelled |-> FALSE]

\* At Shopify and Stripe the first order goes through the states itself.
MCSeed ==
    [p \in Platforms \cup {"mock"} |->
        CASE p = "mock"        -> open :> order("processing") @@ gone :> order("delivered")
                                     @@ old :> order("delivered")
          [] p = "woocommerce" -> open :> order("pending") @@ gone :> order("completed")
          [] OTHER             -> open :> order("unfulfilled")]

\* Every tool, but of the lookups that tell nothing of orders one that a platform
\* serves, one that none does and the one whose mock looks nothing up.
MCOffered == Tools \ (OtherReads \ {"track_shipment", "check_warranty_status"})

MCTotal == [o \in Orders |-> IF o = open THEN 5000 ELSE 1000]

Symmetry == Permutations(Calls)
=============================================================================
