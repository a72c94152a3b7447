------------------------------- MODULE Commerce -------------------------------
(***************************************************************************)
(* The customer-service tools over the five commerce services, each of     *)
(* which is the in-memory mock or a platform behind an MCP server.         *)
(*                                                                         *)
(* A mock answers without an await.  A platform is asked by a request that *)
(* MCPClient may send several times (McpClient shows that it performs it   *)
(* at most as often as it was sent), while the platform's own staff and    *)
(* schedule go on.  What a call told is what its ToolResult says.          *)
(***************************************************************************)
EXTENDS Vendors

CONSTANTS
    Backends,       \* the backend configurations of the hats considered
    Offered,        \* the tools of those hats
    Orders, NoOrder,\* orders, and an id that no service holds
    Seed,           \* provider -> the orders it holds, each as it is at the start
    Expired,        \* orders delivered more than 30 days ago
    Returning,      \* orders with an active return at the start
    Amounts, Total, \* cents asked for in a partial refund; total of an order
    Lossy,          \* amounts that int(amount * 100) makes a cent less
    Splits,         \* amounts that may be paid back by a first transaction of two
    Calls,          \* bound: the tool calls of an exploration
    Attempts        \* max_retries of MCPClient

(* The service method behind each tool.  place_new_order and                *)
(* send_replacement_product look the product up first; offer_free_item has  *)
(* none.                                                                   *)

OrderTools == [look_up_order      |-> <<"order", "get_order">>,
               check_order_status |-> <<"order", "get_order_status">>,
               place_new_order    |-> <<"order", "place_order">>,
               cancel_order       |-> <<"order", "cancel_order">>]

OfferTools == [offer_discount      |-> <<"compensation", "apply_discount">>,
               offer_free_shipping |-> <<"compensation", "apply_free_shipping">>]

RefundTools == [offer_partial_refund |-> <<"compensation", "process_partial_refund">>,
                offer_full_refund    |-> <<"compensation", "process_full_refund">>]

ReplacementTools == [send_replacement_product |-> <<"order", "place_order">>]

ReturnTools == [initiate_return     |-> <<"compensation", "initiate_return">>,
                check_return_status |-> <<"compensation", "check_return_status">>]

ShippingTools == [track_shipment          |-> <<"shipping", "track_shipment">>,
                  update_shipping_address |-> <<"shipping", "update_shipping_address">>]

CustomerTools == [look_up_customer           |-> <<"customer", "search_customers">>,
                  get_customer_order_history |-> <<"customer", "get_customer_history">>]

ProductTools == [look_up_product       |-> <<"inventory", "get_product_details">>,
                 check_warranty_status |-> <<"inventory", "check_warranty_status">>]

StockTools == [check_current_inventory |-> <<"inventory", "check_stock">>]

MethodTools == DOMAIN OrderTools \cup DOMAIN OfferTools \cup DOMAIN RefundTools
               \cup DOMAIN ReplacementTools \cup DOMAIN ReturnTools \cup DOMAIN ShippingTools
               \cup DOMAIN CustomerTools \cup DOMAIN ProductTools \cup DOMAIN StockTools

ToolMethod ==
    [t \in MethodTools |->
        CASE t \in DOMAIN OrderTools       -> OrderTools[t]
          [] t \in DOMAIN OfferTools       -> OfferTools[t]
          [] t \in DOMAIN RefundTools      -> RefundTools[t]
          [] t \in DOMAIN ReplacementTools -> ReplacementTools[t]
          [] t \in DOMAIN ReturnTools      -> ReturnTools[t]
          [] t \in DOMAIN ShippingTools    -> ShippingTools[t]
          [] t \in DOMAIN CustomerTools    -> CustomerTools[t]
          [] t \in DOMAIN ProductTools     -> ProductTools[t]
          [] t \in DOMAIN StockTools       -> StockTools[t]]

FreeItemTools == {"offer_free_item"}

Tools == DOMAIN ToolMethod \cup FreeItemTools

Placing     == {"place_new_order", "send_replacement_product"}
StatusReads == {"look_up_order", "check_order_status"}
\* Lookups that tell nothing of an order's status.
OtherReads  == DOMAIN CustomerTools \cup DOMAIN ProductTools \cup DOMAIN StockTools
               \cup {"track_shipment", "check_return_status"}
Refunding   == DOMAIN RefundTools
Offers      == DOMAIN OfferTools

ASSUME CommerceAssumption ==
    /\ Backends \subseteq Buildable /\ Offered \subseteq Tools
    /\ NoOrder \notin Orders
    /\ Expired \subseteq Orders /\ Returning \subseteq Orders
    /\ Amounts \subseteq Nat /\ Total \in [Orders -> Nat] /\ Lossy \subseteq Nat \ {0}
    /\ Splits \subseteq Nat
    /\ Attempts \in Nat \ {0}

\* The orders of each provider are records of the documents of Vendors.  The mock
\* has no cancelled_at; what is on its way back there was delivered.
ASSUME SeedAssumption ==
    /\ \A p \in Platforms \cup {"mock"} :
          /\ DOMAIN Seed[p] \subseteq Orders
          /\ Seed[p] \in [DOMAIN Seed[p] -> [status : STRING, cancelled : BOOLEAN]]
    /\ \A o \in DOMAIN Seed["mock"] : ~Seed["mock"][o].cancelled
    /\ \A o \in Returning : o \in DOMAIN Seed["mock"] /\ Seed["mock"][o].status = "delivered"

VARIABLES
    backend,   \* service -> provider, as the equipped hat configures them
    orders,    \* the orders at the order service, in its provider's words
    placed,    \* how many orders the mock has placed
    returns,   \* per order, its active returns at the mock compensation service
    refunds,   \* the refunds the platforms have recorded
    calls      \* the tool calls; did tells whether one has had its effect, and
               \* after which calls were over when it began

commerceVars == <<backend, orders, placed, returns, refunds, calls>>

NoCall == [stage |-> "new", tool |-> "none", order |-> NoOrder, asked |-> 0,
           tries |-> 0, did |-> FALSE, told |-> "none", says |-> "none", paid |-> 0,
           after |-> {}]

CommerceInit ==
    /\ backend \in Backends
    /\ orders = Seed[backend["order"]]
    /\ placed = 0
    /\ returns = [o \in Orders |-> IF backend["order"] = "mock" /\ o \in Returning
                                    THEN 1 ELSE 0]
    /\ refunds = {}
    /\ calls = [c \in Calls |-> NoCall]

Provider(tool) == backend[ToolMethod[tool][1]]

\* Call c, with k for its record, is over.
Tells(c, k, told, says, paid) ==
    calls' = [calls EXCEPT ![c] = [k EXCEPT !.stage = "over", !.told = told,
                                            !.says = says, !.paid = paid]]

Done(k) == [k EXCEPT !.did = TRUE]

Raises(c, k) == Tells(c, k, "raised", "none", 0)
Refuses(c, k) == Tells(c, k, "failure", "none", 0)

-----------------------------------------------------------------------------
(* The mock services.                                                      *)

\* The mock services share one store, whatever serves the orders of the hat:
\* it holds the orders of the hat only if it serves them itself.  An id
\* without its prefix is one the store does not hold for every tool that, unlike
\* those for orders, does not normalize it.
Stored(o) == o \in DOMAIN orders /\ backend["order"] = "mock"

MockReadsOrder(c, k) ==
    /\ k.tool \in StatusReads
    /\ \/ Stored(k.order)  /\ Tells(c, k, "success", orders[k.order].status, 0)
       \/ ~Stored(k.order) /\ Refuses(c, k)
    /\ UNCHANGED <<orders, placed, returns, refunds>>

\* What is looked up is found or not.
MockLooksUp(c, k) ==
    /\ k.tool \in OtherReads
    /\ Refuses(c, k) \/ Tells(c, k, "success", "found", 0)
    /\ UNCHANGED <<orders, placed, returns, refunds>>

\* Mutant: a delivered order can be cancelled.
MockCancellableUnshipped(o) == Stored(o) /\ orders[o].status \notin {"shipped", "cancelled"}

MockCancellable(o) ==
    Stored(o) /\ orders[o].status \notin {"shipped", "delivered", "cancelled"}

MockCancels(c, k) ==
    /\ k.tool = "cancel_order"
    /\ \/ /\ MockCancellable(k.order)
          /\ orders' = [orders EXCEPT ![k.order].status = "cancelled"]
          /\ Tells(c, Done(k), "success", "cancelled", Total[k.order])
       \/ /\ ~MockCancellable(k.order)
          /\ Refuses(c, k)
          /\ UNCHANGED orders
    /\ UNCHANGED <<placed, returns, refunds>>

\* A fresh order, whoever the customer is.
MockPlaces(c, k) ==
    /\ k.tool \in Placing
    /\ placed' = placed + 1
    /\ Tells(c, Done(k), "success", "pending", 0)
    /\ UNCHANGED <<orders, returns, refunds>>

\* Refunds are checked against the total, each by itself, and not recorded.
MockRefunds(c, k) ==
    /\ k.tool \in Refunding
    /\ LET cents == IF k.tool = "offer_full_refund" /\ Stored(k.order)
                    THEN Total[k.order] ELSE k.asked
       IN  \/ /\ Stored(k.order) /\ cents <= Total[k.order]
              /\ Tells(c, Done(k), "success", "processed", cents)
           \/ /\ Stored(k.order) => cents > Total[k.order]
              /\ Raises(c, k)
    /\ UNCHANGED <<orders, placed, returns, refunds>>

\* An unknown customer raises.
MockOffers(c, k) ==
    /\ k.tool \in Offers
    /\ Tells(c, Done(k), "success", "offered", 0) \/ Raises(c, k)
    /\ UNCHANGED <<orders, placed, returns, refunds>>

Returnable(o) == /\ Stored(o)
                 /\ orders[o].status = "delivered"
                 /\ o \notin Expired
                 /\ returns[o] = 0

\* What the service raises, the tool reports as a failure.
MockReturns(c, k) ==
    /\ k.tool = "initiate_return"
    /\ \/ /\ Returnable(k.order)
          /\ returns' = [returns EXCEPT ![k.order] = @ + 1]
          /\ Tells(c, Done(k), "success", "initiated", 0)
       \/ /\ ~Returnable(k.order)
          /\ Refuses(c, k)
          /\ UNCHANGED returns
    /\ UNCHANGED <<orders, placed, refunds>>

MockReaddresses(c, k) ==
    /\ k.tool = "update_shipping_address"
    /\ \/ /\ Stored(k.order)
          /\ orders[k.order].status \in {"pending", "confirmed", "processing"}
          /\ Tells(c, Done(k), "success", "readdressed", 0)
       \/ /\ Stored(k.order) =>
                 orders[k.order].status \notin {"pending", "confirmed", "processing"}
          /\ Refuses(c, k)
    /\ UNCHANGED <<orders, placed, returns, refunds>>

MockServes(c, k) ==
    \/ MockReadsOrder(c, k) \/ MockLooksUp(c, k) \/ MockCancels(c, k)
    \/ MockPlaces(c, k)     \/ MockRefunds(c, k) \/ MockOffers(c, k)
    \/ MockReturns(c, k)    \/ MockReaddresses(c, k)

-----------------------------------------------------------------------------
(* The tools.                                                              *)

\* A method the platform does not serve raises before a request is made.
Asks(c, k) ==
    LET platform == Provider(k.tool)
    IN  \/ platform = "mock" /\ MockServes(c, k)
        \/ /\ platform # "mock"
           /\ \/ Serves(platform, ToolMethod[k.tool][1], ToolMethod[k.tool][2])
                    /\ calls' = [calls EXCEPT ![c] = [k EXCEPT !.stage = "asked"]]
              \/ ~Serves(platform, ToolMethod[k.tool][1], ToolMethod[k.tool][2])
                    /\ Raises(c, k)
           /\ UNCHANGED <<orders, placed, returns, refunds>>

\* The product of an order to be placed: an item is refused if it is not found.
\* An order of no items is placed without a lookup.
AsksProduct(c, k) ==
    LET platform == backend["inventory"]
    IN  \/ (platform = "mock" \/ k.tool = "place_new_order") /\ Asks(c, k)
        \/ /\ \/ platform = "mock" /\ Refuses(c, k)
              \/ platform # "mock" /\ ~Serves(platform, "inventory", "get_product_details")
                    /\ Raises(c, k)
              \/ platform # "mock" /\ Serves(platform, "inventory", "get_product_details")
                    /\ calls' = [calls EXCEPT ![c] = [k EXCEPT !.stage = "product"]]
           /\ UNCHANGED <<orders, placed, returns, refunds>>

\* The tools whose result depends on the order they name.
Ordered == Tools \ (OtherReads \cup Offers \cup Placing \cup FreeItemTools)

\* The inputs of a call: only a partial refund takes an amount.
Inputs == {i \in Offered \X (Orders \cup {NoOrder}) \X (Amounts \cup {0}) :
              /\ i[1] \notin Ordered => i[2] = NoOrder
              /\ (i[1] = "offer_partial_refund") = (i[3] \in Amounts)}

Begin(c) ==
    /\ calls[c].stage = "new"
    /\ \E i \in Inputs :
          LET k == [NoCall EXCEPT !.tool = i[1], !.order = i[2], !.asked = i[3],
                                  !.after = {d \in Calls : calls[d].stage = "over"}]
          IN  \/ i[1] \in Placing /\ AsksProduct(c, k)
              \/ i[1] \in DOMAIN ToolMethod \ Placing /\ Asks(c, k)
              \/ /\ i[1] \in FreeItemTools \cup {"look_up_customer"}  \* with nothing to look up
                 /\ Refuses(c, k)
                 /\ UNCHANGED <<orders, placed, returns, refunds>>
    /\ UNCHANGED backend

ProductReturns(c) ==
    /\ calls[c].stage = "product"
    /\ \/ Asks(c, calls[c])
       \/ /\ Refuses(c, calls[c]) \/ Raises(c, calls[c])
          /\ UNCHANGED <<orders, placed, returns, refunds>>
    /\ UNCHANGED backend

-----------------------------------------------------------------------------
(* The platforms.                                                          *)

\* What k asks for can be found: its order, if it is about one.
Found(k) == k.tool \in Ordered => k.order \in DOMAIN orders

\* An order that the platform has cancelled, in its own words.
CancelledAt(platform, order) ==
    CASE platform = "shopify"     -> [order EXCEPT !.cancelled = TRUE]
      [] platform = "woocommerce" -> [order EXCEPT !.status = "cancelled"]

\* The refund that a platform records for k.
RefundFor(c, k, status) ==
    [call |-> c, nth |-> k.tries, status |-> status,
     cents |-> IF k.tool = "offer_full_refund" THEN Total[k.order]
               ELSE AskedCents(backend["compensation"], k.asked, Lossy)]

RefundStatus == IF backend["compensation"] = "stripe"
                THEN {"pending", "succeeded", "failed"} ELSE {"recorded"}

NoRefund == [call |-> "none", nth |-> 0, status |-> "none", cents |-> 0]

\* The platform does what it was asked for, r being the refund if it is one.
Performs(c, r) ==
    LET k == calls[c]
    IN  /\ Found(k)
        /\ \/ /\ k.tool = "cancel_order"
              /\ r = NoRefund
              /\ orders' = [orders EXCEPT ![k.order] = CancelledAt(backend["order"], @)]
              /\ UNCHANGED refunds
           \/ /\ k.tool \in Refunding
              /\ r \in {RefundFor(c, k, s) : s \in RefundStatus}
              /\ refunds' = refunds \cup {r}
              /\ UNCHANGED orders
           \/ /\ k.tool \notin Refunding \cup {"cancel_order"}
              /\ r = NoRefund
              /\ UNCHANGED <<orders, refunds>>

\* It refuses, or fails.
Declines(r) == r = NoRefund /\ UNCHANGED <<orders, refunds>>

\* What a platform may answer of refund r: a Shopify refund goes back in one
\* transaction or two, and an answer may leave them out.
RefundDocuments(r) ==
    {[status |-> r.status, amount |-> r.cents, transactions |-> t] :
        t \in {<<>>, <<r.cents>>} \cup {<<p, r.cents - p>> : p \in {q \in Splits : q <= r.cents}}}

\* What the tool tells of a document that answers k.
Reports(c, k, r) ==
    LET platform == Provider(k.tool)
    IN  CASE k.tool \in StatusReads ->
               Tells(c, k, "success", ParsedStatus(platform, orders[k.order]), 0)
          [] k.tool = "cancel_order" ->
               IF ParsedCancellation(platform, orders'[k.order])
               THEN Tells(c, k, "success", "cancelled", Total[k.order])
               ELSE Refuses(c, k)
          [] k.tool \in Refunding ->
               \E doc \in RefundDocuments(r) :
                  Tells(c, k, "success", ParsedRefund(platform, doc), ParsedAmount(platform, doc))
          [] OTHER -> Tells(c, k, "success", "found", 0)

\* The refunds that the platform may record for c, and none.
Drafts(c) == {NoRefund} \cup {RefundFor(c, calls[c], s) :
                                 s \in IF calls[c].tool \in Refunding
                                          /\ Found(calls[c])
                                       THEN RefundStatus ELSE {}}

\* The server answers with a document about the order.
Answers(c) ==
    /\ calls[c].stage = "asked"
    /\ Found(calls[c])
    /\ \E r \in Drafts(c) : \/ Performs(c, r) /\ Reports(c, Done(calls[c]), r)
                            \/ Declines(r) /\ Reports(c, calls[c], r)
    /\ UNCHANGED <<backend, placed, returns>>

\* The server answers with an error, which the adapter turns into None: what
\* was not found for a lookup, an exception for every other tool, and for a
\* lookup that uses its answer unchecked.
AnswersError(c) ==
    /\ calls[c].stage = "asked"
    /\ \/ calls[c].tool \in StatusReads \cup OtherReads /\ Refuses(c, calls[c])
       \/ calls[c].tool \notin StatusReads /\ Raises(c, calls[c])
    /\ UNCHANGED <<backend, orders, placed, returns, refunds>>

\* The request or its answer is lost, or the answer cannot be parsed; only the
\* former is tried again, up to the last attempt.
IsLost(c) ==
    /\ calls[c].stage = "asked"
    /\ \E r \in Drafts(c), k \in {calls[c], Done(calls[c])} :
          /\ \/ k = Done(calls[c]) /\ Performs(c, r)
             \/ k = calls[c] /\ Declines(r)
          /\ \/ /\ k.tries + 1 < Attempts
                /\ calls' = [calls EXCEPT ![c] = [k EXCEPT !.tries = @ + 1]]
             \/ Raises(c, k)
    /\ UNCHANGED <<backend, placed, returns>>

\* Staff and schedule of the platform: an order goes its way, or is cancelled or
\* restocked by staff, and a pending refund is settled.
Shipping == {<<"unfulfilled", "partial">>, <<"partial", "fulfilled">>,
             <<"unfulfilled", "fulfilled">>, <<"fulfilled", "restocked">>,
             <<"pending", "processing">>, <<"processing", "completed">>,
             <<"cancelled", "refunded">>}

OrderMoves(o) ==
    /\ backend["order"] \in {"shopify", "woocommerce"}
    /\ \/ \E s \in {p[2] : p \in {q \in Shipping : q[1] = orders[o].status}} :
             orders' = [orders EXCEPT ![o].status = s]
       \/ orders' = [orders EXCEPT ![o] = CancelledAt(backend["order"], @)]
    /\ UNCHANGED <<backend, placed, returns, refunds, calls>>

RefundSettles ==
    /\ \E r \in refunds, s \in {"succeeded", "failed"} :
          /\ r.status = "pending"
          /\ refunds' = (refunds \ {r}) \cup {[r EXCEPT !.status = s]}
    /\ UNCHANGED <<backend, orders, placed, returns, calls>>

CommerceNext == \/ \E c \in Calls : \/ Begin(c) \/ ProductReturns(c)
                                    \/ Answers(c) \/ AnswersError(c) \/ IsLost(c)
                \/ \E o \in DOMAIN orders : OrderMoves(o)
                \/ RefundSettles

CommerceSpec == CommerceInit /\ [][CommerceNext]_commerceVars

-----------------------------------------------------------------------------

Platform(s) == backend[s] # "mock"

Cancelled(o) == orders[o].cancelled \/ orders[o].status \in {"cancelled", "refunded"}

Told(c, tools, told) == calls[c].tool \in tools /\ calls[c].told = told

\* A cancellation that a customer was told of has happened.
CancellationsAreTrue ==
    \A c \in Calls : Told(c, {"cancel_order"}, "success") => Cancelled(calls[c].order)

\* A refund that a platform is told to have processed is one it has recorded for
\* this call - at Stripe one that succeeded - and at most a cent short of the
\* amount asked for.  The amount told is never more than the one recorded, and is
\* that one but at Shopify, where it may be less, or nothing.
RefundsAreTrue ==
    \A c \in Calls :
        /\ Told(c, Refunding, "success")
        /\ calls[c].says = "processed"
        /\ Platform("compensation")
        => \E r \in refunds :
              /\ r.call = c
              /\ r.status \in {"recorded", "succeeded"}
              /\ calls[c].paid <= r.cents
              /\ backend["compensation"] # "shopify" => calls[c].paid = r.cents
              /\ calls[c].tool = "offer_partial_refund" =>
                    r.cents \in {calls[c].asked - 1, calls[c].asked}

\* What failed has changed nothing, however often it was tried; but a lost answer
\* to a cancellation may be asked for again when staff have refunded the order.
FailuresAreTrue ==
    \A c \in Calls : Told(c, Tools \ (StatusReads \cup OtherReads), "failure") /\ calls[c].did
                   => orders[calls[c].order].status \in {"refunded", "cancelled"}

\* What the tools tell is so: cancellations, refunds and failures, with retries
\* that may repeat what was done and platforms that move on by themselves.
ToldIsTrue == CancellationsAreTrue /\ RefundsAreTrue /\ FailuresAreTrue

\* A customer who was told of a cancellation is never told of another status of
\* that order, by whatever status the platform gives it later.
CancelledStaysCancelled ==
    \A c, d \in Calls :
        /\ Told(c, {"cancel_order"}, "success")
        /\ Told(d, StatusReads, "success")
        /\ c \in calls[d].after
        /\ calls[c].order = calls[d].order
        => calls[d].says = "cancelled"

\* An order is not both cancelled and on its way back, and comes back once.
ReturnedIsNotCancelled ==
    \A o \in Orders : /\ returns[o] <= 1
                      /\ returns[o] = 1 => o \in DOMAIN orders /\ ~Cancelled(o)
=============================================================================
