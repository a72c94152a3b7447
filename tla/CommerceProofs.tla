---------------------------- MODULE CommerceProofs ----------------------------
(***************************************************************************)
(* What the customer-service tools tell is true, for any orders, calls,    *)
(* amounts, numbers of attempts and backends that can be built.            *)
(*                                                                         *)
(* The properties relate what a call told to what the services record now. *)
(* The invariant adds what lies between them: an order that was cancelled  *)
(* for a call stays marked as such in the words of its provider (MarkedIn, *)
(* CallOK), a refund that was told stays recorded (RefundOK), and a call   *)
(* is after others only when they are over (AfterOver).                    *)
(***************************************************************************)
EXTENDS Commerce, TLAPS

\* The words of the services and of the tools.  All are strings; those that occur
\* in the model are listed, as the provers do not take a literal for a string.
Word == STRING \cup {"none", "found", "offered", "initiated", "readdressed", "processed",
                     "failed", "cancelled", "refunded", "pending", "confirmed", "processing",
                     "shipped", "delivered", "partial", "fulfilled", "restocked", "completed"}

Doc == [status : Word, cancelled : BOOLEAN]

CallRecord == [stage : {"new", "product", "asked", "over"},
               tool  : Tools \cup {"none"},
               order : Orders \cup {NoOrder},
               asked : Nat,
               tries : Nat,
               did   : BOOLEAN,
               told  : {"none", "success", "failure", "raised"},
               says  : Word,
               paid  : Nat,
               after : SUBSET Calls]

CommerceTyped ==
    /\ backend \in Backends
    /\ orders \in [DOMAIN Seed[backend["order"]] -> Doc]
    /\ placed \in Nat
    /\ returns \in [Orders -> Nat]
    /\ calls \in [Calls -> CallRecord]

\* An order that provider p has cancelled, also after whatever it does to it later.
MarkedIn(p, doc) == IF p = "shopify" THEN doc.cancelled
                    ELSE IF p = "woocommerce" THEN doc.status \in {"cancelled", "refunded"}
                    ELSE doc.status = "cancelled"

\* The method behind a tool is served by a platform.
ServedAt(b, tool) ==
    /\ tool \in DOMAIN ToolMethod
    /\ b[ToolMethod[tool][1]] # "mock"
    /\ Serves(b[ToolMethod[tool][1]], ToolMethod[tool][1], ToolMethod[tool][2])

\* What a call with record k has done so far, and what it told of it, when the
\* backend is b and the orders are os.
CallOK(k, b, os) ==
    /\ k.told # "none" => k.stage = "over"
    /\ k.stage \in {"new", "product"} => ~k.did
    /\ k.stage = "product" => k.tool \in Placing
    /\ k.stage = "asked" => ServedAt(b, k.tool)
    /\ k.tool = "cancel_order" /\ (k.did \/ k.told = "success") =>
           k.order \in DOMAIN os /\ MarkedIn(b["order"], os[k.order])
    /\ k.told = "failure" /\ k.did /\ k.tool \notin StatusReads \cup OtherReads =>
           k.tool = "cancel_order" /\ b["order"] = "woocommerce"

\* Refund r stands for call c with record k, when so many cents are told of it.
Backs(r, c, k, paid, b) ==
    /\ r.call = c
    /\ r.status \in {"recorded", "succeeded"}
    /\ paid <= r.cents
    /\ b["compensation"] # "shopify" => paid = r.cents
    /\ k.tool = "offer_partial_refund" => r.cents \in {k.asked - 1, k.asked}

\* RefundsAreTrue of one call, when the refunds are rs.
RefundOK(c, k, b, rs) ==
    k.told = "success" /\ k.tool \in Refunding /\ k.says = "processed"
        /\ b["compensation"] # "mock"
    => \E r \in rs : Backs(r, c, k, k.paid, b)

CallsOK == \A c \in Calls : /\ CallOK(calls[c], backend, orders)
                            /\ RefundOK(c, calls[c], backend, refunds)

AfterOver == \A c \in Calls : \A d \in calls[c].after : calls[d].stage = "over"

\* The mock has no cancelled_at, and takes back only what it has delivered.
MockDocs == backend["order"] = "mock" => \A o \in DOMAIN orders : ~orders[o].cancelled

ReturnsOK ==
    \A o \in Orders : /\ returns[o] \in {0, 1}
                      /\ returns[o] = 1 => /\ backend["order"] = "mock"
                                           /\ o \in DOMAIN orders
                                           /\ orders[o].status = "delivered"

CommerceIInv == /\ CommerceTyped
                /\ CallsOK
                /\ AfterOver
                /\ CancelledStaysCancelled
                /\ MockDocs
                /\ ReturnsOK

-----------------------------------------------------------------------------
(* The tools and what serves them.                                         *)

\* The service behind the tools that the properties are about.
LEMMA Methods ==
    /\ ToolMethod["cancel_order"] = <<"order", "cancel_order">>
    /\ \A t \in StatusReads : ToolMethod[t][1] = "order"
                              /\ ToolMethod[t][2] \in {"get_order", "get_order_status"}
    /\ \A t \in Refunding : /\ ToolMethod[t][1] = "compensation"
                            /\ ToolMethod[t][2] \in {"process_partial_refund",
                                                     "process_full_refund"}
BY DEF ToolMethod, MethodTools, OrderTools, OfferTools, RefundTools, ReplacementTools,
       ReturnTools, ShippingTools, CustomerTools, ProductTools, StockTools,
       StatusReads, Refunding

\* No tool is of two of these kinds; cancellations, status reads and refunds are
\* of an order.
LEMMA Kinds ==
    /\ {"cancel_order"} \cup StatusReads \cup Refunding \subseteq Ordered
    /\ "cancel_order" \notin StatusReads \cup Refunding \cup OtherReads \cup Placing \cup Offers
    /\ Refunding \cap (StatusReads \cup OtherReads \cup Placing \cup Offers) = {}
    /\ Placing \cap (StatusReads \cup OtherReads) = {}
    /\ StatusReads \cap (OtherReads \cup Offers) = {}
    /\ "update_shipping_address" \notin StatusReads \cup Refunding \cup {"cancel_order"}
    /\ "initiate_return" \notin StatusReads \cup Refunding \cup {"cancel_order"}
    /\ "offer_free_item" \notin StatusReads \cup Refunding \cup {"cancel_order"}
    /\ "look_up_customer" \notin StatusReads \cup Refunding \cup {"cancel_order"}
    /\ Placing \subseteq DOMAIN ToolMethod
    /\ DOMAIN ToolMethod \subseteq Tools
BY DEF Ordered, Tools, ToolMethod, MethodTools, OrderTools, OfferTools, RefundTools,
       ReplacementTools, ReturnTools, ShippingTools, CustomerTools, ProductTools, StockTools,
       StatusReads, OtherReads, Refunding, Offers, Placing, FreeItemTools

\* Orders are served by two platforms, and refunds by three.
LEMMA Servers ==
    ASSUME NEW b \in Buildable, NEW t
    PROVE  /\ b["order"] \in Platforms \cup {"mock"}
           /\ t \in StatusReads \cup {"cancel_order"} /\ ServedAt(b, t) =>
                  b["order"] \in {"shopify", "woocommerce"}
           /\ t \in Refunding /\ ServedAt(b, t) =>
                  b["compensation"] \in {"shopify", "woocommerce", "stripe"}
<1>1. /\ b["order"] \in Platforms \cup {"mock"}
      /\ b["compensation"] \in Platforms \cup {"mock"}
  BY DEF Buildable, Services
<1>2. \A m \in {"get_order", "get_order_status", "cancel_order"} : \A p \in Platforms :
          Serves(p, "order", m) => p \in {"shopify", "woocommerce"}
  BY DEF Serves, Platforms, Mapping, StripeOrders, ShipStationOrders, ServesNothing
<1>3. \A m : \A p \in Platforms :
          Serves(p, "compensation", m) => p \in {"shopify", "woocommerce", "stripe"}
  BY DEF Serves, Platforms, Mapping, ShipStationCompensation, ServesNothing
<1> QED
  BY <1>1, <1>2, <1>3, Methods DEF ServedAt

-----------------------------------------------------------------------------
(* What a step may do to what other calls were told.                       *)

\* No order loses the mark of its cancellation and no refund that stands is lost.
Grows ==
    /\ backend' = backend
    /\ orders' \in [DOMAIN Seed[backend["order"]] -> Doc]
    /\ \A o \in DOMAIN orders :
          MarkedIn(backend["order"], orders[o]) => MarkedIn(backend["order"], orders'[o])
    /\ \A r \in refunds : r.status \in {"recorded", "succeeded"} => r \in refunds'

LEMMA Stays ==
    ASSUME CommerceIInv, backend' = backend, orders' = orders, refunds' = refunds
    PROVE  Grows
BY DEF CommerceIInv, CommerceTyped, Grows

LEMMA OthersStayOK ==
    ASSUME CommerceIInv, Grows, NEW c \in Calls
    PROVE  CallOK(calls[c], backend', orders') /\ RefundOK(c, calls[c], backend', refunds')
<1>1. CallOK(calls[c], backend, orders) /\ RefundOK(c, calls[c], backend, refunds)
  BY DEF CommerceIInv, CallsOK
<1>2. DOMAIN orders' = DOMAIN orders /\ backend' = backend
  BY DEF CommerceIInv, CommerceTyped, Grows
<1>3. CallOK(calls[c], backend', orders')
  BY <1>1, <1>2 DEF CallOK, Grows
<1>4. RefundOK(c, calls[c], backend', refunds')
  BY <1>1, <1>2 DEF RefundOK, Backs, Grows
<1> QED
  BY <1>3, <1>4

\* A step of a platform by itself.
LEMMA PlatformMoves ==
    ASSUME CommerceIInv, Grows, calls' = calls
    PROVE  CallsOK' /\ AfterOver' /\ CancelledStaysCancelled'
<1>1. CallsOK'
  BY OthersStayOK DEF CallsOK
<1>2. AfterOver' /\ CancelledStaysCancelled'
  BY DEF CommerceIInv, AfterOver, CancelledStaysCancelled, Told
<1> QED
  BY <1>1, <1>2

\* A step of call c, whose record becomes k.  What it tells of the status of an
\* order is what the order is.
LEMMA CallMoves ==
    ASSUME CommerceIInv, Grows, NEW c \in Calls, NEW k \in CallRecord,
           calls[c].stage # "over", calls' = [calls EXCEPT ![c] = k],
           CallOK(k, backend', orders'), RefundOK(c, k, backend', refunds'),
           \A d \in k.after : calls[d].stage = "over",
           k.told = "success" /\ k.tool \in StatusReads =>
               (k.order \in DOMAIN orders /\ MarkedIn(backend["order"], orders[k.order])
                   => k.says = "cancelled")
    PROVE  CallsOK' /\ AfterOver' /\ CancelledStaysCancelled'
<1>1. /\ calls'[c] = k
      /\ \A d \in Calls : d # c => calls'[d] = calls[d]
      /\ \A d \in Calls : calls[d] \in CallRecord
  BY DEF CommerceIInv, CommerceTyped
<1>2. CallsOK'
  BY <1>1, OthersStayOK DEF CallsOK
<1>3. \A d \in Calls : calls[d].stage = "over" => calls'[d] = calls[d]
  BY <1>1
<1>4. \A d \in Calls : calls[d].after \subseteq Calls
  BY <1>1 DEF CallRecord
<1>5. k.after \subseteq Calls
  BY DEF CallRecord
<1>6. AfterOver'
  <2> SUFFICES ASSUME NEW d \in Calls, NEW e \in calls'[d].after
               PROVE  calls'[e].stage = "over"
    BY DEF AfterOver
  <2>1. CASE d = c
    BY <1>1, <1>3, <1>5, <2>1
  <2>2. CASE d # c
    BY <1>1, <1>3, <1>4, <2>2 DEF CommerceIInv, AfterOver
  <2> QED
    BY <2>1, <2>2
<1>7. CancelledStaysCancelled'
  <2> SUFFICES ASSUME NEW e \in Calls, NEW d \in Calls,
                      calls'[e].tool \in {"cancel_order"}, calls'[e].told = "success",
                      calls'[d].tool \in StatusReads, calls'[d].told = "success",
                      e \in calls'[d].after, calls'[e].order = calls'[d].order
               PROVE  calls'[d].says = "cancelled"
    BY DEF CancelledStaysCancelled, Told
  <2>1. CASE d = c
    <3>1. calls[e].stage = "over" /\ calls'[e] = calls[e]
      BY <1>1, <1>3, <2>1
    <3>2. calls[e].order \in DOMAIN orders /\ MarkedIn(backend["order"], orders[calls[e].order])
      BY <3>1 DEF CommerceIInv, CallsOK, CallOK
    <3> QED
      BY <1>1, <2>1, <3>1, <3>2
  <2>2. CASE d # c
    <3>1. calls'[d] = calls[d]
      BY <1>1, <2>2
    <3>2. calls[e].stage = "over" /\ calls'[e] = calls[e]
      BY <1>3, <3>1 DEF CommerceIInv, AfterOver
    <3> QED
      BY <3>1, <3>2 DEF CommerceIInv, CancelledStaysCancelled, Told
  <2> QED
    BY <2>1, <2>2
<1> QED
  BY <1>2, <1>6, <1>7

\* Returns are only made of the mock's orders, which platforms do not move.
LEMMA ReturnsStay ==
    ASSUME CommerceIInv, backend' = backend, returns' = returns,
           orders' = orders \/ backend["order"] # "mock"
    PROVE  MockDocs' /\ ReturnsOK'
BY DEF CommerceIInv, MockDocs, ReturnsOK

-----------------------------------------------------------------------------
(* How a call ends.                                                        *)

\* The record of a call that is over.
Ended(k, told, says, paid) ==
    [k EXCEPT !.stage = "over", !.told = told, !.says = says, !.paid = paid]

LEMMA EndedRecord ==
    ASSUME NEW k \in CallRecord, NEW told \in {"success", "failure", "raised"},
           NEW says \in Word, NEW paid \in Nat
    PROVE  /\ Ended(k, told, says, paid) \in CallRecord
           /\ Ended(k, told, says, paid).stage = "over"
           /\ Ended(k, told, says, paid).told = told
           /\ Ended(k, told, says, paid).says = says
           /\ Ended(k, told, says, paid).paid = paid
           /\ Ended(k, told, says, paid).tool = k.tool
           /\ Ended(k, told, says, paid).order = k.order
           /\ Ended(k, told, says, paid).asked = k.asked
           /\ Ended(k, told, says, paid).did = k.did
           /\ Ended(k, told, says, paid).after = k.after
BY DEF Ended, CallRecord

\* Call c ends with what it may tell.
LEMMA TellsMoves ==
    ASSUME CommerceIInv, Grows, NEW c \in Calls, NEW k \in CallRecord,
           NEW told \in {"success", "failure", "raised"}, NEW says \in Word, NEW paid \in Nat,
           calls[c].stage # "over", \A d \in k.after : calls[d].stage = "over",
           Tells(c, k, told, says, paid),
           k.tool = "cancel_order" /\ (k.did \/ told = "success") =>
               k.order \in DOMAIN orders' /\ MarkedIn(backend["order"], orders'[k.order]),
           told = "failure" /\ k.did /\ k.tool \notin StatusReads \cup OtherReads =>
               k.tool = "cancel_order" /\ backend["order"] = "woocommerce",
           told = "success" /\ k.tool \in Refunding /\ says = "processed"
               /\ backend["compensation"] # "mock"
               => \E r \in refunds' : Backs(r, c, k, paid, backend),
           told = "success" /\ k.tool \in StatusReads =>
               (k.order \in DOMAIN orders /\ MarkedIn(backend["order"], orders[k.order])
                   => says = "cancelled")
    PROVE  calls' \in [Calls -> CallRecord] /\ CallsOK' /\ AfterOver' /\ CancelledStaysCancelled'
<1> DEFINE e == Ended(k, told, says, paid)
<1>1. /\ e \in CallRecord /\ e.stage = "over" /\ e.told = told /\ e.says = says
      /\ e.paid = paid /\ e.tool = k.tool /\ e.order = k.order /\ e.asked = k.asked
      /\ e.did = k.did /\ e.after = k.after
  BY EndedRecord
<1>2. calls' = [calls EXCEPT ![c] = e]
  BY DEF Tells, Ended
<1> HIDE DEF e
<1>3. backend' = backend
  BY DEF Grows
<1>4. CallOK(e, backend', orders')
  BY <1>1, <1>3 DEF CallOK
<1>5. RefundOK(c, e, backend', refunds')
  BY <1>1, <1>3 DEF RefundOK, Backs
<1>6. calls' \in [Calls -> CallRecord]
  BY <1>1, <1>2 DEF CommerceIInv, CommerceTyped
<1> QED
  BY <1>1, <1>2, <1>4, <1>5, <1>6, CallMoves

\* The services have done nothing, and the call is over or goes on.
LEMMA Nothing ==
    ASSUME CommerceIInv, backend' = backend,
           UNCHANGED <<orders, placed, returns, refunds>>,
           calls' \in [Calls -> CallRecord],
           CallsOK', AfterOver', CancelledStaysCancelled'
    PROVE  CommerceIInv'
<1>1. MockDocs' /\ ReturnsOK'
  BY ReturnsStay
<1>2. CommerceTyped'
  BY DEF CommerceIInv, CommerceTyped
<1> QED
  BY <1>1, <1>2 DEF CommerceIInv

\* A call that has not been able to do anything fails, or raises.
LEMMA FailsMoves ==
    ASSUME CommerceIInv, NEW c \in Calls, NEW k \in CallRecord, ~k.did,
           calls[c].stage # "over", \A d \in k.after : calls[d].stage = "over",
           Refuses(c, k) \/ Raises(c, k), backend' = backend,
           UNCHANGED <<orders, placed, returns, refunds>>
    PROVE  CommerceIInv'
<1>1. Grows
  BY Stays
<1>2. PICK told \in {"failure", "raised"}, says \in Word, paid \in Nat :
          Tells(c, k, told, says, paid)
  <2>1. Tells(c, k, "failure", "none", 0) \/ Tells(c, k, "raised", "none", 0)
    BY DEF Refuses, Raises
  <2>2. "none" \in Word /\ 0 \in Nat
    BY DEF Word
  <2> QED
    BY <2>1, <2>2, Zenon
<1>3. calls' \in [Calls -> CallRecord] /\ CallsOK' /\ AfterOver' /\ CancelledStaysCancelled'
  <2>1. ~(k.did \/ told = "success") /\ ~(told = "failure" /\ k.did) /\ told # "success"
    BY <1>2
  <2>2. told \in {"success", "failure", "raised"}
    BY <1>2
  <2> QED
    BY <1>1, <1>2, <2>1, <2>2, TellsMoves
<1> QED
  BY <1>3, Nothing

-----------------------------------------------------------------------------
(* The mock services.                                                      *)

\* A call with record k that asks a service for the first time.
Ready(c, k) ==
    /\ c \in Calls /\ k \in CallRecord
    /\ calls[c].stage # "over"
    /\ \A d \in k.after : calls[d].stage = "over"
    /\ k.tool \in DOMAIN ToolMethod /\ ~k.did /\ k.told = "none"

\* A call that changes nothing it is asked about tells of it.
LEMMA MockTells ==
    ASSUME CommerceIInv, NEW c, NEW k, Ready(c, k), NEW says \in Word, NEW paid \in Nat,
           k.tool # "cancel_order",
           k.tool \in Refunding => backend["compensation"] = "mock",
           k.tool \in StatusReads /\ k.order \in DOMAIN orders
               /\ MarkedIn(backend["order"], orders[k.order]) => says = "cancelled",
           Tells(c, k, "success", says, paid) \/ Tells(c, Done(k), "success", says, paid),
           backend' = backend, orders' = orders, refunds' = refunds
    PROVE  calls' \in [Calls -> CallRecord] /\ CallsOK' /\ AfterOver' /\ CancelledStaysCancelled'
<1>1. Grows
  BY Stays
<1>2. PICK m \in CallRecord : /\ m.tool = k.tool /\ m.order = k.order /\ m.asked = k.asked
                              /\ m.after = k.after
                              /\ Tells(c, m, "success", says, paid)
  BY DEF Ready, Done, CallRecord
<1> QED
  BY <1>1, <1>2, TellsMoves DEF Ready

\* What the mock tells, having changed at most the number of orders it has placed.
LEMMA MockTellsOnly ==
    ASSUME CommerceIInv, NEW c, NEW k, Ready(c, k), NEW says \in Word, NEW paid \in Nat,
           k.tool # "cancel_order",
           k.tool \in Refunding => backend["compensation"] = "mock",
           k.tool \in StatusReads /\ k.order \in DOMAIN orders
               /\ MarkedIn(backend["order"], orders[k.order]) => says = "cancelled",
           Tells(c, k, "success", says, paid) \/ Tells(c, Done(k), "success", says, paid),
           UNCHANGED <<backend, orders, returns, refunds>>, placed' \in Nat
    PROVE  CommerceIInv'
<1>1. calls' \in [Calls -> CallRecord] /\ CallsOK' /\ AfterOver' /\ CancelledStaysCancelled'
  BY MockTells
<1>2. MockDocs' /\ ReturnsOK'
  BY ReturnsStay
<1>3. CommerceTyped'
  BY <1>1 DEF CommerceIInv, CommerceTyped
<1> QED
  BY <1>1, <1>2, <1>3 DEF CommerceIInv

LEMMA MockFails ==
    ASSUME CommerceIInv, NEW c, NEW k, Ready(c, k), Refuses(c, k) \/ Raises(c, k),
           backend' = backend, UNCHANGED <<orders, placed, returns, refunds>>
    PROVE  CommerceIInv'
BY FailsMoves DEF Ready

\* The domain of what a service holds, and the total of an order it holds.
LEMMA Held ==
    ASSUME CommerceIInv
    PROVE  /\ backend \in Buildable /\ backend["order"] \in Platforms \cup {"mock"}
           /\ DOMAIN orders \subseteq Orders
           /\ \A o \in DOMAIN orders : orders[o] \in Doc /\ Total[o] \in Nat
<1>1. backend \in Buildable
  BY CommerceAssumption DEF CommerceIInv, CommerceTyped
<1>2. backend["order"] \in Platforms \cup {"mock"}
  BY <1>1, Servers
<1>3. DOMAIN orders \subseteq Orders
  BY <1>2, SeedAssumption DEF CommerceIInv, CommerceTyped
<1> QED
  BY <1>1, <1>2, <1>3, CommerceAssumption DEF CommerceIInv, CommerceTyped

LEMMA MockCancelsMoves ==
    ASSUME CommerceIInv, NEW c, NEW k, Ready(c, k), MockCancels(c, k), backend' = backend
    PROVE  CommerceIInv'
<1>1. CASE Refuses(c, k) /\ UNCHANGED orders
  BY <1>1, MockFails DEF MockCancels
<1>2. CASE /\ MockCancellable(k.order)
           /\ orders' = [orders EXCEPT ![k.order].status = "cancelled"]
           /\ Tells(c, Done(k), "success", "cancelled", Total[k.order])
  <2> DEFINE o == k.order
  <2>1. /\ o \in DOMAIN orders /\ backend["order"] = "mock"
        /\ orders[o].status # "delivered" /\ Total[o] \in Nat
    BY <1>2, Held DEF MockCancellable, Stored
  <2>2. orders' \in [DOMAIN Seed[backend["order"]] -> Doc] /\ DOMAIN orders' = DOMAIN orders
    BY <1>2 DEF CommerceIInv, CommerceTyped, Doc, Word
  <2>3. /\ \A p \in DOMAIN orders : p # o => orders'[p] = orders[p]
        /\ orders'[o].status = "cancelled" /\ orders'[o].cancelled = orders[o].cancelled
    BY <1>2, <2>1, <2>2, Held DEF Doc
  <2>4. \A p \in DOMAIN orders : MarkedIn("mock", orders[p]) => MarkedIn("mock", orders'[p])
    BY <2>3 DEF MarkedIn
  <2>5. Grows
    BY <1>2, <2>1, <2>2, <2>4 DEF Grows, MockCancels
  <2>6. MarkedIn(backend["order"], orders'[o])
    BY <2>1, <2>3 DEF MarkedIn
  <2>7. k.tool = "cancel_order" /\ k.tool \notin StatusReads \cup Refunding
    BY Kinds DEF MockCancels
  <2>8. PICK m \in CallRecord : /\ m.tool = k.tool /\ m.order = k.order /\ m.after = k.after
                                /\ Tells(c, m, "success", "cancelled", Total[o])
    BY <1>2 DEF Ready, Done, CallRecord
  <2>9. calls' \in [Calls -> CallRecord] /\ CallsOK' /\ AfterOver' /\ CancelledStaysCancelled'
    <3>1. "cancelled" \in Word
      BY DEF Word
    <3> HIDE DEF o
    <3> QED
      BY <2>1, <2>2, <2>5, <2>6, <2>7, <2>8, <3>1, TellsMoves DEF Ready, o
  <2>10. MockDocs'
    BY <2>1, <2>2, <2>3 DEF CommerceIInv, MockDocs
  <2>11. ReturnsOK'
    BY <1>2, <2>1, <2>2, <2>3 DEF CommerceIInv, ReturnsOK, MockCancels
  <2>12. CommerceTyped'
    BY <2>2, <2>9 DEF CommerceIInv, CommerceTyped, MockCancels
  <2> QED
    BY <2>9, <2>10, <2>11, <2>12 DEF CommerceIInv
<1> QED
  BY <1>1, <1>2 DEF MockCancels

LEMMA MockReturnsMoves ==
    ASSUME CommerceIInv, NEW c, NEW k, Ready(c, k), MockReturns(c, k), backend' = backend
    PROVE  CommerceIInv'
<1>1. CASE Refuses(c, k) /\ UNCHANGED returns
  BY <1>1, MockFails DEF MockReturns
<1>2. CASE /\ Returnable(k.order)
           /\ returns' = [returns EXCEPT ![k.order] = @ + 1]
           /\ Tells(c, Done(k), "success", "initiated", 0)
  <2>1. calls' \in [Calls -> CallRecord] /\ CallsOK' /\ AfterOver' /\ CancelledStaysCancelled'
    <3>1. "initiated" \in Word /\ 0 \in Nat
      BY DEF Word
    <3>2. k.tool \notin StatusReads \cup Refunding \cup {"cancel_order"}
      BY Kinds DEF MockReturns
    <3> QED
      BY <1>2, <3>1, <3>2, MockTells DEF MockReturns
  <2>2. /\ k.order \in DOMAIN orders /\ k.order \in Orders /\ backend["order"] = "mock"
        /\ orders[k.order].status = "delivered" /\ returns[k.order] = 0
    BY <1>2, Held DEF Returnable, Stored
  <2>3. returns' \in [Orders -> Nat] /\ ReturnsOK'
    BY <1>2, <2>2 DEF CommerceIInv, CommerceTyped, ReturnsOK, MockReturns
  <2>4. MockDocs'
    BY DEF CommerceIInv, MockDocs, MockReturns
  <2>5. CommerceTyped'
    BY <2>1, <2>3 DEF CommerceIInv, CommerceTyped, MockReturns
  <2> QED
    BY <2>1, <2>3, <2>4, <2>5 DEF CommerceIInv
<1> QED
  BY <1>1, <1>2 DEF MockReturns

LEMMA MockServesMoves ==
    ASSUME CommerceIInv, NEW c, NEW k, Ready(c, k), MockServes(c, k),
           Provider(k.tool) = "mock", backend' = backend
    PROVE  CommerceIInv'
<1>1. /\ k.tool \in StatusReads => backend["order"] = "mock"
      /\ k.tool \in Refunding => backend["compensation"] = "mock"
  BY Methods DEF Provider
<1>2. /\ {"found", "pending", "processed", "offered", "readdressed"} \subseteq Word
      /\ 0 \in Nat
  BY DEF Word
<1>3. CASE MockReadsOrder(c, k)
  <2>1. CASE Stored(k.order) /\ Tells(c, k, "success", orders[k.order].status, 0)
    <3>1. orders[k.order].status \in Word
      BY <2>1, Held DEF Stored, Doc
    <3>2. MarkedIn(backend["order"], orders[k.order]) => orders[k.order].status = "cancelled"
      BY <1>1, <1>3 DEF MockReadsOrder, MarkedIn
    <3>3. k.tool # "cancel_order" /\ k.tool \notin Refunding
      BY <1>3, Kinds DEF MockReadsOrder
    <3> QED
      BY <1>2, <1>3, <2>1, <3>1, <3>2, <3>3, MockTellsOnly DEF MockReadsOrder, CommerceIInv,
         CommerceTyped
  <2>2. CASE Refuses(c, k)
    BY <1>3, <2>2, MockFails DEF MockReadsOrder
  <2> QED
    BY <1>3, <2>1, <2>2 DEF MockReadsOrder
<1>4. CASE MockLooksUp(c, k)
  <2>1. k.tool \notin StatusReads \cup Refunding \cup {"cancel_order"}
    BY <1>4, Kinds DEF MockLooksUp
  <2> QED
    BY <1>2, <1>4, <2>1, MockTellsOnly, MockFails DEF MockLooksUp, CommerceIInv, CommerceTyped
<1>5. CASE MockCancels(c, k)
  BY <1>5, MockCancelsMoves
<1>6. CASE MockPlaces(c, k)
  <2>1. k.tool \notin StatusReads \cup Refunding \cup {"cancel_order"}
    BY <1>6, Kinds DEF MockPlaces
  <2>2. placed' \in Nat
    BY <1>6 DEF MockPlaces, CommerceIInv, CommerceTyped
  <2> QED
    BY <1>2, <1>6, <2>1, <2>2, MockTellsOnly DEF MockPlaces
<1>7. CASE MockRefunds(c, k)
  <2> DEFINE cents == IF k.tool = "offer_full_refund" /\ Stored(k.order)
                      THEN Total[k.order] ELSE k.asked
  <2>1. cents \in Nat
    BY Held DEF Stored, Ready, CallRecord
  <2>2. k.tool \notin StatusReads \cup {"cancel_order"}
    BY <1>7, Kinds DEF MockRefunds
  <2>3. Tells(c, Done(k), "success", "processed", cents) \/ Raises(c, k)
    BY <1>7 DEF MockRefunds
  <2> HIDE DEF cents
  <2> QED
    BY <1>1, <1>2, <1>7, <2>1, <2>2, <2>3, MockTellsOnly, MockFails
    DEF MockRefunds, CommerceIInv, CommerceTyped
<1>8. CASE MockOffers(c, k)
  <2>1. k.tool \notin StatusReads \cup Refunding \cup {"cancel_order"}
    BY <1>8, Kinds DEF MockOffers
  <2> QED
    BY <1>2, <1>8, <2>1, MockTellsOnly, MockFails DEF MockOffers, CommerceIInv, CommerceTyped
<1>9. CASE MockReturns(c, k)
  BY <1>9, MockReturnsMoves
<1>10. CASE MockReaddresses(c, k)
  <2>1. k.tool \notin StatusReads \cup Refunding \cup {"cancel_order"}
    BY <1>10, Kinds DEF MockReaddresses
  <2>2. Tells(c, Done(k), "success", "readdressed", 0) \/ Refuses(c, k)
    BY <1>10 DEF MockReaddresses
  <2> QED
    BY <1>2, <1>10, <2>1, <2>2, MockTellsOnly, MockFails
    DEF MockReaddresses, CommerceIInv, CommerceTyped
<1> QED
  BY <1>3, <1>4, <1>5, <1>6, <1>7, <1>8, <1>9, <1>10 DEF MockServes

-----------------------------------------------------------------------------
(* The tools, up to their first answer.                                    *)

\* A call goes on to wait for the product or for the service.
LEMMA Waits ==
    ASSUME CommerceIInv, NEW c, NEW k, Ready(c, k), NEW stage \in {"product", "asked"},
           calls' = [calls EXCEPT ![c] = [k EXCEPT !.stage = stage]],
           stage = "product" => k.tool \in Placing,
           stage = "asked" => ServedAt(backend, k.tool),
           backend' = backend, UNCHANGED <<orders, placed, returns, refunds>>
    PROVE  CommerceIInv'
<1>1. Grows
  BY Stays
<1> DEFINE m == [k EXCEPT !.stage = stage]
<1>2. /\ m \in CallRecord
      /\ m.stage = stage /\ m.tool = k.tool /\ m.after = k.after
      /\ m.told = "none" /\ ~m.did
  BY DEF Ready, CallRecord
<1>3. CallOK(m, backend', orders') /\ RefundOK(c, m, backend', refunds')
  <2> HIDE DEF m
  <2> QED
    BY <1>2 DEF CallOK, RefundOK
<1>4. calls' = [calls EXCEPT ![c] = m]
  OBVIOUS
<1> HIDE DEF m
<1>5. calls' \in [Calls -> CallRecord]
  BY <1>2, <1>4 DEF CommerceIInv, CommerceTyped
<1>6. CallsOK' /\ AfterOver' /\ CancelledStaysCancelled'
  BY <1>1, <1>2, <1>3, <1>4, CallMoves DEF Ready
<1> QED
  BY <1>5, <1>6, Nothing

LEMMA AsksMoves ==
    ASSUME CommerceIInv, NEW c, NEW k, Ready(c, k), Asks(c, k), backend' = backend
    PROVE  CommerceIInv'
<1>1. CASE Provider(k.tool) = "mock"
  BY <1>1, MockServesMoves DEF Asks
<1>2. CASE Provider(k.tool) # "mock"
  <2>1. UNCHANGED <<orders, placed, returns, refunds>>
    BY <1>2 DEF Asks
  <2>2. CASE /\ Serves(Provider(k.tool), ToolMethod[k.tool][1], ToolMethod[k.tool][2])
             /\ calls' = [calls EXCEPT ![c] = [k EXCEPT !.stage = "asked"]]
    <3>1. ServedAt(backend, k.tool)
      BY <1>2, <2>2 DEF ServedAt, Provider, Ready
    <3> QED
      BY <2>1, <2>2, <3>1, Waits
  <2>3. CASE Raises(c, k)
    BY <2>1, <2>3, MockFails
  <2> QED
    BY <1>2, <2>2, <2>3 DEF Asks
<1> QED
  BY <1>1, <1>2

LEMMA AsksProductMoves ==
    ASSUME CommerceIInv, NEW c, NEW k, Ready(c, k), AsksProduct(c, k),
           k.tool \in Placing, backend' = backend
    PROVE  CommerceIInv'
<1>1. CASE Asks(c, k)
  BY <1>1, AsksMoves
<1>2. CASE /\ Refuses(c, k) \/ Raises(c, k)
           /\ UNCHANGED <<orders, placed, returns, refunds>>
  BY <1>2, MockFails
<1>3. CASE /\ calls' = [calls EXCEPT ![c] = [k EXCEPT !.stage = "product"]]
           /\ UNCHANGED <<orders, placed, returns, refunds>>
  BY <1>3, Waits
<1> QED
  BY <1>1, <1>2, <1>3 DEF AsksProduct

LEMMA BeginMoves ==
    ASSUME CommerceIInv, NEW c \in Calls, Begin(c)
    PROVE  CommerceIInv'
<1>1. PICK i \in Inputs :
         LET k == [NoCall EXCEPT !.tool = i[1], !.order = i[2], !.asked = i[3],
                                 !.after = {d \in Calls : calls[d].stage = "over"}]
         IN  \/ i[1] \in Placing /\ AsksProduct(c, k)
             \/ i[1] \in DOMAIN ToolMethod \ Placing /\ Asks(c, k)
             \/ /\ i[1] \in FreeItemTools \cup {"look_up_customer"}
                /\ Refuses(c, k)
                /\ UNCHANGED <<orders, placed, returns, refunds>>
  BY DEF Begin
<1> DEFINE k == [NoCall EXCEPT !.tool = i[1], !.order = i[2], !.asked = i[3],
                               !.after = {d \in Calls : calls[d].stage = "over"}]
<1>2. i[1] \in Tools /\ i[2] \in Orders \cup {NoOrder} /\ i[3] \in Nat
  <2>1. i \in Offered \X (Orders \cup {NoOrder}) \X (Amounts \cup {0})
    BY DEF Inputs
  <2>2. i[1] \in Offered /\ i[2] \in Orders \cup {NoOrder} /\ i[3] \in Amounts \cup {0}
    BY <2>1
  <2>3. i[1] \in Tools
    BY <2>2, CommerceAssumption
  <2>4. i[3] \in Nat
    <3>1. Amounts \cup {0} \subseteq Nat
      BY CommerceAssumption
    <3> QED
      BY <2>2, <3>1, Zenon
  <2> QED
    BY <2>2, <2>3, <2>4
<1>3. /\ k \in CallRecord /\ k.tool = i[1] /\ ~k.did /\ k.told = "none"
      /\ \A d \in k.after : calls[d].stage = "over"
  BY <1>2 DEF NoCall, CallRecord, Word
<1>4. calls[c].stage # "over" /\ backend' = backend
  BY DEF Begin
<1>5. \/ i[1] \in Placing /\ AsksProduct(c, k)
      \/ i[1] \in DOMAIN ToolMethod \ Placing /\ Asks(c, k)
      \/ Refuses(c, k) /\ UNCHANGED <<orders, placed, returns, refunds>>
  BY <1>1
<1> HIDE DEF k
<1>6. CASE i[1] \in Placing /\ AsksProduct(c, k)
  <2>1. Ready(c, k) /\ k.tool \in Placing
    BY <1>3, <1>4, <1>6, Kinds DEF Ready
  <2> QED
    BY <1>4, <1>6, <2>1, AsksProductMoves
<1>7. CASE i[1] \in DOMAIN ToolMethod \ Placing /\ Asks(c, k)
  <2>1. Ready(c, k)
    BY <1>3, <1>4, <1>7 DEF Ready
  <2> QED
    BY <1>4, <1>7, <2>1, AsksMoves
<1>8. CASE Refuses(c, k) /\ UNCHANGED <<orders, placed, returns, refunds>>
  BY <1>3, <1>4, <1>8, FailsMoves
<1> QED
  BY <1>5, <1>6, <1>7, <1>8

LEMMA ProductReturnsMoves ==
    ASSUME CommerceIInv, NEW c \in Calls, ProductReturns(c)
    PROVE  CommerceIInv'
<1> DEFINE k == calls[c]
<1>1. k \in CallRecord /\ k.stage = "product" /\ backend' = backend
  BY DEF CommerceIInv, CommerceTyped, ProductReturns
<1>2. CallOK(k, backend, orders) /\ \A d \in k.after : calls[d].stage = "over"
  BY DEF CommerceIInv, CallsOK, AfterOver
<1>3. ~k.did /\ k.told = "none" /\ k.tool \in Placing
  BY <1>1, <1>2 DEF CallOK
<1>4. Ready(c, k)
  BY <1>1, <1>2, <1>3, Kinds DEF Ready
<1>5. CASE Asks(c, k)
  BY <1>1, <1>4, <1>5, AsksMoves
<1>6. CASE /\ Refuses(c, k) \/ Raises(c, k)
           /\ UNCHANGED <<orders, placed, returns, refunds>>
  BY <1>1, <1>4, <1>6, MockFails
<1> QED
  BY <1>5, <1>6 DEF ProductReturns

-----------------------------------------------------------------------------
(* The platforms.                                                          *)

LEMMA CancelledAtMarks ==
    ASSUME NEW p \in {"shopify", "woocommerce"}, NEW doc \in Doc
    PROVE  CancelledAt(p, doc) \in Doc /\ MarkedIn(p, CancelledAt(p, doc))
BY DEF CancelledAt, MarkedIn, Doc, Word

\* What the adapters make of documents.
LEMMA Parsing ==
    ASSUME NEW p \in {"shopify", "woocommerce"}, NEW doc \in Doc
    PROVE  /\ ParsedStatus(p, doc) \in Word
           /\ MarkedIn(p, doc) => ParsedStatus(p, doc) = "cancelled"
           /\ ParsedCancellation(p, doc) => MarkedIn(p, doc)
           /\ MarkedIn(p, doc) /\ ~ParsedCancellation(p, doc) => p = "woocommerce"
<1>1. CASE p = "shopify"
  BY <1>1 DEF ParsedStatus, ShopifyStatus, ShopifyFulfillment, ParsedCancellation,
              ShopifyCancelled, MarkedIn, Word
<1>2. CASE p = "woocommerce"
  BY <1>2 DEF ParsedStatus, WooStatus, WooStatusMap, ParsedCancellation,
              WooCancelled, MarkedIn, Word
<1> QED
  BY <1>1, <1>2

\* The refund r was recorded for call c, or there is none.
RefundDoc(c, r) ==
    \/ r = NoRefund
    \/ r \in refunds' /\ \E s \in RefundStatus : r = RefundFor(c, calls[c], s)

\* Of the amounts of a document, a parser tells one that is not above the refund's.
LEMMA AmountParsing ==
    ASSUME NEW p \in {"shopify", "woocommerce", "stripe"}, NEW r, r.cents \in Nat,
           NEW doc \in RefundDocuments(r)
    PROVE  /\ doc.status = r.status
           /\ ParsedAmount(p, doc) \in Nat /\ ParsedAmount(p, doc) <= r.cents
           /\ p # "shopify" => ParsedAmount(p, doc) = r.cents
<1>1. PICK t \in {<<>>, <<r.cents>>}
                 \cup {<<q, r.cents - q>> : q \in {x \in Splits : x <= r.cents}} :
          doc = [status |-> r.status, amount |-> r.cents, transactions |-> t]
  BY DEF RefundDocuments
<1>2. doc.status = r.status /\ doc.amount = r.cents /\ doc.transactions = t
  BY <1>1
<1>3. ShopifyAmount(doc) \in Nat /\ ShopifyAmount(doc) <= r.cents
  <2>1. CASE t = <<>>
    BY <1>2, <2>1 DEF ShopifyAmount
  <2>2. CASE t = <<r.cents>>
    BY <1>2, <2>2 DEF ShopifyAmount
  <2>3. CASE \E q \in Splits : q <= r.cents /\ t = <<q, r.cents - q>>
    BY <1>2, <2>3, CommerceAssumption DEF ShopifyAmount
  <2> QED
    BY <1>1, <2>1, <2>2, <2>3
<1> QED
  BY <1>2, <1>3 DEF ParsedAmount, WooAmount, StripeAmount

\* What a refund tool may tell of the documents about r.
LEMMA RefundParsing ==
    ASSUME CommerceIInv, NEW c \in Calls, NEW r, RefundDoc(c, r), NEW doc \in RefundDocuments(r),
           calls[c].stage = "asked", calls[c].tool \in Refunding, Found(calls[c])
    PROVE  /\ ParsedRefund(backend["compensation"], doc) \in Word
           /\ ParsedAmount(backend["compensation"], doc) \in Nat
           /\ ParsedRefund(backend["compensation"], doc) = "processed" =>
                \E q \in refunds' : Backs(q, c, calls[c],
                                          ParsedAmount(backend["compensation"], doc), backend)
<1> DEFINE k == calls[c]
           b == backend["compensation"]
<1>1. /\ k \in CallRecord /\ ServedAt(backend, k.tool)
  BY DEF CommerceIInv, CommerceTyped, CallsOK, CallOK
<1>2. b \in {"shopify", "woocommerce", "stripe"}
  BY <1>1, Held, Servers
<1>3. k.order \in DOMAIN orders
  BY Kinds DEF Found
<1>4. k.asked \in Nat /\ Total[k.order] \in Nat /\ Lossy \subseteq Nat \ {0}
  BY <1>1, <1>3, Held, CommerceAssumption DEF CallRecord
<1>5. AskedCents(b, k.asked, Lossy) \in {k.asked - 1, k.asked} \cap Nat
  BY <1>4 DEF AskedCents
<1>6. CASE r = NoRefund
  <2>1. r.status = "none" /\ r.cents \in Nat
    BY <1>6 DEF NoRefund
  <2>2. doc.status = "none" /\ ParsedAmount(b, doc) \in Nat
    BY <1>2, <2>1, AmountParsing
  <2>3. ParsedRefund(b, doc) = "failed"
    BY <1>2, <2>2 DEF ParsedRefund, ShopifyRefund, WooRefund, StripeRefund
  <2> QED
    BY <2>2, <2>3 DEF Word
<1>7. CASE r # NoRefund
  <2>1. r \in refunds' /\ \E s \in RefundStatus : r = RefundFor(c, k, s)
    BY <1>7 DEF RefundDoc
  <2>2. PICK s \in RefundStatus : r = RefundFor(c, k, s)
    BY <2>1
  <2>3. /\ r.status = s /\ r.call = c
        /\ r.cents = IF k.tool = "offer_full_refund" THEN Total[k.order]
                     ELSE AskedCents(b, k.asked, Lossy)
    BY <2>2 DEF RefundFor
  <2>4. r.cents \in Nat /\ (k.tool = "offer_partial_refund" => r.cents \in {k.asked - 1, k.asked})
    BY <1>4, <1>5, <2>3
  <2>5. /\ doc.status = s /\ ParsedAmount(b, doc) \in Nat /\ ParsedAmount(b, doc) <= r.cents
        /\ b # "shopify" => ParsedAmount(b, doc) = r.cents
    BY <1>2, <2>3, <2>4, AmountParsing
  <2>6. /\ ParsedRefund(b, doc) \in {"processed", "failed"}
        /\ ParsedRefund(b, doc) = "processed" => s \in {"recorded", "succeeded"}
    BY <1>2, <2>5 DEF ParsedRefund, ShopifyRefund, WooRefund, StripeRefund, RefundStatus
  <2>7. s \in {"recorded", "succeeded"} => Backs(r, c, k, ParsedAmount(b, doc), backend)
    BY <2>3, <2>4, <2>5 DEF Backs
  <2>8. ParsedRefund(b, doc) \in Word
    BY <2>6 DEF Word
  <2> QED
    BY <2>1, <2>5, <2>6, <2>7, <2>8
<1> QED
  BY <1>6, <1>7

\* The platform does what call c asks, or nothing.
LEMMA PlatformDoes ==
    ASSUME CommerceIInv, NEW c \in Calls, NEW r, backend' = backend,
           calls[c].stage = "asked", Performs(c, r) \/ Declines(r)
    PROVE  /\ Grows /\ RefundDoc(c, r)
           /\ DOMAIN orders' = DOMAIN orders
           /\ orders' = orders \/ backend["order"] # "mock"
           /\ calls[c].tool # "cancel_order" => orders' = orders
           /\ calls[c].tool = "cancel_order" /\ (Performs(c, r) \/ calls[c].did) =>
                  /\ calls[c].order \in DOMAIN orders'
                  /\ MarkedIn(backend["order"], orders'[calls[c].order])
<1> DEFINE k == calls[c]
<1>1. /\ k \in CallRecord /\ ServedAt(backend, k.tool)
      /\ CallOK(k, backend, orders)
  BY DEF CommerceIInv, CommerceTyped, CallsOK, CallOK
<1>2. /\ orders \in [DOMAIN orders -> Doc]
      /\ DOMAIN orders = DOMAIN Seed[backend["order"]]
  BY DEF CommerceIInv, CommerceTyped
<1>3. CASE orders' = orders /\ refunds \subseteq refunds' /\ k.tool # "cancel_order"
           /\ RefundDoc(c, r)
  BY <1>2, <1>3 DEF Grows
<1>4. CASE orders' = orders /\ refunds' = refunds /\ r = NoRefund /\ ~Performs(c, r)
  BY <1>1, <1>2, <1>4, Stays DEF RefundDoc, CallOK
<1>5. CASE /\ k.tool = "cancel_order" /\ r = NoRefund /\ Found(k)
           /\ orders' = [orders EXCEPT ![k.order] = CancelledAt(backend["order"], @)]
           /\ UNCHANGED refunds
  <2>1. k.order \in DOMAIN orders
    BY <1>5, Kinds DEF Found
  <2>2. backend["order"] \in {"shopify", "woocommerce"}
    BY <1>1, <1>5, Held, Servers
  <2>3. CancelledAt(backend["order"], orders[k.order]) \in Doc
        /\ MarkedIn(backend["order"], CancelledAt(backend["order"], orders[k.order]))
    BY <1>2, <2>1, <2>2, CancelledAtMarks
  <2>4. /\ orders' \in [DOMAIN orders -> Doc]
        /\ MarkedIn(backend["order"], orders'[k.order])
        /\ \A o \in DOMAIN orders : o # k.order => orders'[o] = orders[o]
    BY <1>2, <1>5, <2>1, <2>3
  <2>5. Grows
    BY <1>2, <1>5, <2>4 DEF Grows
  <2> QED
    BY <1>2, <1>5, <2>1, <2>2, <2>4, <2>5 DEF RefundDoc
<1>6. CASE Performs(c, r)
  <2>1. CASE k.tool \in Refunding
    <3>1. /\ r \in {RefundFor(c, k, s) : s \in RefundStatus}
          /\ refunds' = refunds \cup {r} /\ orders' = orders
      BY <1>6, <2>1, Kinds DEF Performs
    <3> QED
      BY <1>3, <2>1, <3>1, Kinds DEF RefundDoc
  <2>2. CASE k.tool = "cancel_order"
    BY <1>5, <1>6, <2>2, Kinds DEF Performs
  <2>3. CASE k.tool \notin Refunding \cup {"cancel_order"}
    BY <1>3, <1>6, <2>3 DEF Performs, RefundDoc
  <2> QED
    BY <2>1, <2>2, <2>3
<1>7. CASE Declines(r) /\ ~Performs(c, r)
  BY <1>4, <1>7 DEF Declines
<1> QED
  BY <1>6, <1>7

\* The record of call c once the platform has done what it asks, or not.
After(c, k, r) ==
    \/ k = Done(calls[c]) /\ Performs(c, r)
    \/ k = calls[c] /\ Declines(r)

LEMMA AfterRecord ==
    ASSUME CommerceIInv, NEW c \in Calls, NEW k, NEW r, After(c, k, r)
    PROVE  /\ k \in CallRecord /\ k.told = calls[c].told /\ k.stage = calls[c].stage
           /\ k.tool = calls[c].tool /\ k.order = calls[c].order
           /\ k.asked = calls[c].asked /\ k.after = calls[c].after
           /\ k.did => Performs(c, r) \/ calls[c].did
           /\ \A d \in k.after : calls[d].stage = "over"
<1>1. calls[c] \in CallRecord /\ \A d \in calls[c].after : calls[d].stage = "over"
  BY DEF CommerceIInv, CommerceTyped, AfterOver
<1> QED
  BY <1>1 DEF After, Done, CallRecord

LEMMA ReportsMoves ==
    ASSUME CommerceIInv, NEW c \in Calls, NEW k, NEW r, After(c, k, r),
           calls[c].stage = "asked", Found(calls[c]), Reports(c, k, r), backend' = backend
    PROVE  calls' \in [Calls -> CallRecord] /\ CallsOK' /\ AfterOver' /\ CancelledStaysCancelled'
<1>1. /\ k \in CallRecord /\ k.tool = calls[c].tool /\ k.order = calls[c].order
      /\ k.asked = calls[c].asked /\ calls[c].stage # "over"
      /\ k.did => Performs(c, r) \/ calls[c].did
      /\ \A d \in k.after : calls[d].stage = "over"
  BY AfterRecord
<1>2. /\ Grows /\ RefundDoc(c, r) /\ DOMAIN orders' = DOMAIN orders
      /\ k.tool # "cancel_order" => orders' = orders
      /\ k.tool = "cancel_order" /\ k.did =>
             k.order \in DOMAIN orders' /\ MarkedIn(backend["order"], orders'[k.order])
  BY <1>1, PlatformDoes DEF After
<1>3. ServedAt(backend, k.tool)
  BY <1>1 DEF CommerceIInv, CallsOK, CallOK
<1>4. /\ orders' \in [DOMAIN orders' -> Doc] /\ orders \in [DOMAIN orders -> Doc]
  BY <1>2 DEF Grows, CommerceIInv, CommerceTyped
<1>5. /\ k.tool \in StatusReads \cup {"cancel_order"} =>
             /\ Provider(k.tool) = backend["order"]
             /\ backend["order"] \in {"shopify", "woocommerce"}
             /\ k.order \in DOMAIN orders
      /\ k.tool \in Refunding => Provider(k.tool) = backend["compensation"]
  BY <1>1, <1>3, Methods, Kinds, Held, Servers DEF Provider, Found
<1>6. CASE k.tool \in StatusReads
  <2> DEFINE says == ParsedStatus(backend["order"], orders[k.order])
  <2>1. says \in Word /\ (MarkedIn(backend["order"], orders[k.order]) => says = "cancelled")
    BY <1>4, <1>5, <1>6, Parsing
  <2>2. Tells(c, k, "success", says, 0)
    BY <1>5, <1>6, Kinds DEF Reports
  <2>3. k.tool # "cancel_order" /\ k.tool \notin Refunding
    BY <1>6, Kinds
  <2> HIDE DEF says
  <2> QED
    BY <1>1, <1>2, <2>1, <2>2, <2>3, TellsMoves
<1>7. CASE k.tool = "cancel_order"
  <2>1. k.tool \notin StatusReads \cup Refunding
    BY <1>7, Kinds
  <2>2. orders'[k.order] \in Doc /\ Total[k.order] \in Nat /\ k.order \in DOMAIN orders'
    BY <1>2, <1>4, <1>5, <1>7, Held
  <2>3. CASE /\ ParsedCancellation(backend["order"], orders'[k.order])
             /\ Tells(c, k, "success", "cancelled", Total[k.order])
    <3>1. MarkedIn(backend["order"], orders'[k.order]) /\ "cancelled" \in Word
      BY <1>5, <1>7, <2>2, <2>3, Parsing DEF Word
    <3> QED
      BY <1>1, <1>2, <2>1, <2>2, <2>3, <3>1, TellsMoves
  <2>4. CASE ~ParsedCancellation(backend["order"], orders'[k.order]) /\ Refuses(c, k)
    <3>1. k.did => backend["order"] = "woocommerce"
      BY <1>2, <1>5, <1>7, <2>2, <2>4, Parsing
    <3>2. Tells(c, k, "failure", "none", 0) /\ "none" \in Word /\ 0 \in Nat
      BY <2>4 DEF Refuses, Word
    <3> QED
      BY <1>1, <1>2, <1>7, <2>1, <3>1, <3>2, TellsMoves
  <2>5. IF ParsedCancellation(Provider(k.tool), orders'[k.order])
        THEN Tells(c, k, "success", "cancelled", Total[k.order])
        ELSE Refuses(c, k)
    BY <1>7, <2>1 DEF Reports
  <2> QED
    BY <1>5, <1>7, <2>3, <2>4, <2>5
<1>8. CASE k.tool \in Refunding
  <2>1. k.tool \notin StatusReads /\ k.tool # "cancel_order"
    BY <1>8, Kinds
  <2>2. PICK doc \in RefundDocuments(r) :
           Tells(c, k, "success", ParsedRefund(backend["compensation"], doc),
                                  ParsedAmount(backend["compensation"], doc))
    BY <1>5, <1>8, <2>1, Kinds DEF Reports
  <2> DEFINE says == ParsedRefund(backend["compensation"], doc)
             paid == ParsedAmount(backend["compensation"], doc)
  <2>3. /\ says \in Word /\ paid \in Nat
        /\ says = "processed" => \E q \in refunds' : Backs(q, c, calls[c], paid, backend)
    BY <1>1, <1>2, <1>8, RefundParsing
  <2>4. says = "processed" => \E q \in refunds' : Backs(q, c, k, paid, backend)
    BY <1>1, <2>3 DEF Backs
  <2>5. Tells(c, k, "success", says, paid)
    BY <2>2
  <2> HIDE DEF says, paid
  <2> QED
    BY <1>1, <1>2, <2>1, <2>3, <2>4, <2>5, TellsMoves
<1>9. CASE k.tool \notin StatusReads \cup Refunding \cup {"cancel_order"}
  <2>1. Tells(c, k, "success", "found", 0) /\ "found" \in Word
    BY <1>9 DEF Reports, Word
  <2> QED
    BY <1>1, <1>2, <1>9, <2>1, TellsMoves
<1> QED
  BY <1>6, <1>7, <1>8, <1>9

\* The rest of the state, when a platform has done something for call c.
LEMMA PlatformStep ==
    ASSUME CommerceIInv, NEW c \in Calls, NEW k, NEW r, After(c, k, r),
           calls[c].stage = "asked", UNCHANGED <<backend, placed, returns>>,
           calls' \in [Calls -> CallRecord], CallsOK', AfterOver', CancelledStaysCancelled'
    PROVE  CommerceIInv'
<1>1. Grows /\ (orders' = orders \/ backend["order"] # "mock")
  BY PlatformDoes DEF After
<1>2. MockDocs' /\ ReturnsOK'
  BY <1>1, ReturnsStay
<1>3. CommerceTyped'
  BY <1>1 DEF CommerceIInv, CommerceTyped, Grows
<1> QED
  BY <1>2, <1>3 DEF CommerceIInv

LEMMA AnswersMoves ==
    ASSUME CommerceIInv, NEW c \in Calls, Answers(c)
    PROVE  CommerceIInv'
<1>1. PICK r \in Drafts(c) : \/ Performs(c, r) /\ Reports(c, Done(calls[c]), r)
                             \/ Declines(r) /\ Reports(c, calls[c], r)
  BY DEF Answers
<1>2. PICK k : After(c, k, r) /\ Reports(c, k, r)
  BY <1>1 DEF After
<1>3. /\ calls[c].stage = "asked" /\ Found(calls[c])
      /\ UNCHANGED <<backend, placed, returns>>
  BY DEF Answers
<1>4. calls' \in [Calls -> CallRecord] /\ CallsOK' /\ AfterOver' /\ CancelledStaysCancelled'
  BY <1>2, <1>3, ReportsMoves
<1> QED
  BY <1>2, <1>3, <1>4, PlatformStep

\* A call raises after whatever the platform did for it.
LEMMA RaisesMoves ==
    ASSUME CommerceIInv, Grows, NEW c \in Calls, NEW k \in CallRecord, Raises(c, k),
           calls[c].stage # "over", \A d \in k.after : calls[d].stage = "over",
           k.tool = "cancel_order" /\ k.did =>
               k.order \in DOMAIN orders' /\ MarkedIn(backend["order"], orders'[k.order])
    PROVE  calls' \in [Calls -> CallRecord] /\ CallsOK' /\ AfterOver' /\ CancelledStaysCancelled'
<1>1. Tells(c, k, "raised", "none", 0) /\ "none" \in Word /\ 0 \in Nat
  BY DEF Raises, Word
<1> QED
  BY <1>1, TellsMoves

LEMMA AnswersErrorMoves ==
    ASSUME CommerceIInv, NEW c \in Calls, AnswersError(c)
    PROVE  CommerceIInv'
<1> DEFINE k == calls[c]
<1>1. /\ k \in CallRecord /\ k.stage = "asked" /\ CallOK(k, backend, orders)
      /\ \A d \in k.after : calls[d].stage = "over"
  BY DEF CommerceIInv, CommerceTyped, CallsOK, AfterOver, AnswersError
<1>2. backend' = backend /\ UNCHANGED <<orders, placed, returns, refunds>>
  BY DEF AnswersError
<1>3. Grows
  BY <1>2, Stays
<1>4. CASE k.tool \in StatusReads \cup OtherReads /\ Refuses(c, k)
  <2>1. Tells(c, k, "failure", "none", 0) /\ "none" \in Word /\ 0 \in Nat
    BY <1>4 DEF Refuses, Word
  <2>2. k.tool # "cancel_order"
    BY <1>4, Kinds
  <2>3. calls' \in [Calls -> CallRecord] /\ CallsOK' /\ AfterOver' /\ CancelledStaysCancelled'
    BY <1>1, <1>3, <1>4, <2>1, <2>2, TellsMoves
  <2> QED
    BY <1>2, <2>3, Nothing
<1>5. CASE Raises(c, k)
  <2>1. k.tool = "cancel_order" /\ k.did =>
            k.order \in DOMAIN orders' /\ MarkedIn(backend["order"], orders'[k.order])
    BY <1>1, <1>2 DEF CallOK
  <2>2. calls' \in [Calls -> CallRecord] /\ CallsOK' /\ AfterOver' /\ CancelledStaysCancelled'
    BY <1>1, <1>3, <1>5, <2>1, RaisesMoves
  <2> QED
    BY <1>2, <2>2, Nothing
<1> QED
  BY <1>4, <1>5 DEF AnswersError

LEMMA IsLostMoves ==
    ASSUME CommerceIInv, NEW c \in Calls, IsLost(c)
    PROVE  CommerceIInv'
<1>1. PICK r \in Drafts(c), k \in {calls[c], Done(calls[c])} :
          /\ After(c, k, r)
          /\ \/ calls' = [calls EXCEPT ![c] = [k EXCEPT !.tries = @ + 1]]
             \/ Raises(c, k)
  BY DEF IsLost, After
<1>2. /\ calls[c].stage = "asked" /\ UNCHANGED <<backend, placed, returns>>
      /\ calls[c] \in CallRecord /\ calls[c].told = "none"
      /\ ServedAt(backend, calls[c].tool)
  BY DEF IsLost, CommerceIInv, CommerceTyped, CallsOK, CallOK, CallRecord
<1>3. /\ k \in CallRecord /\ k.told = "none" /\ k.stage = "asked"
      /\ k.tool = calls[c].tool /\ k.order = calls[c].order /\ k.after = calls[c].after
      /\ k.did => Performs(c, r) \/ calls[c].did
      /\ \A d \in k.after : calls[d].stage = "over"
  BY <1>1, <1>2, AfterRecord
<1>4. /\ Grows
      /\ k.tool = "cancel_order" /\ k.did =>
             k.order \in DOMAIN orders' /\ MarkedIn(backend["order"], orders'[k.order])
  BY <1>1, <1>2, <1>3, PlatformDoes DEF After
<1>5. CASE Raises(c, k)
  <2>1. calls' \in [Calls -> CallRecord] /\ CallsOK' /\ AfterOver' /\ CancelledStaysCancelled'
    BY <1>2, <1>3, <1>4, <1>5, RaisesMoves
  <2> QED
    BY <1>1, <1>2, <2>1, PlatformStep
<1>6. CASE calls' = [calls EXCEPT ![c] = [k EXCEPT !.tries = @ + 1]]
  <2> DEFINE m == [k EXCEPT !.tries = @ + 1]
  <2>1. /\ m \in CallRecord /\ m.told = "none" /\ m.stage = "asked" /\ m.tool = k.tool
        /\ m.order = k.order /\ m.after = k.after /\ m.did = k.did
    BY <1>3 DEF CallRecord
  <2>2. calls' = [calls EXCEPT ![c] = m]
    BY <1>6
  <2> HIDE DEF m
  <2>3. calls' \in [Calls -> CallRecord]
    BY <2>1, <2>2 DEF CommerceIInv, CommerceTyped
  <2>4. CallOK(m, backend', orders') /\ RefundOK(c, m, backend', refunds')
    BY <1>2, <1>3, <1>4, <2>1 DEF CallOK, RefundOK
  <2>5. CallsOK' /\ AfterOver' /\ CancelledStaysCancelled'
    BY <1>2, <1>3, <1>4, <2>1, <2>2, <2>4, CallMoves
  <2> QED
    BY <1>1, <1>2, <2>3, <2>5, PlatformStep
<1> QED
  BY <1>1, <1>5, <1>6

LEMMA OrderMovesMoves ==
    ASSUME CommerceIInv, NEW o \in DOMAIN orders, OrderMoves(o)
    PROVE  CommerceIInv'
<1> DEFINE p == backend["order"]
<1>1. /\ p \in {"shopify", "woocommerce"} /\ UNCHANGED <<backend, placed, returns, refunds, calls>>
      /\ orders \in [DOMAIN orders -> Doc] /\ DOMAIN orders = DOMAIN Seed[p]
  BY DEF OrderMoves, CommerceIInv, CommerceTyped
<1>2. PICK doc \in Doc : /\ orders' = [orders EXCEPT ![o] = doc]
                         /\ MarkedIn(p, orders[o]) => MarkedIn(p, doc)
  <2>1. CASE \E s \in {q[2] : q \in {q \in Shipping : q[1] = orders[o].status}} :
                orders' = [orders EXCEPT ![o].status = s]
    <3>1. PICK q \in Shipping : /\ q[1] = orders[o].status
                                /\ orders' = [orders EXCEPT ![o].status = q[2]]
      BY <2>1
    <3>2. q[2] \in Word /\ (q[1] \in {"cancelled", "refunded"} => q[2] = "refunded")
      BY DEF Shipping, Word
    <3> DEFINE doc == [orders[o] EXCEPT !.status = q[2]]
    <3>3. /\ doc \in Doc /\ doc.cancelled = orders[o].cancelled /\ doc.status = q[2]
          /\ orders' = [orders EXCEPT ![o] = doc]
      BY <1>1, <3>1, <3>2 DEF Doc
    <3>4. MarkedIn(p, orders[o]) => MarkedIn(p, doc)
      BY <1>1, <3>1, <3>2, <3>3 DEF MarkedIn
    <3> QED
      BY <3>3, <3>4
  <2>2. CASE orders' = [orders EXCEPT ![o] = CancelledAt(backend["order"], @)]
    BY <1>1, <2>2, CancelledAtMarks
  <2> QED
    BY <2>1, <2>2 DEF OrderMoves
<1>3. /\ orders' \in [DOMAIN orders -> Doc]
      /\ \A q \in DOMAIN orders : MarkedIn(p, orders[q]) => MarkedIn(p, orders'[q])
  BY <1>1, <1>2
<1>4. Grows
  BY <1>1, <1>3 DEF Grows
<1>5. CallsOK' /\ AfterOver' /\ CancelledStaysCancelled'
  BY <1>1, <1>4, PlatformMoves
<1>6. MockDocs' /\ ReturnsOK'
  BY <1>1, ReturnsStay
<1>7. CommerceTyped'
  BY <1>1, <1>3 DEF CommerceIInv, CommerceTyped
<1> QED
  BY <1>5, <1>6, <1>7 DEF CommerceIInv

LEMMA RefundSettlesMoves ==
    ASSUME CommerceIInv, RefundSettles
    PROVE  CommerceIInv'
<1>1. UNCHANGED <<backend, orders, placed, returns, calls>>
  BY DEF RefundSettles
<1>2. Grows
  BY <1>1 DEF RefundSettles, Grows, CommerceIInv, CommerceTyped
<1>3. CallsOK' /\ AfterOver' /\ CancelledStaysCancelled'
  BY <1>1, <1>2, PlatformMoves
<1>4. MockDocs' /\ ReturnsOK'
  BY <1>1, ReturnsStay
<1>5. CommerceTyped'
  BY <1>1 DEF CommerceIInv, CommerceTyped
<1> QED
  BY <1>3, <1>4, <1>5 DEF CommerceIInv

-----------------------------------------------------------------------------
(* The theorems.                                                           *)

LEMMA CommerceInitInv == CommerceInit => CommerceIInv
<1> SUFFICES ASSUME CommerceInit PROVE CommerceIInv
  OBVIOUS
<1> DEFINE p == backend["order"]
<1>1. backend \in Backends /\ p \in Platforms \cup {"mock"} /\ orders = Seed[p]
  BY CommerceAssumption, Servers DEF CommerceInit
<1>2. orders \in [DOMAIN Seed[p] -> Doc]
  <2>1. orders \in [DOMAIN Seed[p] -> [status : STRING, cancelled : BOOLEAN]]
    BY <1>1, SeedAssumption
  <2> QED
    BY <2>1 DEF Doc, Word
<1>3. NoCall \in CallRecord
  BY DEF NoCall, CallRecord, Word
<1>4. calls = [c \in Calls |-> NoCall]
  BY DEF CommerceInit
<1>5. \A o \in Orders : returns[o] = IF p = "mock" /\ o \in Returning THEN 1 ELSE 0
  BY DEF CommerceInit
<1>6. CommerceTyped
  BY <1>1, <1>2, <1>3, <1>4 DEF CommerceTyped, CommerceInit
<1>7. CallsOK /\ AfterOver /\ CancelledStaysCancelled
  BY <1>4 DEF NoCall, CallsOK, CallOK, RefundOK, AfterOver, CancelledStaysCancelled, Told
<1>8. MockDocs
  BY <1>1, SeedAssumption DEF MockDocs
<1>9. ReturnsOK
  BY <1>1, <1>5, SeedAssumption DEF ReturnsOK
<1> QED
  BY <1>6, <1>7, <1>8, <1>9 DEF CommerceIInv

LEMMA CommerceStep == CommerceIInv /\ [CommerceNext]_commerceVars => CommerceIInv'
<1> SUFFICES ASSUME CommerceIInv, [CommerceNext]_commerceVars PROVE CommerceIInv'
  OBVIOUS
<1>1. CASE UNCHANGED commerceVars
  BY <1>1 DEF commerceVars, CommerceIInv, CommerceTyped, CallsOK, AfterOver,
              CancelledStaysCancelled, Told, MockDocs, ReturnsOK
<1>2. ASSUME NEW c \in Calls, Begin(c) PROVE CommerceIInv'
  BY <1>2, BeginMoves
<1>3. ASSUME NEW c \in Calls, ProductReturns(c) PROVE CommerceIInv'
  BY <1>3, ProductReturnsMoves
<1>4. ASSUME NEW c \in Calls, Answers(c) PROVE CommerceIInv'
  BY <1>4, AnswersMoves
<1>5. ASSUME NEW c \in Calls, AnswersError(c) PROVE CommerceIInv'
  BY <1>5, AnswersErrorMoves
<1>6. ASSUME NEW c \in Calls, IsLost(c) PROVE CommerceIInv'
  BY <1>6, IsLostMoves
<1>7. ASSUME NEW o \in DOMAIN orders, OrderMoves(o) PROVE CommerceIInv'
  BY <1>7, OrderMovesMoves
<1>8. CASE RefundSettles
  BY <1>8, RefundSettlesMoves
<1> QED
  BY <1>1, <1>2, <1>3, <1>4, <1>5, <1>6, <1>7, <1>8 DEF CommerceNext

LEMMA CommerceInvariance == CommerceSpec => []CommerceIInv
BY CommerceInitInv, CommerceStep, PTL DEF CommerceSpec

\* What the tools tell of cancellations, refunds and failures is so, however the
\* requests are lost and repeated and whatever the platforms do meanwhile.
THEOREM WhatIsToldIsTrue == CommerceSpec => []ToldIsTrue
<1>1. CommerceIInv => CancellationsAreTrue
  <2> SUFFICES ASSUME CommerceIInv, NEW c \in Calls, Told(c, {"cancel_order"}, "success")
               PROVE  Cancelled(calls[c].order)
    BY DEF CancellationsAreTrue
  <2>1. MarkedIn(backend["order"], orders[calls[c].order])
    BY DEF CommerceIInv, CallsOK, CallOK, Told
  <2> QED
    BY <2>1 DEF MarkedIn, Cancelled
<1>2. CommerceIInv => RefundsAreTrue
  BY DEF CommerceIInv, CallsOK, RefundOK, Backs, RefundsAreTrue, Told, Platform
<1>3. CommerceIInv => FailuresAreTrue
  <2> SUFFICES ASSUME CommerceIInv, NEW c \in Calls, calls[c].did,
                      Told(c, Tools \ (StatusReads \cup OtherReads), "failure")
               PROVE  orders[calls[c].order].status \in {"refunded", "cancelled"}
    BY DEF FailuresAreTrue
  <2>1. backend["order"] = "woocommerce" /\ MarkedIn("woocommerce", orders[calls[c].order])
    BY DEF CommerceIInv, CallsOK, CallOK, Told
  <2> QED
    BY <2>1 DEF MarkedIn
<1>4. CommerceIInv => ToldIsTrue
  BY <1>1, <1>2, <1>3 DEF ToldIsTrue
<1> QED
  BY <1>4, CommerceInvariance, PTL

\* Who was told of a cancellation is told of no other status of that order.
THEOREM CancellationIsFinal == CommerceSpec => []CancelledStaysCancelled
<1>1. CommerceIInv => CancelledStaysCancelled
  BY DEF CommerceIInv
<1> QED
  BY <1>1, CommerceInvariance, PTL

\* No order is cancelled and on its way back, and each comes back once.
THEOREM ReturnsAreOfKeptOrders == CommerceSpec => []ReturnedIsNotCancelled
<1>1. CommerceIInv => ReturnedIsNotCancelled
  <2> SUFFICES ASSUME CommerceIInv, NEW o \in Orders
               PROVE  /\ returns[o] <= 1
                      /\ returns[o] = 1 => o \in DOMAIN orders /\ ~Cancelled(o)
    BY DEF ReturnedIsNotCancelled
  <2> QED
    BY DEF CommerceIInv, ReturnsOK, MockDocs, Cancelled
<1> QED
  BY <1>1, CommerceInvariance, PTL
=============================================================================
