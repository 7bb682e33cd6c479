---------------------------- MODULE Purchasing ----------------------------
(***************************************************************************)
(* Supplier orders and deliveries of one Coffee project                    *)
(* (purchasing/service.ts over purchasing/repository.ts), and the receipts *)
(* they book in the Warehouse.                                             *)
(*                                                                         *)
(* Every repository call reads and writes the store in one turn.  Access   *)
(* checks and Warehouse queries wait for timers, so two handlers take two  *)
(* steps: updateDraftOrder reads the draft and, several timers later,      *)
(* replaces the order; postDelivery reads the store, waits for the         *)
(* Warehouse, and then books the receipt and commits what it made of its   *)
(* reading.  All others read after their last timer and are one step.      *)
(*                                                                         *)
(* The lines of an order get new identifiers whenever a draft is saved:    *)
(* version stands for them.  The lines of a delivery get theirs when it is *)
(* posted: attempt stands for them, and a receipt is the batch of one      *)
(* attempt.  Quantities are purchase units; prices, numbers, names, dates, *)
(* suppliers and their assortment are left out.  A handler that throws     *)
(* before it writes is no step.                                            *)
(***************************************************************************)
EXTENDS Integers, FiniteSetsExt

CONSTANTS
  Order, Delivery, Resource,
  Withdrawn,     \* bound: the deliveries that may be cancelled
  NoOrder,       \* a delivery that is not created has none
  Client,        \* handlers that may be under way at once
  MaxQuantity,   \* bound: quantity of one line
  MaxVersions,   \* bound: saved versions of order lines
  MaxAttempts    \* bound: attempts at posting

ASSUME OrderAssumption == NoOrder \notin Order
ASSUME WithdrawnAssumption == Withdrawn \subseteq Delivery
ASSUME BoundsAssumption == MaxQuantity \in Nat /\ MaxVersions \in Nat /\ MaxAttempts \in Nat

VARIABLES
  orders,      \* status "ABSENT" when not created
  deliveries,  \* likewise
  prices,      \* the price history: the <<delivery, attempt>> whose prices were recorded
  receipts,    \* the Warehouse's movements of type supplier delivery, a batch each
  handlers,    \* what each client's waiting handler remembers
  versions,    \* versions used so far
  attempts     \* attempts made so far

vars == <<orders, deliveries, prices, receipts, handlers, versions, attempts>>

Quantities == [Resource -> 0 .. MaxQuantity]
NoLines == [r \in Resource |-> 0]
Idle == [kind |-> "idle"]

Receivable == {"SENT", "PARTIALLY_DELIVERED"}

-----------------------------------------------------------------------------
(* Supplier orders.                                                        *)

\* orderDocument: a draft with new lines, at least one.
Drafted(quantity) == [status |-> "DRAFT", version |-> versions + 1, ordered |-> quantity]

NewLines(quantity) ==
  /\ \E r \in Resource : quantity[r] > 0
  /\ versions < MaxVersions
  /\ versions' = versions + 1

CreateOrder(o, quantity) ==
  /\ orders[o].status = "ABSENT"
  /\ NewLines(quantity)
  /\ orders' = [orders EXCEPT ![o] = Drafted(quantity)]
  /\ UNCHANGED <<deliveries, prices, receipts, handlers, attempts>>

\* updateDraftOrder finds a draft ...
BeginUpdate(c, o) ==
  /\ handlers[c] = Idle
  /\ orders[o].status = "DRAFT"
  /\ handlers' = [handlers EXCEPT ![c] = [kind |-> "update", orderId |-> o]]
  /\ UNCHANGED <<orders, deliveries, prices, receipts, versions, attempts>>

\* ... and replaces whatever the order has become by the new draft.
FinishUpdate(c, quantity) ==
  /\ handlers[c].kind = "update"
  /\ NewLines(quantity)
  /\ orders' = [orders EXCEPT ![handlers[c].orderId] = Drafted(quantity)]
  /\ handlers' = [handlers EXCEPT ![c] = Idle]
  /\ UNCHANGED <<deliveries, prices, receipts, attempts>>

SendOrder(o) ==
  /\ orders[o].status = "DRAFT"
  /\ orders' = [orders EXCEPT ![o].status = "SENT"]
  /\ UNCHANGED <<deliveries, prices, receipts, handlers, versions, attempts>>

PostedDeliveries(o) ==
  {d \in Delivery : deliveries[d].status = "POSTED" /\ deliveries[d].orderId = o}

\* Mutant: any order that is not delivered in full may be cancelled.
CancelOrderInPart(o) ==
  /\ orders[o].status \notin {"ABSENT", "DELIVERED", "CANCELLED"}
  /\ orders' = [orders EXCEPT ![o].status = "CANCELLED"]
  /\ UNCHANGED <<deliveries, prices, receipts, handlers, versions, attempts>>

CancelOrder(o) ==
  /\ orders[o].status \notin {"ABSENT", "DELIVERED", "CANCELLED"}
  /\ PostedDeliveries(o) = {}
  /\ orders' = [orders EXCEPT ![o].status = "CANCELLED"]
  /\ UNCHANGED <<deliveries, prices, receipts, handlers, versions, attempts>>

-----------------------------------------------------------------------------
(* Deliveries.                                                             *)

\* Mutant: each call makes a draft of its own.
NeverDraft(o) == FALSE

HasDraft(o) ==
  \E d \in Delivery : deliveries[d].status = "DRAFT" /\ deliveries[d].orderId = o

\* A second call while there is a draft returns it and changes nothing.
CreateDeliveryDraft(d, o) ==
  /\ deliveries[d].status = "ABSENT"
  /\ orders[o].status \in Receivable
  /\ ~HasDraft(o)
  /\ deliveries' = [deliveries EXCEPT ![d].status = "DRAFT", ![d].orderId = o]
  /\ UNCHANGED <<orders, prices, receipts, handlers, versions, attempts>>

\* No screen offers it.
CancelDelivery(d) ==
  /\ d \in Withdrawn
  /\ deliveries[d].status = "DRAFT"
  /\ deliveries' = [deliveries EXCEPT ![d].status = "CANCELLED"]
  /\ UNCHANGED <<orders, prices, receipts, handlers, versions, attempts>>

\* What the posted deliveries of an order brought of its present lines.
Received(o, r) ==
  SumFunctionOnSet([d \in Delivery |-> deliveries[d].delivered[r]],
                   {d \in PostedDeliveries(o) : deliveries[d].version = orders[o].version})

\* Mutant: one complete line completes the order.
StatusAfterOneLine(o, quantity) ==
  IF \E r \in Resource : orders[o].ordered[r] > 0 /\ Received(o, r) + quantity[r] >= orders[o].ordered[r]
    THEN "DELIVERED" ELSE "PARTIALLY_DELIVERED"

StatusAfter(o, quantity) ==
  IF \A r \in Resource : Received(o, r) + quantity[r] >= orders[o].ordered[r]
    THEN "DELIVERED" ELSE "PARTIALLY_DELIVERED"

Covered(o, quantity, confirmOverdelivery) ==
  \A r \in Resource :
    quantity[r] > 0 =>
      /\ orders[o].ordered[r] > 0
      /\ confirmOverdelivery \/ quantity[r] <= orders[o].ordered[r] - Received(o, r)

\* postDelivery reads the store and makes the posted delivery and the order after it.
BeginPosting(c, d, quantity, confirmOverdelivery) ==
  LET o == deliveries[d].orderId
  IN  /\ handlers[c] = Idle
      /\ deliveries[d].status = "DRAFT"
      /\ orders[o].status \in Receivable
      /\ \E r \in Resource : quantity[r] > 0
      /\ Covered(o, quantity, confirmOverdelivery)
      /\ attempts < MaxAttempts
      /\ attempts' = attempts + 1
      /\ handlers' = [handlers EXCEPT ![c] =
           [kind |-> "posting", deliveryId |-> d, orderId |-> o,
            posted |-> [status |-> "POSTED", orderId |-> o, version |-> orders[o].version,
                        attempt |-> attempts + 1, delivered |-> quantity],
            order |-> [orders[o] EXCEPT !.status = StatusAfter(o, quantity)]]]
      /\ UNCHANGED <<orders, deliveries, prices, receipts, versions>>

\* recordSupplierDelivery with the lines of the attempt.
Receipt(posting) ==
  [deliveryId |-> posting.deliveryId, attempt |-> posting.posted.attempt,
   quantity |-> posting.posted.delivered]

\* Mutant: the order keeps the status it has.
CommittedDelivery(posting) ==
  IF deliveries[posting.deliveryId].status = "POSTED"
    THEN UNCHANGED <<deliveries, orders, prices>>
    ELSE /\ deliveries' = [deliveries EXCEPT ![posting.deliveryId] = posting.posted]
         /\ prices' = prices \cup {<<posting.deliveryId, posting.posted.attempt>>}
         /\ UNCHANGED orders

\* Mutant: a delivery that is already posted is replaced.
CommittedAgain(posting) ==
  /\ deliveries' = [deliveries EXCEPT ![posting.deliveryId] = posting.posted]
  /\ orders' = [orders EXCEPT ![posting.orderId] = posting.order]
  /\ prices' = prices \cup {<<posting.deliveryId, posting.posted.attempt>>}

\* commitPostedDelivery: throws when the delivery is posted already.
Committed(posting) ==
  IF deliveries[posting.deliveryId].status = "POSTED"
    THEN UNCHANGED <<deliveries, orders, prices>>
    ELSE /\ deliveries' = [deliveries EXCEPT ![posting.deliveryId] = posting.posted]
         /\ orders' = [orders EXCEPT ![posting.orderId] = posting.order]
         /\ prices' = prices \cup {<<posting.deliveryId, posting.posted.attempt>>}

\* Mutant: the commit precedes the receipt, which is refused.
TearPostingAfterCommit(c) ==
  /\ handlers[c].kind = "posting"
  /\ Committed(handlers[c])
  /\ handlers' = [handlers EXCEPT ![c] = Idle]
  /\ UNCHANGED <<receipts, versions, attempts>>

\* The rest of postDelivery: the receipt first, then the commit.
FinishPosting(c) ==
  /\ handlers[c].kind = "posting"
  /\ receipts' = receipts \cup {Receipt(handlers[c])}
  /\ Committed(handlers[c])
  /\ handlers' = [handlers EXCEPT ![c] = Idle]
  /\ UNCHANGED <<versions, attempts>>

\* The receipt is booked and the commit refused: the storage is full or the tab is closed.
TearPosting(c) ==
  /\ handlers[c].kind = "posting"
  /\ receipts' = receipts \cup {Receipt(handlers[c])}
  /\ handlers' = [handlers EXCEPT ![c] = Idle]
  /\ UNCHANGED <<orders, deliveries, prices, versions, attempts>>

\* An access check fails, the Warehouse rejects the receipt, or the tab is closed before.
Abandon(c) ==
  /\ handlers[c] # Idle
  /\ handlers' = [handlers EXCEPT ![c] = Idle]
  /\ UNCHANGED <<orders, deliveries, prices, receipts, versions, attempts>>

-----------------------------------------------------------------------------
Init ==
  /\ orders = [o \in Order |-> [status |-> "ABSENT", version |-> 0, ordered |-> NoLines]]
  /\ deliveries = [d \in Delivery |->
       [status |-> "ABSENT", orderId |-> NoOrder, version |-> 0, attempt |-> 0,
        delivered |-> NoLines]]
  /\ prices = {}
  /\ receipts = {}
  /\ handlers = [c \in Client |-> Idle]
  /\ versions = 0
  /\ attempts = 0

OrderStep ==
  \E o \in Order :
    \/ \E quantity \in Quantities : CreateOrder(o, quantity)
    \/ \E c \in Client : BeginUpdate(c, o)
    \/ SendOrder(o)
    \/ CancelOrder(o)

DeliveryStep ==
  \E d \in Delivery :
    \/ \E o \in Order : CreateDeliveryDraft(d, o)
    \/ CancelDelivery(d)
    \/ \E c \in Client, quantity \in Quantities, confirm \in BOOLEAN :
         BeginPosting(c, d, quantity, confirm)

WaitingStep ==
  \E c \in Client :
    \/ \E quantity \in Quantities : FinishUpdate(c, quantity)
    \/ FinishPosting(c)
    \/ TearPosting(c)
    \/ Abandon(c)

Next == OrderStep \/ DeliveryStep \/ WaitingStep

Spec == Init /\ [][Next]_vars

-----------------------------------------------------------------------------
(* Correctness.                                                            *)

OrderRecord ==
  [status : {"ABSENT", "DRAFT", "SENT", "PARTIALLY_DELIVERED", "DELIVERED", "CANCELLED"},
   version : 0 .. MaxVersions, ordered : Quantities]

PostedRecord ==
  [status : {"POSTED"}, orderId : Order, version : 0 .. MaxVersions,
   attempt : 1 .. MaxAttempts, delivered : Quantities]

DeliveryRecord ==
  [status : {"ABSENT"}, orderId : {NoOrder}, version : {0}, attempt : {0},
   delivered : {NoLines}]
  \cup [status : {"DRAFT", "CANCELLED"}, orderId : Order, version : {0}, attempt : {0},
        delivered : {NoLines}]
  \cup PostedRecord

HandlerRecord ==
  {Idle}
  \cup [kind : {"update"}, orderId : Order]
  \cup [kind : {"posting"}, deliveryId : Delivery, orderId : Order,
        posted : PostedRecord, order : OrderRecord]

\* The stores and what the waiting handlers hold have the shapes the code gives them;
\* every delivery that was created names its order, and only posted ones have lines.
TypeOK ==
  /\ orders \in [Order -> OrderRecord]
  /\ deliveries \in [Delivery -> DeliveryRecord]
  /\ prices \subseteq Delivery \X (1 .. MaxAttempts)
  /\ receipts \subseteq
       [deliveryId : Delivery, attempt : 1 .. MaxAttempts, quantity : Quantities]
  /\ handlers \in [Client -> HandlerRecord]
  /\ versions \in 0 .. MaxVersions
  /\ attempts \in 0 .. MaxAttempts

\* A posted delivery never changes, though several clients may have read it as a draft
\* and are still posting or cancelling it.
PostedDeliveriesFinal ==
  [][\A d \in Delivery :
       deliveries[d].status = "POSTED" => deliveries'[d] = deliveries[d]]_vars

\* Purchaser never shows a posted delivery the Warehouse did not accept: the lines it
\* shows were booked, by the attempt that wrote them.
PostedDeliveriesReceived ==
  \A d \in Delivery :
    deliveries[d].status = "POSTED" =>
      [deliveryId |-> d, attempt |-> deliveries[d].attempt,
       quantity |-> deliveries[d].delivered] \in receipts

\* The price history holds the prices of the posted lines, once each: attempts that were
\* rejected, torn or overtaken leave none.
PricesMatchDeliveries ==
  prices = {<<d, deliveries[d].attempt>> :
              d \in {e \in Delivery : deliveries[e].status = "POSTED"}}

\* An order that is shown as delivered was delivered in full, although each posting
\* computes the status from what it read before it waited.
DeliveredOrdersComplete ==
  \A o \in Order :
    orders[o].status = "DELIVERED" =>
      \A r \in Resource : Received(o, r) >= orders[o].ordered[r]

\* No order that received goods is cancelled, whatever was being posted meanwhile.
CancelledOrdersUndelivered ==
  \A o \in Order : orders[o].status = "CANCELLED" => PostedDeliveries(o) = {}

\* "On retry, Warehouse idempotency prevents duplicate movements and Purchaser completes
\* its own commit", purchaser-operational-module.md: a delivery is received once.
DeliveriesReceivedOnce ==
  \A m, n \in receipts : m.deliveryId = n.deliveryId => m = n

=============================================================================
