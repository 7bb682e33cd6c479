-------------------------- MODULE PurchasingProofs --------------------------
(***************************************************************************)
(* The safety properties of Purchasing, for every number of orders,        *)
(* deliveries, resources and clients and all bounds.                       *)
(*                                                                         *)
(* What a waiting posting remembers matters: CommitReady says that it will *)
(* write a posted delivery of its order, and that order as one that has    *)
(* received something.  With it the properties of single deliveries are    *)
(* inductive (Inv).  The properties of orders are about sums over all      *)
(* deliveries that were posted; for them OrdersInv adds what a waiting     *)
(* posting will make of these sums: CompletionReady and PartReady.         *)
(***************************************************************************)
EXTENDS PurchasingScreen, SumTheorems, TLAPS

CommitReady ==
  \A c \in Client :
    handlers[c].kind = "posting" =>
      /\ handlers[c].deliveryId \in Delivery
      /\ handlers[c].posted.status = "POSTED"
      /\ handlers[c].posted.orderId = handlers[c].orderId
      /\ handlers[c].order.status \in {"PARTIALLY_DELIVERED", "DELIVERED"}

\* The steps on one order, on one delivery, and of one waiting client.
OrderChange(o) ==
  \/ \E quantity \in Quantities : CreateOrder(o, quantity)
  \/ \E c \in Client : BeginUpdate(c, o)
  \/ SendOrder(o)
  \/ CancelOrder(o)

DeliveryChange(d) ==
  \/ \E o \in Order : CreateDeliveryDraft(d, o)
  \/ CancelDelivery(d)
  \/ \E c \in Client, quantity \in Quantities, confirm \in BOOLEAN :
       BeginPosting(c, d, quantity, confirm)

WaitingChange(c) ==
  \/ \E quantity \in Quantities : FinishUpdate(c, quantity)
  \/ FinishPosting(c)
  \/ TearPosting(c)
  \/ Abandon(c)

\* The commit of a posting whose delivery is not posted yet.
Committing(posting) ==
  /\ deliveries[posting.deliveryId].status # "POSTED"
  /\ deliveries' = [deliveries EXCEPT ![posting.deliveryId] = posting.posted]
  /\ orders' = [orders EXCEPT ![posting.orderId] = posting.order]
  /\ prices' = prices \cup {<<posting.deliveryId, posting.posted.attempt>>}

\* A step of Next is a step on some order, some delivery or of some client.
LEMMA NextCases ==
  Next => \/ \E o \in Order : OrderChange(o)
          \/ \E d \in Delivery : DeliveryChange(d)
          \/ \E c \in Client : WaitingChange(c)
BY Zenon DEF Next, OrderStep, DeliveryStep, WaitingStep, OrderChange, DeliveryChange, WaitingChange

\* A commit either writes everything or nothing.
LEMMA CommittedCases ==
  ASSUME NEW posting, Committed(posting)
  PROVE  Committing(posting) \/ UNCHANGED <<deliveries, orders, prices>>
BY DEF Committed, Committing

\* The status a posting computes is one of two, whatever was received before.
LEMMA StatusAfterTwo ==
  ASSUME NEW o, NEW quantity
  PROVE  StatusAfter(o, quantity) \in {"PARTIALLY_DELIVERED", "DELIVERED"}
BY DEF StatusAfter

\* The initial store has the declared shape.
LEMMA InitTypeOK == Init => TypeOK
<1> SUFFICES ASSUME Init PROVE TypeOK
  OBVIOUS
<1>0. NoLines \in Quantities
  BY BoundsAssumption DEF NoLines, Quantities
<1>1. orders \in [Order -> OrderRecord]
  BY <1>0, BoundsAssumption DEF Init, OrderRecord
<1>2. deliveries \in [Delivery -> DeliveryRecord]
  BY DEF Init, DeliveryRecord
<1>3. handlers \in [Client -> HandlerRecord]
  BY DEF Init, HandlerRecord
<1> QED
  BY <1>1, <1>2, <1>3, BoundsAssumption DEF Init, TypeOK

\* Saving new lines yields a draft of the declared shape.
LEMMA DraftedType ==
  ASSUME TypeOK, NEW quantity \in Quantities, NewLines(quantity)
  PROVE  Drafted(quantity) \in OrderRecord /\ versions' \in 0 .. MaxVersions
BY BoundsAssumption DEF TypeOK, NewLines, Drafted, OrderRecord

\* What beginning a posting remembers has the declared shape.
LEMMA PostingType ==
  ASSUME TypeOK,
         NEW c \in Client, NEW d \in Delivery, NEW quantity \in Quantities, NEW confirm \in BOOLEAN,
         BeginPosting(c, d, quantity, confirm)
  PROVE  handlers' \in [Client -> HandlerRecord]
<1> DEFINE o == deliveries[d].orderId
           posted == [status |-> "POSTED", orderId |-> o, version |-> orders[o].version,
                      attempt |-> attempts + 1, delivered |-> quantity]
           order == [orders[o] EXCEPT !.status = StatusAfter(o, quantity)]
           posting == [kind |-> "posting", deliveryId |-> d, orderId |-> o,
                       posted |-> posted, order |-> order]
<1>1. o \in Order
  BY DEF TypeOK, DeliveryRecord, PostedRecord, BeginPosting
<1>2. orders[o] \in OrderRecord
  BY <1>1 DEF TypeOK
<1>3. posted \in PostedRecord
  BY <1>1, <1>2, BoundsAssumption DEF TypeOK, BeginPosting, PostedRecord, OrderRecord
<1>4. order \in OrderRecord
  BY <1>2, StatusAfterTwo DEF OrderRecord
<1>5. posting \in HandlerRecord
  <2> HIDE DEF o, posted, order
  <2> QED
    BY <1>1, <1>3, <1>4 DEF HandlerRecord
<1>6. handlers' = [handlers EXCEPT ![c] = posting]
  BY DEF BeginPosting
<1> HIDE DEF posting
<1> QED
  BY <1>5, <1>6 DEF TypeOK

PostingTyped(c) ==
  /\ handlers[c].deliveryId \in Delivery
  /\ handlers[c].orderId \in Order
  /\ handlers[c].posted \in PostedRecord
  /\ handlers[c].posted.status = "POSTED"
  /\ handlers[c].posted.attempt \in 1 .. MaxAttempts
  /\ handlers[c].posted.delivered \in Quantities
  /\ handlers[c].order \in OrderRecord

\* What a waiting posting remembers has the declared shape.
LEMMA PostingFields ==
  ASSUME TypeOK, NEW c \in Client, handlers[c].kind = "posting"
  PROVE  PostingTyped(c)
<1>1. handlers[c] \in HandlerRecord
  BY DEF TypeOK
<1> QED
  BY <1>1 DEF HandlerRecord, PostedRecord, Idle, PostingTyped

\* Every step keeps the declared shape.
LEMMA StepTypeOK == TypeOK /\ [Next]_vars => TypeOK'
<1> SUFFICES ASSUME TypeOK, [Next]_vars PROVE TypeOK'
  OBVIOUS
<1>1. ASSUME NEW o \in Order, OrderChange(o) PROVE TypeOK'
  <2>1. ASSUME NEW quantity \in Quantities, CreateOrder(o, quantity) PROVE TypeOK'
    <3>1. Drafted(quantity) \in OrderRecord /\ versions' \in 0 .. MaxVersions
      BY <2>1, DraftedType DEF CreateOrder
    <3> QED
      BY <2>1, <3>1 DEF TypeOK, CreateOrder
  <2>2. ASSUME NEW c \in Client, BeginUpdate(c, o) PROVE TypeOK'
    <3>1. [kind |-> "update", orderId |-> o] \in HandlerRecord
      BY DEF HandlerRecord
    <3> QED
      BY <2>2, <3>1 DEF TypeOK, BeginUpdate
  <2>3. CASE SendOrder(o)
    BY <2>3 DEF TypeOK, OrderRecord, SendOrder
  <2>4. CASE CancelOrder(o)
    BY <2>4 DEF TypeOK, OrderRecord, CancelOrder
  <2> QED
    BY <1>1, <2>1, <2>2, <2>3, <2>4 DEF OrderChange
<1>2. ASSUME NEW d \in Delivery, DeliveryChange(d) PROVE TypeOK'
  <2>1. ASSUME NEW o \in Order, CreateDeliveryDraft(d, o) PROVE TypeOK'
    <3>1. [deliveries[d] EXCEPT !.status = "DRAFT", !.orderId = o] \in DeliveryRecord
      BY <2>1 DEF TypeOK, DeliveryRecord, PostedRecord, CreateDeliveryDraft
    <3> QED
      BY <2>1, <3>1 DEF TypeOK, CreateDeliveryDraft
  <2>2. CASE CancelDelivery(d)
    <3>1. [deliveries[d] EXCEPT !.status = "CANCELLED"] \in DeliveryRecord
      BY <2>2 DEF TypeOK, DeliveryRecord, PostedRecord, CancelDelivery
    <3> QED
      BY <2>2, <3>1 DEF TypeOK, CancelDelivery
  <2>3. ASSUME NEW c \in Client, NEW quantity \in Quantities, NEW confirm \in BOOLEAN,
               BeginPosting(c, d, quantity, confirm)
        PROVE  TypeOK'
    <3>1. handlers' \in [Client -> HandlerRecord]
      BY <2>3, PostingType
    <3>2. attempts' \in 0 .. MaxAttempts
      BY <2>3, BoundsAssumption DEF TypeOK, BeginPosting
    <3> QED
      BY <2>3, <3>1, <3>2 DEF TypeOK, BeginPosting
  <2> QED
    BY <1>2, <2>1, <2>2, <2>3 DEF DeliveryChange
<1>3. ASSUME NEW c \in Client, WaitingChange(c) PROVE TypeOK'
  <2>1. ASSUME NEW quantity \in Quantities, FinishUpdate(c, quantity) PROVE TypeOK'
    <3>1. Drafted(quantity) \in OrderRecord /\ versions' \in 0 .. MaxVersions
      BY <2>1, DraftedType DEF FinishUpdate
    <3>2. handlers' \in [Client -> HandlerRecord]
      BY <2>1 DEF TypeOK, FinishUpdate, HandlerRecord
    <3> QED
      BY <2>1, <3>1, <3>2 DEF TypeOK, FinishUpdate
  <2>2. CASE FinishPosting(c)
    <3>1. PostingTyped(c)
      BY <2>2, PostingFields DEF FinishPosting
    <3>2. Receipt(handlers[c]) \in
            [deliveryId : Delivery, attempt : 1 .. MaxAttempts, quantity : Quantities]
      BY <3>1 DEF Receipt, PostingTyped
    <3>3. handlers' \in [Client -> HandlerRecord]
      BY <2>2 DEF TypeOK, FinishPosting, HandlerRecord
    <3>4. CASE UNCHANGED <<deliveries, orders, prices>>
      BY <2>2, <3>2, <3>3, <3>4 DEF TypeOK, FinishPosting
    <3>5. CASE Committing(handlers[c])
      BY <2>2, <3>1, <3>2, <3>3, <3>5 DEF TypeOK, FinishPosting, Committing, PostingTyped, DeliveryRecord
    <3> QED
      BY <2>2, <3>4, <3>5, CommittedCases DEF FinishPosting
  <2>3. CASE TearPosting(c)
    <3>1. PostingTyped(c)
      BY <2>3, PostingFields DEF TearPosting
    <3>2. Receipt(handlers[c]) \in
            [deliveryId : Delivery, attempt : 1 .. MaxAttempts, quantity : Quantities]
      BY <3>1 DEF Receipt, PostingTyped
    <3>3. handlers' \in [Client -> HandlerRecord]
      BY <2>3 DEF TypeOK, TearPosting, HandlerRecord
    <3> QED
      BY <2>3, <3>2, <3>3 DEF TypeOK, TearPosting
  <2>4. CASE Abandon(c)
    BY <2>4 DEF TypeOK, Abandon, HandlerRecord
  <2> QED
    BY <1>3, <2>1, <2>2, <2>3, <2>4 DEF WaitingChange
<1>4. CASE UNCHANGED vars
  BY <1>4 DEF TypeOK, vars
<1> QED
  BY <1>1, <1>2, <1>3, <1>4, NextCases

-----------------------------------------------------------------------------
(* A posted delivery is written once.                                      *)

\* The deliveries change by a draft, a cancellation or a commit, never when posted.
LEMMA DeliveriesStep ==
  ASSUME TypeOK, [Next]_vars, NEW d \in Delivery, deliveries[d].status = "POSTED"
  PROVE  deliveries'[d] = deliveries[d]
<1>1. ASSUME NEW o \in Order, OrderChange(o) PROVE UNCHANGED deliveries
  BY <1>1 DEF OrderChange, CreateOrder, BeginUpdate, SendOrder, CancelOrder
<1>2. ASSUME NEW e \in Delivery, DeliveryChange(e) PROVE deliveries'[d] = deliveries[d]
  BY <1>2 DEF TypeOK, DeliveryChange, CreateDeliveryDraft, CancelDelivery, BeginPosting
<1>3. ASSUME NEW c \in Client, WaitingChange(c) PROVE deliveries'[d] = deliveries[d]
  <2>1. CASE FinishPosting(c)
    <3>1. PostingTyped(c)
      BY <2>1, PostingFields DEF FinishPosting
    <3>2. CASE Committing(handlers[c])
      BY <3>1, <3>2 DEF TypeOK, Committing, PostingTyped
    <3> QED
      BY <2>1, <3>2, CommittedCases DEF FinishPosting
  <2> QED
    BY <1>3, <2>1 DEF WaitingChange, FinishUpdate, TearPosting, Abandon
<1> QED
  BY <1>1, <1>2, <1>3, NextCases DEF vars

Inv ==
  /\ TypeOK
  /\ CommitReady
  /\ PostedDeliveriesReceived
  /\ PricesMatchDeliveries
  /\ CancelledOrdersUndelivered

-----------------------------------------------------------------------------
(* The invariant.                                                          *)

\* What a posting remembers is fixed when it begins.
LEMMA CommitReadyStep ==
  ASSUME Inv, [Next]_vars
  PROVE  CommitReady'
<1> SUFFICES ASSUME NEW c \in Client, handlers'[c].kind = "posting"
             PROVE  /\ handlers'[c].deliveryId \in Delivery
                    /\ handlers'[c].posted.status = "POSTED"
                    /\ handlers'[c].posted.orderId = handlers'[c].orderId
                    /\ handlers'[c].order.status \in {"PARTIALLY_DELIVERED", "DELIVERED"}
  BY DEF CommitReady
<1>1. CASE handlers'[c] = handlers[c]
  BY <1>1 DEF Inv, CommitReady
<1>2. ASSUME NEW b \in Client, NEW d \in Delivery, NEW quantity \in Quantities,
             NEW confirm \in BOOLEAN, BeginPosting(b, d, quantity, confirm),
             handlers'[c] # handlers[c]
      PROVE  /\ handlers'[c].deliveryId \in Delivery
             /\ handlers'[c].posted.status = "POSTED"
             /\ handlers'[c].posted.orderId = handlers'[c].orderId
             /\ handlers'[c].order.status \in {"PARTIALLY_DELIVERED", "DELIVERED"}
  <2> DEFINE o == deliveries[d].orderId
             status == StatusAfter(o, quantity)
  <2>1. o \in Order /\ orders[o] \in OrderRecord
    BY <1>2 DEF Inv, TypeOK, DeliveryRecord, PostedRecord, BeginPosting
  <2>2. status \in {"PARTIALLY_DELIVERED", "DELIVERED"}
    BY StatusAfterTwo
  <2>3. handlers'[c] =
          [kind |-> "posting", deliveryId |-> d, orderId |-> o,
           posted |-> [status |-> "POSTED", orderId |-> o, version |-> orders[o].version,
                       attempt |-> attempts + 1, delivered |-> quantity],
           order |-> [orders[o] EXCEPT !.status = status]]
    <3> DEFINE posting ==
          [kind |-> "posting", deliveryId |-> d, orderId |-> o,
           posted |-> [status |-> "POSTED", orderId |-> o, version |-> orders[o].version,
                       attempt |-> attempts + 1, delivered |-> quantity],
           order |-> [orders[o] EXCEPT !.status = status]]
    <3>1. handlers' = [handlers EXCEPT ![b] = posting]
      BY <1>2 DEF BeginPosting
    <3> HIDE DEF posting
    <3>2. handlers'[c] = posting
      BY <3>1, <1>2 DEF Inv, TypeOK
    <3> QED
      BY <3>2 DEF posting
  <2> HIDE DEF o, status
  <2> QED
    BY <2>1, <2>2, <2>3 DEF OrderRecord
<1>3. ASSUME handlers'[c] # handlers[c], ~ \E b \in Client, d \in Delivery,
             quantity \in Quantities, confirm \in BOOLEAN : BeginPosting(b, d, quantity, confirm)
      PROVE  FALSE
  <2>1. ASSUME NEW o \in Order, OrderChange(o) PROVE FALSE
    BY <1>3, <2>1 DEF Inv, TypeOK, OrderChange, CreateOrder, BeginUpdate, SendOrder, CancelOrder
  <2>2. ASSUME NEW e \in Delivery, DeliveryChange(e) PROVE FALSE
    BY <1>3, <2>2 DEF DeliveryChange, CreateDeliveryDraft, CancelDelivery
  <2>3. ASSUME NEW b \in Client, WaitingChange(b) PROVE FALSE
    BY <1>3, <2>3 DEF Inv, TypeOK, WaitingChange, FinishUpdate, FinishPosting, TearPosting, Abandon, Idle
  <2> QED
    BY <1>3, <2>1, <2>2, <2>3, NextCases DEF vars
<1> QED
  BY <1>1, <1>2, <1>3

\* A step that posts nothing: posted deliveries and prices stay, receipts are kept.
PostsNothing ==
  /\ prices' = prices
  /\ receipts \subseteq receipts'
  /\ \A d \in Delivery :
       /\ deliveries[d].status = "POSTED" => deliveries'[d] = deliveries[d]
       /\ deliveries'[d].status = "POSTED" => deliveries[d].status = "POSTED"

Posts(c) ==
  /\ FinishPosting(c)
  /\ PostingTyped(c)
  /\ Committing(handlers[c])

\* Only the commit of a waiting posting posts a delivery.
LEMMA PostsOrNot ==
  ASSUME Inv, [Next]_vars
  PROVE  PostsNothing \/ \E c \in Client : Posts(c)
<1>0. TypeOK
  BY DEF Inv
<1>1. ASSUME NEW o \in Order, OrderChange(o) PROVE PostsNothing
  BY <1>1 DEF OrderChange, CreateOrder, BeginUpdate, SendOrder, CancelOrder, PostsNothing
<1>2. ASSUME NEW e \in Delivery, DeliveryChange(e) PROVE PostsNothing
  <2>1. ASSUME NEW o \in Order, CreateDeliveryDraft(e, o) PROVE PostsNothing
    BY <1>0, <2>1 DEF TypeOK, DeliveryRecord, PostedRecord, CreateDeliveryDraft, PostsNothing
  <2>2. CASE CancelDelivery(e)
    BY <1>0, <2>2 DEF TypeOK, DeliveryRecord, PostedRecord, CancelDelivery, PostsNothing
  <2> QED
    BY <1>2, <2>1, <2>2 DEF DeliveryChange, BeginPosting, PostsNothing
<1>3. ASSUME NEW c \in Client, WaitingChange(c) PROVE PostsNothing \/ Posts(c)
  <2>1. CASE FinishPosting(c)
    BY <1>0, <2>1, PostingFields, CommittedCases DEF FinishPosting, Posts, PostsNothing
  <2> QED
    BY <1>3, <2>1 DEF WaitingChange, FinishUpdate, TearPosting, Abandon, PostsNothing
<1> QED
  BY <1>1, <1>2, <1>3, NextCases DEF vars, PostsNothing

\* What a commit makes of the deliveries.
LEMMA AfterPosting ==
  ASSUME TypeOK, NEW c \in Client, Posts(c)
  PROVE  /\ deliveries'[handlers[c].deliveryId] = handlers[c].posted
         /\ \A d \in Delivery \ {handlers[c].deliveryId} : deliveries'[d] = deliveries[d]
BY DEF TypeOK, Posts, Committing, PostingTyped

\* The receipt is booked in the turn of the commit, before it.
LEMMA ReceivedStep ==
  ASSUME Inv, [Next]_vars
  PROVE  PostedDeliveriesReceived'
<1>1. CASE PostsNothing
  BY <1>1 DEF Inv, PostedDeliveriesReceived, PostsNothing
<1>2. ASSUME NEW c \in Client, Posts(c) PROVE PostedDeliveriesReceived'
  <2> DEFINE e == handlers[c].deliveryId
  <2> SUFFICES ASSUME NEW d \in Delivery, deliveries'[d].status = "POSTED"
               PROVE  [deliveryId |-> d, attempt |-> deliveries'[d].attempt,
                       quantity |-> deliveries'[d].delivered] \in receipts'
    BY DEF PostedDeliveriesReceived
  <2>1. receipts' = receipts \cup {Receipt(handlers[c])}
    BY <1>2 DEF Posts, FinishPosting
  <2>2. CASE d = e
    BY <1>2, <2>1, <2>2, AfterPosting DEF Inv, Receipt
  <2>3. CASE d # e
    BY <1>2, <2>1, <2>3, AfterPosting DEF Inv, PostedDeliveriesReceived
  <2> QED
    BY <2>2, <2>3
<1> QED
  BY <1>1, <1>2, PostsOrNot

\* A commit records the prices of its own attempt for a delivery that had none.
LEMMA PricesStep ==
  ASSUME Inv, [Next]_vars
  PROVE  PricesMatchDeliveries'
<1>1. CASE PostsNothing
  BY <1>1 DEF Inv, PricesMatchDeliveries, PostsNothing
<1>2. ASSUME NEW c \in Client, Posts(c) PROVE PricesMatchDeliveries'
  <2> DEFINE e == handlers[c].deliveryId
  <2>1. /\ e \in Delivery
        /\ deliveries[e].status # "POSTED"
        /\ deliveries'[e].status = "POSTED"
        /\ prices' = prices \cup {<<e, deliveries'[e].attempt>>}
    <3>1. deliveries'[e] = handlers[c].posted
      BY <1>2, AfterPosting DEF Inv
    <3>2. PostingTyped(c) /\ Committing(handlers[c])
      BY <1>2 DEF Posts
    <3> QED
      BY <3>1, <3>2 DEF PostingTyped, Committing
  <2>2. \A d \in Delivery \ {e} : deliveries'[d] = deliveries[d]
    BY <1>2, AfterPosting DEF Inv
  <2>3. prices = {<<d, deliveries[d].attempt>> : d \in {f \in Delivery : deliveries[f].status = "POSTED"}}
    BY DEF Inv, PricesMatchDeliveries
  <2> HIDE DEF e
  <2> QED
    BY <2>1, <2>2, <2>3 DEF PricesMatchDeliveries
<1> QED
  BY <1>1, <1>2, PostsOrNot

\* A commit leaves its order partly delivered or delivered; a cancellation finds no
\* posted delivery.
LEMMA CancelledStep ==
  ASSUME Inv, [Next]_vars
  PROVE  CancelledOrdersUndelivered'
<1>0. TypeOK
  BY DEF Inv
<1> SUFFICES ASSUME NEW o \in Order, orders'[o].status = "CANCELLED",
                    NEW d \in Delivery, deliveries'[d].status = "POSTED",
                    deliveries'[d].orderId = o
             PROVE  FALSE
  BY DEF CancelledOrdersUndelivered, PostedDeliveries
<1>1. ASSUME PostsNothing, ~ CancelOrder(o) PROVE FALSE
  <2>1. deliveries[d].status = "POSTED" /\ deliveries[d].orderId = o
    BY <1>1 DEF PostsNothing
  <2>2. orders[o].status # "CANCELLED"
    BY <2>1 DEF Inv, CancelledOrdersUndelivered, PostedDeliveries
  <2>3. ASSUME NEW p \in Order, OrderChange(p) PROVE FALSE
    BY <1>0, <1>1, <2>2, <2>3
      DEF TypeOK, OrderRecord, OrderChange, CreateOrder, Drafted, BeginUpdate, SendOrder, CancelOrder
  <2>4. ASSUME NEW e \in Delivery, DeliveryChange(e) PROVE FALSE
    BY <2>2, <2>4 DEF DeliveryChange, CreateDeliveryDraft, CancelDelivery, BeginPosting
  <2>5. ASSUME NEW c \in Client, WaitingChange(c) PROVE FALSE
    <3>1. CASE FinishPosting(c)
      <4>1. CASE Committing(handlers[c])
        BY <1>0, <1>1, <3>1, <4>1, PostingFields
          DEF FinishPosting, Committing, PostingTyped, PostsNothing, TypeOK, PostedRecord
      <4> QED
        BY <2>2, <3>1, <4>1, CommittedCases DEF FinishPosting
    <3>2. ASSUME NEW quantity \in Quantities, FinishUpdate(c, quantity) PROVE FALSE
      BY <1>0, <2>2, <3>2 DEF TypeOK, FinishUpdate, Drafted
    <3> QED
      BY <2>2, <2>5, <3>1, <3>2 DEF WaitingChange, TearPosting, Abandon
  <2> QED
    BY <2>2, <2>3, <2>4, <2>5, NextCases DEF vars
<1>2. CASE CancelOrder(o)
  BY <1>2 DEF CancelOrder, PostedDeliveries
<1>3. ASSUME NEW c \in Client, Posts(c) PROVE FALSE
  <2>1. /\ handlers[c].order.status # "CANCELLED"
        /\ handlers[c].posted.orderId = handlers[c].orderId
        /\ handlers[c].orderId \in Order
        /\ orders' = [orders EXCEPT ![handlers[c].orderId] = handlers[c].order]
    BY <1>3 DEF Inv, CommitReady, Posts, FinishPosting, Committing, PostingTyped
  <2>2. o # handlers[c].orderId /\ orders'[o] = orders[o]
    BY <1>0, <2>1 DEF TypeOK
  <2>3. deliveries[d].status = "POSTED" /\ deliveries[d].orderId = o
    BY <1>0, <1>3, <2>1, <2>2, AfterPosting
  <2> QED
    BY <2>2, <2>3 DEF Inv, CancelledOrdersUndelivered, PostedDeliveries
<1> QED
  BY <1>1, <1>2, <1>3, PostsOrNot

\* The invariant holds at first and every step keeps it.
LEMMA Invariance == Spec => []Inv
<1>1. Init => Inv
  <2> SUFFICES ASSUME Init PROVE Inv
    OBVIOUS
  <2>1. CommitReady
    BY DEF Init, CommitReady, Idle
  <2>2. PostedDeliveriesReceived /\ PricesMatchDeliveries /\ CancelledOrdersUndelivered
    BY DEF Init, PostedDeliveriesReceived, PricesMatchDeliveries, CancelledOrdersUndelivered
  <2> QED
    BY <2>1, <2>2, InitTypeOK DEF Inv
<1>2. Inv /\ [Next]_vars => Inv'
  <2> SUFFICES ASSUME Inv, [Next]_vars PROVE Inv'
    OBVIOUS
  <2>1. TypeOK'
    BY StepTypeOK DEF Inv
  <2> QED
    BY <2>1, CommitReadyStep, ReceivedStep, PricesStep, CancelledStep DEF Inv
<1> QED
  BY <1>1, <1>2, PTL DEF Spec

-----------------------------------------------------------------------------
(* What one step does to a delivery, an order or a waiting posting.        *)

\* The posting that begins with the quantities in the form of delivery d.
Began(c, d, quantity) ==
  LET o == deliveries[d].orderId
  IN  /\ o \in Order
      /\ deliveries[d].status = "DRAFT"
      /\ orders[o].status \in Receivable
      /\ handlers'[c] =
           [kind |-> "posting", deliveryId |-> d, orderId |-> o,
            posted |-> [status |-> "POSTED", orderId |-> o, version |-> orders[o].version,
                        attempt |-> attempts + 1, delivered |-> quantity],
            order |-> [orders[o] EXCEPT !.status = StatusAfter(o, quantity)]]
      /\ UNCHANGED <<deliveries, orders, versions>>

\* A posting that waits after a step waited before it or has just begun.
LEMMA PostingAfter ==
  ASSUME TypeOK, [Next]_vars, NEW c \in Client, handlers'[c].kind = "posting",
         handlers'[c] # handlers[c]
  PROVE  \E d \in Delivery, quantity \in Quantities : Began(c, d, quantity)
<1>1. ASSUME NEW o \in Order, OrderChange(o) PROVE FALSE
  BY <1>1 DEF TypeOK, OrderChange, CreateOrder, BeginUpdate, SendOrder, CancelOrder
<1>2. ASSUME NEW e \in Delivery, DeliveryChange(e)
      PROVE  \E d \in Delivery, quantity \in Quantities : Began(c, d, quantity)
  <2>1. PICK b \in Client, quantity \in Quantities, confirm \in BOOLEAN :
               BeginPosting(b, e, quantity, confirm)
    BY <1>2 DEF DeliveryChange, CreateDeliveryDraft, CancelDelivery
  <2> DEFINE o == deliveries[e].orderId
             posting ==
               [kind |-> "posting", deliveryId |-> e, orderId |-> o,
                posted |-> [status |-> "POSTED", orderId |-> o, version |-> orders[o].version,
                            attempt |-> attempts + 1, delivered |-> quantity],
                order |-> [orders[o] EXCEPT !.status = StatusAfter(o, quantity)]]
  <2>2. handlers' = [handlers EXCEPT ![b] = posting]
    BY <2>1 DEF BeginPosting
  <2>3. handlers'[c] = posting
    <3> HIDE DEF posting
    <3> QED
      BY <2>2 DEF TypeOK
  <2>4. deliveries[e].status = "DRAFT" /\ orders[o].status \in Receivable
        /\ UNCHANGED <<deliveries, orders, versions>>
    BY <2>1 DEF BeginPosting
  <2>5. o \in Order
    BY <2>4 DEF TypeOK, DeliveryRecord, PostedRecord
  <2>6. Began(c, e, quantity)
    BY <2>3, <2>4, <2>5, Zenon DEF Began
  <2> QED
    BY <2>6
<1>3. ASSUME NEW b \in Client, WaitingChange(b) PROVE FALSE
  BY <1>3 DEF TypeOK, WaitingChange, FinishUpdate, FinishPosting, TearPosting, Abandon, Idle
<1> QED
  BY <1>1, <1>2, <1>3, NextCases DEF vars

\* A step that posts nothing leaves an order, saves a new draft of it, sends or cancels it.
OrderAfter(o) ==
  \/ orders'[o] = orders[o]
  \/ /\ orders'[o].status = "DRAFT"
     /\ orders'[o].version = versions + 1
     /\ versions' = versions + 1
     /\ \E r \in Resource : orders'[o].ordered[r] > 0
  \/ /\ orders[o].status = "DRAFT"
     /\ orders'[o] = [orders[o] EXCEPT !.status = "SENT"]
  \/ orders'[o] = [orders[o] EXCEPT !.status = "CANCELLED"]

\* A delivery is left, created for an order that has no draft, or a draft of it cancelled.
DeliveryAfter(d) ==
  \/ deliveries'[d] = deliveries[d]
  \/ \E o \in Order :
       /\ deliveries[d].status = "ABSENT"
       /\ ~HasDraft(o)
       /\ deliveries' = [deliveries EXCEPT ![d].status = "DRAFT", ![d].orderId = o]
  \/ /\ d \in Withdrawn
     /\ deliveries[d].status = "DRAFT"
     /\ deliveries'[d] = [deliveries[d] EXCEPT !.status = "CANCELLED"]

QuietStep ==
  /\ PostsNothing
  /\ versions' \in {versions, versions + 1}
  /\ \A o \in Order : OrderAfter(o)
  /\ \A d \in Delivery : DeliveryAfter(d)

\* A step is the commit of a posting or is quiet.
LEMMA PostsOrQuiet ==
  ASSUME Inv, [Next]_vars
  PROVE  QuietStep \/ \E c \in Client : Posts(c)
<1>0. TypeOK
  BY DEF Inv
<1> SUFFICES ASSUME PostsNothing, \A c \in Client : ~Posts(c) PROVE QuietStep
  BY PostsOrNot DEF QuietStep
<1> USE DEF OrderAfter, DeliveryAfter, QuietStep
<1>1. ASSUME NEW p \in Order, OrderChange(p) PROVE QuietStep
  <2>1. ASSUME NEW quantity \in Quantities, CreateOrder(p, quantity) PROVE QuietStep
    BY <1>0, <2>1 DEF TypeOK, CreateOrder, NewLines, Drafted
  <2>2. ASSUME NEW c \in Client, BeginUpdate(c, p) PROVE QuietStep
    BY <2>2 DEF BeginUpdate
  <2>3. CASE SendOrder(p)
    BY <1>0, <2>3 DEF TypeOK, SendOrder
  <2>4. CASE CancelOrder(p)
    BY <1>0, <2>4 DEF TypeOK, CancelOrder
  <2> QED
    BY <1>1, <2>1, <2>2, <2>3, <2>4 DEF OrderChange
<1>2. ASSUME NEW e \in Delivery, DeliveryChange(e) PROVE QuietStep
  <2>1. ASSUME NEW o \in Order, CreateDeliveryDraft(e, o) PROVE QuietStep
    <3>1. \A d \in Delivery : DeliveryAfter(d)
      BY <1>0, <2>1 DEF TypeOK, CreateDeliveryDraft
    <3> QED
      BY <2>1, <3>1 DEF CreateDeliveryDraft
  <2>2. CASE CancelDelivery(e)
    BY <1>0, <2>2 DEF TypeOK, CancelDelivery
  <2>3. ASSUME NEW c \in Client, NEW quantity \in Quantities, NEW confirm \in BOOLEAN,
               BeginPosting(c, e, quantity, confirm)
        PROVE  QuietStep
    BY <2>3 DEF BeginPosting
  <2> QED
    BY <1>2, <2>1, <2>2, <2>3 DEF DeliveryChange
<1>3. ASSUME NEW c \in Client, WaitingChange(c) PROVE QuietStep
  <2>1. ASSUME NEW quantity \in Quantities, FinishUpdate(c, quantity) PROVE QuietStep
    BY <1>0, <2>1 DEF TypeOK, FinishUpdate, NewLines, Drafted
  <2>2. CASE FinishPosting(c)
    <3>1. UNCHANGED <<deliveries, orders, prices>>
      BY <1>0, <2>2, PostingFields, CommittedCases DEF FinishPosting, Posts
    <3> QED
      BY <2>2, <3>1 DEF FinishPosting
  <2> QED
    BY <1>3, <2>1, <2>2 DEF WaitingChange, TearPosting, Abandon
<1> QED
  BY <1>1, <1>2, <1>3, NextCases DEF vars

-----------------------------------------------------------------------------
(* What was received of the lines of one version.                          *)

PostedOf(o, v) == {d \in PostedDeliveries(o) : deliveries[d].version = v}

Delivered(r) == [d \in Delivery |-> deliveries[d].delivered[r]]

ReceivedAt(o, v, r) == SumFunctionOnSet(Delivered(r), PostedOf(o, v))

\* What was received before completes the order a posting is about to write.
Fulfils(posting) ==
  \A r \in Resource :
    ReceivedAt(posting.orderId, posting.posted.version, r) + posting.posted.delivered[r]
      >= posting.order.ordered[r]

FinitelyPosted == IsFiniteSet({d \in Delivery : deliveries[d].status = "POSTED"})

\* Received and ReceivedAt are the same sums.
LEMMA ReceivedIs ==
  ASSUME NEW o, NEW r
  PROVE  Received(o, r) = ReceivedAt(o, orders[o].version, r)
BY DEF Received, ReceivedAt, PostedOf, Delivered

\* The sums are natural numbers over finite sets of deliveries.
LEMMA ReceivedType ==
  ASSUME TypeOK, FinitelyPosted, NEW o, NEW v, NEW r \in Resource
  PROVE  /\ IsFiniteSet(PostedOf(o, v))
         /\ \A d \in Delivery : Delivered(r)[d] \in Nat
         /\ ReceivedAt(o, v, r) \in Nat
<1>1. IsFiniteSet(PostedOf(o, v))
  <2>1. PostedOf(o, v) \subseteq {d \in Delivery : deliveries[d].status = "POSTED"}
    BY DEF PostedOf, PostedDeliveries
  <2> QED
    BY <2>1, FS_Subset DEF FinitelyPosted
<1>2. ASSUME NEW d \in Delivery PROVE Delivered(r)[d] \in Nat
  <2>1. deliveries[d].delivered \in Quantities
    BY BoundsAssumption DEF TypeOK, DeliveryRecord, PostedRecord, NoLines, Quantities
  <2> QED
    BY <2>1, BoundsAssumption DEF Delivered, Quantities
<1>3. PostedOf(o, v) \subseteq Delivery
  BY DEF PostedOf, PostedDeliveries
<1> QED
  BY <1>1, <1>2, <1>3, SumGrows DEF ReceivedAt

\* A quiet step receives nothing.
LEMMA ReceivedQuiet ==
  ASSUME TypeOK, FinitelyPosted, PostsNothing, NEW o, NEW v
  PROVE  /\ FinitelyPosted'
         /\ PostedOf(o, v)' = PostedOf(o, v)
         /\ \A r \in Resource : ReceivedAt(o, v, r)' = ReceivedAt(o, v, r)
<1>1. FinitelyPosted'
  <2>1. {d \in Delivery : deliveries'[d].status = "POSTED"}
          = {d \in Delivery : deliveries[d].status = "POSTED"}
    BY DEF PostsNothing
  <2> QED
    BY <2>1 DEF FinitelyPosted
<1>2. PostedOf(o, v)' = PostedOf(o, v)
  BY DEF PostsNothing, PostedOf, PostedDeliveries
<1>3. ASSUME NEW r \in Resource PROVE ReceivedAt(o, v, r)' = ReceivedAt(o, v, r)
  <2>1. \A d \in PostedOf(o, v) : Delivered(r)'[d] = Delivered(r)[d]
    BY DEF PostsNothing, PostedOf, PostedDeliveries, Delivered
  <2>2. SumFunctionOnSet(Delivered(r)', PostedOf(o, v)) = SumFunctionOnSet(Delivered(r), PostedOf(o, v))
    <3> DEFINE f == Delivered(r)
               g == Delivered(r)'
               S == PostedOf(o, v)
    <3>1. IsFiniteSet(S) /\ \A d \in S : g[d] = f[d]
      BY <2>1, ReceivedType
    <3> HIDE DEF f, g, S
    <3>2. SumFunctionOnSet(g, S) = SumFunctionOnSet(f, S)
      BY <3>1, SumSame
    <3> QED
      BY <3>2 DEF f, g, S
  <2> QED
    BY <1>2, <2>2 DEF ReceivedAt
<1> QED
  BY <1>1, <1>2, <1>3

\* A commit adds its lines to what was received of their version, and to nothing else.
LEMMA ReceivedPosting ==
  ASSUME TypeOK, CommitReady, FinitelyPosted, NEW c \in Client, Posts(c), NEW o, NEW v
  PROVE  /\ FinitelyPosted'
         /\ \A r \in Resource :
              ReceivedAt(o, v, r)' =
                ReceivedAt(o, v, r)
                  + (IF o = handlers[c].orderId /\ v = handlers[c].posted.version
                       THEN handlers[c].posted.delivered[r] ELSE 0)
<1> DEFINE posting == handlers[c]
           e == posting.deliveryId
           own == o = posting.orderId /\ v = posting.posted.version
<1>1. /\ e \in Delivery
      /\ deliveries[e].status # "POSTED"
      /\ posting.posted.status = "POSTED"
      /\ posting.posted.orderId = posting.orderId
      /\ posting.posted.delivered \in Quantities
      /\ deliveries' = [deliveries EXCEPT ![e] = posting.posted]
  BY DEF CommitReady, Posts, Committing, PostingTyped, FinishPosting
<1>2. deliveries'[e] = posting.posted /\ \A d \in Delivery \ {e} : deliveries'[d] = deliveries[d]
  BY <1>1 DEF TypeOK
<1> HIDE DEF e
<1>3. FinitelyPosted'
  <2>1. {d \in Delivery : deliveries'[d].status = "POSTED"}
          = {d \in Delivery : deliveries[d].status = "POSTED"} \cup {e}
    BY <1>1, <1>2
  <2> QED
    BY <2>1, FS_AddElement DEF FinitelyPosted
<1>4. PostedOf(o, v)' = PostedOf(o, v) \cup (IF own THEN {e} ELSE {})
  BY <1>1, <1>2 DEF PostedOf, PostedDeliveries
<1>5. ASSUME NEW r \in Resource
      PROVE  ReceivedAt(o, v, r)' =
               ReceivedAt(o, v, r) + (IF own THEN posting.posted.delivered[r] ELSE 0)
  <2> DEFINE f == Delivered(r)
             g == Delivered(r)'
             S == PostedOf(o, v)
  <2>0. IsFiniteSet(S) /\ \A d \in Delivery : f[d] \in Nat
    BY ReceivedType
  <2>1. e \notin S /\ S \subseteq Delivery
    BY <1>1 DEF PostedOf, PostedDeliveries
  <2>2. (\A d \in S : g[d] = f[d]) /\ g[e] = posting.posted.delivered[r]
    BY <1>1, <1>2 DEF PostedOf, PostedDeliveries, Delivered
  <2>3. (\A d \in S : f[d] \in Int) /\ g[e] \in Int
    <3>1. posting.posted.delivered[r] \in Int
      BY <1>1, BoundsAssumption DEF Quantities
    <3> HIDE DEF f, g, S
    <3> QED
      BY <2>0, <2>1, <2>2, <3>1
  <2>4. ReceivedAt(o, v, r) = SumFunctionOnSet(f, S)
    BY DEF ReceivedAt
  <2>5. ReceivedAt(o, v, r)' = SumFunctionOnSet(g, PostedOf(o, v)')
    BY DEF ReceivedAt
  <2>6. PostedOf(o, v)' = S \cup (IF own THEN {e} ELSE {})
    BY <1>4
  <2> HIDE DEF f, g, S, own, posting
  <2>7. SumFunctionOnSet(g, S) = SumFunctionOnSet(f, S) /\ SumFunctionOnSet(f, S) \in Int
    BY <2>0, <2>2, <2>3, SumSame, SumType
  <2>8. CASE own
    <3>1. SumFunctionOnSet(g, S \cup {e}) = SumFunctionOnSet(g, S) + g[e]
      <4>1. \A d \in S \cup {e} : g[d] \in Int
        BY <2>2, <2>3
      <4> QED
        BY <2>0, <2>1, <4>1, SumAdd
    <3>2. PostedOf(o, v)' = S \cup {e}
      BY <2>6, <2>8
    <3> QED
      BY <2>2, <2>4, <2>5, <2>7, <2>8, <3>1, <3>2
  <2>9. CASE ~own
    <3>1. PostedOf(o, v)' = S
      BY <2>6, <2>9
    <3> QED
      BY <2>4, <2>5, <2>7, <2>9, <3>1
  <2> QED
    BY <2>8, <2>9
<1> QED
  BY <1>3, <1>5

-----------------------------------------------------------------------------
(* The buttons of an order.                                                *)

\* No version is ahead of the ones that were used; what a posting will write of its order
\* and of its delivery is of one version.
VersionsUsed ==
  /\ \A o \in Order : orders[o].version <= versions
  /\ \A d \in Delivery : deliveries[d].status = "POSTED" => deliveries[d].version <= versions
  /\ \A c \in Client :
       handlers[c].kind = "posting" =>
         /\ handlers[c].posted.version <= versions
         /\ handlers[c].order.version = handlers[c].posted.version

\* An order that was not received from yet has lines, and nothing was received of them.
UntouchedOrders ==
  \A o \in Order :
    orders[o].status \in {"DRAFT", "SENT"} =>
      /\ \E r \in Resource : orders[o].ordered[r] > 0
      /\ PostedOf(o, orders[o].version) = {}

\* A version is used before anything is written under it.
LEMMA VersionsStep ==
  ASSUME Inv, [Next]_vars, VersionsUsed
  PROVE  VersionsUsed'
<1>0. TypeOK
  BY DEF Inv
<1>1. versions \in Nat /\ versions' \in Nat /\ versions <= versions'
  <2>1. ASSUME NEW c \in Client, Posts(c) PROVE versions' = versions
    BY <2>1 DEF Posts, FinishPosting
  <2>2. versions \in Nat
    BY <1>0, BoundsAssumption DEF TypeOK
  <2> QED
    BY <2>1, <2>2, PostsOrQuiet DEF QuietStep
<1>2. ASSUME NEW c \in Client, handlers'[c].kind = "posting"
      PROVE  /\ handlers'[c].posted.version <= versions'
             /\ handlers'[c].order.version = handlers'[c].posted.version
  <2>1. CASE handlers'[c] = handlers[c]
    <3>1. handlers[c].posted.version \in Nat
      BY <1>0, <1>2, <2>1, PostingFields, BoundsAssumption DEF PostingTyped, PostedRecord
    <3> QED
      BY <1>1, <1>2, <2>1, <3>1 DEF VersionsUsed
  <2>2. ASSUME NEW d \in Delivery, NEW quantity \in Quantities, Began(c, d, quantity)
        PROVE  /\ handlers'[c].posted.version <= versions'
               /\ handlers'[c].order.version = handlers'[c].posted.version
    <3>1. deliveries[d].orderId \in Order /\ orders[deliveries[d].orderId] \in OrderRecord
      BY <1>0, <2>2 DEF TypeOK, Began
    <3> QED
      BY <2>2, <3>1 DEF Began, VersionsUsed, OrderRecord
  <2> QED
    BY <1>0, <1>2, <2>1, <2>2, PostingAfter
<1>3. ASSUME NEW o \in Order PROVE orders'[o].version <= versions'
  <2>0. orders[o] \in OrderRecord /\ orders[o].version \in Nat /\ orders[o].version <= versions
    BY <1>0, BoundsAssumption DEF TypeOK, OrderRecord, VersionsUsed
  <2>1. CASE QuietStep
    <3>1. OrderAfter(o)
      BY <2>1 DEF QuietStep
    <3> QED
      BY <1>1, <2>0, <3>1 DEF OrderAfter, OrderRecord
  <2>2. ASSUME NEW c \in Client, Posts(c) PROVE orders'[o].version <= versions'
    <3>1. orders' = [orders EXCEPT ![handlers[c].orderId] = handlers[c].order]
          /\ handlers[c].kind = "posting"
      BY <2>2 DEF Posts, Committing, FinishPosting
    <3>2. orders'[o] = orders[o] \/ orders'[o] = handlers[c].order
      BY <1>0, <3>1 DEF TypeOK
    <3>3. handlers[c].order.version <= versions /\ handlers[c].order.version \in Nat
      BY <2>2, <3>1, BoundsAssumption DEF VersionsUsed, Posts, PostingTyped, OrderRecord
    <3> QED
      BY <1>1, <2>0, <3>2, <3>3
  <2> QED
    BY <2>1, <2>2, PostsOrQuiet
<1>4. ASSUME NEW d \in Delivery, deliveries'[d].status = "POSTED"
      PROVE  deliveries'[d].version <= versions'
  <2>1. CASE QuietStep
    <3>1. deliveries'[d] = deliveries[d] /\ deliveries[d].status = "POSTED"
      BY <1>4, <2>1 DEF QuietStep, PostsNothing
    <3>2. deliveries[d].version \in Nat
      BY <1>0, <3>1, BoundsAssumption DEF TypeOK, DeliveryRecord, PostedRecord
    <3> QED
      BY <1>1, <3>1, <3>2 DEF VersionsUsed
  <2>2. ASSUME NEW c \in Client, Posts(c) PROVE deliveries'[d].version <= versions'
    <3>1. deliveries'[d] = deliveries[d] \/ deliveries'[d] = handlers[c].posted
      BY <1>0, <2>2, AfterPosting
    <3>2. handlers[c].kind = "posting" /\ handlers[c].posted.version \in Nat
      BY <2>2, BoundsAssumption DEF Posts, FinishPosting, PostingTyped, PostedRecord
    <3>3. deliveries[d].version \in Nat
      BY <1>0, BoundsAssumption DEF TypeOK, DeliveryRecord, PostedRecord
    <3> QED
      BY <1>1, <1>4, <3>1, <3>2, <3>3 DEF VersionsUsed
  <2> QED
    BY <2>1, <2>2, PostsOrQuiet
<1> QED
  BY <1>2, <1>3, <1>4 DEF VersionsUsed

\* A new draft has a version of its own; a commit leaves its order neither draft nor sent.
LEMMA UntouchedStep ==
  ASSUME Inv, [Next]_vars, FinitelyPosted, VersionsUsed, UntouchedOrders
  PROVE  UntouchedOrders'
<1>0. TypeOK /\ CommitReady
  BY DEF Inv
<1> SUFFICES ASSUME NEW o \in Order, orders'[o].status \in {"DRAFT", "SENT"}
             PROVE  /\ \E r \in Resource : orders'[o].ordered[r] > 0
                    /\ PostedOf(o, orders[o].version)' = {}
  BY DEF UntouchedOrders
<1>1. CASE QuietStep
  <2>1. PostedOf(o, orders[o].version)' = PostedOf(o, orders'[o].version)
    BY <1>1 DEF QuietStep, PostsNothing, PostedOf, PostedDeliveries
  <2>2. orders[o] \in OrderRecord /\ OrderAfter(o)
    BY <1>0, <1>1 DEF TypeOK, QuietStep
  <2>3. CASE orders'[o] = orders[o]
    BY <2>1, <2>3 DEF UntouchedOrders
  <2>4. CASE /\ orders'[o].version = versions + 1
             /\ \E r \in Resource : orders'[o].ordered[r] > 0
    <3>1. PostedOf(o, versions + 1) = {}
      <4>1. ASSUME NEW d \in Delivery, deliveries[d].status = "POSTED",
                   deliveries[d].version = versions + 1
            PROVE  FALSE
        <5>1. versions \in Int /\ versions + 1 <= versions
          BY <1>0, <4>1 DEF TypeOK, VersionsUsed
        <5> QED
          BY <5>1
      <4> QED
        BY <4>1 DEF PostedOf, PostedDeliveries
    <3> QED
      BY <2>1, <2>4, <3>1
  <2>5. CASE orders[o].status = "DRAFT" /\ orders'[o] = [orders[o] EXCEPT !.status = "SENT"]
    <3>1. orders'[o].version = orders[o].version /\ orders'[o].ordered = orders[o].ordered
      BY <2>2, <2>5 DEF OrderRecord
    <3> QED
      BY <2>1, <2>5, <3>1 DEF UntouchedOrders
  <2>6. CASE orders'[o] = [orders[o] EXCEPT !.status = "CANCELLED"]
    BY <2>2, <2>6 DEF OrderRecord
  <2> QED
    BY <2>2, <2>3, <2>4, <2>5, <2>6 DEF OrderAfter
<1>2. ASSUME NEW c \in Client, Posts(c)
      PROVE  /\ \E r \in Resource : orders'[o].ordered[r] > 0
             /\ PostedOf(o, orders[o].version)' = {}
  <2>1. /\ handlers[c].order.status \in {"PARTIALLY_DELIVERED", "DELIVERED"}
        /\ orders' = [orders EXCEPT ![handlers[c].orderId] = handlers[c].order]
        /\ handlers[c].orderId \in Order
        /\ handlers[c].deliveryId \in Delivery
        /\ handlers[c].posted.orderId = handlers[c].orderId
    BY <1>0, <1>2 DEF CommitReady, Posts, Committing, FinishPosting, PostingTyped
  <2>2. o # handlers[c].orderId /\ orders'[o] = orders[o]
    BY <1>0, <2>1 DEF TypeOK
  <2>3. PostedOf(o, orders[o].version)' = PostedOf(o, orders[o].version)
    BY <1>0, <1>2, <2>1, <2>2, AfterPosting
      DEF PostedOf, PostedDeliveries, Posts, Committing
  <2> QED
    BY <2>2, <2>3 DEF UntouchedOrders
<1> QED
  BY <1>1, <1>2, PostsOrQuiet

-----------------------------------------------------------------------------
(* Orders that are shown as delivered.                                     *)

\* A posting that will show its order as delivered completes it; what was received since it
\* began only adds to that.
CompletionReady ==
  \A c \in Client :
    handlers[c].kind = "posting" /\ handlers[c].order.status = "DELIVERED"
      => Fulfils(handlers[c])

\* The quantities of a waiting posting and of its order are natural numbers.
LEMMA PostingNumbers ==
  ASSUME TypeOK, NEW c \in Client, handlers[c].kind = "posting", NEW r \in Resource
  PROVE  handlers[c].posted.delivered[r] \in Nat /\ handlers[c].order.ordered[r] \in Nat
<1>1. handlers[c].posted.delivered \in Quantities /\ handlers[c].order.ordered \in Quantities
  BY PostingFields DEF PostingTyped, OrderRecord
<1> QED
  BY <1>1, BoundsAssumption DEF Quantities

\* A step never takes back what was received.
LEMMA ReceivedGrows ==
  ASSUME Inv, [Next]_vars, FinitelyPosted, NEW o, NEW v
  PROVE  /\ FinitelyPosted'
         /\ \A r \in Resource : /\ ReceivedAt(o, v, r) \in Nat
                                /\ ReceivedAt(o, v, r)' \in Nat
                                /\ ReceivedAt(o, v, r)' >= ReceivedAt(o, v, r)
<1>0. TypeOK /\ CommitReady
  BY DEF Inv
<1>1. \A r \in Resource : ReceivedAt(o, v, r) \in Nat
  BY <1>0, ReceivedType
<1>2. CASE QuietStep
  <2>1. PostsNothing
    BY <1>2 DEF QuietStep
  <2>2. FinitelyPosted' /\ \A r \in Resource : ReceivedAt(o, v, r)' = ReceivedAt(o, v, r)
    BY <1>0, <2>1, ReceivedQuiet
  <2> QED
    BY <1>1, <2>2
<1>3. ASSUME NEW c \in Client, Posts(c)
      PROVE  /\ FinitelyPosted'
             /\ \A r \in Resource : /\ ReceivedAt(o, v, r)' \in Nat
                                    /\ ReceivedAt(o, v, r)' >= ReceivedAt(o, v, r)
  <2>1. /\ FinitelyPosted'
        /\ \A r \in Resource :
             ReceivedAt(o, v, r)' =
               ReceivedAt(o, v, r)
                 + (IF o = handlers[c].orderId /\ v = handlers[c].posted.version
                      THEN handlers[c].posted.delivered[r] ELSE 0)
    BY <1>0, <1>3, ReceivedPosting
  <2>2. \A r \in Resource : handlers[c].posted.delivered[r] \in Nat
    BY <1>0, <1>3, PostingNumbers DEF Posts, FinishPosting
  <2> QED
    BY <1>1, <2>1, <2>2
<1> QED
  BY <1>1, <1>2, <1>3, PostsOrQuiet

\* What a posting computes when it begins.
LEMMA BeganFulfils ==
  ASSUME TypeOK, NEW c \in Client, NEW d \in Delivery, NEW quantity \in Quantities,
         Began(c, d, quantity)
  PROVE  handlers'[c].order.status = "DELIVERED" <=> Fulfils(handlers[c])'
<1> DEFINE o == deliveries[d].orderId
           posting == handlers'[c]
<1>1. /\ posting.orderId = o
      /\ posting.posted.version = orders[o].version
      /\ posting.posted.delivered = quantity
      /\ posting.order.ordered = orders[o].ordered
      /\ posting.order.status = StatusAfter(o, quantity)
  <2>1. o \in Order /\ orders[o] \in OrderRecord
    BY DEF TypeOK, Began
  <2> HIDE DEF o
  <2>2. posting =
          [kind |-> "posting", deliveryId |-> d, orderId |-> o,
           posted |-> [status |-> "POSTED", orderId |-> o, version |-> orders[o].version,
                       attempt |-> attempts + 1, delivered |-> quantity],
           order |-> [orders[o] EXCEPT !.status = StatusAfter(o, quantity)]]
    BY DEF Began, o
  <2> QED
    BY <2>1, <2>2 DEF OrderRecord
<1>2. \A r \in Resource :
        ReceivedAt(o, orders[o].version, r)
          = SumFunctionOnSet([e \in Delivery |-> deliveries[e].delivered[r]],
                             {e \in PostedDeliveries(o) : deliveries[e].version = orders[o].version})
  BY DEF ReceivedAt, PostedOf, Delivered
<1>3. Fulfils(handlers[c])'
        <=> \A r \in Resource :
              ReceivedAt(o, orders[o].version, r) + quantity[r] >= orders[o].ordered[r]
  <2>1. UNCHANGED deliveries
    BY DEF Began
  <2> HIDE DEF o
  <2>2. \A p, v, r : ReceivedAt(p, v, r)' = ReceivedAt(p, v, r)
    BY <2>1 DEF ReceivedAt, PostedOf, PostedDeliveries, Delivered
  <2> QED
    BY <1>1, <2>2 DEF Fulfils
<1>4. StatusAfter(o, quantity) = "DELIVERED"
        <=> \A r \in Resource :
              ReceivedAt(o, orders[o].version, r) + quantity[r] >= orders[o].ordered[r]
  BY ReceivedIs DEF StatusAfter
<1> QED
  BY <1>1, <1>3, <1>4

\* What was received can only grow until the commit, which adds the posting's own lines.
LEMMA CompletionStep ==
  ASSUME Inv, [Next]_vars, FinitelyPosted, CompletionReady
  PROVE  CompletionReady'
<1>0. TypeOK /\ CommitReady
  BY DEF Inv
<1> SUFFICES ASSUME NEW c \in Client, handlers'[c].kind = "posting",
                    handlers'[c].order.status = "DELIVERED"
             PROVE  Fulfils(handlers[c])'
  BY DEF CompletionReady
<1>1. CASE handlers'[c] = handlers[c]
  <2> DEFINE p == handlers[c].orderId
             v == handlers[c].posted.version
  <2>1. \A r \in Resource : /\ ReceivedAt(p, v, r) \in Nat
                            /\ ReceivedAt(p, v, r)' \in Nat
                            /\ ReceivedAt(p, v, r)' >= ReceivedAt(p, v, r)
    <3>1. handlers'[c].orderId = p /\ handlers'[c].posted.version = v
      BY <1>1
    <3>2. \A q, w : \A r \in Resource : /\ ReceivedAt(q, w, r) \in Nat
                                        /\ ReceivedAt(q, w, r)' \in Nat
                                        /\ ReceivedAt(q, w, r)' >= ReceivedAt(q, w, r)
      BY ReceivedGrows
    <3> QED
      BY <3>1, <3>2
  <2>2. Fulfils(handlers[c])
    BY <1>1 DEF CompletionReady
  <2>3. \A r \in Resource : handlers[c].posted.delivered[r] \in Nat /\ handlers[c].order.ordered[r] \in Nat
    BY <1>0, <1>1, PostingNumbers
  <2> QED
    BY <1>1, <2>1, <2>2, <2>3 DEF Fulfils
<1>2. CASE handlers'[c] # handlers[c]
  BY <1>0, <1>2, PostingAfter, BeganFulfils
<1> QED
  BY <1>1, <1>2

\* An order becomes delivered by the commit of a posting that completes it.
LEMMA DeliveredStep ==
  ASSUME Inv, [Next]_vars, FinitelyPosted, VersionsUsed, CompletionReady, DeliveredOrdersComplete
  PROVE  DeliveredOrdersComplete'
<1>0. TypeOK /\ CommitReady
  BY DEF Inv
<1>1. \A q, w : \A r \in Resource : /\ ReceivedAt(q, w, r) \in Nat
                                    /\ ReceivedAt(q, w, r)' \in Nat
                                    /\ ReceivedAt(q, w, r)' >= ReceivedAt(q, w, r)
  BY ReceivedGrows
<1> SUFFICES ASSUME NEW o \in Order, orders'[o].status = "DELIVERED", NEW r \in Resource,
                    NEW v, v = orders'[o].version
             PROVE  ReceivedAt(o, v, r)' >= orders'[o].ordered[r]
  BY DEF DeliveredOrdersComplete, Received, ReceivedAt, PostedOf, Delivered
<1>2. CASE orders'[o] = orders[o]
  <2>1. ReceivedAt(o, v, r) >= orders[o].ordered[r]
    BY <1>2, ReceivedIs DEF DeliveredOrdersComplete
  <2>2. orders[o].ordered[r] \in Nat
    BY <1>0, BoundsAssumption DEF TypeOK, OrderRecord, Quantities
  <2> QED
    BY <1>1, <1>2, <2>1, <2>2
<1>3. CASE QuietStep
  <2>1. orders[o] \in OrderRecord /\ OrderAfter(o)
    BY <1>0, <1>3 DEF TypeOK, QuietStep
  <2> QED
    BY <1>2, <2>1 DEF OrderAfter, OrderRecord
<1>4. ASSUME NEW c \in Client, Posts(c), orders'[o] # orders[o]
      PROVE  ReceivedAt(o, v, r)' >= orders'[o].ordered[r]
  <2>1. /\ orders' = [orders EXCEPT ![handlers[c].orderId] = handlers[c].order]
        /\ handlers[c].kind = "posting"
    BY <1>4 DEF Posts, Committing, FinishPosting
  <2>2. o = handlers[c].orderId /\ orders'[o] = handlers[c].order
    BY <1>0, <1>4, <2>1 DEF TypeOK
  <2>3. v = handlers[c].posted.version /\ Fulfils(handlers[c])
    BY <2>1, <2>2 DEF VersionsUsed, CompletionReady
  <2>4. ReceivedAt(o, v, r)' = ReceivedAt(o, v, r) + handlers[c].posted.delivered[r]
    BY <1>0, <1>4, <2>2, <2>3, ReceivedPosting
  <2> QED
    BY <2>2, <2>3, <2>4 DEF Fulfils
<1> QED
  BY <1>2, <1>3, <1>4, PostsOrQuiet

-----------------------------------------------------------------------------
(* Orders that await goods.                                                *)

NoneWithdrawn(o) == \A d \in Withdrawn : deliveries[d].orderId # o

\* An order has one draft of a delivery; a posting knows the order of its delivery; and only
\* what may be withdrawn is cancelled.
DraftsAlone ==
  /\ \A d, e \in Delivery :
       /\ deliveries[d].status = "DRAFT"
       /\ deliveries[e].status = "DRAFT"
       /\ deliveries[d].orderId = deliveries[e].orderId
       => d = e
  /\ \A d \in Delivery : deliveries[d].status = "CANCELLED" => d \in Withdrawn
  /\ \A c \in Client :
       handlers[c].kind = "posting" =>
         deliveries[handlers[c].deliveryId].orderId = handlers[c].orderId

\* A posting that will show its order as partly delivered leaves something outstanding while
\* its delivery is not posted: no other delivery of the order can be.
PartReady ==
  \A c \in Client :
    /\ handlers[c].kind = "posting"
    /\ handlers[c].order.status = "PARTIALLY_DELIVERED"
    /\ deliveries[handlers[c].deliveryId].status # "POSTED"
    /\ NoneWithdrawn(handlers[c].orderId)
    => ~Fulfils(handlers[c])

PartlyDelivered ==
  \A o \in Order :
    orders[o].status = "PARTIALLY_DELIVERED" /\ NoneWithdrawn(o)
      => \E r \in Resource : Received(o, r) < orders[o].ordered[r]

\* A delivery keeps the order it was created for.
LEMMA OrderOfDelivery ==
  ASSUME Inv, [Next]_vars, DraftsAlone, NEW d \in Delivery, deliveries[d].orderId \in Order
  PROVE  deliveries'[d].orderId = deliveries[d].orderId
<1>0. TypeOK /\ CommitReady
  BY DEF Inv
<1>1. deliveries[d] \in DeliveryRecord
  BY <1>0 DEF TypeOK
<1>2. CASE QuietStep
  <2>1. DeliveryAfter(d)
    BY <1>2 DEF QuietStep
  <2>2. deliveries[d].status # "ABSENT"
    BY <1>1, OrderAssumption DEF DeliveryRecord, PostedRecord
  <2> QED
    BY <1>1, <2>1, <2>2 DEF DeliveryAfter, DeliveryRecord, PostedRecord
<1>3. ASSUME NEW c \in Client, Posts(c) PROVE deliveries'[d].orderId = deliveries[d].orderId
  <2>1. handlers[c].kind = "posting"
    BY <1>3 DEF Posts, FinishPosting
  <2> QED
    BY <1>0, <1>3, <2>1, AfterPosting DEF CommitReady, DraftsAlone
<1> QED
  BY <1>2, <1>3, PostsOrQuiet

\* A withdrawn delivery of the order, once there is one, stays one.
LEMMA WithdrawnStay ==
  ASSUME Inv, [Next]_vars, DraftsAlone, NEW o \in Order, NoneWithdrawn(o)'
  PROVE  NoneWithdrawn(o)
BY OrderOfDelivery, WithdrawnAssumption DEF NoneWithdrawn

\* A new draft is the only one; a commit keeps the order of its delivery.
LEMMA DraftsStep ==
  ASSUME Inv, [Next]_vars, DraftsAlone
  PROVE  DraftsAlone'
<1>0. TypeOK /\ CommitReady
  BY DEF Inv
<1>1. ASSUME NEW d \in Delivery, NEW e \in Delivery,
             deliveries'[d].status = "DRAFT", deliveries'[e].status = "DRAFT",
             deliveries'[d].orderId = deliveries'[e].orderId, d # e
      PROVE  FALSE
  <2>1. ASSUME NEW c \in Client, Posts(c) PROVE FALSE
    <3>1. handlers[c].posted.status = "POSTED"
      BY <2>1 DEF Posts, PostingTyped
    <3> QED
      BY <1>0, <1>1, <2>1, <3>1, AfterPosting DEF DraftsAlone
  <2>2. CASE QuietStep
    <3>1. DeliveryAfter(d) /\ DeliveryAfter(e)
      BY <2>2 DEF QuietStep
    <3>2. deliveries[d] \in DeliveryRecord /\ deliveries[e] \in DeliveryRecord
      BY <1>0 DEF TypeOK
    <3>3. deliveries'[d] = deliveries[d] \/ deliveries[d].status = "ABSENT"
      BY <1>1, <3>1, <3>2 DEF DeliveryAfter, DeliveryRecord, PostedRecord
    <3>4. deliveries'[e] = deliveries[e] \/ deliveries[e].status = "ABSENT"
      BY <1>1, <3>1, <3>2 DEF DeliveryAfter, DeliveryRecord, PostedRecord
    <3>5. CASE deliveries'[d] = deliveries[d] /\ deliveries'[e] = deliveries[e]
      BY <1>1, <3>5 DEF DraftsAlone
    <3>6. ASSUME NEW a \in {d, e}, NEW b \in {d, e}, a # b, deliveries'[a] # deliveries[a]
          PROVE  FALSE
      <4>1. /\ DeliveryAfter(a)
            /\ deliveries[a].status = "ABSENT"
            /\ deliveries'[a].status = "DRAFT"
            /\ deliveries'[b].status = "DRAFT"
            /\ deliveries'[a].orderId = deliveries'[b].orderId
        BY <1>1, <3>1, <3>3, <3>4, <3>6
      <4>2. PICK o \in Order :
              /\ ~HasDraft(o)
              /\ deliveries' = [deliveries EXCEPT ![a].status = "DRAFT", ![a].orderId = o]
        BY <3>6, <4>1 DEF DeliveryAfter
      <4>3. deliveries'[b] = deliveries[b] /\ deliveries'[a].orderId = o
        BY <1>0, <3>2, <3>6, <4>2 DEF TypeOK, DeliveryRecord, PostedRecord
      <4> QED
        BY <4>1, <4>2, <4>3 DEF HasDraft
    <3> QED
      BY <1>1, <3>5, <3>6
  <2> QED
    BY <2>1, <2>2, PostsOrQuiet
<1>2. ASSUME NEW d \in Delivery, deliveries'[d].status = "CANCELLED" PROVE d \in Withdrawn
  <2>1. ASSUME NEW c \in Client, Posts(c) PROVE d \in Withdrawn
    <3>1. handlers[c].posted.status = "POSTED"
      BY <2>1 DEF Posts, PostingTyped
    <3> QED
      BY <1>0, <1>2, <2>1, <3>1, AfterPosting DEF DraftsAlone
  <2>2. CASE QuietStep
    <3>1. DeliveryAfter(d) /\ deliveries[d] \in DeliveryRecord
      BY <1>0, <2>2 DEF TypeOK, QuietStep
    <3> QED
      BY <1>0, <1>2, <3>1 DEF TypeOK, DeliveryAfter, DraftsAlone, DeliveryRecord, PostedRecord
  <2> QED
    BY <2>1, <2>2, PostsOrQuiet
<1>3. ASSUME NEW c \in Client, handlers'[c].kind = "posting"
      PROVE  deliveries'[handlers'[c].deliveryId].orderId = handlers'[c].orderId
  <2>1. CASE handlers'[c] = handlers[c]
    <3>1. /\ handlers[c].deliveryId \in Delivery
          /\ handlers[c].orderId \in Order
          /\ deliveries[handlers[c].deliveryId].orderId = handlers[c].orderId
      BY <1>0, <1>3, <2>1, PostingFields DEF DraftsAlone, PostingTyped
    <3> QED
      BY <2>1, <3>1, OrderOfDelivery
  <2>2. CASE handlers'[c] # handlers[c]
    <3>1. PICK d \in Delivery, quantity \in Quantities : Began(c, d, quantity)
      BY <1>0, <1>3, <2>2, PostingAfter
    <3>2. /\ handlers'[c].deliveryId = d
          /\ handlers'[c].orderId = deliveries[d].orderId
          /\ deliveries' = deliveries
      BY <3>1 DEF Began
    <3> QED
      BY <3>2
  <2> QED
    BY <2>1, <2>2
<1> QED
  BY <1>1, <1>2, <1>3 DEF DraftsAlone

\* The commit of one posting of an order leaves the others nothing to post.
LEMMA PartStep ==
  ASSUME Inv, [Next]_vars, FinitelyPosted, DraftsAlone, PartReady
  PROVE  PartReady'
<1>0. TypeOK /\ CommitReady
  BY DEF Inv
<1> SUFFICES ASSUME NEW c \in Client,
                    handlers'[c].kind = "posting",
                    handlers'[c].order.status = "PARTIALLY_DELIVERED",
                    deliveries'[handlers'[c].deliveryId].status # "POSTED",
                    NoneWithdrawn(handlers[c].orderId)'
             PROVE  ~Fulfils(handlers[c])'
  BY DEF PartReady
<1>1. CASE handlers'[c] # handlers[c]
  BY <1>0, <1>1, PostingAfter, BeganFulfils
<1>2. CASE handlers'[c] = handlers[c]
  <2>1. /\ handlers[c].deliveryId \in Delivery
        /\ handlers[c].orderId \in Order
        /\ deliveries[handlers[c].deliveryId].orderId = handlers[c].orderId
    BY <1>0, <1>2, PostingFields DEF DraftsAlone, PostingTyped
  <2>2. NoneWithdrawn(handlers[c].orderId)
    <3>1. NoneWithdrawn(handlers[c].orderId)' <=> \A d \in Withdrawn : deliveries'[d].orderId # handlers[c].orderId
      BY <1>2 DEF NoneWithdrawn
    <3> QED
      BY <2>1, <3>1, OrderOfDelivery, WithdrawnAssumption DEF NoneWithdrawn
  <2>3. CASE QuietStep
    <3>1. deliveries[handlers[c].deliveryId].status # "POSTED"
      BY <1>2, <2>1, <2>3 DEF QuietStep, PostsNothing
    <3>2. ~Fulfils(handlers[c])
      BY <1>2, <2>2, <3>1 DEF PartReady
    <3>3. \A q, w : \A r \in Resource : ReceivedAt(q, w, r)' = ReceivedAt(q, w, r)
      BY <1>0, <2>3, ReceivedQuiet DEF QuietStep
    <3> QED
      BY <1>2, <3>2, <3>3 DEF Fulfils
  <2>4. ASSUME NEW b \in Client, Posts(b) PROVE ~Fulfils(handlers[c])'
    <3>1. /\ handlers[b].kind = "posting"
          /\ handlers[b].deliveryId \in Delivery
          /\ deliveries[handlers[b].deliveryId].status # "POSTED"
          /\ deliveries'[handlers[b].deliveryId] = handlers[b].posted
          /\ handlers[b].posted.status = "POSTED"
          /\ deliveries[handlers[b].deliveryId].orderId = handlers[b].orderId
      BY <1>0, <2>4, AfterPosting DEF Posts, FinishPosting, Committing, PostingTyped, DraftsAlone
    <3>2. handlers[b].deliveryId # handlers[c].deliveryId
      BY <1>2, <3>1
    <3>3. deliveries[handlers[c].deliveryId].status # "POSTED"
      BY <1>0, <1>2, <2>1, <2>4, <3>2, AfterPosting
    <3>4. ~Fulfils(handlers[c])
      BY <1>2, <2>2, <3>3 DEF PartReady
    <3>5. handlers[b].orderId # handlers[c].orderId
      <4>1. ASSUME handlers[b].orderId = handlers[c].orderId PROVE FALSE
        <5>1. /\ deliveries[handlers[b].deliveryId].status = "DRAFT"
              /\ deliveries[handlers[c].deliveryId].status = "DRAFT"
          BY <1>0, <2>1, <2>2, <3>1, <3>3, <4>1, OrderAssumption
            DEF TypeOK, DeliveryRecord, PostedRecord, DraftsAlone, NoneWithdrawn
        <5> QED
          BY <2>1, <3>1, <3>2, <4>1, <5>1 DEF DraftsAlone
      <4> QED
        BY <4>1
    <3>6. \A w : \A r \in Resource :
            ReceivedAt(handlers[c].orderId, w, r)' = ReceivedAt(handlers[c].orderId, w, r)
      <4>1. \A q, w : \A r \in Resource :
              q # handlers[b].orderId => ReceivedAt(q, w, r)' = ReceivedAt(q, w, r)
        <5>1. ASSUME NEW q, NEW w, NEW r \in Resource, q # handlers[b].orderId
              PROVE  ReceivedAt(q, w, r)' = ReceivedAt(q, w, r)
          <6>1. ReceivedAt(q, w, r)' = ReceivedAt(q, w, r) + 0
            BY <1>0, <2>4, <5>1, ReceivedPosting
          <6> QED
            BY <1>0, <6>1, ReceivedType
        <5> QED
          BY <5>1
      <4> QED
        BY <1>2, <3>5, <4>1
    <3> QED
      BY <1>2, <3>4, <3>6 DEF Fulfils
  <2> QED
    BY <2>3, <2>4, PostsOrQuiet
<1> QED
  BY <1>1, <1>2

\* An order becomes partly delivered by the commit of a posting that leaves something.
LEMMA PartlyDeliveredStep ==
  ASSUME Inv, [Next]_vars, FinitelyPosted, VersionsUsed, DraftsAlone, PartReady, PartlyDelivered
  PROVE  PartlyDelivered'
<1>0. TypeOK /\ CommitReady
  BY DEF Inv
<1> SUFFICES ASSUME NEW o \in Order, orders'[o].status = "PARTIALLY_DELIVERED", NoneWithdrawn(o)',
                    NEW v, v = orders'[o].version
             PROVE  \E r \in Resource : ReceivedAt(o, v, r)' < orders'[o].ordered[r]
  BY DEF PartlyDelivered, Received, ReceivedAt, PostedOf, Delivered
<1>1. NoneWithdrawn(o)
  BY WithdrawnStay
<1>2. ASSUME orders'[o] = orders[o], \A r \in Resource : ReceivedAt(o, v, r)' = ReceivedAt(o, v, r)
      PROVE  \E r \in Resource : ReceivedAt(o, v, r)' < orders'[o].ordered[r]
  BY <1>1, <1>2, ReceivedIs DEF PartlyDelivered
<1>3. CASE QuietStep
  <2>1. orders[o] \in OrderRecord /\ OrderAfter(o)
    BY <1>0, <1>3 DEF TypeOK, QuietStep
  <2>2. orders'[o] = orders[o]
    BY <2>1 DEF OrderAfter, OrderRecord
  <2> QED
    BY <1>0, <1>2, <1>3, <2>2, ReceivedQuiet DEF QuietStep
<1>4. ASSUME NEW c \in Client, Posts(c)
      PROVE  \E r \in Resource : ReceivedAt(o, v, r)' < orders'[o].ordered[r]
  <2>1. /\ orders' = [orders EXCEPT ![handlers[c].orderId] = handlers[c].order]
        /\ handlers[c].kind = "posting"
        /\ handlers[c].orderId \in Order
        /\ deliveries[handlers[c].deliveryId].status # "POSTED"
    BY <1>4 DEF Posts, Committing, FinishPosting, PostingTyped
  <2>2. ASSUME NEW r \in Resource
        PROVE  ReceivedAt(o, v, r)' =
                 ReceivedAt(o, v, r)
                   + (IF o = handlers[c].orderId /\ v = handlers[c].posted.version
                        THEN handlers[c].posted.delivered[r] ELSE 0)
    BY <1>0, <1>4, ReceivedPosting
  <2>3. CASE o = handlers[c].orderId
    <3>1. orders'[o] = handlers[c].order
      BY <1>0, <2>1, <2>3 DEF TypeOK
    <3>2. v = handlers[c].posted.version /\ ~Fulfils(handlers[c])
      BY <1>1, <2>1, <2>3, <3>1 DEF VersionsUsed, PartReady
    <3>3. PICK r \in Resource : ~(ReceivedAt(o, v, r) + handlers[c].posted.delivered[r]
                                     >= handlers[c].order.ordered[r])
      BY <2>3, <3>2 DEF Fulfils
    <3>4. /\ ReceivedAt(o, v, r) \in Nat
          /\ handlers[c].posted.delivered[r] \in Nat
          /\ handlers[c].order.ordered[r] \in Nat
      BY <1>0, <2>1, ReceivedType, PostingNumbers
    <3> QED
      BY <2>2, <2>3, <3>1, <3>2, <3>3, <3>4
  <2>4. CASE o # handlers[c].orderId
    <3>1. orders'[o] = orders[o]
      BY <1>0, <2>1, <2>4 DEF TypeOK
    <3>2. \A r \in Resource : ReceivedAt(o, v, r)' = ReceivedAt(o, v, r)
      <4>1. ASSUME NEW r \in Resource PROVE ReceivedAt(o, v, r)' = ReceivedAt(o, v, r)
        <5>1. ReceivedAt(o, v, r)' = ReceivedAt(o, v, r) + 0
          BY <2>2, <2>4
        <5> QED
          BY <1>0, <5>1, ReceivedType
      <4> QED
        BY <4>1
    <3> QED
      BY <1>2, <3>1, <3>2
  <2> QED
    BY <2>3, <2>4
<1> QED
  BY <1>3, <1>4, PostsOrQuiet

-----------------------------------------------------------------------------
(* The properties of the sums and of the screens.                          *)

\* All that the orders on the screens rest on.
OrdersInv ==
  /\ FinitelyPosted
  /\ VersionsUsed
  /\ UntouchedOrders
  /\ CompletionReady
  /\ DeliveredOrdersComplete
  /\ DraftsAlone
  /\ PartReady
  /\ PartlyDelivered

\* Initially there is no order, no delivery and no waiting posting.
LEMMA OrdersInit == Init => OrdersInv
<1> SUFFICES ASSUME Init PROVE OrdersInv
  OBVIOUS
<1>1. FinitelyPosted
  <2>1. {d \in Delivery : deliveries[d].status = "POSTED"} = {}
    BY DEF Init
  <2> QED
    BY <2>1, FS_EmptySet DEF FinitelyPosted
<1>2. VersionsUsed
  BY DEF Init, VersionsUsed, Idle
<1>3. UntouchedOrders /\ DeliveredOrdersComplete /\ PartlyDelivered
  BY DEF Init, UntouchedOrders, DeliveredOrdersComplete, PartlyDelivered
<1>4. CompletionReady /\ DraftsAlone /\ PartReady
  BY DEF Init, CompletionReady, DraftsAlone, PartReady, Idle
<1> QED
  BY <1>1, <1>2, <1>3, <1>4 DEF OrdersInv

\* It holds at first and every step keeps it.
LEMMA OrdersInvariance == Spec => [](Inv /\ OrdersInv)
<1>1. Inv /\ OrdersInv /\ [Next]_vars => OrdersInv'
  <2> SUFFICES ASSUME Inv, OrdersInv, [Next]_vars PROVE OrdersInv'
    OBVIOUS
  <2>1. FinitelyPosted'
    BY ReceivedGrows DEF OrdersInv
  <2> QED
    BY <2>1, VersionsStep, UntouchedStep, CompletionStep, DeliveredStep, DraftsStep, PartStep,
       PartlyDeliveredStep DEF OrdersInv
<1> QED
  BY <1>1, OrdersInit, Invariance, PTL DEF Spec

\* The screen's sum, which leaves out the lines that delivered nothing, is the service's.
LEMMA SumsAgree ==
  ASSUME TypeOK, FinitelyPosted, NEW o, NEW r \in Resource
  PROVE  ReceivedForLine(o, r) = Received(o, r) /\ Received(o, r) \in Nat
<1> DEFINE S == PostedOf(o, orders[o].version)
           R == LinesOf(o, r)
           f == Delivered(r)
<1>1. IsFiniteSet(S) /\ (\A d \in Delivery : f[d] \in Nat) /\ Received(o, r) \in Nat
  BY ReceivedType, ReceivedIs
<1>2. R \in SUBSET S /\ S \subseteq Delivery
  BY DEF LinesOf, PostedOf, PostedDeliveries
<1>3. \A d \in S \ R : f[d] = 0
  <2>1. \A d \in S \ R : ~(f[d] > 0)
    BY DEF LinesOf, PostedOf, PostedDeliveries, Delivered
  <2> HIDE DEF S, R, f
  <2> QED
    BY <1>1, <1>2, <2>1
<1>4. ReceivedForLine(o, r) = SumFunctionOnSet(f, R)
  BY DEF ReceivedForLine, Delivered
<1>5. Received(o, r) = SumFunctionOnSet(f, S)
  BY ReceivedIs DEF ReceivedAt
<1> HIDE DEF S, R, f
<1>6. SumFunctionOnSet(f, R) = SumFunctionOnSet(f, S)
  <2>1. \A d \in S : f[d] \in Nat
    BY <1>1, <1>2
  <2> QED
    BY <1>1, <1>2, <1>3, <2>1, SumGrows
<1> QED
  BY <1>1, <1>4, <1>5, <1>6

\* The form proposes exactly what is outstanding, so something is, and it completes the order.
LEMMA FormCompletes ==
  ASSUME Inv, OrdersInv, NEW o \in Order, OffersReceive(o), NoneWithdrawn(o)
  PROVE  /\ Selected(DeliveryForm(o)) # {}
         /\ Covered(o, DeliveryForm(o), FALSE)
         /\ StatusAfter(o, DeliveryForm(o)) = "DELIVERED"
         /\ \A r \in Selected(DeliveryForm(o)) : HasOpenOrder(r)
<1>0. TypeOK /\ FinitelyPosted
  BY DEF Inv, OrdersInv
<1>1. ASSUME NEW r \in Resource
      PROVE  /\ Received(o, r) \in Nat
             /\ orders[o].ordered[r] \in Nat
             /\ DeliveryForm(o)[r] = IF orders[o].ordered[r] - Received(o, r) > 0
                                       THEN orders[o].ordered[r] - Received(o, r) ELSE 0
  <2>1. orders[o].ordered[r] \in Nat
    BY <1>0, BoundsAssumption DEF TypeOK, OrderRecord, Quantities
  <2> QED
    BY <1>0, <2>1, SumsAgree DEF DeliveryForm, Outstanding
<1>2. \E r \in Resource : Received(o, r) < orders[o].ordered[r]
  <2>1. CASE orders[o].status = "PARTIALLY_DELIVERED"
    BY <2>1 DEF OrdersInv, PartlyDelivered
  <2>2. CASE orders[o].status = "SENT"
    <3>1. PICK r \in Resource : orders[o].ordered[r] > 0
      BY <2>2 DEF OrdersInv, UntouchedOrders
    <3>2. PostedOf(o, orders[o].version) = {}
      BY <2>2 DEF OrdersInv, UntouchedOrders
    <3>3. Received(o, r) = 0
      BY <3>2, SumEmpty, ReceivedIs DEF ReceivedAt
    <3> QED
      BY <3>1, <3>3
  <2> QED
    BY <2>1, <2>2 DEF OffersReceive
<1> HIDE DEF DeliveryForm
<1>3. Selected(DeliveryForm(o)) # {}
  <2>1. PICK r \in Resource : Received(o, r) < orders[o].ordered[r]
    BY <1>2
  <2>2. DeliveryForm(o)[r] > 0
    BY <1>1, <2>1
  <2> QED
    BY <2>2 DEF Selected
<1>4. Covered(o, DeliveryForm(o), FALSE)
  BY <1>1 DEF Covered
<1>5. StatusAfter(o, DeliveryForm(o)) = "DELIVERED"
  <2>1. \A r \in Resource : Received(o, r) + DeliveryForm(o)[r] >= orders[o].ordered[r]
    BY <1>1
  <2> QED
    BY <2>1 DEF StatusAfter
<1>6. \A r \in Selected(DeliveryForm(o)) : HasOpenOrder(r)
  BY <1>1 DEF Selected, HasOpenOrder, OpenOrder, OffersReceive
<1> QED
  BY <1>3, <1>4, <1>5, <1>6

-----------------------------------------------------------------------------
(* The theorems.                                                           *)

\* The stores and the waiting handlers always have their declared shapes.
THEOREM TypeCorrect == Spec => []TypeOK
<1>1. Inv => TypeOK
  BY DEF Inv
<1> QED
  BY <1>1, Invariance, PTL

\* The lines of a posted delivery were booked in the Warehouse (purchasing/service.ts,
\* postDelivery calls recordSupplierDelivery before it commits).
THEOREM ReceivedCorrect == Spec => []PostedDeliveriesReceived
<1>1. Inv => PostedDeliveriesReceived
  BY DEF Inv
<1> QED
  BY <1>1, Invariance, PTL

\* The price history holds the prices of the posted deliveries and no others
\* (purchasing/repository.ts, commitPostedDelivery).
THEOREM PricesCorrect == Spec => []PricesMatchDeliveries
<1>1. Inv => PricesMatchDeliveries
  BY DEF Inv
<1> QED
  BY <1>1, Invariance, PTL

\* An order that received goods is never cancelled (purchasing/service.ts, cancelOrder).
THEOREM CancellationCorrect == Spec => []CancelledOrdersUndelivered
<1>1. Inv => CancelledOrdersUndelivered
  BY DEF Inv
<1> QED
  BY <1>1, Invariance, PTL

\* A posted delivery never changes, whoever else is posting or cancelling it
\* (purchasing/repository.ts, saveDelivery and commitPostedDelivery).
THEOREM PostedCorrect == Spec => PostedDeliveriesFinal
<1>1. TypeOK /\ [Next]_vars =>
        [\A d \in Delivery :
           deliveries[d].status = "POSTED" => deliveries'[d] = deliveries[d]]_vars
  BY DeliveriesStep
<1> QED
  BY <1>1, TypeCorrect, PTL DEF Spec, PostedDeliveriesFinal

\* An order that is shown as delivered was delivered in full, though postings compute its
\* status before they wait (purchasing/service.ts, postDelivery).
THEOREM DeliveredCorrect == Spec => []DeliveredOrdersComplete
<1>1. OrdersInv => DeliveredOrdersComplete
  BY DEF OrdersInv
<1> QED
  BY <1>1, OrdersInvariance, PTL

\* What the delivery form proposes for an order that awaits goods is accepted and completes
\* it (purchasing/screen.tsx, the delivery form; purchasing/service.ts, postDelivery).
THEOREM ReceivableCorrect == Spec => []ReceivableOrdersComplete
<1>1. Inv /\ OrdersInv => ReceivableOrdersComplete
  BY FormCompletes, Zenon DEF ReceivableOrdersComplete, NoneWithdrawn
<1> QED
  BY <1>1, OrdersInvariance, PTL

\* What the list of orders offers for an order can be done (purchasing/screen.tsx).
THEOREM OffersCorrect == Spec => []OrderOffersAccepted
<1>1. OrdersInv => OrderOffersAccepted
  BY DEF OrdersInv, UntouchedOrders, OrderOffersAccepted, OffersEdit, OffersSend, OffersCancel,
         OrderForm, Selected, PostedOf
<1> QED
  BY <1>1, OrdersInvariance, PTL
=============================================================================
