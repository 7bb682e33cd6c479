-------------------------- MODULE PurchasingScreen --------------------------
(***************************************************************************)
(* What the screen of the purchaser offers for an order or a delivery and  *)
(* what its forms are filled with (purchasing/screen.tsx), and what other  *)
(* screens are told of them (queryOperations).  The screen decides by      *)
(* rules of its own; the handlers of Purchasing decide whether to carry it *)
(* out.  It loads its state anew after each change of the store; a form    *)
(* that is open keeps what it was filled with, which the handlers of       *)
(* Purchasing, whose inputs are arbitrary, allow for.                      *)
(***************************************************************************)
EXTENDS Purchasing

-----------------------------------------------------------------------------
(* The list of orders and the order form.                                  *)

OffersEdit(o) == orders[o].status = "DRAFT"
OffersSend(o) == orders[o].status = "DRAFT"
OffersCancel(o) == orders[o].status \in {"DRAFT", "SENT"}

\* The order form of a draft holds its lines; a resource is a line while it is selected.
OrderForm(o) == orders[o].ordered
Selected(form) == {r \in Resource : form[r] > 0}

-----------------------------------------------------------------------------
(* The list of deliveries and the delivery form.                           *)

OffersReceive(o) == orders[o].status \in {"SENT", "PARTIALLY_DELIVERED"}

\* The posted lines that name a line of the order.
LinesOf(o, r) ==
  {d \in Delivery : /\ deliveries[d].status = "POSTED"
                    /\ deliveries[d].orderId = o
                    /\ deliveries[d].version = orders[o].version
                    /\ deliveries[d].delivered[r] > 0}

ReceivedForLine(o, r) ==
  SumFunctionOnSet([d \in Delivery |-> deliveries[d].delivered[r]], LinesOf(o, r))

\* The delivery form proposes what is outstanding of each line.
Outstanding(o, r) ==
  LET rest == orders[o].ordered[r] - ReceivedForLine(o, r)
  IN  IF rest > 0 THEN rest ELSE 0

DeliveryForm(o) == [r \in Resource |-> Outstanding(o, r)]

-----------------------------------------------------------------------------
(* What other screens are told.                                            *)

OpenOrder(o) == orders[o].status \in {"DRAFT", "SENT", "PARTIALLY_DELIVERED"}

\* A resource that is to be bought is marked when it is ordered already.
HasOpenOrder(r) == \E o \in Order : OpenOrder(o) /\ orders[o].ordered[r] > 0

-----------------------------------------------------------------------------
(* Correctness.                                                            *)

\* An order that awaits goods never gets stuck: unless a delivery of it may be cancelled,
\* what the form proposes is not empty, is accepted without a confirmation of excess, and
\* completes the order; and its resources are marked as ordered meanwhile.
ReceivableOrdersComplete ==
  \A o \in Order :
    OffersReceive(o) /\ (\A d \in Withdrawn : deliveries[d].orderId # o)
      => /\ Selected(DeliveryForm(o)) # {}
         /\ Covered(o, DeliveryForm(o), FALSE)
         /\ StatusAfter(o, DeliveryForm(o)) = "DELIVERED"
         /\ \A r \in Selected(DeliveryForm(o)) : HasOpenOrder(r)

\* The buttons of an order do what they offer: a draft has lines to edit and send, and an
\* order that offers to be cancelled has no deliveries of its present lines, whatever was
\* being posted or saved when it became what it is.
OrderOffersAccepted ==
  \A o \in Order :
    /\ OffersEdit(o) \/ OffersSend(o) => Selected(OrderForm(o)) # {}
    /\ OffersCancel(o) =>
         \A d \in PostedDeliveries(o) : deliveries[d].version # orders[o].version

=============================================================================
