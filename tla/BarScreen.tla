----------------------------- MODULE BarScreen -----------------------------
(***************************************************************************)
(* What the Bar and the Kitchen screens offer for an order                 *)
(* (bar-workspace-screen.tsx, kitchen/screen.tsx), against the handlers of *)
(* BarOrders that decide whether to carry it out.  The screens have rules  *)
(* of their own; they are modelled on a page that shows the store as it    *)
(* is, with nothing under way (busy, pending).                             *)
(***************************************************************************)
EXTENDS BarOrders

-----------------------------------------------------------------------------
(* The Bar: the hall, the menu and the receipt of an order.                 *)

Unpaid(o) == orders[o].paymentStatus = "UNPAID"
Drafts(r) == Lines(r) \ Submitted(r)
FreeTable(t) == \A p \in Order : Active(orders[p]) => orders[p].tableId # t

\* The journal lists order o under the filter f; every order keeps its number, so that the
\* search finds it under each filter that shows it.
JournalShows(f, o) ==
  CASE f = "ACTIVE" -> Active(orders[o])
    [] f \in {"TAKEAWAY", "DELIVERY"} -> orders[o].status # "ABSENT" /\ orders[o].orderType = f
    [] f \in {"READY", "COMPLETED", "CANCELLED"} -> orders[o].status = f
    [] f = "ALL" -> orders[o].status # "ABSENT"

OffersOrderAt(t) == FreeTable(t)
OffersItem(o) == Active(orders[o]) /\ Unpaid(o)
OffersEdit(o, i) == Active(orders[o]) /\ i \in Drafts(orders[o])
OffersFewer(o, i) == OffersEdit(o, i) /\ orders[o].items[i].quantity > 1

\* The next status of a line of the Bar, on an order in any state.
NextBarStatus(s) == CASE s = "NEW" -> "PREPARING" [] s = "PREPARING" -> "READY" [] OTHER -> "none"
OffersAdvance(o, i) ==
  /\ i \in Submitted(orders[o]) /\ Route[i] = "BAR"
  /\ NextBarStatus(orders[o].items[i].status) # "none"

OffersAttach(o) == Active(orders[o]) /\ orders[o].orderType = "UNASSIGNED"
OffersAttachTo(o, t) == OffersAttach(o) /\ FreeTable(t)
OffersSend(o) == Drafts(orders[o]) # {} /\ orders[o].orderType # "UNASSIGNED"

OffersAcceptAll(o) ==
  /\ Active(orders[o])
  /\ \E i \in Submitted(orders[o]) : Route[i] = "BAR" /\ orders[o].items[i].status = "NEW"

\* Mutant: what is paid is not handed over.
OffersIssueUnpaid(o) ==
  /\ Active(orders[o]) /\ ~orders[o].issuedAt /\ Unpaid(o)
  /\ Submitted(orders[o]) # {} /\ Drafts(orders[o]) = {}
  /\ \A i \in Submitted(orders[o]) : orders[o].items[i].status = "READY"

OffersIssue(o) ==
  /\ Active(orders[o]) /\ ~orders[o].issuedAt
  /\ Submitted(orders[o]) # {} /\ Drafts(orders[o]) = {}
  /\ \A i \in Submitted(orders[o]) : orders[o].items[i].status = "READY"

\* Mutant: payment is offered for lines that were not sent.
OffersPaymentOfDrafts(o) == Active(orders[o]) /\ Unpaid(o) /\ Lines(orders[o]) # {}

OffersPayment(o) == Active(orders[o]) /\ Unpaid(o) /\ Lines(orders[o]) # {} /\ Drafts(orders[o]) = {}

OffersTransfer(o, t) ==
  /\ Active(orders[o]) /\ orders[o].orderType # "UNASSIGNED"
  /\ FreeTable(t) /\ t # orders[o].tableId

OffersRelease(o) ==
  /\ Active(orders[o]) /\ orders[o].orderType = "TABLE"
  /\ Lines(orders[o]) = {} /\ orders[o].batches = 0

OffersGuests(o) == orders[o].status # "ABSENT" /\ orders[o].orderType = "TABLE"
OffersCancel(o) == Active(orders[o]) /\ Unpaid(o)

-----------------------------------------------------------------------------
(* The Kitchen: the ticket of an order with lines for it, in whichever of   *)
(* its views.                                                               *)

HasTicket(o) == orders[o].status # "ABSENT" /\ KitchenItems(orders[o]) # {}
OffersAcceptPosition(o, i) ==
  HasTicket(o) /\ i \in KitchenItems(orders[o]) /\ orders[o].items[i].status = "NEW"
OffersMarkReady(o, i) ==
  HasTicket(o) /\ i \in KitchenItems(orders[o]) /\ orders[o].items[i].status = "PREPARING"
OffersAcceptTicket(o) == \E i \in Item : OffersAcceptPosition(o, i)
TicketView(o) ==
  CASE TicketInHistory(o) -> "HISTORY"
    [] ~TicketInHistory(o) /\ OffersAcceptTicket(o) -> "NEW"
    [] ~TicketInHistory(o) /\ ~OffersAcceptTicket(o) /\ \E i \in Item : OffersMarkReady(o, i) -> "PREPARING"
    [] OTHER -> "READY"
OffersConfirmReady(o) ==
  /\ HasTicket(o) /\ TicketView(o) = "READY"
  /\ \A i \in KitchenItems(orders[o]) : orders[o].items[i].status = "READY"

-----------------------------------------------------------------------------
(* Properties.                                                              *)

\* No button of an open order that is neither paid nor issued leads to a refusal: what the
\* two screens offer by their own rules, the handlers carry out.
OffersAccepted ==
  /\ \A t \in Table, o \in Order :
       OffersOrderAt(t) /\ orders[o].status = "ABSENT" /\ (\E n \in 1 .. MaxOrderNumber : NextOrderNumber(n))
         => ENABLED CreateOrder(o, "TABLE", t)
  /\ \A o \in Order : Active(orders[o]) /\ Unpaid(o) /\ ~orders[o].issuedAt =>
       /\ \A i \in Item :
            /\ OffersItem(o) /\ i \notin Lines(orders[o]) => ENABLED \E m \in Modifiers : AddItem(o, i, m)
            /\ OffersEdit(o, i) => ENABLED RemoveItem(o, i)
            /\ OffersFewer(o, i) => ENABLED UpdateItemQuantity(o, i, orders[o].items[i].quantity - 1)
            /\ OffersAdvance(o, i) => ENABLED UpdateBarItemStatus(o, i, NextBarStatus(orders[o].items[i].status))
            /\ OffersAcceptPosition(o, i) => ENABLED AcceptPosition(o, i)
            /\ OffersMarkReady(o, i) => ENABLED MarkPositionReady(o, i)
       /\ \A t \in Table :
            /\ OffersAttachTo(o, t) => ENABLED AssignOrder(o, t)
            /\ OffersTransfer(o, t) => ENABLED TransferOrder(o, t)
       /\ OffersAttach(o) => ENABLED AssignOrder(o, NoTable)
       /\ OffersSend(o) /\ orders[o].batches < MaxBatches => ENABLED SendOrder(o)
       /\ OffersAcceptAll(o) => ENABLED AcceptAllSentItems(o)
       /\ OffersIssue(o) => ENABLED IssueReadyOrder(o)
       /\ OffersPayment(o) => ENABLED RecordPayment(o)
       /\ OffersRelease(o) => ENABLED ReleaseTable(o)
       /\ OffersGuests(o) => ENABLED ChangeGuestCount(o)
       /\ OffersCancel(o) => ENABLED CancelOrder(o)
       /\ OffersAcceptTicket(o) => ENABLED AcceptAll(o)
       /\ OffersConfirmReady(o) => ENABLED ConfirmAllReady(o)

\* A paid order can no longer be cancelled, and it never needs to be: until it is completed,
\* the screens offer a step towards its completion, a line to advance or the order to hand
\* over; the order that can be handed over is listed by the journal as ready.
PaidOrdersGoOn ==
  \A o \in Order : Active(orders[o]) /\ ~Unpaid(o) =>
    \/ OffersIssue(o) /\ JournalShows("READY", o)
    \/ \E i \in Item : OffersAdvance(o, i) \/ OffersAcceptPosition(o, i) \/ OffersMarkReady(o, i)
=============================================================================
