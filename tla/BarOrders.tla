------------------------------ MODULE BarOrders ------------------------------
(***************************************************************************)
(* The customer orders of one Coffee project and every handler that        *)
(* changes them: the Bar service (bar-service.ts) and the Kitchen's        *)
(* preparation service (order-preparation/service.ts).  Both load the one  *)
(* order store of the project, decide, and save the whole store back with  *)
(* no timer between load and save, so that within one browser tab a        *)
(* handler is one atomic step.  OrderTabs takes that atomicity away.       *)
(*                                                                         *)
(* Abstractions.  Names, prices, notes, seat counts, timestamps and        *)
(* employees are left out: a timestamp that is set or null is a Boolean.   *)
(* An item is named by its order line; its route is fixed when it is       *)
(* added, so it belongs to the name.  Employees and workspaces pass the    *)
(* access checks.  A handler that throws changes nothing and is no step.   *)
(* The audit log is the set of the facts it holds, so the cut to its 500   *)
(* newest entries is left out.                                             *)
(***************************************************************************)
EXTENDS Naturals, FiniteSets

CONSTANTS
  Order,           \* order identifiers createId() may return
  Item,            \* order-line identifiers of one order
  Route,           \* the preparation workspace of each line
  Table,           \* active tables of the location
  NoTable,         \* tableId = null
  Modifiers,       \* the modifier selections a line may have
  MaxQuantity,     \* 99 in the code
  AuditOperation,  \* the audit operations whose entries the model keeps
  MaxBatches,      \* bound: preparation batches of one order
  MaxOrderNumber   \* bound: order numbers handed out

ASSUME RouteAssumption == Route \in [Item -> {"BAR", "KITCHEN", "IMMEDIATE"}]
ASSUME TableAssumption == NoTable \notin Table
ASSUME ModifiersAssumption == Modifiers # {}
ASSUME BoundAssumption ==
  /\ MaxQuantity \in Nat \ {0}
  /\ MaxBatches \in Nat
  /\ MaxOrderNumber \in Nat

VARIABLES
  orders,  \* the order of each identifier; status "ABSENT" when not stored
  audit    \* the audit facts of the store

vars == <<orders, audit>>

-----------------------------------------------------------------------------
(* The domain.                                                             *)

ItemStatus == {"ABSENT", "DRAFT", "NEW", "PREPARING", "READY"}

OrderStatus ==
  {"ABSENT", "DRAFT", "SENT", "IN_PREPARATION", "READY", "COMPLETED", "CANCELLED"}

\* submittedBatchId = 0 stands for null; batches are numbered in sending order.
ItemRecord ==
  [status : ItemStatus, submittedBatchId : Nat, quantity : Nat,
   modifiers : Modifiers, issuedAt : BOOLEAN]

OrderRecord ==
  [status : OrderStatus, orderType : {"UNASSIGNED", "TABLE", "TAKEAWAY"},
   tableId : Table \cup {NoTable}, orderNumber : Nat,
   paymentStatus : {"UNPAID", "PAID"}, issuedAt : BOOLEAN,
   items : [Item -> ItemRecord], batches : Nat]

AuditEntry == [orderId : Order, operation : AuditOperation]

NoItem ==
  [status |-> "ABSENT", submittedBatchId |-> 0, quantity |-> 0,
   modifiers |-> CHOOSE m \in Modifiers : TRUE, issuedAt |-> FALSE]

NoOrder ==
  [status |-> "ABSENT", orderType |-> "UNASSIGNED", tableId |-> NoTable,
   orderNumber |-> 0, paymentStatus |-> "UNPAID", issuedAt |-> FALSE,
   items |-> [i \in Item |-> NoItem], batches |-> 0]

Terminal == {"COMPLETED", "CANCELLED"}

\* Stored and not terminal: the orders the handlers still accept.
Active(r) == r.status \notin Terminal \cup {"ABSENT"}

\* assertMutable
Mutable(r) == Active(r) /\ r.paymentStatus = "UNPAID"

Lines(r) == {i \in Item : r.items[i].status # "ABSENT"}

Submitted(r) == {i \in Lines(r) : r.items[i].submittedBatchId # 0}

\* findDraftItem
DraftItem(r, i) == r.items[i].status = "DRAFT" /\ r.items[i].submittedBatchId = 0

KitchenItems(r) ==
  {i \in Submitted(r) : Route[i] = "KITCHEN" /\ r.items[i].status # "DRAFT"}

\* The status an order has from its submitted items.
PreparationStatus(r) ==
  CASE Submitted(r) = {} -> "DRAFT"
    [] Submitted(r) # {} /\ \A i \in Submitted(r) : r.items[i].status = "READY" -> "READY"
    [] \E i \in Submitted(r) : r.items[i].status = "PREPARING" -> "IN_PREPARATION"
    [] OTHER -> "SENT"

WithPreparationStatus(r) == [r EXCEPT !.status = PreparationStatus(r)]

\* r with status s given to the items of S.
WithItemStatus(r, S, s) ==
  [r EXCEPT !.items =
     [i \in Item |-> IF i \in S THEN [r.items[i] EXCEPT !.status = s] ELSE r.items[i]]]

\* No active order other than o stands on table t.
TableFree(o, t) == \A p \in Order \ {o} : Active(orders[p]) => orders[p].tableId # t

\* Mutant: numbers count the stored orders.
CountedOrderNumber(n) ==
  n = Cardinality({p \in Order : orders[p].status # "ABSENT"}) + 1

\* n is one more than the highest number of a stored order.
NextOrderNumber(n) ==
  /\ \A p \in Order : orders[p].orderNumber < n
  /\ \E p \in Order : n = orders[p].orderNumber + 1

-----------------------------------------------------------------------------
(* Loading and saving the store.                                           *)

\* Loading the store drops the entries whose operation the reader does not list.
LoadedAudit == {entry \in audit : entry.operation # "ITEMS_ACCEPTED"}

Entries(o, operations) ==
  {[orderId |-> o, operation |-> operation] : operation \in operations \cap AuditOperation}

Save(o, r, operations) ==
  /\ orders' = [orders EXCEPT ![o] = r]
  /\ audit' = LoadedAudit \cup Entries(o, operations)

-----------------------------------------------------------------------------
(* The Bar service.                                                        *)

CreateOrder(o, type, t) ==
  /\ orders[o].status = "ABSENT"
  /\ (type = "TABLE") <=> (t # NoTable)
  /\ t # NoTable => TableFree(o, t)
  /\ \E n \in 1 .. MaxOrderNumber :
       /\ NextOrderNumber(n)
       /\ Save(o, [NoOrder EXCEPT !.status = "DRAFT", !.orderType = type,
                                  !.tableId = t, !.orderNumber = n],
               {"ORDER_CREATED"})

AssignOrder(o, t) ==
  /\ Mutable(orders[o])
  /\ orders[o].orderType = "UNASSIGNED"
  /\ t # NoTable => \A p \in Order : Active(orders[p]) => orders[p].tableId # t
  /\ Save(o, IF t = NoTable
               THEN [orders[o] EXCEPT !.orderType = "TAKEAWAY"]
               ELSE [orders[o] EXCEPT !.orderType = "TABLE", !.tableId = t],
          {"ORDER_ASSIGNED"})

\* The guest count itself is not modelled.
ChangeGuestCount(o) ==
  /\ Mutable(orders[o])
  /\ Save(o, orders[o], {"GUEST_COUNT_CHANGED"})

TransferOrder(o, t) ==
  /\ Mutable(orders[o])
  /\ orders[o].orderType # "UNASSIGNED"
  /\ TableFree(o, t)
  /\ Save(o, [orders[o] EXCEPT !.orderType = "TABLE", !.tableId = t],
          {"ORDER_TRANSFERRED"})

ReleaseTable(o) ==
  /\ orders[o].status = "DRAFT"
  /\ orders[o].orderType = "TABLE"
  /\ Lines(orders[o]) = {}
  /\ orders[o].batches = 0
  /\ Save(o, NoOrder, {"ORDER_RELEASED"})

\* Mutant: a paid order takes new lines.
AddItemToAnyOpenOrder(o, i, m) ==
  /\ Active(orders[o])
  /\ orders[o].items[i].status = "ABSENT"
  /\ Save(o, [orders[o] EXCEPT !.items[i] =
                [NoItem EXCEPT !.status = "DRAFT", !.quantity = 1, !.modifiers = m]],
          {})

AddItem(o, i, m) ==
  /\ Mutable(orders[o])
  /\ orders[o].items[i].status = "ABSENT"
  /\ Save(o, [orders[o] EXCEPT !.items[i] =
                [NoItem EXCEPT !.status = "DRAFT", !.quantity = 1, !.modifiers = m]],
          {})

UpdateItemQuantity(o, i, q) ==
  /\ Mutable(orders[o])
  /\ DraftItem(orders[o], i)
  /\ Save(o, [orders[o] EXCEPT !.items[i].quantity = q], {})

UpdateItemDetails(o, i, m) ==
  /\ Mutable(orders[o])
  /\ DraftItem(orders[o], i)
  /\ Save(o, [orders[o] EXCEPT !.items[i].modifiers = m], {})

RemoveItem(o, i) ==
  /\ Mutable(orders[o])
  /\ DraftItem(orders[o], i)
  /\ Save(o, [orders[o] EXCEPT !.items[i] = NoItem], {})

\* A line sent in batch b; one that nobody has to prepare is ready at once.
SentLine(line, b, route) ==
  [line EXCEPT !.submittedBatchId = b,
               !.status = IF route = "IMMEDIATE" THEN "READY" ELSE "NEW"]

\* r with every draft line in a new batch.
Sent(r) ==
  WithPreparationStatus(
    [r EXCEPT
       !.batches = r.batches + 1,
       !.items = [i \in Item |->
         IF r.items[i].status = "DRAFT"
           THEN SentLine(r.items[i], r.batches + 1, Route[i])
           ELSE r.items[i]]])

SendOrder(o) ==
  /\ Mutable(orders[o])
  /\ orders[o].orderType # "UNASSIGNED"
  /\ \E i \in Item : orders[o].items[i].status = "DRAFT"
  /\ orders[o].batches < MaxBatches
  /\ Save(o, Sent(orders[o]), {"BATCH_SENT"})

\* Mutant: the Bar may take a ready item back.
BarTransitionWithUndo ==
  {<<"NEW", "PREPARING">>, <<"PREPARING", "READY">>, <<"READY", "PREPARING">>}

\* READY -> READY is accepted, and audited, as a repeated command.
BarTransition ==
  {<<"NEW", "PREPARING">>, <<"PREPARING", "READY">>, <<"READY", "READY">>}

UpdateBarItemStatus(o, i, s) ==
  /\ Active(orders[o])
  /\ Route[i] = "BAR"
  /\ <<orders[o].items[i].status, s>> \in BarTransition
  /\ Save(o, WithPreparationStatus(WithItemStatus(orders[o], {i}, s)),
          {"ITEM_STATUS_CHANGED"})

AcceptAllSentItems(o) ==
  LET newItems == {i \in Submitted(orders[o]) :
                     Route[i] = "BAR" /\ orders[o].items[i].status = "NEW"}
  IN  /\ Active(orders[o])
      /\ ~orders[o].issuedAt
      /\ newItems # {}
      /\ Save(o, WithPreparationStatus(WithItemStatus(orders[o], newItems, "PREPARING")),
              {"ITEMS_ACCEPTED"})

\* r handed over to the guest, with the status s.
Issued(r, s) ==
  [r EXCEPT
     !.status = s, !.issuedAt = TRUE,
     !.items = [i \in Item |->
       IF i \in Lines(r) THEN [r.items[i] EXCEPT !.issuedAt = TRUE] ELSE r.items[i]]]

\* Mutant: the status name of an earlier store version.
IssueWithLegacyStatus(o) ==
  LET r == orders[o]
  IN  /\ Active(r)
      /\ ~r.issuedAt
      /\ Submitted(r) # {}
      /\ Submitted(r) = Lines(r)
      /\ \A i \in Submitted(r) : r.items[i].status = "READY"
      /\ Save(o, Issued(r, "ISSUED"), {"ORDER_ISSUED"})

IssueReadyOrder(o) ==
  LET r == orders[o]
      paid == r.paymentStatus = "PAID"
  IN  /\ Active(r)
      /\ ~r.issuedAt
      /\ Submitted(r) # {}
      /\ Submitted(r) = Lines(r)
      /\ \A i \in Submitted(r) : r.items[i].status = "READY"
      /\ Save(o, Issued(r, IF paid THEN "COMPLETED" ELSE "READY"),
              {"ORDER_ISSUED"} \cup (IF paid THEN {"ORDER_COMPLETED"} ELSE {}))

RecordPayment(o) ==
  LET r == orders[o]
  IN  /\ Active(r)
      /\ r.paymentStatus # "PAID"
      /\ Lines(r) # {}
      /\ \A i \in Lines(r) : r.items[i].status # "DRAFT"
      /\ Save(o, [r EXCEPT !.paymentStatus = "PAID",
                           !.status = IF r.issuedAt THEN "COMPLETED" ELSE @],
              {"PAYMENT_RECORDED"} \cup (IF r.issuedAt THEN {"ORDER_COMPLETED"} ELSE {}))

\* Mutant: an unpaid order may be completed.
CompleteUnpaidOrder(o) ==
  LET r == orders[o]
  IN  /\ Active(r)
      /\ Lines(r) # {}
      /\ \A i \in Lines(r) : r.items[i].status = "READY"
      /\ Save(o, Issued(r, "COMPLETED"),
              {"ORDER_COMPLETED"} \cup (IF r.issuedAt THEN {} ELSE {"ORDER_ISSUED"}))

\* Mutant: completion implies issue but does not record it.
CompleteWithoutIssueEntry(o) ==
  LET r == orders[o]
  IN  /\ Active(r)
      /\ r.paymentStatus = "PAID"
      /\ Lines(r) # {}
      /\ \A i \in Lines(r) : r.items[i].status = "READY"
      /\ Save(o, Issued(r, "COMPLETED"), {"ORDER_COMPLETED"})

CompleteOrder(o) ==
  LET r == orders[o]
  IN  /\ Active(r)
      /\ r.paymentStatus = "PAID"
      /\ Lines(r) # {}
      /\ \A i \in Lines(r) : r.items[i].status = "READY"
      /\ Save(o, Issued(r, "COMPLETED"),
              {"ORDER_COMPLETED"} \cup (IF r.issuedAt THEN {} ELSE {"ORDER_ISSUED"}))

\* The reason that submitted items require is data of the request.
CancelOrder(o) ==
  /\ Mutable(orders[o])
  /\ Save(o, [orders[o] EXCEPT !.status = "CANCELLED"], {"ORDER_CANCELLED"})

-----------------------------------------------------------------------------
(* The Kitchen.  A command on a position that is already past it returns   *)
(* without saving.                                                         *)

AcceptPosition(o, i) ==
  /\ Active(orders[o])
  /\ i \in KitchenItems(orders[o])
  /\ orders[o].items[i].status = "NEW"
  /\ Save(o, WithPreparationStatus(WithItemStatus(orders[o], {i}, "PREPARING")),
          {"ACCEPT_POSITION"})

MarkPositionReady(o, i) ==
  /\ Active(orders[o])
  /\ i \in KitchenItems(orders[o])
  /\ orders[o].items[i].status = "PREPARING"
  /\ Save(o, WithPreparationStatus(WithItemStatus(orders[o], {i}, "READY")),
          {"READY_POSITION"})

\* Mutant: the order's status is not recomputed.
AcceptAllKeepingStatus(o) ==
  LET ids == {i \in KitchenItems(orders[o]) : orders[o].items[i].status = "NEW"}
  IN  /\ Active(orders[o])
      /\ ids # {}
      /\ Save(o, WithItemStatus(orders[o], ids, "PREPARING"), {"ACCEPT_ALL"})

AcceptAll(o) ==
  LET ids == {i \in KitchenItems(orders[o]) : orders[o].items[i].status = "NEW"}
  IN  /\ Active(orders[o])
      /\ ids # {}
      /\ Save(o, WithPreparationStatus(WithItemStatus(orders[o], ids, "PREPARING")),
              {"ACCEPT_ALL"})

\* One audit fact per order; the order itself is not touched.
ConfirmAllReady(o) ==
  /\ Active(orders[o])
  /\ KitchenItems(orders[o]) # {}
  /\ \A i \in KitchenItems(orders[o]) : orders[o].items[i].status = "READY"
  /\ [orderId |-> o, operation |-> "READY_ALL"] \notin audit
  /\ Save(o, orders[o], {"READY_ALL"})

-----------------------------------------------------------------------------
Init ==
  /\ orders = [o \in Order |-> NoOrder]
  /\ audit = {}

BarStep(o) ==
  \/ \E t \in Table : \/ CreateOrder(o, "TABLE", t)
                      \/ AssignOrder(o, t)
                      \/ TransferOrder(o, t)
  \/ \E type \in {"UNASSIGNED", "TAKEAWAY"} : CreateOrder(o, type, NoTable)
  \/ AssignOrder(o, NoTable)
  \/ ChangeGuestCount(o)
  \/ ReleaseTable(o)
  \/ \E i \in Item :
       \/ \E m \in Modifiers : AddItem(o, i, m) \/ UpdateItemDetails(o, i, m)
       \/ \E q \in 1 .. MaxQuantity : UpdateItemQuantity(o, i, q)
       \/ RemoveItem(o, i)
       \/ \E s \in {"PREPARING", "READY"} : UpdateBarItemStatus(o, i, s)
  \/ SendOrder(o)
  \/ AcceptAllSentItems(o)
  \/ IssueReadyOrder(o)
  \/ RecordPayment(o)
  \/ CompleteOrder(o)
  \/ CancelOrder(o)

KitchenStep(o) ==
  \/ \E i \in Item : AcceptPosition(o, i) \/ MarkPositionReady(o, i)
  \/ AcceptAll(o)
  \/ ConfirmAllReady(o)

Next == \E o \in Order : BarStep(o) \/ KitchenStep(o)

Spec == Init /\ [][Next]_vars

-----------------------------------------------------------------------------
(* Correctness.                                                            *)

\* The store holds orders and audit facts of the declared shapes.
TypeOK ==
  /\ orders \in [Order -> OrderRecord]
  /\ audit \subseteq AuditEntry

\* The status an active order shows is the one its submitted items give, although
\* the Bar and the Kitchen write it from a dozen handlers and issuing, paying and
\* removing lines do not recompute it.
StatusFollowsItems ==
  \A o \in Order : Active(orders[o]) => orders[o].status = PreparationStatus(orders[o])

\* Creating, assigning and transferring never seat two open orders at one table.
OneOpenOrderPerTable ==
  \A o, p \in Order :
    /\ Active(orders[o]) /\ Active(orders[p])
    /\ orders[o].tableId = orders[p].tableId
    /\ orders[o].tableId # NoTable
    => o = p

\* Two stored orders never carry one number, although a released order gives its
\* number back and the next one is computed from what is stored.
OrderNumbersDiffer ==
  \A o, p \in Order :
    /\ orders[o].status # "ABSENT" /\ orders[p].status # "ABSENT"
    /\ orders[o].orderNumber = orders[p].orderNumber
    => o = p

\* A line belongs to a batch exactly when it is no longer a draft, and to a batch
\* that was sent.
BatchesAgree ==
  \A o \in Order : \A i \in Lines(orders[o]) :
    /\ i \in Submitted(orders[o]) <=> orders[o].items[i].status # "DRAFT"
    /\ orders[o].items[i].submittedBatchId <= orders[o].batches

\* A paid order has lines and all of them were sent, so that each one can still be
\* prepared and the order completed: payment never strands an order.
PaidOrdersCanFinish ==
  \A o \in Order :
    orders[o].paymentStatus = "PAID" =>
      /\ Lines(orders[o]) # {}
      /\ Submitted(orders[o]) = Lines(orders[o])

\* What was handed over was ready, and only an order marked issued handed it over.
IssuedLinesWereReady ==
  \A o \in Order : \A i \in Lines(orders[o]) :
    orders[o].items[i].issuedAt =>
      /\ orders[o].issuedAt
      /\ orders[o].items[i].status = "READY"

\* A completed order was paid and issued, whichever of payment, issue and explicit
\* completion came last.
CompletedOrdersSettled ==
  \A o \in Order :
    orders[o].status = "COMPLETED" =>
      /\ orders[o].paymentStatus = "PAID"
      /\ orders[o].issuedAt

\* The audit log and the orders tell one story about payment, issue, completion and
\* cancellation.
AuditMatchesOrders ==
  \A o \in Order :
    LET Logged(operation) == [orderId |-> o, operation |-> operation] \in audit
    IN  /\ Logged("PAYMENT_RECORDED") <=> orders[o].paymentStatus = "PAID"
        /\ Logged("ORDER_ISSUED") <=> orders[o].issuedAt
        /\ Logged("ORDER_COMPLETED") <=> orders[o].status = "COMPLETED"
        /\ Logged("ORDER_CANCELLED") <=> orders[o].status = "CANCELLED"

\* What a paid order is charged for: its lines, with quantity and modifiers.
Bill(r) == [i \in Lines(r) |-> <<r.items[i].quantity, r.items[i].modifiers>>]

\* Nothing changes what an order was paid for, whatever is prepared, issued or
\* completed afterwards.
PaidBillFrozen ==
  [][\A o \in Order :
       orders[o].paymentStatus = "PAID" => Bill(orders'[o]) = Bill(orders[o])]_vars

\* The statuses a submitted line may still take.
Ahead(s) ==
  CASE s = "NEW" -> {"NEW", "PREPARING", "READY"}
    [] s = "PREPARING" -> {"PREPARING", "READY"}
    [] OTHER -> {s}

\* A submitted line keeps its batch, quantity and modifiers, is never taken off the
\* order and never falls back to an earlier stage.
SubmittedLinesOnlyAdvance ==
  [][\A o \in Order : \A i \in Submitted(orders[o]) :
       LET old == orders[o].items[i]
           new == orders'[o].items[i]
       IN  /\ new.status \in Ahead(old.status)
           /\ new.submittedBatchId = old.submittedBatchId
           /\ new.quantity = old.quantity
           /\ new.modifiers = old.modifiers]_vars

\* A completed or cancelled order never changes again: neither workspace touches it.
TerminalOrdersFinal ==
  [][\A o \in Order :
       orders[o].status \in Terminal => orders'[o] = orders[o]]_vars

-----------------------------------------------------------------------------
(* Statements of the repository that the code does not keep.               *)

\* "requires every item ready and payment before completion", bar-service.test.ts.
\* Paying an issued order completes it, with whatever was added since.
CompletedOrdersReady ==
  \A o \in Order :
    orders[o].status = "COMPLETED" =>
      \A i \in Lines(orders[o]) : orders[o].items[i].status = "READY"

\* The Kitchen screen files a ticket under its history when the order is over or
\* READY_ALL was recorded for it.
TicketInHistory(o) ==
  ~Active(orders[o]) \/ [orderId |-> o, operation |-> "READY_ALL"] \in audit

\* "Only submitted, non-cancelled positions with the configured route KITCHEN enter
\* the queue", kitchen-operational-module.md: an open order's unfinished positions
\* are in one of the working views, not in the history.
UnfinishedPositionsQueued ==
  \A o \in Order :
    Active(orders[o]) /\ (\E i \in KitchenItems(orders[o]) : orders[o].items[i].status # "READY")
      => ~TicketInHistory(o)

\* An accepted batch leaves its audit entry behind (bar-service.test.ts expects one
\* ITEMS_ACCEPTED entry): no later write of the store takes an entry out.
AuditEntriesStay == [][audit \subseteq audit']_vars
=============================================================================
