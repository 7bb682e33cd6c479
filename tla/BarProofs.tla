------------------------------ MODULE BarProofs ------------------------------
(***************************************************************************)
(* The properties of the Bar, proved for every set of orders, lines,       *)
(* tables and modifiers and for every route.                               *)
(*                                                                         *)
(* The argument about orders has three layers.  RecordInv is the inductive *)
(* invariant of one order, and the first lemmas show that each             *)
(* transformation of an order keeps it, with what it leaves of the         *)
(* submitted lines.  StepTo lifts this to the store: whatever a handler    *)
(* does, it replaces one open or absent order by a successor of it.  The   *)
(* theorems then look at StepTo only, never at a handler; those about the  *)
(* audit look at what a handler records besides.                           *)
(*                                                                         *)
(* What surrounds the orders follows from their invariant: the stock that  *)
(* is taken when an order is completed, what the screens offer for a paid  *)
(* order, and the dialog in which the options of a line are chosen.        *)
(***************************************************************************)
EXTENDS OrderCompletion, BarScreen, ModifierDialog, FiniteSetTheorems, TLAPS


\* The lines of an order know their batch, and what was issued was ready.
LinesConsistent(r) ==
  \A i \in Lines(r) :
    /\ i \in Submitted(r) <=> r.items[i].status # "DRAFT"
    /\ r.items[i].submittedBatchId <= r.batches
    /\ r.items[i].issuedAt => r.issuedAt /\ r.items[i].status = "READY"
    /\ i \in Submitted(r) /\ Route[i] = "IMMEDIATE" => r.items[i].status = "READY"

\* The inductive invariant of one order. The status of an absent order tells its
\* whole record, so that the identifier of a released order starts afresh.
RecordInv(r) ==
  /\ r \in OrderRecord
  /\ r.status = "ABSENT" => r = NoOrder
  /\ Active(r) => r.status = PreparationStatus(r)
  /\ LinesConsistent(r)
  /\ r.paymentStatus = "PAID" => Lines(r) # {} /\ Submitted(r) = Lines(r)
  /\ r.status = "COMPLETED" <=> r.paymentStatus = "PAID" /\ r.issuedAt
  /\ r.issuedAt => Submitted(r) # {}

\* What a handler may do to the lines of the order r it replaces by new.
LinesKept(r, new) ==
  /\ r.paymentStatus = "PAID" => Lines(new) = Lines(r)
  /\ \A i \in Submitted(r) :
       /\ new.items[i].status \in Ahead(r.items[i].status)
       /\ new.items[i].submittedBatchId = r.items[i].submittedBatchId
       /\ new.items[i].quantity = r.items[i].quantity
       /\ new.items[i].modifiers = r.items[i].modifiers

\* new is r after a handler that leaves the table to itself.
Successor(r, new) ==
  /\ RecordInv(new)
  /\ LinesKept(r, new)
  /\ new.tableId = r.tableId
  /\ new.orderNumber = r.orderNumber

\* What sending does to a line (sendOrder).
LEMMA SentLineFacts ==
  ASSUME NEW line \in ItemRecord, NEW b \in Nat, NEW route
  PROVE  /\ SentLine(line, b, route) \in ItemRecord
         /\ SentLine(line, b, route).submittedBatchId = b
         /\ SentLine(line, b, route).status =
              IF route = "IMMEDIATE" THEN "READY" ELSE "NEW"
         /\ SentLine(line, b, route).quantity = line.quantity
         /\ SentLine(line, b, route).modifiers = line.modifiers
         /\ SentLine(line, b, route).issuedAt = line.issuedAt
BY DEF SentLine, ItemRecord, ItemStatus

\* preparationStatus never completes, cancels or removes an order.
LEMMA PreparationStatusOpen ==
  ASSUME NEW r
  PROVE  PreparationStatus(r) \in OrderStatus \ (Terminal \cup {"ABSENT"})
BY DEF PreparationStatus, OrderStatus, Terminal

\* Recomputing the status changes nothing else, and settles it.
LEMMA RecomputedStatus ==
  ASSUME NEW r \in OrderRecord
  PROVE  LET new == WithPreparationStatus(r)
         IN  /\ new \in OrderRecord
             /\ new.status = PreparationStatus(new)
             /\ Active(new)
             /\ new.items = r.items
             /\ new.batches = r.batches
             /\ new.paymentStatus = r.paymentStatus
             /\ new.issuedAt = r.issuedAt
             /\ new.tableId = r.tableId
             /\ new.orderNumber = r.orderNumber
             /\ Lines(new) = Lines(r)
             /\ Submitted(new) = Submitted(r)
<1> DEFINE new == WithPreparationStatus(r)
<1>1. new \in OrderRecord /\ new.status = PreparationStatus(r)
  BY PreparationStatusOpen DEF WithPreparationStatus, OrderRecord
<1>2. /\ new.items = r.items
      /\ new.batches = r.batches
      /\ new.paymentStatus = r.paymentStatus
      /\ new.issuedAt = r.issuedAt
      /\ new.tableId = r.tableId
      /\ new.orderNumber = r.orderNumber
  BY DEF WithPreparationStatus, OrderRecord
<1>3. Lines(new) = Lines(r) /\ Submitted(new) = Submitted(r)
  BY <1>2 DEF Lines, Submitted
<1>4. PreparationStatus(new) = PreparationStatus(r)
  BY <1>2, <1>3 DEF PreparationStatus
<1> QED
  BY <1>1, <1>2, <1>3, <1>4, PreparationStatusOpen DEF Active

\* An order whose lines are consistent has the invariant once its status is recomputed.
LEMMA RecomputedInv ==
  ASSUME NEW r \in OrderRecord, LinesConsistent(r),
         r.paymentStatus = "PAID" => Lines(r) # {} /\ Submitted(r) = Lines(r),
         r.issuedAt => Submitted(r) # {} /\ r.paymentStatus # "PAID"
  PROVE  LET new == WithPreparationStatus(r)
         IN  /\ RecordInv(new)
             /\ new.items = r.items
             /\ Lines(new) = Lines(r)
             /\ new.tableId = r.tableId
             /\ new.orderNumber = r.orderNumber
<1> DEFINE new == WithPreparationStatus(r)
<1>1. /\ new \in OrderRecord
      /\ new.status = PreparationStatus(new)
      /\ Active(new)
      /\ new.items = r.items
      /\ new.batches = r.batches
      /\ new.paymentStatus = r.paymentStatus
      /\ new.issuedAt = r.issuedAt
      /\ new.tableId = r.tableId
      /\ new.orderNumber = r.orderNumber
      /\ Lines(new) = Lines(r)
      /\ Submitted(new) = Submitted(r)
  BY RecomputedStatus
<1> HIDE DEF new
<1>2. LinesConsistent(new)
  BY <1>1 DEF LinesConsistent
<1>3. new.status \notin {"COMPLETED", "ABSENT"}
  BY <1>1 DEF Active, Terminal
<1>4. RecordInv(new)
  BY <1>1, <1>2, <1>3 DEF RecordInv
<1> QED
  BY <1>1, <1>4 DEF new

\* Sending the draft lines of an order.
LEMMA SentPreserves ==
  ASSUME NEW r, RecordInv(r), Mutable(r)
  PROVE  Successor(r, Sent(r))
<1> DEFINE newItem(i) == SentLine(r.items[i], r.batches + 1, Route[i])
           items == [i \in Item |->
         IF r.items[i].status = "DRAFT" THEN newItem(i) ELSE r.items[i]]
           u == [r EXCEPT !.batches = r.batches + 1, !.items = items]
<1>1. r \in OrderRecord /\ r.items \in [Item -> ItemRecord] /\ r.batches \in Nat
  BY DEF RecordInv, OrderRecord
<1>2. ASSUME NEW i \in Item
      PROVE  /\ newItem(i) \in ItemRecord
             /\ newItem(i).submittedBatchId = r.batches + 1
             /\ newItem(i).status = IF Route[i] = "IMMEDIATE" THEN "READY" ELSE "NEW"
             /\ newItem(i).issuedAt = r.items[i].issuedAt
  <2>1. r.items[i] \in ItemRecord /\ r.batches + 1 \in Nat
    BY <1>1
  <2> QED BY <2>1, SentLineFacts
<1> HIDE DEF newItem
<1>3. items \in [Item -> ItemRecord]
  BY <1>1, <1>2
<1> HIDE DEF items
<1>4. /\ u \in OrderRecord
      /\ u.items = items
      /\ u.batches = r.batches + 1
      /\ u.paymentStatus = r.paymentStatus
      /\ u.issuedAt = r.issuedAt
      /\ u.tableId = r.tableId
      /\ u.orderNumber = r.orderNumber
  <2> r.batches + 1 \in Nat
    BY <1>1
  <2> DEFINE b == r.batches + 1
  <2> HIDE DEF b
  <2> QED BY <1>1, <1>3 DEF OrderRecord, b
<1>5. Sent(r) = WithPreparationStatus(u)
  BY <1>1 DEF Sent, newItem, items
<1> HIDE DEF u
<1>6. Lines(u) = Lines(r)
  BY <1>1, <1>2, <1>4 DEF Lines, items
<1>7. LinesConsistent(u)
  <2> SUFFICES ASSUME NEW i \in Lines(u)
      PROVE  /\ i \in Submitted(u) <=> u.items[i].status # "DRAFT"
             /\ u.items[i].submittedBatchId <= u.batches
             /\ u.items[i].issuedAt => u.issuedAt /\ u.items[i].status = "READY"
             /\ i \in Submitted(u) /\ Route[i] = "IMMEDIATE" => u.items[i].status = "READY"
    BY DEF LinesConsistent
  <2>1. i \in Lines(r) /\ i \in Item /\ r.items[i] \in ItemRecord
    BY <1>1, <1>6 DEF Lines
  <2>2. /\ i \in Submitted(r) <=> r.items[i].status # "DRAFT"
        /\ r.items[i].submittedBatchId <= r.batches
        /\ r.items[i].issuedAt => r.issuedAt /\ r.items[i].status = "READY"
        /\ i \in Submitted(r) /\ Route[i] = "IMMEDIATE" => r.items[i].status = "READY"
    BY <2>1 DEF RecordInv, LinesConsistent
  <2>3. CASE r.items[i].status = "DRAFT"
    <3>1. u.items[i] = newItem(i)
      BY <2>1, <2>3, <1>4 DEF items
    <3> QED
      BY <3>1, <1>1, <1>2, <1>4, <2>1, <2>2, <2>3 DEF Submitted
  <2>4. CASE r.items[i].status # "DRAFT"
    <3>1. u.items[i] = r.items[i]
      BY <2>1, <2>4, <1>4 DEF items
    <3> QED
      BY <3>1, <1>1, <1>4, <1>6, <2>1, <2>2, <2>4 DEF Submitted, ItemRecord
  <2> QED BY <2>3, <2>4
<1>8. LinesKept(r, u)
  <2>1. r.paymentStatus # "PAID"
    BY DEF Mutable
  <2>2. \A i \in Submitted(r) : i \in Item /\ u.items[i] = r.items[i]
    BY <1>1, <1>4 DEF RecordInv, LinesConsistent, Submitted, Lines, items
  <2> QED
    BY <2>1, <2>2 DEF LinesKept, Ahead
<1>9. u.paymentStatus # "PAID" /\ (u.issuedAt => Submitted(u) # {})
  <2>1. Submitted(r) \subseteq Submitted(u)
    BY <1>1, <1>4, <1>6 DEF RecordInv, LinesConsistent, Submitted, Lines, items
  <2> QED
    BY <1>4, <2>1 DEF Mutable, RecordInv
<1> DEFINE new == WithPreparationStatus(u)
<1>10. /\ RecordInv(new)
       /\ new.items = u.items
       /\ Lines(new) = Lines(u)
       /\ new.tableId = u.tableId
       /\ new.orderNumber = u.orderNumber
  BY <1>4, <1>7, <1>9, RecomputedInv
<1> HIDE DEF new
<1>11. Successor(r, new)
  BY <1>4, <1>8, <1>10 DEF Successor, LinesKept
<1> QED
  BY <1>5, <1>11 DEF new

\* An identifier that is not stored.
LEMMA NoOrderInv == RecordInv(NoOrder)
<1>1. NoItem \in ItemRecord
  BY ModifiersAssumption DEF NoItem, ItemRecord, ItemStatus
<1>2. NoOrder \in OrderRecord
  BY <1>1 DEF NoOrder, OrderRecord, OrderStatus
<1>3. Lines(NoOrder) = {}
  BY DEF Lines, NoOrder, NoItem
<1>4. /\ ~Active(NoOrder)
      /\ NoOrder.paymentStatus = "UNPAID"
      /\ ~NoOrder.issuedAt
      /\ NoOrder.status = "ABSENT"
  BY DEF NoOrder, Active, Terminal
<1> QED
  BY <1>2, <1>3, <1>4 DEF RecordInv, LinesConsistent

\* A new order.
LEMMA CreatedOrderInv ==
  ASSUME NEW type \in {"UNASSIGNED", "TABLE", "TAKEAWAY"},
         NEW t \in Table \cup {NoTable}, NEW n \in Nat
  PROVE  RecordInv([NoOrder EXCEPT !.status = "DRAFT", !.orderType = type,
                                   !.tableId = t, !.orderNumber = n])
<1> DEFINE new == [NoOrder EXCEPT !.status = "DRAFT", !.orderType = type,
                                  !.tableId = t, !.orderNumber = n]
<1>1. NoOrder \in OrderRecord
  BY NoOrderInv DEF RecordInv
<1>2. new \in OrderRecord
  BY <1>1 DEF OrderRecord, OrderStatus
<1>3. Lines(new) = {}
  BY DEF Lines, NoOrder, NoItem
<1>4. new.paymentStatus = "UNPAID" /\ new.status = "DRAFT" /\ ~new.issuedAt
  BY DEF NoOrder
<1> HIDE DEF new
<1>5. Submitted(new) = {}
  BY <1>3 DEF Submitted
<1>6. new.status = PreparationStatus(new)
  BY <1>4, <1>5 DEF PreparationStatus
<1>7. RecordInv(new)
  BY <1>2, <1>3, <1>4, <1>6 DEF RecordInv, LinesConsistent
<1> QED
  BY <1>7 DEF new

\* Assigning and transferring an order.
LEMMA SeatingPreserves ==
  ASSUME NEW r, RecordInv(r), Active(r),
         NEW type \in {"UNASSIGNED", "TABLE", "TAKEAWAY"},
         NEW t \in Table \cup {NoTable}
  PROVE  LET new == [r EXCEPT !.orderType = type, !.tableId = t]
         IN  /\ RecordInv(new)
             /\ LinesKept(r, new)
             /\ new.tableId = t
             /\ new.orderNumber = r.orderNumber
<1> DEFINE new == [r EXCEPT !.orderType = type, !.tableId = t]
<1>1. r \in OrderRecord
  BY DEF RecordInv
<1>2. new \in OrderRecord
  BY <1>1 DEF OrderRecord
<1>3. /\ new.items = r.items
      /\ new.status = r.status
      /\ new.batches = r.batches
      /\ new.paymentStatus = r.paymentStatus
      /\ new.issuedAt = r.issuedAt
      /\ new.tableId = t
      /\ new.orderNumber = r.orderNumber
  BY <1>1 DEF OrderRecord
<1> HIDE DEF new
<1>4. /\ Lines(new) = Lines(r)
      /\ Submitted(new) = Submitted(r)
      /\ PreparationStatus(new) = PreparationStatus(r)
  BY <1>3 DEF Lines, Submitted, PreparationStatus
<1>5. RecordInv(new)
  BY <1>2, <1>3, <1>4 DEF RecordInv, LinesConsistent, Active
<1>6. LinesKept(r, new)
  BY <1>3, <1>4 DEF LinesKept, Ahead
<1> QED
  BY <1>3, <1>5, <1>6 DEF new

\* Adding, editing or removing a draft line of an unpaid order.
LEMMA DraftLinePreserves ==
  ASSUME NEW r, RecordInv(r), Mutable(r), NEW i \in Item,
         r.items[i].status \in {"ABSENT", "DRAFT"},
         NEW it \in ItemRecord,
         it.status \in {"ABSENT", "DRAFT"}, it.submittedBatchId = 0, ~it.issuedAt
  PROVE  Successor(r, [r EXCEPT !.items[i] = it])
<1> DEFINE new == [r EXCEPT !.items[i] = it]
<1>1. r \in OrderRecord
  BY DEF RecordInv
<1>2. /\ new \in OrderRecord
      /\ new.items = [r.items EXCEPT ![i] = it]
      /\ new.status = r.status
      /\ new.batches = r.batches
      /\ new.paymentStatus = r.paymentStatus
      /\ new.issuedAt = r.issuedAt
      /\ new.tableId = r.tableId
      /\ new.orderNumber = r.orderNumber
  BY <1>1 DEF OrderRecord
<1>3. r.items \in [Item -> ItemRecord] /\ r.batches \in Nat
  BY <1>1 DEF OrderRecord
<1> HIDE DEF new
<1>4. i \notin Submitted(r)
  BY DEF RecordInv, LinesConsistent, Submitted, Lines
<1>5. Submitted(new) = Submitted(r)
  BY <1>2, <1>3, <1>4 DEF Submitted, Lines
<1>6. \A j \in Submitted(r) : new.items[j] = r.items[j]
  BY <1>2, <1>3, <1>4 DEF Submitted, Lines
<1>7. PreparationStatus(new) = PreparationStatus(r)
  BY <1>5, <1>6 DEF PreparationStatus
<1>8. LinesConsistent(new)
  BY <1>2, <1>3, <1>4, <1>5 DEF RecordInv, LinesConsistent, Lines
<1>9. new.paymentStatus # "PAID" /\ new.status \notin {"COMPLETED", "ABSENT"}
  BY <1>2 DEF Mutable, Active, Terminal
<1>10. RecordInv(new)
  BY <1>2, <1>5, <1>7, <1>8, <1>9 DEF RecordInv, Active
<1>11. LinesKept(r, new)
  BY <1>6 DEF LinesKept, Ahead, Mutable
<1> QED
  BY <1>2, <1>10, <1>11 DEF new, Successor

\* Every preparation command of the Bar and of the Kitchen.
LEMMA ItemStatusPreserves ==
  ASSUME NEW r, RecordInv(r), Active(r), NEW S \in SUBSET Submitted(r),
         NEW s \in {"PREPARING", "READY"},
         \A i \in S : s \in Ahead(r.items[i].status)
  PROVE  Successor(r, WithPreparationStatus(WithItemStatus(r, S, s)))
<1> DEFINE newItem(i) == [r.items[i] EXCEPT !.status = s]
           items == [i \in Item |-> IF i \in S THEN newItem(i) ELSE r.items[i]]
           u == [r EXCEPT !.items = items]
<1>1. r \in OrderRecord /\ r.items \in [Item -> ItemRecord] /\ r.batches \in Nat
  BY DEF RecordInv, OrderRecord
<1>2. ASSUME NEW i \in Item
      PROVE  /\ newItem(i) \in ItemRecord
             /\ newItem(i).status = s
             /\ newItem(i).submittedBatchId = r.items[i].submittedBatchId
             /\ newItem(i).issuedAt = r.items[i].issuedAt
             /\ newItem(i).quantity = r.items[i].quantity
             /\ newItem(i).modifiers = r.items[i].modifiers
  <2>1. r.items[i] \in ItemRecord
    BY <1>1
  <2> QED BY <2>1 DEF ItemRecord, ItemStatus
<1>3. u = WithItemStatus(r, S, s)
  BY DEF WithItemStatus
<1> HIDE DEF newItem
<1>4. items \in [Item -> ItemRecord]
  BY <1>1, <1>2
<1> HIDE DEF items
<1>5. /\ u \in OrderRecord
      /\ u.items = items
      /\ u.batches = r.batches
      /\ u.paymentStatus = r.paymentStatus
      /\ u.issuedAt = r.issuedAt
      /\ u.tableId = r.tableId
      /\ u.orderNumber = r.orderNumber
  BY <1>1, <1>4 DEF OrderRecord
<1> HIDE DEF u
<1>6. S \subseteq Lines(r) /\ S \subseteq Item
  BY DEF Submitted, Lines
<1>7. Lines(u) = Lines(r)
  BY <1>1, <1>2, <1>5, <1>6 DEF Lines, items
<1>8. Submitted(u) = Submitted(r)
  BY <1>1, <1>2, <1>5, <1>7 DEF Submitted, Lines, items
<1>9. LinesConsistent(u)
  <2> SUFFICES ASSUME NEW i \in Lines(u)
      PROVE  /\ i \in Submitted(u) <=> u.items[i].status # "DRAFT"
             /\ u.items[i].submittedBatchId <= u.batches
             /\ u.items[i].issuedAt => u.issuedAt /\ u.items[i].status = "READY"
             /\ i \in Submitted(u) /\ Route[i] = "IMMEDIATE" => u.items[i].status = "READY"
    BY DEF LinesConsistent
  <2>1. i \in Lines(r) /\ i \in Item /\ r.items[i] \in ItemRecord
    BY <1>1, <1>7 DEF Lines
  <2>2. /\ i \in Submitted(r) <=> r.items[i].status # "DRAFT"
        /\ r.items[i].submittedBatchId <= r.batches
        /\ r.items[i].issuedAt => r.issuedAt /\ r.items[i].status = "READY"
        /\ i \in Submitted(r) /\ Route[i] = "IMMEDIATE" => r.items[i].status = "READY"
    BY <2>1 DEF RecordInv, LinesConsistent
  <2>3. CASE i \in S
    <3>1. u.items[i] = newItem(i)
      BY <2>1, <2>3, <1>5 DEF items
    <3> QED
      BY <3>1, <1>2, <1>5, <1>8, <2>1, <2>2, <2>3 DEF Ahead
  <2>4. CASE i \notin S
    <3>1. u.items[i] = r.items[i]
      BY <2>1, <2>4, <1>5 DEF items
    <3> QED
      BY <3>1, <1>5, <1>8, <2>2
  <2> QED BY <2>3, <2>4
<1>10. LinesKept(r, u)
  <2>1. ASSUME NEW i \in Submitted(r)
        PROVE  /\ u.items[i].status \in Ahead(r.items[i].status)
               /\ u.items[i].submittedBatchId = r.items[i].submittedBatchId
               /\ u.items[i].quantity = r.items[i].quantity
               /\ u.items[i].modifiers = r.items[i].modifiers
    <3>1. i \in Item
      BY DEF Submitted, Lines
    <3>2. CASE i \in S
      BY <3>1, <3>2, <1>2, <1>5 DEF items
    <3>3. CASE i \notin S
      <4>1. u.items[i] = r.items[i]
        BY <3>1, <3>3, <1>5 DEF items
      <4> QED BY <4>1 DEF Ahead
    <3> QED BY <3>2, <3>3
  <2> QED BY <2>1, <1>7 DEF LinesKept
<1> DEFINE new == WithPreparationStatus(u)
<1>11. /\ RecordInv(new)
       /\ new.items = u.items
       /\ Lines(new) = Lines(u)
       /\ new.tableId = u.tableId
       /\ new.orderNumber = u.orderNumber
  BY <1>5, <1>7, <1>8, <1>9, RecomputedInv DEF RecordInv, Active, Terminal
<1> HIDE DEF new
<1>12. Successor(r, new)
  BY <1>5, <1>10, <1>11 DEF Successor, LinesKept
<1> QED
  BY <1>3, <1>12 DEF new

\* Handing over an order all of whose lines are ready.
LEMMA IssuedPreserves ==
  ASSUME NEW r, RecordInv(r), Active(r),
         Submitted(r) # {}, Submitted(r) = Lines(r),
         \A i \in Submitted(r) : r.items[i].status = "READY",
         NEW s, s = IF r.paymentStatus = "PAID" THEN "COMPLETED" ELSE "READY"
  PROVE  Successor(r, Issued(r, s))
<1> DEFINE newItem(i) == [r.items[i] EXCEPT !.issuedAt = TRUE]
           items == [i \in Item |-> IF i \in Lines(r) THEN newItem(i) ELSE r.items[i]]
           u == [r EXCEPT !.status = s, !.issuedAt = TRUE, !.items = items]
<1>1. r \in OrderRecord /\ r.items \in [Item -> ItemRecord] /\ r.batches \in Nat
  BY DEF RecordInv, OrderRecord
<1>2. ASSUME NEW i \in Item
      PROVE  /\ newItem(i) \in ItemRecord
             /\ newItem(i).status = r.items[i].status
             /\ newItem(i).submittedBatchId = r.items[i].submittedBatchId
             /\ newItem(i).quantity = r.items[i].quantity
             /\ newItem(i).modifiers = r.items[i].modifiers
  <2>1. r.items[i] \in ItemRecord
    BY <1>1
  <2> QED BY <2>1 DEF ItemRecord
<1>3. u = Issued(r, s)
  BY DEF Issued
<1> HIDE DEF newItem
<1>4. items \in [Item -> ItemRecord]
  BY <1>1, <1>2
<1> HIDE DEF items
<1>5. /\ u \in OrderRecord
      /\ u.items = items
      /\ u.status = s
      /\ u.batches = r.batches
      /\ u.paymentStatus = r.paymentStatus
      /\ u.issuedAt = TRUE
      /\ u.tableId = r.tableId
      /\ u.orderNumber = r.orderNumber
  BY <1>1, <1>4 DEF OrderRecord, OrderStatus
<1> HIDE DEF u
<1>6. \A i \in Item : /\ u.items[i].status = r.items[i].status
                      /\ u.items[i].submittedBatchId = r.items[i].submittedBatchId
                      /\ u.items[i].quantity = r.items[i].quantity
                      /\ u.items[i].modifiers = r.items[i].modifiers
  BY <1>2, <1>5 DEF items
<1>7. Lines(u) = Lines(r) /\ Submitted(u) = Submitted(r)
  BY <1>6 DEF Lines, Submitted
<1>8. \A i \in Lines(u) : i \in Item /\ u.items[i].status = "READY"
  BY <1>6, <1>7 DEF Lines
<1>9. PreparationStatus(u) = "READY"
  BY <1>7, <1>8 DEF PreparationStatus
<1>10. LinesConsistent(u)
  BY <1>5, <1>6, <1>7, <1>8 DEF RecordInv, LinesConsistent
<1>11. RecordInv(u)
  BY <1>5, <1>7, <1>9, <1>10 DEF RecordInv, Active, Terminal
<1>12. LinesKept(r, u)
  BY <1>6, <1>7 DEF LinesKept, Ahead, Submitted, Lines
<1> QED
  BY <1>3, <1>5, <1>11, <1>12 DEF Successor

\* Recording the payment, which completes an issued order.
LEMMA PaymentPreserves ==
  ASSUME NEW r, RecordInv(r), Active(r), Lines(r) # {},
         \A i \in Lines(r) : r.items[i].status # "DRAFT",
         NEW s, s = IF r.issuedAt THEN "COMPLETED" ELSE r.status
  PROVE  Successor(r, [r EXCEPT !.paymentStatus = "PAID", !.status = s])
<1> DEFINE new == [r EXCEPT !.paymentStatus = "PAID", !.status = s]
<1>1. r \in OrderRecord
  BY DEF RecordInv
<1>2. /\ new \in OrderRecord
      /\ new.items = r.items
      /\ new.status = s
      /\ new.batches = r.batches
      /\ new.paymentStatus = "PAID"
      /\ new.issuedAt = r.issuedAt
      /\ new.tableId = r.tableId
      /\ new.orderNumber = r.orderNumber
  BY <1>1 DEF OrderRecord, OrderStatus
<1> HIDE DEF new
<1>3. /\ Lines(new) = Lines(r)
      /\ Submitted(new) = Submitted(r)
      /\ PreparationStatus(new) = PreparationStatus(r)
  BY <1>2 DEF Lines, Submitted, PreparationStatus
<1>4. Submitted(r) = Lines(r)
  BY DEF RecordInv, LinesConsistent, Submitted
<1>5. LinesConsistent(new)
  BY <1>2, <1>3 DEF RecordInv, LinesConsistent
<1>6. RecordInv(new)
  BY <1>1, <1>2, <1>3, <1>4, <1>5 DEF RecordInv, Active, Terminal
<1>7. LinesKept(r, new)
  BY <1>2, <1>3 DEF LinesKept, Ahead
<1> QED
  BY <1>2, <1>6, <1>7 DEF new, Successor

\* Cancelling an unpaid order.
LEMMA CancelPreserves ==
  ASSUME NEW r, RecordInv(r), Mutable(r)
  PROVE  Successor(r, [r EXCEPT !.status = "CANCELLED"])
<1> DEFINE new == [r EXCEPT !.status = "CANCELLED"]
<1>1. r \in OrderRecord
  BY DEF RecordInv
<1>2. /\ new \in OrderRecord
      /\ new.items = r.items
      /\ new.status = "CANCELLED"
      /\ new.batches = r.batches
      /\ new.paymentStatus = r.paymentStatus
      /\ new.issuedAt = r.issuedAt
      /\ new.tableId = r.tableId
      /\ new.orderNumber = r.orderNumber
  BY <1>1 DEF OrderRecord, OrderStatus
<1> HIDE DEF new
<1>3. Lines(new) = Lines(r) /\ Submitted(new) = Submitted(r)
  BY <1>2 DEF Lines, Submitted
<1>4. RecordInv(new)
  BY <1>2, <1>3 DEF RecordInv, LinesConsistent, Mutable, Active, Terminal
<1>5. LinesKept(r, new)
  BY <1>2, <1>3 DEF LinesKept, Ahead
<1> QED
  BY <1>2, <1>4, <1>5 DEF new, Successor

\* The inductive invariant of the store.
IInv ==
  /\ TypeOK
  /\ \A o \in Order : RecordInv(orders[o])

\* r may take the place of order o in one step of the store.
StepTo(o, r) ==
  /\ orders[o].status \notin Terminal
  /\ RecordInv(r)
  /\ LinesKept(orders[o], r)
  /\ Active(r) /\ r.tableId # NoTable =>
       \/ TableFree(o, r.tableId)
       \/ Active(orders[o]) /\ r.tableId = orders[o].tableId
  /\ r.status # "ABSENT" =>
       \/ NextOrderNumber(r.orderNumber)
       \/ orders[o].status # "ABSENT" /\ r.orderNumber = orders[o].orderNumber

\* A successor of an open order is a step of the store.
LEMMA SuccessorStep ==
  ASSUME NEW o \in Order, Active(orders[o]), NEW r, Successor(orders[o], r)
  PROVE  StepTo(o, r)
BY DEF Successor, StepTo, Active

\* A handler that writes the order back as it is.
LEMMA SameSuccessor ==
  ASSUME NEW r, RecordInv(r)
  PROVE  Successor(r, r)
BY DEF Successor, LinesKept, Ahead

\* Editing a draft line.
LEMMA DraftLineStep ==
  ASSUME NEW o \in Order, RecordInv(orders[o]), Mutable(orders[o]), NEW i \in Item,
         DraftItem(orders[o], i), NEW it \in ItemRecord,
         it.status = "DRAFT", it.submittedBatchId = 0,
         it.issuedAt = orders[o].items[i].issuedAt
  PROVE  StepTo(o, [orders[o] EXCEPT !.items[i] = it])
<1>1. ~it.issuedAt
  BY DEF RecordInv, LinesConsistent, Lines, DraftItem
<1>2. Successor(orders[o], [orders[o] EXCEPT !.items[i] = it])
  BY <1>1, DraftLinePreserves DEF DraftItem
<1> QED
  BY <1>2, SuccessorStep DEF Mutable

\* A preparation command on lines that were sent.
LEMMA PreparationStep ==
  ASSUME NEW o \in Order, RecordInv(orders[o]), Active(orders[o]),
         NEW S, NEW s \in {"PREPARING", "READY"},
         \A i \in S : /\ i \in Item
                      /\ orders[o].items[i].status \notin {"ABSENT", "DRAFT"}
                      /\ s \in Ahead(orders[o].items[i].status)
  PROVE  StepTo(o, WithPreparationStatus(WithItemStatus(orders[o], S, s)))
<1>1. S \in SUBSET Submitted(orders[o])
  BY DEF RecordInv, LinesConsistent, Lines
<1>2. Successor(orders[o], WithPreparationStatus(WithItemStatus(orders[o], S, s)))
  BY <1>1, ItemStatusPreserves
<1> QED
  BY <1>2, SuccessorStep

\* Every handler of the Bar service replaces one order by a successor.
LEMMA BarSteps ==
  ASSUME IInv, NEW o \in Order, BarStep(o)
  PROVE  \E r, operations : StepTo(o, r) /\ Save(o, r, operations)
<1> DEFINE Steps == \E r, operations : StepTo(o, r) /\ Save(o, r, operations)
<1>1. RecordInv(orders[o]) /\ orders[o] \in OrderRecord
  BY DEF IInv, RecordInv
<1>2. ASSUME NEW type \in {"UNASSIGNED", "TABLE", "TAKEAWAY"},
             NEW t \in Table \cup {NoTable}, CreateOrder(o, type, t)
      PROVE  Steps
  <2>1. PICK n \in 1 .. MaxOrderNumber :
          /\ NextOrderNumber(n)
          /\ Save(o, [NoOrder EXCEPT !.status = "DRAFT", !.orderType = type,
                                     !.tableId = t, !.orderNumber = n],
                  {"ORDER_CREATED"})
    BY <1>2 DEF CreateOrder
  <2> DEFINE new == [NoOrder EXCEPT !.status = "DRAFT", !.orderType = type,
                                    !.tableId = t, !.orderNumber = n]
  <2>2. n \in Nat
    BY BoundAssumption
  <2>3. RecordInv(new)
    BY <2>2, CreatedOrderInv
  <2>4. new.tableId = t /\ new.orderNumber = n
    BY DEF NoOrder
  <2> HIDE DEF new
  <2>5. orders[o].status = "ABSENT" /\ orders[o] = NoOrder
    BY <1>1, <1>2 DEF CreateOrder, RecordInv
  <2>6. Lines(NoOrder) = {} /\ NoOrder.paymentStatus = "UNPAID"
    BY DEF Lines, NoOrder, NoItem
  <2>7. LinesKept(orders[o], new)
    BY <2>5, <2>6 DEF LinesKept, Submitted
  <2>8. StepTo(o, new)
    BY <1>2, <2>1, <2>3, <2>4, <2>5, <2>7 DEF StepTo, CreateOrder, Terminal
  <2> QED BY <2>1, <2>8 DEF new
<1>3. ASSUME NEW t \in Table \cup {NoTable}, AssignOrder(o, t)
      PROVE  Steps
  <2>1. Active(orders[o])
    BY <1>3 DEF AssignOrder, Mutable
  <2>2. CASE t = NoTable
    <3> DEFINE seat == orders[o].tableId
               new == [orders[o] EXCEPT !.orderType = "TAKEAWAY", !.tableId = seat]
    <3>1. /\ seat \in Table \cup {NoTable}
          /\ new = [orders[o] EXCEPT !.orderType = "TAKEAWAY"]
      BY <1>1 DEF OrderRecord
    <3>2. /\ RecordInv(new)
          /\ LinesKept(orders[o], new)
          /\ new.tableId = seat
          /\ new.orderNumber = orders[o].orderNumber
      BY <1>1, <2>1, <3>1, SeatingPreserves
    <3>3. Save(o, new, {"ORDER_ASSIGNED"})
      BY <1>3, <2>2, <3>1 DEF AssignOrder
    <3> HIDE DEF new
    <3>4. StepTo(o, new)
      BY <2>1, <3>2 DEF StepTo, Active
    <3> QED BY <3>3, <3>4
  <2>3. CASE t # NoTable
    <3> DEFINE new == [orders[o] EXCEPT !.orderType = "TABLE", !.tableId = t]
    <3>1. Save(o, new, {"ORDER_ASSIGNED"}) /\ TableFree(o, t)
      BY <1>3, <2>3 DEF AssignOrder, TableFree
    <3>2. /\ RecordInv(new)
          /\ LinesKept(orders[o], new)
          /\ new.tableId = t
          /\ new.orderNumber = orders[o].orderNumber
      BY <1>1, <2>1, SeatingPreserves
    <3> HIDE DEF new
    <3>3. StepTo(o, new)
      BY <2>1, <3>1, <3>2 DEF StepTo, Active
    <3> QED BY <3>1, <3>3
  <2> QED BY <2>2, <2>3
<1>4. ASSUME ChangeGuestCount(o)
      PROVE  Steps
  BY <1>1, <1>4, SameSuccessor, SuccessorStep DEF ChangeGuestCount, Mutable
<1>5. ASSUME NEW t \in Table, TransferOrder(o, t)
      PROVE  Steps
  <2> DEFINE new == [orders[o] EXCEPT !.orderType = "TABLE", !.tableId = t]
  <2>1. Active(orders[o])
    BY <1>5 DEF TransferOrder, Mutable
  <2>2. /\ RecordInv(new)
        /\ LinesKept(orders[o], new)
        /\ new.tableId = t
        /\ new.orderNumber = orders[o].orderNumber
    BY <1>1, <2>1, SeatingPreserves
  <2>3. Save(o, new, {"ORDER_TRANSFERRED"}) /\ TableFree(o, t)
    BY <1>5 DEF TransferOrder
  <2> HIDE DEF new
  <2>4. StepTo(o, new)
    BY <2>1, <2>2, <2>3 DEF StepTo, Active
  <2> QED BY <2>3, <2>4
<1>6. ASSUME ReleaseTable(o)
      PROVE  Steps
  <2>1. /\ orders[o].status = "DRAFT"
        /\ Lines(orders[o]) = {}
        /\ Save(o, NoOrder, {"ORDER_RELEASED"})
    BY <1>6 DEF ReleaseTable
  <2>2. orders[o].paymentStatus # "PAID"
    BY <1>1, <2>1 DEF RecordInv
  <2>3. NoOrder.status = "ABSENT"
    BY DEF NoOrder
  <2>4. LinesKept(orders[o], NoOrder)
    BY <2>1, <2>2 DEF LinesKept, Submitted
  <2>5. StepTo(o, NoOrder)
    BY <2>1, <2>3, <2>4, NoOrderInv DEF StepTo, Active, Terminal
  <2> QED BY <2>1, <2>5
<1>7. ASSUME NEW i \in Item, NEW m \in Modifiers, AddItem(o, i, m)
      PROVE  Steps
  <2> DEFINE it == [NoItem EXCEPT !.status = "DRAFT", !.quantity = 1, !.modifiers = m]
  <2>1. /\ it \in ItemRecord
        /\ it.status = "DRAFT"
        /\ it.submittedBatchId = 0
        /\ it.issuedAt = FALSE
    BY DEF NoItem, ItemRecord, ItemStatus
  <2>2. /\ Mutable(orders[o])
        /\ orders[o].items[i].status = "ABSENT"
        /\ Save(o, [orders[o] EXCEPT !.items[i] = it], {})
    BY <1>7 DEF AddItem
  <2> HIDE DEF it
  <2>3. Successor(orders[o], [orders[o] EXCEPT !.items[i] = it])
    BY <1>1, <2>1, <2>2, DraftLinePreserves
  <2> QED BY <2>2, <2>3, SuccessorStep DEF Mutable
<1>8. ASSUME NEW i \in Item, NEW q \in 1 .. MaxQuantity, UpdateItemQuantity(o, i, q)
      PROVE  Steps
  <2> DEFINE line == orders[o].items[i]
             it == [line EXCEPT !.quantity = q]
  <2>1. line \in ItemRecord /\ q \in Nat
    BY <1>1, BoundAssumption DEF OrderRecord
  <2>2. Mutable(orders[o]) /\ DraftItem(orders[o], i)
    BY <1>8 DEF UpdateItemQuantity
  <2>3. /\ it \in ItemRecord
        /\ it.status = line.status
        /\ it.submittedBatchId = line.submittedBatchId
        /\ it.issuedAt = line.issuedAt
    BY <2>1 DEF ItemRecord
  <2>4. Save(o, [orders[o] EXCEPT !.items[i] = it], {})
    BY <1>8 DEF UpdateItemQuantity
  <2> HIDE DEF it
  <2>5. StepTo(o, [orders[o] EXCEPT !.items[i] = it])
    BY <1>1, <2>2, <2>3, DraftLineStep DEF DraftItem
  <2> QED BY <2>4, <2>5
<1>9. ASSUME NEW i \in Item, NEW m \in Modifiers, UpdateItemDetails(o, i, m)
      PROVE  Steps
  <2> DEFINE line == orders[o].items[i]
             it == [line EXCEPT !.modifiers = m]
  <2>1. line \in ItemRecord
    BY <1>1 DEF OrderRecord
  <2>2. Mutable(orders[o]) /\ DraftItem(orders[o], i)
    BY <1>9 DEF UpdateItemDetails
  <2>3. /\ it \in ItemRecord
        /\ it.status = line.status
        /\ it.submittedBatchId = line.submittedBatchId
        /\ it.issuedAt = line.issuedAt
    BY <2>1 DEF ItemRecord
  <2>4. Save(o, [orders[o] EXCEPT !.items[i] = it], {})
    BY <1>9 DEF UpdateItemDetails
  <2> HIDE DEF it
  <2>5. StepTo(o, [orders[o] EXCEPT !.items[i] = it])
    BY <1>1, <2>2, <2>3, DraftLineStep DEF DraftItem
  <2> QED BY <2>4, <2>5
<1>10. ASSUME NEW i \in Item, RemoveItem(o, i)
       PROVE  Steps
  <2>1. /\ NoItem \in ItemRecord
        /\ NoItem.status = "ABSENT"
        /\ NoItem.submittedBatchId = 0
        /\ NoItem.issuedAt = FALSE
    BY ModifiersAssumption DEF NoItem, ItemRecord, ItemStatus
  <2>2. /\ Mutable(orders[o])
        /\ DraftItem(orders[o], i)
        /\ Save(o, [orders[o] EXCEPT !.items[i] = NoItem], {})
    BY <1>10 DEF RemoveItem
  <2>3. Successor(orders[o], [orders[o] EXCEPT !.items[i] = NoItem])
    BY <1>1, <2>1, <2>2, DraftLinePreserves DEF DraftItem
  <2> QED BY <2>2, <2>3, SuccessorStep DEF Mutable
<1>11. ASSUME SendOrder(o)
       PROVE  Steps
  BY <1>1, <1>11, SentPreserves, SuccessorStep DEF SendOrder, Mutable
<1>12. ASSUME NEW i \in Item, NEW s \in {"PREPARING", "READY"},
              UpdateBarItemStatus(o, i, s)
       PROVE  Steps
  <2>1. /\ Active(orders[o])
        /\ orders[o].items[i].status \notin {"ABSENT", "DRAFT"}
        /\ s \in Ahead(orders[o].items[i].status)
        /\ Save(o, WithPreparationStatus(WithItemStatus(orders[o], {i}, s)),
                {"ITEM_STATUS_CHANGED"})
    BY <1>12 DEF UpdateBarItemStatus, BarTransition, Ahead
  <2> QED BY <1>1, <2>1, PreparationStep
<1>13. ASSUME AcceptAllSentItems(o)
       PROVE  Steps
  <2> DEFINE S == {i \in Submitted(orders[o]) :
                     Route[i] = "BAR" /\ orders[o].items[i].status = "NEW"}
  <2>1. /\ Active(orders[o])
        /\ Save(o, WithPreparationStatus(WithItemStatus(orders[o], S, "PREPARING")),
                {"ITEMS_ACCEPTED"})
    BY <1>13 DEF AcceptAllSentItems
  <2>2. \A i \in S : /\ i \in Item
                     /\ orders[o].items[i].status \notin {"ABSENT", "DRAFT"}
                     /\ "PREPARING" \in Ahead(orders[o].items[i].status)
    BY DEF Submitted, Lines, Ahead
  <2> HIDE DEF S
  <2> QED BY <1>1, <2>1, <2>2, PreparationStep
<1>14. ASSUME IssueReadyOrder(o)
       PROVE  Steps
  <2> DEFINE s == IF orders[o].paymentStatus = "PAID" THEN "COMPLETED" ELSE "READY"
  <2>1. /\ Active(orders[o])
        /\ Submitted(orders[o]) # {}
        /\ Submitted(orders[o]) = Lines(orders[o])
        /\ \A i \in Submitted(orders[o]) : orders[o].items[i].status = "READY"
        /\ \E operations : Save(o, Issued(orders[o], s), operations)
    BY <1>14 DEF IssueReadyOrder
  <2>2. Successor(orders[o], Issued(orders[o], s))
    BY <1>1, <2>1, IssuedPreserves
  <2> QED BY <2>1, <2>2, SuccessorStep
<1>15. ASSUME RecordPayment(o)
       PROVE  Steps
  <2> DEFINE s == IF orders[o].issuedAt THEN "COMPLETED" ELSE orders[o].status
             new == [orders[o] EXCEPT !.paymentStatus = "PAID", !.status = s]
  <2>1. /\ Active(orders[o])
        /\ Lines(orders[o]) # {}
        /\ \A i \in Lines(orders[o]) : orders[o].items[i].status # "DRAFT"
    BY <1>15 DEF RecordPayment
  <2>2. \E operations : Save(o, new, operations)
    <3>1. new = [orders[o] EXCEPT !.paymentStatus = "PAID",
                   !.status = IF orders[o].issuedAt THEN "COMPLETED" ELSE @]
      BY <1>1 DEF OrderRecord
    <3> QED BY <1>15, <3>1 DEF RecordPayment
  <2>3. Successor(orders[o], new)
    BY <1>1, <2>1, PaymentPreserves
  <2> HIDE DEF new
  <2> QED BY <2>1, <2>2, <2>3, SuccessorStep
<1>16. ASSUME CompleteOrder(o)
       PROVE  Steps
  <2>1. /\ Active(orders[o])
        /\ orders[o].paymentStatus = "PAID"
        /\ Lines(orders[o]) # {}
        /\ \A i \in Lines(orders[o]) : orders[o].items[i].status = "READY"
        /\ \E operations : Save(o, Issued(orders[o], "COMPLETED"), operations)
    BY <1>16 DEF CompleteOrder
  <2>2. Submitted(orders[o]) = Lines(orders[o])
    BY <1>1, <2>1 DEF RecordInv
  <2>3. Successor(orders[o], Issued(orders[o], "COMPLETED"))
    BY <1>1, <2>1, <2>2, IssuedPreserves
  <2> QED BY <2>1, <2>3, SuccessorStep
<1>17. ASSUME CancelOrder(o)
       PROVE  Steps
  BY <1>1, <1>17, CancelPreserves, SuccessorStep DEF CancelOrder, Mutable
<1> HIDE DEF Steps
<1>18. Steps
  BY <1>2, <1>3, <1>4, <1>5, <1>6, <1>7, <1>8, <1>9, <1>10, <1>11, <1>12, <1>13,
     <1>14, <1>15, <1>16, <1>17 DEF BarStep
<1> QED BY <1>18 DEF Steps

\* Every handler of the Kitchen's service replaces one order by a successor.
LEMMA KitchenSteps ==
  ASSUME IInv, NEW o \in Order, KitchenStep(o)
  PROVE  \E r, operations : StepTo(o, r) /\ Save(o, r, operations)
<1> DEFINE Steps == \E r, operations : StepTo(o, r) /\ Save(o, r, operations)
<1>1. RecordInv(orders[o])
  BY DEF IInv
<1>2. ASSUME NEW i \in Item, AcceptPosition(o, i)
      PROVE  Steps
  <2>1. \A j \in {i} : /\ j \in Item
                       /\ orders[o].items[j].status \notin {"ABSENT", "DRAFT"}
                       /\ "PREPARING" \in Ahead(orders[o].items[j].status)
    BY <1>2 DEF AcceptPosition, Ahead
  <2> QED BY <1>1, <1>2, <2>1, PreparationStep DEF AcceptPosition
<1>3. ASSUME NEW i \in Item, MarkPositionReady(o, i)
      PROVE  Steps
  <2>1. \A j \in {i} : /\ j \in Item
                       /\ orders[o].items[j].status \notin {"ABSENT", "DRAFT"}
                       /\ "READY" \in Ahead(orders[o].items[j].status)
    BY <1>3 DEF MarkPositionReady, Ahead
  <2> QED BY <1>1, <1>3, <2>1, PreparationStep DEF MarkPositionReady
<1>4. ASSUME AcceptAll(o)
      PROVE  Steps
  <2> DEFINE S == {i \in KitchenItems(orders[o]) : orders[o].items[i].status = "NEW"}
  <2>1. /\ Active(orders[o])
        /\ Save(o, WithPreparationStatus(WithItemStatus(orders[o], S, "PREPARING")),
                {"ACCEPT_ALL"})
    BY <1>4 DEF AcceptAll
  <2>2. \A i \in S : /\ i \in Item
                     /\ orders[o].items[i].status \notin {"ABSENT", "DRAFT"}
                     /\ "PREPARING" \in Ahead(orders[o].items[i].status)
    BY DEF KitchenItems, Submitted, Lines, Ahead
  <2> HIDE DEF S
  <2> QED BY <1>1, <2>1, <2>2, PreparationStep
<1>5. ASSUME ConfirmAllReady(o)
      PROVE  Steps
  BY <1>1, <1>5, SameSuccessor, SuccessorStep DEF ConfirmAllReady
<1> HIDE DEF Steps
<1>6. Steps
  BY <1>2, <1>3, <1>4, <1>5 DEF KitchenStep
<1> QED BY <1>6 DEF Steps

\* Every step of the store replaces one order by a successor.
LEMMA NextSteps ==
  ASSUME IInv, Next
  PROVE  \E o \in Order : \E r, operations : StepTo(o, r) /\ Save(o, r, operations)
BY BarSteps, KitchenSteps DEF Next

\* The empty store has the invariant.
LEMMA InitInv == Init => IInv
<1> SUFFICES ASSUME Init
             PROVE  IInv
  OBVIOUS
<1>1. NoOrder \in OrderRecord
  BY NoOrderInv DEF RecordInv
<1>2. TypeOK
  BY <1>1 DEF Init, TypeOK
<1> QED
  BY <1>2, NoOrderInv DEF Init, IInv

\* Every step keeps the invariant.
LEMMA NextInv == IInv /\ [Next]_vars => IInv'
<1> SUFFICES ASSUME IInv, [Next]_vars
             PROVE  IInv'
  OBVIOUS
<1>1. CASE Next
  <2>0. PICK o \in Order : \E r, operations : StepTo(o, r) /\ Save(o, r, operations)
    BY <1>1, NextSteps
  <2>1. PICK r, operations : StepTo(o, r) /\ Save(o, r, operations)
    BY <2>0
  <2>2. orders' = [orders EXCEPT ![o] = r] /\ RecordInv(r)
    BY <2>1 DEF Save, StepTo
  <2>3. orders' \in [Order -> OrderRecord]
    BY <2>2 DEF IInv, TypeOK, RecordInv
  <2>4. audit' \subseteq AuditEntry
    <3>1. audit' = LoadedAudit \cup Entries(o, operations)
      BY <2>1 DEF Save
    <3>2. Entries(o, operations) \subseteq AuditEntry
      BY DEF Entries, AuditEntry
    <3>3. LoadedAudit \subseteq AuditEntry
      BY DEF LoadedAudit, IInv, TypeOK
    <3> QED BY <3>1, <3>2, <3>3
  <2>5. ASSUME NEW p \in Order
        PROVE  RecordInv(orders'[p])
    BY <2>2 DEF IInv, TypeOK
  <2> QED BY <2>3, <2>4, <2>5 DEF IInv, TypeOK
<1>2. CASE UNCHANGED vars
  BY <1>2 DEF vars, IInv, TypeOK, AuditEntry
<1> QED BY <1>1, <1>2

\* The invariant holds in every reachable store.
LEMMA Inductive == Spec => []IInv
BY InitInv, NextInv, PTL DEF Spec

\* The store always holds orders and audit facts of the declared shapes.
THEOREM TypeCorrect == Spec => []TypeOK
<1>1. IInv => TypeOK
  BY DEF IInv
<1> QED BY <1>1, Inductive, PTL

\* The status of an active order is always the one its submitted items give.
THEOREM StatusCorrect == Spec => []StatusFollowsItems
<1>1. IInv => StatusFollowsItems
  BY DEF IInv, RecordInv, StatusFollowsItems
<1> QED BY <1>1, Inductive, PTL

\* A line is in a batch that was sent exactly when it is no longer a draft.
THEOREM BatchesCorrect == Spec => []BatchesAgree
<1>1. IInv => BatchesAgree
  BY DEF IInv, RecordInv, LinesConsistent, BatchesAgree
<1> QED BY <1>1, Inductive, PTL

\* A paid order has lines and all of them were sent.
THEOREM PaymentCorrect == Spec => []PaidOrdersCanFinish
<1>1. IInv => PaidOrdersCanFinish
  BY DEF IInv, RecordInv, PaidOrdersCanFinish
<1> QED BY <1>1, Inductive, PTL

\* Every line handed over was ready and its order is marked issued.
THEOREM IssueCorrect == Spec => []IssuedLinesWereReady
<1>1. IInv => IssuedLinesWereReady
  BY DEF IInv, RecordInv, LinesConsistent, IssuedLinesWereReady
<1> QED BY <1>1, Inductive, PTL

\* A completed order was paid and issued.
THEOREM CompletionCorrect == Spec => []CompletedOrdersSettled
<1>1. IInv => CompletedOrdersSettled
  BY DEF IInv, RecordInv, CompletedOrdersSettled
<1> QED BY <1>1, Inductive, PTL

\* A step seats an order only where no other open order sits.
LEMMA TablesStep == IInv /\ OneOpenOrderPerTable /\ [Next]_vars => OneOpenOrderPerTable'
<1> SUFFICES ASSUME IInv, OneOpenOrderPerTable, [Next]_vars
             PROVE  OneOpenOrderPerTable'
  OBVIOUS
<1>1. CASE Next
  <2>0. PICK o \in Order : \E r, operations : StepTo(o, r) /\ Save(o, r, operations)
    BY <1>1, NextSteps
  <2>1. PICK r, operations : StepTo(o, r) /\ Save(o, r, operations)
    BY <2>0
  <2>2. orders' = [orders EXCEPT ![o] = r]
    BY <2>1 DEF Save
  <2>3. /\ orders'[o] = r
        /\ \A p \in Order \ {o} : orders'[p] = orders[p]
    BY <2>2 DEF IInv, TypeOK
  <2>4. ASSUME NEW p \in Order \ {o}, Active(r), Active(orders[p]),
               r.tableId # NoTable
        PROVE  r.tableId # orders[p].tableId
    <3>1. CASE TableFree(o, r.tableId)
      BY <2>4, <3>1 DEF TableFree
    <3>2. CASE Active(orders[o]) /\ r.tableId = orders[o].tableId
      BY <2>4, <3>2 DEF OneOpenOrderPerTable
    <3> QED BY <2>1, <2>4, <3>1, <3>2 DEF StepTo
  <2> QED BY <2>3, <2>4 DEF OneOpenOrderPerTable
<1>2. CASE UNCHANGED vars
  BY <1>2 DEF vars, OneOpenOrderPerTable
<1> QED BY <1>1, <1>2

\* Two open orders never share a table.
THEOREM TablesCorrect == Spec => []OneOpenOrderPerTable
<1>1. Init => OneOpenOrderPerTable
  BY DEF Init, OneOpenOrderPerTable, Active, NoOrder
<1> QED BY <1>1, TablesStep, Inductive, PTL DEF Spec

\* A step numbers an order above every stored one.
LEMMA NumbersStep == IInv /\ OrderNumbersDiffer /\ [Next]_vars => OrderNumbersDiffer'
<1> SUFFICES ASSUME IInv, OrderNumbersDiffer, [Next]_vars
             PROVE  OrderNumbersDiffer'
  OBVIOUS
<1>1. CASE Next
  <2>0. PICK o \in Order : \E r, operations : StepTo(o, r) /\ Save(o, r, operations)
    BY <1>1, NextSteps
  <2>1. PICK r, operations : StepTo(o, r) /\ Save(o, r, operations)
    BY <2>0
  <2>2. orders' = [orders EXCEPT ![o] = r]
    BY <2>1 DEF Save
  <2>3. /\ orders'[o] = r
        /\ \A p \in Order \ {o} : orders'[p] = orders[p]
    BY <2>2 DEF IInv, TypeOK
  <2>4. ASSUME NEW p \in Order \ {o}, r.status # "ABSENT", orders[p].status # "ABSENT"
        PROVE  r.orderNumber # orders[p].orderNumber
    <3>1. CASE NextOrderNumber(r.orderNumber)
      <4>1. orders[p].orderNumber \in Nat /\ orders[p].orderNumber < r.orderNumber
        BY <3>1 DEF NextOrderNumber, IInv, TypeOK, OrderRecord
      <4> QED BY <4>1
    <3>2. CASE orders[o].status # "ABSENT" /\ r.orderNumber = orders[o].orderNumber
      BY <2>4, <3>2 DEF OrderNumbersDiffer
    <3> QED BY <2>1, <2>4, <3>1, <3>2 DEF StepTo
  <2> QED BY <2>3, <2>4 DEF OrderNumbersDiffer
<1>2. CASE UNCHANGED vars
  BY <1>2 DEF vars, OrderNumbersDiffer
<1> QED BY <1>1, <1>2

\* Two stored orders never share a number.
THEOREM NumbersCorrect == Spec => []OrderNumbersDiffer
<1>1. Init => OrderNumbersDiffer
  BY DEF Init, OrderNumbersDiffer, NoOrder
<1> QED BY <1>1, NumbersStep, Inductive, PTL DEF Spec

\* A step leaves an order alone or replaces it by a successor.
LEMMA OrderSteps ==
  ASSUME IInv, Next, NEW o \in Order
  PROVE  \/ orders'[o] = orders[o]
         \/ StepTo(o, orders'[o])
<1>0. PICK p \in Order : \E r, operations : StepTo(p, r) /\ Save(p, r, operations)
  BY NextSteps
<1>1. PICK r, operations : StepTo(p, r) /\ Save(p, r, operations)
  BY <1>0
<1>2. orders' = [orders EXCEPT ![p] = r]
  BY <1>1 DEF Save
<1>3. CASE p = o
  BY <1>1, <1>2, <1>3 DEF IInv, TypeOK
<1>4. CASE p # o
  BY <1>2, <1>4 DEF IInv, TypeOK
<1> QED BY <1>3, <1>4

\* A completed or cancelled order never changes again.
THEOREM TerminalCorrect == Spec => TerminalOrdersFinal
<1>1. IInv /\ [Next]_vars =>
        [\A o \in Order : orders[o].status \in Terminal => orders'[o] = orders[o]]_vars
  BY OrderSteps DEF StepTo
<1> QED BY <1>1, Inductive, PTL DEF Spec, TerminalOrdersFinal

\* A submitted line keeps its batch, quantity and modifiers and only advances.
THEOREM SubmittedCorrect == Spec => SubmittedLinesOnlyAdvance
<1>1. IInv /\ [Next]_vars =>
        [\A o \in Order : \A i \in Submitted(orders[o]) :
           LET old == orders[o].items[i]
               new == orders'[o].items[i]
           IN  /\ new.status \in Ahead(old.status)
               /\ new.submittedBatchId = old.submittedBatchId
               /\ new.quantity = old.quantity
               /\ new.modifiers = old.modifiers]_vars
  <2> SUFFICES ASSUME IInv, Next, NEW o \in Order, NEW i \in Submitted(orders[o])
      PROVE  /\ orders'[o].items[i].status \in Ahead(orders[o].items[i].status)
             /\ orders'[o].items[i].submittedBatchId = orders[o].items[i].submittedBatchId
             /\ orders'[o].items[i].quantity = orders[o].items[i].quantity
             /\ orders'[o].items[i].modifiers = orders[o].items[i].modifiers
    OBVIOUS
  <2>1. CASE orders'[o] = orders[o]
    BY <2>1 DEF Ahead
  <2>2. CASE StepTo(o, orders'[o])
    BY <2>2 DEF StepTo, LinesKept
  <2> QED BY <2>1, <2>2, OrderSteps
<1> QED BY <1>1, Inductive, PTL DEF Spec, SubmittedLinesOnlyAdvance

\* What a paid order is charged for never changes.
THEOREM BillCorrect == Spec => PaidBillFrozen
<1>1. IInv /\ [Next]_vars =>
        [\A o \in Order :
           orders[o].paymentStatus = "PAID" => Bill(orders'[o]) = Bill(orders[o])]_vars
  <2> SUFFICES ASSUME IInv, Next, NEW o \in Order, orders[o].paymentStatus = "PAID"
      PROVE  Bill(orders'[o]) = Bill(orders[o])
    OBVIOUS
  <2>1. CASE orders'[o] = orders[o]
    BY <2>1
  <2>2. CASE StepTo(o, orders'[o])
    <3>1. Submitted(orders[o]) = Lines(orders[o])
      BY DEF IInv, RecordInv
    <3>2. Lines(orders'[o]) = Lines(orders[o])
      BY <2>2 DEF StepTo, LinesKept
    <3>3. \A i \in Lines(orders[o]) :
            /\ orders'[o].items[i].quantity = orders[o].items[i].quantity
            /\ orders'[o].items[i].modifiers = orders[o].items[i].modifiers
      BY <2>2, <3>1 DEF StepTo, LinesKept
    <3> QED BY <3>2, <3>3 DEF Bill
  <2> QED BY <2>1, <2>2, OrderSteps
<1> QED BY <1>1, Inductive, PTL DEF Spec, PaidBillFrozen
-----------------------------------------------------------------------------
(* The audit log.                                                           *)

\* The entries that tell of payment, issue, completion and cancellation.
Settlement == {"PAYMENT_RECORDED", "ORDER_ISSUED", "ORDER_COMPLETED", "ORDER_CANCELLED"}

\* new differs from r in these by just what is recorded.
Settles(r, new, operations) ==
  /\ new.paymentStatus = "PAID" <=> r.paymentStatus = "PAID" \/ "PAYMENT_RECORDED" \in operations
  /\ new.issuedAt <=> r.issuedAt \/ "ORDER_ISSUED" \in operations
  /\ new.status = "COMPLETED" <=> r.status = "COMPLETED" \/ "ORDER_COMPLETED" \in operations
  /\ new.status = "CANCELLED" <=> r.status = "CANCELLED" \/ "ORDER_CANCELLED" \in operations

\* Editing the lines, the type or the table of an open order settles nothing.
LEMMA EditSettlesNothing ==
  ASSUME NEW r, Active(r), NEW new, NEW operations, operations \cap Settlement = {},
         new.status = r.status \/ (Active(new) /\ new.status # "ABSENT"),
         new.paymentStatus = r.paymentStatus, new.issuedAt = r.issuedAt
  PROVE  Settles(r, new, operations)
BY DEF Settles, Settlement, Active, Terminal

\* Nor does a preparation command or sending, which recompute the status.
LEMMA PreparationSettlesNothing ==
  ASSUME NEW r \in OrderRecord, Active(r), NEW items, NEW batches, NEW operations,
         operations \cap Settlement = {}
  PROVE  /\ Settles(r, WithPreparationStatus([r EXCEPT !.items = items]), operations)
         /\ Settles(r, WithPreparationStatus([r EXCEPT !.batches = batches, !.items = items]), operations)
<1>1. ASSUME NEW u, u.paymentStatus = r.paymentStatus, u.issuedAt = r.issuedAt,
             DOMAIN u = DOMAIN r
      PROVE  Settles(r, WithPreparationStatus(u), operations)
  <2>1. r \in OrderRecord /\ DOMAIN r = {"status", "orderType", "tableId", "orderNumber",
                                         "paymentStatus", "issuedAt", "items", "batches"}
    BY DEF OrderRecord
  <2>2. /\ WithPreparationStatus(u).status = PreparationStatus(u)
        /\ WithPreparationStatus(u).paymentStatus = u.paymentStatus
        /\ WithPreparationStatus(u).issuedAt = u.issuedAt
    BY <1>1, <2>1 DEF WithPreparationStatus
  <2>3. PreparationStatus(u) \in OrderStatus \ (Terminal \cup {"ABSENT"})
    BY PreparationStatusOpen
  <2> QED
    BY <1>1, <2>2, <2>3, EditSettlesNothing DEF Active
<1>2. ASSUME NEW u, u = [r EXCEPT !.items = items]
                    \/ u = [r EXCEPT !.batches = batches, !.items = items]
      PROVE  u.paymentStatus = r.paymentStatus /\ u.issuedAt = r.issuedAt /\ DOMAIN u = DOMAIN r
  BY <1>2 DEF OrderRecord
<1> QED
  BY <1>1, <1>2

\* Each handler records what it settles.
LEMMA HandlersRecord ==
  ASSUME IInv, NEW o \in Order, BarStep(o) \/ KitchenStep(o)
  PROVE  \E r, operations : Save(o, r, operations) /\ Settles(orders[o], r, operations)
<1> DEFINE Records == \E r, operations : Save(o, r, operations) /\ Settles(orders[o], r, operations)
           Unsettled(r) == /\ r.status \notin Terminal
                           /\ r.paymentStatus = orders[o].paymentStatus
                           /\ r.issuedAt = orders[o].issuedAt
<1>1. RecordInv(orders[o]) /\ orders[o] \in OrderRecord
  BY DEF IInv, RecordInv
<1>0. ASSUME NEW r, NEW operations, Save(o, r, operations), Settles(orders[o], r, operations)
      PROVE  Records
  BY <1>0
<1> HIDE DEF Records
<1>2. ASSUME NEW r, NEW operations, Save(o, r, operations), operations \cap Settlement = {},
             Unsettled(r), orders[o].status \notin Terminal
      PROVE  Records
  BY <1>0, <1>2 DEF Settles, Settlement, Terminal
<1>3. ASSUME NEW type, NEW t, CreateOrder(o, type, t)
      PROVE  Records
  <2> DEFINE new(n) == [NoOrder EXCEPT !.status = "DRAFT", !.orderType = type, !.tableId = t,
                                       !.orderNumber = n]
  <2>1. PICK n : Save(o, new(n), {"ORDER_CREATED"})
    BY <1>3 DEF CreateOrder
  <2>2. orders[o] = NoOrder
    BY <1>1, <1>3 DEF CreateOrder, RecordInv
  <2>3. Unsettled(new(n)) /\ orders[o].status \notin Terminal
    BY <2>2 DEF NoOrder, Terminal
  <2>4. {"ORDER_CREATED"} \cap Settlement = {}
    BY DEF Settlement
  <2> HIDE DEF new
  <2> QED
    BY <1>2, <2>1, <2>3, <2>4
<1>4. ASSUME NEW t, AssignOrder(o, t) \/ TransferOrder(o, t)
      PROVE  Records
  <2>1. PICK r, operations : /\ Save(o, r, operations)
                             /\ operations \in {{"ORDER_ASSIGNED"}, {"ORDER_TRANSFERRED"}}
                             /\ \/ r = [orders[o] EXCEPT !.orderType = "TAKEAWAY"]
                                \/ r = [orders[o] EXCEPT !.orderType = "TABLE", !.tableId = t]
    BY <1>4 DEF AssignOrder, TransferOrder
  <2>2. Unsettled(r) /\ orders[o].status \notin Terminal
    BY <1>1, <1>4, <2>1 DEF AssignOrder, TransferOrder, Mutable, Active, OrderRecord
  <2> QED
    BY <1>2, <2>1, <2>2 DEF Settlement
<1>5. ASSUME ChangeGuestCount(o) \/ ConfirmAllReady(o)
      PROVE  Records
  <2>1. PICK operations \in {{"GUEST_COUNT_CHANGED"}, {"READY_ALL"}} : Save(o, orders[o], operations)
    BY <1>5 DEF ChangeGuestCount, ConfirmAllReady
  <2>2. Unsettled(orders[o])
    BY <1>5 DEF ChangeGuestCount, ConfirmAllReady, Mutable, Active
  <2> QED
    BY <1>2, <2>1, <2>2 DEF Settlement
<1>6. ASSUME ReleaseTable(o)
      PROVE  Records
  <2>1. orders[o].status = "DRAFT" /\ Lines(orders[o]) = {} /\ Save(o, NoOrder, {"ORDER_RELEASED"})
    BY <1>6 DEF ReleaseTable
  <2>2. orders[o].paymentStatus = "UNPAID" /\ orders[o].issuedAt = FALSE
    BY <1>1, <2>1 DEF RecordInv, Submitted, OrderRecord
  <2> QED
    BY <1>2, <2>1, <2>2 DEF NoOrder, Terminal, Settlement
<1>7. ASSUME NEW i \in Item,
             \/ \E m \in Modifiers : AddItem(o, i, m) \/ UpdateItemDetails(o, i, m)
             \/ \E q \in 1 .. MaxQuantity : UpdateItemQuantity(o, i, q)
             \/ RemoveItem(o, i)
      PROVE  Records
  <2>1. PICK line : Save(o, [orders[o] EXCEPT !.items[i] = line], {})
    <3>1. ASSUME NEW q PROVE \E line : [orders[o] EXCEPT !.items[i].quantity = q] = [orders[o] EXCEPT !.items[i] = line]
      BY <1>1 DEF OrderRecord
    <3>2. ASSUME NEW m PROVE \E line : [orders[o] EXCEPT !.items[i].modifiers = m] = [orders[o] EXCEPT !.items[i] = line]
      BY <1>1 DEF OrderRecord
    <3> QED
      BY <1>7, <3>1, <3>2 DEF AddItem, UpdateItemDetails, UpdateItemQuantity, RemoveItem
  <2>2. Mutable(orders[o])
    BY <1>7 DEF AddItem, UpdateItemDetails, UpdateItemQuantity, RemoveItem
  <2> DEFINE new == [orders[o] EXCEPT !.items[i] = line]
  <2>3. Unsettled(new) /\ orders[o].status \notin Terminal
    BY <1>1, <2>2 DEF Mutable, Active, OrderRecord
  <2>4. Save(o, new, {}) /\ {} \cap Settlement = {}
    BY <2>1
  <2> HIDE DEF new
  <2> QED
    BY <1>2, <2>3, <2>4
<1>8. ASSUME SendOrder(o)
      PROVE  Records
  BY <1>0, <1>1, <1>8, PreparationSettlesNothing DEF SendOrder, Sent, Mutable, Settlement
<1>9. ASSUME \/ \E i \in Item : \/ \E s \in {"PREPARING", "READY"} : UpdateBarItemStatus(o, i, s)
                                \/ AcceptPosition(o, i) \/ MarkPositionReady(o, i)
             \/ AcceptAllSentItems(o)
             \/ AcceptAll(o)
      PROVE  Records
  <2> DEFINE Prepares(operations) ==
        Active(orders[o]) /\ \E S, s : Save(o, WithPreparationStatus(WithItemStatus(orders[o], S, s)), operations)
  <2>1. ASSUME NEW operations, operations \cap Settlement = {}, Prepares(operations)
        PROVE  Records
    BY <1>0, <1>1, <2>1, PreparationSettlesNothing DEF WithItemStatus
  <2>2. ASSUME NEW i \in Item, NEW s, UpdateBarItemStatus(o, i, s)
        PROVE  Prepares({"ITEM_STATUS_CHANGED"})
    BY <2>2 DEF UpdateBarItemStatus
  <2>3. ASSUME NEW i \in Item, AcceptPosition(o, i)
        PROVE  Prepares({"ACCEPT_POSITION"})
    BY <2>3 DEF AcceptPosition
  <2>4. ASSUME NEW i \in Item, MarkPositionReady(o, i)
        PROVE  Prepares({"READY_POSITION"})
    BY <2>4 DEF MarkPositionReady
  <2>5. AcceptAllSentItems(o) => Prepares({"ITEMS_ACCEPTED"})
    BY DEF AcceptAllSentItems
  <2>6. AcceptAll(o) => Prepares({"ACCEPT_ALL"})
    BY DEF AcceptAll
  <2> HIDE DEF Prepares
  <2> QED
    BY <1>9, <2>1, <2>2, <2>3, <2>4, <2>5, <2>6 DEF Settlement
<1>10. ASSUME NEW s \in {"READY", "COMPLETED"}, NEW operations, Active(orders[o]),
              Save(o, Issued(orders[o], s), operations),
              operations \ {"ORDER_ISSUED"} = IF s = "COMPLETED" THEN {"ORDER_COMPLETED"} ELSE {},
              orders[o].issuedAt \/ "ORDER_ISSUED" \in operations
       PROVE  Records
  <2>1. /\ Issued(orders[o], s).paymentStatus = orders[o].paymentStatus
        /\ Issued(orders[o], s).issuedAt = TRUE
        /\ Issued(orders[o], s).status = s
    BY <1>1 DEF Issued, OrderRecord
  <2> QED
    BY <1>0, <1>10, <2>1 DEF Settles, Active, Terminal
<1>11. ASSUME IssueReadyOrder(o)
       PROVE  Records
  BY <1>10, <1>11 DEF IssueReadyOrder
<1>12. ASSUME CompleteOrder(o)
       PROVE  Records
  BY <1>10, <1>12 DEF CompleteOrder
<1>13. ASSUME RecordPayment(o)
       PROVE  Records
  <2> DEFINE new == [orders[o] EXCEPT !.paymentStatus = "PAID",
                                      !.status = IF orders[o].issuedAt THEN "COMPLETED" ELSE @]
             operations == {"PAYMENT_RECORDED"} \cup (IF orders[o].issuedAt THEN {"ORDER_COMPLETED"} ELSE {})
  <2>1. /\ new.paymentStatus = "PAID" /\ new.issuedAt = orders[o].issuedAt
        /\ new.status = IF orders[o].issuedAt THEN "COMPLETED" ELSE orders[o].status
    BY <1>1 DEF OrderRecord
  <2>2. Active(orders[o]) /\ Save(o, new, operations)
    BY <1>13 DEF RecordPayment
  <2>3. Settles(orders[o], new, operations)
    BY <2>1, <2>2 DEF Settles, Active, Terminal
  <2> HIDE DEF new, operations
  <2> QED
    BY <1>0, <2>2, <2>3
<1>14. ASSUME CancelOrder(o)
       PROVE  Records
  <2>1. /\ [orders[o] EXCEPT !.status = "CANCELLED"].paymentStatus = orders[o].paymentStatus
        /\ [orders[o] EXCEPT !.status = "CANCELLED"].issuedAt = orders[o].issuedAt
        /\ [orders[o] EXCEPT !.status = "CANCELLED"].status = "CANCELLED"
    BY <1>1 DEF OrderRecord
  <2> QED
    BY <1>0, <1>14, <2>1 DEF CancelOrder, Settles, Mutable, Active, Terminal
<1>15. Records
  BY <1>3, <1>4, <1>5, <1>6, <1>7, <1>8, <1>9, <1>11, <1>12, <1>13, <1>14
     DEF BarStep, KitchenStep
<1> QED
  BY <1>15 DEF Records

\* Loading the store drops none of these entries, and a handler adds its own.
LEMMA AuditStep ==
  ASSUME Settlement \subseteq AuditOperation, IInv, AuditMatchesOrders, [Next]_vars
  PROVE  AuditMatchesOrders'
<1>1. CASE Next
  <2>1. PICK o \in Order : BarStep(o) \/ KitchenStep(o)
    BY <1>1 DEF Next
  <2>2. PICK r, operations : Save(o, r, operations) /\ Settles(orders[o], r, operations)
    BY <2>1, HandlersRecord
  <2>3. /\ orders'[o] = r
        /\ \A p \in Order \ {o} : orders'[p] = orders[p]
    BY <2>2 DEF Save, IInv, TypeOK
  <2>4. ASSUME NEW p \in Order, NEW operation \in Settlement
        PROVE  [orderId |-> p, operation |-> operation] \in audit'
                 <=> \/ [orderId |-> p, operation |-> operation] \in audit
                     \/ p = o /\ operation \in operations
    <3>1. audit' = LoadedAudit \cup Entries(o, operations)
      BY <2>2 DEF Save
    <3>2. [orderId |-> p, operation |-> operation] \in LoadedAudit
            <=> [orderId |-> p, operation |-> operation] \in audit
      BY DEF LoadedAudit, Settlement
    <3>3. [orderId |-> p, operation |-> operation] \in Entries(o, operations)
            <=> p = o /\ operation \in operations
      BY DEF Entries
    <3> QED
      BY <3>1, <3>2, <3>3
  <2> SUFFICES ASSUME NEW p \in Order
               PROVE  LET Logged(operation) == [orderId |-> p, operation |-> operation] \in audit'
                      IN  /\ Logged("PAYMENT_RECORDED") <=> orders'[p].paymentStatus = "PAID"
                          /\ Logged("ORDER_ISSUED") <=> orders'[p].issuedAt
                          /\ Logged("ORDER_COMPLETED") <=> orders'[p].status = "COMPLETED"
                          /\ Logged("ORDER_CANCELLED") <=> orders'[p].status = "CANCELLED"
    BY DEF AuditMatchesOrders
  <2>5. CASE p # o
    BY <2>3, <2>4, <2>5 DEF AuditMatchesOrders, Settlement
  <2>6. CASE p = o
    BY <2>2, <2>3, <2>4, <2>6 DEF AuditMatchesOrders, Settlement, Settles
  <2> QED
    BY <2>5, <2>6
<1>2. CASE UNCHANGED vars
  BY <1>2 DEF vars, AuditMatchesOrders
<1> QED
  BY <1>1, <1>2

\* The log holds a payment, an issue, a completion or a cancellation of just the orders that
\* show it, however many handlers have written either (bar-service.ts, addAudit).
THEOREM AuditCorrect ==
  ASSUME Settlement \subseteq AuditOperation
  PROVE  Spec => []AuditMatchesOrders
<1>1. Init => AuditMatchesOrders
  BY DEF Init, AuditMatchesOrders, NoOrder
<1>2. IInv /\ AuditMatchesOrders /\ [Next]_vars => AuditMatchesOrders'
  BY AuditStep
<1> QED
  BY <1>1, <1>2, Inductive, PTL DEF Spec

-----------------------------------------------------------------------------
(* What is true of the store after every handler, said of any store: one   *)
(* that a tab holds, for instance.                                         *)

SoundStore(os, log) ==
  /\ os \in [Order -> OrderRecord]
  /\ log \subseteq AuditEntry
  /\ \A o \in Order : RecordInv(os[o])
  /\ \A o, p \in Order :
       Active(os[o]) /\ Active(os[p]) /\ os[o].tableId = os[p].tableId /\ os[o].tableId # NoTable
         => o = p
  /\ \A o, p \in Order :
       /\ os[o].status # "ABSENT" /\ os[p].status # "ABSENT"
       /\ os[o].orderNumber = os[p].orderNumber
       => o = p
  /\ Settlement \subseteq AuditOperation =>
       \A o \in Order :
         LET Logged(operation) == [orderId |-> o, operation |-> operation] \in log
         IN  /\ Logged("PAYMENT_RECORDED") <=> os[o].paymentStatus = "PAID"
             /\ Logged("ORDER_ISSUED") <=> os[o].issuedAt
             /\ Logged("ORDER_COMPLETED") <=> os[o].status = "COMPLETED"
             /\ Logged("ORDER_CANCELLED") <=> os[o].status = "CANCELLED"

\* It is what the theorems above are about.
LEMMA SoundMeans ==
  SoundStore(orders, audit) <=>
    /\ IInv
    /\ OneOpenOrderPerTable
    /\ OrderNumbersDiffer
    /\ Settlement \subseteq AuditOperation => AuditMatchesOrders
BY DEF SoundStore, IInv, TypeOK, OneOpenOrderPerTable, OrderNumbersDiffer, AuditMatchesOrders

LEMMA NewStoreSound == Init => SoundStore(orders, audit)
<1>1. Init => OneOpenOrderPerTable /\ OrderNumbersDiffer /\ AuditMatchesOrders
  BY DEF Init, OneOpenOrderPerTable, OrderNumbersDiffer, AuditMatchesOrders, Active, NoOrder
<1> QED
  BY <1>1, InitInv, SoundMeans

LEMMA HandlerKeepsSound ==
  SoundStore(orders, audit) /\ Next => SoundStore(orders', audit')
<1> SUFFICES ASSUME SoundStore(orders, audit), Next
             PROVE  SoundStore(orders', audit')
  OBVIOUS
<1>1. /\ IInv /\ OneOpenOrderPerTable /\ OrderNumbersDiffer
      /\ Settlement \subseteq AuditOperation => AuditMatchesOrders
  BY SoundMeans
<1>2. IInv' /\ OneOpenOrderPerTable' /\ OrderNumbersDiffer'
  BY <1>1, NextInv, TablesStep, NumbersStep
<1>3. Settlement \subseteq AuditOperation => AuditMatchesOrders'
  BY <1>1, AuditStep
<1> QED
  BY <1>2, <1>3 DEF SoundStore, IInv, TypeOK, OneOpenOrderPerTable, OrderNumbersDiffer,
                    AuditMatchesOrders

-----------------------------------------------------------------------------
(* The completion of an order.  Stock is taken for its bill, for every     *)
(* number of orders and lines, and whatever calls are lost or stopped.  A  *)
(* booking is made of a waiting call, so the same must be said of calls    *)
(* (CallsMatchOrders); and a completed order never changes (BarOrders), so *)
(* that neither goes out of date.                                          *)

CallsMatchOrders ==
  \A call \in calls :
    /\ call.orderId \in Order
    /\ orders[call.orderId].status = "COMPLETED"
    /\ call.bill = Bill(orders[call.orderId])

BookingsAreOfOrders == \A b \in bookings : b.orderId \in Order

CompletionInv ==
  /\ IInv
  /\ CallsMatchOrders
  /\ BookingsAreOfOrders
  /\ BookingsMatchOrders

\* What is consumed leaves the orders alone and books the bills of waiting calls.
LEMMA CarryOutBooks ==
  ASSUME NEW call \in calls, NEW assigned, NEW routes, CarryOut(call, assigned, routes)
  PROVE  /\ UNCHANGED vars
         /\ calls' \subseteq calls
         /\ \A b \in bookings' \ bookings :
              \E scope : b.orderId = call.orderId /\ b.scope = scope /\ b.lines = RouteBill(call.bill, scope)
BY DEF CarryOut

\* A step of the composition is a step of the Bar or the Kitchen, or carries out a call.
LEMMA CompletionSteps ==
  CompletionNext =>
    \/ Handle
    \/ \E call \in calls, assigned \in SUBSET Scope, routes \in SUBSET Scope :
         CarryOut(call, assigned, routes)
<1>1. ASSUME NEW call \in calls, NEW assigned \in SUBSET Scope, Consume(call, assigned)
      PROVE  \E routes \in SUBSET Scope : CarryOut(call, assigned, routes)
  <2>1. Routes(call, assigned) \in SUBSET Scope
    BY DEF Routes
  <2> QED
    BY <1>1, <2>1 DEF Consume
<1>2. ASSUME NEW call \in calls, NEW assigned \in SUBSET Scope, Lose(call, assigned)
      PROVE  \E routes \in SUBSET Scope : CarryOut(call, assigned, routes)
  <2>1. \A done : done \cap Routes(call, assigned) \in SUBSET Scope
    BY DEF Routes
  <2> QED
    BY <1>2, <2>1 DEF Lose
<1> QED
  BY <1>1, <1>2 DEF CompletionNext, ConsumeSome, LoseSome

\* A completed order stays as it is.
LEMMA CompletedStays ==
  ASSUME IInv, [Next]_vars, NEW o \in Order, orders[o].status = "COMPLETED"
  PROVE  orders'[o] = orders[o]
BY OrderSteps DEF StepTo, Terminal, vars

\* The Bar and the Kitchen: new calls are of orders completed now, older ones of orders
\* that stay.
LEMMA HandleKeepsInv ==
  ASSUME CompletionInv, Handle
  PROVE  CompletionInv'
<1>1. IInv'
  BY NextInv DEF CompletionInv, Handle
<1>2. CallsMatchOrders'
  <2> SUFFICES ASSUME NEW call \in calls'
               PROVE  /\ call.orderId \in Order
                      /\ orders'[call.orderId].status = "COMPLETED"
                      /\ call.bill = Bill(orders'[call.orderId])
    BY DEF CallsMatchOrders, Bill, Lines
  <2>1. CASE call \in calls
    BY <2>1, CompletedStays DEF CompletionInv, CallsMatchOrders, Handle
  <2>2. CASE call \notin calls
    BY <2>2 DEF Handle, NewlyCompleted
  <2> QED
    BY <2>1, <2>2
<1>3. BookingsAreOfOrders'
  BY DEF CompletionInv, BookingsAreOfOrders, Handle, stock
<1>4. BookingsMatchOrders'
  <2> SUFFICES ASSUME NEW b \in bookings
               PROVE  /\ orders'[b.orderId].status = "COMPLETED"
                      /\ b.lines = RouteBill(Bill(orders'[b.orderId]), b.scope)
    BY DEF BookingsMatchOrders, Handle, stock, RouteBill, LinesOnRoute, Bill, Lines
  <2>1. orders'[b.orderId] = orders[b.orderId]
    BY CompletedStays DEF CompletionInv, BookingsMatchOrders, BookingsAreOfOrders, Handle
  <2> QED
    BY <2>1 DEF CompletionInv, BookingsMatchOrders
<1> QED
  BY <1>1, <1>2, <1>3, <1>4 DEF CompletionInv

\* The consumption books what the waiting call says, which is what the order says.
LEMMA CarryOutKeepsInv ==
  ASSUME CompletionInv, NEW call \in calls, NEW assigned, NEW routes,
         CarryOut(call, assigned, routes)
  PROVE  CompletionInv'
<1>1. UNCHANGED vars /\ calls' \subseteq calls
  BY CarryOutBooks
<1>2. UNCHANGED orders
  BY <1>1 DEF vars
<1>3. IInv'
  BY <1>1, NextInv DEF CompletionInv
<1>4. CallsMatchOrders'
  BY <1>1, <1>2 DEF CompletionInv, CallsMatchOrders, Bill, Lines
<1>5. /\ call.orderId \in Order
      /\ orders[call.orderId].status = "COMPLETED"
      /\ call.bill = Bill(orders[call.orderId])
  BY DEF CompletionInv, CallsMatchOrders
<1>6. ASSUME NEW b \in bookings'
      PROVE  /\ b.orderId \in Order
             /\ orders[b.orderId].status = "COMPLETED"
             /\ b.lines = RouteBill(Bill(orders[b.orderId]), b.scope)
  <2>1. CASE b \in bookings
    BY <2>1 DEF CompletionInv, BookingsMatchOrders, BookingsAreOfOrders
  <2>2. CASE b \notin bookings
    BY <1>5, <2>2, CarryOutBooks
  <2> QED
    BY <2>1, <2>2
<1>7. BookingsAreOfOrders'
  BY <1>6 DEF BookingsAreOfOrders
<1>8. BookingsMatchOrders'
  BY <1>2, <1>6 DEF BookingsMatchOrders
<1> QED
  BY <1>3, <1>4, <1>7, <1>8 DEF CompletionInv

\* Stock is only taken for completed orders, and for exactly the lines the stored order
\* shows (bar-service.ts, notifyCompletion; warehouse/service.ts, consumeCompletedOrder).
THEOREM BookingsCorrect == CompletionSpec => []BookingsMatchOrders
<1>1. CompletionInit => CompletionInv
  BY InitInv DEF CompletionInit, CompletionInv, CallsMatchOrders, BookingsAreOfOrders,
                 BookingsMatchOrders
<1>2. CompletionInv /\ [CompletionNext]_allVars => CompletionInv'
  <2> SUFFICES ASSUME CompletionInv, [CompletionNext]_allVars PROVE CompletionInv'
    OBVIOUS
  <2>1. CASE UNCHANGED allVars
    <3>1. UNCHANGED <<vars, orders, calls, bookings>>
      BY <2>1 DEF allVars, stock, vars
    <3>2. IInv'
      BY <3>1, NextInv DEF CompletionInv
    <3>3. CallsMatchOrders'
      BY <3>1 DEF CompletionInv, CallsMatchOrders, Bill, Lines
    <3>4. BookingsAreOfOrders'
      BY <3>1 DEF CompletionInv, BookingsAreOfOrders
    <3>5. \A b \in bookings : b.orderId \in Order
                             /\ orders[b.orderId].status = "COMPLETED"
                             /\ b.lines = RouteBill(Bill(orders[b.orderId]), b.scope)
      BY DEF CompletionInv, BookingsMatchOrders, BookingsAreOfOrders
    <3>6. orders' = orders /\ bookings' = bookings
      BY <3>1
    <3>7. BookingsMatchOrders'
      BY <3>5, <3>6 DEF BookingsMatchOrders
    <3> QED
      BY <3>2, <3>3, <3>4, <3>7 DEF CompletionInv
  <2> QED
    BY <2>1, CompletionSteps, HandleKeepsInv, CarryOutKeepsInv
<1>3. CompletionInv => BookingsMatchOrders
  BY DEF CompletionInv
<1> QED
  BY <1>1, <1>2, <1>3, PTL DEF CompletionSpec

-----------------------------------------------------------------------------
(* The screens.                                                             *)

\* A line that was sent and is not ready is offered to the Bar or to the Kitchen: one that
\* nobody prepares was ready when it was sent.
LEMMA UnreadyLineOffered ==
  ASSUME IInv, NEW o \in Order, Active(orders[o]), NEW i \in Submitted(orders[o]),
         orders[o].items[i].status # "READY"
  PROVE  OffersAdvance(o, i) \/ OffersAcceptPosition(o, i) \/ OffersMarkReady(o, i)
<1>1. RecordInv(orders[o]) /\ i \in Lines(orders[o]) /\ i \in Item
  BY DEF IInv, Submitted, Lines
<1>2. orders[o].items[i].status \in {"NEW", "PREPARING"}
  BY <1>1 DEF RecordInv, LinesConsistent, Lines, OrderRecord, ItemRecord, ItemStatus
<1>3. Route[i] \in {"BAR", "KITCHEN"}
  BY <1>1, RouteAssumption DEF RecordInv, LinesConsistent
<1>4. CASE Route[i] = "BAR"
  <2>1. NextBarStatus(orders[o].items[i].status) # "none"
    BY <1>2 DEF NextBarStatus
  <2> QED
    BY <1>4, <2>1 DEF OffersAdvance
<1>5. CASE Route[i] = "KITCHEN"
  <2>1. i \in KitchenItems(orders[o])
    BY <1>2, <1>5 DEF KitchenItems
  <2>2. HasTicket(o)
    BY <2>1 DEF HasTicket, Active
  <2> QED
    BY <1>1, <1>2, <2>1, <2>2 DEF OffersAcceptPosition, OffersMarkReady
<1> QED
  BY <1>3, <1>4, <1>5

\* A paid order can always be taken further from the screens: a line of it is to be prepared,
\* or it is to be handed over and the journal lists it as ready (bar-workspace-screen.tsx,
\* kitchen/screen.tsx).
THEOREM PaidOrdersOffered == Spec => []PaidOrdersGoOn
<1>1. IInv => PaidOrdersGoOn
  <2> SUFFICES ASSUME IInv, NEW o \in Order, Active(orders[o]), ~Unpaid(o)
               PROVE  \/ OffersIssue(o) /\ JournalShows("READY", o)
                      \/ \E i \in Item : OffersAdvance(o, i) \/ OffersAcceptPosition(o, i) \/ OffersMarkReady(o, i)
    BY DEF PaidOrdersGoOn
  <2>1. RecordInv(orders[o]) /\ orders[o].paymentStatus = "PAID"
    BY DEF IInv, RecordInv, OrderRecord, Unpaid
  <2>2. CASE \E i \in Submitted(orders[o]) : orders[o].items[i].status # "READY"
    BY <2>2, UnreadyLineOffered DEF Submitted, Lines
  <2>3. CASE \A i \in Submitted(orders[o]) : orders[o].items[i].status = "READY"
    <3>1. Submitted(orders[o]) = Lines(orders[o]) /\ Lines(orders[o]) # {}
      BY <2>1 DEF RecordInv
    <3>2. orders[o].status = "READY"
      BY <2>1, <2>3, <3>1 DEF RecordInv, PreparationStatus
    <3>3. ~orders[o].issuedAt
      BY <2>1, <3>2 DEF RecordInv
    <3> QED
      BY <2>3, <3>1, <3>2, <3>3 DEF OffersIssue, JournalShows, Drafts
  <2> QED
    BY <2>2, <2>3
<1> QED
  BY <1>1, Inductive, PTL

-----------------------------------------------------------------------------
(* The dialog of an order line: what it lets a user submit, for every      *)
(* offer of groups and options, and when a line cannot be edited any more. *)

\* What a form of the manager saves for a group.
OfferType(offer) ==
  \A g \in DOMAIN offer :
    /\ offer[g].required \in BOOLEAN
    /\ offer[g].multiple \in BOOLEAN
    /\ offer[g].minimum \in Nat
    /\ offer[g].maximum \in Nat

\* What is chosen of a group is a finite set.
LEMMA ChosenFinite ==
  ASSUME NEW sel, NEW g, IsFiniteSet(sel)
  PROVE  /\ IsFiniteSet(ChosenOf(sel, g))
         /\ Cardinality(ChosenOf(sel, g)) \in Nat
<1>1. ChosenOf(sel, g) \subseteq sel
  BY DEF ChosenOf
<1> QED
  BY <1>1, FS_Subset, FS_CardinalityType

\* Taking choices back leads out of no limit.
LEMMA FewerWithinOffer ==
  ASSUME NEW offer, NEW sel, NEW fewer \in SUBSET sel, OfferType(offer),
         IsFiniteSet(sel), WithinOffer(offer, sel)
  PROVE  IsFiniteSet(fewer) /\ WithinOffer(offer, fewer)
<1>1. IsFiniteSet(fewer)
  BY FS_Subset
<1>2. ASSUME NEW g \in DOMAIN offer
      PROVE  \/ Cardinality(ChosenOf(fewer, g)) <= 1
             \/ offer[g].multiple /\ Cardinality(ChosenOf(fewer, g)) <= offer[g].maximum
  <2>1. ChosenOf(fewer, g) \subseteq ChosenOf(sel, g)
    BY DEF ChosenOf
  <2>2. Cardinality(ChosenOf(fewer, g)) <= Cardinality(ChosenOf(sel, g))
    BY <2>1, ChosenFinite, FS_Subset
  <2>3. offer[g].maximum \in Nat
    BY DEF OfferType
  <2>4. Cardinality(ChosenOf(fewer, g)) \in Nat /\ Cardinality(ChosenOf(sel, g)) \in Nat
    BY <1>1, ChosenFinite
  <2> QED
    BY <2>2, <2>3, <2>4 DEF WithinOffer
<1> QED
  BY <1>1, <1>2 DEF WithinOffer

\* Whatever is clicked, the dialog holds options it offers, and of each group no more
\* than it may: one of a group with a single choice, at most the maximum of another.
THEOREM ToggleStaysWithinOffer ==
  ASSUME NEW offer, NEW sel, OfferType(offer), IsFiniteSet(sel), WithinOffer(offer, sel),
         NEW g \in DOMAIN offer, NEW o \in offer[g].options
  PROVE  /\ IsFiniteSet(Toggle(offer, sel, g, o))
         /\ WithinOffer(offer, Toggle(offer, sel, g, o))
<1> DEFINE p == <<g, o>>
           after == Toggle(offer, sel, g, o)
<1>1. CASE p \in sel \/ (offer[g].multiple /\ LimitReached(offer, sel, g))
  <2>1. after \in SUBSET sel
    BY <1>1 DEF Toggle
  <2> QED
    BY <2>1, FewerWithinOffer
<1>2. CASE p \notin sel /\ ~(offer[g].multiple /\ LimitReached(offer, sel, g))
  <2> DEFINE rest == IF offer[g].multiple THEN sel ELSE sel \ ChosenOf(sel, g)
  <2>1. after = rest \cup {p}
    BY <1>2 DEF Toggle
  <2>2. IsFiniteSet(rest) /\ WithinOffer(offer, rest)
    <3>1. rest \in SUBSET sel
      OBVIOUS
    <3> QED
      BY <3>1, FewerWithinOffer
  <2>3. IsFiniteSet(after)
    <3> HIDE DEF rest, after
    <3>1. IsFiniteSet(rest)
      BY <2>2
    <3>2. IsFiniteSet(rest \cup {p})
      BY <3>1, FS_AddElement
    <3> QED
      BY <2>1, <3>2
  <2>4. p \in Offered(offer)
    BY DEF Offered
  <2>5. after \subseteq Offered(offer)
    BY <2>1, <2>2, <2>4 DEF WithinOffer
  <2>6. ASSUME NEW h \in DOMAIN offer
        PROVE  \/ Cardinality(ChosenOf(after, h)) <= 1
               \/ offer[h].multiple /\ Cardinality(ChosenOf(after, h)) <= offer[h].maximum
    <3>1. CASE h # g
      <4>1. ChosenOf(after, h) = ChosenOf(rest, h)
        BY <2>1, <3>1 DEF ChosenOf
      <4> QED
        BY <4>1, <2>2 DEF WithinOffer
    <3>2. CASE h = g /\ offer[g].multiple
      <4>1. ChosenOf(after, g) = ChosenOf(sel, g) \cup {p}
        BY <2>1, <3>2 DEF ChosenOf
      <4>2. p \notin ChosenOf(sel, g)
        BY <1>2 DEF ChosenOf
      <4>3. Cardinality(ChosenOf(after, g)) = Cardinality(ChosenOf(sel, g)) + 1
        BY <4>1, <4>2, ChosenFinite, FS_AddElement
      <4>4. ~(Cardinality(ChosenOf(sel, g)) >= offer[g].maximum)
        BY <1>2, <3>2 DEF LimitReached
      <4>5. offer[g].maximum \in Nat /\ Cardinality(ChosenOf(sel, g)) \in Nat
        BY ChosenFinite DEF OfferType
      <4> QED
        BY <3>2, <4>3, <4>4, <4>5
    <3>3. CASE h = g /\ ~offer[g].multiple
      <4>1. ChosenOf(after, g) = {p}
        BY <2>1, <3>3 DEF ChosenOf
      <4>2. Cardinality({p}) = 1
        BY FS_Singleton
      <4>3. Cardinality(ChosenOf(after, h)) = 1
        BY <3>3, <4>1, <4>2
      <4> QED
        BY <4>3
    <3> QED
      BY <3>1, <3>2, <3>3
  <2> QED
    BY <2>3, <2>5, <2>6 DEF WithinOffer
<1> QED
  BY <1>1, <1>2

\* A new line: nothing is chosen yet.
LEMMA NothingWithinOffer ==
  ASSUME NEW offer
  PROVE  IsFiniteSet({}) /\ WithinOffer(offer, {})
<1>1. \A g : ChosenOf({}, g) = {}
  BY DEF ChosenOf
<1> QED
  BY <1>1, FS_EmptySet DEF WithinOffer

\* What the dialog lets a user submit is accepted by the service, and all of it is kept,
\* if the groups and options have not changed since the screen loaded them.
THEOREM ValidIsAccepted ==
  ASSUME NEW offer, NEW product, NEW sel, DOMAIN offer \subseteq product,
         OfferType(offer), IsFiniteSet(sel), WithinOffer(offer, sel), Valid(offer, sel)
  PROVE  Accepted(offer, product, sel) /\ Kept(offer, sel) = sel
<1>1. ASSUME NEW s \in sel
      PROVE  s[1] \in DOMAIN offer /\ s[2] \in offer[s[1]].options
  <2>1. PICK g \in DOMAIN offer : \E o \in offer[g].options : s = <<g, o>>
    BY DEF WithinOffer, Offered
  <2> QED
    BY <2>1
<1>2. ASSUME NEW g \in product \cap DOMAIN offer
      PROVE  /\ Valid([h \in {g} |-> offer[h]], sel)
             /\ ~offer[g].multiple => Cardinality(ChosenOf(sel, g)) <= 1
             /\ \A s \in ChosenOf(sel, g) : s[2] \in offer[g].options
  <2>1. Valid([h \in {g} |-> offer[h]], sel)
    BY DEF Valid
  <2>2. ~offer[g].multiple => Cardinality(ChosenOf(sel, g)) <= 1
    BY DEF WithinOffer
  <2>3. \A s \in ChosenOf(sel, g) : s[2] \in offer[g].options
    BY <1>1 DEF ChosenOf
  <2> QED
    BY <2>1, <2>2, <2>3
<1>3. \A s \in sel : s[1] \in product
  BY <1>1
<1>4. Kept(offer, sel) = sel
  BY <1>1 DEF Kept
<1> QED
  BY <1>2, <1>3, <1>4 DEF Accepted

-----------------------------------------------------------------------------
(* A line that is edited after a manager has changed the groups.           *)

\* A saved choice of a group that was taken off the product is shown nowhere: no click
\* removes it, and the service refuses the line whatever else is chosen.
THEOREM WithdrawnGroupSticks ==
  ASSUME NEW offer, NEW product, NEW sel, DOMAIN offer \subseteq product,
         NEW s \in sel, s[1] \notin product,
         NEW g \in DOMAIN offer, NEW o \in offer[g].options
  PROVE  /\ s \in Toggle(offer, sel, g, o)
         /\ ~Accepted(offer, product, Toggle(offer, sel, g, o))
<1>1. s[1] # g
  OBVIOUS
<1>2. s # <<g, o>> /\ s \notin ChosenOf(sel, g)
  BY <1>1 DEF ChosenOf
<1>3. s \in Toggle(offer, sel, g, o)
  BY <1>2 DEF Toggle
<1> QED
  BY <1>3 DEF Accepted

\* The same of a choice whose option was renamed or removed, in a group of which several
\* may be chosen; in a group with a single choice another option takes its place.
THEOREM RenamedOptionSticks ==
  ASSUME NEW offer, NEW product, NEW sel, NEW s \in sel, s[1] \in product \cap DOMAIN offer,
         offer[s[1]].multiple, s[2] \notin offer[s[1]].options,
         NEW g \in DOMAIN offer, NEW o \in offer[g].options
  PROVE  /\ s \in Toggle(offer, sel, g, o)
         /\ ~Accepted(offer, product, Toggle(offer, sel, g, o))
<1>1. s # <<g, o>>
  OBVIOUS
<1>2. s \in Toggle(offer, sel, g, o)
  BY <1>1 DEF Toggle, ChosenOf
<1>3. s \in ChosenOf(Toggle(offer, sel, g, o), s[1])
  BY <1>2 DEF ChosenOf
<1> QED
  BY <1>2, <1>3 DEF Accepted
=============================================================================
