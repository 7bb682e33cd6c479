-------------------------- MODULE WarehouseScreen --------------------------
(***************************************************************************)
(* What the Warehouse screen shows and offers (warehouse/screen.tsx): the  *)
(* list of balances, the forms, the inventory of a warehouse and the       *)
(* history.  It keeps nothing but the values of its filters and forms and  *)
(* is loaded anew after each change of the store, so that everything here  *)
(* is a function of the variables of Warehouse.                            *)
(*                                                                         *)
(* The filters by employee, by date and by text are left out, and with     *)
(* them the projections that only rename: quantities are in base units.    *)
(***************************************************************************)
EXTENDS Warehouse

NotSet == "any"  \* a filter that is not set

ASSUME NotSetAssumption == NotSet \notin WarehouseId \cup ResourceId

-----------------------------------------------------------------------------
(* Balances.                                                               *)

StatusOf(quantity) ==
  CASE quantity < 0 -> "NEGATIVE"
    [] quantity = 0 -> "OUT_OF_STOCK"
    [] OTHER -> "IN_STOCK"

\* One entry per warehouse and active resource, as loadState projects them.
Balances ==
  {[warehouseId |-> w, resourceId |-> r, quantity |-> SeenBalance(movements, w, r),
    status |-> StatusOf(SeenBalance(movements, w, r))] : w \in WarehouseId, r \in active}

\* The entries the list shows under its filters.
ListedBalances(w, status) ==
  {b \in Balances : w \in {NotSet, b.warehouseId} /\ status \in {NotSet, b.status}}

-----------------------------------------------------------------------------
(* The forms.                                                              *)

\* What the forms let a user choose: the lists of warehouses and of active resources.
\* The button of a transfer is disabled while source and destination are the same.
OffersQuantity(w, r) == w \in WarehouseId /\ r \in active
OffersTransfer(v, w, r) == OffersQuantity(v, r) /\ OffersQuantity(w, r) /\ v # w

\* The quantities a form takes from a balance that the list shows.
Available(w, r) == {q \in 1 .. MaxQuantity : \E b \in Balances :
                      b.warehouseId = w /\ b.resourceId = r /\ q <= b.quantity}

-----------------------------------------------------------------------------
(* The history.                                                            *)

\* The document a movement belongs to: the two halves of a transfer share theirs.
DocumentOf(m) == <<m.key[1], m.key[2]>>

Filtered(w, r, type) ==
  {m \in movements : /\ w \in {NotSet, m.warehouseId}
                     /\ r \in {NotSet, m.resourceId}
                     /\ type \in {NotSet, m.type}}

\* Mutant: the incoming half is hidden although its transfer is filtered out.
RowsWithoutArrivals(w, r, type) == {m \in Filtered(w, r, type) : m.type # "TRANSFER_IN"}

\* The incoming half of a transfer is hidden where the outgoing half is shown.
Rows(w, r, type) ==
  LET shown == Filtered(w, r, type)
  IN  {m \in shown :
         m.type = "TRANSFER_IN" =>
           \A n \in shown : n.type = "TRANSFER_OUT" => DocumentOf(n) # DocumentOf(m)}

\* The other half of a transfer: its warehouse is named as the destination, whichever
\* half the row is.
Paired(m) ==
  {n \in movements : /\ DocumentOf(n) = DocumentOf(m)
                     /\ n # m
                     /\ n.type \in {"TRANSFER_IN", "TRANSFER_OUT"}}

\* A row says how much was moved, from where and, of a transfer, to where.
AmountShown(m) == IF Paired(m) # {} /\ m.delta < 0 THEN -m.delta ELSE m.delta
Tells(row, m) ==
  \/ row = m
  \/ row \in Paired(m) /\ AmountShown(row) = m.delta

-----------------------------------------------------------------------------
(* Correctness.                                                            *)

\* The history of a warehouse accounts for the balance the list shows of each of its
\* resources, though it hides half of a transfer, and without a filter every movement is
\* told by one row, its own or that of the transfer it arrived by.
HistoryAccounts ==
  /\ \A b \in ListedBalances(NotSet, NotSet) :
       /\ Total(Rows(b.warehouseId, b.resourceId, NotSet)) = b.quantity
       /\ b \in ListedBalances(b.warehouseId, b.status)
  /\ \A m \in movements :
       Cardinality({row \in Rows(NotSet, NotSet, NotSet) : Tells(row, m)}) = 1

\* What the forms offer is carried out: goods that arrive always, and goods that leave
\* whenever they are no more than the balance shown, without a confirmation, from
\* whichever warehouse and however the other screens changed the stock meanwhile.
OfferedFormsAccepted ==
  \A w \in WarehouseId, r \in ResourceId, s \in Submission :
    OffersQuantity(w, r) =>
      /\ MaxQuantity > 0 => ENABLED AppendQuantity(s, w, r, MaxQuantity, "RECEIPT")
      /\ \A q \in Available(w, r) :
           /\ \A c \in Client : writeOffs[c] = None => ENABLED BeginWriteOff(c, s, w, r, q)
           /\ \A v \in WarehouseId : OffersTransfer(w, v, r) => ENABLED Transfer(s, w, v, r, q)

=============================================================================
