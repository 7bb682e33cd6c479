-------------------------- MODULE WarehouseProofs --------------------------
(***************************************************************************)
(* Proofs about Warehouse, and about Suppliers, for every value of their   *)
(* constants.                                                              *)
(*                                                                         *)
(* The ledger theorems rest on one relation between ledgers, Extends: what *)
(* is added has fresh keys, one movement each.  It is transitive, every    *)
(* call of the repository's appendBatch is one, and so is every action.    *)
(*                                                                         *)
(* The theorems about amounts rest on StoreInv, the shape of the store,    *)
(* and on what each step books (StepBooks): only transfers book halves of  *)
(* transfers, only postings book differences of inventories.               *)
(***************************************************************************)
EXTENDS WarehouseScreen, Suppliers, SumTheorems, TLAPS

OnePerKey(batch) == \A m, n \in batch : m.key = n.key => m = n

Fresh(old, new) == \A m \in new \ old, n \in old : m.key # n.key

Extends(old, new) ==
  /\ old \subseteq new
  /\ OnePerKey(new \ old)
  /\ Fresh(old, new)

\* A ledger extends itself: a call that books nothing is allowed.
LEMMA ExtendsSame == \A old : Extends(old, old)
  BY DEF Extends, OnePerKey, Fresh

\* Two calls of the repository, one after the other, extend the ledger.
LEMMA ExtendsTransitive ==
  ASSUME NEW old, NEW mid, NEW new, Extends(old, mid), Extends(mid, new)
  PROVE  Extends(old, new)
<1>1. old \subseteq new
  BY DEF Extends
<1>2. ASSUME NEW m \in new \ old, NEW n \in new \ old, m.key = n.key
      PROVE  m = n
  <2>1. CASE m \in mid /\ n \in mid
    BY <2>1, <1>2 DEF Extends, OnePerKey
  <2>2. CASE m \notin mid /\ n \notin mid
    BY <2>2, <1>2 DEF Extends, OnePerKey
  <2>3. CASE m \in mid /\ n \notin mid
    BY <2>3, <1>2 DEF Extends, Fresh
  <2>4. CASE m \notin mid /\ n \in mid
    BY <2>4, <1>2 DEF Extends, Fresh
  <2> QED
    BY <2>1, <2>2, <2>3, <2>4
<1>3. ASSUME NEW m \in new \ old, NEW n \in old
      PROVE  m.key # n.key
  BY <1>3 DEF Extends, Fresh
<1> QED
  BY <1>1, <1>2, <1>3 DEF Extends, OnePerKey, Fresh

\* appendBatch extends the ledger when its batch names no key twice, which the
\* repository refuses and no caller asks for.
LEMMA AppendedExtends ==
  ASSUME NEW old, NEW batch, OnePerKey(batch)
  PROVE  Extends(old, Appended(old, batch))
<1>1. CASE \E m \in batch : HasKey(old, m.key)
  BY <1>1, ExtendsSame DEF Appended
<1>2. CASE ~\E m \in batch : HasKey(old, m.key)
  <2>1. Appended(old, batch) = old \cup batch
    BY <1>2 DEF Appended
  <2>2. OnePerKey((old \cup batch) \ old)
    BY DEF OnePerKey
  <2>3. Fresh(old, old \cup batch)
    BY <1>2 DEF Fresh, HasKey
  <2> QED
    BY <2>1, <2>2, <2>3 DEF Extends
<1> QED
  BY <1>1, <1>2

\* A single movement is a batch without repeated keys.
LEMMA SingleMovement == \A m : OnePerKey({m})
  BY DEF OnePerKey

\* The migration of the opening documents extends the ledger: their identifiers
\* are unique, and those already booked are left out.
LEMMA MigratedExtends ==
  ASSUME NEW old
  PROVE  Extends(old, Migrated(old))
<1> DEFINE Unbooked == {d \in OpeningDocument : ~HasKey(old, <<"legacy-opening", d.id>>)}
           Batch == {OpeningMovement(d) : d \in Unbooked}
<1>1. Migrated(old) = old \cup Batch
  BY DEF Migrated
<1>2. \A d \in Unbooked : OpeningMovement(d).key = <<"legacy-opening", d.id>>
  BY DEF OpeningMovement, MovementOf
<1>3. OnePerKey(Batch)
  <2>1. SUFFICES ASSUME NEW d \in Unbooked, NEW e \in Unbooked,
                        OpeningMovement(d).key = OpeningMovement(e).key
                 PROVE  OpeningMovement(d) = OpeningMovement(e)
    BY DEF OnePerKey
  <2>2. d.id = e.id
    BY <1>2, <2>1
  <2> QED
    BY <2>2, OpeningIdAssumption
<1>4. \A m \in Batch, n \in old : m.key # n.key
  BY <1>2 DEF HasKey
<1> HIDE DEF Batch
<1> QED
  BY <1>1, <1>3, <1>4 DEF Extends, OnePerKey, Fresh

\* The two halves of a transfer have different keys.
LEMMA TransferKeys ==
  ASSUME NEW s, NEW v, NEW w, NEW r, NEW q
  PROVE  OnePerKey(TransferBatch(s, v, w, r, q))
  BY DEF OnePerKey, TransferBatch, MovementOf

\* An inventory books at most one difference for a resource.
LEMMA InventoryKeys ==
  ASSUME NEW i
  PROVE  OnePerKey(InventoryBatch(i))
  BY DEF OnePerKey, InventoryBatch, MovementOf

\* An order's route books at most one consumption of a resource.
LEMMA SaleKeys ==
  ASSUME NEW o, NEW scope, NEW w, NEW S
  PROVE  OnePerKey({SaleMovement(o, scope, r, w) : r \in S})
  BY DEF OnePerKey, SaleMovement, MovementOf

\* The lines of deliveries have unique identifiers.
LEMMA DeliveryKeys ==
  ASSUME NEW w, NEW lines \in SUBSET DeliveryLine
  PROVE  OnePerKey({MovementOf(<<"supplier-delivery", l.delivery, l.line>>, w, l.resourceId,
                               "RECEIPT", l.quantity) : l \in lines})
<1> DEFINE M(l) == MovementOf(<<"supplier-delivery", l.delivery, l.line>>, w, l.resourceId,
                              "RECEIPT", l.quantity)
<1>1. \A l \in lines : M(l).key = <<"supplier-delivery", l.delivery, l.line>>
  BY DEF MovementOf
<1>2. SUFFICES ASSUME NEW k \in lines, NEW l \in lines, M(k).key = M(l).key
               PROVE  M(k) = M(l)
  BY DEF OnePerKey
<1>3. k.delivery = l.delivery /\ k.line = l.line
  BY <1>1, <1>2
<1>4. k = l
  BY <1>3, DeliveryIdAssumption
<1> QED
  BY <1>4

\* Consuming an order books one route after the other.
LEMMA ConsumptionExtends ==
  ASSUME NEW o, NEW source, NEW scopes, ConsumeCompletedOrder(o, source, scopes)
  PROVE  Extends(movements, movements')
<1> DEFINE Batch(scope) == {SaleMovement(o, scope, r, source[scope]) : r \in Needed(o, scope)}
           routed == {scope \in scopes : Needed(o, scope) # {}}
           sound == {scope \in routed : IssueOf(o, scope, source[scope]) = {}}
           Route(ledger, scope) ==
             IF scope \in sound THEN Appended(ledger, Batch(scope)) ELSE ledger
           afterBar == Route(Migrated(movements), "bar")
<1>1. movements' = Route(afterBar, "kitchen")
  BY DEF ConsumeCompletedOrder
<1>2. ASSUME NEW ledger, NEW scope
      PROVE  Extends(ledger, Route(ledger, scope))
  <2>1. OnePerKey(Batch(scope))
    BY SaleKeys
  <2> HIDE DEF Batch, sound
  <2>2. CASE scope \in sound
    BY <2>1, <2>2, AppendedExtends
  <2>3. CASE scope \notin sound
    BY <2>3, ExtendsSame
  <2> QED
    BY <2>2, <2>3
<1> HIDE DEF Route
<1>3. Extends(movements, Migrated(movements))
  BY MigratedExtends
<1>4. Extends(Migrated(movements), afterBar)
  BY <1>2
<1>5. Extends(afterBar, movements')
  BY <1>1, <1>2
<1> HIDE DEF afterBar
<1>6. Extends(movements, afterBar)
  BY <1>3, <1>4, ExtendsTransitive
<1> QED
  BY <1>5, <1>6, ExtendsTransitive

\* An append after the migration every load runs.
LEMMA LoadedAppendExtends ==
  ASSUME NEW old, NEW batch, OnePerKey(batch)
  PROVE  Extends(old, Appended(Migrated(old), batch))
<1>1. Extends(old, Migrated(old))
  BY MigratedExtends
<1>2. Extends(Migrated(old), Appended(Migrated(old), batch))
  BY AppendedExtends
<1> QED
  BY <1>1, <1>2, ExtendsTransitive

\* Every action of the Warehouse extends the ledger.
LEMMA StepExtends ==
  ASSUME [Next]_vars
  PROVE  Extends(movements, movements')
<1>1. CASE LoadState
  BY <1>1, MigratedExtends DEF LoadState
<1>2. CASE ManualStep
  <2>1. PICK s \in Submission, w \in WarehouseId, r \in ResourceId, q \in 1 .. MaxQuantity :
          \/ \E type \in {"OPENING_BALANCE", "RECEIPT"} : AppendQuantity(s, w, r, q, type)
          \/ \E c \in Client : BeginWriteOff(c, s, w, r, q)
          \/ \E v \in WarehouseId : Transfer(s, v, w, r, q)
    BY <1>2 DEF ManualStep
  <2>2. CASE \E type \in {"OPENING_BALANCE", "RECEIPT"} : AppendQuantity(s, w, r, q, type)
    BY <2>2, SingleMovement, AppendedExtends DEF AppendQuantity
  <2>3. CASE \E c \in Client : BeginWriteOff(c, s, w, r, q)
    BY <2>3, MigratedExtends DEF BeginWriteOff
  <2>4. CASE \E v \in WarehouseId : Transfer(s, v, w, r, q)
    BY <2>4, TransferKeys, LoadedAppendExtends DEF Transfer
  <2> QED
    BY <2>1, <2>2, <2>3, <2>4
<1>3. ASSUME NEW c \in Client, FinishWriteOff(c)
      PROVE  Extends(movements, movements')
  BY <1>3, SingleMovement, AppendedExtends, ExtendsSame DEF FinishWriteOff
<1>4. ASSUME NEW c \in Client, FinishLineUpdate(c)
      PROVE  Extends(movements, movements')
  BY <1>4, ExtendsSame DEF FinishLineUpdate
<1>5. ASSUME NEW w \in WarehouseId, NEW lines \in SUBSET DeliveryLine,
             RecordSupplierDelivery(w, lines)
      PROVE  Extends(movements, movements')
  BY <1>5, DeliveryKeys, AppendedExtends DEF RecordSupplierDelivery
<1>6. CASE InventoryStep
  <2>1. PICK i \in InventoryId :
          \/ \E w \in WarehouseId : CreateInventory(i, w)
          \/ \E c \in Client, r \in ResourceId, n \in 0 .. MaxCount : BeginLineUpdate(c, i, r, n)
          \/ \E complete \in BOOLEAN : PostInventory(i, complete)
    BY <1>6 DEF InventoryStep
  <2>2. CASE \E w \in WarehouseId : CreateInventory(i, w)
    BY <2>2, MigratedExtends DEF CreateInventory
  <2>3. CASE \E c \in Client, r \in ResourceId, n \in 0 .. MaxCount : BeginLineUpdate(c, i, r, n)
    BY <2>3, MigratedExtends DEF BeginLineUpdate
  <2>4. CASE \E complete \in BOOLEAN : PostInventory(i, complete)
    BY <2>4, InventoryKeys, LoadedAppendExtends DEF PostInventory
  <2> QED
    BY <2>1, <2>2, <2>3, <2>4
<1>7. CASE ConsumptionStep
  BY <1>7, ConsumptionExtends DEF ConsumptionStep
<1>8. ASSUME NEW r \in Retirable, SetActive(r)
      PROVE  Extends(movements, movements')
  BY <1>8, ExtendsSame DEF SetActive
<1>9. CASE UNCHANGED vars
  BY <1>9, ExtendsSame DEF vars
<1> QED
  BY <1>1, <1>2, <1>3, <1>4, <1>5, <1>6, <1>7, <1>8, <1>9 DEF Next

\* The warehouse ledger implements StockLedger: under every interleaving of forms,
\* deliveries, inventories and consumption it only grows, by movements with new keys.
THEOREM LedgerImplemented == Spec => LedgerRefined
<1>1. Init => Ledger!Init
  BY DEF Init, Ledger!Init
<1>2. [Next]_vars => [Ledger!Append]_movements
  BY StepExtends DEF Extends, OnePerKey, Fresh, Ledger!Append, Ledger!OneMovementPerKey
<1> QED
  BY <1>1, <1>2, PTL DEF Spec, LedgerRefined, Ledger!Spec

\* What StockLedger promises follows from its steps alone.
LEMMA KeysUniqueStep ==
  ASSUME Ledger!KeysUnique, [Ledger!Append]_movements
  PROVE  Ledger!KeysUnique'
<1>1. CASE Ledger!Append
  <2>1. SUFFICES ASSUME NEW m \in movements', NEW n \in movements', m.key = n.key
                 PROVE  m = n
    BY DEF Ledger!KeysUnique, Ledger!OneMovementPerKey
  <2>2. CASE m \in movements /\ n \in movements
    BY <2>1, <2>2 DEF Ledger!KeysUnique, Ledger!OneMovementPerKey
  <2>3. CASE m \notin movements /\ n \notin movements
    BY <1>1, <2>1, <2>3 DEF Ledger!Append, Ledger!OneMovementPerKey
  <2>4. CASE (m \in movements) # (n \in movements)
    BY <1>1, <2>1, <2>4 DEF Ledger!Append
  <2> QED
    BY <2>2, <2>3, <2>4
<1>2. CASE UNCHANGED movements
  BY <1>2 DEF Ledger!KeysUnique, Ledger!OneMovementPerKey
<1> QED
  BY <1>1, <1>2

\* No idempotency key is ever booked twice.
THEOREM NothingBookedTwice == Spec => []Ledger!KeysUnique
<1>1. Init => Ledger!KeysUnique
  BY DEF Init, Ledger!KeysUnique, Ledger!OneMovementPerKey
<1>2. Ledger!KeysUnique /\ [Ledger!Append]_movements => Ledger!KeysUnique'
  BY KeysUniqueStep
<1>3. Spec => Ledger!Spec
  BY LedgerImplemented DEF LedgerRefined
<1> QED
  BY <1>1, <1>2, <1>3, PTL DEF Spec, Ledger!Spec

-----------------------------------------------------------------------------
(* Inventories.                                                            *)

\* The store always holds one entry, present or absent, for every inventory.
DocumentsIndexed == inventories = [i \in InventoryId |-> inventories[i]]

\* A saved document is filed under its own identifier.
LEMMA SavedIndexed ==
  ASSUME DocumentsIndexed, NEW i, NEW document
  PROVE  Saved(i, document) = [j \in InventoryId |-> Saved(i, document)[j]]
  BY DEF DocumentsIndexed, Saved

\* Only creating, editing and posting an inventory write documents.
LEMMA DocumentWriters ==
  ASSUME [Next]_vars
  PROVE  \/ inventories' = inventories
         \/ \E i \in InventoryId, w \in WarehouseId : CreateInventory(i, w)
         \/ \E c \in Client : FinishLineUpdate(c)
         \/ \E i \in InventoryId, complete \in BOOLEAN : PostInventory(i, complete)
<1>1. CASE LoadState
  BY <1>1 DEF LoadState
<1>2. CASE ManualStep
  BY <1>2 DEF ManualStep, AppendQuantity, BeginWriteOff, Transfer
<1>3. CASE \E c \in Client : FinishWriteOff(c) \/ FinishLineUpdate(c)
  BY <1>3 DEF FinishWriteOff
<1>4. CASE \E w \in WarehouseId, lines \in SUBSET DeliveryLine : RecordSupplierDelivery(w, lines)
  BY <1>4 DEF RecordSupplierDelivery
<1>5. CASE InventoryStep
  <2>1. ASSUME NEW c \in Client, NEW i \in InventoryId, NEW r \in ResourceId,
               NEW n \in 0 .. MaxCount, BeginLineUpdate(c, i, r, n)
        PROVE  inventories' = inventories
    BY <2>1 DEF BeginLineUpdate
  <2> QED
    BY <1>5, <2>1 DEF InventoryStep
<1>6. CASE ConsumptionStep
  BY <1>6 DEF ConsumptionStep, ConsumeCompletedOrder
<1>7. CASE \E r \in Retirable : SetActive(r)
  BY <1>7 DEF SetActive
<1>8. CASE UNCHANGED vars
  BY <1>8 DEF vars
<1> QED
  BY <1>1, <1>2, <1>3, <1>4, <1>5, <1>6, <1>7, <1>8 DEF Next

\* No writer overwrites a posted document.
LEMMA PostedKept ==
  ASSUME DocumentsIndexed, [Next]_vars, NEW i \in InventoryId, inventories[i].status = "POSTED"
  PROVE  inventories'[i] = inventories[i]
<1> USE DEF DocumentsIndexed, Saved
<1>1. ASSUME NEW j \in InventoryId, NEW w \in WarehouseId, CreateInventory(j, w)
      PROVE  inventories'[i] = inventories[i]
  BY <1>1 DEF CreateInventory
<1>2. ASSUME NEW c \in Client, FinishLineUpdate(c)
      PROVE  inventories'[i] = inventories[i]
  BY <1>2 DEF FinishLineUpdate
<1>3. ASSUME NEW j \in InventoryId, NEW complete \in BOOLEAN, PostInventory(j, complete)
      PROVE  inventories'[i] = inventories[i]
  <2>1. i # j
    BY <1>3 DEF PostInventory
  <2>2. inventories' = inventories \/ \E document : inventories' = Saved(j, document)
    BY <1>3 DEF PostInventory
  <2> QED
    BY <2>1, <2>2
<1> QED
  BY <1>1, <1>2, <1>3, DocumentWriters

\* Every step keeps the documents indexed.
LEMMA IndexedStep ==
  ASSUME DocumentsIndexed, [Next]_vars
  PROVE  DocumentsIndexed'
<1>1. inventories' = inventories \/ \E i, document : inventories' = Saved(i, document)
  <2>1. ASSUME NEW i \in InventoryId, NEW w \in WarehouseId, CreateInventory(i, w)
        PROVE  \E document : inventories' = Saved(i, document)
    BY <2>1 DEF CreateInventory
  <2>2. ASSUME NEW c \in Client, FinishLineUpdate(c)
        PROVE  inventories' = inventories \/ \E i, document : inventories' = Saved(i, document)
    BY <2>2 DEF FinishLineUpdate
  <2>3. ASSUME NEW i \in InventoryId, NEW complete \in BOOLEAN, PostInventory(i, complete)
        PROVE  inventories' = inventories \/ \E document : inventories' = Saved(i, document)
    BY <2>3 DEF PostInventory
  <2> QED
    BY <2>1, <2>2, <2>3, DocumentWriters
<1> QED
  BY <1>1, SavedIndexed DEF DocumentsIndexed

\* A posted inventory never changes again, for any number of clients that were editing
\* it when it was posted.
THEOREM PostedInventoriesKept == Spec => PostedInventoriesFinal
<1>1. Init => DocumentsIndexed
  BY DEF Init, DocumentsIndexed
<1>2. DocumentsIndexed /\ [Next]_vars => DocumentsIndexed'
  BY IndexedStep
<1>3. DocumentsIndexed /\ [Next]_vars =>
        [\A i \in InventoryId :
           inventories[i].status = "POSTED" => inventories'[i] = inventories[i]]_vars
  BY PostedKept
<1> QED
  BY <1>1, <1>2, <1>3, PTL DEF Spec, PostedInventoriesFinal

-----------------------------------------------------------------------------
(* Consumption.                                                            *)

Sold(ledger, o, scope) ==
  {m \in ledger : m.key[1] = "sale" /\ m.key[2] = o /\ m.key[3] = scope}

OneBatch(sales, o, scope) ==
  sales # {} =>
    \E w \in WarehouseId : sales = {SaleMovement(o, scope, r, w) : r \in Needed(o, scope)}

AllOneBatch(ledger) ==
  \A o \in Order, scope \in Scope : OneBatch(Sold(ledger, o, scope), o, scope)

\* What other documents book is no sale.
SalesKept(old, new) ==
  old \subseteq new /\ \A m \in new \ old : m.key[1] # "sale"

\* Movements that are no sales leave every order's consumption as it is.
LEMMA SaleFree ==
  ASSUME NEW old, NEW new, SalesKept(old, new), AllOneBatch(old)
  PROVE  AllOneBatch(new)
<1>1. \A o, scope : Sold(new, o, scope) = Sold(old, o, scope)
  BY DEF SalesKept, Sold
<1> QED
  BY <1>1 DEF AllOneBatch

\* A step that books nothing books no sale.
LEMMA SalesKeptSame == \A old : SalesKept(old, old)
  BY DEF SalesKept

\* appendBatch of movements that are no sales.
LEMMA AppendedSaleFree ==
  ASSUME NEW old, NEW batch, \A m \in batch : m.key[1] # "sale"
  PROVE  SalesKept(old, Appended(old, batch))
  BY DEF SalesKept, Appended

\* Openings are no sales.
LEMMA MigratedSaleFree ==
  ASSUME NEW old
  PROVE  SalesKept(old, Migrated(old))
<1>1. \A d : OpeningMovement(d).key[1] # "sale"
  BY DEF OpeningMovement, MovementOf
<1> QED
  BY <1>1 DEF SalesKept, Migrated

\* appendBatch after the migration, of movements that are no sales.
LEMMA LoadedAppendSaleFree ==
  ASSUME NEW old, NEW batch, \A m \in batch : m.key[1] # "sale"
  PROVE  SalesKept(old, Appended(Migrated(old), batch))
  BY AppendedSaleFree, MigratedSaleFree DEF SalesKept

\* One route of an order is booked as a whole or, if any of it is booked, not at all.
LEMMA RouteOneBatch ==
  ASSUME NEW ledger, AllOneBatch(ledger), NEW o \in Order, NEW scope \in Scope,
         NEW w \in WarehouseId
  PROVE  AllOneBatch(Appended(ledger, {SaleMovement(o, scope, r, w) : r \in Needed(o, scope)}))
<1> DEFINE Batch == {SaleMovement(o, scope, r, w) : r \in Needed(o, scope)}
<1>1. \A r, v : SaleMovement(o, scope, r, v).key = <<"sale", o, scope, r>>
  BY DEF SaleMovement, MovementOf
<1>2. CASE \E m \in Batch : HasKey(ledger, m.key)
  BY <1>2 DEF Appended
<1>3. CASE ~\E m \in Batch : HasKey(ledger, m.key)
  <2>1. Appended(ledger, Batch) = ledger \cup Batch
    BY <1>3 DEF Appended
  <2>2. Sold(ledger, o, scope) = {}
    <3>1. SUFFICES ASSUME Sold(ledger, o, scope) # {} PROVE FALSE
      OBVIOUS
    <3>2. PICK v \in WarehouseId :
            Sold(ledger, o, scope) = {SaleMovement(o, scope, r, v) : r \in Needed(o, scope)}
      BY <3>1 DEF AllOneBatch, OneBatch
    <3>3. PICK r \in Needed(o, scope) : SaleMovement(o, scope, r, v) \in ledger
      BY <3>1, <3>2 DEF Sold
    <3>4. SaleMovement(o, scope, r, w) \in Batch
      BY <3>3
    <3>5. HasKey(ledger, SaleMovement(o, scope, r, w).key)
      BY <1>1, <3>3 DEF HasKey
    <3> QED
      BY <1>3, <3>4, <3>5
  <2>3. Sold(ledger \cup Batch, o, scope) = Batch
    <3>1. \A m \in Batch : m.key[1] = "sale" /\ m.key[2] = o /\ m.key[3] = scope
      BY <1>1
    <3> HIDE DEF Batch
    <3> QED
      BY <2>2, <3>1 DEF Sold
  <2>4. ASSUME NEW p \in Order, NEW other \in Scope, p # o \/ other # scope
        PROVE  Sold(ledger \cup Batch, p, other) = Sold(ledger, p, other)
    <3>1. \A m \in Batch : m.key[2] = o /\ m.key[3] = scope
      BY <1>1
    <3> HIDE DEF Batch
    <3> QED
      BY <2>4, <3>1 DEF Sold
  <2>5. OneBatch(Batch, o, scope)
    BY DEF OneBatch
  <2> HIDE DEF Batch
  <2>6. ASSUME NEW p \in Order, NEW other \in Scope
        PROVE  OneBatch(Sold(ledger \cup Batch, p, other), p, other)
    <3>1. CASE p = o /\ other = scope
      BY <2>3, <2>5, <3>1
    <3>2. CASE p # o \/ other # scope
      BY <2>4, <3>2 DEF AllOneBatch
    <3> QED
      BY <3>1, <3>2
  <2>7. AllOneBatch(Appended(ledger, Batch))
    BY <2>1, <2>6 DEF AllOneBatch
  <2> QED
    BY <2>7 DEF Batch
<1> QED
  BY <1>2, <1>3

\* Consuming an order, whole or interrupted, keeps every route in one batch.
LEMMA ConsumptionOneBatch ==
  ASSUME AllOneBatch(movements), NEW o \in Order,
         NEW source \in [Scope -> WarehouseId \cup {NoWarehouse}], NEW scopes,
         ConsumeCompletedOrder(o, source, scopes)
  PROVE  AllOneBatch(movements')
<1> DEFINE Batch(scope) == {SaleMovement(o, scope, r, source[scope]) : r \in Needed(o, scope)}
           routed == {scope \in scopes : Needed(o, scope) # {}}
           sound == {scope \in routed : IssueOf(o, scope, source[scope]) = {}}
           Route(ledger, scope) ==
             IF scope \in sound THEN Appended(ledger, Batch(scope)) ELSE ledger
<1>1. movements' = Route(Route(Migrated(movements), "bar"), "kitchen")
  BY DEF ConsumeCompletedOrder
<1>2. ASSUME NEW ledger, AllOneBatch(ledger), NEW scope \in Scope
      PROVE  AllOneBatch(Route(ledger, scope))
  <2>1. CASE scope \in sound
    <3>1. source[scope] \in WarehouseId
      BY <2>1 DEF IssueOf
    <3>2. AllOneBatch(Appended(ledger, Batch(scope)))
      BY <1>2, <3>1, RouteOneBatch
    <3> HIDE DEF sound
    <3> QED
      BY <2>1, <3>2
  <2>2. CASE scope \notin sound
    BY <1>2, <2>2
  <2> QED
    BY <2>1, <2>2
<1>3. AllOneBatch(Migrated(movements))
  BY MigratedSaleFree, SaleFree
<1> HIDE DEF Route
<1>4. AllOneBatch(Route(Migrated(movements), "bar"))
  BY <1>2, <1>3 DEF Scope
<1> QED
  BY <1>1, <1>2, <1>4 DEF Scope

\* A write-off that waits for its access checks carries the key of its form and its own type.
WriteOffsManual ==
  /\ writeOffs = [c \in Client |-> writeOffs[c]]
  /\ \A c \in Client :
       writeOffs[c] # None => writeOffs[c].key[1] = "manual" /\ writeOffs[c].type = "WRITE_OFF"

SalesInv == AllOneBatch(movements) /\ WriteOffsManual

\* Waiting write-offs keep the keys of their forms.
LEMMA WriteOffsStep ==
  ASSUME WriteOffsManual, [Next]_vars
  PROVE  WriteOffsManual'
<1>1. CASE UNCHANGED writeOffs
  BY <1>1 DEF WriteOffsManual
<1>2. ASSUME NEW c \in Client, FinishWriteOff(c)
      PROVE  WriteOffsManual'
  BY <1>2 DEF FinishWriteOff, WriteOffsManual
<1>3. ASSUME NEW c \in Client, NEW s, NEW w, NEW r, NEW q, BeginWriteOff(c, s, w, r, q)
      PROVE  WriteOffsManual'
  <2> DEFINE m == MovementOf(<<"manual", s>>, w, r, "WRITE_OFF", -q)
  <2>1. m.key[1] = "manual" /\ m.type = "WRITE_OFF"
    BY DEF MovementOf
  <2>2. writeOffs' = [writeOffs EXCEPT ![c] = m]
    BY <1>3 DEF BeginWriteOff
  <2> HIDE DEF m
  <2> QED
    BY <2>1, <2>2 DEF WriteOffsManual
<1>4. \/ UNCHANGED writeOffs
      \/ \E c \in Client : FinishWriteOff(c)
      \/ \E c \in Client : \E s, w, r, q : BeginWriteOff(c, s, w, r, q)
  <2>1. CASE LoadState
    BY <2>1 DEF LoadState
  <2>2. CASE ManualStep
    BY <2>2 DEF ManualStep, AppendQuantity, Transfer
  <2>3. CASE \E c \in Client : FinishWriteOff(c) \/ FinishLineUpdate(c)
    BY <2>3 DEF FinishLineUpdate
  <2>4. CASE \E w \in WarehouseId, lines \in SUBSET DeliveryLine : RecordSupplierDelivery(w, lines)
    BY <2>4 DEF RecordSupplierDelivery
  <2>5. CASE InventoryStep
    BY <2>5 DEF InventoryStep, CreateInventory, BeginLineUpdate, PostInventory
  <2>6. CASE ConsumptionStep
    BY <2>6 DEF ConsumptionStep, ConsumeCompletedOrder
  <2>7. CASE \E r \in Retirable : SetActive(r)
    BY <2>7 DEF SetActive
  <2>8. CASE UNCHANGED vars
    BY <2>8 DEF vars
  <2> QED
    BY <2>1, <2>2, <2>3, <2>4, <2>5, <2>6, <2>7, <2>8 DEF Next
<1> QED
  BY <1>1, <1>2, <1>3, <1>4

\* Every step but consumption books no sale.
LEMMA StepOneBatch ==
  ASSUME SalesInv, [Next]_vars
  PROVE  AllOneBatch(movements')
<1> USE DEF SalesInv
<1>1. ASSUME NEW o \in Order, NEW source \in [Scope -> WarehouseId \cup {NoWarehouse}],
             NEW scopes, ConsumeCompletedOrder(o, source, scopes)
      PROVE  AllOneBatch(movements')
  BY <1>1, ConsumptionOneBatch
<1>2. CASE LoadState
  BY <1>2, MigratedSaleFree, SaleFree DEF LoadState
<1>3. ASSUME NEW s, NEW w, NEW r, NEW q, NEW type, AppendQuantity(s, w, r, q, type)
      PROVE  SalesKept(movements, movements')
  <2>1. MovementOf(<<"manual", s>>, w, r, type, q).key[1] # "sale"
    BY DEF MovementOf
  <2> QED
    BY <1>3, <2>1, AppendedSaleFree DEF AppendQuantity
<1>4. ASSUME NEW c, NEW s, NEW w, NEW r, NEW q, BeginWriteOff(c, s, w, r, q)
      PROVE  SalesKept(movements, movements')
  BY <1>4, MigratedSaleFree DEF BeginWriteOff
<1>5. ASSUME NEW s, NEW v, NEW w, NEW r, NEW q, Transfer(s, v, w, r, q)
      PROVE  SalesKept(movements, movements')
  <2>1. \A m \in TransferBatch(s, v, w, r, q) : m.key[1] # "sale"
    BY DEF TransferBatch, MovementOf
  <2> QED
    BY <1>5, <2>1, LoadedAppendSaleFree DEF Transfer
<1>6. CASE ManualStep
  BY <1>3, <1>4, <1>5, <1>6, SaleFree DEF ManualStep
<1>7. ASSUME NEW c \in Client, FinishWriteOff(c)
      PROVE  SalesKept(movements, movements')
  <2>1. \A m \in {writeOffs[c]} : m.key[1] # "sale"
    BY <1>7 DEF FinishWriteOff, WriteOffsManual
  <2> QED
    BY <1>7, <2>1, AppendedSaleFree, SalesKeptSame DEF FinishWriteOff
<1>8. ASSUME NEW c \in Client, FinishLineUpdate(c)
      PROVE  SalesKept(movements, movements')
  BY <1>8, SalesKeptSame DEF FinishLineUpdate
<1>9. ASSUME NEW w, NEW lines, RecordSupplierDelivery(w, lines)
      PROVE  SalesKept(movements, movements')
  <2>1. \A m \in {MovementOf(<<"supplier-delivery", l.delivery, l.line>>, w, l.resourceId,
                             "RECEIPT", l.quantity) : l \in lines} : m.key[1] # "sale"
    BY DEF MovementOf
  <2> QED
    BY <1>9, <2>1, AppendedSaleFree DEF RecordSupplierDelivery
<1>10. ASSUME NEW i, NEW complete, PostInventory(i, complete)
       PROVE  SalesKept(movements, movements')
  <2>1. \A m \in InventoryBatch(i) : m.key[1] # "sale"
    BY DEF InventoryBatch, MovementOf
  <2> QED
    BY <1>10, <2>1, LoadedAppendSaleFree DEF PostInventory
<1>11. ASSUME NEW i, NEW w, CreateInventory(i, w)
       PROVE  SalesKept(movements, movements')
  BY <1>11, MigratedSaleFree DEF CreateInventory
<1>12. ASSUME NEW c, NEW i, NEW r, NEW n, BeginLineUpdate(c, i, r, n)
       PROVE  SalesKept(movements, movements')
  BY <1>12, MigratedSaleFree DEF BeginLineUpdate
<1>13. CASE InventoryStep
  BY <1>10, <1>11, <1>12, <1>13, SaleFree DEF InventoryStep
<1>14. CASE \E r \in Retirable : SetActive(r)
  BY <1>14, SalesKeptSame, SaleFree DEF SetActive
<1>15. CASE UNCHANGED vars
  BY <1>15, SalesKeptSame, SaleFree DEF vars
<1> QED
  BY <1>1, <1>2, <1>6, <1>7, <1>8, <1>9, <1>13, <1>14, <1>15, SaleFree
     DEF Next, ConsumptionStep

\* An order's lines on one route are consumed together, once and from one warehouse.
THEOREM ConsumptionAtomic == Spec => []SalesAtomic
<1>1. Init => SalesInv
  BY DEF Init, SalesInv, AllOneBatch, OneBatch, Sold, WriteOffsManual
<1>2. SalesInv /\ [Next]_vars => SalesInv'
  BY StepOneBatch, WriteOffsStep DEF SalesInv, AllOneBatch
<1>3. SalesInv => SalesAtomic
  BY DEF SalesInv, AllOneBatch, OneBatch, Sold, SalesAtomic, SalesOf
<1> QED
  BY <1>1, <1>2, <1>3, PTL DEF Spec

-----------------------------------------------------------------------------
(* The shape of the store.                                                 *)

LedgerTyped(ledger) == ledger \subseteq Movement /\ IsFiniteSet(ledger)

Typed == TypeOK /\ IsFiniteSet(movements)

\* The values of a function on a finite set are finitely many.
LEMMA ImageFinite ==
  ASSUME NEW S, IsFiniteSet(S), NEW f, f = [x \in S |-> f[x]]
  PROVE  IsFiniteSet({f[x] : x \in S})
<1>1. f \in Surjection(S, {f[x] : x \in S})
  BY DEF Surjection
<1> QED
  BY <1>1, FS_Surjection

\* A call of the repository keeps the ledger a finite set of movements.
LEMMA AppendedTyped ==
  ASSUME NEW old, NEW batch, LedgerTyped(old), LedgerTyped(batch)
  PROVE  LedgerTyped(Appended(old, batch))
BY FS_Union DEF LedgerTyped, Appended

\* So does the migration of the opening documents.
LEMMA MigratedTyped ==
  ASSUME NEW old, LedgerTyped(old)
  PROVE  LedgerTyped(Migrated(old))
<1> DEFINE Unbooked == {d \in OpeningDocument : ~HasKey(old, <<"legacy-opening", d.id>>)}
           Batch == {OpeningMovement(d) : d \in Unbooked}
<1>1. ASSUME NEW d \in OpeningDocument
      PROVE  OpeningMovement(d) \in Movement
  <2>1. <<"legacy-opening", d.id>> \in Key
    BY DEF Key
  <2> QED
    BY <2>1, OpeningAssumption DEF OpeningMovement, MovementOf, Movement, MovementType
<1>2. IsFiniteSet(Unbooked)
  BY FiniteAssumption, FS_Subset
<1>3. IsFiniteSet(Batch)
  <2> DEFINE f == [d \in Unbooked |-> OpeningMovement(d)]
  <2>1. Batch = {f[d] : d \in Unbooked} /\ f = [d \in Unbooked |-> f[d]]
    OBVIOUS
  <2> HIDE DEF Unbooked, f, Batch
  <2> QED
    BY <1>2, <2>1, ImageFinite
<1>4. Batch \subseteq Movement
  BY <1>1
<1>5. Migrated(old) = old \cup Batch
  BY DEF Migrated
<1> HIDE DEF Batch
<1> QED
  BY <1>3, <1>4, <1>5, FS_Union DEF LedgerTyped

\* What the handlers book.
LEMMA ManualMovement ==
  ASSUME NEW s \in Submission, NEW w \in WarehouseId, NEW r \in ResourceId,
         NEW type \in MovementType, NEW delta \in Int
  PROVE  MovementOf(<<"manual", s>>, w, r, type, delta) \in Movement
<1>1. <<"manual", s>> \in Key
  BY DEF Key
<1> QED
  BY <1>1 DEF MovementOf, Movement

\* The batch of a transfer.
LEMMA TransferTyped ==
  ASSUME NEW s \in Submission, NEW v \in WarehouseId, NEW w \in WarehouseId,
         NEW r \in ResourceId, NEW q \in Int
  PROVE  LedgerTyped(TransferBatch(s, v, w, r, q))
<1>1. <<"transfer", s, "out">> \in Key /\ <<"transfer", s, "in">> \in Key
  BY DEF Key
<1>2. TransferBatch(s, v, w, r, q) \subseteq Movement
  BY <1>1 DEF TransferBatch, MovementOf, Movement, MovementType
<1>3. IsFiniteSet(TransferBatch(s, v, w, r, q))
  <2> DEFINE out == MovementOf(<<"transfer", s, "out">>, v, r, "TRANSFER_OUT", -q)
             in == MovementOf(<<"transfer", s, "in">>, w, r, "TRANSFER_IN", q)
  <2>1. TransferBatch(s, v, w, r, q) = {out} \cup {in}
    BY DEF TransferBatch
  <2> HIDE DEF out, in
  <2> QED
    <3>1. IsFiniteSet({out}) /\ IsFiniteSet({in})
      BY FS_Singleton, Zenon
    <3>2. IsFiniteSet({out} \cup {in})
      BY <3>1, FS_AddElement, Zenon
    <3> QED
      BY <2>1, <3>2, Zenon
<1> QED
  BY <1>2, <1>3 DEF LedgerTyped

\* The batch of a delivery.
LEMMA DeliveryTyped ==
  ASSUME NEW w \in WarehouseId, NEW lines \in SUBSET DeliveryLine
  PROVE  LedgerTyped({MovementOf(<<"supplier-delivery", l.delivery, l.line>>, w, l.resourceId,
                                 "RECEIPT", l.quantity) : l \in lines})
<1>1. ASSUME NEW l \in lines
      PROVE  MovementOf(<<"supplier-delivery", l.delivery, l.line>>, w, l.resourceId,
                        "RECEIPT", l.quantity) \in Movement
  <2>1. <<"supplier-delivery", l.delivery, l.line>> \in Key
    BY DEF Key
  <2> QED
    BY <2>1, DeliveryAssumption DEF MovementOf, Movement, MovementType
<1>2. IsFiniteSet(lines)
  BY FiniteAssumption, FS_Subset
<1>3. IsFiniteSet({MovementOf(<<"supplier-delivery", l.delivery, l.line>>, w, l.resourceId,
                              "RECEIPT", l.quantity) : l \in lines})
  <2> DEFINE f == [l \in lines |-> MovementOf(<<"supplier-delivery", l.delivery, l.line>>, w,
                                              l.resourceId, "RECEIPT", l.quantity)]
  <2>1. f = [l \in lines |-> f[l]]
    OBVIOUS
  <2>2. IsFiniteSet({f[l] : l \in lines})
    <3> HIDE DEF f
    <3> QED
      BY <1>2, <2>1, ImageFinite
  <2> QED
    BY <2>2
<1> QED
  BY <1>1, <1>3 DEF LedgerTyped

\* The batch of an inventory.
LEMMA InventoryTyped ==
  ASSUME NEW i \in InventoryId, inventories[i] \in InventoryDocument,
         inventories[i].warehouseId \in WarehouseId
  PROVE  LedgerTyped(InventoryBatch(i))
<1> DEFINE document == inventories[i]
           Differing == {q \in document.resources \cap active : Difference(document, q) # 0}
           M(r) == MovementOf(<<"inventory", i, r>>, document.warehouseId, r,
                     IF Difference(document, r) > 0
                       THEN "INVENTORY_SURPLUS" ELSE "INVENTORY_SHORTAGE",
                     Difference(document, r))
<1>1. InventoryBatch(i) = {M(r) : r \in Differing}
  BY DEF InventoryBatch
<1>2. ASSUME NEW r \in Differing
      PROVE  M(r) \in Movement
  <2>1. r \in ResourceId /\ Difference(document, r) \in Int
    BY DEF InventoryDocument, Difference
  <2>2. <<"inventory", i, r>> \in Key
    BY <2>1 DEF Key
  <2> QED
    BY <2>1, <2>2 DEF MovementOf, Movement, MovementType
<1>3. IsFiniteSet(Differing)
  <2>1. Differing \subseteq ResourceId
    BY DEF InventoryDocument
  <2> QED
    BY <2>1, FiniteAssumption, FS_Subset
<1> HIDE DEF M, Differing
<1>4. IsFiniteSet({M(r) : r \in Differing})
  <2> DEFINE f == [r \in Differing |-> M(r)]
  <2>1. {M(r) : r \in Differing} = {f[r] : r \in Differing} /\ f = [r \in Differing |-> f[r]]
    OBVIOUS
  <2> HIDE DEF f
  <2> QED
    BY <1>3, <2>1, ImageFinite
<1> QED
  BY <1>1, <1>2, <1>4 DEF LedgerTyped

\* The batch of one route of an order.
LEMMA SalesTyped ==
  ASSUME NEW o \in Order, NEW scope \in Scope, NEW w \in WarehouseId
  PROVE  LedgerTyped({SaleMovement(o, scope, r, w) : r \in Needed(o, scope)})
<1>1. ASSUME NEW r \in Needed(o, scope)
      PROVE  SaleMovement(o, scope, r, w) \in Movement
  <2>1. r \in ResourceId /\ Need[o][scope][r] \in Nat
    BY NeedAssumption DEF Needed
  <2>2. <<"sale", o, scope, r>> \in Key
    BY <2>1 DEF Key
  <2> QED
    BY <2>1, <2>2 DEF SaleMovement, MovementOf, Movement, MovementType
<1>2. IsFiniteSet(Needed(o, scope))
  <2>1. Needed(o, scope) \subseteq ResourceId
    BY DEF Needed
  <2> QED
    BY <2>1, FiniteAssumption, FS_Subset
<1>3. IsFiniteSet({SaleMovement(o, scope, r, w) : r \in Needed(o, scope)})
  <2> DEFINE f == [r \in Needed(o, scope) |-> SaleMovement(o, scope, r, w)]
  <2>1. /\ {SaleMovement(o, scope, r, w) : r \in Needed(o, scope)} = {f[r] : r \in Needed(o, scope)}
        /\ f = [r \in Needed(o, scope) |-> f[r]]
    OBVIOUS
  <2> HIDE DEF f
  <2> QED
    BY <1>2, <2>1, ImageFinite
<1> QED
  BY <1>1, <1>3 DEF LedgerTyped

-----------------------------------------------------------------------------
(* Balances.                                                               *)

\* What a finite set of movements adds up to.
LEMMA TotalType ==
  ASSUME NEW ms, LedgerTyped(ms)
  PROVE  Total(ms) \in Int
<1>1. \A m \in ms : [n \in ms |-> n.delta][m] \in Int
  BY DEF LedgerTyped, Movement
<1> HIDE DEF LedgerTyped
<1> QED
  BY <1>1, SumType DEF Total, LedgerTyped

\* Nothing adds up to zero.
LEMMA TotalEmpty == Total({}) = 0
BY SumEmpty DEF Total

\* One movement more.
LEMMA TotalAdd ==
  ASSUME NEW ms, LedgerTyped(ms), NEW m \in Movement, m \notin ms
  PROVE  Total(ms \cup {m}) = Total(ms) + m.delta
<1> DEFINE f == [n \in ms |-> n.delta]
           g == [n \in ms \cup {m} |-> n.delta]
<1>1. \A n \in ms \cup {m} : g[n] \in Int
  BY DEF LedgerTyped, Movement
<1>2. \A n \in ms : f[n] = g[n]
  OBVIOUS
<1>3. g[m] = m.delta
  OBVIOUS
<1>4. IsFiniteSet(ms)
  BY DEF LedgerTyped
<1> HIDE DEF f, g
<1>5. SumFunctionOnSet(g, ms \cup {m}) = SumFunctionOnSet(g, ms) + g[m]
  BY <1>1, <1>4, SumAdd
<1>6. SumFunctionOnSet(f, ms) = SumFunctionOnSet(g, ms)
  BY <1>2, <1>4, SumSame
<1> QED
  BY <1>3, <1>5, <1>6 DEF Total, f, g

\* A movement alone.
LEMMA TotalSingle ==
  ASSUME NEW m \in Movement
  PROVE  Total({m}) = m.delta
<1>1. LedgerTyped({})
  BY FS_EmptySet DEF LedgerTyped
<1>2. Total({} \cup {m}) = Total({}) + m.delta
  BY <1>1, TotalAdd
<1>3. m.delta \in Int /\ {} \cup {m} = {m}
  BY DEF Movement
<1> QED
  BY <1>2, <1>3, TotalEmpty

\* The balance of a warehouse is an integer.
LEMMA BalanceType ==
  ASSUME NEW ledger, LedgerTyped(ledger), NEW w, NEW r
  PROVE  BalanceIn(ledger, w, r) \in Int /\ SeenBalance(ledger, w, r) \in Int
<1> DEFINE ms == {m \in ledger : m.warehouseId = w /\ m.resourceId = r}
<1>1. LedgerTyped(ms)
  BY FS_Subset DEF LedgerTyped
<1> HIDE DEF ms
<1>2. Total(ms) \in Int
  BY <1>1, TotalType
<1> QED
  BY <1>2 DEF BalanceIn, SeenBalance, ms

-----------------------------------------------------------------------------
(* The store keeps its shape.                                              *)

\* An inventory that was created has its warehouse, also in the copy a client edits, which it
\* took from a draft.
DocumentsPlaced ==
  /\ \A i \in InventoryId :
       inventories[i].status # "ABSENT" => inventories[i].warehouseId \in WarehouseId
  /\ \A c \in Client :
       lineEdits[c] # None =>
         /\ lineEdits[c].document.status = "DRAFT"
         /\ lineEdits[c].document.warehouseId \in WarehouseId

StoreInv == TypeOK /\ IsFiniteSet(movements) /\ WriteOffsManual /\ DocumentsPlaced

\* What each route of a completed order books.
LEMMA ConsumptionTyped ==
  ASSUME LedgerTyped(movements), NEW o \in Order,
         NEW source \in [Scope -> WarehouseId \cup {NoWarehouse}], NEW scopes \in SUBSET Scope,
         ConsumeCompletedOrder(o, source, scopes)
  PROVE  LedgerTyped(movements') /\ issues' \subseteq issues \cup Issue
<1> DEFINE Batch(scope) == {SaleMovement(o, scope, r, source[scope]) : r \in Needed(o, scope)}
           routed == {scope \in scopes : Needed(o, scope) # {}}
           sound == {scope \in routed : IssueOf(o, scope, source[scope]) = {}}
           Route(ledger, scope) ==
             IF scope \in sound THEN Appended(ledger, Batch(scope)) ELSE ledger
<1>1. /\ movements' = Route(Route(Migrated(movements), "bar"), "kitchen")
      /\ issues' = issues \cup UNION {IssueOf(o, scope, source[scope]) : scope \in routed}
  BY DEF ConsumeCompletedOrder
<1>2. ASSUME NEW ledger, LedgerTyped(ledger), NEW scope \in Scope
      PROVE  LedgerTyped(Route(ledger, scope))
  <2>1. CASE scope \in sound
    <3>1. source[scope] \in WarehouseId
      BY <2>1 DEF IssueOf
    <3>2. LedgerTyped(Appended(ledger, Batch(scope)))
      BY <1>2, <3>1, SalesTyped, AppendedTyped
    <3> HIDE DEF sound
    <3> QED
      BY <2>1, <3>2
  <2>2. CASE scope \notin sound
    BY <1>2, <2>2
  <2> QED
    BY <2>1, <2>2
<1>3. LedgerTyped(Migrated(movements))
  BY MigratedTyped
<1>4. \A scope \in routed : IssueOf(o, scope, source[scope]) \subseteq Issue
  BY DEF IssueOf, Issue
<1> HIDE DEF Route, routed
<1>5. LedgerTyped(Route(Migrated(movements), "bar"))
  BY <1>2, <1>3 DEF Scope
<1>6. LedgerTyped(movements')
  BY <1>1, <1>2, <1>5 DEF Scope
<1> QED
  BY <1>1, <1>4, <1>6

\* Every step keeps the ledger a finite set of movements.
LEMMA LedgerStep ==
  ASSUME StoreInv, [Next]_vars
  PROVE  LedgerTyped(movements')
<1>0. LedgerTyped(movements)
  BY DEF StoreInv, TypeOK, LedgerTyped
<1>1. LedgerTyped(Migrated(movements))
  BY <1>0, MigratedTyped
<1>2. ASSUME NEW m \in Movement
      PROVE  LedgerTyped({m})
  BY FS_Singleton DEF LedgerTyped
<1>3. CASE ManualStep
  <2>1. PICK s \in Submission, w \in WarehouseId, r \in ResourceId, q \in 1 .. MaxQuantity :
          \/ \E type \in {"OPENING_BALANCE", "RECEIPT"} : AppendQuantity(s, w, r, q, type)
          \/ \E c \in Client : BeginWriteOff(c, s, w, r, q)
          \/ \E v \in WarehouseId : Transfer(s, v, w, r, q)
    BY <1>3 DEF ManualStep
  <2>2. q \in Int
    OBVIOUS
  <2>3. ASSUME NEW type \in {"OPENING_BALANCE", "RECEIPT"}, AppendQuantity(s, w, r, q, type)
        PROVE  LedgerTyped(movements')
    <3>1. MovementOf(<<"manual", s>>, w, r, type, q) \in Movement
      BY <2>2, ManualMovement DEF MovementType
    <3> QED
      BY <1>0, <1>2, <2>3, <3>1, AppendedTyped DEF AppendQuantity
  <2>4. ASSUME NEW c \in Client, BeginWriteOff(c, s, w, r, q)
        PROVE  LedgerTyped(movements')
    BY <1>1, <2>4 DEF BeginWriteOff
  <2>5. ASSUME NEW v \in WarehouseId, Transfer(s, v, w, r, q)
        PROVE  LedgerTyped(movements')
    BY <1>1, <2>2, <2>5, TransferTyped, AppendedTyped DEF Transfer
  <2> QED
    BY <2>1, <2>3, <2>4, <2>5
<1>4. ASSUME NEW c \in Client, FinishWriteOff(c)
      PROVE  LedgerTyped(movements')
  <2>1. writeOffs[c] \in Movement
    BY <1>4 DEF FinishWriteOff, StoreInv, TypeOK
  <2> QED
    BY <1>0, <1>2, <1>4, <2>1, AppendedTyped DEF FinishWriteOff
<1>5. ASSUME NEW w \in WarehouseId, NEW lines \in SUBSET DeliveryLine,
             RecordSupplierDelivery(w, lines)
      PROVE  LedgerTyped(movements')
  BY <1>0, <1>5, DeliveryTyped, AppendedTyped DEF RecordSupplierDelivery
<1>6. ASSUME NEW i \in InventoryId, NEW complete \in BOOLEAN, PostInventory(i, complete)
      PROVE  LedgerTyped(movements')
  <2>1. inventories[i] \in InventoryDocument /\ inventories[i].warehouseId \in WarehouseId
    BY <1>6 DEF PostInventory, StoreInv, TypeOK, DocumentsPlaced
  <2> QED
    BY <1>1, <1>6, <2>1, InventoryTyped, AppendedTyped DEF PostInventory
<1>7. CASE InventoryStep
  BY <1>1, <1>6, <1>7 DEF InventoryStep, CreateInventory, BeginLineUpdate
<1>8. CASE ConsumptionStep
  <2>1. PICK o \in Order, source \in [Scope -> WarehouseId \cup {NoWarehouse}],
             scopes \in {{}, {"bar"}, Scope} : ConsumeCompletedOrder(o, source, scopes)
    BY <1>8 DEF ConsumptionStep
  <2>2. scopes \in SUBSET Scope
    BY DEF Scope
  <2> QED
    BY <1>0, <2>1, <2>2, ConsumptionTyped
<1>9. CASE LoadState
  BY <1>1, <1>9 DEF LoadState
<1>10. CASE (\E c \in Client : FinishLineUpdate(c)) \/ (\E r \in Retirable : SetActive(r)) \/ UNCHANGED vars
  BY <1>0, <1>10 DEF FinishLineUpdate, SetActive, vars
<1> QED
  BY <1>3, <1>4, <1>5, <1>7, <1>8, <1>9, <1>10 DEF Next

\* Only the editing of a line writes the copies of inventories.
LEMMA EditWriters ==
  ASSUME [Next]_vars
  PROVE  \/ lineEdits' = lineEdits
         \/ \E c \in Client, i \in InventoryId, r \in ResourceId, n \in 0 .. MaxCount :
              BeginLineUpdate(c, i, r, n)
         \/ \E c \in Client : FinishLineUpdate(c)
<1>1. CASE LoadState
  BY <1>1 DEF LoadState
<1>2. CASE ManualStep
  BY <1>2 DEF ManualStep, AppendQuantity, BeginWriteOff, Transfer
<1>3. CASE \E c \in Client : FinishWriteOff(c) \/ FinishLineUpdate(c)
  BY <1>3 DEF FinishWriteOff
<1>4. CASE \E w \in WarehouseId, lines \in SUBSET DeliveryLine : RecordSupplierDelivery(w, lines)
  BY <1>4 DEF RecordSupplierDelivery
<1>5. CASE InventoryStep
  BY <1>5 DEF InventoryStep, CreateInventory, PostInventory
<1>6. CASE ConsumptionStep
  BY <1>6 DEF ConsumptionStep, ConsumeCompletedOrder
<1>7. CASE \E r \in Retirable : SetActive(r)
  BY <1>7 DEF SetActive
<1>8. CASE UNCHANGED vars
  BY <1>8 DEF vars
<1> QED
  BY <1>1, <1>2, <1>3, <1>4, <1>5, <1>6, <1>7, <1>8 DEF Next

\* A document that has its warehouse once it was created.
Placed(document) ==
  /\ document \in InventoryDocument
  /\ document.status # "ABSENT" => document.warehouseId \in WarehouseId

\* Every step writes such documents.
LEMMA DocumentsStep ==
  ASSUME StoreInv, [Next]_vars
  PROVE  /\ inventories' \in [InventoryId -> InventoryDocument]
         /\ \A i \in InventoryId : Placed(inventories'[i])
<1>1. inventories \in [InventoryId -> InventoryDocument] /\ \A i \in InventoryId : Placed(inventories[i])
  BY DEF StoreInv, TypeOK, DocumentsPlaced, Placed
<1>2. ASSUME NEW i \in InventoryId, NEW document, Placed(document),
             inventories' = Saved(i, document)
      PROVE  /\ inventories' \in [InventoryId -> InventoryDocument]
             /\ \A j \in InventoryId : Placed(inventories'[j])
  BY <1>1, <1>2 DEF Saved, Placed
<1>3. ASSUME NEW i \in InventoryId, NEW w \in WarehouseId, CreateInventory(i, w)
      PROVE  \E document : Placed(document) /\ inventories' = Saved(i, document)
  <2> DEFINE system == [r \in ResourceId |-> SeenBalance(Migrated(movements), w, r)]
             document == [status |-> "DRAFT", warehouseId |-> w, resources |-> active,
                          system |-> system, actual |-> [r \in ResourceId |-> Uncounted]]
  <2>1. LedgerTyped(Migrated(movements))
    BY MigratedTyped DEF StoreInv, TypeOK, LedgerTyped
  <2>2. system \in [ResourceId -> Int]
    BY <2>1, BalanceType
  <2>3. [r \in ResourceId |-> Uncounted] \in [ResourceId -> Int]
    BY DEF Uncounted
  <2>4. active \in SUBSET ResourceId
    BY DEF StoreInv, TypeOK
  <2>5. inventories' = Saved(i, document)
    BY <1>3 DEF CreateInventory
  <2> HIDE DEF system
  <2>6. Placed(document)
    BY <2>2, <2>3, <2>4 DEF Placed, InventoryDocument
  <2> QED
    BY <2>5, <2>6
<1>4. ASSUME NEW c \in Client, FinishLineUpdate(c)
      PROVE  \/ inventories' = inventories
             \/ \E i \in InventoryId : \E document : Placed(document) /\ inventories' = Saved(i, document)
  <2>1. /\ lineEdits[c].inventoryId \in InventoryId
        /\ Placed(lineEdits[c].document)
    BY <1>4 DEF FinishLineUpdate, StoreInv, TypeOK, DocumentsPlaced, LineEdit, Placed
  <2> QED
    BY <1>4, <2>1 DEF FinishLineUpdate
<1>5. ASSUME NEW i \in InventoryId, NEW complete \in BOOLEAN, PostInventory(i, complete)
      PROVE  \/ inventories' = inventories
             \/ \E document : Placed(document) /\ inventories' = Saved(i, document)
  <2> DEFINE document == [inventories[i] EXCEPT !.status = "POSTED"]
  <2>1. Placed(document)
    BY <1>1, <1>5 DEF Placed, InventoryDocument, PostInventory
  <2>2. inventories' = inventories \/ inventories' = Saved(i, document)
    BY <1>5 DEF PostInventory
  <2> QED
    BY <2>1, <2>2
<1> QED
  BY <1>1, <1>2, <1>3, <1>4, <1>5, DocumentWriters

\* The copies of documents that clients edit are drafts.
EditOK(edit) ==
  edit # None => /\ edit \in LineEdit
                 /\ Placed(edit.document) /\ edit.document.status = "DRAFT"

\* Every step writes such copies.
LEMMA EditsStep ==
  ASSUME StoreInv, [Next]_vars
  PROVE  /\ lineEdits' \in [Client -> LineEdit \cup {None}]
         /\ \A c \in Client : EditOK(lineEdits'[c])
<1>1. lineEdits \in [Client -> LineEdit \cup {None}] /\ \A c \in Client : EditOK(lineEdits[c])
  BY DEF StoreInv, TypeOK, DocumentsPlaced, Placed, EditOK, LineEdit
<1>2. ASSUME NEW c \in Client, NEW edit \in LineEdit \cup {None}, EditOK(edit),
             lineEdits' = [lineEdits EXCEPT ![c] = edit]
      PROVE  /\ lineEdits' \in [Client -> LineEdit \cup {None}]
             /\ \A d \in Client : EditOK(lineEdits'[d])
  BY <1>1, <1>2
<1>3. ASSUME NEW c \in Client, NEW i \in InventoryId, NEW r \in ResourceId, NEW n \in 0 .. MaxCount,
             BeginLineUpdate(c, i, r, n)
      PROVE  \E edit \in LineEdit : EditOK(edit) /\ lineEdits' = [lineEdits EXCEPT ![c] = edit]
  <2> DEFINE document == IF r \in inventories[i].resources
                           THEN [inventories[i] EXCEPT !.actual[r] = n] ELSE inventories[i]
             edit == [inventoryId |-> i, document |-> document]
  <2>1. Placed(inventories[i]) /\ inventories[i].status = "DRAFT" /\ n \in Int
    BY <1>3, QuantityAssumption DEF BeginLineUpdate, StoreInv, TypeOK, DocumentsPlaced, Placed
  <2>2. Placed(document) /\ document.status = "DRAFT"
    BY <2>1 DEF Placed, InventoryDocument
  <2>3. lineEdits' = [lineEdits EXCEPT ![c] = edit]
    BY <1>3 DEF BeginLineUpdate
  <2> HIDE DEF document
  <2>4. edit \in LineEdit /\ EditOK(edit)
    BY <2>2 DEF LineEdit, EditOK, Placed
  <2> QED
    BY <2>3, <2>4
<1>4. ASSUME NEW c \in Client, FinishLineUpdate(c)
      PROVE  lineEdits' = [lineEdits EXCEPT ![c] = None]
  BY <1>4 DEF FinishLineUpdate
<1>5. EditOK(None)
  BY DEF EditOK
<1> QED
  BY <1>1, <1>2, <1>3, <1>4, <1>5, EditWriters

\* What else the steps write.
LEMMA RestStep ==
  ASSUME StoreInv, [Next]_vars
  PROVE  /\ issues' \subseteq Issue
         /\ active' \subseteq ResourceId
         /\ writeOffs' \in [Client -> Movement \cup {None}]
<1> USE DEF StoreInv, TypeOK
<1>1. CASE LoadState
  BY <1>1 DEF LoadState
<1>2. CASE ManualStep
  <2>1. PICK s \in Submission, w \in WarehouseId, r \in ResourceId, q \in 1 .. MaxQuantity :
          \/ \E type \in {"OPENING_BALANCE", "RECEIPT"} : AppendQuantity(s, w, r, q, type)
          \/ \E c \in Client : BeginWriteOff(c, s, w, r, q)
          \/ \E v \in WarehouseId : Transfer(s, v, w, r, q)
    BY <1>2 DEF ManualStep
  <2>2. MovementOf(<<"manual", s>>, w, r, "WRITE_OFF", -q) \in Movement
    <3>1. -q \in Int
      OBVIOUS
    <3> QED
      BY <3>1, ManualMovement DEF MovementType
  <2> DEFINE m == MovementOf(<<"manual", s>>, w, r, "WRITE_OFF", -q)
  <2>3. ASSUME NEW c \in Client, BeginWriteOff(c, s, w, r, q)
        PROVE  writeOffs' = [writeOffs EXCEPT ![c] = m] /\ issues' = issues /\ active' = active
    BY <2>3 DEF BeginWriteOff
  <2> HIDE DEF m
  <2>4. ASSUME NEW c \in Client, BeginWriteOff(c, s, w, r, q)
        PROVE  writeOffs' \in [Client -> Movement \cup {None}] /\ issues' = issues /\ active' = active
    BY <2>2, <2>3, <2>4 DEF m
  <2> QED
    BY <2>1, <2>4 DEF AppendQuantity, Transfer
<1>3. CASE \E c \in Client : FinishWriteOff(c) \/ FinishLineUpdate(c)
  BY <1>3 DEF FinishWriteOff, FinishLineUpdate
<1>4. CASE \E w \in WarehouseId, lines \in SUBSET DeliveryLine : RecordSupplierDelivery(w, lines)
  BY <1>4 DEF RecordSupplierDelivery
<1>5. CASE InventoryStep
  BY <1>5 DEF InventoryStep, CreateInventory, BeginLineUpdate, PostInventory
<1>6. CASE ConsumptionStep
  <2>1. PICK o \in Order, source \in [Scope -> WarehouseId \cup {NoWarehouse}],
             scopes \in {{}, {"bar"}, Scope} : ConsumeCompletedOrder(o, source, scopes)
    BY <1>6 DEF ConsumptionStep
  <2>2. scopes \in SUBSET Scope /\ LedgerTyped(movements)
    BY DEF Scope, LedgerTyped
  <2>3. issues' \subseteq issues \cup Issue
    BY <2>1, <2>2, ConsumptionTyped
  <2> QED
    BY <2>1, <2>3 DEF ConsumeCompletedOrder
<1>7. CASE \E r \in Retirable : SetActive(r)
  BY <1>7, ResourceAssumption DEF SetActive
<1>8. CASE UNCHANGED vars
  BY <1>8 DEF vars
<1> QED
  BY <1>1, <1>2, <1>3, <1>4, <1>5, <1>6, <1>7, <1>8 DEF Next

\* Together: the inductive invariant of the store.
LEMMA StoreStep ==
  ASSUME StoreInv, [Next]_vars
  PROVE  StoreInv'
<1>1. movements' \subseteq Movement /\ IsFiniteSet(movements')
  BY LedgerStep DEF LedgerTyped
<1>2. WriteOffsManual'
  BY WriteOffsStep DEF StoreInv
<1>3. DocumentsPlaced'
  BY DocumentsStep, EditsStep DEF DocumentsPlaced, Placed, EditOK
<1>4. TypeOK'
  BY <1>1, DocumentsStep, EditsStep, RestStep DEF TypeOK
<1> QED
  BY <1>1, <1>2, <1>3, <1>4 DEF StoreInv

\* It holds in the empty store.
LEMMA StoreInit ==
  ASSUME Init
  PROVE  StoreInv
<1>1. TypeOK
  BY DEF Init, TypeOK, InventoryDocument, Uncounted
<1>2. IsFiniteSet(movements)
  BY FS_EmptySet DEF Init
<1> QED
  BY <1>1, <1>2 DEF Init, StoreInv, WriteOffsManual, DocumentsPlaced

\* The ledger is a set of movements of the kinds the service knows, and every document and
\* waiting handler has the shape the code gives it (warehouse/domain.ts).
THEOREM StoreTyped == Spec => []TypeOK
<1>1. StoreInv => TypeOK
  BY DEF StoreInv
<1> QED
  BY <1>1, StoreInit, StoreStep, PTL DEF Spec

-----------------------------------------------------------------------------
(* What each step books.                                                   *)

\* Neither a transfer nor an inventory.
Plain(m) ==
  m.key[1] \notin {"transfer", "inventory"} /\ m.type \notin {"TRANSFER_OUT", "TRANSFER_IN"}

BooksPlain(old, new) == \A m \in new \ old : Plain(m)

\* A batch of plain movements.
LEMMA AppendedPlain ==
  ASSUME NEW old, NEW batch, \A m \in batch : Plain(m)
  PROVE  BooksPlain(old, Appended(old, batch))
BY DEF Appended, BooksPlain

\* The opening documents book plain movements.
LEMMA MigratedPlain ==
  ASSUME NEW old
  PROVE  BooksPlain(old, Migrated(old))
<1>1. \A d : Plain(OpeningMovement(d))
  BY DEF OpeningMovement, MovementOf, Plain
<1> QED
  BY <1>1 DEF BooksPlain, Migrated

\* So does an order.
LEMMA ConsumptionPlain ==
  ASSUME NEW o, NEW source, NEW scopes, ConsumeCompletedOrder(o, source, scopes)
  PROVE  BooksPlain(movements, movements')
<1> DEFINE Batch(scope) == {SaleMovement(o, scope, r, source[scope]) : r \in Needed(o, scope)}
           routed == {scope \in scopes : Needed(o, scope) # {}}
           sound == {scope \in routed : IssueOf(o, scope, source[scope]) = {}}
           Route(ledger, scope) ==
             IF scope \in sound THEN Appended(ledger, Batch(scope)) ELSE ledger
           afterBar == Route(Migrated(movements), "bar")
<1>1. movements' = Route(afterBar, "kitchen")
  BY DEF ConsumeCompletedOrder
<1>2. ASSUME NEW ledger, NEW scope
      PROVE  BooksPlain(ledger, Route(ledger, scope))
  <2>1. \A m \in Batch(scope) : Plain(m)
    BY DEF SaleMovement, MovementOf, Plain
  <2> HIDE DEF Batch, sound
  <2> QED
    BY <2>1, AppendedPlain DEF BooksPlain
<1> HIDE DEF Route
<1>3. BooksPlain(movements, Migrated(movements))
  BY MigratedPlain
<1>4. BooksPlain(Migrated(movements), afterBar)
  BY <1>2
<1>5. BooksPlain(afterBar, movements')
  BY <1>1, <1>2
<1> HIDE DEF afterBar
<1> QED
  BY <1>3, <1>4, <1>5 DEF BooksPlain

\* Only transfers and the posting of inventories book such movements.
LEMMA StepBooks ==
  ASSUME StoreInv, [Next]_vars
  PROVE  \/ BooksPlain(movements, movements')
         \/ \E s \in Submission, v \in WarehouseId, w \in WarehouseId, r \in ResourceId,
               q \in 1 .. MaxQuantity : Transfer(s, v, w, r, q)
         \/ \E i \in InventoryId, complete \in BOOLEAN : PostInventory(i, complete)
<1>1. CASE LoadState
  BY <1>1, MigratedPlain DEF LoadState
<1>2. CASE ManualStep
  <2>1. ASSUME NEW s, NEW w, NEW r, NEW q, NEW type \in {"OPENING_BALANCE", "RECEIPT"},
               AppendQuantity(s, w, r, q, type)
        PROVE  BooksPlain(movements, movements')
    <3>1. Plain(MovementOf(<<"manual", s>>, w, r, type, q))
      BY DEF MovementOf, Plain
    <3> QED
      BY <2>1, <3>1, AppendedPlain DEF AppendQuantity
  <2>2. ASSUME NEW c, NEW s, NEW w, NEW r, NEW q, BeginWriteOff(c, s, w, r, q)
        PROVE  BooksPlain(movements, movements')
    BY <2>2, MigratedPlain DEF BeginWriteOff
  <2> QED
    BY <1>2, <2>1, <2>2, Zenon DEF ManualStep
<1>3. CASE \E c \in Client : FinishWriteOff(c) \/ FinishLineUpdate(c)
  <2>1. ASSUME NEW c \in Client, FinishWriteOff(c)
        PROVE  BooksPlain(movements, movements')
    <3>1. Plain(writeOffs[c])
      BY <2>1 DEF FinishWriteOff, StoreInv, WriteOffsManual, Plain
    <3> QED
      BY <2>1, <3>1, AppendedPlain DEF FinishWriteOff, BooksPlain
  <2> QED
    BY <1>3, <2>1 DEF FinishLineUpdate, BooksPlain
<1>4. ASSUME NEW w, NEW lines, RecordSupplierDelivery(w, lines)
      PROVE  BooksPlain(movements, movements')
  <2>1. \A m \in {MovementOf(<<"supplier-delivery", l.delivery, l.line>>, w, l.resourceId,
                             "RECEIPT", l.quantity) : l \in lines} : Plain(m)
    BY DEF MovementOf, Plain
  <2> QED
    BY <1>4, <2>1, AppendedPlain DEF RecordSupplierDelivery
<1>5. CASE InventoryStep
  <2>1. ASSUME NEW i, NEW w, CreateInventory(i, w)
        PROVE  BooksPlain(movements, movements')
    BY <2>1, MigratedPlain DEF CreateInventory
  <2>2. ASSUME NEW c, NEW i, NEW r, NEW n, BeginLineUpdate(c, i, r, n)
        PROVE  BooksPlain(movements, movements')
    BY <2>2, MigratedPlain DEF BeginLineUpdate
  <2> QED
    BY <1>5, <2>1, <2>2, Zenon DEF InventoryStep
<1>6. CASE ConsumptionStep
  BY <1>6, ConsumptionPlain DEF ConsumptionStep
<1>7. CASE \E r \in Retirable : SetActive(r)
  BY <1>7 DEF SetActive, BooksPlain
<1>8. CASE UNCHANGED vars
  BY <1>8 DEF vars, BooksPlain
<1> QED
  BY <1>1, <1>2, <1>3, <1>4, <1>5, <1>6, <1>7, <1>8 DEF Next

-----------------------------------------------------------------------------
(* Transfers.                                                              *)

\* What a transfer leaves at its source.
LEMMA TransferBalance ==
  ASSUME NEW ledger, LedgerTyped(ledger), NEW s \in Submission, NEW v \in WarehouseId,
         NEW w \in WarehouseId, v # w, NEW r \in ResourceId, NEW q \in Int,
         ~HasKey(ledger, <<"transfer", s, "out">>)
  PROVE  BalanceIn(ledger \cup TransferBatch(s, v, w, r, q), v, r) = BalanceIn(ledger, v, r) - q
<1> DEFINE out == MovementOf(<<"transfer", s, "out">>, v, r, "TRANSFER_OUT", -q)
           in == MovementOf(<<"transfer", s, "in">>, w, r, "TRANSFER_IN", q)
           There(ms) == {m \in ms : m.warehouseId = v /\ m.resourceId = r}
<1>1. /\ TransferBatch(s, v, w, r, q) = {out, in}
      /\ out.warehouseId = v /\ out.resourceId = r /\ in.warehouseId = w
      /\ out.key = <<"transfer", s, "out">> /\ out.delta = -q
  BY DEF TransferBatch, MovementOf
<1>2. out \in Movement
  BY <1>1, TransferTyped DEF LedgerTyped
<1> HIDE DEF out, in
<1>3. There(ledger \cup {out, in}) = There(ledger) \cup {out}
  BY <1>1
<1>4. out \notin There(ledger)
  BY <1>1 DEF HasKey
<1>5. LedgerTyped(There(ledger))
  BY FS_Subset DEF LedgerTyped
<1> HIDE DEF There
<1>6. Total(There(ledger) \cup {out}) = Total(There(ledger)) + out.delta
  BY <1>2, <1>4, <1>5, TotalAdd
<1>7. Total(There(ledger)) \in Int
  BY <1>5, TotalType
<1>8. Total(There(ledger \cup {out, in})) = Total(There(ledger)) - q
  BY <1>1, <1>3, <1>6, <1>7
<1> QED
  BY <1>1, <1>8 DEF BalanceIn, There

\* A transfer that is booked was covered by what its source held in the same turn.
LEMMA TransferCovered ==
  ASSUME StoreInv, NEW s \in Submission, NEW v \in WarehouseId, NEW w \in WarehouseId,
         NEW r \in ResourceId, NEW q \in 1 .. MaxQuantity, Transfer(s, v, w, r, q),
         NEW m \in NewMovements("TRANSFER_OUT")
  PROVE  CoveredUnlessConfirmed(m)
<1> DEFINE ledger == Migrated(movements)
           batch == TransferBatch(s, v, w, r, q)
<1>1. /\ v # w
      /\ SeenBalance(ledger, v, r) - q >= 0 \/ s \in Confirmed
      /\ movements' = Appended(ledger, batch)
  BY DEF Transfer
<1>2. m \in movements' \ movements /\ m.type = "TRANSFER_OUT"
  BY DEF NewMovements
<1>3. LedgerTyped(ledger)
  BY MigratedTyped DEF StoreInv, TypeOK, LedgerTyped
<1>4. m \notin ledger
  BY <1>2, MigratedPlain DEF BooksPlain, Plain
<1> HIDE DEF ledger
<1>5. /\ movements' = ledger \cup batch /\ m \in batch
      /\ \A n \in batch : ~HasKey(ledger, n.key)
  BY <1>1, <1>2, <1>4 DEF Appended
<1>6. /\ m.key = <<"transfer", s, "out">> /\ m.warehouseId = v /\ m.resourceId = r
  BY <1>2, <1>5 DEF TransferBatch, MovementOf
<1>7. CASE s \in Confirmed
  BY <1>6, <1>7 DEF CoveredUnlessConfirmed
<1>8. CASE s \notin Confirmed
  <2>1. q \in Int /\ q > 0
    BY QuantityAssumption
  <2>2. BalanceIn(ledger, v, r) \in Int /\ BalanceIn(ledger, v, r) - q >= 0
    BY <1>1, <1>3, <1>8, <2>1, BalanceType DEF SeenBalance
  <2>3. BalanceIn(movements', v, r) = BalanceIn(ledger, v, r) - q
    <3>1. ~HasKey(ledger, <<"transfer", s, "out">>)
      BY <1>5, <1>6
    <3>2. BalanceIn(ledger \cup TransferBatch(s, v, w, r, q), v, r) = BalanceIn(ledger, v, r) - q
      BY <1>1, <1>3, <2>1, <3>1, TransferBalance
    <3> QED
      BY <1>5, <3>2
  <2>4. BalanceIn(movements', v, r) >= 0
    BY <2>2, <2>3
  <2> QED
    BY <1>6, <2>4 DEF CoveredUnlessConfirmed
<1> QED
  BY <1>7, <1>8

\* A step that books a transfer is one.
LEMMA TransfersCoveredStep ==
  ASSUME StoreInv, [Next]_vars, NEW m \in NewMovements("TRANSFER_OUT")
  PROVE  CoveredUnlessConfirmed(m)
<1>1. m \in movements' \ movements /\ m.type = "TRANSFER_OUT"
  BY DEF NewMovements
<1>2. ASSUME NEW i \in InventoryId, NEW complete \in BOOLEAN, PostInventory(i, complete)
      PROVE  FALSE
  <2>1. \A n \in InventoryBatch(i) : n.type # "TRANSFER_OUT"
    BY DEF InventoryBatch, MovementOf
  <2>2. m \notin Migrated(movements)
    BY <1>1, MigratedPlain DEF BooksPlain, Plain
  <2> QED
    BY <1>1, <1>2, <2>1, <2>2 DEF PostInventory, Appended
<1>3. ~BooksPlain(movements, movements')
  BY <1>1 DEF BooksPlain, Plain
<1> QED
  BY <1>2, <1>3, StepBooks, TransferCovered

\* A transfer that nobody confirmed leaves its source at zero or above, for every number of
\* clients and warehouses: the balance it was checked against is the one it is taken from, since
\* both happen in the turn after the access checks (warehouse/service.ts, transfer).
THEOREM TransfersCovered == Spec => UnconfirmedTransfersCovered
<1>1. StoreInv /\ [Next]_vars =>
        [\A m \in NewMovements("TRANSFER_OUT") : CoveredUnlessConfirmed(m)]_vars
  BY TransfersCoveredStep
<1> QED
  BY <1>1, StoreInit, StoreStep, PTL DEF Spec, UnconfirmedTransfersCovered

\* Both halves of a transfer are in the ledger, at different warehouses.
InTransfer(m, ledger) ==
  \E s \in Submission, v \in WarehouseId, w \in WarehouseId, r \in ResourceId,
     q \in 1 .. MaxQuantity :
    v # w /\ m \in TransferBatch(s, v, w, r, q) /\ TransferBatch(s, v, w, r, q) \subseteq ledger

TransferHalf(m) == m.key[1] = "transfer" \/ m.type \in {"TRANSFER_OUT", "TRANSFER_IN"}

TransfersWhole == \A m \in movements : TransferHalf(m) => InTransfer(m, movements)

\* No half of a transfer is booked without the other.
LEMMA TransfersWholeStep ==
  ASSUME StoreInv, TransfersWhole, [Next]_vars
  PROVE  TransfersWhole'
<1>1. movements \subseteq movements'
  BY StepExtends DEF Extends
<1>2. ASSUME NEW m \in movements, TransferHalf(m)
      PROVE  InTransfer(m, movements')
  BY <1>1, <1>2 DEF TransfersWhole, InTransfer
<1>3. SUFFICES ASSUME NEW m \in movements' \ movements, TransferHalf(m)
               PROVE  InTransfer(m, movements')
  BY <1>2 DEF TransfersWhole, InTransfer, TransferHalf
<1>4. m \notin Migrated(movements)
  BY <1>3, MigratedPlain DEF BooksPlain, Plain, TransferHalf
<1>5. ASSUME NEW s \in Submission, NEW v \in WarehouseId, NEW w \in WarehouseId,
             NEW r \in ResourceId, NEW q \in 1 .. MaxQuantity, Transfer(s, v, w, r, q)
      PROVE  InTransfer(m, movements')
  <2>1. /\ v # w /\ m \in TransferBatch(s, v, w, r, q)
        /\ TransferBatch(s, v, w, r, q) \subseteq movements'
    BY <1>3, <1>4, <1>5 DEF Transfer, Appended
  <2> QED
    BY <2>1 DEF InTransfer
<1>6. ASSUME NEW i \in InventoryId, NEW complete \in BOOLEAN, PostInventory(i, complete)
      PROVE  FALSE
  <2>1. \A n \in InventoryBatch(i) : ~TransferHalf(n)
    BY DEF InventoryBatch, MovementOf, TransferHalf
  <2> QED
    BY <1>3, <1>4, <1>6, <2>1 DEF PostInventory, Appended
<1>7. ~BooksPlain(movements, movements')
  BY <1>3 DEF BooksPlain, Plain, TransferHalf
<1> QED
  BY <1>5, <1>6, <1>7, StepBooks

-----------------------------------------------------------------------------
(* The history.                                                            *)

HistoryInv == StoreInv /\ TransfersWhole /\ Ledger!KeysUnique

\* The halves of one transfer, and no others, share their document.
LEMMA HalvesMatch ==
  ASSUME HistoryInv, NEW m \in movements, TransferHalf(m)
  PROVE  \E out \in movements, in \in movements :
           /\ m \in {out, in}
           /\ out.type = "TRANSFER_OUT" /\ in.type = "TRANSFER_IN"
           /\ DocumentOf(out) = DocumentOf(in)
           /\ out.warehouseId # in.warehouseId
           /\ out.delta < 0 /\ in.delta = -out.delta
           /\ \A n \in movements : DocumentOf(n) = DocumentOf(m) => n \in {out, in}
<1>1. PICK s \in Submission, v \in WarehouseId, w \in WarehouseId, r \in ResourceId,
           q \in 1 .. MaxQuantity :
        /\ v # w /\ m \in TransferBatch(s, v, w, r, q)
        /\ TransferBatch(s, v, w, r, q) \subseteq movements
  BY DEF HistoryInv, TransfersWhole, InTransfer
<1> DEFINE out == MovementOf(<<"transfer", s, "out">>, v, r, "TRANSFER_OUT", -q)
           in == MovementOf(<<"transfer", s, "in">>, w, r, "TRANSFER_IN", q)
<1>2. q \in Int /\ q > 0 /\ -q < 0 /\ q = -(-q)
  BY QuantityAssumption
<1>3. /\ TransferBatch(s, v, w, r, q) = {out, in}
      /\ out.key = <<"transfer", s, "out">> /\ in.key = <<"transfer", s, "in">>
      /\ out.type = "TRANSFER_OUT" /\ in.type = "TRANSFER_IN"
      /\ out.warehouseId = v /\ in.warehouseId = w
      /\ out.delta = -q /\ in.delta = q
  BY DEF TransferBatch, MovementOf
<1> HIDE DEF out, in
<1>4. DocumentOf(out) = <<"transfer", s>> /\ DocumentOf(in) = <<"transfer", s>>
  BY <1>3 DEF DocumentOf
<1>5. DocumentOf(m) = <<"transfer", s>>
  BY <1>1, <1>3, <1>4
<1>6. ASSUME NEW n \in movements, DocumentOf(n) = DocumentOf(m)
      PROVE  n \in {out, in}
  <2>1. n.key[1] = "transfer" /\ n.key[2] = s
    BY <1>5, <1>6 DEF DocumentOf
  <2>2. PICK s2 \in Submission, v2 \in WarehouseId, w2 \in WarehouseId, r2 \in ResourceId,
             q2 \in 1 .. MaxQuantity : n \in TransferBatch(s2, v2, w2, r2, q2)
    BY <2>1 DEF HistoryInv, TransfersWhole, InTransfer, TransferHalf
  <2>3. n.key = <<"transfer", s2, "out">> \/ n.key = <<"transfer", s2, "in">>
    BY <2>2 DEF TransferBatch, MovementOf
  <2>4. n.key = out.key \/ n.key = in.key
    BY <1>3, <2>1, <2>3
  <2> QED
    BY <1>1, <1>3, <2>4 DEF HistoryInv, Ledger!KeysUnique, Ledger!OneMovementPerKey
<1> QED
  BY <1>1, <1>2, <1>3, <1>4, <1>6

\* Within one warehouse no half of a transfer is hidden: its rows add up to its balance.
LEMMA RowsAddUp ==
  ASSUME HistoryInv, NEW w \in WarehouseId, NEW r \in active
  PROVE  Total(Rows(w, r, NotSet)) = SeenBalance(movements, w, r)
<1>1. w # NotSet /\ r # NotSet
  BY NotSetAssumption DEF HistoryInv, StoreInv, TypeOK
<1>2. Filtered(w, r, NotSet) = {m \in movements : m.warehouseId = w /\ m.resourceId = r}
  BY <1>1 DEF Filtered
<1>3. ASSUME NEW m \in Filtered(w, r, NotSet), NEW n \in Filtered(w, r, NotSet),
             m.type = "TRANSFER_IN", n.type = "TRANSFER_OUT", DocumentOf(n) = DocumentOf(m)
      PROVE  FALSE
  <2>1. m \in movements /\ n \in movements /\ m.warehouseId = n.warehouseId
    BY <1>2
  <2>2. TransferHalf(m)
    BY <1>3 DEF TransferHalf
  <2>3. PICK out \in movements, in \in movements :
          /\ out.type = "TRANSFER_OUT" /\ in.type = "TRANSFER_IN"
          /\ out.warehouseId # in.warehouseId
          /\ \A k \in movements : DocumentOf(k) = DocumentOf(m) => k \in {out, in}
    BY <2>1, <2>2, HalvesMatch
  <2>4. m \in {out, in} /\ n \in {out, in}
    BY <1>3, <2>1, <2>3
  <2> QED
    BY <1>3, <2>1, <2>3, <2>4
<1>4. Rows(w, r, NotSet) = Filtered(w, r, NotSet)
  BY <1>3 DEF Rows
<1> QED
  BY <1>2, <1>4 DEF SeenBalance, BalanceIn

\* Without a filter a movement is told by its own row, or if it is an arrival by the row of the
\* transfer it arrived by, and by no other.
LEMMA ToldOnce ==
  ASSUME HistoryInv, NEW m \in movements
  PROVE  \E row : {n \in Rows(NotSet, NotSet, NotSet) : Tells(n, m)} = {row}
<1>1. Filtered(NotSet, NotSet, NotSet) = movements
  BY DEF Filtered
<1>2. \A n : n \in Rows(NotSet, NotSet, NotSet) <=>
               /\ n \in movements
               /\ n.type = "TRANSFER_IN" =>
                    \A k \in movements : k.type = "TRANSFER_OUT" => DocumentOf(k) # DocumentOf(n)
  BY <1>1 DEF Rows
<1>3. CASE ~TransferHalf(m)
  <2>1. Paired(m) = {}
    <3>1. SUFFICES ASSUME NEW n \in Paired(m) PROVE FALSE
      OBVIOUS
    <3>2. n \in movements /\ TransferHalf(n) /\ DocumentOf(n) = DocumentOf(m)
      BY <3>1 DEF Paired, TransferHalf
    <3>3. \A k \in movements : DocumentOf(k) = DocumentOf(n) => TransferHalf(k)
      BY <3>2, HalvesMatch DEF TransferHalf
    <3> QED
      BY <1>3, <3>2, <3>3
  <2>2. m \in Rows(NotSet, NotSet, NotSet)
    BY <1>2, <1>3 DEF TransferHalf
  <2>3. {n \in Rows(NotSet, NotSet, NotSet) : Tells(n, m)} = {m}
    BY <2>1, <2>2 DEF Tells
  <2> QED
    BY <2>3
<1>4. CASE TransferHalf(m)
  <2>1. PICK out \in movements, in \in movements :
          /\ m \in {out, in}
          /\ out.type = "TRANSFER_OUT" /\ in.type = "TRANSFER_IN"
          /\ DocumentOf(out) = DocumentOf(in)
          /\ out.delta < 0 /\ in.delta = -out.delta
          /\ \A n \in movements : DocumentOf(n) = DocumentOf(m) => n \in {out, in}
    BY <1>4, HalvesMatch
  <2>2. out # in /\ DocumentOf(m) = DocumentOf(out)
    BY <2>1
  <2>3. out \in Rows(NotSet, NotSet, NotSet) /\ in \notin Rows(NotSet, NotSet, NotSet)
    BY <1>2, <2>1
  <2>4. Tells(out, m)
    <3>1. CASE m = out
      BY <3>1 DEF Tells
    <3>2. CASE m = in
      <4>1. in \in Paired(out) /\ out \in Paired(in)
        BY <2>1, <2>2 DEF Paired
      <4>2. AmountShown(out) = in.delta
        BY <2>1, <4>1 DEF AmountShown
      <4> QED
        BY <3>2, <4>1, <4>2 DEF Tells
    <3> QED
      BY <2>1, <3>1, <3>2
  <2>5. ASSUME NEW n \in Rows(NotSet, NotSet, NotSet), Tells(n, m)
        PROVE  n = out
    <3>1. n \in movements /\ DocumentOf(n) = DocumentOf(m)
      BY <1>2, <2>5 DEF Tells, Paired
    <3> QED
      BY <2>1, <2>3, <2>5, <3>1
  <2>6. {n \in Rows(NotSet, NotSet, NotSet) : Tells(n, m)} = {out}
    BY <2>3, <2>4, <2>5
  <2> QED
    BY <2>6
<1> QED
  BY <1>3, <1>4

\* The history shows where every balance comes from, for every filter by warehouse and resource,
\* and tells every movement once although it hides the arrivals of transfers
\* (warehouse/screen.tsx, History).
THEOREM HistoryComplete == Spec => []HistoryAccounts
<1>1. Init => HistoryInv
  BY StoreInit DEF Init, HistoryInv, TransfersWhole, Ledger!KeysUnique, Ledger!OneMovementPerKey
<1>2. HistoryInv /\ [Next]_vars => HistoryInv'
  <2>1. ASSUME HistoryInv, [Next]_vars
        PROVE  [Ledger!Append]_movements
    BY <2>1, StepExtends DEF Extends, OnePerKey, Fresh, Ledger!Append, Ledger!OneMovementPerKey
  <2> QED
    BY <2>1, StoreStep, TransfersWholeStep, KeysUniqueStep DEF HistoryInv
<1>3. ASSUME HistoryInv
      PROVE  HistoryAccounts
  <2>1. ASSUME NEW b \in ListedBalances(NotSet, NotSet)
        PROVE  /\ Total(Rows(b.warehouseId, b.resourceId, NotSet)) = b.quantity
               /\ b \in ListedBalances(b.warehouseId, b.status)
    <3>1. PICK w \in WarehouseId, r \in active :
            b = [warehouseId |-> w, resourceId |-> r, quantity |-> SeenBalance(movements, w, r),
                 status |-> StatusOf(SeenBalance(movements, w, r))]
      BY <2>1 DEF ListedBalances, Balances
    <3>2. Total(Rows(w, r, NotSet)) = SeenBalance(movements, w, r)
      BY <1>3, RowsAddUp
    <3>3. b.warehouseId = w /\ b.resourceId = r /\ b.quantity = SeenBalance(movements, w, r)
      BY <3>1
    <3> QED
      BY <2>1, <3>2, <3>3 DEF ListedBalances
  <2>2. ASSUME NEW m \in movements
        PROVE  Cardinality({row \in Rows(NotSet, NotSet, NotSet) : Tells(row, m)}) = 1
    BY <1>3, ToldOnce, FS_Singleton
  <2> QED
    BY <2>1, <2>2 DEF HistoryAccounts
<1> QED
  BY <1>1, <1>2, <1>3, PTL DEF Spec

-----------------------------------------------------------------------------
(* What inventories book.                                                  *)

\* The movements an inventory booked for a resource, and the one its document calls for.
BookedFor(ledger, i, r) == {m \in ledger : m.key = <<"inventory", i, r>>}

DifferenceMovement(i, document, r) ==
  MovementOf(<<"inventory", i, r>>, document.warehouseId, r,
             IF Difference(document, r) > 0 THEN "INVENTORY_SURPLUS" ELSE "INVENTORY_SHORTAGE",
             Difference(document, r))

Called(i, document, r) ==
  IF Difference(document, r) = 0 THEN {} ELSE {DifferenceMovement(i, document, r)}

\* An inventory that is not posted has booked nothing, a posted one what its document says.
InventoriesBooked ==
  \A i \in InventoryId :
    IF inventories[i].status = "POSTED"
      THEN \A r \in inventories[i].resources :
             BookedFor(movements, i, r) = Called(i, inventories[i], r)
      ELSE \A m \in movements : ~(m.key[1] = "inventory" /\ m.key[2] = i)

PostingInv == StoreInv /\ InventoriesBooked /\ active = ResourceId

\* Resources are only retired by a manager.
LEMMA ActiveKept ==
  ASSUME Retirable = {}, [Next]_vars
  PROVE  active' = active
<1>1. CASE LoadState
  BY <1>1 DEF LoadState
<1>2. CASE ManualStep
  BY <1>2 DEF ManualStep, AppendQuantity, BeginWriteOff, Transfer
<1>3. CASE \E c \in Client : FinishWriteOff(c) \/ FinishLineUpdate(c)
  BY <1>3 DEF FinishWriteOff, FinishLineUpdate
<1>4. CASE \E w \in WarehouseId, lines \in SUBSET DeliveryLine : RecordSupplierDelivery(w, lines)
  BY <1>4 DEF RecordSupplierDelivery
<1>5. CASE InventoryStep
  BY <1>5 DEF InventoryStep, CreateInventory, BeginLineUpdate, PostInventory
<1>6. CASE ConsumptionStep
  BY <1>6 DEF ConsumptionStep, ConsumeCompletedOrder
<1>7. CASE UNCHANGED vars
  BY <1>7 DEF vars
<1> QED
  BY <1>1, <1>2, <1>3, <1>4, <1>5, <1>6, <1>7 DEF Next

\* Without a posting no inventory books anything or becomes posted.
LEMMA OtherStepsBookNoDifference ==
  ASSUME PostingInv, [Next]_vars,
         ~ \E i \in InventoryId, complete \in BOOLEAN : PostInventory(i, complete)
  PROVE  InventoriesBooked'
<1>1. \A m \in movements' \ movements : m.key[1] # "inventory"
  <2>1. ASSUME NEW s \in Submission, NEW v \in WarehouseId, NEW w \in WarehouseId,
               NEW r \in ResourceId, NEW q \in 1 .. MaxQuantity, Transfer(s, v, w, r, q),
               NEW m \in movements' \ movements
        PROVE  m.key[1] # "inventory"
    <3>1. CASE m \in Migrated(movements)
      BY <2>1, <3>1, MigratedPlain DEF BooksPlain, Plain
    <3>2. CASE m \in TransferBatch(s, v, w, r, q)
      BY <3>2 DEF TransferBatch, MovementOf
    <3> QED
      BY <2>1, <3>1, <3>2 DEF Transfer, Appended
  <2> QED
    BY <2>1, StepBooks DEF PostingInv, BooksPlain, Plain
<1>2. movements \subseteq movements'
  BY StepExtends DEF Extends
<1>3. ASSUME NEW i \in InventoryId, inventories'[i].status = "POSTED"
      PROVE  inventories'[i] = inventories[i]
  <2> USE DEF PostingInv, StoreInv, TypeOK, Saved
  <2>1. ASSUME NEW j \in InventoryId, NEW w \in WarehouseId, CreateInventory(j, w)
        PROVE  inventories'[i] = inventories[i]
    BY <1>3, <2>1 DEF CreateInventory
  <2>2. ASSUME NEW c \in Client, FinishLineUpdate(c)
        PROVE  inventories'[i] = inventories[i]
    BY <1>3, <2>2 DEF FinishLineUpdate, DocumentsPlaced
  <2> QED
    BY <2>1, <2>2, DocumentWriters
<1>4. ASSUME NEW i \in InventoryId, inventories[i].status = "POSTED"
      PROVE  inventories'[i] = inventories[i]
  <2>1. DocumentsIndexed
    BY DEF PostingInv, StoreInv, TypeOK, DocumentsIndexed
  <2> QED
    BY <1>4, <2>1, PostedKept
<1>5. ASSUME NEW i \in InventoryId, NEW r
      PROVE  BookedFor(movements', i, r) = BookedFor(movements, i, r)
  BY <1>1, <1>2 DEF BookedFor
<1>6. ASSUME NEW i \in InventoryId, inventories'[i].status = "POSTED"
      PROVE  \A r \in inventories'[i].resources :
               BookedFor(movements', i, r) = Called(i, inventories'[i], r)
  BY <1>3, <1>5, <1>6 DEF PostingInv, InventoriesBooked
<1>7. ASSUME NEW i \in InventoryId, inventories'[i].status # "POSTED"
      PROVE  \A m \in movements' : ~(m.key[1] = "inventory" /\ m.key[2] = i)
  BY <1>1, <1>4, <1>7 DEF PostingInv, InventoriesBooked
<1> QED
  BY <1>6, <1>7 DEF InventoriesBooked, BookedFor, Called, DifferenceMovement, Difference, MovementOf

\* A posting books what its document calls for, in one batch of which no key was booked.
LEMMA PostingBooks ==
  ASSUME PostingInv, ~WritesMayFail, NEW i \in InventoryId, NEW complete \in BOOLEAN,
         PostInventory(i, complete)
  PROVE  InventoriesBooked'
<1> DEFINE document == inventories[i]
           ledger == Migrated(movements)
<1>1. /\ document.status = "DRAFT"
      /\ movements' = Appended(ledger, InventoryBatch(i))
      /\ inventories' = Saved(i, [document EXCEPT !.status = "POSTED"])
  BY DEF PostInventory
<1>2. document \in InventoryDocument /\ inventories \in [InventoryId -> InventoryDocument]
  BY DEF PostingInv, StoreInv, TypeOK
<1>3. document.resources \subseteq active
  BY <1>2 DEF PostingInv, InventoryDocument
<1>4. \A m \in ledger : ~(m.key[1] = "inventory" /\ m.key[2] = i)
  BY <1>1, MigratedPlain DEF PostingInv, InventoriesBooked, BooksPlain, Plain
<1>5. \A j \in InventoryId : \A r : BookedFor(ledger, j, r) = BookedFor(movements, j, r)
  <2>1. movements \subseteq ledger
    BY DEF Migrated
  <2> HIDE DEF ledger
  <2>2. BooksPlain(movements, ledger)
    BY MigratedPlain DEF ledger
  <2> QED
    BY <2>1, <2>2 DEF BookedFor, BooksPlain, Plain
<1>6. \A j \in InventoryId : inventories[j].status # "POSTED" =>
        \A m \in ledger : ~(m.key[1] = "inventory" /\ m.key[2] = j)
  BY MigratedPlain DEF PostingInv, InventoriesBooked, BooksPlain, Plain
<1> HIDE DEF ledger
<1>7. InventoryBatch(i)
        = {DifferenceMovement(i, document, r) : r \in {q \in document.resources : Difference(document, q) # 0}}
  BY <1>3 DEF InventoryBatch, DifferenceMovement
<1>8. \A r : DifferenceMovement(i, document, r).key = <<"inventory", i, r>>
  BY DEF DifferenceMovement, MovementOf
<1>9. movements' = ledger \cup InventoryBatch(i)
  BY <1>1, <1>4, <1>7, <1>8 DEF Appended, HasKey
<1> DEFINE posted == [document EXCEPT !.status = "POSTED"]
<1>10. /\ posted.resources = document.resources /\ posted.warehouseId = document.warehouseId
       /\ posted.actual = document.actual /\ posted.system = document.system
       /\ posted.status = "POSTED"
  BY <1>2 DEF InventoryDocument
<1>11. \A r : Called(i, posted, r) = Called(i, document, r)
  BY <1>10 DEF Called, DifferenceMovement, Difference
<1>12. /\ inventories'[i] = posted
       /\ \A j \in InventoryId \ {i} : inventories'[j] = inventories[j]
  BY <1>1, <1>2 DEF Saved
<1> HIDE DEF posted, document
<1>13. ASSUME NEW r \in document.resources
       PROVE  BookedFor(movements', i, r) = Called(i, document, r)
  <2>1. BookedFor(ledger, i, r) = {}
    BY <1>4 DEF BookedFor
  <2>2. BookedFor(movements', i, r) = BookedFor(InventoryBatch(i), i, r)
    BY <1>9, <2>1 DEF BookedFor
  <2>3. BookedFor(InventoryBatch(i), i, r) = Called(i, document, r)
    <3>1. CASE Difference(document, r) = 0
      <4>1. \A m \in InventoryBatch(i) : m.key # <<"inventory", i, r>>
        BY <1>7, <1>8, <3>1
      <4> QED
        BY <3>1, <4>1 DEF BookedFor, Called
    <3>2. CASE Difference(document, r) # 0
      <4>1. \A m \in InventoryBatch(i) :
              m.key = <<"inventory", i, r>> <=> m = DifferenceMovement(i, document, r)
        BY <1>7, <1>8
      <4>2. DifferenceMovement(i, document, r) \in InventoryBatch(i)
        BY <1>7, <3>2
      <4> QED
        BY <3>2, <4>1, <4>2 DEF BookedFor, Called
    <3> QED
      BY <3>1, <3>2
  <2> QED
    BY <2>2, <2>3
<1>14. ASSUME NEW j \in InventoryId, j # i
       PROVE  \A m \in InventoryBatch(i) : ~(m.key[1] = "inventory" /\ m.key[2] = j)
  BY <1>7, <1>8, <1>14
<1>15. ASSUME NEW j \in InventoryId, inventories'[j].status = "POSTED"
       PROVE  \A r \in inventories'[j].resources :
                BookedFor(movements', j, r) = Called(j, inventories'[j], r)
  <2>1. CASE j = i
    BY <1>10, <1>11, <1>12, <1>13, <2>1
  <2>2. CASE j # i
    <3>1. \A r : BookedFor(movements', j, r) = BookedFor(ledger, j, r)
      BY <1>9, <1>14, <2>2 DEF BookedFor
    <3> QED
      BY <1>5, <1>12, <1>15, <2>2, <3>1 DEF PostingInv, InventoriesBooked
  <2> QED
    BY <2>1, <2>2
<1>16. ASSUME NEW j \in InventoryId, inventories'[j].status # "POSTED"
       PROVE  \A m \in movements' : ~(m.key[1] = "inventory" /\ m.key[2] = j)
  <2>1. j # i
    BY <1>10, <1>12, <1>16
  <2> QED
    BY <1>6, <1>9, <1>12, <1>14, <1>16, <2>1
<1> QED
  BY <1>15, <1>16 DEF InventoriesBooked, BookedFor, Called, DifferenceMovement, Difference, MovementOf

\* If the browser refuses no write and no resource is retired, a posted inventory and the ledger
\* agree, for every number of clients, warehouses and resources and every order of their calls:
\* a posting finds none of its keys booked, and nothing else books them (warehouse/service.ts,
\* postInventory). Without either hypothesis the property is false: see MCWarehouseHalfPosted.cfg
\* for the first.
THEOREM PostedInventoriesBooked ==
  ASSUME ~WritesMayFail, Retirable = {}
  PROVE  Spec => []PostedInventoryApplied
<1>1. Init => PostingInv
  BY StoreInit DEF Init, PostingInv, InventoriesBooked
<1>2. PostingInv /\ [Next]_vars => PostingInv'
  <2>1. ASSUME PostingInv, [Next]_vars
        PROVE  InventoriesBooked'
    BY <2>1, PostingBooks, OtherStepsBookNoDifference
  <2> QED
    BY <2>1, StoreStep, ActiveKept DEF PostingInv
<1>3. ASSUME PostingInv, NEW i \in InventoryId, inventories[i].status = "POSTED",
             NEW r \in inventories[i].resources
      PROVE  BookedDifference(i, r) = Difference(inventories[i], r)
  <2>1. BookedDifference(i, r) = Total(BookedFor(movements, i, r))
    BY DEF BookedDifference, BookedFor
  <2>2. BookedFor(movements, i, r) = Called(i, inventories[i], r)
    BY <1>3 DEF PostingInv, InventoriesBooked
  <2>3. CASE Difference(inventories[i], r) = 0
    BY <2>1, <2>2, <2>3, TotalEmpty DEF Called
  <2>4. CASE Difference(inventories[i], r) # 0
    <3> DEFINE m == DifferenceMovement(i, inventories[i], r)
    <3>1. BookedFor(movements, i, r) = {m}
      BY <2>2, <2>4 DEF Called
    <3>2. m.delta = Difference(inventories[i], r)
      BY DEF DifferenceMovement, MovementOf
    <3>3. m \in Movement
      <4> HIDE DEF m
      <4> QED
        BY <1>3, <3>1 DEF BookedFor, PostingInv, StoreInv, TypeOK
    <3> HIDE DEF m
    <3>4. Total({m}) = m.delta
      BY <3>3, TotalSingle
    <3> QED
      BY <2>1, <3>1, <3>2, <3>4
  <2> QED
    BY <2>3, <2>4
<1>4. PostingInv => PostedInventoryApplied
  BY <1>3 DEF PostedInventoryApplied
<1> QED
  BY <1>1, <1>2, <1>4, PTL DEF Spec

-----------------------------------------------------------------------------
(* The suppliers and their assortment, for every number of suppliers,      *)
(* resources, references and callers.  The handlers promise something of a *)
(* save or a load only while no other operation is under way.  The         *)
(* invariant says of a caller that is alone what it still has to do: the   *)
(* entries a save has not cleared yet, the references a load has not       *)
(* migrated yet.                                                           *)

EntryRecord == [supplier : Supplier, resource : Resource, preferred : BOOLEAN]

Form == [kind : {"form"}, id : Id \cup {Absent}]

Running ==
  [kind : {"read", "order", "posting", "commit", "save", "write", "delete"},
   todo : SUBSET References,
   entry : [supplier : Supplier \cup {Absent}, resource : Resource \cup {Absent},
            preferred : BOOLEAN],
   id : Id \cup {Absent}, clears : SUBSET (Id \X EntryRecord)]

\* A handler that is going to write an entry has one, and knows where.
Settled(h) ==
  /\ h.kind \in {"posting", "commit", "save", "write"} => h.entry \in EntryRecord
  /\ h.kind \in {"commit", "write"} => h.id \in Id

SuppliersTypeOK ==
  /\ assortment \in [Id -> EntryRecord \cup {Absent}]
  /\ handlers \in [Caller -> {Idle} \cup Form \cup Running]
  /\ \A c \in Caller : handlers[c] \in Running => Settled(handlers[c])
  /\ alone \in [Caller -> BOOLEAN]

\* Who else is marked as preferred is yet to be cleared.
ClearsRest(c) ==
  alone[c] /\ handlers[c].kind = "write" /\ handlers[c].entry.preferred =>
    \A i \in PreferredOf(handlers[c].entry.resource) :
      i = handlers[c].id \/ \E item \in handlers[c].clears : item[1] = i

\* Which reference has no entry is yet to be migrated.
MigratesRest(c) ==
  alone[c] /\ handlers[c].kind \in {"read", "order", "posting", "save"} =>
    \A p \in References :
      p[1] \in Kept => p \in handlers[c].todo \/ assortment[LegacyId(p)] # Absent

SuppliersInv == SuppliersTypeOK /\ \A c \in Caller : ClearsRest(c) /\ MigratesRest(c)

-----------------------------------------------------------------------------
LEMMA EntryIsThere == \A e \in EntryRecord : e # Absent
<1> SUFFICES ASSUME NEW e \in EntryRecord PROVE e # Absent
  OBVIOUS
<1>1. e = Entry(e.supplier, e.resource, e.preferred)
  BY DEF EntryRecord, Entry
<1> QED
  BY <1>1, AbsentAssumption DEF EntryRecord

LEMMA KindsDiffer ==
  \A c \in Caller : SuppliersTypeOK =>
    /\ handlers[c] = Idle <=> handlers[c].kind = "idle"
    /\ handlers[c].kind = "form" <=> handlers[c] \in Form
    /\ handlers[c].kind \notin {"idle", "form"} <=> handlers[c] \in Running
BY DEF SuppliersTypeOK, Idle, Form, Running

LEMMA ReferenceIds ==
  \A p \in References : p[1] \in Supplier /\ p[2] \in Resource /\ LegacyId(p) \in Id
BY ReferencesAssumption DEF LegacyId, Id

LEMMA SuppliersInitInv == SuppliersInit => SuppliersInv
<1> SUFFICES ASSUME SuppliersInit PROVE SuppliersInv
  OBVIOUS
<1>1. SuppliersTypeOK
  BY DEF SuppliersInit, SuppliersTypeOK, Idle, Running
<1>2. \A c \in Caller : alone[c] = FALSE
  BY DEF SuppliersInit
<1> QED
  BY <1>1, <1>2 DEF SuppliersInv, ClearsRest, MigratesRest

-----------------------------------------------------------------------------
(* What one caller does leaves nobody else alone.                          *)

LEMMA OthersNotAlone ==
  ASSUME NEW c \in Caller, NEW own, Overlap(c, own)
  PROVE  \A d \in Caller \ {c} : ClearsRest(d)' /\ MigratesRest(d)'
BY DEF Overlap, ClearsRest, MigratesRest

\* A step in which c takes on a handler and the assortment keeps its shape.
LEMMA HandlerTyped ==
  ASSUME SuppliersTypeOK, NEW c \in Caller, NEW h \in {Idle} \cup Form \cup Running,
         h \in Running => Settled(h), handlers' = [handlers EXCEPT ![c] = h],
         assortment' \in [Id -> EntryRecord \cup {Absent}],
         alone' \in [Caller -> BOOLEAN]
  PROVE  SuppliersTypeOK'
<1>1. \A d \in Caller : handlers'[d] = IF d = c THEN h ELSE handlers[d]
  BY DEF SuppliersTypeOK
<1>2. handlers' \in [Caller -> {Idle} \cup Form \cup Running]
  BY DEF SuppliersTypeOK
<1> QED
  BY <1>1, <1>2 DEF SuppliersTypeOK, Settled

LEMMA SavedTyped ==
  ASSUME SuppliersTypeOK, NEW i, NEW e \in EntryRecord \cup {Absent}, Save(i, e)
  PROVE  assortment' \in [Id -> EntryRecord \cup {Absent}]
BY DEF SuppliersTypeOK, Save

LEMMA BeginInv ==
  ASSUME SuppliersInv, NEW c \in Caller, NEW h \in Running, Settled(h), h.kind # "write",
         Begin(c, h)
  PROVE  SuppliersInv'
<1> DEFINE g == [h EXCEPT !.todo = Missing]
<1>1. g \in Running /\ Settled(g) /\ g.kind = h.kind /\ g.todo = Missing
  <2>1. Missing \in SUBSET References
    BY DEF Missing
  <2> QED
    BY <2>1 DEF Running, Settled
<1>2. /\ handlers' = [handlers EXCEPT ![c] = g] /\ assortment' = assortment
      /\ suppliers' = suppliers /\ Overlap(c, \A d \in Caller \ {c} : ~Busy(d))
  BY DEF Begin, Waits
<1>3. SuppliersTypeOK'
  <2>1. alone' \in [Caller -> BOOLEAN]
    BY <1>2 DEF Overlap
  <2> QED
    BY <1>1, <1>2, <2>1, HandlerTyped DEF SuppliersInv, SuppliersTypeOK
<1>4. handlers'[c] = g
  BY <1>2 DEF SuppliersInv, SuppliersTypeOK
<1>5. ClearsRest(c)'
  BY <1>1, <1>4 DEF ClearsRest
<1>6. MigratesRest(c)'
  BY <1>1, <1>2, <1>4 DEF MigratesRest, Missing, Kept, LegacyId
<1> QED
  BY <1>2, <1>3, <1>5, <1>6, OthersNotAlone DEF SuppliersInv

\* A step after which c waits for nothing.
LEMMA EndInv ==
  ASSUME SuppliersInv, NEW c \in Caller, handlers' = [handlers EXCEPT ![c] = Idle],
         Overlap(c, FALSE),
         assortment' \in [Id -> EntryRecord \cup {Absent}]
  PROVE  SuppliersInv'
<1>1. alone' \in [Caller -> BOOLEAN] /\ ~alone'[c]
  BY DEF Overlap
<1>2. Idle \in {Idle} \cup Form \cup Running /\ Idle \notin Running
  BY DEF Idle, Running
<1>3. SuppliersTypeOK'
  BY <1>1, <1>2, HandlerTyped DEF SuppliersInv
<1>4. ClearsRest(c)' /\ MigratesRest(c)'
  BY <1>1 DEF ClearsRest, MigratesRest
<1> QED
  BY <1>3, <1>4, OthersNotAlone DEF SuppliersInv

\* A step by which c, waiting for nothing itself, disturbs the others.
LEMMA DisturbInv ==
  ASSUME SuppliersInv, NEW c \in Caller, handlers' = handlers, Overlap(c, FALSE),
         assortment' \in [Id -> EntryRecord \cup {Absent}]
  PROVE  SuppliersInv'
<1>1. alone' \in [Caller -> BOOLEAN] /\ ~alone'[c]
  BY DEF Overlap
<1>2. SuppliersTypeOK'
  BY <1>1 DEF SuppliersInv, SuppliersTypeOK, Settled
<1>3. ClearsRest(c)' /\ MigratesRest(c)'
  BY <1>1 DEF ClearsRest, MigratesRest
<1> QED
  BY <1>2, <1>3, OthersNotAlone DEF SuppliersInv

-----------------------------------------------------------------------------
LEMMA MigrateInv ==
  ASSUME SuppliersInv, NEW c \in Caller, Migrate(c)
  PROVE  SuppliersInv'
<1> DEFINE h == handlers[c]
<1>1. PICK p \in h.todo :
        /\ Save(LegacyId(p), Entry(p[1], p[2], p \in Favourites))
        /\ handlers' = [handlers EXCEPT ![c].todo = @ \ ({p} \cup
             {q \in References : assortment[LegacyId(q)] # Absent})]
  BY DEF Migrate
<1>2. /\ SuppliersTypeOK /\ h \in Running /\ Settled(h)
      /\ h.kind \in {"read", "order", "posting", "save"}
  BY KindsDiffer DEF Migrate, SuppliersInv, SuppliersTypeOK
<1>3. Overlap(c, alone[c]) /\ suppliers' = suppliers
  BY DEF Migrate
<1> DEFINE done == {p} \cup {q \in References : assortment[LegacyId(q)] # Absent}
           g == [h EXCEPT !.todo = @ \ done]
<1>4. p \in References
  BY <1>2 DEF Running
<1>5. LegacyId(p) \in Id /\ Entry(p[1], p[2], p \in Favourites) \in EntryRecord
  BY <1>4, ReferenceIds DEF Entry, EntryRecord
<1>6. handlers' = [handlers EXCEPT ![c] = g]
  BY <1>1, <1>2 DEF SuppliersTypeOK
<1>7. g \in Running /\ Settled(g) /\ g.kind = h.kind /\ g.todo = h.todo \ done
  BY <1>2 DEF Running, Settled
<1>8. assortment' \in [Id -> EntryRecord \cup {Absent}]
  BY <1>1, <1>2, <1>5, SavedTyped
<1>9. alone' \in [Caller -> BOOLEAN] /\ alone'[c] = alone[c]
  BY <1>2, <1>3 DEF Overlap, SuppliersTypeOK
<1>10. SuppliersTypeOK'
  BY <1>2, <1>6, <1>7, <1>8, <1>9, HandlerTyped
<1>11. handlers'[c] = g
  BY <1>2, <1>6 DEF SuppliersTypeOK
<1>12. ClearsRest(c)'
  BY <1>2, <1>7, <1>11 DEF ClearsRest
<1>13. MigratesRest(c)'
  <2>1. SUFFICES ASSUME alone[c], NEW q \in References, q[1] \in Kept, q \notin g.todo
                 PROVE  assortment'[LegacyId(q)] # Absent
    BY <1>3, <1>9, <1>11, <2>1 DEF MigratesRest, Kept, LegacyId
  <2>2. LegacyId(q) \in Id
    BY ReferenceIds
  <2>3. CASE assortment[LegacyId(q)] # Absent
    BY <1>1, <1>2, <1>5, <2>2, <2>3, EntryIsThere DEF Save, SuppliersTypeOK
  <2>4. CASE assortment[LegacyId(q)] = Absent
    <3>1. q \in h.todo
      BY <1>2, <2>1, <2>4 DEF SuppliersInv, MigratesRest
    <3>2. q = p
      BY <1>7, <2>1, <2>4, <3>1
    <3> QED
      BY <1>1, <1>2, <1>5, <3>2, EntryIsThere DEF Save, SuppliersTypeOK
  <2> QED
    BY <2>3, <2>4
<1> QED
  BY <1>3, <1>10, <1>12, <1>13, OthersNotAlone DEF SuppliersInv

LEMMA AccessStepInv ==
  ASSUME SuppliersInv, NEW c \in Caller, AccessStep(c)
  PROVE  SuppliersInv'
<1>1. SuppliersTypeOK
  BY DEF SuppliersInv
<1>2. CASE Migrate(c)
  BY <1>2, MigrateInv
<1>3. CASE BeginRead(c)
  <2> DEFINE h == Operation("read", Absent, Absent, FALSE, Absent)
  <2>1. h \in Running /\ Settled(h) /\ h.kind = "read"
    BY DEF Operation, Entry, Running, Settled
  <2> QED
    BY <1>3, <2>1, BeginInv DEF BeginRead
<1>4. CASE FinishRead(c)
  BY <1>1, <1>4, EndInv DEF FinishRead, Done, SuppliersTypeOK
<1>5. CASE Abandon(c)
  BY <1>1, <1>5, EndInv DEF Abandon, Done, SuppliersTypeOK
<1> QED
  BY <1>2, <1>3, <1>4, <1>5 DEF AccessStep

\* A step by which c goes on with a handler that is settled, and nothing is written.
LEMMA WaitInv ==
  ASSUME SuppliersInv, NEW c \in Caller, NEW h \in Running, Settled(h),
         h.kind \in {"commit", "write"},
         Waits(c, h), Overlap(c, alone[c]), UNCHANGED <<suppliers, assortment>>,
         h.kind = "write" /\ h.entry.preferred =>
           \A i \in PreferredOf(h.entry.resource) :
             i = h.id \/ \E item \in h.clears : item[1] = i
  PROVE  SuppliersInv'
<1>1. SuppliersTypeOK
  BY DEF SuppliersInv
<1>2. alone' \in [Caller -> BOOLEAN]
  BY <1>1 DEF Overlap, SuppliersTypeOK
<1>3. handlers'[c] = h
  BY <1>1 DEF Waits, SuppliersTypeOK
<1>4. SuppliersTypeOK'
  BY <1>1, <1>2, HandlerTyped DEF Waits, SuppliersTypeOK
<1>5. ClearsRest(c)'
  BY <1>3 DEF ClearsRest, PreferredOf, Entries
<1>6. MigratesRest(c)'
  BY <1>3 DEF MigratesRest
<1> QED
  BY <1>4, <1>5, <1>6, OthersNotAlone DEF SuppliersInv

LEMMA DocumentStepInv ==
  ASSUME SuppliersInv, NEW c \in Caller, DocumentStep(c)
  PROVE  SuppliersInv'
<1>1. SuppliersTypeOK
  BY DEF SuppliersInv
<1>2. ASSUME NEW s \in Supplier, BeginOrder(c, s)
      PROVE  SuppliersInv'
  <2> DEFINE h == Operation("order", s, Absent, FALSE, Absent)
  <2>1. h \in Running /\ Settled(h) /\ h.kind = "order"
    BY DEF Operation, Entry, Running, Settled
  <2> QED
    BY <1>2, <2>1, BeginInv DEF BeginOrder
<1>3. CASE FinishOrder(c)
  BY <1>1, <1>3, EndInv DEF FinishOrder, Done, SuppliersTypeOK
<1>4. ASSUME NEW s \in Supplier, NEW r \in Resource, BeginPosting(c, s, r)
      PROVE  SuppliersInv'
  <2> DEFINE h == Operation("posting", s, r, FALSE, Absent)
  <2>1. h \in Running /\ Settled(h) /\ h.kind = "posting"
    BY DEF Operation, Entry, EntryRecord, Running, Settled
  <2> QED
    BY <1>4, <2>1, BeginInv DEF BeginPosting
<1>5. CASE ReadPosting(c)
  <2> DEFINE h == handlers[c]
             e == h.entry
  <2>1. h \in Running /\ Settled(h) /\ h.kind = "posting" /\ e \in EntryRecord
    BY <1>1, <1>5, KindsDiffer DEF ReadPosting, Reads, SuppliersTypeOK, Settled
  <2>2. CASE OfPair(e.supplier, e.resource) = {}
    <3> DEFINE g == [h EXCEPT !.kind = "commit", !.id = <<"delivery", e.supplier, e.resource>>]
    <3>1. <<"delivery", e.supplier, e.resource>> \in Id
      BY <2>1 DEF EntryRecord, Id
    <3>2. g \in Running /\ Settled(g) /\ g.kind = "commit"
      BY <2>1, <3>1 DEF Running, Settled
    <3>3. Waits(c, g)
      BY <1>5, <2>2 DEF ReadPosting
    <3> QED
      BY <1>5, <3>2, <3>3, WaitInv DEF ReadPosting
  <2>3. CASE OfPair(e.supplier, e.resource) # {}
    <3>1. PICK i \in OfPair(e.supplier, e.resource) :
            Waits(c, [h EXCEPT !.kind = "commit", !.id = i, !.entry = assortment[i]])
      BY <1>5, <2>3 DEF ReadPosting
    <3> DEFINE g == [h EXCEPT !.kind = "commit", !.id = i, !.entry = assortment[i]]
    <3>2. i \in Id /\ assortment[i] \in EntryRecord
      BY <1>1 DEF OfPair, Entries, SuppliersTypeOK
    <3>3. g \in Running /\ Settled(g) /\ g.kind = "commit"
      BY <2>1, <3>2 DEF Running, Settled, EntryRecord
    <3> QED
      BY <1>5, <3>1, <3>3, WaitInv DEF ReadPosting
  <2> QED
    BY <2>2, <2>3
<1>6. CASE FinishPosting(c)
  <2>1. handlers[c].entry \in EntryRecord
    BY <1>1, <1>6, KindsDiffer DEF FinishPosting, SuppliersTypeOK, Settled
  <2>2. assortment' \in [Id -> EntryRecord \cup {Absent}]
    BY <1>1, <1>6, <2>1, SavedTyped DEF FinishPosting
  <2> QED
    BY <1>6, <2>2, EndInv DEF FinishPosting, Done
<1> QED
  BY <1>2, <1>3, <1>4, <1>5, <1>6 DEF DocumentStep

LEMMA ResolveInv ==
  ASSUME SuppliersInv, NEW c \in Caller, Resolve(c)
  PROVE  SuppliersInv'
<1> DEFINE h == handlers[c]
           e == h.entry
<1>1. SuppliersTypeOK /\ h \in Running /\ h.kind = "save" /\ e \in EntryRecord
  BY KindsDiffer DEF Resolve, Reads, SuppliersInv, SuppliersTypeOK, Settled
<1>2. PICK target \in Target(c) :
        Waits(c, [h EXCEPT !.kind = "write", !.id = target,
                    !.clears = {<<i, assortment[i]>> : i \in Clears(e, target)}])
  BY DEF Resolve
<1> DEFINE others == {<<i, assortment[i]>> : i \in Clears(e, target)}
           g == [h EXCEPT !.kind = "write", !.id = target, !.clears = others]
<1>3. target \in Id
  <2>1. CASE h.id # Absent
    BY <1>1, <2>1 DEF Target, Running
  <2>2. CASE h.id = Absent
    BY <2>2 DEF Target, OfPair, Entries, Id
  <2> QED
    BY <2>1, <2>2
<1>4. others \in SUBSET (Id \X EntryRecord)
  <2>1. \A i \in Clears(e, target) : <<i, assortment[i]>> \in Id \X EntryRecord
    BY <1>1 DEF Clears, PreferredOf, Entries, SuppliersTypeOK
  <2> QED
    BY <2>1
<1>5. g \in Running /\ Settled(g) /\ g.kind = "write" /\ g.entry = e /\ g.id = target
      /\ g.clears = others
  <2> HIDE DEF others
  <2> QED
    BY <1>1, <1>3, <1>4 DEF Running, Settled
<1>6. e.preferred =>
        \A i \in PreferredOf(e.resource) : i = target \/ \E item \in g.clears : item[1] = i
  <2>1. SUFFICES ASSUME e.preferred, NEW i \in PreferredOf(e.resource), i # target
                 PROVE  \E item \in g.clears : item[1] = i
    OBVIOUS
  <2>2. <<i, assortment[i]>> \in g.clears
    BY <1>5, <2>1 DEF Clears
  <2> QED
    BY <2>2
<1> QED
  BY <1>2, <1>5, <1>6, WaitInv DEF Resolve

LEMMA ClearOneInv ==
  ASSUME SuppliersInv, NEW c \in Caller, ClearOne(c)
  PROVE  SuppliersInv'
<1> DEFINE h == handlers[c]
<1>1. SuppliersTypeOK /\ h \in Running /\ Settled(h) /\ h.kind = "write"
  BY KindsDiffer DEF ClearOne, SuppliersInv, SuppliersTypeOK
<1>2. PICK item \in h.clears :
        /\ Save(item[1], [item[2] EXCEPT !.preferred = FALSE])
        /\ handlers' = [handlers EXCEPT ![c].clears = @ \ {item}]
  BY DEF ClearOne
<1> DEFINE g == [h EXCEPT !.clears = @ \ {item}]
           cleared == [item[2] EXCEPT !.preferred = FALSE]
<1>3. item \in Id \X EntryRecord
  BY <1>1 DEF Running
<1>4. cleared \in EntryRecord /\ ~cleared.preferred
  BY <1>3 DEF EntryRecord
<1>5. g \in Running /\ Settled(g) /\ g.kind = "write" /\ g.entry = h.entry /\ g.id = h.id
      /\ g.clears = h.clears \ {item}
  BY <1>1 DEF Running, Settled
<1>6. handlers' = [handlers EXCEPT ![c] = g] /\ handlers'[c] = g
  BY <1>1, <1>2 DEF SuppliersTypeOK
<1>7. assortment' \in [Id -> EntryRecord \cup {Absent}]
  BY <1>1, <1>2, <1>4, SavedTyped
<1>8. alone' \in [Caller -> BOOLEAN] /\ alone'[c] = alone[c] /\ Overlap(c, alone[c])
  BY <1>1 DEF ClearOne, Overlap, SuppliersTypeOK
<1>9. SuppliersTypeOK'
  BY <1>1, <1>5, <1>6, <1>7, <1>8, HandlerTyped
<1>10. ClearsRest(c)'
  <2>1. SUFFICES ASSUME alone[c], h.entry.preferred, NEW i \in Id, i # h.id,
                        assortment'[i] # Absent, assortment'[i].preferred,
                        assortment'[i].resource = h.entry.resource
                 PROVE  \E other \in g.clears : other[1] = i
    BY <1>5, <1>6, <1>8, <2>1 DEF ClearsRest, PreferredOf, Entries
  <2>2. i # item[1] /\ assortment'[i] = assortment[i]
    BY <1>1, <1>2, <1>3, <1>4, <2>1 DEF Save, SuppliersTypeOK
  <2>3. i \in PreferredOf(h.entry.resource)
    BY <2>1, <2>2 DEF PreferredOf, Entries
  <2>4. PICK other \in h.clears : other[1] = i
    BY <1>1, <2>1, <2>3 DEF SuppliersInv, ClearsRest
  <2> QED
    BY <1>5, <2>2, <2>4
<1>11. MigratesRest(c)'
  BY <1>5, <1>6 DEF MigratesRest
<1> QED
  BY <1>8, <1>9, <1>10, <1>11, OthersNotAlone DEF SuppliersInv

LEMMA FormStepInv ==
  ASSUME SuppliersInv, NEW c \in Caller, FormStep(c)
  PROVE  SuppliersInv'
<1>1. SuppliersTypeOK
  BY DEF SuppliersInv
<1>2. ASSUME NEW i \in Id \cup {Absent}, OpenForm(c, i)
      PROVE  SuppliersInv'
  <2> DEFINE h == [kind |-> "form", id |-> i]
  <2>1. h \in Form /\ h \notin Running
    BY DEF Form, Running
  <2>2. /\ handlers' = [handlers EXCEPT ![c] = h]
        /\ UNCHANGED <<suppliers, assortment, alone>>
    BY <1>2 DEF OpenForm, Waits
  <2>3. SuppliersTypeOK'
    BY <1>1, <2>1, <2>2, HandlerTyped DEF SuppliersTypeOK
  <2>4. ASSUME NEW d \in Caller
        PROVE  ClearsRest(d)' /\ MigratesRest(d)'
    <3>1. CASE d = c
      BY <1>1, <2>2, <3>1 DEF ClearsRest, MigratesRest, SuppliersTypeOK
    <3>2. CASE d # c
      <4>1. handlers'[d] = handlers[d]
        BY <1>1, <2>2, <3>2 DEF SuppliersTypeOK
      <4>2. ClearsRest(d) /\ MigratesRest(d)
        BY DEF SuppliersInv
      <4> QED
        BY <2>2, <4>1, <4>2 DEF ClearsRest, MigratesRest, PreferredOf, Entries, Kept, LegacyId
    <3> QED
      BY <3>1, <3>2
  <2> QED
    BY <2>3, <2>4 DEF SuppliersInv
<1>3. ASSUME NEW s \in Supplier, NEW r \in Resource, NEW preferred \in BOOLEAN,
             SubmitForm(c, s, r, preferred)
      PROVE  SuppliersInv'
  <2> DEFINE h == Operation("save", s, r, preferred, handlers[c].id)
  <2>1. handlers[c].id \in Id \cup {Absent}
    BY <1>1, <1>3, KindsDiffer DEF SubmitForm, Form
  <2>2. h \in Running /\ Settled(h) /\ h.kind = "save"
    BY <2>1 DEF Operation, Entry, EntryRecord, Running, Settled
  <2> QED
    BY <1>3, <2>2, BeginInv DEF SubmitForm
<1>4. CASE Resolve(c)
  BY <1>4, ResolveInv
<1>5. CASE ClearOne(c)
  BY <1>5, ClearOneInv
<1>6. CASE FinishSave(c)
  <2>1. handlers[c].entry \in EntryRecord
    BY <1>1, <1>6, KindsDiffer DEF FinishSave, SuppliersTypeOK, Settled
  <2>2. assortment' \in [Id -> EntryRecord \cup {Absent}]
    BY <1>1, <1>6, <2>1, SavedTyped DEF FinishSave
  <2> QED
    BY <1>6, <2>2, EndInv DEF FinishSave, Done
<1>7. ASSUME NEW i \in Id, RemoveAssortment(c, i)
      PROVE  SuppliersInv'
  <2>1. assortment' \in [Id -> EntryRecord \cup {Absent}]
    BY <1>1, <1>7, SavedTyped DEF RemoveAssortment
  <2> QED
    BY <1>7, <2>1, DisturbInv DEF RemoveAssortment
<1> QED
  BY <1>2, <1>3, <1>4, <1>5, <1>6, <1>7 DEF FormStep

LEMMA SupplierStepInv ==
  ASSUME SuppliersInv, NEW c \in Caller, SupplierStep(c)
  PROVE  SuppliersInv'
<1>1. SuppliersTypeOK
  BY DEF SuppliersInv
<1>2. ASSUME NEW s \in Supplier, CreateSupplier(c, s) \/ RemoveInConfiguration(c, s)
      PROVE  SuppliersInv'
  BY <1>1, <1>2, DisturbInv DEF CreateSupplier, RemoveInConfiguration, SuppliersTypeOK
<1>3. ASSUME NEW s \in Supplier, BeginDelete(c, s)
      PROVE  SuppliersInv'
  <2> DEFINE h == Operation("delete", s, Absent, FALSE, Absent)
  <2>1. h \in Running /\ Settled(h) /\ h.kind = "delete"
    BY DEF Operation, Entry, Running, Settled
  <2>2. /\ handlers' = [handlers EXCEPT ![c] = h] /\ Overlap(c, FALSE)
        /\ UNCHANGED <<suppliers, assortment>>
    BY <1>3 DEF BeginDelete, Waits
  <2>3. alone' \in [Caller -> BOOLEAN] /\ ~alone'[c]
    BY <2>2 DEF Overlap
  <2>4. SuppliersTypeOK'
    BY <1>1, <2>1, <2>2, <2>3, HandlerTyped DEF SuppliersTypeOK
  <2>5. ClearsRest(c)' /\ MigratesRest(c)'
    BY <2>3 DEF ClearsRest, MigratesRest
  <2> QED
    BY <2>2, <2>4, <2>5, OthersNotAlone DEF SuppliersInv
<1>4. CASE FinishDelete(c)
  BY <1>1, <1>4, EndInv DEF FinishDelete, Done, SuppliersTypeOK
<1> QED
  BY <1>2, <1>3, <1>4 DEF SupplierStep

LEMMA SuppliersNextInv == SuppliersInv /\ [SuppliersNext]_suppliersVars => SuppliersInv'
<1> SUFFICES ASSUME SuppliersInv, [SuppliersNext]_suppliersVars PROVE SuppliersInv'
  OBVIOUS
<1>1. ASSUME NEW c \in Caller,
             AccessStep(c) \/ DocumentStep(c) \/ FormStep(c) \/ SupplierStep(c)
      PROVE  SuppliersInv'
  BY <1>1, AccessStepInv, DocumentStepInv, FormStepInv, SupplierStepInv
<1>2. CASE UNCHANGED suppliersVars
  BY <1>2 DEF suppliersVars, SuppliersInv, SuppliersTypeOK, ClearsRest, MigratesRest, PreferredOf,
              Entries, Kept, LegacyId, Settled
<1> QED
  BY <1>1, <1>2 DEF SuppliersNext

-----------------------------------------------------------------------------
\* Whatever earlier saves, postings and migrations left behind, a save that nothing
\* overlapped leaves one preferred entry for its resource (saveAssortment).
THEOREM PreferredBecomesSole == SuppliersSpec => SavedPreferredIsSole
<1>1. ASSUME SuppliersInv, NEW c \in Caller, NEW r \in Resource, FinishSave(c), alone[c],
             handlers[c].entry = Entry(handlers[c].entry.supplier, r, TRUE)
      PROVE  PreferredOf(r)' = {handlers[c].id}
  <2> DEFINE h == handlers[c]
  <2>1. SuppliersTypeOK /\ h \in Running /\ Settled(h) /\ h.kind = "write" /\ h.clears = {}
    BY <1>1, KindsDiffer DEF FinishSave, SuppliersInv, SuppliersTypeOK
  <2>2. h.entry \in EntryRecord /\ h.id \in Id /\ h.entry.preferred /\ h.entry.resource = r
    BY <1>1, <2>1 DEF Settled, Entry
  <2>3. h.entry # Absent
    BY <2>2, EntryIsThere
  <2>4. \A i \in PreferredOf(r) : i = h.id
    BY <1>1, <2>1, <2>2 DEF SuppliersInv, ClearsRest
  <2>5. assortment' = [assortment EXCEPT ![h.id] = h.entry]
    BY <1>1 DEF FinishSave, Save
  <2>6. h.id \in PreferredOf(r)'
    BY <2>1, <2>2, <2>3, <2>5 DEF PreferredOf, Entries, SuppliersTypeOK
  <2>7. \A i \in PreferredOf(r)' : i = h.id
    BY <2>1, <2>4, <2>5 DEF PreferredOf, Entries, SuppliersTypeOK
  <2> QED
    BY <2>6, <2>7
<1>2. SuppliersInv /\ [SuppliersNext]_suppliersVars =>
        [\A c \in Caller, r \in Resource :
           FinishSave(c) /\ alone[c] /\ handlers[c].entry = Entry(handlers[c].entry.supplier, r, TRUE)
             => PreferredOf(r)' = {handlers[c].id}]_suppliersVars
  BY <1>1
<1> QED
  BY <1>2, SuppliersInitInv, SuppliersNextInv, PTL DEF SuppliersSpec, SavedPreferredIsSole

\* What a load that nothing overlapped returns has an entry for each reference to a
\* supplier of the configuration (migrateLegacyAssortment).
THEOREM LoadsAreMigrated == SuppliersSpec => ReferencesMigrated
<1>1. ASSUME SuppliersInv, NEW c \in Caller, FinishRead(c), alone[c],
             NEW p \in References, p[1] \in Kept
      PROVE  assortment[LegacyId(p)] # Absent
  BY <1>1 DEF FinishRead, Reads, SuppliersInv, MigratesRest
<1>2. SuppliersInv /\ [SuppliersNext]_suppliersVars =>
        [\A c \in Caller :
           FinishRead(c) /\ alone[c] =>
             \A p \in References : p[1] \in Kept => assortment[LegacyId(p)] # Absent]_suppliersVars
  BY <1>1
<1> QED
  BY <1>2, SuppliersInitInv, SuppliersNextInv, PTL DEF SuppliersSpec, ReferencesMigrated

=============================================================================
