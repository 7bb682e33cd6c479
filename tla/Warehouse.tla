----------------------------- MODULE Warehouse -----------------------------
(***************************************************************************)
(* The Warehouse service of one Coffee project (warehouse/service.ts) over *)
(* its ledger repository (warehouse/repository.ts).                        *)
(*                                                                         *)
(* Every repository call reads and writes the store in one turn of the     *)
(* event loop: it is atomic, also between browser tabs.  The service's     *)
(* access checks wait for a timer.  A handler that reads the store, waits  *)
(* and then writes is therefore two steps here (BeginWriteOff and          *)
(* FinishWriteOff, BeginLineUpdate and FinishLineUpdate), between which    *)
(* anything may happen; all others are one.                                *)
(*                                                                         *)
(* Abstractions.  Quantities are integers in base units, so that unit      *)
(* conversion and rounding are left out.  The resource cards and workspace *)
(* assignments a handler uses are those at its last access check.          *)
(* Comments, employees, dates and the projections shown on screens are     *)
(* left out; employees pass the access checks and may use every warehouse. *)
(* A handler that throws before its first write is no step.                *)
(***************************************************************************)
EXTENDS Integers, FiniteSetsExt

CONSTANTS
  WarehouseId,      \* active warehouses
  NoWarehouse,      \* no source warehouse is assigned
  ResourceId,       \* stocked resources
  Retirable,        \* those a manager may deactivate
  Client,           \* browser tabs with a Warehouse screen
  Submission,       \* idempotency keys of the manual forms
  Confirmed,        \* submissions with confirmNegative
  MaxQuantity,      \* bound: quantity of one manual movement
  OpeningDocument,  \* explicit opening balances of the project
  InventoryId,
  MaxCount,         \* bound: counted quantity
  Order,            \* completed customer orders
  Need,             \* per order and route, the frozen quantities of its lines
  BrokenRecipe,     \* <<order, route>> whose lines carry an issue code
  DeliveryLine,     \* lines of supplier deliveries
  WritesMayFail     \* the browser may refuse a write (storage quota)

Scope == {"bar", "kitchen"}

ASSUME WarehouseAssumption == NoWarehouse \notin WarehouseId
ASSUME ResourceAssumption == Retirable \subseteq ResourceId
ASSUME FiniteAssumption ==
  IsFiniteSet(ResourceId) /\ IsFiniteSet(OpeningDocument) /\ IsFiniteSet(DeliveryLine)
ASSUME QuantityAssumption == MaxQuantity \in Nat /\ MaxCount \in Nat
ASSUME OpeningAssumption ==
  \A d \in OpeningDocument :
    d.warehouseId \in WarehouseId /\ d.resourceId \in ResourceId /\ d.quantity \in Int
ASSUME OpeningIdAssumption == \A d, e \in OpeningDocument : d.id = e.id => d = e
ASSUME NeedAssumption == Need \in [Order -> [Scope -> [ResourceId -> Nat]]]
ASSUME DeliveryAssumption ==
  \A l \in DeliveryLine : l.resourceId \in ResourceId /\ l.quantity \in Nat
ASSUME DeliveryIdAssumption ==
  \A k, l \in DeliveryLine : k.delivery = l.delivery /\ k.line = l.line => k = l

VARIABLES
  movements,    \* the ledger
  inventories,  \* inventory documents; status "ABSENT" when not created
  issues,       \* consumption issues
  active,       \* resources that are active
  writeOffs,    \* the write-off each client has checked but not appended
  lineEdits     \* the inventory line each client is about to save

vars == <<movements, inventories, issues, active, writeOffs, lineEdits>>

Uncounted == -1
None == [none |-> TRUE]

-----------------------------------------------------------------------------
(* The ledger repository.                                                  *)

HasKey(ledger, key) == \E m \in ledger : m.key = key

\* Mutant: the keys are not looked up.
AppendedAgain(ledger, batch) == ledger \cup batch

\* appendBatch: one key that is already booked discards the whole batch.
Appended(ledger, batch) ==
  IF \E m \in batch : HasKey(ledger, m.key) THEN ledger ELSE ledger \cup batch

MovementOf(key, w, r, type, delta) ==
  [key |-> key, warehouseId |-> w, resourceId |-> r, type |-> type, delta |-> delta]

OpeningMovement(d) ==
  MovementOf(<<"legacy-opening", d.id>>, d.warehouseId, d.resourceId,
             "OPENING_BALANCE", d.quantity)

\* The ledger after migrateExplicitOpeningBalances, which every load runs first.
Migrated(ledger) ==
  ledger \cup {OpeningMovement(d) :
                 d \in {e \in OpeningDocument : ~HasKey(ledger, <<"legacy-opening", e.id>>)}}

\* What movements add up to.
Total(ms) == SumFunctionOnSet([m \in ms |-> m.delta], ms)

BalanceIn(ledger, w, r) == Total({m \in ledger : m.warehouseId = w /\ m.resourceId = r})

\* The balance a screen or a check sees: inactive resources are not listed.
SeenBalance(ledger, w, r) == IF r \in active THEN BalanceIn(ledger, w, r) ELSE 0

-----------------------------------------------------------------------------
(* Manual movements.                                                       *)

\* Every load of the state, whatever screen asks for it.
LoadState ==
  /\ movements' = Migrated(movements)
  /\ UNCHANGED <<inventories, issues, active, writeOffs, lineEdits>>

\* recordOpeningBalance and recordReceipt.
AppendQuantity(s, w, r, q, type) ==
  /\ r \in active
  /\ movements' = Appended(movements, {MovementOf(<<"manual", s>>, w, r, type, q)})
  /\ UNCHANGED <<inventories, issues, active, writeOffs, lineEdits>>

\* recordWriteOff up to its second access check.
BeginWriteOff(c, s, w, r, q) ==
  LET ledger == Migrated(movements)
      balance == SeenBalance(ledger, w, r)
  IN  /\ writeOffs[c] = None
      /\ r \in active
      /\ balance - q >= 0 \/ s \in Confirmed
      /\ movements' = ledger
      /\ writeOffs' = [writeOffs EXCEPT ![c] =
           MovementOf(<<"manual", s>>, w, r, "WRITE_OFF", -q)]
      /\ UNCHANGED <<inventories, issues, active, lineEdits>>

\* The rest of recordWriteOff: appendQuantity checks the resource again, not the balance.
FinishWriteOff(c) ==
  /\ writeOffs[c] # None
  /\ movements' = IF writeOffs[c].resourceId \in active
                    THEN Appended(movements, {writeOffs[c]})
                    ELSE movements
  /\ writeOffs' = [writeOffs EXCEPT ![c] = None]
  /\ UNCHANGED <<inventories, issues, active, lineEdits>>

TransferBatch(s, v, w, r, q) ==
  {MovementOf(<<"transfer", s, "out">>, v, r, "TRANSFER_OUT", -q),
   MovementOf(<<"transfer", s, "in">>, w, r, "TRANSFER_IN", q)}

\* Mutant: the balance of the destination is checked.
TransferCheckingDestination(s, v, w, r, q) ==
  LET ledger == Migrated(movements)
  IN  /\ v # w
      /\ SeenBalance(ledger, w, r) - q >= 0 \/ s \in Confirmed
      /\ movements' = Appended(ledger, TransferBatch(s, v, w, r, q))
      /\ UNCHANGED <<inventories, issues, active, writeOffs, lineEdits>>

\* The access checks come first: the balance is read and used in one turn.
Transfer(s, v, w, r, q) ==
  LET ledger == Migrated(movements)
  IN  /\ v # w
      /\ SeenBalance(ledger, v, r) - q >= 0 \/ s \in Confirmed
      /\ movements' = Appended(ledger, TransferBatch(s, v, w, r, q))
      /\ UNCHANGED <<inventories, issues, active, writeOffs, lineEdits>>

\* Called by Purchasing with the lines it posts.
RecordSupplierDelivery(w, lines) ==
  /\ lines # {}
  /\ \A l \in lines : l.quantity > 0
  /\ movements' = Appended(movements,
       {MovementOf(<<"supplier-delivery", l.delivery, l.line>>, w, l.resourceId,
                   "RECEIPT", l.quantity) : l \in lines})
  /\ UNCHANGED <<inventories, issues, active, writeOffs, lineEdits>>

-----------------------------------------------------------------------------
(* Inventories.                                                            *)

\* saveInventory
Saved(i, document) == [inventories EXCEPT ![i] = document]

CreateInventory(i, w) ==
  LET ledger == Migrated(movements)
  IN  /\ inventories[i].status = "ABSENT"
      /\ movements' = ledger
      /\ inventories' = Saved(i,
           [status |-> "DRAFT", warehouseId |-> w, resources |-> active,
            system |-> [r \in ResourceId |-> SeenBalance(ledger, w, r)],
            actual |-> [r \in ResourceId |-> Uncounted]])
      /\ UNCHANGED <<issues, active, writeOffs, lineEdits>>

\* updateInventoryLine reads the document before its access check ...
BeginLineUpdate(c, i, r, n) ==
  /\ lineEdits[c] = None
  /\ inventories[i].status = "DRAFT"
  /\ movements' = Migrated(movements)
  /\ lineEdits' = [lineEdits EXCEPT ![c] =
       [inventoryId |-> i,
        document |-> IF r \in inventories[i].resources
                       THEN [inventories[i] EXCEPT !.actual[r] = n]
                       ELSE inventories[i]]]
  /\ UNCHANGED <<inventories, issues, active, writeOffs>>

\* Mutant: a posted document is overwritten.
FinishLineUpdateOfAnyDocument(c) ==
  /\ lineEdits[c] # None
  /\ inventories' = Saved(lineEdits[c].inventoryId, lineEdits[c].document)
  /\ lineEdits' = [lineEdits EXCEPT ![c] = None]
  /\ UNCHANGED <<movements, issues, active, writeOffs>>

\* ... and writes back what it read, with the new count, unless it was posted meanwhile.
FinishLineUpdate(c) ==
  /\ lineEdits[c] # None
  /\ LET i == lineEdits[c].inventoryId
     IN  inventories' = IF inventories[i].status = "POSTED"
                          THEN inventories
                          ELSE Saved(i, lineEdits[c].document)
  /\ lineEdits' = [lineEdits EXCEPT ![c] = None]
  /\ UNCHANGED <<movements, issues, active, writeOffs>>

Difference(document, r) == document.actual[r] - document.system[r]

\* Mutant: shortages are forgotten.
InventorySurplusBatch(i) ==
  LET document == inventories[i]
  IN  {MovementOf(<<"inventory", i, r>>, document.warehouseId, r, "INVENTORY_SURPLUS",
                  Difference(document, r)) :
         r \in {q \in document.resources \cap active : Difference(document, q) > 0}}

InventoryBatch(i) ==
  LET document == inventories[i]
  IN  {MovementOf(<<"inventory", i, r>>, document.warehouseId, r,
                  IF Difference(document, r) > 0
                    THEN "INVENTORY_SURPLUS" ELSE "INVENTORY_SHORTAGE",
                  Difference(document, r)) :
         r \in {q \in document.resources \cap active : Difference(document, q) # 0}}

\* Two writes in one turn; the second may be refused after the first.
PostInventory(i, complete) ==
  /\ complete \/ WritesMayFail
  /\ inventories[i].status = "DRAFT"
  /\ \A r \in inventories[i].resources : inventories[i].actual[r] # Uncounted
  /\ movements' = Appended(Migrated(movements), InventoryBatch(i))
  /\ inventories' = IF complete
                      THEN Saved(i, [inventories[i] EXCEPT !.status = "POSTED"])
                      ELSE inventories
  /\ UNCHANGED <<issues, active, writeOffs, lineEdits>>

-----------------------------------------------------------------------------
(* Consumption of completed orders.                                        *)

Needed(o, scope) == {r \in ResourceId : Need[o][scope][r] > 0}

\* Mutant: the key names the warehouse.
SaleMovementPerWarehouse(o, scope, r, w) ==
  MovementOf(<<"sale", o, scope, <<r, w>>>>, w, r, "SALE_CONSUMPTION", -Need[o][scope][r])

SaleMovement(o, scope, r, w) ==
  MovementOf(<<"sale", o, scope, r>>, w, r, "SALE_CONSUMPTION", -Need[o][scope][r])

IssueOf(o, scope, source) ==
  IF source = NoWarehouse
    THEN {[orderId |-> o, scope |-> scope, code |-> "WAREHOUSE_NOT_ASSIGNED"]}
    ELSE IF <<o, scope>> \in BrokenRecipe
           THEN {[orderId |-> o, scope |-> scope, code |-> "RECIPE_NOT_FOUND"]}
           ELSE {}

\* consumeRoute for each of the scopes, with the source warehouses assigned now.
\* A refused write stops after the scopes that were written.
ConsumeCompletedOrder(o, source, scopes) ==
  LET routed == {scope \in scopes : Needed(o, scope) # {}}
      sound == {scope \in routed : IssueOf(o, scope, source[scope]) = {}}
      Batch(scope) == {SaleMovement(o, scope, r, source[scope]) : r \in Needed(o, scope)}
      Route(ledger, scope) ==
        IF scope \in sound THEN Appended(ledger, Batch(scope)) ELSE ledger
  IN  /\ scopes = Scope \/ WritesMayFail
      /\ movements' = Route(Route(Migrated(movements), "bar"), "kitchen")
      /\ issues' = issues \cup UNION {IssueOf(o, scope, source[scope]) : scope \in routed}
      /\ UNCHANGED <<inventories, active, writeOffs, lineEdits>>

-----------------------------------------------------------------------------
\* A manager deactivates or reactivates a resource on its card.
SetActive(r) ==
  /\ active' = IF r \in active THEN active \ {r} ELSE active \cup {r}
  /\ UNCHANGED <<movements, inventories, issues, writeOffs, lineEdits>>

Init ==
  /\ movements = {}
  /\ inventories = [i \in InventoryId |->
       [status |-> "ABSENT", warehouseId |-> NoWarehouse, resources |-> {},
        system |-> [r \in ResourceId |-> 0],
        actual |-> [r \in ResourceId |-> Uncounted]]]
  /\ issues = {}
  /\ active = ResourceId
  /\ writeOffs = [c \in Client |-> None]
  /\ lineEdits = [c \in Client |-> None]

ManualStep ==
  \E s \in Submission, w \in WarehouseId, r \in ResourceId, q \in 1 .. MaxQuantity :
    \/ \E type \in {"OPENING_BALANCE", "RECEIPT"} : AppendQuantity(s, w, r, q, type)
    \/ \E c \in Client : BeginWriteOff(c, s, w, r, q)
    \/ \E v \in WarehouseId : Transfer(s, v, w, r, q)

InventoryStep ==
  \E i \in InventoryId :
    \/ \E w \in WarehouseId : CreateInventory(i, w)
    \/ \E c \in Client, r \in ResourceId, n \in 0 .. MaxCount : BeginLineUpdate(c, i, r, n)
    \/ \E complete \in BOOLEAN : PostInventory(i, complete)

ConsumptionStep ==
  \E o \in Order, source \in [Scope -> WarehouseId \cup {NoWarehouse}],
     scopes \in {{}, {"bar"}, Scope} :
    ConsumeCompletedOrder(o, source, scopes)

Next ==
  \/ LoadState
  \/ ManualStep
  \/ \E c \in Client : FinishWriteOff(c) \/ FinishLineUpdate(c)
  \/ \E w \in WarehouseId, lines \in SUBSET DeliveryLine : RecordSupplierDelivery(w, lines)
  \/ InventoryStep
  \/ ConsumptionStep
  \/ \E r \in Retirable : SetActive(r)

Spec == Init /\ [][Next]_vars

-----------------------------------------------------------------------------
(* Correctness.                                                            *)

MovementType ==
  {"OPENING_BALANCE", "RECEIPT", "WRITE_OFF", "TRANSFER_OUT", "TRANSFER_IN",
   "INVENTORY_SURPLUS", "INVENTORY_SHORTAGE", "SALE_CONSUMPTION"}

Key ==
  ({"manual"} \X Submission)
  \cup ({"transfer"} \X Submission \X {"out", "in"})
  \cup {<<"legacy-opening", d.id>> : d \in OpeningDocument}
  \cup {<<"supplier-delivery", l.delivery, l.line>> : l \in DeliveryLine}
  \cup ({"inventory"} \X InventoryId \X ResourceId)
  \cup ({"sale"} \X Order \X Scope \X ResourceId)

Movement ==
  [key : Key, warehouseId : WarehouseId, resourceId : ResourceId,
   type : MovementType, delta : Int]

InventoryDocument ==
  [status : {"ABSENT", "DRAFT", "POSTED"}, warehouseId : WarehouseId \cup {NoWarehouse},
   resources : SUBSET ResourceId, system : [ResourceId -> Int], actual : [ResourceId -> Int]]

Issue ==
  [orderId : Order, scope : Scope, code : {"WAREHOUSE_NOT_ASSIGNED", "RECIPE_NOT_FOUND"}]

LineEdit == [inventoryId : InventoryId, document : InventoryDocument]

\* The store and what the waiting handlers hold have the shapes the code gives them.
TypeOK ==
  /\ movements \subseteq Movement
  /\ inventories \in [InventoryId -> InventoryDocument]
  /\ issues \subseteq Issue
  /\ active \subseteq ResourceId
  /\ writeOffs \in [Client -> Movement \cup {None}]
  /\ lineEdits \in [Client -> LineEdit \cup {None}]

\* No business event is booked twice, however often a form, a delivery, a posting or
\* an order's consumption is repeated, and nothing that was booked is ever changed:
\* the ledger of the warehouse is a StockLedger.
Ledger == INSTANCE StockLedger WITH ledger <- movements

LedgerRefined == Ledger!Spec

NewMovements(type) == {m \in movements' \ movements : m.type = type}

CoveredUnlessConfirmed(m) ==
  m.key[2] \in Confirmed \/ BalanceIn(movements', m.warehouseId, m.resourceId) >= 0

\* A transfer that nobody confirmed never leaves its source below zero, whatever other
\* clients book while it waits for its access checks.
UnconfirmedTransfersCovered ==
  [][\A m \in NewMovements("TRANSFER_OUT") : CoveredUnlessConfirmed(m)]_vars

\* The same of write-offs, as the module's documentation promises it.
UnconfirmedWriteOffsCovered ==
  [][\A m \in NewMovements("WRITE_OFF") : CoveredUnlessConfirmed(m)]_vars

\* A posted inventory is immutable, also for a client that was editing one of its
\* lines when another posted it.
PostedInventoriesFinal ==
  [][\A i \in InventoryId :
       inventories[i].status = "POSTED" => inventories'[i] = inventories[i]]_vars

\* The difference the ledger books for a resource of an inventory.
BookedDifference(i, r) == Total({m \in movements : m.key = <<"inventory", i, r>>})

\* A posted inventory and the ledger agree: what was booked for each counted resource
\* is the difference the document shows.
PostedInventoryApplied ==
  \A i \in InventoryId :
    inventories[i].status = "POSTED" =>
      \A r \in inventories[i].resources :
        BookedDifference(i, r) = Difference(inventories[i], r)

SalesOf(o, scope) ==
  {m \in movements : m.key[1] = "sale" /\ m.key[2] = o /\ m.key[3] = scope}

\* The lines of an order on one route are consumed together and once, from a single
\* warehouse, even when the source warehouse is reassigned between two attempts.
SalesAtomic ==
  \A o \in Order, scope \in Scope :
    SalesOf(o, scope) # {} =>
      \E w \in WarehouseId :
        SalesOf(o, scope) = {SaleMovement(o, scope, r, w) : r \in Needed(o, scope)}

=============================================================================
