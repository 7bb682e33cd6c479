SPECIFICATION Spec
CONSTANTS
  w1 = w1
  w2 = w2
  r1 = r1
  r2 = r2
  s1 = s1
  s2 = s2
  c1 = c1
  c2 = c2
  i1 = i1
  o1 = o1
  o2 = o2
  d1 = d1
  l1 = l1
  l2 = l2
  NoWarehouse = NoWarehouse
  WarehouseId = {w1, w2}
  ResourceId = {r1, r2}
  Retirable = {r1}
  Client = {c1}
  Submission = {s1}
  Confirmed = {}
  MaxQuantity = 1
  OpeningDocument <- OneOpening
  InventoryId = {}
  MaxCount = 0
  Order = {o1}
  Need <- BothRoutes
  BrokenRecipe <- NoBroken
  DeliveryLine <- TwoLines
  WritesMayFail = TRUE
INVARIANT SalesAtomic
INVARIANT HistoryAccounts
INVARIANT OfferedFormsAccepted
PROPERTY LedgerRefined
 
