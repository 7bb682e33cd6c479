SPECIFICATION Spec
CONSTANTS
  w1 = w1
  w2 = w2
  r1 = r1
  r2 = r2
  s1 = s1
  s2 = s2
  c1 = c1
  c2 = c2
  i1 = i1
  o1 = o1
  o2 = o2
  d1 = d1
  l1 = l1
  l2 = l2
  NoWarehouse = NoWarehouse
  WarehouseId = {w1}
  ResourceId = {r1, r2}
  Retirable = {}
  Client = {c1, c2}
  Submission = {s1}
  Confirmed = {s1}
  MaxQuantity = 1
  OpeningDocument <- NoDocuments
  InventoryId = {i1}
  MaxCount = 1
  Order = {}
  Need <- NoNeed
  BrokenRecipe <- NoBroken
  DeliveryLine <- NoDeliveries
  WritesMayFail = FALSE
 
PROPERTY PostedInventoriesFinal
