SPECIFICATION CompletionSpec
CONSTANTS
  Order = {o1}
  latte = latte
  soup = soup
  water = water
  Item <- AllItems
  Route <- MCRoute
  Table = {t1}
  NoTable = NoTable
  Modifiers = {plain, oat}
  MaxQuantity = 2
  AuditOperation <- SettlementOperations
  MaxBatches = 3
  MaxOrderNumber = 1
  BrokenLine <- BrokenWater
INVARIANTS
  TypeOK
  StatusFollowsItems
  CompletedOrdersSettled
  
  
  PaidOrdersGoOn
  BookingsMatchOrders
PROPERTIES
  PaidBillFrozen
  SubmittedLinesOnlyAdvance
  CompletedOrdersAccounted
CHECK_DEADLOCK FALSE
