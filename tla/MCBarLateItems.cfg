SPECIFICATION Spec
CONSTANTS
  Order = {o1}
  latte = latte
  soup = soup
  cake = cake
  water = water
  Item <- AllItems
  Route <- MCRoute
  Table = {t1}
  NoTable = NoTable
  Modifiers = {plain}
  MaxQuantity = 1
  AuditOperation <- NoOperations
  MaxBatches = 2
  MaxOrderNumber = 1
INVARIANT CompletedOrdersReady
CHECK_DEADLOCK FALSE
