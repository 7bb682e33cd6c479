SPECIFICATION TabsSpec
CONSTANTS
  latte = latte
  soup = soup
  Order = {o1, o2}
  Item <- NoItems
  Route <- MCRoute
  Table = {t1, t2}
  NoTable = NoTable
  Modifiers = {plain}
  MaxQuantity = 1
  AuditOperation <- Cancellation
  MaxBatches = 0
  MaxOrderNumber = 2
INVARIANTS
  OneOpenOrderPerTable
  OrderNumbersDiffer
  
