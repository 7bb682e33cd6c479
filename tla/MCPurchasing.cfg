SPECIFICATION Spec
CONSTANTS
  Order = {o1}
  NoOrder = NoOrder
  Delivery = {d1, d2, d3}
  Withdrawn = {d3}
  Resource = {r1, r2}
  Client = {c1, c2}
  MaxQuantity = 1
  MaxVersions = 2
  MaxAttempts = 3
INVARIANTS
  PostedDeliveriesReceived
  PricesMatchDeliveries
  DeliveredOrdersComplete
  
  ReceivableOrdersComplete
  
CHECK_DEADLOCK FALSE
