---------------------------- MODULE MCWarehouse ----------------------------
(* Small instances of Warehouse for TLC.                                   *)
EXTENDS WarehouseScreen, TLC

CONSTANTS w1, w2, r1, r2, s1, s2, c1, c2, i1, o1, o2, d1, l1, l2

NoDocuments == {}
OneOpening == {[id |-> d1, warehouseId |-> w1, resourceId |-> r1, quantity |-> 1]}
NoDeliveries == {}
TwoLines == {[delivery |-> "delivery", line |-> l, resourceId |-> r1, quantity |-> 1] : l \in {l1, l2}}

NoNeed == [o \in Order |-> [scope \in Scope |-> [r \in ResourceId |-> 0]]]
BothRoutes == [o \in Order |->
  [scope \in Scope |-> [r \in ResourceId |-> IF scope = "bar" \/ r = r1 THEN 1 ELSE 0]]]
NoBroken == {}

=============================================================================
