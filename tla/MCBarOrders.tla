---------------------------- MODULE MCBarOrders ----------------------------
(* Small instances of BarOrders: one line per preparation workspace.         *)
EXTENDS BarOrders

CONSTANTS latte, soup, cake, water

AllItems == {latte, soup, water}
TwoDishes == {soup, cake}
OneBarItem == {latte}

MCRoute == [i \in Item |-> CASE i = latte -> "BAR"
                             [] i \in {soup, cake} -> "KITCHEN"
                             [] i = water -> "IMMEDIATE"]

SettlementOperations ==
  {"PAYMENT_RECORDED", "ORDER_ISSUED", "ORDER_COMPLETED", "ORDER_CANCELLED"}

NoOperations == {}
ReadyAll == {"READY_ALL"}
Acceptance == {"ITEMS_ACCEPTED"}

=============================================================================
