---------------------------- MODULE MCOrderTabs ----------------------------
(* Small instances of OrderTabs.                                           *)
EXTENDS OrderTabs

CONSTANTS latte, soup

NoItems == {}
MCRoute == [i \in Item |-> IF i = latte THEN "BAR" ELSE "KITCHEN"]

NoOperations == {}
Cancellation == {"ORDER_CANCELLED"}
=============================================================================
