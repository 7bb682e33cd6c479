---------------------------- MODULE MCSuppliers ----------------------------
(* A small instance of Suppliers.                                          *)
EXTENDS Suppliers, TLC

CONSTANTS s1, s2, r1

Clients == Permutations(Caller)
OneReference == {<<s1, r1>>}
=============================================================================
