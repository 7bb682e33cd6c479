---------------------------- MODULE StockLedger ----------------------------
(***************************************************************************)
(* What the warehouse ledger promises, whoever writes to it: a set of      *)
(* movements that only grows, a batch at a time, and in which an           *)
(* idempotency key stands for one movement for ever.                       *)
(***************************************************************************)

VARIABLE ledger  \* the movements booked so far, records with a field key

OneMovementPerKey(batch) == \A m, n \in batch : m.key = n.key => m = n

Init == ledger = {}

\* Books a batch none of whose keys was booked before.
Append ==
  LET batch == ledger' \ ledger
  IN  /\ ledger \subseteq ledger'
      /\ OneMovementPerKey(batch)
      /\ \A m \in batch, n \in ledger : m.key # n.key

Spec == Init /\ [][Append]_ledger

-----------------------------------------------------------------------------
\* Nothing is ever booked twice.
KeysUnique == OneMovementPerKey(ledger)
=============================================================================
