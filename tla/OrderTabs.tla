----------------------------- MODULE OrderTabs -----------------------------
(***************************************************************************)
(* Two browser tabs on one order store.  Each runs the handlers of         *)
(* BarOrders, but what it decides on is the store as it was when the tab   *)
(* loaded it (bar-local-repository.ts, load): the other tab may have saved *)
(* since.  A save replaces the whole store and compares nothing (save).    *)
(*                                                                         *)
(* loadedA and loadedB say that a tab is in a handler, between its load    *)
(* and its save, and its copy may be stale.  Between handlers a tab keeps  *)
(* nothing: its copy is then the store, for want of a better value.  A     *)
(* handler that throws, or a tab that is closed, abandons its copy.        *)
(***************************************************************************)
EXTENDS BarOrders

VARIABLES
  ordersA, auditA, loadedA,   \* what tab A has loaded
  ordersB, auditB, loadedB    \* what tab B has loaded

tabA == <<ordersA, auditA, loadedA>>
tabB == <<ordersB, auditB, loadedB>>
tabsVars == <<vars, tabA, tabB>>

A == INSTANCE BarOrders WITH orders <- ordersA, audit <- auditA
B == INSTANCE BarOrders WITH orders <- ordersB, audit <- auditB

-----------------------------------------------------------------------------

\* Mutant: only the orders the handler changed are replaced.
SavedOrderByOrder(loaded, changed, entries) ==
  /\ orders' = [o \in Order |-> IF changed[o] # loaded[o] THEN changed[o] ELSE orders[o]]
  /\ audit' = entries

\* Mutant: the entries the store has gained meanwhile are kept.
SavedWithAllEntries(loaded, changed, entries) ==
  /\ orders' = changed
  /\ audit' = audit \cup entries

\* The whole store is replaced, whatever it holds now.
Saved(loaded, changed, entries) ==
  /\ orders' = changed
  /\ audit' = entries

LoadA ==
  /\ ~loadedA
  /\ ordersA' = orders /\ auditA' = audit /\ loadedA' = TRUE
  /\ UNCHANGED <<vars, tabB>>

SaveA ==
  /\ loadedA
  /\ A!Next
  /\ Saved(ordersA, ordersA', auditA')
  /\ loadedA' = FALSE
  /\ IF loadedB THEN UNCHANGED <<ordersB, auditB>> ELSE ordersB' = orders' /\ auditB' = audit'
  /\ UNCHANGED loadedB

AbandonA ==
  /\ loadedA
  /\ ordersA' = orders /\ auditA' = audit /\ loadedA' = FALSE
  /\ UNCHANGED <<vars, tabB>>

LoadB ==
  /\ ~loadedB
  /\ ordersB' = orders /\ auditB' = audit /\ loadedB' = TRUE
  /\ UNCHANGED <<vars, tabA>>

SaveB ==
  /\ loadedB
  /\ B!Next
  /\ Saved(ordersB, ordersB', auditB')
  /\ loadedB' = FALSE
  /\ IF loadedA THEN UNCHANGED <<ordersA, auditA>> ELSE ordersA' = orders' /\ auditA' = audit'
  /\ UNCHANGED loadedA

AbandonB ==
  /\ loadedB
  /\ ordersB' = orders /\ auditB' = audit /\ loadedB' = FALSE
  /\ UNCHANGED <<vars, tabA>>

TabsInit ==
  /\ Init
  /\ A!Init /\ loadedA = FALSE
  /\ B!Init /\ loadedB = FALSE

TabsNext == LoadA \/ SaveA \/ AbandonA \/ LoadB \/ SaveB \/ AbandonB

\* A stale save may undo what the other tab did, but the store it leaves is one that some
\* sequence of handlers could have produced: the state invariants of BarOrders hold here
\* too (the runs check them).  Its action properties do not: a stale save goes back.
TabsSpec == TabsInit /\ [][TabsNext]_tabsVars
=============================================================================
