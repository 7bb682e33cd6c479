----------------------------- MODULE TabsProofs -----------------------------
(***************************************************************************)
(* What the state invariants of BarOrders say of a store that two tabs     *)
(* overwrite, for every number of orders, lines, tables and modifiers.     *)
(*                                                                         *)
(* A save replaces the store by what a handler made of the tab's copy.  So *)
(* the argument is not about the store alone: the store and the copies of  *)
(* both tabs are sound, and what BarProofs proves of a handler on the      *)
(* store is cited of a handler on a copy, by an instance for each tab.     *)
(***************************************************************************)
EXTENDS OrderTabs, BarProofs

AP == INSTANCE BarProofs WITH orders <- ordersA, audit <- auditA
BP == INSTANCE BarProofs WITH orders <- ordersB, audit <- auditB

\* The store and the copies are each one that handlers could have produced.
TabsInv ==
  /\ SoundStore(orders, audit)
  /\ SoundStore(ordersA, auditA)
  /\ SoundStore(ordersB, auditB)

-----------------------------------------------------------------------------
(* A handler of tab A does with the copy what a handler does with a store. *)

\* Soundness is the same thing in the instance.
LEMMA SoundForA == \A os, log : AP!SoundStore(os, log) <=> SoundStore(os, log)
BY DEF SoundStore, OrderRecord, OrderStatus, ItemRecord, ItemStatus, AuditEntry, RecordInv,
       NoOrder, NoItem, Active, Terminal, PreparationStatus, LinesConsistent, Lines, Submitted,
       Settlement,
       AP!SoundStore, AP!OrderRecord, AP!OrderStatus, AP!ItemRecord, AP!ItemStatus,
       AP!AuditEntry, AP!RecordInv, AP!NoOrder, AP!NoItem, AP!Active, AP!Terminal,
       AP!PreparationStatus, AP!LinesConsistent, AP!Lines, AP!Submitted, AP!Settlement

\* OrderTabs and the instance of BarProofs mean the same handlers.
LEMMA NextOfA == A!Next => AP!Next
BY DEF A!Next, AP!Next,
       A!BarStep, AP!BarStep, A!KitchenStep, AP!KitchenStep, A!Save, AP!Save,
       A!LoadedAudit, AP!LoadedAudit, A!Entries, AP!Entries, A!CreateOrder, AP!CreateOrder,
       A!AssignOrder, AP!AssignOrder, A!ChangeGuestCount, AP!ChangeGuestCount,
       A!TransferOrder, AP!TransferOrder, A!ReleaseTable, AP!ReleaseTable,
       A!AddItem, AP!AddItem, A!UpdateItemQuantity, AP!UpdateItemQuantity,
       A!UpdateItemDetails, AP!UpdateItemDetails, A!RemoveItem, AP!RemoveItem,
       A!SentLine, AP!SentLine, A!Sent, AP!Sent, A!SendOrder, AP!SendOrder,
       A!BarTransition, AP!BarTransition, A!UpdateBarItemStatus, AP!UpdateBarItemStatus,
       A!AcceptAllSentItems, AP!AcceptAllSentItems, A!Issued, AP!Issued,
       A!IssueReadyOrder, AP!IssueReadyOrder, A!RecordPayment, AP!RecordPayment,
       A!CompleteOrder, AP!CompleteOrder, A!CancelOrder, AP!CancelOrder,
       A!AcceptPosition, AP!AcceptPosition, A!MarkPositionReady, AP!MarkPositionReady,
       A!AcceptAll, AP!AcceptAll, A!ConfirmAllReady, AP!ConfirmAllReady,
       A!TableFree, AP!TableFree, A!NextOrderNumber, AP!NextOrderNumber,
       A!Active, AP!Active, A!Terminal, AP!Terminal, A!Mutable, AP!Mutable,
       A!Lines, AP!Lines, A!Submitted, AP!Submitted, A!DraftItem, AP!DraftItem,
       A!KitchenItems, AP!KitchenItems, A!PreparationStatus, AP!PreparationStatus,
       A!WithPreparationStatus, AP!WithPreparationStatus, A!WithItemStatus, AP!WithItemStatus,
       A!NoOrder, AP!NoOrder, A!NoItem, AP!NoItem

LEMMA HandlerOfA ==
  ASSUME SoundStore(ordersA, auditA), A!Next
  PROVE  SoundStore(ordersA', auditA')
BY SoundForA, NextOfA, AP!HandlerKeepsSound,
   RouteAssumption, TableAssumption, ModifiersAssumption, BoundAssumption

-----------------------------------------------------------------------------
(* And a handler of tab B.                                                 *)

LEMMA SoundForB == \A os, log : BP!SoundStore(os, log) <=> SoundStore(os, log)
BY DEF SoundStore, OrderRecord, OrderStatus, ItemRecord, ItemStatus, AuditEntry, RecordInv,
       NoOrder, NoItem, Active, Terminal, PreparationStatus, LinesConsistent, Lines, Submitted,
       Settlement,
       BP!SoundStore, BP!OrderRecord, BP!OrderStatus, BP!ItemRecord, BP!ItemStatus,
       BP!AuditEntry, BP!RecordInv, BP!NoOrder, BP!NoItem, BP!Active, BP!Terminal,
       BP!PreparationStatus, BP!LinesConsistent, BP!Lines, BP!Submitted, BP!Settlement

LEMMA NextOfB == B!Next => BP!Next
BY DEF B!Next, BP!Next,
       B!BarStep, BP!BarStep, B!KitchenStep, BP!KitchenStep, B!Save, BP!Save,
       B!LoadedAudit, BP!LoadedAudit, B!Entries, BP!Entries, B!CreateOrder, BP!CreateOrder,
       B!AssignOrder, BP!AssignOrder, B!ChangeGuestCount, BP!ChangeGuestCount,
       B!TransferOrder, BP!TransferOrder, B!ReleaseTable, BP!ReleaseTable,
       B!AddItem, BP!AddItem, B!UpdateItemQuantity, BP!UpdateItemQuantity,
       B!UpdateItemDetails, BP!UpdateItemDetails, B!RemoveItem, BP!RemoveItem,
       B!SentLine, BP!SentLine, B!Sent, BP!Sent, B!SendOrder, BP!SendOrder,
       B!BarTransition, BP!BarTransition, B!UpdateBarItemStatus, BP!UpdateBarItemStatus,
       B!AcceptAllSentItems, BP!AcceptAllSentItems, B!Issued, BP!Issued,
       B!IssueReadyOrder, BP!IssueReadyOrder, B!RecordPayment, BP!RecordPayment,
       B!CompleteOrder, BP!CompleteOrder, B!CancelOrder, BP!CancelOrder,
       B!AcceptPosition, BP!AcceptPosition, B!MarkPositionReady, BP!MarkPositionReady,
       B!AcceptAll, BP!AcceptAll, B!ConfirmAllReady, BP!ConfirmAllReady,
       B!TableFree, BP!TableFree, B!NextOrderNumber, BP!NextOrderNumber,
       B!Active, BP!Active, B!Terminal, BP!Terminal, B!Mutable, BP!Mutable,
       B!Lines, BP!Lines, B!Submitted, BP!Submitted, B!DraftItem, BP!DraftItem,
       B!KitchenItems, BP!KitchenItems, B!PreparationStatus, BP!PreparationStatus,
       B!WithPreparationStatus, BP!WithPreparationStatus, B!WithItemStatus, BP!WithItemStatus,
       B!NoOrder, BP!NoOrder, B!NoItem, BP!NoItem

LEMMA HandlerOfB ==
  ASSUME SoundStore(ordersB, auditB), B!Next
  PROVE  SoundStore(ordersB', auditB')
BY SoundForB, NextOfB, BP!HandlerKeepsSound,
   RouteAssumption, TableAssumption, ModifiersAssumption, BoundAssumption

-----------------------------------------------------------------------------
(* Every step leaves the store and both copies sound.                      *)

LEMMA TabsInitInv == TabsInit => TabsInv
<1> SUFFICES ASSUME TabsInit PROVE TabsInv
  OBVIOUS
<1>1. SoundStore(orders, audit)
  BY NewStoreSound DEF TabsInit
<1>2. orders = ordersA /\ audit = auditA /\ orders = ordersB /\ audit = auditB
  BY DEF TabsInit, Init, A!Init, B!Init, NoOrder, NoItem, A!NoOrder, A!NoItem, B!NoOrder, B!NoItem
<1> QED
  BY <1>1, <1>2 DEF TabsInv

LEMMA TabsNextInv == TabsInv /\ [TabsNext]_tabsVars => TabsInv'
<1> SUFFICES ASSUME TabsInv, [TabsNext]_tabsVars PROVE TabsInv'
  OBVIOUS
<1> USE DEF TabsInv
<1>1. CASE LoadA \/ AbandonA
  BY <1>1 DEF LoadA, AbandonA, vars, tabB
<1>2. CASE LoadB \/ AbandonB
  BY <1>2 DEF LoadB, AbandonB, vars, tabA
<1>3. CASE SaveA
  <2>1. SoundStore(ordersA', auditA')
    BY <1>3, HandlerOfA DEF SaveA
  <2>2. orders' = ordersA' /\ audit' = auditA'
    BY <1>3 DEF SaveA, Saved
  <2>3. \/ ordersB' = ordersB /\ auditB' = auditB
        \/ ordersB' = orders' /\ auditB' = audit'
    BY <1>3 DEF SaveA
  <2> QED
    BY <2>1, <2>2, <2>3
<1>4. CASE SaveB
  <2>1. SoundStore(ordersB', auditB')
    BY <1>4, HandlerOfB DEF SaveB
  <2>2. orders' = ordersB' /\ audit' = auditB'
    BY <1>4 DEF SaveB, Saved
  <2>3. \/ ordersA' = ordersA /\ auditA' = auditA
        \/ ordersA' = orders' /\ auditA' = audit'
    BY <1>4 DEF SaveB
  <2> QED
    BY <2>1, <2>2, <2>3
<1>5. CASE UNCHANGED tabsVars
  BY <1>5 DEF tabsVars, vars, tabA, tabB
<1> QED
  BY <1>1, <1>2, <1>3, <1>4, <1>5 DEF TabsNext

LEMMA TabsInductive == TabsSpec => []TabsInv
BY TabsInitInv, TabsNextInv, PTL DEF TabsSpec

-----------------------------------------------------------------------------
\* However stale the copy a tab saves, two open orders never share a table: the save takes
\* back what the other tab did at the tables, too (bar-local-repository.ts, save).
THEOREM TabsKeepTables == TabsSpec => []OneOpenOrderPerTable
<1>1. TabsInv => OneOpenOrderPerTable
  BY SoundMeans DEF TabsInv
<1> QED
  BY <1>1, TabsInductive, PTL

\* Two tabs may hand out one number, each from its copy, but the store never holds two
\* orders with it.
THEOREM TabsKeepNumbers == TabsSpec => []OrderNumbersDiffer
<1>1. TabsInv => OrderNumbersDiffer
  BY SoundMeans DEF TabsInv
<1> QED
  BY <1>1, TabsInductive, PTL

\* What a stale save loses it loses of the orders and of the log alike.
THEOREM TabsKeepAudit ==
  ASSUME Settlement \subseteq AuditOperation
  PROVE  TabsSpec => []AuditMatchesOrders
<1>1. TabsInv => AuditMatchesOrders
  BY SoundMeans DEF TabsInv
<1> QED
  BY <1>1, TabsInductive, PTL

\* The order of each identifier keeps the invariant that BarProofs proves under Spec, and
\* with it the status its lines give, its batches, its payment and its issue.
THEOREM TabsKeepOrders ==
  TabsSpec => [](/\ TypeOK /\ StatusFollowsItems /\ BatchesAgree
                 /\ PaidOrdersCanFinish /\ IssuedLinesWereReady /\ CompletedOrdersSettled)
<1>1. TabsInv => IInv
  BY SoundMeans DEF TabsInv
<1>2. IInv => /\ TypeOK /\ StatusFollowsItems /\ BatchesAgree
              /\ PaidOrdersCanFinish /\ IssuedLinesWereReady /\ CompletedOrdersSettled
  BY DEF IInv, RecordInv, LinesConsistent, StatusFollowsItems, BatchesAgree,
         PaidOrdersCanFinish, IssuedLinesWereReady, CompletedOrdersSettled
<1> QED
  BY <1>1, <1>2, TabsInductive, PTL

=============================================================================
