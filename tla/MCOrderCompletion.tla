------------------------- MODULE MCOrderCompletion -------------------------
(* A small instance of OrderCompletion: a line for each way of preparing.  *)
EXTENDS OrderCompletion, BarScreen

CONSTANTS latte, soup, water

AllItems == {latte, soup, water}
MCRoute == [i \in Item |-> CASE i = latte -> "BAR" [] i = soup -> "KITCHEN" [] i = water -> "IMMEDIATE"]

SettlementOperations ==
  {"PAYMENT_RECORDED", "ORDER_ISSUED", "ORDER_COMPLETED", "ORDER_CANCELLED", "READY_ALL"}

BrokenWater == {water}

-----------------------------------------------------------------------------
(* The dialog of an order line on small offers: what ModifierDialogProofs  *)
(* proves of every offer.                                                  *)

Dialog == INSTANCE ModifierDialog

GroupKind ==
  [required : BOOLEAN, multiple : BOOLEAN, minimum : 0 .. 1, maximum : 1 .. 2,
   options : {{1, 2, 3}}]
Offers == UNION {[gs -> GroupKind] : gs \in {{1}, {1, 2}}}

SmallSelections(offer) ==
  {sel \in SUBSET Dialog!Offered(offer) : Dialog!WithinOffer(offer, sel)}

\* Whatever is clicked, the dialog holds offered options, of each group no more than it
\* may, and what it lets a user submit the service takes as it is.
ASSUME DialogAccepted ==
  \A offer \in Offers : \A sel \in SmallSelections(offer) :
    /\ \A s \in Dialog!Offered(offer) :
         Dialog!WithinOffer(offer, Dialog!Toggle(offer, sel, s[1], s[2]))
    /\ Dialog!Valid(offer, sel) => Dialog!Accepted(offer, DOMAIN offer, sel)

=============================================================================
