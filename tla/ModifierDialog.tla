--------------------------- MODULE ModifierDialog ---------------------------
(***************************************************************************)
(* The dialog in which the options of an order line are chosen             *)
(* (ProductDialog and ModifierOptionGroup of bar-workspace-screen.tsx) and *)
(* the check the service repeats when the line is saved (selectedModifiers *)
(* of bar-service.ts).  The dialog goes by the groups the screen has       *)
(* loaded, the service by those a manager has saved meanwhile; a line that *)
(* is edited brings the choices it was saved with.                         *)
(*                                                                         *)
(* An offer is a function from the active groups of a product to what the  *)
(* screen knows of them: required, multiple, minimum, maximum, options.  A *)
(* selection is a set of <<group, option>>: the dialog adds no choice      *)
(* twice.  Prices, names, purposes and the comment are left out.           *)
(***************************************************************************)
EXTENDS Naturals, FiniteSets

\* All that can be clicked.
Offered(offer) == UNION {{<<g, o>> : o \in offer[g].options} : g \in DOMAIN offer}

ChosenOf(sel, g) == {s \in sel : s[1] = g}

\* A required group asks for an option even if its minimum is zero.
Minimum(group) == IF group.required /\ group.minimum = 0 THEN 1 ELSE group.minimum

\* The dialog may be submitted.
Valid(offer, sel) ==
  \A g \in DOMAIN offer :
    /\ Cardinality(ChosenOf(sel, g)) >= Minimum(offer[g])
    /\ Cardinality(ChosenOf(sel, g)) <= offer[g].maximum

\* An option that is not chosen is disabled when its group has as many as it may.
LimitReached(offer, sel, g) ==
  offer[g].multiple /\ Cardinality(ChosenOf(sel, g)) >= offer[g].maximum

\* A click: the only option of a required group stays, another takes its place.
Toggle(offer, sel, g, o) ==
  IF <<g, o>> \in sel
    THEN IF offer[g].required /\ ~offer[g].multiple THEN sel ELSE sel \ {<<g, o>>}
    ELSE IF ~offer[g].multiple
           THEN (sel \ ChosenOf(sel, g)) \cup {<<g, o>>}
           ELSE IF LimitReached(offer, sel, g) THEN sel ELSE sel \cup {<<g, o>>}

\* selectedModifiers, of a product with these groups, of which some may be inactive.
Accepted(offer, product, sel) ==
  /\ \A g \in product \cap DOMAIN offer :
       /\ Valid([h \in {g} |-> offer[h]], sel)
       /\ ~offer[g].multiple => Cardinality(ChosenOf(sel, g)) <= 1
       /\ \A s \in ChosenOf(sel, g) : s[2] \in offer[g].options
  /\ \A s \in sel : s[1] \in product

\* What is kept of the choices: those of an inactive group are dropped.
Kept(offer, sel) == {s \in sel : s[1] \in DOMAIN offer}

-----------------------------------------------------------------------------
\* Selections the dialog can be in: offered options, of each group no more than it may.
WithinOffer(offer, sel) ==
  /\ sel \subseteq Offered(offer)
  /\ \A g \in DOMAIN offer :
       \/ Cardinality(ChosenOf(sel, g)) <= 1
       \/ offer[g].multiple /\ Cardinality(ChosenOf(sel, g)) <= offer[g].maximum

=============================================================================
