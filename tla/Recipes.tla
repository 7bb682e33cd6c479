------------------------------ MODULE Recipes ------------------------------
(***************************************************************************)
(* The expansion of a menu item into what it takes from the stock          *)
(* (recipe-engine/expansion.ts).  A recipe has components: ingredients,    *)
(* and other recipes, which it names by what they make.  The recipes are   *)
(* whatever the configuration holds: a preparation may be missing,         *)
(* switched off, or contain itself.                                        *)
(*                                                                         *)
(* Quantities are left out: what is modelled is which resources a menu     *)
(* item needs and when the expansion is refused.                           *)
(***************************************************************************)
EXTENDS Integers, FiniteSets

\* A book of recipes has the components of each recipe, the active recipes of preparations, and
\* the resources in stock.  A component is a resource of the stock or the recipe of a preparation.

\* Mutant: a preparation that is switched off is used.
MadeByAny(b, c) == c \in DOMAIN b.components

\* An active recipe makes it.
MadeBy(b, c) == c \in b.active

\* The preparations that a recipe is made of.
Nested(b, r) == {c \in b.components[r] : MadeBy(b, c)}

\* Every component is made by an active recipe or is kept in stock.
Resolves(b, r) == \A c \in b.components[r] : MadeBy(b, c) \/ c \in b.stock

\* Mutant: the path is not extended on the way down, so that only a recipe that contains
\* itself directly is refused.
ExpandsShallow(b, r) ==
  LET visit[d \in 0 .. Cardinality(DOMAIN b.components), q \in DOMAIN b.components] ==
        /\ Resolves(b, q)
        /\ q \notin Nested(b, q)
        /\ d > 0 => \A c \in Nested(b, q) : visit[d - 1, c]
  IN  visit[Cardinality(DOMAIN b.components), r]

\* The walk of expandCoffeeRecipe: down every component, with the recipes on the path from
\* the menu item.  A recipe that is on its own path is a cycle, a component that nothing
\* makes and that is not in stock is not found, and either refuses the whole expansion.
\* A preparation that two recipes share is walked twice and is no cycle.  visit[path] are the
\* recipes whose expansion succeeds below that path.
Expands(b, r) ==
  LET visit[path \in SUBSET DOMAIN b.components] ==
        {q \in DOMAIN b.components :
           /\ q \notin path
           /\ Resolves(b, q)
           /\ Nested(b, q) \subseteq visit[path \cup {q}]}
  IN  r \in visit[{}]

\* The resources that the expansion of a recipe takes from the stock.
Requirements(b, r) ==
  LET visit[path \in SUBSET DOMAIN b.components] ==
        [q \in DOMAIN b.components |->
           (b.components[q] \ Nested(b, q))
             \cup UNION {visit[path \cup {q}][c] : c \in Nested(b, q) \ path}]
  IN  visit[{}][r]

-----------------------------------------------------------------------------
(* What the walk is for.                                                    *)

\* The recipes that can be reached from r.
Below(b, r) ==
  LET within[n \in 0 .. Cardinality(DOMAIN b.components)] ==
        IF n = 0 THEN {r}
        ELSE within[n - 1] \cup UNION {Nested(b, q) : q \in within[n - 1]}
  IN  within[Cardinality(DOMAIN b.components)]

\* No recipe below r is below itself.
Acyclic(b, r) == \A q \in Below(b, r) : \A c \in Nested(b, q) : q \notin Below(b, c)

\* The expansion of every recipe succeeds exactly when all the recipes below it have what they
\* need and none contains itself, and takes exactly what those recipes take from the stock.
ExpansionMeetsDefinition(b) ==
  \A r \in DOMAIN b.components :
    /\ Expands(b, r) <=> Acyclic(b, r) /\ \A q \in Below(b, r) : Resolves(b, q)
    /\ Expands(b, r) =>
         Requirements(b, r) = UNION {b.components[q] \ Nested(b, q) : q \in Below(b, r)}
=============================================================================
