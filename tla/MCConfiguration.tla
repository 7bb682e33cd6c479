-------------------------- MODULE MCConfiguration --------------------------
(* A small instance of Configuration: a location, a menu item and room for *)
(* its copy, two preparations, an employee, a warehouse and a workspace.   *)
EXTENDS Configuration, TLC

CONSTANTS loc, cat, item, copy, gram, milk, drink, syrup, base, anna, store, bar

MCKind ==
  loc :> "locations" @@ cat :> "menuCategories" @@ item :> "menuItems" @@ copy :> "menuItems"
    @@ gram :> "units" @@ milk :> "ingredients" @@ drink :> "recipes" @@ syrup :> "recipes" @@ base :> "recipes"
    @@ anna :> "employees" @@ store :> "warehouses" @@ bar :> "workspaces"

\* A seed of one location with a menu item and an employee.
MCSeed ==
  [docs |-> {loc, cat, item, anna, gram},
   refs |-> [r \in Resource |->
     CASE r = cat -> {loc} [] r = item -> {cat, loc} [] r = anna -> {loc} [] OTHER -> {}],
   target |-> [r \in Resource |-> Nothing],
   active |-> {loc, cat, item, anna, gram}, defaults |-> {loc}]

-----------------------------------------------------------------------------
(* Stored configurations of earlier versions, read twice.                   *)

Migration ==
  INSTANCE Migrations WITH
    SeedId <- "seed",
    CanonicalEffects <- [oat |-> "replaces milk"],
    SeedPlan <- [floorPlanZones |-> <<"seed hall">>, tables |-> <<"seed table">>],
    Defaults <- [settings |-> "settings", operatingHours |-> "always", openingStockBalances |-> <<>>,
                 developmentSeedId |-> "none", solutionStructure |-> <<>>,
                 workspace |-> [sourceWarehouseId |-> "none"], employee |-> [position |-> "none"]]

Latte == [type |-> "menu-item", id |-> "latte", name |-> "Latte"]
Component(gross, loss, net) ==
  [type |-> "ingredient", referenceId |-> "milk", grossQuantity |-> gross,
   lossPercentage |-> loss, netQuantity |-> net]
CurrentRecipe == {[name |-> "mine", target |-> Latte, components |-> <<Component(g, 10, 0)>>] : g \in 0 .. 1}
LegacyRecipe ==
  {[name |-> "mine", menuItemId |-> i, ingredientId |-> "milk", ingredientQuantity |-> q,
    wastePercentage |-> w] : i \in {"latte", "gone"}, q \in 0 .. 1, w \in {0, 3, 150}}
RowsRecipe ==
  {[name |-> "mine", menuItemId |-> "latte", wastePercentage |-> 3,
    ingredientRows |-> rows] : rows \in {<<>>} \cup
      {<<[ingredientId |-> "milk", quantity |-> 1], [ingredientId |-> "milk", quantity |-> q]>> : q \in 0 .. 1}}
\* Current in form, with a line that is none, and with the fields of a legacy recipe as well.
MixedRecipe == {Migration!Spread(r, l) : r \in LegacyRecipe, l \in CurrentRecipe}
StoredRecipes == CurrentRecipe \cup LegacyRecipe \cup RowsRecipe \cup MixedRecipe

StoredIngredients ==
  {Migration!Spread([baseUnitId |-> u, conversionRate |-> 5], r) :
     u \in {"gram", "gone"},
     r \in {Migration!Without([accountingType |-> "pieces", purchasePackageSize |-> n, barcode |-> "",
                              accountingConfigurationWarning |-> "ACCOUNTING_TYPE_REQUIRES_REVIEW"], fs) :
              n \in 0 .. 1,
              fs \in SUBSET {"accountingType", "purchasePackageSize", "barcode",
                             "accountingConfigurationWarning"}}}

Menu == [latte |-> "Latte"]
Units == [gram |-> "mass"]

\* A second migration changes nothing and counts nothing.
ASSUME RecordsSettle ==
  /\ \A r \in StoredRecipes :
       LET once == Migration!MigratedRecipe(r, Menu) IN
       /\ Migration!MigratedRecipe(once, Menu) = once
       /\ ~Migration!CountsAsMigrated(once, Menu)
  /\ \A i \in StoredIngredients :
       LET once == Migration!MigratedIngredient(i, Units) IN
       /\ Migration!MigratedIngredient(once, Units) = once
       /\ ~Migration!IngredientCounts(once, Units)

\* Configurations with any of the fields of a later version missing.
StoredConfigurations ==
  {Migration!Spread(
     [recipes |-> <<r>>, ingredients |-> <<i>>, menuItems |-> Menu, units |-> Units,
      modifiers |-> <<[id |-> "oat"], [id |-> "ice"]>>, locations |-> <<"hall">>,
      employees |-> <<[fullName |-> "Anna"]>>, project |-> [developmentLabel |-> label]],
     Migration!Without(
       [developmentSeedId |-> seed, settings |-> "mine", operatingHours |-> "mine",
        tables |-> tables, floorPlanZones |-> <<"mine">>,
        solutionStructure |-> <<[sourceWarehouseId |-> "mine"], [id |-> "bar"]>>], fs)) :
     r \in {[name |-> "mine", menuItemId |-> "latte", ingredientId |-> "milk", ingredientQuantity |-> 1],
            [name |-> "mine", target |-> Latte, components |-> <<Component(1, 10, 0)>>]},
     i \in {[baseUnitId |-> "gram", conversionRate |-> 5], [baseUnitId |-> "gone", conversionRate |-> 5],
            [baseUnitId |-> "gram", accountingType |-> "weight", purchasePackageSize |-> 1, barcode |-> ""]},
     label \in {"crash-test", "none"}, seed \in {"seed", "none"},
     tables \in {<<>>, <<[code |-> 1], [code |-> 2, positionX |-> 7]>>},
     fs \in SUBSET {"developmentSeedId", "settings", "operatingHours", "tables", "floorPlanZones",
                    "solutionStructure"}}

\* The second read shows what the first showed, and what is stored stays as the first left it,
\* whichever of its steps have written.
ASSUME ReadingSettles ==
  \A s \in StoredConfigurations :
    /\ Migration!Shown(Migration!Stored(s)) = Migration!Shown(s)
    /\ Migration!Stored(Migration!Stored(s)) = Migration!Stored(s)
=============================================================================
