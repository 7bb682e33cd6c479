----------------------------- MODULE Migrations -----------------------------
(***************************************************************************)
(* What a stored configuration of an earlier version becomes when it is    *)
(* read (readSnapshot of repositories.ts, with recipe-migration.ts and     *)
(* ingredient-migration.ts), and what the read leaves in the store.        *)
(*                                                                         *)
(* A stored record is a function from the names of the fields it has: a    *)
(* field that an earlier version did not write is not in its domain, as in *)
(* the JSON text.  Quantities are integers, a net quantity is in           *)
(* hundredths.  Values of the wrong type, identifiers of lines, timestamps *)
(* and the fields no migration looks at are left out; the images of menu   *)
(* items are in MenuImages.                                                *)
(***************************************************************************)
EXTENDS Integers, Sequences

CONSTANTS SeedId,            \* what the development project is marked with
          CanonicalEffects,  \* its modifiers' effects, by modifier
          SeedPlan,          \* its floor plan: [floorPlanZones, tables]
          Defaults           \* what a new project has: settings, hours, structure

Has(r, f) == f \in DOMAIN r

\* {...r, ...s}
Spread(r, s) == [f \in DOMAIN r \cup DOMAIN s |-> IF f \in DOMAIN s THEN s[f] ELSE r[f]]

Without(r, fields) == [f \in DOMAIN r \ fields |-> r[f]]

-----------------------------------------------------------------------------
(* Recipes.                                                                 *)

ValidTarget(t) == t.type \in {"menu-item", "preparation", "semi-finished"}

ValidComponent(c) ==
  /\ c.type \in {"ingredient", "preparation", "semi-finished"}
  /\ c.grossQuantity > 0
  /\ c.lossPercentage \in 0 .. 100

NetQuantity(gross, loss) == gross * (100 - loss)

Title(target) == <<"recipe", target.name>>

\* The record says what it makes and of what.
AlreadyCurrent(r) == Has(r, "target") /\ Has(r, "components") /\ ValidTarget(r.target)

Normal(r) ==
  AlreadyCurrent(r) /\ \A k \in DOMAIN r.components : ValidComponent(r.components[k])

\* The title and the net quantities follow from the rest.
Normalized(r) ==
  Spread(r, [name |-> Title(r.target),
             components |-> [k \in DOMAIN r.components |->
               [r.components[k] EXCEPT !.netQuantity =
                  NetQuantity(r.components[k].grossQuantity, r.components[k].lossPercentage)]]])

\* The first versions had one ingredient, later ones rows of them.
Rows(r) ==
  IF Has(r, "ingredientRows") THEN r.ingredientRows
  ELSE IF Has(r, "ingredientId")
       THEN <<[ingredientId |-> r.ingredientId, quantity |-> r.ingredientQuantity]>>
       ELSE <<>>

\* The waste of the recipe becomes the loss of its first line.
LegacyComponents(r) ==
  [k \in DOMAIN Rows(r) |->
    LET row == Rows(r)[k]
        loss == IF k = 1 /\ Has(r, "wastePercentage") THEN r.wastePercentage ELSE 0
    IN  [type |-> "ingredient", referenceId |-> row.ingredientId, grossQuantity |-> row.quantity,
         lossPercentage |-> loss, netQuantity |-> NetQuantity(row.quantity, loss)]]

\* A legacy recipe is for a menu item there is, with lines that say how much.
Resolvable(r, menuItems) ==
  /\ Has(r, "menuItemId")
  /\ r.menuItemId \in DOMAIN menuItems
  /\ Rows(r) # <<>>
  /\ \A k \in DOMAIN Rows(r) : Rows(r)[k].quantity > 0

FromLegacy(r, menuItems) ==
  LET target == [type |-> "menu-item", id |-> r.menuItemId, name |-> menuItems[r.menuItemId]]
  IN  Spread(Without(r, {"menuItemId", "ingredientId", "ingredientQuantity", "wastePercentage",
                         "ingredientRows"}),
             [name |-> Title(target), target |-> target, components |-> LegacyComponents(r)])

\* A record that cannot be resolved stays as it is.
MigratedRecipe(r, menuItems) ==
  IF Normal(r) THEN Normalized(r)
  ELSE IF Resolvable(r, menuItems) THEN FromLegacy(r, menuItems) ELSE r

\* Only what was not current yet counts as migrated, and makes the read write.
CountsAsMigrated(r, menuItems) == ~AlreadyCurrent(r) /\ Resolvable(r, menuItems)

-----------------------------------------------------------------------------
(* Ingredients.                                                             *)

AccountingTypes == [mass |-> "weight", volume |-> "volume", count |-> "pieces"]

\* units gives the dimension of each unit there is.
TypeKnown(i, units) == i.baseUnitId \in DOMAIN units /\ units[i.baseUnitId] \in DOMAIN AccountingTypes

HasPackage(i) == Has(i, "purchasePackageSize") /\ i.purchasePackageSize > 0

Complete(i) == Has(i, "accountingType") /\ HasPackage(i) /\ Has(i, "barcode")

Warned(i) == Spread([accountingConfigurationWarning |-> "ACCOUNTING_TYPE_REQUIRES_REVIEW"], i)

MigratedIngredient(i, units) ==
  IF Complete(i) THEN i
  ELSE IF ~TypeKnown(i, units) THEN Warned(i)
  ELSE Spread(Without(i, {"accountingConfigurationWarning"}),
              [accountingType |-> AccountingTypes[units[i.baseUnitId]],
               purchasePackageSize |-> IF HasPackage(i) THEN i.purchasePackageSize ELSE i.conversionRate,
               barcode |-> IF Has(i, "barcode") THEN i.barcode ELSE ""])

IngredientCounts(i, units) ==
  ~Complete(i) /\ (TypeKnown(i, units) \/ ~Has(i, "accountingConfigurationWarning"))

-----------------------------------------------------------------------------
(* Tables of a plan without zones.                                          *)

DefaultLocation(s) ==
  IF Has(s.project, "defaultLocationId") THEN s.project.defaultLocationId
  ELSE IF s.locations # <<>> THEN s.locations[1] ELSE ""

LegacyZone(location) ==
  [id |-> <<"zone", location>>, locationId |-> location, canvasWidth |-> 800, canvasHeight |-> 500]

\* Tables without a place of their own are set out in rows of four.
LegacyPlace(index) ==
  [positionX |-> 40 + (index % 4) * 175, positionY |-> 40 + (index \div 4) * 140,
   width |-> 100, height |-> 100]

LegacyTable(t, index, location) ==
  Spread(Spread(LegacyPlace(index), [locationId |-> location, zoneId |-> LegacyZone(location).id]), t)

\* validateTable of floor-plan-service.ts, as far as it is about the place.
WithinCanvas(t, zone) ==
  /\ t.positionX >= 0 /\ t.positionX + t.width <= zone.canvasWidth
  /\ t.positionY >= 0 /\ t.positionY + t.height <= zone.canvasHeight

Overlap(t, u) ==
  /\ t.positionX < u.positionX + u.width /\ u.positionX < t.positionX + t.width
  /\ t.positionY < u.positionY + u.height /\ u.positionY < t.positionY + t.height

LegacyPlan(s) ==
  LET location == DefaultLocation(s)
      tables == IF Has(s, "tables") THEN s.tables ELSE <<>>
  IN  [floorPlanZones |-> IF Has(s, "floorPlanZones") THEN s.floorPlanZones
                          ELSE IF location = "" THEN <<>> ELSE <<LegacyZone(location)>>,
       tables |-> [k \in DOMAIN tables |-> LegacyTable(tables[k], k - 1, location)]]

-----------------------------------------------------------------------------
(* A read: its steps, which of them write, what it shows and what it leaves. *)

ListOf(s, f) == IF Has(s, f) THEN s[f] ELSE <<>>

MigratedModifier(m) ==
  IF m.id \in DOMAIN CanonicalEffects THEN Spread([consumptionEffects |-> CanonicalEffects[m.id]], m)
  ELSE m

Seeded(s) == Has(s, "developmentSeedId") /\ s.developmentSeedId = SeedId

MigratedLists(s) ==
  Spread(s,
    [recipes |-> [k \in DOMAIN ListOf(s, "recipes") |-> MigratedRecipe(s.recipes[k], s.menuItems)],
     ingredients |-> [k \in DOMAIN ListOf(s, "ingredients") |->
                        MigratedIngredient(s.ingredients[k], s.units)],
     modifiers |-> IF Seeded(s) THEN [k \in DOMAIN s.modifiers |-> MigratedModifier(s.modifiers[k])]
                   ELSE s.modifiers])

ListsWrite(s) ==
  \/ \E k \in DOMAIN ListOf(s, "recipes") : CountsAsMigrated(s.recipes[k], s.menuItems)
  \/ \E k \in DOMAIN ListOf(s, "ingredients") : IngredientCounts(s.ingredients[k], s.units)
  \/ Seeded(s) /\ MigratedLists(s).modifiers # s.modifiers

Missing(s, f) == Spread([g \in {f} |-> Defaults[f]], s)

WithPlan(s) == IF Has(s, "tables") /\ Has(s, "floorPlanZones") THEN s ELSE Spread(s, LegacyPlan(s))

\* The development project gets its plan back when it has no tables or no zones.
LacksSeedPlan(s) ==
  s.project.developmentLabel = "crash-test" /\ (s.tables = <<>> \/ s.floorPlanZones = <<>>)

WithSeedPlan(s) == IF LacksSeedPlan(s) THEN Spread(s, SeedPlan) ELSE s

\* Workspaces and employees are completed in memory only.
Completed(s) ==
  Spread(s, [solutionStructure |-> [k \in DOMAIN s.solutionStructure |->
                                      Spread(Defaults.workspace, s.solutionStructure[k])],
             employees |-> [k \in DOMAIN s.employees |-> Spread(Defaults.employee, s.employees[k])]])

\* The snapshot after each step, and whether the step writes it.
Steps(s) ==
  LET lists == MigratedLists(s)
      settings == Missing(lists, "settings")
      hours == Missing(settings, "operatingHours")
      plan == WithPlan(Missing(hours, "openingStockBalances"))
      seed == WithSeedPlan(plan)
      structure == Missing(Missing(seed, "developmentSeedId"), "solutionStructure")
  IN  <<[result |-> s, writes |-> TRUE],
        [result |-> lists, writes |-> ListsWrite(s)],
        [result |-> settings, writes |-> ~Has(s, "settings")],
        [result |-> hours, writes |-> ~Has(s, "operatingHours")],
        [result |-> plan, writes |-> ~Has(s, "tables") \/ ~Has(s, "floorPlanZones")],
        [result |-> seed, writes |-> LacksSeedPlan(plan)],
        [result |-> structure, writes |-> ~Has(s, "solutionStructure")]>>

Shown(s) == Completed(Steps(s)[7].result)

\* What was written last is stored.
Stored(s) ==
  LET last == CHOOSE k \in 1 .. 7 :
                Steps(s)[k].writes /\ \A j \in k + 1 .. 7 : ~Steps(s)[j].writes
  IN  Steps(s)[last].result

=============================================================================
