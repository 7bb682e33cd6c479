--------------------------- MODULE Configuration ---------------------------
(***************************************************************************)
(* The configuration of a coffee project: the documents of the twelve      *)
(* collections, what they refer to, and the manager's tabs that create,    *)
(* edit, copy, switch and delete them (repositories.ts, workspace-store,   *)
(* resource-screen, resource-deletion, resource-definitions).              *)
(*                                                                         *)
(* All documents are one value in the browser's storage.  A repository     *)
(* call waits and then reads, changes and writes that value in one step.   *)
(* What a tab decides on, however, is the copy it loaded last: the options *)
(* of a form, and whether something still refers to a document that is to  *)
(* be deleted.  A tab loads a new copy after each operation of its own.    *)
(* An operation and the load after it are one step here: they are          *)
(* sequential in a tab, and what another tab does in between could as well *)
(* be done before.                                                         *)
(***************************************************************************)
EXTENDS Recipes

CONSTANTS
  Resource,     \* documents that may exist
  Kind,         \* the collection of each, "workspaces" included
  Seed,         \* the snapshot of a project that the development seed has just filled
  Tab,          \* tabs of the manager
  Nothing,      \* no target, no open form
  MaxDocuments, \* bound: documents at once, units apart
  Switched      \* bound: the documents whose status is switched

VARIABLES
  snapshot,     \* the stored documents
  view,         \* the copy each tab loaded last
  form          \* the open form of each tab: the document and what was chosen in it

vars == <<snapshot, view, form>>

-----------------------------------------------------------------------------
(* What the forms let a document refer to.                                  *)

Field(one, many, required) == [one |-> one, many |-> many, required |-> required]
NoField == Field({}, {}, {})

PlaceForms ==
  [k \in {"locations", "registers", "workstations"} |->
    CASE k = "locations" -> NoField
      [] k = "registers" -> Field({"locations"}, {}, {"locations"})
      [] k = "workstations" -> Field({"locations", "registers"}, {}, {"locations"})]

MenuForms ==
  [k \in {"menuCategories", "menuItems", "modifiers"} |->
    CASE k = "menuCategories" -> Field({}, {"locations"}, {})
      [] k = "menuItems" -> Field({"menuCategories", "recipes"}, {"modifiers"}, {"menuCategories"})
      [] k = "modifiers" -> NoField]

StockForms ==
  [k \in {"recipes", "ingredients", "units"} |->
    CASE k = "recipes" -> Field({}, {"units", "ingredients", "recipes"}, {"units"})
      [] k = "ingredients" -> Field({}, {"units"}, {"units"})
      [] k = "units" -> Field({"units"}, {}, {})]

PartnerForms ==
  [k \in {"warehouses", "suppliers", "employees"} |->
    CASE k = "warehouses" -> Field({"locations", "employees"}, {}, {"locations"})
      [] k = "suppliers" -> NoField
      [] k = "employees" -> Field({"locations"}, {}, {"locations"})]

Forms(k) ==
  CASE k \in DOMAIN PlaceForms -> PlaceForms[k]
    [] k \in DOMAIN MenuForms -> MenuForms[k]
    [] k \in DOMAIN StockForms -> StockForms[k]
    [] k \in DOMAIN PartnerForms -> PartnerForms[k]

Collections ==
  UNION {DOMAIN PlaceForms, DOMAIN MenuForms, DOMAIN StockForms, DOMAIN PartnerForms}

ASSUME KindAssumption == \A r \in Resource : Kind[r] \in Collections \cup {"workspaces"}
ASSUME NothingAssumption == Nothing \notin Resource

\* A recipe makes a menu item, its target, or a preparation, which is the recipe itself here.
Makes(s, r) == s.target[r]
MenuRecipe(s, r) == Kind[r] = "recipes" /\ Makes(s, r) # r

\* A recipe is made of ingredients and of preparations.
ComponentOptions(s) ==
  {q \in s.docs : Kind[q] = "ingredients" \/ (Kind[q] = "recipes" /\ ~MenuRecipe(s, q))}

\* The documents a form for r offers.  A menu item chooses among the recipes of menu items.
Options(s, r) ==
  IF Kind[r] = "recipes" THEN ComponentOptions(s) \cup {q \in s.docs : Kind[q] = "units"}
  ELSE {q \in s.docs :
          /\ Kind[q] \in Forms(Kind[r]).one \cup Forms(Kind[r]).many
          /\ Kind[q] = "recipes" => MenuRecipe(s, q)}

Targets(s, r) ==
  IF Kind[r] = "recipes" THEN {r} \cup {q \in s.docs : Kind[q] = "menuItems"} ELSE {Nothing}

OfKind(set, k) == {q \in set : Kind[q] = k}

\* What the form checks when it is submitted.
Valid(r, refs) ==
  /\ \A k \in Forms(Kind[r]).one : Cardinality(OfKind(refs, k)) <= 1
  /\ \A k \in Forms(Kind[r]).required : OfKind(refs, k) # {}
  /\ Kind[r] = "recipes" => OfKind(refs, "ingredients") \cup OfKind(refs, "recipes") # {}

-----------------------------------------------------------------------------
(* Which documents a deletion looks at.                                     *)

CatalogueReferrers ==
  [k \in {"locations", "registers", "workstations", "menuCategories", "menuItems",
          "modifiers", "recipes"} |->
    CASE k = "locations" -> {"registers", "workstations", "menuCategories", "menuItems",
                             "warehouses", "employees"}
      [] k = "registers" -> {"workstations"}
      [] k = "workstations" -> {}
      [] k = "menuCategories" -> {"menuItems"}
      [] k = "menuItems" -> {"recipes"}
      [] k = "modifiers" -> {"menuItems"}
      [] k = "recipes" -> {"menuItems", "recipes"}]

StockReferrers ==
  [k \in {"ingredients", "units", "warehouses", "suppliers", "employees"} |->
    CASE k = "ingredients" -> {"recipes"}
      [] k = "units" -> {"ingredients", "recipes"}
      [] k = "warehouses" -> {"ingredients"}
      [] k = "suppliers" -> {"ingredients"}
      [] k = "employees" -> {"warehouses", "workspaces"}]

ReferrersOf(k) ==
  IF k \in DOMAIN CatalogueReferrers THEN CatalogueReferrers[k] ELSE StockReferrers[k]

\* What a document refers to: the references chosen in its form and the target of a recipe.
RefersTo(s, d) == s.refs[d] \cup ({s.target[d]} \ {d, Nothing})

\* Mutant: the recipes of a menu item are not looked at.
DependenciesWithoutTargets(s, r) ==
  {d \in s.docs : Kind[d] \in ReferrersOf(Kind[r]) /\ r \in s.refs[d]}
    \cup (s.defaults \cap {r})

\* Why a document cannot be deleted.
Dependencies(s, r) ==
  {d \in s.docs : Kind[d] \in ReferrersOf(Kind[r]) /\ r \in RefersTo(s, d)}
    \cup (s.defaults \cap {r})

-----------------------------------------------------------------------------
(* Snapshots.                                                               *)

Snapshots ==
  [docs : SUBSET Resource, refs : [Resource -> SUBSET Resource],
   target : [Resource -> Resource \cup {Nothing}], active : SUBSET Resource,
   defaults : SUBSET Resource]

IsSnapshot(s) ==
  /\ s \in Snapshots /\ s.active \subseteq s.docs
  /\ \A r \in Resource : Kind[r] # "recipes" => s.target[r] = Nothing

OnlyStoredRefer(s) == \A r \in Resource \ s.docs : s.refs[r] = {} /\ s.target[r] = Nothing

\* Which references a deletion is meant to protect, the lists that can be edited and deleted
\* on one screen (recipes in recipes) apart.
Guarded(d, r) == Kind[r] \in Collections /\ Kind[d] \in ReferrersOf(Kind[r]) /\ Kind[d] # Kind[r]

GuardedReferencesFound(s) ==
  \A d \in s.docs : \A r \in RefersTo(s, d) : Guarded(d, r) => r \in s.docs

\* The seed is a configuration in which nothing is missing (coffee-crash-test-seed.ts).
ASSUME SeedAssumption ==
  /\ IsSnapshot(Seed) /\ OnlyStoredRefer(Seed) /\ IsFiniteSet(Seed.docs)
  /\ GuardedReferencesFound(Seed)
  /\ Seed.defaults \subseteq OfKind(Seed.docs, "locations")

-----------------------------------------------------------------------------
(* The repository: each call is one step on the stored value.               *)

Written(s, r, refs, target, active) ==
  [s EXCEPT !.docs = @ \cup {r}, !.refs[r] = refs, !.target[r] = target,
            !.active = IF active THEN @ \cup {r} ELSE @ \ {r}]

Removed(s, r) ==
  [s EXCEPT !.docs = @ \ {r}, !.refs[r] = {}, !.target[r] = Nothing, !.active = @ \ {r}]

Room == Cardinality({q \in snapshot.docs : Kind[q] # "units"}) < MaxDocuments

\* The operation of a tab, and the tab's next copy.
Store(t, s) ==
  /\ snapshot' = s
  /\ view' = [view EXCEPT ![t] = s]

-----------------------------------------------------------------------------
(* The tabs.                                                                *)

NoForm == [id |-> Nothing, new |-> FALSE, refs |-> {}, target |-> Nothing]

\* A menu item is put on sale where the project's default location is, or the first location.
SaleLocations(s) ==
  LET locations == OfKind(s.docs, "locations")
      default == s.defaults \cap locations
  IN  IF locations = {} THEN {{}}
      ELSE {{l} : l \in IF default = {} THEN locations ELSE default}

\* A form is opened and filled in.  Opening another replaces it.
OpenForm(t, r) ==
  /\ form[t] = NoForm
  /\ Kind[r] \in Collections
  /\ r \in snapshot.docs => r \in view[t].docs
  /\ \E refs \in SUBSET Options(view[t], r), target \in Targets(view[t], r) :
       /\ Valid(r, refs)
       /\ form' = [form EXCEPT ![t] = [id |-> r, new |-> r \notin view[t].docs,
                                       refs |-> refs, target |-> target]]
  /\ UNCHANGED <<snapshot, view>>

CloseForm(t) ==
  /\ form[t] # NoForm
  /\ form' = [form EXCEPT ![t] = NoForm]
  /\ UNCHANGED <<snapshot, view>>

\* The target of a recipe must still be there.
TargetFound(t, r, target) ==
  Kind[r] = "recipes" /\ target # r => target \in view[t].docs

CreateResource(t) ==
  LET f == form[t] IN
  /\ f # NoForm /\ f.new
  /\ f.id \notin snapshot.docs /\ Room
  /\ TargetFound(t, f.id, f.target)
  /\ \E auto \in IF Kind[f.id] = "menuItems" THEN SaleLocations(view[t]) ELSE {{}} :
       Store(t, Written(snapshot, f.id, f.refs \cup auto, f.target, TRUE))
  /\ form' = [form EXCEPT ![t] = NoForm]

\* An edit keeps where a menu item is sold, and whether the document is active.
UpdateResource(t) ==
  LET f == form[t] IN
  /\ f # NoForm /\ ~f.new
  /\ f.id \in view[t].docs /\ f.id \in snapshot.docs
  /\ TargetFound(t, f.id, f.target)
  /\ LET kept == IF Kind[f.id] = "menuItems"
                 THEN OfKind(view[t].refs[f.id], "locations") ELSE {}
     IN  Store(t, Written(snapshot, f.id, f.refs \cup kept, f.target, f.id \in view[t].active))
  /\ form' = [form EXCEPT ![t] = NoForm]

\* A row's button, over an open form of the same list or with no form open.
OnScreen(t, r) ==
  /\ r \in view[t].docs /\ Kind[r] \in Collections
  /\ form[t] # NoForm => Kind[form[t].id] = Kind[r]

\* The buttons of the row, apart from the one that opens the form.
RowButtons(t, r) ==
  {"status", "delete"}
    \cup (IF Kind[r] = "locations" /\ r \notin view[t].defaults THEN {"default"} ELSE {})
    \cup (IF Kind[r] \in {"menuItems", "modifiers"} THEN {"duplicate"} ELSE {})

\* The dialog of a deletion shows what prevents it, or asks for a confirmation.
Deletable(t, r) == "delete" \in RowButtons(t, r) /\ Dependencies(view[t], r) = {}

\* The whole document is written as the tab knows it.
ToggleResourceStatus(t, r) ==
  /\ OnScreen(t, r)
  /\ r \in snapshot.docs \cap Switched
  /\ TargetFound(t, r, view[t].target[r])
  /\ Store(t, Written(snapshot, r, view[t].refs[r], view[t].target[r], r \notin view[t].active))
  /\ UNCHANGED form

DuplicateResource(t, r, copy) ==
  /\ OnScreen(t, r) /\ "duplicate" \in RowButtons(t, r)
  /\ copy \notin snapshot.docs \cup view[t].docs /\ Room /\ Kind[copy] = Kind[r]
  /\ \E auto \in IF Kind[r] = "menuItems" THEN SaleLocations(view[t]) ELSE {{}} :
       Store(t, Written(snapshot, copy,
                        {q \in view[t].refs[r] : Kind[q] # "locations"} \cup auto,
                        Nothing, r \in view[t].active))
  /\ UNCHANGED form

RemoveResource(t, r) ==
  /\ OnScreen(t, r) /\ Deletable(t, r)
  /\ r \in snapshot.docs
  /\ Store(t, Removed(snapshot, r))
  /\ UNCHANGED form

\* The default location of the project.
SetDefaultLocation(t, r) ==
  /\ OnScreen(t, r) /\ "default" \in RowButtons(t, r)
  /\ r \in snapshot.docs
  /\ Store(t, [snapshot EXCEPT !.defaults = {r}])
  /\ UNCHANGED form

-----------------------------------------------------------------------------
(* The constructor of workspaces, on another page: no form stays open.      *)

\* Selected workspaces are created or kept with what is assigned to them, the others dropped.
Generate(t, selected) ==
  /\ form[t] = NoForm
  /\ selected # {} /\ (selected \subseteq snapshot.docs \/ Room)
  /\ Store(t, [snapshot EXCEPT
         !.docs = {q \in @ : Kind[q] # "workspaces"} \cup selected,
         !.refs = [q \in Resource |-> IF Kind[q] = "workspaces" /\ q \notin selected THEN {} ELSE @[q]],
         !.active = {q \in @ : Kind[q] # "workspaces"} \cup selected])
  /\ UNCHANGED form

\* Employees and active warehouses are assigned to a workspace or taken from it, and one active
\* location: the repository looks for them in the stored documents.
Assign(t, w, r) ==
  /\ form[t] = NoForm
  /\ w \in snapshot.docs /\ Kind[w] = "workspaces"
  /\ r \in snapshot.docs
  /\ \/ Kind[r] = "employees"
     \/ Kind[r] \in {"warehouses", "locations"} /\ r \in snapshot.active
  /\ LET others == IF Kind[r] = "locations" THEN OfKind(snapshot.refs[w], "locations") \ {r} ELSE {}
         assigned == IF r \in snapshot.refs[w] THEN snapshot.refs[w] \ {r}
                     ELSE snapshot.refs[w] \cup {r}
     IN  Store(t, [snapshot EXCEPT !.refs[w] = assigned \ others])
  /\ UNCHANGED form

\* The project is installed anew: the storage is cleared, initialized and seeded.
ApplySeed(t) ==
  /\ form[t] = NoForm
  /\ Store(t, Seed)
  /\ UNCHANGED form

\* A page is opened or loaded again.
Reload(t) ==
  /\ view' = [view EXCEPT ![t] = snapshot]
  /\ form' = [form EXCEPT ![t] = NoForm]
  /\ UNCHANGED snapshot

-----------------------------------------------------------------------------

InitialSnapshot ==
  [docs |-> OfKind(Resource, "units"), refs |-> [r \in Resource |-> {}],
   target |-> [r \in Resource |-> Nothing], active |-> OfKind(Resource, "units"),
   defaults |-> {}]

Init ==
  /\ snapshot = InitialSnapshot
  /\ view = [t \in Tab |-> InitialSnapshot]
  /\ form = [t \in Tab |-> NoForm]

Next ==
  \E t \in Tab :
    \/ CloseForm(t) \/ CreateResource(t) \/ UpdateResource(t) \/ ApplySeed(t) \/ Reload(t)
    \/ \E r \in Resource : OpenForm(t, r)
    \/ \E r \in Resource : ToggleResourceStatus(t, r)
    \/ \E r \in Resource : RemoveResource(t, r)
    \/ \E r \in Resource : SetDefaultLocation(t, r)
    \/ \E r, copy \in Resource : DuplicateResource(t, r, copy)
    \/ \E selected \in SUBSET OfKind(Resource, "workspaces") : Generate(t, selected)
    \/ \E w, r \in Resource : Assign(t, w, r)

Spec == Init /\ [][Next]_vars

-----------------------------------------------------------------------------

\* The stored documents and every copy of them are of their declared shape, and what is not
\* there refers to nothing.
TypeOK ==
  /\ IsSnapshot(snapshot) /\ OnlyStoredRefer(snapshot)
  /\ \A t \in Tab : IsSnapshot(view[t])

\* With one tab, nothing refers to a document of another collection that was deleted,
\* whatever was created, edited, copied, assigned and deleted before, forms left open included,
\* and the default location of the project is one of its locations.
ReferencesResolve ==
  /\ GuardedReferencesFound(snapshot)
  /\ snapshot.defaults \subseteq OfKind(snapshot.docs, "locations")

\* The recipes the configuration holds, as the expansion sees them.  An ingredient is taken
\* without being looked up.
Book(s) ==
  [components |-> [r \in OfKind(s.docs, "recipes") |-> s.refs[r] \ OfKind(s.refs[r], "units")],
   active |-> {r \in s.active : Kind[r] = "recipes" /\ Makes(s, r) = r},
   stock |-> OfKind(Resource, "ingredients")]

\* Whatever recipes the manager's forms can produce, cyclic and incomplete ones included, the
\* expansion of each is refused or made as the recipes say.
ExpansionCorrect == ExpansionMeetsDefinition(Book(snapshot))
=============================================================================
