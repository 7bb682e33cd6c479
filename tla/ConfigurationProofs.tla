------------------------ MODULE ConfigurationProofs ------------------------
(***************************************************************************)
(* That nothing a project's configuration refers to is missing while one   *)
(* tab edits it, for every set of documents; what the migrations of stored *)
(* records do, for every record; that the expansion of recipes is what its *)
(* definition says, for every finite book of them; and that the images of  *)
(* the menu are kept as long as an item has them and no longer, while a    *)
(* tab does one thing at a time.                                           *)
(***************************************************************************)
EXTENDS Configuration, Migrations, MenuImages, SumTheorems, FiniteSetTheorems, TLAPS

-----------------------------------------------------------------------------
(* What the repository calls make of a snapshot.                            *)

Whole(s) == IsSnapshot(s) /\ OnlyStoredRefer(s)

DefaultStored(s) == s.defaults \subseteq OfKind(s.docs, "locations")

\* What a document that is written refers to in other collections is stored.
Fits(s, r, refs, target) ==
  \A q \in refs \cup ({target} \ {r, Nothing}) : Guarded(r, q) => q \in s.docs

\* w is s with document r written over what there was of it.
WrittenOver(w, s, r, refs, target) ==
  \E active \in SUBSET (s.active \cup {r}) :
    w = [s EXCEPT !.docs = @ \cup {r}, !.refs[r] = refs, !.target[r] = target, !.active = active]

AsWritten(w, s, r, refs, target) ==
  /\ w \in Snapshots
  /\ w.docs = s.docs \cup {r}
  /\ w.refs[r] = refs /\ w.target[r] = target
  /\ \A q \in Resource \ {r} : w.refs[q] = s.refs[q] /\ w.target[q] = s.target[q]
  /\ w.active \subseteq s.active \cup {r}
  /\ w.defaults = s.defaults

\* The fields of a snapshot after a write.
LEMMA WrittenFields ==
  ASSUME NEW s, IsSnapshot(s), NEW r \in Resource, NEW refs \in SUBSET Resource,
         NEW target \in Resource \cup {Nothing}, NEW w, WrittenOver(w, s, r, refs, target)
  PROVE  AsWritten(w, s, r, refs, target)
<1>1. PICK active \in SUBSET (s.active \cup {r}) :
        w = [s EXCEPT !.docs = @ \cup {r}, !.refs[r] = refs, !.target[r] = target, !.active = active]
  BY DEF WrittenOver
<1>2. /\ s = [docs |-> s.docs, refs |-> s.refs, target |-> s.target, active |-> s.active,
              defaults |-> s.defaults]
      /\ s.docs \in SUBSET Resource /\ s.refs \in [Resource -> SUBSET Resource]
      /\ s.target \in [Resource -> Resource \cup {Nothing}]
      /\ s.active \in SUBSET Resource /\ s.defaults \in SUBSET Resource
  BY DEF IsSnapshot, Snapshots
<1>3. w = [docs |-> s.docs \cup {r}, refs |-> [s.refs EXCEPT ![r] = refs],
           target |-> [s.target EXCEPT ![r] = target], active |-> active, defaults |-> s.defaults]
  BY <1>1, <1>2
<1>4. /\ [s.refs EXCEPT ![r] = refs] \in [Resource -> SUBSET Resource]
      /\ [s.target EXCEPT ![r] = target] \in [Resource -> Resource \cup {Nothing}]
      /\ active \in SUBSET Resource
  BY <1>2
<1>5. w \in Snapshots
  BY <1>2, <1>3, <1>4 DEF Snapshots
<1>6. /\ w.refs[r] = refs /\ w.target[r] = target
      /\ \A q \in Resource \ {r} : w.refs[q] = s.refs[q] /\ w.target[q] = s.target[q]
  BY <1>2, <1>3
<1> QED
  BY <1>3, <1>5, <1>6 DEF AsWritten

\* A write keeps a snapshot whole, and if it fits leaves nothing missing.
LEMMA WrittenWhole ==
  ASSUME NEW s, Whole(s), NEW r \in Resource, NEW refs, NEW target,
         Kind[r] # "recipes" => target = Nothing,
         NEW w, AsWritten(w, s, r, refs, target)
  PROVE  /\ Whole(w)
         /\ GuardedReferencesFound(s) /\ Fits(s, r, refs, target) => GuardedReferencesFound(w)
<1>1. /\ w \in Snapshots
      /\ w.docs = s.docs \cup {r}
      /\ w.refs[r] = refs /\ w.target[r] = target
      /\ \A q \in Resource \ {r} : w.refs[q] = s.refs[q] /\ w.target[q] = s.target[q]
      /\ w.active \subseteq s.active \cup {r}
      /\ w.defaults = s.defaults
  BY DEF AsWritten
<1>2. s.docs \subseteq Resource
  BY DEF Whole, IsSnapshot, Snapshots
<1>3. IsSnapshot(w)
  BY <1>1 DEF Whole, IsSnapshot
<1>4. OnlyStoredRefer(w)
  BY <1>1 DEF Whole, OnlyStoredRefer
<1>5. ASSUME GuardedReferencesFound(s), Fits(s, r, refs, target),
             NEW d \in w.docs, NEW q \in RefersTo(w, d), Guarded(d, q)
      PROVE  q \in w.docs
  <2>1. CASE d = r
    BY <1>1, <1>5, <2>1 DEF RefersTo, Fits
  <2>2. CASE d # r
    <3>1. d \in s.docs /\ q \in RefersTo(s, d)
      BY <1>1, <1>2, <1>5, <2>2 DEF RefersTo
    <3> QED
      BY <1>1, <1>5, <3>1 DEF GuardedReferencesFound
  <2> QED
    BY <2>1, <2>2
<1>6. GuardedReferencesFound(s) /\ Fits(s, r, refs, target) => GuardedReferencesFound(w)
  BY <1>5 DEF GuardedReferencesFound
<1> QED
  BY <1>1, <1>3, <1>4, <1>6 DEF Whole

\* A removal keeps a snapshot whole, and leaves nothing missing if nothing depended on it.
LEMMA RemovedWhole ==
  ASSUME NEW s, Whole(s), NEW r \in Resource
  PROVE  /\ Whole(Removed(s, r))
         /\ GuardedReferencesFound(s) /\ Dependencies(s, r) = {}
              => GuardedReferencesFound(Removed(s, r))
         /\ DefaultStored(s) /\ Dependencies(s, r) = {} => DefaultStored(Removed(s, r))
<1> DEFINE w == Removed(s, r)
<1>1. /\ w \in Snapshots
      /\ w.docs = s.docs \ {r}
      /\ w.refs[r] = {} /\ w.target[r] = Nothing
      /\ \A q \in Resource \ {r} : w.refs[q] = s.refs[q] /\ w.target[q] = s.target[q]
      /\ w.active = s.active \ {r}
      /\ w.defaults = s.defaults
  BY DEF Removed, Whole, IsSnapshot, Snapshots
<1> HIDE DEF w
<1>2. IsSnapshot(w) /\ OnlyStoredRefer(w)
  BY <1>1 DEF Whole, IsSnapshot, OnlyStoredRefer
<1>3. ASSUME GuardedReferencesFound(s), Dependencies(s, r) = {},
             NEW d \in w.docs, NEW q \in RefersTo(w, d), Guarded(d, q)
      PROVE  q \in w.docs
  <2>1. d \in s.docs /\ q \in RefersTo(s, d)
    BY <1>1, <1>3 DEF RefersTo, Whole, IsSnapshot, Snapshots
  <2>2. q \in s.docs
    BY <1>3, <2>1 DEF GuardedReferencesFound
  <2>3. q # r
    BY <1>3, <2>1 DEF Dependencies, Guarded
  <2> QED
    BY <1>1, <2>2, <2>3
<1>4. GuardedReferencesFound(s) /\ Dependencies(s, r) = {} => GuardedReferencesFound(w)
  BY <1>3 DEF GuardedReferencesFound
<1>5. DefaultStored(s) /\ Dependencies(s, r) = {} => DefaultStored(w)
  BY <1>1 DEF DefaultStored, Dependencies, OfKind
<1> QED
  BY <1>2, <1>4, <1>5 DEF Whole, w

-----------------------------------------------------------------------------
(* Every tab.                                                               *)

FormRecord ==
  [id : Resource \cup {Nothing}, new : BOOLEAN, refs : SUBSET Resource,
   target : Resource \cup {Nothing}]

ViewsTyped == view \in [Tab -> Snapshots] /\ \A t \in Tab : IsSnapshot(view[t])

\* Only the lists of documents have forms, and only recipes make something.
FormTyped(f) ==
  /\ f \in FormRecord
  /\ f # NoForm =>
       /\ f.id \in Resource
       /\ Kind[f.id] \in Collections
       /\ Kind[f.id] # "recipes" => f.target = Nothing

TabsTyped ==
  /\ Whole(snapshot)
  /\ ViewsTyped
  /\ form \in [Tab -> FormRecord]
  /\ \A t \in Tab : FormTyped(form[t])

\* The steps of one tab.
TabStep(t) ==
  \/ CloseForm(t) \/ CreateResource(t) \/ UpdateResource(t) \/ ApplySeed(t) \/ Reload(t)
  \/ \E r \in Resource : OpenForm(t, r)
  \/ \E r \in Resource : ToggleResourceStatus(t, r)
  \/ \E r \in Resource : RemoveResource(t, r)
  \/ \E r \in Resource : SetDefaultLocation(t, r)
  \/ \E r, copy \in Resource : DuplicateResource(t, r, copy)
  \/ \E selected \in SUBSET OfKind(Resource, "workspaces") : Generate(t, selected)
  \/ \E w, r \in Resource : Assign(t, w, r)

\* The locations a menu item is put on sale at are stored, as far as the tab knows.
LEMMA SaleLocationsStored ==
  ASSUME NEW s, IsSnapshot(s), NEW auto \in SaleLocations(s)
  PROVE  auto \subseteq s.docs /\ auto \subseteq Resource
BY DEF SaleLocations, OfKind, IsSnapshot, Snapshots

\* The constructor's workspaces are not among the documents of the lists.
LEMMA WorkspacesApart == "workspaces" \notin Collections
BY DEF Collections, PlaceForms, MenuForms, StockForms, PartnerForms

\* w is s with the workspaces that were selected and no others.
GeneratedFrom(w, s, selected) ==
  w = [s EXCEPT
         !.docs = {q \in @ : Kind[q] # "workspaces"} \cup selected,
         !.refs = [q \in Resource |-> IF Kind[q] = "workspaces" /\ q \notin selected THEN {} ELSE @[q]],
         !.active = {q \in @ : Kind[q] # "workspaces"} \cup selected]

\* What the constructor writes is whole, and leaves nothing missing.
LEMMA GeneratedWhole ==
  ASSUME NEW s, Whole(s), NEW selected \in SUBSET OfKind(Resource, "workspaces"), NEW w,
         GeneratedFrom(w, s, selected)
  PROVE  /\ Whole(w)
         /\ GuardedReferencesFound(s) => GuardedReferencesFound(w)
         /\ DefaultStored(s) => DefaultStored(w)
<1>1. /\ w \in Snapshots
      /\ w.docs = {q \in s.docs : Kind[q] # "workspaces"} \cup selected
      /\ \A q \in Resource : w.refs[q] = IF Kind[q] = "workspaces" /\ q \notin selected
                                           THEN {} ELSE s.refs[q]
      /\ w.target = s.target
      /\ w.active = {q \in s.active : Kind[q] # "workspaces"} \cup selected
      /\ w.defaults = s.defaults
  BY DEF Whole, IsSnapshot, Snapshots, OfKind, GeneratedFrom
<1>2. IsSnapshot(w)
  BY <1>1 DEF Whole, IsSnapshot
<1>3. OnlyStoredRefer(w)
  BY <1>1 DEF Whole, IsSnapshot, OnlyStoredRefer
<1>4. ASSUME GuardedReferencesFound(s), NEW d \in w.docs, NEW q \in RefersTo(w, d), Guarded(d, q)
      PROVE  q \in w.docs
  <2>1. d \in Resource /\ RefersTo(w, d) \subseteq RefersTo(s, d)
    BY <1>1 DEF RefersTo, Whole, IsSnapshot, Snapshots, OfKind
  <2>2. d \in s.docs
    BY <1>4, <2>1 DEF RefersTo, Whole, OnlyStoredRefer
  <2>3. q \in s.docs
    BY <1>4, <2>1, <2>2 DEF GuardedReferencesFound
  <2>4. Kind[q] # "workspaces"
    BY <1>4, WorkspacesApart DEF Guarded
  <2> QED
    BY <1>1, <2>3, <2>4
<1>5. GuardedReferencesFound(s) => GuardedReferencesFound(w)
  BY <1>4 DEF GuardedReferencesFound
<1>6. DefaultStored(s) => DefaultStored(w)
  BY <1>1 DEF DefaultStored, OfKind
<1> QED
  BY <1>2, <1>3, <1>5, <1>6 DEF Whole

\* What is assigned to a workspace is stored.
LEMMA AssignedWhole ==
  ASSUME NEW s, Whole(s), NEW w \in Resource, w \in s.docs, NEW refs \in SUBSET Resource,
         NEW r \in s.docs, refs \subseteq s.refs[w] \cup {r}, NEW a, a = [s EXCEPT !.refs[w] = refs]
  PROVE  /\ Whole(a)
         /\ GuardedReferencesFound(s) => GuardedReferencesFound(a)
         /\ DefaultStored(s) => DefaultStored(a)
<1>1. /\ a \in Snapshots
      /\ a.docs = s.docs /\ a.defaults = s.defaults /\ a.active = s.active /\ a.target = s.target
      /\ a.refs[w] = refs
      /\ \A q \in Resource \ {w} : a.refs[q] = s.refs[q]
  BY DEF Whole, IsSnapshot, Snapshots
<1>2. IsSnapshot(a) /\ OnlyStoredRefer(a)
  BY <1>1 DEF Whole, IsSnapshot, OnlyStoredRefer
<1>3. ASSUME GuardedReferencesFound(s), NEW d \in a.docs, NEW q \in RefersTo(a, d), Guarded(d, q)
      PROVE  q \in a.docs
  <2>1. d \in Resource
    BY <1>1 DEF Snapshots
  <2>2. q = r \/ q \in RefersTo(s, d)
    BY <1>1, <2>1 DEF RefersTo
  <2> QED
    BY <1>1, <1>3, <2>2 DEF GuardedReferencesFound
<1>4. GuardedReferencesFound(s) => GuardedReferencesFound(a)
  BY <1>3 DEF GuardedReferencesFound
<1>5. DefaultStored(s) => DefaultStored(a)
  BY <1>1 DEF DefaultStored
<1> QED
  BY <1>2, <1>4, <1>5 DEF Whole

-----------------------------------------------------------------------------
(* The writes of a tab.                                                     *)

Writes(t, r, refs, target) ==
  /\ r \in Resource
  /\ Kind[r] # "recipes" => target = Nothing
  /\ AsWritten(snapshot', snapshot, r, refs, target)
  /\ Store(t, snapshot')

\* Whatever becomes of the status, the document is written.
LEMMA WrittenIsOver ==
  ASSUME NEW s, NEW r, NEW refs, NEW target, NEW active \in BOOLEAN
  PROVE  WrittenOver(Written(s, r, refs, target, active), s, r, refs, target)
<1> DEFINE status == IF active THEN s.active \cup {r} ELSE s.active \ {r}
<1>1. status \in SUBSET (s.active \cup {r})
  OBVIOUS
<1>2. Written(s, r, refs, target, active)
        = [s EXCEPT !.docs = @ \cup {r}, !.refs[r] = refs, !.target[r] = target, !.active = status]
  BY DEF Written
<1> HIDE DEF status
<1> QED
  BY <1>1, <1>2 DEF WrittenOver

\* A write of what a document may hold.
LEMMA StoreWrites ==
  ASSUME TabsTyped, NEW t \in Tab, NEW r \in Resource, NEW refs \in SUBSET Resource,
         NEW target \in Resource \cup {Nothing}, Kind[r] # "recipes" => target = Nothing,
         NEW active \in BOOLEAN, Store(t, Written(snapshot, r, refs, target, active))
  PROVE  Writes(t, r, refs, target)
<1>1. snapshot' = Written(snapshot, r, refs, target, active)
  BY DEF Store
<1>2. WrittenOver(snapshot', snapshot, r, refs, target)
  BY <1>1, WrittenIsOver
<1>3. AsWritten(snapshot', snapshot, r, refs, target)
  BY <1>2, WrittenFields DEF TabsTyped, Whole
<1> QED
  BY <1>1, <1>3 DEF Writes, Store

\* What is added to the choices of a new menu item.
SaleChoices(t, r) == IF Kind[r] = "menuItems" THEN SaleLocations(view[t]) ELSE {{}}

\* They are stored, as far as the tab knows.
LEMMA AutoStored ==
  ASSUME TabsTyped, NEW t \in Tab, NEW r, NEW auto \in SaleChoices(t, r)
  PROVE  auto \subseteq view[t].docs /\ auto \in SUBSET Resource
BY SaleLocationsStored DEF SaleChoices, TabsTyped, ViewsTyped

\* A new document is written with the choices of its form and where it is put on sale.
LEMMA CreateWrites ==
  ASSUME TabsTyped, NEW t \in Tab, CreateResource(t)
  PROVE  /\ \E auto \in SaleChoices(t, form[t].id) :
              Writes(t, form[t].id, form[t].refs \cup auto, form[t].target)
         /\ TargetFound(t, form[t].id, form[t].target)
         /\ form[t] # NoForm
         /\ form' = [form EXCEPT ![t] = NoForm]
<1>1. /\ form[t] # NoForm
      /\ TargetFound(t, form[t].id, form[t].target)
      /\ form' = [form EXCEPT ![t] = NoForm]
  BY DEF CreateResource
<1>2. PICK auto \in SaleChoices(t, form[t].id) :
        Store(t, Written(snapshot, form[t].id, form[t].refs \cup auto, form[t].target, TRUE))
  BY Zenon DEF CreateResource, SaleChoices
<1>3. /\ form[t].id \in Resource /\ form[t].refs \in SUBSET Resource
      /\ form[t].target \in Resource \cup {Nothing}
      /\ Kind[form[t].id] # "recipes" => form[t].target = Nothing
  BY <1>1 DEF TabsTyped, FormTyped, FormRecord
<1>4. form[t].refs \cup auto \in SUBSET Resource
  BY <1>3, AutoStored
<1>5. Writes(t, form[t].id, form[t].refs \cup auto, form[t].target)
  BY <1>2, <1>3, <1>4, StoreWrites, Zenon
<1> QED
  BY <1>1, <1>5

\* Where a menu item that is edited is sold.
Kept(t, r) == IF Kind[r] = "menuItems" THEN OfKind(view[t].refs[r], "locations") ELSE {}

\* An edited one with the choices of its form and where it was on sale.
LEMMA UpdateWrites ==
  ASSUME TabsTyped, NEW t \in Tab, UpdateResource(t)
  PROVE  /\ Writes(t, form[t].id, form[t].refs \cup Kept(t, form[t].id), form[t].target)
         /\ TargetFound(t, form[t].id, form[t].target)
         /\ form[t] # NoForm
         /\ form[t].id \in snapshot.docs
         /\ form' = [form EXCEPT ![t] = NoForm]
<1>1. /\ form[t] # NoForm
      /\ form[t].id \in snapshot.docs
      /\ TargetFound(t, form[t].id, form[t].target)
      /\ form' = [form EXCEPT ![t] = NoForm]
  BY DEF UpdateResource
<1>2. PICK active \in BOOLEAN :
        Store(t, Written(snapshot, form[t].id, form[t].refs \cup Kept(t, form[t].id),
                         form[t].target, active))
  <2> DEFINE status == form[t].id \in view[t].active
  <2>1. Store(t, Written(snapshot, form[t].id, form[t].refs \cup Kept(t, form[t].id),
                         form[t].target, status))
    BY DEF UpdateResource, Kept
  <2>2. status \in BOOLEAN
    OBVIOUS
  <2> HIDE DEF status
  <2> QED
    BY <2>1, <2>2, Zenon
<1>3. /\ form[t].id \in Resource /\ form[t].refs \in SUBSET Resource
      /\ form[t].target \in Resource \cup {Nothing}
      /\ Kind[form[t].id] # "recipes" => form[t].target = Nothing
  BY <1>1 DEF TabsTyped, FormTyped, FormRecord
<1>4. form[t].refs \cup Kept(t, form[t].id) \in SUBSET Resource
  BY <1>3 DEF Kept, OfKind, TabsTyped, ViewsTyped, Snapshots
<1>5. Writes(t, form[t].id, form[t].refs \cup Kept(t, form[t].id), form[t].target)
  BY <1>2, <1>3, <1>4, StoreWrites, Zenon
<1> QED
  BY <1>1, <1>5

\* A status that is switched writes the document as the tab knows it.
LEMMA ToggleWrites ==
  ASSUME TabsTyped, NEW t \in Tab, NEW r \in Resource, ToggleResourceStatus(t, r)
  PROVE  Writes(t, r, view[t].refs[r], view[t].target[r])
<1>1. PICK active \in BOOLEAN :
        Store(t, Written(snapshot, r, view[t].refs[r], view[t].target[r], active))
  BY Zenon DEF ToggleResourceStatus
<1>2. /\ view[t].refs[r] \in SUBSET Resource
      /\ view[t].target[r] \in Resource \cup {Nothing}
      /\ Kind[r] # "recipes" => view[t].target[r] = Nothing
  BY DEF TabsTyped, ViewsTyped, IsSnapshot, Snapshots
<1> QED
  BY <1>1, <1>2, StoreWrites, Zenon

\* A copy is written with what its original refers to, but sold where new items are.
LEMMA DuplicateWrites ==
  ASSUME TabsTyped, NEW t \in Tab, NEW r \in Resource, NEW copy \in Resource,
         DuplicateResource(t, r, copy)
  PROVE  \E auto \in SaleChoices(t, r) :
           Writes(t, copy, {q \in view[t].refs[r] : Kind[q] # "locations"} \cup auto, Nothing)
<1>1. PICK auto \in SaleChoices(t, r), active \in BOOLEAN :
        Store(t, Written(snapshot, copy, {q \in view[t].refs[r] : Kind[q] # "locations"} \cup auto,
                         Nothing, active))
  <2> DEFINE status == r \in view[t].active
  <2>1. PICK auto \in SaleChoices(t, r) :
          Store(t, Written(snapshot, copy, {q \in view[t].refs[r] : Kind[q] # "locations"} \cup auto,
                           Nothing, status))
    BY Zenon DEF DuplicateResource, SaleChoices
  <2>2. status \in BOOLEAN
    OBVIOUS
  <2> HIDE DEF status
  <2> QED
    BY <2>1, <2>2, Zenon
<1>2. {q \in view[t].refs[r] : Kind[q] # "locations"} \cup auto \in SUBSET Resource
  BY AutoStored DEF TabsTyped, ViewsTyped, Snapshots
<1>3. Writes(t, copy, {q \in view[t].refs[r] : Kind[q] # "locations"} \cup auto, Nothing)
  <2> DEFINE refs == {q \in view[t].refs[r] : Kind[q] # "locations"} \cup auto
  <2> HIDE DEF refs
  <2>1. Store(t, Written(snapshot, copy, refs, Nothing, active)) /\ refs \in SUBSET Resource
    BY <1>1, <1>2 DEF refs
  <2>2. Writes(t, copy, refs, Nothing)
    BY <2>1, StoreWrites, Zenon
  <2> QED
    BY <2>2 DEF refs
<1> QED
  BY <1>3

-----------------------------------------------------------------------------
(* What the steps of the tabs keep, however many tabs there are.            *)

\* The operation of a tab leaves a whole snapshot, in the storage and in the tab's copy.
LEMMA StoreTyped ==
  ASSUME TabsTyped, NEW t \in Tab, NEW s, Whole(s), Store(t, s)
  PROVE  Whole(snapshot)' /\ ViewsTyped'
<1>1. snapshot' = s /\ view' = [view EXCEPT ![t] = s]
  BY DEF Store
<1>2. Whole(snapshot)'
  BY <1>1 DEF Whole, IsSnapshot, OnlyStoredRefer, Snapshots
<1>3. s \in Snapshots /\ IsSnapshot(s)
  BY DEF Whole, IsSnapshot
<1>4. ViewsTyped'
  <2>1. view' \in [Tab -> Snapshots]
    BY <1>1, <1>3 DEF TabsTyped, ViewsTyped
  <2>2. ASSUME NEW u \in Tab
        PROVE  IsSnapshot(view'[u])
    <3>1. view'[u] = s \/ view'[u] = view[u]
      BY <1>1, <2>1 DEF TabsTyped, ViewsTyped
    <3> QED
      BY <1>3, <3>1 DEF TabsTyped, ViewsTyped
  <2>3. (\A u \in Tab : IsSnapshot(view[u]))'
    BY <2>2 DEF IsSnapshot, Snapshots
  <2> QED
    BY <2>1, <2>3 DEF ViewsTyped, Snapshots
<1> QED
  BY <1>2, <1>4

\* A form that is closed leaves the others as they are.
LEMMA CloseTyped ==
  ASSUME TabsTyped, NEW t \in Tab, form' = form \/ form' = [form EXCEPT ![t] = NoForm]
  PROVE  form' \in [Tab -> FormRecord] /\ \A u \in Tab : FormTyped(form'[u])
<1>1. NoForm \in FormRecord /\ FormTyped(NoForm)
  BY DEF NoForm, FormRecord, FormTyped
<1>2. form' \in [Tab -> FormRecord]
  BY <1>1 DEF TabsTyped
<1>3. ASSUME NEW u \in Tab
      PROVE  FormTyped(form'[u])
  <2>1. form'[u] = NoForm \/ form'[u] = form[u]
    BY DEF TabsTyped
  <2> QED
    BY <1>1, <2>1 DEF TabsTyped
<1> QED
  BY <1>2, <1>3

\* A write of any kind, with the form closed or left open.
LEMMA WritesTyped ==
  ASSUME TabsTyped, NEW t \in Tab, NEW r, NEW refs, NEW target, Writes(t, r, refs, target),
         form' = form \/ form' = [form EXCEPT ![t] = NoForm]
  PROVE  TabsTyped'
<1>1. Whole(snapshot')
  BY WrittenWhole DEF Writes, TabsTyped
<1>2. Whole(snapshot)' /\ ViewsTyped'
  BY <1>1, StoreTyped DEF Writes
<1> QED
  BY <1>2, CloseTyped DEF TabsTyped, FormTyped, FormRecord, NoForm

\* A form that is opened chooses among the stored documents.
LEMMA OpenedForm ==
  ASSUME TabsTyped, NEW t \in Tab, NEW r \in Resource, OpenForm(t, r)
  PROVE  /\ snapshot' = snapshot /\ view' = view
         /\ form' \in [Tab -> FormRecord]
         /\ \A u \in Tab : FormTyped(form'[u])
         /\ \A u \in Tab \ {t} : form'[u] = form[u]
         /\ form'[t].id = r
         /\ form'[t].refs \subseteq view[t].docs
<1>1. PICK refs \in SUBSET Options(view[t], r), target \in Targets(view[t], r) :
        form' = [form EXCEPT ![t] = [id |-> r, new |-> r \notin view[t].docs,
                                     refs |-> refs, target |-> target]]
  BY DEF OpenForm
<1> DEFINE opened == form'[t]
<1>2. refs \subseteq view[t].docs /\ view[t].docs \subseteq Resource
  BY DEF Options, ComponentOptions, TabsTyped, ViewsTyped, Snapshots
<1>3. /\ target \in Resource \cup {Nothing}
      /\ Kind[r] # "recipes" => target = Nothing
  BY <1>2 DEF Targets
<1>4. (r \notin view[t].docs) \in BOOLEAN
  OBVIOUS
<1>5. /\ opened.id = r /\ opened.refs = refs /\ opened.target = target
      /\ opened \in FormRecord
      /\ \A u \in Tab \ {t} : form'[u] = form[u]
      /\ form' \in [Tab -> FormRecord]
  <2> DEFINE new == r \notin view[t].docs
  <2>1. form' = [form EXCEPT ![t] = [id |-> r, new |-> new, refs |-> refs, target |-> target]]
    BY <1>1
  <2>2. new \in BOOLEAN
    OBVIOUS
  <2> HIDE DEF new
  <2> QED
    BY <1>2, <1>3, <2>1, <2>2 DEF TabsTyped, FormRecord
<1>6. Kind[r] \in Collections /\ snapshot' = snapshot /\ view' = view
  BY DEF OpenForm
<1>7. FormTyped(opened)
  BY <1>3, <1>5, <1>6 DEF FormTyped
<1>8. \A u \in Tab : FormTyped(form'[u])
  BY <1>5, <1>7 DEF TabsTyped
<1> QED
  BY <1>2, <1>5, <1>6, <1>8

\* The initial configuration is whole.
LEMMA InitialWhole == Whole(InitialSnapshot) /\ InitialSnapshot.defaults = {}
BY DEF Whole, IsSnapshot, OnlyStoredRefer, Snapshots, InitialSnapshot, OfKind

\* The seed is what a whole configuration is.
LEMMA SeedWhole == Whole(Seed) /\ GuardedReferencesFound(Seed) /\ DefaultStored(Seed)
BY SeedAssumption DEF Whole, DefaultStored

\* A change of the default location removes nothing.
LEMMA DefaultWhole ==
  ASSUME NEW s, Whole(s), NEW r \in s.docs, NEW w, w = [s EXCEPT !.defaults = {r}]
  PROVE  /\ Whole(w)
         /\ GuardedReferencesFound(s) => GuardedReferencesFound(w)
         /\ Kind[r] = "locations" => DefaultStored(w)
<1>1. /\ w \in Snapshots
      /\ w.docs = s.docs /\ w.refs = s.refs /\ w.target = s.target /\ w.active = s.active
      /\ w.defaults = {r}
  BY DEF Whole, IsSnapshot, Snapshots
<1>2. Whole(w)
  BY <1>1 DEF Whole, IsSnapshot, OnlyStoredRefer
<1>3. GuardedReferencesFound(s) => GuardedReferencesFound(w)
  BY <1>1 DEF GuardedReferencesFound, RefersTo
<1> QED
  BY <1>1, <1>2, <1>3 DEF DefaultStored, OfKind

\* What a tab assigns to a workspace.
LEMMA AssignStores ==
  ASSUME TabsTyped, NEW t \in Tab, NEW w \in Resource, NEW r \in Resource, Assign(t, w, r)
  PROVE  \E refs \in SUBSET Resource :
           /\ refs \subseteq snapshot.refs[w] \cup {r}
           /\ w \in snapshot.docs /\ r \in snapshot.docs
           /\ Store(t, [snapshot EXCEPT !.refs[w] = refs])
           /\ form' = form /\ form[t] = NoForm
<1> DEFINE others == IF Kind[r] = "locations"
                       THEN OfKind(snapshot.refs[w], "locations") \ {r} ELSE {}
           assigned == IF r \in snapshot.refs[w] THEN snapshot.refs[w] \ {r}
                       ELSE snapshot.refs[w] \cup {r}
<1>1. /\ Store(t, [snapshot EXCEPT !.refs[w] = assigned \ others])
      /\ w \in snapshot.docs /\ r \in snapshot.docs /\ form' = form /\ form[t] = NoForm
  BY DEF Assign
<1>2. snapshot.refs[w] \subseteq Resource
  BY DEF TabsTyped, Whole, IsSnapshot, Snapshots
<1>3. /\ assigned \ others \subseteq snapshot.refs[w] \cup {r}
      /\ assigned \ others \in SUBSET Resource
  BY <1>2
<1> HIDE DEF assigned, others
<1> QED
  BY <1>1, <1>3

\* Whatever the tabs do, in whatever order, the storage, the copies and the forms stay typed.
LEMMA TabsStayTyped ==
  ASSUME TabsTyped, [Next]_vars
  PROVE  TabsTyped'
<1> SUFFICES ASSUME NEW t \in Tab, TabStep(t)
             PROVE  TabsTyped'
  <2>1. CASE UNCHANGED vars
    BY <2>1 DEF TabsTyped, vars, Whole, IsSnapshot, OnlyStoredRefer, ViewsTyped, FormTyped,
                FormRecord, NoForm, Snapshots
  <2>2. Next => \E u \in Tab : TabStep(u)
    BY Zenon DEF Next, TabStep
  <2> QED
    BY <2>1, <2>2
<1> USE DEF FormTyped, FormRecord, NoForm
<1>1. ASSUME NEW s, Whole(s), Store(t, s), form' = form \/ form' = [form EXCEPT ![t] = NoForm]
      PROVE  TabsTyped'
  BY <1>1, StoreTyped, CloseTyped DEF TabsTyped
<1>2. CASE CloseForm(t)
  <2>1. snapshot' = snapshot /\ view' = view /\ form' = [form EXCEPT ![t] = NoForm]
    BY <1>2 DEF CloseForm
  <2>2. Whole(snapshot)' /\ ViewsTyped'
    BY <2>1 DEF TabsTyped, Whole, IsSnapshot, OnlyStoredRefer, Snapshots, ViewsTyped
  <2> QED
    BY <2>1, <2>2, CloseTyped DEF TabsTyped
<1>3. CASE CreateResource(t)
  BY <1>3, CreateWrites, WritesTyped
<1>4. CASE UpdateResource(t)
  BY <1>4, UpdateWrites, WritesTyped
<1>5. CASE ApplySeed(t)
  BY <1>1, <1>5, SeedWhole DEF ApplySeed
<1>6. CASE Reload(t)
  <2>1. /\ snapshot' = snapshot /\ view' = [view EXCEPT ![t] = snapshot]
        /\ form' = [form EXCEPT ![t] = NoForm]
    BY <1>6 DEF Reload
  <2>2. Store(t, snapshot)
    BY <2>1 DEF Store
  <2> QED
    BY <1>1, <2>1, <2>2 DEF TabsTyped
<1>7. ASSUME NEW r \in Resource, OpenForm(t, r)
      PROVE  TabsTyped'
  <2>1. Whole(snapshot)' /\ ViewsTyped'
    BY <1>7, OpenedForm DEF TabsTyped, Whole, IsSnapshot, OnlyStoredRefer, Snapshots, ViewsTyped
  <2> QED
    BY <1>7, <2>1, OpenedForm DEF TabsTyped
<1>8. ASSUME NEW r \in Resource, ToggleResourceStatus(t, r)
      PROVE  TabsTyped'
  BY <1>8, ToggleWrites, WritesTyped DEF ToggleResourceStatus
<1>9. ASSUME NEW r \in Resource, RemoveResource(t, r)
      PROVE  TabsTyped'
  BY <1>1, <1>9, RemovedWhole DEF RemoveResource, TabsTyped
<1>10. ASSUME NEW r \in Resource, SetDefaultLocation(t, r)
       PROVE  TabsTyped'
  BY <1>1, <1>10, DefaultWhole DEF SetDefaultLocation, TabsTyped
<1>11. ASSUME NEW r \in Resource, NEW copy \in Resource, DuplicateResource(t, r, copy)
       PROVE  TabsTyped'
  <2>1. form' = form
    BY <1>11 DEF DuplicateResource
  <2>2. PICK auto \in SaleChoices(t, r) :
          Writes(t, copy, {q \in view[t].refs[r] : Kind[q] # "locations"} \cup auto, Nothing)
    BY <1>11, DuplicateWrites
  <2> QED
    BY <2>1, <2>2, WritesTyped
<1>12. ASSUME NEW selected \in SUBSET OfKind(Resource, "workspaces"), Generate(t, selected)
       PROVE  TabsTyped'
  <2>1. /\ Store(t, snapshot') /\ form' = form
        /\ GeneratedFrom(snapshot', snapshot, selected)
    BY <1>12 DEF Generate, Store, GeneratedFrom
  <2> QED
    BY <1>1, <2>1, GeneratedWhole DEF TabsTyped
<1>13. ASSUME NEW w \in Resource, NEW r \in Resource, Assign(t, w, r)
       PROVE  TabsTyped'
  <2>1. PICK refs \in SUBSET Resource :
          /\ refs \subseteq snapshot.refs[w] \cup {r}
          /\ w \in snapshot.docs /\ r \in snapshot.docs
          /\ Store(t, [snapshot EXCEPT !.refs[w] = refs])
          /\ form' = form /\ form[t] = NoForm
    BY <1>13, AssignStores
  <2> DEFINE s == [snapshot EXCEPT !.refs[w] = refs]
  <2>2. Whole(s)
    BY <2>1, AssignedWhole DEF TabsTyped
  <2> HIDE DEF s
  <2> QED
    BY <1>1, <2>1, <2>2 DEF s
<1> QED
  BY <1>2, <1>3, <1>4, <1>5, <1>6, <1>7, <1>8, <1>9, <1>10, <1>11, <1>12, <1>13, Zenon DEF TabStep

\* The stored configuration and the copies of it that the tabs decide on are well formed: only
\* recipes make something, what is not stored refers to nothing, and only what is stored is
\* active (repositories.ts, resource-screen.tsx).
THEOREM ConfigurationTyped == Spec => []TypeOK
<1>1. Init => TabsTyped
  BY InitialWhole DEF Init, TabsTyped, ViewsTyped, Whole, IsSnapshot, FormTyped, FormRecord, NoForm
<1>2. TabsTyped /\ [Next]_vars => TabsTyped'
  BY TabsStayTyped
<1>3. TabsTyped => TypeOK
  BY DEF TabsTyped, TypeOK, Whole, ViewsTyped
<1> QED
  BY <1>1, <1>2, <1>3, PTL DEF Spec

-----------------------------------------------------------------------------
(* One tab.                                                                 *)

\* The tab knows what is stored, nothing that is stored refers to what is missing, and neither
\* does what was chosen in an open form: what a form refers to cannot be deleted under it, since
\* the rows under a form are those of its own list.
ChosenStored(s, f) == \A q \in f.refs : Guarded(f.id, q) => q \in s.docs

NothingMissing ==
  /\ GuardedReferencesFound(snapshot) /\ DefaultStored(snapshot)
  /\ \A t \in Tab : view[t] = snapshot
  /\ \A t \in Tab : form[t] # NoForm => ChosenStored(snapshot, form[t])

\* A write of a document that refers to stored documents only.
LEMMA WritesMissNothing ==
  ASSUME TabsTyped, NothingMissing, NEW t \in Tab, \A u \in Tab : u = t,
         NEW r, NEW refs, NEW target, Writes(t, r, refs, target),
         Fits(snapshot, r, refs, target),
         form' = form \/ form' = [form EXCEPT ![t] = NoForm]
  PROVE  NothingMissing'
<1>1. GuardedReferencesFound(snapshot')
  BY WrittenWhole DEF Writes, TabsTyped, NothingMissing
<1>2. snapshot.docs \subseteq snapshot'.docs /\ snapshot'.defaults = snapshot.defaults
  BY DEF Writes, AsWritten
<1>3. DefaultStored(snapshot')
  BY <1>2 DEF DefaultStored, NothingMissing, OfKind
<1>4. \A u \in Tab : view'[u] = snapshot'
  BY DEF Writes, Store, TabsTyped, ViewsTyped
<1>5. ASSUME NEW u \in Tab, form'[u] # NoForm
      PROVE  ChosenStored(snapshot', form'[u])
  BY <1>2, <1>5 DEF NothingMissing, ChosenStored, TabsTyped
<1> QED
  BY <1>1, <1>3, <1>4, <1>5
     DEF NothingMissing, GuardedReferencesFound, DefaultStored, RefersTo, ChosenStored, NoForm

\* Any other operation on a stored value, with no form that refers to what it removes.
LEMMA StoreMissesNothing ==
  ASSUME TabsTyped, NothingMissing, NEW t \in Tab, \A u \in Tab : u = t,
         NEW s, Store(t, s), GuardedReferencesFound(s), DefaultStored(s),
         form' = form, form[t] # NoForm => ChosenStored(s, form[t])
  PROVE  NothingMissing'
<1>1. snapshot' = s
  BY DEF Store
<1>2. \A u \in Tab : view'[u] = snapshot'
  BY DEF Store, TabsTyped, ViewsTyped
<1>3. GuardedReferencesFound(snapshot') /\ DefaultStored(snapshot')
  BY <1>1
<1>4. \A u \in Tab : form'[u] # NoForm => ChosenStored(snapshot', form'[u])
  BY <1>1
<1> QED
  BY <1>2, <1>3, <1>4
     DEF NothingMissing, GuardedReferencesFound, DefaultStored, RefersTo, ChosenStored, NoForm

\* No step of the only tab leaves anything missing.
LEMMA NothingGoesMissing ==
  ASSUME TabsTyped, NothingMissing, NEW t \in Tab, \A u \in Tab : u = t, TabStep(t)
  PROVE  NothingMissing'
<1>1. view[t] = snapshot
  BY DEF NothingMissing
<1>2. \A d \in snapshot.docs : \A q \in RefersTo(snapshot, d) : Guarded(d, q) => q \in snapshot.docs
  BY DEF NothingMissing, GuardedReferencesFound
<1>3. ASSUME form[t] # NoForm, TargetFound(t, form[t].id, form[t].target),
             NEW more, \A q \in more : Guarded(form[t].id, q) => q \in snapshot.docs
      PROVE  Fits(snapshot, form[t].id, form[t].refs \cup more, form[t].target)
  <2>1. \A q \in form[t].refs : Guarded(form[t].id, q) => q \in snapshot.docs
    BY <1>3 DEF NothingMissing, ChosenStored
  <2>2. \A q \in {form[t].target} \ {form[t].id, Nothing} : q \in snapshot.docs
    BY <1>1, <1>3 DEF TargetFound, TabsTyped, FormTyped
  <2> QED
    BY <1>3, <2>1, <2>2 DEF Fits
<1>4. CASE CloseForm(t)
  BY <1>4 DEF CloseForm, NothingMissing, GuardedReferencesFound, DefaultStored, RefersTo,
              ChosenStored, NoForm, TabsTyped
<1>5. CASE CreateResource(t)
  <2>1. PICK auto \in SaleChoices(t, form[t].id) :
          Writes(t, form[t].id, form[t].refs \cup auto, form[t].target)
    BY <1>5, CreateWrites
  <2>2. Fits(snapshot, form[t].id, form[t].refs \cup auto, form[t].target)
    BY <1>1, <1>3, <1>5, AutoStored, CreateWrites
  <2> QED
    BY <1>5, <2>1, <2>2, CreateWrites, WritesMissNothing
<1>6. CASE UpdateResource(t)
  <2>1. \A q \in Kept(t, form[t].id) : Guarded(form[t].id, q) => q \in snapshot.docs
    BY <1>1, <1>2, <1>6, UpdateWrites DEF Kept, OfKind, RefersTo
  <2>2. Fits(snapshot, form[t].id, form[t].refs \cup Kept(t, form[t].id), form[t].target)
    BY <1>3, <1>6, <2>1, UpdateWrites
  <2> QED
    BY <1>6, <2>2, UpdateWrites, WritesMissNothing
<1>7. CASE ApplySeed(t)
  BY <1>7, SeedWhole, StoreMissesNothing DEF ApplySeed
<1>8. CASE Reload(t)
  BY <1>8 DEF Reload, NothingMissing, GuardedReferencesFound, DefaultStored, RefersTo,
              ChosenStored, NoForm, TabsTyped, ViewsTyped
<1>9. ASSUME NEW r \in Resource, OpenForm(t, r)
      PROVE  NothingMissing'
  <2>1. ChosenStored(snapshot, form'[t])
    BY <1>1, <1>9, OpenedForm DEF ChosenStored
  <2> QED
    BY <1>9, <2>1, OpenedForm
       DEF NothingMissing, GuardedReferencesFound, DefaultStored, RefersTo, ChosenStored, NoForm
<1>10. ASSUME NEW r \in Resource, ToggleResourceStatus(t, r)
       PROVE  NothingMissing'
  <2>1. r \in snapshot.docs /\ form' = form
    BY <1>10 DEF ToggleResourceStatus
  <2>2. Fits(snapshot, r, view[t].refs[r], view[t].target[r])
    BY <1>1, <1>2, <2>1 DEF Fits, RefersTo
  <2> QED
    BY <1>10, <2>1, <2>2, ToggleWrites, WritesMissNothing
<1>11. ASSUME NEW r \in Resource, RemoveResource(t, r)
       PROVE  NothingMissing'
  <2>1. /\ Store(t, Removed(snapshot, r)) /\ form' = form
        /\ Dependencies(snapshot, r) = {}
        /\ form[t] # NoForm => Kind[form[t].id] = Kind[r]
    BY <1>1, <1>11 DEF RemoveResource, OnScreen, Deletable
  <2>2. GuardedReferencesFound(Removed(snapshot, r)) /\ DefaultStored(Removed(snapshot, r))
    BY <2>1, RemovedWhole DEF TabsTyped, NothingMissing
  <2>3. ASSUME form[t] # NoForm
        PROVE  ChosenStored(Removed(snapshot, r), form[t])
    <3>1. Removed(snapshot, r).docs = snapshot.docs \ {r}
      BY DEF Removed, TabsTyped, Whole, IsSnapshot, Snapshots
    <3> QED
      BY <2>1, <2>3, <3>1 DEF ChosenStored, NothingMissing, Guarded
  <2> QED
    BY <2>1, <2>2, <2>3, StoreMissesNothing
<1>12. ASSUME NEW r \in Resource, SetDefaultLocation(t, r)
       PROVE  NothingMissing'
  <2> DEFINE s == [snapshot EXCEPT !.defaults = {r}]
  <2>1. Store(t, s) /\ form' = form /\ r \in snapshot.docs /\ Kind[r] = "locations"
    BY <1>12 DEF SetDefaultLocation, RowButtons
  <2>2. GuardedReferencesFound(s) /\ DefaultStored(s)
    BY <2>1, DefaultWhole DEF TabsTyped, NothingMissing
  <2>3. s.docs = snapshot.docs
    BY DEF TabsTyped, Whole, IsSnapshot, Snapshots
  <2> HIDE DEF s
  <2>4. form[t] # NoForm => ChosenStored(s, form[t])
    BY <2>3 DEF ChosenStored, NothingMissing
  <2> QED
    BY <2>1, <2>2, <2>4, StoreMissesNothing
<1>13. ASSUME NEW r \in Resource, NEW copy \in Resource, DuplicateResource(t, r, copy)
       PROVE  NothingMissing'
  <2>1. PICK auto \in SaleChoices(t, r) :
          Writes(t, copy, {q \in view[t].refs[r] : Kind[q] # "locations"} \cup auto, Nothing)
    BY <1>13, DuplicateWrites
  <2>2. Kind[copy] = Kind[r] /\ r \in snapshot.docs /\ form' = form
    BY <1>1, <1>13 DEF DuplicateResource, OnScreen
  <2>3. \A q \in snapshot.refs[r] : Guarded(copy, q) => q \in snapshot.docs
    BY <1>2, <2>2 DEF RefersTo, Guarded
  <2>4. Fits(snapshot, copy, {q \in view[t].refs[r] : Kind[q] # "locations"} \cup auto, Nothing)
    BY <1>1, <2>3, AutoStored DEF Fits
  <2> QED
    BY <2>1, <2>2, <2>4, WritesMissNothing
<1>14. ASSUME NEW selected \in SUBSET OfKind(Resource, "workspaces"), Generate(t, selected)
       PROVE  NothingMissing'
  <2>1. /\ Store(t, snapshot') /\ form' = form /\ form[t] = NoForm
        /\ GeneratedFrom(snapshot', snapshot, selected)
    BY <1>14 DEF Generate, Store, GeneratedFrom
  <2>2. GuardedReferencesFound(snapshot') /\ DefaultStored(snapshot')
    BY <2>1, GeneratedWhole DEF TabsTyped, NothingMissing
  <2> QED
    BY <2>1, <2>2, StoreMissesNothing
<1>15. ASSUME NEW w \in Resource, NEW r \in Resource, Assign(t, w, r)
       PROVE  NothingMissing'
  <2>1. PICK refs \in SUBSET Resource :
          /\ refs \subseteq snapshot.refs[w] \cup {r}
          /\ w \in snapshot.docs /\ r \in snapshot.docs
          /\ Store(t, [snapshot EXCEPT !.refs[w] = refs])
          /\ form' = form /\ form[t] = NoForm
    BY <1>15, AssignStores
  <2> DEFINE s == [snapshot EXCEPT !.refs[w] = refs]
  <2>2. GuardedReferencesFound(s) /\ DefaultStored(s)
    BY <2>1, AssignedWhole DEF TabsTyped, NothingMissing
  <2> HIDE DEF s
  <2> QED
    BY <2>1, <2>2, StoreMissesNothing DEF s
<1> QED
  BY <1>4, <1>5, <1>6, <1>7, <1>8, <1>9, <1>10, <1>11, <1>12, <1>13, <1>14, <1>15, Zenon DEF TabStep

\* While one tab edits a configuration, nothing refers to a document of another collection that
\* was deleted, whatever was created, copied, assigned and deleted in whatever order, under open
\* forms too: what a deletion looks at is enough (resource-deletion.ts).
THEOREM ReferencesKept ==
  ASSUME NEW t, Tab = {t}
  PROVE  Spec => []ReferencesResolve
<1>1. t \in Tab /\ \A u \in Tab : u = t
  OBVIOUS
<1>2. Init => TabsTyped /\ NothingMissing
  <2>1. Init => TabsTyped
    BY InitialWhole DEF Init, TabsTyped, ViewsTyped, Whole, IsSnapshot, FormTyped, FormRecord, NoForm
  <2>2. Init => NothingMissing
    BY DEF Init, NothingMissing, InitialSnapshot, GuardedReferencesFound, RefersTo, DefaultStored,
           OfKind
  <2> QED
    BY <2>1, <2>2
<1>3. TabsTyped /\ NothingMissing /\ [Next]_vars => (TabsTyped /\ NothingMissing)'
  <2>1. ASSUME TabsTyped, NothingMissing, UNCHANGED vars
        PROVE  NothingMissing'
    BY <2>1 DEF vars, NothingMissing, GuardedReferencesFound, DefaultStored, RefersTo,
                ChosenStored, NoForm
  <2>2. Next => TabStep(t)
    BY <1>1, Zenon DEF Next, TabStep
  <2> QED
    BY <1>1, <2>1, <2>2, TabsStayTyped, NothingGoesMissing
<1>4. TabsTyped /\ NothingMissing => ReferencesResolve
  BY DEF NothingMissing, ReferencesResolve, DefaultStored
<1> QED
  BY <1>2, <1>3, <1>4, PTL DEF Spec

-----------------------------------------------------------------------------
(* The expansion of a recipe.                                               *)

\* Books whose recipes are finitely many: the recipes that make something are among them.
IsBook(b) == IsFiniteSet(DOMAIN b.components) /\ b.active \subseteq DOMAIN b.components

\* With a recipe, a set of recipes has the preparations it is made of.
Closed(b, X) == \A q \in X : Nested(b, q) \subseteq X

\* The equations of the three recursive functions.
Stages(g, b, r) ==
  g = [n \in 0 .. Cardinality(DOMAIN b.components) |->
         IF n = 0 THEN {r} ELSE g[n - 1] \cup UNION {Nested(b, q) : q \in g[n - 1]}]

Walks(g, b) ==
  g = [path \in SUBSET DOMAIN b.components |->
         {q \in DOMAIN b.components :
            q \notin path /\ Resolves(b, q) /\ Nested(b, q) \subseteq g[path \cup {q}]}]

Takes(g, b) ==
  g = [path \in SUBSET DOMAIN b.components |->
         [q \in DOMAIN b.components |->
            (b.components[q] \ Nested(b, q))
              \cup UNION {g[path \cup {q}][c] : c \in Nested(b, q) \ path}]]

LEMMA NestedRecipes ==
  ASSUME NEW b, IsBook(b), NEW q
  PROVE  Nested(b, q) \subseteq DOMAIN b.components
BY DEF IsBook, Nested, MadeBy

\* The stages can be counted up.
LEMMA StagesExist ==
  ASSUME NEW b, IsBook(b), NEW r
  PROVE  \E g : Stages(g, b, r)
<1> DEFINE N == Cardinality(DOMAIN b.components)
           UpTo(g, n) == /\ g[0] = {r}
                         /\ \A m \in 1 .. n : g[m] = g[m - 1] \cup UNION {Nested(b, q) : q \in g[m - 1]}
           Lacking == {n \in Nat : ~ \E g : UpTo(g, n)}
<1>1. N \in Nat
  BY FS_CardinalityType DEF IsBook
<1>2. Lacking = {}
  <2> SUFFICES ASSUME Lacking # {} PROVE FALSE
    OBVIOUS
  <2>1. PICK n \in Lacking : \A m \in Lacking : n <= m
    <3> HIDE DEF Lacking
    <3>1. Lacking \subseteq Nat
      BY DEF Lacking
    <3> QED
      BY <3>1, LeastNumber
  <2>2. n \in Nat /\ ~ \E g : UpTo(g, n)
    OBVIOUS
  <2>3. n # 0
    <3>1. UpTo([m \in {0} |-> {r}], 0)
      OBVIOUS
    <3> QED
      BY <2>2, <3>1
  <2>4. n - 1 \in Nat /\ n - 1 \notin Lacking
    <3> HIDE DEF Lacking, UpTo
    <3> QED
      BY <2>1, <2>2, <2>3
  <2>5. PICK g : UpTo(g, n - 1)
    BY <2>4
  <2> DEFINE h == [m \in 0 .. n |->
                     IF m = n THEN g[n - 1] \cup UNION {Nested(b, q) : q \in g[n - 1]} ELSE g[m]]
  <2>6. /\ h[0] = g[0] /\ h[n] = g[n - 1] \cup UNION {Nested(b, q) : q \in g[n - 1]}
        /\ \A m \in 1 .. n - 1 : h[m] = g[m] /\ h[m - 1] = g[m - 1]
        /\ h[n - 1] = g[n - 1]
    BY <2>2, <2>3
  <2> HIDE DEF h
  <2>7. ASSUME NEW m \in 1 .. n
        PROVE  h[m] = h[m - 1] \cup UNION {Nested(b, q) : q \in h[m - 1]}
    <3>1. CASE m = n
      BY <2>6, <3>1
    <3>2. CASE m # n
      <4>1. m \in 1 .. n - 1
        BY <2>2, <2>3, <3>2
      <4> QED
        BY <2>5, <2>6, <4>1
    <3> QED
      BY <3>1, <3>2
  <2>8. UpTo(h, n)
    BY <2>5, <2>6, <2>7
  <2> QED
    BY <2>2, <2>8
<1>3. PICK g : UpTo(g, N)
  BY <1>1, <1>2
<1> DEFINE h == [n \in 0 .. N |-> g[n]]
<1>4. ASSUME NEW n \in 0 .. N, n # 0
      PROVE  h[n] = h[n - 1] \cup UNION {Nested(b, q) : q \in h[n - 1]}
  <2>1. n \in 1 .. N /\ n - 1 \in 0 .. N
    BY <1>1, <1>4
  <2>2. h[n] = g[n] /\ h[n - 1] = g[n - 1]
    BY <2>1
  <2> HIDE DEF h
  <2> QED
    BY <1>3, <2>1, <2>2
<1>5. h[0] = {r}
  BY <1>1, <1>3
<1>6. Stages(h, b, r)
  <2>1. h = [n \in 0 .. N |-> h[n]]
    OBVIOUS
  <2> HIDE DEF h
  <2> QED
    BY <1>4, <1>5, <2>1 DEF Stages
<1> QED
  BY <1>6

\* The stages as they are.
Stage(b, r) == CHOOSE g : Stages(g, b, r)

LEMMA StageSteps ==
  ASSUME NEW b, IsBook(b), NEW r
  PROVE  /\ Below(b, r) = Stage(b, r)[Cardinality(DOMAIN b.components)]
         /\ Stage(b, r)[0] = {r}
         /\ \A n \in 1 .. Cardinality(DOMAIN b.components) : \A x :
              x \in Stage(b, r)[n] <=>
                \/ x \in Stage(b, r)[n - 1]
                \/ \E q \in Stage(b, r)[n - 1] : x \in Nested(b, q)
<1>1. Below(b, r) = Stage(b, r)[Cardinality(DOMAIN b.components)]
  BY DEF Below, Stage, Stages
<1>2. Stages(Stage(b, r), b, r)
  BY StagesExist DEF Stage
<1>3. Cardinality(DOMAIN b.components) \in Nat
  BY FS_CardinalityType DEF IsBook
<1> HIDE DEF Stage
<1>4. \A n \in 0 .. Cardinality(DOMAIN b.components) :
        Stage(b, r)[n] = IF n = 0 THEN {r}
                         ELSE Stage(b, r)[n - 1] \cup UNION {Nested(b, q) : q \in Stage(b, r)[n - 1]}
  BY <1>2 DEF Stages
<1>5. Stage(b, r)[0] = {r}
  <2>1. 0 \in 0 .. Cardinality(DOMAIN b.components)
    BY <1>3
  <2> QED
    BY <1>4, <2>1
<1>6. ASSUME NEW n \in 1 .. Cardinality(DOMAIN b.components), NEW x
      PROVE  x \in Stage(b, r)[n] <=>
               \/ x \in Stage(b, r)[n - 1]
               \/ \E q \in Stage(b, r)[n - 1] : x \in Nested(b, q)
  <2>1. n \in 0 .. Cardinality(DOMAIN b.components) /\ n # 0
    BY <1>3
  <2>2. Stage(b, r)[n] = Stage(b, r)[n - 1] \cup UNION {Nested(b, q) : q \in Stage(b, r)[n - 1]}
    BY <1>4, <2>1
  <2> QED
    BY <2>2
<1> QED
  BY <1>1, <1>5, <1>6

\* What is reached from a recipe: it is among the recipes, has what its recipes are made of,
\* and nothing that is not reached.
LEMMA BelowReached ==
  ASSUME NEW b, IsBook(b), NEW r \in DOMAIN b.components
  PROVE  /\ r \in Below(b, r) /\ Below(b, r) \subseteq DOMAIN b.components
         /\ Closed(b, Below(b, r))
         /\ \A X : r \in X /\ Closed(b, X) => Below(b, r) \subseteq X
<1> DEFINE N == Cardinality(DOMAIN b.components)
           S(n) == Stage(b, r)[n]
<1>1. /\ Below(b, r) = S(N) /\ S(0) = {r}
      /\ \A n \in 1 .. N : \A x : x \in S(n) <=> x \in S(n - 1) \/ \E q \in S(n - 1) : x \in Nested(b, q)
  BY StageSteps
<1>2. N \in Nat /\ IsFiniteSet(DOMAIN b.components)
  BY FS_CardinalityType DEF IsBook
<1> HIDE DEF S, N
<1>3. ASSUME NEW X, r \in X, Closed(b, X), NEW n \in 0 .. N
      PROVE  S(n) \subseteq X
  <2> DEFINE Out == {m \in 0 .. N : ~(S(m) \subseteq X)}
  <2> SUFFICES ASSUME Out # {} PROVE FALSE
    BY <1>3
  <2>1. PICK m \in Out : \A k \in Out : m <= k
    <3>1. Out \subseteq Nat
      BY <1>2
    <3> HIDE DEF Out
    <3> QED
      BY <3>1, LeastNumber
  <2>2. m \in 0 .. N /\ ~(S(m) \subseteq X)
    OBVIOUS
  <2>3. m # 0
    BY <1>1, <1>3, <2>2
  <2>4. m \in 1 .. N /\ m - 1 \in 0 .. N /\ m - 1 \notin Out
    <3> HIDE DEF Out
    <3> QED
      BY <1>2, <2>1, <2>2, <2>3
  <2>5. S(m - 1) \subseteq X
    BY <2>4
  <2> QED
    BY <1>1, <1>3, <2>2, <2>4, <2>5 DEF Closed
<1>4. ASSUME NEW n \in 0 .. N
      PROVE  S(n) \subseteq DOMAIN b.components
  BY <1>3, NestedRecipes DEF Closed
<1>5. ASSUME NEW n \in 0 .. N
      PROVE  Closed(b, S(n)) \/ Cardinality(S(n)) > n
  <2> DEFINE Bad == {m \in 0 .. N : ~(Closed(b, S(m)) \/ Cardinality(S(m)) > m)}
  <2> SUFFICES ASSUME Bad # {} PROVE FALSE
    OBVIOUS
  <2>1. PICK m \in Bad : \A k \in Bad : m <= k
    <3>1. Bad \subseteq Nat
      BY <1>2
    <3> HIDE DEF Bad
    <3> QED
      BY <3>1, LeastNumber
  <2>2. m \in 0 .. N /\ ~Closed(b, S(m)) /\ ~(Cardinality(S(m)) > m)
    OBVIOUS
  <2>3. m # 0
    <3>1. Cardinality({r}) = 1
      BY FS_Singleton
    <3> QED
      BY <1>1, <2>2, <3>1
  <2>4. m \in 1 .. N /\ m - 1 \in 0 .. N /\ m - 1 \notin Bad
    <3> HIDE DEF Bad
    <3> QED
      BY <1>2, <2>1, <2>2, <2>3
  <2>5. \A x : x \in S(m) <=> x \in S(m - 1) \/ \E q \in S(m - 1) : x \in Nested(b, q)
    BY <1>1, <2>4
  <2>6. ~Closed(b, S(m - 1))
    <3> SUFFICES ASSUME Closed(b, S(m - 1)) PROVE FALSE
      OBVIOUS
    <3>1. S(m) = S(m - 1)
      BY <2>5 DEF Closed
    <3> QED
      BY <2>2, <3>1
  <2>7. Cardinality(S(m - 1)) > m - 1
    BY <2>4, <2>6
  <2>8. S(m - 1) \subseteq S(m) /\ S(m - 1) # S(m)
    BY <2>5, <2>6 DEF Closed
  <2>9. IsFiniteSet(S(m)) /\ IsFiniteSet(S(m - 1))
    BY <1>2, <1>4, <2>2, <2>4, FS_Subset
  <2>10. Cardinality(S(m - 1)) < Cardinality(S(m))
    BY <2>8, <2>9, FS_Subset, FS_CardinalityType
  <2>11. Cardinality(S(m - 1)) \in Nat /\ Cardinality(S(m)) \in Nat /\ m \in Nat
    BY <2>9, <2>2, <1>2, FS_CardinalityType
  <2> QED
    BY <2>2, <2>7, <2>10, <2>11
<1>6. N \in 0 .. N
  BY <1>2
<1>7. Cardinality(S(N)) <= N
  BY <1>2, <1>4, <1>6, FS_Subset DEF N
<1>8. Cardinality(S(N)) \in Nat
  BY <1>2, <1>4, <1>6, FS_Subset, FS_CardinalityType
<1>9. Closed(b, S(N))
  BY <1>2, <1>5, <1>6, <1>7, <1>8
<1>10. r \in S(N)
  <2> DEFINE Out == {m \in 0 .. N : r \notin S(m)}
  <2> SUFFICES ASSUME Out # {} PROVE FALSE
    BY <1>6
  <2>1. PICK m \in Out : \A k \in Out : m <= k
    <3>1. Out \subseteq Nat
      BY <1>2
    <3> HIDE DEF Out
    <3> QED
      BY <3>1, LeastNumber
  <2>2. m \in 0 .. N /\ r \notin S(m)
    OBVIOUS
  <2>3. m # 0
    BY <1>1, <2>2
  <2>4. m \in 1 .. N /\ m - 1 \in 0 .. N /\ m - 1 \notin Out
    <3> HIDE DEF Out
    <3> QED
      BY <1>2, <2>1, <2>2, <2>3
  <2> QED
    BY <1>1, <2>2, <2>4
<1> QED
  BY <1>1, <1>3, <1>4, <1>6, <1>9, <1>10

\* The walk's equation has a solution: the largest set of walks none of which is refused.
LEMMA WalksExist ==
  ASSUME NEW b, IsBook(b)
  PROVE  \E g : Walks(g, b)
<1> DEFINE D == DOMAIN b.components
           Allowed(X, p, q) == q \notin p /\ Resolves(b, q) /\ Nested(b, q) \subseteq X[p \cup {q}]
           Tables == [SUBSET D -> SUBSET D]
           Sound(X) == \A p \in SUBSET D : \A q \in X[p] : Allowed(X, p, q)
           g == [p \in SUBSET D |-> {q \in D : \E X \in Tables : Sound(X) /\ q \in X[p]}]
           h == [p \in SUBSET D |-> {q \in D : Allowed(g, p, q)}]
<1>1. ASSUME NEW p \in SUBSET D, NEW q \in D
      PROVE  /\ p \cup {q} \in SUBSET D /\ Nested(b, q) \subseteq D
             /\ q \in g[p] <=> \E X \in Tables : Sound(X) /\ q \in X[p]
             /\ q \in h[p] <=> Allowed(g, p, q)
  BY NestedRecipes
<1>2. g \in Tables /\ h \in Tables
  OBVIOUS
<1> HIDE DEF g, h
<1>3. ASSUME NEW p \in SUBSET D, NEW q \in g[p]
      PROVE  Allowed(g, p, q)
  <2>1. q \in D
    BY <1>2
  <2>2. PICK X \in Tables : Sound(X) /\ q \in X[p]
    BY <1>1, <2>1
  <2>3. q \notin p /\ Resolves(b, q) /\ Nested(b, q) \subseteq X[p \cup {q}]
    BY <2>2
  <2>4. p \cup {q} \in SUBSET D /\ X[p \cup {q}] \subseteq D
    BY <1>1, <2>1
  <2>5. X[p \cup {q}] \subseteq g[p \cup {q}]
    <3> HIDE DEF Sound, Tables
    <3> QED
      BY <1>1, <2>2, <2>4
  <2> QED
    BY <2>3, <2>5
<1>4. ASSUME NEW p \in SUBSET D
      PROVE  g[p] \subseteq h[p]
  BY <1>1, <1>2, <1>3
<1>5. Sound(h)
  <2> SUFFICES ASSUME NEW p \in SUBSET D, NEW q \in h[p] PROVE Allowed(h, p, q)
    OBVIOUS
  <2>1. q \in D
    BY <1>2
  <2>2. Allowed(g, p, q) /\ p \cup {q} \in SUBSET D
    BY <1>1, <2>1
  <2> QED
    BY <1>4, <2>2
<1>6. ASSUME NEW p \in SUBSET D
      PROVE  h[p] = g[p]
  <2>1. h[p] \subseteq D /\ g[p] \subseteq D
    BY <1>2
  <2>2. ASSUME NEW q \in h[p] PROVE q \in g[p]
    <3> HIDE DEF Sound, Tables
    <3> QED
      BY <1>1, <1>2, <1>5, <2>1, <2>2
  <2> QED
    BY <1>4, <2>2
<1>7. g = [p \in SUBSET D |-> {q \in D : Allowed(g, p, q)}]
  <2>1. g = [p \in SUBSET D |-> h[p]]
    BY <1>2, <1>6
  <2>2. \A p \in SUBSET D : h[p] = {q \in D : Allowed(g, p, q)}
    BY DEF h
  <2> HIDE DEF Allowed
  <2> QED
    BY <2>1, <2>2
<1>8. Walks(g, b)
  BY <1>7 DEF Walks
<1> QED
  BY <1>8

\* The walk, one recipe at a time.
Walk(b) == CHOOSE g : Walks(g, b)

LEMMA WalkSteps ==
  ASSUME NEW b, IsBook(b)
  PROVE  /\ \A r : Expands(b, r) <=> r \in Walk(b)[{}]
         /\ \A p \in SUBSET DOMAIN b.components : \A q :
              q \in Walk(b)[p] <=>
                /\ q \in DOMAIN b.components
                /\ q \notin p /\ Resolves(b, q) /\ Nested(b, q) \subseteq Walk(b)[p \cup {q}]
<1>1. \A r : Expands(b, r) <=> r \in Walk(b)[{}]
  BY DEF Expands, Walk, Walks
<1>2. Walks(Walk(b), b)
  BY WalksExist DEF Walk
<1> HIDE DEF Walk
<1>3. ASSUME NEW p \in SUBSET DOMAIN b.components, NEW q
      PROVE  q \in Walk(b)[p] <=>
               /\ q \in DOMAIN b.components
               /\ q \notin p /\ Resolves(b, q) /\ Nested(b, q) \subseteq Walk(b)[p \cup {q}]
  BY <1>2 DEF Walks
<1> QED
  BY <1>1, <1>3

\* The equation of what is taken has a solution.
LEMMA TakesExist ==
  ASSUME NEW b, IsBook(b)
  PROVE  \E g : Takes(g, b)
<1> DEFINE D == DOMAIN b.components
           All == UNION {b.components[q] : q \in D}
           Needed(X, p, q, x) ==
             \/ x \in b.components[q] \ Nested(b, q)
             \/ \E c \in Nested(b, q) \ p : x \in X[p \cup {q}][c]
           Tables == [SUBSET D -> [D -> SUBSET All]]
           Sound(X) == \A p \in SUBSET D : \A q \in D : \A x \in X[p][q] : Needed(X, p, q, x)
           Within(p, q, x) == \E X \in Tables : Sound(X) /\ x \in X[p][q]
           g == [p \in SUBSET D |-> [q \in D |-> {x \in All : Within(p, q, x)}]]
           h == [p \in SUBSET D |-> [q \in D |-> {x \in All : Needed(g, p, q, x)}]]
<1>1. \A p \in SUBSET D : \A q \in D : p \cup {q} \in SUBSET D /\ Nested(b, q) \subseteq D
  BY NestedRecipes
<1>2. /\ g \in Tables /\ h \in Tables
      /\ \A p \in SUBSET D, q \in D : \A x :
           /\ x \in g[p][q] <=> x \in All /\ Within(p, q, x)
           /\ x \in h[p][q] <=> x \in All /\ Needed(g, p, q, x)
  <2> HIDE DEF Needed, Within, All
  <2>1. g \in Tables
    OBVIOUS
  <2>2. \A p \in SUBSET D, q \in D : \A x : x \in g[p][q] <=> x \in All /\ Within(p, q, x)
    OBVIOUS
  <2> HIDE DEF g
  <2>3. h \in Tables
    OBVIOUS
  <2>4. \A p \in SUBSET D, q \in D : \A x : x \in h[p][q] <=> x \in All /\ Needed(g, p, q, x)
    OBVIOUS
  <2> QED
    BY <2>1, <2>2, <2>3, <2>4
<1> HIDE DEF g, h, All
<1>3. ASSUME NEW p \in SUBSET D, NEW q \in D, NEW X \in Tables, NEW Y \in Tables,
             \A P \in SUBSET D, c \in D : X[P][c] \subseteq Y[P][c],
             NEW x, Needed(X, p, q, x)
      PROVE  Needed(Y, p, q, x)
  BY <1>1, <1>3
<1> HIDE DEF Needed, D, Tables
<1>4. ASSUME NEW X \in Tables, Sound(X), NEW p \in SUBSET D, NEW q \in D
      PROVE  X[p][q] \subseteq g[p][q]
  <2>1. X[p][q] \subseteq All
    BY DEF Tables
  <2>2. \A x \in X[p][q] : Within(p, q, x)
    <3> HIDE DEF Sound
    <3> QED
      BY <1>4
  <2> HIDE DEF Within, Sound
  <2> QED
    BY <1>2, <2>1, <2>2
<1>5. ASSUME NEW p \in SUBSET D, NEW q \in D
      PROVE  g[p][q] \subseteq h[p][q]
  <2> SUFFICES ASSUME NEW x \in g[p][q] PROVE x \in h[p][q]
    OBVIOUS
  <2>1. x \in All /\ Within(p, q, x)
    <3> HIDE DEF Within
    <3> QED
      BY <1>2
  <2>2. PICK X \in Tables : Sound(X) /\ x \in X[p][q]
    BY <2>1
  <2>3. Needed(X, p, q, x)
    BY <2>2
  <2>4. Needed(g, p, q, x)
    <3> HIDE DEF Sound, Within
    <3> QED
      BY <1>2, <1>3, <1>4, <2>2, <2>3
  <2> QED
    BY <1>2, <2>1, <2>4
<1>6. Sound(h)
  <2> SUFFICES ASSUME NEW p \in SUBSET D, NEW q \in D, NEW x \in h[p][q]
               PROVE  Needed(h, p, q, x)
    OBVIOUS
  <2> HIDE DEF Within
  <2>1. Needed(g, p, q, x)
    BY <1>2
  <2> QED
    BY <1>2, <1>3, <1>5, <2>1
<1>7. \A p \in SUBSET D, q \in D : g[p][q] = h[p][q]
  <2> HIDE DEF Sound, Within
  <2> QED
    BY <1>2, <1>4, <1>5, <1>6
<1>8. ASSUME NEW p \in SUBSET D, NEW q \in D
      PROVE  g[p][q] = (b.components[q] \ Nested(b, q))
                          \cup UNION {g[p \cup {q}][c] : c \in Nested(b, q) \ p}
  <2>1. \A x : x \in g[p][q] <=> x \in All /\ Needed(g, p, q, x)
    <3> HIDE DEF Within
    <3> QED
      BY <1>2, <1>7
  <2>2. \A x : Needed(g, p, q, x) => x \in All
    <3>1. \A c \in D : g[p \cup {q}][c] \subseteq All
      BY <1>1, <1>2 DEF Tables
    <3>2. b.components[q] \subseteq All
      BY DEF All, D
    <3> QED
      BY <1>1, <3>1, <3>2 DEF Needed
  <2>3. \A x : x \in g[p][q] <=> Needed(g, p, q, x)
    BY <2>1, <2>2
  <2> QED
    BY <2>3 DEF Needed
<1>9. g = [p \in SUBSET D |-> [q \in D |-> g[p][q]]]
  BY <1>2 DEF Tables
<1>10. g = [p \in SUBSET D |-> [q \in D |->
              (b.components[q] \ Nested(b, q))
                 \cup UNION {g[p \cup {q}][c] : c \in Nested(b, q) \ p}]]
  BY <1>8, <1>9
<1>11. Takes(g, b)
  BY <1>10 DEF Takes, D
<1> QED
  BY <1>11

\* What is taken, one recipe at a time.
Taken(b) == CHOOSE g : Takes(g, b)

LEMMA TakenSteps ==
  ASSUME NEW b, IsBook(b)
  PROVE  /\ \A r : Requirements(b, r) = Taken(b)[{}][r]
         /\ \A p \in SUBSET DOMAIN b.components : \A q \in DOMAIN b.components : \A x :
              x \in Taken(b)[p][q] <=>
                \/ x \in b.components[q] \ Nested(b, q)
                \/ \E c \in Nested(b, q) \ p : x \in Taken(b)[p \cup {q}][c]
<1>1. \A r : Requirements(b, r) = Taken(b)[{}][r]
  BY DEF Requirements, Taken, Takes
<1>2. Takes(Taken(b), b)
  BY TakesExist DEF Taken
<1> HIDE DEF Taken
<1>3. ASSUME NEW p \in SUBSET DOMAIN b.components, NEW q \in DOMAIN b.components
      PROVE  Taken(b)[p][q] = (b.components[q] \ Nested(b, q))
                                 \cup UNION {Taken(b)[p \cup {q}][c] : c \in Nested(b, q) \ p}
  <2>1. Taken(b)[p] = [k \in DOMAIN b.components |->
                         (b.components[k] \ Nested(b, k))
                           \cup UNION {Taken(b)[p \cup {k}][c] : c \in Nested(b, k) \ p}]
    BY <1>2 DEF Takes
  <2> QED
    BY <2>1, Zenon
<1>4. ASSUME NEW p \in SUBSET DOMAIN b.components, NEW q \in DOMAIN b.components, NEW x
      PROVE  x \in Taken(b)[p][q] <=>
               \/ x \in b.components[q] \ Nested(b, q)
               \/ \E c \in Nested(b, q) \ p : x \in Taken(b)[p \cup {q}][c]
  BY <1>3
<1> QED
  BY <1>1, <1>4

\* Whatever is below a recipe that is below r is below r.
LEMMA BelowBelow ==
  ASSUME NEW b, IsBook(b), NEW r \in DOMAIN b.components, NEW q \in Below(b, r)
  PROVE  /\ q \in DOMAIN b.components /\ Below(b, q) \subseteq Below(b, r)
         /\ \A c \in Nested(b, q) : c \in Below(b, r)
<1>1. q \in DOMAIN b.components /\ Closed(b, Below(b, r))
  BY BelowReached
<1>2. Below(b, q) \subseteq Below(b, r)
  BY <1>1, BelowReached
<1> QED
  BY <1>1, <1>2 DEF Closed

\* Nothing else is below a recipe than itself and what is below the recipes it is made of.
LEMMA BelowParts ==
  ASSUME NEW b, IsBook(b), NEW r \in DOMAIN b.components
  PROVE  \A x : x \in Below(b, r) <=> x = r \/ \E c \in Nested(b, r) : x \in Below(b, c)
<1> DEFINE X == {r} \cup {x \in DOMAIN b.components : \E c \in Nested(b, r) : x \in Below(b, c)}
<1>1. Nested(b, r) \subseteq DOMAIN b.components /\ r \in Below(b, r)
  BY NestedRecipes, BelowReached
<1>2. ASSUME NEW c \in Nested(b, r)
      PROVE  Below(b, c) \subseteq Below(b, r) /\ c \in Below(b, c)
  BY <1>1, BelowBelow, BelowReached
<1>3. ASSUME NEW q \in X
      PROVE  Nested(b, q) \subseteq X
  <2>1. CASE q = r
    BY <1>1, <1>2, <2>1
  <2>2. CASE \E c \in Nested(b, r) : q \in Below(b, c)
    <3>1. PICK c \in Nested(b, r) : q \in Below(b, c)
      BY <2>2
    <3>2. Nested(b, q) \subseteq Below(b, c)
      BY <1>1, <3>1, BelowBelow
    <3> QED
      BY <3>1, <3>2, NestedRecipes
  <2> QED
    BY <2>1, <2>2
<1>4. Below(b, r) \subseteq X
  <2>1. r \in X /\ Closed(b, X)
    <3>1. r \in X
      OBVIOUS
    <3> HIDE DEF X
    <3> QED
      BY <1>3, <3>1 DEF Closed
  <2> HIDE DEF X
  <2> QED
    BY <2>1, BelowReached
<1> QED
  BY <1>1, <1>2, <1>4

\* Of sets of recipes some is a largest: a walk that goes wrong goes wrong at a last path.
LEMMA LongestPath ==
  ASSUME NEW D, IsFiniteSet(D), NEW T \in SUBSET SUBSET D, T # {}
  PROVE  \E p \in T : \A P \in T : p \subseteq P => P = p
<1> DEFINE rest == {D \ p : p \in T}
<1>1. rest \in SUBSET SUBSET D /\ rest # {}
  <2>1. PICK p \in T : TRUE
    OBVIOUS
  <2>2. D \ p \in rest
    OBVIOUS
  <2>3. \A R \in rest : R \subseteq D
    OBVIOUS
  <2> HIDE DEF rest
  <2> QED
    BY <2>2, <2>3
<1>2. PICK R \in rest : \A Q \in rest : Q \subseteq R => Q = R
  <2> HIDE DEF rest
  <2> QED
    BY <1>1, SmallestSet
<1>3. PICK p \in T : R = D \ p
  OBVIOUS
<1>4. ASSUME NEW P \in T, p \subseteq P
      PROVE  P = p
  <2>1. D \ P \in rest /\ D \ P \subseteq R
    BY <1>3, <1>4
  <2>2. D \ P = D \ p
    <3> HIDE DEF rest
    <3> QED
      BY <1>2, <1>3, <2>1
  <2> QED
    BY <2>2
<1> QED
  BY <1>4

\* Recipes that the walk can go on from, on some path that goes on from p.
LEMMA WalkSound ==
  ASSUME NEW b, IsBook(b), NEW p \in SUBSET DOMAIN b.components, NEW q \in Walk(b)[p]
  PROVE  \A x \in Below(b, q) : \E P \in SUBSET DOMAIN b.components :
           p \subseteq P /\ x \in Walk(b)[P]
<1> DEFINE X == {x \in DOMAIN b.components :
                   \E P \in SUBSET DOMAIN b.components : p \subseteq P /\ x \in Walk(b)[P]}
<1>1. q \in DOMAIN b.components /\ q \in X
  BY WalkSteps
<1>2. ASSUME NEW x \in X
      PROVE  Nested(b, x) \subseteq X
  <2>1. PICK P \in SUBSET DOMAIN b.components : p \subseteq P /\ x \in Walk(b)[P]
    OBVIOUS
  <2>2. /\ P \cup {x} \in SUBSET DOMAIN b.components /\ p \subseteq P \cup {x}
        /\ Nested(b, x) \subseteq Walk(b)[P \cup {x}]
    BY <2>1, WalkSteps
  <2> QED
    BY <2>2, NestedRecipes
<1>3. Closed(b, X)
  <2> HIDE DEF X
  <2> QED
    BY <1>2 DEF Closed
<1>4. Below(b, q) \subseteq X
  <2> HIDE DEF X
  <2> QED
    BY <1>1, <1>3, BelowReached
<1> QED
  BY <1>4

\* An expansion that is made has found everything and gone round in no circle.
LEMMA ExpandsOnlyWhole ==
  ASSUME NEW b, IsBook(b), NEW r \in DOMAIN b.components, Expands(b, r)
  PROVE  Acyclic(b, r) /\ \A q \in Below(b, r) : Resolves(b, q)
<1>1. r \in Walk(b)[{}]
  BY WalkSteps
<1>2. ASSUME NEW q \in Below(b, r)
      PROVE  Resolves(b, q) /\ \A c \in Nested(b, q) : q \notin Below(b, c)
  <2>1. PICK P \in SUBSET DOMAIN b.components : q \in Walk(b)[P]
    BY <1>1, <1>2, WalkSound
  <2>2. q \in DOMAIN b.components /\ Resolves(b, q) /\ Nested(b, q) \subseteq Walk(b)[P \cup {q}]
    BY <2>1, WalkSteps
  <2> DEFINE PathOn == P \cup {q}
  <2>4. PathOn \in SUBSET DOMAIN b.components /\ q \in PathOn /\ Nested(b, q) \subseteq Walk(b)[PathOn]
    BY <2>2
  <2>3. ASSUME NEW c \in Nested(b, q), q \in Below(b, c)
        PROVE  FALSE
    <3>1. PICK Q \in SUBSET DOMAIN b.components : PathOn \subseteq Q /\ q \in Walk(b)[Q]
      <4> HIDE DEF PathOn
      <4> QED
        BY <2>3, <2>4, WalkSound
    <3>2. q \in Q
      BY <2>4, <3>1
    <3> QED
      BY <3>1, <3>2, WalkSteps
  <2> QED
    BY <2>2, <2>3
<1> QED
  BY <1>2 DEF Acyclic

\* Below a recipe with no circle the walk goes on from every path it has not crossed, and takes
\* what the recipes below take.
LEMMA WalkComplete ==
  ASSUME NEW b, IsBook(b), NEW r \in DOMAIN b.components, Acyclic(b, r),
         NEW p \in SUBSET DOMAIN b.components, NEW q \in Below(b, r), Below(b, q) \cap p = {}
  PROVE  /\ (\A x \in Below(b, r) : Resolves(b, x)) => q \in Walk(b)[p]
         /\ \A x : x \in Taken(b)[p][q] <=>
              \E k \in Below(b, q) : x \in b.components[k] \ Nested(b, k)
<1> DEFINE D == DOMAIN b.components
           Goes(P, k) == (\A x \in Below(b, r) : Resolves(b, x)) => k \in Walk(b)[P]
           Gives(P, k) == \A x : x \in Taken(b)[P][k] <=>
                            \E n \in Below(b, k) : x \in b.components[n] \ Nested(b, n)
           Wrong == {P \in SUBSET D : \E k \in Below(b, r) :
                       Below(b, k) \cap P = {} /\ ~(Goes(P, k) /\ Gives(P, k))}
<1>1. SUFFICES ASSUME Wrong # {} PROVE FALSE
  <2> HIDE DEF Goes, Gives
  <2>1. Goes(p, q) /\ Gives(p, q)
    BY <1>1
  <2> QED
    BY <2>1 DEF Goes, Gives
<1>2. PICK P \in Wrong : \A Q \in Wrong : P \subseteq Q => Q = P
  <2>1. Wrong \in SUBSET SUBSET D
    OBVIOUS
  <2> HIDE DEF Wrong
  <2> QED
    BY <1>1, <2>1, LongestPath DEF IsBook
<1>3. P \in SUBSET D
  OBVIOUS
<1> HIDE DEF Goes, Gives
<1>4. PICK k \in Below(b, r) : Below(b, k) \cap P = {} /\ ~(Goes(P, k) /\ Gives(P, k))
  OBVIOUS
<1>5. k \in D /\ k \in Below(b, k) /\ k \notin P /\ P \cup {k} \in SUBSET D
  BY <1>3, <1>4, BelowBelow, BelowReached
<1>6. P \cup {k} \notin Wrong
  <2> HIDE DEF Wrong
  <2> QED
    BY <1>2, <1>5
<1>7. ASSUME NEW c \in Nested(b, k)
      PROVE  c \notin P /\ Goes(P \cup {k}, c) /\ Gives(P \cup {k}, c)
  <2>1. c \in Below(b, r) /\ k \notin Below(b, c)
    BY BelowBelow DEF Acyclic
  <2>2. Below(b, c) \subseteq Below(b, k) /\ c \in Below(b, k)
    BY <1>5, BelowBelow
  <2>3. Below(b, c) \cap (P \cup {k}) = {}
    BY <1>4, <2>1, <2>2
  <2> QED
    BY <1>4, <1>5, <1>6, <2>1, <2>2, <2>3
<1>8. Goes(P, k)
  BY <1>5, <1>7, WalkSteps DEF Goes
<1>9. Gives(P, k)
  <2>1. \A x : x \in Taken(b)[P][k] <=>
          \/ x \in b.components[k] \ Nested(b, k)
          \/ \E c \in Nested(b, k) \ P : x \in Taken(b)[P \cup {k}][c]
    BY <1>3, <1>5, TakenSteps
  <2>2. \A x : x \in Taken(b)[P][k] <=>
          \/ x \in b.components[k] \ Nested(b, k)
          \/ \E c \in Nested(b, k) : \E n \in Below(b, c) : x \in b.components[n] \ Nested(b, n)
    BY <1>7, <2>1 DEF Gives
  <2>3. \A n : n \in Below(b, k) <=> n = k \/ \E c \in Nested(b, k) : n \in Below(b, c)
    BY <1>5, BelowParts
  <2> QED
    BY <2>2, <2>3 DEF Gives
<1> QED
  BY <1>4, <1>8, <1>9

\* Whatever the recipes of a book contain, each is expanded exactly when everything below it is
\* found and nothing is made of itself, and then into what those recipes take from the stock.
THEOREM ExpansionMade ==
  ASSUME NEW b, IsFiniteSet(DOMAIN b.components), b.active \subseteq DOMAIN b.components
  PROVE  ExpansionMeetsDefinition(b)
<1>1. IsBook(b)
  BY DEF IsBook
<1>2. ASSUME NEW r \in DOMAIN b.components
      PROVE  /\ Expands(b, r) <=> Acyclic(b, r) /\ \A q \in Below(b, r) : Resolves(b, q)
             /\ Expands(b, r) =>
                  Requirements(b, r) = UNION {b.components[q] \ Nested(b, q) : q \in Below(b, r)}
  <2>1. /\ r \in Below(b, r) /\ {} \in SUBSET DOMAIN b.components
        /\ Below(b, r) \cap {} = {}
    BY <1>1, BelowReached
  <2>2. Expands(b, r) => Acyclic(b, r) /\ \A q \in Below(b, r) : Resolves(b, q)
    BY <1>1, ExpandsOnlyWhole
  <2>3. Acyclic(b, r) /\ (\A q \in Below(b, r) : Resolves(b, q)) => Expands(b, r)
    BY <1>1, <2>1, WalkComplete, WalkSteps
  <2>4. ASSUME Expands(b, r)
        PROVE  Requirements(b, r) = UNION {b.components[q] \ Nested(b, q) : q \in Below(b, r)}
    <3>1. \A x : x \in Taken(b)[{}][r] <=>
            \E k \in Below(b, r) : x \in b.components[k] \ Nested(b, k)
      BY <1>1, <2>1, <2>2, <2>4, WalkComplete
    <3>2. Requirements(b, r) = Taken(b)[{}][r]
      BY <1>1, TakenSteps
    <3> QED
      BY <3>1, <3>2
  <2> QED
    BY <2>2, <2>3, <2>4
<1> QED
  BY <1>2 DEF ExpansionMeetsDefinition

-----------------------------------------------------------------------------
(* The recipes of a project.                                                *)

RecipeDocs(s) == OfKind(s.docs, "recipes")

\* A step stores those of the seed and one recipe more, at the most.
LEMMA RecipesStored ==
  ASSUME TabsTyped, NEW t \in Tab, TabStep(t)
  PROVE  \E x : RecipeDocs(snapshot') \subseteq RecipeDocs(snapshot) \cup RecipeDocs(Seed) \cup {x}
<1> DEFINE OneMore == \E x : RecipeDocs(snapshot') \subseteq
                               RecipeDocs(snapshot) \cup RecipeDocs(Seed) \cup {x}
<1>1. ASSUME NEW r, NEW refs, NEW target, Writes(t, r, refs, target)
      PROVE  OneMore
  BY <1>1 DEF Writes, AsWritten, RecipeDocs, OfKind
<1>2. ASSUME {q \in snapshot'.docs : Kind[q] = "recipes"} \subseteq snapshot.docs
      PROVE  OneMore
  BY <1>2 DEF RecipeDocs, OfKind
<1>3. /\ snapshot = [docs |-> snapshot.docs, refs |-> snapshot.refs, target |-> snapshot.target,
                     active |-> snapshot.active, defaults |-> snapshot.defaults]
  BY DEF TabsTyped, Whole, IsSnapshot, Snapshots
<1> SUFFICES OneMore
  OBVIOUS
<1> HIDE DEF OneMore
<1>4. CASE CloseForm(t)
  BY <1>2, <1>4 DEF CloseForm
<1>5. CASE CreateResource(t)
  <2>1. PICK auto \in SaleChoices(t, form[t].id) :
          Writes(t, form[t].id, form[t].refs \cup auto, form[t].target)
    BY <1>5, CreateWrites, Zenon
  <2> QED
    BY <1>1, <2>1, Zenon
<1>6. CASE UpdateResource(t)
  <2>1. Writes(t, form[t].id, form[t].refs \cup Kept(t, form[t].id), form[t].target)
    BY <1>6, UpdateWrites, Zenon
  <2> QED
    BY <1>1, <2>1, Zenon
<1>7. CASE ApplySeed(t)
  BY <1>7 DEF ApplySeed, Store, RecipeDocs, OneMore
<1>8. CASE Reload(t)
  BY <1>2, <1>8 DEF Reload
<1>9. ASSUME NEW r \in Resource, OpenForm(t, r) PROVE OneMore
  BY <1>2, <1>9 DEF OpenForm
<1>10. ASSUME NEW r \in Resource, ToggleResourceStatus(t, r) PROVE OneMore
  BY <1>1, <1>10, ToggleWrites
<1>11. ASSUME NEW r \in Resource, RemoveResource(t, r) PROVE OneMore
  <2>1. snapshot'.docs \subseteq snapshot.docs
    BY <1>3, <1>11 DEF RemoveResource, Store, Removed
  <2> QED
    BY <1>2, <2>1
<1>12. ASSUME NEW r \in Resource, SetDefaultLocation(t, r) PROVE OneMore
  <2>1. snapshot'.docs = snapshot.docs
    BY <1>3, <1>12 DEF SetDefaultLocation, Store
  <2> QED
    BY <1>2, <2>1
<1>13. ASSUME NEW r \in Resource, NEW copy \in Resource, DuplicateResource(t, r, copy) PROVE OneMore
  BY <1>1, <1>13, DuplicateWrites
<1>14. ASSUME NEW selected \in SUBSET OfKind(Resource, "workspaces"), Generate(t, selected) PROVE OneMore
  <2>1. snapshot'.docs = {q \in snapshot.docs : Kind[q] # "workspaces"} \cup selected
    BY <1>3, <1>14 DEF Generate, Store
  <2>2. {q \in snapshot'.docs : Kind[q] = "recipes"} \subseteq snapshot.docs
    BY <2>1 DEF OfKind
  <2> QED
    BY <1>2, <2>2
<1>15. ASSUME NEW w \in Resource, NEW r \in Resource, Assign(t, w, r) PROVE OneMore
  <2>1. snapshot'.docs = snapshot.docs
    BY <1>3, <1>15, AssignStores DEF Store
  <2> QED
    BY <1>2, <2>1
<1> QED
  BY <1>4, <1>5, <1>6, <1>7, <1>8, <1>9, <1>10, <1>11, <1>12, <1>13, <1>14, <1>15, Zenon
     DEF TabStep

\* However long a project is edited, it has finitely many recipes.
LEMMA RecipesStayFinite ==
  ASSUME TabsTyped, IsFiniteSet(RecipeDocs(snapshot)), [Next]_vars
  PROVE  IsFiniteSet(RecipeDocs(snapshot'))
<1>1. CASE UNCHANGED vars
  BY <1>1 DEF vars
<1>2. ASSUME NEW t \in Tab, TabStep(t)
      PROVE  IsFiniteSet(RecipeDocs(snapshot'))
  <2>1. IsFiniteSet(RecipeDocs(Seed))
    BY SeedAssumption, FS_Subset DEF RecipeDocs, OfKind
  <2>2. PICK x : RecipeDocs(snapshot') \subseteq RecipeDocs(snapshot) \cup RecipeDocs(Seed) \cup {x}
    BY <1>2, RecipesStored
  <2>3. IsFiniteSet(RecipeDocs(snapshot) \cup RecipeDocs(Seed) \cup {x})
    BY <2>1, FS_Union, FS_Singleton
  <2> QED
    BY <2>2, <2>3, FS_Subset
<1>3. Next => \E t \in Tab : TabStep(t)
  BY Zenon DEF Next, TabStep
<1> QED
  BY <1>1, <1>2, <1>3

\* Whatever the tabs create, edit, copy and switch, the expansion of every recipe that is stored
\* is made or refused as the recipes say: it ends, it fails exactly when a recipe below contains
\* itself or needs what is not there, and it takes what the recipes below take from the stock
\* (recipe-engine/expansion.ts).
THEOREM ExpansionAlwaysCorrect == Spec => []ExpansionCorrect
<1> DEFINE Inv == TabsTyped /\ IsFiniteSet(RecipeDocs(snapshot))
<1>1. Init => Inv
  <2> SUFFICES ASSUME Init PROVE Inv
    OBVIOUS
  <2>1. TabsTyped
    BY InitialWhole DEF Init, TabsTyped, ViewsTyped, Whole, IsSnapshot, FormTyped, FormRecord, NoForm
  <2>2. RecipeDocs(snapshot) = {}
    BY DEF Init, InitialSnapshot, RecipeDocs, OfKind
  <2> QED
    BY <2>1, <2>2, FS_EmptySet
<1>2. Inv /\ [Next]_vars => Inv'
  BY TabsStayTyped, RecipesStayFinite
<1>3. Inv => ExpansionCorrect
  <2> SUFFICES ASSUME Inv PROVE ExpansionCorrect
    OBVIOUS
  <2> DEFINE b == Book(snapshot)
  <2>1. DOMAIN b.components = RecipeDocs(snapshot)
    BY DEF Book, RecipeDocs
  <2>2. b.active \subseteq DOMAIN b.components
    BY DEF Book, OfKind, TabsTyped, Whole, IsSnapshot
  <2>3. IsFiniteSet(DOMAIN b.components)
    BY <2>1
  <2> HIDE DEF b
  <2>4. ExpansionMeetsDefinition(b)
    BY <2>2, <2>3, ExpansionMade
  <2> QED
    BY <2>4 DEF b, ExpansionCorrect
<1> HIDE DEF Inv
<1> QED
  BY <1>1, <1>2, <1>3, PTL DEF Spec

-----------------------------------------------------------------------------
(* The shape of stored records.                                             *)

\* "other" is whatever the reader does not know.
ComponentRecord ==
  [type : {"ingredient", "preparation", "semi-finished", "other"}, referenceId : STRING,
   grossQuantity : Int, lossPercentage : Int, netQuantity : Int]
RowRecord == [ingredientId : STRING, quantity : Int]

\* The shape of a stored recipe, of whatever version.
IsRecipe(r) ==
  /\ Has(r, "components") => r.components \in Seq(ComponentRecord)
  /\ Has(r, "ingredientRows") => r.ingredientRows \in Seq(RowRecord)
  /\ Has(r, "ingredientId") => r.ingredientId \in STRING /\ r.ingredientQuantity \in Int
  /\ Has(r, "wastePercentage") => r.wastePercentage \in Int

\* A function is told by its domain and its values.
LEMMA SpreadEqual ==
  ASSUME NEW r, NEW s, NEW q, NEW t,
         DOMAIN r \cup DOMAIN s = DOMAIN q \cup DOMAIN t,
         \A f \in DOMAIN r \cup DOMAIN s : Spread(r, s)[f] = Spread(q, t)[f]
  PROVE  Spread(r, s) = Spread(q, t)
BY DEF Spread

-----------------------------------------------------------------------------
(* Recipes.                                                                 *)

LEMMA NetInt ==
  ASSUME NEW g \in Int, NEW l \in Int
  PROVE  NetQuantity(g, l) \in Int
BY DEF NetQuantity

LEMMA LegacyLine ==
  ASSUME NEW i \in STRING, NEW g \in Int, NEW l \in Int, NEW n \in Int
  PROVE  [type |-> "ingredient", referenceId |-> i, grossQuantity |-> g,
          lossPercentage |-> l, netQuantity |-> n] \in ComponentRecord
BY DEF ComponentRecord

\* A record whose title and net quantities follow from the rest is not changed again.
LEMMA NormalizedOnce ==
  ASSUME NEW r, AlreadyCurrent(r), r.components \in Seq(ComponentRecord)
  PROVE  /\ AlreadyCurrent(Normalized(r))
         /\ Normal(Normalized(r)) <=> Normal(r)
         /\ Normalized(Normalized(r)) = Normalized(r)
<1> DEFINE C == [k \in DOMAIN r.components |->
                   [r.components[k] EXCEPT !.netQuantity =
                      NetQuantity(r.components[k].grossQuantity, r.components[k].lossPercentage)]]
           n == [name |-> Title(r.target), components |-> C]
           s == Normalized(r)
<1>1. s = Spread(r, n)
  BY DEF Normalized
<1>2. DOMAIN n = {"name", "components"} /\ n.name = Title(r.target) /\ n.components = C
  OBVIOUS
<1>8. ASSUME NEW k \in DOMAIN r.components
      PROVE  C[k] = [r.components[k] EXCEPT !.netQuantity =
                       NetQuantity(r.components[k].grossQuantity, r.components[k].lossPercentage)]
  OBVIOUS
<1>9. DOMAIN C = DOMAIN r.components
  OBVIOUS
<1> HIDE DEF n, s, C
<1>3. /\ DOMAIN s = DOMAIN r \cup {"name"}
      /\ s.name = Title(r.target) /\ s.components = C /\ s.target = r.target
  <2>1. {"target", "components"} \subseteq DOMAIN r
    BY DEF AlreadyCurrent, Has
  <2>2. /\ DOMAIN s = DOMAIN r \cup DOMAIN n
        /\ \A f \in DOMAIN n : s[f] = n[f]
        /\ \A f \in DOMAIN r \ DOMAIN n : s[f] = r[f]
    BY <1>1 DEF Spread
  <2> QED
    BY <2>1, <2>2, <1>2
<1>4. ASSUME NEW k \in DOMAIN r.components
      PROVE  /\ C[k].grossQuantity = r.components[k].grossQuantity
             /\ C[k].lossPercentage = r.components[k].lossPercentage
             /\ C[k].type = r.components[k].type
             /\ [C[k] EXCEPT !.netQuantity = NetQuantity(C[k].grossQuantity, C[k].lossPercentage)] = C[k]
  <2> DEFINE c == r.components[k]
             net == NetQuantity(c.grossQuantity, c.lossPercentage)
  <2>1. c \in ComponentRecord
    OBVIOUS
  <2>2. net \in Int
    BY <2>1, NetInt DEF ComponentRecord
  <2>3. C[k] = [c EXCEPT !.netQuantity = net]
    BY <1>8
  <2> HIDE DEF c, net
  <2>4. /\ C[k].grossQuantity = c.grossQuantity /\ C[k].lossPercentage = c.lossPercentage
        /\ C[k].type = c.type /\ [C[k] EXCEPT !.netQuantity = net] = C[k]
    BY <2>1, <2>2, <2>3 DEF ComponentRecord
  <2>5. NetQuantity(C[k].grossQuantity, C[k].lossPercentage) = net
    BY <2>4 DEF net
  <2> QED
    BY <2>4, <2>5 DEF c
<1>5. AlreadyCurrent(s)
  BY <1>3 DEF AlreadyCurrent, Has
<1>6. Normal(s) <=> Normal(r)
  <2>1. ASSUME NEW k \in DOMAIN r.components
        PROVE  ValidComponent(C[k]) <=> ValidComponent(r.components[k])
    BY <1>4 DEF ValidComponent
  <2>2. DOMAIN s.components = DOMAIN r.components
    BY <1>3, <1>9
  <2> QED
    BY <1>3, <1>5, <2>1, <2>2 DEF Normal
<1>7. Normalized(s) = s
  <2> DEFINE D == [k \in DOMAIN s.components |->
                     [s.components[k] EXCEPT !.netQuantity =
                        NetQuantity(s.components[k].grossQuantity, s.components[k].lossPercentage)]]
             t == [name |-> Title(s.target), components |-> D]
  <2>1. D = C
    <3>1. C = [k \in DOMAIN r.components |-> C[k]]
      BY DEF C
    <3>2. D = [k \in DOMAIN r.components |-> C[k]]
      BY <1>3, <1>4, <1>9
    <3> QED
      BY <3>1, <3>2
  <2>2. Normalized(s) = Spread(s, t)
    BY DEF Normalized
  <2>3. t = n
    BY <2>1, <1>3 DEF n
  <2>4. DOMAIN s \cup DOMAIN n = DOMAIN r \cup DOMAIN n
    BY <1>2, <1>3
  <2>5. ASSUME NEW f \in DOMAIN s \cup DOMAIN n
        PROVE  Spread(s, n)[f] = Spread(r, n)[f]
    <3>1. CASE f \in DOMAIN n
      BY <3>1 DEF Spread
    <3>2. CASE f \notin DOMAIN n
      <4>1. f \in DOMAIN r /\ Spread(s, n)[f] = s[f]
        BY <3>2, <2>4, <2>5 DEF Spread
      <4> QED
        BY <4>1, <1>1
    <3> QED
      BY <3>1, <3>2
  <2>6. Spread(s, n) = Spread(r, n)
    BY <2>4, <2>5, SpreadEqual
  <2> QED
    BY <2>2, <2>3, <2>6, <1>1
<1> QED
  BY <1>5, <1>6, <1>7 DEF s

\* What is made of a legacy record has a target and components, its titles and net
\* quantities follow from them, and no field by which it could be migrated again.
LEMMA LegacyIsNormalized ==
  ASSUME NEW r, NEW menuItems, IsRecipe(r), Resolvable(r, menuItems)
  PROVE  LET m == FromLegacy(r, menuItems) IN
         /\ AlreadyCurrent(m) /\ m.components \in Seq(ComponentRecord)
         /\ Normalized(m) = m
         /\ ~Has(m, "menuItemId")
<1> DEFINE target == [type |-> "menu-item", id |-> r.menuItemId, name |-> menuItems[r.menuItemId]]
           old == Without(r, {"menuItemId", "ingredientId", "ingredientQuantity",
                              "wastePercentage", "ingredientRows"})
           n == [name |-> Title(target), target |-> target, components |-> LegacyComponents(r)]
           m == FromLegacy(r, menuItems)
           L == LegacyComponents(r)
<1>1. m = Spread(old, n)
  BY DEF FromLegacy
<1>2. DOMAIN n = {"name", "target", "components"} /\ n.name = Title(target)
        /\ n.target = target /\ n.components = L
  OBVIOUS
<1>3. DOMAIN old = DOMAIN r \ {"menuItemId", "ingredientId", "ingredientQuantity",
                               "wastePercentage", "ingredientRows"}
  BY DEF Without
<1>4. Rows(r) \in Seq(RowRecord)
  <2>1. CASE Has(r, "ingredientRows")
    BY <2>1 DEF Rows, IsRecipe
  <2>2. CASE ~Has(r, "ingredientRows") /\ Has(r, "ingredientId")
    BY <2>2 DEF Rows, IsRecipe, RowRecord
  <2>3. CASE ~Has(r, "ingredientRows") /\ ~Has(r, "ingredientId")
    BY <2>3 DEF Rows
  <2> QED
    BY <2>1, <2>2, <2>3
<1>5. ASSUME NEW k \in DOMAIN Rows(r)
      PROVE  /\ L[k] \in ComponentRecord
             /\ L[k].netQuantity = NetQuantity(L[k].grossQuantity, L[k].lossPercentage)
  <2> DEFINE loss == IF k = 1 /\ Has(r, "wastePercentage") THEN r.wastePercentage ELSE 0
  <2> DEFINE row == Rows(r)[k]
             net == NetQuantity(row.quantity, loss)
  <2>1. row \in RowRecord
    BY <1>4
  <2>2. loss \in Int
    BY DEF IsRecipe
  <2>3. row.quantity \in Int /\ row.ingredientId \in STRING
    BY <2>1 DEF RowRecord
  <2>4. L[k] = [type |-> "ingredient", referenceId |-> row.ingredientId,
                grossQuantity |-> row.quantity, lossPercentage |-> loss, netQuantity |-> net]
    BY DEF LegacyComponents
  <2>5. net \in Int
    BY <2>2, <2>3, NetInt
  <2> HIDE DEF loss, L, row, net
  <2>6. L[k] \in ComponentRecord
    BY <2>2, <2>3, <2>4, <2>5, LegacyLine
  <2>7. L[k].netQuantity = net /\ L[k].grossQuantity = row.quantity /\ L[k].lossPercentage = loss
    BY <2>4
  <2> QED
    BY <2>6, <2>7 DEF net
<1>6. L \in Seq(ComponentRecord)
  <2>1. L = [k \in 1 .. Len(Rows(r)) |-> L[k]]
    BY <1>4 DEF LegacyComponents
  <2> HIDE DEF L
  <2>2. \A k \in 1 .. Len(Rows(r)) : L[k] \in ComponentRecord
    BY <1>4, <1>5
  <2>3. Len(Rows(r)) \in Nat
    BY <1>4
  <2> QED
    BY <2>1, <2>2, <2>3
<1>7. DOMAIN L = DOMAIN Rows(r)
  BY DEF LegacyComponents
<1> HIDE DEF L
<1>8. /\ DOMAIN m = DOMAIN old \cup {"name", "target", "components"}
      /\ m.name = Title(target) /\ m.target = target /\ m.components = L
  BY <1>1, <1>2 DEF Spread
<1>9. ~Has(m, "menuItemId")
  BY <1>8, <1>3 DEF Has
<1>10. AlreadyCurrent(m)
  BY <1>8 DEF AlreadyCurrent, Has, ValidTarget
<1>11. Normalized(m) = m
  <2> DEFINE D == [k \in DOMAIN m.components |->
                     [m.components[k] EXCEPT !.netQuantity =
                        NetQuantity(m.components[k].grossQuantity, m.components[k].lossPercentage)]]
             t == [name |-> Title(m.target), components |-> D]
  <2>1. ASSUME NEW k \in DOMAIN L
        PROVE  [L[k] EXCEPT !.netQuantity = NetQuantity(L[k].grossQuantity, L[k].lossPercentage)] = L[k]
    BY <1>5, <1>7 DEF ComponentRecord
  <2>2. D = L
    BY <2>1, <1>8, <1>6
  <2>3. Normalized(m) = Spread(m, t)
    BY DEF Normalized
  <2>4. DOMAIN t = {"name", "components"} /\ t.name = Title(m.target) /\ t.components = D
    OBVIOUS
  <2> HIDE DEF t, m, D
  <2>5. DOMAIN m \cup DOMAIN t = DOMAIN old \cup DOMAIN n
    BY <1>8, <2>4, <1>2
  <2>6. ASSUME NEW f \in DOMAIN m \cup DOMAIN t
        PROVE  Spread(m, t)[f] = Spread(old, n)[f]
    <3>1. Spread(m, t)[f] = m[f]
      BY <2>6, <2>2, <2>4, <1>8 DEF Spread
    <3> QED
      BY <3>1, <1>1
  <2> QED
    BY <2>3, <2>5, <2>6, <1>1, SpreadEqual
<1> QED
  BY <1>6, <1>8, <1>9, <1>10, <1>11

\* A recipe that was migrated is not migrated again: losses are not applied twice, a second
\* read counts nothing and what cannot be resolved stays as it is (migrateLegacyRecipes).
THEOREM RecipesSettle ==
  ASSUME NEW r, NEW menuItems, IsRecipe(r)
  PROVE  LET m == MigratedRecipe(r, menuItems) IN
         /\ MigratedRecipe(m, menuItems) = m
         /\ ~CountsAsMigrated(m, menuItems)
<1> DEFINE m == MigratedRecipe(r, menuItems)
<1>1. CASE Normal(r)
  <2>1. AlreadyCurrent(r) /\ r.components \in Seq(ComponentRecord)
    BY <1>1 DEF Normal, AlreadyCurrent, IsRecipe
  <2>2. m = Normalized(r)
    BY <1>1 DEF MigratedRecipe
  <2>3. Normal(m) /\ Normalized(m) = m /\ AlreadyCurrent(m)
    BY <1>1, <2>1, <2>2, NormalizedOnce
  <2> QED
    BY <2>3 DEF MigratedRecipe, CountsAsMigrated
<1>2. CASE ~Normal(r) /\ Resolvable(r, menuItems)
  <2>1. m = FromLegacy(r, menuItems)
    BY <1>2 DEF MigratedRecipe
  <2>2. AlreadyCurrent(m) /\ Normalized(m) = m /\ ~Has(m, "menuItemId")
    BY <1>2, <2>1, LegacyIsNormalized
  <2>3. ~Resolvable(m, menuItems)
    BY <2>2 DEF Resolvable
  <2> QED
    BY <2>2, <2>3 DEF MigratedRecipe, CountsAsMigrated
<1>3. CASE ~Normal(r) /\ ~Resolvable(r, menuItems)
  BY <1>3 DEF MigratedRecipe, CountsAsMigrated
<1> QED
  BY <1>1, <1>2, <1>3

-----------------------------------------------------------------------------
(* Ingredients.                                                             *)

\* An ingredient that was migrated is the same after a second migration, and the second does
\* not count if the conversion rate is a package size (migrateLegacyIngredients).
THEOREM IngredientsSettle ==
  ASSUME NEW i, NEW units, Has(i, "baseUnitId"), Has(i, "conversionRate")
  PROVE  LET m == MigratedIngredient(i, units) IN
         /\ MigratedIngredient(m, units) = m
         /\ i.conversionRate > 0 => ~IngredientCounts(m, units)
<1> DEFINE m == MigratedIngredient(i, units)
<1>1. CASE Complete(i)
  BY <1>1 DEF MigratedIngredient, IngredientCounts
<1>2. CASE ~Complete(i) /\ ~TypeKnown(i, units)
  <2> DEFINE w == [accountingConfigurationWarning |-> "ACCOUNTING_TYPE_REQUIRES_REVIEW"]
  <2>1. m = Spread(w, i)
    BY <1>2 DEF MigratedIngredient, Warned
  <2>2. DOMAIN w = {"accountingConfigurationWarning"}
    OBVIOUS
  <2> HIDE DEF w, m
  <2>3. /\ DOMAIN m = DOMAIN i \cup {"accountingConfigurationWarning"}
        /\ \A f \in DOMAIN i : m[f] = i[f]
    BY <2>1, <2>2 DEF Spread
  <2>4. Complete(m) <=> Complete(i)
    BY <2>3 DEF Complete, HasPackage, Has
  <2>5. TypeKnown(m, units) <=> TypeKnown(i, units)
    BY <2>3 DEF TypeKnown, Has
  <2>6. Spread(w, m) = m
    <3>1. DOMAIN w \cup DOMAIN m = DOMAIN w \cup DOMAIN i
      BY <2>2, <2>3
    <3>2. \A f \in DOMAIN w \cup DOMAIN m : Spread(w, m)[f] = Spread(w, i)[f]
      BY <2>1, <2>2, <2>3 DEF Spread
    <3> QED
      BY <3>1, <3>2, <2>1, SpreadEqual
  <2>7. MigratedIngredient(m, units) = Spread(w, m)
    BY <2>4, <2>5, <1>2 DEF MigratedIngredient, Warned, w
  <2> QED
    BY <2>3, <2>4, <2>5, <2>6, <2>7, <1>2 DEF IngredientCounts, Has, m
<1>3. CASE ~Complete(i) /\ TypeKnown(i, units)
  <2> DEFINE old == Without(i, {"accountingConfigurationWarning"})
             size == IF HasPackage(i) THEN i.purchasePackageSize ELSE i.conversionRate
             barcode == IF Has(i, "barcode") THEN i.barcode ELSE ""
             n == [accountingType |-> AccountingTypes[units[i.baseUnitId]],
                   purchasePackageSize |-> size, barcode |-> barcode]
  <2>1. m = Spread(old, n)
    BY <1>3 DEF MigratedIngredient
  <2>2. /\ DOMAIN n = {"accountingType", "purchasePackageSize", "barcode"}
        /\ n.accountingType = AccountingTypes[units[i.baseUnitId]]
        /\ n.purchasePackageSize = size /\ n.barcode = barcode
    OBVIOUS
  <2>3. /\ DOMAIN old = DOMAIN i \ {"accountingConfigurationWarning"}
        /\ \A f \in DOMAIN old : old[f] = i[f]
    BY DEF Without
  <2> HIDE DEF m, n, old
  <2>4. /\ DOMAIN m = DOMAIN old \cup DOMAIN n
        /\ \A f \in DOMAIN n : m[f] = n[f]
        /\ \A f \in DOMAIN old \ DOMAIN n : m[f] = old[f]
    BY <2>1 DEF Spread
  <2>5. /\ m.baseUnitId = i.baseUnitId /\ m.conversionRate = i.conversionRate
        /\ m.purchasePackageSize = size /\ m.barcode = barcode
        /\ m.accountingType = AccountingTypes[units[m.baseUnitId]]
        /\ {"accountingType", "purchasePackageSize", "barcode"} \subseteq DOMAIN m
        /\ "accountingConfigurationWarning" \notin DOMAIN m
    BY <2>2, <2>3, <2>4 DEF Has
  <2>6. TypeKnown(m, units)
    BY <2>5, <1>3 DEF TypeKnown
  <2>7. HasPackage(m) <=> size > 0
    BY <2>5 DEF HasPackage, Has
  <2>8. (IF HasPackage(m) THEN m.purchasePackageSize ELSE m.conversionRate) = size
    <3>1. CASE size > 0
      BY <3>1, <2>5, <2>7
    <3>2. CASE ~(size > 0)
      <4>1. ~HasPackage(i)
        BY <3>2 DEF HasPackage, size
      <4>2. size = i.conversionRate
        BY <4>1
      <4> QED
        BY <3>2, <4>2, <2>5, <2>7
    <3> QED
      BY <3>1, <3>2
  <2>9. MigratedIngredient(m, units) = m
    <3>1. CASE Complete(m)
      BY <3>1 DEF MigratedIngredient
    <3>2. CASE ~Complete(m)
      <4> DEFINE again == Without(m, {"accountingConfigurationWarning"})
                 t == [accountingType |-> AccountingTypes[units[m.baseUnitId]],
                       purchasePackageSize |-> IF HasPackage(m) THEN m.purchasePackageSize ELSE m.conversionRate,
                       barcode |-> IF Has(m, "barcode") THEN m.barcode ELSE ""]
      <4>1. MigratedIngredient(m, units) = Spread(again, t)
        BY <3>2, <2>6 DEF MigratedIngredient
      <4>2. t = n
        BY <2>5, <2>8 DEF n, Has
      <4>3. DOMAIN again = DOMAIN m /\ \A f \in DOMAIN m : again[f] = m[f]
        BY <2>5 DEF Without
      <4> HIDE DEF again, t
      <4>4. DOMAIN again \cup DOMAIN n = DOMAIN old \cup DOMAIN n
        BY <4>3, <2>4
      <4>5. \A f \in DOMAIN again \cup DOMAIN n : Spread(again, n)[f] = Spread(old, n)[f]
        <5>1. \A f \in DOMAIN again \cup DOMAIN n : Spread(again, n)[f] = m[f]
          BY <4>3, <2>4 DEF Spread
        <5> QED
          BY <5>1, <2>1
      <4> QED
        BY <4>1, <4>2, <4>4, <4>5, <2>1, SpreadEqual
    <3> QED
      BY <3>1, <3>2
  <2>10. ASSUME i.conversionRate > 0
         PROVE  ~IngredientCounts(m, units)
    <3>1. size > 0
      BY <2>10 DEF HasPackage
    <3>2. Complete(m)
      BY <3>1, <2>5, <2>7 DEF Complete, Has
    <3> QED
      BY <3>2 DEF IngredientCounts
  <2> QED
    BY <2>9, <2>10 DEF m
<1> QED
  BY <1>1, <1>2, <1>3

-----------------------------------------------------------------------------
(* Reading a whole configuration.                                           *)

IsFunction(x) == x = [f \in DOMAIN x |-> x[f]]

\* What is not complete has what it is completed from.
IsIngredient(i) == Complete(i) \/ (Has(i, "baseUnitId") /\ Has(i, "conversionRate"))

\* The fields that every version has written, and the shape of what the lists hold.
IsConfiguration(s) ==
  /\ IsFunction(s)
  /\ {"menuItems", "units", "modifiers", "project"} \subseteq DOMAIN s
  /\ \A k \in DOMAIN ListOf(s, "recipes") : IsRecipe(s.recipes[k])
  /\ \A k \in DOMAIN ListOf(s, "ingredients") : IsIngredient(s.ingredients[k])
  /\ \A k \in DOMAIN s.modifiers : Has(s.modifiers[k], "id")

\* A new project is not marked as the development project, and the plan of the latter has zones
\* and tables.
SeedIsSpecial ==
  /\ Defaults.developmentSeedId # SeedId
  /\ DOMAIN SeedPlan = {"floorPlanZones", "tables"}
  /\ SeedPlan.floorPlanZones # <<>> /\ SeedPlan.tables # <<>>

LEMMA FunctionsEqual ==
  ASSUME NEW x, NEW y, IsFunction(x), IsFunction(y), DOMAIN x = DOMAIN y,
         \A f \in DOMAIN x : x[f] = y[f]
  PROVE  x = y
<1>1. x = [f \in DOMAIN x |-> x[f]] /\ y = [f \in DOMAIN x |-> y[f]]
  BY DEF IsFunction
<1>2. [f \in DOMAIN x |-> x[f]] = [f \in DOMAIN x |-> y[f]]
  OBVIOUS
<1> QED
  BY <1>1, <1>2

LEMMA SpreadFields ==
  ASSUME NEW r, NEW s
  PROVE  /\ IsFunction(Spread(r, s))
         /\ DOMAIN Spread(r, s) = DOMAIN r \cup DOMAIN s
         /\ \A f \in DOMAIN s : Spread(r, s)[f] = s[f]
         /\ \A f \in DOMAIN r \ DOMAIN s : Spread(r, s)[f] = r[f]
BY DEF Spread, IsFunction

\* What is missing is added, and nothing else.
LEMMA MissingFields ==
  ASSUME NEW x, NEW f
  PROVE  /\ IsFunction(Missing(x, f))
         /\ DOMAIN Missing(x, f) = DOMAIN x \cup {f}
         /\ \A g \in DOMAIN x : Missing(x, f)[g] = x[g]
         /\ f \notin DOMAIN x => Missing(x, f)[f] = Defaults[f]
         /\ IsFunction(x) /\ Has(x, f) => Missing(x, f) = x
<1> DEFINE d == [g \in {f} |-> Defaults[f]]
<1>1. DOMAIN d = {f} /\ d[f] = Defaults[f] /\ Missing(x, f) = Spread(d, x)
  BY DEF Missing
<1> HIDE DEF d
<1> DEFINE y == Spread(d, x)
<1>4. /\ IsFunction(y) /\ DOMAIN y = DOMAIN d \cup DOMAIN x
      /\ \A g \in DOMAIN x : y[g] = x[g]
      /\ \A g \in DOMAIN d \ DOMAIN x : y[g] = d[g]
  BY SpreadFields
<1>5. y = Missing(x, f)
  BY <1>1
<1> HIDE DEF y
<1>2. /\ IsFunction(Missing(x, f)) /\ DOMAIN Missing(x, f) = DOMAIN x \cup {f}
      /\ \A g \in DOMAIN x : Missing(x, f)[g] = x[g]
      /\ f \notin DOMAIN x => Missing(x, f)[f] = Defaults[f]
  BY <1>1, <1>4, <1>5
<1>3. ASSUME IsFunction(x), Has(x, f)
      PROVE  Missing(x, f) = x
  <2>1. DOMAIN Missing(x, f) = DOMAIN x
    BY <1>2, <1>3 DEF Has
  <2> QED
    BY <1>2, <1>3, <2>1, FunctionsEqual
<1> QED
  BY <1>2, <1>3

\* y has what x has, apart from what is set in F, and is a function.
Grown(x, y, F) ==
  /\ IsFunction(y)
  /\ DOMAIN x \subseteq DOMAIN y
  /\ \A f \in DOMAIN x \ F : y[f] = x[f]

LEMMA MissingGrown ==
  ASSUME NEW x, NEW f, NEW F
  PROVE  Grown(x, Missing(x, f), F)
<1> DEFINE y == Missing(x, f)
<1>1. IsFunction(y) /\ DOMAIN y = DOMAIN x \cup {f} /\ \A g \in DOMAIN x : y[g] = x[g]
  BY MissingFields
<1> HIDE DEF y
<1>2. Grown(x, y, F)
  BY <1>1 DEF Grown
<1> QED
  BY <1>2 DEF y

PlanFields == {"floorPlanZones", "tables"}

\* The plan of an earlier version is set out once.
LEMMA PlanStep ==
  ASSUME NEW x, IsFunction(x)
  PROVE  /\ Grown(x, WithPlan(x), PlanFields)
         /\ DOMAIN WithPlan(x) = DOMAIN x \cup PlanFields
         /\ Has(x, "tables") /\ Has(x, "floorPlanZones") => WithPlan(x) = x
<1>1. CASE Has(x, "tables") /\ Has(x, "floorPlanZones")
  BY <1>1 DEF WithPlan, Grown, PlanFields, Has
<1>2. CASE ~(Has(x, "tables") /\ Has(x, "floorPlanZones"))
  <2>1. WithPlan(x) = Spread(x, LegacyPlan(x))
    BY <1>2 DEF WithPlan
  <2> DEFINE d == LegacyPlan(x)
             y == Spread(x, d)
  <2>2. DOMAIN d = PlanFields
    BY DEF LegacyPlan, PlanFields
  <2>3. /\ IsFunction(y) /\ DOMAIN y = DOMAIN x \cup DOMAIN d
        /\ \A g \in DOMAIN x \ DOMAIN d : y[g] = x[g]
    BY SpreadFields
  <2> HIDE DEF d, y
  <2>4. Grown(x, y, PlanFields) /\ DOMAIN y = DOMAIN x \cup PlanFields
    BY <2>2, <2>3 DEF Grown
  <2> QED
    BY <1>2, <2>1, <2>4 DEF y, d
<1> QED
  BY <1>1, <1>2

\* The development project gets its plan once.
LEMMA SeedStep ==
  ASSUME SeedIsSpecial, NEW x, IsFunction(x), "project" \in DOMAIN x, PlanFields \subseteq DOMAIN x
  PROVE  /\ Grown(x, WithSeedPlan(x), PlanFields)
         /\ DOMAIN WithSeedPlan(x) = DOMAIN x
         /\ ~LacksSeedPlan(x) => WithSeedPlan(x) = x
         /\ ~LacksSeedPlan(WithSeedPlan(x))
<1>1. CASE ~LacksSeedPlan(x)
  BY <1>1 DEF WithSeedPlan, Grown
<1>2. CASE LacksSeedPlan(x)
  <2>1. WithSeedPlan(x) = Spread(x, SeedPlan)
    BY <1>2 DEF WithSeedPlan
  <2>2. DOMAIN SeedPlan = PlanFields
    BY DEF SeedIsSpecial, PlanFields
  <2>3. /\ Grown(x, WithSeedPlan(x), PlanFields)
        /\ DOMAIN WithSeedPlan(x) = DOMAIN x
        /\ \A f \in PlanFields : WithSeedPlan(x)[f] = SeedPlan[f]
    BY <2>1, <2>2, SpreadFields DEF Grown
  <2>4. WithSeedPlan(x).tables # <<>> /\ WithSeedPlan(x).floorPlanZones # <<>>
    BY <2>3 DEF SeedIsSpecial, PlanFields
  <2> QED
    BY <1>2, <2>3, <2>4 DEF LacksSeedPlan
<1> QED
  BY <1>1, <1>2

\* The lists of x are as a reading leaves them.
ListsSettled(x) ==
  /\ IsFunction(x)
  /\ {"recipes", "ingredients", "modifiers", "menuItems", "units", "project"} \subseteq DOMAIN x
  /\ x.recipes = [k \in DOMAIN x.recipes |-> MigratedRecipe(x.recipes[k], x.menuItems)]
  /\ x.ingredients = [k \in DOMAIN x.ingredients |-> MigratedIngredient(x.ingredients[k], x.units)]
  /\ Seeded(x) => x.modifiers = [k \in DOMAIN x.modifiers |-> MigratedModifier(x.modifiers[k])]

LEMMA SettledListsStay ==
  ASSUME NEW x, ListsSettled(x)
  PROVE  MigratedLists(x) = x
<1> DEFINE n == [recipes |-> [k \in DOMAIN ListOf(x, "recipes") |->
                                MigratedRecipe(x.recipes[k], x.menuItems)],
                 ingredients |-> [k \in DOMAIN ListOf(x, "ingredients") |->
                                    MigratedIngredient(x.ingredients[k], x.units)],
                 modifiers |-> IF Seeded(x)
                                 THEN [k \in DOMAIN x.modifiers |-> MigratedModifier(x.modifiers[k])]
                                 ELSE x.modifiers]
           y == Spread(x, n)
<1>1. ListOf(x, "recipes") = x.recipes /\ ListOf(x, "ingredients") = x.ingredients
  BY DEF ListOf, Has, ListsSettled
<1>2. /\ DOMAIN n = {"recipes", "ingredients", "modifiers"}
      /\ n.recipes = x.recipes /\ n.ingredients = x.ingredients /\ n.modifiers = x.modifiers
  BY <1>1 DEF ListsSettled
<1>3. MigratedLists(x) = y
  BY DEF MigratedLists
<1> HIDE DEF n
<1>4. /\ IsFunction(y) /\ DOMAIN y = DOMAIN x \cup DOMAIN n
      /\ \A f \in DOMAIN n : y[f] = n[f]
      /\ \A f \in DOMAIN x \ DOMAIN n : y[f] = x[f]
  BY SpreadFields
<1> HIDE DEF y
<1>5. DOMAIN y = DOMAIN x /\ \A f \in DOMAIN x : y[f] = x[f]
  BY <1>2, <1>4 DEF ListsSettled
<1> QED
  BY <1>3, <1>4, <1>5, FunctionsEqual DEF ListsSettled

\* The effects of a modifier are set once.
LEMMA ModifierSettles ==
  ASSUME NEW m, Has(m, "id")
  PROVE  MigratedModifier(MigratedModifier(m)) = MigratedModifier(m)
<1>1. CASE m.id \in DOMAIN CanonicalEffects
  <2> DEFINE d == [consumptionEffects |-> CanonicalEffects[m.id]]
             y == Spread(d, m)
             z == Spread(d, y)
  <2>1. MigratedModifier(m) = y
    BY <1>1 DEF MigratedModifier
  <2>5. y.id = m.id => MigratedModifier(y) = z
    BY <1>1 DEF MigratedModifier
  <2> HIDE DEF d
  <2>2. /\ IsFunction(y) /\ DOMAIN y = DOMAIN d \cup DOMAIN m
        /\ \A f \in DOMAIN m : y[f] = m[f]
    BY SpreadFields
  <2> HIDE DEF y
  <2>3. /\ IsFunction(z) /\ DOMAIN z = DOMAIN d \cup DOMAIN y
        /\ \A f \in DOMAIN y : z[f] = y[f]
    BY SpreadFields
  <2>4. y.id = m.id
    BY <2>2 DEF Has
  <2>6. z = y
    <3> HIDE DEF z
    <3>1. DOMAIN z = DOMAIN y
      BY <2>2, <2>3
    <3> QED
      BY <2>2, <2>3, <3>1, FunctionsEqual
  <2> QED
    BY <2>1, <2>4, <2>5, <2>6
<1>2. CASE m.id \notin DOMAIN CanonicalEffects
  BY <1>2 DEF MigratedModifier
<1> QED
  BY <1>1, <1>2

\* The first step of a reading leaves nothing for a second.
LEMMA ListsOnce ==
  ASSUME NEW s, IsConfiguration(s)
  PROVE  /\ ListsSettled(MigratedLists(s))
         /\ Grown(s, MigratedLists(s), {"recipes", "ingredients", "modifiers"})
         /\ DOMAIN MigratedLists(s) = DOMAIN s \cup {"recipes", "ingredients"}
<1> DEFINE R == [k \in DOMAIN ListOf(s, "recipes") |-> MigratedRecipe(s.recipes[k], s.menuItems)]
           I == [k \in DOMAIN ListOf(s, "ingredients") |->
                   MigratedIngredient(s.ingredients[k], s.units)]
           M == IF Seeded(s) THEN [k \in DOMAIN s.modifiers |-> MigratedModifier(s.modifiers[k])]
                ELSE s.modifiers
           n == [recipes |-> R, ingredients |-> I, modifiers |-> M]
           l == Spread(s, n)
<1>1. MigratedLists(s) = l
  BY DEF MigratedLists
<1>3. /\ DOMAIN n = {"recipes", "ingredients", "modifiers"}
      /\ n.recipes = R /\ n.ingredients = I /\ n.modifiers = M
  OBVIOUS
<1>2. /\ IsFunction(l) /\ DOMAIN l = DOMAIN s \cup DOMAIN n
      /\ \A f \in DOMAIN n : l[f] = n[f]
      /\ \A f \in DOMAIN s \ DOMAIN n : l[f] = s[f]
  <2> HIDE DEF n
  <2> QED
    BY SpreadFields
<1>4. R = [k \in DOMAIN R |-> MigratedRecipe(R[k], s.menuItems)]
  <2>1. ASSUME NEW k \in DOMAIN R
        PROVE  MigratedRecipe(R[k], s.menuItems) = R[k]
    <3>1. IsRecipe(s.recipes[k]) /\ R[k] = MigratedRecipe(s.recipes[k], s.menuItems)
      BY <2>1 DEF IsConfiguration
    <3> HIDE DEF R
    <3> QED
      BY <3>1, RecipesSettle
  <2>2. R = [k \in DOMAIN R |-> R[k]]
    OBVIOUS
  <2> HIDE DEF R
  <2> QED
    BY <2>1, <2>2
<1>5. I = [k \in DOMAIN I |-> MigratedIngredient(I[k], s.units)]
  <2>1. ASSUME NEW k \in DOMAIN I
        PROVE  MigratedIngredient(I[k], s.units) = I[k]
    <3> DEFINE i == s.ingredients[k]
    <3>1. IsIngredient(i) /\ I[k] = MigratedIngredient(i, s.units)
      BY <2>1 DEF IsConfiguration
    <3> HIDE DEF I, i
    <3>2. CASE Complete(i)
      BY <3>1, <3>2 DEF MigratedIngredient
    <3>3. CASE Has(i, "baseUnitId") /\ Has(i, "conversionRate")
      BY <3>1, <3>3, IngredientsSettle
    <3> QED
      BY <3>1, <3>2, <3>3 DEF IsIngredient
  <2>2. I = [k \in DOMAIN I |-> I[k]]
    OBVIOUS
  <2> HIDE DEF I
  <2> QED
    BY <2>1, <2>2
<1>6. Seeded(s) => M = [k \in DOMAIN M |-> MigratedModifier(M[k])]
  <2> SUFFICES ASSUME Seeded(s) PROVE M = [k \in DOMAIN M |-> MigratedModifier(M[k])]
    OBVIOUS
  <2>1. ASSUME NEW k \in DOMAIN M
        PROVE  MigratedModifier(M[k]) = M[k]
    <3>1. Has(s.modifiers[k], "id") /\ M[k] = MigratedModifier(s.modifiers[k])
      BY <2>1 DEF IsConfiguration
    <3> HIDE DEF M
    <3> QED
      BY <3>1, ModifierSettles
  <2>2. M = [k \in DOMAIN M |-> M[k]]
    OBVIOUS
  <2> HIDE DEF M
  <2> QED
    BY <2>1, <2>2
<1> HIDE DEF R, I, M, n, l
<1>7. /\ l.recipes = R /\ l.ingredients = I /\ l.modifiers = M
      /\ l.menuItems = s.menuItems /\ l.units = s.units
      /\ DOMAIN l = DOMAIN s \cup {"recipes", "ingredients"}
      /\ {"recipes", "ingredients", "modifiers", "menuItems", "units", "project"} \subseteq DOMAIN l
  BY <1>2, <1>3 DEF IsConfiguration
<1>8. Seeded(l) => Seeded(s)
  BY <1>2, <1>3 DEF Seeded, Has
<1>9. ListsSettled(l)
  BY <1>2, <1>4, <1>5, <1>6, <1>7, <1>8 DEF ListsSettled
<1>10. Grown(s, l, {"recipes", "ingredients", "modifiers"})
  BY <1>2, <1>3 DEF Grown
<1> QED
  BY <1>1, <1>7, <1>9, <1>10

\* A step that leaves the lists alone and does not mark the project leaves them settled.
LEMMA SettledOn ==
  ASSUME NEW x, ListsSettled(x), NEW y, Grown(x, y, PlanFields), Seeded(y) => Seeded(x)
  PROVE  ListsSettled(y)
<1>1. /\ y.recipes = x.recipes /\ y.ingredients = x.ingredients /\ y.modifiers = x.modifiers
      /\ y.menuItems = x.menuItems /\ y.units = x.units
      /\ {"recipes", "ingredients", "modifiers", "menuItems", "units", "project"} \subseteq DOMAIN y
  BY DEF ListsSettled, Grown, PlanFields
<1> QED
  BY <1>1 DEF ListsSettled, Grown

LEMMA MissingOn ==
  ASSUME SeedIsSpecial, NEW x, ListsSettled(x), NEW f
  PROVE  ListsSettled(Missing(x, f))
<1> DEFINE y == Missing(x, f)
<1>1. /\ DOMAIN y = DOMAIN x \cup {f} /\ \A g \in DOMAIN x : y[g] = x[g]
      /\ f \notin DOMAIN x => y[f] = Defaults[f]
  BY MissingFields
<1>2. Grown(x, y, PlanFields)
  BY MissingGrown
<1> HIDE DEF y
<1>3. Seeded(y) => Seeded(x)
  BY <1>1 DEF Seeded, Has, SeedIsSpecial
<1>4. ListsSettled(y)
  BY <1>2, <1>3, SettledOn
<1> QED
  BY <1>4 DEF y

-----------------------------------------------------------------------------
(* The steps of a reading, by name.                                         *)

SettingsOf(s) == Missing(MigratedLists(s), "settings")
HoursOf(s) == Missing(SettingsOf(s), "operatingHours")
BalancesOf(s) == Missing(HoursOf(s), "openingStockBalances")
PlanOf(s) == WithPlan(BalancesOf(s))
SeedOf(s) == WithSeedPlan(PlanOf(s))
MarkOf(s) == Missing(SeedOf(s), "developmentSeedId")
StructureOf(s) == Missing(MarkOf(s), "solutionStructure")

ResultAt(s, k) == Steps(s)[k].result
WritesAt(s, k) == Steps(s)[k].writes

LEMMA StepsNamed ==
  ASSUME NEW s
  PROVE  /\ ResultAt(s, 1) = s
         /\ ResultAt(s, 2) = MigratedLists(s)
         /\ ResultAt(s, 3) = SettingsOf(s)
         /\ ResultAt(s, 4) = HoursOf(s)
         /\ ResultAt(s, 5) = PlanOf(s)
         /\ ResultAt(s, 6) = SeedOf(s)
         /\ ResultAt(s, 7) = StructureOf(s)
         /\ WritesAt(s, 1)
         /\ WritesAt(s, 3) <=> ~Has(s, "settings")
         /\ WritesAt(s, 4) <=> ~Has(s, "operatingHours")
         /\ WritesAt(s, 5) <=> ~Has(s, "tables") \/ ~Has(s, "floorPlanZones")
         /\ WritesAt(s, 6) <=> LacksSeedPlan(PlanOf(s))
         /\ WritesAt(s, 7) <=> ~Has(s, "solutionStructure")
BY DEF Steps, ResultAt, WritesAt, SettingsOf, HoursOf, BalancesOf, PlanOf, SeedOf, MarkOf,
       StructureOf

IsLast(s, k) == k \in 1 .. 7 /\ WritesAt(s, k) /\ \A j \in k + 1 .. 7 : ~WritesAt(s, j)

\* There is one step that writes last.
LEMMA LastStep ==
  ASSUME NEW s
  PROVE  /\ \E k : IsLast(s, k)
         /\ \A k : IsLast(s, k) => Stored(s) = ResultAt(s, k)
<1>1. \E k : IsLast(s, k)
  <2>1. WritesAt(s, 1)
    BY StepsNamed
  <2>2. CASE WritesAt(s, 7)
    BY <2>2, SMT DEF IsLast
  <2>3. CASE ~WritesAt(s, 7) /\ WritesAt(s, 6)
    BY <2>3, SMT DEF IsLast
  <2>4. CASE ~WritesAt(s, 7) /\ ~WritesAt(s, 6) /\ WritesAt(s, 5)
    BY <2>4, SMT DEF IsLast
  <2>5. CASE ~WritesAt(s, 7) /\ ~WritesAt(s, 6) /\ ~WritesAt(s, 5) /\ WritesAt(s, 4)
    BY <2>5, SMT DEF IsLast
  <2>6. CASE ~WritesAt(s, 7) /\ ~WritesAt(s, 6) /\ ~WritesAt(s, 5) /\ ~WritesAt(s, 4)
             /\ WritesAt(s, 3)
    BY <2>6, SMT DEF IsLast
  <2>7. CASE ~WritesAt(s, 7) /\ ~WritesAt(s, 6) /\ ~WritesAt(s, 5) /\ ~WritesAt(s, 4)
             /\ ~WritesAt(s, 3) /\ WritesAt(s, 2)
    BY <2>7, SMT DEF IsLast
  <2>8. CASE ~WritesAt(s, 7) /\ ~WritesAt(s, 6) /\ ~WritesAt(s, 5) /\ ~WritesAt(s, 4)
             /\ ~WritesAt(s, 3) /\ ~WritesAt(s, 2)
    BY <2>1, <2>8, SMT DEF IsLast
  <2> QED
    BY <2>2, <2>3, <2>4, <2>5, <2>6, <2>7, <2>8
<1>2. ASSUME NEW k, IsLast(s, k)
      PROVE  Stored(s) = ResultAt(s, k)
  <2> DEFINE last == CHOOSE i \in 1 .. 7 : WritesAt(s, i) /\ \A j \in i + 1 .. 7 : ~WritesAt(s, j)
  <2>1. Stored(s) = ResultAt(s, last)
    BY DEF Stored, ResultAt, WritesAt
  <2>2. last \in 1 .. 7 /\ WritesAt(s, last) /\ \A j \in last + 1 .. 7 : ~WritesAt(s, j)
    BY <1>2 DEF IsLast
  <2> HIDE DEF last
  <2>3. last = k
    BY <1>2, <2>2 DEF IsLast
  <2> QED
    BY <2>1, <2>3
<1> QED
  BY <1>1, <1>2

\* What a reading goes through: the lists are settled from the second step on, nothing is
\* dropped, and each step adds what it is about.
LEMMA Chain ==
  ASSUME NEW s, IsConfiguration(s), SeedIsSpecial
  PROVE  /\ ListsSettled(MigratedLists(s)) /\ ListsSettled(SettingsOf(s)) /\ ListsSettled(HoursOf(s))
         /\ ListsSettled(PlanOf(s)) /\ ListsSettled(SeedOf(s)) /\ ListsSettled(StructureOf(s))
         /\ DOMAIN MigratedLists(s) = DOMAIN s \cup {"recipes", "ingredients"}
         /\ DOMAIN SettingsOf(s) = DOMAIN MigratedLists(s) \cup {"settings"}
         /\ DOMAIN HoursOf(s) = DOMAIN SettingsOf(s) \cup {"operatingHours"}
         /\ DOMAIN PlanOf(s) = DOMAIN HoursOf(s) \cup {"openingStockBalances"} \cup PlanFields
         /\ DOMAIN SeedOf(s) = DOMAIN PlanOf(s)
         /\ DOMAIN StructureOf(s) = DOMAIN SeedOf(s) \cup {"developmentSeedId", "solutionStructure"}
         /\ ~LacksSeedPlan(SeedOf(s)) /\ ~LacksSeedPlan(StructureOf(s))
<1>1. ListsSettled(MigratedLists(s)) /\ DOMAIN MigratedLists(s) = DOMAIN s \cup {"recipes", "ingredients"}
  BY ListsOnce
<1>2. ListsSettled(SettingsOf(s)) /\ DOMAIN SettingsOf(s) = DOMAIN MigratedLists(s) \cup {"settings"}
  BY <1>1, MissingOn, MissingFields DEF SettingsOf
<1>3. ListsSettled(HoursOf(s)) /\ DOMAIN HoursOf(s) = DOMAIN SettingsOf(s) \cup {"operatingHours"}
  BY <1>2, MissingOn, MissingFields DEF HoursOf
<1>4. /\ ListsSettled(BalancesOf(s))
      /\ DOMAIN BalancesOf(s) = DOMAIN HoursOf(s) \cup {"openingStockBalances"}
  BY <1>3, MissingOn, MissingFields DEF BalancesOf
<1>5. /\ ListsSettled(PlanOf(s))
      /\ DOMAIN PlanOf(s) = DOMAIN HoursOf(s) \cup {"openingStockBalances"} \cup PlanFields
  <2> DEFINE x == BalancesOf(s)
             y == WithPlan(x)
  <2>1. IsFunction(x)
    BY <1>4 DEF ListsSettled
  <2>2. Grown(x, y, PlanFields) /\ DOMAIN y = DOMAIN x \cup PlanFields
    BY <2>1, PlanStep
  <2> HIDE DEF y
  <2>3. Seeded(y) => Seeded(x)
    BY <2>2 DEF Seeded, Has, Grown, PlanFields
  <2>4. ListsSettled(y)
    BY <1>4, <2>2, <2>3, SettledOn
  <2> QED
    BY <1>4, <2>2, <2>4 DEF PlanOf, y
<1>6. ListsSettled(SeedOf(s)) /\ DOMAIN SeedOf(s) = DOMAIN PlanOf(s) /\ ~LacksSeedPlan(SeedOf(s))
  <2> DEFINE x == PlanOf(s)
             y == WithSeedPlan(x)
  <2>1. IsFunction(x) /\ "project" \in DOMAIN x /\ PlanFields \subseteq DOMAIN x
    BY <1>5 DEF ListsSettled
  <2> HIDE DEF x
  <2>2. Grown(x, y, PlanFields) /\ DOMAIN y = DOMAIN x /\ ~LacksSeedPlan(y)
    BY <2>1, SeedStep
  <2> HIDE DEF y
  <2>3. Seeded(y) => Seeded(x)
    BY <2>2 DEF Seeded, Has, Grown, PlanFields
  <2>4. ListsSettled(y)
    BY <1>5, <2>2, <2>3, SettledOn DEF x
  <2> QED
    BY <2>2, <2>4 DEF SeedOf, y, x
<1>7. ListsSettled(MarkOf(s)) /\ DOMAIN MarkOf(s) = DOMAIN SeedOf(s) \cup {"developmentSeedId"}
  BY <1>6, MissingOn, MissingFields DEF MarkOf
<1>8. /\ ListsSettled(StructureOf(s))
      /\ DOMAIN StructureOf(s) = DOMAIN SeedOf(s) \cup {"developmentSeedId", "solutionStructure"}
  <2>1. ListsSettled(StructureOf(s))
    BY <1>7, MissingOn DEF StructureOf
  <2>2. DOMAIN StructureOf(s) = DOMAIN MarkOf(s) \cup {"solutionStructure"}
    BY MissingFields DEF StructureOf
  <2> QED
    BY <1>7, <2>1, <2>2
<1>9. ~LacksSeedPlan(StructureOf(s))
  <2>1. {"project", "tables", "floorPlanZones"} \subseteq DOMAIN SeedOf(s)
    BY <1>5, <1>6 DEF PlanFields, ListsSettled
  <2>2. \A g \in DOMAIN SeedOf(s) : MarkOf(s)[g] = SeedOf(s)[g]
    BY MissingFields DEF MarkOf
  <2>3. \A g \in DOMAIN MarkOf(s) : StructureOf(s)[g] = MarkOf(s)[g]
    BY MissingFields DEF StructureOf
  <2> QED
    BY <1>6, <1>7, <2>1, <2>2, <2>3 DEF LacksSeedPlan
<1> QED
  BY <1>1, <1>2, <1>3, <1>5, <1>6, <1>8, <1>9

\* The fields there are after each step.
LEMMA Fields ==
  ASSUME NEW s, IsConfiguration(s), SeedIsSpecial
  PROVE  /\ DOMAIN SettingsOf(s) = DOMAIN s \cup {"recipes", "ingredients", "settings"}
         /\ DOMAIN HoursOf(s) = DOMAIN s \cup {"recipes", "ingredients", "settings", "operatingHours"}
         /\ DOMAIN SeedOf(s) = DOMAIN PlanOf(s)
         /\ DOMAIN PlanOf(s) = DOMAIN s \cup {"recipes", "ingredients", "settings", "operatingHours",
                                              "openingStockBalances"} \cup PlanFields
         /\ DOMAIN StructureOf(s) = DOMAIN s \cup {"recipes", "ingredients", "settings",
                                                   "operatingHours", "openingStockBalances",
                                                   "developmentSeedId", "solutionStructure"}
                                             \cup PlanFields
<1>1. /\ DOMAIN MigratedLists(s) = DOMAIN s \cup {"recipes", "ingredients"}
      /\ DOMAIN SettingsOf(s) = DOMAIN MigratedLists(s) \cup {"settings"}
      /\ DOMAIN HoursOf(s) = DOMAIN SettingsOf(s) \cup {"operatingHours"}
      /\ DOMAIN PlanOf(s) = DOMAIN HoursOf(s) \cup {"openingStockBalances"} \cup PlanFields
      /\ DOMAIN SeedOf(s) = DOMAIN PlanOf(s)
      /\ DOMAIN StructureOf(s) = DOMAIN SeedOf(s) \cup {"developmentSeedId", "solutionStructure"}
  BY Chain
<1> QED
  BY <1>1

\* What a step has left goes through the steps before it as it is.
LEMMA FirstStepsStay ==
  ASSUME NEW t, ListsSettled(t)
  PROVE  /\ MigratedLists(t) = t
         /\ "settings" \in DOMAIN t => SettingsOf(t) = t
         /\ {"settings", "operatingHours"} \subseteq DOMAIN t => HoursOf(t) = t
         /\ {"settings", "operatingHours", "openingStockBalances"} \cup PlanFields \subseteq DOMAIN t
              => PlanOf(t) = t
<1>1. MigratedLists(t) = t
  BY SettledListsStay
<1>2. ASSUME "settings" \in DOMAIN t
      PROVE  SettingsOf(t) = t
  <2>1. Missing(t, "settings") = t
    <3>1. IsFunction(t) /\ Has(t, "settings")
      BY <1>2 DEF ListsSettled, Has
    <3> QED
      BY <3>1, MissingFields
  <2> QED
    BY <1>1, <2>1 DEF SettingsOf
<1>3. ASSUME {"settings", "operatingHours"} \subseteq DOMAIN t
      PROVE  HoursOf(t) = t
  <2>1. "settings" \in DOMAIN t /\ "operatingHours" \in DOMAIN t
    BY <1>3
  <2>2. Missing(t, "operatingHours") = t
    <3>1. IsFunction(t) /\ Has(t, "operatingHours")
      BY <2>1 DEF ListsSettled, Has
    <3> QED
      BY <3>1, MissingFields
  <2> QED
    BY <1>2, <2>1, <2>2 DEF HoursOf
<1>4. ASSUME {"settings", "operatingHours", "openingStockBalances"} \cup PlanFields \subseteq DOMAIN t
      PROVE  PlanOf(t) = t
  <2>1. BalancesOf(t) = t
    <3>1. "openingStockBalances" \in DOMAIN t /\ {"settings", "operatingHours"} \subseteq DOMAIN t
      BY <1>4
    <3>2. Missing(t, "openingStockBalances") = t
      <4>1. IsFunction(t) /\ Has(t, "openingStockBalances")
        BY <3>1 DEF ListsSettled, Has
      <4> QED
        BY <4>1, MissingFields
    <3> QED
      BY <1>3, <3>1, <3>2 DEF BalancesOf
  <2>2. IsFunction(t) /\ Has(t, "tables") /\ Has(t, "floorPlanZones")
    BY <1>4 DEF ListsSettled, Has, PlanFields
  <2> QED
    BY <2>1, <2>2, PlanStep DEF PlanOf
<1> QED
  BY <1>1, <1>2, <1>3, <1>4

\* A second reading of what a step has left gives that up to the step, and what the first gave
\* after it; the steps after it write if they did.
Repeats(s, j) ==
  LET t == ResultAt(s, j) IN
  /\ \A k \in 1 .. j : ResultAt(t, k) = t
  /\ \A k \in j + 1 .. 7 : ResultAt(t, k) = ResultAt(s, k) /\ (WritesAt(t, k) <=> WritesAt(s, k))

LEMMA Again ==
  ASSUME NEW s, IsConfiguration(s), SeedIsSpecial, NEW j \in 2 .. 7
  PROVE  Repeats(s, j)
<1>1. CASE j = 2
  <2> DEFINE t == MigratedLists(s)
  <2>1. ResultAt(s, j) = t /\ MigratedLists(t) = t
    BY <1>1, StepsNamed, Chain, FirstStepsStay
  <2>2. /\ SettingsOf(t) = SettingsOf(s) /\ HoursOf(t) = HoursOf(s) /\ BalancesOf(t) = BalancesOf(s)
        /\ PlanOf(t) = PlanOf(s) /\ SeedOf(t) = SeedOf(s) /\ StructureOf(t) = StructureOf(s)
    BY <2>1 DEF SettingsOf, HoursOf, BalancesOf, PlanOf, SeedOf, MarkOf, StructureOf
  <2>3. DOMAIN t = DOMAIN s \cup {"recipes", "ingredients"}
    BY Chain
  <2> HIDE DEF t
  <2> QED
    BY <1>1, <2>1, <2>2, <2>3, StepsNamed, SMT DEF Repeats, Has
<1>2. CASE j = 3
  <2> DEFINE t == SettingsOf(s)
  <2>1. ResultAt(s, j) = t /\ ListsSettled(t)
        /\ DOMAIN t = DOMAIN s \cup {"recipes", "ingredients", "settings"}
    <3>1. ResultAt(s, j) = t
      BY <1>2, StepsNamed
    <3>2. ListsSettled(t)
      BY Chain
    <3>3. DOMAIN t = DOMAIN s \cup {"recipes", "ingredients", "settings"}
      BY Fields
    <3> QED
      BY <3>1, <3>2, <3>3
  <2>2. MigratedLists(t) = t /\ SettingsOf(t) = t
    BY <2>1, FirstStepsStay
  <2>3. /\ HoursOf(t) = HoursOf(s) /\ PlanOf(t) = PlanOf(s) /\ SeedOf(t) = SeedOf(s)
        /\ StructureOf(t) = StructureOf(s)
    BY <2>2 DEF HoursOf, BalancesOf, PlanOf, SeedOf, MarkOf, StructureOf
  <2> HIDE DEF t
  <2> QED
    BY <1>2, <2>1, <2>2, <2>3, StepsNamed, SMT DEF Repeats, Has
<1>3. CASE j = 4
  <2> DEFINE t == HoursOf(s)
  <2>1. ResultAt(s, j) = t /\ ListsSettled(t)
        /\ DOMAIN t = DOMAIN s \cup {"recipes", "ingredients", "settings", "operatingHours"}
    <3>1. ResultAt(s, j) = t
      BY <1>3, StepsNamed
    <3>2. ListsSettled(t)
      BY Chain
    <3>3. DOMAIN t = DOMAIN s \cup {"recipes", "ingredients", "settings", "operatingHours"}
      BY Fields
    <3> QED
      BY <3>1, <3>2, <3>3
  <2>2. MigratedLists(t) = t /\ SettingsOf(t) = t /\ HoursOf(t) = t
    BY <2>1, FirstStepsStay
  <2>3. PlanOf(t) = PlanOf(s) /\ SeedOf(t) = SeedOf(s) /\ StructureOf(t) = StructureOf(s)
    BY <2>2 DEF BalancesOf, PlanOf, SeedOf, MarkOf, StructureOf
  <2> HIDE DEF t
  <2> QED
    BY <1>3, <2>1, <2>2, <2>3, StepsNamed, SMT DEF Repeats, Has
<1>4. CASE j = 5
  <2> DEFINE t == PlanOf(s)
  <2>1. ResultAt(s, j) = t /\ ListsSettled(t)
        /\ DOMAIN t = DOMAIN s \cup {"recipes", "ingredients", "settings", "operatingHours",
                                     "openingStockBalances"} \cup PlanFields
    <3>1. ResultAt(s, j) = t
      BY <1>4, StepsNamed
    <3>2. ListsSettled(t)
      BY Chain
    <3>3. DOMAIN t = DOMAIN s \cup {"recipes", "ingredients", "settings", "operatingHours",
                     "openingStockBalances"} \cup PlanFields
      BY Fields
    <3> QED
      BY <3>1, <3>2, <3>3
  <2>2. MigratedLists(t) = t /\ SettingsOf(t) = t /\ HoursOf(t) = t /\ PlanOf(t) = t
    BY <2>1, FirstStepsStay
  <2>3. SeedOf(t) = SeedOf(s) /\ StructureOf(t) = StructureOf(s)
    BY <2>2 DEF SeedOf, MarkOf, StructureOf
  <2> HIDE DEF t
  <2> QED
    BY <1>4, <2>1, <2>2, <2>3, StepsNamed, SMT DEF Repeats, Has, PlanFields
<1>5. CASE j = 6
  <2> DEFINE t == SeedOf(s)
  <2>1. ResultAt(s, j) = t /\ ListsSettled(t) /\ ~LacksSeedPlan(t)
        /\ DOMAIN t = DOMAIN s \cup {"recipes", "ingredients", "settings", "operatingHours",
                                     "openingStockBalances"} \cup PlanFields
    <3>1. ResultAt(s, j) = t
      BY <1>5, StepsNamed
    <3>2. ListsSettled(t) /\ ~LacksSeedPlan(t)
      BY Chain
    <3>3. DOMAIN t = DOMAIN s \cup {"recipes", "ingredients", "settings", "operatingHours",
                     "openingStockBalances"} \cup PlanFields
      BY Fields
    <3> QED
      BY <3>1, <3>2, <3>3
  <2>2. MigratedLists(t) = t /\ SettingsOf(t) = t /\ HoursOf(t) = t /\ PlanOf(t) = t
    BY <2>1, FirstStepsStay
  <2>3. SeedOf(t) = t
    BY <2>1, <2>2 DEF SeedOf, WithSeedPlan
  <2>4. StructureOf(t) = StructureOf(s)
    BY <2>3 DEF MarkOf, StructureOf
  <2> HIDE DEF t
  <2> QED
    BY <1>5, <2>1, <2>2, <2>3, <2>4, StepsNamed, SMT DEF Repeats, Has, PlanFields
<1>6. CASE j = 7
  <2> DEFINE t == StructureOf(s)
  <2>1. ResultAt(s, j) = t /\ ListsSettled(t) /\ ~LacksSeedPlan(t)
        /\ DOMAIN t = DOMAIN s \cup {"recipes", "ingredients", "settings", "operatingHours",
                                     "openingStockBalances", "developmentSeedId",
                                     "solutionStructure"} \cup PlanFields
    <3>1. ResultAt(s, j) = t
      BY <1>6, StepsNamed
    <3>2. ListsSettled(t) /\ ~LacksSeedPlan(t)
      BY Chain
    <3>3. DOMAIN t = DOMAIN s \cup {"recipes", "ingredients", "settings", "operatingHours",
                     "openingStockBalances", "developmentSeedId",
                     "solutionStructure"} \cup PlanFields
      BY Fields
    <3> QED
      BY <3>1, <3>2, <3>3
  <2>2. MigratedLists(t) = t /\ SettingsOf(t) = t /\ HoursOf(t) = t /\ PlanOf(t) = t
    BY <2>1, FirstStepsStay
  <2>3. SeedOf(t) = t
    BY <2>1, <2>2 DEF SeedOf, WithSeedPlan
  <2>4. StructureOf(t) = t
    <3>1. IsFunction(t) /\ Has(t, "developmentSeedId") /\ Has(t, "solutionStructure")
      BY <2>1 DEF ListsSettled, Has
    <3>2. Missing(t, "developmentSeedId") = t /\ Missing(t, "solutionStructure") = t
      BY <3>1, MissingFields
    <3> QED
      BY <2>3, <3>2 DEF MarkOf, StructureOf
  <2> HIDE DEF t
  <2> QED
    BY <1>6, <2>1, <2>2, <2>3, <2>4, StepsNamed, SMT DEF Repeats
<1> QED
  BY <1>1, <1>2, <1>3, <1>4, <1>5, <1>6

\* A second reading of a whole configuration, of whatever version, shows what the first showed
\* and leaves the store as the first left it, whichever of its steps have written (readSnapshot).
THEOREM ReadingsSettle ==
  ASSUME NEW s, IsConfiguration(s), SeedIsSpecial
  PROVE  Stored(Stored(s)) = Stored(s) /\ Shown(Stored(s)) = Shown(s)
<1>1. PICK j : IsLast(s, j)
  BY LastStep
<1>2. j \in 1 .. 7 /\ WritesAt(s, j) /\ \A k \in j + 1 .. 7 : ~WritesAt(s, k)
  BY <1>1 DEF IsLast
<1> DEFINE t == Stored(s)
<1>3. t = ResultAt(s, j)
  BY <1>1, LastStep
<1> HIDE DEF t
<1>4. CASE j = 1
  BY <1>3, <1>4, StepsNamed DEF t
<1>5. CASE j \in 2 .. 7
  <2>1. /\ \A k \in 1 .. j : ResultAt(t, k) = t
        /\ \A k \in j + 1 .. 7 :
             ResultAt(t, k) = ResultAt(s, k) /\ (WritesAt(t, k) <=> WritesAt(s, k))
    BY <1>3, <1>5, Again DEF Repeats
  <2>2. PICK i : IsLast(t, i)
    BY LastStep
  <2>3. i \in 1 .. j
    BY <1>2, <2>1, <2>2 DEF IsLast
  <2>4. Stored(t) = t
    BY <2>1, <2>2, <2>3, LastStep
  <2>5. ResultAt(t, 7) = ResultAt(s, 7)
    BY <1>3, <1>5, <2>1
  <2>6. Shown(t) = Shown(s)
    BY <2>5 DEF Shown, ResultAt
  <2> QED
    BY <2>4, <2>6 DEF t
<1> QED
  BY <1>2, <1>4, <1>5

-----------------------------------------------------------------------------
(* Tables.                                                                  *)

Placeless(t) == DOMAIN t \cap {"positionX", "positionY", "width", "height"} = {}

\* Tables without places of their own are set out apart; the first twelve are within the
\* canvas of their zone, the others below it, where no table may be saved (readSnapshot).
LEMMA PlacelessPlace ==
  ASSUME NEW t, Placeless(t), NEW location, NEW index \in Nat
  PROVE  LET p == LegacyTable(t, index, location) IN
         /\ p.positionX = 40 + (index % 4) * 175 /\ p.positionY = 40 + (index \div 4) * 140
         /\ p.width = 100 /\ p.height = 100
<1> DEFINE x == 40 + (index % 4) * 175
           y == 40 + (index \div 4) * 140
           a == [positionX |-> x, positionY |-> y, width |-> 100, height |-> 100]
           b == [locationId |-> location, zoneId |-> LegacyZone(location).id]
           p == LegacyTable(t, index, location)
<1>1. p = Spread(Spread(a, b), t)
  BY DEF LegacyTable, LegacyPlace
<1>2. /\ DOMAIN a = {"positionX", "positionY", "width", "height"}
      /\ DOMAIN b = {"locationId", "zoneId"}
      /\ a.positionX = x /\ a.positionY = y /\ a.width = 100 /\ a.height = 100
  OBVIOUS
<1> HIDE DEF a, b, x, y, p
<1>3. \A f \in DOMAIN a : Spread(a, b)[f] = a[f] /\ f \in DOMAIN Spread(a, b)
  BY <1>2 DEF Spread
<1>4. \A f \in DOMAIN a : p[f] = Spread(a, b)[f]
  <2>1. \A f \in DOMAIN a : f \notin DOMAIN t
    BY <1>2 DEF Placeless
  <2> QED
    BY <2>1, <1>1, <1>3 DEF Spread
<1> QED
  BY <1>2, <1>3, <1>4 DEF x, y, p

\* Tables without a place of their own are within the canvas of their zone if they are among
\* the first twelve; the others are below it, where no table may be saved (readSnapshot).
THEOREM LegacyTablesFit ==
  ASSUME NEW t, Placeless(t), NEW location, NEW index \in Nat
  PROVE  WithinCanvas(LegacyTable(t, index, location), LegacyZone(location)) <=> index < 12
<1> DEFINE p == LegacyTable(t, index, location)
           z == LegacyZone(location)
<1>1. /\ p.positionX = 40 + (index % 4) * 175 /\ p.positionY = 40 + (index \div 4) * 140
      /\ p.width = 100 /\ p.height = 100
  BY PlacelessPlace
<1>2. z.canvasWidth = 800 /\ z.canvasHeight = 500
  BY DEF LegacyZone
<1>3. index % 4 \in 0 .. 3 /\ index \div 4 \in Nat
  OBVIOUS
<1>4. index \div 4 < 3 <=> index < 12
  OBVIOUS
<1> HIDE DEF p, z
<1>5. WithinCanvas(p, z) <=> index \div 4 < 3
  BY <1>1, <1>2, <1>3 DEF WithinCanvas
<1> QED
  BY <1>4, <1>5 DEF p, z

\* No two of them overlap, however many there are (readSnapshot).
THEOREM LegacyTablesApart ==
  ASSUME NEW t, NEW u, Placeless(t), Placeless(u), NEW location,
         NEW i \in Nat, NEW j \in Nat, i # j
  PROVE  ~Overlap(LegacyTable(t, i, location), LegacyTable(u, j, location))
<1> DEFINE p == LegacyTable(t, i, location)
           q == LegacyTable(u, j, location)
<1>1. /\ p.positionX = 40 + (i % 4) * 175 /\ p.positionY = 40 + (i \div 4) * 140
      /\ p.width = 100 /\ p.height = 100
  BY PlacelessPlace
<1>2. /\ q.positionX = 40 + (j % 4) * 175 /\ q.positionY = 40 + (j \div 4) * 140
      /\ q.width = 100 /\ q.height = 100
  BY PlacelessPlace
<1>3. /\ i % 4 \in Int /\ j % 4 \in Int /\ i \div 4 \in Int /\ j \div 4 \in Int
      /\ i % 4 # j % 4 \/ i \div 4 # j \div 4
  OBVIOUS
<1> HIDE DEF p, q
<1>4. ~Overlap(p, q)
  BY <1>1, <1>2, <1>3 DEF Overlap
<1> QED
  BY <1>4 DEF p, q

-----------------------------------------------------------------------------
(* The images of the menu.                                                  *)

\* The assumptions of the model on its constants.
LegaciesDiffer ==
  /\ LegacyAsset \in [Item -> Asset]
  /\ \A i, j \in Item : LegacyAsset[i] = LegacyAsset[j] => i = j
  /\ None \notin Item \cup Asset

Image == Asset \cup {None}

OperationType ==
  [kind : {"none", "create", "submit", "toggle", "duplicate", "delete", "load"},
   stage : {"none", "list", "write", "load", "show"},
   item : Item \cup {None}, image : Image, shown : Image, previous : Image,
   clone : ItemsType, migrated : BOOLEAN]

\* What an operation is at each stage.
Proceeds(op) ==
  /\ op.stage = "none" \/ op.kind = "none" => op = Idle
  /\ op.kind \notin {"none", "load"} => op.item \in Item
  /\ op.stage = "list" => op.kind \in {"submit", "toggle", "delete"}
  /\ op.stage = "write" => op.kind # "load"

StoredItems(s) ==
  \A i \in Item : (~s[i].here => s[i] = Absent) /\ (s[i].legacy => s[i].image = None)

ImagesTyped ==
  /\ ImagesTypeOK
  /\ \A o \in Operation : ops[o] \in OperationType /\ Proceeds(ops[o])
  /\ DOMAIN ops = Operation
  /\ StoredItems(items)
  /\ ~itemForm.open => itemForm = NoItemForm

\* The assets that are looked for, and those the first versions' images may become.
Looked == {c.asset : c \in checks}
Legacies == {LegacyAsset[i] : i \in Item}

\* The tab has loaded nothing yet, or knows the items as they are, but for what its operation
\* changes.
ViewInv(op) ==
  /\ op.stage \in {"none", "list", "write"} => loaded = items \/ loaded = [i \in Item |-> Absent]
  /\ op.stage \in {"list", "write"} /\ op.kind # "create" => loaded = items
  /\ op.kind # "submit" =>
       \A i \in Item : loaded[i].here /\ items[i].here /\ loaded[i].image # None =>
         loaded[i].image = items[i].image
  /\ op.kind \in {"create", "duplicate"} => ~loaded[op.item].here /\ itemForm.editing # op.item

\* What will be shown is what is stored, with some images of the first versions replaced.
Imported(op, i) ==
  /\ items[i].legacy /\ LegacyAsset[i] \in assets
  /\ op.clone[i] = [items[i] EXCEPT !.image = LegacyAsset[i], !.legacy = FALSE]

CloneInv(op) ==
  op.stage = "show" =>
    /\ ~op.migrated => op.clone = items
    /\ \A i \in Item : op.clone[i] = items[i] \/ Imported(op, i)

\* A form that is being saved stays as it is.
SubmitInv(op) ==
  op.kind \in {"create", "submit"} =>
    /\ itemForm.open /\ itemForm.image = op.image /\ ~Uploading
    /\ itemForm.editing = IF op.kind = "create" THEN None ELSE op.item
    /\ op.stage \in {"load", "show"} => op.image \in Images(items) \cup {None}

\* What an operation is going to write.
WriteInv(op) ==
  op.stage \in {"list", "write"} =>
    /\ op.shown \in Images(items) \cup {None}
    /\ items[op.item].here <=> op.kind \in {"submit", "toggle", "delete"}
    /\ op.kind = "duplicate" => op.image \in Images(items) \cup {None}
    /\ op.kind = "toggle" => op.image = items[op.item].image
    /\ op.kind = "delete" => op.image = None
    /\ op.stage = "write" => op.previous = items[op.item].image

\* An uploaded image that only the form has.
Fresh(a) ==
  a \in assets /\ a \notin Images(items) \cup Images(loaded) \cup Looked \cup Legacies

Saving(op) == op.kind \in {"create", "submit"} /\ op.stage \in {"load", "show"}

FormInv(op) ==
  itemForm.open /\ itemForm.image # None /\ ~Saving(op) =>
    \/ Fresh(itemForm.image)
    \/ itemForm.editing # None /\ (items[itemForm.editing].here => items[itemForm.editing].image = itemForm.image)

UploadInv ==
  Uploading =>
    /\ itemForm.open /\ itemForm.image = upload.image
    /\ upload.asset # None /\ upload.asset # upload.image
    /\ upload.asset \notin assets \cup Images(items) \cup Images(loaded) \cup Looked \cup Legacies

UnreferencedInv == \A c \in checks : c.unreferenced => c.asset \notin Images(items)

LegacyInv ==
  \A i \in Item : items[i].legacy =>
    LegacyAsset[i] \notin Images(items) \cup Images(loaded) \cup Looked \cup {itemForm.image}

\* What is kept of an asset: an item, a removal, the form, or the items that are about to be stored.
KeptInv(op) ==
  \A a \in assets :
    \/ a \in Images(items) \cup Looked
    \/ itemForm.image = a /\ a \notin Images(loaded)
    \/ op.stage = "show" /\ a \in Images(op.clone)

OpInv(op) ==
  ViewInv(op) /\ CloneInv(op) /\ SubmitInv(op) /\ WriteInv(op) /\ FormInv(op) /\ KeptInv(op)

\* The inductive invariant.
ImagesInv ==
  /\ ImagesTyped
  /\ \A o \in Operation : OpInv(ops[o])
  /\ UploadInv /\ UnreferencedInv /\ LegacyInv /\ ReferencedImagesExist

LEMMA ImageOf ==
  ASSUME NEW s \in ItemsType, NEW a \in Asset, None \notin Asset
  PROVE  a \in Images(s) <=> \E i \in Item : s[i].image = a
  BY DEF Images

LEMMA LookedAfter ==
  ASSUME NEW a, NEW by
  PROVE  {c.asset : c \in checks \cup Check(a, by)} = Looked \cup ({a} \ {None})
<1>1. CASE a = None
  BY <1>1 DEF Looked, Check
<1>2. CASE a # None
  <2>1. Check(a, by) = {[asset |-> a, by |-> by, unreferenced |-> FALSE]}
    BY <1>2 DEF Check
  <2> DEFINE r == [asset |-> a, by |-> by, unreferenced |-> FALSE]
  <2>2. r.asset = a
    OBVIOUS
  <2> HIDE DEF r
  <2>3. {c.asset : c \in checks \cup {r}} = {c.asset : c \in checks} \cup {r.asset}
    OBVIOUS
  <2> QED
    BY <1>2, <2>1, <2>2, <2>3 DEF Looked, r
<1> QED
  BY <1>1, <1>2

LEMMA CheckTyped ==
  ASSUME NEW a \in Asset \cup {None}, NEW by \in Operation \cup {"form"}
  PROVE  /\ Check(a, by) \subseteq [asset : Asset, by : Operation \cup {"form"}, unreferenced : BOOLEAN]
         /\ \A c \in Check(a, by) : ~c.unreferenced
<1>1. CASE a = None
  BY <1>1 DEF Check
<1>2. CASE a # None
  <2>1. Check(a, by) = {[asset |-> a, by |-> by, unreferenced |-> FALSE]}
    BY <1>2 DEF Check
  <2> QED
    BY <1>2, <2>1
<1> QED
  BY <1>1, <1>2

\* What looking for references and removing do.
LEMMA LookKeeps ==
  ASSUME LegaciesDiffer, ImagesInv, NEW c \in checks, LookForReferences(c)
  PROVE  ImagesInv'
<1> DEFINE found == [c EXCEPT !.unreferenced = TRUE]
<1>1. UNCHANGED <<items, assets, loaded, itemForm, upload, ops>>
  BY DEF LookForReferences
<1>2. c \in [asset : Asset, by : Operation \cup {"form"}, unreferenced : BOOLEAN]
  BY DEF ImagesInv, ImagesTyped, ImagesTypeOK
<1>3. found \in [asset : Asset, by : Operation \cup {"form"}, unreferenced : BOOLEAN]
      /\ found.asset = c.asset
  BY <1>2
<1>4. \/ c.asset \in Images(items) /\ checks' = checks \ {c}
      \/ c.asset \notin Images(items) /\ checks' = (checks \ {c}) \cup {found}
  BY DEF LookForReferences
<1> HIDE DEF found
<1>5. Looked' \subseteq Looked /\ Looked \subseteq Looked' \cup Images(items)
  <2>1. \A d \in checks' : d.asset \in Looked
    BY <1>3, <1>4 DEF Looked
  <2>2. \A d \in checks : d.asset \in Looked' \cup Images(items)
    <3> SUFFICES ASSUME NEW d \in checks PROVE d.asset \in Looked' \cup Images(items)
      OBVIOUS
    <3>1. CASE d # c
      BY <1>4, <3>1 DEF Looked
    <3>2. CASE d = c
      BY <1>3, <1>4, <3>2 DEF Looked
    <3> QED
      BY <3>1, <3>2
  <2> QED
    BY <2>1, <2>2 DEF Looked
<1>6. UnreferencedInv'
  BY <1>1, <1>3, <1>4 DEF ImagesInv, UnreferencedInv
<1>7. ImagesTyped'
  BY <1>1, <1>3, <1>4 DEF ImagesInv, ImagesTyped, ImagesTypeOK
<1>8. UploadInv' /\ LegacyInv' /\ ReferencedImagesExist'
  BY <1>1, <1>5 DEF ImagesInv, UploadInv, Uploading, LegacyInv, ReferencedImagesExist
<1>9. ASSUME NEW o \in Operation PROVE OpInv(ops[o])'
  <2>1. OpInv(ops[o])
    BY DEF ImagesInv
  <2>2. FormInv(ops[o])'
    BY <1>1, <1>5, <2>1 DEF OpInv, FormInv, Fresh, Saving
  <2>3. KeptInv(ops[o])'
    BY <1>1, <1>5, <2>1 DEF OpInv, KeptInv
  <2>4. ViewInv(ops[o])' /\ CloneInv(ops[o])' /\ SubmitInv(ops[o])' /\ WriteInv(ops[o])'
    BY <1>1, <2>1 DEF OpInv, ViewInv, CloneInv, Imported, SubmitInv, Uploading, WriteInv
  <2> QED
    BY <2>2, <2>3, <2>4 DEF OpInv
<1> QED
  BY <1>6, <1>7, <1>8, <1>9 DEF ImagesInv

LEMMA RemoveKeeps ==
  ASSUME LegaciesDiffer, ImagesInv, NEW c \in checks, RemoveAsset(c)
  PROVE  ImagesInv'
<1>1. /\ UNCHANGED <<items, loaded, itemForm, upload, ops>>
      /\ assets' = assets \ {c.asset} /\ checks' = checks \ {c} /\ c.unreferenced
  BY DEF RemoveAsset
<1>2. c.asset \notin Images(items) /\ c.asset \in Looked
  BY <1>1 DEF ImagesInv, UnreferencedInv, Looked
<1>3. Looked' \subseteq Looked /\ Looked \subseteq Looked' \cup {c.asset}
  BY <1>1 DEF Looked
<1>4. UnreferencedInv' /\ ImagesTyped'
  BY <1>1 DEF ImagesInv, UnreferencedInv, ImagesTyped, ImagesTypeOK
<1>5. UploadInv' /\ LegacyInv' /\ ReferencedImagesExist'
  BY <1>1, <1>2, <1>3 DEF ImagesInv, UploadInv, Uploading, LegacyInv, ReferencedImagesExist
<1>6. ASSUME NEW o \in Operation PROVE OpInv(ops[o])'
  <2>1. OpInv(ops[o])
    BY DEF ImagesInv
  <2>2. FormInv(ops[o])'
    BY <1>1, <1>2, <1>3, <2>1 DEF OpInv, FormInv, Fresh, Saving
  <2>3. KeptInv(ops[o])'
    BY <1>1, <1>3, <2>1 DEF OpInv, KeptInv
  <2>4. CloneInv(ops[o])'
    <3>1. \A i \in Item : Imported(ops[o], i) => Imported(ops[o], i)'
      BY <1>1, <1>2 DEF Imported, ImagesInv, LegacyInv
    <3> QED
      BY <1>1, <2>1, <3>1 DEF OpInv, CloneInv
  <2>5. ViewInv(ops[o])' /\ SubmitInv(ops[o])' /\ WriteInv(ops[o])'
    BY <1>1, <2>1 DEF OpInv, ViewInv, SubmitInv, Uploading, WriteInv
  <2> QED
    BY <2>2, <2>3, <2>4, <2>5 DEF OpInv
<1> QED
  BY <1>4, <1>5, <1>6 DEF ImagesInv

LEMMA StartKeeps ==
  ASSUME LegaciesDiffer, ImagesInv, Patient, StartCreate \/ \E i \in Item : StartEdit(i)
  PROVE  ImagesInv'
<1>1. /\ UNCHANGED <<items, assets, loaded, upload, ops, checks>> /\ ~itemForm.open /\ ~Uploading
  BY DEF StartCreate, StartEdit
<1>2. Looked' = Looked
  BY <1>1 DEF Looked
<1>3. PICK i \in Item \cup {None} :
        /\ i # None => loaded[i].here
        /\ itemForm' = [open |-> TRUE, editing |-> i, image |-> IF i = None THEN None ELSE loaded[i].image]
  BY DEF StartCreate, StartEdit, LegaciesDiffer
<1>4. i # None => i \in Item /\ itemForm'.image = loaded[i].image /\ itemForm'.image \in Asset \cup {None}
  BY <1>3 DEF ImagesInv, ImagesTyped, ImagesTypeOK, ItemsType
<1>5. i = None => itemForm'.image = None
  BY <1>3
<1>6. itemForm'.open /\ itemForm'.editing = i /\ itemForm.image = None
  BY <1>1, <1>3 DEF ImagesInv, ImagesTyped, NoItemForm
<1>7. itemForm' \in [open : BOOLEAN, editing : Item \cup {None}, image : Asset \cup {None}]
  BY <1>3, <1>4, <1>5
<1>8. ImagesTyped'
  BY <1>1, <1>6, <1>7 DEF ImagesInv, ImagesTyped, ImagesTypeOK
<1>9. UploadInv' /\ UnreferencedInv' /\ ReferencedImagesExist'
  BY <1>1 DEF ImagesInv, UploadInv, Uploading, UnreferencedInv, ReferencedImagesExist
<1>10. LegacyInv'
  <2> SUFFICES ASSUME NEW j \in Item, items[j].legacy
               PROVE  LegacyAsset[j] \notin Images(items) \cup Images(loaded) \cup Looked \cup {itemForm'.image}
    BY <1>1, <1>2 DEF LegacyInv
  <2>1. LegacyAsset[j] \in Asset /\ LegacyAsset[j] # None
    BY DEF LegaciesDiffer
  <2>2. itemForm'.image # None => itemForm'.image \in Images(loaded)
    BY <1>4, <1>5 DEF Images
  <2> QED
    BY <2>1, <2>2 DEF ImagesInv, LegacyInv
<1>11. ASSUME NEW o \in Operation PROVE OpInv(ops[o])'
  <2>1. OpInv(ops[o]) /\ ops[o] \in OperationType /\ Proceeds(ops[o])
    BY DEF ImagesInv, ImagesTyped
  <2>2. ops[o].kind \notin {"create", "submit"}
    BY <1>1, <2>1 DEF OpInv, SubmitInv
  <2>3. FormInv(ops[o])'
    BY <1>1, <1>3, <1>4, <1>5, <1>6, <2>1, <2>2 DEF FormInv, OpInv, ViewInv
  <2>4. KeptInv(ops[o])'
    <3>1. \A a \in assets : a # None
      BY DEF ImagesInv, ImagesTyped, ImagesTypeOK, LegaciesDiffer
    <3> QED
      BY <1>1, <1>2, <1>6, <2>1, <3>1 DEF OpInv, KeptInv
  <2>5. ViewInv(ops[o])'
    <3>1. ops[o].kind \in {"create", "duplicate"} => i # ops[o].item
      BY <1>3, <2>1, <2>2 DEF OpInv, ViewInv, Proceeds, LegaciesDiffer
    <3> QED
      BY <1>1, <1>6, <2>1, <3>1 DEF OpInv, ViewInv
  <2>6. CloneInv(ops[o])' /\ SubmitInv(ops[o])' /\ WriteInv(ops[o])'
    BY <1>1, <2>1, <2>2 DEF OpInv, CloneInv, Imported, SubmitInv, WriteInv
  <2> QED
    BY <2>3, <2>4, <2>5, <2>6 DEF OpInv
<1> QED
  BY <1>8, <1>9, <1>10, <1>11 DEF ImagesInv

\* The images that are given up are looked for.
LEMMA GiveUpKeeps ==
  ASSUME LegaciesDiffer, ImagesInv, Patient, CloseItemForm \/ ClearImage
  PROVE  ImagesInv'
<1>1. UNCHANGED <<items, assets, loaded, upload, ops>> /\ itemForm.open /\ ~Uploading /\ ~Submitting
  BY DEF CloseItemForm, ClearImage, Touchable
<1>2. itemForm \in [open : BOOLEAN, editing : Item \cup {None}, image : Asset \cup {None}]
  BY DEF ImagesInv, ImagesTyped, ImagesTypeOK
<1>3. PICK b \in {None, itemForm.image} :
        /\ checks' = checks \cup Check(b, "form")
        /\ b = None /\ itemForm.image # None => itemForm.image \in Images(loaded)
  <2>1. CASE ClearImage
    BY <2>1 DEF ClearImage
  <2>2. CASE CloseItemForm
    <3>1. CASE itemForm.editing # None /\ itemForm.image = loaded[itemForm.editing].image
      <4>1. Given(itemForm, loaded) = None
        BY <3>1 DEF Given
      <4>2. itemForm.image # None => itemForm.image \in Images(loaded)
        BY <1>2, <3>1 DEF Images
      <4> QED
        BY <2>2, <4>1, <4>2 DEF CloseItemForm
    <3>2. CASE ~(itemForm.editing # None /\ itemForm.image = loaded[itemForm.editing].image)
      <4>1. Given(itemForm, loaded) = itemForm.image
        BY <3>2 DEF Given
      <4> QED
        BY <2>2, <4>1 DEF CloseItemForm
    <3> QED
      BY <3>1, <3>2
  <2> QED
    BY <2>1, <2>2
<1>4. Looked' = Looked \cup ({b} \ {None})
  BY <1>3, LookedAfter DEF Looked
<1>5. b \in Asset \cup {None}
  BY <1>2, <1>3
<1>6. /\ Check(b, "form") \subseteq [asset : Asset, by : Operation \cup {"form"}, unreferenced : BOOLEAN]
      /\ \A c \in Check(b, "form") : ~c.unreferenced
  BY <1>5, CheckTyped
<1>7. /\ itemForm'.image = None
      /\ itemForm' \in [open : BOOLEAN, editing : Item \cup {None}, image : Asset \cup {None}]
      /\ itemForm'.editing \in {None, itemForm.editing}
      /\ ~itemForm'.open => itemForm' = NoItemForm
  <2>1. CASE CloseItemForm
    BY <2>1 DEF CloseItemForm, NoItemForm
  <2>2. CASE ClearImage
    BY <1>1, <1>2, <2>2 DEF ClearImage
  <2> QED
    BY <2>1, <2>2
<1>8. ImagesTyped'
  <2>1. checks' \subseteq [asset : Asset, by : Operation \cup {"form"}, unreferenced : BOOLEAN]
    BY <1>3, <1>6 DEF ImagesInv, ImagesTyped, ImagesTypeOK
  <2> QED
    BY <1>1, <1>7, <2>1 DEF ImagesInv, ImagesTyped, ImagesTypeOK
<1>9. UploadInv' /\ ReferencedImagesExist'
  BY <1>1 DEF ImagesInv, UploadInv, Uploading, ReferencedImagesExist
<1>10. UnreferencedInv'
  BY <1>1, <1>3, <1>6 DEF ImagesInv, UnreferencedInv
<1>11. LegacyInv'
  <2>1. \A i \in Item : LegacyAsset[i] # None
    BY DEF LegaciesDiffer
  <2> QED
    BY <1>1, <1>3, <1>4, <1>7, <2>1 DEF ImagesInv, LegacyInv
<1>12. ASSUME NEW o \in Operation PROVE OpInv(ops[o])'
  <2>1. OpInv(ops[o]) /\ ops[o] \in OperationType /\ Proceeds(ops[o])
    BY DEF ImagesInv, ImagesTyped
  <2>2. ops[o].kind \notin {"create", "submit"}
    BY <1>1 DEF Submitting
  <2>3. FormInv(ops[o])'
    BY <1>7 DEF FormInv
  <2>4. KeptInv(ops[o])'
    <3> SUFFICES ASSUME NEW a \in assets
                 PROVE  \/ a \in Images(items) \cup Looked'
                        \/ ops[o].stage = "show" /\ a \in Images(ops[o].clone)
      BY <1>1 DEF KeptInv
    <3>1. a # None
      BY DEF ImagesInv, ImagesTyped, ImagesTypeOK, LegaciesDiffer
    <3> QED
      BY <1>3, <1>4, <2>1, <3>1 DEF OpInv, KeptInv
  <2>5. ViewInv(ops[o])'
    <3>1. ops[o].kind \in {"create", "duplicate"} => ops[o].item # None
      BY <2>1 DEF Proceeds, LegaciesDiffer
    <3> QED
      BY <1>1, <1>7, <2>1, <3>1 DEF OpInv, ViewInv
  <2>6. CloneInv(ops[o])' /\ SubmitInv(ops[o])' /\ WriteInv(ops[o])'
    BY <1>1, <2>1, <2>2 DEF OpInv, CloneInv, Imported, SubmitInv, WriteInv
  <2> QED
    BY <2>3, <2>4, <2>5, <2>6 DEF OpInv
<1> QED
  BY <1>8, <1>9, <1>10, <1>11, <1>12 DEF ImagesInv

LEMMA BeginUploadKeeps ==
  ASSUME LegaciesDiffer, ImagesInv, Patient, NEW a \in Asset, BeginUpload(a)
  PROVE  ImagesInv'
<1>1. /\ UNCHANGED <<items, assets, loaded, itemForm, ops, checks>> /\ itemForm.open /\ ~Submitting
      /\ upload' = [asset |-> a, image |-> itemForm.image]
      /\ a \notin assets \cup InHand \cup Legacies
  BY DEF BeginUpload, Touchable, Legacies
<1>2. upload'.asset = a /\ upload'.image = itemForm.image /\ a # None
      /\ upload' \in [asset : Asset \cup {None}, image : Asset \cup {None}]
  BY <1>1 DEF ImagesInv, ImagesTyped, ImagesTypeOK, LegaciesDiffer
<1>3. a \notin Images(items) \cup Images(loaded) \cup Looked /\ a # itemForm.image
  BY <1>1 DEF InHand, Looked
<1>4. UploadInv'
  BY <1>1, <1>2, <1>3 DEF UploadInv, Looked
<1>5. ImagesTyped'
  BY <1>1, <1>2 DEF ImagesInv, ImagesTyped, ImagesTypeOK
<1>6. UnreferencedInv' /\ LegacyInv' /\ ReferencedImagesExist'
  BY <1>1 DEF ImagesInv, UnreferencedInv, LegacyInv, ReferencedImagesExist, Looked
<1>7. ASSUME NEW o \in Operation PROVE OpInv(ops[o])'
  <2>1. OpInv(ops[o])
    BY DEF ImagesInv
  <2>2. SubmitInv(ops[o])'
    BY <1>1 DEF SubmitInv, Submitting
  <2>3. ViewInv(ops[o])' /\ CloneInv(ops[o])' /\ WriteInv(ops[o])' /\ FormInv(ops[o])' /\ KeptInv(ops[o])'
    <3>1. Looked' = Looked
      BY <1>1 DEF Looked
    <3>2. FormInv(ops[o])' /\ KeptInv(ops[o])'
      BY <1>1, <2>1, <3>1 DEF OpInv, FormInv, Fresh, Saving, KeptInv
    <3> QED
      BY <1>1, <2>1, <3>2 DEF OpInv, ViewInv, CloneInv, Imported, WriteInv
  <2> QED
    BY <2>2, <2>3 DEF OpInv
<1> QED
  BY <1>4, <1>5, <1>6, <1>7 DEF ImagesInv

LEMMA FailUploadKeeps ==
  ASSUME LegaciesDiffer, ImagesInv, FailUpload
  PROVE  ImagesInv'
<1>1. UNCHANGED <<items, assets, loaded, itemForm, ops, checks>> /\ upload' = NoUpload
  BY DEF FailUpload
<1>2. ImagesTyped' /\ UploadInv' /\ UnreferencedInv' /\ LegacyInv' /\ ReferencedImagesExist'
  BY <1>1 DEF ImagesInv, ImagesTyped, ImagesTypeOK, NoUpload, UploadInv, Uploading,
     UnreferencedInv, LegacyInv,
              ReferencedImagesExist, Looked
<1>3. ASSUME NEW o \in Operation PROVE OpInv(ops[o])'
  <2>1. OpInv(ops[o])
    BY DEF ImagesInv
  <2>2. Looked' = Looked
    BY <1>1 DEF Looked
  <2>3. FormInv(ops[o])' /\ KeptInv(ops[o])'
    BY <1>1, <2>1, <2>2 DEF OpInv, FormInv, Fresh, Saving, KeptInv
  <2>4. ViewInv(ops[o])' /\ CloneInv(ops[o])' /\ SubmitInv(ops[o])' /\ WriteInv(ops[o])'
    BY <1>1, <2>1 DEF OpInv, SubmitInv, Uploading, ViewInv, CloneInv, Imported, WriteInv
  <2> QED
    BY <2>3, <2>4 DEF OpInv
<1> QED
  BY <1>2, <1>3 DEF ImagesInv

LEMMA FinishUploadKeeps ==
  ASSUME LegaciesDiffer, ImagesInv, FinishUpload
  PROVE  ImagesInv'
<1> DEFINE a == upload.asset
           b == upload.image
<1>1. /\ UNCHANGED <<items, loaded, ops>> /\ Uploading /\ upload' = NoUpload
      /\ assets' = assets \cup {a} /\ checks' = checks \cup Check(b, "form")
      /\ itemForm' = [itemForm EXCEPT !.open = TRUE, !.image = a]
  BY DEF FinishUpload, StoreLocal
<1>2. /\ itemForm.open /\ itemForm.image = b /\ a # None /\ a # b /\ a \in Asset /\ b \in Asset \cup {None}
      /\ a \notin assets \cup Images(items) \cup Images(loaded) \cup Looked \cup Legacies
  BY <1>1 DEF ImagesInv, UploadInv, ImagesTyped, ImagesTypeOK
<1>3. itemForm \in [open : BOOLEAN, editing : Item \cup {None}, image : Asset \cup {None}]
  BY DEF ImagesInv, ImagesTyped, ImagesTypeOK
<1>4. /\ itemForm'.open /\ itemForm'.image = a /\ itemForm'.editing = itemForm.editing
      /\ itemForm' \in [open : BOOLEAN, editing : Item \cup {None}, image : Asset \cup {None}]
  BY <1>1, <1>2, <1>3
<1>5. Looked' = Looked \cup ({b} \ {None})
  BY <1>1, LookedAfter DEF Looked
<1>6. /\ Check(b, "form") \subseteq [asset : Asset, by : Operation \cup {"form"}, unreferenced : BOOLEAN]
      /\ \A c \in Check(b, "form") : ~c.unreferenced
  BY <1>2, CheckTyped
<1> HIDE DEF a, b
<1>7. ImagesTyped'
  <2>1. checks' \subseteq [asset : Asset, by : Operation \cup {"form"}, unreferenced : BOOLEAN]
    BY <1>1, <1>6 DEF ImagesInv, ImagesTyped, ImagesTypeOK
  <2>2. upload' \in [asset : Asset \cup {None}, image : Asset \cup {None}]
    BY <1>1 DEF NoUpload
  <2>3. assets' \subseteq Asset
    BY <1>1, <1>2 DEF ImagesInv, ImagesTyped, ImagesTypeOK
  <2> QED
    BY <1>1, <1>4, <2>1, <2>2, <2>3 DEF ImagesInv, ImagesTyped, ImagesTypeOK
<1>8. UploadInv' /\ ReferencedImagesExist'
  BY <1>1 DEF ImagesInv, UploadInv, Uploading, ReferencedImagesExist
<1>9. UnreferencedInv'
  BY <1>1, <1>6 DEF ImagesInv, UnreferencedInv
<1>10. LegacyInv'
  <2>1. \A i \in Item : LegacyAsset[i] \in Legacies
    BY DEF Legacies
  <2> QED
    BY <1>1, <1>2, <1>4, <1>5, <2>1 DEF ImagesInv, LegacyInv
<1>11. ASSUME NEW o \in Operation PROVE OpInv(ops[o])'
  <2>1. OpInv(ops[o])
    BY DEF ImagesInv
  <2>2. ops[o].kind \notin {"create", "submit"}
    BY <1>1, <2>1 DEF OpInv, SubmitInv
  <2>3. FormInv(ops[o])'
    <3>1. a \in assets' /\ a \notin Images(items)' \cup Images(loaded)' \cup Looked' \cup Legacies
      BY <1>1, <1>2, <1>5 DEF Images
    <3> QED
      BY <1>4, <3>1 DEF FormInv, Fresh
  <2>4. KeptInv(ops[o])'
    <3> SUFFICES ASSUME NEW x \in assets \cup {a}
                 PROVE  \/ x \in Images(items) \cup Looked'
                        \/ x = a /\ a \notin Images(loaded)
                        \/ ops[o].stage = "show" /\ x \in Images(ops[o].clone)
      BY <1>1, <1>4 DEF KeptInv
    <3>1. x # None
      BY <1>2 DEF ImagesInv, ImagesTyped, ImagesTypeOK, LegaciesDiffer
    <3> QED
      BY <1>2, <1>5, <2>1, <3>1 DEF OpInv, KeptInv
  <2>5. ViewInv(ops[o])' /\ CloneInv(ops[o])' /\ SubmitInv(ops[o])' /\ WriteInv(ops[o])'
    BY <1>1, <1>4, <2>1, <2>2 DEF OpInv, ViewInv, CloneInv, Imported, SubmitInv, WriteInv
  <2> QED
    BY <2>3, <2>4, <2>5 DEF OpInv
<1> QED
  BY <1>7, <1>8, <1>9, <1>10, <1>11 DEF ImagesInv

-----------------------------------------------------------------------------
\* The operations of the tab.

\* Only what an operation has in hand changes.
LEMMA HandKeeps ==
  ASSUME ImagesInv, NEW o \in Operation, NEW new \in OperationType, Proceeds(new), OpInv(new),
         ops' = [ops EXCEPT ![o] = new], UNCHANGED <<items, assets, loaded, itemForm, upload, checks>>
  PROVE  ImagesInv'
<1>1. \A d \in Operation : ops'[d] \in {ops[d], new} /\ DOMAIN ops' = Operation
  BY DEF ImagesInv, ImagesTyped
<1>2. ImagesTyped'
  BY <1>1 DEF ImagesInv, ImagesTyped, ImagesTypeOK
<1>3. Looked' = Looked
  BY DEF Looked
<1>4. UploadInv' /\ UnreferencedInv' /\ LegacyInv' /\ ReferencedImagesExist'
  BY <1>3 DEF ImagesInv, UploadInv, Uploading, UnreferencedInv, LegacyInv, ReferencedImagesExist
<1>5. ASSUME NEW d \in Operation PROVE OpInv(ops[d])'
  <2>1. PICK op \in {ops[d], new} : ops'[d] = op
    BY <1>1
  <2>2. OpInv(op)
    BY DEF ImagesInv
  <2>3. FormInv(ops[d])' /\ KeptInv(ops[d])'
    BY <1>3, <2>1, <2>2 DEF OpInv, FormInv, Fresh, Saving, KeptInv
  <2>4. ViewInv(ops[d])'
    BY <2>1, <2>2 DEF OpInv, ViewInv
  <2>6. CloneInv(ops[d])'
    BY <2>1, <2>2 DEF OpInv, CloneInv, Imported
  <2>5. SubmitInv(ops[d])' /\ WriteInv(ops[d])'
    BY <2>1, <2>2 DEF OpInv, SubmitInv, Uploading, WriteInv
  <2> QED
    BY <2>3, <2>4, <2>5, <2>6 DEF OpInv
<1> QED
  BY <1>2, <1>4, <1>5 DEF ImagesInv

Begun(kind, stage, i, image, shown) ==
  [Idle EXCEPT !.kind = kind, !.stage = stage, !.item = i, !.image = image, !.shown = shown]

LEMMA BegunFields ==
  ASSUME NEW kind \in {"create", "submit", "toggle", "duplicate", "delete", "load"},
         NEW stage \in {"list", "write", "load"}, NEW i \in Item \cup {None}, NEW image \in Image,
         NEW shown \in Image
  PROVE  LET op == Begun(kind, stage, i, image, shown)
         IN  /\ op \in OperationType
             /\ op.kind = kind /\ op.stage = stage /\ op.item = i /\ op.image = image /\ op.shown = shown
             /\ op.previous = None
<1>1. [j \in Item |-> Absent] \in ItemsType
  BY DEF ItemsType, Absent
<1>2. Idle \in OperationType /\ Idle.previous = None
  BY <1>1 DEF Idle, OperationType, Image
<1> QED
  BY <1>2 DEF Begun, OperationType

LEMMA BeginKeeps ==
  ASSUME LegaciesDiffer, ImagesInv, Patient, NEW o \in Operation,
         \/ SubmitEdit(o) \/ Load(o)
         \/ \E i \in Item : SubmitNew(o, i) \/ ToggleStatus(o, i) \/ Delete(o, i)
         \/ \E i, j \in Item : Duplicate(o, i, j)
  PROVE  ImagesInv'
<1> DEFINE Empty == [i \in Item |-> Absent]
<1>t. /\ items \in ItemsType /\ loaded \in ItemsType
      /\ itemForm \in [open : BOOLEAN, editing : Item \cup {None}, image : Image]
      /\ \A i \in Item : ~items[i].here => items[i] = Absent
  BY DEF ImagesInv, ImagesTyped, ImagesTypeOK, Image, StoredItems
<1>i. Idle.stage = "none" /\ Idle.kind = "none"
  BY DEF Idle
<1>1. ASSUME ops[o] = Idle
      PROVE  /\ loaded = items \/ loaded = Empty
             /\ \A i \in Item : loaded[i].here /\ items[i].here /\ loaded[i].image # None =>
                  loaded[i].image = items[i].image
             /\ itemForm.open /\ itemForm.image # None =>
                  \/ Fresh(itemForm.image)
                  \/ itemForm.editing # None /\ (items[itemForm.editing].here => items[itemForm.editing].image = itemForm.image)
             /\ \A a \in assets : a \in Images(items) \cup Looked \/ (itemForm.image = a /\ a \notin Images(loaded))
  <2>1. OpInv(Idle)
    BY <1>1 DEF ImagesInv
  <2> QED
    BY <2>1, <1>i DEF OpInv, ViewInv, FormInv, Saving, KeptInv
<1>2. ASSUME NEW i \in Item, ops[o] = Idle, loaded[i].here
      PROVE  loaded = items
  BY <1>1, <1>2 DEF Absent
<1>3. ASSUME NEW kind \in {"create", "submit", "toggle", "duplicate", "delete", "load"},
             NEW stage \in {"list", "write", "load"}, NEW i \in Item \cup {None}, NEW image \in Image,
             NEW shown \in Image, Begin(o, kind, stage, i, image, shown),
             Proceeds(Begun(kind, stage, i, image, shown)),
             ViewInv(Begun(kind, stage, i, image, shown)),
             SubmitInv(Begun(kind, stage, i, image, shown)),
             WriteInv(Begun(kind, stage, i, image, shown))
      PROVE  ImagesInv'
  <2> DEFINE op == Begun(kind, stage, i, image, shown)
  <2>0. op \in OperationType /\ op.stage = stage
    BY BegunFields
  <2>1. op \in OperationType /\ op.stage # "show" /\ op.stage = stage
    BY <2>0
  <2>2. ops[o] = Idle /\ ops' = [ops EXCEPT ![o] = op] /\ UNCHANGED <<items, assets, loaded, itemForm, upload, checks>>
    BY <1>3 DEF Begin, Begun
  <2> HIDE DEF op
  <2>3. CloneInv(op)
    BY <2>1 DEF CloneInv
  <2>4. FormInv(op) /\ KeptInv(op)
    BY <1>1, <2>2 DEF FormInv, KeptInv
  <2>5. OpInv(op) /\ Proceeds(op)
    BY <1>3, <2>3, <2>4 DEF OpInv, op
  <2> QED
    BY <2>1, <2>2, <2>5, HandKeeps
<1>v. ASSUME NEW i \in Item PROVE loaded[i].image \in Image /\ (loaded[i].image = None \/ loaded[i].image \in Images(loaded))
  BY <1>t DEF ItemsType, Image, Images
<1>4. CASE SubmitEdit(o)
  <2> DEFINE i == itemForm.editing
             op == Begun("submit", "list", i, itemForm.image, loaded[i].image)
  <2>1. /\ Begin(o, "submit", "list", i, itemForm.image, loaded[i].image)
        /\ itemForm.open /\ loaded[i].here /\ ~Uploading /\ i \in Item /\ ops[o] = Idle
    BY <1>4, <1>t DEF SubmitEdit, Touchable, Begin
  <2>2. op.kind = "submit" /\ op.stage = "list" /\ op.item = i /\ op.image = itemForm.image
        /\ op.shown = loaded[i].image
    BY <2>1, <1>t, <1>v, BegunFields
  <2>3. loaded = items
    BY <1>2, <2>1
  <2>4. i # None
    BY <2>1 DEF LegaciesDiffer
  <2> HIDE DEF op
  <2>5. Proceeds(op) /\ ViewInv(op)
    BY <2>1, <2>2, <2>3 DEF Proceeds, ViewInv
  <2>6. SubmitInv(op)
    BY <2>1, <2>2 DEF SubmitInv
  <2>7. WriteInv(op)
    BY <2>1, <2>2, <2>3, <1>v DEF WriteInv
  <2> QED
    BY <2>1, <2>5, <2>6, <2>7, <1>3, <1>t, <1>v DEF op
<1>5. CASE Load(o)
  <2> DEFINE op == Begun("load", "load", None, None, None)
  <2>1. Begin(o, "load", "load", None, None, None) /\ ops[o] = Idle
    BY <1>5 DEF Load, Begin
  <2>2. op.kind = "load" /\ op.stage = "load"
    BY BegunFields DEF Image
  <2> HIDE DEF op
  <2>3. Proceeds(op) /\ ViewInv(op) /\ SubmitInv(op) /\ WriteInv(op)
    BY <1>1, <2>1, <2>2 DEF Proceeds, ViewInv, SubmitInv, WriteInv
  <2> QED
    BY <2>1, <2>3, <1>3 DEF op, Image
<1>6. ASSUME NEW i \in Item, SubmitNew(o, i) PROVE ImagesInv'
  <2> DEFINE op == Begun("create", "write", i, itemForm.image, None)
  <2>1. /\ Begin(o, "create", "write", i, itemForm.image, None)
        /\ itemForm.open /\ itemForm.editing = None /\ ~Uploading /\ ops[o] = Idle
        /\ ~items[i].here /\ ~loaded[i].here
    BY <1>6 DEF SubmitNew, Touchable, Begin, NewItem
  <2>2. op.kind = "create" /\ op.stage = "write" /\ op.item = i /\ op.image = itemForm.image
        /\ op.shown = None /\ op.previous = None
    BY <1>t, BegunFields DEF Image
  <2>3. items[i].image = None
    BY <2>1, <1>t DEF Absent
  <2>4. i # None
    BY DEF LegaciesDiffer
  <2> HIDE DEF op
  <2>5. Proceeds(op) /\ ViewInv(op)
    BY <1>1, <2>1, <2>2, <2>4 DEF Proceeds, ViewInv
  <2>6. SubmitInv(op)
    BY <2>1, <2>2 DEF SubmitInv
  <2>7. WriteInv(op)
    BY <2>1, <2>2, <2>3 DEF WriteInv
  <2> QED
    BY <2>1, <2>5, <2>6, <2>7, <1>3, <1>t DEF op, Image
<1>7. ASSUME NEW i \in Item, ToggleStatus(o, i) PROVE ImagesInv'
  <2> DEFINE op == Begun("toggle", "list", i, loaded[i].image, loaded[i].image)
  <2>1. Begin(o, "toggle", "list", i, loaded[i].image, loaded[i].image) /\ loaded[i].here /\ ops[o] = Idle
    BY <1>7 DEF ToggleStatus, Begin
  <2>2. op.kind = "toggle" /\ op.stage = "list" /\ op.item = i /\ op.image = loaded[i].image
        /\ op.shown = loaded[i].image
    BY <1>v, BegunFields
  <2>3. loaded = items
    BY <1>2, <2>1
  <2> HIDE DEF op
  <2>4. Proceeds(op) /\ ViewInv(op) /\ SubmitInv(op)
    BY <2>2, <2>3 DEF Proceeds, ViewInv, SubmitInv
  <2>5. WriteInv(op)
    BY <2>1, <2>2, <2>3, <1>v DEF WriteInv
  <2> QED
    BY <2>1, <2>4, <2>5, <1>3, <1>v DEF op
<1>8. ASSUME NEW i \in Item, Delete(o, i) PROVE ImagesInv'
  <2> DEFINE op == Begun("delete", "list", i, None, None)
  <2>1. Begin(o, "delete", "list", i, None, None) /\ loaded[i].here /\ ops[o] = Idle
    BY <1>8 DEF Delete, Begin
  <2>2. op.kind = "delete" /\ op.stage = "list" /\ op.item = i /\ op.image = None /\ op.shown = None
    BY BegunFields DEF Image
  <2>3. loaded = items
    BY <1>2, <2>1
  <2> HIDE DEF op
  <2>4. Proceeds(op) /\ ViewInv(op) /\ SubmitInv(op)
    BY <2>2, <2>3 DEF Proceeds, ViewInv, SubmitInv
  <2>5. WriteInv(op)
    BY <2>1, <2>2, <2>3 DEF WriteInv
  <2> QED
    BY <2>1, <2>4, <2>5, <1>3 DEF op, Image
<1>9. ASSUME NEW i \in Item, NEW j \in Item, Duplicate(o, i, j) PROVE ImagesInv'
  <2> DEFINE op == Begun("duplicate", "write", j, loaded[i].image, None)
  <2>1. /\ Begin(o, "duplicate", "write", j, loaded[i].image, None) /\ loaded[i].here /\ ops[o] = Idle
        /\ ~items[j].here /\ ~loaded[j].here /\ itemForm.editing # j
    BY <1>9 DEF Duplicate, Begin, NewItem
  <2>2. op.kind = "duplicate" /\ op.stage = "write" /\ op.item = j /\ op.image = loaded[i].image
        /\ op.shown = None /\ op.previous = None
    <3>1. None \in Image
      BY DEF Image
    <3> QED
      BY <1>v, <3>1, BegunFields
  <2>3. loaded = items
    BY <1>2, <2>1
  <2>4. items[j].image = None
    BY <2>1, <1>t DEF Absent
  <2> HIDE DEF op
  <2>5. Proceeds(op) /\ ViewInv(op) /\ SubmitInv(op)
    BY <2>1, <2>2, <2>3 DEF Proceeds, ViewInv, SubmitInv
  <2>6. WriteInv(op)
    BY <2>1, <2>2, <2>3, <2>4, <1>v DEF WriteInv
  <2> QED
    BY <2>1, <2>5, <2>6, <1>3, <1>v DEF op, Image
<1> QED
  BY <1>4, <1>5, <1>6, <1>7, <1>8, <1>9

LEMMA ListPreviousKeeps ==
  ASSUME LegaciesDiffer, ImagesInv, NEW o \in Operation, ListPrevious(o)
  PROVE  ImagesInv'
<1> DEFINE op == ops[o]
           new == [op EXCEPT !.stage = "write", !.previous = items[op.item].image]
<1>1. op \in OperationType /\ Proceeds(op) /\ OpInv(op) /\ op.stage = "list" /\ DOMAIN ops = Operation
  BY DEF ImagesInv, ImagesTyped, ListPrevious
<1>2. op.item \in Item /\ op.kind \in {"submit", "toggle", "delete"}
  BY <1>1 DEF Proceeds
<1>3. items[op.item].image \in Image
  BY <1>2 DEF ImagesInv, ImagesTyped, ImagesTypeOK, ItemsType, Image
<1>4. /\ new \in OperationType /\ new.stage = "write" /\ new.previous = items[op.item].image
      /\ new.kind = op.kind /\ new.item = op.item /\ new.image = op.image /\ new.shown = op.shown
  BY <1>1, <1>3 DEF OperationType
<1>5. ops' = [ops EXCEPT ![o] = new] /\ UNCHANGED <<items, assets, loaded, itemForm, upload, checks>>
  BY DEF ListPrevious
<1> HIDE DEF new, op
<1>6. Proceeds(new)
  BY <1>2, <1>4 DEF Proceeds
<1>7. ViewInv(new) /\ CloneInv(new) /\ SubmitInv(new)
  BY <1>1, <1>2, <1>4 DEF OpInv, ViewInv, CloneInv, SubmitInv
<1>8. WriteInv(new) /\ FormInv(new) /\ KeptInv(new)
  BY <1>1, <1>2, <1>4 DEF OpInv, WriteInv, FormInv, Saving, KeptInv
<1> QED
  BY <1>4, <1>5, <1>6, <1>7, <1>8, HandKeeps DEF OpInv

LEMMA WhatIsLookedFor ==
  ASSUME NEW S, NEW by
  PROVE  /\ \A c \in UNION {Check(a, by) : a \in S} : c.asset \in S \ {None}
         /\ \A a \in S \ {None} : \E c \in UNION {Check(b, by) : b \in S} : c.asset = a
<1> DEFINE r(a) == [asset |-> a, by |-> by, unreferenced |-> FALSE]
<1>1. \A a : r(a).asset = a /\ (a # None => Check(a, by) = {r(a)})
  BY DEF Check
<1>2. Check(None, by) = {}
  BY DEF Check
<1> HIDE DEF r
<1> QED
  BY <1>1, <1>2

LEMMA WriteKeeps ==
  ASSUME LegaciesDiffer, ImagesInv, NEW o, Operation = {o}, Write(o)
  PROVE  ImagesInv'
<1> DEFINE op == ops[o]
           it == op.item
           im == op.image
           pr == op.previous
           new == [op EXCEPT !.stage = "load"]
           more == UNION {Check(a, o) : a \in GivenUp(op)}
<1>t. /\ items \in ItemsType /\ StoredItems(items) /\ o \in Operation
      /\ op \in OperationType /\ Proceeds(op) /\ OpInv(op) /\ op.stage = "write" /\ DOMAIN ops = Operation
  BY DEF ImagesInv, ImagesTyped, ImagesTypeOK, Write
<1>1. /\ op.kind \in {"create", "submit", "toggle", "duplicate", "delete"} /\ it \in Item
      /\ im \in Image /\ pr = items[it].image /\ op.shown \in Image
      /\ GivenUp(op) = {pr, op.shown} \ {im}
      /\ op.shown \in Images(items) \cup {None} /\ pr \in Images(items) \cup {None}
  <2>1. op.kind \notin {"none", "load"}
    BY <1>t DEF Proceeds, Idle
  <2>2. op.kind \in {"create", "submit", "toggle", "duplicate", "delete"} /\ it \in Item
    BY <2>1, <1>t DEF Proceeds, OperationType
  <2>3. pr = items[it].image /\ op.shown \in Images(items) \cup {None}
    BY <1>t DEF OpInv, WriteInv
  <2>4. pr \in Images(items) \cup {None}
    BY <2>2, <2>3 DEF Images
  <2> QED
    BY <2>2, <2>3, <2>4, <1>t DEF OperationType, GivenUp
<1>2. items[it].here \/ op.kind \in {"create", "duplicate"}
  BY <1>1, <1>t DEF OpInv, WriteInv
<1>3. /\ items' = [items EXCEPT ![it] = IF op.kind = "delete" THEN Absent ELSE Saved(op)]
      /\ ops' = [ops EXCEPT ![o] = new] /\ checks' = checks \cup more
      /\ UNCHANGED <<assets, loaded, itemForm, upload>>
  BY <1>2 DEF Write
<1>4. /\ \A j \in Item \ {it} : items'[j] = items[j]
      /\ items'[it] \in [here : BOOLEAN, image : Image, legacy : BOOLEAN]
      /\ items'[it].image = im /\ (items'[it].here <=> op.kind # "delete")
      /\ ~items'[it].here => items'[it] = Absent
      /\ items'[it].legacy => items[it].legacy /\ im = None
      /\ items' \in ItemsType
  <2>1. CASE op.kind = "delete"
    <3>1. items'[it] = Absent /\ im = None /\ \A j \in Item \ {it} : items'[j] = items[j]
      BY <2>1, <1>1, <1>3, <1>t DEF ItemsType, OpInv, WriteInv
    <3>2. Absent \in [here : BOOLEAN, image : Image, legacy : BOOLEAN] /\ ~Absent.here /\ ~Absent.legacy
          /\ Absent.image = None
      BY DEF Absent, Image
    <3>3. items' \in ItemsType
      BY <2>1, <3>2, <1>3, <1>t DEF ItemsType, Image
    <3> QED
      BY <2>1, <3>1, <3>2, <3>3
  <2>2. CASE op.kind # "delete"
    <3> DEFINE s == Saved(op)
    <3>1. /\ s \in [here : BOOLEAN, image : Image, legacy : BOOLEAN]
          /\ s.here /\ s.image = im /\ (s.legacy => items[it].legacy /\ im = None)
      <4>1. (items[it].legacy /\ im = None) \in BOOLEAN
        OBVIOUS
      <4> QED
        BY <4>1, <1>1 DEF Saved
    <3> HIDE DEF s
    <3>2. items' = [items EXCEPT ![it] = s]
      BY <2>2, <1>3 DEF s
    <3>3. items' \in ItemsType
      BY <3>1, <3>2, <1>t DEF ItemsType, Image
    <3> QED
      BY <2>2, <3>1, <3>2, <3>3, <1>1, <1>t DEF ItemsType
  <2> QED
    BY <2>1, <2>2
<1>5. /\ Images(items)' \subseteq Images(items) \cup ({im} \ {None})
      /\ \A a \in Images(items) : a \in Images(items)' \/ (a = pr /\ a # im)
      /\ im # None => im \in Images(items)'
  <2> HIDE DEF it, im, pr
  <2> QED
    BY <1>1, <1>4 DEF Images
<1>6. Looked' = Looked \cup (({pr, op.shown} \ {im}) \ {None})
  <2>1. {c.asset : c \in checks \cup more} = Looked \cup (GivenUp(op) \ {None})
    <3>1. /\ \A c \in more : c.asset \in GivenUp(op) \ {None}
          /\ \A a \in GivenUp(op) \ {None} : \E c \in more : c.asset = a
      BY WhatIsLookedFor
    <3> HIDE DEF more
    <3> QED
      BY <3>1 DEF Looked
  <2>2. Looked' = {c.asset : c \in checks \cup more}
    <3> HIDE DEF more
    <3> QED  BY <1>3 DEF Looked
  <2> HIDE DEF more
  <2> QED
    BY <2>1, <2>2, <1>1
<1>7. \A c \in more : ~c.unreferenced /\ c \in [asset : Asset, by : Operation \cup {"form"}, unreferenced : BOOLEAN]
  <2>1. \A a \in GivenUp(op) : a \in Asset \cup {None}
    BY <1>1, <1>t DEF OperationType, Image
  <2> QED
    BY <2>1, <1>t, CheckTyped
<1>8. /\ new \in OperationType /\ new.stage = "load" /\ new.kind = op.kind
      /\ new.item = it /\ new.image = im
  BY <1>t DEF OperationType
<1>9. \A d \in Operation : ops'[d] = new
  BY <1>3, <1>t
<1> HIDE DEF op, it, im, pr, new, more
<1>10. im # None => \/ im \in Images(items)
                    \/ op.kind \in {"create", "submit"} /\ itemForm.image = im /\ Fresh(im)
  <2> SUFFICES ASSUME im # None, im \notin Images(items)
               PROVE  op.kind \in {"create", "submit"} /\ itemForm.image = im /\ Fresh(im)
    OBVIOUS
  <2>1. op.kind \in {"create", "submit"}
    BY <1>1, <1>t DEF OpInv, WriteInv, Images, it, im
  <2>2. /\ itemForm.open /\ itemForm.image = im
        /\ itemForm.editing = IF op.kind = "create" THEN None ELSE it
    BY <2>1, <1>t DEF OpInv, SubmitInv, it, im
  <2>3. Fresh(im) \/ (op.kind = "submit" /\ (items[it].here => items[it].image = im))
    BY <2>1, <2>2, <1>t DEF OpInv, FormInv, Saving
  <2>4. op.kind = "submit" => items[it].here
    BY <1>2
  <2> QED
    BY <2>1, <2>2, <2>3, <2>4, <1>1 DEF Images
<1>11. ReferencedImagesExist'
  BY <1>3, <1>5, <1>10 DEF ImagesInv, ReferencedImagesExist, Fresh
<1>12. UnreferencedInv'
  <2>1. \A c \in checks : c.asset \in Looked
    BY DEF Looked
  <2> QED
    BY <2>1, <1>3, <1>5, <1>7, <1>10 DEF ImagesInv, UnreferencedInv, Fresh
<1>13. LegacyInv'
  <2>1. \A i \in Item : LegacyAsset[i] \in Legacies /\ LegacyAsset[i] # None
    BY DEF Legacies, LegaciesDiffer
  <2>2. \A i \in Item : items'[i].legacy => items[i].legacy
    BY <1>4
  <2> SUFFICES ASSUME NEW i \in Item, items'[i].legacy
               PROVE  LegacyAsset[i] \notin Images(items)' \cup Images(loaded) \cup Looked' \cup {itemForm.image}
    BY <1>3 DEF LegacyInv
  <2>3. LegacyAsset[i] \notin Images(items) \cup Images(loaded) \cup Looked \cup {itemForm.image}
    BY <2>2 DEF ImagesInv, LegacyInv
  <2>4. LegacyAsset[i] # im
    BY <1>10, <2>1, <2>3
  <2> QED
    BY <1>1, <1>5, <1>6, <2>1, <2>3, <2>4
<1>14. UploadInv'
  <2>1. Uploading => op.kind \notin {"create", "submit"}
    BY <1>t DEF OpInv, SubmitInv
  <2> QED
    BY <1>1, <1>3, <1>5, <1>6, <1>10, <2>1 DEF ImagesInv, UploadInv, Uploading
<1>15. ImagesTyped'
  <2>1. StoredItems(items)'
    BY <1>4, <1>t DEF StoredItems
  <2>2. checks' \subseteq [asset : Asset, by : Operation \cup {"form"}, unreferenced : BOOLEAN]
    BY <1>3, <1>7 DEF ImagesInv, ImagesTyped, ImagesTypeOK
  <2>3. ImagesTypeOK'
    BY <1>3, <1>4, <2>2 DEF ImagesInv, ImagesTyped, ImagesTypeOK
  <2>4. Proceeds(new)
    BY <1>1, <1>8 DEF Proceeds
  <2> QED
    BY <1>3, <1>8, <1>9, <1>t, <2>1, <2>3, <2>4 DEF ImagesInv, ImagesTyped
<1>16. ASSUME NEW d \in Operation PROVE OpInv(ops[d])'
  <2>0. ops'[d] = new
    BY <1>9
  <2>1. ViewInv(ops[d])'
    <3>1. ASSUME op.kind # "submit", NEW i \in Item, loaded[i].here, items'[i].here, loaded[i].image # None
          PROVE  loaded[i].image = items'[i].image
      <4>1. CASE i # it
        BY <3>1, <4>1, <1>4, <1>t DEF OpInv, ViewInv
      <4>2. CASE i = it
        <5>1. op.kind = "toggle"
          BY <3>1, <4>2, <1>1, <1>4, <1>t DEF OpInv, ViewInv, it
        <5>2. loaded = items /\ im = items[it].image
          BY <5>1, <1>t DEF OpInv, ViewInv, WriteInv, it, im
        <5> QED
          BY <4>2, <5>2, <1>4
      <4> QED
        BY <4>1, <4>2
    <3>2. op.kind \in {"create", "duplicate"} => ~loaded[it].here /\ itemForm.editing # it
      BY <1>t DEF OpInv, ViewInv, it
    <3> QED
      BY <3>1, <3>2, <2>0, <1>3, <1>8 DEF ViewInv
  <2>2. CloneInv(ops[d])' /\ WriteInv(ops[d])'
    BY <2>0, <1>8 DEF CloneInv, WriteInv
  <2>3. SubmitInv(ops[d])'
    <3>1. op.kind \in {"create", "submit"} =>
            /\ itemForm.open /\ itemForm.image = im /\ ~Uploading
            /\ itemForm.editing = IF op.kind = "create" THEN None ELSE it
      BY <1>t DEF OpInv, SubmitInv, it, im
    <3> QED
      BY <2>0, <3>1, <1>3, <1>5, <1>8 DEF SubmitInv, Uploading
  <2>4. FormInv(ops[d])'
    <3>1. CASE op.kind \in {"create", "submit"}
      BY <2>0, <3>1, <1>8 DEF FormInv, Saving
    <3>2. CASE op.kind \notin {"create", "submit"}
      <4> SUFFICES ASSUME itemForm.open, itemForm.image # None
                   PROVE  \/ Fresh(itemForm.image)'
                          \/ itemForm.editing # None /\ (items'[itemForm.editing].here => items'[itemForm.editing].image = itemForm.image)
        BY <1>3 DEF FormInv
      <4>1. \/ Fresh(itemForm.image)
            \/ itemForm.editing # None /\ (items[itemForm.editing].here => items[itemForm.editing].image = itemForm.image)
        BY <3>2, <1>t DEF OpInv, FormInv, Saving
      <4>2. ASSUME Fresh(itemForm.image) PROVE Fresh(itemForm.image)'
        BY <3>2, <4>2, <1>1, <1>3, <1>5, <1>6, <1>10 DEF Fresh
      <4>3. ASSUME itemForm.editing # None, items[itemForm.editing].here => items[itemForm.editing].image = itemForm.image,
                   items'[itemForm.editing].here
            PROVE  items'[itemForm.editing].image = itemForm.image
        <5>1. itemForm.editing \in Item
          BY <4>3 DEF ImagesInv, ImagesTyped, ImagesTypeOK
        <5>2. CASE itemForm.editing # it
          BY <4>3, <5>1, <5>2, <1>4
        <5>3. CASE itemForm.editing = it
          <6>1. op.kind = "toggle"
            BY <3>2, <4>3, <5>3, <1>1, <1>4, <1>t DEF OpInv, ViewInv, it
          <6>2. im = items[it].image /\ items[it].here
            BY <6>1, <1>2, <1>t DEF OpInv, WriteInv, it, im
          <6> QED
            BY <4>3, <5>3, <6>2, <1>4
        <5> QED
          BY <5>2, <5>3
      <4> QED
        BY <4>1, <4>2, <4>3
    <3> QED
      BY <3>1, <3>2
  <2>5. KeptInv(ops[d])'
    <3> SUFFICES ASSUME NEW a \in assets
                 PROVE  a \in Images(items)' \cup Looked' \/ (itemForm.image = a /\ a \notin Images(loaded))
      BY <1>3 DEF KeptInv
    <3>1. a # None
      BY DEF ImagesInv, ImagesTyped, ImagesTypeOK, LegaciesDiffer
    <3>2. a \in Images(items) \cup Looked \/ (itemForm.image = a /\ a \notin Images(loaded))
      BY <1>t DEF OpInv, KeptInv
    <3> QED
      BY <3>1, <3>2, <1>5, <1>6
  <2> QED
    BY <2>1, <2>2, <2>3, <2>4, <2>5 DEF OpInv
<1> QED
  BY <1>11, <1>12, <1>13, <1>14, <1>15, <1>16 DEF ImagesInv

LEMMA LoadKeeps ==
  ASSUME LegaciesDiffer, ImagesInv, NEW o, Operation = {o}, LoadAndMigrate(o)
  PROVE  ImagesInv'
<1>t. /\ items \in ItemsType /\ StoredItems(items) /\ o \in Operation /\ assets \subseteq Asset
      /\ ops[o] \in OperationType /\ Proceeds(ops[o]) /\ OpInv(ops[o]) /\ ops[o].stage = "load"
      /\ DOMAIN ops = Operation
  BY DEF ImagesInv, ImagesTyped, ImagesTypeOK, LoadAndMigrate
<1>1. PICK done \in SUBSET Unmigrated(items) :
        /\ assets' = assets \cup {LegacyAsset[i] : i \in done}
        /\ ops' = [ops EXCEPT ![o].stage = "show",
            ![o].clone = [i \in Item |->
               IF i \in done THEN [items[i] EXCEPT !.image = LegacyAsset[i], !.legacy = FALSE]
               ELSE items[i]],
            ![o].migrated = done # {}]
  BY DEF LoadAndMigrate, StoreImported
<1>2. UNCHANGED <<items, loaded, itemForm, upload, checks>>
  BY DEF LoadAndMigrate
<1> DEFINE clone == [i \in Item |->
               IF i \in done THEN [items[i] EXCEPT !.image = LegacyAsset[i], !.legacy = FALSE]
               ELSE items[i]]
           some == done # {}
           new == [ops[o] EXCEPT !.stage = "show", !.clone = clone, !.migrated = some]
<1>3. ops' = [ops EXCEPT ![o] = new]
  BY <1>1
<1>4. done \subseteq Item /\ \A i \in done : items[i].legacy /\ LegacyAsset[i] \in Asset /\ LegacyAsset[i] # None
  BY DEF Unmigrated, LegaciesDiffer
<1>5. clone \in ItemsType
  BY <1>4, <1>t DEF ItemsType
<1>6. some \in BOOLEAN
  OBVIOUS
<1>7. ~some => clone = items
  BY <1>t DEF ItemsType
<1>8. \A i \in Item :
        \/ clone[i] = items[i]
        \/ i \in done /\ clone[i] = [items[i] EXCEPT !.image = LegacyAsset[i], !.legacy = FALSE]
  OBVIOUS
<1>9. \A i \in done : clone[i].image = LegacyAsset[i]
  BY <1>4, <1>t DEF ItemsType
<1> HIDE DEF clone, some
<1>10. /\ new \in OperationType /\ new.stage = "show" /\ new.clone = clone /\ new.migrated = some
       /\ new.kind = ops[o].kind /\ new.item = ops[o].item /\ new.image = ops[o].image
  BY <1>5, <1>6, <1>t DEF OperationType
<1> HIDE DEF new
<1>11. \A d \in Operation : ops'[d] = new
  BY <1>3, <1>t
<1>12. Looked' = Looked
  BY <1>2 DEF Looked
<1>13. \A i \in done : LegacyAsset[i] \in Legacies
  BY <1>4 DEF Legacies
<1>14. ImagesTyped'
  <2>0. assets' \subseteq Asset
    BY <1>1, <1>4, <1>t
  <2>1. ImagesTypeOK'
    BY <1>2, <2>0 DEF ImagesInv, ImagesTyped, ImagesTypeOK
  <2>2. Proceeds(new)
    BY <1>10, <1>t DEF Proceeds, Idle
  <2> QED
    BY <1>2, <1>3, <1>10, <1>11, <1>t, <2>1, <2>2 DEF ImagesInv, ImagesTyped
<1>15. UploadInv' /\ UnreferencedInv' /\ LegacyInv' /\ ReferencedImagesExist'
  BY <1>1, <1>2, <1>12, <1>13 DEF ImagesInv, UploadInv, Uploading, UnreferencedInv, LegacyInv,
     ReferencedImagesExist
<1>16. ASSUME NEW d \in Operation PROVE OpInv(ops[d])'
  <2>0. ops'[d] = new
    BY <1>11
  <2>1. ViewInv(ops[d])' /\ SubmitInv(ops[d])' /\ WriteInv(ops[d])'
    BY <2>0, <1>2, <1>10, <1>t DEF OpInv, ViewInv, SubmitInv, Uploading, WriteInv
  <2>2. CloneInv(ops[d])'
    <3>1. ASSUME NEW i \in Item
          PROVE  clone[i] = items[i] \/ ( /\ items[i].legacy /\ LegacyAsset[i] \in assets'
                                         /\ clone[i] = [items[i] EXCEPT !.image = LegacyAsset[i], !.legacy = FALSE])
      <4>1. i \in done => items[i].legacy /\ LegacyAsset[i] \in assets'
        BY <1>1, <1>4
      <4> QED
        BY <4>1, <1>8
    <3>2. items' = items /\ (ops[d])' = new
      BY <2>0, <1>2
    <3> QED
      BY <3>1, <3>2, <1>7, <1>10 DEF CloneInv, Imported
  <2>3. FormInv(ops[d])'
    BY <2>0, <1>1, <1>2, <1>10, <1>12, <1>t DEF OpInv, FormInv, Fresh, Saving
  <2>4. KeptInv(ops[d])'
    <3>1. \A i \in done : LegacyAsset[i] \in Images(clone)
      BY <1>4, <1>9 DEF Images
    <3>2. Images(items)' = Images(items) /\ Images(loaded)' = Images(loaded) /\ itemForm' = itemForm
      BY <1>2 DEF Images
    <3>3. Images(ops[d].clone)' = Images(clone) /\ ops'[d].stage = "show"
      BY <2>0, <1>10 DEF Images
    <3>4. ASSUME NEW a \in assets
          PROVE  a \in Images(items) \cup Looked \/ (itemForm.image = a /\ a \notin Images(loaded))
      BY <1>t DEF OpInv, KeptInv
    <3>5. \A a \in assets' : a \in assets \/ a \in Images(clone)
      BY <3>1, <1>1
    <3> QED
      BY <3>2, <3>3, <3>4, <3>5, <1>12 DEF KeptInv
  <2> QED
    BY <2>1, <2>2, <2>3, <2>4 DEF OpInv
<1> QED
  BY <1>14, <1>15, <1>16 DEF ImagesInv

LEMMA ShowKeeps ==
  ASSUME LegaciesDiffer, ImagesInv, NEW o, Operation = {o}, Show(o)
  PROVE  ImagesInv'
<1> DEFINE op == ops[o]
           clone == op.clone
           saving == op.kind \in {"create", "submit"}
           b == IF saving /\ op.image # op.shown THEN op.image ELSE None
<1>t. /\ items \in ItemsType /\ StoredItems(items) /\ o \in Operation
      /\ op \in OperationType /\ Proceeds(op) /\ OpInv(op) /\ op.stage = "show" /\ DOMAIN ops = Operation
  BY DEF ImagesInv, ImagesTyped, ImagesTypeOK, Show
<1>0. clone \in ItemsType /\ b \in Asset \cup {None}
  BY <1>t DEF OperationType, Image
<1>1. /\ loaded' = clone /\ items' = clone /\ ops' = [ops EXCEPT ![o] = Idle] /\ UNCHANGED <<assets, upload>>
      /\ checks' = checks \cup Check(b, "form")
      /\ itemForm' = IF saving THEN NoItemForm ELSE itemForm
  <2>1. ~op.migrated => clone = items
    BY <1>t DEF OpInv, CloneInv
  <2>2. items' = clone
    BY <2>1 DEF Show
  <2>3. Check(None, "form") = {}
    BY DEF Check
  <2>4. checks' = checks \cup Check(b, "form") /\ itemForm' = IF saving THEN NoItemForm ELSE itemForm
    BY <2>3 DEF Show
  <2> QED
    BY <2>2, <2>4 DEF Show
<1>2. saving => itemForm.image = op.image /\ itemForm.open /\ ~Uploading /\ op.image \in Images(items) \cup {None}
  BY <1>t DEF OpInv, SubmitInv
<1>3. Looked' = Looked \cup ({b} \ {None})
  <2> HIDE DEF b
  <2> QED  BY <1>1, LookedAfter DEF Looked
<1>4. /\ Check(b, "form") \subseteq [asset : Asset, by : Operation \cup {"form"}, unreferenced : BOOLEAN]
      /\ \A c \in Check(b, "form") : ~c.unreferenced
  <2> HIDE DEF b
  <2> QED  BY <1>0, CheckTyped
<1>5. ASSUME NEW i \in Item
      PROVE  \/ clone[i] = items[i]
             \/ /\ items[i].legacy /\ items[i].here /\ items[i].image = None /\ LegacyAsset[i] \in assets
                /\ clone[i].image = LegacyAsset[i] /\ clone[i].here /\ ~clone[i].legacy
  <2>1. clone[i] = items[i] \/ Imported(op, i)
    BY <1>t DEF OpInv, CloneInv
  <2>2. items[i].legacy => items[i].image = None /\ items[i].here
    BY <1>t DEF StoredItems, Absent
  <2>3. items[i] \in [here : BOOLEAN, image : Asset \cup {None}, legacy : BOOLEAN]
    BY <1>t DEF ItemsType
  <2> QED
    BY <2>1, <2>2, <2>3 DEF Imported
<1>6. b # None => saving /\ b = op.image
  OBVIOUS
<1> HIDE DEF op, clone, saving, b
<1>7. Images(items) \subseteq Images(clone)
  BY <1>5 DEF Images
<1>8. ASSUME NEW a \in Images(clone)
      PROVE  a \in Images(items) \/ \E i \in Item : items[i].legacy /\ a = LegacyAsset[i] /\ a \in assets
                                                    /\ ~clone[i].legacy
  <2>1. PICK i \in Item : clone[i].image = a /\ a # None
    BY DEF Images
  <2> QED
    BY <2>1, <1>5 DEF Images
<1>9. ReferencedImagesExist'
  BY <1>1, <1>8 DEF ImagesInv, ReferencedImagesExist
<1>10. UnreferencedInv'
  <2>1. \A c \in checks : c.asset \in Looked
    BY DEF Looked
  <2> QED
    BY <2>1, <1>1, <1>4, <1>8 DEF ImagesInv, UnreferencedInv, LegacyInv
<1>11. UploadInv'
  <2> SUFFICES ASSUME Uploading PROVE UploadInv'
    BY <1>1 DEF UploadInv, Uploading
  <2>1. ~saving /\ itemForm' = itemForm /\ Looked' = Looked
    BY <1>1, <1>2, <1>3, <1>6
  <2>2. upload.asset \notin Images(clone)
    BY <1>8 DEF ImagesInv, UploadInv, Legacies
  <2> QED
    BY <2>1, <2>2, <1>1 DEF ImagesInv, UploadInv
<1>12. LegacyInv'
  <2> SUFFICES ASSUME NEW i \in Item, clone[i].legacy
               PROVE  LegacyAsset[i] \notin Images(clone) \cup Looked' \cup {itemForm'.image}
    BY <1>1 DEF LegacyInv
  <2>1. items[i].legacy
    BY <1>5
  <2>2. LegacyAsset[i] \notin Images(items) \cup Looked \cup {itemForm.image} /\ LegacyAsset[i] # None
    BY <2>1 DEF ImagesInv, LegacyInv, LegaciesDiffer
  <2>3. LegacyAsset[i] \notin Images(clone)
    BY <2>2, <1>8 DEF LegaciesDiffer
  <2>4. LegacyAsset[i] \notin Looked'
    BY <2>2, <1>2, <1>3, <1>6
  <2>5. itemForm'.image \in {itemForm.image, None}
    BY <1>1 DEF NoItemForm
  <2> QED
    BY <2>2, <2>3, <2>4, <2>5
<1>13. ImagesTyped'
  <2>1. StoredItems(clone)
    BY <1>5, <1>t DEF StoredItems
  <2>2. checks' \subseteq [asset : Asset, by : Operation \cup {"form"}, unreferenced : BOOLEAN]
    BY <1>1, <1>4 DEF ImagesInv, ImagesTyped, ImagesTypeOK
  <2>3. itemForm' \in [open : BOOLEAN, editing : Item \cup {None}, image : Asset \cup {None}]
        /\ (~itemForm'.open => itemForm' = NoItemForm)
    BY <1>1 DEF ImagesInv, ImagesTyped, ImagesTypeOK, NoItemForm
  <2>4. ImagesTypeOK'
    BY <1>0, <1>1, <2>2, <2>3 DEF ImagesInv, ImagesTyped, ImagesTypeOK
  <2>5. Idle \in OperationType /\ Proceeds(Idle)
    <3>1. [i \in Item |-> Absent] \in ItemsType
      BY DEF ItemsType, Absent
    <3> QED
      BY <3>1 DEF Idle, OperationType, Image, Proceeds
  <2>6. \A d \in Operation : ops'[d] = Idle
    BY <1>1, <1>t
  <2> QED
    BY <1>1, <1>t, <2>1, <2>3, <2>4, <2>5, <2>6 DEF ImagesTyped, StoredItems
<1>14. ASSUME NEW d \in Operation PROVE OpInv(ops[d])'
  <2>0. ops'[d] = Idle /\ Idle.kind = "none" /\ Idle.stage = "none"
    BY <1>1, <1>t DEF Idle
  <2>1. ViewInv(ops[d])'
    BY <2>0, <1>1 DEF ViewInv
  <2>2. CloneInv(ops[d])' /\ SubmitInv(ops[d])' /\ WriteInv(ops[d])'
    BY <2>0 DEF CloneInv, SubmitInv, WriteInv
  <2>3. FormInv(ops[d])'
    <3> SUFFICES ASSUME itemForm'.open, itemForm'.image # None
                 PROVE  \/ Fresh(itemForm.image)'
                        \/ itemForm'.editing # None /\ (clone[itemForm'.editing].here => clone[itemForm'.editing].image = itemForm'.image)
      BY <1>1 DEF FormInv
    <3>1. ~saving /\ itemForm' = itemForm
      BY <1>1 DEF NoItemForm
    <3>2. \/ Fresh(itemForm.image)
          \/ itemForm.editing # None /\ (items[itemForm.editing].here => items[itemForm.editing].image = itemForm.image)
      BY <3>1, <1>t DEF OpInv, FormInv, Saving, saving
    <3>3. ASSUME Fresh(itemForm.image) PROVE Fresh(itemForm.image)'
      <4>1. itemForm.image \notin Images(clone)
        BY <3>3, <1>8 DEF Fresh, Legacies
      <4>2. Looked' = Looked
        BY <3>1, <1>3, <1>6
      <4> QED
        BY <3>1, <3>3, <4>1, <4>2, <1>1 DEF Fresh
    <3>4. itemForm.editing # None => itemForm.editing \in Item
      BY DEF ImagesInv, ImagesTyped, ImagesTypeOK
    <3> QED
      BY <3>1, <3>2, <3>3, <3>4, <1>5
  <2>4. KeptInv(ops[d])'
    <3> SUFFICES ASSUME NEW a \in assets
                 PROVE  a \in Images(clone) \cup Looked' \/ (itemForm'.image = a /\ a \notin Images(clone))
      BY <1>1 DEF KeptInv
    <3>1. a # None
      BY DEF ImagesInv, ImagesTyped, ImagesTypeOK, LegaciesDiffer
    <3>2. a \in Images(items) \cup Looked \/ itemForm.image = a \/ a \in Images(clone)
      BY <1>t DEF OpInv, KeptInv, clone
    <3>3. saving \/ itemForm' = itemForm
      BY <1>1
    <3> QED
      BY <3>1, <3>2, <3>3, <1>2, <1>3, <1>7
  <2> QED
    BY <2>1, <2>2, <2>3, <2>4 DEF OpInv
<1> QED
  BY <1>9, <1>10, <1>11, <1>12, <1>13, <1>14 DEF ImagesInv

LEMMA ImagesBegin == ASSUME LegaciesDiffer, ImagesInit PROVE ImagesInv
<1>1. Images(loaded) = {}
  BY DEF ImagesInit, Images, Absent
<1>2. \A i \in Item : items[i] \in {Absent, [here |-> TRUE, image |-> None, legacy |-> TRUE]}
  BY DEF ImagesInit
<1>3. Images(items) = {}
  BY <1>2 DEF Images, Absent
<1>4. Looked = {}
  BY DEF ImagesInit, Looked
<1>5. [i \in Item |-> Absent] \in ItemsType
  BY DEF ItemsType, Absent
<1>6. items \in ItemsType /\ StoredItems(items)
  <2> DEFINE first == [here |-> TRUE, image |-> None, legacy |-> TRUE]
             entry == [here : BOOLEAN, image : Asset \cup {None}, legacy : BOOLEAN]
  <2>1. first \in entry /\ Absent \in entry
    BY DEF Absent
  <2>2. first.here /\ first.image = None
    OBVIOUS
  <2>3. ~Absent.legacy
    BY DEF Absent
  <2>4. items \in [Item -> {Absent, first}]
    BY DEF ImagesInit
  <2> HIDE DEF first, entry
  <2>5. items \in [Item -> entry] /\ StoredItems(items)
    BY <2>1, <2>2, <2>3, <2>4 DEF StoredItems
  <2> QED
    BY <2>5 DEF ItemsType, entry
<1>7. Idle \in OperationType /\ Proceeds(Idle) /\ Idle.kind = "none" /\ Idle.stage = "none"
  BY <1>5 DEF Idle, OperationType, Image, Proceeds
<1>8. ImagesTyped
  BY <1>5, <1>6, <1>7 DEF ImagesInit, ImagesTyped, ImagesTypeOK, NoItemForm, NoUpload
<1>9. UploadInv /\ UnreferencedInv /\ ReferencedImagesExist
  BY <1>3 DEF ImagesInit, UploadInv, Uploading, UnreferencedInv, ReferencedImagesExist
<1>10. LegacyInv
  BY <1>1, <1>3, <1>4 DEF ImagesInit, LegacyInv, NoItemForm, LegaciesDiffer
<1>11. OpInv(Idle)
  <2>1. loaded = [i \in Item |-> Absent] /\ itemForm.image = None /\ assets = {} /\ \A i \in Item : ~loaded[i].here
    BY DEF ImagesInit, NoItemForm, Absent
  <2> QED
    BY <1>7, <2>1 DEF OpInv, ViewInv, CloneInv, SubmitInv, WriteInv, FormInv, KeptInv
<1> QED
  BY <1>8, <1>9, <1>10, <1>11 DEF ImagesInv, ImagesInit

LEMMA ImagesStep ==
  ASSUME LegaciesDiffer, ImagesInv, Patient, NEW o, Operation = {o}, [ImagesNext]_imagesVars
  PROVE  ImagesInv'
<1>1. CASE UNCHANGED imagesVars
  <2>1. UNCHANGED <<items, assets, loaded, itemForm, upload, ops, checks>>
    BY <1>1 DEF imagesVars
  <2>2. ImagesTyped'
    BY <2>1 DEF ImagesInv, ImagesTyped, ImagesTypeOK
  <2>3. ASSUME NEW d \in Operation PROVE OpInv(ops[d])'
    <3>1. OpInv(ops[d])
      BY DEF ImagesInv
    <3>2. Looked' = Looked /\ Images(items)' = Images(items) /\ Images(loaded)' = Images(loaded)
      BY <2>1 DEF Looked, Images
    <3>3. (ops[d])' = ops[d]
      BY <2>1
    <3>4. ViewInv(ops[d])' /\ SubmitInv(ops[d])' /\ WriteInv(ops[d])'
      BY <2>1, <3>1, <3>2, <3>3 DEF OpInv, ViewInv, SubmitInv, Uploading, WriteInv
    <3>5. CloneInv(ops[d])'
      BY <2>1, <3>1, <3>3 DEF OpInv, CloneInv, Imported
    <3>6. FormInv(ops[d])'
      BY <2>1, <3>1, <3>2, <3>3 DEF OpInv, FormInv, Fresh, Saving
    <3>7. KeptInv(ops[d])'
      <4>1. Images(ops[d].clone)' = Images(ops[d].clone)
        BY <3>3 DEF Images
      <4> QED
        BY <2>1, <3>1, <3>2, <3>3, <4>1 DEF OpInv, KeptInv
    <3> QED
      BY <3>4, <3>5, <3>6, <3>7 DEF OpInv
  <2>4. UploadInv' /\ UnreferencedInv' /\ LegacyInv' /\ ReferencedImagesExist'
    BY <2>1 DEF ImagesInv, UploadInv, Uploading, UnreferencedInv, LegacyInv, ReferencedImagesExist,
       Looked
  <2> QED
    BY <2>2, <2>3, <2>4 DEF ImagesInv
<1>2. CASE FormNext
  BY <1>2, StartKeeps, GiveUpKeeps, BeginUploadKeeps, FailUploadKeeps,
     FinishUploadKeeps DEF FormNext
<1>3. CASE OperationNext(o)
  BY <1>3, BeginKeeps, ListPreviousKeeps, WriteKeeps, LoadKeeps, ShowKeeps DEF OperationNext
<1> QED
  BY <1>1, <1>2, <1>3, LookKeeps, RemoveKeeps DEF ImagesNext

LEMMA ImagesKept ==
  ASSUME Patient, NEW CONSTANT o, Operation = {o}
  PROVE  ImagesSpec => []ImagesInv
<1>0. LegaciesDiffer
  BY LegacyAssumption, NoneAssumption DEF LegaciesDiffer
<1>1. ImagesInit => ImagesInv
  BY <1>0, ImagesBegin
<1>2. ImagesInv /\ [ImagesNext]_imagesVars => ImagesInv'
  BY <1>0, ImagesStep
<1> QED
  BY <1>1, <1>2, PTL DEF ImagesSpec

\* Every image that a stored item of the menu has is there, for every set of items and assets:
\* with one operation of the tab under way at a time, and a user who waits for an upload or a
\* save before touching the form (deleteAssetIfUnreferenced, the repositories' update and delete).
THEOREM ImagesExist ==
  ASSUME Patient, NEW CONSTANT o, Operation = {o}
  PROVE  ImagesSpec => []ReferencedImagesExist
<1>1. ImagesInv => ReferencedImagesExist
  BY DEF ImagesInv
<1> QED
  BY <1>1, ImagesKept, PTL

\* Under the same conditions the tab at rest has no asset that no item refers to.
THEOREM NothingLeftBehind ==
  ASSUME Patient, NEW CONSTANT o, Operation = {o}
  PROVE  ImagesSpec => []NoOrphans
<1>1. ImagesInv => NoOrphans
  <2> SUFFICES ASSUME ImagesInv, ~itemForm.open, checks = {}, ops[o] = Idle, NEW a \in assets
               PROVE  a \in Images(items)
    BY DEF NoOrphans, ImagesInv
  <2>1. Looked = {} /\ itemForm = NoItemForm /\ a # None
    BY NoneAssumption DEF Looked, ImagesInv, ImagesTyped, ImagesTypeOK
  <2>2. KeptInv(Idle) /\ Idle.stage = "none" /\ itemForm.image = None
    BY <2>1 DEF ImagesInv, OpInv, NoItemForm, Idle
  <2> QED
    BY <2>1, <2>2 DEF KeptInv
<1> QED
  BY <1>1, ImagesKept, PTL

=============================================================================
