----------------------------- MODULE MenuImages -----------------------------
(***************************************************************************)
(* The images of the menu in a manager's tab: the items in the browser's   *)
(* local storage, the assets in IndexedDB, the form with its upload, and   *)
(* the removal of assets that nothing refers to any more (repositories.ts, *)
(* workspace-store, resource-screen, form-controls, menu-image-migration,  *)
(* the media package).                                                     *)
(*                                                                         *)
(* No transaction spans the two stores.  An operation reads, writes,       *)
(* looks for references and removes in steps with waits in between; what   *)
(* a form gives up is removed on the side, and an upload ends when the     *)
(* form may be another one.  Items and categories are treated alike by     *)
(* everything here and are not told apart.                                 *)
(***************************************************************************)
EXTENDS Naturals, FiniteSets

CONSTANTS
  Item, Asset,
  LegacyAsset,  \* the asset made of the image that an item of the first versions carries
  None,
  Operation,    \* operations that a tab has under way at once
  Patient       \* whether the user waits for an upload or a save before touching the form

ASSUME LegacyAssumption ==
  LegacyAsset \in [Item -> Asset] /\ \A i, j \in Item : LegacyAsset[i] = LegacyAsset[j] => i = j
ASSUME NoneAssumption == None \notin Item \cup Asset

VARIABLES
  items,    \* the stored items
  assets,   \* the stored assets
  loaded,   \* the items as the tab loaded them last
  itemForm, \* the open form
  upload,   \* the image that is being uploaded, and the form it was chosen in
  ops,      \* the operations under way
  checks    \* the assets about to be removed if nothing refers to them

imagesVars == <<items, assets, loaded, itemForm, upload, ops, checks>>

Absent == [here |-> FALSE, image |-> None, legacy |-> FALSE]
Images(s) == {s[i].image : i \in Item} \ {None}

NoItemForm == [open |-> FALSE, editing |-> None, image |-> None]
NoUpload == [asset |-> None, image |-> None]
Idle == [kind |-> "none", stage |-> "none", item |-> None, image |-> None, shown |-> None,
         previous |-> None, clone |-> [i \in Item |-> Absent], migrated |-> FALSE]

Uploading == upload # NoUpload
Submitting == \E o \in Operation : ops[o].kind \in {"create", "submit"}
Touchable == Patient => ~Uploading /\ ~Submitting

\* The images that the tab still has in hand.
InHand ==
  Images(items) \cup Images(loaded) \cup {c.asset : c \in checks}
    \cup {itemForm.image, upload.asset, upload.image}
    \cup UNION {{ops[o].image, ops[o].shown, ops[o].previous} \cup Images(ops[o].clone) : o \in Operation}

-----------------------------------------------------------------------------
(* The removal of an asset: the references are read, then the asset is      *)
(* deleted, record and binary in one transaction.                           *)

Check(a, by) == IF a = None THEN {} ELSE {[asset |-> a, by |-> by, unreferenced |-> FALSE]}

\* Mutant: the asset is removed though another item has it too.
LookForNothing(c) ==
  /\ c \in checks /\ ~c.unreferenced
  /\ checks' = (checks \ {c}) \cup {[c EXCEPT !.unreferenced = TRUE]}
  /\ UNCHANGED <<items, assets, loaded, itemForm, upload, ops>>

LookForReferences(c) ==
  /\ c \in checks /\ ~c.unreferenced
  /\ checks' = IF c.asset \in Images(items) THEN checks \ {c}
               ELSE (checks \ {c}) \cup {[c EXCEPT !.unreferenced = TRUE]}
  /\ UNCHANGED <<items, assets, loaded, itemForm, upload, ops>>

RemoveAsset(c) ==
  /\ c \in checks /\ c.unreferenced
  /\ assets' = assets \ {c.asset}
  /\ checks' = checks \ {c}
  /\ UNCHANGED <<items, loaded, itemForm, upload, ops>>

-----------------------------------------------------------------------------
(* The form.                                                                *)

StartCreate ==
  /\ Patient => ~itemForm.open /\ ~Uploading
  /\ itemForm' = [open |-> TRUE, editing |-> None, image |-> None]
  /\ UNCHANGED <<items, assets, loaded, upload, ops, checks>>

StartEdit(i) ==
  /\ Patient => ~itemForm.open /\ ~Uploading
  /\ loaded[i].here
  /\ itemForm' = [open |-> TRUE, editing |-> i, image |-> loaded[i].image]
  /\ UNCHANGED <<items, assets, loaded, upload, ops, checks>>

\* What closing a form looks at: the image that it has and that the item did not have before.
Given(f, s) ==
  IF f.editing # None /\ f.image = s[f.editing].image THEN None ELSE f.image

CloseItemForm ==
  /\ itemForm.open /\ Touchable
  /\ checks' = checks \cup Check(Given(itemForm, loaded), "form")
  /\ itemForm' = NoItemForm
  /\ UNCHANGED <<items, assets, loaded, upload, ops>>

\* The image is taken out of the form.
ClearImage ==
  /\ itemForm.open /\ itemForm.image # None /\ Touchable
  /\ checks' = checks \cup Check(itemForm.image, "form")
  /\ itemForm' = [itemForm EXCEPT !.image = None]
  /\ UNCHANGED <<items, assets, loaded, upload, ops>>

\* An image is chosen: it is decoded, scaled and encoded, and stored under a new identifier.
BeginUpload(a) ==
  /\ itemForm.open /\ Touchable /\ ~Uploading
  /\ a \notin assets \cup InHand \cup {LegacyAsset[i] : i \in Item}
  /\ upload' = [asset |-> a, image |-> itemForm.image]
  /\ UNCHANGED <<items, assets, loaded, itemForm, ops, checks>>

\* The file is refused, cannot be decoded or cannot be stored.
FailUpload ==
  /\ Uploading
  /\ upload' = NoUpload
  /\ UNCHANGED <<items, assets, loaded, itemForm, ops, checks>>

\* A new record with its binary; an identifier that is there already keeps its record.
StoreLocal(a) == assets' = assets \cup {a}

\* The image is put in the form it was chosen in: a form that was closed meanwhile is open
\* again, and an item that is being edited meanwhile stays the one that is edited.
FinishUpload ==
  /\ Uploading
  /\ StoreLocal(upload.asset)
  /\ itemForm' = [itemForm EXCEPT !.open = TRUE, !.image = upload.asset]
  /\ checks' = checks \cup Check(upload.image, "form")
  /\ upload' = NoUpload
  /\ UNCHANGED <<items, loaded, ops>>

-----------------------------------------------------------------------------
(* The operations of the tab.                                               *)

Begin(o, kind, stage, i, image, shown) ==
  /\ ops[o] = Idle
  /\ ops' = [ops EXCEPT ![o] = [Idle EXCEPT !.kind = kind, !.stage = stage, !.item = i,
                                            !.image = image, !.shown = shown]]
  /\ UNCHANGED <<items, assets, loaded, itemForm, upload, checks>>

NewItem(i) ==
  /\ ~items[i].here /\ ~loaded[i].here /\ itemForm.editing # i
  /\ \A o \in Operation : ops[o].item # i

\* The form is saved: a new item, or the item as the form has it.
SubmitNew(o, i) ==
  /\ itemForm.open /\ itemForm.editing = None /\ Touchable /\ ~Submitting
  /\ NewItem(i)
  /\ Begin(o, "create", "write", i, itemForm.image, None)

SubmitEdit(o) ==
  /\ itemForm.open /\ itemForm.editing # None /\ Touchable /\ ~Submitting
  /\ loaded[itemForm.editing].here
  /\ Begin(o, "submit", "list", itemForm.editing, itemForm.image, loaded[itemForm.editing].image)

\* Row buttons: the item is written as the tab knows it, copied, or deleted.
ToggleStatus(o, i) ==
  /\ loaded[i].here
  /\ Begin(o, "toggle", "list", i, loaded[i].image, loaded[i].image)

Duplicate(o, i, j) ==
  /\ loaded[i].here /\ NewItem(j)
  /\ Begin(o, "duplicate", "write", j, loaded[i].image, None)

Delete(o, i) ==
  /\ loaded[i].here
  /\ Begin(o, "delete", "list", i, None, None)

\* A page is opened.
Load(o) == Begin(o, "load", "load", None, None, None)

\* The repository notes the image that the item has.
ListPrevious(o) ==
  /\ ops[o].stage = "list"
  /\ ops' = [ops EXCEPT ![o].stage = "write", ![o].previous = items[ops[o].item].image]
  /\ UNCHANGED <<items, assets, loaded, itemForm, upload, checks>>

\* An image replaces the one that the item carried in the first versions.
Saved(op) ==
  [here |-> TRUE, image |-> op.image, legacy |-> items[op.item].legacy /\ op.image = None]

\* Mutant: the image of a deleted item is not looked for.
GivenUpByUpdate(op) ==
  IF op.kind = "delete" THEN {} ELSE {op.previous, op.shown} \ {op.image}

\* The images that an operation may have given up: the one that the repository noted, and the
\* one that the tab showed.
GivenUp(op) == {op.previous, op.shown} \ {op.image}

\* The stored items are read, changed and written in one step.  An item that another
\* operation has deleted is not found, and the operation ends there.
Write(o) ==
  LET op == ops[o] IN
  /\ op.stage = "write"
  /\ IF items[op.item].here \/ op.kind \in {"create", "duplicate"}
     THEN /\ items' = [items EXCEPT ![op.item] = IF op.kind = "delete" THEN Absent ELSE Saved(op)]
          /\ ops' = [ops EXCEPT ![o].stage = "load"]
          /\ checks' = checks \cup UNION {Check(a, o) : a \in GivenUp(op)}
     ELSE /\ ops' = [ops EXCEPT ![o] = Idle]
          /\ UNCHANGED <<items, checks>>
  /\ UNCHANGED <<assets, loaded, itemForm, upload>>

\* The items whose old image is yet to be made an asset.
Unmigrated(s) == {i \in Item : s[i].here /\ s[i].legacy /\ s[i].image = None}

\* The images of the first versions, as records with their binary or their address.
StoreImported(done) == assets' = assets \cup {LegacyAsset[i] : i \in done}

\* When what the operation gave up has been looked for, the items are loaded.  The images
\* of the first versions are made assets on the way, those that can be.
LoadAndMigrate(o) ==
  /\ ops[o].stage = "load" /\ \A c \in checks : c.by # o
  /\ \E done \in SUBSET Unmigrated(items) :
       /\ StoreImported(done)
       /\ ops' = [ops EXCEPT ![o].stage = "show",
            ![o].clone = [i \in Item |->
               IF i \in done THEN [items[i] EXCEPT !.image = LegacyAsset[i], !.legacy = FALSE]
               ELSE items[i]],
            ![o].migrated = done # {}]
  /\ UNCHANGED <<items, loaded, itemForm, upload, checks>>

\* The copy that was migrated is stored, over what was stored meanwhile.
Show(o) ==
  LET op == ops[o] IN
  /\ op.stage = "show"
  /\ loaded' = op.clone
  /\ items' = IF op.migrated THEN op.clone ELSE items
  /\ ops' = [ops EXCEPT ![o] = Idle]
  /\ IF op.kind \in {"create", "submit"}
     THEN /\ itemForm' = NoItemForm
          /\ checks' = checks \cup (IF op.image = op.shown THEN {} ELSE Check(op.image, "form"))
     ELSE UNCHANGED <<itemForm, checks>>
  /\ UNCHANGED <<assets, upload>>

-----------------------------------------------------------------------------

ImagesInit ==
  /\ items \in [Item -> {Absent, [here |-> TRUE, image |-> None, legacy |-> TRUE]}]
  /\ assets = {}
  /\ loaded = [i \in Item |-> Absent]
  /\ itemForm = NoItemForm
  /\ upload = NoUpload
  /\ ops = [o \in Operation |-> Idle]
  /\ checks = {}

FormNext ==
  \/ StartCreate \/ CloseItemForm \/ ClearImage \/ FailUpload \/ FinishUpload
  \/ \E i \in Item : StartEdit(i)
  \/ \E a \in Asset : BeginUpload(a)

OperationNext(o) ==
  \/ SubmitEdit(o) \/ Load(o) \/ ListPrevious(o) \/ Write(o) \/ LoadAndMigrate(o) \/ Show(o)
  \/ \E i \in Item : SubmitNew(o, i)
  \/ \E i \in Item : ToggleStatus(o, i)
  \/ \E i \in Item : Delete(o, i)
  \/ \E i, j \in Item : Duplicate(o, i, j)

ImagesNext ==
  \/ FormNext
  \/ \E o \in Operation : OperationNext(o)
  \/ \E c \in checks : LookForReferences(c)
  \/ \E c \in checks : RemoveAsset(c)

ImagesSpec == ImagesInit /\ [][ImagesNext]_imagesVars

-----------------------------------------------------------------------------

ItemsType == [Item -> [here : BOOLEAN, image : Asset \cup {None}, legacy : BOOLEAN]]

ImagesTypeOK ==
  /\ items \in ItemsType /\ loaded \in ItemsType /\ assets \subseteq Asset
  /\ itemForm \in [open : BOOLEAN, editing : Item \cup {None}, image : Asset \cup {None}]
  /\ upload \in [asset : Asset \cup {None}, image : Asset \cup {None}]
  /\ checks \subseteq [asset : Asset, by : Operation \cup {"form"}, unreferenced : BOOLEAN]

\* The image of every stored item is there, however often images were replaced, shared by
\* copies, given up or migrated.
ReferencedImagesExist == Images(items) \subseteq assets

\* Nothing is left behind: when the tab is at rest, every asset is the image of an item.
NoOrphans ==
  (~itemForm.open /\ ~Uploading /\ checks = {} /\ \A o \in Operation : ops[o] = Idle)
    => assets \subseteq Images(items)
=============================================================================
