----------------------------- MODULE Suppliers -----------------------------
(***************************************************************************)
(* The suppliers of one Coffee project and their assortment: which         *)
(* supplier offers which resource, and who is preferred for it             *)
(* (purchasing/service.ts and its screen over purchasing/repository.ts).   *)
(*                                                                         *)
(* Every access first makes assortment entries of the supplier references  *)
(* that ingredients still carry from earlier versions.  Suppliers are part *)
(* of the configuration, entries and documents are the store of            *)
(* Purchasing.  A repository call reads and writes one of them in a step;  *)
(* a handler makes several calls, and those of two tabs, or of two clicks  *)
(* in one tab, for no button is disabled meanwhile, may be under way at    *)
(* once.                                                                   *)
(*                                                                         *)
(* Names, prices, packages, the status of suppliers and entries, and the   *)
(* warnings about references to unknown suppliers are left out.  Resources *)
(* stay active.  A handler that throws before it writes is no step.        *)
(***************************************************************************)
EXTENDS Naturals, FiniteSets

CONSTANTS
  Supplier, Resource,
  NewId,       \* bound: identifiers of entries that a form creates
  MaxEntries,  \* bound: entries while a new one is begun
  References,  \* the pairs of a supplier and a resource the ingredients carry
  Favourites,  \* those of them that name the preferred supplier of the ingredient
  Caller,      \* operations that may be under way at once
  Absent       \* no entry, no identifier in the form, nothing

ASSUME ReferencesAssumption ==
  References \subseteq Supplier \X Resource /\ Favourites \subseteq References

VARIABLES
  suppliers,   \* "unused", "kept" or "removed"
  assortment,  \* the entry under each identifier
  documents,   \* the suppliers that orders and their deliveries name
  handlers,    \* what each caller has in hand
  alone        \* no other operation was under way since this caller's began

suppliersVars == <<suppliers, assortment, documents, handlers, alone>>

Id == ({"legacy", "delivery"} \X Supplier \X Resource) \cup NewId

Entry(s, r, preferred) == [supplier |-> s, resource |-> r, preferred |-> preferred]

ASSUME AbsentAssumption ==
  /\ Absent \notin Id
  /\ \A s \in Supplier, r \in Resource, preferred \in BOOLEAN : Entry(s, r, preferred) # Absent

Entries == {i \in Id : assortment[i] # Absent}
OfPair(s, r) == {i \in Entries : assortment[i].supplier = s /\ assortment[i].resource = r}
PreferredOf(r) == {i \in Entries : assortment[i].resource = r /\ assortment[i].preferred}
Kept == {s \in Supplier : suppliers[s] = "kept"}

Idle == [kind |-> "idle"]
Busy(c) == handlers[c].kind \notin {"idle", "form"}

\* A step of c: no other operation is alone any more.
Overlap(c, own) == alone' = [d \in Caller |-> d = c /\ own]

\* The repository replaces the entry with this identifier, or adds it.
Save(i, entry) == assortment' = [assortment EXCEPT ![i] = entry]

Waits(c, handler) == handlers' = [handlers EXCEPT ![c] = handler]

-----------------------------------------------------------------------------
(* Access and the references of earlier versions.                          *)

LegacyId(p) == <<"legacy", p[1], p[2]>>

\* The references to suppliers of the configuration that have no entry.
Missing == {p \in References : p[1] \in Kept /\ assortment[LegacyId(p)] = Absent}

\* operationalState reads the configuration, and then the store for the first time.
Begin(c, handler) ==
  /\ Waits(c, [handler EXCEPT !.todo = Missing])
  /\ Overlap(c, \A d \in Caller \ {c} : ~Busy(d))
  /\ UNCHANGED <<suppliers, assortment, documents>>

Operation(kind, s, r, preferred, id) ==
  [kind |-> kind, todo |-> {}, entry |-> Entry(s, r, preferred), id |-> id,
   clears |-> {}]

\* migrateLegacyAssortment saves the next entry and goes on with the store it is given.
Migrate(c) ==
  /\ handlers[c].kind \in {"read", "order", "posting", "save"}
  /\ \E p \in handlers[c].todo :
       /\ Save(LegacyId(p), Entry(p[1], p[2], p \in Favourites))
       /\ handlers' = [handlers EXCEPT ![c].todo = @ \ ({p} \cup
            {q \in References : assortment[LegacyId(q)] # Absent})]
  /\ Overlap(c, alone[c])
  /\ UNCHANGED <<suppliers, documents>>

\* Mutant: the store is read while the migration goes on.
ReadsAtOnce(c, kind) == handlers[c].kind = kind

\* The migration is over, and the handler reads the store again.
Reads(c, kind) == handlers[c].kind = kind /\ handlers[c].todo = {}

Done(c) ==
  /\ handlers' = [handlers EXCEPT ![c] = Idle]
  /\ Overlap(c, FALSE)

\* load and queryOperations.
BeginRead(c) ==
  /\ handlers[c] = Idle
  /\ Begin(c, Operation("read", Absent, Absent, FALSE, Absent))

FinishRead(c) ==
  /\ Reads(c, "read")
  /\ Done(c)
  /\ UNCHANGED <<suppliers, assortment, documents>>

-----------------------------------------------------------------------------
(* Documents.                                                              *)

BeginOrder(c, s) ==
  /\ handlers[c] = Idle
  /\ s \in Kept
  /\ Begin(c, Operation("order", s, Absent, FALSE, Absent))

\* createOrder, with the supplier it found when it read the configuration.
FinishOrder(c) ==
  /\ Reads(c, "order")
  /\ documents' = documents \cup {handlers[c].entry.supplier}
  /\ Done(c)
  /\ UNCHANGED <<suppliers, assortment>>

BeginPosting(c, s, r) ==
  /\ handlers[c] = Idle
  /\ s \in documents
  /\ Cardinality(Entries) < MaxEntries
  /\ Begin(c, Operation("posting", s, r, FALSE, Absent))

\* postDelivery reads the entry whose price the delivery updates, and waits for the Warehouse.
ReadPosting(c) ==
  LET e == handlers[c].entry
  IN  /\ Reads(c, "posting")
      /\ IF OfPair(e.supplier, e.resource) = {}
           THEN Waits(c, [handlers[c] EXCEPT !.kind = "commit",
                            !.id = <<"delivery", e.supplier, e.resource>>])
           ELSE \E i \in OfPair(e.supplier, e.resource) :
                  Waits(c, [handlers[c] EXCEPT !.kind = "commit", !.id = i,
                              !.entry = assortment[i]])
      /\ Overlap(c, alone[c])
      /\ UNCHANGED <<suppliers, assortment, documents>>

\* commitPostedDelivery writes that entry as it was read.
FinishPosting(c) ==
  /\ handlers[c].kind = "commit"
  /\ Save(handlers[c].id, handlers[c].entry)
  /\ Done(c)
  /\ UNCHANGED <<suppliers, documents>>

-----------------------------------------------------------------------------
(* The assortment form.                                                    *)

\* The form of an entry the screen shows, or an empty one.
OpenForm(c, i) ==
  /\ handlers[c] = Idle
  /\ i \in Entries \/ (i = Absent /\ Cardinality(Entries) < MaxEntries)
  /\ Waits(c, [kind |-> "form", id |-> i])
  /\ UNCHANGED <<suppliers, assortment, documents, alone>>

\* An entry of the list may be edited into another pair.  saveAssortment reads the
\* configuration, where it finds the supplier.
SubmitForm(c, s, r, preferred) ==
  /\ handlers[c].kind = "form"
  /\ s \in Kept
  /\ Cardinality(Entries) <= MaxEntries
  /\ Begin(c, Operation("save", s, r, preferred, handlers[c].id))

\* The entry a save writes: the edited one, one of the same pair, or a new one.
Target(c) ==
  LET e == handlers[c].entry
      same == OfPair(e.supplier, e.resource)
  IN  IF handlers[c].id # Absent THEN {handlers[c].id}
      ELSE IF same # {} THEN same
      ELSE NewId \ Entries

\* Mutant: only the other entries of the same supplier lose the mark.
ClearsOfSupplier(e, target) ==
  IF e.preferred
    THEN {i \in PreferredOf(e.resource) \ {target} : assortment[i].supplier = e.supplier}
    ELSE {}

\* The entries a preferred one takes the mark from.
Clears(e, target) == IF e.preferred THEN PreferredOf(e.resource) \ {target} ELSE {}

\* saveAssortment has read the store: what it will write is settled.
Resolve(c) ==
  LET e == handlers[c].entry
  IN  /\ Reads(c, "save")
      /\ \E target \in Target(c) :
           Waits(c, [handlers[c] EXCEPT !.kind = "write", !.id = target,
                       !.clears = {<<i, assortment[i]>> : i \in Clears(e, target)}])
      /\ Overlap(c, alone[c])
      /\ UNCHANGED <<suppliers, assortment, documents>>

\* One of the others is saved as it was read, without the mark.
ClearOne(c) ==
  /\ handlers[c].kind = "write"
  /\ \E item \in handlers[c].clears :
       /\ Save(item[1], [item[2] EXCEPT !.preferred = FALSE])
       /\ handlers' = [handlers EXCEPT ![c].clears = @ \ {item}]
  /\ Overlap(c, alone[c])
  /\ UNCHANGED <<suppliers, documents>>

FinishSave(c) ==
  /\ handlers[c].kind = "write"
  /\ handlers[c].clears = {}
  /\ Save(handlers[c].id, handlers[c].entry)
  /\ Done(c)
  /\ UNCHANGED <<suppliers, documents>>

\* removeAssortment does not migrate.
RemoveAssortment(c, i) ==
  /\ handlers[c] = Idle
  /\ i \in Entries
  /\ Save(i, Absent)
  /\ Overlap(c, FALSE)
  /\ UNCHANGED <<suppliers, documents, handlers>>

-----------------------------------------------------------------------------
(* Suppliers.                                                              *)

\* saveSupplier of an empty form.  An edited supplier keeps its identity.
CreateSupplier(c, s) ==
  /\ handlers[c] = Idle
  /\ suppliers[s] = "unused"
  /\ suppliers' = [suppliers EXCEPT ![s] = "kept"]
  /\ Overlap(c, FALSE)
  /\ UNCHANGED <<assortment, documents, handlers>>

InUse(s) ==
  \/ s \in documents
  \/ \E i \in Entries : assortment[i].supplier = s

\* deleteSupplier looks at the store of Purchasing ...
BeginDelete(c, s) ==
  /\ handlers[c] = Idle
  /\ s \in Kept
  /\ ~InUse(s)
  /\ Waits(c, Operation("delete", s, Absent, FALSE, Absent))
  /\ Overlap(c, FALSE)
  /\ UNCHANGED <<suppliers, assortment, documents>>

\* ... and, a timer later, removes the supplier from the configuration.
FinishDelete(c) ==
  /\ handlers[c].kind = "delete"
  /\ suppliers' = [suppliers EXCEPT ![handlers[c].entry.supplier] = "removed"]
  /\ Done(c)
  /\ UNCHANGED <<assortment, documents>>

\* The configuration's own screen looks at the references of ingredients only.
RemoveInConfiguration(c, s) ==
  /\ handlers[c] = Idle
  /\ s \in Kept
  /\ \A p \in References : p[1] # s
  /\ suppliers' = [suppliers EXCEPT ![s] = "removed"]
  /\ Overlap(c, FALSE)
  /\ UNCHANGED <<assortment, documents, handlers>>

\* The storage is full, an access check fails, the form or the tab is closed.
Abandon(c) ==
  /\ handlers[c] # Idle
  /\ Done(c)
  /\ UNCHANGED <<suppliers, assortment, documents>>

-----------------------------------------------------------------------------
CONSTANT Seeded  \* the suppliers the project begins with

SuppliersInit ==
  /\ suppliers = [s \in Supplier |-> IF s \in Seeded THEN "kept" ELSE "unused"]
  /\ assortment = [i \in Id |-> Absent]
  /\ documents = {}
  /\ handlers = [c \in Caller |-> Idle]
  /\ alone = [c \in Caller |-> FALSE]

AccessStep(c) ==
  \/ Migrate(c)
  \/ BeginRead(c)
  \/ FinishRead(c)
  \/ Abandon(c)

DocumentStep(c) ==
  \/ \E s \in Supplier : BeginOrder(c, s)
  \/ FinishOrder(c)
  \/ \E s \in Supplier, r \in Resource : BeginPosting(c, s, r)
  \/ ReadPosting(c)
  \/ FinishPosting(c)

FormStep(c) ==
  \/ \E i \in Id \cup {Absent} : OpenForm(c, i)
  \/ \E s \in Supplier, r \in Resource, preferred \in BOOLEAN : SubmitForm(c, s, r, preferred)
  \/ Resolve(c)
  \/ ClearOne(c)
  \/ FinishSave(c)
  \/ \E i \in Id : RemoveAssortment(c, i)

SupplierStep(c) ==
  \/ \E s \in Supplier : CreateSupplier(c, s) \/ BeginDelete(c, s) \/ RemoveInConfiguration(c, s)
  \/ FinishDelete(c)

SuppliersNext ==
  \E c \in Caller : AccessStep(c) \/ DocumentStep(c) \/ FormStep(c) \/ SupplierStep(c)

SuppliersSpec == SuppliersInit /\ [][SuppliersNext]_suppliersVars

-----------------------------------------------------------------------------
(* Correctness.                                                            *)

\* A supplier that is made preferred for a resource is its only preferred one when the
\* save ends, whatever earlier saves, postings and migrations left behind, provided that
\* no other operation was under way at the time.
SavedPreferredIsSole ==
  [][\A c \in Caller, r \in Resource :
       FinishSave(c) /\ alone[c] /\ handlers[c].entry = Entry(handlers[c].entry.supplier, r, TRUE)
         => PreferredOf(r)' = {handlers[c].id}]_suppliersVars

\* What a screen is given holds an entry for each reference to a supplier of the
\* configuration, unless another operation removed it meanwhile.
ReferencesMigrated ==
  [][\A c \in Caller :
       FinishRead(c) /\ alone[c] =>
         \A p \in References : p[1] \in Kept => assortment[LegacyId(p)] # Absent]_suppliersVars

\* "Only one active preferred supplier is retained per resource",
\* purchaser-operational-module.md: whenever nothing is under way.
OnePreferred ==
  (\A c \in Caller : ~Busy(c)) => \A r \in Resource : \A i, j \in PreferredOf(r) : i = j

=============================================================================
