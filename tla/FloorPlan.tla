----------------------------- MODULE FloorPlan -----------------------------
(***************************************************************************)
(* The plan of the hall: zones with a canvas and the tables in them, drawn *)
(* by a manager, while a bar seats orders at the tables (the floor plan    *)
(* service, its repository and its screen, with what the bar service reads *)
(* of the plan).                                                           *)
(*                                                                         *)
(* An operation loads the whole plan, checks it, in some cases looks for   *)
(* open orders, and saves the whole plan.  The screen means to run one at  *)
(* a time but a table may be dropped at any moment, and whichever          *)
(* operation ends first makes the screen free again.  The waits are of     *)
(* any length.  One location is modelled, and a manager that may edit.     *)
(***************************************************************************)
EXTENDS Naturals, FiniteSets

CONSTANTS
  Zone, Table, Code, Order, None,
  Slot,        \* bound: how many operations of the page overlap
  Operations   \* bound: how many operations are begun

VARIABLES
  plan,    \* the saved zones and tables
  issued,  \* identifiers that have been given out
  page,    \* the manager's: the plan it shows, the table it edits and the draft, busy or not
  op,      \* the operations under way on the page
  orders,  \* what the bar has seated where
  seating, \* the order the bar is about to seat
  begun    \* how many operations were begun

vars == <<plan, issued, page, op, orders, seating, begun>>

Canvas == 1 .. 2   \* the lengths a canvas may have
Size == 1 .. 2     \* and a table
Place == 0 .. 1    \* and where a table begins

NoZone == [here |-> FALSE, active |-> FALSE, canvas |-> 1]
NoTable == [here |-> FALSE, active |-> FALSE, zone |-> None, code |-> None, place |-> 0, size |-> 1]
NoOrder == [status |-> "absent", table |-> None, quiet |-> FALSE]
NoSeating == [order |-> None, table |-> None, quiet |-> FALSE]

Zones(p) == {z \in Zone : p.zones[z].here}
Tables(p) == {t \in Table : p.tables[t].here}
TablesOf(p, z) == {t \in Tables(p) : p.tables[t].zone = z}
Open(o) == orders[o].status = "open"
Occupied(t) == \E o \in Order : Open(o) /\ orders[o].table = t

-----------------------------------------------------------------------------
(* What an operation does to the plan it has loaded.                        *)

Idle == [stage |-> "none", kind |-> "none", of |-> "none", id |-> None, input |-> <<>>, base |-> None]
Busy(s) == op[s].stage # "none"

\* { ...current, ...input }
With(current, input) ==
  [f \in DOMAIN current |-> IF f \in DOMAIN input THEN input[f] ELSE current[f]]

Absent(of) == IF of = "zones" THEN NoZone ELSE NoTable

\* The plan that operation c saves.
Outcome(c) ==
  [c.base EXCEPT ![c.of][c.id] = IF c.kind = "delete" THEN Absent(c.of) ELSE With(@, c.input)]

\* A table is within the canvas of its zone.
Fits(p, t) == p.tables[t].place + p.tables[t].size <= p.zones[p.tables[t].zone].canvas

CodeTaken(p, t) == \E u \in Tables(p) \ {t} : p.tables[u].code = p.tables[t].code

\* Mutant: a zone is cut without regard to the tables in it.
ZoneAcceptedAtAnySize(c) ==
  \/ c.kind = "create"
  \/ c.kind = "update" /\ c.id \in Zones(c.base)
  \/ c.kind = "delete" /\ c.id \in Zones(c.base) /\ TablesOf(c.base, c.id) = {}

\* A zone holds the tables it has; it is deleted when it has none.
ZoneAccepted(c) ==
  \/ c.kind = "create"
  \/ /\ c.kind = "update"
     /\ c.id \in Zones(c.base)
     /\ \A t \in TablesOf(c.base, c.id) : Fits(Outcome(c), t)
  \/ /\ c.kind = "delete"
     /\ c.id \in Zones(c.base)
     /\ TablesOf(c.base, c.id) = {}

\* A table is in a zone, inside it, and has a code of its own.
TableAccepted(c) ==
  \/ /\ c.kind \in {"create", "update"}
     /\ c.kind = "update" => c.id \in Tables(c.base)
     /\ Outcome(c).tables[c.id].zone \in Zones(c.base)
     /\ ~CodeTaken(Outcome(c), c.id)
     /\ Fits(Outcome(c), c.id)
  \/ c.kind = "delete" /\ c.id \in Tables(c.base)

Accepted(c) == IF c.of = "zones" THEN ZoneAccepted(c) ELSE TableAccepted(c)

\* The tables that must have no open order: of a zone that is put out of service, and one that
\* is put out of service or deleted.
MustBeFree(c) ==
  IF c.of = "zones"
  THEN IF c.kind = "update" /\ "active" \in DOMAIN c.input /\ ~c.input.active
       THEN TablesOf(c.base, c.id) ELSE {}
  ELSE IF c.kind = "delete" \/ (c.kind = "update" /\ c.base.tables[c.id].active
                                  /\ "active" \in DOMAIN c.input /\ ~c.input.active)
       THEN {c.id} ELSE {}

-----------------------------------------------------------------------------
(* An operation, step by step.                                              *)

\* Nothing is seated quietly once an operation of the plan is under way.
Disturb == seating' = [seating EXCEPT !.quiet = FALSE]

Begin(s, kind, of, id, input) ==
  /\ ~Busy(s) /\ begun < Operations
  /\ op' = [op EXCEPT ![s] = [stage |-> "load", kind |-> kind, of |-> of, id |-> id,
                              input |-> input, base |-> None]]
  /\ begun' = begun + 1
  /\ Disturb
  /\ UNCHANGED <<plan, orders>>

\* The end of an operation frees the screen, whatever else is under way.
End(s) == op' = [op EXCEPT ![s] = Idle]

Load(s) ==
  LET c == [op[s] EXCEPT !.base = plan] IN
  /\ op[s].stage = "load"
  /\ IF Accepted(c)
     THEN /\ op' = [op EXCEPT ![s] = [c EXCEPT !.stage = IF MustBeFree(c) = {} THEN "save" ELSE "orders"]]
          /\ UNCHANGED page
     ELSE End(s) /\ page' = [page EXCEPT !.busy = FALSE]
  /\ UNCHANGED <<plan, issued, orders, seating, begun>>

\* Mutant: open orders are not looked for.
CheckOrdersNot(s) ==
  /\ op[s].stage = "orders"
  /\ op' = [op EXCEPT ![s].stage = "save"]
  /\ UNCHANGED <<page, plan, issued, orders, seating, begun>>

CheckOrders(s) ==
  /\ op[s].stage = "orders"
  /\ IF \E t \in MustBeFree(op[s]) : Occupied(t)
     THEN End(s) /\ page' = [page EXCEPT !.busy = FALSE]
     ELSE op' = [op EXCEPT ![s].stage = "save"] /\ UNCHANGED page
  /\ UNCHANGED <<plan, issued, orders, seating, begun>>

\* A table that is no longer in the plan is no longer edited.
Save(s) ==
  /\ op[s].stage = "save"
  /\ plan' = Outcome(op[s])
  /\ page' = [page EXCEPT !.plan = plan', !.busy = FALSE,
                          !.selected = IF @ \in Tables(plan') THEN @ ELSE None,
                          !.draft = IF page.selected \in Tables(plan') THEN @ ELSE NoTable]
  /\ End(s)
  /\ UNCHANGED <<issued, orders, seating, begun>>

-----------------------------------------------------------------------------
(* What the screen offers.                                                  *)

Submit(s, kind, of, id, input) ==
  /\ ~page.busy
  /\ Begin(s, kind, of, id, input)

MakeBusy == page' = [page EXCEPT !.busy = TRUE]

\* The zone on the screen is that of the table that is edited.
OnScreen(z) ==
  /\ z \in Zones(page.plan)
  /\ page.selected # None => page.plan.tables[page.selected].zone = z

CreateZone(s, z) ==
  /\ z \notin issued
  /\ Submit(s, "create", "zones", z, [here |-> TRUE, active |-> TRUE, canvas |-> 2])
  /\ issued' = issued \cup {z}
  /\ MakeBusy

ResizeZone(s, z, canvas) ==
  /\ OnScreen(z)
  /\ Submit(s, "update", "zones", z, [canvas |-> canvas])
  /\ MakeBusy /\ UNCHANGED issued

SwitchZone(s, z) ==
  /\ OnScreen(z)
  /\ Submit(s, "update", "zones", z, [active |-> ~page.plan.zones[z].active])
  /\ MakeBusy /\ UNCHANGED issued

DeleteZone(s, z) ==
  /\ OnScreen(z)
  /\ Submit(s, "delete", "zones", z, <<>>)
  /\ MakeBusy /\ UNCHANGED issued

CreateTable(s, t, z, code, size) ==
  /\ OnScreen(z) /\ page.selected = None
  /\ t \notin issued
  /\ Submit(s, "create", "tables", t,
            [here |-> TRUE, active |-> TRUE, zone |-> z, code |-> code, place |-> 0, size |-> size])
  /\ issued' = issued \cup {t}
  /\ MakeBusy

\* The draft is taken when a table is selected; what is saved is all of it.
SelectTable(t) ==
  /\ t \in Tables(page.plan) /\ OnScreen(page.plan.tables[t].zone)
  /\ t # page.selected
  /\ page' = [page EXCEPT !.selected = t, !.draft = page.plan.tables[t]]
  /\ UNCHANGED <<plan, issued, op, orders, seating, begun>>

ShowZone ==
  /\ page.selected # None
  /\ page' = [page EXCEPT !.selected = None, !.draft = NoTable]
  /\ UNCHANGED <<plan, issued, op, orders, seating, begun>>

EditTable(s, code, size) ==
  LET edited == [page.draft EXCEPT !.code = code, !.size = size] IN
  /\ page.selected # None
  /\ Submit(s, "update", "tables", page.selected, edited)
  /\ page' = [page EXCEPT !.busy = TRUE, !.draft = edited]
  /\ UNCHANGED issued

SwitchTable(s) ==
  /\ page.selected # None
  /\ Submit(s, "update", "tables", page.selected, [active |-> ~page.plan.tables[page.selected].active])
  /\ MakeBusy /\ UNCHANGED issued

\* The table is deselected whether or not it can be deleted.
DeleteTable(s) ==
  /\ page.selected # None
  /\ Submit(s, "delete", "tables", page.selected, <<>>)
  /\ page' = [page EXCEPT !.busy = TRUE, !.selected = None, !.draft = NoTable]
  /\ UNCHANGED issued

\* A table is dropped inside the canvas that is shown, if it is not longer than that.
DropTable(s, t, place) ==
  LET shown == page.plan.tables[t] IN
  /\ t \in Tables(page.plan) /\ OnScreen(shown.zone)
  /\ place + shown.size <= page.plan.zones[shown.zone].canvas
  /\ Begin(s, "update", "tables", t, [place |-> place])
  /\ MakeBusy /\ UNCHANGED issued

\* The page is opened anew, and what was under way on it is lost.
OpenPage ==
  /\ page' = [plan |-> plan, selected |-> None, draft |-> NoTable, busy |-> FALSE]
  /\ op' = [s \in Slot |-> Idle]
  /\ UNCHANGED <<plan, issued, orders, seating, begun>>

-----------------------------------------------------------------------------
(* The bar, one operation at a time.                                        *)

\* createOrder, assignOrder and transferOrder read the plan: the table is in service.
ReadTable(o, t) ==
  /\ seating = NoSeating
  /\ orders[o].status # "closed" /\ orders[o].table # t
  /\ plan.tables[t].here /\ plan.tables[t].active
  /\ seating' = [order |-> o, table |-> t, quiet |-> \A s \in Slot : ~Busy(s)]
  /\ UNCHANGED <<plan, issued, page, op, orders, begun>>

\* Then they load the orders and save the order, unless another is at the table.
Seat ==
  /\ seating # NoSeating
  /\ orders' = IF Occupied(seating.table) THEN orders
               ELSE [orders EXCEPT ![seating.order] =
                       [status |-> "open", table |-> seating.table, quiet |-> seating.quiet]]
  /\ seating' = NoSeating
  /\ UNCHANGED <<plan, issued, page, op, begun>>

\* Completed, cancelled or released.
CloseOrder(o) ==
  /\ seating = NoSeating /\ Open(o)
  /\ orders' = [orders EXCEPT ![o].status = "closed"]
  /\ UNCHANGED <<plan, issued, page, op, seating, begun>>

-----------------------------------------------------------------------------
\* The project begins with a zone and a table in it.
Init ==
  /\ \E z \in Zone, t \in Table, code \in Code :
       /\ plan = [zones |-> [y \in Zone |-> IF y = z THEN [here |-> TRUE, active |-> TRUE, canvas |-> 2]
                                            ELSE NoZone],
                  tables |-> [u \in Table |-> IF u = t
                                THEN [here |-> TRUE, active |-> TRUE, zone |-> z, code |-> code,
                                      place |-> 0, size |-> 1]
                                ELSE NoTable]]
       /\ issued = {z, t}
  /\ page = [plan |-> plan, selected |-> None, draft |-> NoTable, busy |-> FALSE]
  /\ op = [s \in Slot |-> Idle]
  /\ orders = [o \in Order |-> NoOrder]
  /\ seating = NoSeating
  /\ begun = 0

PlanStep(s) == Load(s) \/ CheckOrders(s) \/ Save(s)

ManagerStep(s) ==
  \/ \E z \in Zone : CreateZone(s, z) \/ SwitchZone(s, z) \/ DeleteZone(s, z)
  \/ \E z \in Zone, canvas \in Canvas : ResizeZone(s, z, canvas)
  \/ \E t \in Table, z \in Zone, code \in Code, size \in Size : CreateTable(s, t, z, code, size)
  \/ \E code \in Code, size \in Size : EditTable(s, code, size)
  \/ SwitchTable(s) \/ DeleteTable(s)
  \/ \E t \in Table, place \in Place : DropTable(s, t, place)

BarStep ==
  \/ \E o \in Order, t \in Table : ReadTable(o, t)
  \/ Seat
  \/ \E o \in Order : CloseOrder(o)

Next ==
  \/ \E s \in Slot : ManagerStep(s) \/ PlanStep(s)
  \/ \E t \in Table : SelectTable(t)
  \/ ShowZone \/ OpenPage
  \/ BarStep

Spec == Init /\ [][Next]_vars

-----------------------------------------------------------------------------
(* Properties.                                                              *)

\* However the operations of the page overlap, every table of the saved plan is in a zone of it
\* and within its canvas, and no two have one code: the checks are made on the plan that is
\* loaded, and that plan is saved whole (createTable, updateTable, updateZone, deleteZone).
PlanConsistent ==
  \A t \in Tables(plan) :
    /\ plan.tables[t].zone \in Zones(plan)
    /\ Fits(plan, t)
    /\ ~CodeTaken(plan, t)

\* The table of an open order stays in the plan and in service, if no operation of the plan was
\* under way while the order was being seated ("an active-order table cannot be disabled or
\* deleted").
SeatedTablesStay ==
  \A o \in Order : Open(o) /\ orders[o].quiet =>
    plan.tables[orders[o].table].here /\ plan.tables[orders[o].table].active

\* Editing a table never moves it: a table that was dragged is still there when its size is
\* changed and saved ("the position and size must persist").
EditLeavesInPlace ==
  \A s \in Slot :
    op[s].stage = "save" /\ op[s].of = "tables" /\ op[s].kind = "update" /\ "size" \in DOMAIN op[s].input
      => Outcome(op[s]).tables[op[s].id].place = op[s].base.tables[op[s].id].place
=============================================================================
