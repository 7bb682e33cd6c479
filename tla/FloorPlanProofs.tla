-------------------------- MODULE FloorPlanProofs --------------------------
(***************************************************************************)
(* Proofs about FloorPlan, for every number of zones, tables, codes,       *)
(* orders and overlapping operations.                                      *)
(*                                                                         *)
(* An operation that was accepted may be saved at any later moment and     *)
(* over any other plan.  The inductive invariant therefore says of each    *)
(* operation under way that the plan it is going to save is consistent,    *)
(* not only of the plan that is saved now.                                 *)
(***************************************************************************)
EXTENDS FloorPlan, TLAPS

ZoneRecord == [here : BOOLEAN, active : BOOLEAN, canvas : Canvas]
TableRecord ==
  [here : BOOLEAN, active : BOOLEAN, zone : Zone \cup {None}, code : Code \cup {None},
   place : Place, size : Size]
Plan == [zones : [Zone -> ZoneRecord], tables : [Table -> TableRecord]]

\* What PlanConsistent says of a plan.
Consistent(p) ==
  \A t \in Tables(p) :
    /\ p.tables[t].zone \in Zones(p)
    /\ Fits(p, t)
    /\ ~CodeTaken(p, t)

\* What the screen asks for.
ZoneRequest(c) ==
  /\ c.of = "zones" /\ c.id \in Zone
  /\ \/ c.kind = "create" /\ c.input = [here |-> TRUE, active |-> TRUE, canvas |-> 2]
     \/ c.kind = "update" /\ c.input \in [canvas : Canvas] \cup [active : BOOLEAN]
     \/ c.kind = "delete"

TableRequest(c) ==
  /\ c.of = "tables" /\ c.id \in Table
  /\ \/ c.kind = "create" /\ c.input \in TableRecord
     \/ c.kind = "update" /\ c.input \in [place : Place] \cup [active : BOOLEAN] \cup TableRecord
     \/ c.kind = "delete"

Request(c) == ZoneRequest(c) \/ TableRequest(c)

Input ==
  {<<>>} \cup ZoneRecord \cup TableRecord
    \cup [canvas : Canvas] \cup [active : BOOLEAN] \cup [place : Place]

Operation ==
  [stage : {"none", "load", "orders", "save"}, kind : {"none", "create", "update", "delete"},
   of : {"none", "zones", "tables"}, id : Zone \cup Table \cup {None},
   input : Input, base : Plan \cup {None}]

\* An operation past its checks saves a consistent plan.
Sound(c) ==
  /\ c.stage # "none" => Request(c)
  /\ c.stage \in {"orders", "save"} =>
       c.base \in Plan /\ Outcome(c) \in Plan /\ Consistent(Outcome(c))

TypeOK ==
  /\ plan \in Plan
  /\ page \in [plan : Plan, selected : Table \cup {None}, draft : TableRecord, busy : BOOLEAN]
  /\ op \in [Slot -> Operation]

Inv ==
  /\ TypeOK
  /\ Consistent(plan)
  /\ \A s \in Slot : Sound(op[s])

-----------------------------------------------------------------------------
(* Merging what is changed into a record.                                  *)

LEMMA WithZone ==
  ASSUME NEW current \in ZoneRecord, NEW input \in [canvas : Canvas] \cup [active : BOOLEAN]
  PROVE  With(current, input) \in ZoneRecord /\ With(current, input).here = current.here
<1>1. CASE input \in [canvas : Canvas]
  <2>1. With(current, input) =
          [here |-> current.here, active |-> current.active, canvas |-> input.canvas]
    BY <1>1 DEF With, ZoneRecord
  <2> QED
    BY <1>1, <2>1 DEF ZoneRecord
<1>2. CASE input \in [active : BOOLEAN]
  <2>1. With(current, input) =
          [here |-> current.here, active |-> input.active, canvas |-> current.canvas]
    BY <1>2 DEF With, ZoneRecord
  <2> QED
    BY <1>2, <2>1 DEF ZoneRecord
<1> QED
  BY <1>1, <1>2

LEMMA WithNewZone ==
  ASSUME NEW current \in ZoneRecord, NEW input \in ZoneRecord
  PROVE  With(current, input) = input
BY DEF With, ZoneRecord

LEMMA WithTable ==
  ASSUME NEW current \in TableRecord,
         NEW input \in [place : Place] \cup [active : BOOLEAN] \cup TableRecord
  PROVE  With(current, input) \in TableRecord
<1>1. CASE input \in [place : Place]
  <2>1. With(current, input) =
          [here |-> current.here, active |-> current.active, zone |-> current.zone,
           code |-> current.code, place |-> input.place, size |-> current.size]
    BY <1>1 DEF With, TableRecord
  <2> QED
    BY <1>1, <2>1 DEF TableRecord
<1>2. CASE input \in [active : BOOLEAN]
  <2>1. With(current, input) =
          [here |-> current.here, active |-> input.active, zone |-> current.zone,
           code |-> current.code, place |-> current.place, size |-> current.size]
    BY <1>2 DEF With, TableRecord
  <2> QED
    BY <1>2, <2>1 DEF TableRecord
<1>3. CASE input \in TableRecord
  <2>1. With(current, input) = input
    BY <1>3 DEF With, TableRecord
  <2> QED
    BY <1>3, <2>1
<1> QED
  BY <1>1, <1>2, <1>3

-----------------------------------------------------------------------------
(* What an accepted operation does to the plan it has loaded.              *)

LEMMA OutcomeOfZone ==
  ASSUME NEW c, c.base \in Plan, ZoneRequest(c)
  PROVE  /\ Outcome(c) \in Plan
         /\ Outcome(c).tables = c.base.tables
         /\ \A z \in Zone \ {c.id} : Outcome(c).zones[z] = c.base.zones[z]
         /\ Outcome(c).zones[c.id] =
              IF c.kind = "delete" THEN NoZone ELSE With(c.base.zones[c.id], c.input)
<1> DEFINE new == IF c.kind = "delete" THEN NoZone ELSE With(c.base.zones[c.id], c.input)
<1>1. c.id \in Zone /\ c.of = "zones"
  BY DEF ZoneRequest
<1>2. c.base.zones[c.id] \in ZoneRecord
  BY <1>1 DEF Plan
<1>3. new \in ZoneRecord
  <2>1. NoZone \in ZoneRecord
    BY DEF NoZone, ZoneRecord, Canvas
  <2>2. [here |-> TRUE, active |-> TRUE, canvas |-> 2] \in ZoneRecord
    BY DEF ZoneRecord, Canvas
  <2> QED
    BY <1>2, <2>1, <2>2, WithZone, WithNewZone DEF ZoneRequest
<1>4. Outcome(c) = [zones |-> [c.base.zones EXCEPT ![c.id] = new], tables |-> c.base.tables]
  BY <1>1 DEF Outcome, Absent, Plan
<1> QED
  BY <1>1, <1>3, <1>4 DEF Plan

LEMMA OutcomeOfTable ==
  ASSUME NEW c, c.base \in Plan, TableRequest(c)
  PROVE  /\ Outcome(c) \in Plan
         /\ Outcome(c).zones = c.base.zones
         /\ \A t \in Table \ {c.id} : Outcome(c).tables[t] = c.base.tables[t]
         /\ Outcome(c).tables[c.id] =
              IF c.kind = "delete" THEN NoTable ELSE With(c.base.tables[c.id], c.input)
<1> DEFINE new == IF c.kind = "delete" THEN NoTable ELSE With(c.base.tables[c.id], c.input)
<1>1. c.id \in Table /\ c.of = "tables"
  BY DEF TableRequest
<1>2. c.base.tables[c.id] \in TableRecord
  BY <1>1 DEF Plan
<1>3. new \in TableRecord
  <2>1. NoTable \in TableRecord
    BY DEF NoTable, TableRecord, Place, Size
  <2> QED
    BY <1>2, <2>1, WithTable DEF TableRequest
<1>4. Outcome(c) = [zones |-> c.base.zones, tables |-> [c.base.tables EXCEPT ![c.id] = new]]
  BY <1>1 DEF Outcome, Absent, Plan
<1> QED
  BY <1>1, <1>3, <1>4 DEF Plan

\* A zone is cut, switched, deleted or new: its tables still have a place in it.
LEMMA AcceptedZoneConsistent ==
  ASSUME NEW c, c.base \in Plan, ZoneRequest(c), ZoneAccepted(c), Consistent(c.base)
  PROVE  Consistent(Outcome(c))
<1> DEFINE p == c.base
           q == Outcome(c)
<1>1. /\ q \in Plan /\ q.tables = p.tables /\ c.id \in Zone
      /\ \A z \in Zone \ {c.id} : q.zones[z] = p.zones[z]
      /\ q.zones[c.id] = IF c.kind = "delete" THEN NoZone ELSE With(p.zones[c.id], c.input)
  BY OutcomeOfZone DEF ZoneRequest
<1>2. SUFFICES ASSUME NEW t \in Tables(p)
               PROVE  p.tables[t].zone \in Zones(q) /\ Fits(q, t)
  BY <1>1, <1>2 DEF Consistent, Tables, CodeTaken
<1> DEFINE z == p.tables[t].zone
<1>3. z \in Zones(p) /\ z \in Zone /\ Fits(p, t)
  BY DEF Consistent, Zones
<1>4. CASE z # c.id
  BY <1>1, <1>3, <1>4 DEF Zones, Fits
<1>5. CASE z = c.id
  <2>1. t \in TablesOf(p, c.id)
    BY <1>5 DEF TablesOf
  <2>2. CASE c.kind = "create"
    <3>1. q.zones[c.id] = [here |-> TRUE, active |-> TRUE, canvas |-> 2]
      <4>1. [here |-> TRUE, active |-> TRUE, canvas |-> 2] \in ZoneRecord
        BY DEF ZoneRecord, Canvas
      <4>2. p.zones[c.id] \in ZoneRecord
        BY <1>1 DEF Plan
      <4> QED
        BY <1>1, <2>2, <4>1, <4>2, WithNewZone DEF ZoneRequest
    <3>2. p.zones[z].canvas \in Canvas /\ p.tables[t].place \in Place /\ p.tables[t].size \in Size
      BY <1>3 DEF Plan, ZoneRecord, TableRecord, Tables
    <3> QED
      BY <1>1, <1>3, <1>5, <3>1, <3>2 DEF Zones, Fits, Canvas, Place, Size
  <2>3. CASE c.kind = "update"
    <3>1. Fits(q, t)
      BY <2>1, <2>3 DEF ZoneAccepted
    <3>2. q.zones[c.id].here = p.zones[c.id].here
      BY <1>1, <2>3, WithZone DEF ZoneRequest, Plan
    <3> QED
      BY <1>1, <1>3, <1>5, <3>1, <3>2 DEF Zones
  <2>4. CASE c.kind = "delete"
    BY <2>1, <2>4 DEF ZoneAccepted
  <2> QED
    BY <2>2, <2>3, <2>4 DEF ZoneRequest
<1> QED
  BY <1>4, <1>5

\* A table is moved, changed, deleted or new: it is in a zone with a code of its own, and
\* the other tables are as they were.
LEMMA AcceptedTableConsistent ==
  ASSUME NEW c, c.base \in Plan, TableRequest(c), TableAccepted(c), Consistent(c.base)
  PROVE  Consistent(Outcome(c))
<1> DEFINE p == c.base
           q == Outcome(c)
<1>1. /\ q \in Plan /\ q.zones = p.zones /\ c.id \in Table
      /\ \A t \in Table \ {c.id} : q.tables[t] = p.tables[t]
      /\ c.kind = "delete" => q.tables[c.id] = NoTable
  BY OutcomeOfTable DEF TableRequest
<1>2. Zones(q) = Zones(p)
  BY <1>1 DEF Zones
<1>3. c.id \in Tables(q) => /\ q.tables[c.id].zone \in Zones(q)
                            /\ Fits(q, c.id)
                            /\ ~CodeTaken(q, c.id)
  BY <1>1, <1>2 DEF TableAccepted, Tables, NoTable
<1>4. ASSUME NEW t \in Tables(q), t # c.id
      PROVE  /\ q.tables[t].zone \in Zones(q)
             /\ Fits(q, t)
             /\ ~CodeTaken(q, t)
  <2>1. t \in Tables(p) /\ q.tables[t] = p.tables[t]
    BY <1>1, <1>4 DEF Tables
  <2>2. q.tables[t].zone \in Zones(q) /\ Fits(q, t)
    BY <1>1, <1>2, <2>1 DEF Consistent, Fits
  <2>3. ASSUME NEW u \in Tables(q) \ {t}, q.tables[u].code = q.tables[t].code
        PROVE  FALSE
    <3>1. CASE u = c.id
      BY <1>3, <1>4, <2>3, <3>1 DEF CodeTaken
    <3>2. CASE u # c.id
      <4>1. u \in Tables(p) /\ q.tables[u] = p.tables[u]
        BY <1>1, <3>2 DEF Tables
      <4> QED
        BY <2>1, <2>3, <4>1 DEF Consistent, CodeTaken
    <3> QED
      BY <3>1, <3>2
  <2> QED
    BY <2>2, <2>3 DEF CodeTaken
<1> QED
  BY <1>3, <1>4 DEF Consistent

LEMMA AcceptedSound ==
  ASSUME NEW c, c.base \in Plan, Request(c), Accepted(c), Consistent(c.base)
  PROVE  Outcome(c) \in Plan /\ Consistent(Outcome(c))
<1>1. CASE ZoneRequest(c)
  BY <1>1, OutcomeOfZone, AcceptedZoneConsistent DEF Accepted, ZoneRequest
<1>2. CASE TableRequest(c)
  BY <1>2, OutcomeOfTable, AcceptedTableConsistent DEF Accepted, TableRequest
<1> QED
  BY <1>1, <1>2 DEF Request

-----------------------------------------------------------------------------
(* The invariant.                                                          *)

LEMMA InitInv == Init => Inv
<1> SUFFICES ASSUME Init PROVE Inv
  OBVIOUS
<1>1. PICK z \in Zone, t \in Table, code \in Code :
        plan = [zones |-> [y \in Zone |-> IF y = z THEN [here |-> TRUE, active |-> TRUE, canvas |-> 2]
                                          ELSE NoZone],
                tables |-> [u \in Table |-> IF u = t
                              THEN [here |-> TRUE, active |-> TRUE, zone |-> z, code |-> code,
                                    place |-> 0, size |-> 1]
                              ELSE NoTable]]
  BY DEF Init
<1>2. plan \in Plan
  BY <1>1 DEF Plan, ZoneRecord, TableRecord, NoZone, NoTable, Canvas, Place, Size
<1>3. Consistent(plan)
  BY <1>1 DEF Consistent, Tables, Zones, Fits, CodeTaken, NoTable
<1>4. NoTable \in TableRecord
  BY DEF NoTable, TableRecord, Place, Size
<1>5. page \in [plan : Plan, selected : Table \cup {None}, draft : TableRecord, busy : BOOLEAN]
  BY <1>2, <1>4 DEF Init
<1>6. Idle \in Operation
  BY DEF Idle, Operation, Input
<1>7. op \in [Slot -> Operation] /\ \A s \in Slot : Sound(op[s])
  BY <1>6 DEF Init, Sound, Idle
<1> QED
  BY <1>2, <1>3, <1>5, <1>7 DEF Inv, TypeOK

\* Slots are independent: what one operation becomes is all that has to be looked at.
LEMMA SlotSound ==
  ASSUME TypeOK, \A t \in Slot : Sound(op[t]),
         NEW s \in Slot, NEW c \in Operation, Sound(c), op' = [op EXCEPT ![s] = c]
  PROVE  op' \in [Slot -> Operation] /\ \A t \in Slot : Sound(op'[t])
<1>1. op \in [Slot -> Operation]
  BY DEF TypeOK
<1>2. \A t \in Slot : op'[t] = IF t = s THEN c ELSE op[t]
  BY <1>1
<1> QED
  BY <1>1, <1>2

LEMMA EndSound ==
  ASSUME TypeOK, \A t \in Slot : Sound(op[t]), NEW s \in Slot, End(s)
  PROVE  op' \in [Slot -> Operation] /\ \A t \in Slot : Sound(op'[t])
<1>1. Idle \in Operation /\ Sound(Idle)
  BY DEF Idle, Operation, Input, Sound
<1> QED
  BY <1>1, SlotSound DEF End

LEMMA BeginSound ==
  ASSUME TypeOK, \A t \in Slot : Sound(op[t]),
         NEW s \in Slot, NEW kind, NEW of, NEW id, NEW input, Begin(s, kind, of, id, input),
         [stage |-> "load", kind |-> kind, of |-> of, id |-> id, input |-> input, base |-> None]
           \in Operation,
         Request([stage |-> "load", kind |-> kind, of |-> of, id |-> id, input |-> input,
                  base |-> None])
  PROVE  /\ op' \in [Slot -> Operation] /\ \A t \in Slot : Sound(op'[t])
         /\ plan' = plan
<1> DEFINE c == [stage |-> "load", kind |-> kind, of |-> of, id |-> id, input |-> input,
                 base |-> None]
<1>1. Sound(c)
  BY DEF Sound
<1>2. op' = [op EXCEPT ![s] = c] /\ plan' = plan
  BY DEF Begin
<1> QED
  BY <1>1, <1>2, SlotSound

\* What the manager asks for begins as a request, and the page keeps its shape.
LEMMA ManagerStepInv ==
  ASSUME Inv, NEW s \in Slot, ManagerStep(s)
  PROVE  Inv'
<1> DEFINE PageType ==
             [plan : Plan, selected : Table \cup {None}, draft : TableRecord, busy : BOOLEAN]
<1>1. /\ TypeOK /\ Consistent(plan) /\ \A t \in Slot : Sound(op[t])
      /\ page \in PageType /\ page.plan \in Plan /\ page.draft \in TableRecord
  BY DEF Inv, TypeOK
<1>2. SUFFICES /\ plan' = plan
               /\ page' \in PageType
               /\ op' \in [Slot -> Operation] /\ \A t \in Slot : Sound(op'[t])
  BY <1>1 DEF Inv, TypeOK, Consistent, Tables, Zones, Fits, CodeTaken, Sound
<1>3. MakeBusy => page' \in PageType
  BY <1>1 DEF MakeBusy
<1>4. NoTable \in TableRecord
  BY DEF NoTable, TableRecord, Place, Size
<1>5. ASSUME NEW z \in Zone, CreateZone(s, z)
      PROVE  plan' = plan /\ op' \in [Slot -> Operation] /\ (\A t \in Slot : Sound(op'[t])) /\ page' \in PageType
  <2> DEFINE input == [here |-> TRUE, active |-> TRUE, canvas |-> 2]
  <2>1. input \in ZoneRecord
    BY DEF ZoneRecord, Canvas
  <2>2. Begin(s, "create", "zones", z, input) /\ MakeBusy
    BY <1>5 DEF CreateZone, Submit
  <2> QED
    BY <1>1, <1>3, <2>1, <2>2, BeginSound DEF Operation, Input, Request, ZoneRequest
<1>6. ASSUME NEW z \in Zone, NEW canvas \in Canvas, ResizeZone(s, z, canvas)
      PROVE  plan' = plan /\ op' \in [Slot -> Operation] /\ (\A t \in Slot : Sound(op'[t])) /\ page' \in PageType
  <2>1. Begin(s, "update", "zones", z, [canvas |-> canvas]) /\ MakeBusy
    BY <1>6 DEF ResizeZone, Submit
  <2>2. [canvas |-> canvas] \in [canvas : Canvas]
    OBVIOUS
  <2> QED
    BY <1>1, <1>3, <2>1, <2>2, BeginSound DEF Operation, Input, Request, ZoneRequest
<1>7. ASSUME NEW z \in Zone, SwitchZone(s, z)
      PROVE  plan' = plan /\ op' \in [Slot -> Operation] /\ (\A t \in Slot : Sound(op'[t])) /\ page' \in PageType
  <2> DEFINE input == [active |-> ~page.plan.zones[z].active]
  <2>1. Begin(s, "update", "zones", z, input) /\ MakeBusy
    BY <1>7 DEF SwitchZone, Submit
  <2>2. input \in [active : BOOLEAN]
    BY <1>1 DEF Plan, ZoneRecord
  <2> QED
    BY <1>1, <1>3, <2>1, <2>2, BeginSound DEF Operation, Input, Request, ZoneRequest
<1>8. ASSUME NEW z \in Zone, DeleteZone(s, z)
      PROVE  plan' = plan /\ op' \in [Slot -> Operation] /\ (\A t \in Slot : Sound(op'[t])) /\ page' \in PageType
  <2>1. Begin(s, "delete", "zones", z, <<>>) /\ MakeBusy
    BY <1>8 DEF DeleteZone, Submit
  <2> QED
    BY <1>1, <1>3, <2>1, BeginSound DEF Operation, Input, Request, ZoneRequest
<1>9. ASSUME NEW t \in Table, NEW z \in Zone, NEW code \in Code, NEW size \in Size,
             CreateTable(s, t, z, code, size)
      PROVE  plan' = plan /\ op' \in [Slot -> Operation] /\ (\A u \in Slot : Sound(op'[u])) /\ page' \in PageType
  <2> DEFINE input == [here |-> TRUE, active |-> TRUE, zone |-> z, code |-> code, place |-> 0,
                       size |-> size]
  <2>1. Begin(s, "create", "tables", t, input) /\ MakeBusy
    BY <1>9 DEF CreateTable, Submit
  <2>2. input \in TableRecord
    BY DEF TableRecord, Place
  <2> QED
    BY <1>1, <1>3, <2>1, <2>2, BeginSound DEF Operation, Input, Request, TableRequest
<1>10. ASSUME NEW code \in Code, NEW size \in Size, EditTable(s, code, size)
       PROVE  plan' = plan /\ op' \in [Slot -> Operation] /\ (\A t \in Slot : Sound(op'[t])) /\ page' \in PageType
  <2> DEFINE edited == [page.draft EXCEPT !.code = code, !.size = size]
  <2>1. /\ Begin(s, "update", "tables", page.selected, edited)
        /\ page' = [page EXCEPT !.busy = TRUE, !.draft = edited]
        /\ page.selected \in Table
    BY <1>1, <1>10 DEF EditTable, Submit
  <2>2. edited \in TableRecord
    BY <1>1 DEF TableRecord
  <2>3. page' \in PageType
    BY <1>1, <2>1, <2>2
  <2> QED
    BY <1>1, <2>1, <2>2, <2>3, BeginSound DEF Operation, Input, Request, TableRequest
<1>11. CASE SwitchTable(s)
  <2> DEFINE input == [active |-> ~page.plan.tables[page.selected].active]
  <2>1. /\ Begin(s, "update", "tables", page.selected, input) /\ MakeBusy
        /\ page.selected \in Table
    BY <1>1, <1>11 DEF SwitchTable, Submit
  <2>2. input \in [active : BOOLEAN]
    BY <1>1, <2>1 DEF Plan, TableRecord
  <2> QED
    BY <1>1, <1>3, <2>1, <2>2, BeginSound DEF Operation, Input, Request, TableRequest
<1>12. CASE DeleteTable(s)
  <2>1. /\ Begin(s, "delete", "tables", page.selected, <<>>)
        /\ page' = [page EXCEPT !.busy = TRUE, !.selected = None, !.draft = NoTable]
        /\ page.selected \in Table
    BY <1>1, <1>12 DEF DeleteTable, Submit
  <2>2. page' \in PageType
    BY <1>1, <1>4, <2>1
  <2> QED
    BY <1>1, <2>1, <2>2, BeginSound DEF Operation, Input, Request, TableRequest
<1>13. ASSUME NEW t \in Table, NEW place \in Place, DropTable(s, t, place)
       PROVE  plan' = plan /\ op' \in [Slot -> Operation] /\ (\A u \in Slot : Sound(op'[u])) /\ page' \in PageType
  <2>1. Begin(s, "update", "tables", t, [place |-> place]) /\ MakeBusy
    BY <1>13 DEF DropTable
  <2>2. [place |-> place] \in [place : Place]
    OBVIOUS
  <2> QED
    BY <1>1, <1>3, <2>1, <2>2, BeginSound DEF Operation, Input, Request, TableRequest
<1> QED
  BY <1>5, <1>6, <1>7, <1>8, <1>9, <1>10, <1>11, <1>12, <1>13 DEF ManagerStep

\* What was accepted is consistent, and what is saved was accepted.
LEMMA PlanStepInv ==
  ASSUME Inv, NEW s \in Slot, PlanStep(s)
  PROVE  Inv'
<1> DEFINE PageType ==
             [plan : Plan, selected : Table \cup {None}, draft : TableRecord, busy : BOOLEAN]
<1>1. /\ TypeOK /\ Consistent(plan) /\ \A t \in Slot : Sound(op[t])
      /\ page \in PageType /\ plan \in Plan /\ op \in [Slot -> Operation] /\ op[s] \in Operation
  BY DEF Inv, TypeOK
<1>2. ASSUME plan' = plan, page' \in PageType,
             op' \in [Slot -> Operation], \A t \in Slot : Sound(op'[t])
      PROVE  Inv'
  BY <1>1, <1>2 DEF Inv, TypeOK, Consistent, Tables, Zones, Fits, CodeTaken, Sound
<1>3. CASE Load(s)
  <2> DEFINE c == [op[s] EXCEPT !.base = plan]
             d == [c EXCEPT !.stage = IF MustBeFree(c) = {} THEN "save" ELSE "orders"]
  <2>1. CASE Accepted(c)
    <3>1. op' = [op EXCEPT ![s] = d] /\ page' = page /\ plan' = plan /\ op[s].stage = "load"
      BY <1>3, <2>1 DEF Load
    <3>2. c \in Operation /\ d \in Operation /\ c.base = plan /\ d.base = plan
      BY <1>1 DEF Operation
    <3>3. Request(op[s])
      BY <1>1, <3>1 DEF Sound
    <3>4. Request(c) /\ Request(d)
      BY <1>1, <3>3 DEF Request, ZoneRequest, TableRequest, Operation
    <3>5. Outcome(c) \in Plan /\ Consistent(Outcome(c))
      BY <1>1, <2>1, <3>2, <3>4, AcceptedSound
    <3>6. Outcome(d) = Outcome(c)
      BY <1>1 DEF Outcome, Operation
    <3>7. Sound(d)
      BY <1>1, <3>2, <3>4, <3>5, <3>6 DEF Sound
    <3> QED
      BY <1>1, <1>2, <3>1, <3>2, <3>7, SlotSound
  <2>2. CASE ~Accepted(c)
    <3>1. End(s) /\ page' = [page EXCEPT !.busy = FALSE] /\ plan' = plan
      BY <1>3, <2>2 DEF Load
    <3> QED
      BY <1>1, <1>2, <3>1, EndSound
  <2> QED
    BY <2>1, <2>2
<1>4. CASE CheckOrders(s)
  <2>1. CASE End(s) /\ page' = [page EXCEPT !.busy = FALSE]
    BY <1>1, <1>2, <1>4, <2>1, EndSound DEF CheckOrders
  <2>2. CASE op' = [op EXCEPT ![s].stage = "save"] /\ page' = page
    <3> DEFINE d == [op[s] EXCEPT !.stage = "save"]
    <3>1. op' = [op EXCEPT ![s] = d] /\ d \in Operation /\ op[s].stage = "orders" /\ plan' = plan
      BY <1>1, <1>4, <2>2 DEF CheckOrders, Operation
    <3>2. Outcome(d) = Outcome(op[s]) /\ d.base = op[s].base
      BY <1>1 DEF Outcome, Operation
    <3>3. Request(op[s]) /\ Sound(op[s])
      BY <1>1, <3>1 DEF Sound
    <3>4. Request(d)
      BY <1>1, <3>3 DEF Request, ZoneRequest, TableRequest, Operation
    <3>5. Sound(d)
      BY <3>1, <3>2, <3>3, <3>4 DEF Sound
    <3> QED
      BY <1>1, <1>2, <2>2, <3>1, <3>5, SlotSound
  <2> QED
    BY <1>4, <2>1, <2>2 DEF CheckOrders
<1>5. CASE Save(s)
  <2>1. plan' = Outcome(op[s]) /\ End(s) /\ op[s].stage = "save"
    BY <1>5 DEF Save
  <2>2. plan' \in Plan /\ Consistent(Outcome(op[s]))
    BY <1>1, <2>1 DEF Sound
  <2>3. Consistent(plan)'
    BY <2>1, <2>2 DEF Consistent, Tables, Zones, Fits, CodeTaken
  <2>4. page' \in PageType
    <3>1. NoTable \in TableRecord
      BY DEF NoTable, TableRecord, Place, Size
    <3> QED
      BY <1>1, <1>5, <2>2, <3>1 DEF Save
  <2>5. op' \in [Slot -> Operation] /\ \A t \in Slot : Sound(op'[t])
    BY <1>1, <2>1, EndSound
  <2> QED
    BY <2>2, <2>3, <2>4, <2>5 DEF Inv, TypeOK, Sound, Consistent, Tables, Zones, Fits, CodeTaken
<1> QED
  BY <1>3, <1>4, <1>5 DEF PlanStep

LEMMA NextInv == Inv /\ [Next]_vars => Inv'
<1> DEFINE PageType ==
             [plan : Plan, selected : Table \cup {None}, draft : TableRecord, busy : BOOLEAN]
<1> SUFFICES ASSUME Inv, [Next]_vars PROVE Inv'
  OBVIOUS
<1>1. page \in PageType /\ plan \in Plan /\ NoTable \in TableRecord
  BY DEF Inv, TypeOK, NoTable, TableRecord, Place, Size
<1>2. ASSUME plan' = plan, op' = op, page' \in PageType
      PROVE  Inv'
  BY <1>2 DEF Inv, TypeOK, Sound, Consistent, Tables, Zones, Fits, CodeTaken
<1>3. ASSUME NEW s \in Slot, ManagerStep(s) \/ PlanStep(s)
      PROVE  Inv'
  BY <1>3, ManagerStepInv, PlanStepInv
<1>4. ASSUME NEW t \in Table, SelectTable(t)
      PROVE  Inv'
  <2>1. page.plan.tables[t] \in TableRecord
    BY <1>1 DEF Plan
  <2> QED
    BY <1>1, <1>2, <1>4, <2>1 DEF SelectTable
<1>5. CASE ShowZone
  BY <1>1, <1>2, <1>5 DEF ShowZone
<1>6. CASE OpenPage
  <2>1. page' \in PageType
    BY <1>1, <1>6 DEF OpenPage
  <2>2. Idle \in Operation /\ Sound(Idle)
    BY DEF Idle, Operation, Input, Sound
  <2>3. op' \in [Slot -> Operation] /\ \A s \in Slot : Sound(op'[s])
    BY <1>6, <2>2 DEF OpenPage
  <2> QED
    BY <1>6, <2>1, <2>3 DEF OpenPage, Inv, TypeOK, Sound, Consistent, Tables, Zones, Fits, CodeTaken
<1>7. CASE BarStep
  BY <1>1, <1>2, <1>7 DEF BarStep, ReadTable, Seat, CloseOrder
<1>8. CASE UNCHANGED vars
  BY <1>1, <1>2, <1>8 DEF vars
<1> QED
  BY <1>3, <1>4, <1>5, <1>6, <1>7, <1>8 DEF Next

-----------------------------------------------------------------------------
\* However many operations of the plan overlap, and in whatever order they are accepted and
\* saved, the saved plan is consistent (createTable, updateTable, updateZone, deleteZone).
THEOREM PlanStaysConsistent == Spec => []PlanConsistent
<1>1. Inv => PlanConsistent
  BY DEF Inv, Consistent, PlanConsistent
<1> QED
  BY <1>1, InitInv, NextInv, PTL DEF Spec

\* A request that was accepted is saved as a consistent plan, however late.
THEOREM AcceptedStaysSound == Spec => []\A s \in Slot : Sound(op[s])
<1>1. Inv => \A s \in Slot : Sound(op[s])
  BY DEF Inv
<1> QED
  BY <1>1, InitInv, NextInv, PTL DEF Spec

-----------------------------------------------------------------------------
(* Orders at the tables.                                                    *)

InService(p, t) == p.tables[t].here /\ p.tables[t].active

\* An order sits at a table since a moment when nothing of the plan was under way.
Seated(t) == \E o \in Order : Open(o) /\ orders[o].quiet /\ orders[o].table = t

\* A table that is created or edited as a whole is in the plan afterwards.
Asks(c) ==
  c.stage # "none" /\ c.of = "tables" =>
    /\ c.kind = "create" => c.input.here /\ c.input.active
    /\ c.kind = "update" /\ "here" \in DOMAIN c.input => c.input.here

\* An operation keeps a table at which an order sits in service, unless it has yet to look for
\* orders at that table.
Respects(c) ==
  \A t \in Table : Seated(t) =>
    /\ c.stage = "orders" => InService(Outcome(c), t) \/ t \in MustBeFree(c)
    /\ c.stage = "save" => InService(Outcome(c), t)

OrderRecord == [status : {"absent", "open", "closed"}, table : Table \cup {None}, quiet : BOOLEAN]

SeatInv ==
  /\ orders \in [Order -> OrderRecord]
  /\ seating \in [order : Order \cup {None}, table : Table \cup {None}, quiet : BOOLEAN]
  /\ seating # NoSeating => seating.order \in Order /\ seating.table \in Table
  /\ \A o \in Order : Open(o) => orders[o].table \in Table
  /\ page.selected # None => page.draft.here
  /\ \A s \in Slot : Asks(op[s]) /\ Respects(op[s])
  /\ seating.quiet => InService(plan, seating.table) /\ \A s \in Slot : ~Busy(s)
  /\ \A t \in Table : Seated(t) => InService(plan, t)

\* What is changed of a table decides whether it is there and in service.
LEMMA WithService ==
  ASSUME NEW current \in TableRecord,
         NEW input \in [place : Place] \cup [active : BOOLEAN] \cup TableRecord
  PROVE  /\ With(current, input).here = IF "here" \in DOMAIN input THEN input.here ELSE current.here
         /\ With(current, input).active = IF "active" \in DOMAIN input THEN input.active ELSE current.active
<1>1. DOMAIN current = {"here", "active", "zone", "code", "place", "size"}
  BY DEF TableRecord
<1> QED
  BY <1>1 DEF With

\* An operation takes only a table out of service that it has to find free.
LEMMA KeepsTable ==
  ASSUME NEW c, c.base \in Plan, Request(c), Asks(c), c.stage # "none",
         NEW t \in Table, InService(c.base, t)
  PROVE  InService(Outcome(c), t) \/ t \in MustBeFree(c)
<1>1. CASE ZoneRequest(c)
  BY <1>1, OutcomeOfZone DEF InService
<1>2. CASE TableRequest(c) /\ t # c.id
  BY <1>2, OutcomeOfTable DEF InService
<1>3. CASE TableRequest(c) /\ t = c.id
  <2>1. c.of = "tables" /\ c.base.tables[t] \in TableRecord
    BY <1>3 DEF TableRequest, Plan
  <2>2. CASE c.kind = "delete"
    BY <1>3, <2>1, <2>2 DEF MustBeFree
  <2>3. CASE c.kind \in {"create", "update"}
    <3>1. /\ Outcome(c).tables[t] = With(c.base.tables[t], c.input)
          /\ c.input \in [place : Place] \cup [active : BOOLEAN] \cup TableRecord
      BY <1>3, <2>3, OutcomeOfTable DEF TableRequest
    <3>2. CASE c.kind = "create"
      <4>1. c.input \in TableRecord /\ c.input.here /\ c.input.active
        BY <1>3, <2>1, <3>2 DEF TableRequest, Asks
      <4> QED
        BY <2>1, <3>1, <4>1, WithService DEF InService
    <3>3. CASE c.kind = "update"
      <4>1. Outcome(c).tables[t].here
        BY <2>1, <3>1, <3>3, WithService DEF InService, Asks
      <4>2. Outcome(c).tables[t].active \/ t \in MustBeFree(c)
        BY <1>3, <2>1, <3>1, <3>3, WithService DEF InService, MustBeFree
      <4> QED
        BY <4>1, <4>2 DEF InService
    <3> QED
      BY <2>3, <3>2, <3>3
  <2> QED
    BY <1>3, <2>2, <2>3 DEF TableRequest
<1> QED
  BY <1>1, <1>2, <1>3 DEF Request

\* A step of one operation, which neither saves the plan nor seats anyone.
LEMMA SlotSeats ==
  ASSUME TypeOK, SeatInv, NEW s \in Slot, NEW c,
         op' = [op EXCEPT ![s] = c], plan' = plan, orders' = orders,
         seating' \in {seating, [seating EXCEPT !.quiet = FALSE]},
         seating'.quiet => c.stage = "none",
         Asks(c), Respects(c),
         page'.selected # None => page'.draft.here
  PROVE  SeatInv'
<1>1. \A d \in Slot : op'[d] = IF d = s THEN c ELSE op[d]
  BY DEF TypeOK
<1>2. \A t : Seated(t)' <=> Seated(t)
  BY DEF Seated, Open
<1>3. \A d \in Slot : Asks(op'[d])
  BY <1>1 DEF SeatInv
<1>4. \A d \in Slot : Respects(op[d])'
  BY <1>1, <1>2 DEF SeatInv, Respects
<1>5. /\ seating' \in [order : Order \cup {None}, table : Table \cup {None}, quiet : BOOLEAN]
      /\ seating'.order = seating.order /\ seating'.table = seating.table
      /\ seating'.quiet => seating.quiet /\ seating' = seating
  BY DEF SeatInv
<1>6. seating' # NoSeating => seating # NoSeating
  BY DEF NoSeating, SeatInv
<1>7. seating'.quiet => InService(plan', seating'.table) /\ \A d \in Slot : op'[d].stage = "none"
  BY <1>1, <1>5 DEF SeatInv, Busy
<1> QED
  BY <1>2, <1>3, <1>4, <1>5, <1>6, <1>7 DEF SeatInv, Busy, InService, Open

\* What is begun: nothing is seated quietly any more.
LEMMA BeginSeats ==
  ASSUME TypeOK, SeatInv, NEW s \in Slot, NEW kind, NEW of, NEW id, NEW input,
         Begin(s, kind, of, id, input),
         of = "tables" /\ kind = "create" => input.here /\ input.active,
         of = "tables" /\ kind = "update" /\ "here" \in DOMAIN input => input.here,
         page'.selected # None => page'.draft.here
  PROVE  SeatInv'
<1> DEFINE c == [stage |-> "load", kind |-> kind, of |-> of, id |-> id, input |-> input,
                 base |-> None]
<1>1. op' = [op EXCEPT ![s] = c] /\ plan' = plan /\ orders' = orders
  BY DEF Begin
<1>2. seating' = [seating EXCEPT !.quiet = FALSE] /\ ~seating'.quiet
  BY DEF Begin, Disturb, SeatInv
<1>3. Asks(c) /\ Respects(c)
  BY DEF Asks, Respects
<1> HIDE DEF c
<1> QED
  BY <1>1, <1>2, <1>3, SlotSeats

LEMMA ManagerSeats ==
  ASSUME TypeOK, SeatInv, NEW s \in Slot, ManagerStep(s)
  PROVE  SeatInv'
<1>1. MakeBusy => (page'.selected # None => page'.draft.here)
  BY DEF MakeBusy, SeatInv, TypeOK
<1>2. ASSUME NEW z \in Zone, CreateZone(s, z) PROVE SeatInv'
  BY <1>1, <1>2, BeginSeats DEF CreateZone, Submit
<1>3. ASSUME NEW z \in Zone, NEW canvas \in Canvas, ResizeZone(s, z, canvas) PROVE SeatInv'
  BY <1>1, <1>3, BeginSeats DEF ResizeZone, Submit
<1>4. ASSUME NEW z \in Zone, SwitchZone(s, z) PROVE SeatInv'
  BY <1>1, <1>4, BeginSeats DEF SwitchZone, Submit
<1>5. ASSUME NEW z \in Zone, DeleteZone(s, z) PROVE SeatInv'
  BY <1>1, <1>5, BeginSeats DEF DeleteZone, Submit
<1>6. ASSUME NEW t \in Table, NEW z \in Zone, NEW code \in Code, NEW size \in Size,
             CreateTable(s, t, z, code, size)
      PROVE  SeatInv'
  <2> DEFINE input == [here |-> TRUE, active |-> TRUE, zone |-> z, code |-> code, place |-> 0,
                       size |-> size]
  <2>1. Begin(s, "create", "tables", t, input) /\ MakeBusy /\ input.here /\ input.active
    BY <1>6 DEF CreateTable, Submit
  <2> HIDE DEF input
  <2> QED
    BY <1>1, <2>1, BeginSeats
<1>7. ASSUME NEW code \in Code, NEW size \in Size, EditTable(s, code, size)
      PROVE  SeatInv'
  <2> DEFINE edited == [page.draft EXCEPT !.code = code, !.size = size]
  <2>1. /\ Begin(s, "update", "tables", page.selected, edited)
        /\ page' = [page EXCEPT !.busy = TRUE, !.draft = edited]
        /\ page.draft.here
    BY <1>7 DEF EditTable, Submit, SeatInv
  <2>2. edited.here
    BY <2>1 DEF TypeOK, TableRecord
  <2> HIDE DEF edited
  <2>3. page'.draft.here
    BY <2>1, <2>2 DEF TypeOK
  <2> QED
    BY <2>1, <2>2, <2>3, BeginSeats
<1>8. CASE SwitchTable(s)
  <2> DEFINE input == [active |-> ~page.plan.tables[page.selected].active]
  <2>1. Begin(s, "update", "tables", page.selected, input) /\ MakeBusy /\ "here" \notin DOMAIN input
    BY <1>8 DEF SwitchTable, Submit
  <2> HIDE DEF input
  <2> QED
    BY <1>1, <2>1, BeginSeats
<1>9. CASE DeleteTable(s)
  <2>1. Begin(s, "delete", "tables", page.selected, <<>>) /\ page'.selected = None
    BY <1>9 DEF DeleteTable, Submit, TypeOK
  <2> QED
    BY <2>1, BeginSeats
<1>10. ASSUME NEW t \in Table, NEW place \in Place, DropTable(s, t, place)
       PROVE  SeatInv'
  <2> DEFINE input == [place |-> place]
  <2>1. Begin(s, "update", "tables", t, input) /\ MakeBusy /\ "here" \notin DOMAIN input
    BY <1>10 DEF DropTable
  <2> HIDE DEF input
  <2> QED
    BY <1>1, <2>1, BeginSeats
<1> QED
  BY <1>2, <1>3, <1>4, <1>5, <1>6, <1>7, <1>8, <1>9, <1>10 DEF ManagerStep

\* What ends respects every order.
LEMMA EndSeats ==
  ASSUME TypeOK, SeatInv, NEW s \in Slot, End(s), plan' = plan, UNCHANGED <<orders, seating>>,
         page'.selected # None => page'.draft.here
  PROVE  SeatInv'
<1>1. Asks(Idle) /\ Respects(Idle) /\ Idle.stage = "none"
  BY DEF Idle, Asks, Respects
<1> QED
  BY <1>1, SlotSeats DEF End

\* An operation loads the plan with the tables that are taken in it, and drops its intention
\* when an order is at a table that it takes out of service.
LEMMA PlanStepSeats ==
  ASSUME Inv, SeatInv, NEW s \in Slot, PlanStep(s)
  PROVE  SeatInv'
<1>1. /\ TypeOK /\ op[s] \in Operation /\ plan \in Plan /\ Sound(op[s]) /\ Asks(op[s]) /\ Respects(op[s])
      /\ page \in [plan : Plan, selected : Table \cup {None}, draft : TableRecord, busy : BOOLEAN]
  BY DEF Inv, TypeOK, SeatInv
<1>2. op[s].stage # "none" => ~seating.quiet
  BY DEF SeatInv, Busy
<1>3. page' \in {page, [page EXCEPT !.busy = FALSE]} => (page'.selected # None => page'.draft.here)
  BY <1>1 DEF SeatInv
<1>4. CASE Load(s)
  <2> DEFINE c == [op[s] EXCEPT !.base = plan]
             d == [c EXCEPT !.stage = IF MustBeFree(c) = {} THEN "save" ELSE "orders"]
  <2>1. CASE Accepted(c)
    <3>1. /\ op' = [op EXCEPT ![s] = d] /\ plan' = plan /\ orders' = orders /\ seating' = seating
          /\ page' = page /\ op[s].stage = "load"
      BY <1>4, <2>1 DEF Load
    <3>2. /\ d.base = plan /\ d.kind = op[s].kind /\ d.of = op[s].of /\ d.id = op[s].id
          /\ d.input = op[s].input /\ d.stage # "none"
          /\ d.stage = IF MustBeFree(c) = {} THEN "save" ELSE "orders"
      BY <1>1 DEF Operation
    <3>3. MustBeFree(d) = MustBeFree(c)
      BY <1>1 DEF MustBeFree, Operation
    <3> HIDE DEF d
    <3>4. Request(d) /\ Asks(d)
      BY <1>1, <3>1, <3>2 DEF Sound, Request, ZoneRequest, TableRequest, Asks
    <3>5. Respects(d)
      <4> SUFFICES ASSUME NEW t \in Table, Seated(t)
                   PROVE  /\ d.stage = "orders" => InService(Outcome(d), t) \/ t \in MustBeFree(d)
                          /\ d.stage = "save" => InService(Outcome(d), t)
        BY DEF Respects
      <4>1. InService(d.base, t)
        BY <3>2 DEF SeatInv
      <4>2. InService(Outcome(d), t) \/ t \in MustBeFree(d)
        BY <1>1, <3>2, <3>4, <4>1, KeepsTable
      <4>3. d.stage = "save" => MustBeFree(d) = {}
        BY <3>2, <3>3
      <4> QED
        BY <4>2, <4>3
    <3> QED
      BY <1>1, <1>2, <1>3, <3>1, <3>4, <3>5, SlotSeats
  <2>2. CASE ~Accepted(c)
    BY <1>1, <1>3, <1>4, <2>2, EndSeats DEF Load
  <2> QED
    BY <2>1, <2>2
<1>5. CASE CheckOrders(s)
  <2>1. CASE \E t \in MustBeFree(op[s]) : Occupied(t)
    BY <1>1, <1>3, <1>5, <2>1, EndSeats DEF CheckOrders
  <2>2. CASE ~\E t \in MustBeFree(op[s]) : Occupied(t)
    <3> DEFINE d == [op[s] EXCEPT !.stage = "save"]
    <3>1. /\ op' = [op EXCEPT ![s] = d] /\ plan' = plan /\ orders' = orders /\ seating' = seating
          /\ page' = page /\ op[s].stage = "orders"
      BY <1>5, <2>2 DEF CheckOrders
    <3>2. /\ d.base = op[s].base /\ d.kind = op[s].kind /\ d.of = op[s].of /\ d.id = op[s].id
          /\ d.input = op[s].input /\ d.stage = "save"
      BY <1>1 DEF Operation
    <3>3. Outcome(d) = Outcome(op[s])
      BY <1>1 DEF Outcome, Operation
    <3> HIDE DEF d
    <3>4. Asks(d)
      BY <1>1, <3>1, <3>2 DEF Asks
    <3>5. \A t : Seated(t) => Occupied(t)
      BY DEF Seated, Occupied
    <3>6. Respects(d)
      BY <1>1, <2>2, <3>1, <3>2, <3>3, <3>5 DEF Respects
    <3> QED
      BY <1>1, <1>2, <1>3, <3>1, <3>4, <3>6, SlotSeats
  <2> QED
    BY <2>1, <2>2
<1>6. CASE Save(s)
  <2>1. /\ plan' = Outcome(op[s]) /\ op[s].stage = "save" /\ op' = [op EXCEPT ![s] = Idle]
        /\ UNCHANGED <<orders, seating>>
    BY <1>6 DEF Save, End
  <2>2. \A d \in Slot : op'[d] = IF d = s THEN Idle ELSE op[d]
    BY <1>1, <2>1 DEF TypeOK
  <2>3. \A t : Seated(t)' <=> Seated(t)
    BY <2>1 DEF Seated, Open
  <2>4. \A d \in Slot : Asks(op'[d]) /\ Respects(op[d])'
    BY <2>2, <2>3 DEF SeatInv, Asks, Respects, Idle
  <2>5. \A t \in Table : Seated(t)' => InService(plan', t)
    BY <1>1, <2>1, <2>3 DEF Respects
  <2>6. page'.selected # None => page'.draft.here
    BY <1>1, <1>6 DEF Save, SeatInv
  <2>7. ~seating'.quiet
    BY <1>2, <2>1
  <2> QED
    BY <2>1, <2>4, <2>5, <2>6, <2>7 DEF SeatInv, InService, Open
<1> QED
  BY <1>4, <1>5, <1>6 DEF PlanStep

\* The bar seats an order at a table that was in service, and no operation was under way since.
LEMMA BarSeats ==
  ASSUME Inv, SeatInv, BarStep
  PROVE  SeatInv'
<1>0. UNCHANGED <<plan, page, op>>
  BY DEF BarStep, ReadTable, Seat, CloseOrder
<1>1. ASSUME NEW o \in Order, NEW t \in Table, ReadTable(o, t) PROVE SeatInv'
  <2>1. /\ orders' = orders
        /\ seating' = [order |-> o, table |-> t, quiet |-> \A s \in Slot : ~Busy(s)]
        /\ InService(plan, t)
    BY <1>1 DEF ReadTable, InService
  <2>2. \A u : Seated(u)' <=> Seated(u)
    BY <2>1 DEF Seated, Open
  <2>3. /\ seating' \in [order : Order \cup {None}, table : Table \cup {None}, quiet : BOOLEAN]
        /\ seating'.order \in Order /\ seating'.table \in Table
        /\ seating'.quiet => InService(plan, seating'.table) /\ \A s \in Slot : ~Busy(s)
    BY <2>1
  <2> QED
    BY <1>0, <2>1, <2>2, <2>3 DEF SeatInv, Respects, InService, Busy, Open
<1>2. CASE Seat
  <2>1. seating.order \in Order /\ seating.table \in Table /\ seating' = NoSeating /\ ~seating'.quiet
    BY <1>2 DEF Seat, SeatInv, NoSeating
  <2>2. NoSeating \in [order : Order \cup {None}, table : Table \cup {None}, quiet : BOOLEAN]
    BY DEF NoSeating
  <2>3. CASE orders' = orders
    BY <1>0, <2>1, <2>2, <2>3 DEF SeatInv, Respects, InService, Busy, Open, Seated
  <2>4. CASE orders' = [orders EXCEPT ![seating.order] =
                          [status |-> "open", table |-> seating.table, quiet |-> seating.quiet]]
    <3> DEFINE r == [status |-> "open", table |-> seating.table, quiet |-> seating.quiet]
    <3>1. r \in OrderRecord
      BY <2>1 DEF OrderRecord, SeatInv
    <3>2. /\ orders' \in [Order -> OrderRecord]
          /\ \A o \in Order : orders'[o] = IF o = seating.order THEN r ELSE orders[o]
      BY <2>1, <2>4, <3>1 DEF SeatInv
    <3>3. \A t \in Table : Seated(t)' => Seated(t) \/ (seating.quiet /\ t = seating.table)
      BY <3>2 DEF Seated, Open
    <3>4. \A t \in Table : Seated(t)' => InService(plan, t)
      BY <3>3 DEF SeatInv
    <3>5. \A d \in Slot : Respects(op[d])'
      <4>1. CASE seating.quiet
        BY <1>0, <4>1 DEF SeatInv, Busy, Respects
      <4>2. CASE ~seating.quiet
        BY <1>0, <3>3, <4>2 DEF SeatInv, Respects
      <4> QED
        BY <4>1, <4>2 DEF SeatInv
    <3>6. \A o \in Order : Open(o)' => orders'[o].table \in Table
      BY <2>1, <3>2 DEF SeatInv, Open
    <3> QED
      BY <1>0, <2>1, <2>2, <3>2, <3>4, <3>5, <3>6 DEF SeatInv, InService, Busy
  <2> QED
    BY <1>2, <2>3, <2>4 DEF Seat
<1>3. ASSUME NEW o \in Order, CloseOrder(o) PROVE SeatInv'
  <2>1. orders' = [orders EXCEPT ![o].status = "closed"] /\ seating' = seating
    BY <1>3 DEF CloseOrder
  <2>2. /\ orders' \in [Order -> OrderRecord]
        /\ \A x \in Order : Open(x)' => Open(x) /\ orders'[x] = orders[x]
    BY <2>1 DEF SeatInv, OrderRecord, Open
  <2>3. \A t : Seated(t)' => Seated(t)
    BY <2>2 DEF Seated
  <2>4. \A d \in Slot : Respects(op[d])'
    BY <1>0, <2>3 DEF SeatInv, Respects
  <2> QED
    BY <1>0, <2>1, <2>2, <2>3, <2>4 DEF SeatInv, InService, Busy
<1> QED
  BY <1>1, <1>2, <1>3 DEF BarStep

LEMMA SeatStep == Inv /\ SeatInv /\ [Next]_vars => SeatInv'
<1> SUFFICES ASSUME Inv, SeatInv, [Next]_vars PROVE SeatInv'
  OBVIOUS
<1>1. /\ TypeOK
      /\ page \in [plan : Plan, selected : Table \cup {None}, draft : TableRecord, busy : BOOLEAN]
  BY DEF Inv, TypeOK
<1>2. ASSUME UNCHANGED <<plan, op, orders, seating>>, page'.selected # None => page'.draft.here
      PROVE  SeatInv'
  BY <1>2 DEF SeatInv, Respects, Seated, InService, Busy, Open
<1>3. ASSUME NEW s \in Slot, ManagerStep(s) \/ PlanStep(s) PROVE SeatInv'
  BY <1>1, <1>3, ManagerSeats, PlanStepSeats
<1>4. ASSUME NEW t \in Table, SelectTable(t) PROVE SeatInv'
  BY <1>1, <1>2, <1>4 DEF SelectTable, Tables
<1>5. CASE ShowZone
  BY <1>1, <1>2, <1>5 DEF ShowZone
<1>6. CASE OpenPage
  <2>1. UNCHANGED <<plan, orders, seating>> /\ \A d \in Slot : op'[d] = Idle
    BY <1>6 DEF OpenPage
  <2>2. \A d \in Slot : Asks(op'[d]) /\ Respects(op[d])' /\ op'[d].stage = "none"
    BY <2>1 DEF Asks, Respects, Idle
  <2>3. page'.selected = None
    BY <1>6 DEF OpenPage
  <2> QED
    BY <2>1, <2>2, <2>3 DEF SeatInv, Seated, InService, Busy, Open
<1>7. CASE BarStep
  BY <1>7, BarSeats
<1>8. CASE UNCHANGED vars
  BY <1>2, <1>8 DEF vars, SeatInv
<1> QED
  BY <1>3, <1>4, <1>5, <1>6, <1>7, <1>8 DEF Next

LEMMA SeatInit == Init => SeatInv
<1> SUFFICES ASSUME Init PROVE SeatInv
  OBVIOUS
<1>1. NoOrder \in OrderRecord /\ NoOrder.status = "absent"
  BY DEF NoOrder, OrderRecord
<1>2. /\ \A o \in Order : orders[o] = NoOrder
      /\ orders \in [Order -> OrderRecord]
  BY <1>1 DEF Init
<1>3. \A t : ~Seated(t)
  BY <1>1, <1>2 DEF Seated, Open
<1>4. \A s \in Slot : op[s].stage = "none"
  BY DEF Init, Idle
<1> QED
  BY <1>1, <1>2, <1>3, <1>4 DEF SeatInv, Init, NoSeating, Open, Asks, Respects

\* An order keeps its table, however the operations of the plan overlap that are begun after it
\* was seated: an operation that takes a table out of service loads the plan with the order at
\* the table, or finds the order when it looks (updateTable, deleteTable, updateZone).
THEOREM OrdersKeepTheirTables == Spec => []SeatedTablesStay
<1>1. SeatInv => SeatedTablesStay
  BY DEF SeatInv, SeatedTablesStay, Seated, InService
<1> QED
  BY <1>1, InitInv, NextInv, SeatInit, SeatStep, PTL DEF Spec

=============================================================================
