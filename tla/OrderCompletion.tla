-------------------------- MODULE OrderCompletion --------------------------
(***************************************************************************)
(* From the completion of an order to its consumption.  The handler that   *)
(* completes an order saves the store and then calls its completion        *)
(* consumer (bar-service.ts, notifyCompletion), which the Bar screen binds *)
(* to the Warehouse.  The consumer first waits for its access check; until *)
(* then the call exists only in the tab that made it.                      *)
(*                                                                         *)
(* Of the Warehouse (see the module Warehouse) only the outcome of a route *)
(* is kept: what was booked for it, or that an issue was recorded.         *)
(***************************************************************************)
EXTENDS BarOrders

CONSTANT BrokenLine  \* lines whose frozen requirements carry an issue code

Scope == {"bar", "kitchen"}

VARIABLES
  calls,     \* consumer calls that wait for their access check
  bookings,  \* routes of orders that were booked, with their lines
  issues,    \* routes of orders that were reported
  lost       \* history: orders whose call did not come to its end

stock == <<bookings, issues>>
allVars == <<vars, calls, stock, lost>>

-----------------------------------------------------------------------------

LinesOnRoute(bill, scope) ==
  {i \in DOMAIN bill : (Route[i] = "KITCHEN") <=> (scope = "kitchen")}

RouteBill(bill, scope) == [i \in LinesOnRoute(bill, scope) |-> bill[i]]

\* Mutant: the consumer is called by every payment.
NewlyPaid == {o \in Order : orders'[o].paymentStatus = "PAID" /\ orders[o].paymentStatus # "PAID"}

\* The orders a step completes.
NewlyCompleted == {o \in Order : orders'[o].status = "COMPLETED" /\ orders[o].status # "COMPLETED"}

\* A handler of the Bar or the Kitchen; payment, issue and completion notify.
Handle ==
  /\ Next
  /\ calls' = calls \cup {[orderId |-> o, bill |-> Bill(orders'[o])] : o \in NewlyCompleted}
  /\ UNCHANGED <<stock, lost>>

Booked(o, scope) == \E b \in bookings : b.orderId = o /\ b.scope = scope

Reported(o, scope) == <<o, scope>> \in issues

\* A route without a source warehouse or with a broken line is reported, not booked.
Sound(call, scope, assigned) ==
  scope \in assigned /\ LinesOnRoute(call.bill, scope) \cap BrokenLine = {}

\* Mutant: an issue on the bar route ends the whole call.
RoutesUntilIssue(call, assigned) ==
  {scope \in Scope :
     /\ LinesOnRoute(call.bill, scope) # {}
     /\ scope = "bar" \/ Sound(call, "bar", assigned)}

\* The routes that have lines, each of which is consumed on its own.
Routes(call, assigned) == {scope \in Scope : LinesOnRoute(call.bill, scope) # {}}

\* What the consumer writes for some of the routes, given the routes whose workspace
\* has a source warehouse now.
CarryOut(call, assigned, routes) ==
  LET sound == {scope \in routes : Sound(call, scope, assigned)}
  IN  /\ bookings' = bookings \cup
           {[orderId |-> call.orderId, scope |-> scope, lines |-> RouteBill(call.bill, scope)] :
              scope \in {s \in sound : ~Booked(call.orderId, s)}}
      /\ issues' = issues \cup {<<call.orderId, scope>> : scope \in routes \ sound}
      /\ calls' = calls \ {call}
      /\ UNCHANGED vars

\* consumeCompletedOrder, once its access check has passed.
Consume(call, assigned) ==
  /\ CarryOut(call, assigned, Routes(call, assigned))
  /\ UNCHANGED lost

\* The tab is closed while the call waits, the employee or the workspace fails the
\* access check, or a write is refused: the first one, or the one after the bar route.
Lose(call, assigned) ==
  /\ lost' = lost \cup {call.orderId}
  /\ \E done \in {{}, {"bar"}} : CarryOut(call, assigned, done \cap Routes(call, assigned))

ConsumeSome == \E call \in calls, assigned \in SUBSET Scope : Consume(call, assigned)

LoseSome == \E call \in calls, assigned \in SUBSET Scope : Lose(call, assigned)

CompletionInit == Init /\ calls = {} /\ bookings = {} /\ issues = {} /\ lost = {}

CompletionNext ==
  \/ Handle
  \/ ConsumeSome
  \/ LoseSome

\* An open tab's timers fire: a waiting call goes on.  Nothing makes people act.
CompletionSpec ==
  CompletionInit /\ [][CompletionNext]_allVars /\ WF_allVars(ConsumeSome)

-----------------------------------------------------------------------------
(* Correctness.                                                            *)

\* Stock is only taken for orders that are completed, and for exactly the lines the
\* stored order shows, whatever happened to it between the call and the booking.
BookingsMatchOrders ==
  \A b \in bookings :
    /\ orders[b.orderId].status = "COMPLETED"
    /\ b.lines = RouteBill(Bill(orders[b.orderId]), b.scope)

Accounted(o, scope) ==
  LinesOnRoute(Bill(orders[o]), scope) # {} => Booked(o, scope) \/ Reported(o, scope)

\* Every route of a completed order is in the end booked or reported as an issue, unless
\* its tab was closed or failed on the way; an issue on one route never stops the other.
CompletedOrdersAccounted ==
  \A o \in Order :
    orders[o].status = "COMPLETED" ~> o \in lost \/ \A scope \in Scope : Accounted(o, scope)
=============================================================================
