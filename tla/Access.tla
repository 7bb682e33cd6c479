------------------------------- MODULE Access -------------------------------
(***************************************************************************)
(* Who may work where: the workspaces and employees of a project, the      *)
(* directory of the codes by which a device is connected to a workspace,   *)
(* the device's session, and the login of an employee at it (the solution  *)
(* constructor, the local directory and session of the universal           *)
(* application, its screens, the employees' passwords).                    *)
(*                                                                         *)
(* The constructor writes the project and then synchronizes the directory  *)
(* from what it read of the project, after a wait or two.  Its page has    *)
(* three operations under way at once at most: one on workspaces, one on   *)
(* employees and the form of an employee.  No two of its waits overtake    *)
(* each other where it matters: the wait before a synchronization is as    *)
(* short as any (AheadOf).                                                 *)
(***************************************************************************)
EXTENDS Naturals, FiniteSets

CONSTANTS
  Employee, Workspace, Nothing,
  Rotations,  \* bound: how often the code of a workspace is changed
  Operations  \* bound: how many operations are begun, on a project with some history

ASSUME RotationsAssumption == Rotations \in Nat

VARIABLES
  employees,    \* "absent", "active", "inactive" or "deleted"
  passwords,    \* the employees that have a password
  structure,    \* the workspaces, each with the employees assigned to it
  entries,      \* the issued codes, each with the employees a device offers
  session,      \* the device's: the entry it is connected by, and who works
  screen,       \* what the device shows
  running,      \* the operations under way in the constructor
  behind,       \* whether the directory waits for the next synchronization
  begun         \* how many operations were begun

accessVars == <<employees, passwords, structure, entries, session, screen, running, behind, begun>>

Slot == {"workspaces", "employees", "form"}
NoWorkspace == [here |-> FALSE, assigned |-> {}]
NoEntry == [here |-> FALSE, turn |-> 0, listed |-> {}]
NoSession == [workspace |-> Nothing, turn |-> 0, listed |-> {}, current |-> Nothing]
NoScreen == [at |-> "closed", workspace |-> Nothing, listed |-> {}, employee |-> Nothing, known |-> FALSE]
AtRest == [kind |-> "none", stage |-> "none", workspace |-> Nothing, employee |-> Nothing, given |-> FALSE,
           chosen |-> {}, structure |-> [w \in Workspace |-> NoWorkspace], ahead |-> {}, fresh |-> TRUE]

Here(s) == {w \in Workspace : s[w].here}
Exists(e) == employees[e] \in {"active", "inactive"}
Entitled(s, w) == {e \in s[w].assigned : employees[e] = "active"}

-----------------------------------------------------------------------------
(* The waits of the constructor.                                            *)

\* Mutant: waits are of any length.
AheadOfNone(c) == {}

\* The synchronizations that are waited for no longer than a wait that begins now.
AheadOf(c) == {d \in Slot \ {c} : running[d].stage = "list"}

\* Every step of an operation but its first follows a wait.
After(c, stage) == running[c].stage = stage /\ running[c].ahead = {} /\ UNCHANGED begun

WaitAs(c, new) == running' = [running EXCEPT ![c] = [new EXCEPT !.ahead = AheadOf(c)]]
WaitFor(c, stage) == WaitAs(c, [running[c] EXCEPT !.stage = stage])
EndOperation(c) == running' = [d \in Slot |-> IF d = c THEN AtRest ELSE [running[d] EXCEPT !.ahead = @ \ {c}]]

Start(c, kind, stage) == [AtRest EXCEPT !.kind = kind, !.stage = stage]
Constructor == <<employees, passwords, structure, entries, session, behind>>
Count == begun < Operations /\ begun' = begun + 1

-----------------------------------------------------------------------------
(* The directory.                                                           *)

\* An entry keeps its code when it is synchronized.
Synchronized(s) ==
  [w \in Workspace |->
     IF w \in Here(s) /\ entries[w].here THEN [entries[w] EXCEPT !.listed = Entitled(s, w)]
     ELSE NoEntry]

\* A workspace that has a code keeps it; the first code is made of the workspace alone.
Issued(w) ==
  IF entries[w].here THEN entries
  ELSE [entries EXCEPT ![w] = [here |-> TRUE, turn |-> 0, listed |-> Entitled(structure, w)]]

\* Another code is made of the one before, the first if there is none.
Rotated(w) ==
  IF entries[w].here
  THEN [entries EXCEPT ![w] = [here |-> TRUE, turn |-> @.turn + 1, listed |-> Entitled(structure, w)]]
  ELSE Issued(w)

\* The device is disconnected from these workspaces.
Disconnected(ws) == IF session.workspace \in ws THEN NoSession ELSE session

\* Mutant: devices stay connected to the workspaces that are left out.
SynchronizeDirectoryOnly(s) ==
  /\ entries' = Synchronized(s)
  /\ UNCHANGED session

\* Entries and the device's connection follow a structure and the employees of now.
Synchronize(s) ==
  /\ entries' = Synchronized(s)
  /\ session' = Disconnected(Workspace \ Here(s))

-----------------------------------------------------------------------------
(* Operations on workspaces.                                                *)

Free(c) == running[c] = AtRest /\ Count

\* What the panel of a workspace offers: a check box for every employee, and for its code to
\* be generated, or changed once there is one.
OffersAssignment(w, e) == structure[w].here /\ Exists(e)
OffersCode(kind, w) ==
  /\ structure[w].here
  /\ kind = IF entries[w].here THEN "rotate" ELSE "issue"

\* At least one module is selected.
BeginGenerate(modules) ==
  /\ Free("workspaces") /\ modules # {}
  /\ WaitAs("workspaces", [Start("workspaces", "generate", "write") EXCEPT !.chosen = modules])
  /\ UNCHANGED <<screen, Constructor>>

BeginAssign(w, e, given) ==
  /\ Free("workspaces") /\ OffersAssignment(w, e)
  /\ WaitAs("workspaces", [Start("workspaces", "assign", "write") EXCEPT
                             !.workspace = w, !.employee = e, !.given = given])
  /\ UNCHANGED <<screen, Constructor>>

\* The workspaces that stay keep their employees.
Generated(modules) ==
  [w \in Workspace |->
     IF w \notin modules THEN NoWorkspace
     ELSE IF structure[w].here THEN structure[w]
     ELSE [here |-> TRUE, assigned |-> {}]]

\* An assignment is refused when the workspace or the employee is gone.
Assigned(w, e, given) ==
  [structure EXCEPT ![w].assigned = IF given THEN @ \cup {e} ELSE @ \ {e}]

\* What is written is what the synchronization will go by.
WriteStructure ==
  LET o == running["workspaces"]
      new == IF o.kind = "generate" THEN Generated(o.chosen) ELSE Assigned(o.workspace, o.employee, o.given)
  IN
  /\ After("workspaces", "write")
  /\ IF o.kind = "assign" /\ ~(structure[o.workspace].here /\ Exists(o.employee))
     THEN EndOperation("workspaces") /\ UNCHANGED structure
     ELSE /\ structure' = new
          /\ WaitAs("workspaces", [o EXCEPT !.stage = "list", !.structure = new, !.fresh = TRUE])
  /\ UNCHANGED <<employees, passwords, entries, session, screen, behind>>

\* The employees are listed after a wait, and the directory synchronized with what there was
\* of the workspaces before it.
SynchronizeLater(c) ==
  /\ After(c, "list")
  /\ Synchronize(running[c].structure)
  /\ behind' = (behind /\ ~running[c].fresh)
  /\ EndOperation(c)
  /\ UNCHANGED <<employees, passwords, structure, screen>>

\* A code is issued or changed, for the workspace as it is after a wait.
BeginCode(kind, w) ==
  /\ Free("workspaces") /\ OffersCode(kind, w)
  /\ WaitAs("workspaces", [Start("workspaces", kind, "look") EXCEPT !.workspace = w])
  /\ UNCHANGED <<screen, Constructor>>

IssueCode ==
  LET w == running["workspaces"].workspace IN
  /\ running["workspaces"].kind = "issue" /\ After("workspaces", "look")
  /\ entries' = IF structure[w].here THEN Issued(w) ELSE entries
  /\ EndOperation("workspaces")
  /\ UNCHANGED <<employees, passwords, structure, session, screen, behind>>

\* Mutant: the device keeps the code that was changed.
RotateAndStay ==
  LET w == running["workspaces"].workspace IN
  /\ running["workspaces"].kind = "rotate" /\ After("workspaces", "look")
  /\ entries[w].turn < Rotations
  /\ entries' = IF structure[w].here THEN Rotated(w) ELSE entries
  /\ EndOperation("workspaces")
  /\ UNCHANGED <<employees, passwords, structure, session, screen, behind>>

RotateCode ==
  LET w == running["workspaces"].workspace IN
  /\ running["workspaces"].kind = "rotate" /\ After("workspaces", "look")
  /\ entries[w].turn < Rotations
  /\ IF structure[w].here
     THEN entries' = Rotated(w) /\ session' = Disconnected({w})
     ELSE UNCHANGED <<entries, session>>
  /\ EndOperation("workspaces")
  /\ UNCHANGED <<employees, passwords, structure, screen, behind>>

DisconnectDevice(w) ==
  /\ Free("workspaces") /\ session.workspace = w
  /\ session' = Disconnected({w})
  /\ UNCHANGED <<employees, passwords, structure, entries, screen, running, behind>>

-----------------------------------------------------------------------------
(* Operations on employees.                                                 *)

\* The rows of the employees, each with its buttons; one is pending at a time.
OffersEmployee(e) == Exists(e)

\* The form is filled in, for a new employee or for one that is being edited.
BeginCreate(e) ==
  /\ Free("form") /\ employees[e] = "absent"
  /\ WaitAs("form", [Start("form", "create", "create") EXCEPT !.employee = e])
  /\ UNCHANGED <<screen, Constructor>>

\* The employee is created and given the password; without room for it the employee is
\* taken back.
CreateEmployee ==
  LET e == running["form"].employee IN
  /\ After("form", "create")
  /\ employees' = [employees EXCEPT ![e] = "active"]
  /\ \/ passwords' = passwords \cup {e} /\ WaitFor("form", "look")
     \/ UNCHANGED passwords /\ WaitFor("form", "undo")
  /\ UNCHANGED <<structure, entries, session, screen, behind>>

UndoCreate ==
  /\ After("form", "undo")
  /\ employees' = [employees EXCEPT ![running["form"].employee] = "deleted"]
  /\ behind' = TRUE
  /\ EndOperation("form")
  /\ UNCHANGED <<passwords, structure, entries, session, screen>>

\* The workspaces are read, and the employees listed after another wait.
LookAtStructure ==
  /\ running["form"].kind = "create" /\ After("form", "look")
  /\ WaitAs("form", [running["form"] EXCEPT !.stage = "list", !.structure = structure, !.fresh = TRUE])
  /\ UNCHANGED <<screen, Constructor>>

\* Names are changed, or an employee is let go or taken back.
BeginUpdate(e) ==
  /\ Free("form") /\ OffersEmployee(e)
  /\ WaitAs("form", [Start("form", "update", "change") EXCEPT !.employee = e])
  /\ UNCHANGED <<screen, Constructor>>

BeginSetActive(e) ==
  /\ Free("employees") /\ OffersEmployee(e)
  /\ WaitAs("employees", [Start("employees", "update", "change") EXCEPT
                            !.employee = e, !.given = (employees[e] = "inactive")])
  /\ UNCHANGED <<screen, Constructor>>

ChangeEmployee(c) ==
  LET e == running[c].employee IN
  /\ After(c, "change")
  /\ IF Exists(e)
     THEN /\ employees' = IF c = "form" THEN employees
                          ELSE [employees EXCEPT ![e] = IF running[c].given THEN "active" ELSE "inactive"]
          /\ WaitFor(c, "synchronize")
     ELSE EndOperation(c) /\ UNCHANGED employees
  /\ UNCHANGED <<passwords, structure, entries, session, screen, behind>>

\* The whole of the project is read and the directory synchronized with it.
SynchronizeNow(c) ==
  /\ After(c, "synchronize")
  /\ Synchronize(structure)
  /\ behind' = FALSE
  /\ EndOperation(c)
  /\ UNCHANGED <<employees, passwords, structure, screen>>

BeginDeleteEmployee(e) ==
  /\ Free("employees") /\ OffersEmployee(e)
  /\ WaitAs("employees", [Start("employees", "delete", "look") EXCEPT !.employee = e])
  /\ UNCHANGED <<screen, Constructor>>

\* The workspaces to which the employee is assigned are noted, and left one after the other.
LookForAssignments ==
  LET o == running["employees"] IN
  /\ o.kind = "delete" /\ After("employees", "look")
  /\ WaitAs("employees", [o EXCEPT !.stage = "unassign",
                            !.chosen = {w \in Here(structure) : o.employee \in structure[w].assigned}])
  /\ UNCHANGED <<screen, Constructor>>

\* A workspace that was left out meanwhile ends the deletion half-way, and the employees that
\* devices offer stay as they are.
Unassign(w) ==
  LET o == running["employees"] IN
  /\ After("employees", "unassign") /\ w \in o.chosen
  /\ IF structure[w].here /\ Exists(o.employee)
     THEN /\ structure' = Assigned(w, o.employee, FALSE)
          /\ WaitAs("employees", [o EXCEPT !.chosen = @ \ {w}])
          /\ UNCHANGED behind
     ELSE /\ running' = [d \in Slot |-> IF d = "employees" THEN AtRest ELSE [running[d] EXCEPT !.fresh = FALSE]]
          /\ behind' = TRUE
          /\ UNCHANGED structure
  /\ UNCHANGED <<employees, passwords, entries, session, screen>>

\* The password goes at once.
RemovePassword ==
  LET o == running["employees"] IN
  /\ After("employees", "unassign") /\ o.chosen = {}
  /\ passwords' = passwords \ {o.employee}
  /\ WaitFor("employees", "remove")
  /\ UNCHANGED <<employees, structure, entries, session, screen, behind>>

RemoveEmployee ==
  LET e == running["employees"].employee IN
  /\ After("employees", "remove")
  /\ IF Exists(e)
     THEN employees' = [employees EXCEPT ![e] = "deleted"] /\ WaitFor("employees", "synchronize")
     ELSE EndOperation("employees") /\ UNCHANGED employees
  /\ UNCHANGED <<passwords, structure, entries, session, screen, behind>>

\* An employee that was found is given another password when it has been hashed.
BeginResetPassword(e) ==
  /\ Free("employees") /\ OffersEmployee(e)
  /\ WaitAs("employees", [Start("employees", "reset", "hash") EXCEPT !.employee = e])
  /\ UNCHANGED <<screen, Constructor>>

ResetPassword ==
  /\ After("employees", "hash")
  /\ passwords' = passwords \cup {running["employees"].employee}
  /\ EndOperation("employees")
  /\ UNCHANGED <<employees, structure, entries, session, screen, behind>>

\* On their own page employees are switched, which no directory follows.
ToggleElsewhere(e) ==
  /\ Count /\ Exists(e)
  /\ employees' = [employees EXCEPT ![e] = IF @ = "active" THEN "inactive" ELSE "active"]
  /\ behind' = TRUE
  /\ UNCHANGED <<passwords, structure, entries, session, screen, running>>

\* The constructor's page is closed.
CloseConstructor ==
  /\ running # [c \in Slot |-> AtRest] /\ UNCHANGED begun
  /\ running' = [c \in Slot |-> AtRest]
  /\ behind' = TRUE
  /\ UNCHANGED <<employees, passwords, structure, entries, session, screen>>

-----------------------------------------------------------------------------
(* The device.                                                              *)

ConstructorState == <<employees, passwords, structure, entries, running, behind, begun>>
Connected == session.workspace # Nothing

\* The entry of a code, the workspace of which is w.
Resolves(w, turn) == entries[w].here /\ entries[w].turn = turn

\* Whoever worked is asked to log in again.
Authorize(w) ==
  /\ session' = [workspace |-> w, turn |-> entries[w].turn, listed |-> entries[w].listed,
                 current |-> Nothing]
  /\ screen' = [NoScreen EXCEPT !.at = "login", !.workspace = w, !.listed = entries[w].listed]

\* The device's code still leads to its workspace.
Bound == Connected /\ Resolves(session.workspace, session.turn)

\* A device that is connected, by a code that still leads to its workspace, offers the
\* employees of now; any other is asked for a code.
Open ==
  /\ screen.at = "closed"
  /\ IF Bound
     THEN Authorize(session.workspace)
     ELSE session' = NoSession /\ screen' = [NoScreen EXCEPT !.at = "connect"]
  /\ UNCHANGED ConstructorState

\* A code is entered; one that leads nowhere is refused.
Connect(w, turn) ==
  /\ screen.at = "connect" /\ Resolves(w, turn)
  /\ Authorize(w)
  /\ UNCHANGED ConstructorState

\* The password's record is read now, and the project after a wait.
SubmitLogin(e) ==
  /\ screen.at = "login" /\ e \in screen.listed
  /\ screen' = [screen EXCEPT !.at = "verifying", !.employee = e, !.known = (e \in passwords)]
  /\ UNCHANGED <<session, ConstructorState>>

\* The employee is active and assigned, and the password is the right one or is not.
Verify ==
  /\ screen.at = "verifying"
  /\ \/ /\ structure[screen.workspace].here /\ screen.known
        /\ screen.employee \in Entitled(structure, screen.workspace)
        /\ screen' = [screen EXCEPT !.at = "verified"]
     \/ screen' = [screen EXCEPT !.at = "login", !.employee = Nothing]
  /\ UNCHANGED <<session, ConstructorState>>

\* What the screen shows of a session; without one, that it is starting.
Shown(s) ==
  IF s.workspace = Nothing THEN [NoScreen EXCEPT !.at = "starting"]
  ELSE [NoScreen EXCEPT !.at = IF s.current = Nothing THEN "login" ELSE "working",
                        !.workspace = s.workspace, !.listed = s.listed, !.employee = s.current]

\* The employee begins to work, if the session still offers it.
Authenticate ==
  /\ screen.at = "verified"
  /\ IF Connected /\ screen.employee \in session.listed
     THEN /\ session' = [session EXCEPT !.current = screen.employee]
          /\ screen' = Shown(session')
     ELSE /\ screen' = Shown(NoSession)
          /\ UNCHANGED session
  /\ UNCHANGED ConstructorState

Logout ==
  /\ screen.at = "working"
  /\ session' = [session EXCEPT !.current = Nothing]
  /\ screen' = Shown(session')
  /\ UNCHANGED ConstructorState

CloseScreen ==
  /\ screen.at # "closed"
  /\ screen' = NoScreen
  /\ UNCHANGED <<session, ConstructorState>>

-----------------------------------------------------------------------------

\* A project as the constructor leaves it, and no device connected yet.
AccessInit ==
  /\ employees \in [Employee -> {"absent", "active"}]
  /\ passwords = {e \in Employee : Exists(e)}
  /\ structure \in {[w \in Workspace |-> NoWorkspace]}
                     \cup [Workspace -> [here : {TRUE}, assigned : SUBSET passwords]]
  /\ entries = [w \in Workspace |->
       IF structure[w].here THEN [here |-> TRUE, turn |-> 0, listed |-> Entitled(structure, w)] ELSE NoEntry]
  /\ begun = 0
  /\ session = NoSession /\ screen = NoScreen
  /\ running = [c \in Slot |-> AtRest]
  /\ behind = FALSE

WorkspacesNext ==
  \/ WriteStructure \/ IssueCode \/ RotateCode
  \/ \E modules \in SUBSET Workspace : BeginGenerate(modules)
  \/ \E w \in Workspace, e \in Employee, given \in BOOLEAN : BeginAssign(w, e, given)
  \/ \E w \in Workspace : BeginCode("issue", w)
  \/ \E w \in Workspace : BeginCode("rotate", w)
  \/ \E w \in Workspace : DisconnectDevice(w)

EmployeesNext ==
  \/ CreateEmployee \/ UndoCreate \/ LookAtStructure \/ LookForAssignments
  \/ RemovePassword \/ RemoveEmployee \/ ResetPassword
  \/ \E w \in Workspace : Unassign(w)
  \/ \E e \in Employee : BeginCreate(e)
  \/ \E e \in Employee : BeginUpdate(e)
  \/ \E e \in Employee : BeginSetActive(e)
  \/ \E e \in Employee : BeginDeleteEmployee(e)
  \/ \E e \in Employee : BeginResetPassword(e)
  \/ \E e \in Employee : ToggleElsewhere(e)

DeviceNext ==
  \/ Open \/ Verify \/ Authenticate \/ Logout \/ CloseScreen
  \/ \E w \in Workspace, turn \in 0 .. Rotations : Connect(w, turn)
  \/ \E e \in Employee : SubmitLogin(e)

AccessNext ==
  \/ WorkspacesNext \/ EmployeesNext \/ DeviceNext \/ CloseConstructor
  \/ \E c \in Slot : SynchronizeLater(c)
  \/ \E c \in Slot : ChangeEmployee(c)
  \/ \E c \in Slot : SynchronizeNow(c)

AccessSpec == AccessInit /\ [][AccessNext]_accessVars

-----------------------------------------------------------------------------

AccessTypeOK ==
  /\ employees \in [Employee -> {"absent", "active", "inactive", "deleted"}]
  /\ passwords \subseteq Employee
  /\ structure \in [Workspace -> [here : BOOLEAN, assigned : SUBSET Employee]]
  /\ entries \in [Workspace -> [here : BOOLEAN, turn : 0 .. Rotations, listed : SUBSET Employee]]
  /\ session \in [workspace : Workspace \cup {Nothing}, turn : 0 .. Rotations,
                  listed : SUBSET Employee, current : Employee \cup {Nothing}]
  /\ behind \in BOOLEAN

\* When the constructor is at rest, and nothing was left for the next synchronization, a
\* device that is connected now offers the active employees assigned to its workspace and no
\* others, in whatever order operations that overlapped wrote and synchronized.
DirectoryInStep ==
  (running = [c \in Slot |-> AtRest] /\ ~behind) =>
    \A w \in Workspace : entries[w].here =>
      structure[w].here /\ entries[w].listed = Entitled(structure, w)

\* A device is never left connected by a code that leads nowhere or to another workspace.
SessionResolves == Connected => Resolves(session.workspace, session.turn)
=============================================================================
