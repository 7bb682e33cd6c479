------------------------------- MODULE Setup -------------------------------
(***************************************************************************)
(* The setting up of a coffee project: the platform's list of projects,    *)
(* the records of installations, the directory of the codes by which a     *)
(* device finds a business, the checklist of the project, and the          *)
(* development project that is installed as a whole (project-wizard,       *)
(* mock-repository, coffee-manager-setup-repository, the local directory,  *)
(* coffee-crash-test-service, the checklist of repositories.ts).           *)
(*                                                                         *)
(* Each of these is a value of its own in the browser's storage, and an    *)
(* operation writes them one after the other with waits in between.  The   *)
(* page may be closed at any of them.                                      *)
(***************************************************************************)
EXTENDS Naturals, FiniteSets

CONSTANTS
  Project,
  CrashTest,    \* the development project
  Input,        \* what the establishment form is filled in with
  Client, None,
  Steps,        \* the checklist: the first step is the profile, the last two review and ready
  Interrupted   \* bound: the operations during which the page may be closed

ASSUME ProjectAssumption == IsFiniteSet(Project) /\ CrashTest \in Project
ASSUME InputAssumption == Input # {} /\ None \notin Input \X (1 .. Cardinality(Project))
ASSUME StepsAssumption == Steps \in Nat /\ Steps > 2

VARIABLES
  platform,   \* the projects of the platform
  records,    \* the record of the installation of each project
  directory,  \* the registered codes, each with its project
  coffee,     \* the data of each project
  local,      \* the selected project, the schema version, the issued workspaces
  op          \* the operation that each client has under way

vars == <<platform, records, directory, coffee, local, op>>

NoRecord == [here |-> FALSE, code |-> None, seeded |-> FALSE]
NoCoffee == [here |-> FALSE, steps |-> [i \in 1 .. Steps |-> "blocked"], ready |-> FALSE,
             seeded |-> FALSE, workspaces |-> FALSE, credentials |-> FALSE]
Cleared == [selected |-> FALSE, schema |-> FALSE, issued |-> FALSE]
Idle == [kind |-> "none", stage |-> "none", project |-> None, code |-> None, record |-> NoRecord]

-----------------------------------------------------------------------------
(* The checklist.                                                           *)

\* The first step is to be done and the others wait.
InitialCoffee ==
  [NoCoffee EXCEPT !.here = TRUE, !.steps[1] = "incomplete"]

\* Mutant: completing a step unlocks no other.
CompletedAlone(steps, i) == [steps EXCEPT ![i] = "complete"]

\* A step is complete, and the next one waits no longer.
Completed(steps, i) ==
  [j \in 1 .. Steps |->
     CASE j = i -> "complete"
       [] j = i + 1 /\ steps[j] = "blocked" -> "incomplete"
       [] OTHER -> steps[j]]

\* Data that is not there is initialized when it is read.
Read(p) == IF coffee[p].here THEN coffee[p] ELSE InitialCoffee

\* The profile is saved on its own page, something is created or a role is assigned, and the
\* step is complete whether or not it was waited for.
CompleteByCreating(p, i) ==
  /\ records[p].here /\ i \in 1 .. Steps - 2
  /\ coffee' = [coffee EXCEPT ![p] = [Read(p) EXCEPT !.steps = Completed(@, i)]]
  /\ UNCHANGED <<platform, records, directory, local, op>>

CompleteReview(p) ==
  /\ records[p].here
  /\ Read(p).steps[Steps - 1] # "blocked"
  /\ coffee' = [coffee EXCEPT ![p] = [Read(p) EXCEPT !.steps = Completed(@, Steps - 1)]]
  /\ UNCHANGED <<platform, records, directory, local, op>>

MarkReady(p) ==
  /\ records[p].here
  /\ \A i \in 1 .. Steps - 1 : Read(p).steps[i] = "complete"
  /\ coffee' = [coffee EXCEPT ![p] =
       [Read(p) EXCEPT !.steps = Completed(@, Steps), !.ready = TRUE]]
  /\ UNCHANGED <<platform, records, directory, local, op>>

-----------------------------------------------------------------------------
(* Creating a project and installing the solution in it.                    *)

\* The development page is used by itself, and clears everything.
Alone(c, kind) ==
  /\ op[c] = Idle
  /\ \A d \in Client \ {c} :
       /\ op[d].kind \notin {"reset", "delete"}
       /\ kind \in {"reset", "delete"} => op[d] = Idle

At(c, stage) == op[c].stage = stage
Continue(c, stage) == op' = [op EXCEPT ![c].stage = stage]
Finish(c) == op' = [op EXCEPT ![c] = Idle]

\* The wizard creates the project, and installs the solution in it.
CreateProject(c, p) ==
  /\ Alone(c, "create")
  /\ p \in Project \ {CrashTest} /\ p \notin platform /\ ~records[p].here /\ ~coffee[p].here
  /\ \A d \in Client : op[d].project # p
  /\ platform' = platform \cup {p}
  /\ op' = [op EXCEPT ![c] = [Idle EXCEPT !.kind = "create", !.stage = "initialize", !.project = p]]
  /\ UNCHANGED <<records, directory, coffee, local>>

Initialize(c) ==
  LET p == op[c].project IN
  /\ At(c, "initialize")
  /\ coffee' = [coffee EXCEPT ![p] = Read(p)]
  /\ Continue(c, "install")
  /\ UNCHANGED <<platform, records, directory, local>>

\* The candidate of an input, and what the input is counted up with until the code is free.
CodesOf(x) == {<<x, n>> : n \in 1 .. Cardinality(Project)}
CodeFor(x, taken) ==
  CHOOSE code \in CodesOf(x) \ taken : \A other \in CodesOf(x) \ taken : code[2] <= other[2]

\* Codes are compared with those of the records, and a project keeps its own.
NextCode(p, x) ==
  IF records[p].code # None THEN records[p].code
  ELSE CodeFor(x, {records[q].code : q \in Project})

\* The development project is configured with an input of its own.
CrashTestInput == CHOOSE x \in Input : TRUE

\* A project that is installed already keeps its record.
RecordInstallation(c) ==
  LET p == op[c].project
      record == IF records[p].here THEN records[p]
                ELSE [here |-> TRUE, code |-> None, seeded |-> FALSE]
  IN
  /\ At(c, "install")
  /\ records' = [records EXCEPT ![p] = record]
  /\ IF op[c].kind = "reset"
     THEN op' = [op EXCEPT ![c].stage = "profile", ![c].code = NextCode(p, CrashTestInput),
                           ![c].record = record]
     ELSE Finish(c)
  /\ UNCHANGED <<platform, directory, coffee, local>>

-----------------------------------------------------------------------------
(* Configuring the establishment.                                           *)

\* The form is saved.  The record is read here and written at the end.
BeginConfigure(c, p, x) ==
  /\ Alone(c, "configure")
  /\ p \in platform /\ records[p].here
  /\ op' = [op EXCEPT ![c] = [kind |-> "configure", stage |-> "profile", project |-> p,
                              code |-> NextCode(p, x), record |-> records[p]]]
  /\ UNCHANGED <<platform, records, directory, coffee, local>>

\* Mutant: the code is saved before it is registered.
UpdateProfileAndSave(c) ==
  LET p == op[c].project IN
  /\ At(c, "profile")
  /\ coffee' = [coffee EXCEPT ![p] = [Read(p) EXCEPT !.steps = Completed(@, 1)]]
  /\ records' = [records EXCEPT ![p] = [op[c].record EXCEPT !.code = op[c].code]]
  /\ Continue(c, "register")
  /\ UNCHANGED <<platform, directory, local>>

\* The profile of the business is saved, which is the first step of the checklist, and the
\* settings.
UpdateProfile(c) ==
  LET p == op[c].project IN
  /\ At(c, "profile")
  /\ coffee' = [coffee EXCEPT ![p] = [Read(p) EXCEPT !.steps = Completed(@, 1)]]
  /\ Continue(c, "register")
  /\ UNCHANGED <<platform, records, directory, local>>

\* Mutant: a project may be registered under another code.
RegisterAgain(c) ==
  LET p == op[c].project
      code == op[c].code
  IN
  /\ At(c, "register")
  /\ IF \E e \in directory : e.code = code /\ e.project # p
     THEN Finish(c) /\ UNCHANGED directory
     ELSE /\ directory' = {e \in directory : e.project # p} \cup {[code |-> code, project |-> p]}
          /\ Continue(c, "save")
  /\ UNCHANGED <<platform, records, coffee, local>>

\* A code that another project has, or another code of the project, is refused.
Register(c) ==
  LET p == op[c].project
      code == op[c].code
  IN
  /\ At(c, "register")
  /\ IF \E e \in directory : (e.code = code) # (e.project = p)
     THEN Finish(c) /\ UNCHANGED directory
     ELSE /\ directory' = {e \in directory : e.project # p} \cup {[code |-> code, project |-> p]}
          /\ Continue(c, "save")
  /\ UNCHANGED <<platform, records, coffee, local>>

SaveConfiguration(c) ==
  LET configured == [op[c].record EXCEPT !.code = op[c].code] IN
  /\ At(c, "save")
  /\ records' = [records EXCEPT ![op[c].project] = configured]
  /\ IF op[c].kind = "reset"
     THEN op' = [op EXCEPT ![c].stage = "seed", ![c].record = configured]
     ELSE Finish(c)
  /\ UNCHANGED <<platform, directory, coffee, local>>

-----------------------------------------------------------------------------
(* The development project.                                                 *)

BeginReset(c) ==
  /\ Alone(c, "reset")
  /\ platform' = {}
  /\ op' = [op EXCEPT ![c] = [Idle EXCEPT !.kind = "reset", !.stage = "clear", !.project = CrashTest]]
  /\ UNCHANGED <<records, directory, coffee, local>>

\* Mutant: the storage is not cleared, only the records and the directory.
ClearRecords(c) ==
  /\ At(c, "clear")
  /\ records' = [p \in Project |-> NoRecord]
  /\ directory' = {}
  /\ coffee' = [p \in Project |-> NoCoffee]
  /\ UNCHANGED local
  /\ Continue(c, "ensure")
  /\ UNCHANGED platform

\* The directory and the whole of the storage.
ClearStorage(c) ==
  /\ At(c, "clear")
  /\ records' = [p \in Project |-> NoRecord]
  /\ directory' = {}
  /\ coffee' = [p \in Project |-> NoCoffee]
  /\ local' = Cleared
  /\ Continue(c, "ensure")
  /\ UNCHANGED platform

EnsureProject(c) ==
  /\ At(c, "ensure")
  /\ platform' = platform \cup {CrashTest}
  /\ Continue(c, "initialize")
  /\ UNCHANGED <<records, directory, coffee, local>>

\* The seed fills the project, completes the checklist and makes the project ready.
ApplySeed(c) ==
  /\ At(c, "seed")
  /\ coffee' = [coffee EXCEPT ![CrashTest] =
       [Read(CrashTest) EXCEPT !.steps = [i \in 1 .. Steps |-> "complete"], !.ready = TRUE,
                               !.seeded = TRUE]]
  /\ Continue(c, "structure")
  /\ UNCHANGED <<platform, records, directory, local>>

\* Workspaces are generated, and employees, locations and warehouses assigned.
GenerateStructure(c) ==
  /\ At(c, "structure")
  /\ coffee' = [coffee EXCEPT ![CrashTest] = [Read(CrashTest) EXCEPT !.workspaces = TRUE]]
  /\ Continue(c, "complete")
  /\ UNCHANGED <<platform, records, directory, local>>

CompleteRecord(c) ==
  /\ At(c, "complete")
  /\ records' = [records EXCEPT ![CrashTest] = [op[c].record EXCEPT !.seeded = TRUE]]
  /\ Continue(c, "credentials")
  /\ UNCHANGED <<platform, directory, coffee, local>>

SetCredentials(c) ==
  /\ At(c, "credentials")
  /\ coffee' = [coffee EXCEPT ![CrashTest].credentials = TRUE]
  /\ Continue(c, "issue")
  /\ UNCHANGED <<platform, records, directory, local>>

IssueWorkspaces(c) ==
  /\ At(c, "issue")
  /\ local' = [local EXCEPT !.issued = TRUE]
  /\ Continue(c, "select")
  /\ UNCHANGED <<platform, records, directory, coffee>>

\* Last of all, what the inspection looks for.
SelectProject(c) ==
  /\ At(c, "select")
  /\ local' = [local EXCEPT !.selected = TRUE, !.schema = TRUE]
  /\ Finish(c)
  /\ UNCHANGED <<platform, records, directory, coffee>>

\* The project is deleted: its code, its data, the project, the record, the workspaces.
BeginDelete(c) ==
  /\ Alone(c, "delete")
  /\ records[CrashTest].here
  /\ directory' = {e \in directory : e.project # CrashTest}
  /\ op' = [op EXCEPT ![c] = [Idle EXCEPT !.kind = "delete", !.stage = "data", !.project = CrashTest]]
  /\ UNCHANGED <<platform, records, coffee, local>>

DeleteData(c) ==
  /\ At(c, "data")
  /\ coffee' = [coffee EXCEPT ![CrashTest] = NoCoffee]
  /\ Continue(c, "project")
  /\ UNCHANGED <<platform, records, directory, local>>

DeleteProject(c) ==
  /\ At(c, "project")
  /\ platform' = platform \ {CrashTest}
  /\ records' = [records EXCEPT ![CrashTest] = NoRecord]
  /\ local' = [local EXCEPT !.selected = FALSE, !.issued = FALSE]
  /\ Finish(c)
  /\ UNCHANGED <<directory, coffee>>

\* The page is closed, and what it had under way goes no further.
ClosePage(c) ==
  /\ op[c].kind \in Interrupted
  /\ Finish(c)
  /\ UNCHANGED <<platform, records, directory, coffee, local>>

-----------------------------------------------------------------------------

Init ==
  /\ platform = {} /\ directory = {}
  /\ records = [p \in Project |-> NoRecord]
  /\ coffee = [p \in Project |-> NoCoffee]
  /\ local = Cleared
  /\ op = [c \in Client |-> Idle]

ChecklistNext ==
  \E p \in Project :
    \/ CompleteReview(p) \/ MarkReady(p)
    \/ \E i \in 1 .. Steps : CompleteByCreating(p, i)

InstallationNext(c) ==
  \/ Initialize(c) \/ RecordInstallation(c)
  \/ UpdateProfile(c) \/ Register(c) \/ SaveConfiguration(c)
  \/ \E p \in Project : CreateProject(c, p)
  \/ \E p \in Project, x \in Input : BeginConfigure(c, p, x)

DevelopmentNext(c) ==
  \/ BeginReset(c) \/ ClearStorage(c) \/ EnsureProject(c) \/ ApplySeed(c) \/ GenerateStructure(c)
  \/ CompleteRecord(c) \/ SetCredentials(c) \/ IssueWorkspaces(c) \/ SelectProject(c)
  \/ BeginDelete(c) \/ DeleteData(c) \/ DeleteProject(c)

Next ==
  \/ ChecklistNext
  \/ \E c \in Client : InstallationNext(c)
  \/ \E c \in Client : DevelopmentNext(c)
  \/ \E c \in Client : ClosePage(c)

Spec == Init /\ [][Next]_vars

-----------------------------------------------------------------------------

RecordType == [here : BOOLEAN, code : (Input \X (1 .. Cardinality(Project))) \cup {None}, seeded : BOOLEAN]

TypeOK ==
  /\ platform \subseteq Project
  /\ records \in [Project -> RecordType]
  /\ directory \subseteq [code : Input \X (1 .. Cardinality(Project)), project : Project]
  /\ coffee \in [Project -> [here : BOOLEAN, steps : [1 .. Steps -> {"blocked", "incomplete", "complete"}],
                            ready : BOOLEAN, seeded : BOOLEAN, workspaces : BOOLEAN, credentials : BOOLEAN]]
  /\ local \in [selected : BOOLEAN, schema : BOOLEAN, issued : BOOLEAN]

\* What the development page reports as installed.
Installed ==
  /\ platform = {CrashTest}
  /\ {p \in Project : records[p].here} = {CrashTest}
  /\ records[CrashTest].seeded /\ records[CrashTest].code # None
  /\ directory = {[code |-> records[CrashTest].code, project |-> CrashTest]}
  /\ local.selected /\ local.schema

\* Whatever step of an installation the page was closed at, a project that is reported as
\* installed has its data, its workspaces, its employees' passwords and its access codes.
InstalledIsComplete ==
  Installed =>
    /\ coffee[CrashTest].ready /\ coffee[CrashTest].seeded
    /\ coffee[CrashTest].workspaces /\ coffee[CrashTest].credentials
    /\ local.issued

\* In every project some step that is open can be done until all are complete, in whatever
\* order things are created.
SetupNeverStuck ==
  \A p \in Project : coffee[p].here =>
    \/ \A i \in 1 .. Steps : coffee[p].steps[i] = "complete"
    \/ \E i \in 1 .. Steps :
         /\ coffee[p].steps[i] = "incomplete"
         /\ \A j \in 1 .. i - 1 : coffee[p].steps[j] = "complete"

\* The code that a record shows leads to its project, and to no other, unless the project is
\* being deleted.
CodesResolve ==
  \A p \in Project :
    records[p].code # None /\ (\A c \in Client : op[c].kind = "delete" => op[c].project # p)
      => {e \in directory : e.code = records[p].code \/ e.project = p}
           = {[code |-> records[p].code, project |-> p]}

\* A project that has a code keeps it for as long as it is installed.
CodesPermanent ==
  [][\A p \in Project :
       records[p].code # None /\ records'[p].here => records'[p].code = records[p].code]_vars
=============================================================================
