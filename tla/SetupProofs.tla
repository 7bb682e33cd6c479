---------------------------- MODULE SetupProofs ----------------------------
(***************************************************************************)
(* The setting up of projects, for every number of projects, clients,      *)
(* inputs and steps, wherever a page is closed.  IInv has a part for each  *)
(* concern: the operations under way, the codes, the checklist and the     *)
(* development project.  The theorems about codes and the installation     *)
(* suppose that a deletion is not interrupted: one that is leaves a record *)
(* whose code leads nowhere.                                               *)
(*                                                                         *)
(* Then what is set up is worked in: the codes, employees and devices of a *)
(* project, for any number of each and however operations overlap.         *)
(***************************************************************************)
EXTENDS Setup, Access, SumTheorems, FiniteSetTheorems, WellFoundedInduction, TLAPS

\* The codes a record may have, and the states of an operation.
Code == Input \X (1 .. Cardinality(Project))

ResetStages ==
  {"clear", "ensure", "initialize", "install", "profile", "register", "save", "seed",
   "structure", "complete", "credentials", "issue", "select"}

OpType ==
  [kind : {"none", "create", "configure", "reset", "delete"},
   stage : ResetStages \cup {"none", "data", "project"},
   project : Project \cup {None}, code : Code \cup {None}, record : RecordType]

\* What an operation holds at each of its stages.
WellFormed(o) ==
  \/ o = Idle
  \/ /\ o.kind = "create" /\ o.stage \in {"initialize", "install"}
     /\ o.project \in Project
  \/ /\ o.kind = "configure" /\ o.stage \in {"profile", "register", "save"}
     /\ o.project \in Project /\ o.record.here /\ o.code # None
  \/ /\ o.kind = "reset" /\ o.stage \in ResetStages
     /\ o.project = CrashTest
     /\ o.stage \in {"clear", "ensure", "initialize", "install"} \/ (o.record.here /\ o.code # None)
  \/ /\ o.kind = "delete" /\ o.stage \in {"data", "project"}
     /\ o.project = CrashTest

\* Operations are what they say, and the development page has the browser to itself.
OpsInv ==
  /\ op \in [Client -> OpType]
  /\ \A c \in Client : WellFormed(op[c])
  /\ \A c, d \in Client : op[c].kind \in {"reset", "delete"} /\ c # d => op[d] = Idle

-----------------------------------------------------------------------------
\* The codes.

Entry(p, code) == [code |-> code, project |-> p]

\* A project is registered under one code, and a code for one project.
DirectoryFunctional ==
  \A e, f \in directory : e.code = f.code <=> e.project = f.project

Deleting(p) == \E c \in Client : op[c].kind = "delete" /\ op[c].project = p

CodesRegistered ==
  \A p \in Project :
    records[p].code # None => records[p].here /\ (Deleting(p) \/ Entry(p, records[p].code) \in directory)

\* The code that an operation will write into the record is registered before.
SavesRegistered ==
  \A c \in Client :
    /\ At(c, "save") => Entry(op[c].project, op[c].code) \in directory
    /\ op[c].stage \in {"seed", "structure", "complete"}
         => Entry(CrashTest, op[c].record.code) \in directory

CodesInv == DirectoryFunctional /\ CodesRegistered /\ SavesRegistered

-----------------------------------------------------------------------------
\* The checklist: what follows a complete step is unlocked.

Unlocked(steps) ==
  /\ steps[1] # "blocked"
  /\ \A i \in 1 .. Steps - 1 : steps[i] = "complete" => steps[i + 1] # "blocked"

ChecklistInv == \A p \in Project : coffee[p].here => Unlocked(coffee[p].steps)

-----------------------------------------------------------------------------
\* The development project.

Complete ==
  /\ coffee[CrashTest].here /\ coffee[CrashTest].ready /\ coffee[CrashTest].seeded
  /\ coffee[CrashTest].workspaces /\ coffee[CrashTest].credentials
  /\ local.issued

\* How far the installation has come at each stage.
Progress(c) ==
  /\ op[c].stage \in {"structure", "complete", "credentials", "issue", "select"} =>
       coffee[CrashTest].here /\ coffee[CrashTest].ready /\ coffee[CrashTest].seeded
  /\ op[c].stage \in {"complete", "credentials", "issue", "select"} => coffee[CrashTest].workspaces
  /\ op[c].stage \in {"issue", "select"} => coffee[CrashTest].credentials
  /\ At(c, "select") => local.issued

\* What is selected is complete, and what is being deleted is registered no more.
InstallationInv ==
  /\ local.selected => Complete \/ \E c \in Client : op[c].kind = "delete" /\ At(c, "project")
  /\ \A c \in Client : Progress(c)
  /\ \A c \in Client : op[c].kind = "delete" => \A e \in directory : e.project # CrashTest

IInv == TypeOK /\ OpsInv /\ CodesInv /\ ChecklistInv /\ InstallationInv

-----------------------------------------------------------------------------
(* The code an operation takes.                                             *)

\* There are more codes of an input than other projects that may have taken them.
LEMMA FreeCode ==
  ASSUME NEW x \in Input, NEW p \in Project, NEW code \in [Project -> Code \cup {None}],
         code[p] = None
  PROVE  CodesOf(x) \ {code[q] : q \in Project} # {}
<1> DEFINE N == Cardinality(Project)
           others == {code[q] : q \in Project \ {p}}
           numbers == {c[2] : c \in CodesOf(x)}
<1>1. N \in Nat
  BY ProjectAssumption, FS_CardinalityType
<1>2. IsFiniteSet(Project \ {p}) /\ Cardinality(Project \ {p}) = N - 1
  BY ProjectAssumption, FS_RemoveElement
<1>3. IsFiniteSet(others) /\ Cardinality(others) <= N - 1
  <2> DEFINE f == [q \in Project \ {p} |-> code[q]]
  <2>1. others = {f[q] : q \in Project \ {p}}
    OBVIOUS
  <2>2. f \in Surjection(Project \ {p}, others)
    BY <2>1 DEF Surjection
  <2> QED
    BY <1>2, <2>2, FS_Surjection
<1>4. \A c \in CodesOf(x) : c \in Code
  BY DEF CodesOf, Code
<1>5. SUFFICES ASSUME CodesOf(x) \subseteq {code[q] : q \in Project}
               PROVE  FALSE
  OBVIOUS
<1>6. CodesOf(x) \subseteq others
  BY <1>4, <1>5, InputAssumption DEF Code
<1>7. IsFiniteSet(CodesOf(x)) /\ Cardinality(CodesOf(x)) <= N - 1
  BY <1>1, <1>3, <1>6, FS_Subset, FS_CardinalityType
<1>8. Cardinality(CodesOf(x)) = N
  <2> DEFINE g == [n \in 1 .. N |-> <<x, n>>]
  <2>1. g \in [1 .. N -> CodesOf(x)] /\ \A c \in CodesOf(x) : \E n \in 1 .. N : g[n] = c
    BY DEF CodesOf
  <2>2. \A m, n \in 1 .. N : g[m] = g[n] => m = n
    OBVIOUS
  <2>3. g \in Bijection(1 .. N, CodesOf(x))
    BY <2>1, <2>2 DEF Bijection, Injection, Surjection, IsInjective
  <2> QED
    BY <1>1, <2>3, FS_CountingElements DEF ExistsBijection
<1> QED
  BY <1>1, <1>7, <1>8

\* The code of a project is one of the declared codes.
LEMMA NextCodeType ==
  ASSUME NEW p \in Project, NEW x \in Input, records \in [Project -> RecordType]
  PROVE  NextCode(p, x) \in Code
<1> DEFINE code == [q \in Project |-> records[q].code]
           taken == {records[q].code : q \in Project}
           free == CodesOf(x) \ taken
<1>1. code \in [Project -> Code \cup {None}]
  BY DEF RecordType, Code
<1>2. CASE records[p].code # None
  BY <1>1, <1>2 DEF NextCode
<1>3. CASE records[p].code = None
  <2>1. free # {}
    <3>1. CodesOf(x) \ {code[q] : q \in Project} # {}
      BY <1>1, <1>3, FreeCode
    <3> QED
      BY <3>1
  <2> DEFINE T == {c[2] : c \in free}
  <2>2. T \in SUBSET Nat /\ T # {}
    BY <2>1 DEF CodesOf
  <2>3. PICK n \in T : \A m \in T : n <= m
    BY <2>2, LeastNumber
  <2>4. \E c \in free : \A other \in free : c[2] <= other[2]
    BY <2>3
  <2>5. CodeFor(x, taken) \in CodesOf(x)
    BY <2>4 DEF CodeFor
  <2> QED
    BY <1>3, <2>5 DEF NextCode, CodesOf, Code
<1> QED
  BY <1>2, <1>3

-----------------------------------------------------------------------------
(* The operations under way.                                                *)

\* The state of nothing under way is one of them.
LEMMA IdleType == Idle \in OpType /\ WellFormed(Idle) /\ NoRecord \in RecordType
BY DEF Idle, OpType, WellFormed, NoRecord, RecordType

\* An operation begins, goes on or ends.
LEMMA OpMoves ==
  ASSUME OpsInv, NEW c \in Client, NEW o \in OpType, WellFormed(o),
         o = Idle \/ o.kind = op[c].kind \/ Alone(c, o.kind),
         op' = [op EXCEPT ![c] = o]
  PROVE  OpsInv'
<1>1. op' \in [Client -> OpType] /\ op'[c] = o /\ \A d \in Client \ {c} : op'[d] = op[d]
  BY DEF OpsInv
<1>2. \A d \in Client : WellFormed(op'[d])
  BY <1>1 DEF OpsInv
<1>3. ASSUME NEW d \in Client, NEW e \in Client, op'[d].kind \in {"reset", "delete"}, d # e
      PROVE  op'[e] = Idle
  <2>1. CASE d # c /\ e # c
    BY <1>1, <1>3, <2>1 DEF OpsInv
  <2>2. CASE d = c
    <3>1. CASE o = Idle
      BY <1>1, <1>3, <2>2, <3>1 DEF Idle
    <3>2. CASE o.kind = op[c].kind
      BY <1>1, <1>3, <2>2, <3>2 DEF OpsInv
    <3>3. CASE Alone(c, o.kind)
      BY <1>1, <1>3, <2>2, <3>3 DEF Alone
    <3> QED
      BY <3>1, <3>2, <3>3
  <2>3. CASE e = c
    <3>1. op[d].kind \in {"reset", "delete"} /\ op[c] = Idle
      BY <1>1, <1>3, <2>3 DEF OpsInv
    <3>2. CASE o.kind = op[c].kind
      BY <1>1, <2>3, <3>1, <3>2 DEF WellFormed, Idle
    <3>3. CASE Alone(c, o.kind)
      BY <1>3, <2>3, <3>1, <3>3 DEF Alone
    <3> QED
      BY <1>1, <2>3, <3>2, <3>3
  <2> QED
    BY <2>1, <2>2, <2>3
<1> QED
  BY <1>1, <1>2, <1>3 DEF OpsInv

\* The stage of an operation tells what it is.
LEMMA StageTells ==
  ASSUME OpsInv, NEW c \in Client
  PROVE  /\ op[c] \in OpType /\ op[c].record \in RecordType
         /\ op[c].stage \in {"initialize", "install"} =>
              op[c].kind \in {"create", "reset"} /\ op[c].project \in Project
         /\ op[c].stage \in {"profile", "register", "save"} =>
              /\ op[c].kind \in {"configure", "reset"} /\ op[c].project \in Project
              /\ op[c].record.here /\ op[c].code \in Code
         /\ op[c].stage \in {"seed", "structure", "complete"} =>
              op[c].kind = "reset" /\ op[c].project = CrashTest /\ op[c].record.here
         /\ op[c].stage \in {"clear", "ensure", "credentials", "issue", "select"} =>
              op[c].kind = "reset" /\ op[c].project = CrashTest
         /\ op[c].stage \in {"data", "project"} =>
              op[c].kind = "delete" /\ op[c].project = CrashTest
         /\ op[c].kind = "reset" => op[c].project = CrashTest /\ op[c].stage \in ResetStages
         /\ op[c].kind = "delete" => op[c].project = CrashTest /\ op[c].stage \in {"data", "project"}
<1>1. op[c] \in OpType /\ WellFormed(op[c])
  BY DEF OpsInv
<1>2. CrashTest \in Project
  BY ProjectAssumption
<1> QED
  BY <1>1, <1>2 DEF OpType, WellFormed, ResetStages, Idle

\* A stage of an operation leads to another of the same.
LEMMA OpContinues ==
  ASSUME OpsInv, NEW c \in Client, NEW stage, Continue(c, stage),
         WellFormed([op[c] EXCEPT !.stage = stage]), stage \in ResetStages \cup {"data", "project"}
  PROVE  OpsInv'
<1> DEFINE o == [op[c] EXCEPT !.stage = stage]
<1>1. op' = [op EXCEPT ![c] = o]
  BY DEF Continue
<1>2. o \in OpType /\ o.kind = op[c].kind
  BY DEF OpsInv, OpType
<1> HIDE DEF o
<1> QED
  BY <1>1, <1>2, OpMoves DEF o

\* Every step leaves the operations what they say.
LEMMA OpsStep ==
  ASSUME TypeOK, OpsInv, [Next]_vars
  PROVE  OpsInv'
<1>0. ASSUME UNCHANGED op PROVE OpsInv'
  BY <1>0 DEF OpsInv
<1>1. ASSUME ChecklistNext PROVE OpsInv'
  BY <1>0, <1>1 DEF ChecklistNext, CompleteReview, MarkReady, CompleteByCreating
<1>2. ASSUME NEW c \in Client, Finish(c) PROVE OpsInv'
  BY <1>2, IdleType, OpMoves DEF Finish
<1>3. ASSUME NEW c \in Client, NEW stage, Continue(c, stage),
             \/ At(c, "initialize") /\ stage = "install"
             \/ At(c, "profile") /\ stage = "register"
             \/ At(c, "register") /\ stage = "save"
             \/ At(c, "clear") /\ stage = "ensure"
             \/ At(c, "ensure") /\ stage = "initialize"
             \/ At(c, "seed") /\ stage = "structure"
             \/ At(c, "structure") /\ stage = "complete"
             \/ At(c, "complete") /\ stage = "credentials"
             \/ At(c, "credentials") /\ stage = "issue"
             \/ At(c, "issue") /\ stage = "select"
             \/ At(c, "data") /\ stage = "project"
      PROVE  OpsInv'
  <2>1. op[c] \in OpType /\ WellFormed(op[c])
    BY DEF OpsInv
  <2>2. WellFormed([op[c] EXCEPT !.stage = stage])
    BY <1>3, <2>1 DEF At, WellFormed, OpType, ResetStages, Idle
  <2> QED
    BY <1>3, <2>2, OpContinues DEF ResetStages
<1>4. ASSUME NEW c \in Client, InstallationNext(c) PROVE OpsInv'
  <2>1. CASE Initialize(c) \/ UpdateProfile(c) \/ Register(c)
    BY <1>2, <1>3, <2>1 DEF Initialize, UpdateProfile, Register
  <2>2. CASE RecordInstallation(c)
    <3> DEFINE p == op[c].project
               record == IF records[p].here THEN records[p]
                         ELSE [here |-> TRUE, code |-> None, seeded |-> FALSE]
               o == [op[c] EXCEPT !.stage = "profile", !.code = NextCode(p, CrashTestInput), !.record = record]
    <3>1. CASE op[c].kind # "reset"
      BY <1>2, <2>2, <3>1 DEF RecordInstallation
    <3>2. CASE op[c].kind = "reset"
      <4>1. op[c] \in OpType /\ p = CrashTest /\ p \in Project
        BY <3>2, StageTells, ProjectAssumption
      <4>2. record \in RecordType /\ record.here
        BY <4>1 DEF TypeOK, RecordType
      <4>3. NextCode(p, CrashTestInput) \in Code \ {None}
        BY <4>1, NextCodeType, InputAssumption DEF CrashTestInput, TypeOK, Code
      <4>4. op' = [op EXCEPT ![c] = o]
        BY <2>2, <3>2, <4>1 DEF RecordInstallation, OpsInv
      <4> HIDE DEF record
      <4>5. o \in OpType /\ o.kind = op[c].kind /\ WellFormed(o)
        BY <3>2, <4>1, <4>2, <4>3 DEF OpType, WellFormed, ResetStages
      <4> HIDE DEF o
      <4> QED
        BY <4>4, <4>5, OpMoves
    <3> QED
      BY <3>1, <3>2
  <2>3. CASE SaveConfiguration(c)
    <3> DEFINE configured == [op[c].record EXCEPT !.code = op[c].code]
               o == [op[c] EXCEPT !.stage = "seed", !.record = configured]
    <3>1. CASE op[c].kind # "reset"
      BY <1>2, <2>3, <3>1 DEF SaveConfiguration
    <3>2. CASE op[c].kind = "reset"
      <4>1. /\ op[c] \in OpType /\ op[c].project = CrashTest /\ op[c].record.here
            /\ op[c].code \in Code \ {None}
        BY <2>3, <3>2, StageTells, InputAssumption DEF SaveConfiguration, At, Code
      <4>2. configured \in RecordType /\ configured.here
        BY <4>1 DEF OpType, RecordType, Code
      <4>3. op' = [op EXCEPT ![c] = o]
        BY <2>3, <3>2, <4>1 DEF SaveConfiguration, OpsInv
      <4> HIDE DEF configured
      <4>4. o \in OpType /\ o.kind = op[c].kind /\ WellFormed(o)
        BY <3>2, <4>1, <4>2 DEF OpType, WellFormed, ResetStages
      <4> HIDE DEF o
      <4> QED
        BY <4>3, <4>4, OpMoves
    <3> QED
      BY <3>1, <3>2
  <2>4. ASSUME NEW p \in Project, CreateProject(c, p) PROVE OpsInv'
    <3> DEFINE o == [Idle EXCEPT !.kind = "create", !.stage = "initialize", !.project = p]
    <3>1. o \in OpType /\ o.kind = "create" /\ WellFormed(o)
      BY IdleType DEF OpType, WellFormed, ResetStages, Idle
    <3>2. op' = [op EXCEPT ![c] = o] /\ Alone(c, "create")
      BY <2>4 DEF CreateProject
    <3> HIDE DEF o
    <3> QED
      BY <3>1, <3>2, OpMoves
  <2>5. ASSUME NEW p \in Project, NEW x \in Input, BeginConfigure(c, p, x) PROVE OpsInv'
    <3> DEFINE o == [kind |-> "configure", stage |-> "profile", project |-> p,
                     code |-> NextCode(p, x), record |-> records[p]]
    <3>1. records[p] \in RecordType /\ records[p].here
      BY <2>5 DEF BeginConfigure, TypeOK
    <3>2. NextCode(p, x) \in Code \ {None}
      BY NextCodeType, InputAssumption DEF TypeOK, Code
    <3>3. o \in OpType /\ o.kind = "configure" /\ WellFormed(o)
      BY <3>1, <3>2 DEF OpType, WellFormed, ResetStages
    <3>4. op' = [op EXCEPT ![c] = o] /\ Alone(c, "configure")
      BY <2>5 DEF BeginConfigure
    <3> HIDE DEF o
    <3> QED
      BY <3>3, <3>4, OpMoves
  <2> QED
    BY <1>4, <2>1, <2>2, <2>3, <2>4, <2>5 DEF InstallationNext
<1>5. ASSUME NEW c \in Client, DevelopmentNext(c) PROVE OpsInv'
  <2>1. CASE BeginReset(c) \/ BeginDelete(c)
    <3> DEFINE o(kind, stage) == [Idle EXCEPT !.kind = kind, !.stage = stage, !.project = CrashTest]
    <3>1. /\ o("reset", "clear") \in OpType /\ o("reset", "clear").kind = "reset"
          /\ WellFormed(o("reset", "clear"))
          /\ o("delete", "data") \in OpType /\ o("delete", "data").kind = "delete"
          /\ WellFormed(o("delete", "data"))
      BY IdleType, ProjectAssumption DEF OpType, WellFormed, ResetStages, Idle
    <3>2. \/ op' = [op EXCEPT ![c] = o("reset", "clear")] /\ Alone(c, "reset")
          \/ op' = [op EXCEPT ![c] = o("delete", "data")] /\ Alone(c, "delete")
      BY <2>1 DEF BeginReset, BeginDelete
    <3> HIDE DEF o
    <3> QED
      BY <3>1, <3>2, OpMoves
  <2>2. CASE SelectProject(c) \/ DeleteProject(c)
    BY <1>2, <2>2 DEF SelectProject, DeleteProject
  <2>3. CASE ClearStorage(c) \/ EnsureProject(c) \/ ApplySeed(c) \/ GenerateStructure(c)
    BY <1>3, <2>3 DEF ClearStorage, EnsureProject, ApplySeed, GenerateStructure
  <2>4. CASE CompleteRecord(c) \/ SetCredentials(c) \/ IssueWorkspaces(c) \/ DeleteData(c)
    BY <1>3, <2>4 DEF CompleteRecord, SetCredentials, IssueWorkspaces, DeleteData
  <2> QED
    BY <1>5, <2>1, <2>2, <2>3, <2>4 DEF DevelopmentNext
<1>6. ASSUME NEW c \in Client, ClosePage(c) PROVE OpsInv'
  BY <1>2, <1>6 DEF ClosePage
<1>7. ASSUME UNCHANGED vars PROVE OpsInv'
  BY <1>0, <1>7 DEF vars
<1> QED
  BY <1>1, <1>4, <1>5, <1>6, <1>7 DEF Next

-----------------------------------------------------------------------------
(* The checklist.                                                           *)

StepStatus == {"blocked", "incomplete", "complete"}

CoffeeType ==
  [here : BOOLEAN, steps : [1 .. Steps -> StepStatus], ready : BOOLEAN, seeded : BOOLEAN,
   workspaces : BOOLEAN, credentials : BOOLEAN]

\* Data whose checklist is unlocked as far as it should be.
SoundCoffee(r) == r \in CoffeeType /\ (r.here => Unlocked(r.steps))

\* What is read is there, and sound.
LEMMA ReadSound ==
  ASSUME TypeOK, ChecklistInv, NEW p \in Project
  PROVE  /\ SoundCoffee(coffee[p]) /\ SoundCoffee(Read(p)) /\ SoundCoffee(NoCoffee)
         /\ Read(p).here /\ ~NoCoffee.here
         /\ coffee[p].here => Read(p) = coffee[p]
<1>1. SoundCoffee(coffee[p])
  BY DEF TypeOK, ChecklistInv, SoundCoffee, CoffeeType, StepStatus
<1>2. NoCoffee \in CoffeeType /\ ~NoCoffee.here
  BY DEF NoCoffee, CoffeeType, StepStatus
<1>3. SoundCoffee(InitialCoffee) /\ InitialCoffee.here
  <2> DEFINE steps == [[i \in 1 .. Steps |-> "blocked"] EXCEPT ![1] = "incomplete"]
  <2>1. InitialCoffee = [NoCoffee EXCEPT !.here = TRUE, !.steps = steps]
    BY DEF InitialCoffee, NoCoffee
  <2>2. steps \in [1 .. Steps -> StepStatus] /\ Unlocked(steps)
    BY StepsAssumption DEF StepStatus, Unlocked
  <2> HIDE DEF steps
  <2> QED
    BY <1>2, <2>1, <2>2 DEF SoundCoffee, CoffeeType
<1> QED
  BY <1>1, <1>2, <1>3 DEF Read, SoundCoffee

\* Completing a step, at whatever place, leaves nothing locked that should not be.
LEMMA CompletedUnlocks ==
  ASSUME NEW steps \in [1 .. Steps -> StepStatus], Unlocked(steps), NEW i \in 1 .. Steps
  PROVE  Completed(steps, i) \in [1 .. Steps -> StepStatus] /\ Unlocked(Completed(steps, i))
<1>1. Completed(steps, i) \in [1 .. Steps -> StepStatus]
  BY DEF Completed, StepStatus
<1>2. \A j \in 1 .. Steps :
        /\ j = i => Completed(steps, i)[j] = "complete"
        /\ j # i /\ ~(j = i + 1 /\ steps[j] = "blocked") => Completed(steps, i)[j] = steps[j]
        /\ j = i + 1 => Completed(steps, i)[j] # "blocked"
        /\ Completed(steps, i)[j] = "complete" => j = i \/ steps[j] = "complete"
        /\ Completed(steps, i)[j] = "blocked" => steps[j] = "blocked"
  BY DEF Completed
<1> DEFINE new == Completed(steps, i)
<1>3. new[1] # "blocked"
  BY <1>2, StepsAssumption DEF Unlocked
<1>4. ASSUME NEW j \in 1 .. Steps - 1, new[j] = "complete"
      PROVE  new[j + 1] # "blocked"
  <2>1. j \in 1 .. Steps /\ j + 1 \in 1 .. Steps
    BY StepsAssumption
  <2> HIDE DEF new
  <2>2. CASE j = i
    BY <1>2, <2>1, <2>2 DEF new
  <2>3. CASE j # i
    BY <1>2, <1>4, <2>1, <2>3 DEF Unlocked, new
  <2> QED
    BY <2>2, <2>3
<1> QED
  BY <1>1, <1>3, <1>4 DEF Unlocked

\* Completing steps and setting marks keeps the data of a project sound.
LEMMA CoffeeMoves ==
  ASSUME TypeOK, ChecklistInv, NEW p \in Project, NEW r, SoundCoffee(r),
         coffee' = [coffee EXCEPT ![p] = r]
  PROVE  coffee' \in [Project -> CoffeeType] /\ ChecklistInv'
<1>1. coffee \in [Project -> CoffeeType]
  BY DEF TypeOK, CoffeeType, StepStatus
<1> QED
  BY <1>1 DEF ChecklistInv, SoundCoffee

\* Every step keeps the data of the projects sound.
LEMMA CoffeeStep ==
  ASSUME TypeOK, OpsInv, ChecklistInv, [Next]_vars
  PROVE  coffee' \in [Project -> CoffeeType] /\ ChecklistInv'
<1> DEFINE Kept == coffee' \in [Project -> CoffeeType] /\ ChecklistInv'
           CompletedAt(p, i) == [Read(p) EXCEPT !.steps = Completed(@, i)]
<1>0. ASSUME UNCHANGED coffee PROVE Kept
  BY <1>0 DEF TypeOK, CoffeeType, StepStatus, ChecklistInv
<1>1. ASSUME NEW p \in Project, NEW r, SoundCoffee(r), coffee' = [coffee EXCEPT ![p] = r]
      PROVE  Kept
  BY <1>1, CoffeeMoves
<1> HIDE DEF Kept
<1>2. ASSUME NEW p \in Project, NEW i \in 1 .. Steps
      PROVE  SoundCoffee(CompletedAt(p, i))
  <2>1. Read(p) \in CoffeeType /\ Unlocked(Read(p).steps)
    BY ReadSound DEF SoundCoffee
  <2> DEFINE steps == Completed(Read(p).steps, i)
  <2>2. steps \in [1 .. Steps -> StepStatus] /\ Unlocked(steps)
    BY <2>1, CompletedUnlocks DEF CoffeeType
  <2>3. CompletedAt(p, i) = [Read(p) EXCEPT !.steps = steps]
    BY <2>1 DEF CoffeeType
  <2> HIDE DEF steps
  <2> QED
    BY <2>1, <2>2, <2>3 DEF SoundCoffee, CoffeeType
<1>3. ASSUME ChecklistNext PROVE Kept
  <2>1. ASSUME NEW p \in Project, NEW i \in 1 .. Steps, CompleteByCreating(p, i) PROVE Kept
    BY <1>1, <1>2, <2>1 DEF CompleteByCreating
  <2>2. ASSUME NEW p \in Project, CompleteReview(p) PROVE Kept
    <3>1. Steps - 1 \in 1 .. Steps
      BY StepsAssumption
    <3> QED
      BY <1>1, <1>2, <2>2, <3>1 DEF CompleteReview
  <2>3. ASSUME NEW p \in Project, MarkReady(p) PROVE Kept
    <3> DEFINE r == [Read(p) EXCEPT !.steps = Completed(@, Steps), !.ready = TRUE]
    <3>1. Steps \in 1 .. Steps
      BY StepsAssumption
    <3>2. SoundCoffee(CompletedAt(p, Steps))
      BY <1>2, <3>1
    <3>3. Read(p) \in CoffeeType
      BY ReadSound DEF SoundCoffee
    <3>4. r = [CompletedAt(p, Steps) EXCEPT !.ready = TRUE]
      BY <3>3 DEF CoffeeType
    <3> HIDE DEF CompletedAt
    <3>5. SoundCoffee([CompletedAt(p, Steps) EXCEPT !.ready = TRUE])
      BY <3>2 DEF SoundCoffee, CoffeeType
    <3>6. coffee' = [coffee EXCEPT ![p] = r]
      BY <2>3 DEF MarkReady
    <3> QED
      BY <1>1, <3>4, <3>5, <3>6
  <2> QED
    BY <1>3, <2>1, <2>2, <2>3 DEF ChecklistNext
<1>4. ASSUME NEW c \in Client, InstallationNext(c) PROVE Kept
  <2>1. CASE Initialize(c)
    <3>1. op[c].project \in Project
      BY <2>1, StageTells DEF Initialize, At
    <3> QED
      BY <1>1, <2>1, <3>1, ReadSound DEF Initialize
  <2>2. CASE UpdateProfile(c)
    <3>1. op[c].project \in Project /\ 1 \in 1 .. Steps
      BY <2>2, StageTells, StepsAssumption DEF UpdateProfile, At
    <3> QED
      BY <1>1, <1>2, <2>2, <3>1 DEF UpdateProfile
  <2> QED
    BY <1>0, <1>4, <2>1, <2>2 DEF InstallationNext, RecordInstallation, Register,
       SaveConfiguration, CreateProject, BeginConfigure
<1>5. ASSUME NEW c \in Client, DevelopmentNext(c) PROVE Kept
  <2>0. CrashTest \in Project /\ SoundCoffee(Read(CrashTest)) /\ SoundCoffee(coffee[CrashTest])
    BY ProjectAssumption, ReadSound
  <2>1. CASE ClearStorage(c)
    <3>1. SoundCoffee(NoCoffee) /\ ~NoCoffee.here
      BY <2>0, ReadSound
    <3>2. coffee' = [p \in Project |-> NoCoffee]
      BY <2>1 DEF ClearStorage
    <3> QED
      BY <3>1, <3>2 DEF Kept, ChecklistInv, SoundCoffee
  <2>2. CASE ApplySeed(c)
    <3> DEFINE steps == [i \in 1 .. Steps |-> "complete"]
               r == [Read(CrashTest) EXCEPT !.steps = steps, !.ready = TRUE, !.seeded = TRUE]
    <3>1. steps \in [1 .. Steps -> StepStatus] /\ Unlocked(steps)
      BY StepsAssumption DEF StepStatus, Unlocked
    <3>2. coffee' = [coffee EXCEPT ![CrashTest] = r]
      BY <2>2 DEF ApplySeed
    <3> HIDE DEF steps
    <3>3. SoundCoffee(r)
      BY <2>0, <3>1 DEF SoundCoffee, CoffeeType
    <3> HIDE DEF r
    <3> QED
      BY <1>1, <2>0, <3>2, <3>3
  <2>3. CASE GenerateStructure(c)
    <3> DEFINE r == [Read(CrashTest) EXCEPT !.workspaces = TRUE]
    <3>1. SoundCoffee(r)
      BY <2>0 DEF SoundCoffee, CoffeeType
    <3> QED
      BY <1>1, <2>0, <2>3, <3>1 DEF GenerateStructure
  <2>4. CASE SetCredentials(c)
    <3> DEFINE r == [coffee[CrashTest] EXCEPT !.credentials = TRUE]
    <3>1. SoundCoffee(r)
      BY <2>0 DEF SoundCoffee, CoffeeType
    <3>2. coffee' = [coffee EXCEPT ![CrashTest] = r]
      BY <2>4 DEF SetCredentials
    <3> QED
      BY <1>1, <2>0, <3>1, <3>2
  <2>5. CASE DeleteData(c)
    BY <1>1, <2>0, <2>5, ReadSound DEF DeleteData
  <2> QED
    BY <1>0, <1>5, <2>1, <2>2, <2>3, <2>4, <2>5 DEF DevelopmentNext, BeginReset, EnsureProject,
       CompleteRecord, IssueWorkspaces, SelectProject, BeginDelete, DeleteProject
<1>6. ASSUME NEW c \in Client, ClosePage(c) PROVE Kept
  BY <1>0, <1>6 DEF ClosePage
<1>7. ASSUME UNCHANGED vars PROVE Kept
  BY <1>0, <1>7 DEF vars
<1>8. Kept
  BY <1>3, <1>4, <1>5, <1>6, <1>7 DEF Next
<1> QED
  BY <1>8 DEF Kept

\* Every step keeps the stored values of the declared shapes.
LEMMA TypeStep ==
  ASSUME TypeOK, OpsInv, ChecklistInv, [Next]_vars
  PROVE  TypeOK'
<1> DEFINE Shapes ==
      /\ platform' \subseteq Project
      /\ records' \in [Project -> RecordType]
      /\ directory' \subseteq [code : Code, project : Project]
      /\ local' \in [selected : BOOLEAN, schema : BOOLEAN, issued : BOOLEAN]
<1>0. /\ platform \subseteq Project /\ CrashTest \in Project
      /\ records \in [Project -> RecordType]
      /\ directory \subseteq [code : Code, project : Project]
      /\ local \in [selected : BOOLEAN, schema : BOOLEAN, issued : BOOLEAN]
      /\ NoRecord \in RecordType
  BY IdleType, ProjectAssumption DEF TypeOK, Code
<1>1. ASSUME ChecklistNext PROVE Shapes
  BY <1>0, <1>1 DEF ChecklistNext, CompleteReview, MarkReady, CompleteByCreating
<1>2. ASSUME NEW c \in Client, InstallationNext(c) PROVE Shapes
  <2>1. CASE RecordInstallation(c)
    BY <1>0, <2>1 DEF RecordInstallation, RecordType
  <2>2. CASE Register(c)
    <3>1. op[c].project \in Project /\ op[c].code \in Code
      BY <2>2, StageTells DEF Register, At, OpType
    <3> QED
      BY <1>0, <2>2, <3>1 DEF Register
  <2>3. CASE SaveConfiguration(c)
    <3>1. op[c].record \in RecordType /\ op[c].code \in Code \cup {None}
      BY StageTells DEF OpType
    <3>2. [op[c].record EXCEPT !.code = op[c].code] \in RecordType
      BY <3>1 DEF RecordType, Code
    <3> QED
      BY <1>0, <2>3, <3>2 DEF SaveConfiguration
  <2>4. CASE Initialize(c) \/ UpdateProfile(c)
    BY <1>0, <2>4 DEF Initialize, UpdateProfile
  <2>5. ASSUME NEW p \in Project, CreateProject(c, p) \/ \E x \in Input : BeginConfigure(c, p, x)
        PROVE  Shapes
    BY <1>0, <2>5 DEF CreateProject, BeginConfigure
  <2> QED
    BY <1>2, <2>1, <2>2, <2>3, <2>4, <2>5 DEF InstallationNext
<1>3. ASSUME NEW c \in Client, DevelopmentNext(c) PROVE Shapes
  <2>1. CASE CompleteRecord(c)
    <3>1. [op[c].record EXCEPT !.seeded = TRUE] \in RecordType
      BY StageTells DEF RecordType
    <3> QED
      BY <1>0, <2>1, <3>1 DEF CompleteRecord
  <2>2. CASE BeginReset(c) \/ EnsureProject(c) \/ BeginDelete(c)
    BY <1>0, <2>2 DEF BeginReset, EnsureProject, BeginDelete
  <2>4. CASE ClearStorage(c)
    BY <1>0, <2>4 DEF ClearStorage, Cleared
  <2>3. CASE SelectProject(c) \/ DeleteProject(c) \/ IssueWorkspaces(c)
    BY <1>0, <2>3 DEF SelectProject, DeleteProject, IssueWorkspaces
  <2> QED
    BY <1>0, <1>3, <2>1, <2>2, <2>3, <2>4 DEF DevelopmentNext, ApplySeed, GenerateStructure,
       SetCredentials, DeleteData
<1>4. ASSUME NEW c \in Client, ClosePage(c) PROVE Shapes
  BY <1>0, <1>4 DEF ClosePage
<1>5. ASSUME UNCHANGED vars PROVE Shapes
  BY <1>0, <1>5 DEF vars
<1>6. Shapes
  BY <1>1, <1>2, <1>3, <1>4, <1>5 DEF Next
<1>7. coffee' \in [Project -> CoffeeType]
  BY CoffeeStep
<1> QED
  BY <1>6, <1>7 DEF TypeOK, Code, CoffeeType, StepStatus, RecordType

-----------------------------------------------------------------------------
(* The codes.                                                               *)

\* Registering leaves every entry in place and adds the one of the operation.
LEMMA RegisterAdds ==
  ASSUME TypeOK, OpsInv, DirectoryFunctional, NEW c \in Client, Register(c)
  PROVE  /\ DirectoryFunctional' /\ directory \subseteq directory'
         /\ \/ op' = [op EXCEPT ![c] = Idle] /\ directory' = directory
            \/ /\ Continue(c, "save")
               /\ Entry(op[c].project, op[c].code) \in directory'
<1> DEFINE p == op[c].project
           code == op[c].code
<1>1. CASE \E e \in directory : (e.code = code) # (e.project = p)
  <2>1. Finish(c) /\ directory' = directory
    BY <1>1 DEF Register
  <2> QED
    BY <2>1 DEF Finish, DirectoryFunctional
<1>2. CASE \A e \in directory : e.code = code <=> e.project = p
  <2>1. /\ directory' = {e \in directory : e.project # p} \cup {Entry(p, code)}
        /\ Continue(c, "save")
    BY <1>2 DEF Register, Entry
  <2>2. \A e \in directory : e = Entry(e.project, e.code)
    BY DEF TypeOK, Entry
  <2>3. directory \subseteq directory'
    BY <1>2, <2>1, <2>2
  <2>4. Entry(p, code).project = p /\ Entry(p, code).code = code
    BY DEF Entry
  <2>5. \A e, f \in directory' : e.code = f.code <=> e.project = f.project
    BY <1>2, <2>1, <2>4 DEF DirectoryFunctional
  <2> QED
    BY <2>1, <2>3, <2>5 DEF DirectoryFunctional
<1> QED
  BY <1>1, <1>2

\* The codes stay registered when entries are only added and a record takes no other code
\* than a registered one.
LEMMA CodesKept ==
  ASSUME TypeOK, CodesInv, NEW c \in Client, directory \subseteq directory',
         \A p \in Project : records'[p].code # None =>
           \/ records'[p].here /\ records'[p].code = records[p].code
           \/ records'[p].here /\ Entry(p, records'[p].code) \in directory',
         \A d \in Client \ {c} : op'[d] = op[d],
         op[c].kind = "delete" => op'[c].kind = "delete" /\ op'[c].project = op[c].project,
         op'[c].stage = "save" => Entry(op'[c].project, op'[c].code) \in directory',
         op'[c].stage \in {"seed", "structure", "complete"}
           => Entry(CrashTest, op'[c].record.code) \in directory'
  PROVE  CodesRegistered' /\ SavesRegistered'
<1>1. ASSUME NEW p \in Project, Deleting(p) PROVE Deleting(p)'
  BY <1>1 DEF Deleting
<1>2. CodesRegistered'
  <2> SUFFICES ASSUME NEW p \in Project, records'[p].code # None
               PROVE  records'[p].here /\ (Deleting(p)' \/ Entry(p, records'[p].code) \in directory')
    BY DEF CodesRegistered, Entry, Deleting
  <2> QED
    BY <1>1 DEF CodesInv, CodesRegistered
<1>3. SavesRegistered'
  BY DEF CodesInv, SavesRegistered, At, Entry
<1> QED
  BY <1>2, <1>3

\* What an operation holds when its stage moves on.
LEMMA Continued ==
  ASSUME OpsInv, NEW c \in Client, NEW stage, Continue(c, stage)
  PROVE  /\ op'[c].stage = stage /\ op'[c].kind = op[c].kind
         /\ op'[c].project = op[c].project /\ op'[c].code = op[c].code
         /\ op'[c].record = op[c].record
         /\ \A d \in Client \ {c} : op'[d] = op[d]
BY DEF Continue, OpsInv, OpType

\* A step begins or ends an operation, or leaves the others alone.
LEMMA Finished ==
  ASSUME OpsInv, NEW c \in Client, Finish(c)
  PROVE  op'[c] = Idle /\ \A d \in Client \ {c} : op'[d] = op[d]
BY DEF Finish, OpsInv

\* Where nothing is recorded or registered, codes stay registered.
LEMMA CodesUntouched ==
  ASSUME TypeOK, OpsInv, CodesInv, UNCHANGED <<records, directory>>, NEW c \in Client,
         \A d \in Client \ {c} : op'[d] = op[d],
         op[c].kind = "delete" => op'[c].kind = "delete" /\ op'[c].project = op[c].project,
         op'[c].stage # "save",
         op'[c].stage \in {"seed", "structure", "complete"} =>
           op[c].stage \in {"seed", "structure", "complete"} /\ op'[c].record = op[c].record
  PROVE  CodesInv'
<1>1. CodesRegistered' /\ SavesRegistered'
  <2>1. \A p \in Project : records'[p].code # None => records'[p].here
    BY DEF CodesInv, CodesRegistered
  <2>2. op'[c].stage \in {"seed", "structure", "complete"}
          => Entry(CrashTest, op'[c].record.code) \in directory'
    BY DEF CodesInv, SavesRegistered
  <2> QED
    BY <2>1, <2>2, CodesKept
<1>2. DirectoryFunctional'
  BY DEF CodesInv, DirectoryFunctional
<1> QED
  BY <1>1, <1>2 DEF CodesInv

\* Two entries of a project are one, so that a code that is saved is the code it had.
LEMMA CodeOfProject ==
  ASSUME TypeOK, OpsInv, CodesInv, NEW p \in Project, records[p].code # None,
         NEW c \in Client, op[c].kind = "reset" \/ op[c].kind = "configure",
         NEW code, Entry(p, code) \in directory
  PROVE  code = records[p].code
<1>1. ~Deleting(p)
  BY DEF Deleting, OpsInv, Idle
<1>2. Entry(p, records[p].code) \in directory
  BY <1>1 DEF CodesInv, CodesRegistered
<1>3. /\ Entry(p, records[p].code).project = p /\ Entry(p, code).project = p
      /\ Entry(p, records[p].code).code = records[p].code /\ Entry(p, code).code = code
  BY DEF Entry
<1> QED
  BY <1>2, <1>3 DEF CodesInv, DirectoryFunctional

\* The code of a record does not change while it is there.
CodesStay ==
  \A p \in Project :
    records[p].code # None /\ records'[p].here => records'[p].code = records[p].code

\* Every step keeps the codes registered and as they are.
LEMMA CodesStep ==
  ASSUME "delete" \notin Interrupted, TypeOK, OpsInv, CodesInv, [Next]_vars
  PROVE  CodesInv' /\ CodesStay
<1>0. ASSUME UNCHANGED <<records, directory, op>> PROVE CodesInv' /\ CodesStay
  BY <1>0 DEF CodesInv, DirectoryFunctional, CodesRegistered, SavesRegistered, CodesStay,
              Deleting, At, Entry
<1>1. ASSUME ChecklistNext PROVE CodesInv' /\ CodesStay
  BY <1>0, <1>1 DEF ChecklistNext, CompleteReview, MarkReady, CompleteByCreating
<1>2. ASSUME NEW c \in Client, InstallationNext(c) PROVE CodesInv' /\ CodesStay
  <2>1. CASE Initialize(c) \/ UpdateProfile(c)
    <3>1. UNCHANGED <<records, directory>> /\ (Continue(c, "install") \/ Continue(c, "register"))
      BY <2>1 DEF Initialize, UpdateProfile
    <3> QED
      BY <3>1, Continued, CodesUntouched DEF CodesStay
  <2>2. CASE RecordInstallation(c)
    <3> DEFINE p == op[c].project
               record == IF records[p].here THEN records[p]
                         ELSE [here |-> TRUE, code |-> None, seeded |-> FALSE]
    <3>1. p \in Project /\ op[c].kind \in {"create", "reset"}
      BY <2>2, StageTells DEF RecordInstallation, At
    <3>2. records' = [records EXCEPT ![p] = record] /\ directory' = directory
      BY <2>2 DEF RecordInstallation
    <3>3. /\ \A d \in Client \ {c} : op'[d] = op[d]
          /\ op'[c].stage \notin {"save", "seed", "structure", "complete"}
      BY <2>2, Finished DEF RecordInstallation, Idle, OpsInv, OpType
    <3>4. \A q \in Project : records'[q].code # None =>
            records'[q].here /\ records'[q].code = records[q].code
      BY <3>2 DEF TypeOK, CodesInv, CodesRegistered
    <3>5. CodesRegistered' /\ SavesRegistered'
      BY <3>1, <3>2, <3>3, <3>4, CodesKept
    <3>6. CodesStay
      BY <3>2 DEF CodesStay, TypeOK, CodesInv, CodesRegistered
    <3> QED
      BY <3>2, <3>5, <3>6 DEF CodesInv, DirectoryFunctional
  <2>3. CASE Register(c)
    <3>1. /\ DirectoryFunctional' /\ directory \subseteq directory' /\ records' = records
          /\ \/ op' = [op EXCEPT ![c] = Idle]
             \/ Continue(c, "save") /\ Entry(op[c].project, op[c].code) \in directory'
      BY <2>3, RegisterAdds DEF CodesInv, Register
    <3>2. op[c].kind # "delete"
      BY <2>3, StageTells DEF Register, At
    <3>3. \A p \in Project : records'[p].code # None => records'[p].here
      BY <3>1 DEF CodesInv, CodesRegistered
    <3>4. CASE op' = [op EXCEPT ![c] = Idle]
      <4>1. op'[c] = Idle /\ \A d \in Client \ {c} : op'[d] = op[d]
        BY <3>4, Finished DEF Finish
      <4>2. CodesRegistered' /\ SavesRegistered'
        BY <3>1, <3>2, <3>3, <4>1, CodesKept DEF Idle
      <4> QED
        BY <3>1, <4>2 DEF CodesInv, CodesStay
    <3>5. CASE Continue(c, "save") /\ Entry(op[c].project, op[c].code) \in directory'
      <4>1. CodesRegistered' /\ SavesRegistered'
        BY <3>1, <3>2, <3>3, <3>5, Continued, CodesKept
      <4> QED
        BY <3>1, <4>1 DEF CodesInv, CodesStay
    <3> QED
      BY <3>1, <3>4, <3>5
  <2>4. CASE SaveConfiguration(c)
    <3> DEFINE p == op[c].project
               configured == [op[c].record EXCEPT !.code = op[c].code]
    <3>1. /\ p \in Project /\ op[c].kind \in {"configure", "reset"} /\ op[c].record.here
          /\ op[c].record \in RecordType /\ (op[c].kind = "reset" => p = CrashTest)
      BY <2>4, StageTells DEF SaveConfiguration, At
    <3>2. Entry(p, op[c].code) \in directory
      BY <2>4 DEF SaveConfiguration, CodesInv, SavesRegistered
    <3>3. configured.here /\ configured.code = op[c].code
      BY <3>1 DEF RecordType
    <3>4. /\ records' = [records EXCEPT ![p] = configured] /\ directory' = directory
          /\ \/ op' = [op EXCEPT ![c].stage = "seed", ![c].record = configured] /\ op[c].kind = "reset"
             \/ Finish(c)
      BY <2>4 DEF SaveConfiguration
    <3> HIDE DEF configured
    <3>5. /\ \A d \in Client \ {c} : op'[d] = op[d]
          /\ \/ op'[c] = Idle
             \/ op'[c].stage = "seed" /\ op'[c].record = configured /\ op[c].kind = "reset"
      BY <3>4, Finished DEF OpsInv, OpType
    <3>6. CodesRegistered' /\ SavesRegistered'
      <4>1. \A q \in Project : records'[q].code # None =>
              \/ records'[q].here /\ records'[q].code = records[q].code
              \/ records'[q].here /\ Entry(q, records'[q].code) \in directory'
        BY <3>1, <3>2, <3>3, <3>4 DEF TypeOK, CodesInv, CodesRegistered
      <4>2. op'[c].stage # "save" /\ (op'[c].stage \in {"seed", "structure", "complete"}
              => Entry(CrashTest, op'[c].record.code) \in directory')
        BY <3>1, <3>2, <3>3, <3>4, <3>5 DEF Idle
      <4> QED
        BY <3>1, <3>4, <3>5, <4>1, <4>2, CodesKept
    <3>7. CodesStay
      BY <3>1, <3>2, <3>3, <3>4, CodeOfProject DEF CodesStay, TypeOK
    <3> QED
      BY <3>4, <3>6, <3>7 DEF CodesInv, DirectoryFunctional
  <2>5. ASSUME NEW p \in Project, CreateProject(c, p) \/ \E x \in Input : BeginConfigure(c, p, x)
        PROVE  CodesInv' /\ CodesStay
    <3>1. /\ UNCHANGED <<records, directory>> /\ op[c] = Idle
          /\ \A d \in Client \ {c} : op'[d] = op[d]
          /\ op'[c].stage \in {"initialize", "profile"}
      <4>1. CASE CreateProject(c, p)
        BY <4>1 DEF CreateProject, Alone, OpsInv, Idle
      <4>2. ASSUME NEW x \in Input, BeginConfigure(c, p, x)
            PROVE  /\ UNCHANGED <<records, directory>> /\ op[c] = Idle
                   /\ \A d \in Client \ {c} : op'[d] = op[d]
                   /\ op'[c].stage = "profile"
        BY <4>2 DEF BeginConfigure, Alone, OpsInv
      <4> QED
        BY <2>5, <4>1, <4>2
    <3> QED
      BY <3>1, CodesUntouched DEF CodesStay, Idle
  <2> QED
    BY <1>2, <2>1, <2>2, <2>3, <2>4, <2>5 DEF InstallationNext
<1>3. ASSUME NEW c \in Client, DevelopmentNext(c) PROVE CodesInv' /\ CodesStay
  <2>0. CrashTest \in Project
    BY ProjectAssumption
  <2>1. CASE BeginReset(c)
    <3>1. /\ UNCHANGED <<records, directory>> /\ op[c] = Idle
          /\ \A d \in Client \ {c} : op'[d] = op[d]
          /\ op'[c].stage = "clear"
      BY <2>1 DEF BeginReset, Alone, OpsInv, Idle
    <3> QED
      BY <3>1, CodesUntouched DEF CodesStay, Idle
  <2>2. CASE ClearStorage(c)
    <3>1. /\ op[c].kind = "reset" /\ \A d \in Client \ {c} : op'[d] = Idle
          /\ op'[c].stage = "ensure"
      BY <2>2, StageTells, Continued DEF ClearStorage, At, OpsInv
    <3>2. /\ directory' = {} /\ \A p \in Project : records'[p].code = None /\ ~records'[p].here
      BY <2>2 DEF ClearStorage, NoRecord
    <3>3. SavesRegistered'
      BY <3>1 DEF SavesRegistered, At, Idle
    <3> QED
      BY <3>2, <3>3 DEF CodesInv, DirectoryFunctional, CodesRegistered, CodesStay
  <2>3. CASE EnsureProject(c) \/ ApplySeed(c) \/ GenerateStructure(c) \/ SetCredentials(c) \/ IssueWorkspaces(c)
    <3>1. /\ UNCHANGED <<records, directory>>
          /\ \/ Continue(c, "initialize") \/ Continue(c, "issue") \/ Continue(c, "select")
             \/ Continue(c, "structure") /\ At(c, "seed")
             \/ Continue(c, "complete") /\ At(c, "structure")
      BY <2>3 DEF EnsureProject, ApplySeed, GenerateStructure, SetCredentials, IssueWorkspaces
    <3> QED
      BY <3>1, Continued, CodesUntouched DEF CodesStay, At
  <2>4. CASE CompleteRecord(c)
    <3> DEFINE completed == [op[c].record EXCEPT !.seeded = TRUE]
    <3>1. /\ op[c].kind = "reset" /\ op[c].record.here /\ op[c].record \in RecordType
      BY <2>4, StageTells DEF CompleteRecord, At
    <3>2. Entry(CrashTest, op[c].record.code) \in directory
      BY <2>4 DEF CompleteRecord, CodesInv, SavesRegistered, At
    <3>3. completed.here /\ completed.code = op[c].record.code
      BY <3>1 DEF RecordType
    <3>4. /\ records' = [records EXCEPT ![CrashTest] = completed] /\ directory' = directory
          /\ Continue(c, "credentials")
      BY <2>4 DEF CompleteRecord
    <3> HIDE DEF completed
    <3>5. \A q \in Project : records'[q].code # None =>
            \/ records'[q].here /\ records'[q].code = records[q].code
            \/ records'[q].here /\ Entry(q, records'[q].code) \in directory'
      BY <2>0, <3>2, <3>3, <3>4 DEF TypeOK, CodesInv, CodesRegistered
    <3>6. CodesRegistered' /\ SavesRegistered'
      BY <3>4, <3>5, Continued, CodesKept
    <3>7. CodesStay
      BY <2>0, <3>1, <3>2, <3>3, <3>4, CodeOfProject DEF CodesStay, TypeOK
    <3> QED
      BY <3>4, <3>6, <3>7 DEF CodesInv, DirectoryFunctional
  <2>5. CASE SelectProject(c)
    <3>1. UNCHANGED <<records, directory>> /\ Finish(c) /\ op[c].kind = "reset"
      BY <2>5, StageTells DEF SelectProject, At
    <3> QED
      BY <3>1, Finished, CodesUntouched DEF CodesStay, Idle
  <2>6. CASE BeginDelete(c)
    <3>1. /\ records' = records
          /\ directory' = {e \in directory : e.project # CrashTest}
          /\ op'[c].stage = "data" /\ op'[c].kind = "delete" /\ op'[c].project = CrashTest
          /\ \A d \in Client \ {c} : op'[d] = Idle /\ op[d] = Idle
          /\ op[c] = Idle
      BY <2>6 DEF BeginDelete, Alone, OpsInv, Idle
    <3>2. SavesRegistered'
      BY <3>1 DEF SavesRegistered, At, Idle
    <3>3. ASSUME NEW p \in Project, records[p].code # None
          PROVE  records[p].here /\ (Deleting(p)' \/ Entry(p, records[p].code) \in directory')
      <4>1. ~Deleting(p)
        BY <3>1 DEF Deleting, Idle
      <4>2. records[p].here /\ Entry(p, records[p].code) \in directory
        BY <3>3, <4>1 DEF CodesInv, CodesRegistered
      <4>3. CASE p = CrashTest
        BY <3>1, <4>2, <4>3 DEF Deleting
      <4>4. CASE p # CrashTest
        BY <3>1, <4>2, <4>4 DEF Entry
      <4> QED
        BY <4>3, <4>4
    <3>4. CodesRegistered'
      BY <3>1, <3>3 DEF CodesRegistered, Deleting, Entry
    <3> QED
      BY <3>1, <3>2, <3>4 DEF CodesInv, DirectoryFunctional, CodesStay
  <2>7. CASE DeleteData(c)
    <3>1. UNCHANGED <<records, directory>> /\ Continue(c, "project")
      BY <2>7 DEF DeleteData
    <3> QED
      BY <3>1, Continued, CodesUntouched DEF CodesStay
  <2>8. CASE DeleteProject(c)
    <3>1. op[c].kind = "delete" /\ op'[c] = Idle /\ \A d \in Client \ {c} : op'[d] = Idle /\ op[d] = Idle
      BY <2>8, StageTells, Finished DEF DeleteProject, At, OpsInv
    <3>2. /\ directory' = directory
          /\ records' = [records EXCEPT ![CrashTest] = NoRecord]
      BY <2>8 DEF DeleteProject
    <3>3. \A p \in Project \ {CrashTest} : ~Deleting(p) /\ records'[p] = records[p]
      BY <3>1, <3>2, StageTells DEF Deleting, TypeOK, Idle
    <3>4. records'[CrashTest].code = None /\ ~records'[CrashTest].here
      BY <2>0, <3>2 DEF TypeOK, NoRecord
    <3>5. CodesRegistered'
      BY <3>2, <3>3, <3>4 DEF CodesInv, CodesRegistered, Entry
    <3>6. SavesRegistered'
      BY <3>1 DEF SavesRegistered, At, Idle
    <3> QED
      BY <3>2, <3>3, <3>4, <3>5, <3>6 DEF CodesInv, DirectoryFunctional, CodesStay
  <2> QED
    BY <1>3, <2>1, <2>2, <2>3, <2>4, <2>5, <2>6, <2>7, <2>8 DEF DevelopmentNext
<1>4. ASSUME NEW c \in Client, ClosePage(c) PROVE CodesInv' /\ CodesStay
  <2>1. UNCHANGED <<records, directory>> /\ Finish(c) /\ op[c].kind # "delete"
    BY <1>4 DEF ClosePage
  <2> QED
    BY <2>1, Finished, CodesUntouched DEF CodesStay, Idle
<1>5. ASSUME UNCHANGED vars PROVE CodesInv' /\ CodesStay
  BY <1>0, <1>5 DEF vars
<1> QED
  BY <1>1, <1>2, <1>3, <1>4, <1>5 DEF Next

-----------------------------------------------------------------------------
(* The development project.                                                 *)

Marks == {"here", "ready", "seeded", "workspaces", "credentials"}

\* What is marked of the development project stays marked.
MarksStay ==
  coffee[CrashTest].here => \A mark \in Marks : coffee[CrashTest][mark] => coffee'[CrashTest][mark]

\* Reading the data of a project and changing its checklist keeps the marks.
LEMMA MarksKept ==
  ASSUME TypeOK, ChecklistInv, NEW p \in Project, NEW r \in CoffeeType,
         \A mark \in Marks : Read(p)[mark] => r[mark],
         coffee' = [coffee EXCEPT ![p] = r]
  PROVE  MarksStay
<1>1. coffee[p].here => Read(p) = coffee[p]
  BY ReadSound
<1>2. coffee'[CrashTest] = IF p = CrashTest THEN r ELSE coffee[CrashTest]
  BY ProjectAssumption DEF TypeOK
<1> QED
  BY <1>1, <1>2 DEF MarksStay

\* A step that keeps the marks and selects nothing, with c where the progress says.
LEMMA InstallationKept ==
  ASSUME InstallationInv, NEW c \in Client, MarksStay,
         local'.selected => local.selected, local.issued => local'.issued,
         \A d \in Client \ {c} : op'[d] = op[d],
         op[c].kind = "delete" /\ op[c].stage = "project" =>
           op'[c].kind = "delete" /\ op'[c].stage = "project",
         op'[c].kind = "delete" => op[c].kind = "delete",
         directory' \subseteq directory \/ \A d \in Client : op[d].kind # "delete",
         Progress(c)'
  PROVE  InstallationInv'
<1>1. local'.selected => Complete' \/ \E d \in Client : op'[d].kind = "delete" /\ At(d, "project")'
  BY DEF InstallationInv, Complete, MarksStay, Marks, At
<1>2. ASSUME NEW d \in Client \ {c} PROVE Progress(d)'
  BY <1>2 DEF InstallationInv, Progress, MarksStay, Marks, At
<1>3. ASSUME NEW d \in Client, op'[d].kind = "delete", NEW e \in directory'
      PROVE  e.project # CrashTest
  BY <1>3 DEF InstallationInv
<1> QED
  BY <1>1, <1>2, <1>3 DEF InstallationInv

\* Completing a step of the checklist keeps the marks.
LEMMA CompletingKeepsMarks ==
  ASSUME TypeOK, ChecklistInv, NEW p \in Project, NEW i \in 1 .. Steps,
         \/ coffee' = [coffee EXCEPT ![p] = [Read(p) EXCEPT !.steps = Completed(@, i)]]
         \/ coffee' = [coffee EXCEPT ![p] = [Read(p) EXCEPT !.steps = Completed(@, i), !.ready = TRUE]]
  PROVE  MarksStay
<1>1. Read(p) \in CoffeeType /\ Read(p).here
  BY ReadSound DEF SoundCoffee
<1>2. Unlocked(Read(p).steps)
  BY ReadSound DEF SoundCoffee
<1> DEFINE steps == Completed(Read(p).steps, i)
<1>3. steps \in [1 .. Steps -> StepStatus]
  BY <1>1, <1>2, CompletedUnlocks DEF CoffeeType
<1>4. PICK r : /\ r = [Read(p) EXCEPT !.steps = steps] \/ r = [Read(p) EXCEPT !.steps = steps, !.ready = TRUE]
               /\ coffee' = [coffee EXCEPT ![p] = r]
  BY <1>1 DEF CoffeeType
<1> HIDE DEF steps
<1>5. r \in CoffeeType /\ \A mark \in Marks : Read(p)[mark] => r[mark]
  BY <1>1, <1>3, <1>4 DEF CoffeeType, Marks
<1> QED
  BY <1>4, <1>5, MarksKept

\* Every step keeps the development project as complete as its selection and its stage say.
LEMMA InstallationStep ==
  ASSUME "delete" \notin Interrupted, TypeOK, OpsInv, ChecklistInv, InstallationInv, [Next]_vars
  PROVE  InstallationInv'
<1>0. ASSUME UNCHANGED <<local, directory, op>>, MarksStay PROVE InstallationInv'
  BY <1>0 DEF InstallationInv, Complete, Progress, MarksStay, Marks, At
<1>1. UNCHANGED coffee => MarksStay
  BY DEF MarksStay
<1>2. ASSUME ChecklistNext PROVE InstallationInv'
  <2>1. MarksStay
    <3>1. Steps \in 1 .. Steps /\ Steps - 1 \in 1 .. Steps
      BY StepsAssumption
    <3>2. PICK p \in Project : \/ CompleteReview(p) \/ MarkReady(p)
                             \/ \E i \in 1 .. Steps : CompleteByCreating(p, i)
      BY <1>2 DEF ChecklistNext
    <3>3. CASE CompleteReview(p)
      <4>1. coffee' = [coffee EXCEPT ![p] = [Read(p) EXCEPT !.steps = Completed(@, Steps - 1)]]
        BY <3>3 DEF CompleteReview
      <4> QED
        BY <3>1, <4>1, CompletingKeepsMarks
    <3>4. CASE MarkReady(p)
      <4>1. coffee' = [coffee EXCEPT ![p] = [Read(p) EXCEPT !.steps = Completed(@, Steps), !.ready = TRUE]]
        BY <3>4 DEF MarkReady
      <4> QED
        BY <3>1, <4>1, CompletingKeepsMarks
    <3>5. ASSUME NEW i \in 1 .. Steps, CompleteByCreating(p, i) PROVE MarksStay
      <4>1. coffee' = [coffee EXCEPT ![p] = [Read(p) EXCEPT !.steps = Completed(@, i)]]
        BY <3>5 DEF CompleteByCreating
      <4> QED
        BY <4>1, CompletingKeepsMarks
    <3> QED
      BY <3>2, <3>3, <3>4, <3>5
  <2>2. UNCHANGED <<local, directory, op>>
    BY <1>2 DEF ChecklistNext, CompleteReview, MarkReady, CompleteByCreating
  <2> QED
    BY <1>0, <2>1, <2>2
<1>3. ASSUME NEW c \in Client, InstallationNext(c) PROVE InstallationInv'
  <2>1. UNCHANGED local
    BY <1>3 DEF InstallationNext, Initialize, RecordInstallation, UpdateProfile, Register,
       SaveConfiguration, CreateProject, BeginConfigure
  <2>2. MarksStay
    <3>1. CASE Initialize(c)
      <4>1. op[c].project \in Project
        BY <3>1, StageTells DEF Initialize, At
      <4> QED
        BY <3>1, <4>1, MarksKept, ReadSound DEF Initialize, SoundCoffee
    <3>2. CASE UpdateProfile(c)
      <4>1. op[c].project \in Project /\ 1 \in 1 .. Steps
        BY <3>2, StageTells, StepsAssumption DEF UpdateProfile, At
      <4> QED
        BY <3>2, <4>1, CompletingKeepsMarks DEF UpdateProfile
    <3> QED
      BY <1>1, <1>3, <3>1, <3>2 DEF InstallationNext, RecordInstallation, Register,
         SaveConfiguration, CreateProject, BeginConfigure
  <2>3. /\ \A d \in Client \ {c} : op'[d] = op[d]
        /\ op[c].kind # "delete" /\ op'[c].kind # "delete"
        /\ op'[c].stage \in {"none", "initialize", "install", "profile", "register", "save", "seed"}
    <3>1. CASE Initialize(c) \/ UpdateProfile(c)
      BY <3>1, Continued, StageTells DEF Initialize, UpdateProfile, At
    <3>2. CASE RecordInstallation(c)
      BY <3>2, Finished, StageTells DEF RecordInstallation, At, Idle, OpsInv, OpType
    <3>3. CASE Register(c)
      BY <3>3, Finished, Continued, StageTells DEF Register, At, Idle
    <3>4. CASE SaveConfiguration(c)
      BY <3>4, Finished, StageTells DEF SaveConfiguration, At, Idle, OpsInv, OpType
    <3>5. ASSUME NEW p \in Project, CreateProject(c, p)
          PROVE  /\ \A d \in Client \ {c} : op'[d] = op[d]
                 /\ op[c].kind # "delete" /\ op'[c].kind # "delete" /\ op'[c].stage = "initialize"
      BY <3>5 DEF CreateProject, Alone, OpsInv, Idle
    <3>6. ASSUME NEW p \in Project, NEW x \in Input, BeginConfigure(c, p, x)
          PROVE  /\ \A d \in Client \ {c} : op'[d] = op[d]
                 /\ op[c].kind # "delete" /\ op'[c].kind # "delete" /\ op'[c].stage = "profile"
      BY <3>6 DEF BeginConfigure, Alone, OpsInv, Idle
    <3> QED
      BY <1>3, <3>1, <3>2, <3>3, <3>4, <3>5, <3>6 DEF InstallationNext
  <2>4. directory' \subseteq directory \/ \A d \in Client : op[d].kind # "delete"
    <3>1. CASE Register(c)
      BY <3>1, StageTells DEF Register, At, OpsInv, Idle
    <3> QED
      BY <1>3, <3>1 DEF InstallationNext, Initialize, RecordInstallation, UpdateProfile,
         SaveConfiguration, CreateProject, BeginConfigure
  <2>5. Progress(c)'
    BY <2>3 DEF Progress, At
  <2> QED
    BY <2>1, <2>2, <2>3, <2>4, <2>5, InstallationKept
<1>4. ASSUME NEW c \in Client, DevelopmentNext(c) PROVE InstallationInv'
  <2>0. CrashTest \in Project /\ Read(CrashTest) \in CoffeeType /\ Read(CrashTest).here
        /\ coffee[CrashTest] \in CoffeeType
    BY ProjectAssumption, ReadSound DEF SoundCoffee
  <2>1. CASE BeginReset(c)
    <3>1. /\ op[c] = Idle /\ \A d \in Client \ {c} : op'[d] = op[d]
          /\ op'[c].stage = "clear" /\ op'[c].kind = "reset"
      BY <2>1 DEF BeginReset, Alone, OpsInv, Idle
    <3>2. UNCHANGED <<directory, coffee, local>>
      BY <2>1 DEF BeginReset
    <3>3. Progress(c)'
      BY <3>1 DEF Progress, At
    <3> QED
      BY <1>1, <3>1, <3>2, <3>3, InstallationKept DEF Idle
  <2>2. CASE ClearStorage(c)
    <3>1. /\ \A d \in Client \ {c} : op'[d] = Idle
          /\ op'[c].stage = "ensure" /\ op'[c].kind = "reset"
      BY <2>2, StageTells, Continued DEF ClearStorage, At, OpsInv
    <3>2. local'.selected = FALSE
      BY <2>2 DEF ClearStorage, Cleared
    <3>3. \A d \in Client : Progress(d)' /\ op'[d].kind # "delete"
      BY <3>1 DEF Progress, At, Idle
    <3> QED
      BY <3>2, <3>3 DEF InstallationInv
  <2>3. CASE EnsureProject(c) \/ CompleteRecord(c)
    <3>1. /\ UNCHANGED <<directory, coffee, local>> /\ op[c].kind = "reset"
          /\ \/ Continue(c, "initialize")
             \/ Continue(c, "credentials") /\ At(c, "complete")
      BY <2>3, StageTells DEF EnsureProject, CompleteRecord, At
    <3>2. Progress(c)'
      BY <3>1, Continued DEF InstallationInv, Progress, At
    <3> QED
      BY <1>1, <3>1, <3>2, Continued, InstallationKept
  <2>4. CASE ApplySeed(c)
    <3> DEFINE steps == [i \in 1 .. Steps |-> "complete"]
               r == [Read(CrashTest) EXCEPT !.steps = steps, !.ready = TRUE, !.seeded = TRUE]
    <3>1. steps \in [1 .. Steps -> StepStatus]
      BY DEF StepStatus
    <3>2. coffee' = [coffee EXCEPT ![CrashTest] = r] /\ UNCHANGED <<directory, local>>
      BY <2>4 DEF ApplySeed
    <3>3. op[c].kind = "reset" /\ Continue(c, "structure")
      BY <2>4, StageTells DEF ApplySeed, At
    <3> HIDE DEF steps
    <3>4. /\ r \in CoffeeType /\ r.here /\ r.ready /\ r.seeded
          /\ \A mark \in Marks : Read(CrashTest)[mark] => r[mark]
      BY <2>0, <3>1 DEF CoffeeType, Marks
    <3> HIDE DEF r
    <3>5. MarksStay /\ coffee'[CrashTest] = r
      BY <2>0, <3>2, <3>4, MarksKept DEF TypeOK
    <3>6. Progress(c)'
      BY <3>3, <3>4, <3>5, Continued DEF Progress, At
    <3> QED
      BY <3>2, <3>3, <3>5, <3>6, Continued, InstallationKept
  <2>5. CASE GenerateStructure(c)
    <3> DEFINE r == [Read(CrashTest) EXCEPT !.workspaces = TRUE]
    <3>1. coffee' = [coffee EXCEPT ![CrashTest] = r] /\ UNCHANGED <<directory, local>>
      BY <2>5 DEF GenerateStructure
    <3>2. op[c].kind = "reset" /\ Continue(c, "complete") /\ At(c, "structure")
      BY <2>5, StageTells DEF GenerateStructure, At
    <3>3. /\ r \in CoffeeType /\ r.workspaces
          /\ \A mark \in Marks : Read(CrashTest)[mark] => r[mark]
      BY <2>0 DEF CoffeeType, Marks
    <3> HIDE DEF r
    <3>4. MarksStay /\ coffee'[CrashTest] = r
      BY <2>0, <3>1, <3>3, MarksKept DEF TypeOK
    <3>5. Progress(c)'
      BY <3>2, <3>3, <3>4, Continued DEF InstallationInv, Progress, At, MarksStay, Marks
    <3> QED
      BY <3>1, <3>2, <3>4, <3>5, Continued, InstallationKept
  <2>6. CASE SetCredentials(c)
    <3> DEFINE r == [coffee[CrashTest] EXCEPT !.credentials = TRUE]
    <3>1. coffee' = [coffee EXCEPT ![CrashTest] = r] /\ UNCHANGED <<directory, local>>
      BY <2>6 DEF SetCredentials
    <3>2. op[c].kind = "reset" /\ Continue(c, "issue") /\ At(c, "credentials")
      BY <2>6, StageTells DEF SetCredentials, At
    <3>3. /\ r.credentials
          /\ \A mark \in Marks : coffee[CrashTest][mark] => r[mark]
      BY <2>0 DEF CoffeeType, Marks
    <3> HIDE DEF r
    <3>4. MarksStay /\ coffee'[CrashTest] = r
      BY <2>0, <3>1, <3>3 DEF TypeOK, MarksStay
    <3>5. Progress(c)'
      BY <3>2, <3>3, <3>4, Continued DEF InstallationInv, Progress, At, MarksStay, Marks
    <3> QED
      BY <3>1, <3>2, <3>4, <3>5, Continued, InstallationKept
  <2>7. CASE IssueWorkspaces(c)
    <3>1. /\ local' = [local EXCEPT !.issued = TRUE] /\ UNCHANGED <<directory, coffee>>
          /\ op[c].kind = "reset" /\ Continue(c, "select") /\ At(c, "issue")
      BY <2>7, StageTells DEF IssueWorkspaces, At
    <3>2. local'.issued /\ local'.selected = local.selected
      BY <3>1 DEF TypeOK
    <3>3. Progress(c)'
      BY <3>1, <3>2, Continued DEF InstallationInv, Progress, At
    <3> QED
      BY <1>1, <3>1, <3>2, <3>3, Continued, InstallationKept
  <2>8. CASE SelectProject(c)
    <3>1. /\ local' = [local EXCEPT !.selected = TRUE, !.schema = TRUE] /\ UNCHANGED <<directory, coffee>>
          /\ Finish(c) /\ At(c, "select")
      BY <2>8 DEF SelectProject
    <3>2. local'.issued = local.issued
      BY <3>1 DEF TypeOK
    <3>3. Complete'
      BY <3>1, <3>2 DEF InstallationInv, Progress, Complete, At
    <3>4. \A d \in Client : Progress(d)'
      BY <3>1, <3>2, Finished DEF InstallationInv, Progress, At, Idle
    <3>5. \A d \in Client : op'[d].kind = "delete" => op[d].kind = "delete"
      BY <3>1, Finished DEF Idle
    <3> QED
      BY <3>1, <3>3, <3>4, <3>5 DEF InstallationInv
  <2>9. CASE BeginDelete(c)
    <3>1. /\ op[c] = Idle /\ \A d \in Client \ {c} : op'[d] = Idle /\ op[d] = Idle
          /\ op'[c].stage = "data" /\ op'[c].kind = "delete"
      BY <2>9 DEF BeginDelete, Alone, OpsInv, Idle
    <3>2. UNCHANGED <<coffee, local>> /\ \A e \in directory' : e.project # CrashTest
      BY <2>9 DEF BeginDelete
    <3>3. \A d \in Client : Progress(d)'
      BY <3>1 DEF Progress, At, Idle
    <3>4. local'.selected => Complete'
      BY <3>1, <3>2 DEF InstallationInv, Complete, Idle
    <3> QED
      BY <3>2, <3>3, <3>4 DEF InstallationInv
  <2>10. CASE DeleteData(c) \/ DeleteProject(c)
    <3>1. op[c].kind = "delete" /\ directory' = directory /\ \A d \in Client \ {c} : op[d] = Idle
      BY <2>10, StageTells DEF DeleteData, DeleteProject, At, OpsInv
    <3>2. \A d \in Client \ {c} : op'[d] = Idle
      BY <2>10, <3>1, Continued, Finished DEF DeleteData, DeleteProject
    <3>3. CASE DeleteData(c)
      <4>1. op'[c].kind = "delete" /\ op'[c].stage = "project"
        BY <3>1, <3>3, Continued DEF DeleteData
      <4>2. \A d \in Client : Progress(d)'
        BY <3>2, <4>1 DEF Progress, At, Idle
      <4> QED
        BY <3>1, <4>1, <4>2 DEF InstallationInv, At
    <3>4. CASE DeleteProject(c)
      <4>1. op'[c] = Idle /\ local'.selected = FALSE
        BY <3>4, Finished DEF DeleteProject, TypeOK
      <4>2. \A d \in Client : Progress(d)' /\ op'[d].kind # "delete"
        BY <3>2, <4>1 DEF Progress, At, Idle
      <4> QED
        BY <4>1, <4>2 DEF InstallationInv
    <3> QED
      BY <2>10, <3>3, <3>4
  <2> QED
    BY <1>4, <2>1, <2>2, <2>3, <2>4, <2>5, <2>6, <2>7, <2>8, <2>9, <2>10 DEF DevelopmentNext
<1>5. ASSUME NEW c \in Client, ClosePage(c) PROVE InstallationInv'
  <2>1. UNCHANGED <<directory, coffee, local>> /\ Finish(c) /\ op[c].kind # "delete"
    BY <1>5 DEF ClosePage
  <2>2. Progress(c)'
    BY <2>1, Finished DEF Progress, At, Idle
  <2> QED
    BY <1>1, <2>1, <2>2, Finished, InstallationKept DEF Idle
<1>6. ASSUME UNCHANGED vars PROVE InstallationInv'
  BY <1>0, <1>1, <1>6 DEF vars
<1> QED
  BY <1>2, <1>3, <1>4, <1>5, <1>6 DEF Next

-----------------------------------------------------------------------------
(* The theorems.                                                            *)

\* Nothing is stored and nothing under way at first.
LEMMA InitInv == Init => IInv
<1> SUFFICES ASSUME Init PROVE IInv
  OBVIOUS
<1>1. TypeOK
  BY IdleType DEF Init, TypeOK, Cleared, NoCoffee
<1>2. OpsInv
  BY IdleType DEF Init, OpsInv, Idle
<1>3. CodesInv
  BY DEF Init, CodesInv, DirectoryFunctional, CodesRegistered, SavesRegistered, NoRecord, At, Idle
<1>4. ChecklistInv
  BY DEF Init, ChecklistInv, NoCoffee
<1>5. InstallationInv
  BY DEF Init, InstallationInv, Progress, At, Idle, Cleared
<1> QED
  BY <1>1, <1>2, <1>3, <1>4, <1>5 DEF IInv

\* The parts that do not depend on what is interrupted.
ShapeInv == TypeOK /\ OpsInv /\ ChecklistInv

\* They hold in every state, whichever operation is interrupted.
LEMMA ShapeInductive == Spec => []ShapeInv
<1>1. Init => ShapeInv
  BY InitInv DEF IInv, ShapeInv
<1>2. ShapeInv /\ [Next]_vars => ShapeInv'
  BY TypeStep, OpsStep, CoffeeStep DEF ShapeInv
<1> QED
  BY <1>1, <1>2, PTL DEF Spec

\* The whole invariant holds in every state when no deletion is interrupted.
LEMMA Inductive == "delete" \notin Interrupted => (Spec => []IInv)
<1>1. "delete" \notin Interrupted /\ IInv /\ [Next]_vars => IInv'
  BY TypeStep, OpsStep, CoffeeStep, CodesStep, InstallationStep DEF IInv
<1>2. CASE "delete" \notin Interrupted
  <2>1. IInv /\ [Next]_vars => IInv'
    BY <1>1, <1>2
  <2> QED
    BY <2>1, InitInv, PTL DEF Spec
<1> QED
  BY <1>2

\* The platform, the records, the directory and the data keep their declared shapes: there
\* is always a code left for a project that has none.
THEOREM TypeCorrect == Spec => []TypeOK
<1>1. ShapeInv => TypeOK
  BY DEF ShapeInv
<1> QED
  BY <1>1, ShapeInductive, PTL

\* Whatever is created in whatever order, and wherever a page is closed, some open step of
\* the checklist can be done until all are complete (repositories.ts, completeStep).
THEOREM SetupGoesOn == Spec => []SetupNeverStuck
<1>1. ShapeInv => SetupNeverStuck
  <2> SUFFICES ASSUME ShapeInv, NEW p \in Project, coffee[p].here,
                      ~ \A i \in 1 .. Steps : coffee[p].steps[i] = "complete"
               PROVE  \E i \in 1 .. Steps :
                        /\ coffee[p].steps[i] = "incomplete"
                        /\ \A j \in 1 .. i - 1 : coffee[p].steps[j] = "complete"
    BY DEF SetupNeverStuck
  <2> DEFINE steps == coffee[p].steps
             open == {i \in 1 .. Steps : steps[i] # "complete"}
  <2>1. steps \in [1 .. Steps -> StepStatus] /\ Unlocked(steps)
    BY DEF ShapeInv, TypeOK, ChecklistInv, StepStatus
  <2>2. open \in SUBSET Nat /\ open # {}
    OBVIOUS
  <2>3. PICK i \in open : \A j \in open : i <= j
    BY <2>2, LeastNumber
  <2> HIDE DEF steps
  <2>4. \A j \in 1 .. i - 1 : steps[j] = "complete"
    BY <2>3, StepsAssumption
  <2>5. steps[i] # "blocked"
    <3>1. CASE i = 1
      BY <2>1, <3>1 DEF Unlocked
    <3>2. CASE i # 1
      <4>1. i - 1 \in 1 .. Steps - 1 /\ steps[i - 1] = "complete" /\ (i - 1) + 1 = i
        BY <2>3, <2>4, <3>2, StepsAssumption
      <4> QED
        BY <2>1, <4>1 DEF Unlocked
    <3> QED
      BY <3>1, <3>2
  <2>6. steps[i] = "incomplete"
    BY <2>1, <2>3, <2>5 DEF StepStatus
  <2> QED
    BY <2>3, <2>4, <2>6 DEF steps
<1> QED
  BY <1>1, ShapeInductive, PTL

\* When no deletion is interrupted, a project that the development page reports as installed
\* has everything an installation gives it, wherever an earlier one was broken off
\* (coffee-crash-test-service.ts, inspect and reset).
THEOREM InstallationComplete == "delete" \notin Interrupted => (Spec => []InstalledIsComplete)
<1>1. IInv => InstalledIsComplete
  <2> SUFFICES ASSUME IInv, Installed PROVE Complete
    BY DEF InstalledIsComplete, Complete
  <2>1. \E e \in directory : e.project = CrashTest
    BY DEF Installed
  <2>2. \A c \in Client : op[c].kind # "delete"
    BY <2>1 DEF IInv, InstallationInv
  <2> QED
    BY <2>2 DEF Installed, IInv, InstallationInv
<1> QED
  BY <1>1, Inductive, PTL

\* When no deletion is interrupted, the code that a record shows leads to its project and to
\* no other, however many clients configure projects at a time (coffee-manager-setup-repository.ts,
\* local-business-environment-directory.ts).
THEOREM CodesLeadHome == "delete" \notin Interrupted => (Spec => []CodesResolve)
<1>1. IInv => CodesResolve
  <2> SUFFICES ASSUME IInv, NEW p \in Project, records[p].code # None,
                      \A c \in Client : op[c].kind = "delete" => op[c].project # p
               PROVE  {e \in directory : e.code = records[p].code \/ e.project = p}
                        = {[code |-> records[p].code, project |-> p]}
    BY DEF CodesResolve
  <2>1. Entry(p, records[p].code) \in directory
    BY DEF IInv, CodesInv, CodesRegistered, Deleting
  <2>2. Entry(p, records[p].code).code = records[p].code /\ Entry(p, records[p].code).project = p
    BY DEF Entry
  <2>3. \A e \in directory : e = Entry(e.project, e.code)
    BY DEF IInv, TypeOK, Entry
  <2>4. \A e \in directory : e.code = records[p].code \/ e.project = p => e = Entry(p, records[p].code)
    BY <2>1, <2>2, <2>3 DEF IInv, CodesInv, DirectoryFunctional
  <2> QED
    BY <2>1, <2>2, <2>4 DEF Entry
<1> QED
  BY <1>1, Inductive, PTL

\* When no deletion is interrupted, a project that has a code keeps it for as long as it is
\* installed, whoever configures it again.
THEOREM CodesKeptForGood == "delete" \notin Interrupted => (Spec => CodesPermanent)
<1>1. "delete" \notin Interrupted /\ IInv /\ [Next]_vars =>
        [\A p \in Project :
           records[p].code # None /\ records'[p].here => records'[p].code = records[p].code]_vars
  BY CodesStep DEF IInv, CodesStay
<1>2. CASE "delete" \notin Interrupted
  <2>1. IInv /\ [Next]_vars =>
          [\A p \in Project :
             records[p].code # None /\ records'[p].here => records'[p].code = records[p].code]_vars
    BY <1>1, <1>2
  <2>2. Spec => []IInv
    BY <1>2, Inductive
  <2> QED
    BY <2>1, <2>2, PTL DEF Spec, CodesPermanent
<1> QED
  BY <1>2

-----------------------------------------------------------------------------
(* The workspaces, employees and devices of a project.                      *)

Structures == [Workspace -> [here : BOOLEAN, assigned : SUBSET Employee]]

Kinds == {"none", "generate", "assign", "issue", "rotate", "create", "update", "delete", "reset"}
Stages ==
  {"none", "write", "list", "look", "create", "undo", "change", "synchronize", "unassign",
   "remove", "hash"}

OperationType ==
  [kind : Kinds, stage : Stages,
   workspace : Workspace \cup {Nothing}, employee : Employee \cup {Nothing}, given : BOOLEAN,
   chosen : SUBSET Workspace, structure : Structures, ahead : SUBSET Slot, fresh : BOOLEAN]

\* What an operation has in hand at each stage.
Sound(c, o) ==
  /\ o.kind \in {"assign", "issue", "rotate"} => o.workspace \in Workspace
  /\ o.kind \in {"assign", "create", "update", "delete", "reset"} => o.employee \in Employee
  /\ o.stage = "write" => o.kind \in {"generate", "assign"}
  /\ o.stage \in {"create", "undo"} => o.kind = "create"
  /\ o.stage = "change" => o.kind = "update"
  /\ o.stage \in {"unassign", "remove"} => o.kind = "delete"
  /\ o.stage = "hash" => o.kind = "reset"
  /\ o.stage = "list" => c # "employees"

OperationsTyped == running \in [Slot -> OperationType] /\ \A c \in Slot : Sound(c, running[c])

WorkTyped ==
  /\ AccessTypeOK
  /\ OperationsTyped

LEMMA StartTyped ==
  ASSUME NEW kind \in Kinds, NEW stage \in Stages, NEW c \in Slot
  PROVE  /\ Start(c, kind, stage) \in OperationType
         /\ Start(c, kind, stage).kind = kind
         /\ Start(c, kind, stage).stage = stage
  BY DEF Start, AtRest, OperationType, Structures, NoWorkspace

\* What the waits, the ends and the starts of operations do to their types.
LEMMA WaitTyped ==
  ASSUME OperationsTyped, NEW c \in Slot, NEW new \in OperationType, Sound(c, new), WaitAs(c, new)
  PROVE  OperationsTyped'
<1>1. AheadOf(c) \in SUBSET Slot
  BY DEF AheadOf
<1> DEFINE waiting == [new EXCEPT !.ahead = AheadOf(c)]
<1>2. waiting \in OperationType
  BY <1>1 DEF OperationType
<1>3. Sound(c, waiting)
  BY DEF Sound, OperationType
<1>4. running' = [running EXCEPT ![c] = waiting]
  BY DEF WaitAs
<1> HIDE DEF waiting
<1> QED
  BY <1>2, <1>3, <1>4 DEF OperationsTyped

LEMMA WaitForTyped ==
  ASSUME OperationsTyped, NEW c \in Slot, NEW stage \in Stages,
         Sound(c, [running[c] EXCEPT !.stage = stage]), WaitFor(c, stage)
  PROVE  OperationsTyped'
<1>1. running[c] \in OperationType
  BY DEF OperationsTyped
<1>2. [running[c] EXCEPT !.stage = stage] \in OperationType
  BY <1>1 DEF OperationType
<1> QED
  BY <1>2, WaitTyped DEF WaitFor

LEMMA FinishTyped ==
  ASSUME OperationsTyped, NEW c \in Slot, EndOperation(c)
  PROVE  OperationsTyped'
<1>1. AtRest \in OperationType /\ \A d \in Slot : Sound(d, AtRest)
  BY DEF AtRest, Kinds, Stages, OperationType, Structures, NoWorkspace, Sound
<1>2. ASSUME NEW d \in Slot
      PROVE  [running[d] EXCEPT !.ahead = @ \ {c}] \in OperationType
             /\ Sound(d, [running[d] EXCEPT !.ahead = @ \ {c}])
  BY DEF OperationsTyped, OperationType, Sound
<1> QED
  BY <1>1, <1>2 DEF OperationsTyped, EndOperation

Directories == [Workspace -> [here : BOOLEAN, turn : 0 .. Rotations, listed : SUBSET Employee]]
Sessions == [workspace : Workspace \cup {Nothing}, turn : 0 .. Rotations,
             listed : SUBSET Employee, current : Employee \cup {Nothing}]

LEMMA EntitledTyped ==
  \A s \in Structures, w \in Workspace : Entitled(s, w) \in SUBSET Employee
  BY DEF Entitled, Structures

LEMMA SynchronizeTyped ==
  ASSUME Rotations \in Nat, AccessTypeOK, NEW s \in Structures, Synchronize(s)
  PROVE  entries' \in Directories /\ session' \in Sessions
<1>1. \A w \in Workspace : Entitled(s, w) \in SUBSET Employee
  BY EntitledTyped
<1>2. entries' \in Directories
  BY <1>1 DEF Synchronize, Synchronized, NoEntry, Directories, AccessTypeOK
<1>3. session' \in Sessions
  BY DEF Synchronize, Disconnected, NoSession, Sessions, AccessTypeOK
<1> QED
  BY <1>2, <1>3

LEMMA RotatedTyped ==
  ASSUME Rotations \in Nat, AccessTypeOK, NEW w \in Workspace, entries[w].turn < Rotations
  PROVE  Rotated(w) \in Directories /\ Issued(w) \in Directories
<1>1. Entitled(structure, w) \in SUBSET Employee
  BY EntitledTyped DEF AccessTypeOK, Structures
<1>2. entries[w].turn + 1 \in 0 .. Rotations /\ 0 \in 0 .. Rotations
  BY DEF AccessTypeOK
<1>3. Issued(w) \in Directories
  BY <1>1, <1>2 DEF Issued, Directories, AccessTypeOK
<1> QED
  BY <1>1, <1>2, <1>3 DEF Rotated, Directories, AccessTypeOK

LEMMA AssignedTyped ==
  ASSUME NEW w \in Workspace, NEW e \in Employee, NEW given \in BOOLEAN, AccessTypeOK
  PROVE  Assigned(w, e, given) \in Structures
  BY DEF Assigned, Structures, AccessTypeOK

LEMMA GeneratedTyped ==
  ASSUME NEW modules \in SUBSET Workspace, AccessTypeOK
  PROVE  Generated(modules) \in Structures
  BY DEF Generated, Structures, NoWorkspace, AccessTypeOK

LEMMA AuthorizeTyped ==
  ASSUME AccessTypeOK, NEW w \in Workspace, Authorize(w)
  PROVE  session' \in Sessions
  BY DEF Authorize, Sessions, AccessTypeOK

LEMMA InitTyped == ASSUME Rotations \in Nat, AccessInit PROVE WorkTyped
<1>2. structure \in Structures
  <2>1. passwords \subseteq Employee
    BY DEF AccessInit
  <2>2. CASE structure = [w \in Workspace |-> NoWorkspace]
    BY <2>2 DEF Structures, NoWorkspace
  <2>3. CASE structure \in [Workspace -> [here : {TRUE}, assigned : SUBSET passwords]]
    BY <2>1, <2>3 DEF Structures
  <2> QED
    BY <2>2, <2>3 DEF AccessInit
<1>1. \A w \in Workspace : Entitled(structure, w) \in SUBSET Employee
  BY <1>2, EntitledTyped
<1>3. entries \in Directories
  BY <1>1 DEF AccessInit, Directories, NoEntry
<1>4. OperationsTyped
  BY DEF AccessInit, OperationsTyped, AtRest, Kinds, Stages, OperationType, Structures,
     NoWorkspace, Sound
<1>5. employees \in [Employee -> {"absent", "active", "inactive", "deleted"}]
  BY DEF AccessInit
<1>6. session \in Sessions
  BY DEF AccessInit, NoSession, Sessions
<1> QED
  BY <1>2, <1>3, <1>4, <1>5, <1>6 DEF WorkTyped, AccessTypeOK, Structures, Directories, Sessions,
     AccessInit

Others == <<employees, passwords, structure, entries, session, behind>>

LEMMA OthersTyped ==
  ASSUME AccessTypeOK, UNCHANGED Others
  PROVE  AccessTypeOK'
  BY DEF AccessTypeOK, Others

LEMMA WorkspacesTyped ==
  ASSUME Rotations \in Nat, WorkTyped, WorkspacesNext
  PROVE  WorkTyped'
<1> USE DEF Slot
<1>t. AccessTypeOK /\ OperationsTyped /\ running["workspaces"] \in OperationType /\ Sound("workspaces", running["workspaces"])
  BY DEF WorkTyped, OperationsTyped
<1>1. CASE WriteStructure
  <2> DEFINE o == running["workspaces"]
             new == IF o.kind = "generate" THEN Generated(o.chosen)
                    ELSE Assigned(o.workspace, o.employee, o.given)
  <2>1. o.stage = "write" /\ o.kind \in {"generate", "assign"}
    BY <1>1, <1>t DEF WriteStructure, After, Sound
  <2>2. new \in Structures
    <3>1. o.chosen \in SUBSET Workspace /\ o.given \in BOOLEAN
      BY <1>t DEF OperationType
    <3>2. CASE o.kind = "generate"
      BY <3>1, <3>2, <1>t, GeneratedTyped
    <3>3. CASE o.kind # "generate"
      <4>1. o.workspace \in Workspace /\ o.employee \in Employee
        BY <3>3, <2>1, <1>t DEF Sound
      <4> QED
        BY <4>1, <3>1, <3>3, <1>t, AssignedTyped
    <3> QED
      BY <3>2, <3>3
  <2>3. CASE EndOperation("workspaces") /\ UNCHANGED structure
    <3>1. OperationsTyped'
      BY <2>3, <1>t, FinishTyped
    <3>2. UNCHANGED Others
      BY <2>3, <1>1 DEF WriteStructure, Others
    <3> QED
      BY <3>1, <3>2, <1>t, OthersTyped DEF WorkTyped
  <2>4. CASE /\ structure' = new
             /\ WaitAs("workspaces", [o EXCEPT !.stage = "list", !.structure = new, !.fresh = TRUE])
    <3> DEFINE listing == [o EXCEPT !.stage = "list", !.structure = new, !.fresh = TRUE]
    <3>1. listing \in OperationType
      BY <2>2, <1>t DEF OperationType, Stages
    <3>2. Sound("workspaces", listing)
      BY <2>1, <1>t DEF Sound, OperationType
    <3>3. OperationsTyped'
      <4> HIDE DEF listing
      <4> QED  BY <2>4, <3>1, <3>2, <1>t, WaitTyped DEF listing
    <3>4. AccessTypeOK'
      BY <2>2, <2>4, <1>t, <1>1 DEF WriteStructure, AccessTypeOK, Structures
    <3> QED
      BY <3>3, <3>4 DEF WorkTyped
  <2> QED
    BY <1>1, <2>3, <2>4 DEF WriteStructure
<1>2. CASE IssueCode \/ RotateCode
  <2> DEFINE w == running["workspaces"].workspace
  <2>1. w \in Workspace
    BY <1>2, <1>t DEF IssueCode, RotateCode, Sound
  <2>2. OperationsTyped'
    BY <1>2, <1>t, FinishTyped DEF IssueCode, RotateCode
  <2>3. entries' \in Directories /\ session' \in Sessions
    <3>1. CASE IssueCode
      <4>1. Entitled(structure, w) \in SUBSET Employee
        BY <2>1, <1>t, EntitledTyped DEF AccessTypeOK, Structures
      <4>2. Issued(w) \in Directories
        BY <2>1, <4>1, <1>t DEF Issued, Directories, AccessTypeOK
      <4> QED
        BY <3>1, <4>2, <1>t DEF IssueCode, AccessTypeOK, Directories, Sessions
    <3>2. CASE RotateCode
      <4>1. Rotated(w) \in Directories
        BY <3>2, <2>1, <1>t, RotatedTyped DEF RotateCode
      <4>2. Disconnected({w}) \in Sessions
        BY <1>t DEF Disconnected, NoSession, AccessTypeOK, Sessions
      <4> QED
        BY <3>2, <4>1, <4>2, <1>t DEF RotateCode, AccessTypeOK, Directories, Sessions
    <3> QED
      BY <1>2, <3>1, <3>2
  <2> QED
    BY <1>2, <2>2, <2>3, <1>t DEF WorkTyped, AccessTypeOK, Directories, Sessions, IssueCode,
       RotateCode
<1>3. ASSUME NEW modules \in SUBSET Workspace, BeginGenerate(modules)
      PROVE  WorkTyped'
  <2> DEFINE new == [Start("workspaces", "generate", "write") EXCEPT !.chosen = modules]
  <2>0. LET b == Start("workspaces", "generate", "write")
        IN  b \in OperationType /\ b.kind = "generate" /\ b.stage = "write"
    BY StartTyped DEF Kinds, Stages
  <2>1. new \in OperationType /\ Sound("workspaces", new)
    BY <2>0 DEF OperationType, Sound
  <2>2. OperationsTyped'
    <3> HIDE DEF new
    <3> QED  BY <1>3, <2>1, <1>t, WaitTyped DEF BeginGenerate, new
  <2> QED
    BY <1>3, <2>2, <1>t, OthersTyped DEF BeginGenerate, Constructor, Others, WorkTyped
<1>4. ASSUME NEW w \in Workspace, NEW e \in Employee, NEW given \in BOOLEAN, BeginAssign(w, e, given)
      PROVE  WorkTyped'
  <2> DEFINE new == [Start("workspaces", "assign", "write") EXCEPT
                             !.workspace = w, !.employee = e, !.given = given]
  <2>0. LET b == Start("workspaces", "assign", "write")
        IN  b \in OperationType /\ b.kind = "assign" /\ b.stage = "write"
    BY StartTyped DEF Kinds, Stages
  <2>1. new \in OperationType /\ Sound("workspaces", new)
    BY <2>0 DEF OperationType, Sound
  <2>2. OperationsTyped'
    <3> HIDE DEF new
    <3> QED  BY <1>4, <2>1, <1>t, WaitTyped DEF BeginAssign, new
  <2> QED
    BY <1>4, <2>2, <1>t, OthersTyped DEF BeginAssign, Constructor, Others, WorkTyped
<1>5. ASSUME NEW w \in Workspace, NEW kind \in {"issue", "rotate"}, BeginCode(kind, w)
      PROVE  WorkTyped'
  <2> DEFINE new == [Start("workspaces", kind, "look") EXCEPT !.workspace = w]
  <2>0. LET b == Start("workspaces", kind, "look")
        IN  b \in OperationType /\ b.kind = kind /\ b.stage = "look"
    BY StartTyped DEF Kinds, Stages
  <2>1. new \in OperationType /\ Sound("workspaces", new)
    BY <2>0 DEF OperationType, Sound
  <2>2. OperationsTyped'
    <3> HIDE DEF new
    <3> QED  BY <1>5, <2>1, <1>t, WaitTyped DEF BeginCode, new
  <2> QED
    BY <1>5, <2>2, <1>t, OthersTyped DEF BeginCode, Constructor, Others, WorkTyped
<1>6. ASSUME NEW w \in Workspace, DisconnectDevice(w)
      PROVE  WorkTyped'
  <2>1. session' \in Sessions
    BY <1>6, <1>t DEF DisconnectDevice, Disconnected, NoSession, Sessions, AccessTypeOK
  <2> QED
    BY <1>6, <2>1, <1>t DEF DisconnectDevice, WorkTyped, AccessTypeOK, Sessions, OperationsTyped
<1>7. \A w \in Workspace : BeginCode("issue", w) \/ BeginCode("rotate", w) => WorkTyped'
  BY <1>5
<1> QED
  BY <1>1, <1>2, <1>3, <1>4, <1>6, <1>7 DEF WorkspacesNext

LEMMA EmployeesTyped ==
  ASSUME WorkTyped, EmployeesNext
  PROVE  WorkTyped'
<1> USE DEF Slot
<1>t. /\ AccessTypeOK /\ OperationsTyped
      /\ running["employees"] \in OperationType /\ Sound("employees", running["employees"])
      /\ running["form"] \in OperationType /\ Sound("form", running["form"])
  BY DEF WorkTyped, OperationsTyped
<1>1. CASE CreateEmployee
  <2>1. running["form"].employee \in Employee /\ running["form"].kind = "create"
    BY <1>1, <1>t DEF CreateEmployee, After, Sound
  <2>2. AccessTypeOK'
    BY <1>1, <2>1, <1>t DEF CreateEmployee, AccessTypeOK
  <2>3. ASSUME NEW stage \in {"look", "undo"}, WaitFor("form", stage)
        PROVE  OperationsTyped'
    <3>1. Sound("form", [running["form"] EXCEPT !.stage = stage])
      BY <2>1, <1>t DEF Sound, OperationType
    <3> QED
      BY <2>3, <3>1, <1>t, WaitForTyped DEF Stages
  <2> QED
    BY <1>1, <2>2, <2>3 DEF CreateEmployee, WorkTyped
<1>2. CASE UndoCreate
  <2>1. running["form"].employee \in Employee
    BY <1>2, <1>t DEF UndoCreate, After, Sound
  <2> QED
    BY <1>2, <2>1, <1>t, FinishTyped DEF UndoCreate, WorkTyped, AccessTypeOK
<1>3. CASE LookAtStructure
  <2> DEFINE new == [running["form"] EXCEPT !.stage = "list", !.structure = structure, !.fresh = TRUE]
  <2>1. new \in OperationType /\ Sound("form", new)
    <3>1. structure \in Structures
      BY <1>t DEF AccessTypeOK, Structures
    <3> QED
      BY <1>3, <3>1, <1>t DEF LookAtStructure, OperationType, Stages, Sound
  <2>2. OperationsTyped'
    <3> HIDE DEF new
    <3> QED  BY <1>3, <2>1, <1>t, WaitTyped DEF LookAtStructure, new
  <2> QED
    BY <1>3, <2>2, <1>t, OthersTyped DEF LookAtStructure, Constructor, Others, WorkTyped
<1>4. CASE LookForAssignments
  <2> DEFINE o == running["employees"]
             new == [o EXCEPT !.stage = "unassign",
                            !.chosen = {w \in Here(structure) : o.employee \in structure[w].assigned}]
  <2>1. new \in OperationType /\ Sound("employees", new)
    BY <1>4, <1>t DEF LookForAssignments, OperationType, Stages, Sound, Here
  <2>2. OperationsTyped'
    <3> HIDE DEF new
    <3> QED  BY <1>4, <2>1, <1>t, WaitTyped DEF LookForAssignments, new
  <2> QED
    BY <1>4, <2>2, <1>t, OthersTyped DEF LookForAssignments, Constructor, Others, WorkTyped
<1>5. CASE RemovePassword
  <2>1. running["employees"].kind = "delete"
    BY <1>5, <1>t DEF RemovePassword, After, Sound
  <2>2. Sound("employees", [running["employees"] EXCEPT !.stage = "remove"])
    BY <2>1, <1>t DEF Sound, OperationType
  <2>3. OperationsTyped'
    BY <1>5, <2>2, <1>t, WaitForTyped DEF RemovePassword, Stages
  <2>4. AccessTypeOK'
    BY <1>5, <1>t DEF RemovePassword, AccessTypeOK
  <2> QED
    BY <2>3, <2>4 DEF WorkTyped
<1>6. CASE RemoveEmployee
  <2>1. running["employees"].kind = "delete" /\ running["employees"].employee \in Employee
    BY <1>6, <1>t DEF RemoveEmployee, After, Sound
  <2>2. Sound("employees", [running["employees"] EXCEPT !.stage = "synchronize"])
    BY <2>1, <1>t DEF Sound, OperationType
  <2>3. WaitFor("employees", "synchronize") => OperationsTyped'
    BY <2>2, <1>t, WaitForTyped DEF Stages
  <2>4. EndOperation("employees") => OperationsTyped'
    BY <1>t, FinishTyped
  <2>5. AccessTypeOK'
    BY <1>6, <2>1, <1>t DEF RemoveEmployee, AccessTypeOK
  <2> QED
    BY <1>6, <2>3, <2>4, <2>5 DEF RemoveEmployee, WorkTyped
<1>7. CASE ResetPassword
  <2>1. running["employees"].employee \in Employee
    BY <1>7, <1>t DEF ResetPassword, After, Sound
  <2> QED
    BY <1>7, <2>1, <1>t, FinishTyped DEF ResetPassword, WorkTyped, AccessTypeOK
<1>8. ASSUME NEW w \in Workspace, Unassign(w)
      PROVE  WorkTyped'
  <2> DEFINE o == running["employees"]
             rest == [o EXCEPT !.chosen = @ \ {w}]
  <2>1. o.employee \in Employee /\ o.stage = "unassign"
    BY <1>8, <1>t DEF Unassign, After, Sound
  <2>2. CASE structure[w].here /\ Exists(o.employee)
    <3>1. rest \in OperationType /\ Sound("employees", rest)
      BY <1>t DEF OperationType, Sound
    <3>2. OperationsTyped'
      <4> HIDE DEF rest
      <4> QED  BY <1>8, <2>2, <3>1, <1>t, WaitTyped DEF Unassign, rest
    <3>3. Assigned(w, o.employee, FALSE) \in Structures
      BY <2>1, <1>t, AssignedTyped
    <3> QED
      BY <1>8, <2>2, <3>2, <3>3, <1>t DEF Unassign, WorkTyped, AccessTypeOK, Structures
  <2>3. CASE ~(structure[w].here /\ Exists(o.employee))
    <3>1. running' = [d \in Slot |-> IF d = "employees" THEN AtRest ELSE [running[d] EXCEPT !.fresh = FALSE]]
      BY <1>8, <2>3 DEF Unassign
    <3>2. AtRest \in OperationType /\ Sound("employees", AtRest)
      BY DEF AtRest, Kinds, Stages, OperationType, Structures, NoWorkspace, Sound
    <3>3. ASSUME NEW d \in Slot
          PROVE  [running[d] EXCEPT !.fresh = FALSE] \in OperationType
                 /\ Sound(d, [running[d] EXCEPT !.fresh = FALSE])
      <4>1. running[d] \in OperationType /\ Sound(d, running[d])
        BY <1>t DEF OperationsTyped
      <4> QED
        BY <4>1 DEF OperationType, Sound
    <3>4. OperationsTyped'
      BY <3>1, <3>2, <3>3 DEF OperationsTyped
    <3> QED
      BY <1>8, <2>3, <3>4, <1>t DEF Unassign, WorkTyped, AccessTypeOK
  <2> QED
    BY <2>2, <2>3
<1>9. ASSUME NEW e \in Employee, BeginCreate(e)
      PROVE  WorkTyped'
  <2> DEFINE new == [Start("form", "create", "create") EXCEPT !.employee = e]
  <2>0. LET b == Start("form", "create", "create")
        IN  b \in OperationType /\ b.kind = "create" /\ b.stage = "create"
    BY StartTyped DEF Kinds, Stages
  <2>1. new \in OperationType /\ Sound("form", new)
    BY <2>0 DEF OperationType, Sound
  <2>2. OperationsTyped'
    <3> HIDE DEF new
    <3> QED  BY <1>9, <2>1, <1>t, WaitTyped DEF BeginCreate, new
  <2> QED
    BY <1>9, <2>2, <1>t, OthersTyped DEF BeginCreate, Constructor, Others, WorkTyped
<1>10. ASSUME NEW e \in Employee, BeginUpdate(e)
      PROVE  WorkTyped'
  <2> DEFINE new == [Start("form", "update", "change") EXCEPT !.employee = e]
  <2>0. LET b == Start("form", "update", "change")
        IN  b \in OperationType /\ b.kind = "update" /\ b.stage = "change"
    BY StartTyped DEF Kinds, Stages
  <2>1. new \in OperationType /\ Sound("form", new)
    BY <2>0 DEF OperationType, Sound
  <2>2. OperationsTyped'
    <3> HIDE DEF new
    <3> QED  BY <1>10, <2>1, <1>t, WaitTyped DEF BeginUpdate, new
  <2> QED
    BY <1>10, <2>2, <1>t, OthersTyped DEF BeginUpdate, Constructor, Others, WorkTyped
<1>11. ASSUME NEW e \in Employee, BeginSetActive(e)
      PROVE  WorkTyped'
  <2> DEFINE new == [Start("employees", "update", "change") EXCEPT !.employee = e,
                            !.given = (employees[e] = "inactive")]
  <2>g. (employees[e] = "inactive") \in BOOLEAN
    OBVIOUS
  <2>0. LET b == Start("employees", "update", "change")
        IN  b \in OperationType /\ b.kind = "update" /\ b.stage = "change"
    BY StartTyped DEF Kinds, Stages
  <2>1. new \in OperationType /\ Sound("employees", new)
    BY <2>0, <2>g DEF OperationType, Sound
  <2>2. OperationsTyped'
    <3> HIDE DEF new
    <3> QED  BY <1>11, <2>1, <1>t, WaitTyped DEF BeginSetActive, new
  <2> QED
    BY <1>11, <2>2, <1>t, OthersTyped DEF BeginSetActive, Constructor, Others, WorkTyped
<1>12. ASSUME NEW e \in Employee, BeginDeleteEmployee(e)
      PROVE  WorkTyped'
  <2> DEFINE new == [Start("employees", "delete", "look") EXCEPT !.employee = e]
  <2>0. LET b == Start("employees", "delete", "look")
        IN  b \in OperationType /\ b.kind = "delete" /\ b.stage = "look"
    BY StartTyped DEF Kinds, Stages
  <2>1. new \in OperationType /\ Sound("employees", new)
    BY <2>0 DEF OperationType, Sound
  <2>2. OperationsTyped'
    <3> HIDE DEF new
    <3> QED  BY <1>12, <2>1, <1>t, WaitTyped DEF BeginDeleteEmployee, new
  <2> QED
    BY <1>12, <2>2, <1>t, OthersTyped DEF BeginDeleteEmployee, Constructor, Others, WorkTyped
<1>13. ASSUME NEW e \in Employee, BeginResetPassword(e)
      PROVE  WorkTyped'
  <2> DEFINE new == [Start("employees", "reset", "hash") EXCEPT !.employee = e]
  <2>0. LET b == Start("employees", "reset", "hash")
        IN  b \in OperationType /\ b.kind = "reset" /\ b.stage = "hash"
    BY StartTyped DEF Kinds, Stages
  <2>1. new \in OperationType /\ Sound("employees", new)
    BY <2>0 DEF OperationType, Sound
  <2>2. OperationsTyped'
    <3> HIDE DEF new
    <3> QED  BY <1>13, <2>1, <1>t, WaitTyped DEF BeginResetPassword, new
  <2> QED
    BY <1>13, <2>2, <1>t, OthersTyped DEF BeginResetPassword, Constructor, Others, WorkTyped
<1>14. ASSUME NEW e \in Employee, ToggleElsewhere(e)
       PROVE  WorkTyped'
  BY <1>14, <1>t DEF ToggleElsewhere, WorkTyped, AccessTypeOK, OperationsTyped
<1> QED
  BY <1>1, <1>2, <1>3, <1>4, <1>5, <1>6, <1>7, <1>8, <1>9, <1>10, <1>11, <1>12, <1>13, <1>14
     DEF EmployeesNext

LEMMA DeviceTyped ==
  ASSUME Rotations \in Nat, WorkTyped, DeviceNext
  PROVE  WorkTyped'
<1>t. AccessTypeOK /\ OperationsTyped
  BY DEF WorkTyped
<1>1. UNCHANGED <<employees, passwords, structure, entries, running, behind>>
  BY DEF DeviceNext, Open, Connect, SubmitLogin, Verify, Authenticate, Logout, CloseScreen,
         ConstructorState
<1>2. session' \in Sessions
  <2>1. session \in Sessions
    BY <1>t DEF AccessTypeOK, Sessions
  <2>2. CASE Open
    <3>1. ASSUME Bound PROVE session.workspace \in Workspace
      BY <3>1, <2>1 DEF Bound, Connected, Sessions
    <3>2. NoSession \in Sessions
      BY DEF NoSession, Sessions
    <3> QED
      BY <2>2, <3>1, <3>2, <1>t, AuthorizeTyped DEF Open
  <2>3. ASSUME NEW w \in Workspace, NEW turn, Connect(w, turn)
        PROVE  session' \in Sessions
    BY <2>3, <1>t, AuthorizeTyped DEF Connect
  <2>4. CASE Authenticate
    <3>1. session.listed \in SUBSET Employee
      BY <2>1 DEF Sessions
    <3> QED
      BY <2>1, <2>4, <3>1 DEF Authenticate, Sessions
  <2>5. CASE Logout
    BY <2>1, <2>5 DEF Logout, Sessions
  <2> QED
    BY <2>1, <2>2, <2>3, <2>4, <2>5 DEF DeviceNext, Verify, SubmitLogin, CloseScreen
<1> QED
  BY <1>1, <1>2, <1>t DEF WorkTyped, AccessTypeOK, OperationsTyped, Sessions

LEMMA StepTyped ==
  ASSUME Rotations \in Nat, WorkTyped, [AccessNext]_accessVars
  PROVE  WorkTyped'
<1>t. AccessTypeOK /\ OperationsTyped
  BY DEF WorkTyped
<1>1. CASE CloseConstructor
  <2>1. \A c \in Slot : AtRest \in OperationType /\ Sound(c, AtRest)
    BY DEF AtRest, Kinds, Stages, OperationType, Structures, NoWorkspace, Sound
  <2> QED
    BY <1>1, <2>1, <1>t DEF CloseConstructor, WorkTyped, AccessTypeOK, OperationsTyped
<1>2. ASSUME NEW c \in Slot, SynchronizeLater(c)
      PROVE  WorkTyped'
  <2>1. running[c].structure \in Structures /\ running[c].fresh \in BOOLEAN
    BY <1>t DEF OperationsTyped, OperationType
  <2>2. entries' \in Directories /\ session' \in Sessions
    BY <1>2, <2>1, <1>t, SynchronizeTyped DEF SynchronizeLater
  <2>3. OperationsTyped'
    BY <1>2, <1>t, FinishTyped DEF SynchronizeLater
  <2>4. behind' \in BOOLEAN
    BY <1>2 DEF SynchronizeLater
  <2> QED
    BY <1>2, <2>2, <2>3, <2>4, <1>t DEF SynchronizeLater, WorkTyped, AccessTypeOK, Directories,
       Sessions
<1>3. ASSUME NEW c \in Slot, ChangeEmployee(c)
      PROVE  WorkTyped'
  <2>1. running[c].kind = "update" /\ running[c].employee \in Employee /\ running[c] \in OperationType
    BY <1>3, <1>t DEF ChangeEmployee, After, OperationsTyped, Sound
  <2>2. Sound(c, [running[c] EXCEPT !.stage = "synchronize"])
    BY <2>1 DEF Sound, OperationType
  <2>3. WaitFor(c, "synchronize") => OperationsTyped'
    BY <2>2, <1>t, WaitForTyped DEF Stages
  <2>4. EndOperation(c) => OperationsTyped'
    BY <1>t, FinishTyped
  <2>5. AccessTypeOK'
    BY <1>3, <2>1, <1>t DEF ChangeEmployee, AccessTypeOK
  <2> QED
    BY <1>3, <2>3, <2>4, <2>5 DEF ChangeEmployee, WorkTyped
<1>4. ASSUME NEW c \in Slot, SynchronizeNow(c)
      PROVE  WorkTyped'
  <2>1. structure \in Structures
    BY <1>t DEF AccessTypeOK, Structures
  <2>2. entries' \in Directories /\ session' \in Sessions
    BY <1>4, <2>1, <1>t, SynchronizeTyped DEF SynchronizeNow
  <2>3. OperationsTyped'
    BY <1>4, <1>t, FinishTyped DEF SynchronizeNow
  <2> QED
    BY <1>4, <2>2, <2>3, <1>t DEF SynchronizeNow, WorkTyped, AccessTypeOK, Directories, Sessions
<1>5. CASE UNCHANGED accessVars
  BY <1>5 DEF accessVars, WorkTyped, AccessTypeOK, OperationsTyped
<1> QED
  BY <1>1, <1>2, <1>3, <1>4, <1>5, WorkspacesTyped, EmployeesTyped, DeviceTyped DEF AccessNext

\* Type correctness, whatever the employees and workspaces and however many operations are begun.
THEOREM AccessTyped == AccessSpec => []AccessTypeOK
<1>1. AccessInit => WorkTyped
  BY RotationsAssumption, InitTyped
<1>2. WorkTyped /\ [AccessNext]_accessVars => WorkTyped'
  BY RotationsAssumption, StepTyped
<1>3. WorkTyped => AccessTypeOK
  BY DEF WorkTyped
<1> QED
  BY <1>1, <1>2, <1>3, PTL DEF AccessSpec

-----------------------------------------------------------------------------
(* The code by which a device is connected.                                 *)

LEMMA SynchronizeResolves ==
  ASSUME AccessTypeOK, SessionResolves, NEW s, Synchronize(s)
  PROVE  SessionResolves'
<1> SUFFICES ASSUME Connected' PROVE Resolves(session.workspace, session.turn)'
  BY DEF SessionResolves
<1>1. session.workspace \in Workspace \cup {Nothing}
  BY DEF AccessTypeOK
<1>2. session' = session /\ session.workspace \in Workspace \cap Here(s)
  BY <1>1 DEF Synchronize, Disconnected, NoSession, Connected
<1>3. Resolves(session.workspace, session.turn)
  BY <1>2 DEF SessionResolves, Connected
<1>4. entries'[session.workspace] =
        [entries[session.workspace] EXCEPT !.listed = Entitled(s, session.workspace)]
  BY <1>2, <1>3 DEF Synchronize, Synchronized, Resolves
<1>5. entries[session.workspace] \in [here : BOOLEAN, turn : 0 .. Rotations, listed : SUBSET Employee]
  BY <1>2 DEF AccessTypeOK
<1> QED
  BY <1>2, <1>3, <1>4, <1>5 DEF Resolves

LEMMA AuthorizeResolves ==
  ASSUME AccessTypeOK, NEW w \in Workspace, entries[w].here, Authorize(w), UNCHANGED entries
  PROVE  SessionResolves'
  BY DEF Authorize, SessionResolves, Resolves, AccessTypeOK

LEMMA StepResolves ==
  ASSUME WorkTyped, SessionResolves, [AccessNext]_accessVars
  PROVE  SessionResolves'
<1>t. AccessTypeOK /\ OperationsTyped
  BY DEF WorkTyped
<1>u. UNCHANGED <<entries, session>> => SessionResolves'
  BY DEF SessionResolves, Connected, Resolves
<1>1. CASE IssueCode \/ RotateCode
  <2> DEFINE w == running["workspaces"].workspace
  <2>1. w \in Workspace
    BY <1>1, <1>t DEF IssueCode, RotateCode, Sound, OperationsTyped, Slot
  <2>2. CASE IssueCode
    <3>1. \A x \in Workspace : entries[x].here => entries'[x] = entries[x]
      BY <2>1, <2>2, <1>t DEF IssueCode, Issued, AccessTypeOK
    <3>2. session' = session /\ session.workspace \in Workspace \cup {Nothing}
      BY <2>2, <1>t DEF IssueCode, AccessTypeOK
    <3> QED
      BY <3>1, <3>2 DEF SessionResolves, Connected, Resolves
  <2>3. CASE RotateCode /\ structure[w].here
    <3>1. session' = Disconnected({w})
      BY <2>3 DEF RotateCode
    <3>2. \A x \in Workspace : x # w => entries'[x] = entries[x]
      BY <2>1, <2>3, <1>t DEF RotateCode, Rotated, Issued, AccessTypeOK
    <3>3. session.workspace \in Workspace \cup {Nothing}
      BY <1>t DEF AccessTypeOK
    <3> QED
      BY <3>1, <3>2, <3>3 DEF SessionResolves, Connected, Resolves, Disconnected, NoSession
  <2>4. CASE RotateCode /\ ~structure[w].here
    BY <2>4, <1>u DEF RotateCode
  <2> QED
    BY <1>1, <2>2, <2>3, <2>4
<1>2. CASE WorkspacesNext /\ ~IssueCode /\ ~RotateCode
  <2>1. ASSUME NEW w \in Workspace, DisconnectDevice(w)
        PROVE  SessionResolves'
    BY <2>1 DEF DisconnectDevice, Disconnected, NoSession, SessionResolves, Connected, Resolves
  <2> QED
    BY <1>2, <2>1, <1>u DEF WorkspacesNext, WriteStructure, BeginGenerate, BeginAssign, BeginCode,
       Constructor
<1>3. CASE EmployeesNext \/ CloseConstructor \/ UNCHANGED accessVars \/ \E c \in Slot : ChangeEmployee(c)
  BY <1>3, <1>u DEF EmployeesNext, CreateEmployee, UndoCreate, LookAtStructure, LookForAssignments,
     RemovePassword, RemoveEmployee, ResetPassword, Unassign, BeginCreate, BeginUpdate,
     BeginSetActive, BeginDeleteEmployee, BeginResetPassword, ToggleElsewhere, CloseConstructor,
     ChangeEmployee, Constructor, accessVars
<1>4. CASE DeviceNext
  <2>1. UNCHANGED entries
    BY <1>4 DEF DeviceNext, Open, Connect, SubmitLogin, Verify, Authenticate, Logout, CloseScreen,
         ConstructorState
  <2>2. CASE Open
    <3>1. CASE Bound
      <4>1. session.workspace \in Workspace /\ entries[session.workspace].here
        BY <3>1, <1>t DEF Bound, Connected, Resolves, AccessTypeOK
      <4> QED
        BY <2>1, <2>2, <3>1, <4>1, <1>t, AuthorizeResolves DEF Open
    <3>2. CASE ~Bound
      BY <2>2, <3>2 DEF Open, SessionResolves, Connected, NoSession
    <3> QED
      BY <3>1, <3>2
  <2>3. ASSUME NEW w \in Workspace, NEW turn, Connect(w, turn)
        PROVE  SessionResolves'
    BY <2>1, <2>3, <1>t, AuthorizeResolves DEF Connect, Resolves
  <2>4. CASE Authenticate \/ Logout
    <3>1. session'.workspace = session.workspace /\ session'.turn = session.turn
      BY <2>4, <1>t DEF Authenticate, Logout, AccessTypeOK
    <3> QED
      BY <2>1, <3>1 DEF SessionResolves, Connected, Resolves
  <2> QED
    BY <1>4, <1>u, <2>1, <2>2, <2>3, <2>4 DEF DeviceNext, Verify, SubmitLogin, CloseScreen
<1>5. ASSUME NEW c \in Slot, SynchronizeLater(c) \/ SynchronizeNow(c)
      PROVE  SessionResolves'
  BY <1>5, <1>t, SynchronizeResolves DEF SynchronizeLater, SynchronizeNow
<1> QED
  BY <1>1, <1>2, <1>3, <1>4, <1>5 DEF AccessNext

\* A device is never left connected to a workspace that is gone, or by a code that was changed,
\* however the waits of the constructor's operations and the device's login interleave
\* (synchronizeWorkspaceDirectory, rotateAccessCode, verifyWorkspaceCode, authenticate).
THEOREM DevicesResolve == AccessSpec => []SessionResolves
<1>1. AccessInit => WorkTyped /\ SessionResolves
  <2>1. AccessInit => session = NoSession
    BY DEF AccessInit
  <2>2. NoSession.workspace = Nothing
    BY DEF NoSession
  <2> QED
    BY <2>1, <2>2, RotationsAssumption, InitTyped DEF SessionResolves, Connected
<1>2. WorkTyped /\ SessionResolves /\ [AccessNext]_accessVars => WorkTyped' /\ SessionResolves'
  BY RotationsAssumption, StepTyped, StepResolves
<1> QED
  BY <1>1, <1>2, PTL DEF AccessSpec

-----------------------------------------------------------------------------
(* The directory follows the project.                                       *)

Existing == {e \in Employee : Exists(e)}

\* Nobody is assigned to a workspace who is nobody yet.
NobodyAbsent(s) == \A w \in Workspace : \A e \in s[w].assigned : employees[e] # "absent"

\* The workspaces of s are there, with the same of these employees.
Matches(s, t, es) ==
  \A w \in Workspace : s[w].here =>
    t[w].here /\ \A e \in es : e \in s[w].assigned <=> e \in t[w].assigned

\* The directory is what the project says.
InStep ==
  \A w \in Workspace : entries[w].here =>
    structure[w].here /\ entries[w].listed = Entitled(structure, w)

Lists(c) == running[c].stage = "list"

\* What a list was read of is still so, or it is waited for by what changed it since.
Overtaken(c) ==
  \/ Matches(running[c].structure, structure, Existing)
  \/ /\ running["employees"].stage = "unassign" /\ c \in running["employees"].ahead
     /\ Matches(running[c].structure, structure, Existing \ {running["employees"].employee})
  \/ c = "form" /\ c \in running["workspaces"].ahead /\ Lists("workspaces")

\* The operation has yet to synchronize, with the project as it is then.
Catches(c) ==
  \/ running[c].stage = "synchronize"
  \/ Lists(c) /\ Matches(running[c].structure, structure, Existing)
  \/ c = "employees" /\ running[c].stage \in {"unassign", "remove"} /\ Exists(running[c].employee)

\* Every list that was read: what is on it, and what came after it.
ListsInv == \A c \in Slot : Lists(c) => NobodyAbsent(running[c].structure) /\ Overtaken(c)
\* An employee who is about to be created is nobody yet.
NewcomerAbsent == running["form"].stage = "create" => employees[running["form"].employee] = "absent"

\* The directory is in step, or will be: it waits for the next synchronization, or one comes.
CaughtUp == behind \/ InStep \/ \E c \in Slot : Catches(c)

\* The inductive invariant of DirectoryInStep.
StepInv == NobodyAbsent(structure) /\ ListsInv /\ NewcomerAbsent /\ CaughtUp

\* What no step does: it brings nobody back, and nobody to be who was not yet.
Aging ==
  \A e \in Employee :
    /\ Exists(e)' => Exists(e) \/ employees[e] = "absent"
    /\ employees'[e] = "absent" => employees[e] = "absent"

\* A step of c leaves to the other operations what they have in hand.
Moves(c) ==
  \A d \in Slot \ {c} :
    /\ running'[d].stage = running[d].stage /\ running'[d].employee = running[d].employee
    /\ running'[d].structure = running[d].structure
    /\ \A x \in Slot \ {c} : x \in running'[d].ahead <=> x \in running[d].ahead

LEMMA MatchesKept ==
  ASSUME NEW s \in Structures, NEW t \in Structures, NEW X, Aging,
         NobodyAbsent(s), NobodyAbsent(t), Matches(s, t, Existing \ X)
  PROVE  Matches(s, t, Existing' \ X)
<1> SUFFICES ASSUME NEW w \in Workspace, s[w].here, NEW e \in Existing' \ X
             PROVE  t[w].here /\ (e \in s[w].assigned <=> e \in t[w].assigned)
  BY DEF Matches
<1>1. e \in Employee /\ (Exists(e) \/ employees[e] = "absent")
  BY DEF Existing, Aging
<1>2. t[w].here
  BY DEF Matches
<1>3. CASE Exists(e)
  BY <1>1, <1>2, <1>3 DEF Matches, Existing
<1>4. CASE employees[e] = "absent"
  BY <1>2, <1>4 DEF NobodyAbsent
<1> QED
  BY <1>1, <1>3, <1>4

LEMMA MatchesAllKept ==
  ASSUME NEW s \in Structures, NEW t \in Structures, Aging,
         NobodyAbsent(s), NobodyAbsent(t), Matches(s, t, Existing)
  PROVE  Matches(s, t, Existing')
<1>1. Existing \ {} = Existing /\ Existing' \ {} = Existing'
  OBVIOUS
<1> QED
  BY <1>1, MatchesKept

LEMMA AbsentKept ==
  ASSUME NEW s \in Structures, Aging, NobodyAbsent(s)
  PROVE  NobodyAbsent(s)'
  BY DEF Structures, Aging, NobodyAbsent

\* Lists stay overtaken at most by what waits for them.
LEMMA ListsKept ==
  ASSUME WorkTyped, StepInv, Aging, UNCHANGED structure, NEW c, Moves(c),
         c \in Slot => running[c].ahead = {},
         NEW d \in Slot, d # c, Lists(d)'
  PROVE  NobodyAbsent(running[d].structure)' /\ Overtaken(d)'
<1>1. Lists(d) /\ running'[d].structure = running[d].structure
  BY DEF Moves, Lists
<1>2. running[d].structure \in Structures /\ structure \in Structures
  BY DEF WorkTyped, OperationsTyped, OperationType, AccessTypeOK, Structures
<1>3. NobodyAbsent(running[d].structure) /\ NobodyAbsent(structure) /\ Overtaken(d)
  BY <1>1 DEF StepInv, ListsInv
<1>4. NobodyAbsent(running[d].structure)'
  BY <1>1, <1>2, <1>3, AbsentKept DEF NobodyAbsent
<1>5. CASE Matches(running[d].structure, structure, Existing)
  <2>1. Matches(running[d].structure, structure, Existing')
    BY <1>2, <1>3, <1>5, MatchesAllKept
  <2> QED
    BY <1>1, <1>4, <2>1 DEF Overtaken
<1>6. CASE /\ running["employees"].stage = "unassign" /\ d \in running["employees"].ahead
           /\ Matches(running[d].structure, structure, Existing \ {running["employees"].employee})
  <2>1. "employees" \in Slot \ {c}
    BY <1>6 DEF Slot
  <2>2. /\ running'["employees"].stage = "unassign" /\ running'["employees"].employee = running["employees"].employee
        /\ d \in running'["employees"].ahead
    BY <1>6, <2>1 DEF Moves
  <2>3. Matches(running[d].structure, structure, Existing' \ {running["employees"].employee})
    BY <1>2, <1>3, <1>6, MatchesKept
  <2> QED
    BY <1>1, <1>4, <2>2, <2>3 DEF Overtaken
<1>7. CASE d = "form" /\ d \in running["workspaces"].ahead /\ Lists("workspaces")
  <2>1. "workspaces" \in Slot \ {c}
    BY <1>7 DEF Slot
  <2>2. d \in running'["workspaces"].ahead /\ running'["workspaces"].stage = running["workspaces"].stage
    BY <2>1, <1>7 DEF Moves
  <2> QED
    BY <1>4, <1>7, <2>2 DEF Overtaken, Lists
<1> QED
  BY <1>3, <1>5, <1>6, <1>7 DEF Overtaken

LEMMA CatchesKept ==
  ASSUME WorkTyped, StepInv, Aging, UNCHANGED structure, NEW c, Moves(c),
         NEW d \in Slot, d # c, Catches(d),
         d = "employees" => \A e \in Employee : Exists(e) => Exists(e)'
  PROVE  Catches(d)'
<1>1. running'[d].stage = running[d].stage /\ running'[d].employee = running[d].employee /\ running'[d].structure = running[d].structure
  BY DEF Moves
<1>2. CASE Lists(d) /\ Matches(running[d].structure, structure, Existing)
  <2>1. running[d].structure \in Structures /\ structure \in Structures
    BY DEF WorkTyped, OperationsTyped, OperationType, AccessTypeOK, Structures
  <2>2. NobodyAbsent(running[d].structure) /\ NobodyAbsent(structure)
    BY <1>2 DEF StepInv, ListsInv
  <2>3. Matches(running[d].structure, structure, Existing')
    BY <1>2, <2>1, <2>2, MatchesAllKept
  <2> QED
    BY <1>1, <1>2, <2>3 DEF Catches, Lists
<1>3. CASE running[d].stage = "synchronize"
  BY <1>1, <1>3 DEF Catches
<1>4. CASE d = "employees" /\ running[d].stage \in {"unassign", "remove"} /\ Exists(running[d].employee)
  <2>1. running[d].employee \in Employee
    BY <1>4 DEF WorkTyped, OperationsTyped, Sound
  <2>2. Exists(running[d].employee)'
    BY <1>1, <1>4, <2>1 DEF Exists
  <2> QED
    BY <1>1, <1>4, <2>2 DEF Catches
<1> QED
  BY <1>2, <1>3, <1>4 DEF Catches

LEMMA WaitMoves ==
  ASSUME OperationsTyped, NEW c \in Slot, NEW new \in OperationType, WaitAs(c, new)
  PROVE  /\ Moves(c)
         /\ running'[c] = [new EXCEPT !.ahead = AheadOf(c)]
         /\ running'[c].stage = new.stage /\ running'[c].employee = new.employee
         /\ running'[c].structure = new.structure /\ running'[c].ahead = AheadOf(c)
<1>1. running' = [running EXCEPT ![c] = [new EXCEPT !.ahead = AheadOf(c)]]
  BY DEF WaitAs
<1>2. running'[c] = [new EXCEPT !.ahead = AheadOf(c)] /\ \A d \in Slot \ {c} : running'[d] = running[d]
  BY <1>1 DEF OperationsTyped
<1> QED
  BY <1>2 DEF Moves, OperationType

LEMMA FinishMoves ==
  ASSUME OperationsTyped, NEW c \in Slot, EndOperation(c)
  PROVE  Moves(c) /\ running'[c] = AtRest
<1>1. \A d \in Slot \ {c} : running'[d] = [running[d] EXCEPT !.ahead = @ \ {c}] /\ running[d] \in OperationType
  BY DEF EndOperation, OperationsTyped
<1> QED
  BY <1>1 DEF Moves, EndOperation, OperationType

LEMMA CaughtUpKept ==
  ASSUME WorkTyped, StepInv, Aging, UNCHANGED structure, NEW c, Moves(c),
         InStep => InStep', behind => behind', c \in Slot /\ Catches(c) => Catches(c)',
         c = "employees" \/ \A e \in Employee : Exists(e) => Exists(e)'
  PROVE  CaughtUp'
<1>1. CASE behind \/ InStep
  BY <1>1 DEF CaughtUp
<1>2. ASSUME NEW d \in Slot, Catches(d)
      PROVE  CaughtUp'
  <2>1. CASE d = c
    BY <1>2, <2>1 DEF CaughtUp
  <2>2. CASE d # c
    <3>2. Catches(d)'
      BY <1>2, <2>2, CatchesKept
    <3> QED
      BY <3>2 DEF CaughtUp
  <2> QED
    BY <2>1, <2>2
<1> QED
  BY <1>1, <1>2 DEF StepInv, CaughtUp

LEMMA StepKeeps ==
  ASSUME WorkTyped, StepInv, Aging, UNCHANGED structure, NEW c, Moves(c),
         c \in Slot => running[c].ahead = {} /\ running'[c].stage # "list",
         NewcomerAbsent', CaughtUp'
  PROVE  StepInv'
<1>1. ListsInv'
  <2> SUFFICES ASSUME NEW d \in Slot, Lists(d)'
               PROVE  NobodyAbsent(running[d].structure)' /\ Overtaken(d)'
    BY DEF ListsInv
  <2>1. d # c
    BY DEF Lists
  <2> QED
    BY <2>1, ListsKept
<1>2. NobodyAbsent(structure)'
  BY AbsentKept DEF StepInv, WorkTyped, AccessTypeOK, Structures, NobodyAbsent
<1> QED
  BY <1>1, <1>2 DEF StepInv

LEMMA NobodyAges ==
  ASSUME UNCHANGED employees
  PROVE  Aging /\ \A e : Exists(e) <=> Exists(e)'
  BY DEF Aging, Exists

\* An operation that goes on and leaves the project and the directory alone.
LEMMA WaitKeeps ==
  ASSUME WorkTyped, StepInv, NEW c \in Slot, NEW new \in OperationType, WaitAs(c, new),
         running[c].ahead = {}, UNCHANGED <<employees, structure, entries, behind>>,
         new.stage # "list",
         new.stage = "create" => employees[new.employee] = "absent",
         Catches(c) => c = "employees" /\ new.stage \in {"unassign", "remove"} /\ Exists(new.employee)
  PROVE  StepInv'
<1>1. /\ Moves(c) /\ running'[c].stage = new.stage /\ running'[c].employee = new.employee
  BY WaitMoves DEF WorkTyped
<1>2. Aging /\ \A e : Exists(e) <=> Exists(e)'
  BY NobodyAges
<1>3. InStep' = InStep
  BY DEF InStep, Entitled
<1>4. Catches(c) => Catches(c)'
  BY <1>1, <1>2 DEF Catches, Exists
<1>5. CaughtUp'
  BY <1>1, <1>2, <1>3, <1>4, CaughtUpKept
<1>6. NewcomerAbsent'
  BY <1>1 DEF StepInv, NewcomerAbsent, Moves, Slot
<1> QED
  BY <1>1, <1>2, <1>5, <1>6, StepKeeps

LEMMA IdleAhead == AtRest.ahead = {} /\ AtRest.stage = "none"
  BY DEF AtRest

LEMMA FreeKeeps ==
  ASSUME WorkTyped, StepInv, NEW c \in Slot, NEW new \in OperationType, WaitAs(c, new), Free(c),
         UNCHANGED Constructor,
         new.stage \in {"write", "look", "create", "change", "hash"},
         new.stage = "create" => employees[new.employee] = "absent"
  PROVE  StepInv'
<1>1. running[c].ahead = {} /\ running[c].stage = "none"
  BY IdleAhead DEF Free
<1>2. ~Catches(c)
  BY <1>1 DEF Catches, Lists
<1> QED
  BY <1>1, <1>2, WaitKeeps DEF Constructor

\* One that ends and was not going to synchronize.
LEMMA FinishKeeps ==
  ASSUME WorkTyped, StepInv, NEW c \in Slot, EndOperation(c), running[c].ahead = {}, ~Catches(c),
         UNCHANGED <<employees, structure>>, InStep => InStep', behind => behind'
  PROVE  StepInv'
<1>1. /\ Moves(c) /\ running'[c].stage = "none"
  BY FinishMoves, IdleAhead DEF WorkTyped
<1>2. Aging /\ \A e : Exists(e) <=> Exists(e)'
  BY NobodyAges
<1>5. CaughtUp'
  BY <1>1, <1>2, CaughtUpKept
<1>6. NewcomerAbsent'
  BY <1>1 DEF StepInv, NewcomerAbsent, Moves, Slot
<1> QED
  BY <1>1, <1>2, <1>5, <1>6, StepKeeps

LEMMA SynchronizedInStep ==
  ASSUME WorkTyped, NEW s \in Structures, Synchronize(s), UNCHANGED <<employees, structure>>,
         Matches(s, structure, Existing)
  PROVE  InStep'
<1> SUFFICES ASSUME NEW w \in Workspace, entries'[w].here
             PROVE  structure[w].here /\ entries'[w].listed = Entitled(structure, w)
  BY DEF InStep, Entitled
<1>1. entries[w] \in [here : BOOLEAN, turn : 0 .. Rotations, listed : SUBSET Employee]
  BY DEF WorkTyped, AccessTypeOK
<1>2. w \in Here(s) /\ entries'[w] = [entries[w] EXCEPT !.listed = Entitled(s, w)]
  BY DEF Synchronize, Synchronized, NoEntry
<1>3. structure[w].here /\ \A e \in Existing : e \in s[w].assigned <=> e \in structure[w].assigned
  BY <1>2 DEF Here, Matches
<1>4. Entitled(s, w) = Entitled(structure, w)
  BY <1>3 DEF Entitled, Existing, Exists, WorkTyped, AccessTypeOK, Structures
<1> QED
  BY <1>1, <1>2, <1>3, <1>4

LEMMA SynchronizeLaterKeeps ==
  ASSUME WorkTyped, StepInv, NEW c \in Slot, SynchronizeLater(c)
  PROVE  StepInv'
<1>1. Lists(c) /\ running[c].ahead = {} /\ Overtaken(c)
  BY DEF SynchronizeLater, After, Lists, StepInv, ListsInv
<1>2. Moves(c) /\ running'[c].stage = "none"
  BY FinishMoves, IdleAhead DEF SynchronizeLater, WorkTyped
<1>3. UNCHANGED <<employees, structure>>
  BY DEF SynchronizeLater
<1>4. Aging /\ \A e : Exists(e) <=> Exists(e)'
  BY <1>3, NobodyAges
<1>5. ASSUME NEW d \in Slot, d # c, Catches(d) PROVE CaughtUp'
  <2>1. Catches(d)'
    BY <1>2, <1>3, <1>4, <1>5, CatchesKept DEF Moves
  <2> QED
    BY <2>1 DEF CaughtUp
<1>e. ASSUME NEW d \in Slot, running["employees"].stage = "unassign",
             ~Matches(running[d].structure, structure, Existing),
             Matches(running[d].structure, structure, Existing \ {running["employees"].employee})
      PROVE  Catches("employees")
  <2>1. running["employees"].employee \in Existing
    <3>1. running["employees"].employee \notin Existing =>
            Existing \ {running["employees"].employee} = Existing
      OBVIOUS
    <3> QED
      BY <1>e, <3>1
  <2> QED
    BY <1>e, <2>1 DEF Catches, Existing
<1>6. CaughtUp'
  <2>1. CASE Matches(running[c].structure, structure, Existing)
    <3>0. running[c].structure \in Structures
      BY DEF WorkTyped, OperationsTyped, OperationType
    <3>1. InStep'
      BY <1>3, <2>1, <3>0, SynchronizedInStep DEF SynchronizeLater
    <3> QED
      BY <3>1 DEF CaughtUp
  <2>2. CASE ~Matches(running[c].structure, structure, Existing)
             /\ running["employees"].stage = "unassign" /\ c \in running["employees"].ahead
             /\ Matches(running[c].structure, structure, Existing \ {running["employees"].employee})
    <3>1. "employees" # c /\ "employees" \in Slot
      BY <1>1, <2>2 DEF Slot
    <3> QED
      BY <1>5, <1>e, <2>2, <3>1
  <2>3. CASE c = "form" /\ c \in running["workspaces"].ahead /\ Lists("workspaces")
    <3>1. "workspaces" # c /\ "workspaces" \in Slot /\ "employees" # c /\ "employees" \in Slot
      BY <2>3 DEF Slot
    <3>2. Overtaken("workspaces")
      BY <2>3, <3>1 DEF StepInv, ListsInv
    <3>3. CASE Matches(running["workspaces"].structure, structure, Existing)
      BY <1>5, <2>3, <3>1, <3>3 DEF Catches
    <3>4. CASE ~Matches(running["workspaces"].structure, structure, Existing)
      BY <1>5, <1>e, <3>1, <3>2, <3>4 DEF Overtaken
    <3> QED
      BY <3>3, <3>4
  <2> QED
    BY <1>1, <2>1, <2>2, <2>3 DEF Overtaken
<1>7. NewcomerAbsent'
  BY <1>2, <1>3 DEF StepInv, NewcomerAbsent, Moves, Slot
<1> QED
  BY <1>1, <1>2, <1>3, <1>4, <1>6, <1>7, StepKeeps

LEMMA SynchronizeNowKeeps ==
  ASSUME WorkTyped, StepInv, NEW c \in Slot, SynchronizeNow(c)
  PROVE  StepInv'
<1>1. Moves(c) /\ running'[c].stage = "none" /\ running[c].ahead = {}
  BY FinishMoves, IdleAhead DEF SynchronizeNow, WorkTyped, After
<1>2. UNCHANGED <<employees, structure>>
  BY DEF SynchronizeNow
<1>3. Aging
  BY <1>2, NobodyAges
<1>4. Matches(structure, structure, Existing)
  BY DEF Matches
<1>s. structure \in Structures
  BY DEF WorkTyped, AccessTypeOK, Structures
<1>5. CaughtUp'
  BY <1>2, <1>4, <1>s, SynchronizedInStep DEF SynchronizeNow, CaughtUp
<1>6. NewcomerAbsent'
  BY <1>1, <1>2 DEF StepInv, NewcomerAbsent, Moves, Slot
<1> QED
  BY <1>1, <1>2, <1>3, <1>5, <1>6, StepKeeps

LEMMA GeneratedNobody ==
  ASSUME AccessTypeOK, NobodyAbsent(structure), NEW modules \in SUBSET Workspace
  PROVE  NobodyAbsent(Generated(modules))
  BY DEF NobodyAbsent, Generated, NoWorkspace

LEMMA AssignedNobody ==
  ASSUME AccessTypeOK, NobodyAbsent(structure), NEW v \in Workspace, NEW e \in Employee, Exists(e),
         NEW given \in BOOLEAN
  PROVE  NobodyAbsent(Assigned(v, e, given))
<1> SUFFICES ASSUME NEW w \in Workspace, NEW f \in Assigned(v, e, given)[w].assigned
             PROVE  employees[f] # "absent"
  BY DEF NobodyAbsent
<1>1. employees[e] # "absent"
  BY DEF Exists
<1>2. f \in structure[w].assigned \/ f = e
  BY DEF Assigned, AccessTypeOK
<1> QED
  BY <1>1, <1>2 DEF NobodyAbsent

LEMMA WriteStructureKeeps ==
  ASSUME WorkTyped, StepInv, WriteStructure
  PROVE  StepInv'
<1> USE DEF Slot
<1> DEFINE o == running["workspaces"]
           new == IF o.kind = "generate" THEN Generated(o.chosen)
                  ELSE Assigned(o.workspace, o.employee, o.given)
           listing == [o EXCEPT !.stage = "list", !.structure = new, !.fresh = TRUE]
<1>t. AccessTypeOK /\ OperationsTyped /\ o \in OperationType /\ Sound("workspaces", o)
  BY DEF WorkTyped, OperationsTyped
<1>1. /\ o.stage = "write" /\ o.ahead = {} /\ o.kind \in {"generate", "assign"}
      /\ UNCHANGED <<employees, entries, behind>>
  BY <1>t DEF WriteStructure, After, Sound
<1>2. ~Catches("workspaces")
  BY <1>1 DEF Catches, Lists
<1>3. CASE EndOperation("workspaces") /\ UNCHANGED structure
  <2>1. InStep => InStep'
    BY <1>1, <1>3 DEF InStep, Entitled
  <2> QED
    BY <1>1, <1>2, <1>3, <2>1, FinishKeeps
<1>4. CASE /\ ~(o.kind = "assign" /\ ~(structure[o.workspace].here /\ Exists(o.employee)))
           /\ structure' = new /\ WaitAs("workspaces", listing)
  <2>1. new \in Structures /\ NobodyAbsent(new)
    <3>1. o.chosen \in SUBSET Workspace /\ o.given \in BOOLEAN
      BY <1>t DEF OperationType
    <3>2. NobodyAbsent(structure)
      BY DEF StepInv
    <3>3. CASE o.kind = "generate"
      BY <3>1, <3>2, <3>3, <1>t, GeneratedTyped, GeneratedNobody
    <3>4. CASE o.kind = "assign"
      <4>1. o.workspace \in Workspace /\ o.employee \in Employee /\ Exists(o.employee)
        BY <1>4, <3>4, <1>t DEF Sound
      <4>2. new = Assigned(o.workspace, o.employee, o.given)
        BY <3>4
      <4> QED
        BY <3>1, <3>2, <4>1, <4>2, <1>t, AssignedTyped, AssignedNobody
    <3> QED
      BY <1>1, <3>3, <3>4
  <2>2. listing \in OperationType
    BY <2>1, <1>t DEF OperationType, Stages
  <2>3. listing.stage = "list" /\ listing.structure = new
    BY <1>t DEF OperationType
  <2> HIDE DEF listing, new
  <2>4. /\ Moves("workspaces") /\ running'["workspaces"].stage = "list"
        /\ running'["workspaces"].structure = new
        /\ running'["workspaces"].ahead = AheadOf("workspaces")
    BY <1>4, <2>2, <2>3, <1>t, WaitMoves
  <2>5. Matches(new, new, Existing')
    BY DEF Matches
  <2>6. Catches("workspaces")' /\ Overtaken("workspaces")'
    BY <1>4, <2>4, <2>5 DEF Catches, Overtaken, Lists
  <2>7. \A w \in Workspace : \A e \in new[w].assigned : employees'[e] # "absent"
    BY <1>1, <2>1 DEF NobodyAbsent
  <2>8. ASSUME NEW d \in Slot, Lists(d)'
        PROVE  NobodyAbsent(running[d].structure)' /\ Overtaken(d)'
    <3>1. CASE d = "workspaces"
      <4>1. NobodyAbsent(running[d].structure)'
        BY <2>4, <2>7, <3>1 DEF NobodyAbsent
      <4> QED
        BY <2>6, <3>1, <4>1
    <3>2. CASE d # "workspaces"
      <4>1. Lists(d) /\ running'[d].structure = running[d].structure
        BY <2>4, <2>8, <3>2 DEF Moves, Lists
      <4>2. d = "form"
        BY <4>1, <3>2, <1>t DEF Lists, OperationsTyped, Sound
      <4>3. d \in AheadOf("workspaces")
        BY <4>1, <4>2 DEF AheadOf, Lists
      <4>4. Overtaken(d)'
        BY <2>4, <4>2, <4>3 DEF Overtaken, Lists
      <4>5. NobodyAbsent(running[d].structure)
        BY <4>1 DEF StepInv, ListsInv
      <4> QED
        BY <1>1, <4>1, <4>4, <4>5 DEF NobodyAbsent
    <3> QED
      BY <3>1, <3>2
  <2>9. NobodyAbsent(structure)'
    BY <1>4, <2>7 DEF NobodyAbsent
  <2>10. NewcomerAbsent'
    BY <1>1, <2>4 DEF StepInv, NewcomerAbsent, Moves
  <2> QED
    BY <2>6, <2>8, <2>9, <2>10 DEF StepInv, ListsInv, CaughtUp
<1> QED
  BY <1>3, <1>4 DEF WriteStructure

LEMMA CodesKeep ==
  ASSUME WorkTyped, StepInv, IssueCode \/ RotateCode
  PROVE  StepInv'
<1> USE DEF Slot
<1> DEFINE w == running["workspaces"].workspace
<1>t. AccessTypeOK /\ OperationsTyped
  BY DEF WorkTyped
<1>1. w \in Workspace /\ running["workspaces"].stage = "look" /\ running["workspaces"].ahead = {}
  BY <1>t DEF IssueCode, RotateCode, After, Sound, OperationsTyped
<1>2. EndOperation("workspaces") /\ UNCHANGED <<employees, structure, behind>>
  BY DEF IssueCode, RotateCode
<1>3. ~Catches("workspaces")
  BY <1>1 DEF Catches, Lists
<1>4. \A x \in Workspace : entries'[x].here =>
        \/ entries'[x] = entries[x]
        \/ structure[x].here /\ entries'[x].listed = Entitled(structure, x)
  <2>1. UNCHANGED entries \/ (structure[w].here /\ entries' \in {Issued(w), Rotated(w)})
    BY DEF IssueCode, RotateCode
  <2>2. \A x \in Workspace \ {w} : Issued(w)[x] = entries[x] /\ Rotated(w)[x] = entries[x]
    BY <1>t DEF Issued, Rotated, AccessTypeOK
  <2>3. Issued(w)[w] = entries[w] \/ Issued(w)[w].listed = Entitled(structure, w)
    BY <1>1, <1>t DEF Issued, AccessTypeOK
  <2>4. Rotated(w)[w] = entries[w] \/ Rotated(w)[w].listed = Entitled(structure, w)
    BY <1>1, <2>3, <1>t DEF Rotated, AccessTypeOK
  <2> HIDE DEF w
  <2> QED
    BY <2>1, <2>2, <2>3, <2>4
<1>5. InStep => InStep'
  BY <1>2, <1>4 DEF InStep, Entitled
<1> QED
  BY <1>1, <1>2, <1>3, <1>5, FinishKeeps

LEMMA UnassignKeeps ==
  ASSUME WorkTyped, StepInv, NEW w \in Workspace, Unassign(w)
  PROVE  StepInv'
<1> USE DEF Slot
<1> DEFINE o == running["employees"]
           rest == [o EXCEPT !.chosen = @ \ {w}]
           without == Assigned(w, o.employee, FALSE)
<1>t. AccessTypeOK /\ OperationsTyped /\ o \in OperationType /\ Sound("employees", o)
  BY DEF WorkTyped, OperationsTyped
<1>1. o.stage = "unassign" /\ o.ahead = {} /\ o.employee \in Employee /\ UNCHANGED <<employees, entries>>
  BY <1>t DEF Unassign, After, Sound
<1>2. CASE /\ structure[w].here /\ Exists(o.employee)
           /\ structure' = without /\ WaitAs("employees", rest) /\ UNCHANGED behind
  <2>1. rest \in OperationType /\ rest.stage = "unassign" /\ rest.employee = o.employee
    BY <1>1, <1>t DEF OperationType
  <2>2. without \in Structures /\ NobodyAbsent(without)
    BY <1>1, <1>2, <1>t, AssignedTyped, AssignedNobody DEF StepInv
  <2>3. \A x \in Workspace :
          /\ without[x].here = structure[x].here
          /\ \A e \in Employee \ {o.employee} : e \in without[x].assigned <=> e \in structure[x].assigned
    BY <1>t DEF Assigned, AccessTypeOK
  <2> HIDE DEF rest, without
  <2>4. /\ Moves("employees") /\ running'["employees"].stage = "unassign"
        /\ running'["employees"].employee = o.employee
        /\ running'["employees"].ahead = AheadOf("employees")
    BY <1>2, <2>1, <1>t, WaitMoves
  <2>5. Existing' = Existing
    BY <1>1 DEF Existing, Exists
  <2>6. CaughtUp'
    <3>1. Exists(running["employees"].employee)'
      BY <1>1, <1>2, <2>4 DEF Exists
    <3> QED
      BY <2>4, <3>1 DEF CaughtUp, Catches
  <2>7. ASSUME NEW d \in Slot, Lists(d)'
        PROVE  NobodyAbsent(running[d].structure)' /\ Overtaken(d)'
    <3>1. d # "employees"
      BY <2>4, <2>7 DEF Lists
    <3>2. Lists(d) /\ running'[d].structure = running[d].structure
      BY <2>4, <2>7, <3>1 DEF Moves, Lists
    <3>3. NobodyAbsent(running[d].structure) /\ Overtaken(d)
      BY <3>2 DEF StepInv, ListsInv
    <3>4. NobodyAbsent(running[d].structure)'
      BY <1>1, <3>2, <3>3 DEF NobodyAbsent
    <3>5. CASE Matches(running[d].structure, structure, Existing)
      <4>1. Matches(running[d].structure, without, Existing \ {o.employee})
        BY <2>3, <3>5 DEF Matches, Existing
      <4>2. d \in AheadOf("employees")
        BY <3>1, <3>2 DEF AheadOf, Lists
      <4> QED
        BY <1>2, <2>4, <2>5, <3>2, <3>4, <4>1, <4>2 DEF Overtaken
    <3>6. CASE d = "form" /\ d \in running["workspaces"].ahead /\ Lists("workspaces")
      <4>1. d \in running'["workspaces"].ahead /\ running'["workspaces"].stage = running["workspaces"].stage
        BY <2>4, <3>6 DEF Moves
      <4> QED
        BY <3>4, <3>6, <4>1 DEF Overtaken, Lists
    <3> QED
      BY <1>1, <3>3, <3>5, <3>6 DEF Overtaken
  <2>8. NobodyAbsent(structure)'
    BY <1>1, <1>2, <2>2 DEF NobodyAbsent
  <2>9. NewcomerAbsent'
    BY <1>1, <2>4 DEF StepInv, NewcomerAbsent, Moves
  <2> QED
    BY <2>6, <2>7, <2>8, <2>9 DEF StepInv, ListsInv
<1>3. CASE /\ running' = [d \in Slot |-> IF d = "employees" THEN AtRest ELSE [running[d] EXCEPT !.fresh = FALSE]]
           /\ behind' = TRUE /\ UNCHANGED structure
  <2>1. Moves("employees") /\ running'["employees"].stage = "none"
    <3>1. \A d \in Slot : running[d] \in OperationType
      BY <1>t DEF OperationsTyped
    <3> QED
      BY <1>3, <3>1, IdleAhead DEF Moves, OperationType
  <2>2. Aging
    BY <1>1, NobodyAges
  <2>3. CaughtUp'
    BY <1>3 DEF CaughtUp
  <2>4. NewcomerAbsent'
    BY <1>1, <2>1 DEF StepInv, NewcomerAbsent, Moves
  <2> QED
    BY <1>1, <1>3, <2>1, <2>2, <2>3, <2>4, StepKeeps
<1> QED
  BY <1>2, <1>3 DEF Unassign

LEMMA WorkspacesKeep ==
  ASSUME WorkTyped, StepInv, WorkspacesNext
  PROVE  StepInv'
<1> USE DEF Slot
<1>1. ASSUME NEW modules \in SUBSET Workspace, BeginGenerate(modules)
      PROVE  StepInv'
  <2> DEFINE new == [Start("workspaces", "generate", "write") EXCEPT !.chosen = modules]
  <2>0. LET b == Start("workspaces", "generate", "write")
        IN  b \in OperationType /\ b.kind = "generate" /\ b.stage = "write"
    BY StartTyped DEF Kinds, Stages
  <2>1. new \in OperationType /\ new.stage = "write"
    BY <2>0 DEF OperationType
  <2> HIDE DEF new
  <2> QED
    BY <1>1, <2>1, FreeKeeps DEF BeginGenerate, new
<1>2. ASSUME NEW w \in Workspace, NEW e \in Employee, NEW given \in BOOLEAN, BeginAssign(w, e, given)
      PROVE  StepInv'
  <2> DEFINE new == [Start("workspaces", "assign", "write") EXCEPT
                             !.workspace = w, !.employee = e, !.given = given]
  <2>0. LET b == Start("workspaces", "assign", "write")
        IN  b \in OperationType /\ b.kind = "assign" /\ b.stage = "write"
    BY StartTyped DEF Kinds, Stages
  <2>1. new \in OperationType /\ new.stage = "write"
    BY <2>0 DEF OperationType
  <2> HIDE DEF new
  <2> QED
    BY <1>2, <2>1, FreeKeeps DEF BeginAssign, new
<1>3. ASSUME NEW w \in Workspace, NEW kind \in {"issue", "rotate"}, BeginCode(kind, w)
      PROVE  StepInv'
  <2> DEFINE new == [Start("workspaces", kind, "look") EXCEPT !.workspace = w]
  <2>0. LET b == Start("workspaces", kind, "look")
        IN  b \in OperationType /\ b.kind = kind /\ b.stage = "look"
    BY StartTyped DEF Kinds, Stages
  <2>1. new \in OperationType /\ new.stage = "look"
    BY <2>0 DEF OperationType
  <2> HIDE DEF new
  <2> QED
    BY <1>3, <2>1, FreeKeeps DEF BeginCode, new
<1>4. ASSUME NEW w \in Workspace, DisconnectDevice(w)
      PROVE  StepInv'
  BY <1>4 DEF DisconnectDevice, StepInv, NobodyAbsent, ListsInv, Overtaken, Lists, NewcomerAbsent,
     CaughtUp,
              InStep, Catches, Existing, Exists, Entitled
<1>5. \A w \in Workspace : BeginCode("issue", w) \/ BeginCode("rotate", w) => StepInv'
  BY <1>3
<1> QED
  BY <1>1, <1>2, <1>4, <1>5, WriteStructureKeeps, CodesKeep DEF WorkspacesNext

LEMMA NewcomersKeep ==
  ASSUME WorkTyped, StepInv, CreateEmployee \/ UndoCreate \/ LookAtStructure
  PROVE  StepInv'
<1> USE DEF Slot
<1> DEFINE o == running["form"]
<1>t. AccessTypeOK /\ OperationsTyped /\ o \in OperationType /\ Sound("form", o)
  BY DEF WorkTyped, OperationsTyped
<1>1. CASE CreateEmployee
  <2>1. /\ o.employee \in Employee /\ employees[o.employee] = "absent" /\ o.ahead = {}
        /\ o.stage = "create" /\ UNCHANGED <<structure, entries, behind>>
        /\ employees' = [employees EXCEPT ![o.employee] = "active"]
    BY <1>1, <1>t DEF CreateEmployee, After, StepInv, NewcomerAbsent, Sound
  <2>2. PICK stage \in {"look", "undo"} : WaitFor("form", stage)
    BY <1>1 DEF CreateEmployee
  <2> DEFINE new == [o EXCEPT !.stage = stage]
  <2>3. new \in OperationType /\ new.stage = stage
    BY <1>t DEF OperationType, Stages
  <2>4. Moves("form") /\ running'["form"].stage = stage
    <3> HIDE DEF new
    <3> QED  BY <2>2, <2>3, <1>t, WaitMoves DEF WaitFor, new
  <2>5. Aging /\ \A e \in Employee : Exists(e) => Exists(e)'
    BY <2>1, <1>t DEF Aging, Exists, AccessTypeOK
  <2>6. ASSUME NEW w \in Workspace
        PROVE  Entitled(structure, w)' = Entitled(structure, w)
    <3>1. o.employee \notin structure[w].assigned /\ structure[w].assigned \subseteq Employee
      BY <2>1, <1>t DEF StepInv, NobodyAbsent, AccessTypeOK
    <3>2. \A e \in structure[w].assigned : employees'[e] = employees[e]
      BY <2>1, <3>1, <1>t DEF AccessTypeOK
    <3> QED
      BY <2>1, <3>2 DEF Entitled
  <2>7. InStep => InStep'
    BY <2>1, <2>6 DEF InStep
  <2>8. ~Catches("form")
    BY <2>1 DEF Catches, Lists
  <2>9. CaughtUp'
    BY <2>1, <2>4, <2>5, <2>7, <2>8, CaughtUpKept
  <2>10. NewcomerAbsent'
    BY <2>4 DEF NewcomerAbsent
  <2> QED
    BY <2>1, <2>4, <2>5, <2>9, <2>10, StepKeeps
<1>2. CASE UndoCreate
  <2>1. /\ o.employee \in Employee /\ o.ahead = {} /\ EndOperation("form")
        /\ UNCHANGED structure /\ behind'
        /\ employees' = [employees EXCEPT ![o.employee] = "deleted"]
    BY <1>2, <1>t DEF UndoCreate, After, Sound
  <2>2. Moves("form") /\ running'["form"].stage = "none"
    BY <2>1, <1>t, FinishMoves, IdleAhead
  <2>3. Aging
    BY <2>1, <1>t DEF Aging, Exists, AccessTypeOK
  <2>4. CaughtUp' /\ NewcomerAbsent'
    BY <2>1, <2>2 DEF CaughtUp, NewcomerAbsent
  <2> QED
    BY <2>1, <2>2, <2>3, <2>4, StepKeeps
<1>3. CASE LookAtStructure
  <2> DEFINE new == [o EXCEPT !.stage = "list", !.structure = structure, !.fresh = TRUE]
  <2>1. /\ WaitAs("form", new) /\ UNCHANGED <<employees, structure, entries, behind>>
        /\ o.stage = "look" /\ o.ahead = {}
    BY <1>3 DEF LookAtStructure, After, Constructor
  <2>2. new \in OperationType /\ new.stage = "list" /\ new.structure = structure
    BY <1>t DEF OperationType, Stages, AccessTypeOK, Structures
  <2> HIDE DEF new
  <2>3. /\ Moves("form") /\ running'["form"].stage = "list" /\ running'["form"].structure = structure
    BY <2>1, <2>2, <1>t, WaitMoves
  <2>4. Aging /\ \A e : Exists(e) <=> Exists(e)'
    BY <2>1, NobodyAges
  <2>5. Matches(structure, structure, Existing')
    BY DEF Matches
  <2>6. Catches("form")' /\ Overtaken("form")'
    BY <2>1, <2>3, <2>5 DEF Catches, Overtaken, Lists
  <2>7. NobodyAbsent(structure)' /\ NobodyAbsent(running["form"].structure)'
    BY <2>1, <2>3 DEF StepInv, NobodyAbsent
  <2>8. ListsInv'
    <3> SUFFICES ASSUME NEW d \in Slot, Lists(d)'
                 PROVE  NobodyAbsent(running[d].structure)' /\ Overtaken(d)'
      BY DEF ListsInv
    <3>1. CASE d = "form"
      BY <2>6, <2>7, <3>1
    <3>2. CASE d # "form"
      BY <2>1, <2>3, <2>4, <3>2, ListsKept
    <3> QED
      BY <3>1, <3>2
  <2>9. NewcomerAbsent'
    BY <2>3 DEF NewcomerAbsent
  <2> QED
    BY <2>6, <2>7, <2>8, <2>9 DEF StepInv, CaughtUp
<1> QED
  BY <1>1, <1>2, <1>3

\* An employee that exists is changed, or deleted, and the operation goes on to synchronize.
LEMMA ChangesKeep ==
  ASSUME WorkTyped, StepInv, NEW c \in Slot, running[c].ahead = {}, running[c].employee \in Employee,
         Exists(running[c].employee), WaitFor(c, "synchronize"), UNCHANGED structure,
         NEW to \in {"active", "inactive", "deleted"},
         employees' = [employees EXCEPT ![running[c].employee] = to] \/ employees' = employees
  PROVE  StepInv'
<1>t. AccessTypeOK /\ OperationsTyped /\ running[c] \in OperationType
  BY DEF WorkTyped, OperationsTyped
<1> DEFINE new == [running[c] EXCEPT !.stage = "synchronize"]
<1>1. new \in OperationType /\ new.stage = "synchronize"
  BY <1>t DEF OperationType, Stages
<1>2. Moves(c) /\ running'[c].stage = "synchronize"
  <2> HIDE DEF new
  <2> QED  BY <1>1, <1>t, WaitMoves DEF WaitFor, new
<1>3. Aging
  BY <1>t DEF Aging, Exists, AccessTypeOK
<1>4. CaughtUp'
  BY <1>2 DEF CaughtUp, Catches
<1>5. NewcomerAbsent'
  <2>1. \A e \in Employee : employees[e] = "absent" => employees'[e] = "absent"
    BY <1>t DEF Exists, AccessTypeOK
  <2>2. running'["form"].stage = "create" =>
          running["form"].stage = "create" /\ running'["form"].employee = running["form"].employee
    BY <1>2 DEF Moves, Slot
  <2>3. running["form"].stage = "create" => running["form"].employee \in Employee
    BY <1>t DEF OperationsTyped, Sound, Slot
  <2> QED
    BY <2>1, <2>2, <2>3 DEF StepInv, NewcomerAbsent
<1> QED
  BY <1>2, <1>3, <1>4, <1>5, StepKeeps

LEMMA DeletionsKeep ==
  ASSUME WorkTyped, StepInv, LookForAssignments \/ RemovePassword \/ RemoveEmployee \/ ResetPassword
  PROVE  StepInv'
<1> USE DEF Slot
<1> DEFINE o == running["employees"]
<1>t. AccessTypeOK /\ OperationsTyped /\ o \in OperationType /\ Sound("employees", o)
  BY DEF WorkTyped, OperationsTyped
<1>1. CASE LookForAssignments
  <2> DEFINE new == [o EXCEPT !.stage = "unassign",
                            !.chosen = {w \in Here(structure) : o.employee \in structure[w].assigned}]
  <2>1. new \in OperationType /\ new.stage = "unassign"
    BY <1>t DEF OperationType, Stages, Here
  <2>2. o.ahead = {} /\ o.stage = "look" /\ WaitAs("employees", new) /\ UNCHANGED Constructor
    BY <1>1 DEF LookForAssignments, After
  <2>3. ~Catches("employees")
    BY <2>2 DEF Catches, Lists
  <2> HIDE DEF new
  <2> QED
    BY <2>1, <2>2, <2>3, WaitKeeps DEF Constructor
<1>2. CASE RemovePassword
  <2> DEFINE new == [o EXCEPT !.stage = "remove"]
  <2>1. new \in OperationType /\ new.stage = "remove" /\ new.employee = o.employee
    BY <1>t DEF OperationType, Stages
  <2>2. /\ o.ahead = {} /\ o.stage = "unassign" /\ WaitAs("employees", new)
        /\ UNCHANGED <<employees, structure, entries, behind>>
    BY <1>2 DEF RemovePassword, After, WaitFor
  <2>3. Catches("employees") => Exists(o.employee)
    BY <2>2 DEF Catches, Lists
  <2> HIDE DEF new
  <2> QED
    BY <2>1, <2>2, <2>3, WaitKeeps
<1>3. CASE RemoveEmployee
  <2>1. o.ahead = {} /\ o.stage = "remove" /\ o.employee \in Employee
        /\ UNCHANGED <<structure, entries, behind>>
    BY <1>3, <1>t DEF RemoveEmployee, After, Sound
  <2>2. CASE Exists(o.employee)
    <3>1. /\ employees' = [employees EXCEPT ![o.employee] = "deleted"]
          /\ WaitFor("employees", "synchronize")
      BY <1>3, <2>2 DEF RemoveEmployee
    <3> QED
      BY <2>1, <2>2, <3>1, ChangesKeep
  <2>3. CASE ~Exists(o.employee)
    <3>1. EndOperation("employees") /\ UNCHANGED employees
      BY <1>3, <2>3 DEF RemoveEmployee
    <3>2. ~Catches("employees")
      BY <2>1, <2>3 DEF Catches, Lists
    <3>3. InStep => InStep'
      BY <2>1, <3>1 DEF InStep, Entitled
    <3> QED
      BY <2>1, <3>1, <3>2, <3>3, FinishKeeps
  <2> QED
    BY <2>2, <2>3
<1>4. CASE ResetPassword
  <2>1. o.ahead = {} /\ o.stage = "hash" /\ EndOperation("employees")
        /\ UNCHANGED <<employees, structure, entries, behind>>
    BY <1>4 DEF ResetPassword, After
  <2>2. ~Catches("employees")
    BY <2>1 DEF Catches, Lists
  <2>3. InStep => InStep'
    BY <2>1 DEF InStep, Entitled
  <2> QED
    BY <2>1, <2>2, <2>3, FinishKeeps
<1> QED
  BY <1>1, <1>2, <1>3, <1>4

LEMMA EmployeesKeep ==
  ASSUME WorkTyped, StepInv, EmployeesNext
  PROVE  StepInv'
<1> USE DEF Slot
<1>t. AccessTypeOK /\ OperationsTyped
  BY DEF WorkTyped
<1>1. ASSUME NEW e \in Employee, BeginCreate(e)
      PROVE  StepInv'
  <2> DEFINE new == [Start("form", "create", "create") EXCEPT !.employee = e]
  <2>0. LET b == Start("form", "create", "create")
        IN  b \in OperationType /\ b.kind = "create" /\ b.stage = "create"
    BY StartTyped DEF Kinds, Stages
  <2>1. new \in OperationType /\ new.stage = "create" /\ new.employee = e
    BY <2>0 DEF OperationType
  <2>2. employees[e] = "absent"
    BY <1>1 DEF BeginCreate
  <2> HIDE DEF new
  <2> QED
    BY <1>1, <2>1, <2>2, FreeKeeps DEF BeginCreate, new
<1>2. ASSUME NEW e \in Employee, BeginUpdate(e)
      PROVE  StepInv'
  <2> DEFINE new == [Start("form", "update", "change") EXCEPT !.employee = e]
  <2>0. LET b == Start("form", "update", "change")
        IN  b \in OperationType /\ b.kind = "update" /\ b.stage = "change"
    BY StartTyped DEF Kinds, Stages
  <2>1. new \in OperationType /\ new.stage = "change"
    BY <2>0 DEF OperationType
  <2> HIDE DEF new
  <2> QED
    BY <1>2, <2>1, FreeKeeps DEF BeginUpdate, new
<1>3. ASSUME NEW e \in Employee, BeginSetActive(e)
      PROVE  StepInv'
  <2> DEFINE new == [Start("employees", "update", "change") EXCEPT !.employee = e,
                            !.given = (employees[e] = "inactive")]
  <2>g. (employees[e] = "inactive") \in BOOLEAN
    OBVIOUS
  <2>0. LET b == Start("employees", "update", "change")
        IN  b \in OperationType /\ b.kind = "update" /\ b.stage = "change"
    BY StartTyped DEF Kinds, Stages
  <2>1. new \in OperationType /\ new.stage = "change"
    BY <2>0, <2>g DEF OperationType
  <2> HIDE DEF new
  <2> QED
    BY <1>3, <2>1, FreeKeeps DEF BeginSetActive, new
<1>4. ASSUME NEW e \in Employee, BeginDeleteEmployee(e)
      PROVE  StepInv'
  <2> DEFINE new == [Start("employees", "delete", "look") EXCEPT !.employee = e]
  <2>0. LET b == Start("employees", "delete", "look")
        IN  b \in OperationType /\ b.kind = "delete" /\ b.stage = "look"
    BY StartTyped DEF Kinds, Stages
  <2>1. new \in OperationType /\ new.stage = "look"
    BY <2>0 DEF OperationType
  <2> HIDE DEF new
  <2> QED
    BY <1>4, <2>1, FreeKeeps DEF BeginDeleteEmployee, new
<1>5. ASSUME NEW e \in Employee, BeginResetPassword(e)
      PROVE  StepInv'
  <2> DEFINE new == [Start("employees", "reset", "hash") EXCEPT !.employee = e]
  <2>0. LET b == Start("employees", "reset", "hash")
        IN  b \in OperationType /\ b.kind = "reset" /\ b.stage = "hash"
    BY StartTyped DEF Kinds, Stages
  <2>1. new \in OperationType /\ new.stage = "hash"
    BY <2>0 DEF OperationType
  <2> HIDE DEF new
  <2> QED
    BY <1>5, <2>1, FreeKeeps DEF BeginResetPassword, new
<1>6. ASSUME NEW e \in Employee, ToggleElsewhere(e)
      PROVE  StepInv'
  <2>1. /\ UNCHANGED <<structure, running>> /\ behind'
        /\ employees[e] \in {"active", "inactive"}
        /\ employees' = [employees EXCEPT ![e] = IF @ = "active" THEN "inactive" ELSE "active"]
    BY <1>6 DEF ToggleElsewhere, Exists
  <2>2. Aging
    BY <2>1, <1>t DEF Aging, Exists, AccessTypeOK
  <2>3. Moves("toggle")
    BY <2>1 DEF Moves
  <2>4. CaughtUp'
    BY <2>1 DEF CaughtUp
  <2>5. NewcomerAbsent'
    <3>1. \A f \in Employee : employees[f] = "absent" => employees'[f] = "absent"
      BY <2>1, <1>t DEF AccessTypeOK
    <3>2. running["form"].stage = "create" => running["form"].employee \in Employee
      BY <1>t DEF OperationsTyped, Sound
    <3> QED
      BY <2>1, <3>1, <3>2 DEF StepInv, NewcomerAbsent
  <2> QED
    BY <2>1, <2>2, <2>3, <2>4, <2>5, StepKeeps
<1> QED
  BY <1>1, <1>2, <1>3, <1>4, <1>5, <1>6, NewcomersKeep, DeletionsKeep, UnassignKeeps
     DEF EmployeesNext

LEMMA DirectoryStep ==
  ASSUME WorkTyped, StepInv, [AccessNext]_accessVars
  PROVE  StepInv'
<1>t. AccessTypeOK /\ OperationsTyped
  BY DEF WorkTyped
<1>u. ASSUME UNCHANGED <<employees, structure, entries, running, behind>>
      PROVE  StepInv'
  <2>1. Existing' = Existing
    BY <1>u DEF Existing, Exists
  <2>2. \A c \in Slot : (Lists(c)' <=> Lists(c)) /\ (Overtaken(c)' <=> Overtaken(c)) /\ (Catches(c)' <=> Catches(c))
    BY <1>u, <2>1 DEF Lists, Overtaken, Catches, Matches, Exists
  <2>3. NobodyAbsent(structure)' /\ NewcomerAbsent'
    BY <1>u DEF StepInv, NobodyAbsent, NewcomerAbsent
  <2>4. ListsInv'
    BY <1>u, <2>2 DEF StepInv, ListsInv, NobodyAbsent
  <2>5. InStep' <=> InStep
    BY <1>u DEF InStep, Entitled
  <2> QED
    BY <1>u, <2>2, <2>3, <2>4, <2>5 DEF StepInv, CaughtUp
<1>1. CASE CloseConstructor
  <2>1. \A c \in Slot : running'[c] = AtRest
    BY <1>1 DEF CloseConstructor
  <2>2. ListsInv' /\ NewcomerAbsent'
    BY <2>1, IdleAhead DEF ListsInv, Lists, NewcomerAbsent, Slot
  <2>3. CaughtUp' /\ NobodyAbsent(structure)'
    BY <1>1 DEF CloseConstructor, CaughtUp, StepInv, NobodyAbsent
  <2> QED
    BY <2>2, <2>3 DEF StepInv
<1>2. ASSUME NEW c \in Slot, ChangeEmployee(c)
      PROVE  StepInv'
  <2> DEFINE e == running[c].employee
  <2>1. /\ running[c].ahead = {} /\ running[c].stage = "change" /\ e \in Employee
        /\ UNCHANGED <<structure, entries, behind>>
    BY <1>2, <1>t DEF ChangeEmployee, After, OperationsTyped, Sound
  <2>2. CASE Exists(e)
    <3>1. /\ WaitFor(c, "synchronize")
          /\ \/ employees' = employees
             \/ employees' = [employees EXCEPT ![e] = "active"]
             \/ employees' = [employees EXCEPT ![e] = "inactive"]
      BY <1>2, <2>2 DEF ChangeEmployee
    <3> QED
      BY <2>1, <2>2, <3>1, ChangesKeep
  <2>3. CASE ~Exists(e)
    <3>1. EndOperation(c) /\ UNCHANGED employees
      BY <1>2, <2>3 DEF ChangeEmployee
    <3>2. ~Catches(c)
      BY <2>1 DEF Catches, Lists
    <3>3. InStep => InStep'
      BY <2>1, <3>1 DEF InStep, Entitled
    <3> QED
      BY <2>1, <3>1, <3>2, <3>3, FinishKeeps
  <2> QED
    BY <2>2, <2>3
<1>3. CASE DeviceNext \/ UNCHANGED accessVars
  BY <1>3, <1>u DEF DeviceNext, Open, Connect, SubmitLogin, Verify, Authenticate, Logout,
     CloseScreen,
         ConstructorState, accessVars
<1> QED
  BY <1>1, <1>2, <1>3, WorkspacesKeep, EmployeesKeep, SynchronizeLaterKeeps,
     SynchronizeNowKeeps DEF AccessNext

LEMMA DirectoryInit == ASSUME AccessInit PROVE StepInv
<1>1. \A c \in Slot : running[c].stage = "none"
  BY IdleAhead DEF AccessInit
<1>2. ListsInv /\ NewcomerAbsent
  BY <1>1 DEF ListsInv, Lists, NewcomerAbsent, Slot
<1>3. NobodyAbsent(structure)
  <2>1. CASE structure = [w \in Workspace |-> NoWorkspace]
    BY <2>1 DEF NobodyAbsent, NoWorkspace
  <2>2. CASE structure \in [Workspace -> [here : {TRUE}, assigned : SUBSET passwords]]
    <3>1. \A e \in passwords : employees[e] # "absent"
      BY DEF AccessInit, Exists
    <3> QED
      BY <2>2, <3>1 DEF NobodyAbsent
  <2> QED
    BY <2>1, <2>2 DEF AccessInit
<1>4. InStep
  BY DEF AccessInit, InStep, NoEntry
<1> QED
  BY <1>2, <1>3, <1>4 DEF StepInv, CaughtUp

\* The directory offers a device the active employees assigned to its workspace, and no other,
\* when the constructor is at rest.  The proof follows every list that was read and not yet
\* written (StepInv): it is still what the project says, or an operation that changed the project
\* since waits for it and will synchronize after it.
THEOREM DirectoryFollows == AccessSpec => []DirectoryInStep
<1>1. AccessInit => WorkTyped /\ StepInv
  BY RotationsAssumption, InitTyped, DirectoryInit
<1>2. WorkTyped /\ StepInv /\ [AccessNext]_accessVars => WorkTyped' /\ StepInv'
  BY RotationsAssumption, StepTyped, DirectoryStep
<1>3. StepInv => DirectoryInStep
  <2> SUFFICES ASSUME StepInv, running = [c \in Slot |-> AtRest], ~behind PROVE InStep
    BY DEF DirectoryInStep, InStep
  <2>1. \A c \in Slot : ~Catches(c)
    BY IdleAhead DEF Catches, Lists
  <2> QED
    BY <2>1 DEF StepInv, CaughtUp
<1> QED
  BY <1>1, <1>2, <1>3, PTL DEF AccessSpec

=============================================================================
