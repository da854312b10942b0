------------------------ MODULE BenchmarkSuiteProofs ------------------------
(***************************************************************************)
(* The safety of a benchmark run for every plan, however long and however  *)
(* many modules an execution serves, and any number of runs and faults.    *)
(* The window learns of the archive by lines it may read late or not at    *)
(* all; the invariant says what lines still on their way are worth.        *)
(***************************************************************************)
EXTENDS BenchmarkSuite, SequenceTheorems, WellFoundedInduction, TLAPS

\* Only a command under way has a process.
EngineWaits == engine => suite.pc \in {"compile", "measure"}

\* The executions after the current one have left no trace in the archive, the
\* current one, once announced, that it runs.
NotReached ==
  /\ suite.pc = "boot" => manifest = NoManifest
  /\ InTry \/ suite.pc \in {"announced", "settle"} => \A m \in Range(Names) : manifest.rows[m] = "running"
  /\ suite.pc = "settled" => \A m \in Range(Names) : manifest.rows[m] = suite.outcome
  /\ \A j \in 1..Len(Plan) :
       j > suite.k \/ (j = suite.k /\ suite.pc \in {"boot", "announce"}) =>
         \A m \in Range(Plan[j]) : manifest.rows[m] = "absent"

\* The reports copied so far; all of an execution's once it has passed.
Copied ==
  /\ suite.pc = "copy" => \A i \in 1..suite.copied : Names[i] \in raw
  /\ suite.pc = "settle" /\ suite.outcome = "passed" => Range(Names) \subseteq raw
  /\ suite.pc \in {"settle", "settled"} => suite.outcome \in Outcomes

\* An interruption is remembered, and leaves only skipping to do.
Remembered ==
  /\ \A m \in Modules : manifest.rows[m] = "interrupted" => suite.interrupted
  /\ suite.interrupted => suite.pc \in {"settle", "settled", "announce", "announced", "check", "judge",
                                        "report", "latest", "exited", "off"}
  /\ suite.pc = "settle" =>
       IF suite.interrupted THEN suite.outcome \in {"interrupted", "skipped"}
       ELSE suite.outcome # "interrupted"

\* The verdict is about the rows as they are, and only the last steps have one.
Archived == manifest.finished /\ manifest.success /\ ~manifest.writer /\ manifest.html /\ Success
Judged ==
  /\ manifest.finished => suite.pc \in {"report", "latest", "exited", "off"}
  /\ manifest.success => manifest.finished /\ Success
  /\ suite.pc \in {"report", "latest"} => manifest.finished
  /\ suite.pc = "latest" => manifest.html /\ ~manifest.writer
  /\ suite.pc = "exited" /\ suite.code = 0 => Archived

\* An outcome is archived whose line is not written: yet, or, the runner gone, ever.
Untold(m) ==
  /\ ~manifest.finished /\ m \in Range(Names)
  /\ \/ suite.pc = "settled" /\ \E i \in (suite.told + 1)..Len(Names) : Names[i] = m
     \/ suite.pc = "exited" /\ suite.code = 1

\* What window and runner agree on about a module of the run: of the lines about
\* it on their way "running" comes first, then its outcome, which is the archive's,
\* and which the window has or will find there unless it is untold.
Agreed(m) ==
  /\ manifest.rows[m] = "absent" => About(m) = {}
  /\ \A i \in About(m) : out[i].status \in {"running", manifest.rows[m]} \cap (Outcomes \cup {"running"})
  /\ \A i, j \in About(m) : i < j /\ out[j].status = "running" => out[i].status = "running"
  /\ m \in window.completed =>
       /\ manifest.rows[m] \in Outcomes /\ window.shown[m] = manifest.rows[m]
       /\ \A i \in About(m) : out[i].status = manifest.rows[m]
  /\ manifest.rows[m] \in Outcomes /\ m \notin window.completed /\ ~Untold(m) =>
       \E i \in About(m) : out[i].status = manifest.rows[m]

Reported == window.alive /\ window.active => \A m \in Modules : Agreed(m)

\* The run a window has not ended is not over, and one it has not begun leaves nothing.
Phases ==
  /\ window.alive => (window.active <=> suite.pc # "off")
  /\ ~window.alive => window.active
  /\ runs = 0 => suite.pc = "off" /\ ~window.active
  /\ \A i \in 1..Len(out) : out[i].type = "module" => out[i].module \in Modules

\* What the window and the archive say.
Said ==
  /\ Reported /\ Phases
  /\ PassedIsPublished /\ SuccessIsArchived /\ InterruptedStartsNothing /\ ShownIsArchived

IInv == TypeOK /\ EngineWaits /\ NotReached /\ Copied /\ Remembered /\ Judged /\ Said

-----------------------------------------------------------------------------
(* The types, part by part.                                                *)

WindowType == [alive : BOOLEAN, open : BOOLEAN, closing : BOOLEAN, active : BOOLEAN,
  status : {"ready", "running", "stopping", "passed", "interrupted", "incomplete", "cleanup_error"},
  completed : SUBSET Modules, shown : [Modules -> Outcomes \cup {"ready", "queued", "running"}]]
SuiteType == [pc : {"off", "boot", "announce", "announced", "check", "build", "compile", "start", "measure",
                    "validate", "copy", "settle", "settled", "judge", "report", "latest", "exited"},
  k : 1..Len(Plan), copied : Nat, told : Nat, outcome : Outcomes \cup {"none"},
  interrupted : BOOLEAN, code : {0, 1, 77, 130, 255}]
ManifestType == [rows : [Modules -> Outcomes \cup {"absent", "running"}],
  finished : BOOLEAN, success : BOOLEAN, writer : BOOLEAN, html : BOOLEAN]
Line == [type : {"module", "finished"}, module : Modules \cup {"none"},
         status : Outcomes \cup {"running", "ok", "cleanup_error"}]

LEMMA Types ==
  TypeOK <=>
    /\ window \in WindowType /\ cancelFile \in BOOLEAN /\ engine \in BOOLEAN
    /\ suite \in SuiteType /\ (suite.pc = "copy" => suite.copied <= Len(Names))
    /\ (suite.pc \in {"announced", "settled"} => suite.told < Len(Names))
    /\ manifest \in ManifestType /\ raw \in SUBSET Modules /\ out \in Seq(Line)
    /\ runs \in 0..MaxRuns /\ faults \in 0..MaxFaults
  BY DEF TypeOK, WindowType, SuiteType, ManifestType, Line

LEMMA TypesNext ==
  /\ window' \in WindowType /\ cancelFile' \in BOOLEAN /\ engine' \in BOOLEAN
  /\ suite' \in SuiteType /\ (suite'.pc = "copy" => suite'.copied <= Len(Names'))
  /\ (suite'.pc \in {"announced", "settled"} => suite'.told < Len(Names'))
  /\ manifest' \in ManifestType /\ raw' \in SUBSET Modules /\ out' \in Seq(Line)
  /\ runs' \in 0..MaxRuns /\ faults' \in 0..MaxFaults
  => TypeOK'
  BY DEF TypeOK, WindowType, SuiteType, ManifestType, Line

\* A record the runner leaves with is one of its records.
LEMMA ExitedType ==
  ASSUME suite \in SuiteType, suite' = [suite EXCEPT !.pc = "exited", !.code = 1]
  PROVE  /\ suite' \in SuiteType /\ suite'.k = suite.k /\ suite'.interrupted = suite.interrupted
         /\ suite'.pc = "exited" /\ suite'.code = 1
<1>. DEFINE left == [suite EXCEPT !.pc = "exited"]
<1>1. left \in SuiteType /\ left.k = suite.k /\ left.interrupted = suite.interrupted /\ left.pc = "exited"
  BY DEF SuiteType
<1>2. suite' = [left EXCEPT !.code = 1]
  BY DEF SuiteType
<1>. HIDE DEF left
<1>. QED
  BY <1>1, <1>2 DEF SuiteType

-----------------------------------------------------------------------------
(* The plan and the lines.                                                 *)

LEMMA PlanType ==
  /\ Len(Plan) \in Nat \ {0}
  /\ \A k \in 1..Len(Plan) :
       /\ Plan[k] \in Seq(Modules) /\ Len(Plan[k]) \in Nat \ {0} /\ Range(Plan[k]) \subseteq Modules
       /\ \A i \in 1..Len(Plan[k]) : Plan[k][i] \in Range(Plan[k])
       /\ \A m \in Range(Plan[k]) : \E i \in 1..Len(Plan[k]) : Plan[k][i] = m
  /\ \A i, j \in 1..Len(Plan) : i # j => Range(Plan[i]) \cap Range(Plan[j]) = {}
<1>1. Plan \in Seq(Seq(Modules)) /\ Plan # <<>>
  BY PlanAssumption
<1>2. Len(Plan) \in Nat \ {0}
  BY <1>1, EmptySeq
<1>3. ASSUME NEW k \in 1..Len(Plan)
      PROVE  /\ Plan[k] \in Seq(Modules) /\ Len(Plan[k]) \in Nat \ {0} /\ Range(Plan[k]) \subseteq Modules
             /\ \A i \in 1..Len(Plan[k]) : Plan[k][i] \in Range(Plan[k])
             /\ \A m \in Range(Plan[k]) : \E i \in 1..Len(Plan[k]) : Plan[k][i] = m
  <2>1. Plan[k] \in Seq(Modules)
    BY <1>1, ElementOfSeq
  <2>2. Len(Plan[k]) \in Nat \ {0}
    BY <2>1, PlanAssumption, EmptySeq
  <2>3. Plan[k] \in [1..Len(Plan[k]) -> Modules] /\ DOMAIN Plan[k] = 1..Len(Plan[k])
    BY <2>1, LenProperties
  <2>. QED
    BY <2>1, <2>2, <2>3 DEF Range
<1>. QED
  BY <1>2, <1>3, PlanAssumption

\* The last line about a module decides.
LEMMA LastAbout ==
  ASSUME TypeOK, NEW m, About(m) # {}
  PROVE  Max(About(m)) \in About(m) /\ \A i \in About(m) : i <= Max(About(m))
<1>. DEFINE Back == {Len(out) - i : i \in About(m)}
            Less == {ss \in Nat \X Nat : ss[1] < ss[2]}
<1>0. Len(out) \in Nat
  BY LenProperties DEF TypeOK
<1>1. About(m) \subseteq 1..Len(out)
  BY DEF About
<1>2. Back \subseteq Nat /\ Back # {}
  BY <1>0, <1>1
<1>a. IsWellFoundedOn(Less, Nat)
  BY NatLessThanWellFounded DEF OpToRel
<1>3. PICK x \in Back : \A y \in Back : ~(<<y, x>> \in Less)
  <2>. HIDE DEF Less, Back
  <2>. QED
    BY <1>2, <1>a, WFMin
<1>4. PICK i \in About(m) : x = Len(out) - i
  OBVIOUS
<1>5. \A j \in About(m) : i >= j
  <2>. SUFFICES ASSUME NEW j \in About(m)  PROVE i >= j
    OBVIOUS
  <2>1. ~(<<Len(out) - j, x>> \in Less)
    BY <1>3
  <2>. QED
    BY <2>1, <1>0, <1>1, <1>2, <1>4
<1>6. Max(About(m)) \in About(m) /\ \A j \in About(m) : Max(About(m)) >= j
  BY <1>5 DEF Max
<1>. QED
  BY <1>0, <1>1, <1>6

-----------------------------------------------------------------------------
(* The first state, and the steps that write neither archive nor lines.    *)

LEMMA InitIInv ==
  ASSUME Init
  PROVE  IInv
<1>. USE DEF Init, NoManifest
<1>1. TypeOK
  <2>1. window \in WindowType /\ suite \in SuiteType /\ manifest \in ManifestType /\ out \in Seq(Line)
    BY EmptySeq, PlanType DEF WindowType, SuiteType, ManifestType
  <2>2. runs \in 0..MaxRuns /\ faults \in 0..MaxFaults /\ suite.pc = "off"
    BY BoundsAssumption
  <2>. QED
    BY <2>1, <2>2, Types
<1>2. EngineWaits /\ NotReached /\ Copied /\ Remembered /\ Judged
  BY PlanType DEF EngineWaits, NotReached, Copied, Remembered, Judged, InTry
<1>3. Said
  BY PlanType DEF Said, Reported, Phases, PassedIsPublished, SuccessIsArchived, InterruptedStartsNothing, ShownIsArchived
<1>. QED
  BY <1>1, <1>2, <1>3 DEF IInv

\* Neither the window, nor the archive, nor the lines: what they say stays true.
LEMMA QuietStep ==
  ASSUME IInv, UNCHANGED <<window, runs, manifest, out>>, raw \subseteq raw',
         Running, suite'.pc # "off", engine' => ~suite.interrupted, suite'.k = suite.k,
         suite.pc # "settled" \/ (suite'.pc = "exited" /\ suite'.code = 1)
  PROVE  Said'
<1>. USE DEF IInv, Said
<1>0. \A m \in Modules : Untold(m) => Untold(m)'
  BY DEF Untold, Names, Running
<1>1. Reported' /\ Phases' /\ PassedIsPublished' /\ SuccessIsArchived' /\ ShownIsArchived'
  <2>1. Reported'
    BY <1>0 DEF Reported, Agreed, About
  <2>. QED
    BY <2>1 DEF Phases, PassedIsPublished, SuccessIsArchived, ShownIsArchived, Success, Rows, Running
<1>2. InterruptedStartsNothing'
  BY PlanType DEF InterruptedStartsNothing, Remembered
<1>. QED
  BY <1>1, <1>2

LEMMA RunnerSettles ==
  ASSUME IInv, InTry, UNCHANGED <<window, cancelFile, runs, manifest, out>>,
         raw' = raw, engine' = FALSE, faults' \in 0..MaxFaults,
         \/ \E outcome \in Outcomes \ {"passed", "interrupted"} :
              Settle(outcome) /\ (suite.interrupted => outcome = "skipped")
         \/ Interrupt
  PROVE  IInv'
<1>. USE DEF IInv
<1>1. /\ suite' \in SuiteType /\ suite'.pc = "settle" /\ suite'.k = suite.k
      /\ suite'.outcome \in Outcomes \ {"passed"} /\ (suite.interrupted => suite'.interrupted)
      /\ IF suite'.interrupted THEN suite'.outcome \in {"interrupted", "skipped"}
         ELSE suite'.outcome # "interrupted"
  <2>0. suite \in SuiteType
    BY Types
  <2>1. ASSUME NEW outcome \in Outcomes \ {"passed", "interrupted"},
               Settle(outcome) /\ (suite.interrupted => outcome = "skipped")
        PROVE  <1>1!:
    <3>1. suite' = [suite EXCEPT !.pc = "settle", !.outcome = outcome]
      BY <2>1 DEF Settle
    <3>. QED
      BY <2>0, <2>1, <3>1 DEF SuiteType
  <2>2. CASE Interrupt
    BY <2>0, <2>2 DEF SuiteType, Interrupt, Outcomes
  <2>. QED
    BY <2>1, <2>2
<1>2. TypeOK'
  BY <1>1, Types, TypesNext
<1>3. EngineWaits' /\ Copied' /\ Judged'
  BY <1>1 DEF EngineWaits, Copied, Judged, InTry
<1>4. NotReached' /\ Remembered'
  BY <1>1, PlanType DEF NotReached, Remembered, InTry, Names
<1>5. Said'
  BY <1>1, QuietStep DEF InTry, Running
<1>. QED
  BY <1>2, <1>3, <1>4, <1>5

LEMMA RunnerInterrupted ==
  ASSUME IInv, InTry, UNCHANGED <<window, cancelFile, runs, manifest, out>>,
         raw' = raw, engine' = FALSE, faults' \in 0..MaxFaults, Interrupt
  PROVE  IInv'
  BY RunnerSettles

LEMMA RunnerExits ==
  ASSUME IInv, Running, UNCHANGED <<window, cancelFile, runs, manifest, out>>,
         raw' = raw, engine' = FALSE, faults' \in 0..MaxFaults, Exit(1)
  PROVE  IInv'
<1>. USE DEF IInv
<1>1. /\ suite' \in SuiteType /\ suite'.pc = "exited" /\ suite'.k = suite.k
      /\ suite'.interrupted = suite.interrupted /\ suite'.code = 1
  BY Types DEF SuiteType, Exit
<1>2. TypeOK'
  BY <1>1, Types, TypesNext
<1>3. EngineWaits' /\ Copied' /\ Judged'
  BY <1>1 DEF EngineWaits, Copied, Judged, Success, Rows
<1>4. NotReached' /\ Remembered'
  BY <1>1, PlanType DEF NotReached, Remembered, InTry, Names
<1>5. Said'
  BY <1>1, QuietStep
<1>. QED
  BY <1>2, <1>3, <1>4, <1>5

LEMMA RunnerGoes ==
  ASSUME IInv, ~suite.interrupted, UNCHANGED <<window, cancelFile, runs, manifest, out>>,
         raw' = raw, faults' = faults, NEW pc,
         Goto(pc),
         \/ suite.pc \in {"check", "compile"} /\ pc \in {"start", "build"} /\ engine' = FALSE
         \/ suite.pc = "build" /\ pc = "compile" /\ engine' = TRUE
         \/ suite.pc = "start" /\ pc = "measure" /\ engine' = TRUE
         \/ suite.pc = "measure" /\ pc = "validate" /\ engine' = FALSE
  PROVE  IInv'
<1>. USE DEF IInv
<1>1. /\ suite' \in SuiteType /\ suite'.pc = pc /\ suite'.k = suite.k
      /\ suite'.interrupted = suite.interrupted
  BY Types DEF SuiteType, Goto
<1>2. TypeOK'
  BY <1>1, Types, TypesNext
<1>3. EngineWaits' /\ Copied' /\ Judged'
  BY <1>1 DEF EngineWaits, Copied, Judged, InTry
<1>4. NotReached' /\ Remembered'
  BY <1>1, PlanType DEF NotReached, Remembered, InTry, Names
<1>5. Said'
  BY <1>1, QuietStep DEF Running
<1>. QED
  BY <1>2, <1>3, <1>4, <1>5

\* Boot, Check, Build, Start, WaitForCommand, Compiled, Measured and Signal.
LEMMA CommandStep ==
  ASSUME IInv, Boot \/ Check \/ Build \/ Start \/ WaitForCommand \/ Compiled \/ Measured \/ Signal
  PROVE  IInv'
<1>. USE DEF IInv, windowVars
<1>0. suite \in SuiteType /\ engine \in BOOLEAN /\ faults \in 0..MaxFaults
  BY Types
<1>1. CASE Boot
  <2>1. CASE EmitWorks
    <3>1. /\ suite' \in SuiteType /\ suite.pc = "boot" /\ suite'.pc = "announce" /\ suite'.k = suite.k
          /\ suite'.interrupted = suite.interrupted
      BY <1>0, <1>1, <2>1 DEF SuiteType, Boot, Goto
    <3>2. UNCHANGED <<windowVars, engine, manifest, raw, out, faults>> /\ manifest = NoManifest /\ ~engine
      BY <1>1, <3>1 DEF Boot, NotReached, EngineWaits
    <3>3. TypeOK'
      BY <3>1, <3>2, Types, TypesNext
    <3>4. EngineWaits' /\ Copied' /\ Judged'
      BY <3>1, <3>2 DEF EngineWaits, Copied, Judged, NoManifest
    <3>5. NotReached' /\ Remembered'
      BY <3>1, <3>2, PlanType DEF NotReached, Remembered, InTry, NoManifest
    <3>6. Said'
      BY <3>1, <3>2, QuietStep DEF Running
    <3>. QED
      BY <3>3, <3>4, <3>5, <3>6
  <2>2. CASE ~EmitWorks
    BY <1>0, <1>1, <2>2, RunnerExits DEF Boot, Running, EngineWaits
  <2>. QED
    BY <2>1, <2>2
<1>2. CASE Check
  <2>0. /\ suite.pc = "check" /\ UNCHANGED <<windowVars, engine, manifest, raw, out, faults>>
        /\ engine' = FALSE /\ InTry
    BY <1>0, <1>2 DEF Check, EngineWaits, InTry
  <2>1. CASE Settle("skipped")
    BY <1>0, <2>0, <2>1, RunnerSettles DEF Outcomes
  <2>2. CASE Interrupt
    BY <1>0, <2>0, <2>2, RunnerInterrupted
  <2>3. CASE ~suite.interrupted /\ (Goto("start") \/ Goto("build"))
    BY <2>0, <2>3, RunnerGoes
  <2>. QED
    BY <1>2, <2>1, <2>2, <2>3 DEF Check
<1>3. CASE Build
  BY <1>3, RunnerGoes DEF Build, Remembered
<1>4. CASE Start
  <2>1. ~suite.interrupted /\ ~engine /\ InTry
    BY <1>4 DEF Start, Remembered, EngineWaits, InTry
  <2>2. CASE engine' = TRUE /\ Goto("measure")
    BY <1>4, <2>1, <2>2, RunnerGoes DEF Start
  <2>3. CASE Settle("failed") /\ UNCHANGED engine
    BY <1>0, <1>4, <2>1, <2>3, RunnerSettles DEF Start, Outcomes
  <2>. QED
    BY <1>4, <2>2, <2>3 DEF Start
<1>5. CASE WaitForCommand
  <2>1. ~suite.interrupted /\ InTry
    BY <1>5 DEF WaitForCommand, Remembered, InTry
  <2>2. CASE Interrupt
    BY <1>0, <1>5, <2>1, <2>2, RunnerInterrupted DEF WaitForCommand
  <2>3. CASE Settle("timeout")
    BY <1>0, <1>5, <2>1, <2>3, RunnerSettles DEF WaitForCommand, Outcomes
  <2>. QED
    BY <1>5, <2>2, <2>3 DEF WaitForCommand
<1>6. CASE Compiled
  <2>1. ~suite.interrupted /\ InTry
    BY <1>6 DEF Compiled, Remembered, InTry
  <2>2. CASE Goto("start")
    BY <1>6, <2>1, <2>2, RunnerGoes DEF Compiled
  <2>3. CASE Settle("build_failed")
    BY <1>0, <1>6, <2>1, <2>3, RunnerSettles DEF Compiled, Outcomes
  <2>. QED
    BY <1>6, <2>2, <2>3 DEF Compiled
<1>7. CASE Measured
  <2>1. ~suite.interrupted /\ InTry
    BY <1>7 DEF Measured, Remembered, InTry
  <2>2. CASE Goto("validate")
    BY <1>7, <2>1, <2>2, RunnerGoes DEF Measured
  <2>3. CASE Settle("unsupported") \/ Settle("failed")
    BY <1>0, <1>7, <2>1, <2>3, RunnerSettles DEF Measured, Outcomes
  <2>. QED
    BY <1>7, <2>2, <2>3 DEF Measured
<1>8. CASE Signal
  <2>1. Running /\ UNCHANGED <<windowVars, manifest, raw, out>> /\ faults' \in 0..MaxFaults
    BY <1>0, <1>8, BoundsAssumption DEF Signal, Fault
  <2>2. CASE InTry
    BY <1>8, <2>1, <2>2, RunnerInterrupted DEF Signal
  <2>3. CASE ~InTry
    BY <1>0, <1>8, <2>1, <2>3, RunnerExits DEF Signal, EngineWaits, InTry
  <2>. QED
    BY <2>2, <2>3
<1>. QED
  BY <1>1, <1>2, <1>3, <1>4, <1>5, <1>6, <1>7, <1>8

\* Validate and Publish.
LEMMA PublishStep ==
  ASSUME IInv, Validate \/ Publish
  PROVE  IInv'
<1>. USE DEF IInv, windowVars
<1>0. /\ suite \in SuiteType /\ engine \in BOOLEAN /\ faults \in 0..MaxFaults /\ ~suite.interrupted
      /\ engine' = FALSE /\ InTry /\ UNCHANGED <<windowVars, manifest, out>>
  BY Types DEF Validate, Publish, EngineWaits, Remembered, InTry
<1>1. CASE UNCHANGED <<raw, faults>> /\ Settle("invalid_report")
  BY <1>0, <1>1, RunnerSettles DEF Outcomes
<1>2. CASE UNCHANGED raw /\ Fault /\ Settle("failed")
  <2>1. faults' \in 0..MaxFaults
    BY <1>0, <1>2, BoundsAssumption DEF Fault
  <2>. QED
    BY <1>0, <1>2, <2>1, RunnerSettles DEF Outcomes
<1>3. CASE UNCHANGED <<raw, faults>> /\ Validate /\ suite' = [suite EXCEPT !.pc = "copy", !.copied = 0]
  <2>1. /\ suite' \in SuiteType /\ suite'.pc = "copy" /\ suite'.k = suite.k /\ suite'.copied = 0
        /\ suite'.interrupted = suite.interrupted
    BY <1>0, <1>3 DEF SuiteType
  <2>2. suite'.copied <= Len(Names')
    BY <2>1, PlanType DEF Names, SuiteType
  <2>3. TypeOK'
    BY <1>0, <1>3, <2>1, <2>2, Types, TypesNext
  <2>4. EngineWaits' /\ Copied' /\ Judged'
    BY <1>0, <1>3, <2>1 DEF EngineWaits, Copied, Judged, InTry
  <2>5. NotReached' /\ Remembered'
    BY <1>0, <1>3, <2>1, PlanType DEF NotReached, Remembered, InTry, Names
  <2>6. Said'
    BY <1>0, <1>3, <2>1, QuietStep DEF Running, InTry
  <2>. QED
    BY <2>3, <2>4, <2>5, <2>6
<1>4. ASSUME UNCHANGED faults, suite.pc = "copy", suite.copied < Len(Names),
             raw' = raw \cup {Names[suite.copied + 1]}, suite' = [suite EXCEPT !.copied = @ + 1]
      PROVE  IInv'
  <2>1. /\ suite' \in SuiteType /\ suite'.pc = "copy" /\ suite'.k = suite.k /\ suite'.copied = suite.copied + 1
        /\ suite'.interrupted = suite.interrupted /\ Names' = Names /\ suite.copied \in Nat
    <3>1. suite' = [suite EXCEPT !.copied = suite.copied + 1] /\ suite.copied \in Nat
      BY <1>0, <1>4 DEF SuiteType
    <3>. QED
      BY <1>0, <1>4, <3>1 DEF SuiteType, Names
  <2>2. Len(Names) \in Nat /\ \A i \in 1..Len(Names) : Names[i] \in Modules
    BY <1>0, PlanType DEF Names, SuiteType
  <2>a. raw' \in SUBSET Modules /\ suite'.copied <= Len(Names')
    BY <1>0, <1>4, <2>1, <2>2, Types
  <2>3. TypeOK'
    BY <1>0, <1>4, <2>1, <2>a, Types, TypesNext
  <2>4. EngineWaits' /\ Copied' /\ Judged'
    BY <1>0, <1>4, <2>1 DEF EngineWaits, Copied, Judged, InTry
  <2>5. NotReached' /\ Remembered'
    BY <1>0, <1>4, <2>1, PlanType DEF NotReached, Remembered, InTry
  <2>6. Said'
    BY <1>0, <1>4, <2>1, QuietStep DEF Running, InTry
  <2>. QED
    BY <2>3, <2>4, <2>5, <2>6
<1>5. ASSUME UNCHANGED <<raw, faults>>, suite.pc = "copy", suite.copied = Len(Names), Settle("passed")
      PROVE  IInv'
  <2>1. /\ suite' \in SuiteType /\ suite'.pc = "settle" /\ suite'.k = suite.k /\ suite'.outcome = "passed"
        /\ suite'.interrupted = suite.interrupted /\ Names' = Names
    BY <1>0, <1>5 DEF SuiteType, Names, Settle, Outcomes
  <2>2. Range(Names) \subseteq raw
    <3>1. \A m \in Range(Names) : \E i \in 1..Len(Names) : Names[i] = m
      BY <1>0, PlanType DEF Names, SuiteType
    <3>. QED
      BY <1>5, <3>1 DEF Copied
  <2>3. TypeOK'
    BY <1>0, <1>5, <2>1, Types, TypesNext
  <2>4. EngineWaits' /\ Copied' /\ Judged'
    BY <1>0, <1>5, <2>1, <2>2 DEF EngineWaits, Copied, Judged, InTry, Outcomes
  <2>5. NotReached' /\ Remembered'
    BY <1>0, <1>5, <2>1, PlanType DEF NotReached, Remembered, InTry
  <2>6. Said'
    BY <1>0, <1>5, <2>1, QuietStep DEF Running, InTry
  <2>. QED
    BY <2>3, <2>4, <2>5, <2>6
<1>. QED
  BY <1>1, <1>2, <1>3, <1>4, <1>5 DEF Validate, Publish

-----------------------------------------------------------------------------
(* The steps that write the archive and the lines.                         *)

\* A line about one module, written behind the lines on their way.
LEMMA AppendedModule ==
  ASSUME out \in Seq(Line), NEW mod \in Modules, NEW status \in Outcomes \cup {"running"},
         out' = Append(out, [type |-> "module", module |-> mod, status |-> status])
  PROVE  /\ out' \in Seq(Line) /\ Len(out) \in Nat
         /\ \A i \in 1..Len(out') : out'[i].type = "module" =>
              (i \in 1..Len(out) /\ out'[i] = out[i]) \/ out'[i].module \in Modules
         /\ \A m \in Modules : m # mod => About(m)' = About(m)
         /\ About(mod)' = About(mod) \cup {Len(out) + 1} /\ out'[Len(out) + 1].status = status
         /\ \A m \in Modules : \A i \in About(m) : i <= Len(out) /\ i \in Nat /\ out'[i] = out[i]
<1>. DEFINE line == [type |-> "module", module |-> mod, status |-> status]
<1>1. line \in Line /\ line.type = "module" /\ line.module = mod /\ line.status = status
  BY DEF Line
<1>. HIDE DEF line
<1>2. /\ out' \in Seq(Line) /\ Len(out') = Len(out) + 1 /\ Len(out) \in Nat
      /\ \A i \in 1..Len(out) : out'[i] = out[i]
      /\ out'[Len(out) + 1] = line
  <2>1. out' = Append(out, line)
    BY DEF line
  <2>. QED
    BY <1>1, <2>1, AppendProperties, LenProperties
<1>3. \A i \in 1..Len(out') : i \in 1..Len(out) \/ i = Len(out) + 1
  BY <1>2
<1>4. \A i \in 1..Len(out) : i \in 1..Len(out') /\ i <= Len(out) /\ i \in Nat
  BY <1>2
<1>5. Len(out) + 1 \in 1..Len(out')
  BY <1>2
<1>6. About(mod)' = About(mod) \cup {Len(out) + 1}
  BY <1>1, <1>2, <1>3, <1>4, <1>5 DEF About
<1>7. \A m \in Modules : m # mod => About(m)' = About(m)
  BY <1>1, <1>2, <1>3, <1>4, <1>5 DEF About
<1>8. \A m \in Modules : \A i \in About(m) : i <= Len(out) /\ i \in Nat /\ out'[i] = out[i]
  BY <1>2, <1>4 DEF About
<1>. QED
  BY <1>1, <1>2, <1>3, <1>6, <1>7, <1>8

\* A line that is about no module.
LEMMA AppendedOther ==
  ASSUME out \in Seq(Line), NEW line \in Line, line.type # "module", out' = Append(out, line)
  PROVE  /\ out' \in Seq(Line)
         /\ \A i \in 1..Len(out') : out'[i].type = "module" => i \in 1..Len(out) /\ out'[i] = out[i]
         /\ \A m \in Modules : About(m)' = About(m) /\ \A i \in About(m) : out'[i] = out[i]
<1>1. /\ out' \in Seq(Line) /\ Len(out') = Len(out) + 1 /\ Len(out) \in Nat
      /\ \A i \in 1..Len(out) : out'[i] = out[i]
      /\ out'[Len(out) + 1] = line
  BY AppendProperties, LenProperties
<1>2. \A i \in 1..Len(out') : i \in 1..Len(out) \/ i = Len(out) + 1
  BY <1>1
<1>3. \A i \in 1..Len(out) : i \in 1..Len(out')
  BY <1>1
<1>. QED
  BY <1>1, <1>2, <1>3 DEF About

LEMMA AnnounceStep ==
  ASSUME IInv, Announce
  PROVE  IInv'
<1>. USE DEF IInv, windowVars
<1>0. /\ suite \in SuiteType /\ manifest \in ManifestType /\ suite.pc = "announce" /\ ~engine
      /\ suite.k \in 1..Len(Plan) /\ UNCHANGED <<windowVars, engine, raw, out, faults>>
  BY Types DEF SuiteType, Announce, EngineWaits
<1>1. /\ Range(Names) \subseteq Modules /\ \A m \in Range(Names) : manifest.rows[m] = "absent"
      /\ \A j \in 1..Len(Plan) : j # suite.k => Range(Plan[j]) \cap Range(Names) = {}
      /\ \A j \in 1..Len(Plan) : Range(Plan[j]) \subseteq Modules
      /\ Len(Names) \in Nat \ {0}
  BY <1>0, PlanType DEF Names, NotReached
<1>2. /\ manifest' \in ManifestType /\ manifest'.finished = manifest.finished /\ manifest'.success = manifest.success
      /\ \A m \in Modules : manifest'.rows[m] = IF m \in Range(Names) THEN "running" ELSE manifest.rows[m]
  BY <1>0 DEF Announce, ManifestType
<1>3. /\ suite' \in SuiteType /\ suite'.k = suite.k /\ suite'.interrupted = suite.interrupted
      /\ suite'.pc = "announced" /\ suite'.told = 0 /\ Names' = Names
  BY <1>0 DEF SuiteType, Announce, Names
<1>4. suite'.told < Len(Names')
  BY <1>1, <1>3
<1>5. TypeOK'
  BY <1>0, <1>2, <1>3, <1>4, Types, TypesNext
<1>6. EngineWaits' /\ Copied' /\ Judged'
  BY <1>0, <1>2, <1>3 DEF EngineWaits, Copied, Judged
<1>7. NotReached' /\ Remembered'
  <2>1. \A m \in Range(Names) : manifest'.rows[m] = "running"
    BY <1>1, <1>2
  <2>2. \A j \in 1..Len(Plan) : j > suite.k => \A m \in Range(Plan[j]) : manifest'.rows[m] = "absent"
    BY <1>0, <1>1, <1>2 DEF NotReached
  <2>. QED
    BY <1>0, <1>2, <1>3, <2>1, <2>2 DEF NotReached, Remembered
<1>8. Reported'
  <2>. SUFFICES ASSUME window.alive, NEW m \in Modules, Agreed(m)  PROVE Agreed(m)'
    BY <1>0 DEF Said, Reported, Phases
  <2>1. About(m)' = About(m) /\ ~Untold(m)
    BY <1>0 DEF About, Untold
  <2>2. CASE m \in Range(Names)
    <3>1. About(m) = {} /\ m \notin window.completed /\ manifest'.rows[m] = "running"
      BY <1>1, <1>2, <2>2 DEF Agreed, Outcomes
    <3>. QED
      BY <1>0, <2>1, <3>1 DEF Agreed, Outcomes
  <2>3. CASE m \notin Range(Names)
    BY <1>0, <1>2, <2>1, <2>3 DEF Agreed
  <2>. QED
    BY <2>2, <2>3
<1>9. PassedIsPublished' /\ SuccessIsArchived' /\ InterruptedStartsNothing' /\ ShownIsArchived' /\ Phases'
  <2>1. PassedIsPublished'
    BY <1>0, <1>2 DEF Said, PassedIsPublished
  <2>2. SuccessIsArchived' /\ ShownIsArchived' /\ Phases'
    BY <1>0, <1>3 DEF Said, SuccessIsArchived, ShownIsArchived, Phases
  <2>3. InterruptedStartsNothing'
    BY <1>0, <1>1, <1>2 DEF Said, InterruptedStartsNothing
  <2>. QED
    BY <2>1, <2>2, <2>3
<1>. QED
  BY <1>5, <1>6, <1>7, <1>8, <1>9 DEF Said

\* A line for one more module of the execution.
LEMMA TellStep ==
  ASSUME IInv, TellModule
  PROVE  IInv'
<1>. USE DEF IInv, windowVars
<1>0. /\ suite \in SuiteType /\ manifest \in ManifestType /\ out \in Seq(Line) /\ engine = FALSE
      /\ suite.pc \in {"announced", "settled"} /\ suite.told \in Nat /\ suite.told < Len(Names)
      /\ suite.k \in 1..Len(Plan) /\ UNCHANGED <<windowVars, engine, manifest, raw, faults>>
      /\ faults \in 0..MaxFaults
  BY Types DEF SuiteType, TellModule, EngineWaits
<1>a. CASE ~EmitWorks
  BY <1>0, <1>a, RunnerExits DEF TellModule, Running
<1>b. CASE EmitWorks
  <2>a. PICK mod : mod = Names[suite.told + 1]
    OBVIOUS
  <2>b. PICK status : status = IF suite.pc = "announced" THEN "running" ELSE suite.outcome
    OBVIOUS
  <2>1. /\ Len(Names) \in Nat /\ mod \in Range(Names) /\ Range(Names) \subseteq Modules
        /\ status \in Outcomes \cup {"running"}
        /\ \A m \in Range(Names) : manifest.rows[m] = status
    <3>1. /\ Len(Names) \in Nat /\ Range(Names) \subseteq Modules
          /\ \A i \in 1..Len(Names) : Names[i] \in Range(Names)
      BY <1>0, PlanType DEF Names
    <3>2. suite.told + 1 \in 1..Len(Names)
      BY <1>0, <3>1
    <3>3. /\ status \in Outcomes \cup {"running"}
          /\ \A m \in Range(Names) : manifest.rows[m] = status
      BY <1>0, <2>b DEF NotReached, Copied
    <3>. QED
      BY <2>a, <3>1, <3>2, <3>3
  <2>2. out' = Append(out, [type |-> "module", module |-> mod, status |-> status])
    BY <1>b, <2>a, <2>b DEF TellModule
  <2>3. /\ suite' \in SuiteType /\ suite'.interrupted = suite.interrupted /\ suite'.outcome = suite.outcome
        /\ \/ /\ suite'.pc = suite.pc /\ suite'.k = suite.k /\ suite'.told = suite.told + 1
              /\ suite.told + 1 < Len(Names)
           \/ /\ suite.told + 1 = Len(Names)
              /\ \/ suite.pc = "announced" /\ suite'.pc = "check" /\ suite'.k = suite.k
                 \/ suite.pc = "settled" /\ suite'.pc = "announce" /\ suite'.k = suite.k + 1
                 \/ suite.pc = "settled" /\ suite'.pc = "judge" /\ suite'.k = suite.k
    <3>1. CASE suite.told + 1 < Len(Names)
      <4>1. suite' = [suite EXCEPT !.told = @ + 1]
        BY <1>b, <3>1 DEF TellModule
      <4>. QED
        BY <1>0, <3>1, <4>1 DEF SuiteType
    <3>2. CASE ~(suite.told + 1 < Len(Names))
      <4>0. suite.told + 1 = Len(Names)
        BY <1>0, <2>1, <3>2
      <4>1. CASE suite.pc = "announced"
        <5>1. suite' = [suite EXCEPT !.pc = "check"]
          BY <1>b, <3>2, <4>1 DEF TellModule
        <5>. QED
          BY <1>0, <4>0, <4>1, <5>1 DEF SuiteType
      <4>2. CASE suite.pc = "settled" /\ suite.k < Len(Plan)
        <5>1. suite' = [suite EXCEPT !.pc = "announce", !.k = @ + 1] /\ suite.k + 1 \in 1..Len(Plan)
          BY <1>0, <1>b, <3>2, <4>2, PlanType DEF TellModule
        <5>. QED
          BY <1>0, <4>0, <4>2, <5>1 DEF SuiteType
      <4>3. CASE suite.pc = "settled" /\ ~(suite.k < Len(Plan))
        <5>1. suite' = [suite EXCEPT !.pc = "judge"]
          BY <1>b, <3>2, <4>3 DEF TellModule
        <5>. QED
          BY <1>0, <4>0, <4>3, <5>1 DEF SuiteType
      <4>. QED
        BY <1>0, <4>1, <4>2, <4>3
    <3>. QED
      BY <3>1, <3>2
  <2>4. /\ out' \in Seq(Line) /\ Len(out) \in Nat
        /\ \A i \in 1..Len(out') : out'[i].type = "module" =>
             (i \in 1..Len(out) /\ out'[i] = out[i]) \/ out'[i].module \in Modules
        /\ \A m \in Modules : m # mod => About(m)' = About(m)
        /\ About(mod)' = About(mod) \cup {Len(out) + 1} /\ out'[Len(out) + 1].status = status
        /\ \A m \in Modules : \A i \in About(m) : i <= Len(out) /\ i \in Nat /\ out'[i] = out[i]
    <3>1. mod \in Modules /\ status \in Outcomes \cup {"running"}
      BY <2>1
    <3>. QED
      BY <1>0, <2>2, <3>1, AppendedModule
  <2>5. TypeOK'
    <3>1. suite'.pc \in {"announced", "settled"} => suite'.told < Len(Names') /\ Names' = Names
      BY <1>0, <2>3 DEF Names
    <3>2. suite'.pc # "copy"
      BY <1>0, <2>3
    <3>. QED
      BY <1>0, <2>3, <2>4, <3>1, <3>2, Types, TypesNext
  <2>6. EngineWaits' /\ Copied' /\ Judged'
    <3>1. EngineWaits'
      BY <1>0, <2>3 DEF EngineWaits
    <3>2. Copied'
      BY <1>0, <2>3 DEF Copied
    <3>3. ~manifest.finished
      BY <1>0 DEF Judged
    <3>. QED
      BY <1>0, <2>3, <3>1, <3>2, <3>3 DEF Judged, Success, Rows
  <2>7. NotReached'
    <3>1. suite'.k = suite.k => Names' = Names
      BY DEF Names
    <3>2. suite'.k = suite.k /\ (InTry' \/ suite'.pc \in {"announced", "settle"}) =>
            \A m \in Range(Names) : manifest.rows[m] = "running"
      BY <1>0, <2>3 DEF NotReached, InTry
    <3>3. \A j \in 1..Len(Plan) : j > suite'.k \/ (j = suite'.k /\ suite'.pc \in {"boot", "announce"}) => j > suite.k
      BY <1>0, <2>3, PlanType
    <3>4. \A j \in 1..Len(Plan) : j > suite.k => \A m \in Range(Plan[j]) : manifest.rows[m] = "absent"
      BY DEF NotReached
    <3>5. suite'.pc = "settled" => \A m \in Range(Names') : manifest'.rows[m] = suite'.outcome
      BY <1>0, <2>3, <3>1 DEF NotReached
    <3>6. InTry' \/ suite'.pc \in {"announced", "settle"} => suite'.k = suite.k
      BY <1>0, <2>3 DEF InTry
    <3>7. suite'.pc # "boot"
      BY <1>0, <2>3
    <3>. QED
      BY <1>0, <3>1, <3>2, <3>3, <3>4, <3>5, <3>6, <3>7 DEF NotReached
  <2>8. Remembered'
    <3>1. suite.interrupted => suite'.pc \in {"settled", "announce", "announced", "check", "judge"}
      BY <1>0, <2>3
    <3>2. suite'.pc # "settle"
      BY <1>0, <2>3
    <3>. QED
      BY <1>0, <2>3, <3>1, <3>2 DEF Remembered
  <2>9. Reported'
    <3>. SUFFICES ASSUME NEW m \in Modules, Agreed(m)  PROVE Agreed(m)'
      BY <1>0, <1>b DEF Said, Reported, Phases, EmitWorks
    <3>1. CASE m = mod
      <4>0. manifest.rows[m] = status /\ manifest'.rows[m] = status /\ window' = window
        BY <1>0, <2>1, <3>1
      <4>1. \A i \in About(m)' : \/ i \in About(m) /\ i <= Len(out) /\ i \in Nat /\ out'[i] = out[i]
                                 \/ i = Len(out) + 1 /\ out'[i].status = status
        BY <2>4, <3>1
      <4>2. \E i \in About(m)' : out'[i].status = status
        BY <2>4, <3>1
      <4>3. \A i \in About(m)' : out'[i].status \in {"running", status} \cap (Outcomes \cup {"running"})
        BY <2>1, <4>0, <4>1 DEF Agreed
      <4>4. \A i, j \in About(m)' : i < j /\ out'[j].status = "running" => out'[i].status = "running"
        <5>. SUFFICES ASSUME NEW i \in About(m)', NEW j \in About(m)', i < j, out'[j].status = "running"
                      PROVE  out'[i].status = "running"
          OBVIOUS
        <5>1. CASE j \in About(m) /\ j <= Len(out) /\ j \in Nat /\ out'[j] = out[j]
          <6>1. i \in About(m) /\ out'[i] = out[i]
            BY <2>4, <4>1, <5>1
          <6>. QED
            BY <5>1, <6>1 DEF Agreed
        <5>2. CASE out'[j].status = status
          BY <4>3, <5>2
        <5>. QED
          BY <4>1, <5>1, <5>2
      <4>5. m \in window.completed => \A i \in About(m)' : out'[i].status = manifest.rows[m]
        BY <4>0, <4>1 DEF Agreed
      <4>6. manifest.rows[m] # "absent"
        BY <2>1, <4>0 DEF Outcomes
      <4>. QED
        BY <4>0, <4>2, <4>3, <4>4, <4>5, <4>6 DEF Agreed
    <3>2. CASE m # mod
      <4>1. About(m)' = About(m) /\ \A i \in About(m) : out'[i] = out[i]
        BY <2>4, <3>2
      <4>2. Untold(m) => Untold(m)'
        <5>. SUFFICES ASSUME Untold(m)  PROVE Untold(m)'
          OBVIOUS
        <5>1. PICK i \in (suite.told + 1)..Len(Names) : Names[i] = m
          BY <1>0 DEF Untold
        <5>2. suite.pc = "settled" /\ m \in Range(Names) /\ ~manifest.finished
          BY <1>0 DEF Untold
        <5>3. i # suite.told + 1
          BY <2>a, <3>2, <5>1
        <5>4. i \in (suite.told + 2)..Len(Names) /\ suite.told + 1 < Len(Names)
          BY <1>0, <2>1, <5>1, <5>3
        <5>5. suite'.pc = "settled" /\ suite'.told = suite.told + 1 /\ Names' = Names
          BY <1>0, <2>3, <5>2, <5>4 DEF Names
        <5>6. i \in (suite'.told + 1)..Len(Names')
          BY <1>0, <5>4, <5>5
        <5>. QED
          BY <1>0, <5>1, <5>2, <5>5, <5>6 DEF Untold
      <4>3. manifest' = manifest /\ window' = window
        BY <1>0
      <4>. QED
        BY <4>1, <4>2, <4>3 DEF Agreed
    <3>. QED
      BY <3>1, <3>2
  <2>10. PassedIsPublished' /\ InterruptedStartsNothing'
    BY <1>0 DEF Said, PassedIsPublished, InterruptedStartsNothing
  <2>11. SuccessIsArchived' /\ ShownIsArchived'
    <3>1. ShownIsArchived'
      BY <1>0 DEF Said, ShownIsArchived, Phases
    <3>. QED
      BY <1>0, <3>1 DEF Said, SuccessIsArchived, Success, Rows
  <2>12. Phases'
    <3>1. suite'.pc # "off" /\ suite.pc # "off"
      BY <1>0, <2>3
    <3>2. \A i \in 1..Len(out') : out'[i].type = "module" => out'[i].module \in Modules
      BY <2>4 DEF Said, Phases
    <3>. QED
      BY <1>0, <3>1, <3>2 DEF Said, Phases
  <2>. QED
    BY <2>5, <2>6, <2>7, <2>8, <2>9, <2>10, <2>11, <2>12 DEF Said
<1>. QED
  BY <1>a, <1>b

LEMMA RecordStep ==
  ASSUME IInv, Record
  PROVE  IInv'
<1>. USE DEF IInv, windowVars
<1>0. /\ suite \in SuiteType /\ manifest \in ManifestType /\ out \in Seq(Line) /\ suite.pc = "settle" /\ engine = FALSE
      /\ suite.k \in 1..Len(Plan) /\ UNCHANGED <<windowVars, engine, raw, faults>> /\ faults \in 0..MaxFaults
  BY Types DEF SuiteType, Record, EngineWaits
<1>a. CASE ~EmitWorks
  BY <1>0, <1>a, RunnerExits DEF Record, Running
<1>b. CASE EmitWorks
  <2>1. /\ Range(Names) \subseteq Modules /\ \A m \in Range(Names) : manifest.rows[m] = "running"
        /\ \A j \in 1..Len(Plan) : j # suite.k => Range(Plan[j]) \cap Range(Names) = {}
        /\ \A j \in 1..Len(Plan) : Range(Plan[j]) \subseteq Modules
        /\ suite.outcome \in Outcomes
    BY <1>0, PlanType DEF Names, NotReached, Copied
  <2>2. /\ manifest' \in ManifestType /\ manifest'.finished = manifest.finished /\ manifest'.success = manifest.success
        /\ \A m \in Modules : manifest'.rows[m] = IF m \in Range(Names) THEN suite.outcome ELSE manifest.rows[m]
    BY <1>0, <1>b, <2>1, SMTT(30) DEF Record, ManifestType
  <2>3. /\ suite' \in SuiteType /\ suite'.interrupted = suite.interrupted /\ suite'.k = suite.k
        /\ suite'.pc = "settled" /\ suite'.told = 0 /\ suite'.outcome = suite.outcome
        /\ Names' = Names /\ Len(Names) \in Nat \ {0}
    <3>1. suite' = [suite EXCEPT !.pc = "settled", !.told = 0]
      BY <1>b DEF Record
    <3>2. Len(Names) \in Nat \ {0}
      BY <1>0, PlanType DEF Names
    <3>. QED
      BY <1>0, <3>1, <3>2 DEF SuiteType, Names
  <2>4. suite'.told < Len(Names') /\ UNCHANGED out
    BY <1>b, <2>3 DEF Record
  <2>5. TypeOK'
    BY <1>0, <2>2, <2>3, <2>4, Types, TypesNext
  <2>6. EngineWaits' /\ Copied' /\ Judged'
    BY <1>0, <2>2, <2>3 DEF EngineWaits, Copied, Judged
  <2>7. NotReached'
    <3>1. \A j \in 1..Len(Plan) : j > suite.k => \A m \in Range(Plan[j]) : manifest'.rows[m] = "absent"
      BY <1>0, <2>1, <2>2 DEF NotReached
    <3>2. \A m \in Range(Names') : manifest'.rows[m] = suite'.outcome
      BY <2>1, <2>2, <2>3
    <3>. QED
      BY <2>3, <3>1, <3>2 DEF NotReached, InTry
  <2>8. Remembered'
    BY <1>0, <2>2, <2>3 DEF Remembered
  <2>9. Reported'
    <3>. SUFFICES ASSUME NEW m \in Modules, Agreed(m)  PROVE Agreed(m)'
      BY <1>0, <1>b DEF Said, Reported, Phases, EmitWorks
    <3>0. About(m)' = About(m) /\ out' = out /\ window' = window /\ ~Untold(m)
      BY <1>0, <2>4 DEF About, Untold
    <3>1. CASE m \in Range(Names)
      <4>1. manifest.rows[m] = "running" /\ manifest'.rows[m] = suite.outcome /\ m \notin window.completed
        BY <2>1, <2>2, <3>1 DEF Agreed, Outcomes
      <4>2. \A i \in About(m) : out[i].status = "running"
        BY <4>1 DEF Agreed
      <4>3. suite.outcome # "absent"
        BY <2>1 DEF Outcomes
      <4>4. Untold(m)'
        <5>1. \E i \in 1..Len(Names) : Names[i] = m
          BY <1>0, <3>1, PlanType DEF Names
        <5>2. ~manifest'.finished
          BY <1>0, <2>2 DEF Judged
        <5>. QED
          BY <2>3, <3>1, <5>1, <5>2 DEF Untold
      <4>. QED
        BY <2>1, <3>0, <4>1, <4>2, <4>3, <4>4 DEF Agreed
    <3>2. CASE m \notin Range(Names)
      <4>1. manifest'.rows[m] = manifest.rows[m]
        BY <2>2, <3>2
      <4>. QED
        BY <3>0, <4>1 DEF Agreed
    <3>. QED
      BY <3>1, <3>2
  <2>10. PassedIsPublished'
    <3>. SUFFICES ASSUME NEW m \in Modules, manifest'.rows[m] = "passed"  PROVE m \in raw
      BY <1>0 DEF PassedIsPublished
    <3>. QED
      BY <1>0, <2>2 DEF Said, PassedIsPublished, Copied
  <2>11. SuccessIsArchived' /\ ShownIsArchived' /\ Phases'
    BY <1>0, <2>3, <2>4 DEF Said, SuccessIsArchived, ShownIsArchived, Phases
  <2>12. InterruptedStartsNothing'
    <3>. SUFFICES ASSUME NEW i \in 1..Len(Plan), NEW m \in Range(Plan[i]), manifest'.rows[m] = "interrupted",
                         NEW j \in (i + 1)..Len(Plan), NEW n \in Range(Plan[j])
                  PROVE  manifest'.rows[n] \in {"absent", "running", "skipped", "interrupted"}
      BY <1>0 DEF InterruptedStartsNothing
    <3>0. j \in 1..Len(Plan) /\ i < j /\ m \in Modules /\ n \in Modules
      BY <2>1, PlanType
    <3>1. CASE n \in Range(Names)
      <4>1. j = suite.k /\ m \notin Range(Names)
        BY <2>1, <3>0, <3>1
      <4>2. suite.interrupted
        BY <2>2, <3>0, <4>1 DEF Remembered
      <4>. QED
        BY <1>0, <2>2, <3>0, <3>1, <4>2 DEF Remembered
    <3>2. CASE n \notin Range(Names) /\ m \in Range(Names)
      <4>1. i = suite.k
        BY <2>1, <3>2
      <4>. QED
        BY <1>0, <2>2, <3>0, <3>2, <4>1 DEF NotReached
    <3>3. CASE n \notin Range(Names) /\ m \notin Range(Names)
      BY <2>2, <3>0, <3>3 DEF Said, InterruptedStartsNothing
    <3>. QED
      BY <3>1, <3>2, <3>3
  <2>. QED
    BY <2>5, <2>6, <2>7, <2>8, <2>9, <2>10, <2>11, <2>12 DEF Said
<1>. QED
  BY <1>a, <1>b

\* Judge and Report write the manifest's verdict, never a row.
LEMMA VerdictStep ==
  ASSUME IInv, Judge \/ Report
  PROVE  IInv'
<1>. USE DEF IInv, windowVars
<1>0. /\ suite \in SuiteType /\ manifest \in ManifestType /\ suite.pc \in {"judge", "report"} /\ engine = FALSE
      /\ UNCHANGED <<windowVars, engine, raw, out, faults>>
  BY Types DEF Judge, Report, EngineWaits
<1>1. /\ manifest' \in ManifestType /\ manifest'.rows = manifest.rows
      /\ suite.pc = "judge" => manifest'.finished /\ (manifest'.success <=> Success)
      /\ suite.pc = "report" => manifest'.finished = manifest.finished /\ manifest'.success = manifest.success
  <2>1. CASE Judge
    BY <1>0, <2>1 DEF Judge, ManifestType, Success
  <2>2. CASE Report
    BY <1>0, <2>2 DEF Report, ManifestType
  <2>. QED
    BY <2>1, <2>2 DEF Judge, Report
<1>2. /\ suite' \in SuiteType /\ suite'.interrupted = suite.interrupted /\ suite'.k = suite.k
      /\ \/ suite.pc = "judge" /\ suite'.pc = "report"
         \/ suite.pc = "report" /\ suite'.pc = "latest" /\ manifest'.html /\ ~manifest'.writer
         \/ suite.pc = "report" /\ suite'.pc = "exited" /\ suite'.code = 1
  <2>1. suite' = [suite EXCEPT !.pc = "report"] =>
          suite' \in SuiteType /\ suite'.k = suite.k /\ suite'.interrupted = suite.interrupted /\ suite'.pc = "report"
    BY <1>0 DEF SuiteType
  <2>2. suite' = [suite EXCEPT !.pc = "latest"] =>
          suite' \in SuiteType /\ suite'.k = suite.k /\ suite'.interrupted = suite.interrupted /\ suite'.pc = "latest"
    BY <1>0 DEF SuiteType
  <2>3. suite' = [suite EXCEPT !.pc = "exited", !.code = 1] =>
          /\ suite' \in SuiteType /\ suite'.k = suite.k /\ suite'.interrupted = suite.interrupted
          /\ suite'.pc = "exited" /\ suite'.code = 1
    BY <1>0, ExitedType
  <2>4. manifest' = [manifest EXCEPT !.html = TRUE, !.writer = FALSE] => manifest'.html /\ ~manifest'.writer
    BY <1>0 DEF ManifestType
  <2>. QED
    BY <2>1, <2>2, <2>3, <2>4 DEF Judge, Report, Goto, Exit
<1>3. Success' <=> Success
  BY <1>1 DEF Success, Rows
<1>4. TypeOK'
  BY <1>0, <1>1, <1>2, Types, TypesNext
<1>5. EngineWaits' /\ Copied' /\ Judged'
  BY <1>0, <1>1, <1>2, <1>3 DEF EngineWaits, Copied, Judged
<1>6. NotReached' /\ Remembered'
  BY <1>0, <1>1, <1>2, PlanType DEF NotReached, Remembered, InTry
<1>7. Said'
  BY <1>0, <1>1, <1>2, PlanType DEF Said, Reported, Agreed, About, Untold, Judged, Phases, PassedIsPublished, SuccessIsArchived,
     InterruptedStartsNothing, ShownIsArchived
<1>. QED
  BY <1>4, <1>5, <1>6, <1>7

LEMMA LatestStep ==
  ASSUME IInv, Latest
  PROVE  IInv'
<1>. USE DEF IInv, windowVars
<1>0. /\ suite \in SuiteType /\ out \in Seq(Line) /\ faults \in 0..MaxFaults /\ suite.pc = "latest" /\ engine = FALSE
      /\ UNCHANGED <<windowVars, engine, manifest, raw>> /\ manifest \in ManifestType
  BY Types DEF Latest, EngineWaits
<1>1. CASE Exit(1) /\ UNCHANGED out
  <2>1. faults' \in 0..MaxFaults
    BY <1>0, BoundsAssumption DEF Latest, Fault
  <2>. QED
    BY <1>0, <1>1, <2>1, RunnerExits DEF Running
<1>2. ASSUME NEW cleanup \in {"ok", "cleanup_error"}, UNCHANGED faults, Exit(ExitCode),
             out' = Append(out, [type |-> "finished", module |-> "none", status |-> cleanup])
      PROVE  IInv'
  <2>1. /\ suite' \in SuiteType /\ suite'.k = suite.k /\ suite'.interrupted = suite.interrupted
        /\ suite'.pc = "exited" /\ suite'.code = ExitCode
    <3>1. suite' = [suite EXCEPT !.pc = "exited", !.code = ExitCode] /\ ExitCode \in {0, 1, 77, 130, 255}
      BY <1>2 DEF Exit, ExitCode
    <3>. QED
      BY <1>0, <3>1 DEF SuiteType
  <2>2. suite'.code = 0 => manifest.success
    BY <2>1 DEF ExitCode
  <2>3. /\ out' \in Seq(Line)
        /\ \A i \in 1..Len(out') : out'[i].type = "module" => i \in 1..Len(out) /\ out'[i] = out[i]
        /\ \A m \in Modules : About(m)' = About(m) /\ \A i \in About(m) : out'[i] = out[i]
    <3>. DEFINE line == [type |-> "finished", module |-> "none", status |-> cleanup]
    <3>1. line \in Line /\ line.type # "module" /\ out' = Append(out, line)
      BY <1>2 DEF Line
    <3>. HIDE DEF line
    <3>. QED
      BY <1>0, <3>1, AppendedOther
  <2>4. TypeOK'
    BY <1>0, <1>2, <2>1, <2>3, Types, TypesNext
  <2>5. EngineWaits' /\ Copied' /\ Judged'
    BY <1>0, <2>1, <2>2 DEF EngineWaits, Copied, Judged, Archived, Success, Rows
  <2>6. NotReached' /\ Remembered'
    BY <1>0, <2>1, PlanType DEF NotReached, Remembered, InTry
  <2>7. Reported'
    <3>. SUFFICES ASSUME NEW m \in Modules, Agreed(m)  PROVE Agreed(m)'
      BY <1>0 DEF Said, Reported, Phases
    <3>1. ~Untold(m)
      BY <1>0 DEF Untold
    <3>. QED
      BY <1>0, <2>3, <3>1 DEF Agreed
  <2>8. Phases'
    BY <1>0, <2>1, <2>3 DEF Said, Phases
  <2>9. PassedIsPublished' /\ SuccessIsArchived' /\ InterruptedStartsNothing' /\ ShownIsArchived'
    BY <1>0 DEF Said, Phases, PassedIsPublished, SuccessIsArchived, InterruptedStartsNothing, ShownIsArchived
  <2>. QED
    BY <2>4, <2>5, <2>6, <2>7, <2>8, <2>9 DEF Said
<1>. QED
  BY <1>1, <1>2 DEF Latest

-----------------------------------------------------------------------------
(* The window's steps.                                                     *)

LEMMA BeginStep ==
  ASSUME IInv, Begin
  PROVE  IInv'
<1>. USE DEF IInv
<1>0. /\ window \in WindowType /\ suite.pc = "off" /\ engine = FALSE /\ runs \in 0..MaxRuns /\ faults \in 0..MaxFaults
      /\ UNCHANGED engine
  BY Types DEF Begin, WindowIdle, Said, Phases, EngineWaits
<1>1. /\ window' \in WindowType /\ window'.active /\ window'.alive = window.alive /\ window.alive /\ window'.completed = {}
  BY <1>0 DEF Begin, WindowIdle, WindowType
<1>2. /\ suite' \in SuiteType /\ suite'.k = 1 /\ ~suite'.interrupted
      /\ suite'.pc = "boot" \/ (suite'.pc = "exited" /\ suite'.code = 255)
  <2>1. 1 \in 1..Len(Plan)
    BY PlanType
  <2>2. \/ suite' = [pc |-> "boot", k |-> 1, copied |-> 0, told |-> 0, outcome |-> "none", interrupted |-> FALSE, code |-> 0]
        \/ suite' = [pc |-> "exited", k |-> 1, copied |-> 0, told |-> 0, outcome |-> "none", interrupted |-> FALSE, code |-> 255]
    BY DEF Begin
  <2>3. CASE suite'.pc = "boot"
    <3>1. suite' = [pc |-> "boot", k |-> 1, copied |-> 0, told |-> 0, outcome |-> "none", interrupted |-> FALSE, code |-> 0]
      BY <2>2, <2>3
    <3>. QED
      BY <2>1, <3>1 DEF SuiteType
  <2>4. CASE suite'.pc # "boot"
    <3>1. suite' = [pc |-> "exited", k |-> 1, copied |-> 0, told |-> 0, outcome |-> "none", interrupted |-> FALSE, code |-> 255]
      BY <2>2, <2>4
    <3>. QED
      BY <2>1, <3>1 DEF SuiteType
  <2>. QED
    BY <2>3, <2>4
<1>3. /\ manifest' = NoManifest /\ manifest' \in ManifestType /\ raw' = {} /\ out' = <<>> /\ out' \in Seq(Line) /\ Len(out') = 0
      /\ runs' \in 0..MaxRuns /\ runs' # 0 /\ faults' \in 0..MaxFaults /\ cancelFile' \in BOOLEAN
  <2>1. manifest' = NoManifest /\ manifest' \in ManifestType /\ raw' = {} /\ cancelFile' \in BOOLEAN
    BY DEF Begin, NoManifest, ManifestType
  <2>2. out' = <<>> /\ out' \in Seq(Line) /\ Len(out') = 0
    BY EmptySeq DEF Begin
  <2>3. runs' \in 0..MaxRuns /\ runs' # 0
    BY <1>0, BoundsAssumption DEF Begin
  <2>4. faults' \in 0..MaxFaults
    <3>1. faults' = faults \/ (faults < MaxFaults /\ faults' = faults + 1)
      BY DEF Begin, Fault
    <3>. QED
      BY <1>0, <3>1, BoundsAssumption
  <2>. QED
    BY <2>1, <2>2, <2>3, <2>4
<1>4. TypeOK'
  BY <1>0, <1>1, <1>2, <1>3, Types, TypesNext
<1>5. EngineWaits' /\ Copied' /\ Judged' /\ NotReached' /\ Remembered'
  BY <1>0, <1>2, <1>3, PlanType DEF EngineWaits, Copied, Judged, NotReached, Remembered, InTry, NoManifest
<1>6. \A m \in Modules : About(m)' = {}
  BY <1>3 DEF About
<1>7. Reported'
  BY <1>1, <1>3, <1>6 DEF Reported, Agreed, NoManifest, Outcomes
<1>8. Phases' /\ PassedIsPublished' /\ SuccessIsArchived' /\ InterruptedStartsNothing' /\ ShownIsArchived'
  BY <1>0, <1>1, <1>2, <1>3, PlanType DEF Phases, PassedIsPublished, SuccessIsArchived, InterruptedStartsNothing,
     ShownIsArchived, NoManifest
<1>. QED
  BY <1>4, <1>5, <1>7, <1>8 DEF Said

\* Cancelling, closing, dying: nothing the window shows of a module changes.
LEMMA WindowStep ==
  ASSUME IInv, RequestCancel \/ Close \/ WindowDies
  PROVE  IInv'
<1>. USE DEF IInv
<1>0. /\ window \in WindowType /\ cancelFile \in BOOLEAN /\ faults \in 0..MaxFaults
      /\ UNCHANGED <<suite, engine, manifest, raw, out, runs>> /\ window.alive
  BY Types DEF RequestCancel, Close, WindowDies, WindowIdle
<1>1. /\ window' \in WindowType /\ window'.active = window.active /\ window'.completed = window.completed
      /\ window'.shown = window.shown /\ (window'.alive \/ window.active)
      /\ window'.status = window.status \/ window.active
  <2>1. CASE RequestCancel
    BY <1>0, <2>1 DEF RequestCancel, WindowType
  <2>2. CASE Close
    BY <1>0, <2>2 DEF Close, WindowType
  <2>3. CASE WindowDies
    BY <1>0, <2>3 DEF WindowDies, WindowType
  <2>. QED
    BY <2>1, <2>2, <2>3
<1>2. faults' \in 0..MaxFaults /\ cancelFile' \in BOOLEAN
  <2>1. faults' = faults \/ (faults < MaxFaults /\ faults' = faults + 1)
    BY DEF RequestCancel, Close, WindowDies, Fault
  <2>2. cancelFile' \in {cancelFile, TRUE}
    BY DEF RequestCancel, Close, WindowDies
  <2>3. faults' \in 0..MaxFaults
    BY <1>0, <2>1, BoundsAssumption
  <2>4. cancelFile' \in BOOLEAN
    BY <1>0, <2>2
  <2>. QED
    BY <2>3, <2>4
<1>3. TypeOK'
  BY <1>0, <1>1, <1>2, Types, TypesNext DEF Names
<1>4. EngineWaits' /\ Copied' /\ Judged' /\ NotReached' /\ Remembered'
  BY <1>0 DEF EngineWaits, Copied, Judged, Archived, Success, Rows, NotReached, Remembered, InTry, Names
<1>5. Reported'
  BY <1>0, <1>1 DEF Said, Reported, Agreed, About, Untold, Names
<1>6. Phases' /\ PassedIsPublished' /\ SuccessIsArchived' /\ InterruptedStartsNothing' /\ ShownIsArchived'
  BY <1>0, <1>1 DEF Said, Phases, PassedIsPublished, SuccessIsArchived, InterruptedStartsNothing, ShownIsArchived,
     Success, Rows
<1>. QED
  BY <1>3, <1>4, <1>5, <1>6 DEF Said

LEMMA ReadEventStep ==
  ASSUME IInv, ReadEvent
  PROVE  IInv'
<1>. USE DEF IInv
<1>0. /\ window \in WindowType /\ out \in Seq(Line) /\ out # <<>> /\ window.alive /\ window.active
      /\ UNCHANGED <<cancelFile, suite, engine, manifest, raw, runs, faults>>
  BY Types DEF ReadEvent, WindowIdle
<1>. DEFINE event == Head(out)
<1>1. /\ out' \in Seq(Line) /\ Len(out) \in Nat \ {0} /\ Len(out') = Len(out) - 1 /\ event = out[1] /\ event \in Line
      /\ \A i \in 1..Len(out') : i + 1 \in 1..Len(out) /\ out'[i] = out[i + 1]
      /\ \A i \in 1..Len(out) : i = 1 \/ i - 1 \in 1..Len(out')
  <2>1. /\ Tail(out) \in Seq(Line) /\ Len(out) \in Nat \ {0} /\ Len(Tail(out)) = Len(out) - 1
        /\ \A i \in 1..Len(Tail(out)) : Tail(out)[i] = out[i + 1]
        /\ Head(out) = out[1] /\ Head(out) \in Line
    BY <1>0, HeadTailProperties, EmptySeq
  <2>. QED
    BY <2>1 DEF ReadEvent
<1>. HIDE DEF event
<1>2. \A m \in Modules : Agreed(m)
  BY <1>0 DEF Said, Reported
<1>3. event.type = "module" =>
        /\ event.module \in Modules /\ 1 \in About(event.module)
        /\ event.status \in {"running", manifest.rows[event.module]} \cap (Outcomes \cup {"running"})
  <2>. SUFFICES ASSUME event.type = "module"  PROVE <1>3!2
    OBVIOUS
  <2>1. event.module \in Modules /\ 1 \in About(event.module)
    BY <1>1 DEF Said, Phases, About
  <2>. QED
    BY <1>1, <1>2, <2>1 DEF Agreed
<1>4. /\ window' \in WindowType /\ window'.active /\ window'.alive
      /\ event.type = "module" =>
           /\ window'.shown = [window.shown EXCEPT ![event.module] = event.status]
           /\ window'.completed = IF event.status = "running" THEN window.completed
                                  ELSE window.completed \cup {event.module}
      /\ event.type # "module" => window'.shown = window.shown /\ window'.completed = window.completed
  <2>0. window' = Shows(window, event)
    BY DEF ReadEvent, event
  <2>1. CASE event.type = "module"
    BY <1>0, <1>3, <2>0, <2>1 DEF Shows, WindowType
  <2>2. CASE event.type # "module"
    BY <1>0, <2>0, <2>2 DEF Shows, WindowType
  <2>. QED
    BY <2>1, <2>2
<1>5. TypeOK'
  BY <1>0, <1>1, <1>4, Types, TypesNext DEF Names
<1>6. EngineWaits' /\ Copied' /\ Judged' /\ NotReached' /\ Remembered'
  BY <1>0 DEF EngineWaits, Copied, Judged, Archived, Success, Rows, NotReached, Remembered, InTry, Names
<1>7. ASSUME NEW m \in Modules
      PROVE  Agreed(m)'
  <2>1. /\ \A i \in About(m)' : i + 1 \in About(m) /\ out'[i] = out[i + 1]
        /\ \A i \in About(m) : i # 1 => i - 1 \in About(m)' /\ out'[i - 1] = out[i]
        /\ About(m) \subseteq 1..Len(out) /\ About(m)' \subseteq 1..Len(out')
    BY <1>1 DEF About
  <2>2. /\ manifest.rows[m] = "absent" => About(m)' = {}
        /\ \A i \in About(m)' : out'[i].status \in {"running", manifest.rows[m]} \cap (Outcomes \cup {"running"})
        /\ \A i, j \in About(m)' : i < j /\ out'[j].status = "running" => out'[i].status = "running"
    BY <1>1, <1>2, <2>1 DEF Agreed
  <2>a. Untold(m)' <=> Untold(m)
    BY <1>0 DEF Untold, Names
  <2>3. CASE event.type = "module" /\ event.module = m /\ event.status # "running"
    <3>1. 1 \in About(m) /\ out[1].status = manifest.rows[m] /\ manifest.rows[m] \in Outcomes
      BY <1>1, <1>3, <2>3
    <3>2. \A i \in About(m) : out[i].status # "running"
      BY <1>1, <1>2, <2>1, <2>3, <3>1 DEF Agreed
    <3>3. \A i \in About(m)' : out'[i].status = manifest.rows[m]
      BY <2>1, <2>2, <3>2
    <3>4. m \in window'.completed /\ window'.shown[m] = manifest.rows[m]
      BY <1>0, <1>1, <1>4, <2>3, <3>1 DEF WindowType
    <3>. QED
      BY <1>0, <2>2, <3>1, <3>3, <3>4 DEF Agreed
  <2>4. CASE event.type = "module" /\ event.module = m /\ event.status = "running"
    <3>1. 1 \in About(m) /\ out[1].status = "running" /\ window'.completed = window.completed
      BY <1>1, <1>3, <1>4, <2>4
    <3>2. m \notin window.completed
      BY <1>2, <3>1 DEF Agreed, Outcomes
    <3>3. manifest.rows[m] \in Outcomes /\ ~Untold(m) => \E i \in About(m)' : out'[i].status = manifest.rows[m]
      <4>. SUFFICES ASSUME manifest.rows[m] \in Outcomes, ~Untold(m)  PROVE <3>3!2
        OBVIOUS
      <4>1. PICK i \in About(m) : out[i].status = manifest.rows[m]
        BY <1>2, <3>2 DEF Agreed
      <4>2. i # 1
        BY <3>1, <4>1 DEF Outcomes
      <4>. QED
        BY <2>1, <4>1, <4>2
    <3>. QED
      BY <1>0, <2>2, <2>a, <3>1, <3>2, <3>3 DEF Agreed
  <2>5. CASE ~(event.type = "module" /\ event.module = m)
    <3>1. 1 \notin About(m)
      BY <1>1, <2>5 DEF About
    <3>2. window'.shown[m] = window.shown[m] /\ (m \in window'.completed <=> m \in window.completed)
      BY <1>0, <1>3, <1>4, <2>5 DEF WindowType
    <3>3. \A i \in About(m)' : i + 1 \in About(m) /\ out'[i] = out[i + 1]
      BY <2>1
    <3>4. \A i \in About(m) : \E j \in About(m)' : out'[j] = out[i]
      BY <2>1, <3>1
    <3>. QED
      BY <1>0, <1>2, <2>2, <2>a, <3>2, <3>3, <3>4 DEF Agreed
  <2>. QED
    BY <2>3, <2>4, <2>5
<1>8. Phases'
  BY <1>0, <1>1, <1>4 DEF Said, Phases
<1>9. PassedIsPublished' /\ SuccessIsArchived' /\ InterruptedStartsNothing' /\ ShownIsArchived'
  BY <1>0, <1>4 DEF Said, PassedIsPublished, SuccessIsArchived, InterruptedStartsNothing, ShownIsArchived
<1>. QED
  BY <1>5, <1>6, <1>7, <1>8, <1>9 DEF Said, Reported

\* The rest of the lines is read at once: the window then shows what the archive says.
LEMMA FinishedStep ==
  ASSUME IInv, Finished
  PROVE  IInv'
<1>. USE DEF IInv
<1>0. /\ window \in WindowType /\ suite \in SuiteType /\ window.alive /\ window.active /\ suite.pc = "exited"
      /\ UNCHANGED <<engine, manifest, raw, runs, faults>> /\ cancelFile' = FALSE /\ out' = <<>>
  BY Types DEF Finished, WindowIdle
<1>1. \A m \in Modules : Agreed(m)
  BY <1>0 DEF Said, Reported
<1>2. ASSUME NEW m \in Modules
      PROVE  /\ m \in Completed => manifest.rows[m] \in Outcomes
             /\ manifest.rows[m] \in Outcomes /\ m \notin Completed => Untold(m)
             /\ m \in Completed => Told(m) = manifest.rows[m]
  <2>1. m \in Completed => manifest.rows[m] \in Outcomes
    BY <1>1 DEF Agreed, Completed
  <2>2. manifest.rows[m] \in Outcomes /\ ~Untold(m) => m \in Completed
    BY <1>1 DEF Agreed, Completed, Outcomes
  <2>3. ASSUME m \in Completed, About(m) = {}  PROVE Told(m) = manifest.rows[m]
    BY <1>1, <2>3 DEF Agreed, Completed, Told
  <2>4. ASSUME m \in Completed, About(m) # {}  PROVE Told(m) = manifest.rows[m]
    <3>. DEFINE last == Max(About(m))
    <3>1. last \in About(m) /\ \A i \in About(m) : i <= last
      BY <2>4, LastAbout
    <3>2. Told(m) = out[last].status
      BY <2>4 DEF Told
    <3>. HIDE DEF last
    <3>3. CASE m \in window.completed
      BY <1>1, <3>1, <3>2, <3>3 DEF Agreed
    <3>4. CASE m \notin window.completed
      <4>1. PICK i \in About(m) : out[i].status # "running"
        BY <2>4, <3>4 DEF Completed
      <4>2. i = last \/ i < last
        BY <3>1 DEF About
      <4>3. out[last].status # "running"
        BY <1>1, <3>1, <4>1, <4>2 DEF Agreed
      <4>. QED
        BY <1>1, <3>1, <3>2, <4>3 DEF Agreed
    <3>. QED
      BY <3>3, <3>4
  <2>. QED
    BY <2>1, <2>2, <2>3, <2>4
<1>3. Completed \in SUBSET Modules
  BY <1>0 DEF Completed, WindowType
<1>4. /\ window' \in WindowType /\ ~window'.active /\ window'.alive
      /\ window'.shown = [m \in Modules |-> IF m \in Completed THEN Told(m) ELSE "failed"]
      /\ window'.status \in {"passed", "cleanup_error"} => suite.code = 0
      /\ suite.code = 1 => window'.status = "incomplete"
  <2>1. \A m \in Modules : (IF m \in Completed THEN Told(m) ELSE "failed") \in Outcomes
    BY <1>2 DEF Outcomes
  <2>. DEFINE shown == [m \in Modules |-> IF m \in Completed THEN Told(m) ELSE "failed"]
              status == IF suite.code = 0 THEN IF CleanupFailed THEN "cleanup_error" ELSE "passed"
                        ELSE IF suite.code = 130 THEN "interrupted" ELSE "incomplete"
  <2>2. shown \in [Modules -> Outcomes \cup {"ready", "queued", "running"}]
    BY <2>1
  <2>3. /\ status \in {"passed", "cleanup_error", "interrupted", "incomplete"}
        /\ status \in {"passed", "cleanup_error"} => suite.code = 0
        /\ suite.code = 1 => status = "incomplete"
    OBVIOUS
  <2>4. window' = [window EXCEPT !.active = FALSE, !.open = ~window.closing, !.completed = Completed,
                                 !.shown = shown, !.status = status]
    BY DEF Finished
  <2>5. window.closing \in BOOLEAN
    BY <1>0 DEF WindowType
  <2>6. window'.shown = shown /\ window'.status = status /\ window'.active = FALSE /\ window'.alive = window.alive
    <3>. HIDE DEF shown, status
    <3>. QED
      BY <1>0, <2>4 DEF WindowType
  <2>7. window' \in WindowType
    <3>1. status \in {"ready", "running", "stopping", "passed", "interrupted", "incomplete", "cleanup_error"}
      BY <2>3
    <3>. HIDE DEF shown, status
    <3>. QED
      BY <1>0, <1>3, <2>2, <2>4, <2>5, <3>1 DEF WindowType
  <2>. QED
    BY <1>0, <2>3, <2>6, <2>7
<1>5. /\ suite' \in SuiteType /\ suite'.pc = "off" /\ suite'.k = suite.k /\ suite'.interrupted = suite.interrupted
  BY <1>0 DEF Finished, SuiteType
<1>6. out' \in Seq(Line) /\ Len(out') = 0
  BY <1>0, EmptySeq
<1>7. TypeOK'
  BY <1>0, <1>4, <1>5, <1>6, Types, TypesNext
<1>8. EngineWaits' /\ Copied' /\ Judged' /\ NotReached' /\ Remembered'
  <2>1. EngineWaits' /\ Copied' /\ Remembered'
    BY <1>0, <1>5 DEF EngineWaits, Copied, Remembered
  <2>2. Judged'
    BY <1>0, <1>5 DEF Judged, Success, Rows
  <2>3. NotReached'
    BY <1>0, <1>5, PlanType DEF NotReached, InTry
  <2>. QED
    BY <2>1, <2>2, <2>3
<1>9. Reported' /\ Phases' /\ PassedIsPublished'
  BY <1>0, <1>4, <1>5, <1>6 DEF Said, Reported, Phases, PassedIsPublished
<1>10. SuccessIsArchived'
  BY <1>0, <1>4 DEF Judged, Archived, SuccessIsArchived, Success, Rows
<1>11. ShownIsArchived'
  <2>. SUFFICES ASSUME NEW i \in 1..Len(Plan), NEW m \in Range(Plan[i])
                PROVE  \/ window'.shown[m] = IF manifest.rows[m] \in Outcomes THEN manifest.rows[m] ELSE "failed"
                       \/ /\ window'.shown[m] = "failed" /\ window'.status = "incomplete"
                          /\ i = suite.k /\ ~manifest.finished
    BY <1>0, <1>5 DEF ShownIsArchived
  <2>1. m \in Modules /\ suite.k \in 1..Len(Plan)
    BY <1>0, PlanType DEF SuiteType
  <2>2. CASE m \in Completed \/ manifest.rows[m] \notin Outcomes
    BY <1>2, <1>4, <2>1, <2>2
  <2>3. CASE Untold(m) /\ m \notin Completed
    <3>1. suite.code = 1 /\ m \in Range(Plan[suite.k]) /\ ~manifest.finished
      BY <1>0, <2>3 DEF Untold, Names
    <3>2. i = suite.k
      BY <2>1, <3>1, PlanType
    <3>. QED
      BY <1>4, <2>1, <2>3, <3>1, <3>2
  <2>. QED
    BY <1>2, <2>1, <2>2, <2>3
<1>12. InterruptedStartsNothing'
  BY <1>0 DEF Said, InterruptedStartsNothing
<1>. QED
  BY <1>7, <1>8, <1>9, <1>10, <1>11, <1>12 DEF Said

-----------------------------------------------------------------------------
(* The invariant, and what it is for.                                      *)

LEMMA NextIInv ==
  ASSUME IInv, [Next]_vars
  PROVE  IInv'
<1>1. CASE Window
  BY <1>1, BeginStep, WindowStep, ReadEventStep, FinishedStep DEF Window
<1>2. CASE Runner
  BY <1>2, CommandStep, PublishStep, AnnounceStep, TellStep, RecordStep, VerdictStep, LatestStep DEF Runner
<1>3. CASE Signal
  BY <1>3, CommandStep
<1>4. CASE UNCHANGED vars
  <2>0. UNCHANGED <<window, cancelFile, suite, engine, manifest, raw, out, runs, faults>>
    BY <1>4 DEF vars
  <2>1. TypeOK'
    BY <2>0 DEF IInv, TypeOK, Names
  <2>2. EngineWaits' /\ NotReached' /\ Copied' /\ Remembered' /\ Judged'
    BY <2>0 DEF IInv, EngineWaits, NotReached, InTry, Names, Copied, Remembered, Judged, Archived, Success, Rows
  <2>3. Said'
    <3>1. Reported' /\ Phases'
      BY <2>0 DEF IInv, Said, Reported, Agreed, About, Untold, Names, Phases
    <3>2. PassedIsPublished' /\ ShownIsArchived'
      BY <2>0 DEF IInv, Said, PassedIsPublished, ShownIsArchived
    <3>3. SuccessIsArchived'
      BY <2>0 DEF IInv, Said, SuccessIsArchived, Success, Rows
    <3>4. InterruptedStartsNothing'
      BY <2>0 DEF IInv, Said, InterruptedStartsNothing
    <3>. QED
      BY <3>1, <3>2, <3>3, <3>4 DEF Said
  <2>. QED
    BY <2>1, <2>2, <2>3 DEF IInv
<1>. QED
  BY <1>1, <1>2, <1>3, <1>4 DEF Next, Rest

LEMMA Invariant == Spec => []IInv
  BY InitIInv, NextIInv, PTL DEF Spec

\* Whatever the plan, the faults and the moment of a cancel or a crash: what the
\* archive calls passed has its report, and the window shows success only for an
\* archive that is complete (run_suite's publication and verdict).
THEOREM SuiteIsSoundHolds == Spec => []SuiteIsSound
<1>1. IInv => SuiteIsSound
  BY DEF IInv, Said, SuiteIsSound
<1>. QED
  BY <1>1, Invariant, PTL

\* A window whose run is over shows of each module what the archive says of it,
\* although the lines may have been read late; only what the runner had no time to
\* tell is shown as failed, in a run shown as incomplete (MainWindow.finished).
THEOREM ShownIsArchivedHolds == Spec => []ShownIsArchived
<1>1. IInv => ShownIsArchived
  BY DEF IInv, Said
<1>. QED
  BY <1>1, Invariant, PTL

\* After an interruption, whatever its moment, no engine is started any more
\* (run_suite's interrupted flag).
THEOREM InterruptedStartsNothingHolds == Spec => []InterruptedStartsNothing
<1>1. IInv => InterruptedStartsNothing
  BY DEF IInv, Said
<1>. QED
  BY <1>1, Invariant, PTL

\* However the runner ends, no engine outlives it (run_command's finally).
THEOREM NoEngineLeftHolds == Spec => []NoEngineLeft
<1>1. IInv => NoEngineLeft
  BY DEF IInv, EngineWaits, NoEngineLeft, Running
<1>. QED
  BY <1>1, Invariant, PTL
=============================================================================
