--------------------------- MODULE BenchmarkSuite ---------------------------
(***************************************************************************)
(* One benchmark run, seen by the window that starts it                    *)
(* (desktop_window.MainWindow), the runner process (run_benchmarks.        *)
(* run_suite) and the engine the runner has started.  The window cancels   *)
(* by creating a file the runner polls; the runner answers with events on  *)
(* its standard output and records every module in the manifest of the     *)
(* run's archive.  Reports of passed modules are copied to the archive's   *)
(* raw directory, the one the HTML report is built from.                   *)
(*                                                                         *)
(* Plan is what select_modules and the shared cache execution make of the  *)
(* selection: the executions in order, each with the modules it serves.    *)
(* Time limits are abstracted to choices: an engine may reach its limit    *)
(* whenever it runs.                                                       *)
(***************************************************************************)
EXTENDS Naturals, Sequences, SequencesExt

CONSTANTS
  Plan,       \* a sequence of sequences of module names
  SkipBuild,  \* --skip-build, which the window always passes
  MaxRuns,    \* bound: runs started
  MaxFaults   \* bound: failed copies, signals, crashes, a window that dies

Modules == UNION {Range(Plan[i]) : i \in 1..Len(Plan)}

ASSUME PlanAssumption ==
  /\ Plan \in Seq(Seq(Modules))
  /\ Plan # <<>> /\ \A i \in 1..Len(Plan) : Plan[i] # <<>>
  /\ \A i, j \in 1..Len(Plan) : i # j => Range(Plan[i]) \cap Range(Plan[j]) = {}
ASSUME BoundsAssumption ==
  /\ SkipBuild \in BOOLEAN /\ MaxRuns \in Nat \ {0} /\ MaxFaults \in Nat

VARIABLES
  window,     \* the main window and its queue position of the run
  cancelFile, \* does the cancel file exist
  suite,      \* the runner: where it is, execution, copies made, events told, outcome, interrupted
  engine,     \* is an engine (or a compiler) of the run alive
  manifest,   \* manifest.json of the newest archive
  raw,        \* modules whose report is in its raw directory
  out,        \* events the window has not read yet
  runs, faults

vars == <<window, cancelFile, suite, engine, manifest, raw, out, runs, faults>>

NoManifest == [rows |-> [m \in Modules |-> "absent"], finished |-> FALSE,
               success |-> FALSE, writer |-> FALSE, html |-> FALSE]

Init ==
  /\ window = [alive |-> TRUE, open |-> TRUE, closing |-> FALSE, active |-> FALSE,
               status |-> "ready", completed |-> {},
               shown |-> [m \in Modules |-> "ready"]]
  /\ cancelFile = FALSE
  /\ suite = [pc |-> "off", k |-> 1, copied |-> 0, told |-> 0, outcome |-> "none",
              interrupted |-> FALSE, code |-> 0]
  /\ engine = FALSE
  /\ manifest = NoManifest
  /\ raw = {} /\ out = <<>>
  /\ runs = 0 /\ faults = 0

Fault == faults < MaxFaults /\ faults' = faults + 1

Running == suite.pc \notin {"off", "exited"}
Names == Plan[suite.k]
InTry == suite.pc \in {"check", "build", "compile", "start", "measure", "validate", "copy"}

\* The event and the progress line both go to the window's pipe: without the
\* window they raise, and no clause of run_suite catches that.
EmitWorks == window.alive
Exit(code) == suite' = [suite EXCEPT !.pc = "exited", !.code = code]

-----------------------------------------------------------------------------
(* The window.                                                             *)

WindowIdle == window.alive /\ window.open

Begin ==
  /\ WindowIdle /\ ~window.active /\ ~window.closing /\ runs < MaxRuns
  /\ runs' = runs + 1
  /\ window' = [window EXCEPT !.active = TRUE, !.status = "running", !.completed = {},
                              !.shown = [m \in Modules |-> "queued"]]
  /\ cancelFile' = FALSE
  /\ \/ /\ suite' = [pc |-> "boot", k |-> 1, copied |-> 0, told |-> 0, outcome |-> "none",
                     interrupted |-> FALSE, code |-> 0]
        /\ UNCHANGED faults
     \/ \* FailedToStart: process_error calls finished(-1)
        Fault /\ suite' = [pc |-> "exited", k |-> 1, copied |-> 0, told |-> 0, outcome |-> "none",
                           interrupted |-> FALSE, code |-> 255]
  /\ manifest' = NoManifest /\ raw' = {} /\ out' = <<>>
  /\ UNCHANGED engine

\* request_cancel touches the file and disables its buttons.
RequestCancel ==
  /\ WindowIdle /\ window.active /\ ~cancelFile
  /\ cancelFile' = TRUE
  /\ window' = [window EXCEPT !.status = "stopping"]
  /\ UNCHANGED <<suite, engine, manifest, raw, out, runs, faults>>

\* closeEvent: a running benchmark is cancelled and the close is put off.
Close ==
  /\ WindowIdle
  /\ IF window.active
     THEN /\ window' = [window EXCEPT !.closing = TRUE, !.status = "stopping"]
          /\ cancelFile' = TRUE
     ELSE /\ window' = [window EXCEPT !.closing = TRUE, !.open = FALSE]
          /\ UNCHANGED cancelFile
  /\ UNCHANGED <<suite, engine, manifest, raw, out, runs, faults>>

\* handle_event: a status other than running completes the module.
Shows(w, event) ==
  CASE event.type = "module" ->
         [w EXCEPT !.shown[event.module] = event.status,
                   !.completed = IF event.status = "running" THEN @ ELSE @ \cup {event.module}]
    [] event.type = "finished" /\ event.status = "cleanup_error" ->
         [w EXCEPT !.status = "cleanup_error"]
    [] OTHER -> w

ReadEvent ==
  /\ WindowIdle /\ window.active /\ out # <<>>
  /\ window' = Shows(window, Head(out))
  /\ out' = Tail(out)
  /\ UNCHANGED <<cancelFile, suite, engine, manifest, raw, runs, faults>>

\* Mutants: the exit code alone decides; a put-off close is forgotten.
FinishedWithoutReading ==
  /\ WindowIdle /\ window.active /\ suite.pc = "exited"
  /\ window' = [window EXCEPT !.active = FALSE, !.open = ~window.closing,
       !.shown = [m \in Modules |-> IF m \in window.completed THEN window.shown[m] ELSE "failed"],
       !.status = IF suite.code = 0 THEN "passed" ELSE "incomplete"]
  /\ out' = <<>> /\ cancelFile' = FALSE
  /\ suite' = [suite EXCEPT !.pc = "off"]
  /\ UNCHANGED <<engine, manifest, raw, runs, faults>>
FinishedStaysOpen ==
  /\ WindowIdle /\ window.active /\ suite.pc = "exited"
  /\ window' = [window EXCEPT !.active = FALSE, !.closing = FALSE]
  /\ out' = <<>> /\ cancelFile' = FALSE
  /\ suite' = [suite EXCEPT !.pc = "off"]
  /\ UNCHANGED <<engine, manifest, raw, runs, faults>>

\* The rest of the output, handled line by line: the last event about a module
\* is what it shows, and any that is not "running" completes it.
About(m) == {i \in 1..Len(out) : out[i].type = "module" /\ out[i].module = m}
Told(m) == IF About(m) = {} THEN window.shown[m] ELSE out[Max(About(m))].status
Completed == window.completed \cup {m \in Modules : \E i \in About(m) : out[i].status # "running"}
CleanupFailed ==
  \/ window.status = "cleanup_error"
  \/ \E i \in 1..Len(out) : out[i].type = "finished" /\ out[i].status = "cleanup_error"

\* finished: the rest of the output; a module without a result failed; then the
\* exit code, and the close that was put off.
Finished ==
  /\ WindowIdle /\ window.active /\ suite.pc = "exited"
  /\ window' = [window EXCEPT
       !.active = FALSE,
       !.open = ~window.closing,
       !.completed = Completed,
       !.shown = [m \in Modules |-> IF m \in Completed THEN Told(m) ELSE "failed"],
       !.status = IF suite.code = 0 THEN IF CleanupFailed THEN "cleanup_error" ELSE "passed"
                  ELSE IF suite.code = 130 THEN "interrupted" ELSE "incomplete"]
  /\ out' = <<>> /\ cancelFile' = FALSE
  /\ suite' = [suite EXCEPT !.pc = "off"]
  /\ UNCHANGED <<engine, manifest, raw, runs, faults>>

WindowDies ==
  /\ WindowIdle /\ window.active
  /\ Fault
  /\ window' = [window EXCEPT !.alive = FALSE]
  /\ UNCHANGED <<cancelFile, suite, engine, manifest, raw, out, runs>>

Window == Begin \/ RequestCancel \/ Close \/ ReadEvent \/ Finished \/ WindowDies

-----------------------------------------------------------------------------
(* The runner: run_suite.                                                  *)

windowVars == <<window, cancelFile, runs>>
Goto(pc) == suite' = [suite EXCEPT !.pc = pc]
Settle(outcome) == suite' = [suite EXCEPT !.pc = "settle", !.outcome = outcome]

\* Cancellation(): the cancel file, or the window's process gone.
Cancelled == cancelFile \/ ~window.alive

\* KeyboardInterrupt caught by the module's except clause.
Interrupt == suite' = [suite EXCEPT !.pc = "settle", !.outcome = "interrupted",
                                    !.interrupted = TRUE]

\* The archive directory and the run event: no manifest yet.
Boot ==
  /\ suite.pc = "boot"
  /\ IF EmitWorks THEN Goto("announce") ELSE Exit(1)
  /\ UNCHANGED <<windowVars, engine, manifest, raw, out, faults>>

\* An execution is recorded as running before it is shown as running.
Announce ==
  /\ suite.pc = "announce"
  /\ manifest' = [manifest EXCEPT !.writer = TRUE,
       !.rows = [m \in Modules |-> IF m \in Range(Names) THEN "running" ELSE @[m]]]
  /\ suite' = [suite EXCEPT !.pc = "announced", !.told = 0]
  /\ UNCHANGED <<windowVars, engine, raw, out, faults>>

\* One event per module served, first that it runs and later what became of it;
\* after the last one the runner goes on.
TellModule ==
  /\ suite.pc \in {"announced", "settled"}
  /\ IF EmitWorks
     THEN /\ out' = Append(out, [type |-> "module", module |-> Names[suite.told + 1],
                       status |-> IF suite.pc = "announced" THEN "running" ELSE suite.outcome])
          /\ suite' = IF suite.told + 1 < Len(Names) THEN [suite EXCEPT !.told = @ + 1]
                      ELSE IF suite.pc = "announced" THEN [suite EXCEPT !.pc = "check"]
                      ELSE IF suite.k < Len(Plan) THEN [suite EXCEPT !.pc = "announce", !.k = @ + 1]
                      ELSE [suite EXCEPT !.pc = "judge"]
     ELSE Exit(1) /\ UNCHANGED out
  /\ UNCHANGED <<windowVars, engine, manifest, raw, faults>>

Check ==
  /\ suite.pc = "check"
  /\ IF suite.interrupted THEN Settle("skipped")
     ELSE IF Cancelled THEN Interrupt
     ELSE Goto(IF SkipBuild THEN "start" ELSE "build")
  /\ UNCHANGED <<windowVars, engine, manifest, raw, out, faults>>

\* run_command: start a process ...
Build ==
  /\ suite.pc = "build"
  /\ engine' = TRUE /\ Goto("compile")
  /\ UNCHANGED <<windowVars, manifest, raw, out, faults>>

\* The binary is hashed and started: either may be missing.
Start ==
  /\ suite.pc = "start"
  /\ \/ engine' = TRUE /\ Goto("measure")
     \/ Settle("failed") /\ UNCHANGED engine
  /\ UNCHANGED <<windowVars, manifest, raw, out, faults>>

\* Mutant: a cancelled command is left running.
WaitForCommandOnly ==
  /\ suite.pc \in {"compile", "measure"}
  /\ \/ Cancelled /\ Interrupt /\ UNCHANGED engine
     \/ engine' = FALSE /\ ~Cancelled /\ Settle("timeout")
  /\ UNCHANGED <<windowVars, manifest, raw, out, faults>>

\* ... and poll it: cancelled or out of time it is stopped with its descendants.
WaitForCommand ==
  /\ suite.pc \in {"compile", "measure"}
  /\ engine' = FALSE
  /\ \/ Cancelled /\ Interrupt
     \/ ~Cancelled /\ Settle("timeout")
  /\ UNCHANGED <<windowVars, manifest, raw, out, faults>>

Compiled ==
  /\ suite.pc = "compile"
  /\ engine' = FALSE
  /\ Goto("start") \/ Settle("build_failed")
  /\ UNCHANGED <<windowVars, manifest, raw, out, faults>>

\* The engine's exit code: 77 is unsupported, any other failure excludes its data.
Measured ==
  /\ suite.pc = "measure"
  /\ engine' = FALSE
  /\ Goto("validate") \/ Settle("unsupported") \/ Settle("failed")
  /\ UNCHANGED <<windowVars, manifest, raw, out, faults>>

Validate ==
  /\ suite.pc = "validate"
  /\ Settle("invalid_report") \/ suite' = [suite EXCEPT !.pc = "copy", !.copied = 0]
  /\ UNCHANGED <<windowVars, engine, manifest, raw, out, faults>>

\* Mutant: only the first module of a shared execution is published.
PublishFirst ==
  /\ suite.pc = "copy"
  /\ raw' = raw \cup {Names[1]} /\ Settle("passed")
  /\ UNCHANGED <<windowVars, engine, manifest, out, faults>>

\* The report of each module served, then samples and sidecars; a copy may fail.
Publish ==
  /\ suite.pc = "copy"
  /\ \/ /\ suite.copied < Len(Names)
        /\ raw' = raw \cup {Names[suite.copied + 1]}
        /\ suite' = [suite EXCEPT !.copied = @ + 1]
        /\ UNCHANGED faults
     \/ suite.copied = Len(Names) /\ Settle("passed") /\ UNCHANGED <<raw, faults>>
     \/ Fault /\ Settle("failed") /\ UNCHANGED raw
  /\ UNCHANGED <<windowVars, engine, manifest, out>>

\* Mutant: an interrupt ends the module only.
InterruptModuleOnly ==
  /\ Running /\ Fault
  /\ IF InTry THEN engine' = FALSE /\ Settle("interrupted")
     ELSE Exit(1) /\ UNCHANGED engine
  /\ UNCHANGED <<windowVars, manifest, raw, out>>

\* SIGINT: inside a module's try block an interruption, elsewhere the end.
Signal ==
  /\ Running /\ Fault
  /\ IF InTry THEN engine' = FALSE /\ Interrupt
     ELSE Exit(1) /\ UNCHANGED engine
  /\ UNCHANGED <<windowVars, manifest, raw, out>>

\* finally: the progress line, then the manifest.  The events follow, and a SIGINT
\* may end the runner before the first or between two of them.
Record ==
  /\ suite.pc = "settle"
  /\ IF EmitWorks
     THEN /\ manifest' = [manifest EXCEPT
               !.rows = [m \in Modules |-> IF m \in Range(Names) THEN suite.outcome ELSE @[m]]]
          /\ suite' = [suite EXCEPT !.pc = "settled", !.told = 0]
     ELSE Exit(1) /\ UNCHANGED manifest
  /\ UNCHANGED <<windowVars, engine, raw, out, faults>>

Rows == {manifest.rows[m] : m \in Modules}
Success == "passed" \in Rows /\ Rows \subseteq {"passed", "unsupported"}

Judge ==
  /\ suite.pc = "judge"
  /\ manifest' = [manifest EXCEPT !.finished = TRUE, !.success = Success]
  /\ Goto("report")
  /\ UNCHANGED <<windowVars, engine, raw, out, faults>>

\* The report process (which nothing cancels), the writer, the retention.  A
\* report process that takes too long ends the runner.
Report ==
  /\ suite.pc = "report"
  /\ \/ /\ manifest' = [manifest EXCEPT !.html = TRUE, !.writer = FALSE]
        /\ Goto("latest")
     \/ manifest' = [manifest EXCEPT !.writer = FALSE] /\ Exit(1)
     \/ UNCHANGED manifest /\ Exit(1)
  /\ UNCHANGED <<windowVars, engine, raw, out, faults>>

ExitCode == IF suite.interrupted THEN 130
            ELSE IF Rows = {"unsupported"} THEN 77
            ELSE IF manifest.success THEN 0 ELSE 1

\* The latest copy, the finished event, the exit code.
Latest ==
  /\ suite.pc = "latest"
  /\ \/ Fault /\ Exit(1) /\ UNCHANGED out
     \/ ~EmitWorks /\ Exit(1) /\ UNCHANGED <<out, faults>>
     \/ /\ EmitWorks
        /\ \E cleanup \in {"ok", "cleanup_error"} :
             out' = Append(out, [type |-> "finished", module |-> "none", status |-> cleanup])
        /\ Exit(ExitCode) /\ UNCHANGED faults
  /\ UNCHANGED <<windowVars, engine, manifest, raw>>

Runner == Boot \/ Announce \/ TellModule \/ Check \/ Build \/ Start \/ WaitForCommand \/ Compiled
          \/ Measured \/ Validate \/ Publish \/ Record \/ Judge \/ Report \/ Latest

\* Nothing is left to do: the window closed or gone, the runner ended.
Rest ==
  /\ ~Running \/ suite.pc = "exited"
  /\ ~window.alive \/ ~window.open
  /\ UNCHANGED vars

Next == Window \/ Runner \/ Signal \/ Rest

Spec == Init /\ [][Next]_vars

\* The runner's loop runs and every command has a time limit; Qt delivers the
\* end of the process.  Nothing is assumed of the user or of faults.
FairSpec == Spec /\ WF_vars(Runner) /\ WF_vars(Finished)

-----------------------------------------------------------------------------
(* Properties.                                                             *)

Outcomes == {"passed", "unsupported", "failed", "invalid_report", "build_failed",
             "timeout", "interrupted", "skipped"}

TypeOK ==
  /\ window \in [alive : BOOLEAN, open : BOOLEAN, closing : BOOLEAN, active : BOOLEAN,
       status : {"ready", "running", "stopping", "passed", "interrupted", "incomplete",
                 "cleanup_error"},
       completed : SUBSET Modules,
       shown : [Modules -> Outcomes \cup {"ready", "queued", "running"}]]
  /\ cancelFile \in BOOLEAN /\ engine \in BOOLEAN
  /\ suite \in [pc : {"off", "boot", "announce", "announced", "check", "build", "compile", "start",
                      "measure", "validate", "copy", "settle", "settled", "judge", "report",
                      "latest", "exited"},
                k : 1..Len(Plan), copied : Nat, told : Nat, outcome : Outcomes \cup {"none"},
                interrupted : BOOLEAN, code : {0, 1, 77, 130, 255}]
  /\ suite.pc = "copy" => suite.copied <= Len(Names)
  /\ suite.pc \in {"announced", "settled"} => suite.told < Len(Names)
  /\ manifest \in [rows : [Modules -> Outcomes \cup {"absent", "running"}],
                   finished : BOOLEAN, success : BOOLEAN, writer : BOOLEAN, html : BOOLEAN]
  /\ raw \in SUBSET Modules
  /\ out \in Seq([type : {"module", "finished"}, module : Modules \cup {"none"},
                  status : Outcomes \cup {"running", "ok", "cleanup_error"}])
  /\ runs \in 0..MaxRuns /\ faults \in 0..MaxFaults

\* When a run is over the window shows of every module what the archive says, and
\* "failed" for one the runner never settled.  The one exception: the runner died
\* between saving an outcome and telling it.  Then the window shows that module as
\* failed and the run as incomplete, and the archive is not finished either.
ShownIsArchived ==
  window.alive /\ ~window.active /\ runs > 0 =>
    \A i \in 1..Len(Plan) : \A m \in Range(Plan[i]) :
      \/ window.shown[m] = IF manifest.rows[m] \in Outcomes THEN manifest.rows[m] ELSE "failed"
      \/ /\ window.shown[m] = "failed" /\ window.status = "incomplete"
         /\ i = suite.k /\ ~manifest.finished

\* A module the archive calls passed has its report in the raw directory, the
\* peer of a shared execution too.  Part of SuiteIsSound.
PassedIsPublished ==
  \A m \in Modules : manifest.rows[m] = "passed" => m \in raw

\* Once a module is recorded as interrupted, by a cancel or by a signal, no
\* engine runs any more in this run and every later execution is skipped or interrupted in turn.
InterruptedStartsNothing ==
  \A i \in 1..Len(Plan) : \A m \in Range(Plan[i]) : manifest.rows[m] = "interrupted" =>
    /\ ~engine
    /\ \A j \in (i + 1)..Len(Plan) : \A n \in Range(Plan[j]) :
         manifest.rows[n] \in {"absent", "running", "skipped", "interrupted"}

\* The window shows success only for an archive that is finished, successful,
\* released and has its HTML report.  Part of SuiteIsSound.
SuccessIsArchived ==
  ~window.active /\ window.status \in {"passed", "cleanup_error"} =>
    /\ manifest.finished /\ manifest.success /\ ~manifest.writer /\ manifest.html
    /\ Success

\* What the archive and the window call passed is there, whatever failed on the
\* way (run_suite's publication and verdict).
SuiteIsSound == TypeOK /\ PassedIsPublished /\ SuccessIsArchived

\* However the runner ends, it leaves no engine behind.
NoEngineLeft == ~Running => ~engine

\* A window asked to close does close, as soon as the run it cancelled has ended.
CloseEnds == window.closing ~> (~window.open \/ ~window.alive)

\* run_benchmarks.py:4: only successful reports are published to the raw
\* directory.  A report there belongs to a module recorded as passed, once the
\* runner has moved on.
OnlyPassedPublished ==
  \A m \in raw : manifest.rows[m] \in Outcomes => manifest.rows[m] = "passed"
=============================================================================
