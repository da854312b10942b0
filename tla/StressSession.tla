--------------------------- MODULE StressSession ---------------------------
(***************************************************************************)
(* One stress test, seen by the three parties that share it: the desktop   *)
(* page that asks (desktop_stress.StressPage), the supervisor process that *)
(* owns the session (run_stress.run_session) and the load processes it     *)
(* starts (stress_cpu, the GPU worker).                                    *)
(*                                                                         *)
(* The page talks to the supervisor through one file, request.json, which  *)
(* it replaces atomically; the supervisor polls it and answers with events *)
(* on its standard output.  A child's output line waits in its pipe until  *)
(* the supervisor's reader thread puts it in the event queue.              *)
(*                                                                         *)
(* Time is abstracted to choices: the duration limit, the 15 s GPU         *)
(* heartbeat, the 8 s snapshot age and the page's 8 s force-stop timer may *)
(* each expire at any moment their condition allows.                       *)
(***************************************************************************)
EXTENDS Naturals, Sequences

CONSTANTS
  CpuModes,      \* the load modes stress_cpu runs; "ram" is one of them
  FirstBoxes,    \* the mode boxes checked when the page opens
  MaxSessions,   \* bound: sessions started
  MaxToggles,    \* bound: mode check boxes toggled
  MaxFaults      \* bound: crashes, hangs, failed writes and failed starts

ASSUME CpuModesAssumption == "ram" \in CpuModes /\ "gpu" \notin CpuModes
ASSUME BoundsAssumption ==
  /\ FirstBoxes \subseteq CpuModes \cup {"gpu"}
  /\ MaxSessions \in Nat \ {0}
  /\ MaxToggles \in Nat
  /\ MaxFaults \in Nat

Modes == CpuModes \cup {"gpu"}

VARIABLES
  gui,       \* the page: is a session active, its generation, status, boxes, timers
  request,   \* content of request.json
  sup,       \* the supervisor: where it is, the modes it applied, its verdict
  cpu,       \* the stress_cpu child of the running supervisor
  mask,      \* the modes stress_cpu was last told
  gpu,       \* the GPU child of the running supervisor
  orphans,   \* load processes whose supervisor no longer tracks them
  pipe,      \* per child: the line its reader thread has not queued yet
  queue,     \* run_session's events queue
  out,       \* supervisor events the page has not read yet
  manifest,  \* manifest.json of the session's archive
  preview,   \* is the shared sensor worker of the page running
  toggles, faults,  \* what the bounds count
  asked      \* history: the page asked this session to stop

vars == <<gui, request, sup, cpu, mask, gpu, orphans, pipe, queue, out,
          manifest, preview, toggles, faults, asked>>

load     == <<cpu, mask, gpu, orphans>>
channels == <<pipe, queue>>
bounds   == <<toggles, faults>>

NoRequest     == [kind |-> "none", modes |-> {}]
StopRequest   == [kind |-> "stop", modes |-> {}]
ModeRequest(S) == [kind |-> "modes", modes |-> S]

NoManifest == [status |-> "none", reason |-> "none", writer |-> FALSE, report |-> FALSE]

Errors  == {"calculation_error", "memory_error", "backend_error"}
Reasons == Errors \cup {"user_stop", "duration_stop", "parent_exit", "thermal_stop"}

Line(from, text) == [from |-> from, text |-> text, old |-> FALSE]

SupAlive == sup.pc \notin {"off", "exited", "aborted"}
InLoop   == sup.pc \in {"poll", "drain", "check", "sample"}
InTry    == sup.pc \in {"start", "apply"} \/ InLoop
InFinally == sup.pc \in {"stop", "write", "publish"}

Init ==
  /\ gui = [alive |-> TRUE, active |-> FALSE, gen |-> 0, status |-> "idle",
            want |-> FirstBoxes, timers |-> {}, killing |-> FALSE]
  /\ request = NoRequest
  /\ sup = [pc |-> "off", modes |-> {}, target |-> {}, last |-> NoRequest,
            reason |-> "user_stop", failed |-> FALSE, escaped |-> FALSE,
            beat |-> "fresh", signal |-> FALSE, unsaved |-> FALSE]
  /\ cpu = "none" /\ gpu = "none" /\ mask = {} /\ orphans = {}
  /\ pipe = [c \in {"cpu", "gpu"} |-> <<>>]
  /\ queue = <<>> /\ out = <<>>
  /\ manifest = NoManifest
  /\ preview = FALSE
  /\ toggles = 0 /\ faults = 0
  /\ asked = FALSE

\* event() prints to a pipe only the page reads: without the page it raises
\* BrokenPipeError, an OSError.  Inside the try block that is a failure of the
\* session; before it, or in the finally clause, it ends the process there.
EmitWorks == gui.alive
Abort == sup' = [sup EXCEPT !.pc = "aborted", !.failed = TRUE, !.signal = FALSE]

Fault == faults < MaxFaults /\ faults' = faults + 1

\* What run_session does not catch ends the process where it is: anything before
\* the try block, a manifest that cannot be written in the finally clause.
Uncaught ==
  /\ Fault
  /\ sup' = [sup EXCEPT !.pc = "aborted", !.failed = TRUE, !.signal = FALSE, !.unsaved = TRUE]

-----------------------------------------------------------------------------
(* The page.  kill_tree is synchronous: while it runs nothing else of the  *)
(* page does.                                                              *)

PageIdle == gui.alive /\ ~gui.killing

\* StressPage.start: a fresh control directory, a supervisor with the checked
\* modes, and the preview whose snapshot the supervisor will read.
Start ==
  /\ PageIdle /\ ~gui.active /\ gui.gen < MaxSessions
  /\ gui' = [gui EXCEPT !.active = TRUE, !.gen = @ + 1, !.status = "running"]
  /\ request' = NoRequest
  /\ sup' = [pc |-> "boot", modes |-> gui.want, target |-> gui.want,
             last |-> NoRequest, reason |-> "user_stop", failed |-> FALSE,
             escaped |-> FALSE, beat |-> "fresh", signal |-> FALSE,
             unsaved |-> FALSE]
  /\ manifest' = NoManifest
  /\ preview' = TRUE
  /\ asked' = FALSE
  /\ UNCHANGED <<load, channels, out, bounds>>

\* Mutant: no force-stop timer.
AskWithoutTimer(g, wrote) ==
  /\ gui' = g
  /\ request' = IF wrote THEN StopRequest ELSE request
  /\ sup' = IF wrote THEN sup ELSE [sup EXCEPT !.signal = SupAlive]
  /\ asked' = TRUE

\* StressPage.stop: status, request (or SIGTERM when the write fails) and a
\* force-stop timer that remembers the generation.
AskToStop(g, wrote) ==
  /\ gui' = [g EXCEPT !.timers = @ \cup {g.gen}]
  /\ request' = IF wrote THEN StopRequest ELSE request
  /\ sup' = IF wrote THEN sup ELSE [sup EXCEPT !.signal = SupAlive]
  /\ asked' = TRUE

Stop ==
  /\ PageIdle /\ gui.active
  /\ \/ AskToStop([gui EXCEPT !.status = "stopping"], TRUE) /\ UNCHANGED faults
     \/ AskToStop([gui EXCEPT !.status = "stopping"], FALSE) /\ Fault
  /\ UNCHANGED <<load, channels, out, manifest, preview, toggles>>

\* StressPage.change_modes, called by a check box: replaces the request file.
Toggle(m) ==
  LET want == IF m \in gui.want THEN gui.want \ {m} ELSE gui.want \cup {m}
      g    == [gui EXCEPT !.want = want]
  IN  /\ PageIdle /\ toggles < MaxToggles
      /\ toggles' = toggles + 1
      /\ \/ /\ gui.active
            /\ gui' = g /\ request' = ModeRequest(want)
            /\ UNCHANGED <<sup, asked, faults>>
         \/ /\ gui.active
            /\ AskToStop([g EXCEPT !.status = "stopping"], FALSE) /\ Fault
         \/ /\ ~gui.active
            /\ gui' = g
            /\ UNCHANGED <<request, sup, asked, faults>>
      /\ UNCHANGED <<load, channels, out, manifest, preview>>

\* Mutant: the timer does not compare generations.
TimerOfAnySession(g) ==
  /\ PageIdle /\ g \in gui.timers /\ gui.active /\ SupAlive
  /\ gui' = [gui EXCEPT !.timers = @ \ {g}, !.killing = TRUE]
  /\ cpu' = IF cpu = "none" THEN "none" ELSE "gone"
  /\ gpu' = IF gpu = "none" THEN "none" ELSE "gone"
  /\ UNCHANGED <<request, sup, mask, orphans, channels, out, manifest, preview,
                 bounds, asked>>

\* force_stop: a timer of another generation does nothing; otherwise kill_tree
\* lists and kills the children first ...
TimerFires(g) ==
  /\ PageIdle /\ g \in gui.timers
  /\ IF gui.active /\ g = gui.gen /\ SupAlive
     THEN /\ gui' = [gui EXCEPT !.timers = @ \ {g}, !.killing = TRUE]
          /\ cpu' = IF cpu \in {"up", "bad"} THEN "gone" ELSE cpu
          /\ gpu' \in IF gpu = "none" THEN {"none"}
                      ELSE IF gpu = "hung" THEN {"hung", "gone"} ELSE {"gone"}
     ELSE /\ gui' = [gui EXCEPT !.timers = @ \ {g}]
          /\ UNCHANGED <<cpu, gpu>>
  /\ UNCHANGED <<request, sup, mask, orphans, channels, out, manifest, preview,
                 bounds, asked>>

\* What the death of the supervisor leaves running, and the fresh pipes and
\* queue: both lived in the supervisor.
Abandon ==
  /\ orphans' = orphans \cup (IF cpu \in {"up", "bad"} THEN {"cpu"} ELSE {})
                        \cup (IF gpu \in {"up", "failing"} THEN {"gpu"} ELSE {})
                        \cup (IF gpu = "hung" THEN {"hung"} ELSE {})
  /\ cpu' = "none" /\ gpu' = "none" /\ mask' = {}
  /\ pipe' = [c \in {"cpu", "gpu"} |-> <<>>] /\ queue' = <<>>

\* ... and the supervisor last; a child it started in between survives.
KillParent ==
  /\ gui.alive /\ gui.killing
  /\ gui' = [gui EXCEPT !.killing = FALSE]
  /\ IF SupAlive
     THEN Abort /\ Abandon
     ELSE UNCHANGED <<sup, load, channels>>
  /\ UNCHANGED <<request, out, manifest, preview, bounds, asked>>

\* StressPage.handle on one supervisor event.
StatusAfter(event) ==
  IF event.type = "finished" THEN event.reason ELSE "running"

ReadEvent ==
  /\ PageIdle /\ gui.active /\ out # <<>>
  /\ gui' = [gui EXCEPT !.status = StatusAfter(Head(out))]
  /\ out' = Tail(out)
  /\ UNCHANGED <<request, sup, load, channels, manifest, preview, bounds, asked>>

\* Mutant: the exit code alone decides, as long as the process did exit.
FinishedWithoutReading ==
  /\ PageIdle /\ gui.active /\ sup.pc \in {"exited", "aborted"}
  /\ gui' = [gui EXCEPT !.active = FALSE,
       !.status = IF sup.pc = "aborted" THEN "backend_error" ELSE "stopped"]
  /\ out' = <<>> /\ request' = NoRequest
  /\ sup' = [sup EXCEPT !.pc = "off"]
  /\ preview' \in BOOLEAN
  /\ UNCHANGED <<load, channels, manifest, bounds, asked>>

\* StressPage.finished: the rest of the output first, of which the last event
\* decides, then the exit code.
Finished ==
  /\ PageIdle /\ gui.active /\ sup.pc \in {"exited", "aborted"}
  /\ LET read == IF out = <<>> THEN gui.status ELSE StatusAfter(out[Len(out)])
         code == sup.pc = "aborted" \/ sup.failed \/ sup.escaped
     IN  gui' = [gui EXCEPT
           !.active = FALSE,
           !.status = IF read \in {"running", "stopping"}
                      THEN IF code THEN "backend_error" ELSE "stopped"
                      ELSE read]
  /\ out' = <<>> /\ request' = NoRequest
  /\ sup' = [sup EXCEPT !.pc = "off"]
  /\ preview' \in BOOLEAN
  /\ UNCHANGED <<load, channels, manifest, bounds, asked>>

\* The sensor worker dies during a session: preview_finished calls stop() and
\* then shows backend_error.
PreviewDies ==
  /\ PageIdle /\ gui.active /\ preview
  /\ Fault
  /\ preview' = FALSE
  /\ AskToStop([gui EXCEPT !.status = "backend_error"], TRUE)
  /\ UNCHANGED <<load, channels, out, manifest, toggles>>

\* The desktop process dies; its sensor worker follows it.
PageDies ==
  /\ PageIdle /\ gui.active
  /\ Fault
  /\ gui' = [gui EXCEPT !.alive = FALSE, !.timers = {}]
  /\ preview' = FALSE
  /\ UNCHANGED <<request, sup, load, channels, out, manifest, toggles, asked>>

Page == \/ Start \/ Stop \/ KillParent \/ ReadEvent \/ Finished
        \/ PreviewDies \/ PageDies
        \/ \E m \in Modes : Toggle(m)
        \/ \E g \in gui.timers : TimerFires(g)

-----------------------------------------------------------------------------
(* The supervisor: run_session.                                            *)

Goto(pc) == sup' = [sup EXCEPT !.pc = pc]

\* Leaving the loop: by a break, or by an exception run_session catches.
Leave(reason) == sup' = [sup EXCEPT !.pc = "stop", !.reason = reason]
Fail(reason)  == sup' = [sup EXCEPT !.pc = "stop", !.reason = reason, !.failed = TRUE]

pageVars == <<gui, request, preview, toggles, asked>>

\* The probe, the validation, a new directory, its manifest and the stress_run
\* event, all before the try block.  A process that cannot be started, settings
\* that are refused and a directory that cannot be made leave no archive.
Boot ==
  /\ sup.pc = "boot" /\ ~sup.signal
  /\ \/ Uncaught /\ UNCHANGED manifest
     \/ /\ manifest' = [status |-> "running", reason |-> "none", writer |-> TRUE, report |-> FALSE]
        /\ IF EmitWorks THEN Goto("start") ELSE Abort
        /\ UNCHANGED faults
  /\ UNCHANGED <<pageVars, load, channels, out>>

SpawnCpu ==
  /\ sup.pc = "start"
  /\ \/ cpu' = "up" /\ mask' = {} /\ Goto("apply") /\ UNCHANGED faults
     \/ Fault /\ Fail("backend_error") /\ UNCHANGED <<cpu, mask>>
  /\ UNCHANGED <<pageVars, gpu, orphans, channels, out, manifest>>

\* What is left of a GPU child's output once stop() has joined its reader.
Drained == [i \in 1..Len(queue \o pipe["gpu"]) |->
             LET l == (queue \o pipe["gpu"])[i]
             IN  IF l.from = "gpu" THEN [l EXCEPT !.old = TRUE] ELSE l]

\* change(): budget, then the CPU mask, then the GPU child, then the record of
\* the switch.  Each step can raise and leave the earlier ones done.
NoMemory ==
  /\ "ram" \in sup.target
  /\ Fault /\ Fail("memory_error")
  /\ UNCHANGED <<cpu, mask, gpu, orphans, channels>>

BrokenPipe ==
  /\ cpu = "gone"
  /\ Fail("backend_error")
  /\ UNCHANGED <<cpu, mask, gpu, orphans, channels, faults>>

\* Mutant: no new mask while the GPU takes part.
TellCpuAlone ==
  /\ cpu \in {"up", "bad"} /\ cpu' = cpu
  /\ mask' = IF "gpu" \in sup.target THEN mask ELSE sup.target \cap CpuModes

TellCpu ==
  /\ cpu \in {"up", "bad"}
  /\ mask' = sup.target \cap CpuModes
  \* a failed stress_cpu sits in fgets: any line lets its main loop end
  /\ cpu' = IF cpu = "bad" THEN "gone" ELSE cpu

Applied(beat) ==
  sup' = [sup EXCEPT !.modes = sup.target, !.beat = beat,
                     !.pc = IF EmitWorks THEN "drain" ELSE "stop",
                     !.reason = IF EmitWorks THEN @ ELSE "backend_error",
                     !.failed = ~EmitWorks]

SpawnGpu ==
  /\ "gpu" \in sup.target /\ gpu = "none"
  /\ TellCpu
  /\ \/ gpu' = "up" /\ Applied("fresh") /\ UNCHANGED faults
     \/ Fault /\ Fail("backend_error") /\ UNCHANGED gpu
  /\ UNCHANGED <<orphans, channels>>

StopGpu ==
  /\ "gpu" \notin sup.target /\ gpu # "none"
  /\ TellCpu
  /\ gpu' = "none"
  /\ \/ Applied(sup.beat) /\ UNCHANGED orphans
     \* stop_process_tree's TimeoutExpired is not in run_session's except clause
     \/ /\ gpu = "hung"
        /\ sup' = [sup EXCEPT !.pc = "stop", !.escaped = TRUE]
        /\ orphans' = orphans \cup {"hung"}
  /\ queue' = Drained /\ pipe' = [pipe EXCEPT !["gpu"] = <<>>]
  /\ UNCHANGED faults

KeepGpu ==
  /\ ("gpu" \in sup.target) = (gpu # "none")
  /\ TellCpu /\ Applied(sup.beat)
  /\ UNCHANGED <<gpu, orphans, channels, faults>>

Change ==
  /\ sup.pc = "apply"
  /\ NoMemory \/ BrokenPipe \/ SpawnGpu \/ StopGpu \/ KeepGpu
  /\ UNCHANGED <<pageVars, out, manifest>>

\* Mutant: a request replaced within one time stamp of the last is not seen.
PollByTimestamp ==
  /\ sup.pc = "poll"
  /\ IF request # NoRequest /\ sup.last = NoRequest
     THEN sup' = [sup EXCEPT !.last = request, !.target = request.modes,
            !.pc = IF request.kind = "stop" THEN "stop" ELSE "apply"]
     ELSE Goto("drain")
  /\ UNCHANGED <<pageVars, load, channels, out, manifest, faults>>

\* One turn of the 50 ms loop: parent, duration limit, control file ...
Poll ==
  /\ sup.pc = "poll"
  /\ \/ ~gui.alive /\ Leave("parent_exit")
     \/ gui.alive /\ Leave("duration_stop")
     \/ gui.alive /\ request \in {NoRequest, sup.last} /\ Goto("drain")
     \/ /\ gui.alive /\ request \notin {NoRequest, sup.last}
        /\ sup' = [sup EXCEPT
             !.last = request,
             !.target = request.modes,
             !.pc = CASE request.kind = "stop" -> "stop"
                      [] request.kind = "modes" /\ request.modes # sup.modes -> "apply"
                      [] OTHER -> "drain",
             !.reason = "user_stop"]
  /\ UNCHANGED <<pageVars, load, channels, out, manifest, faults>>

\* Mutants: one line per turn; every line taken for a heartbeat.
DrainOneLine ==
  /\ sup.pc = "drain"
  /\ queue' = IF queue = <<>> THEN <<>> ELSE Tail(queue)
  /\ IF queue = <<>> \/ Head(queue).text = "ready" THEN Goto("check")
     ELSE Fail(Head(queue).text)
  /\ UNCHANGED <<pageVars, load, pipe, out, manifest, faults>>
DrainBeats ==
  /\ sup.pc = "drain"
  /\ queue' = <<>> /\ Goto("check")
  /\ UNCHANGED <<pageVars, load, pipe, out, manifest, faults>>

\* ... every queued line, oldest first ...
Drain ==
  /\ sup.pc = "drain"
  /\ IF queue = <<>> THEN Goto("check") /\ UNCHANGED queue
     ELSE /\ queue' = Tail(queue)
          /\ IF Head(queue).text = "ready"
             THEN sup' = [sup EXCEPT !.beat = "fresh"]
             ELSE Fail(Head(queue).text)
  /\ UNCHANGED <<pageVars, load, pipe, out, manifest, faults>>

\* ... the children and the GPU heartbeat ...
Check ==
  /\ sup.pc = "check"
  /\ IF "gone" \in {cpu, gpu} \/ (gpu # "none" /\ sup.beat = "old")
     THEN Fail("backend_error")
     ELSE Goto("sample")
  /\ UNCHANGED <<pageVars, load, channels, out, manifest, faults>>

\* ... and once a second the shared snapshot: a critical temperature, eight
\* seconds without one or a sample that cannot be written end the session.
Sample ==
  /\ sup.pc = "sample"
  /\ \/ Goto("poll") /\ UNCHANGED <<out, faults>>
     \/ Fault /\ Fail("backend_error") /\ UNCHANGED out
     \/ /\ ~EmitWorks /\ Fail("backend_error") /\ UNCHANGED <<out, faults>>
     \/ /\ EmitWorks /\ Goto("poll")
        /\ out' = IF out = <<>> THEN <<[type |-> "sample", reason |-> "none"]>> ELSE out
        /\ UNCHANGED faults
     \/ preview /\ Fault /\ Fail("thermal_stop") /\ UNCHANGED out
     \/ ~preview /\ Fail("backend_error") /\ UNCHANGED <<out, faults>>
  /\ UNCHANGED <<pageVars, load, channels, manifest>>

\* SIGTERM raises KeyboardInterrupt: the except clause turns it into a user
\* stop, the finally clause has nothing to catch it with.
Interrupted ==
  /\ sup.signal
  /\ \/ /\ InTry
        /\ sup' = [sup EXCEPT !.pc = "stop", !.reason = "user_stop", !.signal = FALSE]
        /\ UNCHANGED <<load, channels>>
     \/ /\ InFinally \/ sup.pc = "boot"
        /\ Abort /\ Abandon
  /\ UNCHANGED <<pageVars, out, manifest, faults>>

\* Mutant: only the children of the first session start are stopped.
StopCpuOnly ==
  /\ sup.pc = "stop"
  /\ cpu' = "none" /\ mask' = {} /\ Goto("write")
  /\ UNCHANGED <<pageVars, gpu, orphans, channels, out, manifest, faults>>

\* finally: every child is stopped ...
StopChildren ==
  /\ sup.pc = "stop"
  /\ cpu' = "none" /\ gpu' = "none" /\ mask' = {}
  /\ \/ Goto("write") /\ UNCHANGED orphans
     \/ /\ gpu = "hung"
        /\ sup' = [sup EXCEPT !.pc = "write", !.reason = "backend_error", !.failed = TRUE]
        /\ orphans' = orphans \cup {"hung"}
  /\ pipe' = [c \in {"cpu", "gpu"} |-> <<>>] /\ queue' = <<>>
  /\ UNCHANGED <<pageVars, out, manifest, faults>>

\* ... then the verdict is announced, and written ...
WriteVerdict ==
  /\ sup.pc = "write"
  /\ \/ EmitWorks /\ Uncaught /\ UNCHANGED manifest
     \/ /\ EmitWorks /\ Goto("publish") /\ UNCHANGED faults
        /\ manifest' = [manifest EXCEPT !.reason = sup.reason,
                          !.status = IF sup.failed THEN "failed" ELSE "stopped"]
     \/ ~EmitWorks /\ Abort /\ UNCHANGED <<manifest, faults>>
  /\ UNCHANGED <<pageVars, load, channels, out>>

\* ... then the report, the manifest without its writer, and the last event.
Publish ==
  /\ sup.pc = "publish"
  /\ \/ Uncaught /\ UNCHANGED <<manifest, out>>
     \/ /\ \E built \in BOOLEAN :
             manifest' = [manifest EXCEPT !.report = built, !.writer = FALSE]
        /\ IF EmitWorks
           THEN /\ out' = Append(out, [type |-> "finished", reason |-> sup.reason])
                /\ Goto("exited")
           ELSE Abort /\ UNCHANGED out
        /\ UNCHANGED faults
  /\ UNCHANGED <<pageVars, load, channels>>

Supervisor == Boot \/ SpawnCpu \/ Change \/ Poll \/ Drain \/ Check \/ Sample
              \/ Interrupted \/ StopChildren \/ WriteVerdict \/ Publish

-----------------------------------------------------------------------------
(* The load processes and the reader threads.                              *)

childVars == <<cpu, gpu, pipe>>
restOfSystem == <<gui, request, sup, mask, orphans, queue, out, manifest,
                  preview, toggles, asked>>

\* failure(): one error line; the main thread stays in fgets, or leaves at
\* once when a worker thread could not be created.
CpuFails ==
  /\ cpu = "up" /\ pipe["cpu"] = <<>> /\ Fault
  /\ cpu' \in {"bad", "gone"}
  /\ \E e \in Errors : pipe' = [pipe EXCEPT !["cpu"] = <<Line("cpu", e)>>]
  /\ UNCHANGED <<restOfSystem, gpu>>

CpuCrashes ==
  /\ cpu \in {"up", "bad"} /\ Fault
  /\ cpu' = "gone"
  /\ UNCHANGED <<restOfSystem, gpu, pipe>>

\* At most one heartbeat is outstanding: it is a line a second against a loop
\* of 50 ms.
GpuBeats ==
  /\ gpu = "up" /\ pipe["gpu"] = <<>> /\ sup.pc = "check"
  /\ \A i \in 1..Len(queue) : queue[i].text # "ready"
  /\ pipe' = [pipe EXCEPT !["gpu"] = <<Line("gpu", "ready")>>]
  /\ UNCHANGED <<restOfSystem, cpu, gpu, faults>>

\* The GPU worker prints its error, then releases the device, then exits.
GpuFails ==
  /\ gpu = "up" /\ pipe["gpu"] = <<>> /\ Fault
  /\ gpu' = "failing"
  /\ \E e \in {"calculation_error", "backend_error"} :
       pipe' = [pipe EXCEPT !["gpu"] = <<Line("gpu", e)>>]
  /\ UNCHANGED <<restOfSystem, cpu>>

GpuExits ==
  /\ gpu = "failing"
  /\ gpu' = "gone"
  /\ UNCHANGED <<restOfSystem, cpu, pipe, faults>>

GpuCrashes ==
  /\ gpu = "up" /\ Fault
  /\ gpu' = "gone"
  /\ UNCHANGED <<restOfSystem, cpu, pipe>>

\* A hung device: no heartbeat any more, and SIGKILL may not reap it.
GpuHangs ==
  /\ gpu = "up" /\ Fault
  /\ gpu' = "hung"
  /\ UNCHANGED <<restOfSystem, cpu, pipe>>

BeatExpires ==
  /\ gpu = "hung" /\ sup.beat = "fresh" /\ pipe["gpu"] = <<>>
  /\ sup' = [sup EXCEPT !.beat = "old"]
  /\ UNCHANGED <<gui, request, load, channels, out, manifest, preview, bounds, asked>>

\* A reader thread moves its child's line to the queue.
ReadLine(c) ==
  /\ pipe[c] # <<>>
  /\ queue' = queue \o pipe[c]
  /\ pipe' = [pipe EXCEPT ![c] = <<>>]
  /\ UNCHANGED <<gui, request, sup, load, out, manifest, preview, bounds, asked>>

\* Mutant: a GPU worker that does not watch its parent.
OrphanCpuExits ==
  /\ "cpu" \in orphans
  /\ orphans' = orphans \ {"cpu"}
  /\ UNCHANGED <<gui, request, sup, cpu, mask, gpu, channels, out, manifest,
                 preview, bounds, asked>>

\* Without its supervisor stress_cpu reads end of file and the GPU worker sees
\* that its parent is gone.
OrphanExits ==
  /\ orphans \ {"hung"} # {}
  /\ orphans' = orphans \cap {"hung"}
  /\ UNCHANGED <<gui, request, sup, cpu, mask, gpu, channels, out, manifest,
                 preview, bounds, asked>>

Children == \/ CpuFails \/ CpuCrashes
            \/ GpuBeats \/ GpuFails \/ GpuExits \/ GpuCrashes \/ GpuHangs
            \/ BeatExpires \/ OrphanExits
            \/ \E c \in {"cpu", "gpu"} : ReadLine(c)

\* Nothing is left to do once no session can be started any more.
Rest ==
  /\ ~SupAlive /\ orphans \subseteq {"hung"}
  /\ gui.alive => ~gui.active /\ gui.gen = MaxSessions /\ ~gui.killing
  /\ UNCHANGED vars

Next == Page \/ Supervisor \/ Children \/ Rest

Spec == Init /\ [][Next]_vars

\* Python's scheduler runs the supervisor and its reader threads, Qt's event
\* loop runs the page's timers and process signals, an orderly child exits.
\* Nothing is assumed of the user, of the duration limit, of faults.
Fairness ==
  /\ WF_vars(Supervisor)
  /\ WF_vars(KillParent) /\ WF_vars(Finished) /\ WF_vars(ReadEvent)
  /\ \A g \in 1..MaxSessions : WF_vars(g \in gui.timers /\ TimerFires(g))
  /\ \A c \in {"cpu", "gpu"} : WF_vars(ReadLine(c))
  /\ WF_vars(GpuExits) /\ WF_vars(OrphanExits) /\ WF_vars(BeatExpires)

FairSpec == Spec /\ Fairness

-----------------------------------------------------------------------------
(* Properties.                                                             *)

RequestType == [kind : {"none", "stop", "modes"}, modes : SUBSET Modes]
LineType == [from : {"cpu", "gpu"}, text : Errors \cup {"ready"}, old : BOOLEAN]
EventType == [type : {"sample", "finished"}, reason : Reasons \cup {"none"}]

\* Types of every variable; the events queue stays far below its 128 slots.
TypeOK ==
  /\ gui \in [alive : BOOLEAN, active : BOOLEAN, gen : 0..MaxSessions,
              status : Reasons \cup {"idle", "running", "stopping", "stopped"},
              want : SUBSET Modes, timers : SUBSET (1..MaxSessions), killing : BOOLEAN]
  /\ request \in RequestType
  /\ sup \in [pc : {"off", "boot", "start", "apply", "poll", "drain", "check", "sample",
                    "stop", "write", "publish", "exited", "aborted"},
              modes : SUBSET Modes, target : SUBSET Modes, last : RequestType,
              reason : Reasons, failed : BOOLEAN, escaped : BOOLEAN,
              beat : {"fresh", "old"}, signal : BOOLEAN, unsaved : BOOLEAN]
  /\ cpu \in {"none", "up", "bad", "gone"}
  /\ gpu \in {"none", "up", "hung", "failing", "gone"}
  /\ mask \in SUBSET CpuModes
  /\ orphans \in SUBSET {"cpu", "gpu", "hung"}
  /\ pipe \in [{"cpu", "gpu"} -> Seq(LineType)]
  /\ queue \in Seq(LineType) /\ Len(queue) <= 2 * MaxFaults + 2
  /\ out \in Seq(EventType)
  /\ manifest \in [status : {"none", "running", "failed", "stopped"},
                   reason : Reasons \cup {"none"}, writer : BOOLEAN, report : BOOLEAN]
  /\ preview \in BOOLEAN /\ asked \in BOOLEAN
  /\ toggles \in 0..MaxToggles /\ faults \in 0..MaxFaults

\* Whatever change() was interrupted by, the loop only runs on with the load
\* the applied modes name: the CPU mask sent, the GPU child present or absent.
LoadFollowsModes ==
  InLoop => /\ cpu # "none"
            /\ mask = sup.modes \cap CpuModes
            /\ ("gpu" \in sup.modes) = (gpu # "none")

\* A GPU child switched on again is never judged by what its predecessor
\* printed: no line of a stopped GPU child outlives its turn of the loop.
NoLineOfOldGpu ==
  gpu # "none" => \A i \in 1..Len(queue) : ~queue[i].old

Ended == sup.pc \in {"off", "exited", "aborted"}

\* An archive that says the user stopped the session: the page did ask, except
\* when the GPU child could not be reaped during a switch (escaped).  Part of
\* SessionIsSound.
UserStopWasAsked ==
  manifest.status = "stopped" /\ manifest.reason = "user_stop" => asked \/ sup.escaped

\* Unless the page asked for the stop (and may have forced it) or died, a
\* session ends with its verdict in the archive, its writer released.  The one
\* exception is what run_session does not catch, a failed start or a manifest
\* that cannot be written, and the page then shows it as an error.  Part of
\* SessionIsSound.
EndsWithVerdict ==
  Ended /\ gui.gen > 0 /\ gui.alive /\ ~asked =>
    \/ manifest.status \in {"failed", "stopped"} /\ ~manifest.writer
    \/ sup.unsaved /\ (~gui.active => gui.status = "backend_error")

\* A session ends with a verdict, and with the true one, or visibly without any
\* (run_session's start and finally clause, StressPage.finished, StressPage.stop
\* and its force-stop timer).
SessionIsSound == TypeOK /\ UserStopWasAsked /\ EndsWithVerdict

\* The page never shows a failed session as an orderly one.
FailureIsShown ==
  ~gui.active /\ manifest.status = "failed" => gui.status \in Errors \cup {"thermal_stop"}

\* The session as its archive shows it, from the moment the page starts it.
Ruled == manifest.status \in {"failed", "stopped"}
Phase == IF Ruled /\ ~manifest.writer THEN "closed"
         ELSE IF ~SupAlive /\ (manifest.status # "none" \/ sup.pc = "aborted") THEN "lost"
         ELSE IF Ruled THEN "judged"
         ELSE IF manifest.status = "running" THEN "open" ELSE "none"
Loaded == cpu # "none" \/ gpu # "none"
Contract == INSTANCE SessionContract WITH verdict <- manifest.reason, loaded <- Loaded, phase <- Phase

\* Every step of page, supervisor and children is a step of that contract: the
\* verdict is written over a stopped load, once, and the writer that protects
\* the archive from retention is released after it.
ContractHolds == Contract!Spec

\* Once asked to stop, a session ends: orderly or by force.
StopEnds == asked ~> (~gui.active \/ ~gui.alive)

\* After the supervisor ends in whatever way, no load process survives except
\* a GPU worker no signal can reap.
LoadStops == Ended ~> (cpu = "none" /\ gpu = "none" /\ orphans \subseteq {"hung"})

\* An error line of the CPU load always ends that load, although the process
\* that printed it stays blocked on its input.
ErrorEndsLoad == cpu = "bad" ~> cpu \notin {"up", "bad"}

\* When the user leaves the boxes alone and the session lasts, the load is what
\* the boxes say, however many switches the poll skipped.
LoadConverges ==
  \A S \in SUBSET Modes :
    <>[](gui.active /\ gui.alive /\ gui.want = S) => <>[](sup.modes = S)

\* README.md:118: a load can be stopped at any time and the results are kept.
\* With no fault, a stop request stays in request.json until it is acted on.
StopRequestStays ==
  asked /\ InTry /\ gui.alive /\ faults = 0 => request = StopRequest

=============================================================================
