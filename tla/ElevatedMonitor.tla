-------------------------- MODULE ElevatedMonitor --------------------------
(***************************************************************************)
(* The elevated sensor path of the desktop application and what hangs on   *)
(* it: the stress page that activates and pauses it, MonitorAccess's       *)
(* reader thread, the native helper at the other end of its socket, the    *)
(* sample file, the sensor worker that merges the file into its own        *)
(* snapshot, and the stress supervisor that stops a load when the          *)
(* snapshot is critical or stale.                                          *)
(*                                                                         *)
(* Time passes in ticks of one second.  Helper, sensor worker and          *)
(* supervisor each take one sample per tick, in any order; a tick ends     *)
(* when those that are able to have done so and the socket is drained.     *)
(* A reading is abstracted to what the properties need: whether it is      *)
(* critical, and in which activation of the helper it was taken.           *)
(***************************************************************************)
EXTENDS Naturals, Sequences

CONSTANTS
  SampleLife,    \* age at which the sensor worker ignores the sample file
  SnapshotLife,  \* read_snapshot's max_age
  StaleStop,     \* age of the latest snapshot at which the supervisor gives up
  MaxEvents      \* bound: actions of the user on the page, and faults

\* Of the constants: a reading lives longer than one tick, and a load does
\* not outlive its last snapshot's use.  The code's are 4, 3 and 8 seconds.
MonitorAssumption ==
  /\ {SampleLife, SnapshotLife, StaleStop} \subseteq Nat /\ MaxEvents \in Nat
  /\ SampleLife > 1 /\ SnapshotLife > 1 /\ SnapshotLife <= StaleStop

VARIABLES
  screen,    \* app: "open", "closing", "closed" (MonitorAccess.close called) or
             \* "gone"; is the stress page visible
  load,      \* the stress session: "off", "running", or why it ended
  monitor,   \* MonitorAccess: its status and its generation
  reader,    \* its thread: pc, the activity it is about to send, the generation
             \* it knows, the block it collects, the sample it is about to publish;
             \* blocks: powermetrics text, a block ends where the next begins,
             \* not blocks: one JSON line per sample (Linux, Windows)
  toHelper, toReader,  \* the two directions of the socket
  helper,    \* the native helper: up or dead, the place in its loop, sampling or
             \* not, its activations
  file,      \* sample.json, and its age
  preview,   \* the page's sensor worker, and preview_restart
  latest,    \* latest.json, and its age
  since,     \* supervisor: age of max(started, latest_at)
  hot,       \* some sensor is at its critical limit
  acted,     \* who has taken this tick's sample
  hotFor, coolFor, pausedFor, blind, old,  \* history, see Tick
  events

history == <<hotFor, coolFor, pausedFor, blind, old>>
monitorVars == <<screen, load, monitor, reader, toHelper, toReader, helper, file, preview, latest,
                 since, hot, acted, history, events>>

None == [full |-> FALSE, hot |-> FALSE, epoch |-> 0]
Missing == [full |-> FALSE, hot |-> FALSE, epoch |-> 0, age |-> SampleLife]
NoSnapshot == [full |-> FALSE, hot |-> FALSE, age |-> SnapshotLife]
Aged(sample) == [full |-> sample.full, hot |-> sample.hot, epoch |-> sample.epoch, age |-> 0]
Memory == SampleLife + SnapshotLife + 2

\* The application has started the reader thread and the helper, and shows
\* another page.
MonitorInit ==
  /\ screen = [app |-> "open", visible |-> FALSE] /\ load = "off"
  /\ monitor = [status |-> "starting", generation |-> 0]
  /\ \E blocks \in BOOLEAN :
       reader = [pc |-> "listening", send |-> FALSE, gen |-> 0, block |-> None, held |-> None,
                 blocks |-> blocks]
  /\ toHelper = <<>> /\ toReader = <<>>
  /\ helper = [state |-> "up", at |-> "select", sampling |-> FALSE, epoch |-> 0]
  /\ file = Missing
  /\ preview = [state |-> "off", restart |-> FALSE]
  /\ latest = NoSnapshot /\ since = 0
  /\ hot = FALSE /\ acted = {}
  /\ hotFor = 0 /\ coolFor = Memory /\ pausedFor = 0 /\ blind = 0 /\ old = 0
  /\ events = 0

\* Every real change of the activity counts the generation up by one.
Active(generation) == generation % 2 = 1

Connected ==
  /\ reader.pc \in {"accepted", "telling", "reading", "publishing"}
  /\ screen.app \in {"open", "closing"}

Event == events < MaxEvents /\ events' = events + 1

InSession == load # "off"

\* A helper that ended; what a signal makes of one.  A helper the kernel holds
\* (stuck) may survive it.
HelperEnded == [helper EXCEPT !.state = "dead", !.at = "select"]
Signalled == IF helper.at = "stuck" THEN {HelperEnded, helper} ELSE {HelperEnded}

-----------------------------------------------------------------------------
(* The stress page.  Whatever may change what it needs ends in sync_access. *)

\* MonitorAccess.publish
Publish(sample) == file' = Aged(sample)

\* MonitorAccess.set_active
SetActive(active) ==
  IF Active(monitor.generation) = active THEN UNCHANGED <<monitor, toHelper, file>>
  ELSE LET told == Connected /\ monitor.status = "ready"
       IN  /\ monitor' = [generation |-> monitor.generation + 1,
                         status |-> IF told /\ helper.state = "dead" THEN "error"
                                    ELSE monitor.status]
           /\ toHelper' = IF told /\ helper.state = "up" THEN Append(toHelper, active)
                          ELSE toHelper
           /\ IF active THEN UNCHANGED file ELSE Publish(None)

\* sync_access, as the page stands after the step
SyncAccess == SetActive(screen'.app = "open" /\ (load' # "off" \/ screen'.visible))

StartPreview(p) ==
  IF screen'.app # "open" \/ ~(screen'.visible \/ load' # "off") THEN p
  ELSE IF p.state = "stopping" THEN [p EXCEPT !.restart = TRUE]
  ELSE IF p.state # "off" THEN p
  ELSE [p EXCEPT !.state = "up"]

StopPreview(p) ==
  [state |-> IF p.state = "off" THEN "off" ELSE "stopping", restart |-> FALSE]

Toggle ==
  /\ Event
  /\ hotFor' = 0 /\ pausedFor' = 0
  /\ UNCHANGED <<reader, toReader, helper, latest, hot, acted, coolFor, old>>

Show ==
  /\ screen.app = "open" /\ ~screen.visible
  /\ screen' = [screen EXCEPT !.visible = TRUE] /\ load' = load
  /\ preview' = StartPreview(preview)
  /\ SyncAccess
  /\ Toggle /\ UNCHANGED <<since, blind>>

Hide ==
  /\ screen.app = "open" /\ screen.visible
  /\ screen' = [screen EXCEPT !.visible = FALSE] /\ load' = load
  /\ preview' = IF InSession THEN preview ELSE StopPreview(preview)
  /\ SyncAccess
  /\ Toggle /\ UNCHANGED <<since, blind>>

\* From the first sample of the supervisor's clock on.
StartSession ==
  /\ screen.app = "open" /\ screen.visible /\ load = "off"
  /\ load' = "running" /\ since' = 0 /\ blind' = 0
  /\ screen' = screen
  /\ preview' = StartPreview(preview)
  /\ SyncAccess
  /\ Toggle

\* The ways a stop takes through the supervisor are StressSession's.
StopSession ==
  /\ screen.app = "open" /\ load = "running"
  /\ load' = "stopped"
  /\ Toggle
  /\ UNCHANGED <<screen, monitor, toHelper, file, preview, since, blind>>

\* StressPage.finished; a window that waits for it closes.
SessionFinished ==
  /\ screen.app \in {"open", "closing"} /\ load \notin {"off", "running"}
  /\ load' = "off" /\ screen' = screen
  /\ preview' = IF ~screen.visible \/ screen.app = "closing" THEN StopPreview(preview)
                ELSE StartPreview(preview)
  /\ SyncAccess
  /\ UNCHANGED <<reader, toReader, helper, latest, since, hot, acted, history, events>>

PreviewFinished ==
  /\ screen.app \in {"open", "closing"} /\ preview.state \in {"stopping", "crashed"}
  /\ screen' = screen
  /\ LET ended == [state |-> "off", restart |-> FALSE]
     IN  IF screen.app = "closing" THEN preview' = ended /\ load' = load
         ELSE IF preview.restart THEN load' = load /\ preview' = StartPreview(ended)
         ELSE preview' = ended /\ load' = IF load = "running" THEN "stopped" ELSE load
  /\ UNCHANGED <<monitor, reader, toHelper, toReader, helper, file, latest, since, hot, acted,
                 history, events>>

\* closeEvent: a running session is stopped first and the window waits for it.
Close ==
  /\ screen.app \in {"open", "closing"}
  /\ IF InSession
     THEN /\ screen.app = "open" /\ screen' = [screen EXCEPT !.app = "closing"]
          /\ load' = IF load = "running" THEN "stopped" ELSE load
     ELSE screen' = [screen EXCEPT !.app = "closed"] /\ load' = load
  /\ UNCHANGED <<monitor, reader, toHelper, toReader, helper, file, preview, latest, since,
                 hot, acted, history, events>>

\* What is left is the helper and what was sent to it.
Gone ==
  /\ screen' = [app |-> "gone", visible |-> FALSE] /\ load' = "off"
  /\ monitor' = [status |-> "stopped", generation |-> 0]
  /\ reader' = [reader EXCEPT !.pc = "done", !.send = FALSE, !.gen = 0, !.block = None,
                              !.held = None]
  /\ preview' = [state |-> "off", restart |-> FALSE]
  /\ file' = Missing /\ latest' = NoSnapshot /\ since' = 0 /\ hot' = FALSE /\ acted' = {}
  /\ hotFor' = 0 /\ coolFor' = Memory /\ pausedFor' = 0 /\ blind' = 0 /\ old' = 0
  /\ toReader' = <<>> /\ UNCHANGED toHelper

\* The rest of MonitorAccess.close and StressPage.shutdown: the thread is given
\* a second; a helper it has not ended by itself is terminated once it is done.
Exit ==
  /\ screen.app = "closed" /\ Gone
  /\ helper' \in IF reader.pc = "done" /\ helper.state = "up" THEN Signalled ELSE {helper}
  /\ UNCHANGED events

\* The process dies: its threads with it, the supervisor and the sensor worker
\* as they notice (Cancellation).
Die == screen.app # "gone" /\ Event /\ Gone /\ UNCHANGED helper

-----------------------------------------------------------------------------
(* MonitorAccess._run and _read, the reader thread.                        *)

Read(r, s) ==
  /\ screen.app # "gone" /\ reader' = r /\ monitor' = [monitor EXCEPT !.status = s]
  /\ UNCHANGED <<screen, load, helper, preview, latest, since, hot, acted, history, events>>

\* The greeting is checked; the GUI may send from here on.
Accept ==
  /\ reader.pc = "listening" /\ screen.app \in {"open", "closing"} /\ helper.state = "up"
  /\ Read([reader EXCEPT !.pc = "accepted"], "ready")
  /\ UNCHANGED <<toHelper, toReader, file>>

\* Stopped, the helper lost, or five seconds without it.
GiveUp ==
  /\ reader.pc = "listening"
  /\ \/ screen.app = "closed" /\ Read([reader EXCEPT !.pc = "cleanup"], monitor.status)
     \/ helper.state = "dead" /\ Read([reader EXCEPT !.pc = "cleanup"], "error")
     \/ helper.state = "up" /\ Read([reader EXCEPT !.pc = "cleanup"], "denied")
  /\ UNCHANGED <<toHelper, toReader, file>>

\* self.active is read, and sent in a step of its own.
ReadActive ==
  /\ reader.pc = "accepted"
  /\ Read([reader EXCEPT !.pc = "telling", !.send = Active(monitor.generation)], monitor.status)
  /\ UNCHANGED <<toHelper, toReader, file>>

Tell ==
  /\ reader.pc = "telling"
  /\ IF Connected /\ helper.state = "up"
     THEN /\ toHelper' = Append(toHelper, reader.send)
          /\ Read([reader EXCEPT !.pc = "reading", !.send = FALSE, !.gen = monitor.generation], monitor.status)
     ELSE /\ UNCHANGED toHelper
          /\ Read([reader EXCEPT !.pc = "cleanup"],
                  IF screen.app = "closed" THEN monitor.status ELSE "error")
  /\ UNCHANGED <<toReader, file>>

\* A change of generation drops what was collected before it.
Collected == IF reader.gen = monitor.generation THEN reader.block ELSE None

\* Mutant: a sample is published whoever asked for it.
Wanted(sample) == sample.full

\* `if block and self.active`, `if self.active`
ToPublish(sample) == sample.full /\ Active(monitor.generation)

\* A JSON line is one sample; the header of a powermetrics sample ends the
\* block before it.
Take ==
  /\ reader.pc = "reading" /\ Connected /\ toReader # <<>>
  /\ LET sample == IF reader.blocks THEN Collected ELSE Head(toReader)
     IN  Read([reader EXCEPT !.gen = monitor.generation,
                             !.block = IF reader.blocks THEN Head(toReader) ELSE None,
                             !.held = IF ToPublish(sample) THEN sample ELSE None,
                             !.pc = IF ToPublish(sample) THEN "publishing" ELSE "reading"],
              monitor.status)
  /\ toReader' = Tail(toReader) /\ UNCHANGED <<toHelper, file>>

\* parse_powermetrics reads frequencies and powers: nothing of it is critical.
FromText(block) == [block EXCEPT !.hot = FALSE]

\* After the check of self.active: a pause may come between the two.  A closed
\* directory refuses the file.
PublishHeld ==
  /\ reader.pc = "publishing"
  /\ IF screen.app = "closed" THEN UNCHANGED file
     ELSE Publish(IF reader.blocks THEN FromText(reader.held) ELSE reader.held)
  /\ Read([reader EXCEPT !.pc = "reading", !.held = None], monitor.status)
  /\ UNCHANGED <<toHelper, toReader>>

\* stop_event, or the end of the stream.
Leave ==
  /\ reader.pc = "reading"
  /\ ~Connected \/ (helper.state = "dead" /\ toReader = <<>>)
  /\ Read([reader EXCEPT !.pc = "cleanup"], monitor.status)
  /\ UNCHANGED <<toHelper, toReader, file>>

\* The connection is closed; the helper gets two seconds, then signals.  One
\* that survives them raises TimeoutExpired, and the status stays.
ReaderCleanup ==
  /\ reader.pc = "cleanup" /\ screen.app # "gone"
  /\ helper' \in Signalled
  /\ reader' = [reader EXCEPT !.pc = "done"]
  /\ monitor' = [monitor EXCEPT !.status =
       IF @ # "ready" \/ helper'.state = "up" THEN @
       ELSE IF screen.app = "closed" THEN "stopped" ELSE "error"]
  /\ UNCHANGED <<screen, load, toHelper, toReader, file, preview, latest, since, hot, acted,
                 history, events>>

-----------------------------------------------------------------------------
(* The native helper's loop, telemetry_privileged.c: is the parent there,  *)
(* select on the connection and the child's pipe for 200 ms, requests, a   *)
(* sample.  It is blocked in select, in stop_child or in send, and ends    *)
(* where the loop does.                                                    *)

Help(h) ==
  /\ helper.state = "up" /\ helper' = h
  /\ UNCHANGED <<screen, load, monitor, reader, file, preview, latest, since, hot, history>>

MoveTo(place) == Help([helper EXCEPT !.at = place])

\* The reader's end of the connection is closed, or its listener before that.
PeerClosed == screen.app = "gone" \/ (reader.pc # "listening" /\ ~Connected)

\* The next turn begins with the look for the parent.
NextTurn == IF screen.app = "gone" THEN "leaving" ELSE "select"

\* Where a turn goes on: one sample a second, once the child has printed it.
Onward(sampling) == IF sampling /\ "helper" \notin acted THEN {"send", NextTurn} ELSE {NextTurn}

\* Of the bytes recv returns one at a time: '1' starts the reader child, '0'
\* stops it.
Obey ==
  /\ helper.at = "select"
  /\ toHelper # <<>> /\ toHelper' = Tail(toHelper)
  /\ IF Head(toHelper)
     THEN \E place \in Onward(TRUE) :
            Help([helper EXCEPT !.at = place, !.sampling = TRUE,
                                !.epoch = IF helper.sampling THEN @ ELSE @ + 1])
     ELSE MoveTo(IF helper.sampling THEN "stopping" ELSE NextTurn)
  /\ UNCHANGED <<toReader, acted, events>>

\* select times out, the child has printed, or a signal interrupted it.
Wake ==
  /\ helper.at = "select" /\ toHelper = <<>> /\ ~PeerClosed
  /\ \E place \in Onward(helper.sampling) : MoveTo(place)
  /\ UNCHANGED <<toHelper, toReader, acted, events>>

\* recv returns nothing.
HangUp ==
  /\ helper.at = "select" /\ toHelper = <<>> /\ PeerClosed
  /\ MoveTo("leaving")
  /\ UNCHANGED <<toHelper, toReader, acted, events>>

\* stop_child: SIGTERM, and SIGKILL after a second.
StopChild ==
  /\ helper.at = "stopping"
  /\ Help([helper EXCEPT !.at = NextTurn, !.sampling = FALSE])
  /\ UNCHANGED <<toHelper, toReader, acted, events>>

\* Mutant: send is tried until it succeeds.
SendUntilSent ==
  /\ helper.at = "send" /\ Connected
  /\ acted' = acted \cup {"helper"}
  /\ toReader' = Append(toReader, [full |-> TRUE, hot |-> hot, epoch |-> helper.epoch])
  /\ MoveTo(NextTurn) /\ UNCHANGED <<toHelper, events>>

\* Over a closed connection the first send may be lost, another one fails.
SampleSensors ==
  /\ helper.at = "send"
  /\ \/ /\ Connected
        /\ acted' = acted \cup {"helper"}
        /\ toReader' = Append(toReader, [full |-> TRUE, hot |-> hot, epoch |-> helper.epoch])
        /\ MoveTo(NextTurn)
     \/ /\ ~Connected /\ UNCHANGED <<toReader, acted>>
        /\ MoveTo(NextTurn) \/ MoveTo("leaving")
  /\ UNCHANGED <<toHelper, events>>

\* After the loop stop_child runs once more.
HelperLeaves ==
  /\ helper.at = "leaving"
  /\ Help(HelperEnded)
  /\ UNCHANGED <<toHelper, toReader, acted, events>>

\* It is killed; its child cannot start or ends; the kernel gives back neither a
\* sensor it reads nor the child it waits for.
HelperFails ==
  /\ Event
  /\ \/ Help(HelperEnded)
     \/ helper.at \in {"select", "send"} /\ MoveTo("leaving")
     \/ helper.at \in {"send", "stopping", "leaving"} /\ MoveTo("stuck")
  /\ UNCHANGED <<toHelper, toReader, acted>>

-----------------------------------------------------------------------------
(* The sensor worker (telemetry.py) and the supervisor's sampling          *)
(* (run_stress.py).  The worker's own unprivileged readings are left out.  *)

\* Mutant: the file counts however old it is.
AnyAge == TRUE

\* 0 <= now - sampled_at < 4
FreshFile == file.age < SampleLife

ProviderSample ==
  /\ preview.state = "up" /\ "preview" \notin acted
  /\ acted' = acted \cup {"preview"}
  /\ latest' = [full |-> FreshFile /\ file.full, hot |-> FreshFile /\ file.hot, age |-> 0]
  /\ blind' = 0
  /\ UNCHANGED <<screen, load, monitor, reader, toHelper, toReader, helper, file, preview, since,
                 hot, hotFor, coolFor, pausedFor, old, events>>

\* It dies, or hangs in a sensor it reads.
ProviderFails ==
  /\ preview.state = "up" /\ Event
  /\ \E state \in {"crashed", "hung"} : preview' = [preview EXCEPT !.state = state]
  /\ UNCHANGED <<screen, load, monitor, reader, toHelper, toReader, helper, file, latest, since,
                 hot, acted, history>>

\* Mutant: a snapshot too old to be used still moves latest_at.
SinceAny == latest.age

\* latest_at moves with a usable snapshot alone.
LatestAt == IF latest.age < SnapshotLife THEN latest.age ELSE since

SupervisorSample ==
  /\ load = "running" /\ "supervisor" \notin acted
  /\ acted' = acted \cup {"supervisor"}
  /\ since' = IF LatestAt < since THEN LatestAt ELSE since
  /\ load' = IF latest.age < SnapshotLife
             THEN IF latest.hot THEN "thermal" ELSE load
             ELSE IF since >= StaleStop THEN "stale" ELSE load
  /\ UNCHANGED <<screen, monitor, reader, toHelper, toReader, helper, file, preview, latest,
                 hot, history, events>>

-----------------------------------------------------------------------------
(* A second passes.                                                        *)

\* The helper goes round its loop.
Serving == helper.state = "up" /\ helper.at \in {"select", "send"}

\* The path from the sensors to the supervisor is whole.
Chain ==
  /\ reader.pc = "reading" /\ Connected /\ Active(monitor.generation)
  /\ Serving /\ helper.sampling
  /\ preview.state = "up" /\ load = "running" /\ ~reader.blocks

Upto(n, limit) == IF n < limit THEN n + 1 ELSE limit

Settled ==
  /\ toReader = <<>>
  /\ Serving => /\ helper.at = "select" /\ toHelper = <<>>
                /\ helper.sampling => "helper" \in acted
  /\ reader.pc \in {"listening", "reading", "done"}
  /\ (reader.pc = "reading") => (Connected /\ helper.state = "up")
  /\ preview.state \in {"off", "up", "hung"} /\ load \in {"off", "running"}
  /\ preview.state = "up" => "preview" \in acted
  /\ load = "running" => "supervisor" \in acted

Tick ==
  /\ screen.app \in {"open", "closing"} /\ Settled
  \* only JSON tells what is critical
  /\ acted' = {} /\ hot' \in {FALSE, ~reader.blocks}
  /\ file' = [file EXCEPT !.age = Upto(@, SampleLife)]
  /\ latest' = IF latest.age + 1 < SnapshotLife THEN [latest EXCEPT !.age = @ + 1]
                 ELSE NoSnapshot
  /\ since' = IF load = "running" THEN Upto(since, StaleStop) ELSE 0
  \* the seconds the path has been whole and a sensor critical
  /\ hotFor' = IF Chain /\ hot THEN Upto(hotFor, 4) ELSE 0
  \* the seconds since a sensor was critical
  /\ coolFor' = IF hot \/ hot' THEN 0 ELSE Upto(coolFor, Memory)
  \* the seconds the path has been paused
  /\ pausedFor' = IF Active(monitor.generation) THEN 0 ELSE Upto(pausedFor, Memory)
  \* the seconds since the sensor worker or the session's start was heard of
  /\ blind' = IF load = "running" THEN Upto(blind, StaleStop + 2) ELSE 0
  \* the activations whose child has been stopped for a whole second
  /\ old' = IF helper.sampling THEN old ELSE helper.epoch
  /\ UNCHANGED <<screen, load, monitor, reader, toHelper, toReader, helper, preview, events>>

ReaderStep == Accept \/ GiveUp \/ ReadActive \/ Tell \/ Take \/ PublishHeld \/ Leave \/ ReaderCleanup
HelperStep == Obey \/ Wake \/ HangUp \/ StopChild \/ SampleSensors \/ HelperLeaves
StressPageStep == Show \/ Hide \/ StartSession \/ StopSession \/ SessionFinished \/ PreviewFinished
              \/ Close \/ Exit
SamplingStep == ProviderSample \/ SupervisorSample \/ Tick
FaultStep == Die \/ HelperFails \/ ProviderFails

MonitorNext == StressPageStep \/ ReaderStep \/ HelperStep \/ SamplingStep \/ FaultStep

\* The helper's loop goes on: select ends after 200 ms, stop_child after a
\* second, send once the connection is read or closed.  Nobody else has to move.
MonitorSpec == MonitorInit /\ [][MonitorNext]_monitorVars /\ WF_monitorVars(HelperStep)

-----------------------------------------------------------------------------
\* The reader publishes what it holds.
Publishes == reader.pc = "publishing" /\ reader'.pc = "reading"

(* A pause is clean (monitor_access.py set_active, publish, _read): once   *)
(* it has lasted as long as a reading may live, the sample file holds none *)
(* that counts, whatever the reader had in hand when it began and whatever *)
(* the helper still sends; and no reading taken before a pause that has    *)
(* lasted a second is published after it.                                  *)
PauseIsClean ==
  /\ [](pausedFor >= SampleLife => ~(file.full /\ file.age < SampleLife))
  /\ [][Publishes => reader.held.epoch > old]_monitorVars

(* A critical reading stops the load within three seconds of a whole path, *)
(* and a load whose readings have dried up is stopped after StaleStop.     *)
LoadIsGuarded ==
  load = "running" => hotFor <= 3 /\ blind <= StaleStop + 1

(* The load is only stopped for a heat that was there: some sensor was     *)
(* critical no longer ago than the two ages a reading may reach on its way.*)
StopsForHeat ==
  [][load' = "thermal" /\ load # "thermal" => coolFor <= SampleLife + SnapshotLife]_monitorVars

(* Wherever in its loop the end of the application meets it, the helper    *)
(* ends as well, unless the kernel holds it.                               *)
HelperEnds == screen.app = "gone" ~> helper.state = "dead" \/ helper.at = "stuck"
=============================================================================
