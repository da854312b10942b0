----------------------- MODULE ElevatedMonitorProofs -----------------------
(***************************************************************************)
(* Proofs about ElevatedMonitor: a pause of the elevated path is clean, a  *)
(* load is only stopped for a heat that was there, and it is stopped in    *)
(* time when a sensor is critical or its readings have dried up.           *)
(*                                                                         *)
(* The module states its assumption on the constants as a definition; the  *)
(* theorems have it as their hypothesis.                                   *)
(***************************************************************************)
EXTENDS ElevatedMonitor, SequenceTheorems, TLAPS

-----------------------------------------------------------------------------
(* The inductive invariant.                                                *)

PageType == [app : {"open", "closing", "closed", "gone"}, visible : BOOLEAN]
AccessType == [status : {"starting", "ready", "denied", "error", "stopped"}, generation : Nat]
Reading == [full : BOOLEAN, hot : BOOLEAN, epoch : Nat]
ReaderType ==
  [pc : {"listening", "accepted", "telling", "reading", "publishing", "cleanup", "done"},
   send : BOOLEAN, gen : Nat, block : Reading, held : Reading, blocks : BOOLEAN]
HelperType == [state : {"up", "dead"}, at : {"select", "send", "stopping", "leaving", "stuck"},
               sampling : BOOLEAN, epoch : Nat]
FileType == [full : BOOLEAN, hot : BOOLEAN, epoch : Nat, age : Nat]
PreviewType == [state : {"off", "up", "stopping", "crashed", "hung"}, restart : BOOLEAN]
SnapshotType == [full : BOOLEAN, hot : BOOLEAN, age : Nat]

TypeOK ==
  /\ screen \in PageType /\ load \in {"off", "running", "stopped", "thermal", "stale"}
  /\ monitor \in AccessType /\ reader \in ReaderType
  /\ toHelper \in Seq(BOOLEAN) /\ toReader \in Seq(Reading)
  /\ helper \in HelperType /\ file \in FileType /\ preview \in PreviewType
  /\ latest \in SnapshotType /\ since \in Nat /\ hot \in BOOLEAN
  /\ acted \subseteq {"helper", "preview", "supervisor"}
  /\ hotFor \in Nat /\ coolFor \in Nat /\ pausedFor \in Nat /\ blind \in Nat /\ old \in Nat
  /\ events \in Nat

\* The activity follows the page as long as the page is there to say.
Followed ==
  /\ load = "running" => screen.app = "open"
  /\ screen.app = "open" => (Active(monitor.generation) <=> load # "off" \/ screen.visible)

\* What the reader has in hand, and what is on its way to it.
InHand ==
  /\ reader.pc # "publishing" => reader.held = None
  /\ reader.pc \in {"listening", "accepted", "telling"} => reader.block = None
  /\ ~reader.blocks => reader.block = None
  /\ reader.blocks => ~hot
  /\ reader.pc = "publishing" => reader.held.full /\ (~reader.blocks => reader.held.hot = hot)
  /\ \A i \in 1..Len(toReader) : toReader[i].full /\ toReader[i].hot = hot
  /\ reader.gen <= monitor.generation

\* A file that counts is younger than the pause; a reading is published in
\* the second in which the path was active.
Paused ==
  /\ Active(monitor.generation) => pausedFor = 0
  /\ reader.pc = "publishing" => pausedFor = 0
  /\ file.full /\ file.age < SampleLife => pausedFor <= file.age

\* It goes round its loop, the stop of its child included.
InLoop == helper.state = "up" /\ helper.at \notin {"leaving", "stuck"}

\* The helper has nothing to say in this activation any more.
Silent ==
  /\ toReader = <<>>
  /\ InLoop => ~helper.sampling /\ \A i \in 1..Len(toHelper) : ~toHelper[i]

\* Readings of activations that are over are not on their way; a block of one
\* may be in hand, but no other comes to complete it.
Epochs ==
  /\ old <= helper.epoch /\ (helper.sampling => old < helper.epoch)
  /\ helper.at \in {"send", "stopping"} => helper.sampling
  /\ \A i \in 1..Len(toReader) : old < toReader[i].epoch
  /\ reader.pc = "publishing" => old < reader.held.epoch
  /\ reader.block.full /\ reader.gen = monitor.generation => old < reader.block.epoch \/ Silent

\* A critical reading is as old as the heat it tells of.
Heat ==
  /\ hot => coolFor = 0
  /\ file.hot /\ file.age < SampleLife => coolFor <= file.age
  /\ latest.hot => coolFor <= latest.age + SampleLife

\* The supervisor's clock against the seconds nothing was heard.
Silence ==
  load = "running" =>
    /\ blind <= latest.age \/ SnapshotLife <= latest.age
    /\ blind <= since \/ StaleStop <= since
    /\ blind <= StaleStop + 1
    /\ "supervisor" \in acted => blind <= StaleStop

HotFile == file.full /\ file.hot
HotSnapshot == latest.hot /\ latest.age <= 1

\* How far a heat has come along a whole path: second by second into the file,
\* into the snapshot, to the supervisor.
Reached ==
  /\ hotFor >= 1 => reader.pc \in {"reading", "publishing", "cleanup", "done"}
  /\ hotFor <= 3
  /\ load = "running" /\ hot =>
       /\ hotFor >= 1 /\ "helper" \in acted /\ reader.pc = "reading" /\ toReader = <<>>
            => HotFile /\ file.age = 0
       /\ hotFor >= 2 => HotFile /\ file.age <= 1
       /\ hotFor >= 2 /\ "preview" \in acted => latest.hot /\ latest.age = 0
       /\ hotFor >= 3 => HotSnapshot
       /\ hotFor >= 3 => "supervisor" \notin acted

IInv ==
  /\ TypeOK /\ Followed /\ InHand /\ Paused /\ Epochs /\ Heat /\ Silence /\ Reached

-----------------------------------------------------------------------------
(* The stress page.                                                        *)

\* Every change of the activity counts the generation up, and tells the helper
\* or not; a pause leaves an empty file.
LEMMA SetActiveEffect ==
  ASSUME TypeOK, NEW active \in BOOLEAN, SetActive(active)
  PROVE  /\ monitor' \in AccessType /\ toHelper' \in Seq(BOOLEAN) /\ file' \in FileType
         /\ Active(monitor'.generation) <=> active
         /\ \/ monitor' = monitor /\ toHelper' = toHelper /\ file' = file
            \/ /\ Active(monitor.generation) <=> ~active
               /\ monitor'.generation = monitor.generation + 1
               /\ toHelper' = toHelper \/ toHelper' = Append(toHelper, active)
               /\ active => file' = file
               /\ ~active => ~file'.full /\ ~file'.hot
<1>1. monitor \in AccessType /\ toHelper \in Seq(BOOLEAN) /\ file \in FileType /\ monitor.generation \in Nat
  BY DEF TypeOK, AccessType
<1>2. Aged(None) \in FileType /\ ~Aged(None).full /\ ~Aged(None).hot
  BY DEF Aged, None, FileType
<1>3. Active(monitor.generation + 1) <=> ~Active(monitor.generation)
  BY <1>1 DEF Active
<1>4. CASE Active(monitor.generation) = active
  BY <1>1, <1>4 DEF SetActive
<1>5. CASE Active(monitor.generation) # active
  <2>. DEFINE told == Connected /\ monitor.status = "ready"
              status == IF told /\ helper.state = "dead" THEN "error" ELSE monitor.status
  <2>1. /\ monitor' = [generation |-> monitor.generation + 1, status |-> status]
        /\ toHelper' = IF told /\ helper.state = "up" THEN Append(toHelper, active) ELSE toHelper
        /\ IF active THEN UNCHANGED file ELSE file' = Aged(None)
    BY <1>5 DEF SetActive, Publish
  <2>2. status \in {"starting", "ready", "denied", "error", "stopped"}
    BY <1>1 DEF AccessType
  <2>. HIDE DEF told, status
  <2>3. monitor' \in AccessType /\ monitor'.generation = monitor.generation + 1
    BY <1>1, <2>1, <2>2 DEF AccessType
  <2>4. toHelper' \in Seq(BOOLEAN) /\ (toHelper' = toHelper \/ toHelper' = Append(toHelper, active))
    BY <1>1, <2>1, AppendProperties
  <2>5. file' \in FileType /\ (active => file' = file) /\ (~active => ~file'.full /\ ~file'.hot)
    BY <1>1, <1>2, <2>1
  <2>6. Active(monitor.generation) <=> ~active
    BY <1>5 DEF Active
  <2>. QED
    BY <1>3, <2>3, <2>4, <2>5, <2>6
<1>. QED
  BY <1>4, <1>5

\* A step of the page that ends in sync_access: of the user's, or the end of a
\* session, which activates nothing.
LEMMA SyncStep ==
  ASSUME MonitorAssumption, IInv, NEW active \in BOOLEAN, SetActive(active),
         active <=> screen'.app = "open" /\ (load' # "off" \/ screen'.visible),
         screen' \in PageType, preview' \in PreviewType, events' \in Nat,
         load' \in {"off", "running", "stopped", "thermal", "stale"},
         load' = "running" => screen'.app = "open",
         UNCHANGED <<reader, toReader, helper, latest, hot, acted, coolFor, old>>,
         \/ hotFor' = 0 /\ pausedFor' = 0
         \/ UNCHANGED <<hotFor, pausedFor>> /\ load' # "running" /\ (active => Active(monitor.generation)),
         \/ since' = 0 /\ blind' = 0
         \/ UNCHANGED <<since, blind>> /\ (load' = "running" => load = "running")
  PROVE  IInv'
<1>. USE DEF IInv
<1>1. /\ monitor' \in AccessType /\ toHelper' \in Seq(BOOLEAN) /\ file' \in FileType
      /\ monitor.generation \in Nat /\ monitor'.generation \in Nat
      /\ Active(monitor'.generation) <=> active
      /\ \/ monitor' = monitor /\ toHelper' = toHelper /\ file' = file
         \/ /\ Active(monitor.generation) <=> ~active
            /\ monitor'.generation = monitor.generation + 1
            /\ toHelper' = toHelper \/ toHelper' = Append(toHelper, active)
            /\ active => file' = file
            /\ ~active => ~file'.full /\ ~file'.hot
  BY SetActiveEffect DEF TypeOK, AccessType
<1>2. TypeOK'
  BY <1>1 DEF TypeOK
<1>3. Followed'
  BY <1>1 DEF Followed
<1>4. InHand'
  <2>1. reader.gen \in Nat
    BY DEF TypeOK, ReaderType
  <2>. QED
    BY <1>1, <2>1 DEF InHand
<1>5. Paused'
  <2>1. file'.age \in Nat
    BY <1>1 DEF FileType
  <2>. QED
    BY <1>1, <2>1 DEF Paused
<1>6. Epochs'
  <2>1. reader.gen = monitor'.generation => monitor' = monitor /\ toHelper' = toHelper
    BY <1>1 DEF InHand, TypeOK, ReaderType
  <2>. QED
    BY <2>1 DEF Epochs, Silent, InLoop
<1>7. Heat'
  BY <1>1 DEF Heat
<1>8. Silence'
  BY DEF Silence, TypeOK, SnapshotType, MonitorAssumption
<1>9. Reached'
  BY DEF Reached
<1>. QED
  BY <1>2, <1>3, <1>4, <1>5, <1>6, <1>7, <1>8, <1>9

\* A step that ends a load or a preview, or takes the page nearer to its end.
LEMMA QuietStep ==
  ASSUME IInv, screen' \in PageType, preview' \in PreviewType,
         load' = load \/ (load = "running" /\ load' = "stopped"),
         screen'.app = "open" => screen' = screen,
         load' = "running" => screen'.app = "open",
         UNCHANGED <<monitor, reader, toHelper, toReader, helper, file, latest, since, hot, acted,
                     history, events>>
  PROVE  IInv'
<1>. USE DEF IInv, history
<1>1. TypeOK' /\ Followed' /\ InHand'
  BY DEF TypeOK, Followed, InHand
<1>2. Paused' /\ Epochs' /\ Heat'
  BY DEF Paused, Epochs, Silent, InLoop, Heat
<1>3. load' = "running" => load = "running"
  OBVIOUS
<1>4. Silence'
  BY <1>3 DEF Silence
<1>5. Reached'
  BY <1>3 DEF Reached, HotFile, HotSnapshot
<1>. QED
  BY <1>1, <1>2, <1>4, <1>5

\* The application is gone.
LEMMA GoneStep ==
  ASSUME MonitorAssumption, IInv, Gone, helper' \in {helper, HelperEnded}, events' \in Nat
  PROVE  IInv'
<1>. USE DEF IInv
<1>1. /\ helper' \in HelperType /\ helper'.sampling = helper.sampling /\ helper'.epoch = helper.epoch
      /\ helper.epoch \in Nat /\ helper'.at \in {helper.at, "select"}
  BY DEF TypeOK, HelperType, HelperEnded
<1>2. /\ reader' \in ReaderType /\ reader'.pc = "done" /\ reader'.block = None /\ reader'.held = None
      /\ reader'.gen = 0 /\ ~None.full
  BY DEF Gone, TypeOK, ReaderType, None, Reading
<1>3. /\ screen' \in PageType /\ screen'.app = "gone" /\ load' = "off"
      /\ monitor' \in AccessType /\ monitor'.generation = 0
      /\ preview' \in PreviewType /\ file' \in FileType /\ ~file'.full /\ ~file'.hot
      /\ latest' \in SnapshotType /\ ~latest'.hot
      /\ since' = 0 /\ hot' = FALSE /\ acted' = {} /\ hotFor' = 0 /\ coolFor' = Memory /\ pausedFor' = 0
      /\ blind' = 0 /\ old' = 0 /\ toReader' = <<>> /\ toHelper' = toHelper
  BY DEF Gone, PageType, AccessType, PreviewType, FileType, SnapshotType, Missing, NoSnapshot, MonitorAssumption
<1>4. Memory \in Nat
  BY DEF Memory, MonitorAssumption
<1>5. TypeOK'
  BY <1>1, <1>2, <1>3, <1>4, EmptySeq DEF TypeOK
<1>6. Followed' /\ InHand' /\ Paused'
  BY <1>2, <1>3, EmptySeq DEF Followed, InHand, Paused, AccessType
<1>7. Epochs'
  BY <1>1, <1>2, <1>3, EmptySeq DEF Epochs, TypeOK, HelperType
<1>8. Heat' /\ Silence' /\ Reached'
  BY <1>2, <1>3 DEF Heat, Silence, Reached
<1>. QED
  BY <1>5, <1>6, <1>7, <1>8

LEMMA PreviewTypes ==
  ASSUME NEW p \in PreviewType
  PROVE  StartPreview(p) \in PreviewType /\ StopPreview(p) \in PreviewType
  BY DEF StartPreview, StopPreview, PreviewType

LEMMA PageSteps ==
  ASSUME MonitorAssumption, IInv, StressPageStep
  PROVE  IInv'
<1>0. /\ screen \in PageType /\ load \in {"off", "running", "stopped", "thermal", "stale"}
      /\ preview \in PreviewType /\ events \in Nat /\ helper \in HelperType
      /\ load = "running" => screen.app = "open"
      /\ screen.app = "open" => (Active(monitor.generation) <=> load # "off" \/ screen.visible)
  BY DEF IInv, TypeOK, Followed
<1>. DEFINE active == screen'.app = "open" /\ (load' # "off" \/ screen'.visible)
<1>a. SyncAccess <=> SetActive(active)
  BY DEF SyncAccess
<1>b. active \in BOOLEAN
  OBVIOUS
<1>c. active <=> screen'.app = "open" /\ (load' # "off" \/ screen'.visible)
  OBVIOUS
<1>. HIDE DEF active
<1>d. Toggle => /\ events' \in Nat /\ hotFor' = 0 /\ pausedFor' = 0
                /\ UNCHANGED <<reader, toReader, helper, latest, hot, acted, coolFor, old>>
  BY <1>0 DEF Toggle, Event
<1>1. CASE Show
  <2>1. screen' = [screen EXCEPT !.visible = TRUE] /\ load' = load /\ preview' \in PreviewType /\ screen.app = "open"
    BY <1>0, <1>1, PreviewTypes DEF Show
  <2>2. screen' \in PageType /\ screen'.app = "open"
    BY <1>0, <2>1 DEF PageType
  <2>. QED
    BY <1>0, <1>1, <1>a, <1>b, <1>c, <1>d, <2>1, <2>2, SyncStep DEF Show
<1>2. CASE Hide
  <2>1. screen' = [screen EXCEPT !.visible = FALSE] /\ load' = load /\ preview' \in PreviewType /\ screen.app = "open"
    BY <1>0, <1>2, PreviewTypes DEF Hide
  <2>2. screen' \in PageType /\ screen'.app = "open"
    BY <1>0, <2>1 DEF PageType
  <2>. QED
    BY <1>0, <1>2, <1>a, <1>b, <1>c, <1>d, <2>1, <2>2, SyncStep DEF Hide
<1>3. CASE StartSession
  <2>1. screen' = screen /\ load' = "running" /\ preview' \in PreviewType /\ screen.app = "open"
    BY <1>0, <1>3, PreviewTypes DEF StartSession
  <2>. QED
    BY <1>0, <1>3, <1>a, <1>b, <1>c, <1>d, <2>1, SyncStep DEF StartSession
<1>4. CASE StopSession
  <2>1. screen' = screen /\ load' = "stopped" /\ preview' = preview /\ screen.app = "open" /\ load = "running"
    BY <1>0, <1>4 DEF StopSession
  <2>2. SetActive(TRUE)
    <3>1. Active(monitor.generation) = TRUE
      BY <1>0, <2>1 DEF Active
    <3>. QED
      BY <1>4, <3>1 DEF StopSession, SetActive
  <2>. QED
    BY <1>0, <1>4, <1>d, <2>1, <2>2, SyncStep DEF StopSession
<1>5. CASE SessionFinished
  <2>1. screen' = screen /\ load' = "off" /\ preview' \in PreviewType /\ load # "off" /\ load # "running"
    BY <1>0, <1>5, PreviewTypes DEF SessionFinished
  <2>2. active => Active(monitor.generation)
    BY <1>0, <2>1 DEF active
  <2>. QED
    BY <1>0, <1>5, <1>a, <1>b, <1>c, <2>1, <2>2, SyncStep DEF SessionFinished, history
<1>6. CASE PreviewFinished
  <2>1. [state |-> "off", restart |-> FALSE] \in PreviewType
    BY DEF PreviewType
  <2>2. /\ screen' = screen /\ preview' \in PreviewType
        /\ load' = load \/ (load = "running" /\ load' = "stopped")
    BY <1>0, <1>6, <2>1, PreviewTypes DEF PreviewFinished
  <2>. QED
    BY <1>0, <1>6, <2>2, QuietStep DEF PreviewFinished
<1>7. CASE Close
  <2>1. /\ screen' \in PageType /\ screen'.app # "open" /\ load' # "running"
        /\ load' = load \/ (load = "running" /\ load' = "stopped")
    BY <1>0, <1>7 DEF Close, PageType, InSession
  <2>. QED
    BY <1>0, <1>7, <2>1, QuietStep DEF Close
<1>8. CASE Exit
  BY <1>0, <1>8, GoneStep DEF Exit, Signalled
<1>. QED
  BY <1>1, <1>2, <1>3, <1>4, <1>5, <1>6, <1>7, <1>8 DEF StressPageStep

-----------------------------------------------------------------------------
(* The reader thread.                                                      *)

\* The thread comes nearer to its end and takes nothing with it.
LEMMA MoveOnStep ==
  ASSUME MonitorAssumption, IInv, reader.pc # "publishing", reader' \in ReaderType,
         UNCHANGED <<reader.gen, reader.block, reader.held, reader.blocks>>,
         reader'.pc \notin {"reading", "publishing"},
         reader'.pc \in {"listening", "accepted", "telling"} => reader.pc \in {"listening", "accepted", "telling"},
         monitor' \in AccessType, monitor'.generation = monitor.generation,
         helper' \in {helper, HelperEnded},
         UNCHANGED <<screen, load, toHelper, toReader, file, preview, latest, since, hot, acted,
                     history, events>>
  PROVE  IInv'
<1>. USE DEF IInv, history
<1>0. /\ helper' \in HelperType /\ helper'.sampling = helper.sampling /\ helper'.epoch = helper.epoch
      /\ InLoop' => InLoop
      /\ helper'.at \in {helper.at, "select"}
  BY DEF TypeOK, HelperType, HelperEnded, InLoop
<1>1. TypeOK'
  BY <1>0 DEF TypeOK
<1>2. Followed' /\ InHand'
  BY DEF Followed, InHand
<1>3. Paused' /\ Heat'
  BY DEF Paused, Heat
<1>4. Epochs'
  BY <1>0 DEF Epochs, Silent, InLoop
<1>5. Silence'
  BY DEF Silence
<1>6. Reached'
  <2>1. hotFor >= 1 => reader'.pc \in {"reading", "publishing", "cleanup", "done"}
    BY DEF Reached, ReaderType
  <2>. QED
    BY <2>1 DEF Reached, HotFile, HotSnapshot
<1>. QED
  BY <1>1, <1>2, <1>3, <1>4, <1>5, <1>6

\* Waiting, sending the first activity, and leaving.
LEMMA ThreadSteps ==
  ASSUME MonitorAssumption, IInv, Accept \/ GiveUp \/ ReadActive \/ Leave \/ ReaderCleanup
  PROVE  IInv'
<1>0. reader \in ReaderType /\ monitor \in AccessType /\ Active(monitor.generation) \in BOOLEAN
  BY DEF IInv, TypeOK, Active
<1>1. CASE Accept
  <2>1. /\ reader' = [reader EXCEPT !.pc = "accepted"] /\ monitor' = [monitor EXCEPT !.status = "ready"]
        /\ reader.pc = "listening"
    BY <1>1 DEF Accept, Read
  <2>2. /\ reader' \in ReaderType /\ reader'.pc = "accepted"
        /\ UNCHANGED <<reader.gen, reader.block, reader.held, reader.blocks>>
        /\ monitor' \in AccessType /\ monitor'.generation = monitor.generation
    BY <1>0, <2>1 DEF ReaderType, AccessType
  <2>. QED
    BY <1>1, <2>1, <2>2, MoveOnStep DEF Accept, Read
<1>2. CASE GiveUp
  <2>1. PICK s \in {monitor.status, "error", "denied"} :
          /\ reader' = [reader EXCEPT !.pc = "cleanup"] /\ monitor' = [monitor EXCEPT !.status = s]
          /\ reader.pc = "listening"
    BY <1>2 DEF GiveUp, Read
  <2>2. /\ reader' \in ReaderType /\ reader'.pc = "cleanup"
        /\ UNCHANGED <<reader.gen, reader.block, reader.held, reader.blocks>>
        /\ monitor' \in AccessType /\ monitor'.generation = monitor.generation
    BY <1>0, <2>1 DEF ReaderType, AccessType
  <2>. QED
    BY <1>2, <2>1, <2>2, MoveOnStep DEF GiveUp, Read
<1>3. CASE ReadActive
  <2>1. /\ reader' = [reader EXCEPT !.pc = "telling", !.send = Active(monitor.generation)]
        /\ monitor' = [monitor EXCEPT !.status = monitor.status] /\ reader.pc = "accepted"
    BY <1>3 DEF ReadActive, Read
  <2>2. /\ reader' \in ReaderType /\ reader'.pc = "telling"
        /\ UNCHANGED <<reader.gen, reader.block, reader.held, reader.blocks>>
        /\ monitor' \in AccessType /\ monitor'.generation = monitor.generation
    BY <1>0, <2>1 DEF ReaderType, AccessType
  <2>. QED
    BY <1>3, <2>1, <2>2, MoveOnStep DEF ReadActive, Read
<1>4. CASE Leave
  <2>1. /\ reader' = [reader EXCEPT !.pc = "cleanup"]
        /\ monitor' = [monitor EXCEPT !.status = monitor.status] /\ reader.pc = "reading"
    BY <1>4 DEF Leave, Read
  <2>2. /\ reader' \in ReaderType /\ reader'.pc = "cleanup"
        /\ UNCHANGED <<reader.gen, reader.block, reader.held, reader.blocks>>
        /\ monitor' \in AccessType /\ monitor'.generation = monitor.generation
    BY <1>0, <2>1 DEF ReaderType, AccessType
  <2>. QED
    BY <1>4, <2>1, <2>2, MoveOnStep DEF Leave, Read
<1>5. CASE ReaderCleanup
  <2>1. /\ reader' = [reader EXCEPT !.pc = "done"] /\ reader.pc = "cleanup"
        /\ \E s \in {monitor.status, "stopped", "error"} : monitor' = [monitor EXCEPT !.status = s]
    BY <1>5 DEF ReaderCleanup
  <2>2. /\ reader' \in ReaderType /\ reader'.pc = "done"
        /\ UNCHANGED <<reader.gen, reader.block, reader.held, reader.blocks>>
        /\ monitor' \in AccessType /\ monitor'.generation = monitor.generation
    BY <1>0, <2>1 DEF ReaderType, AccessType
  <2>. QED
    BY <1>5, <2>1, <2>2, MoveOnStep DEF ReaderCleanup, Signalled
<1>. QED
  BY <1>1, <1>2, <1>3, <1>4, <1>5

\* The activity read before is sent, and the generation of now noted.
LEMMA TellStep ==
  ASSUME MonitorAssumption, IInv, Tell
  PROVE  IInv'
<1>. USE DEF IInv
<1>0. /\ reader \in ReaderType /\ monitor \in AccessType /\ toHelper \in Seq(BOOLEAN)
      /\ reader.pc = "telling" /\ reader.block = None /\ reader.held = None /\ ~None.full
      /\ reader.send \in BOOLEAN /\ monitor.generation \in Nat
  BY DEF TypeOK, Tell, InHand, None, ReaderType, AccessType
<1>1. CASE Connected /\ helper.state = "up"
  <2>1. /\ toHelper' = Append(toHelper, reader.send)
        /\ reader' = [reader EXCEPT !.pc = "reading", !.send = FALSE, !.gen = monitor.generation]
        /\ monitor' = [monitor EXCEPT !.status = monitor.status]
        /\ UNCHANGED <<screen, load, helper, preview, latest, since, hot, acted, history, events, toReader, file>>
    BY <1>1 DEF Tell, Read
  <2>2. /\ reader' \in ReaderType /\ reader'.pc = "reading" /\ reader'.gen = monitor.generation
        /\ reader'.block = None /\ reader'.held = None /\ reader'.blocks = reader.blocks
        /\ monitor' \in AccessType /\ monitor'.generation = monitor.generation
        /\ toHelper' \in Seq(BOOLEAN)
    BY <1>0, <2>1, AppendProperties DEF ReaderType, AccessType
  <2>3. TypeOK'
    BY <2>1, <2>2 DEF TypeOK, history
  <2>4. Followed' /\ InHand'
    BY <1>0, <2>1, <2>2 DEF Followed, InHand
  <2>5. Paused' /\ Heat'
    BY <2>1, <2>2 DEF Paused, Heat, history
  <2>6. Epochs'
    BY <1>0, <2>1, <2>2 DEF Epochs, history
  <2>7. Silence' /\ Reached'
    BY <1>0, <2>1, <2>2 DEF Silence, Reached, history, HotFile, HotSnapshot
  <2>. QED
    BY <2>3, <2>4, <2>5, <2>6, <2>7
<1>2. CASE ~(Connected /\ helper.state = "up")
  <2>1. PICK s \in {monitor.status, "error"} :
          /\ reader' = [reader EXCEPT !.pc = "cleanup"] /\ monitor' = [monitor EXCEPT !.status = s]
    BY <1>2 DEF Tell, Read
  <2>2. /\ reader' \in ReaderType /\ reader'.pc = "cleanup"
        /\ UNCHANGED <<reader.gen, reader.block, reader.held, reader.blocks>>
        /\ monitor' \in AccessType /\ monitor'.generation = monitor.generation
    BY <1>0, <2>1 DEF ReaderType, AccessType
  <2>3. UNCHANGED <<screen, load, helper, toHelper, toReader, file, preview, latest, since, hot, acted,
                    history, events>>
    BY <1>2 DEF Tell, Read
  <2>. QED
    BY <1>0, <2>1, <2>2, <2>3, MoveOnStep
<1>. QED
  BY <1>1, <1>2

\* A line is taken: what it completes is of the activation that goes on, and is
\* held for publishing in the same second.
LEMMA TakeStep ==
  ASSUME MonitorAssumption, IInv, Take
  PROVE  IInv'
<1>. USE DEF IInv
<1>. DEFINE sample == IF reader.blocks THEN Collected ELSE Head(toReader)
            line == Head(toReader)
<1>0. /\ reader \in ReaderType /\ monitor \in AccessType /\ toReader \in Seq(Reading)
      /\ reader.pc = "reading" /\ monitor.generation \in Nat /\ None \in Reading
      /\ toReader # <<>> /\ ~None.full /\ hot \in BOOLEAN
  BY DEF TypeOK, Take, None, AccessType, Reading
<1>1. /\ line = toReader[1] /\ 1 \in 1..Len(toReader) /\ Tail(toReader) \in Seq(Reading)
      /\ line \in Reading
      /\ \A i \in 1..Len(Tail(toReader)) : i + 1 \in 1..Len(toReader) /\ Tail(toReader)[i] = toReader[i + 1]
  <2>1. Len(toReader) \in Nat \ {0} /\ Len(Tail(toReader)) = Len(toReader) - 1
    BY <1>0, HeadTailProperties, EmptySeq, LenProperties
  <2>. QED
    BY <1>0, <2>1, HeadTailProperties, ElementOfSeq
<1>2. line.full /\ line.hot = hot /\ old < line.epoch
  BY <1>1 DEF InHand, Epochs
<1>3. sample \in Reading
  BY <1>0, <1>1 DEF Collected, ReaderType
<1>4. ToPublish(sample) => sample.full /\ Active(monitor.generation)
  BY DEF ToPublish
<1>5. sample.full => old < sample.epoch
  <2>1. ~Silent
    BY <1>0 DEF Silent, InLoop
  <2>. QED
    BY <1>0, <1>2, <2>1 DEF Collected, Epochs
<1>6. ~reader.blocks => sample.full /\ sample.hot = hot
  BY <1>2
<1>. DEFINE next == [reader EXCEPT !.gen = monitor.generation,
                                   !.block = IF reader.blocks THEN line ELSE None,
                                   !.held = IF ToPublish(sample) THEN sample ELSE None,
                                   !.pc = IF ToPublish(sample) THEN "publishing" ELSE "reading"]
<1>7. /\ reader' = next /\ monitor' = [monitor EXCEPT !.status = monitor.status]
      /\ toReader' = Tail(toReader)
      /\ UNCHANGED <<screen, load, helper, preview, latest, since, hot, acted, history, events, toHelper, file>>
  BY DEF Take, Read
<1>. HIDE DEF sample, line
<1>8. ToPublish(sample) \in BOOLEAN
  BY <1>0, <1>3 DEF ToPublish, Reading, Active
<1>9. /\ reader' \in ReaderType /\ reader'.gen = monitor.generation /\ reader'.blocks = reader.blocks
      /\ reader'.block = IF reader.blocks THEN line ELSE None
      /\ reader'.held = IF ToPublish(sample) THEN sample ELSE None
      /\ reader'.pc = IF ToPublish(sample) THEN "publishing" ELSE "reading"
  BY <1>0, <1>1, <1>3, <1>7, <1>8 DEF ReaderType
<1>. HIDE DEF next
<1>10. monitor' \in AccessType /\ monitor'.generation = monitor.generation
  BY <1>0, <1>7 DEF AccessType
<1>11. TypeOK'
  BY <1>1, <1>7, <1>9, <1>10 DEF TypeOK, history
<1>12. Followed'
  BY <1>7, <1>10 DEF Followed
<1>13. InHand'
  BY <1>0, <1>1, <1>4, <1>6, <1>7, <1>9, <1>10 DEF InHand
<1>14. Paused' /\ Heat'
  BY <1>4, <1>7, <1>9, <1>10 DEF Paused, Heat, history
<1>15. Epochs'
  BY <1>0, <1>1, <1>2, <1>4, <1>5, <1>7, <1>9, <1>10 DEF Epochs, history
<1>16. Silence'
  BY <1>7 DEF Silence, history
<1>17. Reached'
  <2>1. load = "running" /\ hot => ToPublish(sample)
    BY <1>6 DEF Followed, InHand, ToPublish
  <2>. QED
    BY <1>0, <1>7, <1>9, <2>1 DEF Reached, history, HotFile, HotSnapshot
<1>. QED
  BY <1>11, <1>12, <1>13, <1>14, <1>15, <1>16, <1>17

\* What is held becomes the sample file, unless its directory is closed.
LEMMA PublishHeldStep ==
  ASSUME MonitorAssumption, IInv, PublishHeld
  PROVE  IInv'
<1>. USE DEF IInv
<1>. DEFINE text == IF reader.blocks THEN FromText(reader.held) ELSE reader.held
<1>0. /\ reader \in ReaderType /\ monitor \in AccessType /\ file \in FileType /\ None \in Reading
      /\ reader.pc = "publishing" /\ reader.held \in Reading /\ reader.held.full
      /\ reader.block \in Reading /\ ~None.full
  BY DEF TypeOK, PublishHeld, ReaderType, InHand, None, Reading
<1>1. /\ reader' = [reader EXCEPT !.pc = "reading", !.held = None]
      /\ monitor' = [monitor EXCEPT !.status = monitor.status]
      /\ (screen.app = "closed" /\ file' = file) \/ file' = Aged(text)
      /\ load = "running" => file' = Aged(text)
      /\ UNCHANGED <<screen, load, helper, preview, latest, since, hot, acted, history, events, toHelper, toReader>>
  BY DEF PublishHeld, Read, Publish, Followed
<1>2. /\ reader' \in ReaderType /\ reader'.pc = "reading" /\ reader'.gen = reader.gen /\ reader'.held = None
      /\ reader'.block = reader.block /\ reader'.blocks = reader.blocks
      /\ monitor' \in AccessType /\ monitor'.generation = monitor.generation
  BY <1>0, <1>1 DEF ReaderType, AccessType
<1>3. text \in Reading /\ text.full /\ text.hot = (IF reader.blocks THEN FALSE ELSE hot)
  BY <1>0 DEF FromText, Reading, InHand
<1>4. /\ Aged(text) \in FileType /\ Aged(text).full /\ Aged(text).age = 0
      /\ Aged(text).hot = (IF reader.blocks THEN FALSE ELSE hot)
  BY <1>3 DEF Aged, FileType, Reading
<1>. HIDE DEF text
<1>5. TypeOK'
  BY <1>0, <1>1, <1>2, <1>4 DEF TypeOK, history
<1>6. Followed' /\ InHand'
  BY <1>0, <1>1, <1>2 DEF Followed, InHand
<1>7. Paused'
  BY <1>0, <1>1, <1>2, <1>4 DEF Paused, history
<1>8. Epochs'
  BY <1>0, <1>1, <1>2 DEF Epochs, Silent, InLoop, history
<1>9. Heat'
  <2>1. file'.hot /\ file' # file => hot /\ file'.age = 0
    BY <1>1, <1>4
  <2>. QED
    BY <1>1, <2>1 DEF Heat, history
<1>10. Silence'
  BY <1>1 DEF Silence, history
<1>11. Reached'
  <2>1. load = "running" /\ hot => HotFile' /\ file'.age = 0
    BY <1>1, <1>4 DEF HotFile, InHand
  <2>. QED
    BY <1>0, <1>1, <1>2, <2>1 DEF Reached, history, HotSnapshot
<1>. QED
  BY <1>5, <1>6, <1>7, <1>8, <1>9, <1>10, <1>11

LEMMA ReaderSteps ==
  ASSUME MonitorAssumption, IInv, ReaderStep
  PROVE  IInv'
  BY ThreadSteps, TellStep, TakeStep, PublishHeldStep DEF ReaderStep

-----------------------------------------------------------------------------
(* The helper.                                                             *)

\* It goes on in its loop, stops its child or ends, by itself or not.
LEMMA HelperMovesStep ==
  ASSUME IInv, helper' \in HelperType, helper'.epoch = helper.epoch,
         InLoop' => InLoop, helper'.sampling => helper.sampling,
         helper'.at \in {"send", "stopping"} => helper'.sampling, events' \in Nat,
         UNCHANGED <<screen, load, monitor, reader, file, preview, latest, since, hot, history,
                     toReader>>,
         \/ UNCHANGED toHelper
         \/ toHelper # <<>> /\ toHelper' = Tail(toHelper),
         UNCHANGED acted
  PROVE  IInv'
<1>. USE DEF IInv, history
<1>1. /\ toHelper' \in Seq(BOOLEAN)
      /\ (\A i \in 1..Len(toHelper) : ~toHelper[i]) => (\A i \in 1..Len(toHelper') : ~toHelper'[i])
  <2>1. CASE UNCHANGED toHelper
    BY <2>1 DEF TypeOK
  <2>2. CASE toHelper # <<>> /\ toHelper' = Tail(toHelper)
    <3>1. toHelper \in Seq(BOOLEAN) /\ Len(toHelper) \in Nat \ {0}
      BY <2>2, EmptySeq, LenProperties DEF TypeOK
    <3>2. /\ toHelper' \in Seq(BOOLEAN) /\ Len(toHelper') = Len(toHelper) - 1
          /\ \A i \in 1..Len(toHelper') : toHelper'[i] = toHelper[i + 1]
      BY <2>2, <3>1, HeadTailProperties
    <3>. QED
      BY <3>1, <3>2
  <2>. QED
    BY <2>1, <2>2
<1>2. TypeOK' /\ Followed' /\ InHand'
  BY <1>1 DEF TypeOK, Followed, InHand
<1>3. Paused' /\ Heat'
  BY DEF Paused, Heat
<1>4. Epochs'
  <2>1. Silent => Silent'
    BY <1>1 DEF Silent, InLoop
  <2>. QED
    BY <2>1 DEF Epochs
<1>5. Silence' /\ Reached'
  BY DEF Silence, Reached, HotFile, HotSnapshot
<1>. QED
  BY <1>2, <1>3, <1>4, <1>5

\* The places of the loop.
LEMMA Places ==
  /\ NextTurn \in {"select", "leaving"}
  /\ \A sampling \in BOOLEAN : \A place \in Onward(sampling) :
       place \in {"select", "send", "leaving"} /\ (place = "send" => sampling)
  BY DEF NextTurn, Onward

LEMMA MoveToStep ==
  ASSUME IInv, NEW place \in {"select", "send", "stopping", "leaving", "stuck"},
         place \in {"send", "stopping"} => helper.sampling, MoveTo(place), events' \in Nat,
         place \notin {"leaving", "stuck"} => helper.at \notin {"leaving", "stuck"},
         \/ UNCHANGED toHelper
         \/ toHelper # <<>> /\ toHelper' = Tail(toHelper),
         UNCHANGED <<toReader, acted>>
  PROVE  IInv'
<1>1. helper \in HelperType /\ helper.state = "up" /\ helper' = [helper EXCEPT !.at = place]
      /\ UNCHANGED <<screen, load, monitor, reader, file, preview, latest, since, hot, history>>
  BY DEF IInv, TypeOK, MoveTo, Help
<1>2. /\ helper' \in HelperType /\ helper'.epoch = helper.epoch /\ helper'.state = helper.state
      /\ helper'.sampling = helper.sampling /\ helper'.at = place /\ (InLoop' => InLoop)
  BY <1>1 DEF HelperType, InLoop
<1>. QED
  BY <1>1, <1>2, HelperMovesStep

LEMMA EndedStep ==
  ASSUME IInv, Help(HelperEnded), events' \in Nat, UNCHANGED <<toHelper, toReader, acted>>
  PROVE  IInv'
<1>1. /\ helper' \in HelperType /\ helper'.epoch = helper.epoch /\ helper'.state = "dead"
      /\ helper'.sampling = helper.sampling /\ helper'.at = "select" /\ ~InLoop'
      /\ UNCHANGED <<screen, load, monitor, reader, file, preview, latest, since, hot, history>>
  BY DEF IInv, TypeOK, HelperType, Help, HelperEnded, InLoop
<1>. QED
  BY <1>1, HelperMovesStep

\* Waking up, hanging up, stopping the child and leaving; what may go wrong.
LEMMA LoopSteps ==
  ASSUME IInv, Wake \/ HangUp \/ StopChild \/ HelperLeaves \/ HelperFails
  PROVE  IInv'
<1>0. helper \in HelperType /\ helper.sampling \in BOOLEAN /\ events \in Nat
  BY DEF IInv, TypeOK, HelperType
<1>1. CASE Wake
  <2>1. PICK place \in Onward(helper.sampling) : MoveTo(place)
    BY <1>1 DEF Wake
  <2>2. helper.at = "select" /\ UNCHANGED <<toHelper, toReader, acted, events>>
    BY <1>1 DEF Wake
  <2>. QED
    BY <1>0, <2>1, <2>2, Places, MoveToStep
<1>2. CASE HangUp
  BY <1>0, <1>2, MoveToStep DEF HangUp
<1>3. CASE StopChild
  <2>1. /\ helper' = [helper EXCEPT !.at = NextTurn, !.sampling = FALSE]
        /\ UNCHANGED <<toHelper, toReader, acted, events>>
        /\ UNCHANGED <<screen, load, monitor, reader, file, preview, latest, since, hot, history>>
    BY <1>3 DEF StopChild, Help
  <2>2. /\ helper' \in HelperType /\ helper'.epoch = helper.epoch /\ helper'.state = helper.state
        /\ ~helper'.sampling /\ helper'.at \notin {"send", "stopping"} /\ (InLoop' => InLoop)
    BY <1>0, <1>3, <2>1, Places DEF HelperType, InLoop, StopChild, Help
  <2>. QED
    BY <1>0, <2>1, <2>2, HelperMovesStep
<1>4. CASE HelperLeaves
  BY <1>0, <1>4, EndedStep DEF HelperLeaves
<1>5. CASE HelperFails
  <2>1. UNCHANGED <<toHelper, toReader, acted>> /\ events' \in Nat
    BY <1>0, <1>5 DEF HelperFails, Event
  <2>. QED
    BY <1>5, <2>1, EndedStep, MoveToStep DEF HelperFails
<1>. QED
  BY <1>1, <1>2, <1>3, <1>4, <1>5

\* An activation begins with a number of its own.
LEMMA ObeyStep ==
  ASSUME IInv, Obey
  PROVE  IInv'
<1>. USE DEF IInv
<1>0. /\ helper \in HelperType /\ helper.epoch \in Nat /\ helper.sampling \in BOOLEAN /\ old \in Nat
      /\ toHelper \in Seq(BOOLEAN) /\ toHelper # <<>> /\ toHelper' = Tail(toHelper)
      /\ events \in Nat /\ toReader' = toReader /\ acted' = acted /\ events' = events
      /\ helper.at = "select"
  BY DEF TypeOK, Obey, HelperType
<1>1. CASE ~Head(toHelper)
  <2>1. MoveTo(IF helper.sampling THEN "stopping" ELSE NextTurn)
    BY <1>1 DEF Obey
  <2>2. CASE helper.sampling
    BY <1>0, <2>1, <2>2, MoveToStep
  <2>3. CASE ~helper.sampling
    BY <1>0, <2>1, <2>3, Places, MoveToStep
  <2>. QED
    BY <2>2, <2>3
<1>2. CASE Head(toHelper)
  <2>. DEFINE epoch == IF helper.sampling THEN helper.epoch ELSE helper.epoch + 1
  <2>1. PICK place \in Onward(TRUE) :
          Help([helper EXCEPT !.at = place, !.sampling = TRUE,
                              !.epoch = IF helper.sampling THEN @ ELSE @ + 1])
    BY <1>2 DEF Obey
  <2>2. /\ helper' = [helper EXCEPT !.at = place, !.sampling = TRUE, !.epoch = epoch] /\ helper.state = "up"
        /\ UNCHANGED <<screen, load, monitor, reader, file, preview, latest, since, hot, history>>
    BY <1>0, <2>1 DEF Help, HelperType
  <2>3. epoch \in Nat /\ helper.epoch <= epoch /\ old < epoch
    BY <1>0 DEF Epochs
  <2>. HIDE DEF epoch
  <2>a. place \in {"select", "send", "leaving"}
    BY Places
  <2>4. /\ helper' \in HelperType /\ helper'.epoch = epoch /\ helper'.sampling
    BY <1>0, <2>2, <2>3, <2>a DEF HelperType
  <2>5. Tail(toHelper) \in Seq(BOOLEAN) /\ toHelper[1] /\ 1 \in 1..Len(toHelper)
    <3>1. Head(toHelper) = toHelper[1] /\ Tail(toHelper) \in Seq(BOOLEAN)
      BY <1>0, HeadTailProperties
    <3>2. Len(toHelper) \in Nat \ {0}
      BY <1>0, EmptySeq, LenProperties
    <3>3. toHelper[1]
      BY <1>2, <3>1, Zenon
    <3>. QED
      BY <3>1, <3>2, <3>3
  <2>6. TypeOK'
    BY <1>0, <2>2, <2>4, <2>5 DEF TypeOK, history
  <2>7. Followed' /\ InHand'
    BY <1>0, <2>2 DEF Followed, InHand
  <2>8. Paused' /\ Heat'
    BY <1>0, <2>2 DEF Paused, Heat, history
  <2>9. Epochs'
    <3>1. ~Silent
      BY <1>0, <2>2, <2>5 DEF Silent, InLoop
    <3>. QED
      BY <1>0, <2>2, <2>3, <2>4, <3>1 DEF Epochs, history
  <2>10. Silence' /\ Reached'
    BY <1>0, <2>2 DEF Silence, Reached, HotFile, HotSnapshot, history
  <2>. QED
    BY <2>6, <2>7, <2>8, <2>9, <2>10
<1>. QED
  BY <1>1, <1>2

\* A sample tells the heat of this second, in the activation that goes on.
LEMMA SampleSensorsStep ==
  ASSUME IInv, SampleSensors
  PROVE  IInv'
<1>. USE DEF IInv
<1>. DEFINE sample == [full |-> TRUE, hot |-> hot, epoch |-> helper.epoch]
<1>0. helper \in HelperType /\ helper.at = "send" /\ helper.sampling /\ NextTurn \in {"select", "leaving"}
  BY Places DEF TypeOK, SampleSensors, Epochs
<1>a. CASE ~Connected
  <2>1. UNCHANGED <<toReader, acted, toHelper, events>> /\ (MoveTo(NextTurn) \/ MoveTo("leaving"))
    BY <1>a DEF SampleSensors
  <2>2. events' \in Nat
    BY <2>1 DEF TypeOK
  <2>. QED
    BY <1>0, <2>1, <2>2, MoveToStep
<1>b. SUFFICES ASSUME Connected
               PROVE  IInv'
  BY <1>a
<1>1. /\ toReader' = Append(toReader, sample) /\ acted' = acted \cup {"helper"}
      /\ helper.sampling /\ helper.state = "up" /\ helper' = [helper EXCEPT !.at = NextTurn]
      /\ UNCHANGED <<screen, load, monitor, reader, file, preview, latest, since, hot, history, toHelper, events>>
  BY <1>0, <1>b DEF SampleSensors, MoveTo, Help
<1>c. /\ helper' \in HelperType /\ helper'.epoch = helper.epoch /\ helper'.sampling
      /\ helper'.at \notin {"send", "stopping"}
  BY <1>0, <1>1 DEF HelperType
<1>2. /\ sample \in Reading /\ sample.full /\ sample.hot = hot /\ old < sample.epoch
  BY <1>1 DEF Reading, TypeOK, HelperType, Epochs
<1>. HIDE DEF sample
<1>3. /\ toReader' \in Seq(Reading) /\ toReader' # <<>>
      /\ \A i \in 1..Len(toReader') : (i \in 1..Len(toReader) /\ toReader'[i] = toReader[i]) \/ toReader'[i] = sample
  <2>1. /\ toReader' \in Seq(Reading) /\ Len(toReader') = Len(toReader) + 1 /\ Len(toReader) \in Nat
        /\ \A i \in 1..Len(toReader) : toReader'[i] = toReader[i]
        /\ toReader'[Len(toReader) + 1] = sample
    BY <1>1, <1>2, AppendProperties, LenProperties DEF TypeOK
  <2>2. toReader' # <<>>
    BY <2>1, EmptySeq
  <2>3. \A i \in 1..Len(toReader') : i \in 1..Len(toReader) \/ i = Len(toReader) + 1
    BY <2>1
  <2>. QED
    BY <2>1, <2>2, <2>3
<1>4. TypeOK'
  BY <1>1, <1>3, <1>c DEF TypeOK, history
<1>5. Followed' /\ InHand'
  BY <1>1, <1>2, <1>3 DEF Followed, InHand
<1>6. Paused' /\ Heat'
  BY <1>1 DEF Paused, Heat, history
<1>7. Epochs'
  <2>1. ~Silent
    BY <1>0, <1>1 DEF Silent, InLoop
  <2>. QED
    BY <1>1, <1>2, <1>3, <1>c, <2>1 DEF Epochs, history
<1>8. Silence' /\ Reached'
  BY <1>1, <1>3 DEF Silence, Reached, HotFile, HotSnapshot, history
<1>. QED
  BY <1>4, <1>5, <1>6, <1>7, <1>8

-----------------------------------------------------------------------------
(* The sensor worker and the supervisor.                                   *)

\* The snapshot is of now; what is critical in it was so in the file.
LEMMA ProviderSampleStep ==
  ASSUME MonitorAssumption, IInv, ProviderSample
  PROVE  IInv'
<1>. USE DEF IInv
<1>1. /\ acted' = acted \cup {"preview"} /\ blind' = 0
      /\ latest' = [full |-> FreshFile /\ file.full, hot |-> FreshFile /\ file.hot, age |-> 0]
      /\ UNCHANGED <<screen, load, monitor, reader, toHelper, toReader, helper, file, preview, since,
                     hot, hotFor, coolFor, pausedFor, old, events>>
  BY DEF ProviderSample
<1>2. file.full \in BOOLEAN /\ file.hot \in BOOLEAN /\ file.age \in Nat /\ FreshFile \in BOOLEAN
  BY DEF TypeOK, FileType, FreshFile
<1>3. /\ latest' \in SnapshotType /\ latest'.age = 0 /\ (latest'.hot <=> FreshFile /\ file.hot)
  BY <1>1, <1>2 DEF SnapshotType
<1>4. TypeOK'
  BY <1>1, <1>3 DEF TypeOK
<1>5. Followed' /\ InHand'
  BY <1>1 DEF Followed, InHand
<1>6. Paused' /\ Epochs'
  BY <1>1 DEF Paused, Epochs, Silent, InLoop
<1>7. Heat'
  <2>1. coolFor \in Nat /\ SampleLife \in Nat
    BY DEF TypeOK, MonitorAssumption
  <2>. QED
    BY <1>1, <1>2, <1>3, <2>1 DEF Heat, FreshFile
<1>8. Silence'
  BY <1>1, <1>3 DEF Silence, MonitorAssumption, TypeOK
<1>9. Reached'
  <2>1. HotFile /\ file.age <= 1 => latest'.hot
    BY <1>2, <1>3 DEF HotFile, FreshFile, MonitorAssumption
  <2>. QED
    BY <1>1, <1>3, <2>1 DEF Reached, HotFile, HotSnapshot, TypeOK
<1>. QED
  BY <1>4, <1>5, <1>6, <1>7, <1>8, <1>9

LEMMA ProviderFailsStep ==
  ASSUME IInv, ProviderFails
  PROVE  IInv'
<1>. USE DEF IInv, history
<1>1. /\ UNCHANGED <<screen, load, monitor, reader, toHelper, toReader, helper, file, latest, since,
                     hot, acted, history>>
      /\ events' = events + 1
      /\ preview' = [preview EXCEPT !.state = "crashed"] \/ preview' = [preview EXCEPT !.state = "hung"]
  BY DEF ProviderFails, Event
<1>2. TypeOK'
  BY <1>1 DEF TypeOK, PreviewType
<1>3. Followed' /\ InHand'
  BY <1>1 DEF Followed, InHand
<1>4. Paused' /\ Epochs' /\ Heat'
  BY <1>1 DEF Paused, Epochs, Silent, InLoop, Heat
<1>5. Silence' /\ Reached'
  BY <1>1 DEF Silence, Reached, HotFile, HotSnapshot
<1>. QED
  BY <1>2, <1>3, <1>4, <1>5

\* A load goes on past a sample only on a snapshot that can be used and is not
\* critical, or while the clock has not run out.
LEMMA SupervisorSampleStep ==
  ASSUME MonitorAssumption, IInv, SupervisorSample
  PROVE  IInv'
<1>. USE DEF IInv
<1>1. /\ load = "running" /\ acted' = acted \cup {"supervisor"}
      /\ since' = IF LatestAt < since THEN LatestAt ELSE since
      /\ load' = IF latest.age < SnapshotLife
                 THEN IF latest.hot THEN "thermal" ELSE load
                 ELSE IF since >= StaleStop THEN "stale" ELSE load
      /\ UNCHANGED <<screen, monitor, reader, toHelper, toReader, helper, file, preview, latest,
                     hot, history, events>>
  BY DEF SupervisorSample
<1>2. /\ latest.age \in Nat /\ since \in Nat /\ blind \in Nat /\ SnapshotLife \in Nat /\ StaleStop \in Nat
      /\ SnapshotLife > 1 /\ SnapshotLife <= StaleStop
  BY DEF TypeOK, SnapshotType, MonitorAssumption
<1>3. since' \in Nat
  BY <1>1, <1>2 DEF LatestAt
<1>4. TypeOK'
  BY <1>1, <1>3 DEF TypeOK, history
<1>5. Followed' /\ InHand'
  BY <1>1 DEF Followed, InHand
<1>6. Paused' /\ Epochs' /\ Heat'
  BY <1>1 DEF Paused, Epochs, Silent, InLoop, Heat, history
<1>7. Silence'
  BY <1>1, <1>2 DEF Silence, LatestAt, history
<1>8. Reached'
  <2>1. HotSnapshot => load' # "running"
    BY <1>1, <1>2 DEF HotSnapshot
  <2>. QED
    BY <1>1, <2>1 DEF Reached, HotFile, HotSnapshot, history
<1>. QED
  BY <1>4, <1>5, <1>6, <1>7, <1>8

-----------------------------------------------------------------------------
(* A second passes.                                                        *)

LEMMA UptoType ==
  ASSUME NEW n \in Nat, NEW limit \in Nat
  PROVE  Upto(n, limit) \in Nat
  BY DEF Upto

\* What the step does to the clocks.
LEMMA TickEffect ==
  ASSUME MonitorAssumption, TypeOK, Tick
  PROVE  /\ UNCHANGED <<screen, load, monitor, reader, toHelper, toReader, helper, preview, events>>
         /\ acted' = {} /\ hot' \in BOOLEAN /\ (hot' => ~reader.blocks)
         /\ file' \in FileType /\ file'.full = file.full /\ file'.hot = file.hot
         /\ file'.age < SampleLife => file'.age = file.age + 1
         /\ file'.age <= file.age + 1
         /\ \/ latest.age + 1 < SnapshotLife /\ latest' \in SnapshotType
               /\ latest'.hot = latest.hot /\ latest'.age = latest.age + 1
            \/ latest.age + 1 >= SnapshotLife /\ latest' \in SnapshotType
               /\ ~latest'.hot /\ latest'.age = SnapshotLife
         /\ since' \in Nat /\ (load = "running" /\ since < StaleStop => since' = since + 1)
         /\ load = "running" /\ since >= StaleStop => since' = StaleStop
         /\ hotFor' \in Nat /\ (Chain /\ hot => hotFor' <= hotFor + 1) /\ (~(Chain /\ hot) => hotFor' = 0)
         /\ coolFor' \in Nat /\ coolFor' <= coolFor + 1 /\ (hot \/ hot' => coolFor' = 0)
         /\ pausedFor' \in Nat /\ pausedFor' <= pausedFor + 1 /\ (Active(monitor.generation) => pausedFor' = 0)
         /\ blind' \in Nat /\ blind' <= blind + 1
         /\ old' = IF helper.sampling THEN old ELSE helper.epoch
<1>0. /\ SampleLife \in Nat /\ SnapshotLife \in Nat /\ StaleStop \in Nat /\ Memory \in Nat /\ StaleStop + 2 \in Nat
      /\ file \in FileType /\ file.age \in Nat /\ latest \in SnapshotType /\ latest.age \in Nat
      /\ since \in Nat /\ hotFor \in Nat /\ coolFor \in Nat /\ pausedFor \in Nat /\ blind \in Nat
      /\ reader.blocks \in BOOLEAN /\ 4 \in Nat
  BY DEF TypeOK, MonitorAssumption, Memory, FileType, SnapshotType, ReaderType
<1>1. /\ UNCHANGED <<screen, load, monitor, reader, toHelper, toReader, helper, preview, events>>
      /\ acted' = {} /\ old' = IF helper.sampling THEN old ELSE helper.epoch
  BY DEF Tick
<1>2. hot' \in BOOLEAN /\ (hot' => ~reader.blocks)
  <2>1. hot' \in {FALSE, ~reader.blocks}
    BY DEF Tick
  <2>. QED
    BY <1>0, <2>1
<1>3. /\ file' \in FileType /\ file'.full = file.full /\ file'.hot = file.hot
      /\ file'.age = Upto(file.age, SampleLife)
  <2>1. file' = [file EXCEPT !.age = Upto(@, SampleLife)] /\ Upto(file.age, SampleLife) \in Nat
    BY <1>0, UptoType DEF Tick
  <2>. QED
    BY <1>0, <2>1 DEF FileType
<1>4. \/ latest.age + 1 < SnapshotLife /\ latest' \in SnapshotType
         /\ latest'.hot = latest.hot /\ latest'.age = latest.age + 1
      \/ latest.age + 1 >= SnapshotLife /\ latest' \in SnapshotType
         /\ ~latest'.hot /\ latest'.age = SnapshotLife
  <2>1. latest' = IF latest.age + 1 < SnapshotLife THEN [latest EXCEPT !.age = @ + 1] ELSE NoSnapshot
    BY DEF Tick
  <2>2. NoSnapshot \in SnapshotType /\ ~NoSnapshot.hot /\ NoSnapshot.age = SnapshotLife
    BY <1>0 DEF NoSnapshot, SnapshotType
  <2>3. CASE latest.age + 1 < SnapshotLife
    BY <1>0, <2>1, <2>3 DEF SnapshotType
  <2>4. CASE ~(latest.age + 1 < SnapshotLife)
    BY <1>0, <2>1, <2>2, <2>4
  <2>. QED
    BY <2>3, <2>4
<1>5. /\ since' = IF load = "running" THEN Upto(since, StaleStop) ELSE 0
      /\ hotFor' = IF Chain /\ hot THEN Upto(hotFor, 4) ELSE 0
      /\ coolFor' = IF hot \/ hot' THEN 0 ELSE Upto(coolFor, Memory)
      /\ pausedFor' = IF Active(monitor.generation) THEN 0 ELSE Upto(pausedFor, Memory)
      /\ blind' = IF load = "running" THEN Upto(blind, StaleStop + 2) ELSE 0
  BY DEF Tick
<1>6. /\ file'.age < SampleLife => file'.age = file.age + 1
      /\ file'.age <= file.age + 1
  BY <1>0, <1>3 DEF Upto
<1>7. /\ since' \in Nat /\ (load = "running" /\ since < StaleStop => since' = since + 1)
      /\ load = "running" /\ since >= StaleStop => since' = StaleStop
      /\ blind' \in Nat /\ blind' <= blind + 1
  BY <1>0, <1>5 DEF Upto
<1>8. hotFor' \in Nat /\ (Chain /\ hot => hotFor' <= hotFor + 1) /\ (~(Chain /\ hot) => hotFor' = 0)
  BY <1>0, <1>5 DEF Upto
<1>9. /\ coolFor' \in Nat /\ coolFor' <= coolFor + 1 /\ (hot \/ hot' => coolFor' = 0)
      /\ pausedFor' \in Nat /\ pausedFor' <= pausedFor + 1 /\ (Active(monitor.generation) => pausedFor' = 0)
  BY <1>0, <1>5 DEF Upto
<1>. QED
  BY <1>1, <1>2, <1>3, <1>4, <1>6, <1>7, <1>8, <1>9

LEMMA TickStep ==
  ASSUME MonitorAssumption, IInv, Tick
  PROVE  IInv'
<1>. USE DEF IInv
<1>0. /\ reader \in ReaderType /\ file.age \in Nat /\ latest.age \in Nat /\ since \in Nat
      /\ hotFor \in Nat /\ coolFor \in Nat /\ pausedFor \in Nat /\ blind \in Nat /\ old \in Nat
      /\ helper \in HelperType /\ helper.epoch \in Nat
      /\ SampleLife \in Nat /\ SnapshotLife \in Nat /\ StaleStop \in Nat
      /\ SampleLife > 1 /\ SnapshotLife > 1 /\ SnapshotLife <= StaleStop
  BY DEF TypeOK, FileType, SnapshotType, HelperType, MonitorAssumption
<1>1. /\ UNCHANGED <<screen, load, monitor, reader, toHelper, toReader, helper, preview, events>>
      /\ acted' = {} /\ hot' \in BOOLEAN /\ (hot' => ~reader.blocks)
      /\ old' = IF helper.sampling THEN old ELSE helper.epoch
  BY TickEffect
<1>2. /\ file' \in FileType /\ file'.full = file.full /\ file'.hot = file.hot /\ file'.age \in Nat
      /\ file'.age < SampleLife => file'.age = file.age + 1
      /\ file'.age <= file.age + 1
  BY TickEffect DEF FileType
<1>3. /\ latest' \in SnapshotType /\ latest'.age \in Nat
      /\ \/ /\ latest.age + 1 < SnapshotLife
            /\ latest'.hot = latest.hot /\ latest'.age = latest.age + 1
         \/ /\ latest.age + 1 >= SnapshotLife
            /\ ~latest'.hot /\ latest'.age = SnapshotLife
  BY TickEffect DEF SnapshotType
<1>4. /\ since' \in Nat /\ blind' \in Nat /\ blind' <= blind + 1
      /\ load = "running" /\ since < StaleStop => since' = since + 1
      /\ load = "running" /\ since >= StaleStop => since' = StaleStop
  BY TickEffect
<1>5. /\ hotFor' \in Nat /\ (Chain /\ hot => hotFor' <= hotFor + 1) /\ (~(Chain /\ hot) => hotFor' = 0)
      /\ coolFor' \in Nat /\ coolFor' <= coolFor + 1 /\ (hot \/ hot' => coolFor' = 0)
      /\ pausedFor' \in Nat /\ pausedFor' <= pausedFor + 1 /\ (Active(monitor.generation) => pausedFor' = 0)
  BY TickEffect
<1>6. /\ toReader = <<>> /\ (Serving => toHelper = <<>>)
      /\ reader.pc \in {"listening", "reading", "done"}
      /\ Serving /\ helper.sampling => "helper" \in acted
      /\ preview.state = "up" => "preview" \in acted
      /\ load = "running" => "supervisor" \in acted
  BY DEF Tick, Settled
<1>7. TypeOK'
  BY <1>0, <1>1, <1>2, <1>3, <1>4, <1>5 DEF TypeOK
<1>8. Followed'
  BY <1>1 DEF Followed
<1>9. InHand'
  BY <1>1, <1>6, EmptySeq DEF InHand
<1>10. Paused'
  BY <1>0, <1>1, <1>2, <1>5, <1>6 DEF Paused
<1>11. Epochs'
  <2>1. ~helper.sampling => Silent'
    <3>1. ~helper.sampling /\ InLoop => Serving
      BY <1>0 DEF Epochs, InLoop, Serving, HelperType
    <3>. QED
      BY <1>1, <1>6, <3>1, EmptySeq DEF Silent, InLoop
  <2>2. Silent => Silent'
    BY <1>1 DEF Silent, InLoop
  <2>. QED
    BY <1>0, <1>1, <1>6, <2>1, <2>2, EmptySeq DEF Epochs
<1>12. Heat'
  BY <1>0, <1>1, <1>2, <1>3, <1>5 DEF Heat
<1>13. Silence'
  BY <1>0, <1>1, <1>3, <1>4, <1>6 DEF Silence
<1>14. Reached'
  <2>1. CASE ~(Chain /\ hot)
    BY <1>5, <2>1 DEF Reached
  <2>2. CASE Chain /\ hot
    <3>1. /\ reader.pc = "reading" /\ load = "running" /\ "helper" \in acted /\ "preview" \in acted
          /\ "supervisor" \in acted /\ hotFor' <= hotFor + 1
      BY <1>5, <1>6, <2>2 DEF Chain
    <3>2. ~(hotFor >= 3)
      BY <2>2, <3>1 DEF Reached
    <3>3. hotFor' >= 2 => HotFile' /\ file'.age <= 1
      BY <1>0, <1>2, <1>5, <1>6, <2>2, <3>1 DEF Reached, HotFile
    <3>4. hotFor' >= 3 => HotSnapshot'
      BY <1>0, <1>3, <1>5, <2>2, <3>1 DEF Reached, HotSnapshot
    <3>. QED
      BY <1>0, <1>1, <1>5, <3>1, <3>2, <3>3, <3>4 DEF Reached
  <2>. QED
    BY <2>1, <2>2
<1>. QED
  BY <1>7, <1>8, <1>9, <1>10, <1>11, <1>12, <1>13, <1>14

-----------------------------------------------------------------------------
(* The invariant holds, and what follows from it.                          *)

LEMMA IInvInit ==
  ASSUME MonitorAssumption, MonitorInit
  PROVE  IInv
<1>1. PICK blocks \in BOOLEAN :
        reader = [pc |-> "listening", send |-> FALSE, gen |-> 0, block |-> None, held |-> None,
                  blocks |-> blocks]
  BY DEF MonitorInit
<1>2. /\ reader \in ReaderType /\ reader.pc = "listening" /\ reader.block = None /\ reader.held = None
      /\ reader.gen = 0 /\ ~None.full
  BY <1>1 DEF ReaderType, Reading, None
<1>3. /\ screen \in PageType /\ screen.app = "open" /\ ~screen.visible /\ load = "off"
      /\ monitor \in AccessType /\ monitor.generation = 0 /\ toHelper = <<>> /\ toReader = <<>>
      /\ helper \in HelperType /\ ~helper.sampling /\ helper.epoch = 0 /\ helper.at = "select"
      /\ preview \in PreviewType
  BY DEF MonitorInit, PageType, AccessType, HelperType, PreviewType
<1>4. /\ file \in FileType /\ ~file.full /\ ~file.hot /\ latest \in SnapshotType /\ ~latest.hot
      /\ since = 0 /\ hot = FALSE /\ acted = {} /\ hotFor = 0 /\ coolFor \in Nat /\ pausedFor = 0
      /\ blind = 0 /\ old = 0 /\ events = 0
  BY DEF MonitorInit, FileType, SnapshotType, Missing, NoSnapshot, Memory, MonitorAssumption
<1>5. ~Active(0)
  BY DEF Active
<1>6. TypeOK
  BY <1>2, <1>3, <1>4, EmptySeq DEF TypeOK
<1>7. Followed /\ InHand /\ Paused
  BY <1>2, <1>3, <1>4, <1>5, EmptySeq DEF Followed, InHand, Paused
<1>8. Epochs /\ Heat /\ Silence /\ Reached
  BY <1>2, <1>3, <1>4, EmptySeq DEF Epochs, Heat, Silence, Reached
<1>. QED
  BY <1>6, <1>7, <1>8 DEF IInv

LEMMA IInvStep ==
  ASSUME MonitorAssumption, IInv, [MonitorNext]_monitorVars
  PROVE  IInv'
<1>0. helper \in HelperType /\ events \in Nat
  BY DEF IInv, TypeOK
<1>1. CASE SamplingStep
  BY <1>1, ProviderSampleStep, SupervisorSampleStep, TickStep DEF SamplingStep
<1>2. CASE HelperStep
  BY <1>0, <1>2, ObeyStep, SampleSensorsStep, LoopSteps DEF HelperStep
<1>3. CASE FaultStep
  <2>1. CASE Die
    BY <1>0, <2>1, GoneStep DEF Die, Event
  <2>2. CASE HelperFails
    BY <2>2, LoopSteps
  <2>. QED
    BY <1>3, <2>1, <2>2, ProviderFailsStep DEF FaultStep
<1>4. CASE UNCHANGED monitorVars
  <2>1. TypeOK' /\ Followed' /\ InHand'
    BY <1>4 DEF monitorVars, history, IInv, TypeOK, Followed, InHand
  <2>2. Paused' /\ Epochs' /\ Heat'
    BY <1>4 DEF monitorVars, history, IInv, Paused, Epochs, Silent, InLoop, Heat
  <2>3. Silence' /\ Reached'
    BY <1>4 DEF monitorVars, history, IInv, Silence, Reached, HotFile, HotSnapshot
  <2>. QED
    BY <2>1, <2>2, <2>3 DEF IInv
<1>. QED
  BY <1>1, <1>2, <1>3, <1>4, PageSteps, ReaderSteps DEF MonitorNext

LEMMA IInvHolds ==
  ASSUME MonitorAssumption
  PROVE  MonitorSpec => []IInv
  BY IInvInit, IInvStep, PTL DEF MonitorSpec

(* A critical reading stops the load within three seconds of a whole path, *)
(* and a load whose readings have dried up is stopped after StaleStop      *)
(* (run_stress.py run_session, telemetry.py, monitor_access.py).           *)
THEOREM LoadIsGuardedHolds ==
  ASSUME MonitorAssumption
  PROVE  MonitorSpec => []LoadIsGuarded
<1>1. IInv => LoadIsGuarded
  BY DEF IInv, Silence, Reached, LoadIsGuarded
<1>. QED
  BY <1>1, IInvHolds, PTL

(* The load is only stopped for a heat that was there: some sensor was     *)
(* critical no longer ago than the two ages a reading may reach on its way *)
(* (run_stress.py run_session, telemetry_stream.py read_snapshot).         *)
THEOREM StopsForHeatHolds ==
  ASSUME MonitorAssumption
  PROVE  MonitorSpec => StopsForHeat
<1>. DEFINE Recent == load' = "thermal" /\ load # "thermal" => coolFor <= SampleLife + SnapshotLife
<1>1. ASSUME IInv, [MonitorNext]_monitorVars
      PROVE  [Recent]_monitorVars
  <2>1. CASE SupervisorSample
    <3>1. load' = "thermal" /\ load # "thermal" => latest.hot /\ latest.age < SnapshotLife
      BY <2>1 DEF SupervisorSample
    <3>. QED
      BY <1>1, <3>1 DEF IInv, TypeOK, SnapshotType, Heat, MonitorAssumption
  <2>2. CASE load' # "thermal" \/ load' = load
    BY <2>2
  <2>3. \/ SupervisorSample \/ load' # "thermal" \/ load' = load \/ UNCHANGED monitorVars
    <3>1. StressPageStep => load' # "thermal" \/ load' = load
      BY DEF StressPageStep, Show, Hide, StartSession, StopSession, SessionFinished, PreviewFinished, Close, Exit, Gone
    <3>2. ReaderStep => load' = load
      BY DEF ReaderStep, Accept, GiveUp, ReadActive, Tell, Take, PublishHeld, Leave, ReaderCleanup, Read
    <3>3. HelperStep => load' = load
      BY DEF HelperStep, Obey, Wake, HangUp, StopChild, SampleSensors, HelperLeaves, MoveTo, Help
    <3>4. SamplingStep => SupervisorSample \/ load' = load
      BY DEF SamplingStep, ProviderSample, Tick
    <3>5. FaultStep => load' # "thermal" \/ load' = load
      BY DEF FaultStep, Die, HelperFails, ProviderFails, Gone, MoveTo, Help
    <3>. QED
      BY <1>1, <3>1, <3>2, <3>3, <3>4, <3>5 DEF MonitorNext
  <2>. QED
    BY <2>1, <2>2, <2>3
<1>. QED
  BY <1>1, IInvHolds, PTL DEF MonitorSpec, StopsForHeat

(* A pause is clean (monitor_access.py set_active, publish, _read): once   *)
(* it has lasted as long as a reading may live, the sample file holds none *)
(* that counts, and no reading of before a pause of a second is published  *)
(* after it, whatever the reader had in hand and the helper still sent.    *)
THEOREM PauseIsCleanHolds ==
  ASSUME MonitorAssumption
  PROVE  MonitorSpec => PauseIsClean
<1>. DEFINE Clean == pausedFor >= SampleLife => ~(file.full /\ file.age < SampleLife)
            NotOld == Publishes => reader.held.epoch > old
<1>1. IInv => Clean
  BY DEF IInv, TypeOK, FileType, Paused, MonitorAssumption
<1>2. IInv => NotOld
  BY DEF IInv, TypeOK, ReaderType, Reading, Epochs, Publishes
<1>3. IInv /\ [MonitorNext]_monitorVars => [NotOld]_monitorVars
  BY <1>2
<1>. QED
  BY <1>1, <1>3, IInvHolds, PTL DEF MonitorSpec, PauseIsClean
=============================================================================
