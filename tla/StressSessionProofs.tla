------------------------ MODULE StressSessionProofs ------------------------
(***************************************************************************)
(* The safety of a stress session for any CPU modes and any number of      *)
(* sessions, mode switches and faults.  Page, supervisor and children each *)
(* know part of a session; the invariant says, for every place the         *)
(* supervisor can be in, what the others may still believe.                *)
(***************************************************************************)
EXTENDS StressSession, SequenceTheorems, TLAPS

Failures == Errors \cup {"thermal_stop"}

\* Places with no child and no line of one.
Bare == {"off", "boot", "write", "publish", "exited", "aborted"}

\* Whoever can stop the session was asked to: the timer of this generation, the
\* kill it started, a signal, the request file.
Asked ==
  /\ gui.active <=> sup.pc # "off"
  /\ gui.timers \subseteq 1..gui.gen /\ (gui.active => gui.gen # 0)
  /\ gui.killing => gui.active
  /\ gui.gen \in gui.timers \/ gui.killing \/ sup.signal \/ request.kind = "stop" => asked

\* The archive as far as the supervisor got.
Archive ==
  /\ gui.gen = 0 => sup.pc = "off" /\ manifest = NoManifest
  /\ sup.pc = "boot" => manifest = NoManifest
  /\ InTry \/ sup.pc \in {"stop", "write"} => manifest.status = "running" /\ manifest.writer
  /\ manifest.status \in {"none", "running"} => manifest.reason = "none"
  /\ sup.pc = "publish" => manifest.writer
  /\ sup.pc = "exited" => ~manifest.writer
  /\ sup.pc \in {"publish", "exited"} =>
       manifest.status = (IF sup.failed THEN "failed" ELSE "stopped") /\ manifest.reason = sup.reason
  /\ sup.pc = "aborted" => asked \/ ~gui.alive \/ sup.unsaved

\* A failure names its cause; no other reason is given without having happened.
Verdict ==
  /\ InTry \/ sup.pc = "boot" => ~sup.failed
  /\ InFinally \/ sup.pc = "exited" =>
       IF sup.failed THEN sup.reason \in Failures
       ELSE sup.reason = "user_stop" => asked \/ sup.escaped

\* What the page shows of a running session, and the events it has not read.
Shown ==
  /\ gui.active =>
       \/ gui.status \in {"running", "stopping", "backend_error"}
       \/ sup.pc = "exited" /\ gui.status = sup.reason
  /\ \A i \in 1..Len(out) :
       out[i].type = "finished" => sup.pc = "exited" /\ out[i].reason = sup.reason

\* Children and their lines.
NoLines == [c \in {"cpu", "gpu"} |-> <<>>]
NoneOld(lines) == \A i \in 1..Len(lines) : ~lines[i].old
Tracked ==
  /\ sup.pc \in Bare \cup {"start"} => cpu = "none" /\ gpu = "none" /\ queue = <<>> /\ pipe = NoLines
  /\ \A c \in {"cpu", "gpu"} : NoneOld(pipe[c])
  /\ gpu # "none" \/ sup.pc \in {"apply", "poll", "check", "sample"} => NoneOld(queue)

\* Every line is an error, which a fault paid for, or the one heartbeat.
Beat(lines) == \E i \in 1..Len(lines) : lines[i].text = "ready"
Beats == Beat(queue) \/ Beat(pipe["gpu"])
Queued == Len(queue)
CpuLines == Len(pipe["cpu"])
GpuLines == Len(pipe["gpu"])
Waiting == Queued + CpuLines + GpuLines
Counted == Waiting <= faults + 1 /\ (Waiting <= faults \/ Beats)

IInv == /\ TypeOK /\ Asked /\ Archive /\ Verdict /\ Shown /\ Tracked /\ Counted
        /\ LoadFollowsModes /\ FailureIsShown /\ UserStopWasAsked /\ EndsWithVerdict

-----------------------------------------------------------------------------
(* The types, part by part.                                                *)

GuiType == [alive : BOOLEAN, active : BOOLEAN, gen : 0..MaxSessions,
            status : Reasons \cup {"idle", "running", "stopping", "stopped"},
            want : SUBSET Modes, timers : SUBSET (1..MaxSessions), killing : BOOLEAN]
SupType == [pc : {"off", "boot", "start", "apply", "poll", "drain", "check", "sample",
                  "stop", "write", "publish", "exited", "aborted"},
            modes : SUBSET Modes, target : SUBSET Modes, last : RequestType,
            reason : Reasons, failed : BOOLEAN, escaped : BOOLEAN,
            beat : {"fresh", "old"}, signal : BOOLEAN, unsaved : BOOLEAN]
ManifestType == [status : {"none", "running", "failed", "stopped"},
                 reason : Reasons \cup {"none"}, writer : BOOLEAN, report : BOOLEAN]
Loads == /\ cpu \in {"none", "up", "bad", "gone"}
         /\ gpu \in {"none", "up", "hung", "failing", "gone"}
         /\ mask \in SUBSET CpuModes /\ orphans \in SUBSET {"cpu", "gpu", "hung"}
Lines == pipe \in [{"cpu", "gpu"} -> Seq(LineType)] /\ queue \in Seq(LineType)

LEMMA Types ==
  TypeOK <=>
    /\ gui \in GuiType /\ request \in RequestType /\ sup \in SupType /\ Loads /\ Lines
    /\ Len(queue) <= 2 * MaxFaults + 2 /\ out \in Seq(EventType) /\ manifest \in ManifestType
    /\ preview \in BOOLEAN /\ asked \in BOOLEAN /\ toggles \in 0..MaxToggles /\ faults \in 0..MaxFaults
  BY DEF TypeOK, GuiType, SupType, ManifestType, Loads, Lines

LEMMA TypesNext ==
  /\ gui' \in GuiType /\ request' \in RequestType /\ sup' \in SupType /\ Loads' /\ Lines'
  /\ Len(queue') <= 2 * MaxFaults + 2 /\ out' \in Seq(EventType) /\ manifest' \in ManifestType
  /\ preview' \in BOOLEAN /\ asked' \in BOOLEAN /\ toggles' \in 0..MaxToggles /\ faults' \in 0..MaxFaults
  => TypeOK'
  BY DEF TypeOK, GuiType, SupType, ManifestType, Loads, Lines

-----------------------------------------------------------------------------
(* What each party leaves alone.                                           *)

LEMMA SupervisorFrame ==
  ASSUME Supervisor
  PROVE  UNCHANGED <<gui, request, preview, toggles, asked>> /\ SupAlive
<1>1. Boot \/ SpawnCpu \/ Change \/ Poll \/ Drain \/ Check \/ Sample => UNCHANGED pageVars /\ SupAlive
  BY DEF Boot, SpawnCpu, Change, Poll, Drain, Check, Sample, SupAlive
<1>2. Interrupted \/ StopChildren \/ WriteVerdict \/ Publish => UNCHANGED pageVars /\ SupAlive
  BY DEF Interrupted, StopChildren, WriteVerdict, Publish, SupAlive, InTry, InLoop, InFinally
<1>. QED
  BY <1>1, <1>2 DEF Supervisor, pageVars

LEMMA ChildrenFrame ==
  ASSUME Children
  PROVE  UNCHANGED <<gui, request, mask, out, manifest, preview, toggles, asked>>
<1>1. CpuFails \/ CpuCrashes \/ GpuBeats \/ GpuFails \/ GpuExits \/ GpuCrashes \/ GpuHangs =>
        UNCHANGED restOfSystem
  BY DEF CpuFails, CpuCrashes, GpuBeats, GpuFails, GpuExits, GpuCrashes, GpuHangs
<1>2. BeatExpires \/ OrphanExits \/ (\E c \in {"cpu", "gpu"} : ReadLine(c)) =>
        UNCHANGED <<gui, request, mask, out, manifest, preview, toggles, asked>>
  BY DEF BeatExpires, OrphanExits, ReadLine, load, bounds
<1>. QED
  BY <1>1, <1>2 DEF Children, restOfSystem

\* A child only ever ages the heartbeat.
LEMMA ChildrenAndSup ==
  ASSUME sup \in SupType, Children
  PROVE  sup' \in {sup, [sup EXCEPT !.beat = "old"]}
<1>1. CpuFails \/ CpuCrashes \/ GpuBeats \/ GpuFails \/ GpuExits \/ GpuCrashes \/ GpuHangs =>
        UNCHANGED sup
  BY DEF CpuFails, CpuCrashes, GpuBeats, GpuFails, GpuExits, GpuCrashes, GpuHangs, restOfSystem
<1>2. BeatExpires => sup' = [sup EXCEPT !.beat = "old"]
  BY DEF BeatExpires
<1>3. OrphanExits \/ (\E c \in {"cpu", "gpu"} : ReadLine(c)) => UNCHANGED sup
  BY DEF OrphanExits, ReadLine
<1>. QED
  BY <1>1, <1>2, <1>3 DEF Children

-----------------------------------------------------------------------------
(* Types are kept.                                                         *)

LEMMA Requests == NoRequest \in RequestType /\ StopRequest \in RequestType
                  /\ (\A S \in SUBSET Modes : ModeRequest(S) \in RequestType)
  BY DEF NoRequest, StopRequest, ModeRequest, RequestType

LEMMA AskTypes ==
  ASSUME TypeOK, gui.gen # 0, NEW g \in GuiType, g.gen = gui.gen, NEW wrote \in BOOLEAN, AskToStop(g, wrote)
  PROVE  gui' \in GuiType /\ request' \in RequestType /\ sup' \in SupType /\ asked' \in BOOLEAN
<1>1. g.gen \in 1..MaxSessions
  BY Types, BoundsAssumption DEF GuiType
<1>2. gui' \in GuiType
  BY <1>1 DEF AskToStop, GuiType
<1>3. SupAlive \in BOOLEAN
  BY DEF SupAlive
<1>4. sup' \in SupType
  BY <1>3, Types DEF AskToStop, SupType
<1>. QED
  BY <1>2, <1>4, Requests, Types DEF AskToStop

LEMMA PageTypes ==
  ASSUME IInv, Page
  PROVE  gui' \in GuiType /\ request' \in RequestType /\ sup' \in SupType /\ asked' \in BOOLEAN
<1>. DEFINE Kept == gui' \in GuiType /\ request' \in RequestType /\ sup' \in SupType /\ asked' \in BOOLEAN
<1>0. /\ TypeOK /\ gui \in GuiType /\ request \in RequestType /\ sup \in SupType /\ asked \in BOOLEAN
      /\ out \in Seq(EventType) /\ (gui.active => gui.gen # 0)
  BY Types DEF IInv, Asked
<1>1. CASE Start
  <2>1. gui.gen + 1 \in 0..MaxSessions
    BY <1>0, <1>1, BoundsAssumption DEF Start, GuiType
  <2>2. gui' \in GuiType
    BY <1>0, <1>1, <2>1 DEF Start, GuiType
  <2>3. sup' \in SupType
    BY <1>0, <1>1, Requests DEF Start, SupType, GuiType, Reasons
  <2>. QED
    BY <1>1, <2>2, <2>3, Requests DEF Start
<1>2. CASE Stop
  <2>1. [gui EXCEPT !.status = "stopping"] \in GuiType /\ [gui EXCEPT !.status = "stopping"].gen = gui.gen
    BY <1>0 DEF GuiType
  <2>. QED
    BY <1>0, <1>2, <2>1, AskTypes DEF Stop
<1>3. ASSUME NEW m \in Modes, Toggle(m)  PROVE Kept
  <2>. DEFINE want == IF m \in gui.want THEN gui.want \ {m} ELSE gui.want \cup {m}
              g == [gui EXCEPT !.want = want]
              h == [g EXCEPT !.status = "stopping"]
  <2>1. want \in SUBSET Modes /\ g \in GuiType /\ h \in GuiType /\ h.gen = gui.gen
    BY <1>0 DEF GuiType
  <2>2. \/ gui' = g /\ request' = ModeRequest(want) /\ UNCHANGED <<sup, asked>>
        \/ gui.active /\ AskToStop(h, FALSE)
        \/ gui' = g /\ UNCHANGED <<request, sup, asked>>
    BY <1>3 DEF Toggle
  <2>. HIDE DEF want, g, h
  <2>. QED
    BY <1>0, <2>1, <2>2, AskTypes, Requests
<1>4. ASSUME NEW t \in gui.timers, TimerFires(t)  PROVE Kept
  <2>1. \/ gui' = [gui EXCEPT !.timers = @ \ {t}, !.killing = TRUE]
        \/ gui' = [gui EXCEPT !.timers = @ \ {t}]
    BY <1>4 DEF TimerFires
  <2>2. gui.timers \ {t} \in SUBSET (1..MaxSessions)
    BY <1>0 DEF GuiType
  <2>3. gui' \in GuiType
    BY <1>0, <2>1, <2>2 DEF GuiType
  <2>. QED
    BY <1>0, <1>4, <2>3 DEF TimerFires
<1>5. CASE KillParent
  <2>1. gui' \in GuiType
    BY <1>0, <1>5 DEF KillParent, GuiType
  <2>2. sup' \in SupType
    BY <1>0, <1>5 DEF KillParent, Abort, SupType
  <2>. QED
    BY <1>0, <1>5, <2>1, <2>2 DEF KillParent
<1>6. ASSUME NEW e \in EventType, e.type = "finished" => e.reason = sup.reason
      PROVE  StatusAfter(e) \in Reasons \cup {"running"}
  BY <1>0, <1>6 DEF StatusAfter, EventType, SupType
<1>7. \A i \in 1..Len(out) : out[i] \in EventType /\ (out[i].type = "finished" => out[i].reason = sup.reason)
  BY <1>0, ElementOfSeq DEF IInv, Shown
<1>8. CASE ReadEvent
  <2>1. Head(out) = out[1] /\ 1 \in 1..Len(out)
    BY <1>0, <1>8, HeadTailProperties, EmptySeq, LenProperties DEF ReadEvent
  <2>2. StatusAfter(Head(out)) \in Reasons \cup {"running"}
    BY <1>6, <1>7, <2>1
  <2>. QED
    BY <1>0, <1>8, <2>2 DEF ReadEvent, GuiType
<1>9. CASE Finished
  <2>1. out = <<>> \/ Len(out) \in 1..Len(out)
    BY <1>0, EmptySeq, LenProperties
  <2>2. (IF out = <<>> THEN gui.status ELSE StatusAfter(out[Len(out)])) \in
          Reasons \cup {"idle", "running", "stopping", "stopped"}
    BY <1>0, <1>6, <1>7, <2>1 DEF GuiType
  <2>3. gui'.status \in Reasons \cup {"idle", "running", "stopping", "stopped"}
        /\ gui' = [gui EXCEPT !.active = FALSE, !.status = gui'.status]
    BY <1>0, <1>9, <2>2 DEF Finished, GuiType, Reasons, Errors
  <2>4. gui' \in GuiType
    BY <1>0, <2>3 DEF GuiType
  <2>5. sup' \in SupType
    BY <1>0, <1>9 DEF Finished, SupType
  <2>. QED
    BY <1>0, <1>9, <2>4, <2>5, Requests DEF Finished
<1>10. CASE PreviewDies
  <2>1. [gui EXCEPT !.status = "backend_error"] \in GuiType /\ [gui EXCEPT !.status = "backend_error"].gen = gui.gen
    BY <1>0 DEF GuiType, Reasons, Errors
  <2>. QED
    BY <1>0, <1>10, <2>1, AskTypes DEF PreviewDies
<1>11. CASE PageDies
  BY <1>0, <1>11 DEF PageDies, GuiType
<1>. QED
  BY <1>1, <1>2, <1>3, <1>4, <1>5, <1>8, <1>9, <1>10, <1>11 DEF Page

LEMMA SupervisorTypes ==
  ASSUME IInv, Supervisor
  PROVE  sup' \in SupType
<1>0. /\ TypeOK /\ gui \in GuiType /\ request \in RequestType /\ sup \in SupType
      /\ queue \in Seq(LineType) /\ EmitWorks \in BOOLEAN
  BY Types DEF IInv, Lines, EmitWorks, GuiType
<1>1. ASSUME NEW reason \in Reasons, Leave(reason) \/ Fail(reason)  PROVE sup' \in SupType
  BY <1>0, <1>1 DEF Leave, Fail, SupType
<1>2. ASSUME NEW pc \in {"start", "apply", "poll", "drain", "check", "sample", "write", "publish", "exited"}, Goto(pc)
      PROVE  sup' \in SupType
  BY <1>0, <1>2 DEF Goto, SupType
<1>3. CASE Abort \/ Uncaught
  BY <1>0, <1>3 DEF Abort, Uncaught, SupType
<1>4. CASE Boot \/ SpawnCpu \/ Check \/ Sample \/ WriteVerdict \/ Publish
  BY <1>1, <1>2, <1>3, <1>4 DEF Boot, SpawnCpu, Check, Sample, WriteVerdict, Publish, Reasons, Errors
<1>5. CASE Change
  <2>1. ASSUME NEW beat \in {"fresh", "old"}, Applied(beat)  PROVE sup' \in SupType
    BY <1>0, <2>1 DEF Applied, SupType, Reasons, Errors
  <2>2. sup.beat \in {"fresh", "old"} /\ [sup EXCEPT !.pc = "stop", !.escaped = TRUE] \in SupType
    BY <1>0 DEF SupType
  <2>. QED
    BY <1>1, <1>5, <2>1, <2>2 DEF Change, NoMemory, BrokenPipe, SpawnGpu, StopGpu, KeepGpu, Reasons, Errors
<1>6. CASE Poll
  <2>1. request.modes \in SUBSET Modes /\ request \in RequestType
    BY <1>0 DEF RequestType
  <2>2. ASSUME NEW pc \in {"stop", "apply", "drain"},
               sup' = [sup EXCEPT !.last = request, !.target = request.modes, !.pc = pc, !.reason = "user_stop"]
        PROVE  sup' \in SupType
    BY <1>0, <2>1, <2>2 DEF SupType, Reasons
  <2>. QED
    BY <1>1, <1>2, <1>6, <2>2 DEF Poll, Reasons
<1>7. CASE Drain
  <2>1. queue # <<>> => Head(queue) = queue[1] /\ queue[1] \in LineType
    BY <1>0, HeadTailProperties, ElementOfSeq, EmptySeq, LenProperties
  <2>2. queue # <<>> /\ Head(queue).text # "ready" => Head(queue).text \in Reasons
    BY <2>1 DEF LineType, Reasons, Errors
  <2>3. [sup EXCEPT !.beat = "fresh"] \in SupType
    BY <1>0 DEF SupType
  <2>. QED
    BY <1>1, <1>2, <1>7, <2>2, <2>3 DEF Drain
<1>8. CASE Interrupted
  <2>1. [sup EXCEPT !.pc = "stop", !.reason = "user_stop", !.signal = FALSE] \in SupType
    BY <1>0 DEF SupType, Reasons
  <2>. QED
    BY <1>3, <1>8, <2>1 DEF Interrupted
<1>9. CASE StopChildren
  <2>1. [sup EXCEPT !.pc = "write", !.reason = "backend_error", !.failed = TRUE] \in SupType
    BY <1>0 DEF SupType, Reasons, Errors
  <2>. QED
    BY <1>2, <1>9, <2>1 DEF StopChildren
<1>. QED
  BY <1>4, <1>5, <1>6, <1>7, <1>8, <1>9 DEF Supervisor

\* The rest of a stopped GPU child's output.
LEMMA DrainedLines ==
  ASSUME Lines
  PROVE  /\ Drained \in Seq(LineType) /\ Len(Drained) = Len(queue) + Len(pipe["gpu"])
         /\ \A i \in 1..Len(Drained) : Drained[i].text = (queue \o pipe["gpu"])[i].text
<1>. DEFINE all == queue \o pipe["gpu"]
            mark(l) == IF l.from = "gpu" THEN [l EXCEPT !.old = TRUE] ELSE l
<1>1. pipe["gpu"] \in Seq(LineType) /\ queue \in Seq(LineType)
  BY DEF Lines
<1>2. all \in Seq(LineType) /\ Len(all) = Len(queue) + Len(pipe["gpu"])
  BY <1>1, ConcatProperties
<1>3. \A l \in LineType : mark(l) \in LineType /\ mark(l).text = l.text
  BY DEF LineType
<1>4. Len(all) \in Nat /\ \A i \in 1..Len(all) : all[i] \in LineType
  BY <1>2, LenProperties, ElementOfSeq
<1>5. Drained = [i \in 1..Len(all) |-> mark(all[i])]
  BY DEF Drained
<1>. HIDE DEF all, mark
<1>6. \A i \in 1..Len(all) : mark(all[i]) \in LineType
  BY <1>3, <1>4
<1>7. Drained \in Seq(LineType) /\ Len(Drained) = Len(all)
  BY <1>4, <1>5, <1>6, IsASeq
<1>8. \A i \in 1..Len(all) : Drained[i] = mark(all[i])
  BY <1>5
<1>9. \A i \in 1..Len(Drained) : Drained[i].text = all[i].text
  BY <1>3, <1>4, <1>7, <1>8
<1>. QED
  BY <1>2, <1>7, <1>9 DEF all

LEMMA LineTypes ==
  ASSUME IInv, Next
  PROVE  Lines'
<1>0. pipe \in [{"cpu", "gpu"} -> Seq(LineType)] /\ queue \in Seq(LineType) /\ <<>> \in Seq(LineType)
  BY Types, EmptySeq DEF IInv, Lines
<1>1. CASE UNCHANGED channels
  BY <1>0, <1>1 DEF channels, Lines
<1>2. CASE pipe' = NoLines /\ queue' = <<>>
  BY <1>0, <1>2 DEF NoLines, Lines
<1>3. CASE UNCHANGED pipe /\ queue # <<>> /\ queue' = Tail(queue)
  BY <1>0, <1>3, HeadTailProperties DEF Lines
<1>4. CASE queue' = Drained /\ pipe' = [pipe EXCEPT !["gpu"] = <<>>]
  BY <1>0, <1>4, DrainedLines DEF Lines
<1>5. ASSUME NEW c \in {"cpu", "gpu"}, ReadLine(c)  PROVE Lines'
  BY <1>0, <1>5, ConcatProperties DEF ReadLine, Lines
<1>6. ASSUME NEW c \in {"cpu", "gpu"}, NEW text \in Errors \cup {"ready"}, UNCHANGED queue, pipe' = [pipe EXCEPT ![c] = <<Line(c, text)>>]
      PROVE  Lines'
  <2>1. Line(c, text) \in LineType
    BY DEF Line, LineType
  <2>2. <<Line(c, text)>> \in Seq(LineType)
    BY <2>1
  <2>. QED
    BY <1>0, <1>6, <2>2 DEF Lines
<1>7. CASE CpuFails \/ GpuBeats \/ GpuFails
  BY <1>6, <1>7 DEF CpuFails, GpuBeats, GpuFails, restOfSystem, Errors
<1>8. CASE Children
  BY <1>1, <1>5, <1>7, <1>8 DEF Children, CpuCrashes, GpuExits, GpuCrashes, GpuHangs, BeatExpires, OrphanExits, restOfSystem, channels
<1>9. CASE Supervisor
  <2>1. CASE Change
    BY <1>1, <1>4, <2>1 DEF Change, NoMemory, BrokenPipe, SpawnGpu, StopGpu, KeepGpu
  <2>2. CASE Drain
    BY <1>1, <1>3, <2>2 DEF Drain, channels
  <2>3. CASE Interrupted \/ StopChildren
    BY <1>1, <1>2, <2>3 DEF Interrupted, StopChildren, Abandon, NoLines
  <2>. QED
    BY <1>1, <1>9, <2>1, <2>2, <2>3 DEF Supervisor, Boot, SpawnCpu, Poll, Check, Sample, WriteVerdict, Publish
<1>10. CASE Page
  BY <1>1, <1>2, <1>10 DEF Page, Start, Stop, KillParent, Abandon, NoLines, ReadEvent, Finished, PreviewDies, PageDies, Toggle, TimerFires
<1>11. CASE Rest
  BY <1>1, <1>11 DEF Rest, vars, channels
<1>. QED
  BY <1>8, <1>9, <1>10, <1>11 DEF Next

LEMMA LoadTypes ==
  ASSUME IInv, Next
  PROVE  Loads'
<1>0. Loads
  BY Types DEF IInv
<1>1. CASE UNCHANGED load
  BY <1>0, <1>1 DEF load, Loads
<1>2. CASE Abandon
  BY <1>0, <1>2 DEF Abandon, Loads
<1>3. CASE Children
  BY <1>0, <1>3 DEF Children, CpuFails, CpuCrashes, GpuBeats, GpuFails, GpuExits, GpuCrashes, GpuHangs,
       BeatExpires, OrphanExits, ReadLine, restOfSystem, load, Loads
<1>4. CASE Change
  <2>1. mask' = mask \/ mask' = sup.target \cap CpuModes
    BY <1>4 DEF Change, NoMemory, BrokenPipe, SpawnGpu, StopGpu, KeepGpu, TellCpu
  <2>2. cpu' \in {cpu, "gone"}
    BY <1>4 DEF Change, NoMemory, BrokenPipe, SpawnGpu, StopGpu, KeepGpu, TellCpu
  <2>3. gpu' \in {gpu, "up", "none"}
    BY <1>4 DEF Change, NoMemory, BrokenPipe, SpawnGpu, StopGpu, KeepGpu
  <2>4. orphans' \in {orphans, orphans \cup {"hung"}}
    BY <1>4 DEF Change, NoMemory, BrokenPipe, SpawnGpu, StopGpu, KeepGpu
  <2>. QED
    BY <1>0, <2>1, <2>2, <2>3, <2>4 DEF Loads
<1>5. CASE SpawnCpu \/ StopChildren
  BY <1>0, <1>5 DEF SpawnCpu, StopChildren, Loads
<1>6. CASE Supervisor
  BY <1>1, <1>2, <1>4, <1>5, <1>6 DEF Supervisor, Boot, Poll, Drain, Check, Sample, Interrupted, WriteVerdict, Publish
<1>7. ASSUME NEW t \in gui.timers, TimerFires(t)  PROVE Loads'
  BY <1>0, <1>7 DEF TimerFires, Loads
<1>8. CASE Page
  BY <1>1, <1>2, <1>7, <1>8 DEF Page, Start, Stop, KillParent, ReadEvent, Finished, PreviewDies, PageDies, Toggle
<1>9. CASE Rest
  BY <1>1, <1>9 DEF Rest, vars, load
<1>. QED
  BY <1>3, <1>6, <1>8, <1>9 DEF Next

LEMMA OutTypes ==
  ASSUME IInv, Next
  PROVE  out' \in Seq(EventType)
<1>0. out \in Seq(EventType) /\ sup \in SupType
  BY Types DEF IInv
<1>1. [type |-> "sample", reason |-> "none"] \in EventType /\ [type |-> "finished", reason |-> sup.reason] \in EventType
  BY <1>0 DEF EventType, SupType
<1>2. CASE UNCHANGED out \/ out' = <<>>
  BY <1>0, <1>2, EmptySeq
<1>3. CASE Sample
  <2>. DEFINE sample == [type |-> "sample", reason |-> "none"]
  <2>1. out' \in {out, <<sample>>}
    BY <1>3 DEF Sample
  <2>2. sample \in EventType
    BY <1>1
  <2>. HIDE DEF sample
  <2>3. <<sample>> \in Seq(EventType)
    BY <2>2
  <2>. QED
    BY <1>0, <2>1, <2>3
<1>4. CASE Publish
  <2>1. UNCHANGED out \/ out' = Append(out, [type |-> "finished", reason |-> sup.reason])
    BY <1>4 DEF Publish
  <2>. QED
    BY <1>0, <1>1, <2>1, AppendProperties
<1>5. CASE Supervisor
  BY <1>2, <1>3, <1>4, <1>5 DEF Supervisor, Boot, SpawnCpu, Change, Poll, Drain, Check, Interrupted, StopChildren, WriteVerdict
<1>6. CASE ReadEvent
  BY <1>0, <1>6, HeadTailProperties DEF ReadEvent
<1>7. CASE Page
  BY <1>2, <1>6, <1>7 DEF Page, Start, Stop, KillParent, Finished, PreviewDies, PageDies, Toggle, TimerFires
<1>8. CASE Rest
  BY <1>2, <1>8 DEF Rest, vars
<1>. QED
  BY <1>2, <1>5, <1>7, <1>8, ChildrenFrame DEF Next

LEMMA ManifestTypes ==
  ASSUME IInv, Next
  PROVE  manifest' \in ManifestType
<1>0. manifest \in ManifestType /\ sup \in SupType
  BY Types DEF IInv
<1>1. CASE UNCHANGED manifest
  BY <1>0, <1>1
<1>2. CASE Start \/ Boot
  <2>1. NoManifest \in ManifestType
    BY DEF NoManifest, ManifestType
  <2>2. [status |-> "running", reason |-> "none", writer |-> TRUE, report |-> FALSE] \in ManifestType
    BY DEF ManifestType
  <2>. QED
    BY <1>0, <1>2, <2>1, <2>2 DEF Start, Boot
<1>3. CASE WriteVerdict
  BY <1>0, <1>3 DEF WriteVerdict, ManifestType, SupType
<1>4. CASE Publish
  <2>1. \/ UNCHANGED manifest
        \/ \E built \in BOOLEAN : manifest' = [manifest EXCEPT !.report = built, !.writer = FALSE]
    BY <1>4 DEF Publish
  <2>. QED
    BY <1>0, <2>1 DEF ManifestType
<1>5. CASE Supervisor
  BY <1>1, <1>2, <1>3, <1>4, <1>5 DEF Supervisor, SpawnCpu, Change, Poll, Drain, Check, Sample, Interrupted, StopChildren
<1>6. CASE Page
  BY <1>1, <1>2, <1>6 DEF Page, Stop, KillParent, ReadEvent, Finished, PreviewDies, PageDies, Toggle, TimerFires
<1>7. CASE Rest
  BY <1>1, <1>7 DEF Rest, vars
<1>. QED
  BY <1>1, <1>5, <1>6, <1>7, ChildrenFrame DEF Next

LEMMA BoundTypes ==
  ASSUME IInv, Next
  PROVE  toggles' \in 0..MaxToggles /\ faults' \in {faults, faults + 1} /\ faults' \in 0..MaxFaults /\ preview' \in BOOLEAN
<1>0. toggles \in 0..MaxToggles /\ faults \in 0..MaxFaults /\ preview \in BOOLEAN /\ MaxToggles \in Nat /\ MaxFaults \in Nat
  BY Types, BoundsAssumption DEF IInv
<1>. DEFINE Counts == UNCHANGED faults \/ Fault
<1>1. Counts /\ UNCHANGED <<toggles, preview>> => toggles' \in 0..MaxToggles /\ faults' \in {faults, faults + 1} /\ faults' \in 0..MaxFaults /\ preview' \in BOOLEAN
  BY <1>0 DEF Fault
<1>2. CASE Supervisor
  <2>1. Boot \/ SpawnCpu \/ Poll \/ Drain \/ Check \/ Sample => Counts
    BY DEF Boot, Uncaught, SpawnCpu, Poll, Drain, Check, Sample
  <2>2. Change => Counts
    BY DEF Change, NoMemory, BrokenPipe, SpawnGpu, StopGpu, KeepGpu
  <2>3. Interrupted \/ StopChildren \/ WriteVerdict \/ Publish => Counts
    BY DEF Interrupted, StopChildren, WriteVerdict, Publish, Uncaught
  <2>. QED
    BY <1>1, <1>2, <2>1, <2>2, <2>3, SupervisorFrame DEF Supervisor
<1>3. CASE Children
  <2>1. CpuFails \/ CpuCrashes \/ GpuBeats \/ GpuFails \/ GpuExits \/ GpuCrashes \/ GpuHangs => Counts
    BY DEF CpuFails, CpuCrashes, GpuBeats, GpuFails, GpuExits, GpuCrashes, GpuHangs
  <2>2. BeatExpires \/ OrphanExits \/ (\E c \in {"cpu", "gpu"} : ReadLine(c)) => Counts
    BY DEF BeatExpires, OrphanExits, ReadLine, bounds
  <2>. QED
    BY <1>1, <1>3, <2>1, <2>2, ChildrenFrame DEF Children
<1>4. CASE Page
  <2>1. Start \/ Finished \/ Stop \/ PreviewDies \/ PageDies => Counts /\ UNCHANGED toggles /\ preview' \in BOOLEAN
    BY <1>0 DEF Start, Finished, Stop, PreviewDies, PageDies, bounds
  <2>2. KillParent \/ ReadEvent \/ (\E t \in gui.timers : TimerFires(t)) => Counts /\ UNCHANGED <<toggles, preview>>
    BY DEF KillParent, ReadEvent, TimerFires, bounds
  <2>3. (\E m \in Modes : Toggle(m)) => Counts /\ UNCHANGED preview /\ toggles < MaxToggles /\ toggles' = toggles + 1
    BY DEF Toggle
  <2>. QED
    BY <1>0, <1>4, <2>1, <2>2, <2>3 DEF Page, Fault
<1>5. CASE Rest
  BY <1>1, <1>5 DEF Rest, vars
<1>. QED
  BY <1>2, <1>3, <1>4, <1>5 DEF Next

-----------------------------------------------------------------------------
(* The supervisor's moves.                                                 *)

LEMMA Moves ==
  ASSUME sup \in SupType
  PROVE  /\ \A pc : Goto(pc) => sup'.pc = pc /\ sup'.reason = sup.reason /\ sup'.failed = sup.failed
                                /\ sup'.escaped = sup.escaped /\ sup'.signal = sup.signal /\ sup'.modes = sup.modes
         /\ \A r : Leave(r) => sup'.pc = "stop" /\ sup'.reason = r /\ sup'.failed = sup.failed
                               /\ sup'.escaped = sup.escaped /\ sup'.signal = sup.signal
         /\ \A r : Fail(r) => sup'.pc = "stop" /\ sup'.reason = r /\ sup'.failed
                              /\ sup'.escaped = sup.escaped /\ sup'.signal = sup.signal
         /\ Abort => sup'.pc = "aborted" /\ sup'.failed /\ ~sup'.signal /\ sup'.reason = sup.reason /\ sup'.escaped = sup.escaped
         /\ Uncaught => sup'.pc = "aborted" /\ sup'.unsaved /\ ~sup'.signal /\ sup'.escaped = sup.escaped
         /\ \A b : Applied(b) => /\ sup'.modes = sup.target /\ sup'.escaped = sup.escaped /\ sup'.signal = sup.signal
                                 /\ IF EmitWorks THEN sup'.pc = "drain" /\ ~sup'.failed /\ sup'.reason = sup.reason
                                    ELSE sup'.pc = "stop" /\ sup'.failed /\ sup'.reason = "backend_error"
<1>1. \A pc : Goto(pc) => sup'.pc = pc /\ sup'.reason = sup.reason /\ sup'.failed = sup.failed
                          /\ sup'.escaped = sup.escaped /\ sup'.signal = sup.signal /\ sup'.modes = sup.modes
  BY DEF SupType, Goto
<1>2. \A r : Leave(r) => sup'.pc = "stop" /\ sup'.reason = r /\ sup'.failed = sup.failed
                         /\ sup'.escaped = sup.escaped /\ sup'.signal = sup.signal
  BY DEF SupType, Leave
<1>3. \A r : Fail(r) => sup'.pc = "stop" /\ sup'.reason = r /\ sup'.failed
                        /\ sup'.escaped = sup.escaped /\ sup'.signal = sup.signal
  BY DEF SupType, Fail
<1>4. Abort => sup'.pc = "aborted" /\ sup'.failed /\ ~sup'.signal /\ sup'.reason = sup.reason /\ sup'.escaped = sup.escaped
  BY DEF SupType, Abort
<1>5. \A b : Applied(b) => /\ sup'.modes = sup.target /\ sup'.escaped = sup.escaped /\ sup'.signal = sup.signal
                           /\ IF EmitWorks THEN sup'.pc = "drain" /\ ~sup'.failed /\ sup'.reason = sup.reason
                              ELSE sup'.pc = "stop" /\ sup'.failed /\ sup'.reason = "backend_error"
  BY DEF SupType, Applied
<1>6. Uncaught => sup'.pc = "aborted" /\ sup'.unsaved /\ ~sup'.signal /\ sup'.escaped = sup.escaped
  BY DEF SupType, Uncaught
<1>. QED
  BY <1>1, <1>2, <1>3, <1>4, <1>5, <1>6

\* What a step of the supervisor is for its session: one of these.
NewManifest == [status |-> "running", reason |-> "none", writer |-> TRUE, report |-> FALSE]
SameVerdict == sup'.failed = sup.failed /\ sup'.reason = sup.reason
Begins == sup.pc = "boot" /\ sup'.pc = "start" /\ ~sup'.failed /\ manifest' = NewManifest
Works == InTry /\ InTry' /\ ~sup'.failed /\ UNCHANGED manifest
Leaves == InTry /\ sup'.pc = "stop" /\ UNCHANGED manifest
          /\ IF sup'.failed THEN sup'.reason \in Failures
             ELSE sup'.reason = "user_stop" => asked \/ sup'.escaped
Stops == sup.pc = "stop" /\ sup'.pc = "write" /\ UNCHANGED manifest
         /\ (SameVerdict \/ (sup'.failed /\ sup'.reason = "backend_error"))
Judges == sup.pc = "write" /\ sup'.pc = "publish" /\ SameVerdict
          /\ manifest' = [manifest EXCEPT !.reason = sup.reason,
                            !.status = IF sup.failed THEN "failed" ELSE "stopped"]
Released == \E built \in BOOLEAN : manifest' = [manifest EXCEPT !.report = built, !.writer = FALSE]
Closes == sup.pc = "publish" /\ sup'.pc = "exited" /\ SameVerdict /\ Released
Breaks == /\ sup'.pc = "aborted" /\ (asked \/ ~gui.alive \/ sup'.unsaved)
          /\ \/ sup.pc = "boot" /\ manifest' \in {manifest, NewManifest}
             \/ InFinally /\ UNCHANGED manifest
             \/ sup.pc = "publish" /\ Released
StepKind == Begins \/ Works \/ Leaves \/ Stops \/ Judges \/ Closes \/ Breaks

LEMMA StepKinds ==
  ASSUME IInv, Supervisor
  PROVE  StepKind /\ (sup'.signal => sup.signal) /\ (sup.escaped => sup'.escaped)
<1>. DEFINE Kept == (sup'.signal => sup.signal) /\ (sup.escaped => sup'.escaped)
<1>0. /\ sup \in SupType /\ gui \in GuiType /\ request \in RequestType /\ queue \in Seq(LineType)
      /\ Asked /\ Verdict /\ EmitWorks = gui.alive
  BY Types DEF IInv, Lines, EmitWorks
<1>1. CASE Boot
  <2>1. sup.pc = "boot" /\ ~sup.failed
    BY <1>0, <1>1 DEF Boot, Verdict
  <2>. QED
    BY <1>0, <1>1, <2>1, Moves DEF Boot, StepKind, Begins, Breaks, NewManifest
<1>2. ASSUME InTry, UNCHANGED manifest, NEW r \in Failures, Fail(r)  PROVE Leaves /\ Kept
  BY <1>0, <1>2, Moves DEF Leaves
<1>3. ASSUME InTry, UNCHANGED manifest, NEW pc \in {"apply", "poll", "drain", "check", "sample"}, Goto(pc)
      PROVE  Works /\ Kept
  <2>1. sup'.pc = pc /\ ~sup'.failed /\ Kept
    BY <1>0, <1>3, Moves DEF Verdict
  <2>. QED
    BY <1>3, <2>1 DEF Works, InTry, InLoop
<1>4. "backend_error" \in Failures /\ "memory_error" \in Failures /\ "thermal_stop" \in Failures
  BY DEF Failures, Errors
<1>5. CASE SpawnCpu
  <2>1. InTry /\ UNCHANGED manifest
    BY <1>5 DEF SpawnCpu, InTry
  <2>. QED
    BY <1>2, <1>3, <1>4, <1>5, <2>1 DEF SpawnCpu, StepKind
<1>6. CASE Change
  <2>1. InTry /\ UNCHANGED manifest
    BY <1>6 DEF Change, InTry
  <2>2. ASSUME NEW beat, Applied(beat)  PROVE (Works \/ Leaves) /\ Kept
    <3>1. CASE EmitWorks
      <4>1. sup'.pc = "drain" /\ ~sup'.failed /\ Kept
        BY <1>0, <2>2, <3>1, Moves
      <4>. QED
        BY <2>1, <4>1 DEF Works, InTry, InLoop
    <3>2. CASE ~EmitWorks
      BY <1>0, <1>4, <2>1, <2>2, <3>2, Moves DEF Leaves
    <3>. QED
      BY <3>1, <3>2
  <2>3. ASSUME sup' = [sup EXCEPT !.pc = "stop", !.escaped = TRUE]  PROVE Leaves /\ Kept
    <3>1. sup'.pc = "stop" /\ sup'.escaped /\ sup'.failed = sup.failed /\ sup'.signal = sup.signal
      BY <1>0, <2>3 DEF SupType
    <3>. QED
      BY <1>0, <2>1, <3>1 DEF Verdict, Leaves
  <2>. QED
    BY <1>2, <1>4, <1>6, <2>1, <2>2, <2>3 DEF Change, NoMemory, BrokenPipe, SpawnGpu, StopGpu, KeepGpu, StepKind
<1>7. CASE Poll
  <2>1. InTry /\ UNCHANGED manifest /\ ~sup.failed
    BY <1>0, <1>7 DEF Poll, InTry, InLoop, Verdict
  <2>2. ASSUME NEW r \in {"parent_exit", "duration_stop"}, Leave(r)  PROVE Leaves /\ Kept
    BY <1>0, <2>1, <2>2, Moves DEF Leaves
  <2>3. ASSUME NEW pc \in {"stop", "apply", "drain"}, pc = "stop" => request.kind = "stop",
               sup' = [sup EXCEPT !.last = request, !.target = request.modes, !.pc = pc, !.reason = "user_stop"]
        PROVE  (Works \/ Leaves) /\ Kept
    <3>1. sup'.pc = pc /\ sup'.failed = sup.failed /\ sup'.signal = sup.signal /\ sup'.escaped = sup.escaped
      BY <1>0, <2>3 DEF SupType
    <3>2. pc = "stop" => asked
      BY <1>0, <2>3 DEF Asked
    <3>3. CASE pc = "stop"
      BY <2>1, <3>1, <3>2, <3>3 DEF Leaves
    <3>4. CASE pc # "stop"
      BY <2>1, <2>3, <3>1, <3>4 DEF Works, InTry, InLoop
    <3>. QED
      BY <3>1, <3>3, <3>4
  <2>. QED
    BY <1>3, <1>7, <2>1, <2>2, <2>3 DEF Poll, StepKind
<1>8. CASE Drain
  <2>1. InTry /\ UNCHANGED manifest /\ ~sup.failed
    BY <1>0, <1>8 DEF Drain, InTry, InLoop, Verdict
  <2>2. queue # <<>> => Head(queue) \in LineType
    BY <1>0, HeadTailProperties, ElementOfSeq, EmptySeq, LenProperties
  <2>3. queue # <<>> /\ Head(queue).text # "ready" => Head(queue).text \in Failures
    BY <2>2 DEF LineType, Failures
  <2>4. ASSUME sup' = [sup EXCEPT !.beat = "fresh"]  PROVE Works /\ Kept
    <3>1. sup'.pc = sup.pc /\ sup'.failed = sup.failed /\ sup'.signal = sup.signal /\ sup'.escaped = sup.escaped
      BY <1>0, <2>4 DEF SupType
    <3>. QED
      BY <2>1, <3>1 DEF Works, InTry, InLoop
  <2>. QED
    BY <1>2, <1>3, <1>8, <2>1, <2>3, <2>4 DEF Drain, StepKind
<1>9. CASE Check \/ Sample
  <2>1. InTry /\ UNCHANGED manifest
    BY <1>9 DEF Check, Sample, InTry, InLoop
  <2>. QED
    BY <1>2, <1>3, <1>4, <1>9, <2>1 DEF Check, Sample, StepKind
<1>10. CASE Interrupted
  <2>1. asked /\ UNCHANGED manifest
    BY <1>0, <1>10 DEF Interrupted, Asked
  <2>2. ASSUME InTry, sup' = [sup EXCEPT !.pc = "stop", !.reason = "user_stop", !.signal = FALSE]  PROVE Leaves /\ Kept
    <3>1. sup'.pc = "stop" /\ sup'.failed = sup.failed /\ sup'.escaped = sup.escaped /\ ~sup'.signal
      BY <1>0, <2>2 DEF SupType
    <3>. QED
      BY <1>0, <2>1, <2>2, <3>1 DEF Verdict, Leaves
  <2>3. ASSUME Abort, InFinally \/ sup.pc = "boot"  PROVE Breaks /\ Kept
    BY <1>0, <2>1, <2>3, Moves DEF Breaks
  <2>. QED
    BY <1>10, <2>2, <2>3 DEF Interrupted, StepKind
<1>11. CASE StopChildren
  <2>1. sup.pc = "stop" /\ UNCHANGED manifest
    BY <1>11 DEF StopChildren
  <2>2. ASSUME sup' = [sup EXCEPT !.pc = "write", !.reason = "backend_error", !.failed = TRUE]  PROVE Stops /\ Kept
    <3>1. sup'.pc = "write" /\ sup'.failed /\ sup'.reason = "backend_error" /\ sup'.escaped = sup.escaped /\ sup'.signal = sup.signal
      BY <1>0, <2>2 DEF SupType
    <3>. QED
      BY <2>1, <3>1 DEF Stops
  <2>3. Goto("write") => Stops /\ Kept
    BY <1>0, <2>1, Moves DEF Stops, SameVerdict
  <2>. QED
    BY <1>11, <2>2, <2>3 DEF StopChildren, StepKind
<1>12. CASE WriteVerdict
  <2>1. sup.pc = "write" /\ InFinally
    BY <1>12 DEF WriteVerdict, InFinally
  <2>2. CASE Uncaught /\ UNCHANGED manifest
    BY <1>0, <2>1, <2>2, Moves DEF Breaks, StepKind
  <2>3. CASE EmitWorks /\ ~Uncaught
    BY <1>0, <1>12, <2>1, <2>3, Moves DEF WriteVerdict, Judges, SameVerdict, StepKind
  <2>4. CASE ~EmitWorks
    BY <1>0, <1>12, <2>1, <2>4, Moves DEF WriteVerdict, Breaks, StepKind
  <2>5. Uncaught /\ EmitWorks => UNCHANGED manifest
    BY <1>0, <1>12, Moves DEF WriteVerdict
  <2>. QED
    BY <2>2, <2>3, <2>4, <2>5
<1>13. CASE Publish
  <2>1. sup.pc = "publish" /\ InFinally
    BY <1>13 DEF Publish, InFinally
  <2>2. CASE Uncaught /\ UNCHANGED manifest
    BY <1>0, <2>1, <2>2, Moves DEF Breaks, StepKind
  <2>3. ASSUME Released, EmitWorks, Goto("exited")  PROVE Closes /\ Kept
    BY <1>0, <2>1, <2>3, Moves DEF Closes, SameVerdict
  <2>4. ASSUME Released, ~EmitWorks, Abort  PROVE Breaks /\ Kept
    BY <1>0, <2>1, <2>4, Moves DEF Breaks
  <2>. QED
    BY <1>13, <2>2, <2>3, <2>4 DEF Publish, Released, StepKind
<1>. QED
  BY <1>1, <1>5, <1>6, <1>7, <1>8, <1>9, <1>10, <1>11, <1>12, <1>13 DEF Supervisor

-----------------------------------------------------------------------------
(* The supervisor keeps the invariant.                                     *)

\* The events it prints: a sample of a running session, a verdict at its end.
LEMMA Events ==
  ASSUME IInv, Supervisor
  PROVE  /\ \A i \in 1..Len(out') : out'[i].type = "finished" => sup'.pc = "exited" /\ out'[i].reason = sup'.reason
         /\ sup.pc # "exited"
<1>0. out \in Seq(EventType) /\ Shown /\ sup \in SupType
  BY Types DEF IInv
<1>1. sup.pc # "exited"
  BY SupervisorFrame DEF SupAlive
<1>2. Len(out) \in Nat /\ \A i \in 1..Len(out) : out[i].type # "finished"
  BY <1>0, <1>1, LenProperties DEF Shown
<1>3. CASE UNCHANGED out
  BY <1>1, <1>2, <1>3
<1>4. CASE Sample
  <2>. DEFINE sample == [type |-> "sample", reason |-> "none"]
  <2>1. out' = out \/ out' = <<sample>>
    BY <1>4 DEF Sample
  <2>2. sample.type # "finished"
    OBVIOUS
  <2>. HIDE DEF sample
  <2>3. CASE out' = <<sample>>
    <3>1. Len(out') = 1 /\ out'[1] = sample
      BY <2>3
    <3>2. \A i \in 1..Len(out') : out'[i] = sample
      BY <3>1
    <3>. QED
      BY <1>1, <2>2, <3>2
  <2>. QED
    BY <1>3, <2>1, <2>3
<1>5. CASE Publish
  <2>. DEFINE last == [type |-> "finished", reason |-> sup.reason]
  <2>1. UNCHANGED out \/ (out' = Append(out, last) /\ Goto("exited"))
    BY <1>5 DEF Publish
  <2>2. last.reason = sup.reason /\ last \in EventType
    BY <1>0 DEF EventType, SupType
  <2>. HIDE DEF last
  <2>3. CASE out' = Append(out, last) /\ Goto("exited")
    <3>1. sup'.pc = "exited" /\ sup'.reason = sup.reason
      BY <1>0, <2>3, Moves
    <3>2. Len(out') = Len(out) + 1 /\ (\A i \in 1..Len(out) : out'[i] = out[i]) /\ out'[Len(out) + 1] = last
      BY <1>0, <2>2, <2>3, AppendProperties
    <3>3. \A i \in 1..Len(out') : i \in 1..Len(out) \/ out'[i] = last
      BY <1>2, <3>2
    <3>. QED
      BY <1>1, <1>2, <2>2, <3>1, <3>2, <3>3
  <2>. QED
    BY <1>3, <2>1, <2>3
<1>. QED
  BY <1>3, <1>4, <1>5 DEF Supervisor, Boot, SpawnCpu, Change, Poll, Drain, Check, Interrupted, StopChildren, WriteVerdict

\* Everything but the load and its lines.
Told == Asked /\ Archive /\ Verdict /\ Shown /\ FailureIsShown /\ UserStopWasAsked /\ EndsWithVerdict

LEMMA SupervisorTold ==
  ASSUME IInv, Supervisor
  PROVE  Told'
<1>0. /\ sup \in SupType /\ sup' \in SupType /\ manifest \in ManifestType /\ gui' = gui /\ request' = request /\ asked' = asked
      /\ SupAlive /\ StepKind /\ (sup'.signal => sup.signal) /\ (sup.escaped => sup'.escaped)
  BY Types, SupervisorTypes, SupervisorFrame, StepKinds DEF IInv
<1>1. sup'.pc # "off" /\ sup.pc # "off" /\ gui.active
  BY <1>0 DEF SupAlive, StepKind, Begins, Works, Leaves, Stops, Judges, Closes, Breaks, InTry, InLoop, IInv, Asked
<1>2. Asked'
  BY <1>0, <1>1 DEF IInv, Asked
<1>3. Shown'
  BY <1>0, Events DEF IInv, Shown
<1>4. FailureIsShown'
  BY <1>0, <1>1 DEF FailureIsShown
<1>5. Verdict'
  BY <1>0 DEF StepKind, Begins, Works, Leaves, Stops, Judges, Closes, Breaks, SameVerdict, IInv, Verdict, InTry, InLoop, InFinally, Failures, Errors
<1>6. gui.gen # 0
  BY <1>1 DEF IInv, Asked
<1>7. Archive' /\ UserStopWasAsked' /\ EndsWithVerdict'
  <2>1. CASE Begins
    <3>1. manifest'.status = "running" /\ manifest'.reason = "none" /\ manifest'.writer
      BY <2>1 DEF Begins, NewManifest
    <3>. QED
      BY <1>0, <1>6, <2>1, <3>1 DEF Begins, Archive, UserStopWasAsked, EndsWithVerdict, Ended, InTry, InLoop
  <2>2. CASE Works \/ Leaves \/ Stops
    BY <1>0, <1>6, <2>2 DEF Works, Leaves, Stops, IInv, Archive, UserStopWasAsked, EndsWithVerdict, Ended, InTry, InLoop
  <2>3. CASE Judges
    <3>1. /\ manifest'.status = (IF sup.failed THEN "failed" ELSE "stopped") /\ manifest'.reason = sup.reason
          /\ manifest'.writer = manifest.writer /\ sup.reason # "none"
      BY <1>0, <2>3 DEF Judges, ManifestType, SupType, Reasons, Errors
    <3>2. ~sup.failed /\ sup.reason = "user_stop" => asked \/ sup.escaped
      BY <2>3 DEF Judges, IInv, Verdict, InFinally
    <3>. QED
      BY <1>0, <1>6, <2>3, <3>1, <3>2 DEF Judges, SameVerdict, IInv, Archive, UserStopWasAsked, EndsWithVerdict, Ended, InTry, InLoop
  <2>4. ASSUME Released  PROVE manifest'.status = manifest.status /\ manifest'.reason = manifest.reason /\ ~manifest'.writer
    BY <1>0, <2>4 DEF Released, ManifestType
  <2>5. CASE Closes
    BY <1>0, <1>6, <2>4, <2>5 DEF Closes, SameVerdict, IInv, Archive, UserStopWasAsked, EndsWithVerdict, Ended, InTry, InLoop
  <2>6. CASE Breaks
    <3>1. \/ manifest' = manifest
          \/ manifest'.status = "running" /\ manifest'.reason = "none"
          \/ manifest'.status = manifest.status /\ manifest'.reason = manifest.reason
      BY <2>4, <2>6 DEF Breaks, NewManifest
    <3>. QED
      BY <1>0, <1>1, <1>6, <2>6, <3>1 DEF Breaks, IInv, Archive, UserStopWasAsked, EndsWithVerdict, Ended, InTry, InLoop
  <2>. QED
    BY <1>0, <2>1, <2>2, <2>3, <2>5, <2>6 DEF StepKind
<1>. QED
  BY <1>2, <1>3, <1>4, <1>5, <1>7 DEF Told

-----------------------------------------------------------------------------
(* So do the children and the page.                                        *)

LEMMA ChildrenTold ==
  ASSUME IInv, Children
  PROVE  Told'
<1>1. /\ sup'.pc = sup.pc /\ sup'.reason = sup.reason /\ sup'.failed = sup.failed
      /\ sup'.escaped = sup.escaped /\ sup'.signal = sup.signal /\ sup'.unsaved = sup.unsaved
  BY ChildrenAndSup, Types DEF IInv, SupType
<1>2. UNCHANGED <<gui, request, out, manifest, asked>>
  BY ChildrenFrame
<1>3. Asked' /\ Archive' /\ Verdict'
  BY <1>1, <1>2 DEF IInv, Asked, Archive, Verdict, InTry, InLoop, InFinally
<1>4. Shown' /\ FailureIsShown' /\ UserStopWasAsked' /\ EndsWithVerdict'
  BY <1>1, <1>2 DEF IInv, Shown, FailureIsShown, UserStopWasAsked, EndsWithVerdict, Ended
<1>. QED
  BY <1>3, <1>4 DEF Told

LEMMA RestTold ==
  ASSUME IInv, UNCHANGED vars
  PROVE  Told'
<1>1. UNCHANGED <<gui, request, sup, out, manifest, asked>>
  BY DEF vars
<1>2. Asked' /\ Archive' /\ Verdict'
  BY <1>1 DEF IInv, Asked, Archive, Verdict, InTry, InLoop, InFinally
<1>3. Shown' /\ FailureIsShown' /\ UserStopWasAsked' /\ EndsWithVerdict'
  BY <1>1 DEF IInv, Shown, FailureIsShown, UserStopWasAsked, EndsWithVerdict, Ended
<1>. QED
  BY <1>2, <1>3 DEF Told

\* Asking for a stop, whichever way.
LEMMA AskTold ==
  ASSUME IInv, gui.active, NEW status \in {"stopping", "backend_error"}, NEW g \in GuiType,
         g.active, g.gen = gui.gen, g.status = status, g.timers = gui.timers, g.alive = gui.alive,
         NEW wrote \in BOOLEAN, AskToStop(g, wrote), UNCHANGED <<out, manifest>>
  PROVE  Told'
<1>1. /\ sup'.pc = sup.pc /\ sup'.reason = sup.reason /\ sup'.failed = sup.failed /\ sup'.escaped = sup.escaped
      /\ sup'.unsaved = sup.unsaved
  BY Types DEF IInv, SupType, AskToStop
<1>2. /\ gui'.active /\ gui'.gen = gui.gen /\ gui'.status = status /\ gui'.timers = gui.timers \cup {gui.gen}
      /\ gui'.alive = gui.alive
  BY DEF AskToStop, GuiType
<1>3. asked' /\ gui.gen \in 1..gui.gen
  BY Types, BoundsAssumption DEF AskToStop, IInv, Asked, GuiType
<1>4. Asked'
  BY <1>1, <1>2, <1>3 DEF IInv, Asked
<1>5. Archive' /\ Verdict'
  BY <1>1, <1>2, <1>3 DEF IInv, Archive, Verdict, InTry, InLoop, InFinally
<1>6. Shown' /\ FailureIsShown' /\ UserStopWasAsked' /\ EndsWithVerdict'
  BY <1>1, <1>2, <1>3 DEF IInv, Shown, FailureIsShown, UserStopWasAsked, EndsWithVerdict, Ended
<1>. QED
  BY <1>4, <1>5, <1>6 DEF Told

\* Of the rest of the output only a verdict counts; failing that, the exit code.
LEMMA FinishedTold ==
  ASSUME IInv, Finished
  PROVE  Told'
<1>. DEFINE read == IF out = <<>> THEN gui.status ELSE StatusAfter(out[Len(out)])
            code == sup.pc = "aborted" \/ sup.failed \/ sup.escaped
            final == IF read \in {"running", "stopping"} THEN IF code THEN "backend_error" ELSE "stopped" ELSE read
<1>0. /\ gui \in GuiType /\ sup \in SupType /\ out \in Seq(EventType) /\ gui.active /\ gui.alive /\ ~gui.killing
      /\ sup.pc \in {"exited", "aborted"} /\ UNCHANGED <<manifest, asked>> /\ out' = <<>> /\ request' = NoRequest
  BY Types DEF IInv, Finished, PageIdle
<1>1. gui' = [gui EXCEPT !.active = FALSE, !.status = final] /\ sup' = [sup EXCEPT !.pc = "off"]
  BY DEF Finished
<1>2. sup'.pc = "off" /\ sup'.reason = sup.reason /\ sup'.failed = sup.failed /\ sup'.escaped = sup.escaped /\ sup'.signal = sup.signal
      /\ sup'.unsaved = sup.unsaved
  BY <1>0, <1>1 DEF SupType
<1>3. \/ read \in {"running", "stopping", "backend_error"}
      \/ sup.pc = "exited" /\ read = sup.reason
  <2>1. CASE out = <<>>
    BY <1>0, <2>1 DEF IInv, Shown
  <2>2. CASE out # <<>>
    <3>1. Len(out) \in 1..Len(out)
      BY <1>0, <2>2, EmptySeq, LenProperties
    <3>. QED
      BY <2>2, <3>1 DEF IInv, Shown, StatusAfter
  <2>. QED
    BY <2>1, <2>2
<1>4. ASSUME manifest.status = "failed"  PROVE final \in Failures
  <2>1. code /\ (sup.pc = "exited" => sup.reason \in Failures)
    BY <1>0, <1>4 DEF IInv, Archive, Verdict
  <2>2. "backend_error" \in Failures /\ "running" \notin Failures /\ "stopping" \notin Failures
    BY DEF Failures, Errors
  <2>. QED
    BY <1>3, <2>1, <2>2
<1>14. sup.pc = "aborted" => final = "backend_error"
  BY <1>3
<1>. HIDE DEF final
<1>5. /\ ~gui'.active /\ gui'.gen = gui.gen /\ gui'.status = final /\ gui'.timers = gui.timers
      /\ gui'.alive /\ ~gui'.killing
  BY <1>0, <1>1 DEF GuiType
<1>6. gui'.status = final /\ manifest' = manifest /\ sup'.pc = "off"
  BY <1>0, <1>2, <1>5
<1>7. Asked'
  BY <1>0, <1>2, <1>5 DEF IInv, Asked, NoRequest
<1>8. Archive' /\ Verdict'
  BY <1>0, <1>2, <1>5 DEF IInv, Asked, Archive, Verdict, InTry, InLoop, InFinally
<1>9. Shown'
  BY <1>0, <1>5 DEF Shown
<1>10. FailureIsShown'
  BY <1>4, <1>6 DEF FailureIsShown, Failures
<1>11. UserStopWasAsked'
  BY <1>0, <1>2 DEF IInv, UserStopWasAsked
<1>12. EndsWithVerdict'
  <2>1. CASE sup.pc = "exited"
    BY <1>0, <1>2, <1>5, <2>1 DEF IInv, Archive, EndsWithVerdict, Ended
  <2>2. CASE sup.pc = "aborted"
    BY <1>0, <1>2, <1>5, <1>14, <2>2 DEF IInv, Archive, EndsWithVerdict, Ended
  <2>. QED
    BY <1>0, <2>1, <2>2
<1>. QED
  BY <1>7, <1>8, <1>9, <1>10, <1>11, <1>12 DEF Told

LEMMA PageTold ==
  ASSUME IInv, Page
  PROVE  Told'
<1>0. /\ gui \in GuiType /\ sup \in SupType /\ out \in Seq(EventType) /\ gui.gen \in Nat
      /\ (gui.active => gui.gen # 0) /\ Asked
  BY Types, BoundsAssumption DEF IInv, Asked, GuiType
<1>1. CASE Start
  <2>1. /\ gui'.active /\ gui'.gen = gui.gen + 1 /\ gui'.status = "running" /\ gui'.timers = gui.timers
        /\ gui'.alive = gui.alive /\ ~gui'.killing
    BY <1>0, <1>1 DEF Start, PageIdle, GuiType
  <2>2. sup'.pc = "boot" /\ ~sup'.failed /\ ~sup'.signal /\ sup.pc = "off"
    BY <1>0, <1>1 DEF Start, Asked
  <2>3. /\ request' = NoRequest /\ NoRequest.kind = "none" /\ ~asked' /\ manifest' = NoManifest /\ UNCHANGED out
        /\ NoManifest.status = "none" /\ NoManifest.reason = "none"
    BY <1>1 DEF Start, NoRequest, NoManifest
  <2>4. Asked'
    BY <1>0, <2>1, <2>2, <2>3 DEF Asked
  <2>5. Archive' /\ Verdict'
    BY <1>0, <2>1, <2>2, <2>3 DEF Archive, Verdict, InTry, InLoop, InFinally
  <2>6. Shown'
    BY <2>1, <2>2, <2>3 DEF IInv, Shown
  <2>7. FailureIsShown' /\ UserStopWasAsked'
    BY <2>1, <2>3 DEF FailureIsShown, UserStopWasAsked
  <2>8. EndsWithVerdict'
    BY <2>2 DEF EndsWithVerdict, Ended
  <2>. QED
    BY <2>4, <2>5, <2>6, <2>7, <2>8 DEF Told
<1>2. ASSUME NEW status \in {"stopping", "backend_error"}, NEW wrote \in BOOLEAN, gui.active,
             AskToStop([gui EXCEPT !.status = status], wrote), UNCHANGED <<out, manifest>>
      PROVE  Told'
  <2>. DEFINE g == [gui EXCEPT !.status = status]
  <2>1. g \in GuiType /\ g.active /\ g.gen = gui.gen /\ g.status = status /\ g.timers = gui.timers /\ g.alive = gui.alive
    BY <1>0, <1>2 DEF GuiType, Reasons, Errors
  <2>. HIDE DEF g
  <2>2. AskToStop(g, wrote)
    BY <1>2 DEF g
  <2>. QED
    BY <1>2, <2>1, <2>2, AskTold
<1>3. CASE Stop
  BY <1>2, <1>3 DEF Stop
<1>4. CASE PreviewDies
  BY <1>2, <1>4 DEF PreviewDies
\* What else a step of the page does: it touches neither the archive nor a verdict.
<1>5. ASSUME UNCHANGED <<manifest, asked>>, sup' = sup \/ (Abort /\ asked /\ SupAlive), gui'.gen = gui.gen,
             gui'.active = gui.active, gui'.alive => gui.alive, ~gui.active => gui'.status = gui.status
      PROVE  Archive' /\ Verdict' /\ UserStopWasAsked' /\ EndsWithVerdict'
  <2>1. CASE sup' = sup
    BY <1>0, <1>5, <2>1 DEF IInv, Archive, Verdict, UserStopWasAsked, EndsWithVerdict, Ended, InTry, InLoop, InFinally
  <2>2. CASE Abort /\ asked /\ SupAlive
    <3>1. sup'.escaped = sup.escaped /\ sup'.pc = "aborted"
      BY <1>0, <2>2, Moves
    <3>2. gui.gen # 0
      BY <1>0, <2>2 DEF IInv, Archive, SupAlive
    <3>. QED
      BY <1>0, <1>5, <2>2, <3>1, <3>2 DEF IInv, Archive, Verdict, UserStopWasAsked, EndsWithVerdict, Ended, InTry, InLoop, InFinally
  <2>. QED
    BY <1>5, <2>1, <2>2
<1>6. ASSUME NEW m \in Modes, Toggle(m)  PROVE Told'
  <2>. DEFINE want == IF m \in gui.want THEN gui.want \ {m} ELSE gui.want \cup {m}
              g == [gui EXCEPT !.want = want]
              h == [g EXCEPT !.status = "stopping"]
  <2>1. want \in SUBSET Modes
    BY <1>0 DEF GuiType
  <2>2. \/ gui' = g /\ request' \in {ModeRequest(want), request} /\ UNCHANGED <<sup, asked>>
        \/ gui.active /\ AskToStop(h, FALSE)
    BY <1>6 DEF Toggle
  <2>3. UNCHANGED <<out, manifest>>
    BY <1>6 DEF Toggle
  <2>4. /\ h \in GuiType /\ h.active = gui.active /\ h.gen = gui.gen /\ h.status = "stopping" /\ h.timers = gui.timers /\ h.alive = gui.alive
        /\ g.active = gui.active /\ g.gen = gui.gen /\ g.status = gui.status /\ g.timers = gui.timers /\ g.alive = gui.alive
        /\ g.killing = gui.killing
    BY <1>0, <2>1 DEF GuiType
  <2>5. ModeRequest(want).kind = "modes"
    BY DEF ModeRequest
  <2>. HIDE DEF want, g, h
  <2>6. CASE gui.active /\ AskToStop(h, FALSE)
    BY <2>3, <2>4, <2>6, AskTold
  <2>7. CASE gui' = g /\ request' \in {ModeRequest(want), request} /\ UNCHANGED <<sup, asked>>
    <3>1. Asked'
      BY <1>0, <2>4, <2>5, <2>7 DEF Asked
    <3>2. Shown' /\ FailureIsShown'
      BY <2>3, <2>4, <2>7 DEF IInv, Shown, FailureIsShown
    <3>. QED
      BY <1>5, <2>3, <2>4, <2>7, <3>1, <3>2 DEF Told
  <2>. QED
    BY <2>2, <2>6, <2>7
<1>7. ASSUME NEW t \in gui.timers, TimerFires(t)  PROVE Told'
  <2>1. UNCHANGED <<request, sup, out, manifest, asked>>
    BY <1>7 DEF TimerFires
  <2>2. \/ gui' = [gui EXCEPT !.timers = @ \ {t}, !.killing = TRUE] /\ gui.active /\ t = gui.gen
        \/ gui' = [gui EXCEPT !.timers = @ \ {t}]
    BY <1>7 DEF TimerFires
  <2>3. /\ gui'.active = gui.active /\ gui'.gen = gui.gen /\ gui'.status = gui.status /\ gui'.timers \subseteq gui.timers
        /\ gui'.alive = gui.alive /\ (gui'.killing => gui.killing \/ (gui.active /\ t = gui.gen))
    BY <1>0, <2>2 DEF GuiType
  <2>4. Asked'
    BY <1>0, <1>7, <2>1, <2>3 DEF Asked
  <2>5. Shown' /\ FailureIsShown'
    BY <2>1, <2>3 DEF IInv, Shown, FailureIsShown
  <2>. QED
    BY <1>5, <2>1, <2>3, <2>4, <2>5 DEF Told
<1>8. CASE KillParent
  <2>1. UNCHANGED <<request, out, manifest, asked>> /\ gui.killing
    BY <1>8 DEF KillParent, bounds
  <2>2. sup' = sup \/ (Abort /\ SupAlive)
    BY <1>8 DEF KillParent
  <2>3. /\ gui'.active = gui.active /\ gui'.gen = gui.gen /\ gui'.status = gui.status /\ gui'.timers = gui.timers
        /\ gui'.alive = gui.alive /\ ~gui'.killing
    BY <1>0, <1>8 DEF KillParent, GuiType
  <2>4. asked /\ gui.active
    BY <1>0, <2>1 DEF Asked
  <2>5. sup' = sup \/ (SupAlive /\ sup'.pc = "aborted" /\ ~sup'.signal)
    BY <1>0, <2>2, Moves
  <2>6. Asked'
    BY <1>0, <2>1, <2>3, <2>4, <2>5 DEF Asked
  <2>7. Shown' /\ FailureIsShown'
    BY <2>1, <2>3, <2>4, <2>5 DEF IInv, Shown, FailureIsShown, SupAlive
  <2>. QED
    BY <1>5, <2>1, <2>2, <2>3, <2>4, <2>5, <2>6, <2>7 DEF Told
<1>9. CASE ReadEvent
  <2>1. UNCHANGED <<request, sup, manifest, asked>> /\ gui.active
    BY <1>9 DEF ReadEvent
  <2>2. /\ gui'.active /\ gui'.gen = gui.gen /\ gui'.status = StatusAfter(Head(out)) /\ gui'.timers = gui.timers
        /\ gui'.alive = gui.alive /\ gui'.killing = gui.killing
    BY <1>0, <1>9 DEF ReadEvent, GuiType
  <2>3. /\ out' \in Seq(EventType) /\ Len(out') = Len(out) - 1 /\ Len(out) \in Nat \ {0} /\ Head(out) = out[1]
        /\ \A i \in 1..Len(out') : out'[i] = out[i + 1]
    BY <1>0, <1>9, HeadTailProperties, EmptySeq, LenProperties DEF ReadEvent
  <2>4. \A i \in 1..Len(out) : out[i].type = "finished" => sup.pc = "exited" /\ out[i].reason = sup.reason
    BY DEF IInv, Shown
  <2>5. 1 \in 1..Len(out) /\ \A i \in 1..Len(out') : i + 1 \in 1..Len(out)
    BY <2>3
  <2>6. gui'.status = "running" \/ (sup.pc = "exited" /\ gui'.status = sup.reason)
    BY <2>2, <2>3, <2>4, <2>5 DEF StatusAfter
  <2>7. \A i \in 1..Len(out') : out'[i].type = "finished" => sup.pc = "exited" /\ out'[i].reason = sup.reason
    BY <2>3, <2>4, <2>5
  <2>8. Asked'
    BY <1>0, <2>1, <2>2 DEF Asked
  <2>9. Shown' /\ FailureIsShown'
    BY <2>1, <2>2, <2>6, <2>7 DEF Shown, FailureIsShown
  <2>. QED
    BY <1>5, <2>1, <2>2, <2>8, <2>9 DEF Told
<1>10. CASE PageDies
  <2>1. UNCHANGED <<request, sup, out, manifest, asked>> /\ gui.active /\ ~gui.killing
    BY <1>10 DEF PageDies, PageIdle
  <2>2. /\ gui'.active /\ gui'.gen = gui.gen /\ gui'.status = gui.status /\ gui'.timers = {}
        /\ ~gui'.alive /\ ~gui'.killing
    BY <1>0, <1>10, <2>1 DEF PageDies, GuiType
  <2>3. Asked'
    BY <1>0, <2>1, <2>2 DEF Asked
  <2>4. Shown' /\ FailureIsShown'
    BY <2>1, <2>2 DEF IInv, Shown, FailureIsShown
  <2>. QED
    BY <1>5, <2>1, <2>2, <2>3, <2>4 DEF Told
<1>. QED
  BY <1>1, <1>3, <1>4, <1>6, <1>7, <1>8, <1>9, <1>10, FinishedTold DEF Page

-----------------------------------------------------------------------------
(* The load.                                                               *)

\* Outside the supervisor a child never appears, and goes only with it.
LEMMA PageLoad ==
  ASSUME IInv, Page
  PROVE  \/ UNCHANGED <<mask, orphans>> /\ (cpu' = "none" <=> cpu = "none") /\ (gpu' = "none" <=> gpu = "none")
            /\ UNCHANGED channels /\ sup'.modes = sup.modes /\ sup'.pc = sup.pc
         \/ sup.pc = "off" /\ sup'.pc = "boot" /\ UNCHANGED <<load, channels>>
         \/ sup.pc \in {"exited", "aborted"} /\ sup'.pc = "off" /\ UNCHANGED <<load, channels>>
         \/ sup'.pc = "aborted" /\ SupAlive /\ Abandon
<1>0. sup \in SupType /\ Asked /\ Loads
  BY Types DEF IInv
<1>. DEFINE Kept == UNCHANGED <<load, channels>> /\ sup'.modes = sup.modes /\ sup'.pc = sup.pc
            Goes == \/ UNCHANGED <<mask, orphans>> /\ (cpu' = "none" <=> cpu = "none") /\ (gpu' = "none" <=> gpu = "none")
                       /\ UNCHANGED channels /\ sup'.modes = sup.modes /\ sup'.pc = sup.pc
                    \/ sup.pc = "off" /\ sup'.pc = "boot" /\ UNCHANGED <<load, channels>>
                    \/ sup.pc \in {"exited", "aborted"} /\ sup'.pc = "off" /\ UNCHANGED <<load, channels>>
                    \/ sup'.pc = "aborted" /\ SupAlive /\ Abandon
<1>1. Kept => Goes
  BY DEF load
<1>2. ASSUME NEW g, NEW wrote, AskToStop(g, wrote)  PROVE sup'.modes = sup.modes /\ sup'.pc = sup.pc
  BY <1>0, <1>2 DEF AskToStop, SupType
<1>3. CASE Stop \/ PreviewDies \/ \E m \in Modes : Toggle(m)
  <2>1. UNCHANGED <<load, channels>>
    BY <1>3 DEF Stop, PreviewDies, Toggle
  <2>2. sup'.modes = sup.modes /\ sup'.pc = sup.pc
    BY <1>2, <1>3 DEF Stop, PreviewDies, Toggle
  <2>. QED
    BY <1>1, <2>1, <2>2
<1>4. CASE ReadEvent \/ PageDies
  BY <1>1, <1>4 DEF ReadEvent, PageDies
<1>5. CASE Start
  BY <1>0, <1>5 DEF Start, Asked
<1>6. CASE Finished
  <2>1. sup' = [sup EXCEPT !.pc = "off"]
    BY <1>6 DEF Finished
  <2>2. sup'.pc = "off"
    BY <1>0, <2>1 DEF SupType
  <2>. QED
    BY <1>6, <2>2 DEF Finished
<1>7. CASE KillParent
  BY <1>0, <1>1, <1>7, Moves DEF KillParent
<1>8. ASSUME NEW t \in gui.timers, TimerFires(t)  PROVE Goes
  <2>1. UNCHANGED <<sup, mask, orphans, channels>>
    BY <1>8 DEF TimerFires
  <2>2. cpu' = "none" <=> cpu = "none"
    BY <1>8 DEF TimerFires
  <2>3. gpu' = "none" <=> gpu = "none"
    BY <1>8 DEF TimerFires
  <2>. QED
    BY <2>1, <2>2, <2>3
<1>. QED
  BY <1>3, <1>4, <1>5, <1>6, <1>7, <1>8 DEF Page

LEMMA ChildrenLoad ==
  ASSUME IInv, Children
  PROVE  (cpu' = "none" <=> cpu = "none") /\ (gpu' = "none" <=> gpu = "none")
         /\ UNCHANGED mask /\ sup'.modes = sup.modes /\ sup'.pc = sup.pc
<1>1. sup'.modes = sup.modes /\ sup'.pc = sup.pc /\ UNCHANGED mask
  BY ChildrenAndSup, ChildrenFrame, Types DEF IInv, SupType
<1>2. CASE CpuFails \/ CpuCrashes
  BY <1>1, <1>2 DEF CpuFails, CpuCrashes
<1>3. CASE GpuBeats \/ GpuFails \/ GpuExits \/ GpuCrashes \/ GpuHangs
  BY <1>1, <1>3 DEF GpuBeats, GpuFails, GpuExits, GpuCrashes, GpuHangs
<1>4. CASE BeatExpires \/ OrphanExits \/ \E c \in {"cpu", "gpu"} : ReadLine(c)
  BY <1>1, <1>4 DEF BeatExpires, OrphanExits, ReadLine, load
<1>. QED
  BY <1>2, <1>3, <1>4 DEF Children

\* What change() does with the load, by how it leaves.
LEMMA ChangeLoad ==
  ASSUME IInv, Change, InLoop'
  PROVE  /\ sup'.pc = "drain" /\ sup'.modes = sup.target /\ cpu' # "none" /\ mask' = sup.target \cap CpuModes
         /\ ("gpu" \in sup.target <=> gpu' # "none")
<1>0. sup \in SupType
  BY Types DEF IInv
<1>1. \A r : ~Fail(r)
  BY <1>0, Moves DEF InLoop
<1>2. sup' # [sup EXCEPT !.pc = "stop", !.escaped = TRUE]
  BY <1>0 DEF InLoop, SupType
<1>3. \A b : Applied(b) => sup'.pc = "drain" /\ sup'.modes = sup.target
  BY <1>0, Moves DEF InLoop
<1>4. CASE SpawnGpu
  BY <1>1, <1>3, <1>4 DEF SpawnGpu, TellCpu
<1>5. CASE StopGpu
  BY <1>2, <1>3, <1>5 DEF StopGpu, TellCpu
<1>6. CASE KeepGpu
  BY <1>3, <1>6 DEF KeepGpu, TellCpu
<1>. QED
  BY <1>1, <1>4, <1>5, <1>6 DEF Change, NoMemory, BrokenPipe

LEMMA LoadFollows ==
  ASSUME IInv, Next
  PROVE  LoadFollowsModes'
<1>. SUFFICES ASSUME InLoop'  PROVE LoadFollowsModes'
  BY DEF LoadFollowsModes
<1>0. sup \in SupType
  BY Types DEF IInv
<1>1. CASE Page
  BY <1>1, PageLoad DEF IInv, LoadFollowsModes, InLoop
<1>2. CASE Children
  BY <1>2, ChildrenLoad DEF IInv, LoadFollowsModes, InLoop
<1>3. CASE Change
  BY <1>3, ChangeLoad DEF LoadFollowsModes
<1>4. ASSUME UNCHANGED <<cpu, mask, gpu>>, InLoop, sup'.modes = sup.modes  PROVE LoadFollowsModes'
  BY <1>4 DEF IInv, LoadFollowsModes
<1>5. \A r : ~Leave(r) /\ ~Fail(r)
  BY <1>0, Moves DEF InLoop
<1>6. \A pc : Goto(pc) => sup'.pc = pc /\ sup'.modes = sup.modes
  BY <1>0, Moves
<1>7. ~Abort
  BY <1>0, Moves DEF InLoop
<1>8. CASE Check \/ Sample
  BY <1>4, <1>5, <1>6, <1>8 DEF Check, Sample, InLoop, load
<1>9. CASE Drain
  <2>1. [sup EXCEPT !.beat = "fresh"].modes = sup.modes
    BY <1>0 DEF SupType
  <2>. QED
    BY <1>4, <1>5, <1>6, <1>9, <2>1 DEF Drain, InLoop, load
<1>10. CASE Poll
  <2>. DEFINE next == CASE request.kind = "stop" -> "stop"
                        [] request.kind = "modes" /\ request.modes # sup.modes -> "apply"
                        [] OTHER -> "drain"
  <2>1. UNCHANGED <<cpu, mask, gpu>> /\ InLoop
    BY <1>10 DEF Poll, InLoop, load
  <2>2. \/ sup' = [sup EXCEPT !.last = request, !.target = request.modes, !.pc = next, !.reason = "user_stop"]
        \/ Goto("drain")
    BY <1>5, <1>10 DEF Poll
  <2>. HIDE DEF next
  <2>3. sup'.modes = sup.modes
    BY <1>0, <1>6, <2>2 DEF SupType
  <2>. QED
    BY <1>4, <2>1, <2>3
<1>11. CASE Boot \/ SpawnCpu \/ StopChildren \/ WriteVerdict \/ Publish
  <2>1. sup' # [sup EXCEPT !.pc = "write", !.reason = "backend_error", !.failed = TRUE] /\ ~Uncaught
    BY <1>0, Moves DEF SupType, InLoop
  <2>2. \A pc : Goto(pc) => pc \in {"poll", "drain", "check", "sample"}
    BY <1>6 DEF InLoop
  <2>3. ~Boot /\ ~SpawnCpu
    BY <1>5, <1>7, <2>1, <2>2 DEF Boot, SpawnCpu
  <2>4. ~Goto("write") /\ ~Goto("publish") /\ ~Goto("exited")
    BY <2>2
  <2>5. ~StopChildren
    BY <2>1, <2>4 DEF StopChildren
  <2>6. ~WriteVerdict /\ ~Publish
    BY <1>7, <2>1, <2>4 DEF WriteVerdict, Publish
  <2>. QED
    BY <1>11, <2>3, <2>5, <2>6
<1>12. CASE Interrupted
  <2>1. sup' # [sup EXCEPT !.pc = "stop", !.reason = "user_stop", !.signal = FALSE]
    BY <1>0 DEF SupType, InLoop
  <2>. QED
    BY <1>7, <1>12, <2>1 DEF Interrupted
<1>13. CASE Rest
  BY <1>13 DEF Rest, vars, IInv, LoadFollowsModes, InLoop
<1>. QED
  BY <1>1, <1>2, <1>3, <1>8, <1>9, <1>10, <1>11, <1>12, <1>13 DEF Next, Supervisor

-----------------------------------------------------------------------------
(* The lines.                                                              *)

LEMMA OldLines ==
  /\ NoneOld(<<>>)
  /\ \A s \in Seq(LineType) : s # <<>> /\ NoneOld(s) => NoneOld(Tail(s))
  /\ \A s, t \in Seq(LineType) : NoneOld(s) /\ NoneOld(t) => NoneOld(s \o t)
  /\ \A c, text : NoneOld(<<Line(c, text)>>)
<1>1. NoneOld(<<>>)
  BY DEF NoneOld
<1>2. ASSUME NEW s \in Seq(LineType), s # <<>>, NoneOld(s)  PROVE NoneOld(Tail(s))
  <2>1. Len(s) \in Nat /\ Len(Tail(s)) = Len(s) - 1 /\ \A i \in 1..Len(Tail(s)) : Tail(s)[i] = s[i + 1]
    BY <1>2, HeadTailProperties, LenProperties
  <2>2. \A i \in 1..Len(Tail(s)) : i + 1 \in 1..Len(s)
    BY <2>1
  <2>. QED
    BY <1>2, <2>1, <2>2 DEF NoneOld
<1>3. ASSUME NEW s \in Seq(LineType), NEW t \in Seq(LineType), NoneOld(s), NoneOld(t)  PROVE NoneOld(s \o t)
  <2>1. /\ Len(s) \in Nat /\ Len(t) \in Nat /\ Len(s \o t) = Len(s) + Len(t)
        /\ \A i \in 1..Len(s \o t) : (s \o t)[i] = IF i <= Len(s) THEN s[i] ELSE t[i - Len(s)]
    BY ConcatProperties, LenProperties
  <2>2. \A i \in 1..Len(s \o t) : i \in 1..Len(s) \/ (~(i <= Len(s)) /\ i - Len(s) \in 1..Len(t))
    BY <2>1
  <2>. QED
    BY <1>3, <2>1, <2>2 DEF NoneOld
<1>4. ASSUME NEW c, NEW text  PROVE NoneOld(<<Line(c, text)>>)
  <2>1. Line(c, text).old = FALSE
    BY DEF Line
  <2>2. Len(<<Line(c, text)>>) = 1 /\ <<Line(c, text)>>[1] = Line(c, text)
    OBVIOUS
  <2>. QED
    BY <2>1, <2>2 DEF NoneOld
<1>. QED
  BY <1>1, <1>2, <1>3, <1>4

LEMMA ChildrenTracked ==
  ASSUME IInv, Children
  PROVE  Tracked'
<1>0. /\ pipe \in [{"cpu", "gpu"} -> Seq(LineType)] /\ queue \in Seq(LineType) /\ Tracked
      /\ sup'.pc = sup.pc /\ (cpu' = "none" <=> cpu = "none") /\ (gpu' = "none" <=> gpu = "none")
  BY Types, ChildrenLoad DEF IInv, Lines
<1>1. CASE UNCHANGED channels
  BY <1>0, <1>1 DEF channels, Tracked
<1>2. ASSUME NEW c \in {"cpu", "gpu"}, pipe[c] # <<>>, queue' = queue \o pipe[c], pipe' = [pipe EXCEPT ![c] = <<>>]
      PROVE  Tracked'
  <2>1. sup.pc \notin Bare \cup {"start"}
    BY <1>0, <1>2 DEF Tracked, NoLines
  <2>2. \A d \in {"cpu", "gpu"} : pipe'[d] \in {pipe[d], <<>>}
    BY <1>0, <1>2
  <2>3. NoneOld(queue) => NoneOld(queue')
    BY <1>0, <1>2, OldLines DEF Tracked
  <2>. QED
    BY <1>0, <2>1, <2>2, <2>3, OldLines DEF Tracked
<1>3. ASSUME NEW c \in {"cpu", "gpu"}, NEW text, (IF c = "cpu" THEN cpu ELSE gpu) # "none", UNCHANGED queue,
             pipe' = [pipe EXCEPT ![c] = <<Line(c, text)>>]
      PROVE  Tracked'
  <2>1. sup.pc \notin Bare \cup {"start"}
    BY <1>0, <1>3 DEF Tracked
  <2>2. \A d \in {"cpu", "gpu"} : pipe'[d] \in {pipe[d], <<Line(c, text)>>}
    BY <1>0, <1>3
  <2>. QED
    BY <1>0, <1>3, <2>1, <2>2, OldLines DEF Tracked
<1>4. CASE CpuFails \/ GpuBeats \/ GpuFails
  BY <1>3, <1>4 DEF CpuFails, GpuBeats, GpuFails, restOfSystem
<1>5. CASE \E c \in {"cpu", "gpu"} : ReadLine(c)
  BY <1>2, <1>5 DEF ReadLine
<1>. QED
  BY <1>1, <1>4, <1>5 DEF Children, CpuCrashes, GpuExits, GpuCrashes, GpuHangs, BeatExpires, OrphanExits, restOfSystem, channels

LEMMA SupervisorTracked ==
  ASSUME IInv, Supervisor
  PROVE  Tracked'
<1>0. /\ pipe \in [{"cpu", "gpu"} -> Seq(LineType)] /\ queue \in Seq(LineType) /\ Tracked /\ sup \in SupType
  BY Types DEF IInv, Lines
<1>1. /\ \A pc : Goto(pc) => sup'.pc = pc
      /\ \A r : Leave(r) \/ Fail(r) => sup'.pc = "stop"
      /\ Abort \/ Uncaught => sup'.pc = "aborted"
      /\ \A b : Applied(b) => sup'.pc \in {"drain", "stop"}
  BY <1>0, Moves
<1>2. CASE Boot \/ WriteVerdict \/ Publish
  <2>1. UNCHANGED <<load, channels>> /\ sup.pc \in Bare /\ sup'.pc \in Bare \cup {"start"}
    BY <1>1, <1>2 DEF Boot, WriteVerdict, Publish, Bare
  <2>. QED
    BY <1>0, <2>1, OldLines DEF Tracked, load, channels, Bare
<1>3. ASSUME UNCHANGED channels, NoneOld(queue), sup'.pc \in {"apply", "poll", "drain", "check", "sample", "stop"}
      PROVE  Tracked'
  BY <1>0, <1>3 DEF Tracked, channels, Bare
<1>4. ASSUME pipe' = NoLines, queue' = <<>>, cpu' = "none", gpu' = "none"
      PROVE  Tracked'
  <2>1. \A c \in {"cpu", "gpu"} : pipe'[c] = <<>>
    BY <1>4 DEF NoLines
  <2>. QED
    BY <1>4, <2>1, OldLines DEF Tracked
<1>5. CASE SpawnCpu
  <2>1. sup.pc = "start" /\ UNCHANGED channels /\ sup'.pc \in {"apply", "stop"}
    BY <1>1, <1>5 DEF SpawnCpu
  <2>. QED
    BY <1>0, <1>3, <2>1, OldLines DEF Tracked
<1>6. CASE Change
  <2>1. sup.pc = "apply" /\ NoneOld(queue)
    BY <1>0, <1>6 DEF Change, Tracked
  <2>2. [sup EXCEPT !.pc = "stop", !.escaped = TRUE].pc = "stop"
    BY <1>0 DEF SupType
  <2>3. sup'.pc \in {"drain", "stop"}
    BY <1>1, <1>6, <2>2 DEF Change, NoMemory, BrokenPipe, SpawnGpu, StopGpu, KeepGpu
  <2>4. CASE StopGpu
    <3>1. gpu' = "none" /\ pipe' = [pipe EXCEPT !["gpu"] = <<>>]
      BY <2>4 DEF StopGpu
    <3>2. \A c \in {"cpu", "gpu"} : pipe'[c] \in {pipe[c], <<>>}
      BY <1>0, <3>1
    <3>. QED
      BY <1>0, <2>3, <3>1, <3>2, OldLines DEF Tracked, Bare
  <2>. QED
    BY <1>3, <1>6, <2>1, <2>3, <2>4 DEF Change, NoMemory, BrokenPipe, SpawnGpu, KeepGpu
<1>7. CASE Poll
  <2>. DEFINE next == CASE request.kind = "stop" -> "stop"
                        [] request.kind = "modes" /\ request.modes # sup.modes -> "apply"
                        [] OTHER -> "drain"
  <2>1. UNCHANGED channels /\ NoneOld(queue)
    BY <1>0, <1>7 DEF Poll, Tracked
  <2>2. \/ sup' = [sup EXCEPT !.last = request, !.target = request.modes, !.pc = next, !.reason = "user_stop"]
        \/ sup'.pc \in {"stop", "drain"}
    BY <1>1, <1>7 DEF Poll
  <2>3. next \in {"stop", "apply", "drain"}
    OBVIOUS
  <2>. HIDE DEF next
  <2>4. sup'.pc \in {"stop", "apply", "drain"}
    BY <1>0, <2>2, <2>3 DEF SupType
  <2>. QED
    BY <1>3, <2>1, <2>4
<1>8. CASE Drain
  <2>1. [sup EXCEPT !.beat = "fresh"].pc = sup.pc
    BY <1>0 DEF SupType
  <2>2. CASE queue = <<>>
    BY <1>1, <1>3, <1>8, <2>2, OldLines DEF Drain, channels
  <2>3. CASE queue # <<>>
    <3>1. sup'.pc \in {"drain", "stop"} /\ UNCHANGED <<load, pipe>> /\ queue' = Tail(queue)
      BY <1>1, <1>8, <2>1, <2>3 DEF Drain
    <3>2. gpu # "none" => NoneOld(queue')
      BY <1>0, <2>3, <3>1, OldLines DEF Tracked
    <3>. QED
      BY <1>0, <3>1, <3>2 DEF Tracked, load, Bare
  <2>. QED
    BY <2>2, <2>3
<1>9. CASE Check \/ Sample
  <2>1. NoneOld(queue) /\ UNCHANGED channels
    BY <1>0, <1>9 DEF Check, Sample, Tracked
  <2>2. sup'.pc \in {"sample", "poll", "stop"}
    BY <1>1, <1>9 DEF Check, Sample
  <2>. QED
    BY <1>3, <2>1, <2>2
<1>10. CASE Interrupted
  <2>1. CASE Abandon
    BY <1>4, <2>1 DEF Abandon, NoLines
  <2>2. ASSUME UNCHANGED <<load, channels>>, sup' = [sup EXCEPT !.pc = "stop", !.reason = "user_stop", !.signal = FALSE]
        PROVE  Tracked'
    <3>1. sup'.pc = "stop"
      BY <1>0, <2>2 DEF SupType
    <3>. QED
      BY <1>0, <2>2, <3>1 DEF Tracked, load, channels, Bare
  <2>. QED
    BY <1>10, <2>1, <2>2 DEF Interrupted
<1>11. CASE StopChildren
  BY <1>4, <1>11 DEF StopChildren, NoLines
<1>. QED
  BY <1>2, <1>5, <1>6, <1>7, <1>8, <1>9, <1>10, <1>11 DEF Supervisor

LEMMA PageTracked ==
  ASSUME IInv, Page
  PROVE  Tracked'
<1>0. Tracked /\ sup.pc \in {"off"} => sup.pc \in Bare
  BY DEF Bare
<1>1. CASE Abandon
  <2>1. \A c \in {"cpu", "gpu"} : pipe'[c] = <<>>
    BY <1>1 DEF Abandon
  <2>. QED
    BY <1>1, <2>1, OldLines DEF Abandon, Tracked, NoLines
<1>2. CASE (cpu' = "none" <=> cpu = "none") /\ (gpu' = "none" <=> gpu = "none") /\ UNCHANGED channels /\ sup'.pc = sup.pc
  BY <1>2 DEF IInv, Tracked, channels
<1>3. CASE sup.pc \in Bare /\ sup'.pc \in Bare /\ UNCHANGED <<load, channels>>
  BY <1>3, OldLines DEF IInv, Tracked, channels, load, Bare
<1>. QED
  BY <1>1, <1>2, <1>3, PageLoad DEF Bare

LEMMA BeatLines ==
  /\ ~Beat(<<>>) /\ Len(<<>>) = 0
  /\ \A s \in Seq(LineType) : s # <<>> =>
       /\ Len(s) \in Nat /\ Len(Tail(s)) = Len(s) - 1
       /\ Beat(s) => Head(s).text = "ready" \/ Beat(Tail(s))
  /\ \A s, t \in Seq(LineType) :
       Len(s \o t) = Len(s) + Len(t) /\ (Beat(s) \/ Beat(t) => Beat(s \o t)) /\ Len(s) \in Nat /\ Len(t) \in Nat
  /\ \A c : Beat(<<Line(c, "ready")>>)
<1>1. ~Beat(<<>>) /\ Len(<<>>) = 0
  BY DEF Beat
<1>2. ASSUME NEW s \in Seq(LineType), s # <<>>
      PROVE  /\ Len(s) \in Nat /\ Len(Tail(s)) = Len(s) - 1
             /\ Beat(s) => Head(s).text = "ready" \/ Beat(Tail(s))
  <2>1. /\ Len(s) \in Nat /\ Len(Tail(s)) = Len(s) - 1 /\ Head(s) = s[1]
        /\ \A i \in 1..Len(Tail(s)) : Tail(s)[i] = s[i + 1]
    BY <1>2, HeadTailProperties, LenProperties
  <2>2. ASSUME NEW i \in 1..Len(s), s[i].text = "ready", i # 1  PROVE Beat(Tail(s))
    <3>1. i - 1 \in 1..Len(Tail(s)) /\ Tail(s)[i - 1] = s[(i - 1) + 1] /\ (i - 1) + 1 = i
      BY <2>1, <2>2
    <3>. QED
      BY <2>2, <3>1 DEF Beat
  <2>. QED
    BY <2>1, <2>2 DEF Beat
<1>3. ASSUME NEW s \in Seq(LineType), NEW t \in Seq(LineType)
      PROVE  Len(s \o t) = Len(s) + Len(t) /\ (Beat(s) \/ Beat(t) => Beat(s \o t)) /\ Len(s) \in Nat /\ Len(t) \in Nat
  <2>1. /\ Len(s) \in Nat /\ Len(t) \in Nat /\ Len(s \o t) = Len(s) + Len(t)
        /\ \A i \in 1..Len(s \o t) : (s \o t)[i] = IF i <= Len(s) THEN s[i] ELSE t[i - Len(s)]
    BY ConcatProperties, LenProperties
  <2>2. ASSUME NEW i \in 1..Len(s), s[i].text = "ready"  PROVE Beat(s \o t)
    <3>1. i \in 1..Len(s \o t) /\ (s \o t)[i] = s[i]
      BY <2>1
    <3>. QED
      BY <2>2, <3>1 DEF Beat
  <2>3. ASSUME NEW i \in 1..Len(t), t[i].text = "ready"  PROVE Beat(s \o t)
    <3>1. i + Len(s) \in 1..Len(s \o t) /\ ~(i + Len(s) <= Len(s)) /\ (i + Len(s)) - Len(s) = i
      BY <2>1
    <3>2. (s \o t)[i + Len(s)] = t[i]
      BY <2>1, <3>1
    <3>. QED
      BY <2>3, <3>1, <3>2 DEF Beat
  <2>. QED
    BY <2>1, <2>2, <2>3 DEF Beat
<1>4. ASSUME NEW c  PROVE Beat(<<Line(c, "ready")>>)
  <2>1. Line(c, "ready").text = "ready" /\ Len(<<Line(c, "ready")>>) = 1 /\ <<Line(c, "ready")>>[1] = Line(c, "ready")
    BY DEF Line
  <2>. QED
    BY <2>1 DEF Beat
<1>. QED
  BY <1>1, <1>2, <1>3, <1>4

LEMMA Sums ==
  \A a, b, c \in Nat :
    /\ a + b + c \in Nat /\ a <= a + b + c
    /\ a + 1 + c = (a + 0 + c) + 1 /\ a + b + 1 = (a + b + 0) + 1
    /\ \A m \in Nat : a <= b /\ b <= c + 1 /\ c <= m => a <= 2 * m + 2
  OBVIOUS

\* Why a queue of 128 slots is never full: a line costs a fault, but for the one
\* heartbeat that is under way.
LEMMA CountedKept ==
  ASSUME IInv, Next
  PROVE  Counted'
<1>0. /\ pipe \in [{"cpu", "gpu"} -> Seq(LineType)] /\ queue \in Seq(LineType)
      /\ pipe' \in [{"cpu", "gpu"} -> Seq(LineType)] /\ queue' \in Seq(LineType)
  BY Types, LineTypes DEF IInv, Lines
<1>1. faults \in Nat /\ (faults' = faults \/ faults' = faults + 1)
  <2>1. faults \in 0..MaxFaults /\ MaxFaults \in Nat
    BY Types, BoundsAssumption DEF IInv
  <2>2. faults' = faults \/ faults' = faults + 1
    BY BoundTypes
  <2>. QED
    BY <2>1, <2>2
<1>2. /\ Queued \in Nat /\ CpuLines \in Nat /\ GpuLines \in Nat
      /\ Queued' \in Nat /\ CpuLines' \in Nat /\ GpuLines' \in Nat
  BY <1>0, LenProperties DEF Queued, CpuLines, GpuLines
<1>c. Waiting = Queued + CpuLines + GpuLines /\ Waiting' = Queued' + CpuLines' + GpuLines'
  BY DEF Waiting
<1>3. Waiting \in Nat /\ Waiting' \in Nat
  BY <1>2, <1>c, Sums
<1>a. Counted
  BY DEF IInv
<1>b. Waiting <= faults + 1
  BY <1>a DEF Counted
<1>4. Waiting > faults => Beats
  <2>1. Waiting <= faults => ~(Waiting > faults)
    BY <1>1, <1>3
  <2>. QED
    BY <1>a, <2>1 DEF Counted
\* The count is kept, or grows with the faults, and so is the heartbeat.
<1>5. ASSUME Waiting' <= Waiting + (faults' - faults), Waiting > faults /\ Waiting' > faults' => Beats'
      PROVE  Counted'
  <2>1. Waiting' <= faults' + 1 /\ (Waiting' > faults' => Waiting > faults)
    <3>1. Waiting' <= Waiting + (faults' - faults)
      BY <1>5
    <3>. QED
      BY <1>1, <1>3, <1>b, <3>1
  <2>2. Waiting' <= faults' \/ Waiting' > faults'
    BY <1>1, <1>3
  <2>3. Waiting' <= faults' \/ Beats'
    BY <1>5, <2>1, <2>2
  <2>. QED
    BY <2>1, <2>3 DEF Counted
<1>6. ASSUME Waiting' = Waiting, Beats => Beats'  PROVE Counted'
  <2>1. Waiting' <= Waiting + (faults' - faults)
    BY <1>1, <1>3, <1>6!1
  <2>. QED
    BY <1>4, <1>5, <1>6, <2>1
<1>7. CASE UNCHANGED channels
  <2>1. Waiting' = Waiting /\ (Beats => Beats')
    BY <1>7 DEF channels, Waiting, Queued, CpuLines, GpuLines, Beats
  <2>. QED
    BY <1>6, <2>1
<1>8. CASE pipe' = NoLines /\ queue' = <<>>
  <2>1. pipe'["cpu"] = <<>> /\ pipe'["gpu"] = <<>>
    BY <1>8 DEF NoLines
  <2>2. Queued' = 0 /\ CpuLines' = 0 /\ GpuLines' = 0
    BY <1>8, <2>1, BeatLines DEF Queued, CpuLines, GpuLines
  <2>4. Waiting' = 0
    BY <2>2 DEF Waiting
  <2>3. Waiting' <= Waiting + (faults' - faults) /\ ~(Waiting' > faults')
    BY <1>1, <1>3, <2>4
  <2>. QED
    BY <1>5, <2>3
<1>9. CASE UNCHANGED pipe /\ queue # <<>> /\ queue' = Tail(queue)
  <2>1. Queued' = Queued - 1 /\ CpuLines' = CpuLines /\ GpuLines' = GpuLines
    BY <1>0, <1>9, BeatLines DEF Queued, CpuLines, GpuLines
  <2>2. Waiting' = Waiting - 1
    BY <1>2, <2>1 DEF Waiting
  <2>3. Waiting' <= Waiting + (faults' - faults) /\ ~(Waiting' > faults')
    BY <1>1, <1>3, <1>b, <2>2
  <2>. QED
    BY <1>5, <2>3
<1>10. CASE queue' = Drained /\ pipe' = [pipe EXCEPT !["gpu"] = <<>>]
  <2>1. pipe'["cpu"] = pipe["cpu"] /\ pipe'["gpu"] = <<>>
    BY <1>0, <1>10
  <2>2. /\ Len(queue') = Len(queue) + Len(pipe["gpu"]) /\ Len(queue') = Len(queue \o pipe["gpu"])
        /\ \A i \in 1..Len(queue') : queue'[i].text = (queue \o pipe["gpu"])[i].text
    BY <1>0, <1>10, DrainedLines, BeatLines DEF Lines
  <2>3. Beat(queue') <=> Beat(queue \o pipe["gpu"])
    BY <2>2 DEF Beat
  <2>4. Beats => Beats'
    BY <1>0, <2>3, BeatLines DEF Beats
  <2>5. Queued' = Queued + GpuLines /\ CpuLines' = CpuLines /\ GpuLines' = 0
    BY <2>1, <2>2, BeatLines DEF Queued, CpuLines, GpuLines
  <2>6. Waiting' = Waiting
    BY <1>2, <1>c, <2>5, Sums
  <2>. QED
    BY <1>6, <2>4, <2>6
<1>11. ASSUME NEW c \in {"cpu", "gpu"}, ReadLine(c)  PROVE Counted'
  <2>1. queue' = queue \o pipe[c] /\ pipe'[c] = <<>> /\ \A d \in {"cpu", "gpu"} : d # c => pipe'[d] = pipe[d]
    BY <1>0, <1>11 DEF ReadLine
  <2>2. Len(queue') = Len(queue) + Len(pipe[c]) /\ (Beat(queue) \/ Beat(pipe[c]) => Beat(queue'))
    BY <1>0, <2>1, BeatLines
  <2>3. Beats => Beats'
    BY <2>1, <2>2 DEF Beats
  <2>4. Len(pipe'[c]) = 0
    BY <2>1, BeatLines
  <2>5. \/ Queued' = Queued + CpuLines /\ CpuLines' = 0 /\ GpuLines' = GpuLines
        \/ Queued' = Queued + GpuLines /\ GpuLines' = 0 /\ CpuLines' = CpuLines
    BY <2>1, <2>2, <2>4 DEF Queued, CpuLines, GpuLines
  <2>6. Waiting' = (Queued + CpuLines) + 0 + GpuLines \/ Waiting' = (Queued + GpuLines) + CpuLines + 0
    BY <1>c, <2>5
  <2>8. /\ (Queued + CpuLines) + 0 + GpuLines = Queued + CpuLines + GpuLines
        /\ (Queued + GpuLines) + CpuLines + 0 = Queued + CpuLines + GpuLines
    BY <1>2
  <2>7. Waiting' = Waiting
    BY <1>c, <2>6, <2>8
  <2>. QED
    BY <1>6, <2>3, <2>7
<1>12. ASSUME NEW c \in {"cpu", "gpu"}, NEW text, pipe[c] = <<>>, UNCHANGED queue, pipe' = [pipe EXCEPT ![c] = <<Line(c, text)>>]
       PROVE  Waiting' = Waiting + 1 /\ (Beats => Beats')
  <2>1. pipe'[c] = <<Line(c, text)>> /\ Len(<<Line(c, text)>>) = 1 /\ \A d \in {"cpu", "gpu"} : d # c => pipe'[d] = pipe[d]
    BY <1>0, <1>12
  <2>2. Len(pipe'[c]) = 1 /\ Len(pipe[c]) = 0 /\ ~Beat(pipe[c])
    BY <1>12, <2>1, BeatLines
  <2>3. \/ CpuLines = 0 /\ CpuLines' = 1 /\ GpuLines' = GpuLines
        \/ GpuLines = 0 /\ GpuLines' = 1 /\ CpuLines' = CpuLines
    BY <2>1, <2>2 DEF CpuLines, GpuLines
  <2>6. Queued' = Queued
    BY <1>12 DEF Queued
  <2>7. \/ Waiting = Queued + 0 + GpuLines /\ Waiting' = Queued + 1 + GpuLines
        \/ Waiting = Queued + CpuLines + 0 /\ Waiting' = Queued + CpuLines + 1
    BY <1>c, <2>3, <2>6
  <2>4. Waiting' = Waiting + 1
    BY <1>2, <2>7, Sums
  <2>5. Beats => Beats'
    BY <1>12, <2>1, <2>2 DEF Beats
  <2>. QED
    BY <2>4, <2>5
<1>13. CASE CpuFails \/ GpuFails
  <2>1. Waiting' = Waiting + 1
    BY <1>12, <1>13 DEF CpuFails, GpuFails, restOfSystem
  <2>4. Beats => Beats'
    BY <1>12, <1>13 DEF CpuFails, GpuFails, restOfSystem
  <2>2. faults' = faults + 1
    BY <1>13 DEF CpuFails, GpuFails, Fault
  <2>3. Waiting' <= Waiting + (faults' - faults)
    BY <1>1, <1>3, <2>1, <2>2
  <2>. QED
    BY <1>4, <1>5, <2>3, <2>4
<1>14. CASE GpuBeats
  <2>1. Waiting' = Waiting + 1
    BY <1>12, <1>14 DEF GpuBeats, restOfSystem
  <2>2. ~Beats
    BY <1>14, BeatLines DEF GpuBeats, Beats, Beat
  <2>6. faults' = faults
    BY <1>14 DEF GpuBeats
  <2>3. Beats'
    BY <1>0, <1>14, BeatLines DEF GpuBeats, Beats
  <2>4. ~(Waiting > faults)
    BY <1>4, <2>2
  <2>5. Waiting' <= faults' + 1
    BY <1>1, <1>3, <2>1, <2>4, <2>6
  <2>. QED
    BY <2>3, <2>5 DEF Counted
<1>15. CASE Children
  BY <1>7, <1>11, <1>13, <1>14, <1>15 DEF Children, CpuCrashes, GpuExits, GpuCrashes, GpuHangs, BeatExpires, OrphanExits, restOfSystem, channels
<1>16. CASE Supervisor
  <2>1. CASE Change
    BY <1>7, <1>10, <2>1 DEF Change, NoMemory, BrokenPipe, SpawnGpu, StopGpu, KeepGpu
  <2>2. CASE Drain
    BY <1>7, <1>9, <2>2 DEF Drain, channels
  <2>3. CASE Interrupted \/ StopChildren
    BY <1>7, <1>8, <2>3 DEF Interrupted, StopChildren, Abandon, NoLines
  <2>. QED
    BY <1>7, <1>16, <2>1, <2>2, <2>3 DEF Supervisor, Boot, SpawnCpu, Poll, Check, Sample, WriteVerdict, Publish
<1>17. CASE Page
  BY <1>7, <1>8, <1>17 DEF Page, Start, Stop, KillParent, Abandon, NoLines, ReadEvent, Finished, PreviewDies, PageDies, Toggle, TimerFires
<1>18. CASE Rest
  BY <1>7, <1>18 DEF Rest, vars, channels
<1>. QED
  BY <1>15, <1>16, <1>17, <1>18 DEF Next

-----------------------------------------------------------------------------
(* The invariant.                                                          *)

LEMMA InitIInv == Init => IInv
<1>. SUFFICES ASSUME Init  PROVE IInv
  OBVIOUS
<1>1. gui.gen = 0 /\ ~gui.active /\ gui.alive /\ gui.timers = {} /\ ~gui.killing /\ gui \in GuiType
  BY BoundsAssumption DEF Init, GuiType, Modes
<1>2. sup.pc = "off" /\ ~sup.signal /\ sup \in SupType
  BY Requests DEF Init, SupType, Reasons
<1>3. request = NoRequest /\ NoRequest.kind = "none" /\ ~asked /\ manifest = NoManifest
      /\ NoManifest.status = "none" /\ NoManifest.reason = "none" /\ NoManifest \in ManifestType
  BY DEF Init, NoRequest, NoManifest, ManifestType
<1>4. cpu = "none" /\ gpu = "none" /\ mask = {} /\ orphans = {} /\ pipe = NoLines /\ queue = <<>> /\ out = <<>>
      /\ \A c \in {"cpu", "gpu"} : pipe[c] = <<>>
  BY DEF Init, NoLines
<1>5. Loads /\ Lines
  BY <1>4, EmptySeq DEF Loads, Lines, NoLines
<1>6. TypeOK
  <2>1. preview \in BOOLEAN /\ asked \in BOOLEAN
    BY DEF Init
  <2>4. toggles = 0 /\ faults = 0 /\ Len(queue) = 0
    BY <1>4, BeatLines DEF Init
  <2>2. MaxToggles \in Nat /\ MaxFaults \in Nat
    BY BoundsAssumption
  <2>3. toggles \in 0..MaxToggles /\ faults \in 0..MaxFaults /\ Len(queue) <= 2 * MaxFaults + 2
    BY <2>2, <2>4
  <2>. QED
    BY <1>1, <1>2, <1>3, <1>4, <1>5, <2>1, <2>3, Types, Requests, EmptySeq
<1>7. Asked
  BY <1>1, <1>2, <1>3 DEF Asked
<1>8. Archive /\ Verdict /\ Shown
  BY <1>1, <1>2, <1>3, <1>4 DEF Archive, Verdict, Shown, InTry, InLoop, InFinally
<1>9. Tracked
  BY <1>4, OldLines DEF Tracked
<1>10. Counted
  <2>1. faults = 0 /\ Queued = 0 /\ CpuLines = 0 /\ GpuLines = 0
    BY <1>4, BeatLines DEF Init, Queued, CpuLines, GpuLines
  <2>2. Waiting <= faults + 1 /\ Waiting <= faults
    BY <2>1 DEF Waiting
  <2>. QED
    BY <2>2 DEF Counted
<1>11. LoadFollowsModes /\ FailureIsShown /\ UserStopWasAsked /\ EndsWithVerdict
  BY <1>1, <1>2, <1>3 DEF LoadFollowsModes, FailureIsShown, UserStopWasAsked, EndsWithVerdict, InLoop
<1>. QED
  BY <1>6, <1>7, <1>8, <1>9, <1>10, <1>11 DEF IInv

LEMMA NextIInv == IInv /\ [Next]_vars => IInv'
<1>1. ASSUME IInv, Next  PROVE IInv'
  <2>1. Told'
    BY <1>1, PageTold, SupervisorTold, ChildrenTold, RestTold DEF Next, Rest
  <2>2. Tracked'
    <3>1. UNCHANGED vars => Tracked'
      BY <1>1 DEF vars, IInv, Tracked
    <3>. QED
      BY <1>1, <3>1, PageTracked, SupervisorTracked, ChildrenTracked DEF Next, Rest
  <2>3. Counted' /\ LoadFollowsModes' /\ Lines' /\ Loads' /\ out' \in Seq(EventType) /\ manifest' \in ManifestType
        /\ toggles' \in 0..MaxToggles /\ faults' \in 0..MaxFaults /\ preview' \in BOOLEAN
    BY <1>1, CountedKept, LoadFollows, LineTypes, LoadTypes, OutTypes, ManifestTypes, BoundTypes
  <2>4. gui' \in GuiType /\ request' \in RequestType /\ sup' \in SupType /\ asked' \in BOOLEAN
    <3>1. gui \in GuiType /\ request \in RequestType /\ sup \in SupType /\ asked \in BOOLEAN
      BY <1>1, Types DEF IInv
    <3>2. CASE Children
      <4>1. [sup EXCEPT !.beat = "old"] \in SupType
        BY <3>1 DEF SupType
      <4>. QED
        BY <3>1, <3>2, <4>1, ChildrenFrame, ChildrenAndSup
    <3>3. CASE Supervisor
      BY <1>1, <3>1, <3>3, SupervisorTypes, SupervisorFrame
    <3>4. CASE UNCHANGED vars
      BY <3>1, <3>4 DEF vars
    <3>. QED
      BY <1>1, <3>2, <3>3, <3>4, PageTypes DEF Next, Rest
  <2>5. Len(queue') <= 2 * MaxFaults + 2
    <3>1. Queued' \in Nat /\ CpuLines' \in Nat /\ GpuLines' \in Nat
      BY <2>3, LenProperties DEF Lines, Queued, CpuLines, GpuLines
    <3>2. Waiting' <= faults' + 1
      BY <2>3 DEF Counted
    <3>3. faults' \in 0..MaxFaults /\ MaxFaults \in Nat
      BY <2>3, BoundsAssumption
    <3>4. Waiting' = Queued' + CpuLines' + GpuLines'
      BY DEF Waiting
    <3>5. Queued' <= Waiting' /\ Waiting' \in Nat
      BY <3>1, <3>4, Sums
    <3>7. faults' \in Nat /\ faults' <= MaxFaults
      BY <3>3
    <3>6. Queued' <= 2 * MaxFaults + 2
      BY <3>1, <3>2, <3>3, <3>5, <3>7, Sums
    <3>. QED
      BY <3>6 DEF Queued
  <2>6. TypeOK'
    BY <2>3, <2>4, <2>5, TypesNext
  <2>. QED
    BY <2>1, <2>2, <2>3, <2>6 DEF IInv, Told
<1>2. ASSUME IInv, UNCHANGED vars  PROVE IInv'
  <2>1. Told'
    BY <1>2, RestTold
  <2>2. TypeOK'
    BY <1>2 DEF vars, IInv, TypeOK
  <2>3. Tracked' /\ Counted' /\ LoadFollowsModes'
    BY <1>2 DEF vars, IInv, Tracked, Counted, Waiting, Queued, CpuLines, GpuLines, Beats, LoadFollowsModes, InLoop
  <2>. QED
    BY <2>1, <2>2, <2>3 DEF IInv, Told
<1>. QED
  BY <1>1, <1>2

LEMMA Invariant == Spec => []IInv
  BY InitIInv, NextIInv, PTL DEF Spec

\* The load the loop runs with is the one change() applied last.
THEOREM LoadFollowsModesHolds == Spec => []LoadFollowsModes
<1>1. IInv => LoadFollowsModes
  BY DEF IInv
<1>. QED
  BY <1>1, Invariant, PTL

\* No line of a stopped GPU child is judged after the next one started.
THEOREM NoLineOfOldGpuHolds == Spec => []NoLineOfOldGpu
<1>1. IInv => NoLineOfOldGpu
  BY DEF IInv, Tracked, NoneOld, NoLineOfOldGpu
<1>. QED
  BY <1>1, Invariant, PTL

\* A session ends with a verdict, and with the true one; its queue stays short.
THEOREM SessionIsSoundHolds == Spec => []SessionIsSound
<1>1. IInv => SessionIsSound
  BY DEF IInv, SessionIsSound
<1>. QED
  BY <1>1, Invariant, PTL

\* The page never shows a failed session as an orderly one.
THEOREM FailureIsShownHolds == Spec => []FailureIsShown
<1>1. IInv => FailureIsShown
  BY DEF IInv
<1>. QED
  BY <1>1, Invariant, PTL

-----------------------------------------------------------------------------
(* The session implements its contract.                                    *)

LEMMA PhaseIs ==
  /\ Ruled /\ ~manifest.writer => Phase = "closed"
  /\ Ruled /\ manifest.writer /\ SupAlive => Phase = "judged"
  /\ Ruled /\ manifest.writer /\ ~SupAlive => Phase = "lost"
  /\ manifest.status = "running" /\ SupAlive => Phase = "open"
  /\ manifest.status = "running" /\ ~SupAlive => Phase = "lost"
  /\ manifest.status = "none" /\ sup.pc = "aborted" => Phase = "lost"
  /\ manifest.status = "none" /\ sup.pc # "aborted" => Phase = "none"
  BY DEF Phase, Ruled, SupAlive

LEMMA PhaseIsNext ==
  /\ Ruled' /\ ~manifest'.writer => Phase' = "closed"
  /\ Ruled' /\ manifest'.writer /\ SupAlive' => Phase' = "judged"
  /\ Ruled' /\ manifest'.writer /\ ~SupAlive' => Phase' = "lost"
  /\ manifest'.status = "running" /\ SupAlive' => Phase' = "open"
  /\ manifest'.status = "running" /\ ~SupAlive' => Phase' = "lost"
  /\ manifest'.status = "none" /\ sup'.pc = "aborted" => Phase' = "lost"
  /\ manifest'.status = "none" /\ sup'.pc # "aborted" => Phase' = "none"
  BY DEF Phase, Ruled, SupAlive

\* The phase of the archive, by where the supervisor is.
LEMMA PhaseAt ==
  ASSUME IInv
  PROVE  /\ sup.pc = "off" => Phase \in {"none", "closed", "lost"}
         /\ sup.pc = "boot" => Phase = "none"
         /\ InTry \/ sup.pc \in {"stop", "write"} => Phase = "open"
         /\ sup.pc = "publish" => Phase = "judged"
<1>0. manifest \in ManifestType /\ Archive /\ NoManifest.status = "none"
  BY Types DEF IInv, NoManifest
<1>1. Ruled \/ manifest.status \in {"none", "running"}
  BY <1>0 DEF ManifestType, Ruled
<1>2. sup.pc = "off" => Phase \in {"none", "closed", "lost"}
  BY <1>1, PhaseIs DEF SupAlive
<1>3. sup.pc = "boot" => Phase = "none"
  BY <1>0, PhaseIs DEF Archive
<1>4. InTry \/ sup.pc \in {"stop", "write"} => Phase = "open"
  BY <1>0, PhaseIs DEF Archive, SupAlive, InTry, InLoop
<1>5. sup.pc = "publish" => Phase = "judged"
  BY <1>0, PhaseIs DEF Archive, SupAlive, Ruled
<1>. QED
  BY <1>2, <1>3, <1>4, <1>5

LEMMA SupervisorContract ==
  ASSUME IInv, IInv', Supervisor
  PROVE  [Contract!Next]_Contract!vars
<1>0. /\ StepKind /\ gui' = gui /\ asked' = asked /\ manifest \in ManifestType /\ sup \in SupType
      /\ Archive /\ Archive' /\ Tracked /\ Tracked'
  BY Types, StepKinds, SupervisorFrame DEF IInv
<1>1. Loaded \in BOOLEAN /\ Loaded' \in BOOLEAN
  BY DEF Loaded
<1>2. sup.pc \in Bare => ~Loaded
  BY <1>0 DEF Tracked, Loaded
<1>3. sup'.pc \in Bare \cup {"start"} => ~Loaded'
  BY <1>0 DEF Tracked, Loaded
<1>4. CASE Begins
  <2>1. Phase = "none" /\ Phase' = "open" /\ manifest'.reason = manifest.reason
    BY <1>0, <1>4, PhaseAt, PhaseIs, PhaseIsNext DEF Begins, Archive, NoManifest, NewManifest, SupAlive, Ruled
  <2>2. ~Loaded /\ ~Loaded'
    BY <1>2, <1>3, <1>4 DEF Begins, Bare
  <2>. QED
    BY <1>1, <2>1, <2>2 DEF Contract!Next, Contract!Open
<1>5. CASE Works \/ Leaves \/ Stops
  <2>1. Phase = "open" /\ UNCHANGED manifest
    BY <1>5, PhaseAt DEF Works, Leaves, Stops
  <2>2. manifest.status = "running" /\ SupAlive'
    BY <1>0, <1>5 DEF Works, Leaves, Stops, Archive, SupAlive, InTry, InLoop
  <2>3. Phase' = "open"
    BY <2>1, <2>2, PhaseIs, PhaseIsNext DEF Ruled
  <2>. QED
    BY <1>1, <2>1, <2>3 DEF Contract!Next, Contract!Switch
<1>6. CASE Judges
  <2>1. manifest'.status = (IF sup.failed THEN "failed" ELSE "stopped") /\ manifest'.writer = manifest.writer
        /\ manifest'.reason = sup.reason /\ sup.reason # "none"
    BY <1>0, <1>6 DEF Judges, ManifestType, SupType, Reasons, Errors
  <2>2. Phase = "open" /\ manifest.writer /\ SupAlive'
    BY <1>0, <1>6, PhaseAt DEF Judges, Archive, SupAlive
  <2>3. Phase' = "judged"
    BY <2>1, <2>2, PhaseIs, PhaseIsNext DEF Ruled
  <2>4. ~Loaded /\ ~Loaded'
    BY <1>2, <1>3, <1>6 DEF Judges, Bare
  <2>. QED
    BY <1>1, <2>1, <2>2, <2>3, <2>4 DEF Contract!Next, Contract!Judge
<1>7. ASSUME Released  PROVE manifest'.status = manifest.status /\ manifest'.reason = manifest.reason /\ ~manifest'.writer
  BY <1>0, <1>7 DEF Released, ManifestType
<1>8. ASSUME sup.pc = "publish", Released, sup'.pc \in Bare  PROVE Contract!Close
  <2>1. Phase = "judged" /\ manifest.status \in {"failed", "stopped"}
    BY <1>0, <1>8, PhaseAt DEF Archive
  <2>2. Phase' = "closed"
    BY <1>7, <1>8, <2>1, PhaseIs, PhaseIsNext DEF Ruled
  <2>3. ~Loaded /\ ~Loaded'
    BY <1>2, <1>3, <1>8 DEF Bare
  <2>. QED
    BY <1>1, <1>7, <1>8, <2>1, <2>2, <2>3 DEF Contract!Close
<1>9. CASE Closes
  BY <1>8, <1>9 DEF Closes, Bare, Contract!Next
<1>10. CASE Breaks
  <2>1. sup'.pc = "aborted" /\ ~Loaded' /\ ~SupAlive'
    BY <1>3, <1>10 DEF Breaks, Bare, SupAlive
  <2>2. CASE sup.pc = "publish" /\ Released
    BY <1>8, <2>1, <2>2 DEF Contract!Next, Bare
  <2>3. CASE sup.pc = "boot" /\ manifest' \in {manifest, NewManifest}
    <3>1. Phase = "none" /\ manifest = NoManifest
      BY <1>0, <2>3, PhaseAt DEF Archive
    <3>2. Phase' = "lost" /\ manifest'.reason = manifest.reason
      BY <2>1, <2>3, <3>1, PhaseIs, PhaseIsNext DEF NoManifest, NewManifest, Ruled
    <3>. QED
      BY <2>1, <3>1, <3>2 DEF Contract!Next, Contract!Lose
  <2>4. CASE InFinally /\ UNCHANGED manifest
    <3>1. Phase \in {"open", "judged"} /\ manifest.writer /\ manifest.status # "none"
      BY <1>0, <2>4, PhaseAt DEF InFinally, Archive
    <3>2. Phase' = "lost"
      <4>1. UNCHANGED manifest /\ ~SupAlive' /\ (Ruled' <=> Ruled) /\ manifest'.writer
        BY <2>1, <2>4, <3>1 DEF Ruled
      <4>2. Ruled \/ manifest.status = "running"
        BY <1>0, <3>1 DEF ManifestType, Ruled
      <4>. QED
        BY <4>1, <4>2, PhaseIsNext
    <3>. QED
      BY <2>1, <2>4, <3>1, <3>2 DEF Contract!Next, Contract!Lose
  <2>. QED
    BY <1>10, <2>2, <2>3, <2>4 DEF Breaks
<1>. QED
  BY <1>0, <1>4, <1>5, <1>6, <1>9, <1>10 DEF StepKind

\* To the contract a step of the page is a new session, the loss of one, or nothing.
LEMMA PageContract ==
  ASSUME IInv, IInv', Page
  PROVE  [Contract!Next]_Contract!vars
<1>0. Archive /\ Tracked /\ Tracked' /\ manifest \in ManifestType
  BY Types DEF IInv
<1>1. Start \/ UNCHANGED manifest
  BY DEF Page, Stop, KillParent, ReadEvent, Finished, PreviewDies, PageDies, Toggle, TimerFires
<1>2. sup.pc \in Bare => ~Loaded
  BY <1>0 DEF Tracked, Loaded
<1>3. sup'.pc \in Bare => ~Loaded'
  BY <1>0 DEF Tracked, Loaded
<1>a. Loaded \in BOOLEAN /\ Loaded' \in BOOLEAN
  BY DEF Loaded
<1>4. CASE sup.pc = "off" /\ sup'.pc = "boot"
  <2>1. Phase' = "none" /\ manifest'.reason = "none"
    BY PhaseAt, <1>4, PhaseIs, PhaseIsNext DEF IInv, Archive, SupAlive, NoManifest, Ruled
  <2>2. ~Loaded /\ ~Loaded'
    BY <1>2, <1>3, <1>4 DEF Bare
  <2>3. Phase \in {"closed", "lost"} \/ (Phase = "none" /\ manifest.reason = "none")
    <3>1. Ruled \/ manifest.status \in {"none", "running"}
      BY <1>0 DEF ManifestType, Ruled
    <3>2. ~SupAlive
      BY <1>4 DEF SupAlive
    <3>3. CASE Ruled \/ manifest.status = "running"
      BY <3>2, <3>3, PhaseIs
    <3>4. CASE manifest.status = "none"
      BY <1>0, <1>4, <3>4, PhaseIs DEF Archive
    <3>. QED
      BY <3>1, <3>3, <3>4
  <2>. QED
    BY <1>a, <2>1, <2>2, <2>3 DEF Contract!Next, Contract!Forget, Contract!vars
<1>5. CASE sup'.pc = sup.pc /\ (cpu' = "none" <=> cpu = "none") /\ (gpu' = "none" <=> gpu = "none") /\ UNCHANGED manifest
  BY <1>5 DEF Contract!vars, Phase, Ruled, SupAlive, Loaded
<1>6. CASE sup.pc \in {"exited", "aborted"} /\ sup'.pc = "off" /\ UNCHANGED manifest
  <2>1. ~Loaded /\ ~Loaded'
    BY <1>2, <1>3, <1>6 DEF Bare
  <2>2. \/ Phase' = Phase
        \/ Phase = "lost" /\ Phase' = "none" /\ manifest.status = "none"
    <3>1. UNCHANGED manifest /\ ~SupAlive /\ ~SupAlive' /\ sup'.pc # "aborted" /\ (Ruled' <=> Ruled)
      BY <1>6 DEF SupAlive, Ruled
    <3>2. Ruled \/ manifest.status \in {"none", "running"}
      BY <1>0 DEF ManifestType, Ruled
    <3>3. CASE Ruled \/ manifest.status = "running"
      BY <3>1, <3>3, PhaseIs, PhaseIsNext
    <3>4. CASE manifest.status = "none"
      BY <3>1, <3>4, PhaseIs, PhaseIsNext
    <3>. QED
      BY <3>2, <3>3, <3>4
  <2>. QED
    BY <1>0, <1>a, <1>6, <2>1, <2>2 DEF Archive, Contract!Next, Contract!Forget, Contract!vars
<1>7. CASE sup'.pc = "aborted" /\ SupAlive /\ UNCHANGED manifest
  <2>1. ~Loaded'
    BY <1>3, <1>7 DEF Bare
  <2>2. sup.pc \in {"boot", "publish", "stop", "write"} \/ InTry
    BY <1>7, Types DEF IInv, SupType, SupAlive, InTry, InLoop
  <2>3. Phase \in {"none", "open", "judged"} /\ ~(manifest.status \in {"failed", "stopped"} /\ ~manifest.writer)
    BY <1>0, <2>2, PhaseAt DEF Archive, NoManifest
  <2>4. Phase' = "lost"
    <3>1. UNCHANGED manifest /\ ~SupAlive' /\ (Ruled' <=> Ruled) /\ ~(Ruled /\ ~manifest'.writer)
      BY <1>7, <2>3 DEF SupAlive, Ruled
    <3>2. Ruled \/ manifest.status \in {"none", "running"}
      BY <1>0 DEF ManifestType, Ruled
    <3>. QED
      BY <1>7, <3>1, <3>2, PhaseIsNext
  <2>. QED
    BY <1>7, <2>1, <2>3, <2>4 DEF Contract!Next, Contract!Lose
<1>8. CASE Start
  BY <1>4, <1>8 DEF Start, IInv, Asked
<1>. QED
  BY <1>1, <1>4, <1>5, <1>6, <1>7, <1>8, PageLoad

LEMMA ChildrenContract ==
  ASSUME IInv, Children
  PROVE  UNCHANGED Contract!vars
<1>1. UNCHANGED manifest /\ sup'.pc = sup.pc /\ (cpu' = "none" <=> cpu = "none") /\ (gpu' = "none" <=> gpu = "none")
  BY ChildrenLoad, ChildrenFrame
<1>. QED
  BY <1>1 DEF Contract!vars, Phase, Ruled, SupAlive, Loaded

\* Every step of page, supervisor and children is a step of SessionContract.
THEOREM ContractIsKept == Spec => ContractHolds
<1>1. Init => Contract!Init
  BY DEF Init, NoManifest, Contract!Init, Phase, Ruled, SupAlive, Loaded
<1>2. IInv /\ IInv' /\ [Next]_vars => [Contract!Next]_Contract!vars
  <2>1. UNCHANGED vars => UNCHANGED Contract!vars
    BY DEF vars, Contract!vars, Phase, Ruled, SupAlive, Loaded
  <2>. QED
    BY <2>1, PageContract, SupervisorContract, ChildrenContract DEF Next, Rest
<1>. QED
  BY <1>1, <1>2, Invariant, PTL DEF Spec, ContractHolds, Contract!Spec
=============================================================================
