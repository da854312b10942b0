--------------------------- MODULE SensorProvider ---------------------------
(***************************************************************************)
(* The sensors of a machine as one sample sees them (telemetry.py,         *)
(* Provider): hwmon files found anew from time to time, the wrapping RAPL  *)
(* energy counter turned into power, what a helper process printed last    *)
(* (telemetry_macos.m, a PowerShell loop on Windows), and the file of the  *)
(* elevated path.  An entry of the catalog stays for ever, its value does  *)
(* not.                                                                    *)
(*                                                                         *)
(* past[t] is the machine at time t; samples fall between two ticks.  A    *)
(* helper reads the sensors, prints a line and is read in three steps, and *)
(* only the last is timed by the code: Delay bounds what the line may have *)
(* aged by then.                                                           *)
(***************************************************************************)
EXTENDS Integers, Sequences, FiniteSets, SequencesExt

CONSTANTS
  Sensors,     \* hwmon files, SMC keys, numbers in the order of their paths
  Cap,         \* entries of the catalog, 512 in the code
  Rediscover,  \* ticks between two looks at hwmon, 30 seconds
  Life,        \* ticks a received line counts, 3 seconds on macOS and 6 on
               \* Windows, and the elevated path's file, 4
  Delay,       \* ticks from a helper's look at the sensors to the receipt
  Period,      \* values of the energy counter
  Burns,       \* energy a tick may take
  MaxTime,     \* bound on the ticks
  MaxChanges   \* bound on changes of the machine, by its kind

\* Of the constants.
SensingAssumption ==
  /\ Sensors \subseteq Nat /\ IsFiniteSet(Sensors) /\ Burns \subseteq Nat
  /\ Period \in Nat \ {0} /\ Rediscover \in Nat \ {0} /\ Delay \in Nat
  /\ Life \in [{"macos", "windows", "file"} -> Nat]

VARIABLES
  kind,        \* "linux", "macos", "windows"
  policy,      \* a cpufreq policy can be read
  past, changes, \* sensors; energy so far; source: the energy counter's file on
               \* Linux, the sensors' provider on Windows; thermal: macOS calls
               \* the process's thermal state critical
  worker,      \* the process that samples, "runs" or "dead"
  helper,      \* its helper process: state; opened and keys: how opening the SMC
               \* ended and the keys it listed then; held: the reading at hand
  pipe,        \* lines printed and not yet read
  privileged,  \* the file MonitorAccess publishes
  catalog,     \* identities, in the order they were met
  definitions, discovered, \* linux_definitions, linux_discovered
  energy,      \* last reading of the counter, of any rapl domain
  line,        \* mac_samples, windows_samples: one place each
  shown        \* what the last sample returned, None after any other step

machineVars == <<kind, policy, past, changes>>
helperVars == <<helper, pipe, privileged>>
vars == <<machineVars, helperVars, worker, catalog, definitions, discovered, energy, line, shown>>

None == [at |-> -1]
now == Len(past) - 1
At(t) == past[t + 1]
Machine == At(now)
\* Identities of the catalog besides the sensors.
Policy == -1
Rapl == -2
counted == Machine.total % Period   \* what energy_uj says

Present(sensor) == {s \in Sensors : sensor[s] # "absent"}
Hot(sensor) == {s \in Sensors : sensor[s] = "hot"}
Nothing == [s \in Sensors |-> "absent"]

\* The macOS helper starts with the provider, if there is one, and opens the SMC:
\* listed, refused or not there.  The Windows one starts with the first sample.
Init ==
  /\ kind \in {"linux", "macos", "windows"} /\ changes = 0 /\ worker = "runs"
  /\ policy \in (IF kind = "linux" THEN BOOLEAN ELSE {FALSE})
  /\ \E sensor \in [Sensors -> {"absent", "cool"}] :
       /\ past = <<[sensor |-> sensor, total |-> 0, source |-> "open", thermal |-> FALSE]>>
       /\ \E opened \in {"open", "denied", "none"} :
            /\ kind # "macos" => opened = "none"
            /\ helper = [state |-> CASE kind = "linux" -> "dead" [] kind = "macos" -> "up" [] OTHER -> "waits",
                         opened |-> opened, keys |-> IF opened = "open" THEN Present(sensor) ELSE {},
                         held |-> None]
  /\ pipe = <<>> /\ privileged = None
  /\ catalog = <<>> /\ definitions = <<>> /\ discovered = -1
  /\ energy = None /\ line = None /\ shown = None

-----------------------------------------------------------------------------
(* The machine.                                                            *)

Warmed(machine) ==
  {[machine EXCEPT !.sensor[s] = c] : s \in Sensors, c \in {"absent", "cool", "hot"}}
\* broken: the counter's range cannot be read, the provider fails without a refusal.
Reopened(machine) ==
  IF kind = "macos" THEN {[machine EXCEPT !.thermal = t] : t \in BOOLEAN}
  ELSE {[machine EXCEPT !.source = c] : c \in {"open", "denied", "broken"}}
Changed(machine) == Warmed(machine) \cup Reopened(machine)

\* No reading is on its way for longer than Delay.
Prompt ==
  /\ helper.held # None => now - helper.held.at < Delay
  /\ \A i \in 1..Len(pipe) : now - pipe[i].at < Delay

Tick ==
  /\ worker = "runs" /\ now < MaxTime /\ Prompt /\ shown' = None
  /\ \E burn \in IF kind = "linux" THEN Burns ELSE {0}, machine \in Changed(Machine) :
       /\ machine # Machine => changes < MaxChanges[kind]
       /\ changes' = IF machine = Machine THEN changes ELSE changes + 1
       /\ past' = Append(past, [machine EXCEPT !.total = @ + burn])
  /\ helper' = [helper EXCEPT !.state = IF @ = "sleeps" THEN "up" ELSE @]
  /\ UNCHANGED <<kind, policy, worker, pipe, privileged, catalog, definitions, discovered, energy, line>>

-----------------------------------------------------------------------------
(* The helper's loop and the thread that reads its lines.                  *)

Helping ==
  /\ worker = "runs" /\ shown' = None
  /\ UNCHANGED <<machineVars, privileged, worker, catalog, definitions, discovered, energy>>

\* macOS: the keys listed at the start, one after the other; one that gave nothing
\* is left alone for thirty cycles, so any may be missing.  Windows: all the
\* provider has, or a failure.
Looks ==
  IF kind = "macos"
  THEN {[s \in Sensors |-> IF s \in keys THEN Machine.sensor[s] ELSE "absent"] : keys \in SUBSET helper.keys}
  ELSE {IF Machine.source = "open" THEN Machine.sensor ELSE Nothing}

\* Whether the SMC was refused is known since the start.
HelperReads ==
  /\ helper.state = "up" /\ helper.held = None
  /\ \E sensor \in Looks :
       helper' = [helper EXCEPT !.held =
         [at |-> now, sensor |-> sensor,
          denied |-> IF kind = "macos" THEN helper.opened = "denied" ELSE Machine.source = "denied"]]
  /\ Helping /\ UNCHANGED <<pipe, line>>

\* The thermal state is asked for last.  Then it sleeps a second, at least.
HelperPrints ==
  /\ helper.held # None
  /\ helper' = [helper EXCEPT !.held = None, !.state = "sleeps"]
  /\ pipe' = Append(pipe, [at |-> helper.held.at, text |->
                [sensor |-> helper.held.sensor, denied |-> helper.held.denied,
                 critical |-> kind = "macos" /\ Machine.thermal]])
  /\ Helping /\ UNCHANGED line

\* The reader thread stamps the line and forgets the one before.
LineArrives ==
  /\ pipe # <<>> /\ pipe' = Tail(pipe)
  /\ line' = [at |-> now, text |-> Head(pipe).text]
  /\ Helping /\ UNCHANGED helper

HelperDies ==
  /\ helper.state \in {"up", "sleeps"} /\ helper' = [helper EXCEPT !.state = "dead", !.held = None]
  /\ Helping /\ UNCHANGED <<pipe, line>>

\* MonitorAccess: what the elevated helper has read (powermetrics knows no sensor of
\* these, and only Linux tells what is critical), or nothing at a pause.
Elevated(t) ==
  IF kind = "macos" \/ (kind = "windows" /\ At(t).source # "open") THEN Nothing ELSE At(t).sensor

FilePublished ==
  /\ worker = "runs" /\ shown' = None
  /\ \/ \E t \in 0..now :
          /\ now - t <= Delay
          /\ privileged' = [at |-> now, sensor |-> Elevated(t),
                            critical |-> kind = "linux" /\ Hot(At(t).sensor) # {}]
     \/ privileged' = [at |-> now, sensor |-> Nothing, critical |-> FALSE]
  /\ UNCHANGED <<machineVars, helper, pipe, worker, catalog, definitions, discovered, energy, line>>

-----------------------------------------------------------------------------
(* One sample.                                                             *)

\* put: an entry once, and none beyond the cap.
Put(entries, identities) ==
  FoldLeft(LAMBDA c, i : IF Contains(c, i) \/ Len(c) >= Cap THEN c ELSE Append(c, i), entries, identities)

\* Each at the place of those before it.
InOrder(sensors) ==
  [i \in 1..Cardinality(sensors) |-> CHOOSE s \in sensors : Cardinality({r \in sensors : r < s}) = i - 1]

\* 0 <= now - sampled_at < 4; read last, so its readings replace the provider's own.
FileCounts == privileged # None /\ now - privileged.at < Life.file
WithFile(entries) == IF FileCounts THEN Put(entries, InOrder(Present(privileged.sensor))) ELSE entries
Values(entries, read) ==
  [i \in Range(entries) \cap Sensors |->
     IF FileCounts /\ privileged.sensor[i] # "absent" THEN privileged.sensor[i]
     ELSE IF i \in DOMAIN read THEN read[i] ELSE "absent"]
Alarm(own) == own \/ (FileCounts /\ privileged.critical)

\* hwmon is looked through again when the last look is old.
DefinitionsNow ==
  IF discovered = -1 \/ now - discovered >= Rediscover
  THEN InOrder(Present(Machine.sensor)) ELSE definitions

\* Mutant: the time moves on although the counter could not be read.
EnergyTimed ==
  IF Machine.source = "denied" THEN [energy EXCEPT !.at = IF @ = -1 THEN @ ELSE now]
  ELSE [at |-> now, value |-> counted]
\* An unreadable counter leaves the last reading as it is.
EnergyNow ==
  IF Machine.source = "denied" THEN energy
  ELSE [at |-> now, value |-> counted]

\* The energy since the last reading and the time it took; max_energy_range_uj
\* is the counter's largest value.
PowerNow ==
  LET delta == counted - energy.value
      wrapped == IF delta >= 0 THEN delta ELSE delta + Period - 1
  IN IF Machine.source = "denied" \/ energy = None \/ energy.at >= now
        \/ (delta < 0 /\ Machine.source = "broken")
     THEN None ELSE [at |-> now, energy |-> wrapped, span |-> now - energy.at]

\* linux: all temperatures count against their limits, the catalog's or not.
\* A policy that no longer fits the catalog is a KeyError, and the process ends.
LinuxSample ==
  LET found == DefinitionsNow
      read == [s \in Range(found) |-> Machine.sensor[s]]
      power == PowerNow
      sensors == Put(catalog, found)
      own == Put(IF policy THEN Put(sensors, <<Policy>>) ELSE sensors, IF power = None THEN <<>> ELSE <<Rapl>>)
      entries == WithFile(own)
  IN /\ kind = "linux" /\ worker = "runs" /\ now >= 0
     /\ definitions' = found
     /\ discovered' = IF discovered = -1 \/ now - discovered >= Rediscover THEN now ELSE discovered
     /\ IF policy /\ ~Contains(Put(sensors, <<Policy>>), Policy)
        THEN worker' = "dead" /\ catalog' = sensors /\ shown' = None /\ UNCHANGED energy
        ELSE /\ energy' = EnergyNow /\ catalog' = entries
             /\ shown' = [at |-> now, values |-> Values(entries, read),
                          critical |-> Alarm(Hot(Machine.sensor) \cap Range(found) # {}),
                          power |-> IF Contains(entries, Rapl) THEN power ELSE None,
                          denied |-> Machine.source = "denied"]
             /\ UNCHANGED worker
     /\ UNCHANGED <<machineVars, helperVars, line>>

\* < 3 on macOS, no more than 6 on Windows.
LineCounts ==
  line # None /\ (now - line.at < Life[kind] \/ (kind = "windows" /\ now - line.at = Life[kind]))

\* windows, or mac_samples; the Windows reader is started once, by the first sample,
\* which alone says so when that is refused.
HelperSample ==
  LET sensor == IF LineCounts THEN line.text.sensor ELSE Nothing
      entries == WithFile(Put(catalog, InOrder(Present(sensor))))
  IN /\ kind # "linux" /\ worker = "runs"
     /\ \E state \in IF helper.state = "waits" THEN {"up", "dead", "refused"} ELSE {helper.state} :
          /\ helper' = [helper EXCEPT !.state = state]
          /\ shown' = [at |-> now, values |-> Values(entries, sensor),
                       critical |-> Alarm(LineCounts /\ line.text.critical), power |-> None,
                       denied |-> (state # helper.state /\ state = "refused") \/ (LineCounts /\ line.text.denied)]
     /\ catalog' = entries
     /\ UNCHANGED <<machineVars, worker, pipe, privileged, definitions, discovered, energy, line>>

HelperStep == HelperReads \/ HelperPrints \/ LineArrives \/ HelperDies

Next == Tick \/ HelperStep \/ FilePublished \/ LinuxSample \/ HelperSample
Spec == Init /\ [][Next]_vars

-----------------------------------------------------------------------------
\* When the provider, or its helper, may have read what a sample shows, and when the
\* elevated helper may have.
Own ==
  {t \in 0..now :
     CASE kind = "linux"   -> t = now
       [] kind = "macos"   -> now - t < Life.macos + Delay
       [] kind = "windows" -> now - t <= Life.windows + Delay}
Lately == Own \cup {t \in 0..now : FileCounts /\ now - t < Life.file + Delay}
Spent == Machine.total - At(now - shown.power.span).total

(* What a sample tells is of now (telemetry.py linux, windows, sample;     *)
(* telemetry_macos.m): a value is one the sensor had within the life of    *)
(* the line or file it came by and the delay before, and of this moment    *)
(* when it came by neither.                                                *)
ValuesAreOfNow ==
  \A s \in DOMAIN shown.values :
    shown.values[s] # "absent" => \E t \in Lately : At(t).sensor[s] = shown.values[s]

(* An alarm has its cause: on Linux a sensor that was hot, on macOS the    *)
(* thermal state, whatever the sensors say; Windows has none.  And the     *)
(* cause its alarm: a Linux sensor hot since the last look at hwmon, even  *)
(* when the catalog has no place for it, a state that has been critical    *)
(* for as long as a line may come from.                                    *)
AlarmsHaveCauses ==
  /\ shown.critical => \/ kind = "linux" /\ \E s \in Sensors, t \in Lately : At(t).sensor[s] = "hot"
                       \/ kind = "macos" /\ \E t \in Own : At(t).thermal
  /\ (kind = "linux" /\ now >= Rediscover /\ \E s \in Sensors :
        Machine.sensor[s] = "hot" /\ \A t \in (now - Rediscover)..now : At(t).sensor[s] # "absent")
       => shown.critical
  /\ (kind = "macos" /\ LineCounts /\ \A t \in Own : At(t).thermal) => shown.critical

(* A refusal was one: of the counter's file now, of the provider lately or *)
(* of the reader's start, of the SMC at the helper's start, and then there *)
(* is no SMC value beside it.                                              *)
RefusalsAreReal ==
  shown.denied =>
    \/ kind = "linux" /\ Machine.source = "denied"
    \/ kind = "windows" /\ (helper.state = "refused" \/ \E t \in Own : At(t).source = "denied")
    \/ kind = "macos" /\ helper.opened = "denied" /\ \A s \in DOMAIN shown.values : shown.values[s] = "absent"

(* The power is the mean of the time up to now, to one unit of the         *)
(* counter, through every wrap and every reading that failed, unless the   *)
(* counter went round in it.                                               *)
PowerIsMean ==
  shown.power # None => Spent >= Period \/ (shown.power.energy - Spent) \in -1..1

(* A sample tells of now: its values, alarms, refusals and power.          *)
SampleIsOfNow ==
  shown # None => ValuesAreOfNow /\ AlarmsHaveCauses /\ RefusalsAreReal /\ PowerIsMean
=============================================================================
