-------------------------- MODULE RegressionHistory --------------------------
(***************************************************************************)
(* The regression tracker (test_regression.py): it reads the metrics of    *)
(* the reports, appends them to history.jsonl and compares them with the   *)
(* median of the latest runs it can read back.                             *)
(*                                                                         *)
(* The file is a sequence of lines, each a record of metrics or Garbage,   *)
(* with a mark for a last line that lacks its newline.  A run may be       *)
(* killed anywhere, in the middle of its append too; what the next run     *)
(* appends then lands on the same line.                                    *)
(*                                                                         *)
(* A report is the rows of the table its parser settles on; a value is an  *)
(* integer and Missing stands for a cell that is no number.                *)
(***************************************************************************)
EXTENDS Integers, Sequences, SequencesExt, FiniteSetsExt

CONSTANTS
  Reports,      \* report directories a run may find: metric |-> rows or absent
  Baseline,     \* --baseline, 3 by default
  WarnPct,      \* --warn-pct, 15 by default
  FailPct,      \* --fail-pct, 30 by default
  MaxRuns,      \* bound on the runs
  MaxCrashes    \* bound on the crashes

Missing == 0
Garbage == <<>>     \* no JSON

VARIABLES
  pc,           \* "idle", "loaded", "recorded"
  current,      \* the metrics of this run
  history,      \* what load_history returned
  file, open,   \* the lines of history.jsonl; the last one has no newline
  exit,         \* the exit code of the last completed comparison
  runs,         \* every run that began its append, in order
  crashes

vars == <<pc, current, history, file, open, exit, runs, crashes>>

Init ==
  /\ pc = "idle" /\ current = <<>> /\ history = <<>> /\ file = <<>> /\ open = FALSE
  /\ exit = 0 /\ runs = <<>> /\ crashes = 0

-----------------------------------------------------------------------------
(* Reading the reports. *)

\* The bandwidth and arithmetic tables: the first usable row of the metric.
FirstUsable(rows, low) ==
  LET usable == SelectSeq(rows, LAMBDA v : v > low)
  IN  IF usable = <<>> THEN Missing ELSE Head(usable)

\* The latency scan: the last usable row of the level.
LastUsable(rows, low, high) ==
  LET usable == SelectSeq(rows, LAMBDA v : v > low /\ v < high)
  IN  IF usable = <<>> THEN Missing ELSE Last(usable)

\* The core matrix: the mean of the usable cells.
MeanUsable(rows, low, high) ==
  LET usable == SelectSeq(rows, LAMBDA v : v > low /\ v < high)
  IN  IF usable = <<>> THEN Missing ELSE FoldSeq(+, 0, usable) \div Len(usable)

\* A report that is absent, or whose parser fails, gives no metric.
Collected(reports) ==
  [read_mbps |-> FirstUsable(reports.memory_bandwidth, 100),
   ram_latency_ns |-> LastUsable(reports.cache_hierarchy, 0, 1000),
   cas_avg_ns |-> MeanUsable(reports.inter_core_latency, 1, 5000)]

Metrics == {"read_mbps", "ram_latency_ns", "cas_avg_ns"}
Has(record, m) == record[m] # Missing

\* Of the constants: what a parser finds is a number, and not below zero.
RegressionAssumption ==
  /\ Baseline \in Nat \ {0} /\ WarnPct \in Nat /\ FailPct \in Nat /\ WarnPct <= FailPct
  /\ MaxRuns \in Nat /\ MaxCrashes \in Nat
  /\ \A reports \in Reports, m \in Metrics : Collected(reports)[m] \in Nat

-----------------------------------------------------------------------------
(* The history. *)

\* Mutant: what follows a broken line is lost.
RecordsUpToGarbage(lines) ==
  LET bad == {i \in DOMAIN lines : lines[i] = Garbage}
  IN  SubSeq(lines, 1, IF bad = {} THEN Len(lines) ELSE Min(bad) - 1)
\* Places by their values, those of one value by themselves.
Ranked(places, value) ==
  [k \in 1..Cardinality(places) |-> CHOOSE i \in places :
     k = Cardinality({j \in places : value[j] < value[i] \/ (value[j] = value[i] /\ j <= i)})]

\* Lines that are no JSON are passed over.
Records(lines) ==
  LET good == {i \in DOMAIN lines : lines[i] # Garbage}
      order == Ranked(good, [i \in good |-> i])
  IN  [k \in DOMAIN order |-> lines[order[k]]]
LoadHistory(lines) == Records(lines)

\* What is appended to a line without a newline spoils that line.
Appended(line) == IF open THEN [file EXCEPT ![Len(file)] = Garbage] ELSE Append(file, line)

\* Twice the median of the positive values among the last Baseline records.
Window(records, n) == SubSeq(records, Max({1, Len(records) - n + 1}), Len(records))
BaselineValue(records, m) ==
  LET latest == Window(records, Baseline)
      known == {i \in DOMAIN latest : Has(latest[i], m)}
      order == Ranked(known, [i \in known |-> latest[i][m]])
      n == Cardinality(known)
  IN  IF n = 0 THEN Missing
      ELSE latest[order[(n + 1) \div 2]][m] + latest[order[n \div 2 + 1]][m]

Abs(i) == IF i < 0 THEN -i ELSE i
\* value and the half of base2 differ by at least pct per cent.
Deviates(value, base2, pct) == Abs(2 * value - base2) * 100 >= pct * base2

\* A metric with no baseline is only mentioned.
Status(records, m) ==
  LET base2 == BaselineValue(records, m)
  IN  IF ~Has(current, m) THEN "absent"
      ELSE IF base2 = Missing THEN "no-baseline"
      ELSE IF Deviates(current[m], base2, FailPct) THEN "FAIL"
      ELSE IF Deviates(current[m], base2, WarnPct) THEN "WARN" ELSE "pass"

-----------------------------------------------------------------------------
(* One run of the tracker. *)

\* Without a metric there is nothing to record.
Collect ==
  /\ pc = "idle" /\ Len(runs) < MaxRuns
  /\ \E reports \in Reports :
       LET metrics == Collected(reports)
           empty == \A m \in Metrics : ~Has(metrics, m)
       IN  /\ current' = IF empty THEN <<>> ELSE metrics
           /\ pc' = IF empty THEN "idle" ELSE "loaded"
           /\ exit' = IF empty THEN 1 ELSE exit
           /\ history' = IF empty THEN history ELSE LoadHistory(file)
  /\ UNCHANGED <<file, open, runs, crashes>>

Record ==
  /\ pc = "loaded" /\ pc' = "recorded"
  /\ file' = Appended(current) /\ open' = FALSE /\ runs' = Append(runs, current)
  /\ UNCHANGED <<current, history, exit, crashes>>

\* Killed in the append: part of the line is there, or all but its newline.
Crash ==
  /\ pc = "loaded" /\ crashes < MaxCrashes
  /\ pc' = "idle" /\ crashes' = crashes + 1 /\ open' = TRUE /\ runs' = Append(runs, current)
  /\ \E line \in {Garbage, current} : file' = Appended(line)
  /\ UNCHANGED <<current, history, exit>>

RecordOnly == pc = "recorded" /\ pc' = "idle" /\ exit' = 0
                /\ UNCHANGED <<current, history, file, open, runs, crashes>>

Compare ==
  /\ pc = "recorded" /\ pc' = "idle"
  /\ exit' = IF history # <<>> /\ \E m \in Metrics : Status(history, m) = "FAIL" THEN 1 ELSE 0
  /\ UNCHANGED <<current, history, file, open, runs, crashes>>

Next == Collect \/ Record \/ Crash \/ RecordOnly \/ Compare
Spec == Init /\ [][Next]_vars

-----------------------------------------------------------------------------
(* Properties. *)

\* The runs that the comparison may have looked at: a crash spoils at most its
\* own record and the next one.
Lately == Window(Front(runs), Baseline + 2 * crashes)
Above(m, r) == Deviates(current[m], 2 * r[m], FailPct) /\ current[m] > r[m]
Below(m, r) == Deviates(current[m], 2 * r[m], FailPct) /\ current[m] < r[m]

(* A comparison answers for the runs that were really made, whatever a crash *)
(* did to the file: a metric that left all the latest runs behind on one     *)
(* side fails, and a run that is close to all of them does not.  A crash     *)
(* costs its own record and the next one, never more, so the window of the   *)
(* baseline reaches that much further back (test_regression.py load_history, *)
(* record, baseline_value).                                                  *)
VerdictMatchesRuns ==
  [][Compare =>
       LET seen == {Lately[i] : i \in DOMAIN Lately}
       IN  /\ \A m \in Metrics :
                /\ Has(current, m) /\ Len(runs) - 1 > 2 * crashes
                /\ \A r \in seen : Has(r, m)
                /\ (\A r \in seen : Above(m, r)) \/ (\A r \in seen : Below(m, r))
                => exit' = 1
           /\ (\A m \in Metrics, r \in seen : Has(current, m) /\ Has(r, m) =>
                  ~Deviates(current[m], 2 * r[m], FailPct)) => exit' = 0]_vars
=============================================================================
