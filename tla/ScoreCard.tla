------------------------------ MODULE ScoreCard ------------------------------
(***************************************************************************)
(* The score of a run (report_score.py): the tables of the selected        *)
(* modules' reports are read, one value a metric is kept, every metric is  *)
(* scored against its reference and the scores are averaged.  The model    *)
(* scores two runs one after the other; the second differs from the first  *)
(* in the report of one module, so that what a faster machine, or a stale  *)
(* report of a module nobody selected, does to the score can be said.      *)
(*                                                                         *)
(* A report is the sequence of its Markdown tables.  A table has a name,   *)
(* the text its header or its heading is found by, and rows <<label,       *)
(* value>>; a row of the inter-core matrix is <<CPU number, cells>>.       *)
(* Values are whole numbers: tenths of a nanosecond (1/100000 ns for SIMD, *)
(* whose report has GOPS), MB/s, hundredths of an IPC.  Scores are 0..1000 *)
(* and rounded down.                                                       *)
(***************************************************************************)
EXTENDS Integers, FiniteSets, Sequences, SequencesExt, FiniteSetsExt, Functions

CONSTANTS
  Runs,         \* what a run may leave: a report for every module
  Selections    \* the sets of modules that are scored

VARIABLES
  selected,
  run,          \* which of the two runs is scored
  reports,      \* the reports of the two runs, a module to a report
  todo,         \* selected modules still to be parsed
  values,       \* metrics read so far
  card,         \* the finished cards
  error         \* a KeyError left score_run

vars == <<selected, run, reports, todo, values, card, error>>

Absent == <<>>   \* no tables: a missing file reads the same
NoValue == -1

(***************************************************************************)
(* The metrics that are scored, and how.                                   *)
(***************************************************************************)
Metric(c, d, r, w) == [category |-> c, direction |-> d, reference |-> r, weight |-> w]
METRICS == [
  l1d  |-> Metric("cache", "lower", 30, 10),   l2 |-> Metric("cache", "lower", 80, 10),
  l3   |-> Metric("cache", "lower", 250, 10), ram |-> Metric("cache", "lower", 800, 10),
  read |-> Metric("bandwidth", "higher", 20000, 10), write |-> Metric("bandwidth", "higher", 10000, 10),
  copy |-> Metric("bandwidth", "higher", 15000, 10),
  cas  |-> Metric("inter_core", "lower", 300, 10),
  add  |-> Metric("alu", "higher", 20, 7), mul |-> Metric("alu", "higher", 20, 7),
  div  |-> Metric("alu", "higher", 5, 5),
  and  |-> Metric("alu", "higher", 20, 3), or |-> Metric("alu", "higher", 20, 3), xor |-> Metric("alu", "higher", 20, 3),
  fadd |-> Metric("simd", "lower", 60000, 10), fmul |-> Metric("simd", "lower", 60000, 10),
  fma  |-> Metric("simd", "lower", 60000, 10), dot |-> Metric("simd", "lower", 60000, 10)]

Lesser(a, b) == IF a < b THEN a ELSE b

\* Mutant: the ratio is not turned over for a latency.
ScoreAsRate(v, spec) == IF v <= 0 THEN 0 ELSE Lesser(1000, (1000 * v) \div spec.reference)

ScoreMetric(v, spec) ==
  IF v <= 0 THEN 0
  ELSE Lesser(1000, IF spec.direction = "lower" THEN (1000 * spec.reference) \div v
                                                ELSE (1000 * v) \div spec.reference)

Letter(score) == IF score >= 900 THEN "A" ELSE IF score >= 800 THEN "B" ELSE IF score >= 700 THEN "C"
                 ELSE IF score >= 600 THEN "D" ELSE "F"

(***************************************************************************)
(* The tables of a report.                                                 *)
(***************************************************************************)
\* The first table whose header has the name, or else the first one after such a heading.
Full(tables) == SelectSeq(tables, LAMBDA t : t.rows # <<>>)
TablesAfter(report, name) ==
  LET named == SelectSeq(Full(report), LAMBDA t : t.name = name)
      below == {i \in DOMAIN report : report[i].heading = name}
  IN  CASE named # <<>> -> named
        [] named = <<>> /\ below # {} -> Full(SubSeq(report, Min(below), Len(report)))
        [] OTHER -> <<>>
RowsAfter(report, name) ==
  LET found == TablesAfter(report, name) IN IF found = <<>> THEN <<>> ELSE found[1].rows
\* The first table after the one with the system's description.
DataRows(report) == IF Len(report) < 2 THEN <<>> ELSE report[2].rows

\* What a list of rows says of a label.
ValuesOf(rows, label) ==
  FoldLeft(LAMBDA s, r : IF r[1] = label THEN Append(s, r[2]) ELSE s, <<>>, rows)
Usable(s, low, high) == SelectSeq(s, LAMBDA v : low < v /\ v < high)

Median(s) ==
  LET v == SortSeq(s, LAMBDA a, b : a < b)
      m == Len(v) \div 2
  IN  IF Len(v) % 2 = 1 THEN v[m + 1] ELSE (v[m] + v[m + 1]) \div 2
MedianOrNone(s) == IF s = <<>> THEN NoValue ELSE Median(s)
LastOrNone(s) == IF s = <<>> THEN NoValue ELSE Last(s)
FirstOrNone(s) == IF s = <<>> THEN NoValue ELSE Head(s)

(***************************************************************************)
(* One parser a report.                                                    *)
(***************************************************************************)
ParseCacheHierarchy(report) ==
  [k \in {"l1d", "l2", "l3", "ram"} |->
     MedianOrNone(Usable(ValuesOf(RowsAfter(report, "Cache Hierarchy Scan"), k), 1, 10000))]

ParseMemoryBandwidth(report) ==
  LET table == [k \in {"read", "write", "copy"} |->
                  LastOrNone(SelectSeq(ValuesOf(RowsAfter(report, "Bandwidth (MB/s)"), k), LAMBDA v : v > 100))]
      text  == [k \in {"read", "write", "copy"} |->
                  FirstOrNone(ValuesOf(RowsAfter(report, "text"), k))]
  IN  IF \E k \in DOMAIN table : table[k] # NoValue THEN table
      ELSE [k \in DOMAIN text |-> IF text[k] > 100 THEN text[k] ELSE NoValue]

\* Cores whose latency is below twice the least adjacent one, transitively, are a cluster.
Adjacent(m) == {m[p] : p \in {q \in DOMAIN m : q[1] - q[2] \in {-1, 1}}} \ {NoValue}
AnyPair(m)  == {m[p] : p \in {q \in DOMAIN m : q[1] # q[2]}} \ {NoValue}
Linked(m)   ==
  LET near == 2 * Min(IF Adjacent(m) # {} THEN Adjacent(m) ELSE AnyPair(m))
  IN  {p \in DOMAIN m : p[1] # p[2] /\ m[p] # NoValue /\ m[p] < near}
Clusters(m) ==
  FoldSet(LAMBDA p, groups : LET hit == {g \in groups : p[1] \in g \/ p[2] \in g}
                             IN  (groups \ hit) \cup {UNION hit},
          {{p[1]} : p \in DOMAIN m}, Linked(m))
Intra(m) ==
  LET groups == Clusters(m)
      inside == {p \in DOMAIN m : p[1] # p[2] /\ m[p] # NoValue /\ \E g \in groups : {p[1], p[2]} \subseteq g}
  IN  FoldSet(LAMBDA p, s : Append(s, m[p]), <<>>, inside)

\* A CPU number is used as the index of the matrix: rows of numbers beyond it are lost.
ParseInterCore(report) ==
  LET rows == RowsAfter(report, "Core")
      n    == Len(rows[1][2])
      m    == [p \in (0..n - 1) \X (0..n - 1) |->
                 LastOrNone(Usable([k \in DOMAIN ValuesOf(rows, p[1]) |-> ValuesOf(rows, p[1])[k][p[2] + 1]], 10, 50000))]
  IN  [cas |-> IF rows = <<>> \/ n < 2 \/ AnyPair(m) = {} THEN NoValue ELSE MedianOrNone(Intra(m))]

ParseCpuAlu(report) ==
  [k \in {"add", "mul", "div", "and", "or", "xor"} |-> FirstOrNone(Usable(ValuesOf(DataRows(report), k), 0, 1000))]

\* The report has rates, the metric is the time of an operation.
ParseCpuFloat(report) ==
  LET Times(k) == [i \in DOMAIN ValuesOf(DataRows(report), k) |->
                     LET rate == ValuesOf(DataRows(report), k)[i] IN IF rate > 0 THEN 100000 \div rate ELSE NoValue]
  IN  [k \in {"fadd", "fmul", "fma", "dot"} |-> FirstOrNone(Usable(Times(k), 1000, 100000000))]

\* Shown beside the score, not scored: the branch patterns and the scaling tables.
ParseCpuBranch(report) == [branch |-> Len(Usable([i \in DOMAIN DataRows(report) |-> DataRows(report)[i][2]], -1, 10000))]
ParseCpuMulti(report) ==
  LET rows == FlattenSeq([i \in DOMAIN report |-> IF report[i].name = "scaling" THEN report[i].rows ELSE <<>>])
  IN  [multi |-> Len(rows), saturation |-> Len(RowsAfter(report, "Memory Bandwidth Saturation"))]

PARSERS == {"cache_hierarchy", "memory_bandwidth", "inter_core", "cpu_alu", "cpu_float", "cpu_branch", "cpu_multi"}

Parsed(m, report) ==
  CASE m = "cache_hierarchy"  -> ParseCacheHierarchy(report)
    [] m = "memory_bandwidth" -> ParseMemoryBandwidth(report)
    [] m = "inter_core"       -> ParseInterCore(report)
    [] m = "cpu_alu"          -> ParseCpuAlu(report)
    [] m = "cpu_float"        -> ParseCpuFloat(report)
    [] m = "cpu_branch"       -> ParseCpuBranch(report)
    [] m = "cpu_multi"        -> ParseCpuMulti(report)

(***************************************************************************)
(* From the metrics to the card.                                           *)
(***************************************************************************)
CategoryOf == [cache_hierarchy |-> "cache", memory_bandwidth |-> "bandwidth", inter_core |-> "inter_core",
               cpu_alu |-> "alu", cpu_float |-> "simd"]
ActiveCategories(modules) == {CategoryOf[m] : m \in modules \cap DOMAIN CategoryOf}

ValueOf(found, k) == IF k \in DOMAIN found THEN found[k] ELSE NoValue
Keys(c) == {k \in DOMAIN METRICS : METRICS[k].category = c}
Scored(found, c) == {k \in Keys(c) : ValueOf(found, k) # NoValue}

CategoryScore(found, c) ==
  LET keys == Scored(found, c)
      Weighted(k) == METRICS[k].weight * ScoreMetric(found[k], METRICS[k])
  IN  IF keys = {} THEN 0
      ELSE MapThenSumSet(Weighted, keys) \div MapThenSumSet(LAMBDA k : METRICS[k].weight, keys)

Summary(found, modules) ==
  LET active  == ActiveCategories(modules)
      keys    == UNION {Keys(c) : c \in active}
      scored  == UNION {Scored(found, c) : c \in active}
      overall == IF active = {} THEN 0
                 ELSE MapThenSumSet(LAMBDA c : CategoryScore(found, c), active) \div Cardinality(active)
  IN  [overall |-> overall, letter |-> Letter(overall), total |-> Cardinality(keys),
       scored |-> Cardinality(scored), warned |-> keys # scored]

(***************************************************************************)
(* Steps.  The selected modules are a Python set: any order.               *)
(***************************************************************************)
Init ==
  /\ selected \in Selections
  /\ \E older, other \in Runs : \E m \in DOMAIN older :
       reports = <<older, [older EXCEPT ![m] = other[m]]>>
  /\ run = 1 /\ todo = selected /\ values = <<>> /\ card = <<>> /\ error = FALSE

Parse(m) ==
  /\ ~error /\ run <= 2 /\ m \in todo
  /\ \/ /\ m \notin PARSERS                         \* PARSERS[category] before anything else
        /\ error' = TRUE
        /\ UNCHANGED <<todo, values>>
     \/ /\ m \in PARSERS
        /\ todo' = todo \ {m}
        /\ values' = IF reports[run][m] = Absent THEN values
                     ELSE Parsed(m, reports[run][m]) @@ values
        /\ UNCHANGED error
  /\ UNCHANGED <<selected, run, reports, card>>

ScoreRun ==
  /\ ~error /\ run <= 2 /\ todo = {}
  /\ card' = Append(card, Summary(values, selected))
  /\ run' = run + 1
  /\ todo' = IF run = 1 THEN selected ELSE {}
  /\ values' = <<>>
  /\ UNCHANGED <<selected, reports, error>>

Next == (\E m \in selected : Parse(m)) \/ ScoreRun

Spec == Init /\ [][Next]_vars

(***************************************************************************)
(* Properties.                                                             *)
(***************************************************************************)
\* The values a report's rows are used in, and which of two is the better.
UsedRows == [cache_hierarchy  |-> [low |-> 1, high |-> 10000, direction |-> "lower"],
             memory_bandwidth |-> [low |-> 100, high |-> 10000000, direction |-> "higher"],
             cpu_alu          |-> [low |-> 0, high |-> 1000, direction |-> "higher"],
             cpu_float        |-> [low |-> 0, high |-> 100, direction |-> "higher"]]

Used(u, v) == u.low < v /\ v < u.high
AtLeast(u, v, w) == IF u.direction = "lower" THEN w <= v ELSE w >= v

\* A value that is used in both runs, or in neither.
UsedInBoth(u, v, w) == (Used(u, v) <=> Used(u, w)) /\ (Used(u, v) => AtLeast(u, v, w))

\* A value that is used in the first run, and whatever a better machine has for it.
Improved(u, v, w) == v = w \/ (Used(u, v) /\ AtLeast(u, v, w) /\ w > 0)

\* Report b has the tables and rows of a, and every row is as good or better.
AsGood(m, a, b, Row(_, _, _)) ==
  \/ a = b
  \/ /\ m \in DOMAIN UsedRows /\ Len(a) = Len(b)
     /\ \A t \in DOMAIN a :
          /\ a[t].name = b[t].name /\ a[t].heading = b[t].heading /\ Len(a[t].rows) = Len(b[t].rows)
          /\ \A i \in DOMAIN a[t].rows :
               /\ a[t].rows[i][1] = b[t].rows[i][1]
               /\ Row(UsedRows[m], a[t].rows[i][2], b[t].rows[i][2])

\* Where the parsers use the same rows of both runs, better values in them never score less,
\* through medians, first and last rows, ratios and weights, and whatever lies in the directory
\* for the modules nobody selected (score_metric, score_run, collect_metrics).
BetterRowsScoreNoLess ==
  Len(card) = 2 /\ (\A m \in selected : AsGood(m, reports[1][m], reports[2][m], UsedInBoth))
    => card[2].overall >= card[1].overall

\* "If your machine is faster, you score 100" (report_score.py:59): a faster machine's run never
\* scores less, however much faster it is.
FasterScoresNoLess ==
  Len(card) = 2 /\ (\A m \in selected : AsGood(m, reports[1][m], reports[2][m], Improved))
    => card[2].overall >= card[1].overall
=============================================================================
