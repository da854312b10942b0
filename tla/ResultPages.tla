----------------------------- MODULE ResultPages -----------------------------
(***************************************************************************)
(* From an archived run to the pages of the window: result_model builds a  *)
(* module's result from its record and its report, restore_results takes   *)
(* the newest archive whose every row builds, and a combined cache or      *)
(* memory result of an old archive is split over the pages that replaced   *)
(* its page.                                                               *)
(*                                                                         *)
(* A report is the sequence of its Markdown tables, each [title, header,   *)
(* rows]; a row is known by its label, the measured operation, and numbers *)
(* are left out.  Every chart and figure of a result is made from the      *)
(* table beside it, so a result's tables stand for them too.               *)
(***************************************************************************)
EXTENDS Integers, Sequences, FiniteSets, SequencesExt

CONSTANTS
  Archives,     \* what recent_archives finds, newest first
  Fresh         \* what the next benchmark will leave

VARIABLES
  phase,        \* "reading" and "showing" an archive, "idle", "running"
  at,           \* index of the archive
  row,          \* index of the record being read, or of the part being shown
  restored,     \* parts built so far
  pages,        \* what each page shows
  saved         \* the archive a page names

vars == <<phase, at, row, restored, pages, saved>>

Pages == {"cache_bandwidth_test", "cache_latency_test", "cache_detection", "memory_bandwidth_test",
          "memory_latency_test", "cpu_alu", "cpu_multi", "inter_core", "cpu_architecture"}
Cache == {"cache_hierarchy", "cache_bandwidth_test", "cache_latency_test", "cache_detection"}
NotSaved == "no archive"

\* The pages a module fills: the combined ones of old have several.
PagesOf(m) ==
  IF m = "cache_hierarchy" THEN {"cache_bandwidth_test", "cache_latency_test", "cache_detection"}
  ELSE IF m = "memory_bandwidth" THEN {"memory_bandwidth_test", "memory_latency_test"} ELSE {m}

\* Of the constants: a run selects no module twice, and none beside the one that combines it
\* (select_modules).
PagesAssumption ==
  Len(Archives) \in Nat /\ DOMAIN Archives = 1..Len(Archives) /\ \A a \in Range(Archives) :
    /\ a.id # NotSaved /\ Len(a.rows) \in Nat /\ DOMAIN a.rows = 1..Len(a.rows)
    /\ \A i \in DOMAIN a.rows : PagesOf(a.rows[i].module) \subseteq Pages
    /\ \A i, j \in DOMAIN a.rows : i # j => PagesOf(a.rows[i].module) \cap PagesOf(a.rows[j].module) = {}

Result(name, status, tables, notice) == [name |-> name, status |-> status, tables |-> tables, notice |-> notice]
Table(title, rows) == [title |-> title, rows |-> rows]
Titles(tables) == {t.title : t \in Range(tables)}

(***************************************************************************)
(* Tables of a report into tables of a result.                             *)
(***************************************************************************)
KnownOperations == {"read", "write", "copy", "add", "dependent_read", "dependent_write", "dependent_copy"}
LatencyOperations == {"dependent_read", "dependent_write", "dependent_copy"}

\* A label of an older report that is not known is shown by its number only.
Operation(label) == IF label \in KnownOperations THEN label ELSE "item_number"

NonEmpty(tables) == SelectSeq(tables, LAMBDA t : t.rows # <<>>)
Labels(rows) == [i \in DOMAIN rows |-> Operation(rows[i])]

\* The cache's statistics are two tables, the dependent loads apart.
SamplingTables(rows, cache) ==
  IF ~cache THEN <<Table("sampling_statistics", Labels(rows))>>
  ELSE NonEmpty(<<Table("cache_bandwidth_statistics", Labels(SelectSeq(rows, LAMBDA r : r # "dependent_read"))),
                  Table("cache_latency_statistics", Labels(SelectSeq(rows, LAMBDA r : r = "dependent_read")))>>)

\* A table of a kind of its own, or of none: by the report's heading and first column.
GenericTitle(t) ==
  IF t.title = "Cache Bandwidth Test" THEN "cache_bandwidth_test"
  ELSE IF t.title = "Cache Latency Test" THEN "cache_latency_test"
  ELSE IF t.header = "rdlat(ns)" THEN "cache_scan"
  ELSE IF t.title = "Memory Latency" THEN "memory_latency"
  ELSE IF t.title = "Memory Bandwidth Test Results" THEN "memory_bandwidth_test"
  ELSE IF t.header = "core" THEN "cas_latency"
  ELSE "results"

TablesOf(name, t) ==
  IF t.title = "Sampling Statistics" THEN SamplingTables(t.rows, name \in Cache)
  ELSE IF name \in Cache /\ t.title = "Reported Cache Hierarchy" THEN NonEmpty(<<Table("reported_cache", t.rows)>>)
  ELSE IF name \in Cache /\ t.title = "Cache Hierarchy Detection" THEN NonEmpty(<<Table("cache_transitions", t.rows)>>)
  ELSE IF t.header \in {"item", "level"} THEN <<>>
  ELSE NonEmpty(<<Table(GenericTitle(t), Labels(t.rows))>>)

GenericTables(name, report) == FlattenSeq([i \in DOMAIN report |-> TablesOf(name, report[i])])
NoticeOf(name, report) ==
  IF name = "cache_detection" /\ \E t \in Range(report) : t.title = "Cache Hierarchy Detection" /\ t.rows = <<>>
    THEN "no_transition" ELSE ""

(***************************************************************************)
(* Modules with evidence beside the report: the scans of it, and whether   *)
(* its strict reader accepts it.                                           *)
(***************************************************************************)
NoEvidence == [accepted |-> FALSE, scans |-> {}]
Observed(name, report) == name = "inter_core" /\ \E t \in Range(report) : t.title = "observed protocol"

\* The tables of an architecture run: the scans its evidence has, in this order.
ArchitectureTables(scans) ==
  LET Of == [frontend |-> <<"arch_btb_scan", "arch_code_scan">>, width |-> <<"arch_fetch_scan">>,
             caches |-> <<"arch_cache_levels">>, layout |-> <<"arch_btb_layout">>,
             resources |-> <<"arch_resource_scan", "arch_resource_raw">>,
             competition |-> <<"arch_competition", "arch_competition_raw">>]
      Order == <<"frontend", "width", "caches", "layout", "resources", "competition">>
      shown == SelectSeq(Order, LAMBDA s : s \in scans)
      titles == <<"architecture_measurements">> \o FlattenSeq([i \in DOMAIN shown |-> Of[shown[i]]])
                  \o IF scans \subseteq {"caches"} THEN <<>> ELSE <<"arch_probe_status">>
  IN  [i \in DOMAIN titles |-> Table(titles[i], <<"measured">>)]

MarkTables(report) ==
  <<Table("scaling", <<"integer">>), Table("scaling", <<"fp64">>)>>
    \o FlattenSeq([i \in DOMAIN report |-> IF report[i].title = "Sampling Statistics"
                                             THEN SamplingTables(report[i].rows, FALSE) ELSE <<>>])

FromEvidence(name, report, evidence) ==
  CASE Observed(name, report) -> IF ~evidence.accepted THEN Result(name, "invalid_report", <<>>, "")
                                 ELSE Result(name, "passed", <<Table("observed_cas_latency", <<"pair">>)>>, "observed_intercore_notice")
    [] name = "cpu_architecture" -> IF ~evidence.accepted THEN Result(name, "invalid_report", <<>>, "")
                                    ELSE Result(name, "passed", ArchitectureTables(evidence.scans), "")
    [] OTHER -> Result(name, "passed", MarkTables(report), "")

FromReport(name, report, notice) ==
  LET tables == GenericTables(name, report)
  IN  IF tables = <<>> THEN Result(name, "invalid_report", <<>>, notice) ELSE Result(name, "passed", tables, notice)

\* build_module.  A missing score only adds a notice; the module's own tables are shown.
Build(name, status, archive) ==
  IF status # "passed" THEN Result(name, status, <<>>, "")
  ELSE IF name \notin DOMAIN archive.reports THEN Result(name, "invalid_report", <<>>, "")
  ELSE LET report   == archive.reports[name]
           evidence == IF name \in DOMAIN archive.evidence THEN archive.evidence[name] ELSE NoEvidence
       IN  IF Observed(name, report) \/ name = "cpu_architecture" \/ (name = "cpu_multi" /\ evidence.accepted)
             THEN FromEvidence(name, report, evidence)
             ELSE FromReport(name, report, IF name = "cpu_multi" THEN "score_unavailable" ELSE NoticeOf(name, report))

(***************************************************************************)
(* Combined results of old archives over today's pages.                    *)
(***************************************************************************)
PartTitles == [
  cache_bandwidth_test |-> {"cache_bandwidth_test", "cache_bw", "cache_bandwidth_statistics"},
  cache_latency_test   |-> {"cache_latency_test", "cache_scan", "cache_latency_statistics"},
  cache_detection      |-> {"reported_cache", "cache_transitions", "cache_latency_statistics"}]

PartTables(result, k) == SelectSeq(result.tables, LAMBDA t : t.title \in PartTitles[k])
CachePart(result, k) ==
  Result(k, result.status, PartTables(result, k),
         IF k = "cache_detection" /\ result.status = "passed" /\ "cache_transitions" \notin Titles(PartTables(result, k))
           THEN "no_transition" ELSE result.notice)
CacheParts(result) ==
  <<CachePart(result, "cache_bandwidth_test"), CachePart(result, "cache_latency_test"), CachePart(result, "cache_detection")>>

\* Mutant: the write and copy latencies came later than the split.
ReadLatencyRow(r) == r = "dependent_read"

LatencyRow(r) == r \in LatencyOperations

\* The tables of one of the two, and its rows of the statistics of both.
OwnTables(result, latency) ==
  SelectSeq(result.tables, LAMBDA t : (t.title = "memory_latency") = latency /\ t.title # "sampling_statistics")
SampledTables(result, latency) ==
  LET sampled == SelectSeq(result.tables, LAMBDA t : t.title = "sampling_statistics")
  IN  NonEmpty([i \in DOMAIN sampled |->
        Table(sampled[i].title, SelectSeq(sampled[i].rows, LAMBDA r : LatencyRow(r) = latency))])
MemoryPart(result, k, latency) ==
  LET tables == OwnTables(result, latency) \o SampledTables(result, latency)
  IN  Result(k, IF result.status = "passed" /\ tables = <<>> THEN "not_run" ELSE result.status, tables, result.notice)
MemoryParts(result) ==
  <<MemoryPart(result, "memory_bandwidth_test", FALSE), MemoryPart(result, "memory_latency_test", TRUE)>>

SplitLegacyResult(result) ==
  CASE result.name = "cache_hierarchy"  -> CacheParts(result)
    [] result.name = "memory_bandwidth" -> MemoryParts(result)
    [] OTHER -> <<result>>

(***************************************************************************)
(* The window.                                                             *)
(***************************************************************************)
Init ==
  /\ phase = "reading" /\ at = 1 /\ row = 1 /\ restored = <<>>
  /\ pages = [p \in Pages |-> Result(p, "not_run", <<>>, "")]
  /\ saved = [p \in Pages |-> NotSaved]

\* A passed row whose report, or score file, is gone, or that no longer builds.
Refused(a, r) ==
  /\ r.status = "passed"
  /\ \/ r.module \notin DOMAIN a.reports
     \/ r.module = "cpu_multi" /\ "cpu_multi" \notin DOMAIN a.evidence
     \/ Build(r.module, r.status, a).status # "passed"

ReadRow ==
  /\ phase = "reading" /\ at <= Len(Archives) /\ row <= Len(Archives[at].rows)
  /\ LET r == Archives[at].rows[row]
     IN  IF Refused(Archives[at], r)
           THEN at' = at + 1 /\ row' = 1 /\ restored' = <<>>             \* continue: the next archive
           ELSE /\ restored' = restored \o SplitLegacyResult(Build(r.module, r.status, Archives[at]))
                /\ row' = row + 1 /\ UNCHANGED at
  /\ UNCHANGED <<phase, pages, saved>>

AllRead ==
  /\ phase = "reading"
  /\ \/ at > Len(Archives) /\ phase' = "idle"
     \/ at <= Len(Archives) /\ row > Len(Archives[at].rows) /\ phase' = "showing"
  /\ row' = 1
  /\ UNCHANGED <<at, restored, pages, saved>>

Ended(status) == IF status \in {"running", "queued"} THEN "interrupted" ELSE status

ShowPart ==
  /\ phase = "showing" /\ row <= Len(restored)
  /\ LET part == restored[row]
     IN  /\ pages' = [pages EXCEPT ![part.name] = [part EXCEPT !.status = Ended(part.status)]]
         /\ saved' = [saved EXCEPT ![part.name] = Archives[at].id]
  /\ row' = row + 1
  /\ UNCHANGED <<phase, at, restored>>

Restored ==
  /\ phase = "showing" /\ row > Len(restored)
  /\ phase' = "idle"
  /\ UNCHANGED <<at, row, restored, pages, saved>>

\* begin, and the events of the worker as the window takes them.
FreshRow(m) == CHOOSE r \in Range(Fresh.rows) : r.module = m

Begin ==
  /\ phase = "idle"
  /\ phase' = "running"
  /\ \E modules \in SUBSET {r.module : r \in Range(Fresh.rows)} :
       /\ modules # {}
       /\ pages' = [p \in Pages |-> IF p \in modules THEN Result(p, "queued", <<>>, "") ELSE pages[p]]
       /\ saved' = [p \in Pages |-> IF p \in modules THEN NotSaved ELSE saved[p]]
  /\ UNCHANGED <<at, row, restored>>

Started(m) ==
  /\ phase = "running" /\ pages[m].status = "queued" /\ saved[m] = NotSaved
  /\ \A p \in Pages : pages[p].status # "running"
  /\ pages' = [pages EXCEPT ![m] = Result(m, "running", <<>>, "")]
  /\ UNCHANGED <<phase, at, row, restored, saved>>

Completed(m) ==
  /\ phase = "running" /\ pages[m].status = "running"
  /\ pages' = [pages EXCEPT ![m] = Build(m, FreshRow(m).status, Fresh)]
  /\ UNCHANGED <<phase, at, row, restored, saved>>

Next == ReadRow \/ AllRead \/ ShowPart \/ Restored \/ Begin \/ \E m \in Pages : Started(m) \/ Completed(m)

Spec == Init /\ [][Next]_vars

(***************************************************************************)
(* Properties.                                                             *)
(***************************************************************************)
AllRows(tables, title) == FlattenSeq([i \in DOMAIN tables |-> IF tables[i].title = title THEN tables[i].rows ELSE <<>>])
Count(rows, r) == Cardinality({i \in DOMAIN rows : rows[i] = r})

\* The parts of a combined memory result share its rows out: each row is on one page, and the
\* page of the latencies has all of them and nothing else.
SharedOut(result, parts) ==
  /\ \A title \in Titles(result.tables) : \A r \in Range(AllRows(result.tables, title)) :
       Count(AllRows(result.tables, title), r)
         = Count(AllRows(parts[1].tables, title), r) + Count(AllRows(parts[2].tables, title), r)
  /\ \A r \in LatencyOperations : Count(AllRows(parts[1].tables, "sampling_statistics"), r) = 0
  /\ \A r \in KnownOperations \ LatencyOperations : Count(AllRows(parts[2].tables, "sampling_statistics"), r) = 0

Parts(r) == SplitLegacyResult(Build(r.module, r.status, Archives[at]))
Settled == phase \in {"idle", "running"} /\ at <= Len(Archives)

\* Pages that name an archive name the same one, and show its parts until the next benchmark takes
\* them ("Do not mix independent rounds", restore_results).
OneArchive ==
  Settled =>
    /\ \A p \in Pages : saved[p] \in {NotSaved, Archives[at].id}
    /\ \A r \in Range(Archives[at].rows) : \A part \in Range(Parts(r)) :
         /\ saved[part.name] = Archives[at].id => pages[part.name].tables = part.tables
         /\ saved[part.name] = NotSaved => phase = "running"
    /\ \A p \in {"memory_bandwidth_test", "memory_latency_test"} :
         saved[p] = Archives[at].id /\ pages[p].status = "passed" => pages[p].tables # <<>>

\* A row that did not pass shows no measurement, and a combined result is shared out between its
\* pages without loss ("without inventing fresh runs", split_legacy_result).
NothingInvented ==
  Settled => \A r \in Range(Archives[at].rows) :
    /\ r.status # "passed" => \A part \in Range(Parts(r)) : part.tables = <<>>
    /\ r.module = "memory_bandwidth" => SharedOut(Build(r.module, r.status, Archives[at]), Parts(r))

\* What is restored is one archive, whole.
RestoredIsOneArchive == OneArchive /\ NothingInvented
=============================================================================
