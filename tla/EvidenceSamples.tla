--------------------------- MODULE EvidenceSamples ---------------------------
(***************************************************************************)
(* Small reports and archives for the runs on what is made of finished     *)
(* measurements: RegressionHistory, ScoreCard and ResultPages.             *)
(***************************************************************************)
EXTENDS Naturals, Integers, Sequences

\* RegressionHistory: the usable rows of three reports, some beyond their limits.
Rows(bandwidth, cache, cores) ==
  [memory_bandwidth |-> bandwidth, cache_hierarchy |-> cache, inter_core_latency |-> cores]
MCReports == {Rows(<<50, 1000>>, <<80, 90>>, <<40, 60>>), Rows(<<1100>>, <<80, 90>>, <<>>),
              Rows(<<1600>>, <<80, 130>>, <<40, 60>>), Rows(<<700>>, <<2000>>, <<40>>),
              Rows(<<>>, <<>>, <<>>)}

\* ScoreCard: one run, and the reports another run may have instead.
Sheet(name, rows) == [name |-> name, heading |-> "", rows |-> rows]
System == Sheet("Item", <<>>)
NoReport == <<>>
NoNumber == -1
Matrix(a, b, c) ==
  <<System, Sheet("Core", <<<<0, <<NoNumber, a, b>>>>, <<1, <<a, NoNumber, c>>>>, <<2, <<b, c, NoNumber>>>>>>)>>
Scan(rows) == <<System, Sheet("Transition", <<<<"l1", 1>>>>), Sheet("Cache Hierarchy Scan", rows)>>
Bandwidth(rows) == <<System, Sheet("Bandwidth (MB/s)", rows)>>
Rates(rows) == <<System, Sheet("Operation", rows)>>

OneRun == [
  cache_hierarchy  |-> Scan(<<<<"l1d", 20>>, <<"l1d", 60>>, <<"l2", 100>>, <<"ram", 20000>>>>),
  memory_bandwidth |-> Bandwidth(<<<<"read", 9000>>, <<"read", 12000>>, <<"write", 90>>>>),
  inter_core       |-> Matrix(400, 1900, 1950),
  cpu_alu          |-> Rates(<<<<"add", 0>>, <<"add", 12>>, <<"div", 2>>>>),
  cpu_float        |-> Rates(<<<<"fma", 1>>, <<"dot", 100>>>>),
  cpu_branch       |-> Rates(<<<<"TNTN", 12>>>>),
  cpu_multi        |-> <<System, Sheet("scaling", <<<<"add", 2>>>>), Sheet("scaling", <<<<"fma", 2>>>>)>>,
  cpu_architecture |-> NoReport]
Variants == [
  cache_hierarchy  |-> {NoReport,
                        Scan(<<<<"l1d", 20>>, <<"l1d", 40>>, <<"l2", 90>>, <<"ram", 20000>>>>),
                        Scan(<<<<"l1d", 20>>, <<"l1d", 60>>, <<"l2", 70>>, <<"ram", 900>>>>)},
  memory_bandwidth |-> {<<System, [Sheet("other", <<<<"Read", 9>>>>) EXCEPT !.heading = "Bandwidth (MB/s)"],
                          Sheet("text", <<<<"read", 14000>>, <<"copy", 50>>>>)>>,
                        Bandwidth(<<<<"read", 9000>>, <<"read", 21000>>, <<"write", 90>>>>)},
  inter_core       |-> {Matrix(NoNumber, NoNumber, NoNumber)},
  cpu_alu          |-> {Rates(<<<<"add", 0>>, <<"add", 15>>, <<"div", 2>>>>)},
  cpu_float        |-> {Rates(<<<<"fma", 3>>, <<"dot", 100>>>>), Rates(<<<<"fma", 40>>, <<"dot", 30>>>>)},
  cpu_branch       |-> {NoReport}]
MCRuns == {OneRun} \cup UNION {{[OneRun EXCEPT ![m] = r] : r \in Variants[m]} : m \in DOMAIN Variants}

AllModules == DOMAIN OneRun
MCSelections == {{"cache_hierarchy", "memory_bandwidth"}, {"inter_core", "cpu_alu", "cpu_float", "cpu_branch"},
                 {"cpu_multi", "cpu_architecture"}}

\* ResultPages: four archives, the newest three of which do not build, and the next benchmark.
T(title, header, rows) == [title |-> title, header |-> header, rows |-> rows]
Row(m, s) == [module |-> m, status |-> s]
SystemTable == T("System", "item", <<"cpu">>)
OldMemory ==
  <<SystemTable, T("Memory Bandwidth Test Results", "operation", <<"read", "copy", "stride 64B">>),
    T("Memory Latency", "operation", <<"dependent_read", "dependent_write">>),
    T("Sampling Statistics", "measurement", <<"read", "dependent_read", "dependent_write", "dependent_copy">>)>>
OldCache ==
  <<SystemTable, T("Reported Cache Hierarchy", "level", <<"L1D">>),
    T("Cache Hierarchy Detection", "transition", <<>>), T("Cache Hierarchy Scan", "rdlat(ns)", <<"16KB", "32KB">>),
    T("Cache Bandwidth Test", "size", <<"16KB">>), T("Sampling Statistics", "measurement", <<"read", "dependent_read">>)>>
OneMark == <<SystemTable, T("Scaling", "operation", <<"add">>), T("Sampling Statistics", "measurement", <<"add">>)>>
Taken(scans) == [accepted |-> TRUE, scans |-> scans]
NotTaken == [accepted |-> FALSE, scans |-> {}]
Archive(id, rows, reports, evidence) == [id |-> id, rows |-> rows, reports |-> reports, evidence |-> evidence]

MCArchives == <<
  Archive("a4", <<Row("cpu_alu", "passed"), Row("cpu_multi", "passed")>>,
          [cpu_alu |-> OneMark, cpu_multi |-> OneMark], [cpu_alu |-> NotTaken]),
  Archive("a3", <<Row("cpu_alu", "passed"), Row("cpu_architecture", "passed")>>,
          [cpu_alu |-> OneMark, cpu_architecture |-> OneMark], [cpu_architecture |-> NotTaken]),
  Archive("a2", <<Row("memory_latency_test", "interrupted"), Row("cache_latency_test", "passed")>>,
          [memory_latency_test |-> OneMark], [cpu_multi |-> NotTaken]),
  Archive("a1", <<Row("memory_bandwidth", "passed"), Row("cache_hierarchy", "passed"), Row("cpu_alu", "running"),
                  Row("cpu_multi", "passed"), Row("inter_core", "passed"), Row("cpu_architecture", "passed")>>,
          [memory_bandwidth |-> OldMemory, cache_hierarchy |-> OldCache, cpu_multi |-> OneMark,
           inter_core |-> <<SystemTable, T("CAS", "core", <<"0", "1">>)>>, cpu_architecture |-> OneMark],
          [cpu_multi |-> NotTaken, cpu_architecture |-> Taken({"frontend", "caches"})])>>
MCFresh ==
  Archive("now", <<Row("cpu_multi", "passed"), Row("inter_core", "passed"), Row("cache_detection", "failed"),
                   Row("memory_latency_test", "passed")>>,
          [cpu_multi |-> OneMark, inter_core |-> <<T("observed protocol", "item", <<"x">>)>>,
           memory_latency_test |-> <<SystemTable, T("Memory Latency", "operation", <<"dependent_read">>)>>],
          [cpu_multi |-> Taken({}), inter_core |-> Taken({})])

\* ArchitectureEvidence: the points of its scans.
MCCounts == <<2, 4, 8, 12, 16, 24, 32>>
MCStrides == <<1, 2, 4>>
MCFillers == <<0, 8, 16, 24, 32, 48, 64, 96>>

\* LegacyRun: one test of either category.
MCMemory == <<"inter_core">>
MCCpu == <<"cpu_alu">>

\* SensorProvider: ticks a line counts, and the file; changes of the machine.
MCLife == [macos |-> 1, windows |-> 1, file |-> 1]
MCChanges == [linux |-> 2, macos |-> 1, windows |-> 1]

\* MemoryBudget: the modes that take memory.
MCModes == {{}, {"ram"}, {"cache", "ram"}, {"ram", "gpu"}}
=============================================================================
