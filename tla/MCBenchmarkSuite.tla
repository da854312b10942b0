-------------------------- MODULE MCBenchmarkSuite --------------------------
(* Three selected modules in two executions: the shared cache run, which   *)
(* serves latency and detection, and one that serves a single module.      *)
EXTENDS BenchmarkSuite

MCPlan == <<<<"cache_latency_test", "cache_detection">>, <<"inter_core">>>>
=============================================================================
