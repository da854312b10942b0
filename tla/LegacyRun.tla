----------------------------- MODULE LegacyRun -----------------------------
(***************************************************************************)
(* The older command line (generate_report.py): it asks for a sudo         *)
(* password once, builds and runs the tests of a list one after the other, *)
(* keeps what an engine prints as the test's report and sums up.  The      *)
(* engine has written a report of its own into the same file by then       *)
(* (src/report.c), as root when sudo ran it.                               *)
(*                                                                         *)
(* One process is one round; files outlive it.                             *)
(***************************************************************************)
EXTENDS Integers, Sequences, FiniteSets, Functions

CONSTANTS
  Memory, Cpu,  \* the tests of the two categories, in the order of tests.json
  Lenient,      \* tests whose engine goes on when its report cannot be opened
  MaxRounds     \* bound on the processes

VARIABLES
  me,           \* who calls the script, "user" or "root"
  script,       \* of the process: "shell" (none runs), "asking", "testing", "running", "saving", "summary"
  turn,         \* processes so far
  password,     \* _sudo_password: "none", "wrong", "right"
  queue,        \* tests still to run
  results,      \* results of run_all_tests, "none" until it is there
  built,        \* tests whose binary exists
  files         \* the file of every test

legacyVars == <<me, script, turn, password, queue, results, built, files>>

Apart(s) == \A i, j \in 1..Len(s) : i # j => s[i] # s[j]

\* Of the constants: no test is listed twice (tests.json).
TestsAreDistinct ==
  /\ Memory \in Seq(Range(Memory)) /\ Cpu \in Seq(Range(Cpu))
  /\ Memory # <<>> /\ Cpu # <<>>
  /\ Apart(Memory) /\ Apart(Cpu) /\ Range(Memory) \cap Range(Cpu) = {}

Tests == Range(Memory) \cup Range(Cpu)
Test == Head(queue)

NoFile == [text |-> "none", turn |-> 0, owner |-> "user"]
\* Files are 0644, the directory is the caller's.
CanWrite(who, t) == who = "root" \/ files[t].owner = "user"
Written(who, t, text) ==
  [files EXCEPT ![t] = [text |-> text, turn |-> turn, owner |-> IF @ = NoFile THEN who ELSE @.owner]]

LegacyInit ==
  /\ me \in {"user", "root"} /\ script = "shell" /\ turn = 0 /\ password = "none" /\ queue = <<>>
  /\ results = [t \in Tests |-> "none"] /\ built = {} /\ files = [t \in Tests |-> NoFile]

\* main: one test goes without a password, a list asks for one.
Invoke ==
  /\ script = "shell" /\ turn < MaxRounds /\ turn' = turn + 1
  /\ password' = "none" /\ results' = [t \in Tests |-> "none"]
  /\ \/ script' = "testing" /\ \E t \in Tests : queue' = <<t>>
     \/ script' = "asking" /\ queue' \in {Memory, Cpu, Memory \o Cpu}
  /\ UNCHANGED <<me, built, files>>

\* verify_sudo_once: its answer is only printed, the password stays.
Verify ==
  /\ script = "asking" /\ script' = "testing"
  /\ password' \in {"none", "wrong", "right"}
  /\ UNCHANGED <<me, turn, queue, results, built, files>>

\* results[test_name] = run_test(test_name)
Conclude(verdict) ==
  /\ results' = [results EXCEPT ![Test] = verdict] /\ queue' = Tail(queue)
  /\ script' = IF Len(queue) = 1 THEN "summary" ELSE "testing"

Build ==
  /\ script = "testing"
  /\ \/ script' = "running" /\ built' = built \cup {Test} /\ UNCHANGED <<queue, results>>
     \/ Test \notin built /\ Conclude("fail") /\ UNCHANGED built
  /\ UNCHANGED <<me, turn, password, files>>

\* `if _sudo_password:', whether it was verified or not.
Sudo == password # "none"
Who == IF Sudo THEN "root" ELSE me

\* sudo turns the caller away.
Refused ==
  /\ script = "running" /\ me = "user" /\ password = "wrong"
  /\ Conclude("fail") /\ UNCHANGED <<me, turn, password, built, files>>

\* The engine opens its report late; returncode # 0 ends the test.
EngineFails ==
  /\ script = "running" /\ (me = "root" \/ password # "wrong")
  /\ \/ UNCHANGED files
     \/ CanWrite(Who, Test) /\ files' = Written(Who, Test, "part")
  /\ Conclude("fail") /\ UNCHANGED <<me, turn, password, built>>

EngineSucceeds ==
  /\ script = "running" /\ (me = "root" \/ password # "wrong")
  /\ \/ CanWrite(Who, Test) /\ files' = Written(Who, Test, "report")
     \/ ~CanWrite(Who, Test) /\ Test \in Lenient /\ UNCHANGED files
  /\ script' = "saving" /\ UNCHANGED <<me, turn, password, queue, results, built>>

\* Mutant: a report that cannot be written is left as it is and the test passed.
PersistOrKeep ==
  /\ script = "saving"
  /\ \/ CanWrite(me, Test) /\ files' = Written(me, Test, "log") /\ Conclude("pass")
     \/ CanWrite(me, Test) /\ files' = Written(me, Test, "empty") /\ Conclude("pass")
     \/ ~CanWrite(me, Test) /\ Conclude("pass") /\ UNCHANGED files
  /\ UNCHANGED <<me, turn, password, built>>

\* with open(report_path, 'w'): an OSError at the opening or later.
Persist ==
  /\ script = "saving"
  /\ \/ CanWrite(me, Test) /\ files' = Written(me, Test, "log") /\ Conclude("pass")
     \/ CanWrite(me, Test) /\ files' = Written(me, Test, "empty") /\ Conclude("fail")
     \/ ~CanWrite(me, Test) /\ Conclude("fail") /\ UNCHANGED files
  /\ UNCHANGED <<me, turn, password, built>>

\* Ctrl-C ends script and engine, whatever the engine has written.
Interrupt ==
  /\ script \in {"asking", "testing", "running", "saving"}
  /\ script' = "shell" /\ queue' = <<>> /\ results' = [t \in Tests |-> "none"]
  /\ \/ UNCHANGED files
     \/ script = "running" /\ (me = "root" \/ password # "wrong") /\ CanWrite(Who, Test) /\ files' = Written(Who, Test, "part")
  /\ UNCHANGED <<me, turn, password, built>>

\* The exit code does not depend on the results.
Summary ==
  /\ script = "summary" /\ script' = "shell"
  /\ UNCHANGED <<me, turn, password, queue, results, built, files>>

LegacyNext ==
  \/ Invoke \/ Verify \/ Build \/ Refused \/ EngineFails \/ EngineSucceeds \/ Persist
  \/ Interrupt \/ Summary

LegacySpec == LegacyInit /\ [][LegacyNext]_legacyVars

-----------------------------------------------------------------------------
(* A test shown as [PASS] has all that its engine printed in this round in *)
(* its file: neither an earlier round's report nor one a failed or         *)
(* interrupted engine left, nor one the script could not replace           *)
(* (generate_report.py run_test, run_all_tests).                           *)
PassIsThisRounds ==
  \A t \in Tests : results[t] = "pass" => files[t].text = "log" /\ files[t].turn = turn
=============================================================================
