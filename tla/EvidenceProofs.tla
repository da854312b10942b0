--------------------------- MODULE EvidenceProofs ----------------------------
(***************************************************************************)
(* What is made of measurements afterwards: the reports of the older       *)
(* command line, the memory a stress session may take, the values of the   *)
(* sensors, the pages of a restored archive and the verdict of the         *)
(* regression tracker on a history of runs.                                *)
(***************************************************************************)
EXTENDS MCEvidence, FiniteSetTheorems, SequenceTheorems, TLAPS

-----------------------------------------------------------------------------
(***************************************************************************)
(* What a [PASS] of the older command line says of the report it leaves.   *)
(* The one thing asked of the constants is that no test is listed twice:   *)
(* tests.json names every test once, in one of its two categories.         *)
(***************************************************************************)
(* The inductive invariant.                                                *)

Busy == {"asking", "testing", "running", "saving"}

File == [text : {"none", "part", "report", "log", "empty"}, turn : Nat, owner : {"user", "root"}]

LegacyTypeOK ==
  /\ me \in {"user", "root"} /\ script \in Busy \cup {"shell", "summary"} /\ turn \in Nat
  /\ password \in {"none", "wrong", "right"} /\ queue \in Seq(Tests)
  /\ results \in [Tests -> {"none", "pass", "fail"}] /\ built \subseteq Tests
  /\ files \in [Tests -> File]

\* A process at work has tests to run, each of them once, and none of those
\* has a result: no engine runs on the report of a test that has passed.
Ahead ==
  /\ script \in Busy => queue # <<>>
  /\ Apart(queue)
  /\ \A i \in 1..Len(queue) : results[queue[i]] = "none"

LegacyInv == LegacyTypeOK /\ Ahead /\ PassIsThisRounds

-----------------------------------------------------------------------------
(* The list of tests.                                                      *)

\* What a list holds are tests, each of them once.
LEMMA Lists ==
  ASSUME TestsAreDistinct, NEW list \in {Memory, Cpu, Memory \o Cpu}
  PROVE  list \in Seq(Tests) /\ list # <<>> /\ Apart(list)
<1>1. Memory \in Seq(Tests) /\ Cpu \in Seq(Tests)
  BY DEF TestsAreDistinct, Tests
<1>2. \A i \in 1..Len(Memory) : Memory[i] \in Range(Memory)
  BY DEF Range, TestsAreDistinct
<1>3. \A i \in 1..Len(Cpu) : Cpu[i] \in Range(Cpu)
  BY DEF Range, TestsAreDistinct
<1>4. CASE list \in {Memory, Cpu}
  BY <1>1, <1>4 DEF TestsAreDistinct
<1>5. CASE list = Memory \o Cpu
  <2>1. /\ list \in Seq(Tests) /\ Len(list) = Len(Memory) + Len(Cpu) /\ Len(Memory) \in Nat \ {0} /\ Len(Cpu) \in Nat
        /\ \A i \in 1..Len(list) :
             list[i] = IF i <= Len(Memory) THEN Memory[i] ELSE Cpu[i - Len(Memory)]
    BY <1>1, <1>5, ConcatProperties, EmptySeq, LenProperties DEF TestsAreDistinct
  <2>2. ASSUME NEW i \in 1..Len(list), NEW j \in 1..Len(list), i # j
        PROVE  list[i] # list[j]
    <3>1. CASE i <= Len(Memory) /\ j <= Len(Memory)
      BY <2>1, <2>2, <3>1 DEF TestsAreDistinct, Apart
    <3>2. CASE i <= Len(Memory) /\ ~(j <= Len(Memory))
      <4>1. i \in 1..Len(Memory) /\ j - Len(Memory) \in 1..Len(Cpu)
        BY <2>1, <3>2
      <4>. QED
        BY <1>2, <1>3, <2>1, <3>2, <4>1 DEF TestsAreDistinct
    <3>3. CASE ~(i <= Len(Memory)) /\ j <= Len(Memory)
      <4>1. j \in 1..Len(Memory) /\ i - Len(Memory) \in 1..Len(Cpu)
        BY <2>1, <3>3
      <4>. QED
        BY <1>2, <1>3, <2>1, <3>3, <4>1 DEF TestsAreDistinct
    <3>4. CASE ~(i <= Len(Memory)) /\ ~(j <= Len(Memory))
      <4>1. i - Len(Memory) \in 1..Len(Cpu) /\ j - Len(Memory) \in 1..Len(Cpu)
            /\ i - Len(Memory) # j - Len(Memory)
        BY <2>1, <2>2, <3>4
      <4>. QED
        BY <2>1, <3>4, <4>1 DEF TestsAreDistinct, Apart
    <3>. QED
      BY <3>1, <3>2, <3>3, <3>4
  <2>. QED
    BY <2>1, <2>2, EmptySeq DEF Apart
<1>. QED
  BY <1>4, <1>5

LEMMA OneTest ==
  ASSUME NEW t \in Tests
  PROVE  <<t>> \in Seq(Tests) /\ <<t>> # <<>> /\ Apart(<<t>>)
  BY DEF Apart

\* The test at hand is not one of the rest.
LEMMA TheRest ==
  ASSUME queue \in Seq(Tests), queue # <<>>, Apart(queue)
  PROVE  /\ Test \in Tests /\ Test = queue[1] /\ Len(queue) \in Nat \ {0}
         /\ Tail(queue) \in Seq(Tests) /\ Apart(Tail(queue))
         /\ \A i \in 1..Len(Tail(queue)) :
              i + 1 \in 1..Len(queue) /\ Tail(queue)[i] = queue[i + 1] /\ Tail(queue)[i] # Test
         /\ Len(queue) # 1 => Tail(queue) # <<>>
<1>1. /\ Head(queue) = queue[1] /\ Len(queue) \in Nat \ {0} /\ Tail(queue) \in Seq(Tests)
      /\ Len(Tail(queue)) = Len(queue) - 1
      /\ \A i \in 1..Len(Tail(queue)) : Tail(queue)[i] = queue[i + 1]
  BY HeadTailProperties, EmptySeq, LenProperties
<1>2. queue[1] \in Tests
  BY <1>1, ElementOfSeq
<1>3. \A i \in 1..Len(Tail(queue)) : i + 1 \in 1..Len(queue) /\ i + 1 # 1
  BY <1>1
<1>4. Apart(Tail(queue))
  BY <1>1, <1>3 DEF Apart
<1>5. \A i \in 1..Len(Tail(queue)) : Tail(queue)[i] # queue[1]
  BY <1>1, <1>3 DEF Apart
<1>6. ASSUME Len(queue) # 1
      PROVE  Tail(queue) # <<>>
  <2>1. Len(Tail(queue)) # 0
    BY <1>1, <1>6
  <2>. QED
    BY <2>1, EmptySeq
<1>. QED
  BY <1>1, <1>2, <1>3, <1>4, <1>5, <1>6 DEF Test

-----------------------------------------------------------------------------
(* Every step keeps the invariant.                                         *)

\* A report written to: the file keeps its owner.
LEMMA WrittenIsFile ==
  ASSUME files \in [Tests -> File], Test \in Tests, turn \in Nat,
         NEW text \in {"part", "report", "log", "empty"}, NEW who \in {"user", "root"},
         files' = Written(who, Test, text)
  PROVE  /\ files' \in [Tests -> File] /\ \A t \in Tests \ {Test} : files'[t] = files[t]
         /\ files'[Test].text = text /\ files'[Test].turn = turn
<1>. DEFINE written == [text |-> text, turn |-> turn, owner |-> IF files[Test] = NoFile THEN who ELSE files[Test].owner]
<1>1. written \in File /\ written.text = text /\ written.turn = turn
  BY DEF File
<1>2. files' = [files EXCEPT ![Test] = written]
  BY DEF Written
<1>. HIDE DEF written
<1>. QED
  BY <1>1, <1>2

\* What a test ends with.  Its file is the test's own.
LEMMA ConcludeStep ==
  ASSUME LegacyInv, script \in {"testing", "running", "saving"}, NEW outcome \in {"pass", "fail"},
         Conclude(outcome), UNCHANGED <<me, turn, password>>, built' \subseteq Tests,
         NEW text \in {"part", "log", "empty"}, NEW who \in {"user", "root"},
         \/ outcome = "fail" /\ UNCHANGED files
         \/ files' = Written(who, Test, text) /\ (outcome = "pass" => text = "log")
  PROVE  LegacyInv'
<1>. USE DEF LegacyInv, LegacyTypeOK
<1>1. Test \in Tests /\ queue # <<>> /\ Test = queue[1] /\ results[Test] = "none"
  BY TheRest DEF Ahead, Busy
<1>2. /\ results' \in [Tests -> {"none", "pass", "fail"}] /\ results'[Test] = outcome
      /\ \A t \in Tests \ {Test} : results'[t] = results[t]
  BY <1>1 DEF Conclude
<1>3. /\ files' \in [Tests -> File] /\ \A t \in Tests \ {Test} : files'[t] = files[t]
      /\ outcome = "pass" => files'[Test].text = "log" /\ files'[Test].turn = turn
  BY <1>1, WrittenIsFile
<1>4. /\ queue' = Tail(queue) /\ script' = IF Len(queue) = 1 THEN "summary" ELSE "testing"
  BY DEF Conclude
<1>5. LegacyTypeOK'
  BY <1>2, <1>3, <1>4, TheRest DEF Ahead, Busy
<1>6. Ahead'
  BY <1>1, <1>2, <1>4, TheRest DEF Ahead, Busy
<1>7. PassIsThisRounds'
  BY <1>1, <1>2, <1>3 DEF PassIsThisRounds
<1>. QED
  BY <1>5, <1>6, <1>7

\* An engine that has written its report while the test is not over.
LEMMA EngineStep ==
  ASSUME LegacyInv, script = "running", UNCHANGED <<me, turn, password, built>>,
         NEW text \in {"part", "report"}, NEW who \in {"user", "root"},
         files' = files \/ files' = Written(who, Test, text),
         \/ script' = "saving" /\ UNCHANGED <<queue, results>>
         \/ script' = "shell" /\ queue' = <<>> /\ results' = [t \in Tests |-> "none"]
  PROVE  LegacyInv'
<1>. USE DEF LegacyInv, LegacyTypeOK
<1>1. Test \in Tests /\ queue # <<>> /\ Test = queue[1] /\ results[Test] = "none"
  BY TheRest DEF Ahead, Busy
<1>2. /\ files' \in [Tests -> File] /\ \A t \in Tests \ {Test} : files'[t] = files[t]
  BY <1>1, WrittenIsFile
<1>3. /\ results' \in [Tests -> {"none", "pass", "fail"}] /\ results'[Test] = "none"
      /\ \A t \in Tests : results'[t] \in {"none", results[t]}
  BY <1>1
<1>4. LegacyTypeOK'
  BY <1>2, <1>3, EmptySeq DEF Busy
<1>5. Ahead'
  BY <1>1, <1>3 DEF Ahead, Busy, Apart
<1>6. PassIsThisRounds'
  BY <1>1, <1>2, <1>3 DEF PassIsThisRounds
<1>. QED
  BY <1>4, <1>5, <1>6

LEMMA LegacyStep ==
  ASSUME TestsAreDistinct, LegacyInv, [LegacyNext]_legacyVars
  PROVE  LegacyInv'
<1>. USE DEF LegacyInv
<1>0. Who \in {"user", "root"} /\ Who \in {me, "root"}
  BY DEF Who, LegacyTypeOK
<1>1. CASE Invoke
  <2>1. queue' \in Seq(Tests) /\ queue' # <<>> /\ Apart(queue')
    BY <1>1, Lists, OneTest DEF Invoke
  <2>2. /\ results' = [t \in Tests |-> "none"] /\ turn' \in Nat /\ password' = "none"
        /\ script' \in {"testing", "asking"} /\ UNCHANGED <<me, built, files>>
    BY <1>1 DEF Invoke, LegacyTypeOK
  <2>3. \A i \in 1..Len(queue') : queue'[i] \in Tests
    BY <2>1, ElementOfSeq
  <2>. QED
    BY <2>1, <2>2, <2>3 DEF LegacyTypeOK, Ahead, PassIsThisRounds, Busy
<1>2. CASE Verify
  BY <1>2 DEF Verify, LegacyTypeOK, Ahead, PassIsThisRounds, Busy
<1>3. CASE Build
  <2>1. CASE script' = "running" /\ built' = built \cup {Test} /\ UNCHANGED <<queue, results>>
    <3>1. Test \in Tests
      BY <1>3, TheRest DEF Build, LegacyTypeOK, Ahead, Busy
    <3>. QED
      BY <1>3, <2>1, <3>1 DEF Build, LegacyTypeOK, Ahead, PassIsThisRounds, Busy
  <2>2. CASE Conclude("fail") /\ UNCHANGED built
    BY <1>3, <2>2, ConcludeStep DEF Build, LegacyTypeOK
  <2>. QED
    BY <1>3, <2>1, <2>2 DEF Build
<1>4. CASE Refused
  BY <1>4, ConcludeStep DEF Refused, LegacyTypeOK
<1>5. CASE EngineFails
  BY <1>0, <1>5, ConcludeStep DEF EngineFails, LegacyTypeOK
<1>6. CASE EngineSucceeds
  BY <1>0, <1>6, EngineStep DEF EngineSucceeds
<1>7. CASE Persist
  <2>2. CASE files' = Written(me, Test, "log") /\ Conclude("pass")
    BY <1>7, <2>2, ConcludeStep DEF Persist, LegacyTypeOK
  <2>3. CASE files' = Written(me, Test, "empty") /\ Conclude("fail")
    BY <1>7, <2>3, ConcludeStep DEF Persist, LegacyTypeOK
  <2>4. CASE Conclude("fail") /\ UNCHANGED files
    BY <1>7, <2>4, ConcludeStep DEF Persist, LegacyTypeOK
  <2>. QED
    BY <1>7, <2>2, <2>3, <2>4 DEF Persist
<1>8. CASE Interrupt
  <2>1. CASE UNCHANGED files
    BY <1>8, <2>1, EmptySeq DEF Interrupt, LegacyTypeOK, Ahead, PassIsThisRounds, Busy, Apart
  <2>2. CASE script = "running" /\ files' = Written(Who, Test, "part")
    BY <1>0, <1>8, <2>2, EngineStep DEF Interrupt
  <2>. QED
    BY <1>8, <2>1, <2>2 DEF Interrupt
<1>9. CASE Summary
  BY <1>9 DEF Summary, LegacyTypeOK, Ahead, PassIsThisRounds, Busy
<1>10. CASE UNCHANGED legacyVars
  BY <1>10 DEF legacyVars, LegacyTypeOK, Ahead, PassIsThisRounds
<1>. QED
  BY <1>1, <1>2, <1>3, <1>4, <1>5, <1>6, <1>7, <1>8, <1>9, <1>10 DEF LegacyNext

(* A test shown as [PASS] has all that its engine printed in this round in *)
(* its file (generate_report.py run_test, run_all_tests).                  *)
THEOREM PassIsThisRoundsHolds ==
  ASSUME TestsAreDistinct
  PROVE  LegacySpec => []PassIsThisRounds
<1>1. LegacyInit => LegacyInv
  BY EmptySeq DEF LegacyInit, LegacyInv, LegacyTypeOK, Ahead, PassIsThisRounds, Busy, Apart, NoFile, File
<1>2. LegacyInv /\ [LegacyNext]_legacyVars => LegacyInv'
  BY LegacyStep
<1>3. LegacyInv => PassIsThisRounds
  BY DEF LegacyInv
<1>. QED
  BY <1>1, <1>2, <1>3, PTL DEF LegacySpec

\* A quotient times its divisor is at most the dividend.
LEMMA Quotient ==
  ASSUME NEW a \in Int, NEW d \in Nat \ {0}
  PROVE  (a \div d) \in Int /\ (a \div d) * d <= a /\ a < (a \div d) * d + d
OBVIOUS

-----------------------------------------------------------------------------

(* The memory of a stress session.                                         *)

\* The smaller and the larger of two numbers.
LEMMA OfTwo ==
  ASSUME NEW x \in Int, NEW y \in Int
  PROVE  /\ Budget!Min({x, y}) = IF x <= y THEN x ELSE y
         /\ Budget!Max({x, y}) = IF x >= y THEN x ELSE y
BY DEF Budget!Min, Budget!Max

BudgetTypeOK ==
  /\ free \in [{"system", "group"} -> Levels]
  /\ offered \in [default : Nat \ {0}, maximum : Nat \ {0}]
  /\ threads \in Nat \ {0} /\ memory \in Nat \ {0}
  /\ held \in [ram : Nat, cache : Nat, gpu : Nat]

LEMMA BudgetNumbers ==
  ASSUME BudgetTypeOK, Budget!BudgetAssumption
  PROVE  /\ Budget!Left \in Nat /\ Budget!RamPerThread \in Nat /\ Budget!Usage \in Nat
         /\ Budget!Available \in Int /\ Budget!Available = Budget!Left - Budget!Usage
         /\ Budget!Rounding \in Nat /\ Budget!Owned \in Nat
         /\ \A n \in Nat, gpu \in BOOLEAN : Budget!Overhead(n, gpu) \in Nat
<1>1. Budget!Left \in Nat
  <2>1. free["system"] \in Nat /\ free["group"] \in Nat
    BY DEF BudgetTypeOK, Budget!BudgetAssumption
  <2>. QED
    BY <2>1, OfTwo DEF Budget!Left
<1>2. /\ Budget!RamPerThread \in Nat /\ Budget!RamPerThread * threads <= memory * Mib
  BY Quotient DEF Budget!RamPerThread, BudgetTypeOK, Budget!BudgetAssumption
<1>3. Budget!Usage \in Nat
  <2>1. /\ held.ram \in Nat /\ held.cache \in Nat /\ held.gpu \in Nat
        /\ CacheCost \in Nat /\ GpuCost \in Nat
    BY DEF BudgetTypeOK, Budget!BudgetAssumption
  <2>2. /\ held.ram * Budget!RamPerThread \in Nat /\ held.cache * CacheCost \in Nat
        /\ held.gpu * GpuCost \in Nat
    BY <1>2, <2>1
  <2>. QED
    BY <2>2 DEF Budget!Usage
<1>4. Budget!Rounding \in Nat
  BY <1>2 DEF Budget!Rounding, BudgetTypeOK, Budget!BudgetAssumption
<1>5. Budget!Owned \in Nat
  BY DEF Budget!Owned, BudgetTypeOK, Budget!BudgetAssumption
<1>6. \A n \in Nat, gpu \in BOOLEAN : Budget!Overhead(n, gpu) \in Nat
  BY DEF Budget!Overhead, Budget!BudgetAssumption
<1>. QED
  BY <1>1, <1>2, <1>3, <1>4, <1>5, <1>6 DEF Budget!Available

\* memory_limits compares in MiB, rounded down; nothing is lost by it.
LEMMA MaximumIsExact ==
  ASSUME Budget!BudgetAssumption, NEW m \in Nat \ {0}, NEW available \in Int, NEW n \in Nat, NEW gpu \in BOOLEAN
  PROVE  m <= Budget!Maximum(available, n, gpu) <=> m * Mib + Budget!Overhead(n, gpu) <= available \div 2
<1>. DEFINE y == available \div 2 - Budget!Overhead(n, gpu)
<1>1. y \in Int /\ Mib \in Nat \ {0} /\ Budget!Overhead(n, gpu) \in Nat /\ available \div 2 \in Int
  BY DEF Budget!Overhead, Budget!BudgetAssumption
<1>2. Budget!Maximum(available, n, gpu) = IF 0 >= y \div Mib THEN 0 ELSE y \div Mib
  <2>1. y \div Mib \in Int
    BY <1>1, Quotient
  <2>. HIDE DEF y
  <2>2. Budget!Max({0, y \div Mib}) = IF 0 >= y \div Mib THEN 0 ELSE y \div Mib
    BY <2>1, OfTwo
  <2>. QED
    BY <2>2 DEF Budget!Maximum, y
<1>3. m <= y \div Mib <=> m * Mib <= y
  <2>. HIDE DEF y
  <2>1. /\ y \div Mib \in Int /\ (y \div Mib) * Mib <= y /\ y < (y \div Mib) * Mib + Mib
    BY <1>1, Quotient
  <2>2. ASSUME m <= y \div Mib
        PROVE  m * Mib <= (y \div Mib) * Mib
    BY <1>1, <2>1, <2>2
  <2>3. ASSUME ~(m <= y \div Mib)
        PROVE  m * Mib >= (y \div Mib) * Mib + Mib
    <3>1. m >= (y \div Mib) + 1
      BY <2>1, <2>3
    <3>2. m * Mib >= ((y \div Mib) + 1) * Mib
      BY <1>1, <2>1, <3>1
    <3>. QED
      BY <1>1, <2>1, <3>2
  <2>. QED
    BY <1>1, <2>1, <2>2, <2>3
<1>4. m * Mib \in Int
  BY <1>1
<1>5. m <= y \div Mib <=> m <= Budget!Maximum(available, n, gpu)
  <2>1. y \div Mib \in Int
    BY <1>1, Quotient
  <2>. HIDE DEF y
  <2>. QED
    BY <1>2, <2>1
<1>. QED
  BY <1>1, <1>3, <1>4, <1>5

LEMMA AtLeastOne ==
  ASSUME NEW x \in Int
  PROVE  Budget!Max({1, x}) \in Nat \ {0}
<1>1. Budget!Max({1, x}) = IF 1 >= x THEN 1 ELSE x
  BY OfTwo
<1>. QED
  BY <1>1

\* Both limits are whole numbers.
LEMMA Limits ==
  ASSUME Budget!BudgetAssumption, NEW available \in Int, NEW n \in Nat, NEW gpu \in BOOLEAN
  PROVE  /\ Budget!Maximum(available, n, gpu) \in Nat
         /\ Budget!Max({1, Budget!Maximum(available, n, gpu)}) \in Nat \ {0}
         /\ Budget!Max({1, Budget!Default(available, n, gpu)}) \in Nat \ {0}
<1>1. Budget!Overhead(n, gpu) \in Nat /\ Mib \in Nat \ {0}
  BY DEF Budget!Overhead, Budget!BudgetAssumption
<1>. DEFINE room == (available \div 2 - Budget!Overhead(n, gpu)) \div Mib
            share == (available \div 4) \div Mib
            maximum == Budget!Maximum(available, n, gpu)
<1>2. room \in Int /\ share \in Int
  BY <1>1, Quotient
<1>3. maximum \in Nat
  <2>1. Budget!Max({0, room}) \in Nat
    <3>. HIDE DEF room
    <3>1. Budget!Max({0, room}) = IF 0 >= room THEN 0 ELSE room
      BY <1>2, OfTwo
    <3>. QED
      BY <1>2, <3>1
  <2>. QED
    BY <2>1 DEF Budget!Maximum
<1>4. Budget!Max({1, maximum}) \in Nat \ {0}
  <2>. HIDE DEF maximum
  <2>. QED
    BY <1>3, AtLeastOne
<1>5. Budget!Max({1, Budget!Min({maximum, share})}) \in Nat \ {0}
  <2>. HIDE DEF maximum, share
  <2>1. Budget!Min({maximum, share}) \in Int
    BY <1>2, <1>3, OfTwo
  <2>. QED
    BY <2>1, AtLeastOne
<1>. QED
  BY <1>3, <1>4, <1>5 DEF Budget!Default

LEMMA BudgetTypeKept ==
  ASSUME Budget!BudgetAssumption, BudgetTypeOK, Budget!Next
  PROVE  BudgetTypeOK'
<1>. USE DEF BudgetTypeOK
<1>1. CASE Budget!Others
  BY <1>1 DEF Budget!Others
<1>2. CASE Budget!Probe
  <2>1. /\ Budget!Max({1, Budget!Default(Budget!Available, Threads, TRUE)}) \in Nat \ {0}
        /\ Budget!Max({1, Budget!Maximum(Budget!Available, Threads, TRUE)}) \in Nat \ {0}
    BY BudgetNumbers, Limits DEF Budget!BudgetAssumption
  <2>. QED
    BY <1>2, <2>1 DEF Budget!Probe
<1>3. CASE Budget!Start
  BY <1>3 DEF Budget!Start, Budget!BudgetAssumption
<1>4. CASE Budget!FirstChange
  BY <1>4 DEF Budget!FirstChange, Budget!Change, Budget!Refuse, Budget!Nothing
<1>5. CASE Budget!HotSwitch
  BY <1>5 DEF Budget!HotSwitch, Budget!Change, Budget!Refuse, Budget!Nothing
<1>6. CASE Budget!Stop
  BY <1>6 DEF Budget!Stop, Budget!Nothing
<1>7. CASE Budget!Worker
  BY <1>7 DEF Budget!Worker, Budget!Allocate, Budget!Release
<1>. QED
  BY <1>1, <1>2, <1>3, <1>4, <1>5, <1>6, <1>7 DEF Budget!Next

\* A change made when the RAM is as the modes say.
LEMMA ChangeKeepsToHalf ==
  ASSUME Budget!BudgetAssumption, BudgetTypeOK, NEW chosen, Budget!Change(chosen),
         UNCHANGED <<threads, memory>>, Budget!Settled
  PROVE  Budget!KeepsToHalf
<1>. DEFINE gpu == "gpu" \in chosen
            available == Budget!Available + Budget!Owned
            overhead == Budget!Overhead(threads, gpu)
            cost == memory * Mib + overhead
            others == held.cache * CacheCost + held.gpu * GpuCost
<1>1. /\ Budget!Left \in Nat /\ Budget!Rounding \in Nat /\ available \in Int /\ others \in Nat
      /\ overhead \in Nat /\ memory * Mib \in Nat /\ cost \in Nat
  <2>1. gpu \in BOOLEAN /\ threads \in Nat /\ memory * Mib \in Nat
    BY DEF BudgetTypeOK, Budget!BudgetAssumption
  <2>2. overhead \in Nat
    <3>. HIDE DEF gpu
    <3>. QED
      BY <2>1, BudgetNumbers
  <2>3. held.cache * CacheCost \in Nat /\ held.gpu * GpuCost \in Nat
    BY DEF BudgetTypeOK, Budget!BudgetAssumption
  <2>. HIDE DEF overhead, gpu
  <2>. QED
    BY <2>1, <2>2, <2>3, BudgetNumbers
<1>2. /\ "ram" \in modes => available = Budget!Left + Budget!Rounding - others
      /\ "ram" \notin modes => available = Budget!Left - others
  <2>. DEFINE caches == held.cache * CacheCost
              gpus == held.gpu * GpuCost
  <2>0. /\ Budget!Usage = held.ram * Budget!RamPerThread + caches + gpus /\ others = caches + gpus
        /\ caches \in Nat /\ gpus \in Nat
    BY DEF Budget!Usage, BudgetTypeOK, Budget!BudgetAssumption
  <2>1. CASE "ram" \in modes
    <3>1. held.ram = threads /\ Budget!Owned = memory * Mib
      BY <2>1 DEF Budget!Settled, Budget!Owned
    <3>2. threads * Budget!RamPerThread \in Nat
      BY BudgetNumbers DEF BudgetTypeOK
    <3>. HIDE DEF caches, gpus, others
    <3>. QED
      BY <1>1, <2>0, <2>1, <3>1, <3>2, BudgetNumbers DEF Budget!Rounding
  <2>2. CASE "ram" \notin modes
    <3>1. held.ram = 0 /\ Budget!Owned = 0 /\ 0 * Budget!RamPerThread = 0
      BY <2>2, BudgetNumbers DEF Budget!Settled, Budget!Owned
    <3>. HIDE DEF caches, gpus, others
    <3>. QED
      BY <1>1, <2>0, <2>2, <3>1, BudgetNumbers
  <2>. QED
    BY <2>1, <2>2
<1>3. memory <= Budget!Maximum(available, threads, gpu) <=> cost <= available \div 2
  <2>1. gpu \in BOOLEAN /\ threads \in Nat /\ memory \in Nat \ {0}
    BY DEF BudgetTypeOK
  <2>. HIDE DEF gpu, available
  <2>. QED
    BY <1>1, <2>1, MaximumIsExact
<1>4. available <= Budget!Left + Budget!Rounding /\ (others = 0 => available >= Budget!Left)
  <2>. HIDE DEF available, others
  <2>. QED
    BY <1>1, <1>2
<1>5. ASSUME decision'.told = "accepted", "ram" \in modes'
      PROVE  Budget!Fits(modes', Budget!Left + Budget!Rounding)
  <2>1. modes' = chosen /\ memory <= Budget!Maximum(available, threads, gpu)
    BY <1>5 DEF Budget!Change, Budget!Refuse
  <2>2. cost <= available \div 2
    BY <1>3, <2>1
  <2>3. cost <= (Budget!Left + Budget!Rounding) \div 2
    <3>. HIDE DEF cost, available
    <3>. QED
      BY <1>1, <1>4, <2>2
  <2>. QED
    BY <2>1, <2>3 DEF Budget!Fits
<1>6. ASSUME decision'.told = "memory_error", held.cache = 0, held.gpu = 0
      PROVE  ~Budget!Fits(decision'.selected, Budget!Left)
  <2>1. decision'.selected = chosen /\ memory > Budget!Maximum(available, threads, gpu)
    BY <1>6 DEF Budget!Change, Budget!Refuse
  <2>2. ~(cost <= available \div 2)
    <3>1. Budget!Maximum(available, threads, gpu) \in Nat /\ memory \in Nat
      <4>1. gpu \in BOOLEAN /\ threads \in Nat /\ memory \in Nat
        BY DEF BudgetTypeOK
      <4>. HIDE DEF gpu, available
      <4>. QED
        BY <1>1, <4>1, Limits
    <3>2. ~(memory <= Budget!Maximum(available, threads, gpu))
      BY <2>1, <3>1
    <3>. QED
      BY <1>3, <3>2
  <2>3. others = 0
    BY <1>6 DEF Budget!BudgetAssumption
  <2>4. ~(cost <= Budget!Left \div 2)
    <3>. HIDE DEF cost, available, others
    <3>. QED
      BY <1>1, <1>4, <2>2, <2>3
  <2>. QED
    BY <2>1, <2>4 DEF Budget!Fits
<1>. QED
  BY <1>5, <1>6 DEF Budget!KeepsToHalf

\* Every other step decides nothing.
LEMMA BudgetStep ==
  ASSUME Budget!BudgetAssumption, BudgetTypeOK, Budget!Next
  PROVE  Budget!KeepsToHalf
<1>. SUFFICES ASSUME Budget!Settled
             PROVE  Budget!KeepsToHalf
  BY DEF Budget!KeepsToHalf
<1>1. CASE Budget!FirstChange
  BY <1>1, ChangeKeepsToHalf DEF Budget!FirstChange
<1>2. CASE Budget!HotSwitch
  BY <1>2, ChangeKeepsToHalf DEF Budget!HotSwitch
<1>3. CASE decision' = Budget!NoDecision
  BY <1>3 DEF Budget!KeepsToHalf, Budget!NoDecision
<1>. QED
  BY <1>1, <1>2, <1>3 DEF Budget!Next, Budget!Others, Budget!Probe, Budget!Start, Budget!Stop, Budget!Worker

BudgetInv == part = "budget" => BudgetTypeOK

(* A change of modes made when the RAM is as the modes say lets through    *)
(* only what fits half of the memory there is without the session, the     *)
(* rest the blocks are rounded down by counted with it, and refuses only   *)
(* what does not (stress_common.py memory_limits, run_stress.py change).   *)
THEOREM BudgetIsHalfHolds == EvidenceSpec => BudgetIsHalf
<1>1. EvidenceInit => BudgetInv
  BY EvidenceAssumption DEF EvidenceInit, BudgetInv, BudgetTypeOK, Budget!Init, Budget!Nothing, Budget!BudgetAssumption
<1>2. BudgetInv /\ [EvidenceNext]_evidenceVars => BudgetInv'
  <2>. SUFFICES ASSUME BudgetInv, [EvidenceNext]_evidenceVars, part' = "budget"
               PROVE  BudgetTypeOK'
    BY DEF BudgetInv
  <2>1. CASE OfBudget /\ Budget!Next
    BY <2>1, EvidenceAssumption, BudgetTypeKept DEF OfBudget, BudgetInv
  <2>2. CASE UNCHANGED <<part, budgetVars>>
    BY <2>2 DEF budgetVars, BudgetInv, BudgetTypeOK
  <2>. QED
    BY <2>1, <2>2 DEF EvidenceNext, evidenceVars, OfPool, OfPairs, OfMark, OfProbe, OfScore, OfTracker,
       OfWindow, OfLegacy, OfSensing, OfBudget
<1>3. BudgetInv /\ [EvidenceNext]_evidenceVars => [part = "budget" => Budget!KeepsToHalf]_evidenceVars
  <2>. SUFFICES ASSUME BudgetInv, EvidenceNext, part = "budget"
               PROVE  Budget!KeepsToHalf
    OBVIOUS
  <2>1. Budget!Next
    BY DEF EvidenceNext, OfPool, OfPairs, OfMark, OfProbe, OfScore, OfTracker, OfWindow, OfLegacy, OfSensing
  <2>. QED
    BY <2>1, EvidenceAssumption, BudgetStep DEF BudgetInv
<1>. QED
  BY <1>1, <1>2, <1>3, PTL DEF EvidenceSpec, BudgetIsHalf

-----------------------------------------------------------------------------
(* The sensors of a machine.                                               *)

Looked == [Sensors -> {"absent", "cool", "hot"}]
SensingMachines == [sensor : Looked, total : Nat, source : {"open", "denied", "broken"}, thermal : BOOLEAN]
Readings == [at : Nat, sensor : Looked, denied : BOOLEAN]
Texts == [sensor : Looked, denied : BOOLEAN, critical : BOOLEAN]
Lines == [at : Nat, text : Texts]

\* The time since the machine was first seen, and the counter, only go on.
SensingPast ==
  /\ kind \in {"linux", "macos", "windows"}
  /\ past \in Seq(SensingMachines) /\ Len(past) \in Nat \ {0}
  /\ \A t \in 1..Len(past), u \in 1..Len(past) : t <= u => past[t].total <= past[u].total

\* A refused SMC has listed no key.
HelperTypeOK ==
  /\ helper \in [state : {"waits", "up", "sleeps", "dead", "refused"}, opened : {"open", "denied", "none"},
                 keys : SUBSET Sensors, held : Readings \cup {Sensing!None}]
  /\ helper.state = "waits" => kind = "windows"
  /\ helper.opened = "denied" => helper.keys = {}
  /\ pipe \in Seq(Lines)

\* What a helper tells is how the machine was at one time, its thermal state how it
\* was at a later one.
Seen(sensor, t) == \A s \in Sensors : sensor[s] \in {"absent", Sensing!At(t).sensor[s]}
Known(sensor, denied, t) ==
  /\ Seen(sensor, t)
  /\ denied => IF kind = "macos" THEN helper.opened = "denied" /\ \A s \in Sensors : sensor[s] = "absent"
               ELSE Sensing!At(t).source = "denied"
Heated(critical, t) == critical => kind = "linux" /\ \E s \in Sensors : Sensing!At(t).sensor[s] = "hot"
Meant(critical, u) == critical <=> (kind = "macos" /\ Sensing!At(u).thermal)
Told(text, t, u) ==
  t <= u /\ Known(text.sensor, text.denied, t) /\ \E v \in t..u : Meant(text.critical, v)

HeldIsKnown ==
  helper.held # Sensing!None =>
    /\ helper.held.at \in 0..Sensing!now /\ Sensing!now - helper.held.at <= Delay
    /\ Known(helper.held.sensor, helper.held.denied, helper.held.at)
PipeIsKnown ==
  \A i \in 1..Len(pipe) :
    /\ pipe[i].at \in 0..Sensing!now /\ Sensing!now - pipe[i].at <= Delay
    /\ Told(pipe[i].text, pipe[i].at, Sensing!now)
LineIsKnown ==
  line # Sensing!None =>
    /\ line.at \in 0..Sensing!now /\ line.text \in Texts
    /\ \E t \in 0..line.at : line.at - t <= Delay /\ Told(line.text, t, line.at)
FileIsKnown ==
  privileged # Sensing!None =>
    /\ privileged.at \in 0..Sensing!now
    /\ \E t \in 0..privileged.at :
         privileged.at - t <= Delay /\ Seen(privileged.sensor, t) /\ Heated(privileged.critical, t)
    /\ kind = "macos" => \A s \in Sensors : privileged.sensor[s] = "absent"

\* What is remembered of the machine is how it was at one time.
CounterIsKnown ==
  /\ energy # Sensing!None => /\ energy.at \in 0..Sensing!now
                             /\ energy.value = Sensing!At(energy.at).total % Period
  /\ discovered = -1 \/ /\ discovered \in 0..Sensing!now
                        /\ Sensing!Range(definitions) = Sensing!Present(Sensing!At(discovered).sensor)
Remembered == HelperTypeOK /\ HeldIsKnown /\ PipeIsKnown /\ LineIsKnown /\ FileIsKnown /\ CounterIsKnown

SensingInv == SensingPast /\ Remembered /\ Sensing!SampleIsOfNow
-----------------------------------------------------------------------------
\* A sensor's place is the number of sensors before it: each has its own.
LEMMA InOrderIsAll ==
  ASSUME NEW S, S \subseteq Nat, IsFiniteSet(S)
  PROVE  Sensing!Range(Sensing!InOrder(S)) = S
<1>. DEFINE n == Cardinality(S)
            Before(s) == {r \in S : r < s}
            place == [s \in S |-> Cardinality(Before(s))]
<1>1. n \in Nat
  BY FS_CardinalityType
<1>2. \A s \in S : IsFiniteSet(Before(s)) /\ Cardinality(Before(s)) \in 0..(n - 1)
  <2>. SUFFICES ASSUME NEW s \in S
               PROVE  IsFiniteSet(Before(s)) /\ Cardinality(Before(s)) \in 0..(n - 1)
    OBVIOUS
  <2>1. Before(s) \in SUBSET (S \ {s}) /\ s \in Nat
    OBVIOUS
  <2>2. IsFiniteSet(S \ {s}) /\ Cardinality(S \ {s}) = n - 1
    BY FS_RemoveElement
  <2>. QED
    BY <1>1, <2>1, <2>2, FS_Subset, FS_CardinalityType
<1>3. \A s \in S, r \in S : r < s => Cardinality(Before(r)) < Cardinality(Before(s))
  <2>. SUFFICES ASSUME NEW s \in S, NEW r \in S, r < s
               PROVE  Cardinality(Before(r)) < Cardinality(Before(s))
    OBVIOUS
  <2>1. (\A x \in Before(r) : x \in Before(s)) /\ r \in Before(s) /\ r \notin Before(r)
    OBVIOUS
  <2>2. /\ Cardinality(Before(r)) <= Cardinality(Before(s))
        /\ Cardinality(Before(r)) # Cardinality(Before(s))
    <3>. HIDE DEF Before
    <3>1. Before(r) \in SUBSET Before(s) /\ Before(r) # Before(s)
      BY <2>1
    <3>. QED
      BY <1>2, <3>1, FS_Subset
  <2>. QED
    <3>. HIDE DEF Before, n
    <3>. QED
      BY <1>1, <1>2, <2>2
<1>. HIDE DEF Before
<1>4. place \in Injection(S, 0..(n - 1))
  <2>1. \A s \in S, r \in S : place[s] = place[r] => s = r
    BY <1>2, <1>3
  <2>. QED
    BY <1>2, <2>1 DEF Injection, IsInjective
<1>5. IsFiniteSet(0..(n - 1)) /\ Cardinality(0..(n - 1)) = n
  <2>. HIDE DEF n
  <2>. QED
    BY <1>1, FS_Interval
<1>6. place \in Surjection(S, 0..(n - 1))
  BY <1>4, <1>5, FS_Injection
<1>7. \A i \in 1..n : \E s \in S : place[s] = i - 1
  <2>. HIDE DEF n, place
  <2>. QED
    BY <1>1, <1>6 DEF Surjection
<1>8. Sensing!InOrder(S) = [i \in 1..n |-> CHOOSE s \in S : Cardinality(Before(s)) = i - 1]
  BY DEF Sensing!InOrder, Sensing!Cardinality, Cardinality, Before
<1>9. \A i \in 1..n : Sensing!InOrder(S)[i] \in S /\ Cardinality(Before(Sensing!InOrder(S)[i])) = i - 1
  BY <1>7, <1>8
<1>10. \A s \in S : \E i \in 1..n : Sensing!InOrder(S)[i] = s
  <2>. SUFFICES ASSUME NEW s \in S
               PROVE  \E i \in 1..n : Sensing!InOrder(S)[i] = s
    OBVIOUS
  <2>1. place[s] + 1 \in 1..n /\ place[s] = (place[s] + 1) - 1
    BY <1>1, <1>2
  <2>2. place[Sensing!InOrder(S)[place[s] + 1]] = place[s] /\ Sensing!InOrder(S)[place[s] + 1] \in S
    BY <1>9, <2>1
  <2>. QED
    BY <1>4, <2>1, <2>2 DEF Injection, IsInjective
<1>11. DOMAIN Sensing!InOrder(S) = 1..n
  BY <1>8
<1>. QED
  BY <1>9, <1>10, <1>11 DEF Sensing!Range

\* The energy between two readings of the counter.
LEMMA CounterTells ==
  ASSUME NEW X \in Nat, NEW Y \in Nat, Y <= X, NEW P \in Nat \ {0}, X - Y < P,
         NEW delta, delta = (X % P) - (Y % P)
  PROVE  (IF delta >= 0 THEN delta ELSE delta + P - 1) - (X - Y) \in -1..1
<1>. DEFINE a == X \div P
            b == Y \div P
<1>1. /\ a \in Int /\ a * P <= X /\ X < a * P + P /\ X % P = X - a * P
      /\ b \in Int /\ b * P <= Y /\ Y < b * P + P /\ Y % P = Y - b * P
  BY Quotient
<1>. HIDE DEF a, b
<1>2. CASE a = b
  BY <1>1, <1>2
<1>3. CASE a = b + 1
  <2>1. a * P = b * P + P
    BY <1>1, <1>3
  <2>. QED
    BY <1>1, <2>1
<1>4. CASE a >= b + 2
  <2>1. a * P >= (b + 2) * P
    BY <1>1, <1>4
  <2>2. (b + 2) * P = b * P + P + P
    BY <1>1
  <2>. QED
    BY <1>1, <2>1, <2>2
<1>5. CASE a <= b - 1
  <2>1. a * P <= (b - 1) * P
    BY <1>1, <1>5
  <2>2. (b - 1) * P = b * P - P
    BY <1>1
  <2>. QED
    BY <1>1, <2>1, <2>2
<1>. QED
  BY <1>1, <1>2, <1>3, <1>4, <1>5

-----------------------------------------------------------------------------
\* What SensingPast says of every moment.
LEMMA PastFacts ==
  ASSUME SensingPast
  PROVE  /\ Sensing!now \in Nat /\ Sensing!Machine \in SensingMachines
         /\ \A t \in 0..Sensing!now : Sensing!At(t) \in SensingMachines /\ Sensing!At(t).total <= Sensing!Machine.total
BY DEF SensingPast, Sensing!now, Sensing!At, Sensing!Machine

\* A tick leaves what was as it was.
LEMMA PastGrows ==
  ASSUME SensingPast, UNCHANGED kind, NEW m \in SensingMachines, m.total >= Sensing!Machine.total, past' = Append(past, m)
  PROVE  SensingPast' /\ Sensing!now' = Sensing!now + 1 /\ \A t \in 0..Sensing!now : Sensing!At(t)' = Sensing!At(t)
<1>1. past \in Seq(SensingMachines) /\ Len(past) \in Nat \ {0} /\ past[Len(past)].total <= m.total
  BY DEF SensingPast, Sensing!Machine, Sensing!At, Sensing!now
<1>2. /\ past' \in Seq(SensingMachines) /\ Len(past') = Len(past) + 1
      /\ past'[Len(past) + 1] = m /\ \A t \in 1..Len(past) : past'[t] = past[t]
  <2>. HIDE DEF SensingMachines
  <2>. QED
    BY <1>1
<1>3. m.total \in Nat /\ \A t \in 1..Len(past) : past[t].total \in Nat
  <2>1. \A t \in 1..Len(past) : past[t] \in SensingMachines
    BY <1>1
  <2>2. \A k \in SensingMachines : k.total \in Nat
    BY DEF SensingMachines
  <2>. QED
    BY <2>1, <2>2
<1>4. \A t \in 1..Len(past'), u \in 1..Len(past') : t <= u => past'[t].total <= past'[u].total
  <2>. SUFFICES ASSUME NEW t \in 1..Len(past'), NEW u \in 1..Len(past'), t <= u
               PROVE  past'[t].total <= past'[u].total
    OBVIOUS
  <2>1. CASE u \in 1..Len(past)
    BY <1>1, <1>2, <2>1 DEF SensingPast
  <2>2. CASE u = Len(past) + 1 /\ t = Len(past) + 1
    BY <1>2, <1>3, <2>2
  <2>3. CASE u = Len(past) + 1 /\ t \in 1..Len(past)
    <3>1. past[t].total <= past[Len(past)].total /\ past[Len(past)].total \in Nat /\ past[t].total \in Nat
      BY <1>1, <1>3, <2>3 DEF SensingPast
    <3>. QED
      BY <1>1, <1>2, <1>3, <2>3, <3>1
  <2>. QED
    BY <1>1, <1>2, <2>1, <2>2, <2>3
<1>. QED
  BY <1>1, <1>2, <1>4 DEF SensingPast, Sensing!now, Sensing!At

\* A change of the machine takes no energy.
LEMMA MachineChanges ==
  ASSUME NEW k \in SensingMachines, NEW m \in Sensing!Changed(k)
  PROVE  m \in SensingMachines /\ m.total = k.total
<1>1. CASE m \in Sensing!Warmed(k)
  <2>1. PICK s \in Sensors, c \in {"absent", "cool", "hot"} : m = [k EXCEPT !.sensor[s] = c]
    BY <1>1 DEF Sensing!Warmed
  <2>2. [k.sensor EXCEPT ![s] = c] \in Looked
    BY DEF SensingMachines, Looked
  <2>3. m = [k EXCEPT !.sensor = [k.sensor EXCEPT ![s] = c]]
    BY <2>1 DEF SensingMachines
  <2>. QED
    BY <2>2, <2>3 DEF SensingMachines
<1>2. CASE m \in Sensing!Reopened(k)
  <2>1. \/ \E c \in {"open", "denied", "broken"} : m = [k EXCEPT !.source = c]
        \/ \E t \in BOOLEAN : m = [k EXCEPT !.thermal = t]
    BY <1>2 DEF Sensing!Reopened
  <2>. QED
    BY <2>1 DEF SensingMachines
<1>. QED
  BY <1>1, <1>2 DEF Sensing!Changed

\* What is known of a time stays known, when the start of the helper does.
LEMMA SeenStays ==
  ASSUME NEW t, Sensing!At(t)' = Sensing!At(t), NEW sensor, Seen(sensor, t)
  PROVE  Seen(sensor, t)'
BY DEF Seen

LEMMA HeatedStays ==
  ASSUME UNCHANGED kind, NEW t, Sensing!At(t)' = Sensing!At(t), NEW critical, Heated(critical, t)
  PROVE  Heated(critical, t)'
BY DEF Heated

LEMMA KnownStays ==
  ASSUME UNCHANGED kind, helper'.opened = helper.opened, NEW t, Sensing!At(t)' = Sensing!At(t),
         NEW sensor, NEW denied, NEW critical
  PROVE  /\ Known(sensor, denied, t) => Known(sensor, denied, t)'
         /\ Meant(critical, t) => Meant(critical, t)'
<1>1. Known(sensor, denied, t) => Known(sensor, denied, t)'
  BY SeenStays DEF Known
<1>2. Meant(critical, t) => Meant(critical, t)'
  BY DEF Meant
<1>. QED
  BY <1>1, <1>2

LEMMA ToldStays ==
  ASSUME UNCHANGED kind, helper'.opened = helper.opened, NEW n \in Nat,
         \A v \in 0..n : Sensing!At(v)' = Sensing!At(v),
         NEW text, NEW t \in 0..n, NEW u \in 0..n, Told(text, t, u)
  PROVE  Told(text, t, u)'
<1>1. t <= u /\ Known(text.sensor, text.denied, t) /\ \E v \in t..u : Meant(text.critical, v)
  BY DEF Told
<1>2. PICK v \in t..u : Meant(text.critical, v)
  BY <1>1
<1>3. Known(text.sensor, text.denied, t)' /\ v \in 0..n
  BY <1>1, KnownStays
<1>4. Meant(text.critical, v)'
  BY <1>2, <1>3, KnownStays
<1>. QED
  BY <1>1, <1>3, <1>4 DEF Told

\* The reader's line, the file and the counter, when a step leaves them alone.
LEMMA OthersStay ==
  ASSUME SensingPast, Sensing!now' >= Sensing!now, Sensing!now' \in Nat,
         \A v \in 0..Sensing!now : Sensing!At(v)' = Sensing!At(v),
         UNCHANGED kind, helper'.opened = helper.opened
  PROVE  /\ LineIsKnown /\ UNCHANGED line => LineIsKnown'
         /\ FileIsKnown /\ UNCHANGED privileged => FileIsKnown'
         /\ CounterIsKnown /\ UNCHANGED <<energy, definitions, discovered>> => CounterIsKnown'
<1>. PICK n : n = Sensing!now
  OBVIOUS
<1>. PICK m : m = Sensing!now'
  OBVIOUS
<1>1. n \in Nat /\ m \in Nat /\ n <= m /\ \A v \in 0..n : Sensing!At(v)' = Sensing!At(v)
  BY PastFacts
<1>. HIDE DEF Sensing!now, Sensing!At
<1>2. ASSUME LineIsKnown, UNCHANGED line, line # Sensing!None
      PROVE  LineIsKnown'
  <2>. PICK l : l = line
    OBVIOUS
  <2>1. PICK t \in 0..l.at : l.at - t <= Delay /\ Told(l.text, t, l.at)
    BY <1>2 DEF LineIsKnown
  <2>2. l.at \in 0..n /\ l.text \in Texts /\ t \in 0..n
    BY <1>1, <1>2, <2>1 DEF LineIsKnown
  <2>3. Told(l.text, t, l.at)'
    BY <1>1, <2>1, <2>2, ToldStays
  <2>. QED
    BY <1>1, <1>2, <2>1, <2>2, <2>3 DEF LineIsKnown
<1>3. ASSUME FileIsKnown, UNCHANGED privileged, privileged # Sensing!None
      PROVE  FileIsKnown'
  <2>. PICK f : f = privileged
    OBVIOUS
  <2>1. PICK t \in 0..f.at : f.at - t <= Delay /\ Seen(f.sensor, t) /\ Heated(f.critical, t)
    BY <1>3 DEF FileIsKnown
  <2>2. f.at \in 0..n /\ t \in 0..n /\ (kind = "macos" => \A s \in Sensors : f.sensor[s] = "absent")
    BY <1>1, <1>3, <2>1 DEF FileIsKnown
  <2>3. Sensing!At(t)' = Sensing!At(t)
    BY <1>1, <2>2
  <2>4. Seen(f.sensor, t)' /\ Heated(f.critical, t)'
    BY <2>1, <2>3, SeenStays, HeatedStays
  <2>5. f.at \in 0..m
    BY <1>1, <2>2
  <2>. QED
    BY <1>3, <2>1, <2>2, <2>4, <2>5 DEF FileIsKnown
<1>4. CounterIsKnown /\ UNCHANGED <<energy, definitions, discovered>> => CounterIsKnown'
  <2>. SUFFICES ASSUME CounterIsKnown, UNCHANGED <<energy, definitions, discovered>>
               PROVE  CounterIsKnown'
    OBVIOUS
  <2>1. energy # Sensing!None => /\ energy.at \in 0..n /\ Sensing!At(energy.at)' = Sensing!At(energy.at)
    BY <1>1 DEF CounterIsKnown
  <2>2. discovered # -1 => /\ discovered \in 0..n /\ Sensing!At(discovered)' = Sensing!At(discovered)
    BY <1>1 DEF CounterIsKnown
  <2>. QED
    BY <1>1, <2>1, <2>2 DEF CounterIsKnown
<1>. QED
  BY <1>2, <1>3, <1>4 DEF LineIsKnown, FileIsKnown

LEMMA SensingTick ==
  ASSUME Sensing!SensingAssumption, SensingInv, Sensing!Tick
  PROVE  SensingInv'
<1>1. SensingPast /\ Remembered /\ Sensing!Machine \in SensingMachines /\ Sensing!now \in Nat
  BY PastFacts DEF SensingInv
<1>2. PICK burn \in Nat, m \in Sensing!Changed(Sensing!Machine) : past' = Append(past, [m EXCEPT !.total = @ + burn])
  BY DEF Sensing!Tick, Sensing!SensingAssumption
<1>3. m \in SensingMachines /\ m.total = Sensing!Machine.total
  BY <1>1, <1>2, MachineChanges
<1>4. [m EXCEPT !.total = @ + burn] \in SensingMachines /\ [m EXCEPT !.total = @ + burn].total >= Sensing!Machine.total
  <2>1. m.total \in Nat /\ m.total + burn \in Nat /\ m.total + burn >= m.total
    <3>1. m.total \in Nat
      BY <1>3 DEF SensingMachines
    <3>. QED
      BY <3>1
  <2>2. [m EXCEPT !.total = m.total + burn] \in SensingMachines /\ [m EXCEPT !.total = m.total + burn].total = m.total + burn
    BY <1>3, <2>1 DEF SensingMachines
  <2>. QED
    BY <1>3, <2>1, <2>2
<1>5. SensingPast' /\ Sensing!now' = Sensing!now + 1 /\ \A t \in 0..Sensing!now : Sensing!At(t)' = Sensing!At(t)
  BY <1>1, <1>2, <1>4, PastGrows DEF Sensing!Tick
<1>6. /\ UNCHANGED <<kind, pipe, privileged, line, energy, definitions, discovered>> /\ shown' = Sensing!None
      /\ helper' = [helper EXCEPT !.state = IF @ = "sleeps" THEN "up" ELSE @]
  BY DEF Sensing!Tick
<1>7. Remembered'
  <2>1. HelperTypeOK' /\ helper'.held = helper.held /\ helper'.opened = helper.opened
    BY <1>1, <1>6 DEF Remembered, HelperTypeOK
  <2>. PICK n : n = Sensing!now
    OBVIOUS
  <2>. HIDE DEF Sensing!At, Sensing!now
  <2>2. HeldIsKnown'
    <3>. SUFFICES ASSUME helper.held # Sensing!None
                 PROVE  HeldIsKnown'
      BY <2>1 DEF HeldIsKnown
    <3>. PICK h : h = helper.held
      OBVIOUS
    <3>1. h.at \in 0..n /\ Known(h.sensor, h.denied, h.at) /\ n - h.at < Delay /\ Delay \in Nat
      BY <1>1 DEF Remembered, HeldIsKnown, Sensing!Tick, Sensing!Prompt, Sensing!SensingAssumption
    <3>2. Known(h.sensor, h.denied, h.at)'
      BY <1>5, <1>6, <2>1, <3>1, KnownStays
    <3>. QED
      BY <1>1, <1>5, <2>1, <3>1, <3>2 DEF HeldIsKnown
  <2>3. PipeIsKnown'
    <3>. PICK p : p = pipe
      OBVIOUS
    <3>. PICK k : k = n + 1
      OBVIOUS
    <3>1. /\ n \in Nat /\ k \in Nat /\ n <= k /\ Sensing!now' = k /\ p = pipe'
          /\ \A v \in 0..n : Sensing!At(v)' = Sensing!At(v)
      BY <1>1, <1>5, <1>6
    <3>2. ASSUME NEW i \in 1..Len(p)
          PROVE  p[i].at \in 0..k /\ k - p[i].at <= Delay /\ Told(p[i].text, p[i].at, k)'
      <4>. PICK e : e = p[i]
        OBVIOUS
      <4>1. e.at \in 0..n /\ Told(e.text, e.at, n) /\ n - e.at < Delay /\ Delay \in Nat
        BY <1>1, <3>2 DEF Remembered, PipeIsKnown, Sensing!Tick, Sensing!Prompt, Sensing!SensingAssumption
      <4>2. Told(e.text, e.at, n)'
        <5>1. n \in 0..n
          BY <3>1
        <5>. QED
          BY <1>6, <2>1, <3>1, <4>1, <5>1, ToldStays
      <4>3. Told(e.text, e.at, k)'
        BY <3>1, <4>1, <4>2 DEF Told
      <4>. QED
        BY <3>1, <4>1, <4>3
    <3>. QED
      BY <3>1, <3>2 DEF PipeIsKnown
  <2>4. LineIsKnown' /\ FileIsKnown' /\ CounterIsKnown'
    BY <1>1, <1>5, <1>6, <2>1, OthersStay DEF Remembered
  <2>. QED
    BY <2>1, <2>2, <2>3, <2>4 DEF Remembered
<1>8. Sensing!SampleIsOfNow'
  BY <1>6 DEF Sensing!SampleIsOfNow
<1>. QED
  BY <1>5, <1>7, <1>8 DEF SensingInv

\* A step that leaves the machine alone.
LEMMA PastStays ==
  ASSUME SensingPast, UNCHANGED <<kind, past>>
  PROVE  SensingPast' /\ UNCHANGED Sensing!now /\ UNCHANGED Sensing!Machine /\ \A t : Sensing!At(t)' = Sensing!At(t)
BY DEF SensingPast, Sensing!now, Sensing!At, Sensing!Machine

LEMMA RememberedStays ==
  ASSUME SensingPast, UNCHANGED <<kind, past>>, helper'.opened = helper.opened
  PROVE  /\ HeldIsKnown /\ helper'.held = helper.held => HeldIsKnown'
         /\ PipeIsKnown /\ UNCHANGED pipe => PipeIsKnown'
         /\ LineIsKnown /\ UNCHANGED line => LineIsKnown'
         /\ FileIsKnown /\ UNCHANGED privileged => FileIsKnown'
         /\ CounterIsKnown /\ UNCHANGED <<energy, definitions, discovered>> => CounterIsKnown'
<1>. PICK n : n = Sensing!now
  OBVIOUS
<1>1. /\ n \in Nat /\ n \in 0..n /\ Sensing!now' = n /\ \A t \in 0..n : Sensing!At(t)' = Sensing!At(t)
  BY PastStays, PastFacts
<1>. HIDE DEF Sensing!now, Sensing!At
<1>2. HeldIsKnown /\ helper'.held = helper.held => HeldIsKnown'
  <2>. SUFFICES ASSUME HeldIsKnown, helper'.held = helper.held, helper.held # Sensing!None
               PROVE  HeldIsKnown'
    BY DEF HeldIsKnown
  <2>. PICK h : h = helper.held
    OBVIOUS
  <2>1. h.at \in 0..n /\ n - h.at <= Delay /\ Known(h.sensor, h.denied, h.at)
    BY DEF HeldIsKnown
  <2>2. Known(h.sensor, h.denied, h.at)'
    BY <1>1, <2>1, KnownStays
  <2>. QED
    BY <1>1, <2>1, <2>2 DEF HeldIsKnown
<1>3. PipeIsKnown /\ UNCHANGED pipe => PipeIsKnown'
  <2>. SUFFICES ASSUME PipeIsKnown, UNCHANGED pipe
               PROVE  PipeIsKnown'
    OBVIOUS
  <2>. PICK p : p = pipe
    OBVIOUS
  <2>1. ASSUME NEW i \in 1..Len(p)
        PROVE  p[i].at \in 0..n /\ n - p[i].at <= Delay /\ Told(p[i].text, p[i].at, n)'
    <3>. PICK e : e = p[i]
      OBVIOUS
    <3>1. e.at \in 0..n /\ n - e.at <= Delay /\ Told(e.text, e.at, n)
      BY <2>1 DEF PipeIsKnown
    <3>2. Told(e.text, e.at, n)'
      BY <1>1, <3>1, ToldStays
    <3>. QED
      BY <3>1, <3>2
  <2>. QED
    BY <1>1, <2>1 DEF PipeIsKnown
<1>. QED
  BY <1>1, <1>2, <1>3, OthersStay

\* What a step of the helper, or of what it is to, leaves alone.
LEMMA HelpingStep ==
  ASSUME SensingInv, Sensing!HelperStep \/ Sensing!FilePublished
  PROVE  /\ SensingPast' /\ Sensing!SampleIsOfNow' /\ UNCHANGED <<kind, past>> /\ helper'.opened = helper.opened
         /\ Sensing!now \in Nat /\ UNCHANGED Sensing!now
         /\ \A t \in 0..Sensing!now : Sensing!At(t)' = Sensing!At(t)
         /\ CounterIsKnown' /\ (UNCHANGED line => LineIsKnown') /\ (UNCHANGED privileged => FileIsKnown')
         /\ (UNCHANGED pipe => PipeIsKnown') /\ (helper'.held = helper.held => HeldIsKnown')
<1>1. /\ UNCHANGED <<kind, past, energy, definitions, discovered>> /\ shown' = Sensing!None
      /\ helper'.opened = helper.opened
  BY DEF Sensing!HelperStep, Sensing!HelperReads, Sensing!HelperPrints, Sensing!LineArrives, Sensing!HelperDies,
         Sensing!FilePublished, Sensing!Helping, SensingInv, Remembered, HelperTypeOK, Sensing!machineVars
<1>2. SensingPast' /\ UNCHANGED Sensing!now /\ \A t : Sensing!At(t)' = Sensing!At(t)
  BY <1>1, PastStays DEF SensingInv
<1>. HIDE DEF Sensing!now, Sensing!At
<1>3. Sensing!now \in Nat
  BY PastFacts DEF SensingInv
<1>4. /\ CounterIsKnown' /\ (UNCHANGED line => LineIsKnown') /\ (UNCHANGED privileged => FileIsKnown')
      /\ (UNCHANGED pipe => PipeIsKnown') /\ (helper'.held = helper.held => HeldIsKnown')
  BY <1>1, RememberedStays DEF SensingInv, Remembered
<1>5. Sensing!SampleIsOfNow'
  BY <1>1 DEF Sensing!SampleIsOfNow
<1>. QED
  BY <1>1, <1>2, <1>3, <1>4, <1>5

\* A look sees what is there, or nothing.
LEMMA LooksSee ==
  ASSUME SensingPast, HelperTypeOK, NEW sensor \in Sensing!Looks
  PROVE  /\ sensor \in Looked /\ Seen(sensor, Sensing!now)
         /\ kind = "macos" /\ helper.opened = "denied" => \A s \in Sensors : sensor[s] = "absent"
<1>1. Sensing!Machine.sensor \in Looked /\ Sensing!Machine = Sensing!At(Sensing!now)
  BY PastFacts DEF Sensing!Machine, SensingMachines
<1>2. CASE kind = "macos"
  <2>1. PICK keys \in SUBSET helper.keys :
          sensor = [s \in Sensors |-> IF s \in keys THEN Sensing!Machine.sensor[s] ELSE "absent"]
    BY <1>2 DEF Sensing!Looks
  <2>2. \A s \in Sensors : sensor[s] \in {"absent", Sensing!Machine.sensor[s]} /\ (s \notin keys => sensor[s] = "absent")
    BY <2>1
  <2>3. sensor \in Looked
    BY <1>1, <2>1 DEF Looked
  <2>. QED
    BY <1>1, <2>2, <2>3 DEF Seen, HelperTypeOK
<1>3. CASE kind # "macos"
  <2>1. sensor = Sensing!Machine.sensor \/ sensor = [s \in Sensors |-> "absent"]
    BY <1>3 DEF Sensing!Looks, Sensing!Nothing
  <2>. QED
    BY <1>1, <1>3, <2>1 DEF Seen, Looked
<1>. QED
  BY <1>2, <1>3

LEMMA SensingReads ==
  ASSUME Sensing!SensingAssumption, SensingInv, Sensing!HelperReads
  PROVE  SensingInv'
<1>. PICK n : n = Sensing!now
  OBVIOUS
<1>1. SensingPast /\ Remembered /\ Sensing!Machine = Sensing!At(n) /\ Sensing!HelperStep /\ Delay \in Nat
  BY DEF SensingInv, Sensing!Machine, Sensing!HelperStep, Sensing!SensingAssumption
<1>2. PICK sensor \in Sensing!Looks :
        helper' = [helper EXCEPT !.held =
          [at |-> n, sensor |-> sensor,
           denied |-> IF kind = "macos" THEN helper.opened = "denied" ELSE Sensing!Machine.source = "denied"]]
  BY DEF Sensing!HelperReads
<1>3. UNCHANGED <<pipe, line, privileged>>
  BY DEF Sensing!HelperReads, Sensing!Helping
<1>. HIDE DEF Sensing!now, Sensing!At, Sensing!Machine
<1>4. n \in Nat /\ Sensing!now' = n /\ UNCHANGED kind /\ helper'.opened = helper.opened /\ Sensing!At(n)' = Sensing!At(n)
  BY <1>1, HelpingStep
<1>. PICK denied \in BOOLEAN : denied <=> IF kind = "macos" THEN helper.opened = "denied" ELSE Sensing!Machine.source = "denied"
  OBVIOUS
<1>5. /\ helper' = [helper EXCEPT !.held = [at |-> n, sensor |-> sensor, denied |-> denied]]
      /\ [at |-> n, sensor |-> sensor, denied |-> denied] \in Readings
  BY <1>1, <1>2, <1>4, LooksSee DEF Remembered, Readings
<1>6. HelperTypeOK' /\ helper'.held = [at |-> n, sensor |-> sensor, denied |-> denied]
  BY <1>1, <1>3, <1>4, <1>5 DEF Remembered, HelperTypeOK
<1>7. Known(sensor, denied, n)
  BY <1>1, LooksSee DEF Known, Remembered
<1>8. Known(sensor, denied, n)'
  BY <1>4, <1>7, KnownStays
<1>9. HeldIsKnown'
  BY <1>1, <1>4, <1>6, <1>8 DEF HeldIsKnown
<1>. QED
  BY <1>1, <1>3, <1>6, <1>9, HelpingStep DEF SensingInv, Remembered

\* A line has what was read, and the thermal state of the moment it is printed.
LEMMA SensingPrints ==
  ASSUME SensingInv, Sensing!HelperPrints
  PROVE  SensingInv'
<1>. PICK n : n = Sensing!now
  OBVIOUS
<1>. PICK h : h = helper.held
  OBVIOUS
<1>. PICK p : p = pipe
  OBVIOUS
<1>1. SensingPast /\ Remembered /\ Sensing!Machine = Sensing!At(n) /\ Sensing!HelperStep
  BY DEF SensingInv, Sensing!Machine, Sensing!HelperStep
<1>. PICK critical \in BOOLEAN : critical <=> (kind = "macos" /\ Sensing!Machine.thermal)
  OBVIOUS
<1>. DEFINE text == [sensor |-> h.sensor, denied |-> h.denied, critical |-> critical]
            new == [at |-> h.at, text |-> text]
<1>2. /\ h # Sensing!None /\ helper' = [helper EXCEPT !.held = Sensing!None, !.state = "sleeps"]
      /\ pipe' = Append(p, new) /\ UNCHANGED <<line, privileged>>
  BY DEF Sensing!HelperPrints, Sensing!Helping
<1>. HIDE DEF Sensing!now, Sensing!At, Sensing!Machine
<1>3. /\ n \in Nat /\ Sensing!now' = n /\ UNCHANGED kind /\ helper'.opened = helper.opened
      /\ \A t \in 0..n : Sensing!At(t)' = Sensing!At(t)
  BY <1>1, HelpingStep
<1>4. h \in Readings /\ p \in Seq(Lines)
  BY <1>1, <1>2 DEF Remembered, HelperTypeOK
<1>5. text \in Texts /\ new \in Lines /\ new.at = h.at /\ new.text = text
      /\ text.sensor = h.sensor /\ text.denied = h.denied /\ text.critical = critical
  BY <1>4 DEF Readings, Texts, Lines
<1>. HIDE DEF text, new
<1>6. /\ pipe' \in Seq(Lines) /\ Len(pipe') = Len(p) + 1 /\ Len(p) \in Nat
      /\ pipe'[Len(p) + 1] = new /\ \A i \in 1..Len(p) : pipe'[i] = p[i]
  BY <1>2, <1>4, <1>5
<1>7. HelperTypeOK' /\ helper'.held = Sensing!None
  BY <1>1, <1>2, <1>3, <1>6 DEF Remembered, HelperTypeOK
<1>8. h.at \in 0..n /\ n - h.at <= Delay /\ Known(h.sensor, h.denied, h.at) /\ Meant(critical, n)
  BY <1>1, <1>2 DEF Remembered, HeldIsKnown, Meant
<1>9. Told(text, h.at, n)'
  <2>1. Known(h.sensor, h.denied, h.at)' /\ Meant(critical, n)'
    BY <1>3, <1>8, KnownStays
  <2>2. n \in h.at..n /\ h.at <= n
    BY <1>3, <1>8
  <2>. QED
    BY <1>5, <2>1, <2>2 DEF Told
<1>10. ASSUME NEW i \in 1..Len(p)
       PROVE  p[i].at \in 0..n /\ n - p[i].at <= Delay /\ Told(p[i].text, p[i].at, n)'
  <2>. PICK e : e = p[i]
    OBVIOUS
  <2>1. e.at \in 0..n /\ n - e.at <= Delay /\ Told(e.text, e.at, n)
    BY <1>1, <1>10 DEF Remembered, PipeIsKnown
  <2>2. Told(e.text, e.at, n)'
    <3>1. n \in 0..n
      BY <1>3
    <3>. QED
      BY <1>3, <2>1, <3>1, ToldStays
  <2>. QED
    BY <2>1, <2>2
<1>11. PipeIsKnown'
  <2>. PICK q : q = pipe'
    OBVIOUS
  <2>1. ASSUME NEW i \in 1..Len(q)
        PROVE  q[i].at \in 0..n /\ n - q[i].at <= Delay /\ Told(q[i].text, q[i].at, n)'
    <3>1. CASE i \in 1..Len(p)
      BY <1>6, <1>10, <3>1
    <3>2. CASE i = Len(p) + 1
      BY <1>5, <1>6, <1>8, <1>9, <3>2
    <3>. QED
      BY <1>6, <2>1, <3>1, <3>2
  <2>. QED
    BY <1>3, <2>1 DEF PipeIsKnown
<1>12. HeldIsKnown'
  BY <1>7 DEF HeldIsKnown
<1>. QED
  BY <1>1, <1>2, <1>7, <1>11, <1>12, HelpingStep DEF SensingInv, Remembered

LEMMA SensingArrives ==
  ASSUME SensingInv, Sensing!LineArrives
  PROVE  SensingInv'
<1>. PICK n : n = Sensing!now
  OBVIOUS
<1>. PICK p : p = pipe
  OBVIOUS
<1>. PICK e : e = Head(p)
  OBVIOUS
<1>1. SensingPast /\ Remembered /\ Sensing!HelperStep
  BY DEF SensingInv, Sensing!HelperStep
<1>2. /\ p # <<>> /\ pipe' = Tail(p) /\ line' = [at |-> n, text |-> e.text] /\ UNCHANGED <<helper, privileged>>
  BY DEF Sensing!LineArrives, Sensing!Helping
<1>. HIDE DEF Sensing!now, Sensing!At
<1>3. /\ n \in Nat /\ n \in 0..n /\ Sensing!now' = n /\ UNCHANGED kind /\ helper'.opened = helper.opened
      /\ \A t \in 0..n : Sensing!At(t)' = Sensing!At(t)
  BY <1>1, HelpingStep
<1>4. p \in Seq(Lines)
  BY <1>1 DEF Remembered, HelperTypeOK
<1>5. /\ Tail(p) \in Seq(Lines) /\ Len(Tail(p)) = Len(p) - 1 /\ Len(p) \in Nat \ {0}
      /\ \A i \in 1..(Len(p) - 1) : Tail(p)[i] = p[i + 1]
      /\ e = p[1] /\ e \in Lines
  BY <1>2, <1>4
<1>6. HelperTypeOK'
  BY <1>1, <1>2, <1>3, <1>5 DEF Remembered, HelperTypeOK
<1>7. ASSUME NEW i \in 1..Len(p)
      PROVE  p[i].at \in 0..n /\ n - p[i].at <= Delay /\ Told(p[i].text, p[i].at, n)'
  <2>. PICK x : x = p[i]
    OBVIOUS
  <2>1. x.at \in 0..n /\ n - x.at <= Delay /\ Told(x.text, x.at, n)
    BY <1>1, <1>7 DEF Remembered, PipeIsKnown
  <2>2. Told(x.text, x.at, n)'
    BY <1>3, <2>1, ToldStays
  <2>. QED
    BY <2>1, <2>2
<1>8. PipeIsKnown'
  <2>. PICK q : q = pipe'
    OBVIOUS
  <2>1. ASSUME NEW i \in 1..Len(q)
        PROVE  q[i].at \in 0..n /\ n - q[i].at <= Delay /\ Told(q[i].text, q[i].at, n)'
    <3>1. i \in 1..(Len(p) - 1) /\ i + 1 \in 1..Len(p)
      BY <1>2, <1>5, <2>1
    <3>2. q[i] = p[i + 1]
      BY <1>2, <1>5, <3>1
    <3>. QED
      BY <1>7, <3>1, <3>2
  <2>. QED
    BY <1>3, <2>1 DEF PipeIsKnown
<1>9. LineIsKnown'
  <2>1. e.at \in 0..n /\ n - e.at <= Delay /\ Told(e.text, e.at, n)' /\ e.text \in Texts
    <3>1. 1 \in 1..Len(p)
      BY <1>5
    <3>. QED
      BY <1>5, <1>7, <3>1 DEF Lines
  <2>2. line'.at = n /\ line'.text = e.text
    BY <1>2
  <2>. QED
    BY <1>3, <2>1, <2>2 DEF LineIsKnown
<1>. QED
  BY <1>1, <1>2, <1>6, <1>8, <1>9, HelpingStep DEF SensingInv, Remembered

LEMMA SensingDies ==
  ASSUME SensingInv, Sensing!HelperDies
  PROVE  SensingInv'
<1>1. /\ Remembered /\ UNCHANGED <<pipe, line, privileged>>
      /\ helper' = [helper EXCEPT !.state = "dead", !.held = Sensing!None]
  BY DEF SensingInv, Sensing!HelperDies, Sensing!Helping
<1>2. UNCHANGED kind
  BY HelpingStep DEF Sensing!HelperStep
<1>3. HelperTypeOK' /\ helper'.held = Sensing!None
  BY <1>1, <1>2 DEF Remembered, HelperTypeOK
<1>4. HeldIsKnown'
  BY <1>3 DEF HeldIsKnown
<1>. QED
  BY <1>1, <1>3, <1>4, HelpingStep DEF SensingInv, Remembered, Sensing!HelperStep

\* The file has what the elevated helper has read, or nothing.
LEMMA SensingPublishes ==
  ASSUME Sensing!SensingAssumption, SensingInv, Sensing!FilePublished
  PROVE  SensingInv'
<1>. PICK n : n = Sensing!now
  OBVIOUS
<1>1. SensingPast /\ Remembered /\ n \in Nat /\ Delay \in Nat /\ UNCHANGED <<helper, pipe, line>>
  BY PastFacts DEF SensingInv, Sensing!SensingAssumption, Sensing!FilePublished
<1>2. \E t, sensor, critical :
        /\ t \in 0..n /\ n - t <= Delay /\ privileged' = [at |-> n, sensor |-> sensor, critical |-> critical]
        /\ Seen(sensor, t) /\ Heated(critical, t) /\ (kind = "macos" => \A s \in Sensors : sensor[s] = "absent")
  <2>1. CASE privileged' = [at |-> n, sensor |-> Sensing!Nothing, critical |-> FALSE]
    <3>1. Seen(Sensing!Nothing, n) /\ Heated(FALSE, n) /\ \A s \in Sensors : Sensing!Nothing[s] = "absent"
      BY DEF Seen, Heated, Sensing!Nothing
    <3>2. n \in 0..n /\ n - n <= Delay
      BY <1>1
    <3>. QED
      BY <2>1, <3>1, <3>2
  <2>2. ASSUME NEW t \in 0..n, n - t <= Delay,
               privileged' = [at |-> n, sensor |-> Sensing!Elevated(t),
                              critical |-> kind = "linux" /\ Sensing!Hot(Sensing!At(t).sensor) # {}]
        PROVE  \E u, sensor, critical :
                 /\ u \in 0..n /\ n - u <= Delay /\ privileged' = [at |-> n, sensor |-> sensor, critical |-> critical]
                 /\ Seen(sensor, u) /\ Heated(critical, u) /\ (kind = "macos" => \A s \in Sensors : sensor[s] = "absent")
    <3>1. Seen(Sensing!Elevated(t), t) /\ (kind = "macos" => \A s \in Sensors : Sensing!Elevated(t)[s] = "absent")
      BY DEF Sensing!Elevated, Sensing!Nothing, Seen
    <3>2. Heated(kind = "linux" /\ Sensing!Hot(Sensing!At(t).sensor) # {}, t)
      BY DEF Heated, Sensing!Hot
    <3>. QED
      BY <2>2, <3>1, <3>2
  <2>. QED
    BY <2>1, <2>2 DEF Sensing!FilePublished
<1>3. PICK t, sensor, critical :
        /\ t \in 0..n /\ n - t <= Delay /\ privileged' = [at |-> n, sensor |-> sensor, critical |-> critical]
        /\ Seen(sensor, t) /\ Heated(critical, t) /\ (kind = "macos" => \A s \in Sensors : sensor[s] = "absent")
  BY <1>2
<1>. HIDE DEF Sensing!now, Sensing!At
<1>4. Sensing!now' = n /\ UNCHANGED kind /\ Sensing!At(t)' = Sensing!At(t) /\ helper'.held = helper.held
  BY <1>1, <1>3, HelpingStep
<1>5. Seen(sensor, t)' /\ Heated(critical, t)'
  BY <1>3, <1>4, SeenStays, HeatedStays
<1>6. privileged'.at = n /\ privileged'.sensor = sensor /\ privileged'.critical = critical /\ n \in 0..n
  BY <1>1, <1>3
<1>7. FileIsKnown'
  BY <1>3, <1>4, <1>5, <1>6 DEF FileIsKnown
<1>8. HelperTypeOK'
  BY <1>1, <1>4 DEF Remembered, HelperTypeOK
<1>. QED
  BY <1>1, <1>4, <1>7, <1>8, HelpingStep DEF SensingInv, Remembered

-----------------------------------------------------------------------------
\* The sensors a Linux sample reads were all there at the last look.
LEMMA FoundAtLook ==
  ASSUME Sensing!SensingAssumption, SensingPast, Remembered,
         NEW d, d = IF discovered = -1 \/ Sensing!now - discovered >= Rediscover THEN Sensing!now ELSE discovered
  PROVE  /\ d \in 0..Sensing!now /\ Sensing!now - d < Rediscover
         /\ Sensing!Range(Sensing!DefinitionsNow) = Sensing!Present(Sensing!At(d).sensor)
<1>1. Sensing!now \in Nat /\ Rediscover \in Nat \ {0}
  BY PastFacts DEF Sensing!SensingAssumption
<1>2. CASE discovered = -1 \/ Sensing!now - discovered >= Rediscover
  <2>1. Sensing!Present(Sensing!Machine.sensor) \subseteq Nat /\ IsFiniteSet(Sensing!Present(Sensing!Machine.sensor))
    <3>1. Sensing!Present(Sensing!Machine.sensor) \in SUBSET Sensors /\ Sensors \subseteq Nat /\ IsFiniteSet(Sensors)
      BY DEF Sensing!Present, Sensing!SensingAssumption, Sensing!IsFiniteSet, IsFiniteSet
    <3>. QED
      BY <3>1, FS_Subset
  <2>2. Sensing!DefinitionsNow = Sensing!InOrder(Sensing!Present(Sensing!Machine.sensor)) /\ d = Sensing!now
    BY <1>2 DEF Sensing!DefinitionsNow
  <2>. QED
    BY <1>1, <2>1, <2>2, InOrderIsAll DEF Sensing!Machine
<1>3. CASE ~(discovered = -1 \/ Sensing!now - discovered >= Rediscover)
  BY <1>1, <1>3 DEF Remembered, CounterIsKnown, Sensing!DefinitionsNow
<1>. QED
  BY <1>2, <1>3

\* The power is that of the time since the last reading.
LEMMA PowerTells ==
  ASSUME Sensing!SensingAssumption, SensingPast, Remembered, NEW power, power = Sensing!PowerNow, power # Sensing!None
  PROVE  \/ Sensing!Machine.total - Sensing!At(Sensing!now - power.span).total >= Period
         \/ (power.energy - (Sensing!Machine.total - Sensing!At(Sensing!now - power.span).total)) \in -1..1
<1>. DEFINE X == Sensing!Machine.total
            Y == Sensing!At(energy.at).total
            delta == (X % Period) - (Y % Period)
            wrapped == IF delta >= 0 THEN delta ELSE delta + Period - 1
<1>1. energy # Sensing!None
  BY DEF Sensing!PowerNow
<1>2. energy.at \in 0..Sensing!now /\ energy.value = Y % Period /\ Sensing!now \in Nat
  BY <1>1, PastFacts DEF Remembered, CounterIsKnown
<1>3. Sensing!counted - energy.value = delta
  BY <1>2 DEF Sensing!counted
<1>4. power = [at |-> Sensing!now, energy |-> wrapped, span |-> Sensing!now - energy.at]
  BY <1>3 DEF Sensing!PowerNow
<1>5. X \in Nat /\ Y \in Nat /\ Y <= X /\ Period \in Nat \ {0}
  BY <1>2, PastFacts DEF SensingMachines, Sensing!SensingAssumption
<1>6. power.energy = wrapped /\ Sensing!now - power.span = energy.at
  BY <1>2, <1>4
<1>7. X - Y >= Period \/ (wrapped - (X - Y)) \in -1..1
  <2>. HIDE DEF X, Y
  <2>1. X - Y < Period => (wrapped - (X - Y)) \in -1..1
    BY <1>5, CounterTells
  <2>. QED
    BY <1>5, <2>1
<1>. QED
  BY <1>6, <1>7

\* A value shown came from the file or was read.
LEMMA ValuesTell ==
  ASSUME NEW entries, NEW read, NEW told, told = Sensing!Values(entries, read),
         NEW s \in DOMAIN told, told[s] # "absent"
  PROVE  /\ s \in Sensors
         /\ \/ Sensing!FileCounts /\ told[s] = privileged.sensor[s]
            \/ s \in DOMAIN read /\ told[s] = read[s]
BY DEF Sensing!Values

LEMMA FileTells ==
  ASSUME Sensing!SensingAssumption, SensingPast, FileIsKnown, Sensing!FileCounts
  PROVE  /\ \E t \in Sensing!Lately : Seen(privileged.sensor, t) /\ Heated(privileged.critical, t)
         /\ kind = "macos" => \A s \in Sensors : privileged.sensor[s] = "absent"
<1>. PICK n : n = Sensing!now
  OBVIOUS
<1>. PICK f : f = privileged
  OBVIOUS
<1>1. n \in Nat /\ Delay \in Nat /\ Life.file \in Nat /\ f # Sensing!None /\ n - f.at < Life.file
  BY PastFacts DEF Sensing!SensingAssumption, Sensing!FileCounts
<1>2. PICK t \in 0..f.at : f.at - t <= Delay /\ Seen(f.sensor, t) /\ Heated(f.critical, t)
  BY <1>1 DEF FileIsKnown
<1>3. f.at \in 0..n /\ (kind = "macos" => \A s \in Sensors : f.sensor[s] = "absent")
  BY <1>1 DEF FileIsKnown
<1>4. t \in 0..n /\ n - t < Life.file + Delay
  BY <1>1, <1>2, <1>3
<1>5. t \in Sensing!Lately
  BY <1>1, <1>4 DEF Sensing!Lately, Sensing!FileCounts
<1>. QED
  BY <1>2, <1>3, <1>5

\* A sample leaves what it is made of as it is.
LEMMA SampleStays ==
  ASSUME SensingPast, UNCHANGED <<kind, past, privileged, line>>
  PROVE  /\ UNCHANGED Sensing!Own /\ UNCHANGED Sensing!Lately /\ UNCHANGED Sensing!LineCounts
BY PastStays DEF Sensing!Own, Sensing!Lately, Sensing!LineCounts, Sensing!FileCounts

LEMMA SensingLinux ==
  ASSUME Sensing!SensingAssumption, SensingInv, Sensing!LinuxSample
  PROVE  SensingInv'
<1>. DEFINE found == Sensing!DefinitionsNow
            d == IF discovered = -1 \/ Sensing!now - discovered >= Rediscover THEN Sensing!now ELSE discovered
            read == [s \in Sensing!Range(found) |-> Sensing!Machine.sensor[s]]
<1>1. SensingPast /\ Remembered /\ Sensing!now \in Nat /\ Sensing!Machine = Sensing!At(Sensing!now)
  BY PastFacts DEF SensingInv, Sensing!Machine
<1>2. /\ kind = "linux" /\ definitions' = found /\ discovered' = d
      /\ UNCHANGED <<kind, past, line, helper, pipe, privileged>>
  BY DEF Sensing!LinuxSample, Sensing!machineVars, Sensing!helperVars
<1>3. \/ shown' = Sensing!None /\ UNCHANGED energy
      \/ /\ energy' = Sensing!EnergyNow
         /\ \E entries : shown' = [at |-> Sensing!now, values |-> Sensing!Values(entries, read),
              critical |-> Sensing!Alarm(Sensing!Hot(Sensing!Machine.sensor) \cap Sensing!Range(found) # {}),
              power |-> IF Sensing!Contains(entries, Sensing!Rapl) THEN Sensing!PowerNow ELSE Sensing!None,
              denied |-> Sensing!Machine.source = "denied"]
  BY DEF Sensing!LinuxSample
<1>4. SensingPast' /\ UNCHANGED Sensing!now /\ UNCHANGED Sensing!Machine /\ \A t : Sensing!At(t)' = Sensing!At(t)
  BY <1>1, <1>2, PastStays
<1>5. /\ d \in 0..Sensing!now /\ Sensing!now - d < Rediscover
      /\ Sensing!Range(found) = Sensing!Present(Sensing!At(d).sensor)
  BY <1>1, FoundAtLook
<1>. HIDE DEF found, d
<1>6. Remembered'
  <2>1. energy' = energy \/ energy' = [at |-> Sensing!now, value |-> Sensing!At(Sensing!now).total % Period]
    BY <1>1, <1>3 DEF Sensing!EnergyNow, Sensing!counted
  <2>2. energy' # Sensing!None => energy'.at \in 0..Sensing!now /\ energy'.value = Sensing!At(energy'.at).total % Period
    BY <1>1, <2>1 DEF Remembered, CounterIsKnown
  <2>3. Sensing!Range(definitions') = Sensing!Present(Sensing!At(discovered').sensor) /\ discovered' \in 0..Sensing!now
    BY <1>2, <1>5
  <2>4. CounterIsKnown'
    BY <1>4, <2>2, <2>3 DEF CounterIsKnown
  <2>5. HelperTypeOK'
    BY <1>1, <1>2 DEF Remembered, HelperTypeOK
  <2>6. HeldIsKnown' /\ PipeIsKnown' /\ LineIsKnown' /\ FileIsKnown'
    BY <1>1, <1>2, RememberedStays DEF Remembered
  <2>. QED
    BY <2>4, <2>5, <2>6 DEF Remembered
<1>7. Sensing!SampleIsOfNow'
  <2>. SUFFICES ASSUME shown' # Sensing!None
               PROVE  Sensing!SampleIsOfNow'
    BY DEF Sensing!SampleIsOfNow
  <2>1. PICK entries : shown' = [at |-> Sensing!now, values |-> Sensing!Values(entries, read),
              critical |-> Sensing!Alarm(Sensing!Hot(Sensing!Machine.sensor) \cap Sensing!Range(found) # {}),
              power |-> IF Sensing!Contains(entries, Sensing!Rapl) THEN Sensing!PowerNow ELSE Sensing!None,
              denied |-> Sensing!Machine.source = "denied"]
    BY <1>3
  <2>2. /\ shown'.values = Sensing!Values(entries, read)
        /\ shown'.critical = Sensing!Alarm(Sensing!Hot(Sensing!Machine.sensor) \cap Sensing!Range(found) # {})
        /\ shown'.power = Sensing!PowerNow \/ shown'.power = Sensing!None
        /\ shown'.denied = (Sensing!Machine.source = "denied")
    BY <2>1
  <2>3. /\ Sensing!now \in Sensing!Lately
        /\ UNCHANGED Sensing!Own /\ UNCHANGED Sensing!Lately /\ UNCHANGED Sensing!LineCounts
    BY <1>1, <1>2, SampleStays DEF Sensing!Lately, Sensing!Own
  <2>4. Sensing!FileCounts => \E t \in Sensing!Lately : Seen(privileged.sensor, t) /\ Heated(privileged.critical, t)
    BY <1>1, FileTells DEF Remembered
  <2>5. Sensing!ValuesAreOfNow'
    <3>1. ASSUME NEW s \in DOMAIN shown'.values, shown'.values[s] # "absent"
          PROVE  \E t \in Sensing!Lately : Sensing!At(t).sensor[s] = shown'.values[s]
      <4>1. /\ s \in Sensors
            /\ \/ Sensing!FileCounts /\ shown'.values[s] = privileged.sensor[s]
               \/ s \in DOMAIN read /\ shown'.values[s] = read[s]
        BY <2>2, <3>1, ValuesTell
      <4>2. CASE Sensing!FileCounts /\ shown'.values[s] = privileged.sensor[s]
        BY <2>4, <3>1, <4>1, <4>2 DEF Seen
      <4>3. CASE s \in DOMAIN read /\ shown'.values[s] = read[s]
        BY <1>1, <2>3, <4>3
      <4>. QED
        BY <4>1, <4>2, <4>3
    <3>. QED
      BY <1>4, <2>3, <3>1 DEF Sensing!ValuesAreOfNow
  <2>6. Sensing!AlarmsHaveCauses'
    <3>1. shown'.critical => \E s \in Sensors, t \in Sensing!Lately : Sensing!At(t).sensor[s] = "hot"
      <4>1. shown'.critical => \/ \E s \in Sensors : Sensing!Machine.sensor[s] = "hot"
                               \/ Sensing!FileCounts /\ privileged.critical
        BY <2>2 DEF Sensing!Alarm, Sensing!Hot
      <4>. QED
        BY <1>1, <2>3, <2>4, <4>1 DEF Heated
    <3>2. ASSUME Sensing!now >= Rediscover, NEW s \in Sensors, Sensing!Machine.sensor[s] = "hot",
                 \A t \in (Sensing!now - Rediscover)..Sensing!now : Sensing!At(t).sensor[s] # "absent"
          PROVE  shown'.critical
      <4>1. d \in (Sensing!now - Rediscover)..Sensing!now
        BY <1>1, <1>5 DEF Sensing!SensingAssumption
      <4>2. s \in Sensing!Range(found)
        BY <1>5, <3>2, <4>1 DEF Sensing!Present
      <4>. QED
        BY <2>2, <3>2, <4>2 DEF Sensing!Hot, Sensing!Alarm
    <3>. QED
      BY <1>2, <1>4, <2>3, <3>1, <3>2 DEF Sensing!AlarmsHaveCauses
  <2>7. Sensing!RefusalsAreReal'
    BY <1>2, <1>4, <2>2 DEF Sensing!RefusalsAreReal
  <2>8. Sensing!PowerIsMean'
    <3>1. shown'.power # Sensing!None =>
            \/ Sensing!Machine.total - Sensing!At(Sensing!now - shown'.power.span).total >= Period
            \/ (shown'.power.energy - (Sensing!Machine.total - Sensing!At(Sensing!now - shown'.power.span).total)) \in -1..1
      BY <1>1, <2>2, PowerTells
    <3>. QED
      BY <1>4, <3>1 DEF Sensing!PowerIsMean, Sensing!Spent
  <2>. QED
    BY <2>5, <2>6, <2>7, <2>8 DEF Sensing!SampleIsOfNow
<1>. QED
  BY <1>4, <1>6, <1>7 DEF SensingInv

\* What counts of the helper's lines was so when one of them may have been read.
LEMMA LineTells ==
  ASSUME Sensing!SensingAssumption, SensingPast, kind # "linux", LineIsKnown, Sensing!LineCounts
  PROVE  /\ \E t \in Sensing!Own : Known(line.text.sensor, line.text.denied, t)
         /\ \E v \in Sensing!Own : Meant(line.text.critical, v)
<1>. PICK n : n = Sensing!now
  OBVIOUS
<1>. PICK l : l = line
  OBVIOUS
<1>1. n \in Nat /\ Delay \in Nat /\ Life.macos \in Nat /\ Life.windows \in Nat /\ l # Sensing!None
      /\ l.at \in 0..n
  BY PastFacts DEF Sensing!SensingAssumption, Sensing!LineCounts, LineIsKnown
<1>2. PICK t \in 0..l.at : l.at - t <= Delay /\ Told(l.text, t, l.at)
  BY <1>1 DEF LineIsKnown
<1>3. PICK v \in t..l.at : Meant(l.text.critical, v)
  BY <1>2 DEF Told
<1>4. \/ kind = "macos" /\ n - l.at < Life.macos
      \/ kind = "windows" /\ n - l.at <= Life.windows
  BY <1>1 DEF Sensing!LineCounts, SensingPast
<1>5. t \in Sensing!Own /\ v \in Sensing!Own
  <2>1. ASSUME NEW u \in {t, v}
        PROVE  u \in Sensing!Own
    <3>1. u \in 0..n /\ l.at - u <= Delay
      BY <1>1, <1>2, <1>3, <2>1
    <3>2. CASE kind = "macos" /\ n - l.at < Life.macos
      <4>1. n - u < Life.macos + Delay
        BY <1>1, <3>1, <3>2
      <4>. QED
        BY <3>1, <3>2, <4>1 DEF Sensing!Own
    <3>3. CASE kind = "windows" /\ n - l.at <= Life.windows
      <4>1. n - u <= Life.windows + Delay
        BY <1>1, <3>1, <3>3
      <4>. QED
        BY <3>1, <3>3, <4>1 DEF Sensing!Own
    <3>. QED
      BY <1>4, <3>2, <3>3
  <2>. QED
    BY <2>1
<1>. QED
  BY <1>2, <1>3, <1>5 DEF Told

LEMMA SensingHelper ==
  ASSUME Sensing!SensingAssumption, SensingInv, Sensing!HelperSample
  PROVE  SensingInv'
<1>. DEFINE sensor == IF Sensing!LineCounts THEN line.text.sensor ELSE Sensing!Nothing
<1>1. SensingPast /\ Remembered /\ Sensing!now \in Nat
  BY PastFacts DEF SensingInv
<1>2. UNCHANGED <<kind, past, line, pipe, privileged, energy, definitions, discovered>> /\ kind # "linux"
  BY DEF Sensing!HelperSample, Sensing!machineVars
<1>3. \E next, entries :
        /\ next \in IF helper.state = "waits" THEN {"up", "dead", "refused"} ELSE {helper.state}
        /\ helper' = [helper EXCEPT !.state = next]
        /\ shown' = [at |-> Sensing!now, values |-> Sensing!Values(entries, sensor),
             critical |-> Sensing!Alarm(Sensing!LineCounts /\ line.text.critical), power |-> Sensing!None,
             denied |-> (next # helper.state /\ next = "refused") \/ (Sensing!LineCounts /\ line.text.denied)]
  BY DEF Sensing!HelperSample
<1>4. PICK next, entries :
        /\ next \in IF helper.state = "waits" THEN {"up", "dead", "refused"} ELSE {helper.state}
        /\ helper' = [helper EXCEPT !.state = next]
        /\ shown' = [at |-> Sensing!now, values |-> Sensing!Values(entries, sensor),
             critical |-> Sensing!Alarm(Sensing!LineCounts /\ line.text.critical), power |-> Sensing!None,
             denied |-> (next # helper.state /\ next = "refused") \/ (Sensing!LineCounts /\ line.text.denied)]
  BY <1>3
<1>5. SensingPast' /\ UNCHANGED Sensing!now /\ UNCHANGED Sensing!Machine /\ \A t : Sensing!At(t)' = Sensing!At(t)
  BY <1>1, <1>2, PastStays
<1>6. HelperTypeOK' /\ helper'.held = helper.held /\ helper'.opened = helper.opened /\ helper'.state = next
  BY <1>1, <1>2, <1>4 DEF Remembered, HelperTypeOK
<1>7. Remembered'
  BY <1>1, <1>2, <1>6, RememberedStays DEF Remembered
<1>8. /\ shown'.values = Sensing!Values(entries, sensor)
      /\ shown'.critical = Sensing!Alarm(Sensing!LineCounts /\ line.text.critical)
      /\ shown'.power = Sensing!None
      /\ shown'.denied = ((next # helper.state /\ next = "refused") \/ (Sensing!LineCounts /\ line.text.denied))
  BY <1>4
<1>9. UNCHANGED Sensing!Own /\ UNCHANGED Sensing!Lately /\ UNCHANGED Sensing!LineCounts
  BY <1>1, <1>2, SampleStays
<1>10. Sensing!FileCounts =>
         /\ \E t \in Sensing!Lately : Seen(privileged.sensor, t) /\ Heated(privileged.critical, t)
         /\ kind = "macos" => \A s \in Sensors : privileged.sensor[s] = "absent"
  BY <1>1, FileTells DEF Remembered
<1>11. Sensing!LineCounts =>
         /\ \E t \in Sensing!Own : Known(line.text.sensor, line.text.denied, t)
         /\ \E v \in Sensing!Own : Meant(line.text.critical, v)
  BY <1>1, <1>2, LineTells DEF Remembered
<1>12. ASSUME NEW s \in DOMAIN shown'.values, shown'.values[s] # "absent"
       PROVE  /\ s \in Sensors
              /\ \/ Sensing!FileCounts /\ shown'.values[s] = privileged.sensor[s]
                 \/ Sensing!LineCounts /\ shown'.values[s] = line.text.sensor[s]
  <2>1. /\ s \in Sensors
        /\ \/ Sensing!FileCounts /\ shown'.values[s] = privileged.sensor[s]
           \/ s \in DOMAIN sensor /\ shown'.values[s] = sensor[s]
    BY <1>8, <1>12, ValuesTell
  <2>. QED
    BY <1>12, <2>1 DEF Sensing!Nothing
<1>. HIDE DEF sensor
<1>13. Sensing!ValuesAreOfNow'
  <2>1. ASSUME NEW s \in DOMAIN shown'.values, shown'.values[s] # "absent"
        PROVE  \E t \in Sensing!Lately : Sensing!At(t).sensor[s] = shown'.values[s]
    <3>1. CASE Sensing!FileCounts /\ shown'.values[s] = privileged.sensor[s]
      BY <1>10, <1>12, <2>1, <3>1 DEF Seen
    <3>2. CASE Sensing!LineCounts /\ shown'.values[s] = line.text.sensor[s]
      BY <1>11, <1>12, <2>1, <3>2 DEF Known, Seen, Sensing!Lately
    <3>. QED
      BY <1>12, <2>1, <3>1, <3>2
  <2>. QED
    BY <1>5, <1>9, <2>1 DEF Sensing!ValuesAreOfNow
<1>14. Sensing!AlarmsHaveCauses'
  <2>1. shown'.critical => kind = "macos" /\ \E t \in Sensing!Own : Sensing!At(t).thermal
    <3>1. shown'.critical => (Sensing!LineCounts /\ line.text.critical) \/ (Sensing!FileCounts /\ privileged.critical)
      BY <1>8 DEF Sensing!Alarm
    <3>. QED
      BY <1>2, <1>10, <1>11, <3>1 DEF Meant, Heated
  <2>2. kind = "macos" /\ Sensing!LineCounts /\ (\A t \in Sensing!Own : Sensing!At(t).thermal) => shown'.critical
    BY <1>8, <1>11 DEF Meant, Sensing!Alarm
  <2>. QED
    BY <1>2, <1>5, <1>9, <2>1, <2>2 DEF Sensing!AlarmsHaveCauses
<1>15. Sensing!RefusalsAreReal'
  <2>1. CASE next # helper.state /\ next = "refused"
    <3>1. kind = "windows"
      BY <1>1, <1>4, <2>1 DEF Remembered, HelperTypeOK
    <3>. QED
      BY <1>2, <1>6, <2>1, <3>1 DEF Sensing!RefusalsAreReal
  <2>2. CASE Sensing!LineCounts /\ line.text.denied
    <3>1. PICK t \in Sensing!Own : Known(line.text.sensor, line.text.denied, t)
      BY <1>11, <2>2
    <3>2. CASE kind = "macos"
      <4>1. helper.opened = "denied" /\ \A s \in Sensors : line.text.sensor[s] = "absent"
        BY <2>2, <3>1, <3>2 DEF Known
      <4>2. \A s \in DOMAIN shown'.values : shown'.values[s] = "absent"
        BY <1>10, <1>12, <3>2, <4>1
      <4>. QED
        BY <1>2, <1>6, <3>2, <4>1, <4>2 DEF Sensing!RefusalsAreReal
    <3>3. CASE kind = "windows"
      <4>1. Sensing!At(t).source = "denied"
        BY <2>2, <3>1, <3>3 DEF Known
      <4>. QED
        BY <1>2, <1>5, <1>9, <3>3, <4>1 DEF Sensing!RefusalsAreReal
    <3>. QED
      BY <1>1, <1>2, <3>2, <3>3 DEF SensingPast
  <2>. QED
    BY <1>8, <2>1, <2>2 DEF Sensing!RefusalsAreReal
<1>16. Sensing!SampleIsOfNow'
  BY <1>8, <1>13, <1>14, <1>15 DEF Sensing!SampleIsOfNow, Sensing!PowerIsMean
<1>. QED
  BY <1>5, <1>7, <1>16 DEF SensingInv

LEMMA SensingStart ==
  ASSUME Sensing!Init
  PROVE  SensingInv
<1>1. PICK sensor \in [Sensors -> {"absent", "cool"}], opened \in {"open", "denied", "none"} :
        /\ past = <<[sensor |-> sensor, total |-> 0, source |-> "open", thermal |-> FALSE]>>
        /\ kind # "macos" => opened = "none"
        /\ helper = [state |-> CASE kind = "linux" -> "dead" [] kind = "macos" -> "up" [] OTHER -> "waits",
                     opened |-> opened, keys |-> IF opened = "open" THEN Sensing!Present(sensor) ELSE {},
                     held |-> Sensing!None]
  BY DEF Sensing!Init
<1>2. [sensor |-> sensor, total |-> 0, source |-> "open", thermal |-> FALSE] \in SensingMachines
  BY DEF SensingMachines, Looked
<1>3. past \in Seq(SensingMachines) /\ Len(past) = 1
  <2>. HIDE DEF SensingMachines
  <2>. QED
    BY <1>1, <1>2
<1>4. past[1].total = 0
  BY <1>1
<1>5. SensingPast
  BY <1>3, <1>4 DEF SensingPast, Sensing!Init
<1>6. HelperTypeOK /\ helper.held = Sensing!None
  <2>1. Sensing!Present(sensor) \in SUBSET Sensors
    BY DEF Sensing!Present
  <2>2. CASE kind = "linux"
    BY <1>1, <2>1, <2>2 DEF HelperTypeOK, Sensing!Init
  <2>3. CASE kind = "macos"
    BY <1>1, <2>1, <2>3 DEF HelperTypeOK, Sensing!Init
  <2>4. CASE kind = "windows"
    BY <1>1, <2>1, <2>4 DEF HelperTypeOK, Sensing!Init
  <2>. QED
    BY <2>2, <2>3, <2>4 DEF Sensing!Init
<1>7. Remembered /\ Sensing!SampleIsOfNow
  BY <1>6 DEF Sensing!Init, Remembered, HeldIsKnown, PipeIsKnown, LineIsKnown, FileIsKnown, CounterIsKnown,
     Sensing!SampleIsOfNow
<1>. QED
  BY <1>5, <1>7 DEF SensingInv

LEMMA SensingStays ==
  ASSUME SensingInv, UNCHANGED sensingVars
  PROVE  SensingInv'
<1>1. SensingPast' /\ UNCHANGED Sensing!now /\ UNCHANGED Sensing!Machine /\ \A t : Sensing!At(t)' = Sensing!At(t)
  BY PastStays DEF SensingInv, sensingVars
<1>2. Remembered'
  <2>1. HelperTypeOK'
    BY DEF SensingInv, Remembered, sensingVars, HelperTypeOK
  <2>. QED
    BY <2>1, RememberedStays DEF SensingInv, Remembered, sensingVars
<1>3. Sensing!SampleIsOfNow'
  <2>1. UNCHANGED Sensing!Own /\ UNCHANGED Sensing!Lately /\ UNCHANGED Sensing!LineCounts
    BY SampleStays DEF SensingInv, sensingVars
  <2>2. Sensing!ValuesAreOfNow => Sensing!ValuesAreOfNow'
    BY <1>1, <2>1 DEF Sensing!ValuesAreOfNow, sensingVars
  <2>3. Sensing!AlarmsHaveCauses => Sensing!AlarmsHaveCauses'
    BY <1>1, <2>1 DEF Sensing!AlarmsHaveCauses, sensingVars
  <2>4. Sensing!RefusalsAreReal => Sensing!RefusalsAreReal'
    BY <1>1, <2>1 DEF Sensing!RefusalsAreReal, sensingVars
  <2>5. Sensing!PowerIsMean => Sensing!PowerIsMean'
    BY <1>1 DEF Sensing!PowerIsMean, Sensing!Spent, sensingVars
  <2>. QED
    BY <2>2, <2>3, <2>4, <2>5 DEF SensingInv, Sensing!SampleIsOfNow, sensingVars
<1>. QED
  BY <1>1, <1>2, <1>3 DEF SensingInv

SensingEvidence == part = "sensing" => SensingInv

(* A sample tells of now, for any sensors, counter, cap, lives of a line   *)
(* and of the file, and delay of the helpers (telemetry.py linux, windows, *)
(* sample; telemetry_macos.m).                                             *)
THEOREM SampleIsOfNowHolds ==
  EvidenceSpec => []SampleIsOfNow
<1>1. EvidenceInit => SensingEvidence
  BY SensingStart DEF EvidenceInit, SensingEvidence
<1>2. SensingEvidence /\ [EvidenceNext]_evidenceVars => SensingEvidence'
  <2>. SUFFICES ASSUME SensingEvidence, [EvidenceNext]_evidenceVars, part' = "sensing"
               PROVE  SensingInv'
    BY DEF SensingEvidence
  <2>1. CASE OfSensing /\ Sensing!Next
    BY <2>1, EvidenceAssumption, SensingTick, SensingReads, SensingPrints, SensingArrives, SensingDies,
       SensingPublishes, SensingLinux, SensingHelper
       DEF OfSensing, SensingEvidence, Sensing!Next, Sensing!HelperStep
  <2>2. CASE UNCHANGED <<part, sensingVars>>
    BY <2>2, SensingStays DEF SensingEvidence
  <2>. QED
    BY <2>1, <2>2 DEF EvidenceNext, evidenceVars, OfPool, OfPairs, OfMark, OfProbe, OfScore, OfTracker,
       OfWindow, OfLegacy, OfSensing, OfBudget
<1>3. SensingEvidence => SampleIsOfNow
  BY DEF SensingEvidence, SensingInv, SampleIsOfNow
<1>. QED
  BY <1>1, <1>2, <1>3, PTL DEF EvidenceSpec

-----------------------------------------------------------------------------

(* The restored pages.                                                     *)

\* The parts a row of the archive being read or shown fills pages with.
RowsOf(n) == 1..Len(Archives[n].rows)
PartsOf(n, i) ==
  Window!SplitLegacyResult(Window!Build(Archives[n].rows[i].module, Archives[n].rows[i].status, Archives[n]))
RowParts(n, i) == {PartsOf(n, i)[k] : k \in 1..Len(PartsOf(n, i))}
PartsBefore(n, i) == UNION {RowParts(n, j) : j \in 1..(i - 1)}
AllParts == UNION {UNION {RowParts(n, i) : i \in RowsOf(n)} : n \in 1..Len(Archives)}

Saved(p) == archive[p] = Archives[at].id
\* The page of a part shows it.
Shows(x) == Saved(x.name) /\ pages[x.name].tables = x.tables /\ pages[x.name].status = Window!Ended(x.status)

PagesTypeOK ==
  /\ phase \in {"reading", "showing", "idle", "running"} /\ at \in Nat \ {0} /\ row \in Nat \ {0}
  /\ restored \in Seq(AllParts) /\ DOMAIN pages = Window!Pages /\ DOMAIN archive = Window!Pages

\* The parts of one archive, row by row, each for a page of its own.
Collecting ==
  /\ phase \in {"reading", "showing"} => \A p \in Window!Pages : archive[p] = Window!NotSaved \/ phase = "showing"
  /\ \A j, k \in 1..Len(restored) : j # k => restored[j].name # restored[k].name
  /\ phase = "reading" /\ at <= Len(Archives) =>
       row <= Len(Archives[at].rows) + 1 /\ Window!Range(restored) = PartsBefore(at, row)
  /\ phase = "showing" =>
       at <= Len(Archives) /\ Window!Range(restored) = PartsBefore(at, Len(Archives[at].rows) + 1)

\* The pages of the parts shown so far name the archive, the others none.
Showing ==
  phase = "showing" =>
    /\ row <= Len(restored) + 1
    /\ \A k \in 1..(row - 1) : Shows(restored[k])
    /\ \A p \in Window!Pages : archive[p] = Window!NotSaved \/ \E k \in 1..(row - 1) : restored[k].name = p

\* Afterwards each page shows its part of the archive or names none.
Standing ==
  /\ phase \in {"idle", "running"} /\ at <= Len(Archives) =>
       LET parts == PartsBefore(at, Len(Archives[at].rows) + 1)
       IN  /\ \A x \in parts : Shows(x) \/ (archive[x.name] = Window!NotSaved /\ phase = "running")
           /\ \A p \in Window!Pages : archive[p] = Window!NotSaved \/ \E x \in parts : x.name = p
  /\ \A p \in Window!Pages : pages[p].status = "running" => archive[p] = Window!NotSaved

PagesInv == PagesTypeOK /\ Collecting /\ Showing /\ Standing
-----------------------------------------------------------------------------
OfMemory == {"memory_bandwidth_test", "memory_latency_test"}
Whole(x) ==
  /\ x = Window!Result(x.name, x.status, x.tables, x.notice)
  /\ x.name \in OfMemory /\ x.status = "passed" => x.tables # <<>>

\* A result is its module's, and a passed one of memory has a table.
LEMMA Built ==
  ASSUME NEW m, NEW s, NEW a, NEW b, b = Window!Build(m, s, a)
  PROVE  Whole(b) /\ b.name = m
<1>1. CASE s # "passed"
  BY <1>1 DEF Whole, Window!Build, Window!Result
<1>2. CASE s = "passed" /\ m \notin DOMAIN a.reports
  BY <1>2 DEF Whole, Window!Build, Window!Result
<1>3. CASE s = "passed" /\ m \in DOMAIN a.reports
  <2>. DEFINE report == a.reports[m]
              evidence == IF m \in DOMAIN a.evidence THEN a.evidence[m] ELSE Window!NoEvidence
              notice == IF m = "cpu_multi" THEN "score_unavailable" ELSE Window!NoticeOf(m, report)
  <2>1. b = IF Window!Observed(m, report) \/ m = "cpu_architecture" \/ (m = "cpu_multi" /\ evidence.accepted)
              THEN Window!FromEvidence(m, report, evidence) ELSE Window!FromReport(m, report, notice)
    BY <1>3 DEF Window!Build
  <2>. HIDE DEF report, evidence, notice
  <2>2. CASE b = Window!FromReport(m, report, notice)
    BY <2>2 DEF Whole, Window!FromReport, Window!Result
  <2>3. CASE b = Window!FromEvidence(m, report, evidence) /\ m \notin OfMemory
    <3>1. \E status_, tables_, notice_ : b = Window!Result(m, status_, tables_, notice_)
      BY <2>3 DEF Window!FromEvidence
    <3>. QED
      BY <2>3, <3>1 DEF Whole, Window!Result
  <2>4. Window!Observed(m, report) => m = "inter_core"
    BY DEF Window!Observed
  <2>. QED
    BY <2>1, <2>2, <2>3, <2>4 DEF OfMemory
<1>. QED
  BY <1>1, <1>2, <1>3

\* A result of old is split over the pages of its module, one part each.
LEMMA SplitParts ==
  ASSUME NEW b, Whole(b), NEW s, s = Window!SplitLegacyResult(b)
  PROVE  /\ Len(s) \in Nat /\ s \in Seq({s[k] : k \in 1..Len(s)})
         /\ \A k \in 1..Len(s) : s[k].name \in Window!PagesOf(b.name) /\ Whole(s[k])
         /\ \A j, k \in 1..Len(s) : j # k => s[j].name # s[k].name
<1>1. CASE b.name = "cache_hierarchy"
  <2>. DEFINE P(k) == Window!CachePart(b, k)
  <2>1. s = <<P("cache_bandwidth_test"), P("cache_latency_test"), P("cache_detection")>>
    BY <1>1 DEF Window!SplitLegacyResult, Window!CacheParts
  <2>2. \A k \in {"cache_bandwidth_test", "cache_latency_test", "cache_detection"} : P(k).name = k /\ Whole(P(k))
    BY DEF Window!CachePart, Window!Result, Whole, OfMemory
  <2>. HIDE DEF P
  <2>. QED
    BY <1>1, <2>1, <2>2 DEF Window!PagesOf
<1>2. CASE b.name = "memory_bandwidth"
  <2>. DEFINE P(k, l) == Window!MemoryPart(b, k, l)
  <2>1. s = <<P("memory_bandwidth_test", FALSE), P("memory_latency_test", TRUE)>>
    BY <1>2 DEF Window!SplitLegacyResult, Window!MemoryParts
  <2>2. \A k \in OfMemory, l \in BOOLEAN : P(k, l).name = k /\ Whole(P(k, l))
    BY DEF Window!MemoryPart, Window!Result, Whole, OfMemory
  <2>3. /\ P("memory_bandwidth_test", FALSE).name = "memory_bandwidth_test" /\ Whole(P("memory_bandwidth_test", FALSE))
        /\ P("memory_latency_test", TRUE).name = "memory_latency_test" /\ Whole(P("memory_latency_test", TRUE))
    BY <2>2, Zenon DEF OfMemory
  <2>4. \E x, y : /\ s = <<x, y>> /\ x.name = "memory_bandwidth_test" /\ Whole(x)
                 /\ y.name = "memory_latency_test" /\ Whole(y)
    BY <2>1, <2>3, Zenon
  <2>. QED
    BY <1>2, <2>4 DEF Window!PagesOf
<1>3. CASE b.name \notin {"cache_hierarchy", "memory_bandwidth"}
  <2>1. s = <<b>>
    BY <1>3 DEF Window!SplitLegacyResult
  <2>. QED
    BY <1>3, <2>1 DEF Window!PagesOf
<1>. QED
  BY <1>1, <1>2, <1>3

LEMMA RowFacts ==
  ASSUME Window!PagesAssumption, NEW n \in 1..Len(Archives), NEW i \in RowsOf(n)
  PROVE  /\ Len(PartsOf(n, i)) \in Nat /\ PartsOf(n, i) \in Seq(RowParts(n, i))
         /\ RowParts(n, i) \subseteq AllParts
         /\ \A x \in RowParts(n, i) : /\ Whole(x) /\ x.name \in Window!PagesOf(Archives[n].rows[i].module)
                                      /\ x.name \in Window!Pages
         /\ \A j, k \in 1..Len(PartsOf(n, i)) : j # k => PartsOf(n, i)[j].name # PartsOf(n, i)[k].name
<1>. DEFINE r == Archives[n].rows[i]
            b == Window!Build(r.module, r.status, Archives[n])
<1>1. Whole(b) /\ b.name = r.module /\ PartsOf(n, i) = Window!SplitLegacyResult(b)
  BY Built DEF PartsOf
<1>. HIDE DEF b
<1>2. /\ Len(PartsOf(n, i)) \in Nat /\ PartsOf(n, i) \in Seq(RowParts(n, i))
      /\ \A k \in 1..Len(PartsOf(n, i)) : PartsOf(n, i)[k].name \in Window!PagesOf(r.module) /\ Whole(PartsOf(n, i)[k])
      /\ \A j, k \in 1..Len(PartsOf(n, i)) : j # k => PartsOf(n, i)[j].name # PartsOf(n, i)[k].name
  <2>. DEFINE s == PartsOf(n, i)
  <2>1. s = Window!SplitLegacyResult(b)
    BY <1>1
  <2>. HIDE DEF s
  <2>2. /\ Len(s) \in Nat /\ s \in Seq({s[k] : k \in 1..Len(s)})
        /\ \A k \in 1..Len(s) : s[k].name \in Window!PagesOf(b.name) /\ Whole(s[k])
        /\ \A j, k \in 1..Len(s) : j # k => s[j].name # s[k].name
    BY <1>1, <2>1, SplitParts
  <2>3. RowParts(n, i) = {s[k] : k \in 1..Len(s)}
    BY Zenon DEF RowParts, s
  <2>. QED
    BY <1>1, <2>2, <2>3 DEF s
<1>3. Window!PagesOf(r.module) \subseteq Window!Pages
  BY DEF Window!PagesAssumption, RowsOf, Window!Range
<1>4. RowParts(n, i) \subseteq AllParts
  BY DEF AllParts
<1>. HIDE DEF r
<1>5. \A x \in RowParts(n, i) : Whole(x) /\ x.name \in Window!PagesOf(r.module) /\ x.name \in Window!Pages
  BY <1>2, <1>3 DEF RowParts
<1>. QED
  BY <1>2, <1>4, <1>5 DEF r

\* No two rows of an archive fill one page.
LEMMA RowsApart ==
  ASSUME Window!PagesAssumption, NEW n \in 1..Len(Archives), NEW i \in RowsOf(n), NEW j \in RowsOf(n), i # j,
         NEW x \in RowParts(n, i), NEW y \in RowParts(n, j)
  PROVE  x.name # y.name
<1>1. Window!PagesOf(Archives[n].rows[i].module) \cap Window!PagesOf(Archives[n].rows[j].module) = {}
  BY DEF Window!PagesAssumption, RowsOf, Window!Range
<1>. QED
  BY <1>1, RowFacts

LEMMA ArchiveFacts ==
  ASSUME Window!PagesAssumption
  PROVE  /\ Len(Archives) \in Nat
         /\ \A n \in 1..Len(Archives) : Len(Archives[n].rows) \in Nat /\ Archives[n].id # Window!NotSaved
BY DEF Window!PagesAssumption, Window!Range

\* A row that reads adds its parts to those before it.
LEMMA PagesRead ==
  ASSUME Window!PagesAssumption, PagesInv, Window!ReadRow
  PROVE  PagesInv'
<1>1. /\ phase = "reading" /\ at \in 1..Len(Archives) /\ row \in 1..Len(Archives[at].rows)
      /\ UNCHANGED <<phase, pages, archive>>
  BY ArchiveFacts DEF Window!ReadRow, PagesInv, PagesTypeOK
<1>2. CASE at' = at + 1 /\ row' = 1 /\ restored' = <<>>
  <2>1. PagesTypeOK'
    BY <1>1, <1>2 DEF PagesInv, PagesTypeOK
  <2>2. Window!Range(restored') = {} /\ PartsBefore(at', row') = {} /\ Len(restored') = 0
    BY <1>2 DEF Window!Range, PartsBefore
  <2>3. at' <= Len(Archives) => at' \in 1..Len(Archives) /\ Len(Archives[at'].rows) \in Nat
    BY <1>1, <1>2, ArchiveFacts
  <2>4. Collecting'
    <3>1. \A j, k \in 1..Len(restored') : j # k => restored'[j].name # restored'[k].name
      BY <2>2
    <3>2. phase' = "reading" /\ \A p \in Window!Pages : archive'[p] = Window!NotSaved \/ phase' = "showing"
      BY <1>1 DEF PagesInv, Collecting
    <3>3. at' <= Len(Archives) => row' <= Len(Archives[at'].rows) + 1 /\ Window!Range(restored') = PartsBefore(at', row')
      BY <1>2, <2>2, <2>3
    <3>. QED
      BY <3>1, <3>2, <3>3 DEF Collecting
  <2>5. Showing' /\ Standing'
    BY <1>1 DEF PagesInv, Showing, Standing
  <2>. QED
    BY <2>1, <2>4, <2>5 DEF PagesInv
<1>3. CASE UNCHANGED at /\ row' = row + 1 /\ restored' = restored \o PartsOf(at, row)
  <2>. DEFINE old == restored
              new == PartsOf(at, row)
  <2>1. /\ new \in Seq(AllParts) /\ Len(new) \in Nat /\ RowParts(at, row) \subseteq AllParts
        /\ \A j, k \in 1..Len(new) : j # k => new[j].name # new[k].name
    <3>1. row \in RowsOf(at)
      BY <1>1 DEF RowsOf
    <3>. QED
      BY <1>1, <3>1, RowFacts, SeqMonotonic
  <2>2. old \in Seq(AllParts) /\ Len(old) \in Nat
    BY DEF PagesInv, PagesTypeOK
  <2>3. /\ restored' \in Seq(AllParts) /\ Len(restored') = Len(old) + Len(new)
        /\ \A k \in 1..Len(restored') : restored'[k] = IF k <= Len(old) THEN old[k] ELSE new[k - Len(old)]
    <3>. HIDE DEF new
    <3>. QED
      BY <1>3, <2>1, <2>2, ConcatProperties DEF new
  <2>4. PagesTypeOK'
    BY <1>1, <1>3, <2>3 DEF PagesInv, PagesTypeOK
  <2>5. Window!Range(old) = PartsBefore(at, row) /\ row <= Len(Archives[at].rows)
    BY <1>1 DEF PagesInv, Collecting
  <2>6. \A k \in 1..Len(old) : old[k] \in PartsBefore(at, row)
    BY <2>2, <2>5 DEF Window!Range
  <2>7. \A x \in PartsBefore(at, row), k \in 1..Len(new) : x.name # new[k].name
    <3>. SUFFICES ASSUME NEW x \in PartsBefore(at, row), NEW k \in 1..Len(new)
                 PROVE  x.name # new[k].name
      OBVIOUS
    <3>1. PICK j \in 1..(row - 1) : x \in RowParts(at, j)
      BY DEF PartsBefore
    <3>2. j \in RowsOf(at) /\ row \in RowsOf(at) /\ j # row
      BY <1>1, ArchiveFacts DEF RowsOf
    <3>3. new[k] \in RowParts(at, row)
      BY DEF RowParts
    <3>. QED
      BY <1>1, <3>1, <3>2, <3>3, RowsApart
  <2>. HIDE DEF new
  <2>8. \A j, k \in 1..Len(restored') : j # k => restored'[j].name # restored'[k].name
    <3>. SUFFICES ASSUME NEW j \in 1..Len(restored'), NEW k \in 1..Len(restored'), j # k
                 PROVE  restored'[j].name # restored'[k].name
      OBVIOUS
    <3>1. CASE j <= Len(old) /\ k <= Len(old)
      BY <2>2, <2>3, <3>1 DEF PagesInv, Collecting
    <3>2. CASE j <= Len(old) /\ ~(k <= Len(old))
      <4>1. j \in 1..Len(old) /\ k - Len(old) \in 1..Len(new)
        BY <2>1, <2>2, <2>3, <3>2
      <4>. QED
        BY <2>3, <2>6, <2>7, <3>2, <4>1
    <3>3. CASE ~(j <= Len(old)) /\ k <= Len(old)
      <4>1. k \in 1..Len(old) /\ j - Len(old) \in 1..Len(new)
        BY <2>1, <2>2, <2>3, <3>3
      <4>. QED
        BY <2>3, <2>6, <2>7, <3>3, <4>1
    <3>4. CASE ~(j <= Len(old)) /\ ~(k <= Len(old))
      <4>1. k - Len(old) \in 1..Len(new) /\ j - Len(old) \in 1..Len(new) /\ j - Len(old) # k - Len(old)
        BY <2>1, <2>2, <2>3, <3>4
      <4>. QED
        BY <2>1, <2>3, <3>4, <4>1
    <3>. QED
      BY <3>1, <3>2, <3>3, <3>4
  <2>9. Window!Range(restored') = PartsBefore(at, row + 1)
    <3>1. PartsBefore(at, row + 1) = PartsBefore(at, row) \cup RowParts(at, row)
      <4>1. 1..((row + 1) - 1) = (1..(row - 1)) \cup {row}
        BY <1>1
      <4>. QED
        BY <4>1 DEF PartsBefore
    <3>2. RowParts(at, row) = {new[k] : k \in 1..Len(new)}
      BY DEF RowParts, new
    <3>3. \A k \in 1..Len(restored') : restored'[k] \in PartsBefore(at, row) \cup RowParts(at, row)
      <4>. SUFFICES ASSUME NEW k \in 1..Len(restored')
                   PROVE  restored'[k] \in PartsBefore(at, row) \cup RowParts(at, row)
        OBVIOUS
      <4>1. k <= Len(old) => k \in 1..Len(old)
        BY <2>2
      <4>2. ~(k <= Len(old)) => k - Len(old) \in 1..Len(new)
        BY <2>1, <2>2, <2>3
      <4>. QED
        BY <2>3, <2>6, <3>2, <4>1, <4>2
    <3>4. \A x \in PartsBefore(at, row) : \E k \in 1..Len(restored') : restored'[k] = x
      <4>. SUFFICES ASSUME NEW x \in PartsBefore(at, row)
                   PROVE  \E k \in 1..Len(restored') : restored'[k] = x
        OBVIOUS
      <4>1. PICK k \in 1..Len(old) : old[k] = x
        BY <2>2, <2>5 DEF Window!Range
      <4>2. k \in 1..Len(restored') /\ k <= Len(old)
        BY <2>1, <2>2, <2>3
      <4>. QED
        BY <2>3, <4>1, <4>2
    <3>5. \A k \in 1..Len(new) : \E l \in 1..Len(restored') : restored'[l] = new[k]
      <4>. SUFFICES ASSUME NEW k \in 1..Len(new)
                   PROVE  \E l \in 1..Len(restored') : restored'[l] = new[k]
        OBVIOUS
      <4>1. k + Len(old) \in 1..Len(restored') /\ ~(k + Len(old) <= Len(old)) /\ (k + Len(old)) - Len(old) = k
        BY <2>1, <2>2, <2>3
      <4>. QED
        BY <2>3, <4>1
    <3>6. Window!Range(restored') = {restored'[k] : k \in 1..Len(restored')}
      BY <2>3 DEF Window!Range
    <3>7. Window!Range(restored') \subseteq PartsBefore(at, row) \cup RowParts(at, row)
      BY <3>3, <3>6
    <3>8. PartsBefore(at, row) \subseteq Window!Range(restored')
      BY <3>4, <3>6
    <3>9. RowParts(at, row) \subseteq Window!Range(restored')
      BY <3>2, <3>5, <3>6
    <3>. QED
      BY <3>1, <3>7, <3>8, <3>9
  <2>10. Collecting'
    BY <1>1, <1>3, <2>8, <2>9, ArchiveFacts DEF PagesInv, Collecting
  <2>11. Showing' /\ Standing'
    BY <1>1 DEF PagesInv, Showing, Standing
  <2>. QED
    BY <2>4, <2>10, <2>11 DEF PagesInv
<1>. QED
  BY <1>2, <1>3 DEF Window!ReadRow, PartsOf

\* All the parts of the archive at hand are whole, and for one of the pages.
LEMMA PartsAreWhole ==
  ASSUME Window!PagesAssumption, at \in 1..Len(Archives), NEW x \in PartsBefore(at, Len(Archives[at].rows) + 1)
  PROVE  Whole(x) /\ x.name \in Window!Pages
<1>1. PICK j \in 1..((Len(Archives[at].rows) + 1) - 1) : x \in RowParts(at, j)
  BY DEF PartsBefore
<1>2. j \in RowsOf(at)
  BY <1>1, ArchiveFacts DEF RowsOf
<1>. QED
  BY <1>1, <1>2, RowFacts

LEMMA PagesAllRead ==
  ASSUME Window!PagesAssumption, PagesInv, Window!AllRead
  PROVE  PagesInv'
<1>1. phase = "reading" /\ row' = 1 /\ UNCHANGED <<at, restored, pages, archive>>
  BY DEF Window!AllRead
<1>2. \A p \in Window!Pages : archive[p] = Window!NotSaved
  BY <1>1 DEF PagesInv, Collecting
<1>3. CASE at > Len(Archives) /\ phase' = "idle"
  <2>1. PagesTypeOK'
    BY <1>1, <1>3 DEF PagesInv, PagesTypeOK
  <2>2. Collecting' /\ Showing'
    BY <1>1, <1>3 DEF PagesInv, Collecting, Showing
  <2>3. Standing'
    BY <1>1, <1>3, ArchiveFacts DEF PagesInv, PagesTypeOK, Standing
  <2>. QED
    BY <2>1, <2>2, <2>3 DEF PagesInv
<1>4. CASE at <= Len(Archives) /\ row > Len(Archives[at].rows) /\ phase' = "showing"
  <2>1. PagesTypeOK'
    BY <1>1, <1>4 DEF PagesInv, PagesTypeOK
  <2>2. row = Len(Archives[at].rows) + 1 /\ Window!Range(restored) = PartsBefore(at, row)
    <3>1. at \in 1..Len(Archives) /\ row \in Nat /\ row <= Len(Archives[at].rows) + 1
      BY <1>1, <1>4, ArchiveFacts DEF PagesInv, PagesTypeOK, Collecting
    <3>2. Len(Archives[at].rows) \in Nat
      BY <3>1, ArchiveFacts
    <3>3. Window!Range(restored) = PartsBefore(at, row)
      BY <1>1, <1>4 DEF PagesInv, Collecting
    <3>. QED
      BY <1>4, <3>1, <3>2, <3>3
  <2>3. Collecting'
    BY <1>1, <1>4, <2>2 DEF PagesInv, Collecting
  <2>4. Showing'
    <3>1. Len(restored) \in Nat
      BY DEF PagesInv, PagesTypeOK
    <3>. QED
      BY <1>1, <1>2, <3>1 DEF Showing
  <2>5. Standing'
    BY <1>1, <1>4 DEF PagesInv, Standing
  <2>. QED
    BY <2>1, <2>3, <2>4, <2>5 DEF PagesInv
<1>. QED
  BY <1>3, <1>4 DEF Window!AllRead

LEMMA PagesShow ==
  ASSUME Window!PagesAssumption, PagesInv, Window!ShowPart
  PROVE  PagesInv'
<1>. DEFINE part_ == restored[row]
<1>1. /\ phase = "showing" /\ row \in 1..Len(restored) /\ row' = row + 1 /\ UNCHANGED <<phase, at, restored>>
      /\ pages' = [pages EXCEPT ![part_.name] = [part_ EXCEPT !.status = Window!Ended(part_.status)]]
      /\ archive' = [archive EXCEPT ![part_.name] = Archives[at].id]
  BY DEF Window!ShowPart, PagesInv, PagesTypeOK
<1>2. /\ at \in 1..Len(Archives) /\ Len(restored) \in Nat
      /\ Window!Range(restored) = PartsBefore(at, Len(Archives[at].rows) + 1)
      /\ \A j, k \in 1..Len(restored) : j # k => restored[j].name # restored[k].name
  BY <1>1, ArchiveFacts DEF PagesInv, PagesTypeOK, Collecting
<1>3. part_ \in PartsBefore(at, Len(Archives[at].rows) + 1)
  <2>1. part_ \in Window!Range(restored)
    BY <1>1, <1>2 DEF Window!Range
  <2>. QED
    BY <1>2, <2>1
<1>4. Whole(part_) /\ part_.name \in Window!Pages
  BY <1>2, <1>3, PartsAreWhole
<1>. HIDE DEF part_
<1>5. [part_ EXCEPT !.status = Window!Ended(part_.status)].tables = part_.tables /\
      [part_ EXCEPT !.status = Window!Ended(part_.status)].status = Window!Ended(part_.status)
  BY <1>4 DEF Whole, Window!Result
<1>6. /\ DOMAIN pages = Window!Pages /\ DOMAIN archive = Window!Pages /\ DOMAIN pages' = Window!Pages /\ DOMAIN archive' = Window!Pages
      /\ archive'[part_.name] = Archives[at].id /\ pages'[part_.name].tables = part_.tables
      /\ pages'[part_.name].status = Window!Ended(part_.status)
      /\ \A p \in Window!Pages : p # part_.name => pages'[p] = pages[p] /\ archive'[p] = archive[p]
  <2>1. DOMAIN pages = Window!Pages /\ DOMAIN archive = Window!Pages
    BY DEF PagesInv, PagesTypeOK
  <2>. QED
    BY <1>1, <1>4, <1>5, <2>1
<1>7. PagesTypeOK'
  BY <1>1, <1>6 DEF PagesInv, PagesTypeOK
<1>8. Collecting'
  BY <1>1 DEF PagesInv, Collecting
<1>9. Showing'
  <2>1. \A k \in 1..(row' - 1) : Shows(restored[k])'
    <3>. SUFFICES ASSUME NEW k \in 1..row
                 PROVE  Shows(restored[k])'
      BY <1>1
    <3>1. CASE k = row
      BY <1>1, <1>6, <3>1 DEF Shows, Saved, part_
    <3>2. CASE k # row
      <4>1. k \in 1..Len(restored) /\ restored[k].name # part_.name /\ k \in 1..(row - 1)
        BY <1>1, <1>2, <3>2 DEF part_
      <4>2. Shows(restored[k])
        BY <1>1, <4>1 DEF PagesInv, Showing
      <4>3. restored[k].name \in Window!Pages
        <5>1. restored[k] \in Window!Range(restored)
          BY <1>2, <4>1 DEF Window!Range
        <5>. QED
          BY <1>2, <5>1, PartsAreWhole
      <4>. QED
        BY <1>1, <1>6, <4>1, <4>2, <4>3 DEF Shows, Saved
    <3>. QED
      BY <3>1, <3>2
  <2>2. \A p \in Window!Pages : archive'[p] = Window!NotSaved \/ \E k \in 1..(row' - 1) : restored'[k].name = p
    <3>. SUFFICES ASSUME NEW p \in Window!Pages, archive'[p] # Window!NotSaved
                 PROVE  \E k \in 1..row : restored[k].name = p
      BY <1>1
    <3>1. CASE p = part_.name
      BY <1>1, <3>1 DEF part_
    <3>2. CASE p # part_.name
      <4>1. \E k \in 1..(row - 1) : restored[k].name = p
        BY <1>1, <1>6, <3>2 DEF PagesInv, Showing
      <4>. QED
        BY <1>1, <4>1
    <3>. QED
      BY <3>1, <3>2
  <2>. QED
    BY <1>1, <1>2, <2>1, <2>2 DEF Showing
<1>10. Standing'
  <2>1. \A p \in Window!Pages : pages'[p].status = "running" => archive'[p] = Window!NotSaved
    <3>1. Window!Ended(part_.status) # "running"
      BY DEF Window!Ended
    <3>. QED
      BY <1>6, <3>1 DEF PagesInv, Standing
  <2>. QED
    BY <1>1, <2>1 DEF Standing
<1>. QED
  BY <1>7, <1>8, <1>9, <1>10 DEF PagesInv

LEMMA PagesRestored ==
  ASSUME Window!PagesAssumption, PagesInv, Window!Restored
  PROVE  PagesInv'
<1>1. phase = "showing" /\ phase' = "idle" /\ row > Len(restored) /\ UNCHANGED <<at, row, restored, pages, archive>>
  BY DEF Window!Restored
<1>2. /\ Window!Range(restored) = PartsBefore(at, Len(Archives[at].rows) + 1) /\ Len(restored) \in Nat
      /\ row = Len(restored) + 1 /\ Window!Range(restored) = {restored[k] : k \in 1..Len(restored)}
  <2>1. Len(restored) \in Nat /\ DOMAIN restored = 1..Len(restored) /\ row \in Nat
    BY DEF PagesInv, PagesTypeOK
  <2>2. row <= Len(restored) + 1 /\ Window!Range(restored) = PartsBefore(at, Len(Archives[at].rows) + 1)
    BY <1>1 DEF PagesInv, Collecting, Showing
  <2>. QED
    BY <1>1, <2>1, <2>2 DEF Window!Range
<1>3. PagesTypeOK'
  BY <1>1 DEF PagesInv, PagesTypeOK
<1>4. Collecting' /\ Showing'
  BY <1>1 DEF PagesInv, Collecting, Showing
<1>5. Standing'
  <2>1. \A k \in 1..Len(restored) : Shows(restored[k])
    BY <1>1, <1>2 DEF PagesInv, Showing
  <2>2. \A x \in PartsBefore(at, Len(Archives[at].rows) + 1) : Shows(x)'
    <3>1. \A x \in PartsBefore(at, Len(Archives[at].rows) + 1) : Shows(x)
      BY <1>2, <2>1
    <3>. QED
      BY <1>1, <3>1 DEF Shows, Saved
  <2>3. \A p \in Window!Pages : archive[p] = Window!NotSaved \/ \E k \in 1..Len(restored) : restored[k].name = p
    BY <1>1, <1>2 DEF PagesInv, Showing
  <2>4. \A p \in Window!Pages :
          archive[p] = Window!NotSaved \/ \E x \in PartsBefore(at, Len(Archives[at].rows) + 1) : x.name = p
    BY <1>2, <2>3
  <2>. QED
    BY <1>1, <2>2, <2>4 DEF PagesInv, Standing
<1>. QED
  BY <1>3, <1>4, <1>5 DEF PagesInv

\* A page that names no archive may change while a benchmark runs.
LEMMA PagesRun ==
  ASSUME Window!PagesAssumption, PagesInv, phase \in {"idle", "running"}, phase' = "running",
         UNCHANGED <<at, row, restored>>, DOMAIN pages' = Window!Pages, DOMAIN archive' = Window!Pages,
         \A p \in Window!Pages : \/ archive'[p] = Window!NotSaved
                                 \/ archive'[p] = archive[p] /\ pages'[p] = pages[p]
  PROVE  PagesInv'
<1>1. PagesTypeOK'
  BY DEF PagesInv, PagesTypeOK
<1>2. Collecting' /\ Showing'
  BY DEF PagesInv, Collecting, Showing
<1>3. Standing'
  <2>1. ASSUME at <= Len(Archives), NEW x \in PartsBefore(at, Len(Archives[at].rows) + 1)
        PROVE  Shows(x)' \/ archive'[x.name] = Window!NotSaved
    <3>1. x.name \in Window!Pages
      BY <2>1, ArchiveFacts, PartsAreWhole DEF PagesInv, PagesTypeOK
    <3>2. Shows(x) \/ archive[x.name] = Window!NotSaved
      BY <2>1 DEF PagesInv, Standing
    <3>. QED
      BY <3>1, <3>2 DEF Shows, Saved
  <2>2. ASSUME at <= Len(Archives), NEW p \in Window!Pages
        PROVE  archive'[p] = Window!NotSaved \/ \E x \in PartsBefore(at, Len(Archives[at].rows) + 1) : x.name = p
    BY <2>2 DEF PagesInv, Standing
  <2>3. \A p \in Window!Pages : pages'[p].status = "running" => archive'[p] = Window!NotSaved
    BY DEF PagesInv, Standing
  <2>. QED
    BY <2>1, <2>2, <2>3 DEF Standing
<1>. QED
  BY <1>1, <1>2, <1>3 DEF PagesInv

LEMMA PagesStep ==
  ASSUME Window!PagesAssumption, PagesInv, Window!Next
  PROVE  PagesInv'
<1>1. CASE Window!Begin
  BY <1>1, PagesRun DEF Window!Begin
<1>2. ASSUME NEW m \in Window!Pages, Window!Started(m) \/ Window!Completed(m)
      PROVE  PagesInv'
  <2>1. /\ phase = "running" /\ UNCHANGED <<phase, at, row, restored, archive>> /\ archive[m] = Window!NotSaved
        /\ \E result : pages' = [pages EXCEPT ![m] = result]
    BY <1>2 DEF Window!Started, Window!Completed, PagesInv, Standing
  <2>2. DOMAIN pages = Window!Pages /\ DOMAIN archive = Window!Pages
    BY DEF PagesInv, PagesTypeOK
  <2>. QED
    BY <2>1, <2>2, PagesRun
<1>. QED
  BY <1>1, <1>2, PagesRead, PagesAllRead, PagesShow, PagesRestored DEF Window!Next

LEMMA NothingYet ==
  ASSUME NEW s, s = <<>>, NEW S
  PROVE  s \in Seq(S) /\ Len(s) = 0 /\ Window!Range(s) = {}
BY DEF Window!Range

LEMMA PagesStart ==
  ASSUME Window!PagesAssumption, Window!Init
  PROVE  PagesInv
<1>1. /\ phase = "reading" /\ at = 1 /\ row = 1 /\ restored = <<>>
      /\ pages = [p \in Window!Pages |-> Window!Result(p, "not_run", <<>>, "")]
      /\ archive = [p \in Window!Pages |-> Window!NotSaved]
  BY DEF Window!Init
<1>2. PagesTypeOK
  <2>1. restored \in Seq(AllParts)
    BY <1>1, NothingYet
  <2>2. DOMAIN pages = Window!Pages /\ DOMAIN archive = Window!Pages
    BY <1>1
  <2>3. phase = "reading" /\ at = 1 /\ row = 1
    BY <1>1
  <2>. QED
    BY <2>1, <2>2, <2>3 DEF PagesTypeOK
<1>3. Collecting
  <2>1. Window!Range(restored) = {} /\ PartsBefore(1, 1) = {} /\ Len(restored) = 0
    <3>1. Window!Range(restored) = {} /\ Len(restored) = 0
      BY <1>1, NothingYet
    <3>2. 1..(1 - 1) = {}
      OBVIOUS
    <3>. QED
      BY <3>1, <3>2 DEF PartsBefore
  <2>2. 1 <= Len(Archives) => Len(Archives[1].rows) \in Nat
    BY ArchiveFacts
  <2>3. \A j, k \in 1..Len(restored) : j # k => restored[j].name # restored[k].name
    BY <2>1
  <2>4. phase = "reading" /\ at = 1 /\ row = 1 /\ \A p \in Window!Pages : archive[p] = Window!NotSaved
    BY <1>1
  <2>. QED
    BY <2>1, <2>2, <2>3, <2>4 DEF Collecting
<1>4. Showing /\ Standing
  BY <1>1 DEF Showing, Standing, Window!Result
<1>. QED
  BY <1>2, <1>3, <1>4 DEF PagesInv

LEMMA PagesOfOneArchive ==
  ASSUME Window!PagesAssumption, PagesInv
  PROVE  Window!OneArchive
<1>. SUFFICES ASSUME Window!Settled
             PROVE  Window!OneArchive
  BY DEF Window!OneArchive
<1>. DEFINE parts == PartsBefore(at, Len(Archives[at].rows) + 1)
<1>1. at \in 1..Len(Archives) /\ phase \in {"idle", "running"} /\ Len(Archives[at].rows) \in Nat /\ Archives[at].id # Window!NotSaved
  BY ArchiveFacts DEF PagesInv, PagesTypeOK, Window!Settled
<1>2. /\ \A x \in parts : Shows(x) \/ (archive[x.name] = Window!NotSaved /\ phase = "running")
      /\ \A p \in Window!Pages : archive[p] = Window!NotSaved \/ \E x \in parts : x.name = p
  BY <1>1 DEF PagesInv, Standing
<1>3. \A x \in parts : Whole(x) /\ x.name \in Window!Pages
  BY <1>1, PartsAreWhole
<1>4. \A r \in Window!Range(Archives[at].rows) : \A x \in Window!Range(Window!Parts(r)) : x \in parts
  <2>. SUFFICES ASSUME NEW r \in Window!Range(Archives[at].rows), NEW x \in Window!Range(Window!Parts(r))
               PROVE  x \in parts
    OBVIOUS
  <2>1. PICK i \in 1..Len(Archives[at].rows) : r = Archives[at].rows[i]
    BY <1>1 DEF Window!Range, Window!PagesAssumption
  <2>2. Window!Parts(r) = PartsOf(at, i)
    BY <2>1 DEF Window!Parts, PartsOf
  <2>3. Len(PartsOf(at, i)) \in Nat /\ PartsOf(at, i) \in Seq(RowParts(at, i))
    BY <1>1, RowFacts DEF RowsOf
  <2>4. x \in RowParts(at, i)
    <3>. DEFINE s == PartsOf(at, i)
    <3>1. x \in Window!Range(s) /\ s \in Seq(RowParts(at, i))
      BY <2>2, <2>3
    <3>. HIDE DEF s
    <3>. QED
      BY <3>1 DEF Window!Range
  <2>. QED
    BY <1>1, <2>4 DEF PartsBefore
<1>. HIDE DEF parts
<1>5. \A p \in Window!Pages : archive[p] \in {Window!NotSaved, Archives[at].id}
  BY <1>2 DEF Shows, Saved
<1>6. \A x \in parts : /\ archive[x.name] = Archives[at].id => pages[x.name].tables = x.tables
                       /\ archive[x.name] = Window!NotSaved => phase = "running"
  BY <1>1, <1>2 DEF Shows, Saved
<1>7. \A p \in OfMemory : archive[p] = Archives[at].id /\ pages[p].status = "passed" => pages[p].tables # <<>>
  <2>. SUFFICES ASSUME NEW p \in OfMemory, archive[p] = Archives[at].id, pages[p].status = "passed"
               PROVE  pages[p].tables # <<>>
    OBVIOUS
  <2>1. p \in Window!Pages
    BY DEF OfMemory, Window!Pages
  <2>2. PICK x \in parts : x.name = p
    BY <1>1, <1>2, <2>1
  <2>3. pages[p].tables = x.tables /\ Window!Ended(x.status) = "passed"
    BY <1>1, <1>2, <2>2 DEF Shows
  <2>4. x.status = "passed"
    BY <2>3 DEF Window!Ended
  <2>. QED
    BY <1>3, <2>2, <2>3, <2>4 DEF Whole
<1>. QED
  BY <1>4, <1>5, <1>6, <1>7 DEF Window!OneArchive, OfMemory

PagesEvidence == part = "window" => PagesInv

(* The restored pages name one archive and show its parts, for any         *)
(* archives a run may leave (desktop_window.py restore_results).           *)
THEOREM OneArchiveHolds ==
  EvidenceSpec => [](part = "window" => Window!OneArchive)
<1>1. EvidenceInit => PagesEvidence
  BY EvidenceAssumption, PagesStart DEF EvidenceInit, PagesEvidence
<1>2. PagesEvidence /\ [EvidenceNext]_evidenceVars => PagesEvidence'
  <2>. SUFFICES ASSUME PagesEvidence, [EvidenceNext]_evidenceVars, part' = "window"
               PROVE  PagesInv'
    BY DEF PagesEvidence
  <2>1. CASE OfWindow /\ Window!Next
    BY <2>1, EvidenceAssumption, PagesStep DEF OfWindow, PagesEvidence
  <2>2. CASE UNCHANGED <<part, windowVars>>
    BY <2>2 DEF PagesEvidence, PagesInv, PagesTypeOK, Collecting, Showing, Standing, Shows, Saved, windowVars
  <2>. QED
    BY <2>1, <2>2 DEF EvidenceNext, evidenceVars, OfPool, OfPairs, OfMark, OfProbe, OfScore, OfTracker,
       OfWindow, OfLegacy, OfSensing, OfBudget
<1>3. PagesEvidence => (part = "window" => Window!OneArchive)
  BY EvidenceAssumption, PagesOfOneArchive DEF PagesEvidence
<1>. QED
  BY <1>1, <1>2, <1>3, PTL DEF EvidenceSpec

-----------------------------------------------------------------------------
(* The history of the regression tracker.                                  *)

Figures == [Tracker!Metrics -> Nat]

\* The lines that can be read, and those of them from a line on.
Good == {i \in 1..Len(file) : file[i] # Tracker!Garbage}
Since(i) == {j \in Good : j >= i}

\* The runs whose lines may be lost: two for a crash, its own and the one whose
\* append lands on the same line; those are yet to be lost while that line is open.
Spoilt == 2 * crashes - (IF ~open THEN 0 ELSE IF Len(file) \in Good THEN 2 ELSE 1)

TrackerTypeOK ==
  /\ tracker \in {"idle", "loaded", "recorded"} /\ open \in BOOLEAN /\ crashes \in Nat
  /\ tracker # "idle" => current \in Figures
  /\ runs \in Seq(Figures) /\ file \in Seq(Figures \cup {Tracker!Garbage})
  /\ open => file # <<>>

\* No line is older than the lines after it and what may be lost account for.
Survived ==
  /\ Len(runs) <= Cardinality(Good) + Spoilt
  /\ \A i \in Good : \E x \in 1..Len(runs) :
       x > Len(runs) - Cardinality(Since(i)) - Spoilt /\ file[i] = runs[x]

\* So a record read back is of a run that is hardly longer ago than its place tells.
Recent(records_, made) ==
  /\ records_ \in Seq(Figures) /\ Len(made) <= Len(records_) + 2 * crashes
  /\ \A k \in 1..Len(records_) : \E x \in 1..Len(made) :
       x > Len(made) - (Len(records_) - k + 1) - 2 * crashes /\ records_[k] = made[x]

Loaded ==
  /\ tracker = "loaded" => Recent(recorded, runs)
  /\ tracker = "recorded" => runs # <<>> /\ Recent(recorded, Tracker!Front(runs))

TrackerInv == TrackerTypeOK /\ Survived /\ Loaded

-----------------------------------------------------------------------------
\* Every rank is that of one place.
LEMMA RankedIsAll ==
  ASSUME NEW S, S \subseteq Nat, IsFiniteSet(S), NEW value \in [S -> Nat]
  PROVE  /\ DOMAIN Tracker!Ranked(S, value) = 1..Cardinality(S) /\ Cardinality(S) \in Nat
         /\ \A k \in 1..Cardinality(S) : LET i == Tracker!Ranked(S, value)[k] IN
              i \in S /\ k = Cardinality({j \in S : value[j] < value[i] \/ (value[j] = value[i] /\ j <= i)})
<1>. DEFINE n == Cardinality(S)
            Upto(i) == {j \in S : value[j] < value[i] \/ (value[j] = value[i] /\ j <= i)}
            rank == [i \in S |-> Cardinality(Upto(i))]
<1>1. n \in Nat
  BY FS_CardinalityType
<1>2. \A i \in S : IsFiniteSet(Upto(i)) /\ Cardinality(Upto(i)) \in 1..n
  <2>. SUFFICES ASSUME NEW i \in S
               PROVE  IsFiniteSet(Upto(i)) /\ Cardinality(Upto(i)) \in 1..n
    OBVIOUS
  <2>1. Upto(i) \in SUBSET S /\ i \in Upto(i)
    OBVIOUS
  <2>. HIDE DEF Upto
  <2>2. IsFiniteSet(Upto(i)) /\ Cardinality(Upto(i)) <= n
    BY <2>1, FS_Subset
  <2>3. Cardinality(Upto(i)) \in Nat /\ Cardinality(Upto(i)) # 0
    BY <2>1, <2>2, FS_CardinalityType, FS_EmptySet
  <2>. QED
    BY <1>1, <2>2, <2>3
<1>3. \A i \in S, j \in S : i # j => Cardinality(Upto(i)) # Cardinality(Upto(j))
  <2>1. \A i \in S, j \in S : i # j /\ j \in Upto(i) => Cardinality(Upto(i)) # Cardinality(Upto(j))
    <3>. SUFFICES ASSUME NEW i \in S, NEW j \in S, i # j, j \in Upto(i)
                 PROVE  Cardinality(Upto(i)) # Cardinality(Upto(j))
      OBVIOUS
    <3>0. \A x \in S : value[x] \in Nat /\ x \in Nat
      OBVIOUS
    <3>1. \A x \in Upto(j) : x \in Upto(i)
      BY <3>0
    <3>2. i \in Upto(i) /\ i \notin Upto(j)
      BY <3>0
    <3>. HIDE DEF Upto
    <3>. QED
      BY <1>2, <3>1, <3>2, FS_Subset
  <2>2. \A i \in S, j \in S : j \in Upto(i) \/ i \in Upto(j)
    <3>. SUFFICES ASSUME NEW i \in S, NEW j \in S, j \notin Upto(i)
                 PROVE  i \in Upto(j)
      OBVIOUS
    <3>1. value[i] \in Nat /\ value[j] \in Nat /\ i \in Nat /\ j \in Nat
      OBVIOUS
    <3>. QED
      BY <3>1
  <2>. HIDE DEF Upto
  <2>. QED
    BY <2>1, <2>2
<1>. HIDE DEF Upto
<1>4. rank \in Injection(S, 1..n)
  BY <1>2, <1>3 DEF Injection, IsInjective
<1>5. IsFiniteSet(1..n) /\ Cardinality(1..n) = n
  <2>. HIDE DEF n
  <2>. QED
    BY <1>1, FS_Interval
<1>6. rank \in Surjection(S, 1..n)
  BY <1>4, <1>5, FS_Injection
<1>7. \A k \in 1..n : \E i \in S : k = Cardinality(Upto(i))
  <2>. HIDE DEF n
  <2>. QED
    BY <1>1, <1>6 DEF Surjection
<1>8. Tracker!Ranked(S, value) = [k \in 1..n |-> CHOOSE i \in S : k = Cardinality(Upto(i))]
  BY DEF Tracker!Ranked, Tracker!Cardinality, Cardinality, Upto
<1>9. \A k \in 1..n : Tracker!Ranked(S, value)[k] \in S /\ k = Cardinality(Upto(Tracker!Ranked(S, value)[k]))
  BY <1>7, <1>8
<1>10. DOMAIN Tracker!Ranked(S, value) = 1..n
  BY <1>8
<1>. QED
  BY <1>1, <1>9, <1>10 DEF Upto

\* Only finitely many lines can be read.
LEMMA GoodIsFinite ==
  ASSUME TrackerTypeOK
  PROVE  /\ IsFiniteSet(Good) /\ Good \subseteq Nat /\ Cardinality(Good) \in Nat
         /\ \A i : IsFiniteSet(Since(i)) /\ Cardinality(Since(i)) \in Nat
<1>1. IsFiniteSet(1..Len(file)) /\ Len(file) \in Nat
  BY FS_Interval DEF TrackerTypeOK
<1>2. Good \in SUBSET (1..Len(file)) /\ \A i : Since(i) \in SUBSET Good
  BY DEF Good, Since
<1>3. IsFiniteSet(Good)
  BY <1>1, <1>2, FS_Subset
<1>4. Good \subseteq Nat
  BY <1>1 DEF Good
<1>5. \A i : IsFiniteSet(Since(i))
  BY <1>2, <1>3, FS_Subset
<1>. QED
  BY <1>3, <1>4, <1>5, FS_CardinalityType

\* What is read back is as recent as the file.
LEMMA ReadIsRecent ==
  ASSUME TrackerTypeOK, Survived
  PROVE  Recent(Tracker!LoadHistory(file), runs)
<1>. DEFINE n == Cardinality(Good)
            value == [i \in Good |-> i]
            order == Tracker!Ranked(Good, value)
            h == Tracker!LoadHistory(file)
            Upto(i) == {j \in Good : j <= i}
<1>1. /\ IsFiniteSet(Good) /\ Good \subseteq Nat /\ n \in Nat
      /\ \A i : IsFiniteSet(Since(i)) /\ Cardinality(Since(i)) \in Nat
  BY GoodIsFinite
<1>2. value \in [Good -> Nat] /\ \A i \in Good : value[i] = i
  BY <1>1
<1>3. /\ DOMAIN order = 1..n
      /\ \A k \in 1..n : order[k] \in Good /\ k = Cardinality(Upto(order[k]))
  <2>1. /\ DOMAIN order = 1..n
        /\ \A k \in 1..n : order[k] \in Good
             /\ k = Cardinality({j \in Good : value[j] < value[order[k]] \/ (value[j] = value[order[k]] /\ j <= order[k])})
    <3>. HIDE DEF value
    <3>. QED
      BY <1>1, <1>2, RankedIsAll
  <2>2. \A i \in Good : {j \in Good : value[j] < value[i] \/ (value[j] = value[i] /\ j <= i)} = Upto(i)
    <3>1. \A i \in Good, j \in Good : value[j] < value[i] \/ (value[j] = value[i] /\ j <= i) <=> j <= i
      BY <1>1, <1>2
    <3>. HIDE DEF value
    <3>. QED
      BY <3>1
  <2>. HIDE DEF value, order, Upto
  <2>. QED
    BY <2>1, <2>2
<1>4. h = [k \in 1..n |-> file[order[k]]]
  <2>1. DOMAIN file = 1..Len(file)
    BY DEF TrackerTypeOK
  <2>2. {i \in DOMAIN file : file[i] # Tracker!Garbage} = Good
    BY <2>1 DEF Good
  <2>3. h = [k \in DOMAIN order |-> file[order[k]]]
    BY <2>2, Zenon DEF Tracker!LoadHistory, Tracker!Records
  <2>. QED
    BY <1>3, <2>3
<1>5. \A i \in Good : Cardinality(Since(i)) = n - Cardinality(Upto(i)) + 1
  <2>. SUFFICES ASSUME NEW i \in Good
               PROVE  Cardinality(Since(i)) = n - Cardinality(Upto(i)) + 1
    OBVIOUS
  <2>1. /\ i \in Since(i) /\ i \in Upto(i) /\ Upto(i) \in SUBSET Good
        /\ Since(i) \ {i} = Good \ Upto(i)
    <3>1. i \in Nat /\ \A j \in Good : j \in Nat /\ (j >= i /\ j # i <=> ~(j <= i))
      BY <1>1
    <3>2. Since(i) \ {i} = Good \ Upto(i)
      BY <3>1 DEF Since
    <3>. QED
      BY <3>1, <3>2 DEF Since
  <2>. HIDE DEF Upto
  <2>2. /\ IsFiniteSet(Upto(i)) /\ Cardinality(Upto(i)) \in Nat
        /\ Cardinality(Good \ Upto(i)) = n - Cardinality(Upto(i))
    <3>1. IsFiniteSet(Upto(i))
      BY <1>1, <2>1, FS_Subset
    <3>2. Good \cap Upto(i) = Upto(i)
      BY <2>1
    <3>. QED
      BY <1>1, <3>1, <3>2, FS_Difference, FS_CardinalityType
  <2>3. Cardinality(Since(i) \ {i}) = Cardinality(Since(i)) - 1
    BY <1>1, <2>1, FS_RemoveElement
  <2>. QED
    BY <1>1, <2>1, <2>2, <2>3
<1>. HIDE DEF order, value, Upto, n, h
<1>6. h \in Seq(Figures) /\ Len(h) = n
  <2>1. \A k \in 1..n : file[order[k]] \in Figures
    <3>1. \A i \in Good : file[i] \in Figures
      BY DEF Good, TrackerTypeOK
    <3>. QED
      BY <1>3, <3>1
  <2>. QED
    BY <1>1, <1>4, <2>1
<1>7. Spoilt \in Int /\ Spoilt <= 2 * crashes /\ Len(runs) \in Nat
  BY DEF Spoilt, TrackerTypeOK
<1>8. Len(runs) <= Len(h) + 2 * crashes
  BY <1>1, <1>6, <1>7 DEF Survived, TrackerTypeOK, n
<1>9. \A k \in 1..Len(h) : \E x \in 1..Len(runs) :
        x > Len(runs) - (Len(h) - k + 1) - 2 * crashes /\ h[k] = runs[x]
  <2>. SUFFICES ASSUME NEW k \in 1..n
               PROVE  \E x \in 1..Len(runs) : x > Len(runs) - (n - k + 1) - 2 * crashes /\ h[k] = runs[x]
    BY <1>6
  <2>1. order[k] \in Good /\ Cardinality(Since(order[k])) = n - k + 1 /\ h[k] = file[order[k]]
    BY <1>3, <1>4, <1>5
  <2>2. PICK x \in 1..Len(runs) : x > Len(runs) - Cardinality(Since(order[k])) - Spoilt /\ file[order[k]] = runs[x]
    BY <2>1 DEF Survived
  <2>. QED
    BY <1>1, <1>7, <2>1, <2>2 DEF TrackerTypeOK
<1>. QED
  BY <1>6, <1>8, <1>9 DEF Recent, h

\* There are d lines more that can be read, from any of them on, and those that
\* can still be read say what they said.
Gained(d) ==
  /\ Cardinality(Good)' = Cardinality(Good) + d
  /\ \A i \in Good \cap Good' : Cardinality(Since(i))' = Cardinality(Since(i)) + d /\ file'[i] = file[i]

\* A record on a line of its own is one line more.
LEMMA NewLine ==
  ASSUME TrackerTypeOK, NEW text \in Figures, file' = Append(file, text), text # Tracker!Garbage
  PROVE  Gained(1) /\ Good' = Good \cup {Len(file) + 1} /\ file'[Len(file) + 1] = text
<1>1. /\ IsFiniteSet(Good) /\ Good \subseteq Nat
      /\ \A i : IsFiniteSet(Since(i)) /\ Cardinality(Since(i)) \in Nat
  BY GoodIsFinite
<1>2. /\ Len(file) \in Nat /\ Len(file') = Len(file) + 1 /\ file'[Len(file) + 1] = text
      /\ \A i \in 1..Len(file) : file'[i] = file[i]
  BY DEF TrackerTypeOK
<1>3. \A i \in 1..(Len(file) + 1) : i \in 1..Len(file) \/ i = Len(file) + 1
  BY <1>2
<1>4. Good' = Good \cup {Len(file) + 1} /\ Len(file) + 1 \notin Good
  BY <1>2, <1>3 DEF Good
<1>5. Cardinality(Good') = Cardinality(Good) + 1
  BY <1>1, <1>4, FS_AddElement
<1>6. \A i \in Good : Cardinality(Since(i)') = Cardinality(Since(i)) + 1 /\ file'[i] = file[i]
  <2>. SUFFICES ASSUME NEW i \in Good
               PROVE  Cardinality(Since(i)') = Cardinality(Since(i)) + 1 /\ file'[i] = file[i]
    OBVIOUS
  <2>1. i \in 1..Len(file) /\ Len(file) + 1 >= i
    BY <1>2 DEF Good
  <2>2. Since(i)' = Since(i) \cup {Len(file) + 1} /\ Len(file) + 1 \notin Since(i)
    BY <1>4, <2>1 DEF Since
  <2>. QED
    BY <1>1, <1>2, <2>1, <2>2, FS_AddElement
<1>. QED
  BY <1>2, <1>4, <1>5, <1>6 DEF Gained

\* A part of a record is a line that cannot be read, and the others stay.
LEMMA PartOfLine ==
  ASSUME TrackerTypeOK, file' = Append(file, Tracker!Garbage)
  PROVE  Gained(0) /\ Good' = Good
<1>1. /\ Len(file) \in Nat /\ Len(file') = Len(file) + 1 /\ file'[Len(file) + 1] = Tracker!Garbage
      /\ \A i \in 1..Len(file) : file'[i] = file[i]
  BY DEF TrackerTypeOK
<1>2. \A i \in 1..(Len(file) + 1) : i \in 1..Len(file) \/ i = Len(file) + 1
  BY <1>1
<1>3. Good' = Good
  BY <1>1, <1>2 DEF Good
<1>4. \A i : Since(i)' = Since(i)
  BY <1>3 DEF Since
<1>5. \A i \in Good : file'[i] = file[i]
  BY <1>1 DEF Good
<1>6. Cardinality(Good) + 0 = Cardinality(Good) /\ \A i : Cardinality(Since(i)) + 0 = Cardinality(Since(i))
  BY GoodIsFinite
<1>. QED
  BY <1>3, <1>4, <1>5, <1>6 DEF Gained

\* What lands on an open line makes it one that cannot be read.
LEMMA SpoiltLine ==
  ASSUME TrackerTypeOK, file # <<>>, file' = [file EXCEPT ![Len(file)] = Tracker!Garbage]
  PROVE  Gained(IF Len(file) \in Good THEN -1 ELSE 0) /\ Good' = Good \ {Len(file)}
<1>1. /\ IsFiniteSet(Good) /\ Good \subseteq Nat /\ Cardinality(Good) \in Nat
      /\ \A i : IsFiniteSet(Since(i)) /\ Cardinality(Since(i)) \in Nat
  BY GoodIsFinite
<1>2. /\ Len(file) \in Nat \ {0} /\ Len(file') = Len(file) /\ file'[Len(file)] = Tracker!Garbage
      /\ \A i \in 1..Len(file) : i # Len(file) => file'[i] = file[i]
  BY DEF TrackerTypeOK
<1>3. Good' = Good \ {Len(file)}
  BY <1>2 DEF Good
<1>4. \A i : Since(i)' = Since(i) \ {Len(file)}
  BY <1>3 DEF Since
<1>5. \A i \in Good : Len(file) \in Good => Len(file) \in Since(i)
  <2>1. \A i \in Good : i \in Nat /\ Len(file) >= i
    <3>1. Len(file) \in Nat
      BY <1>2
    <3>. QED
      BY <3>1 DEF Good
  <2>. QED
    BY <2>1 DEF Since
<1>6. \A i \in Good \cap Good' : file'[i] = file[i]
  BY <1>2, <1>3 DEF Good
<1>7. CASE Len(file) \in Good
  <2>1. Cardinality(Good') = Cardinality(Good) - 1
    BY <1>1, <1>3, <1>7, FS_RemoveElement
  <2>2. \A i \in Good : Cardinality(Since(i)') = Cardinality(Since(i)) - 1
    BY <1>1, <1>4, <1>5, <1>7, FS_RemoveElement
  <2>. QED
    BY <1>1, <1>3, <1>6, <1>7, <2>1, <2>2 DEF Gained
<1>8. CASE Len(file) \notin Good
  <2>1. Good' = Good
    BY <1>3, <1>8
  <2>2. \A i : Since(i)' = Since(i)
    BY <2>1 DEF Since
  <2>3. Cardinality(Good) + 0 = Cardinality(Good) /\ \A i : Cardinality(Since(i)) + 0 = Cardinality(Since(i))
    BY <1>1
  <2>. QED
    BY <1>3, <1>6, <1>8, <2>1, <2>2, <2>3 DEF Gained
<1>. QED
  BY <1>7, <1>8

\* Each run made is one line more or one more that may be lost.
LEMMA Account ==
  ASSUME NEW r \in Int, NEW g \in Int, NEW s \in Int, NEW s1 \in Int, NEW d \in Int, s1 + d >= s + 1
  PROVE  /\ r <= g + s => r + 1 <= g + d + s1
         /\ \A x \in Int : x > r - g - s => x > r + 1 - (g + d) - s1
OBVIOUS

\* Lines that are gained and lost as accounted for leave a file that survives.
LEMMA Survives ==
  ASSUME TrackerTypeOK, Survived, NEW d \in Int, Gained(d), NEW t \in Int, Spoilt' = t, t + d >= Spoilt + 1,
         file' \in Seq(Figures \cup {Tracker!Garbage}), runs' = Append(runs, current),
         \A i \in Good' \ Good : file'[i] = current /\ t >= 0
  PROVE  Survived'
<1>1. /\ Len(runs) \in Nat /\ Len(runs') = Len(runs) + 1 /\ runs'[Len(runs) + 1] = current
      /\ \A x \in 1..Len(runs) : runs'[x] = runs[x]
  BY DEF TrackerTypeOK
<1>3. /\ Cardinality(Good) \in Nat /\ \A i : Cardinality(Since(i)) \in Nat
      /\ Spoilt \in Int
  BY GoodIsFinite DEF Spoilt, TrackerTypeOK
<1>7. Len(runs') <= Cardinality(Good)' + t
  <2>1. Cardinality(Good)' = Cardinality(Good) + d
    BY DEF Gained
  <2>2. Len(runs) <= Cardinality(Good) + Spoilt
    BY DEF Survived
  <2>3. Cardinality(Good) \in Int
    BY <1>3
  <2>. QED
    BY <1>1, <1>3, <2>1, <2>2, <2>3, Account
<1>8. ASSUME NEW i \in Good'
      PROVE  \E x \in 1..Len(runs') : x > Len(runs') - Cardinality(Since(i))' - t /\ file'[i] = runs'[x]
  <2>1. CASE i \in Good
    <3>1. PICK x \in 1..Len(runs) : x > Len(runs) - Cardinality(Since(i)) - Spoilt /\ file[i] = runs[x]
      BY <2>1 DEF Survived
    <3>2. Cardinality(Since(i))' = Cardinality(Since(i)) + d /\ file'[i] = file[i]
      BY <1>8, <2>1 DEF Gained
    <3>3. x > Len(runs') - Cardinality(Since(i))' - t
      <4>1. x \in Int /\ Cardinality(Since(i)) \in Int
        BY <1>3
      <4>. QED
        BY <1>1, <1>3, <3>1, <3>2, <4>1, Account
    <3>. QED
      BY <1>1, <3>1, <3>2, <3>3
  <2>2. CASE i \notin Good
    <3>1. Cardinality(Since(i))' \in Nat \ {0}
      <4>1. /\ IsFiniteSet(1..Len(file')) /\ Good' \in SUBSET (1..Len(file'))
            /\ Since(i)' \in SUBSET (1..Len(file')) /\ i \in Since(i)'
        <5>1. Len(file') \in Nat
          OBVIOUS
        <5>2. Good' \in SUBSET (1..Len(file'))
          BY DEF Good
        <5>3. i \in Nat
          BY <1>8, <5>1, <5>2
        <5>4. Since(i)' \in SUBSET Good'
          BY DEF Since
        <5>5. i \in Since(i)'
          BY <5>3 DEF Since
        <5>6. IsFiniteSet(1..Len(file'))
          BY <5>1, FS_Interval
        <5>. QED
          BY <5>2, <5>4, <5>5, <5>6
      <4>2. IsFiniteSet(Since(i)')
        BY <4>1, FS_Subset
      <4>. QED
        BY <4>1, <4>2, FS_CardinalityType, FS_EmptySet
    <3>2. Len(runs') > Len(runs') - Cardinality(Since(i))' - t
      BY <1>1, <1>8, <2>2, <3>1
    <3>. QED
      BY <1>1, <1>8, <2>2, <3>2
  <2>. QED
    BY <2>1, <2>2
<1>. QED
  BY <1>7, <1>8 DEF Survived

\* What an append that is cut off may lose, it accounts for.
LEMMA AppendStep ==
  ASSUME TrackerTypeOK, Survived, current \in Figures, NEW text \in {Tracker!Garbage, current},
         file' = Tracker!Appended(text), runs' = Append(runs, current),
         \/ text = current /\ open' = FALSE /\ crashes' = crashes
         \/ open' = TRUE /\ crashes' = crashes + 1
  PROVE  /\ Survived' /\ runs' \in Seq(Figures) /\ runs' # <<>> /\ Tracker!Front(runs') = runs
         /\ file' \in Seq(Figures \cup {Tracker!Garbage}) /\ file' # <<>>
<1>0. current # Tracker!Garbage
  BY DEF Figures, Tracker!Garbage, Tracker!Metrics
<1>1. /\ Len(runs) \in Nat /\ Len(file) \in Nat /\ crashes \in Nat /\ crashes' \in Nat
      /\ Len(runs') = Len(runs) + 1 /\ runs'[Len(runs) + 1] = current /\ runs' \in Seq(Figures) /\ runs' # <<>>
      /\ \A x \in 1..Len(runs) : runs'[x] = runs[x]
  BY DEF TrackerTypeOK
<1>2. Tracker!Front(runs') = runs
  BY <1>1 DEF Tracker!Front, TrackerTypeOK
<1>3. /\ Cardinality(Good) \in Nat /\ \A i : Cardinality(Since(i)) \in Nat
      /\ Spoilt \in Int
  BY <1>1, GoodIsFinite DEF Spoilt
<1>4. file' \in Seq(Figures \cup {Tracker!Garbage}) /\ file' # <<>>
  BY DEF Tracker!Appended, TrackerTypeOK
<1>5. \E d \in -1..1 :
        /\ Gained(d) /\ Spoilt' \in Int /\ Spoilt' + d >= Spoilt + 1
        /\ \A i \in Good' \ Good : file'[i] = current /\ Spoilt' >= 0
  <2>1. CASE ~open /\ text = current
    <3>1. file' = Append(file, current)
      BY <2>1 DEF Tracker!Appended
    <3>2. Gained(1) /\ Good' = Good \cup {Len(file) + 1} /\ file'[Len(file) + 1] = current /\ Len(file') = Len(file) + 1
      BY <1>0, <3>1, NewLine DEF TrackerTypeOK
    <3>3. Len(file)' \in Good'
      BY <3>2
    <3>4. Spoilt = 2 * crashes
      BY <1>1, <2>1 DEF Spoilt
    <3>5. Spoilt' = 2 * crashes
      <4>1. CASE open' = FALSE /\ crashes' = crashes
        BY <1>1, <4>1 DEF Spoilt
      <4>2. CASE open' = TRUE /\ crashes' = crashes + 1
        BY <1>1, <3>3, <4>2 DEF Spoilt
      <4>. QED
        BY <4>1, <4>2
    <3>. QED
      BY <1>1, <3>2, <3>4, <3>5
  <2>2. CASE ~open /\ text # current
    <3>1. file' = Append(file, Tracker!Garbage) /\ open' /\ crashes' = crashes + 1
      BY <2>2 DEF Tracker!Appended
    <3>2. Gained(0) /\ Good' = Good /\ Len(file') = Len(file) + 1
      BY <3>1, PartOfLine DEF TrackerTypeOK
    <3>3. Len(file) + 1 \notin Good
      BY <1>1 DEF Good
    <3>4. Spoilt = 2 * crashes /\ Spoilt' = 2 * crashes + 1
      BY <1>1, <2>2, <3>1, <3>2, <3>3 DEF Spoilt
    <3>. QED
      BY <1>1, <3>2, <3>4
  <2>3. CASE open
    <3>. DEFINE d == IF Len(file) \in Good THEN -1 ELSE 0
    <3>1. file' = [file EXCEPT ![Len(file)] = Tracker!Garbage] /\ file # <<>> /\ Len(file') = Len(file)
      BY <2>3 DEF Tracker!Appended, TrackerTypeOK
    <3>2. Gained(d) /\ Good' = Good \ {Len(file)}
      BY <3>1, SpoiltLine
    <3>3. Len(file)' \notin Good'
      BY <3>1, <3>2
    <3>4. Spoilt = 2 * crashes - 1 + d /\ d \in -1..1
      BY <1>1, <2>3 DEF Spoilt
    <3>5. Spoilt' = 2 * crashes \/ Spoilt' = 2 * crashes + 1
      <4>1. CASE open' = FALSE /\ crashes' = crashes
        BY <1>1, <4>1 DEF Spoilt
      <4>2. CASE open' = TRUE /\ crashes' = crashes + 1
        BY <1>1, <3>3, <4>2 DEF Spoilt
      <4>. QED
        BY <4>1, <4>2
    <3>6. Good' \ Good = {}
      BY <3>2
    <3>. HIDE DEF d
    <3>. QED
      BY <1>1, <3>2, <3>4, <3>5, <3>6
  <2>. QED
    BY <2>1, <2>2, <2>3
<1>6. Survived'
  <2>. PICK d \in -1..1 :
         /\ Gained(d) /\ Spoilt' \in Int /\ Spoilt' + d >= Spoilt + 1
         /\ \A i \in Good' \ Good : file'[i] = current /\ Spoilt' >= 0
    BY <1>5
  <2>1. \E t \in Int : t = Spoilt'
    OBVIOUS
  <2>. QED
    BY <1>4, <2>1, Survives
<1>. QED
  BY <1>1, <1>2, <1>4, <1>6

\* A window is the last n of a sequence, in their order.
LEMMA WindowOf ==
  ASSUME NEW s \in Seq(Figures), NEW n \in Nat \ {0}, NEW a \in Nat \ {0},
         a = Len(s) - n + 1 \/ (a = 1 /\ Len(s) - n + 1 < 1)
  PROVE  /\ Tracker!Window(s, n) \in Seq(Figures) /\ Len(Tracker!Window(s, n)) = Len(s) - a + 1
         /\ \A i \in 1..(Len(s) - a + 1) : Tracker!Window(s, n)[i] = s[a + i - 1]
<1>1. Len(s) \in Nat /\ a <= Len(s) + 1
  OBVIOUS
<1>2. Tracker!Max({1, Len(s) - n + 1}) = a
  BY <1>1 DEF Tracker!Max
<1>3. Tracker!Window(s, n) = SubSeq(s, a, Len(s))
  BY <1>2 DEF Tracker!Window
<1>4. a \in Int /\ Len(s) \in Int /\ \A i \in a..Len(s) : s[i] \in Figures
  BY <1>1
<1>5. /\ SubSeq(s, a, Len(s)) \in Seq(Figures)
      /\ Len(SubSeq(s, a, Len(s))) = IF a <= Len(s) THEN Len(s) - a + 1 ELSE 0
      /\ \A i \in 1..(Len(s) - a + 1) : SubSeq(s, a, Len(s))[i] = s[a + i - 1]
  BY <1>4, SubSeqProperties
<1>. QED
  BY <1>1, <1>3, <1>5

\* A window starts n records before the end, or with the first record.
LEMMA WindowStart ==
  ASSUME NEW k \in Nat, NEW n \in Nat \ {0}
  PROVE  \E a \in Nat \ {0} : a = k - n + 1 \/ (a = 1 /\ k - n + 1 < 1)
<1>1. CASE k - n + 1 >= 1
  <2>1. k - n + 1 \in Nat \ {0}
    BY <1>1
  <2>. QED
    BY <2>1
<1>2. CASE k - n + 1 < 1
  BY <1>2
<1>. QED
  BY <1>1, <1>2

\* The baseline is made of two values of the window, or there is none.
LEMMA BaselineIsOfWindow ==
  ASSUME Tracker!RegressionAssumption, NEW s \in Seq(Figures), NEW m \in Tracker!Metrics,
         NEW w, w = Tracker!Window(s, Baseline)
  PROVE  \/ /\ \A i \in 1..Len(w) : ~Tracker!Has(w[i], m)
            /\ Tracker!BaselineValue(s, m) = Tracker!Missing
         \/ \E i \in 1..Len(w), j \in 1..Len(w) :
              /\ Tracker!Has(w[i], m) /\ Tracker!Has(w[j], m)
              /\ Tracker!BaselineValue(s, m) = w[i][m] + w[j][m]
<1>. DEFINE known == {i \in DOMAIN w : Tracker!Has(w[i], m)}
            value == [i \in known |-> w[i][m]]
            order == Tracker!Ranked(known, value)
            n == Cardinality(known)
<1>1. w \in Seq(Figures) /\ Baseline \in Nat \ {0}
  <2>1. Baseline \in Nat \ {0} /\ Len(s) \in Nat
    BY DEF Tracker!RegressionAssumption
  <2>2. PICK a \in Nat \ {0} : a = Len(s) - Baseline + 1 \/ (a = 1 /\ Len(s) - Baseline + 1 < 1)
    BY <2>1, WindowStart
  <2>. QED
    BY <2>1, <2>2, WindowOf
<1>2. DOMAIN w = 1..Len(w) /\ Len(w) \in Nat /\ \A i \in 1..Len(w) : w[i][m] \in Nat
  BY <1>1 DEF Figures
<1>3. known \subseteq Nat /\ IsFiniteSet(known) /\ n \in Nat
  <2>0. IsFiniteSet(1..Len(w))
    BY <1>2, FS_Interval
  <2>1. IsFiniteSet(1..Len(w)) /\ known \in SUBSET (1..Len(w))
    BY <1>2, <2>0
  <2>2. IsFiniteSet(known)
    BY <2>1, FS_Subset
  <2>3. known \subseteq Nat
    BY <1>2, <2>1
  <2>. QED
    BY <2>2, <2>3, FS_CardinalityType
<1>4. value \in [known -> Nat]
  BY <1>2
<1>5. \A k \in 1..n : order[k] \in known
  <2>. HIDE DEF known, value
  <2>. QED
    BY <1>3, <1>4, RankedIsAll
<1>6. Tracker!BaselineValue(s, m) =
        IF n = 0 THEN Tracker!Missing ELSE w[order[(n + 1) \div 2]][m] + w[order[n \div 2 + 1]][m]
  BY DEF Tracker!BaselineValue, Tracker!Cardinality, Cardinality
<1>. HIDE DEF known, value, order, n
<1>7. CASE n = 0
  <2>1. known = {}
    BY <1>3, <1>7, FS_EmptySet DEF n
  <2>. QED
    BY <1>2, <1>6, <1>7, <2>1 DEF known
<1>8. CASE n # 0
  <2>1. (n + 1) \div 2 \in 1..n /\ n \div 2 + 1 \in 1..n
    BY <1>3, <1>8
  <2>2. order[(n + 1) \div 2] \in known /\ order[n \div 2 + 1] \in known
    BY <1>5, <2>1
  <2>. QED
    BY <1>2, <1>6, <1>8, <2>2 DEF known
<1>. QED
  BY <1>7, <1>8

\* What leaves two values behind on one side leaves their mean behind, and what
\* is close to both is close to it.
LEMMA MeanOfTwo ==
  ASSUME NEW c \in Nat, NEW a \in Nat, NEW b \in Nat, NEW pct \in Nat
  PROVE  /\ /\ Tracker!Deviates(c, 2 * a, pct) /\ Tracker!Deviates(c, 2 * b, pct)
            /\ (c > a /\ c > b) \/ (c < a /\ c < b)
            => Tracker!Deviates(c, a + b, pct)
         /\ ~Tracker!Deviates(c, 2 * a, pct) /\ ~Tracker!Deviates(c, 2 * b, pct)
            => ~Tracker!Deviates(c, a + b, pct)
<1>. DEFINE p == pct * a
            q == pct * b
<1>1. p \in Nat /\ q \in Nat /\ pct * (2 * a) = 2 * p /\ pct * (2 * b) = 2 * q /\ pct * (a + b) = p + q
  OBVIOUS
<1>. HIDE DEF p, q
<1>. QED
  BY <1>1 DEF Tracker!Deviates, Tracker!Abs

\* The window of the baseline is among the latest runs.
LEMMA WindowIsLately ==
  ASSUME Tracker!RegressionAssumption, TrackerInv, tracker = "recorded",
         NEW w, w = Tracker!Window(recorded, Baseline)
  PROVE  /\ recorded \in Seq(Figures) /\ w \in Seq(Figures)
         /\ \A i \in 1..Len(w) : \E j \in DOMAIN Tracker!Lately : w[i] = Tracker!Lately[j]
         /\ Len(runs) - 1 > 2 * crashes => recorded # <<>> /\ Len(w) >= 1
<1>. DEFINE made == Tracker!Front(runs)
            l == Tracker!Lately
            n == Baseline + 2 * crashes
<1>1. runs \in Seq(Figures) /\ runs # <<>> /\ crashes \in Nat /\ Recent(recorded, made)
  BY DEF TrackerInv, TrackerTypeOK, Loaded
<1>2. made \in Seq(Figures) /\ Len(made) = Len(runs) - 1
  <2>1. Len(runs) \in Nat \ {0} /\ \A i \in 1..(Len(runs) - 1) : runs[i] \in Figures
    BY <1>1
  <2>2. made = SubSeq(runs, 1, Len(runs) - 1)
    BY DEF Tracker!Front
  <2>. HIDE DEF made
  <2>3. 1 \in Int /\ Len(runs) - 1 \in Int
    BY <2>1
  <2>4. /\ SubSeq(runs, 1, Len(runs) - 1) \in Seq(Figures)
        /\ Len(SubSeq(runs, 1, Len(runs) - 1)) = IF 1 <= Len(runs) - 1 THEN Len(runs) - 1 - 1 + 1 ELSE 0
    BY <2>1, <2>3, SubSeqProperties
  <2>5. Len(SubSeq(runs, 1, Len(runs) - 1)) = Len(runs) - 1
    <3>1. \A k \in Nat \ {0} : (IF 1 <= k - 1 THEN k - 1 - 1 + 1 ELSE 0) = k - 1
      OBVIOUS
    <3>. QED
      BY <2>1, <2>4, <3>1
  <2>. QED
    BY <2>2, <2>4, <2>5
<1>3. recorded \in Seq(Figures) /\ Len(made) <= Len(recorded) + 2 * crashes
  BY <1>1 DEF Recent
<1>4. Baseline \in Nat \ {0} /\ n \in Nat \ {0}
  BY <1>1 DEF Tracker!RegressionAssumption
<1>. HIDE DEF made
<1>5. l = Tracker!Window(made, n)
  BY DEF Tracker!Lately, made
<1>8. Len(made) \in Nat /\ Len(recorded) \in Nat
  BY <1>2, <1>3
<1>. HIDE DEF l, n
<1>11. PICK a \in Nat \ {0} : a = Len(made) - n + 1 \/ (a = 1 /\ Len(made) - n + 1 < 1)
  BY <1>4, <1>8, WindowStart
<1>12. PICK b \in Nat \ {0} : b = Len(recorded) - Baseline + 1 \/ (b = 1 /\ Len(recorded) - Baseline + 1 < 1)
  BY <1>4, <1>8, WindowStart
<1>6. l \in Seq(Figures) /\ Len(l) = Len(made) - a + 1 /\ \A i \in 1..(Len(made) - a + 1) : l[i] = made[a + i - 1]
  BY <1>2, <1>4, <1>5, <1>11, WindowOf
<1>7. /\ w \in Seq(Figures) /\ Len(w) = Len(recorded) - b + 1
      /\ \A i \in 1..(Len(recorded) - b + 1) : w[i] = recorded[b + i - 1]
  BY <1>3, <1>4, <1>12, WindowOf
<1>9. ASSUME NEW i \in 1..Len(w)
      PROVE  \E j \in DOMAIN l : w[i] = l[j]
  <2>. DEFINE k == b + i - 1
  <2>1. k \in b..Len(recorded) /\ k \in 1..Len(recorded) /\ w[i] = recorded[k]
    BY <1>4, <1>7, <1>8, <1>12
  <2>2. Len(recorded) - k + 1 <= Baseline
    BY <1>4, <1>8, <1>12, <2>1
  <2>. HIDE DEF k
  <2>3. PICK x \in 1..Len(made) : x > Len(made) - (Len(recorded) - k + 1) - 2 * crashes /\ recorded[k] = made[x]
    BY <1>1, <2>1 DEF Recent
  <2>4. x >= a /\ x <= Len(made)
    BY <1>1, <1>4, <1>8, <1>11, <2>1, <2>2, <2>3 DEF n
  <2>5. x - a + 1 \in 1..Len(l) /\ a + (x - a + 1) - 1 = x
    <3>1. x \in Int /\ a \in Int /\ Len(l) = Len(made) - a + 1 /\ Len(made) \in Int
      BY <1>6, <1>8
    <3>. QED
      BY <2>4, <3>1
  <2>6. l[x - a + 1] = made[x] /\ x - a + 1 \in DOMAIN l
    <3>1. x - a + 1 \in 1..(Len(made) - a + 1) /\ DOMAIN l = 1..Len(l)
      BY <1>6, <2>5
    <3>. QED
      BY <1>6, <2>5, <3>1
  <2>. QED
    BY <2>1, <2>3, <2>6
<1>10. Len(runs) - 1 > 2 * crashes => recorded # <<>> /\ Len(w) >= 1
  BY <1>1, <1>2, <1>3, <1>4, <1>7, <1>8, <1>12
<1>. QED
  BY <1>3, <1>7, <1>9, <1>10 DEF l

(* A verdict of the regression tracker answers for the runs that were made. *)
LEMMA CompareMatches ==
  ASSUME Tracker!RegressionAssumption, TrackerInv, Tracker!Compare,
         NEW seen, seen = {Tracker!Lately[i] : i \in DOMAIN Tracker!Lately}
  PROVE  /\ \A m \in Tracker!Metrics :
              /\ Tracker!Has(current, m) /\ Len(runs) - 1 > 2 * crashes
              /\ \A r \in seen : Tracker!Has(r, m)
              /\ (\A r \in seen : Tracker!Above(m, r)) \/ (\A r \in seen : Tracker!Below(m, r))
              => exit' = 1
         /\ (\A m \in Tracker!Metrics, r \in seen : Tracker!Has(current, m) /\ Tracker!Has(r, m) =>
                ~Tracker!Deviates(current[m], 2 * r[m], FailPct)) => exit' = 0
<1>. DEFINE w == Tracker!Window(recorded, Baseline)
            Base(m) == Tracker!BaselineValue(recorded, m)
<1>1. tracker = "recorded" /\ current \in Figures /\ FailPct \in Nat
  BY DEF Tracker!Compare, TrackerInv, TrackerTypeOK, Tracker!RegressionAssumption
<1>2. /\ recorded \in Seq(Figures) /\ w \in Seq(Figures) /\ \A i \in 1..Len(w) : w[i] \in seen
      /\ Len(runs) - 1 > 2 * crashes => recorded # <<>> /\ Len(w) >= 1
  BY <1>1, WindowIsLately
<1>3. \A m \in Tracker!Metrics :
        \/ (\A i \in 1..Len(w) : ~Tracker!Has(w[i], m)) /\ Base(m) = Tracker!Missing
        \/ \E i \in 1..Len(w), j \in 1..Len(w) :
              Tracker!Has(w[i], m) /\ Tracker!Has(w[j], m) /\ Base(m) = w[i][m] + w[j][m]
  BY <1>2, BaselineIsOfWindow
<1>. HIDE DEF w
<1>4. \A m \in Tracker!Metrics : Tracker!Status(recorded, m) = "FAIL" <=>
        Tracker!Has(current, m) /\ Base(m) # Tracker!Missing /\ Tracker!Deviates(current[m], Base(m), FailPct)
  BY DEF Tracker!Status
<1>. HIDE DEF Base
<1>5. exit' = IF recorded # <<>> /\ \E m \in Tracker!Metrics : Tracker!Status(recorded, m) = "FAIL" THEN 1 ELSE 0
  BY DEF Tracker!Compare
<1>6. \A m \in Tracker!Metrics, i \in 1..Len(w) : w[i][m] \in Nat /\ current[m] \in Nat
  BY <1>1, <1>2 DEF Figures
<1>7. ASSUME NEW m \in Tracker!Metrics, Tracker!Has(current, m), Len(runs) - 1 > 2 * crashes,
             \A r \in seen : Tracker!Has(r, m),
             (\A r \in seen : Tracker!Above(m, r)) \/ (\A r \in seen : Tracker!Below(m, r))
      PROVE  exit' = 1
  <2>1. 1 \in 1..Len(w) /\ recorded # <<>>
    BY <1>2, <1>7
  <2>2. PICK i \in 1..Len(w), j \in 1..Len(w) : Base(m) = w[i][m] + w[j][m]
    BY <1>2, <1>3, <1>7, <2>1
  <2>3. w[i] \in seen /\ w[j] \in seen
    BY <1>2
  <2>4. Base(m) # Tracker!Missing
    <3>1. w[i][m] # 0 /\ w[j][m] # 0
      BY <1>7, <2>3 DEF Tracker!Has, Tracker!Missing
    <3>. QED
      BY <1>6, <2>2, <3>1 DEF Tracker!Missing
  <2>5. Tracker!Deviates(current[m], w[i][m] + w[j][m], FailPct)
    <3>1. /\ Tracker!Deviates(current[m], 2 * w[i][m], FailPct) /\ Tracker!Deviates(current[m], 2 * w[j][m], FailPct)
          /\ \/ current[m] > w[i][m] /\ current[m] > w[j][m]
             \/ current[m] < w[i][m] /\ current[m] < w[j][m]
      BY <1>7, <2>3 DEF Tracker!Above, Tracker!Below
    <3>. QED
      BY <1>1, <1>6, <3>1, MeanOfTwo
  <2>. QED
    BY <1>4, <1>5, <1>7, <2>1, <2>2, <2>4, <2>5
<1>8. ASSUME \A m \in Tracker!Metrics, r \in seen : Tracker!Has(current, m) /\ Tracker!Has(r, m) =>
               ~Tracker!Deviates(current[m], 2 * r[m], FailPct)
      PROVE  exit' = 0
  <2>. SUFFICES ASSUME NEW m \in Tracker!Metrics, Tracker!Has(current, m), Base(m) # Tracker!Missing
               PROVE  ~Tracker!Deviates(current[m], Base(m), FailPct)
    BY <1>4, <1>5
  <2>1. PICK i \in 1..Len(w), j \in 1..Len(w) :
          Tracker!Has(w[i], m) /\ Tracker!Has(w[j], m) /\ Base(m) = w[i][m] + w[j][m]
    BY <1>3
  <2>2. /\ ~Tracker!Deviates(current[m], 2 * w[i][m], FailPct)
        /\ ~Tracker!Deviates(current[m], 2 * w[j][m], FailPct)
    BY <1>2, <1>8, <2>1
  <2>. QED
    BY <1>1, <1>6, <2>1, <2>2, MeanOfTwo
<1>. QED
  BY <1>7, <1>8

\* A step that leaves the file alone loses nothing.
LEMMA SurvivesRest ==
  ASSUME Survived, UNCHANGED <<file, open, runs, crashes>>
  PROVE  Survived'
<1>1. Good' = Good /\ Spoilt' = Spoilt
  BY DEF Good, Spoilt
<1>2. \A i : Since(i)' = Since(i)
  BY <1>1 DEF Since
<1>. QED
  BY <1>1, <1>2 DEF Survived

\* Every step of the tracker keeps the invariant.
LEMMA TrackerStep ==
  ASSUME Tracker!RegressionAssumption, TrackerInv, Tracker!Next
  PROVE  TrackerInv'
<1>1. CASE Tracker!Collect
  <2>1. UNCHANGED <<file, open, runs, crashes>> /\ tracker' \in {"idle", "loaded"}
    BY <1>1 DEF Tracker!Collect
  <2>2. tracker' = "loaded" => current' \in Figures /\ recorded' = Tracker!LoadHistory(file)
    <3>. SUFFICES ASSUME tracker' = "loaded"
                 PROVE  current' \in Figures /\ recorded' = Tracker!LoadHistory(file)
      OBVIOUS
    <3>1. PICK reports_ \in Reports : current' = Tracker!Collected(reports_) /\ recorded' = Tracker!LoadHistory(file)
      BY <1>1 DEF Tracker!Collect
    <3>2. \A m \in Tracker!Metrics : Tracker!Collected(reports_)[m] \in Nat
      BY DEF Tracker!RegressionAssumption
    <3>3. Tracker!Collected(reports_) = [m \in Tracker!Metrics |-> Tracker!Collected(reports_)[m]]
      BY DEF Tracker!Collected, Tracker!Metrics
    <3>. QED
      BY <3>1, <3>2, <3>3 DEF Figures
  <2>3. TrackerTypeOK' /\ Survived'
    BY <2>1, <2>2, SurvivesRest DEF TrackerInv, TrackerTypeOK
  <2>4. Loaded'
    <3>1. Recent(Tracker!LoadHistory(file), runs)
      BY ReadIsRecent DEF TrackerInv
    <3>. QED
      BY <2>1, <2>2, <3>1 DEF Loaded, Recent
  <2>. QED
    BY <2>3, <2>4 DEF TrackerInv
<1>2. CASE Tracker!Record
  <2>1. /\ tracker = "loaded" /\ tracker' = "recorded" /\ UNCHANGED <<current, recorded, crashes>> /\ open' = FALSE
        /\ file' = Tracker!Appended(current) /\ runs' = Append(runs, current)
    BY <1>2 DEF Tracker!Record
  <2>2. TrackerTypeOK /\ Survived /\ current \in Figures /\ Recent(recorded, runs)
    BY <2>1 DEF TrackerInv, TrackerTypeOK, Loaded
  <2>3. /\ Survived' /\ runs' \in Seq(Figures) /\ runs' # <<>> /\ Tracker!Front(runs') = runs
        /\ file' \in Seq(Figures \cup {Tracker!Garbage}) /\ file' # <<>>
    BY <2>1, <2>2, AppendStep
  <2>4. TrackerTypeOK'
    BY <2>1, <2>2, <2>3 DEF TrackerTypeOK
  <2>5. Loaded'
    BY <2>1, <2>2, <2>3 DEF Loaded, Recent
  <2>. QED
    BY <2>3, <2>4, <2>5 DEF TrackerInv
<1>3. CASE Tracker!Crash
  <2>1. /\ tracker = "loaded" /\ tracker' = "idle" /\ crashes' = crashes + 1 /\ open' = TRUE
        /\ runs' = Append(runs, current)
    BY <1>3 DEF Tracker!Crash
  <2>2. PICK text \in {Tracker!Garbage, current} : file' = Tracker!Appended(text)
    BY <1>3 DEF Tracker!Crash
  <2>3. TrackerTypeOK /\ Survived /\ current \in Figures
    BY <2>1 DEF TrackerInv, TrackerTypeOK
  <2>4. /\ Survived' /\ runs' \in Seq(Figures)
        /\ file' \in Seq(Figures \cup {Tracker!Garbage}) /\ file' # <<>>
    BY <2>1, <2>2, <2>3, AppendStep
  <2>5. TrackerTypeOK' /\ Loaded'
    BY <2>1, <2>3, <2>4 DEF TrackerTypeOK, Loaded
  <2>. QED
    BY <2>4, <2>5 DEF TrackerInv
<1>4. CASE Tracker!RecordOnly \/ Tracker!Compare
  <2>1. UNCHANGED <<file, open, runs, crashes>> /\ tracker' = "idle"
    BY <1>4 DEF Tracker!RecordOnly, Tracker!Compare
  <2>. QED
    BY <2>1, SurvivesRest DEF TrackerInv, TrackerTypeOK, Loaded
<1>. QED
  BY <1>1, <1>2, <1>3, <1>4 DEF Tracker!Next

\* An empty history is as recent as it can be.
LEMMA TrackerStart ==
  ASSUME Tracker!Init
  PROVE  TrackerInv
<1>1. TrackerTypeOK /\ Loaded
  <2>1. tracker = "idle" /\ runs = <<>> /\ file = <<>> /\ open = FALSE /\ crashes = 0
    BY DEF Tracker!Init
  <2>2. runs \in Seq(Figures) /\ file \in Seq(Figures \cup {Tracker!Garbage})
    BY <2>1
  <2>. QED
    BY <2>1, <2>2 DEF TrackerTypeOK, Loaded
<1>2. Good = {}
  BY DEF Tracker!Init, Good
<1>. QED
  BY <1>1, <1>2, FS_EmptySet DEF Tracker!Init, TrackerInv, Survived, Spoilt

TrackerEvidence == part = "tracker" => TrackerInv

(* Whatever crashes did to the file, the verdict of a comparison is that   *)
(* of runs that were really made, and not longer ago than two runs for     *)
(* every crash account for (test_regression.py record, load_history,       *)
(* baseline_value, compare).                                               *)
THEOREM VerdictMatchesRunsHolds == EvidenceSpec => VerdictMatchesRuns
<1>1. EvidenceInit => TrackerEvidence
  BY TrackerStart DEF EvidenceInit, TrackerEvidence
<1>2. TrackerEvidence /\ [EvidenceNext]_evidenceVars => TrackerEvidence'
  <2>. SUFFICES ASSUME TrackerEvidence, [EvidenceNext]_evidenceVars, part' = "tracker"
               PROVE  TrackerInv'
    BY DEF TrackerEvidence
  <2>1. CASE OfTracker /\ Tracker!Next
    BY <2>1, EvidenceAssumption, TrackerStep DEF OfTracker, TrackerEvidence
  <2>2. CASE UNCHANGED <<part, trackerVars>>
    <3>1. UNCHANGED <<file, open, runs, crashes>> /\ UNCHANGED <<tracker, current, recorded>> /\ TrackerInv
      BY <2>2 DEF trackerVars, TrackerEvidence
    <3>. QED
      BY <3>1, SurvivesRest DEF TrackerInv, TrackerTypeOK, Loaded, Recent
  <2>. QED
    BY <2>1, <2>2 DEF EvidenceNext, evidenceVars, OfPool, OfPairs, OfMark, OfProbe, OfScore, OfTracker,
       OfWindow, OfLegacy, OfSensing, OfBudget
<1>3. TrackerEvidence /\ [EvidenceNext]_evidenceVars =>
        [Tracker!Compare =>
           LET seen == {Tracker!Lately[i] : i \in DOMAIN Tracker!Lately}
           IN  /\ \A m \in Tracker!Metrics :
                    /\ Tracker!Has(current, m) /\ Len(runs) - 1 > 2 * crashes
                    /\ \A r \in seen : Tracker!Has(r, m)
                    /\ (\A r \in seen : Tracker!Above(m, r)) \/ (\A r \in seen : Tracker!Below(m, r))
                    => exit' = 1
               /\ (\A m \in Tracker!Metrics, r \in seen : Tracker!Has(current, m) /\ Tracker!Has(r, m) =>
                      ~Tracker!Deviates(current[m], 2 * r[m], FailPct)) => exit' = 0]_(Tracker!vars)
  <2>. SUFFICES ASSUME TrackerEvidence, EvidenceNext, Tracker!Compare, ~UNCHANGED trackerVars,
                      NEW seen, seen = {Tracker!Lately[i] : i \in DOMAIN Tracker!Lately}
               PROVE  /\ \A m \in Tracker!Metrics :
                           /\ Tracker!Has(current, m) /\ Len(runs) - 1 > 2 * crashes
                           /\ \A r \in seen : Tracker!Has(r, m)
                           /\ (\A r \in seen : Tracker!Above(m, r)) \/ (\A r \in seen : Tracker!Below(m, r))
                           => exit' = 1
                      /\ (\A m \in Tracker!Metrics, r \in seen : Tracker!Has(current, m) /\ Tracker!Has(r, m) =>
                             ~Tracker!Deviates(current[m], 2 * r[m], FailPct)) => exit' = 0
    BY DEF Tracker!vars, trackerVars, evidenceVars
  <2>1. part = "tracker"
    BY DEF EvidenceNext, OfPool, OfPairs, OfMark, OfProbe, OfScore, OfWindow, OfLegacy, OfSensing, OfBudget, OfTracker
  <2>. QED
    BY <2>1, EvidenceAssumption, CompareMatches DEF TrackerEvidence
<1>. QED
  BY <1>1, <1>2, <1>3, PTL DEF EvidenceSpec, VerdictMatchesRuns, Tracker!VerdictMatchesRuns

=============================================================================
