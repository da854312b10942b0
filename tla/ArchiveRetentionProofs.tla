----------------------- MODULE ArchiveRetentionProofs -----------------------
(***************************************************************************)
(* The safety of retention for any number of workers, windows and archives *)
(* and any Keep.  A process that deletes works from a list it read earlier *)
(* under the lock; the invariant says what of that list is still true.     *)
(***************************************************************************)
EXTENDS ArchiveRetention, FiniteSetTheorems, SequenceTheorems, TLAPS

\* Workers that have begun an archive.
Begun == {w \in Workers : pc[w] # "off"}

\* The clock counts archives begun.
Counted == clock = Cardinality(Old) + Cardinality(Begun)

\* The lock is held exactly by the process that lists or deletes.
LockHeld == \A p \in Processes : pc[p] \in {"list", "delete", "removing"} <=> lock = p

\* What a worker's place says about its archive; windows write none.
Places ==
  /\ \A w \in Workers : /\ pc[w] = "off" => dir[w] = "absent"
                        /\ pc[w] = "boot" => dir[w] = "empty"
                        /\ pc[w] = "running" => writer[w] = w
  /\ \A v \in Windows : pc[v] \notin {"boot", "running", "publish"}

\* An entry still describes a directory that was an archive, and names the
\* writer of one that is still being written.
Sound(d) ==
  /\ dir[d.archive] \notin {"absent", "empty"}
  /\ d.archive \in Workers /\ pc[d.archive] = "running" => d.writer = d.archive

ListFresh ==
  \A p \in Processes : pc[p] \in {"delete", "removing"} =>
    /\ \A i \in 1..Len(doomed[p]) : Sound(doomed[p][i])
    /\ \A i, j \in 1..Len(doomed[p]) :
         i # j => doomed[p][i].archive # doomed[p][j].archive

\* A directory is only taken apart when its worker has finished with it.
VictimFinished ==
  \A p \in Processes : pc[p] = "removing" =>
    /\ doomed[p] # <<>>
    /\ Victim(p).archive \in Workers => pc[Victim(p).archive] \notin {"off", "boot", "running"}

IInv == TypeOK /\ Counted /\ LockHeld /\ Places /\ ListFresh /\ VictimFinished /\ UnfinishedSurvives

Entry == [archive : Old \cup Workers, writer : Workers \cup {NoProcess}]

-----------------------------------------------------------------------------
\* Workers can be counted, and no set of them is larger than all.
LEMMA WorkersFinite ==
  /\ IsFiniteSet(Workers) /\ Cardinality(Workers) \in Nat /\ Cardinality(Old) \in Nat
  /\ \A S \in SUBSET Workers : IsFiniteSet(S) /\ Cardinality(S) \in Nat /\ Cardinality(S) <= Cardinality(Workers)
<1>1. IsFiniteSet(Workers) /\ IsFiniteSet(Old)
  BY ArchivesAssumption, FS_Subset DEF Archives
<1>. QED
  BY <1>1, FS_Subset, FS_CardinalityType

\* What List may choose from: every archive has one place.
LEMMA Listing ==
  ASSUME NEW order \in SetToSeqs(Owned)
  PROVE  /\ order \in Seq(Owned)
         /\ \A i, j \in 1..Len(order) : i # j => order[i] # order[j]
         /\ \A a \in Owned : \E i \in 1..Len(order) : order[i] = a
<1>1. IsFiniteSet(Owned) /\ Cardinality(Owned) \in Nat
  BY ArchivesAssumption, FS_Subset, FS_CardinalityType DEF Owned
<1>2. /\ order \in [1..Cardinality(Owned) -> Owned]
      /\ \A i, j \in 1..Cardinality(Owned) : i # j => order[i] # order[j]
  BY DEF SetToSeqs
<1>3. order \in Seq(Owned) /\ Len(order) = Cardinality(Owned)
  BY <1>1, <1>2, SeqDef, LenProperties
<1>4. \A a \in Owned : \E i \in 1..Cardinality(Owned) : order[i] = a
  <2>1. order \in Injection(1..Cardinality(Owned), Owned)
    BY <1>2 DEF Injection, IsInjective
  <2>2. Cardinality(1..Cardinality(Owned)) = Cardinality(Owned)
    BY <1>1, FS_Interval
  <2>3. order \in Surjection(1..Cardinality(Owned), Owned)
    BY <1>1, <2>1, <2>2, FS_Injection
  <2>. QED
    BY <2>3 DEF Surjection
<1>. QED
  BY <1>2, <1>3, <1>4

\* The rest of a list holds what the list held, one place later.
LEMMA TailOf ==
  ASSUME NEW S, NEW s \in Seq(S), s # <<>>
  PROVE  /\ Tail(s) \in Seq(S) /\ Len(Tail(s)) = Len(s) - 1 /\ Len(s) \in Nat \ {0}
         /\ Head(s) = s[1] /\ Head(s) \in S
         /\ \A i \in 1..Len(Tail(s)) : i + 1 \in 1..Len(s) /\ Tail(s)[i] = s[i + 1]
  BY HeadTailProperties, EmptySeq, LenProperties, ElementOfSeq

\* Before any process starts the invariant holds: no list, no lock.
LEMMA InitIInv == Init => IInv
<1> SUFFICES ASSUME Init PROVE IInv
  OBVIOUS
<1>. USE ArchivesAssumption, BoundsAssumption DEF Init, Processes, Archives
<1>1. TypeOK
  <2>1. /\ <<>> \in Seq(Entry) /\ 0 \in 0..MaxFaults
        /\ 0..Cardinality(Old) \subseteq 0..(Cardinality(Old) + Cardinality(Workers))
        /\ Cardinality(Old) \in 0..(Cardinality(Old) + Cardinality(Workers))
    BY WorkersFinite, EmptySeq
  <2>. QED
    BY <2>1 DEF TypeOK, Entry
<1>2. Counted
  <2>1. Begun = {}
    BY DEF Begun
  <2>. QED
    BY <2>1, FS_EmptySet, WorkersFinite DEF Counted
<1>3. LockHeld /\ Places /\ ListFresh /\ VictimFinished
  BY DEF LockHeld, Places, ListFresh, VictimFinished
<1>4. UnfinishedSurvives
  BY DEF UnfinishedSurvives
<1>. QED
  BY <1>1, <1>2, <1>3, <1>4 DEF IInv

-----------------------------------------------------------------------------
\* Only Begin moves the clock.
LEMMA BegunStays ==
  ASSUME TypeOK, Counted, NEW p \in Processes, NEW place, Goto(p, place),
         pc[p] # "off" \/ p \notin Workers, place # "off", clock' = clock
  PROVE  Counted'
<1>1. Begun' = Begun
  BY DEF Begun, Goto, TypeOK
<1>. QED
  BY <1>1 DEF Counted

\* The steps that leave directories and lists alone: places and the lock.
Quiet(p) == Release(p) \/ Open(p) \/ Skip(p) \/ Lock(p) \/ Unlock(p) \/ Publish(p) \/ Crash(p)

\* None of them disturbs the invariant.
LEMMA QuietStep == ASSUME IInv, NEW p \in Processes, Quiet(p) PROVE IInv'
<1>. USE ArchivesAssumption DEF IInv, At, Goto, AfterPrune, Live
<1>1. /\ UNCHANGED <<dir, stamp, doomed, clock>>
      /\ \E place \in {"prune", "publish", "done", "list", "failed", "dead"} : Goto(p, place)
      /\ pc[p] # "off" \/ p \notin Workers
  BY DEF Quiet, Release, Open, Skip, Lock, Unlock, Publish, Crash
<1>2. TypeOK'
  <2>1. CASE Release(p) \/ Open(p) \/ Skip(p) \/ Lock(p) \/ Unlock(p) \/ Publish(p)
    BY <2>1 DEF TypeOK, Processes, Archives, Release, Open, Skip, Lock, Unlock, Publish
  <2>2. CASE Crash(p)
    <3>1. faults' \in 0..MaxFaults
      BY <2>2, BoundsAssumption DEF TypeOK, Crash, Fault
    <3>2. lock' \in Processes \cup {NoProcess}
      BY <2>2 DEF TypeOK, Crash
    <3>. QED
      BY <2>2, <3>1, <3>2 DEF TypeOK, Crash
  <2>. QED
    BY <2>1, <2>2 DEF Quiet
<1>3. Counted'
  BY <1>1, BegunStays
<1>4. LockHeld'
  BY DEF LockHeld, TypeOK, Quiet, Release, Open, Skip, Lock, Unlock, Publish, Crash
<1>5. Places'
  <2>1. CASE Release(p)
    BY <2>1 DEF Places, TypeOK, Archives, Processes, Release
  <2>2. CASE ~Release(p)
    BY <2>2 DEF Places, TypeOK, Archives, Processes, Quiet, Open, Skip, Lock, Unlock, Publish, Crash
  <2>. QED
    BY <2>1, <2>2
<1>6. ListFresh'
  BY <1>1 DEF ListFresh, Sound, TypeOK, Processes, Quiet, Release, Open, Skip, Lock, Unlock, Publish, Crash
<1>7. VictimFinished'
  BY <1>1 DEF VictimFinished, Victim, TypeOK, Processes
<1>8. UnfinishedSurvives'
  BY <1>1 DEF UnfinishedSurvives, TypeOK, Processes
<1>. QED
  BY <1>2, <1>3, <1>4, <1>5, <1>6, <1>7, <1>8

\* A worker's directory appears: it was absent, hence on nobody's list.
LEMMA BeginStep == ASSUME IInv, NEW p \in Processes, Begin(p) PROVE IInv'
<1>. USE ArchivesAssumption DEF IInv, At, Goto, Begin
<1>1. p \in Workers /\ p \in Archives
  BY DEF Archives
<1>2. Counted' /\ clock' <= Cardinality(Old) + Cardinality(Workers)
  <2>1. Begun' = Begun \cup {p} /\ p \notin Begun /\ Begun \in SUBSET Workers
    BY <1>1 DEF Begun, TypeOK, Processes
  <2>2. Cardinality(Begun') = Cardinality(Begun) + 1
    BY <2>1, WorkersFinite, FS_AddElement
  <2>3. Begun' \in SUBSET Workers
    BY <1>1, <2>1
  <2>4. \A o, b, n \in Nat : o + b + 1 = o + (b + 1) /\ (b + 1 <= n => o + (b + 1) <= o + n)
    OBVIOUS
  <2>5. clock' = Cardinality(Old) + Cardinality(Begun) + 1 /\ Cardinality(Begun) \in Nat
    BY <2>1, WorkersFinite DEF Counted
  <2>6. Cardinality(Begun) + 1 <= Cardinality(Workers)
    BY <2>2, <2>3, WorkersFinite
  <2>7. clock' = Cardinality(Old) + (Cardinality(Begun) + 1)
    BY <2>4, <2>5, WorkersFinite
  <2>8. Counted'
    BY <2>2, <2>7 DEF Counted
  <2>. QED
    BY <2>4, <2>5, <2>6, <2>7, <2>8, WorkersFinite
<1>3. TypeOK'
  <2>1. clock' \in 0..(Cardinality(Old) + Cardinality(Workers))
    BY <1>2, WorkersFinite DEF TypeOK
  <2>. QED
    BY <1>1, <2>1 DEF TypeOK
<1>4. LockHeld' /\ Places'
  BY <1>1 DEF LockHeld, Places, TypeOK, Processes
<1>5. dir[p] = "absent"
  BY <1>1 DEF Places
<1>6. ListFresh'
  BY <1>1, <1>5 DEF ListFresh, Sound, TypeOK, Processes, Archives
<1>7. VictimFinished'
  BY <1>1 DEF VictimFinished, Victim, TypeOK, Processes
<1>8. UnfinishedSurvives'
  BY <1>1 DEF UnfinishedSurvives, TypeOK, Processes
<1>. QED
  BY <1>2, <1>3, <1>4, <1>6, <1>7, <1>8

\* Its first manifest appears: an empty directory is on nobody's list either.
LEMMA AnnounceStep == ASSUME IInv, NEW p \in Processes, Announce(p) PROVE IInv'
<1>. USE ArchivesAssumption DEF IInv, At, Goto, Announce
<1>1. p \in Workers /\ p \in Archives /\ dir[p] = "empty"
  BY DEF Archives, Places, Processes
<1>2. Counted'
  BY BegunStays
<1>3. TypeOK'
  BY <1>1 DEF TypeOK
<1>4. LockHeld' /\ Places'
  BY <1>1 DEF LockHeld, Places, TypeOK, Processes, Archives
<1>5. ListFresh'
  BY <1>1 DEF ListFresh, Sound, TypeOK, Processes, Archives
<1>6. VictimFinished'
  BY <1>1 DEF VictimFinished, Victim, TypeOK, Processes
<1>7. UnfinishedSurvives'
  BY <1>1 DEF UnfinishedSurvives, TypeOK, Processes
<1>. QED
  BY <1>2, <1>3, <1>4, <1>5, <1>6, <1>7

-----------------------------------------------------------------------------
\* The steps of a prune.
\* The list made of it: what comes after the first Keep, with the writers read.
LEMMA ListMade ==
  ASSUME IInv, NEW p \in Processes, List(p)
  PROVE  \E order \in SetToSeqs(Owned), list \in Seq(Entry) :
           /\ NewestFirst(order)
           /\ \A i \in 1..Len(list) :
                /\ i + Keep \in 1..Len(order) /\ order[i + Keep] \in Owned
                /\ list[i].archive = order[i + Keep] /\ list[i].writer = writer[order[i + Keep]]
           /\ \A j \in 1..Len(order) : j > Keep => j - Keep \in 1..Len(list) /\ j = (j - Keep) + Keep
           /\ doomed' = [doomed EXCEPT ![p] = list]
<1>1. PICK order \in SetToSeqs(Owned) :
        /\ NewestFirst(order)
        /\ doomed' = [doomed EXCEPT ![p] =
            [i \in 1..(Len(order) - Keep) |->
               [archive |-> order[i + Keep], writer |-> writer[order[i + Keep]]]]]
  BY DEF List
<1>. DEFINE n == Len(order) - Keep
            list == [i \in 1..n |->
                       [archive |-> order[i + Keep], writer |-> writer[order[i + Keep]]]]
<1>2. order \in Seq(Owned) /\ Len(order) \in Nat
  BY Listing, LenProperties
<1>3. \A i \in 1..n : i + Keep \in 1..Len(order) /\ order[i + Keep] \in Owned
  BY <1>2, BoundsAssumption, ElementOfSeq
<1>4. list \in Seq(Entry) /\ (list # <<>> => Len(list) = n) /\ \A i \in 1..Len(list) : i \in 1..n
  <2>1. \A i \in 1..n : list[i] \in Entry
    BY <1>3 DEF Entry, IInv, TypeOK, Owned, Archives
  <2>2. CASE n \in Nat
    BY <2>1, <2>2, SeqDef, LenProperties
  <2>3. CASE n \notin Nat
    <3>1. 1..n = {}
      BY <1>2, <2>3, BoundsAssumption
    <3>2. list = <<>>
      BY <3>1
    <3>3. list \in Seq(Entry) /\ Len(list) = 0
      BY <3>2, EmptySeq
    <3>. HIDE DEF list
    <3>. QED
      BY <3>2, <3>3
  <2>. QED
    BY <2>2, <2>3
<1>5. \A i \in 1..Len(list) :
        /\ i + Keep \in 1..Len(order) /\ order[i + Keep] \in Owned
        /\ list[i].archive = order[i + Keep] /\ list[i].writer = writer[order[i + Keep]]
  BY <1>3, <1>4
<1>6. \A j \in 1..Len(order) : j > Keep => j - Keep \in 1..Len(list) /\ j = (j - Keep) + Keep
  <2> SUFFICES ASSUME NEW j \in 1..Len(order), j > Keep
               PROVE  j - Keep \in 1..Len(list) /\ j = (j - Keep) + Keep
    OBVIOUS
  <2>1. j - Keep \in 1..n /\ j = (j - Keep) + Keep
    BY <1>2, BoundsAssumption
  <2>2. list # <<>>
    <3>1. DOMAIN list = 1..n
      OBVIOUS
    <3>2. list = <<>> => 1..n = {}
      BY <3>1
    <3>. QED
      BY <2>1, <3>2
  <2>. QED
    BY <1>4, <2>1, <2>2
<1>. HIDE DEF list
<1>. QED
  BY <1>1, <1>4, <1>5, <1>6 DEF list

LEMMA ListStep == ASSUME IInv, NEW p \in Processes, List(p) PROVE IInv'
<1>. USE ArchivesAssumption DEF IInv, At, Goto
<1>1. PICK order \in SetToSeqs(Owned), list \in Seq(Entry) :
        /\ \A i \in 1..Len(list) :
             /\ i + Keep \in 1..Len(order) /\ order[i + Keep] \in Owned
             /\ list[i].archive = order[i + Keep] /\ list[i].writer = writer[order[i + Keep]]
        /\ doomed' = [doomed EXCEPT ![p] = list]
  BY ListMade
<1>2. \A i, j \in 1..Len(order) : i # j => order[i] # order[j]
  BY Listing
<1>3. UNCHANGED <<dir, stamp, writer, lock, clock, faults, skipped>>
      /\ pc[p] = "list" /\ pc' = [pc EXCEPT ![p] = "delete"] /\ lastRead' = p
  BY DEF List
<1>4. TypeOK'
  BY <1>1, <1>3 DEF TypeOK, Entry
<1>5. Counted'
  BY <1>3, BegunStays
<1>6. LockHeld' /\ Places'
  BY <1>3 DEF LockHeld, Places, TypeOK, Processes
<1>7. ListFresh'
  <2>1. \A i \in 1..Len(list) : Sound(list[i])
    <3> SUFFICES ASSUME NEW i \in 1..Len(list) PROVE Sound(list[i])
      OBVIOUS
    <3>1. order[i + Keep] \in Owned /\ list[i].writer = writer[order[i + Keep]]
          /\ list[i].archive = order[i + Keep]
      BY <1>1
    <3>. QED
      BY <3>1 DEF Sound, Owned, Places
  <2>2. \A i, j \in 1..Len(list) : i # j => list[i].archive # list[j].archive
    <3> SUFFICES ASSUME NEW i \in 1..Len(list), NEW j \in 1..Len(list), i # j
                 PROVE  list[i].archive # list[j].archive
      OBVIOUS
    <3>1. list[i].archive = order[i + Keep] /\ list[j].archive = order[j + Keep]
      BY <1>1
    <3>2. /\ i + Keep \in 1..Len(order) /\ j + Keep \in 1..Len(order)
          /\ i + Keep # j + Keep
      BY <1>1, BoundsAssumption
    <3>. QED
      BY <1>2, <3>1, <3>2
  <2>3. /\ doomed'[p] = list
        /\ \A q \in Processes \ {p} : doomed'[q] = doomed[q] /\ pc'[q] = pc[q]
    BY <1>1, <1>3 DEF TypeOK
  <2>4. dir' = dir /\ \A w \in Workers : pc'[w] = "running" => pc[w] = "running"
    BY <1>3 DEF TypeOK
  <2>. QED
    BY <1>3, <2>1, <2>2, <2>3, <2>4 DEF ListFresh, Sound
<1>8. VictimFinished'
  BY <1>1, <1>3 DEF VictimFinished, Victim, TypeOK, Processes
<1>9. UnfinishedSurvives'
  BY <1>3 DEF UnfinishedSurvives, TypeOK, Processes
<1>. QED
  BY <1>4, <1>5, <1>6, <1>7, <1>8, <1>9

\* What a deleting process knows of the head and of the rest of its list.
LEMMA HeadAndRest ==
  ASSUME IInv, NEW p \in Processes, pc[p] \in {"delete", "removing"}, doomed[p] # <<>>
  PROVE  /\ Victim(p) \in Entry /\ Sound(Victim(p))
         /\ Tail(doomed[p]) \in Seq(Entry)
         /\ \A i \in 1..Len(Tail(doomed[p])) :
              /\ Sound(Tail(doomed[p])[i])
              /\ Tail(doomed[p])[i].archive # Victim(p).archive
         /\ \A i, j \in 1..Len(Tail(doomed[p])) :
              i # j => Tail(doomed[p])[i].archive # Tail(doomed[p])[j].archive
         /\ \A q \in Processes \ {p} : pc[q] \notin {"list", "delete", "removing"}
<1>1. doomed[p] \in Seq(Entry)
  BY DEF IInv, TypeOK, Entry
<1>2. /\ Tail(doomed[p]) \in Seq(Entry) /\ Len(Tail(doomed[p])) = Len(doomed[p]) - 1
      /\ Len(doomed[p]) \in Nat \ {0} /\ Victim(p) = doomed[p][1] /\ Victim(p) \in Entry
      /\ \A i \in 1..Len(Tail(doomed[p])) :
           i + 1 \in 1..Len(doomed[p]) /\ Tail(doomed[p])[i] = doomed[p][i + 1]
  BY <1>1, TailOf DEF Victim
<1>3. /\ \A i \in 1..Len(doomed[p]) : Sound(doomed[p][i])
      /\ \A i, j \in 1..Len(doomed[p]) : i # j => doomed[p][i].archive # doomed[p][j].archive
  BY DEF IInv, ListFresh
<1>4. \A i, j \in 1..Len(Tail(doomed[p])) :
        i # j => Tail(doomed[p])[i].archive # Tail(doomed[p])[j].archive
  <2> SUFFICES ASSUME NEW i \in 1..Len(Tail(doomed[p])), NEW j \in 1..Len(Tail(doomed[p])), i # j
               PROVE  doomed[p][i + 1].archive # doomed[p][j + 1].archive
    BY <1>2
  <2>1. i + 1 # j + 1
    BY <1>2
  <2>. QED
    BY <1>2, <1>3, <2>1
<1>5. \A i \in 1..Len(Tail(doomed[p])) : Tail(doomed[p])[i].archive # Victim(p).archive
  <2> SUFFICES ASSUME NEW i \in 1..Len(Tail(doomed[p]))
               PROVE  doomed[p][i + 1].archive # doomed[p][1].archive
    BY <1>2
  <2>1. i + 1 # 1 /\ 1 \in 1..Len(doomed[p])
    BY <1>2
  <2>. QED
    BY <1>2, <1>3, <2>1
<1>6. \A i \in 1..Len(Tail(doomed[p])) : Sound(Tail(doomed[p])[i])
  BY <1>2, <1>3
<1>7. Sound(Victim(p))
  BY <1>2, <1>3
<1>8. \A q \in Processes \ {p} : pc[q] \notin {"list", "delete", "removing"}
  BY DEF IInv, LockHeld
<1>. QED
  BY <1>2, <1>4, <1>5, <1>6, <1>7, <1>8

\* Passing over an entry leaves the rest of the list as good as it was.
LEMMA SpareStep == ASSUME IInv, NEW p \in Processes, Spare(p) PROVE IInv'
<1>. USE ArchivesAssumption DEF IInv, At, Spare, NextVictim
<1>1. TypeOK'
  BY HeadAndRest DEF TypeOK, Entry
<1>2. Counted' /\ LockHeld' /\ Places'
  BY DEF Counted, Begun, LockHeld, Places
<1>3. ListFresh'
  <2>1. doomed'[p] = Tail(doomed[p]) /\ \A q \in Processes \ {p} : doomed'[q] = doomed[q]
    BY DEF TypeOK
  <2>. QED
    BY <2>1, HeadAndRest DEF ListFresh, Sound
<1>4. VictimFinished'
  BY HeadAndRest DEF VictimFinished
<1>5. UnfinishedSurvives'
  BY DEF UnfinishedSurvives
<1>. QED
  BY <1>1, <1>2, <1>3, <1>4, <1>5

\* The entry taken apart is not one whose worker still writes.
LEMMA BeginRemovalStep == ASSUME IInv, NEW p \in Processes, BeginRemoval(p) PROVE IInv'
<1>. USE ArchivesAssumption DEF IInv, At, Goto, BeginRemoval
<1>. DEFINE a == Victim(p).archive
<1>1. PICK left \in {"torn", "debris"} : dir' = [dir EXCEPT ![a] = left]
  OBVIOUS
<1>2. a \in Old \cup Workers /\ dir[a] \notin {"absent", "empty"} /\ a \in Archives /\ a \notin Legacy
  BY HeadAndRest DEF Entry, Sound, Archives
<1>3. a \in Workers => pc[a] \notin {"off", "boot", "running"}
  <2>1. a \in Workers => pc[a] \notin {"off", "boot"}
    BY <1>2 DEF Places
  <2>2. CASE a \in Workers /\ pc[a] = "running"
    <3>1. Victim(p).writer = a
      BY <2>2, HeadAndRest DEF Sound
    <3>2. ActiveWriter(a)
      BY <2>2 DEF ActiveWriter, Live, Processes
    <3>. QED
      BY <3>1, <3>2
  <2>. QED
    BY <2>1, <2>2
<1>. HIDE DEF a
<1>4. /\ pc' = [pc EXCEPT ![p] = "removing"] /\ pc[p] = "delete" /\ doomed[p] # <<>>
      /\ UNCHANGED <<stamp, writer, lock, doomed, skipped, lastRead, clock, faults>>
      /\ a = Victim(p).archive /\ (a = Victim(p).archive)'
  BY DEF a, Victim
<1>5. TypeOK'
  BY <1>1, <1>2, <1>4 DEF TypeOK
<1>6. Counted'
  BY <1>4, BegunStays
<1>7. LockHeld' /\ Places'
  BY <1>1, <1>2, <1>3, <1>4 DEF LockHeld, Places, TypeOK, Processes, Archives
<1>8. ListFresh'
  BY <1>1, <1>2, <1>4 DEF ListFresh, Sound, TypeOK, Processes
<1>9. VictimFinished'
  BY <1>3, <1>4 DEF VictimFinished, Victim, TypeOK, Processes
<1>10. UnfinishedSurvives'
  BY <1>1, <1>2, <1>3, <1>4 DEF UnfinishedSurvives, TypeOK, Processes
<1>. QED
  BY <1>5, <1>6, <1>7, <1>8, <1>9, <1>10

\* A removal that ends, in success or with an error, and the rest of the list.
LEMMA EndRemovalStep ==
  ASSUME IInv, NEW p \in Processes, EndRemoval(p) \/ FailRemoval(p) PROVE IInv'
<1>. USE ArchivesAssumption DEF IInv, At, Goto, NextVictim
<1>. DEFINE a == Victim(p).archive
<1>1. /\ pc[p] = "removing" /\ pc' = [pc EXCEPT ![p] = "delete"]
      /\ dir' = dir \/ dir' = [dir EXCEPT ![a] = "absent"]
      /\ doomed' = [doomed EXCEPT ![p] = Tail(@)]
      /\ UNCHANGED <<stamp, writer, lock, skipped, lastRead, clock>>
      /\ faults' \in 0..MaxFaults
  BY BoundsAssumption DEF EndRemoval, FailRemoval, Fault, TypeOK
<1>2. doomed[p] # <<>> /\ (a \in Workers => pc[a] \notin {"off", "boot", "running"})
  BY <1>1 DEF VictimFinished
<1>3. a \in Old \cup Workers /\ a \in Archives /\ a \notin Legacy
  BY <1>1, <1>2, HeadAndRest DEF Entry, Archives
<1>4. /\ doomed'[p] = Tail(doomed[p]) /\ doomed'[p] \in Seq(Entry)
      /\ \A q \in Processes \ {p} : pc'[q] \notin {"delete", "removing"}
      /\ \A i \in 1..Len(doomed'[p]) :
           /\ Sound(doomed'[p][i]) /\ doomed'[p][i].archive # a
           /\ doomed'[p][i].archive \in Archives
      /\ \A i, j \in 1..Len(doomed'[p]) : i # j => doomed'[p][i].archive # doomed'[p][j].archive
  <2>1. doomed'[p] = Tail(doomed[p]) /\ \A q \in Processes \ {p} : pc'[q] = pc[q]
    BY <1>1 DEF TypeOK
  <2>2. /\ Tail(doomed[p]) \in Seq(Entry)
        /\ \A i \in 1..Len(Tail(doomed[p])) :
             Sound(Tail(doomed[p])[i]) /\ Tail(doomed[p])[i].archive # a
        /\ \A i, j \in 1..Len(Tail(doomed[p])) :
             i # j => Tail(doomed[p])[i].archive # Tail(doomed[p])[j].archive
        /\ \A q \in Processes \ {p} : pc[q] \notin {"list", "delete", "removing"}
    BY <1>1, <1>2, HeadAndRest
  <2>3. \A i \in 1..Len(Tail(doomed[p])) : Tail(doomed[p])[i].archive \in Archives
    <3>1. \A i \in 1..Len(Tail(doomed[p])) : Tail(doomed[p])[i] \in Entry
      BY <2>2, ElementOfSeq
    <3>2. \A d \in Entry : d.archive \in Archives
      BY DEF Entry, Archives
    <3>. QED
      BY <3>1, <3>2
  <2>. HIDE DEF a
  <2>. QED
    BY <2>1, <2>2, <2>3
<1>. HIDE DEF a
<1>5. TypeOK'
  BY <1>1, <1>3, <1>4 DEF TypeOK, Entry
<1>6. Counted'
  BY <1>1, BegunStays
<1>7. LockHeld' /\ Places'
  BY <1>1, <1>2, <1>3 DEF LockHeld, Places, TypeOK, Processes, Archives
<1>8. ListFresh'
  <2>1. \A i \in 1..Len(doomed'[p]) : dir'[doomed'[p][i].archive] = dir[doomed'[p][i].archive]
    BY <1>1, <1>4 DEF TypeOK
  <2>2. \A w \in Workers : pc'[w] = "running" => pc[w] = "running"
    BY <1>1 DEF TypeOK
  <2>. QED
    <3>1. \A i \in 1..Len(doomed'[p]) :
            /\ dir'[doomed'[p][i].archive] \notin {"absent", "empty"}
            /\ doomed'[p][i].archive \in Workers /\ pc'[doomed'[p][i].archive] = "running" =>
                 doomed'[p][i].writer = doomed'[p][i].archive
      BY <1>4, <2>1, <2>2 DEF Sound
    <3>2. ASSUME NEW q \in Processes, pc'[q] \in {"delete", "removing"} PROVE q = p
      BY <1>4, <3>2
    <3>. QED
      BY <1>4, <3>1, <3>2 DEF ListFresh, Sound
<1>9. VictimFinished'
  BY <1>1, <1>4 DEF VictimFinished, TypeOK
<1>10. UnfinishedSurvives'
  BY <1>1, <1>2, <1>3 DEF UnfinishedSurvives, TypeOK, Processes
<1>. QED
  BY <1>5, <1>6, <1>7, <1>8, <1>9, <1>10

-----------------------------------------------------------------------------
\* In every reachable state of the specification the invariant holds.
THEOREM Inductive == Spec => []IInv
<1>1. IInv /\ [Next]_vars => IInv'
  <2> SUFFICES ASSUME IInv, [Next]_vars PROVE IInv'
    OBVIOUS
  <2>1. CASE UNCHANGED vars
    <3>1. TypeOK' /\ Counted' /\ LockHeld' /\ Places'
      BY <2>1 DEF vars, IInv, TypeOK, Counted, Begun, LockHeld, Places
    <3>2. ListFresh'
      BY <2>1 DEF vars, IInv, ListFresh, Sound
    <3>3. VictimFinished' /\ UnfinishedSurvives'
      BY <2>1 DEF vars, IInv, VictimFinished, Victim, UnfinishedSurvives
    <3>. QED
      BY <3>1, <3>2, <3>3 DEF IInv
  <2>2. ASSUME NEW p \in Processes, Quiet(p) PROVE IInv'
    BY <2>2, QuietStep
  <2>3. ASSUME NEW p \in Processes, Begin(p) \/ Announce(p) PROVE IInv'
    BY <2>3, BeginStep, AnnounceStep
  <2>4. ASSUME NEW p \in Processes, List(p) \/ Spare(p) PROVE IInv'
    BY <2>4, ListStep, SpareStep
  <2>5. ASSUME NEW p \in Processes, BeginRemoval(p) \/ EndRemoval(p) \/ FailRemoval(p) PROVE IInv'
    BY <2>5, BeginRemovalStep, EndRemovalStep
  <2>. QED
    BY <2>1, <2>2, <2>3, <2>4, <2>5 DEF Next, Quiet
<1>. QED
  BY <1>1, InitIInv, PTL DEF Spec

\* Every state is well typed, whatever the numbers of processes and archives.
THEOREM TypeCorrect == Spec => []TypeOK
<1>1. IInv => TypeOK
  BY DEF IInv
<1>. QED
  BY <1>1, Inductive, PTL

\* No prune, of a list however old, touches the archive of a worker that still
\* writes, or files that are not the application's (result_storage.py:219).
THEOREM UnfinishedSurvivesHolds == Spec => []UnfinishedSurvives
<1>1. IInv => UnfinishedSurvives
  BY DEF IInv
<1>. QED
  BY <1>1, Inductive, PTL

\* While a process deletes, nobody else removes anything, and what is on its
\* list is still there (the lock of result_storage.py:183).
THEOREM OnlyOneDeletesHolds == Spec => []OnlyOneDeletes
<1>1. IInv => OnlyOneDeletes
  BY DEF IInv, LockHeld, ListFresh, Sound, OnlyOneDeletes
<1>. QED
  BY <1>1, Inductive, PTL

-----------------------------------------------------------------------------
(***************************************************************************)
(* The newest rounds are kept.  A list is older than the deletions made    *)
(* from it, so it does not help to count the archives when one is deleted: *)
(* the invariant counts those newer than an entry that are on no list.     *)
(***************************************************************************)

\* The place of an archive is its own, and later ones come after it.
Stamps ==
  /\ \A a \in Archives : stamp[a] <= clock
  /\ \A a \in Old : stamp[a] > 0
  /\ \A w \in Workers : stamp[w] > 0 <=> pc[w] # "off"
  /\ \A a, b \in Archives \ Legacy : stamp[a] = stamp[b] /\ stamp[a] > 0 => a = b

Deleting(p) == pc[p] \in {"delete", "removing"}
Newer(a) == {b \in Archives \ Legacy : dir[b] = "whole" /\ stamp[b] >= stamp[a]}
Doomed(p) == {doomed[p][i].archive : i \in 1..Len(doomed[p])}
Kept(p, a) == Newer(a) \ Doomed(p)

\* What is on a list has Keep newer archives that are not on it.
KeepsEnough ==
  \A p \in Processes : Deleting(p) => \A a \in Doomed(p) : Cardinality(Kept(p, a)) >= Keep

\* What is taken apart is whole no more.
VictimBroken ==
  \A p \in Processes : pc[p] = "removing" => dir[Victim(p).archive] \in {"torn", "debris"}

Retained == Stamps /\ KeepsEnough /\ VictimBroken /\ NewestKept

\* Everybody has read the folder, and looks no further.
HasListed(p) == pc[p] \in {"delete", "removing", "publish", "done", "failed"}
Going == IF Deleting(lastRead) THEN Doomed(lastRead) ELSE {}

\* Without a fault, a directory in pieces is one being removed, a bare one is
\* one being begun, and nobody but a running worker is named as a writer.
Tidy ==
  /\ \A p \in Processes : pc[p] # "dead"
  /\ \A a \in Archives : dir[a] \in {"torn", "debris"} =>
       \E p \in Processes : pc[p] = "removing" /\ Victim(p).archive = a
  /\ \A a \in Archives : dir[a] = "empty" => a \in Workers /\ pc[a] = "boot"
  /\ \A a \in Archives : writer[a] # NoProcess => a \in Workers /\ pc[a] = "running"

\* The list of the last one to read is the one that counts: it left out none
\* but the newest Keep, and names no writer that could still spare one.
LastListIsDone ==
  skipped = {} /\ (\A q \in Processes : HasListed(q)) =>
    /\ lastRead \in Processes
    /\ Deleting(lastRead) => \A i \in 1..Len(doomed[lastRead]) : doomed[lastRead][i].writer = NoProcess
    /\ Cardinality(Owned \ ({lastRead} \cup Going)) <= Keep

\* Who deletes was the last to read.
LastReads == \A p \in Processes : Deleting(p) => lastRead = p

Reached == LastReads /\ (faults = 0 => Tidy /\ LastListIsDone)
-----------------------------------------------------------------------------
\* Archives can be counted, and a set that holds another is no smaller.
LEMMA ArchivesFinite ==
  /\ \A S \in SUBSET Archives : IsFiniteSet(S) /\ Cardinality(S) \in Nat
  /\ \A T \in SUBSET Archives : \A S \in SUBSET T : Cardinality(S) <= Cardinality(T)
<1>1. IsFiniteSet(Archives)
  BY ArchivesAssumption
<1>2. \A S \in SUBSET Archives : IsFiniteSet(S) /\ Cardinality(S) \in Nat
  BY <1>1, FS_Subset, FS_CardinalityType
<1>. QED
  BY <1>2, FS_Subset

\* Where Keep archives are left, more are enough as well.
LEMMA MoreIsEnough ==
  ASSUME NEW T \in SUBSET Archives, NEW S \in SUBSET T, Cardinality(S) >= Keep
  PROVE  Cardinality(T) >= Keep
<1>1. Cardinality(S) <= Cardinality(T) /\ Cardinality(S) \in Nat /\ Cardinality(T) \in Nat
  BY ArchivesFinite
<1>. QED
  BY <1>1, BoundsAssumption

\* The archives on a list exist, and are no files of unknown origin.
LEMMA OnTheList ==
  ASSUME IInv, NEW p \in Processes, Deleting(p), NEW a \in Doomed(p)
  PROVE  a \in Archives \ Legacy /\ dir[a] \notin {"absent", "empty"}
<1>1. PICK i \in 1..Len(doomed[p]) : a = doomed[p][i].archive
  BY DEF Doomed
<1>2. doomed[p] \in Seq(Entry)
  BY DEF IInv, TypeOK, Entry
<1>3. doomed[p][i] \in Entry
  BY <1>1, <1>2, ElementOfSeq
<1>4. Sound(doomed[p][i])
  BY DEF IInv, ListFresh, Deleting
<1>. QED
  BY <1>1, <1>3, <1>4, ArchivesAssumption DEF Entry, Sound, Archives

\* A list without its head names no more than the list, and the head no longer.
LEMMA DoomedRest ==
  ASSUME IInv, NEW p \in Processes, Deleting(p), doomed[p] # <<>>,
         doomed' = [doomed EXCEPT ![p] = Tail(@)]
  PROVE  /\ Victim(p).archive \in Doomed(p)
         /\ Doomed(p)' = Doomed(p) \ {Victim(p).archive}
         /\ \A q \in Processes \ {p} : Doomed(q)' = Doomed(q)
<1>1. doomed[p] \in Seq(Entry) /\ doomed \in [Processes -> Seq(Entry)]
  BY DEF IInv, TypeOK, Entry
<1>. DEFINE s == doomed[p]
            t == Tail(s)
<1>2. /\ Len(t) = Len(s) - 1 /\ Len(s) \in Nat \ {0} /\ Victim(p) = s[1]
      /\ \A i \in 1..Len(t) : i + 1 \in 1..Len(s) /\ t[i] = s[i + 1]
  BY <1>1, TailOf DEF Victim
<1>3. doomed'[p] = t /\ \A q \in Processes \ {p} : doomed'[q] = doomed[q]
  BY <1>1
<1>4. \A i \in 1..Len(t) : t[i].archive # Victim(p).archive
  BY HeadAndRest DEF Deleting
<1>. HIDE DEF s, t
<1>5. \A i \in 1..Len(s) : i = 1 \/ (i - 1 \in 1..Len(t) /\ i = (i - 1) + 1)
  BY <1>2
<1>6. {t[i].archive : i \in 1..Len(t)} = {s[i].archive : i \in 1..Len(s)} \ {Victim(p).archive}
  <2>1. ASSUME NEW i \in 1..Len(t) PROVE t[i].archive \in {s[j].archive : j \in 1..Len(s)}
    BY <1>2, <2>1
  <2>2. ASSUME NEW i \in 1..Len(s), s[i].archive # Victim(p).archive
        PROVE  s[i].archive \in {t[j].archive : j \in 1..Len(t)}
    <3>1. i - 1 \in 1..Len(t) /\ i = (i - 1) + 1
      BY <1>2, <1>5, <2>2
    <3>2. t[i - 1] = s[i]
      BY <1>2, <3>1
    <3>. QED
      BY <3>1, <3>2
  <2>. QED
    BY <1>4, <2>1, <2>2
<1>7. Victim(p).archive \in {s[i].archive : i \in 1..Len(s)}
  BY <1>2
<1>8. Doomed(p) = {s[i].archive : i \in 1..Len(s)} /\ Doomed(p)' = {t[i].archive : i \in 1..Len(t)}
  BY <1>3 DEF Doomed, s
<1>9. \A q \in Processes \ {p} : Doomed(q)' = Doomed(q)
  BY <1>3 DEF Doomed
<1>. QED
  BY <1>6, <1>7, <1>8, <1>9

\* Before any process starts every older archive is there.
LEMMA InitRetained == Init => Retained
<1> SUFFICES ASSUME Init PROVE Retained
  OBVIOUS
<1>. USE ArchivesAssumption DEF Init
<1>1. Stamps
  <2>1. \A a \in Archives : stamp[a] \in 0..Cardinality(Old) /\ clock = Cardinality(Old)
    OBVIOUS
  <2>2. \A a \in Old : stamp[a] > 0
    BY <2>1, WorkersFinite DEF Archives
  <2>3. \A w \in Workers : stamp[w] = 0 /\ pc[w] = "off"
    BY DEF Archives, Processes
  <2>4. \A a \in Archives : stamp[a] <= clock
    BY <2>1, WorkersFinite
  <2>5. \A a, b \in Archives \ Legacy : stamp[a] = stamp[b] /\ stamp[a] > 0 => a = b
    BY <2>3 DEF Archives
  <2>. QED
    BY <2>2, <2>3, <2>4, <2>5 DEF Stamps
<1>2. KeepsEnough /\ VictimBroken
  BY DEF KeepsEnough, VictimBroken, Deleting
<1>3. NewestKept
  BY DEF NewestKept, Existed, Archives
<1>. QED
  BY <1>1, <1>2, <1>3 DEF Retained

\* Where no whole archive is touched and no list grows, as many are kept.
LEMMA NothingTaken ==
  ASSUME IInv, Retained,
         \A a \in Archives : dir[a] = "whole" => dir'[a] = "whole",
         \A a \in Archives : dir[a] # "absent" => stamp'[a] = stamp[a],
         \A a \in Archives : dir'[a] \in {"absent", "torn", "debris"} =>
            dir[a] \in {"absent", "torn", "debris"} /\ stamp'[a] = stamp[a],
         \A p \in Processes : Deleting(p)' => Deleting(p) /\ Doomed(p)' \subseteq Doomed(p)
  PROVE  KeepsEnough' /\ NewestKept'
<1>1. \A a \in Archives : stamp'[a] = stamp[a] => Newer(a) \in SUBSET (Newer(a)')
  BY DEF Newer
<1>2. \A a \in Archives : Newer(a)' \in SUBSET Archives
  BY DEF Newer
<1>3. KeepsEnough'
  <2> SUFFICES ASSUME NEW p \in Processes, Deleting(p)', NEW a \in Doomed(p)'
               PROVE  Cardinality(Kept(p, a)') >= Keep
    BY DEF KeepsEnough
  <2>1. Deleting(p) /\ a \in Doomed(p) /\ Doomed(p)' \subseteq Doomed(p)
    OBVIOUS
  <2>2. a \in Archives /\ stamp'[a] = stamp[a]
    BY <2>1, OnTheList
  <2>3. Kept(p, a) \in SUBSET (Kept(p, a)') /\ Kept(p, a)' \in SUBSET Archives
    BY <1>1, <1>2, <2>1, <2>2 DEF Kept
  <2>4. Cardinality(Kept(p, a)) >= Keep
    BY <2>1 DEF Retained, KeepsEnough
  <2>. QED
    BY <2>3, <2>4, MoreIsEnough
<1>4. NewestKept'
  <2> SUFFICES ASSUME NEW a \in Archives, Existed(a)', dir'[a] \in {"absent", "torn", "debris"}
               PROVE  Cardinality(Newer(a)') >= Keep
    BY DEF NewestKept, Newer
  <2>1. stamp'[a] = stamp[a] /\ dir[a] \in {"absent", "torn", "debris"} /\ Existed(a)
    BY DEF Existed
  <2>2. Cardinality(Newer(a)) >= Keep
    BY <2>1 DEF Retained, NewestKept, Newer
  <2>. QED
    BY <1>1, <1>2, <2>1, <2>2, MoreIsEnough
<1>. QED
  BY <1>3, <1>4

\* Only Begin gives out places.
LEMMA StampsStay ==
  ASSUME TypeOK, Stamps, NEW p \in Processes, NEW place, Goto(p, place), UNCHANGED <<stamp, clock>>,
         pc[p] # "off" \/ p \notin Workers, place # "off"
  PROVE  Stamps'
<1>1. \A w \in Workers : pc'[w] # "off" <=> pc[w] # "off"
  BY DEF Goto, TypeOK, Processes
<1>. QED
  BY <1>1 DEF Stamps
-----------------------------------------------------------------------------
\* Places, the lock, and archives that come: nothing is lost by them.
LEMMA QuietRetains == ASSUME IInv, Retained, NEW p \in Processes, Quiet(p) PROVE Retained'
<1>1. /\ UNCHANGED <<dir, stamp, doomed, clock>>
      /\ \E place \in {"prune", "publish", "done", "list", "failed", "dead"} : Goto(p, place)
      /\ pc[p] # "off" \/ p \notin Workers
  BY ArchivesAssumption DEF At, AfterPrune, Live, Quiet, Release, Open, Skip, Lock, Unlock, Publish, Crash, IInv, TypeOK
<1>2. TypeOK
  BY DEF IInv
<1>3. \A q \in Processes : pc'[q] \in {"delete", "removing"} => q # p /\ pc'[q] = pc[q]
  BY <1>1, <1>2 DEF Goto, TypeOK
<1>4. Stamps'
  BY <1>1, <1>2, StampsStay DEF Retained
<1>5. VictimBroken'
  BY <1>1, <1>3 DEF Retained, VictimBroken, Victim
<1>6. KeepsEnough' /\ NewestKept'
  BY <1>1, <1>3, NothingTaken DEF Deleting, Doomed
<1>. QED
  BY <1>4, <1>5, <1>6 DEF Retained

\* A new archive comes after all others.
LEMMA BeginRetains == ASSUME IInv, Retained, NEW p \in Processes, Begin(p) PROVE Retained'
<1>. USE DEF Begin, At, Goto
<1>1. /\ p \in Workers /\ p \in Archives \ Legacy /\ TypeOK /\ dir[p] = "absent" /\ clock \in Nat
      /\ \A a \in Archives : stamp[a] \in Nat
  <2>1. TypeOK /\ p \in Workers /\ dir[p] = "absent"
    BY DEF IInv, Places
  <2>2. clock \in Nat /\ \A a \in Archives : stamp[a] \in Nat
    BY <2>1, WorkersFinite DEF TypeOK
  <2>3. p \in Archives \ Legacy
    BY <2>1, ArchivesAssumption DEF Archives
  <2>. QED
    BY <2>1, <2>2, <2>3
<1>2. /\ stamp'[p] = clock + 1 /\ clock' = clock + 1 /\ pc'[p] = "boot" /\ dir'[p] = "empty"
      /\ \A a \in Archives \ {p} : stamp'[a] = stamp[a] /\ dir'[a] = dir[a]
      /\ \A q \in Processes \ {p} : pc'[q] = pc[q]
      /\ doomed' = doomed
  BY <1>1 DEF TypeOK
<1>3. Stamps'
  <2>1. \A a \in Archives \ {p} : stamp[a] <= clock /\ stamp'[a] # stamp'[p] /\ stamp'[a] <= clock'
    BY <1>1, <1>2 DEF Retained, Stamps
  <2>2. \A a \in Archives : stamp'[a] <= clock'
    BY <1>1, <1>2, <2>1
  <2>3. \A w \in Workers : stamp'[w] > 0 <=> pc'[w] # "off"
    BY <1>1, <1>2 DEF Retained, Stamps, Archives, Processes
  <2>4. \A a \in Old : stamp'[a] > 0
    BY <1>1, <1>2, ArchivesAssumption DEF Retained, Stamps, Archives
  <2>5. \A a, b \in Archives \ Legacy : stamp'[a] = stamp'[b] /\ stamp'[a] > 0 => a = b
    BY <1>2, <2>1 DEF Retained, Stamps
  <2>. QED
    BY <2>2, <2>3, <2>4, <2>5 DEF Stamps
<1>4. VictimBroken'
  <2>1. \A q \in Processes : pc[q] = "removing" => Victim(q).archive # p
    BY <1>1 DEF Retained, VictimBroken
  <2>2. \A q \in Processes : pc[q] = "removing" => Victim(q).archive \in Archives
    BY HeadAndRest DEF IInv, VictimFinished, Entry, Archives
  <2>. QED
    BY <1>2, <2>1, <2>2 DEF Retained, VictimBroken, Victim
<1>5. KeepsEnough' /\ NewestKept'
  <2>1. \A q \in Processes : Deleting(q)' => Deleting(q) /\ Doomed(q)' \subseteq Doomed(q)
    BY <1>2 DEF Deleting, Doomed
  <2>. QED
    BY <1>1, <1>2, <2>1, NothingTaken
<1>. QED
  BY <1>3, <1>4, <1>5 DEF Retained

\* A bare directory becomes an archive.
LEMMA AnnounceRetains == ASSUME IInv, Retained, NEW p \in Processes, Announce(p) PROVE Retained'
<1>. USE DEF Announce, At, Goto
<1>1. p \in Workers /\ p \in Archives /\ TypeOK /\ dir[p] = "empty"
  BY DEF Archives, IInv, Places, Processes
<1>2. /\ dir'[p] = "whole" /\ \A a \in Archives \ {p} : dir'[a] = dir[a]
      /\ \A q \in Processes : pc'[q] \in {"delete", "removing"} => pc'[q] = pc[q]
      /\ doomed' = doomed /\ stamp' = stamp
  BY <1>1 DEF TypeOK
<1>3. Stamps'
  BY <1>1, StampsStay DEF Retained
<1>4. VictimBroken'
  <2>1. \A q \in Processes : pc[q] = "removing" => Victim(q).archive \in Archives \ {p}
    BY <1>1, HeadAndRest DEF IInv, VictimFinished, Entry, Archives, Retained, VictimBroken
  <2>. QED
    BY <1>2, <2>1 DEF Retained, VictimBroken, Victim
<1>5. KeepsEnough' /\ NewestKept'
  BY <1>1, <1>2, NothingTaken DEF Deleting, Doomed
<1>. QED
  BY <1>3, <1>4, <1>5 DEF Retained

\* An entry passed over, a removal that ends: nothing more is taken.
LEMMA RestRetains ==
  ASSUME IInv, Retained, NEW p \in Processes, Spare(p) \/ EndRemoval(p) \/ FailRemoval(p)
  PROVE  Retained'
<1>. DEFINE a == Victim(p).archive
<1>1. /\ Deleting(p) /\ Goto(p, "delete") /\ UNCHANGED <<stamp, clock>>
      /\ doomed' = [doomed EXCEPT ![p] = Tail(@)] /\ doomed[p] # <<>>
      /\ dir' = dir \/ (pc[p] = "removing" /\ dir' = [dir EXCEPT ![a] = "absent"])
  <2>1. CASE Spare(p)
    BY <2>1 DEF Spare, At, NextVictim, Deleting, Goto, IInv, TypeOK
  <2>2. CASE EndRemoval(p) \/ FailRemoval(p)
    BY <2>2 DEF EndRemoval, FailRemoval, At, Goto, NextVictim, Deleting, IInv, VictimFinished
  <2>. QED
    BY <2>1, <2>2
<1>2. /\ TypeOK /\ a \in Archives
      /\ pc'[p] = "delete" /\ \A q \in Processes \ {p} : pc'[q] = pc[q]
  <2>1. TypeOK
    BY DEF IInv
  <2>2. a \in Archives
    BY <1>1, HeadAndRest DEF Deleting, Entry, Archives
  <2>3. pc'[p] = "delete" /\ \A q \in Processes \ {p} : pc'[q] = pc[q]
    BY <1>1, <2>1 DEF TypeOK, Goto
  <2>. QED
    BY <2>1, <2>2, <2>3
<1>3. dir' = dir \/ (/\ dir[a] \in {"torn", "debris"} /\ dir'[a] = "absent"
                     /\ \A b \in Archives \ {a} : dir'[b] = dir[b])
  BY <1>1, <1>2 DEF Retained, VictimBroken, TypeOK
<1>. HIDE DEF a
<1>4. Stamps'
  BY <1>1, <1>2, StampsStay DEF Retained, Deleting
<1>5. VictimBroken'
  <2>1. \A q \in Processes \ {p} : pc'[q] # "removing"
    BY <1>1, <1>2, HeadAndRest DEF Deleting
  <2>. QED
    BY <1>2, <2>1 DEF VictimBroken
<1>6. KeepsEnough' /\ NewestKept'
  <2>1. \A q \in Processes : Deleting(q)' => Deleting(q) /\ Doomed(q)' \subseteq Doomed(q)
    BY <1>1, <1>2, DoomedRest DEF Deleting
  <2>2. \A b \in Archives : dir[b] = "whole" => dir'[b] = "whole"
    BY <1>3
  <2>3. \A b \in Archives : dir'[b] \in {"absent", "torn", "debris"} =>
          dir[b] \in {"absent", "torn", "debris"}
    BY <1>3
  <2>. QED
    BY <1>1, <2>1, <2>2, <2>3, NothingTaken
<1>. QED
  BY <1>4, <1>5, <1>6 DEF Retained

\* What the victim's removal takes from a gone archive's newer ones, the
\* victim's own newer ones make up for.
LEMMA BeginRemovalRetains == ASSUME IInv, Retained, NEW p \in Processes, BeginRemoval(p) PROVE Retained'
<1>. DEFINE a == Victim(p).archive
<1>1. /\ Deleting(p) /\ Goto(p, "removing") /\ UNCHANGED <<stamp, clock, doomed>> /\ doomed[p] # <<>>
      /\ \E left \in {"torn", "debris"} : dir' = [dir EXCEPT ![a] = left]
  BY DEF BeginRemoval, At, Deleting
<1>2. /\ TypeOK /\ a \in Doomed(p) /\ a \in Archives
      /\ pc'[p] = "removing" /\ \A q \in Processes \ {p} : pc'[q] = pc[q] /\ ~Deleting(q)
  <2>1. TypeOK
    BY DEF IInv
  <2>2. doomed[p] \in Seq(Entry)
    BY <2>1 DEF TypeOK, Entry
  <2>3. Victim(p) = doomed[p][1] /\ 1 \in 1..Len(doomed[p])
    BY <1>1, <2>2, TailOf DEF Victim
  <2>4. a \in Doomed(p)
    BY <2>3 DEF Doomed
  <2>. QED
    BY <1>1, <2>1, <2>4, HeadAndRest, OnTheList DEF TypeOK, Goto, Deleting
<1>3. dir'[a] \in {"torn", "debris"} /\ \A b \in Archives \ {a} : dir'[b] = dir[b]
  BY <1>1, <1>2 DEF TypeOK
<1>4. \A b \in Archives : stamp[b] \in Nat
  BY <1>2, WorkersFinite DEF TypeOK
<1>5. (Victim(p).archive)' = a
  BY <1>1 DEF Victim
<1>. HIDE DEF a
<1>6. Stamps'
  BY <1>1, <1>2, StampsStay DEF Retained, Deleting
<1>7. VictimBroken'
  BY <1>2, <1>3, <1>5 DEF VictimBroken, Deleting
<1>8. \A b \in Archives : /\ Newer(b) \ {a} \subseteq Newer(b)'
                          /\ Newer(b)' \in SUBSET Archives
                          /\ (stamp[a] < stamp[b] => Newer(b) \subseteq Newer(b)')
  BY <1>1, <1>2, <1>3, <1>4 DEF Newer
<1>9. KeepsEnough'
  <2> SUFFICES ASSUME NEW b \in Doomed(p) PROVE Cardinality(Kept(p, b)') >= Keep
    BY <1>1, <1>2 DEF KeepsEnough, Deleting, Doomed
  <2>1. b \in Archives /\ Doomed(p)' = Doomed(p)
    BY <1>1, OnTheList DEF Doomed
  <2>2. Kept(p, b) \in SUBSET (Kept(p, b)') /\ Kept(p, b)' \in SUBSET Archives
    BY <1>2, <1>8, <2>1 DEF Kept
  <2>3. Cardinality(Kept(p, b)) >= Keep
    BY <1>1 DEF Retained, KeepsEnough
  <2>. QED
    BY <2>2, <2>3, MoreIsEnough
<1>10. NewestKept'
  <2> SUFFICES ASSUME NEW b \in Archives, Existed(b)', dir'[b] \in {"absent", "torn", "debris"}
               PROVE  Cardinality(Newer(b)') >= Keep
    BY DEF NewestKept, Newer
  <2>1. Cardinality(Kept(p, a)) >= Keep
    BY <1>1, <1>2 DEF Retained, KeepsEnough
  <2>2. CASE stamp[a] >= stamp[b]
    <3>1. Kept(p, a) \in SUBSET (Newer(b)')
      BY <1>2, <1>4, <1>8, <2>2 DEF Kept, Newer
    <3>. QED
      BY <1>8, <2>1, <3>1, MoreIsEnough
  <2>3. CASE stamp[a] < stamp[b]
    <3>1. b # a
      BY <1>2, <1>4, <2>3
    <3>2. Cardinality(Newer(b)) >= Keep
      BY <1>1, <1>3, <3>1 DEF Retained, NewestKept, Newer, Existed
    <3>. QED
      BY <1>8, <2>3, <3>2, MoreIsEnough
  <2>. QED
    BY <1>2, <1>4, <2>2, <2>3
<1>. QED
  BY <1>6, <1>7, <1>9, <1>10 DEF Retained
\* The first places of an order are as many archives.
LEMMA FirstOf ==
  ASSUME NEW order \in Seq(Owned), NEW k \in Nat, k <= Len(order),
         \A i, j \in 1..Len(order) : i # j => order[i] # order[j]
  PROVE  LET first == {order[i] : i \in 1..k}
         IN  first \in SUBSET Owned /\ Cardinality(first) = k
<1>. DEFINE first == {order[i] : i \in 1..k}
            f == [i \in 1..k |-> order[i]]
<1>1. Len(order) \in Nat /\ \A i \in 1..k : i \in 1..Len(order) /\ order[i] \in Owned
  BY LenProperties, ElementOfSeq
<1>2. f \in Bijection(1..k, first)
  <2>1. f \in [1..k -> first] /\ \A i, j \in 1..k : f[i] = f[j] => i = j
    BY <1>1
  <2>2. \A a \in first : \E i \in 1..k : f[i] = a
    OBVIOUS
  <2>. HIDE DEF f, first
  <2>. QED
    BY <2>1, <2>2 DEF Bijection, Injection, IsInjective, Surjection
<1>3. IsFiniteSet(1..k) /\ Cardinality(1..k) = k
  BY FS_Interval
<1>4. Cardinality(first) = k
  <2>. HIDE DEF f, first
  <2>. QED
    BY <1>2, <1>3, FS_Bijection DEF ExistsBijection
<1>5. first \in SUBSET Owned
  BY <1>1
<1>. QED
  BY <1>4, <1>5

\* The first Keep archives of a list are whole, since a broken one has Keep
\* whole ones before it; and the list leaves out no others.
LEMMA FirstAreKept ==
  ASSUME IInv, Retained, NEW p \in Processes, List(p)
  PROVE  /\ \A a \in Doomed(p)' : a \in Owned /\ Cardinality(Newer(a) \ Doomed(p)') >= Keep
         /\ Cardinality(Owned \ Doomed(p)') <= Keep
         /\ \A i \in 1..Len(doomed'[p]) : \E a \in Owned : doomed'[p][i].writer = writer[a]
<1>1. PICK order \in SetToSeqs(Owned), list \in Seq(Entry) :
        /\ NewestFirst(order)
        /\ \A i \in 1..Len(list) :
             /\ i + Keep \in 1..Len(order) /\ order[i + Keep] \in Owned
             /\ list[i].archive = order[i + Keep] /\ list[i].writer = writer[order[i + Keep]]
        /\ \A j \in 1..Len(order) : j > Keep => j - Keep \in 1..Len(list) /\ j = (j - Keep) + Keep
        /\ doomed' = [doomed EXCEPT ![p] = list]
  BY ListMade
<1>2. /\ order \in Seq(Owned) /\ Len(order) \in Nat /\ Keep \in Nat
      /\ \A i \in 1..Len(order) : order[i] \in Owned
      /\ \A i, j \in 1..Len(order) : i # j => order[i] # order[j]
      /\ \A a \in Owned : \E i \in 1..Len(order) : order[i] = a
  BY Listing, LenProperties, ElementOfSeq, BoundsAssumption
<1>3. doomed'[p] = list /\ Len(list) \in Nat
  BY <1>1, LenProperties DEF IInv, TypeOK
<1>4. /\ \A a \in Doomed(p)' : \E j \in 1..Len(order) : j > Keep /\ order[j] = a
      /\ \A j \in 1..Len(order) : j > Keep => order[j] \in Doomed(p)'
  <2>1. ASSUME NEW i \in 1..Len(list)
        PROVE  \E j \in 1..Len(order) : j > Keep /\ list[i].archive = order[j]
    <3>1. i + Keep \in 1..Len(order) /\ i + Keep > Keep
      BY <1>1, <1>2, <1>3
    <3>. QED
      BY <1>1, <3>1
  <2>2. ASSUME NEW j \in 1..Len(order), j > Keep
        PROVE  \E i \in 1..Len(list) : list[i].archive = order[j]
    BY <1>1, <2>2
  <2>3. Doomed(p)' = {list[i].archive : i \in 1..Len(list)}
    BY <1>3 DEF Doomed
  <2>4. \A a \in Doomed(p)' : \E j \in 1..Len(order) : j > Keep /\ order[j] = a
    <3> SUFFICES ASSUME NEW i \in 1..Len(list)
                 PROVE  \E j \in 1..Len(order) : j > Keep /\ order[j] = list[i].archive
      BY <2>3
    <3>. QED
      BY <2>1
  <2>5. \A j \in 1..Len(order) : j > Keep => order[j] \in Doomed(p)'
    BY <2>2, <2>3
  <2>. QED
    BY <2>4, <2>5
<1>5. \A i \in 1..Len(doomed'[p]) : \E a \in Owned : doomed'[p][i].writer = writer[a]
  BY <1>1, <1>3
<1>. DEFINE First(k) == {order[i] : i \in 1..k}
<1>6. \A k \in Nat : k <= Len(order) => First(k) \in SUBSET Owned /\ Cardinality(First(k)) = k
  BY <1>2, FirstOf
<1>. HIDE DEF First
<1>7. CASE Len(order) <= Keep
  <2>1. Doomed(p)' = {}
    BY <1>2, <1>4, <1>7
  <2>2. First(Len(order)) = Owned
    BY <1>2 DEF First
  <2>3. Cardinality(Owned) = Len(order)
    BY <1>2, <1>6, <2>2
  <2>. QED
    BY <1>2, <1>5, <1>7, <2>1, <2>3
<1>8. CASE Len(order) > Keep
  <2>1. \A a \in Owned : a \in Archives \ Legacy /\ stamp[a] \in Nat /\ stamp[a] > 0 /\ Existed(a)
    <3> SUFFICES ASSUME NEW a \in Owned
                 PROVE  a \in Archives \ Legacy /\ stamp[a] \in Nat /\ stamp[a] > 0 /\ Existed(a)
      OBVIOUS
    <3>1. a \in Archives \ Legacy /\ dir[a] # "absent"
      BY DEF Owned
    <3>2. stamp[a] \in Nat
      BY <3>1, WorkersFinite DEF IInv, TypeOK
    <3>3. CASE a \in Workers
      BY <3>1, <3>2, <3>3 DEF IInv, Places, Retained, Stamps, Existed
    <3>4. CASE a \in Old
      BY <3>1, <3>2, <3>4 DEF Retained, Stamps, Existed
    <3>. QED
      BY <3>1, <3>3, <3>4 DEF Archives
  <2>2. \A i, j \in 1..Len(order) : i < j => stamp[order[i]] > stamp[order[j]]
    <3> SUFFICES ASSUME NEW i \in 1..Len(order), NEW j \in 1..Len(order), i < j
                 PROVE  stamp[order[i]] > stamp[order[j]]
      OBVIOUS
    <3>1. stamp[order[i]] >= stamp[order[j]] /\ order[i] # order[j]
      BY <1>1, <1>2 DEF NewestFirst
    <3>2. \A a, b \in Archives \ Legacy : stamp[a] = stamp[b] /\ stamp[a] > 0 => a = b
      BY DEF Retained, Stamps
    <3>3. /\ order[i] \in Archives \ Legacy /\ order[j] \in Archives \ Legacy
          /\ stamp[order[i]] > 0 /\ stamp[order[i]] \in Nat /\ stamp[order[j]] \in Nat
      BY <1>2, <2>1
    <3>4. stamp[order[i]] # stamp[order[j]]
      BY <3>1, <3>2, <3>3
    <3>. QED
      BY <3>1, <3>3, <3>4
  <2>3. \A k \in 1..Keep : dir[order[k]] = "whole"
    <3> SUFFICES ASSUME NEW k \in 1..Keep, dir[order[k]] # "whole" PROVE FALSE
      OBVIOUS
    <3>1. k \in 1..Len(order) /\ k - 1 \in Nat /\ k - 1 <= Len(order)
      BY <1>2, <1>8
    <3>2. order[k] \in Owned /\ dir[order[k]] = "torn"
      BY <1>2, <3>1 DEF Owned
    <3>3. Cardinality(Newer(order[k])) >= Keep
      BY <2>1, <3>2 DEF Retained, NewestKept, Newer
    <3>4. Newer(order[k]) \subseteq First(k - 1)
      <4> SUFFICES ASSUME NEW b \in Newer(order[k]) PROVE b \in First(k - 1)
        OBVIOUS
      <4>1. b \in Owned /\ dir[b] = "whole" /\ stamp[b] >= stamp[order[k]]
        BY DEF Newer, Owned
      <4>2. PICK i \in 1..Len(order) : order[i] = b
        BY <1>2, <4>1
      <4>3. i # k
        BY <3>2, <4>1, <4>2
      <4>4. ~(k < i)
        <5>1. k < i => stamp[order[k]] > stamp[b]
          BY <2>2, <3>1, <4>2
        <5>2. stamp[b] \in Nat /\ stamp[order[k]] \in Nat
          BY <2>1, <3>2, <4>1
        <5>. QED
          BY <4>1, <5>1, <5>2
      <4>5. i \in 1..(k - 1)
        BY <3>1, <4>3, <4>4
      <4>. QED
        BY <4>2, <4>5 DEF First
    <3>5. First(k - 1) \in SUBSET Archives /\ Cardinality(First(k - 1)) = k - 1
      BY <1>6, <3>1 DEF Owned
    <3>6. Cardinality(First(k - 1)) >= Keep
      BY <3>3, <3>4, <3>5, MoreIsEnough
    <3>. QED
      BY <1>2, <3>5, <3>6
  <2>4. First(Keep) \in SUBSET Owned /\ Cardinality(First(Keep)) = Keep
    BY <1>2, <1>6, <1>8
  <2>5. \A j \in 1..Len(order) : j > Keep => order[j] \in Owned /\ First(Keep) \subseteq Newer(order[j]) \ Doomed(p)'
    <3> SUFFICES ASSUME NEW j \in 1..Len(order), j > Keep, NEW k \in 1..Keep
                 PROVE  order[j] \in Owned /\ order[k] \in Newer(order[j]) \ Doomed(p)'
      BY <1>2 DEF First
    <3>1. k \in 1..Len(order) /\ k < j
      BY <1>2, <1>8
    <3>2. order[k] \in Owned /\ order[j] \in Owned /\ stamp[order[k]] > stamp[order[j]] /\ dir[order[k]] = "whole"
      BY <1>2, <2>2, <2>3, <3>1
    <3>3. order[k] \in Newer(order[j])
      BY <2>1, <3>2 DEF Newer
    <3>4. order[k] \notin Doomed(p)'
      <4> SUFFICES ASSUME NEW i \in 1..Len(order), i > Keep PROVE order[i] # order[k]
        BY <1>4
      <4>. QED
        BY <1>2, <3>1
    <3>. QED
      BY <3>2, <3>3, <3>4
  <2>6. Owned \ Doomed(p)' \subseteq First(Keep)
    <3> SUFFICES ASSUME NEW a \in Owned, a \notin Doomed(p)' PROVE a \in First(Keep)
      OBVIOUS
    <3>1. PICK i \in 1..Len(order) : order[i] = a
      BY <1>2
    <3>2. ~(i > Keep)
      BY <1>4, <3>1
    <3>. QED
      BY <1>2, <3>1, <3>2 DEF First
  <2>7. \A a \in Doomed(p)' : a \in Owned /\ Cardinality(Newer(a) \ Doomed(p)') >= Keep
    <3> SUFFICES ASSUME NEW j \in 1..Len(order), j > Keep
                 PROVE  order[j] \in Owned /\ Cardinality(Newer(order[j]) \ Doomed(p)') >= Keep
      BY <1>4
    <3>1. Newer(order[j]) \ Doomed(p)' \in SUBSET Archives
      BY DEF Newer
    <3>. QED
      <4>1. order[j] \in Owned /\ First(Keep) \in SUBSET (Newer(order[j]) \ Doomed(p)')
        BY <2>5
      <4>2. Cardinality(First(Keep)) >= Keep
        BY <1>2, <2>4
      <4>. QED
        BY <3>1, <4>1, <4>2, MoreIsEnough
  <2>8. Cardinality(Owned \ Doomed(p)') <= Keep
    <3>1. First(Keep) \in SUBSET Archives
      BY <2>4 DEF Owned
    <3>. QED
      BY <2>4, <2>6, <3>1, ArchivesFinite
  <2>. QED
    BY <1>5, <2>7, <2>8
<1>9. Len(order) <= Keep \/ Len(order) > Keep
  BY <1>2
<1>. QED
  BY <1>7, <1>8, <1>9
\* A fresh list leaves the newest Keep out.
LEMMA ListRetains == ASSUME IInv, Retained, NEW p \in Processes, List(p) PROVE Retained'
<1>1. /\ pc[p] = "list" /\ Goto(p, "delete") /\ UNCHANGED <<dir, stamp, clock>> /\ TypeOK
  BY DEF List, At, IInv
<1>2. pc'[p] = "delete" /\ \A q \in Processes \ {p} : pc'[q] = pc[q] /\ ~Deleting(q)
  BY <1>1 DEF TypeOK, Goto, IInv, LockHeld, Deleting
<1>3. Stamps'
  BY <1>1, StampsStay DEF Retained
<1>4. VictimBroken'
  BY <1>2 DEF VictimBroken, Deleting
<1>5. KeepsEnough'
  <2> SUFFICES ASSUME NEW a \in Doomed(p)' PROVE Cardinality(Kept(p, a)') >= Keep
    BY <1>2 DEF KeepsEnough, Deleting
  <2>1. Kept(p, a)' = Newer(a) \ Doomed(p)'
    BY <1>1 DEF Kept, Newer
  <2>. QED
    BY <2>1, FirstAreKept
<1>6. NewestKept'
  BY <1>1 DEF Retained, NewestKept, Existed
<1>. QED
  BY <1>3, <1>4, <1>5, <1>6 DEF Retained

-----------------------------------------------------------------------------
\* What the last list says is carried out: a step that lists nothing, skips
\* nothing and fails nothing leaves no more to do, as long as all have listed.
LEMMA DoneStays ==
  ASSUME IInv, Reached, faults = 0, skipped' = skipped, lastRead' = lastRead,
         \A q \in Processes : HasListed(q)' => HasListed(q),
         Deleting(lastRead)' => Deleting(lastRead),
         \A i \in 1..Len(doomed'[lastRead]) : Deleting(lastRead)' =>
            \E j \in 1..Len(doomed[lastRead]) : doomed'[lastRead][i].writer = doomed[lastRead][j].writer,
         Owned' \ ({lastRead} \cup Going') \in SUBSET (Owned \ ({lastRead} \cup Going))
  PROVE  LastListIsDone'
<1> SUFFICES ASSUME skipped' = {}, \A q \in Processes : HasListed(q)'
             PROVE  /\ lastRead \in Processes
                    /\ Deleting(lastRead)' =>
                         \A i \in 1..Len(doomed'[lastRead]) : doomed'[lastRead][i].writer = NoProcess
                    /\ Cardinality(Owned' \ ({lastRead} \cup Going')) <= Keep
  BY DEF LastListIsDone
<1>1. /\ lastRead \in Processes
      /\ Deleting(lastRead) => \A i \in 1..Len(doomed[lastRead]) : doomed[lastRead][i].writer = NoProcess
      /\ Cardinality(Owned \ ({lastRead} \cup Going)) <= Keep
  BY DEF Reached, LastListIsDone
<1>2. Deleting(lastRead)' =>
        \A i \in 1..Len(doomed'[lastRead]) : doomed'[lastRead][i].writer = NoProcess
  BY <1>1
<1>. DEFINE S == Owned \ ({lastRead} \cup Going)
            T == Owned' \ ({lastRead} \cup Going')
<1>3. S \in SUBSET Archives /\ T \in SUBSET S
  BY DEF Owned
<1>. HIDE DEF S, T
<1>4. Cardinality(T) \in Nat /\ Cardinality(S) \in Nat /\ Cardinality(T) <= Cardinality(S)
  BY <1>3, ArchivesFinite
<1>5. Cardinality(S) <= Keep
  BY <1>1 DEF S
<1>6. Cardinality(T) <= Keep
  BY <1>4, <1>5, BoundsAssumption
<1>. QED
  BY <1>1, <1>2, <1>6 DEF T

\* Some process has not listed yet: there is nothing to say.
LEMMA NotAllListed ==
  ASSUME NEW p \in Processes, ~HasListed(p)' PROVE LastListIsDone'
  BY DEF LastListIsDone
\* The steps, but those that fail.
Sane(p) ==
  \/ Begin(p) \/ Announce(p) \/ Release(p) \/ Open(p) \/ Skip(p) \/ Lock(p) \/ List(p) \/ Spare(p)
  \/ BeginRemoval(p) \/ EndRemoval(p) \/ Unlock(p) \/ Publish(p)

\* One process moves; only List makes it delete.
LEMMA OneMoves ==
  ASSUME IInv, NEW p \in Processes, Sane(p) \/ FailRemoval(p) \/ Crash(p)
  PROVE  /\ \A q \in Processes \ {p} : pc'[q] = pc[q] /\ doomed'[q] = doomed[q]
         /\ ~List(p) => lastRead' = lastRead /\ (Deleting(p)' => Deleting(p))
         /\ Sane(p) => faults' = faults /\ pc'[p] # "dead"
         /\ ~Sane(p) => faults' # 0
<1>1. /\ pc \in [Processes -> {"off", "boot", "running", "prune", "list", "delete", "removing", "publish",
                              "done", "failed", "dead"}]
      /\ doomed \in [Processes -> Seq(Entry)] /\ faults \in Nat
  <2>1. pc \in [Processes -> {"off", "boot", "running", "prune", "list", "delete", "removing", "publish",
                              "done", "failed", "dead"}]
    BY DEF IInv, TypeOK
  <2>2. doomed \in [Processes -> Seq(Entry)]
    BY DEF IInv, TypeOK, Entry
  <2>3. faults \in Nat
    BY BoundsAssumption DEF IInv, TypeOK
  <2>. QED
    BY <2>1, <2>2, <2>3
<1>2. /\ \A q \in Processes \ {p} : pc'[q] = pc[q] /\ doomed'[q] = doomed[q]
      /\ ~List(p) => lastRead' = lastRead /\ (Deleting(p)' => Deleting(p))
  BY <1>1 DEF Sane, FailRemoval, Crash, Begin, Announce, Release, Open, Skip, Lock, List, Spare, BeginRemoval,
       EndRemoval, Unlock, Publish, Goto, At, AfterPrune, NextVictim, Deleting
<1>3. Sane(p) => faults' = faults /\ pc'[p] # "dead"
  BY <1>1 DEF Sane, Begin, Announce, Release, Open, Skip, Lock, List, Spare, BeginRemoval,
       EndRemoval, Unlock, Publish, Goto, At, AfterPrune
<1>4. ~Sane(p) => faults' # 0
  BY <1>1 DEF FailRemoval, Crash, Fault
<1>. QED
  BY <1>2, <1>3, <1>4

LEMMA LastReadsStep ==
  ASSUME IInv, LastReads, NEW p \in Processes, Sane(p) \/ FailRemoval(p) \/ Crash(p)
  PROVE  LastReads'
<1>1. CASE List(p)
  <2>1. lastRead' = p /\ \A q \in Processes \ {p} : ~Deleting(q)
    BY <1>1 DEF List, At, IInv, LockHeld, Deleting
  <2>2. \A q \in Processes \ {p} : pc'[q] = pc[q]
    BY OneMoves
  <2>. QED
    BY <2>1, <2>2 DEF LastReads, Deleting
<1>2. CASE ~List(p)
  BY <1>2, OneMoves DEF LastReads, Deleting
<1>. QED
  BY <1>1, <1>2

\* Without a fault the folder stays tidy.
LEMMA TidyStep ==
  ASSUME IInv, Retained, Tidy, NEW p \in Processes, Sane(p)
  PROVE  Tidy'
<1>. USE DEF At, Goto
<1>1. /\ TypeOK /\ pc'[p] # "dead"
      /\ \A q \in Processes \ {p} : pc'[q] = pc[q] /\ doomed'[q] = doomed[q]
  <2>1. TypeOK
    BY DEF IInv
  <2>. QED
    BY <2>1, OneMoves
<1>2. \A q \in Processes : pc'[q] # "dead"
  BY <1>1 DEF Tidy
<1>3. CASE BeginRemoval(p)
  <2>. DEFINE a == Victim(p).archive
  <2>1. /\ pc[p] = "delete" /\ pc'[p] = "removing" /\ UNCHANGED <<writer, doomed>> /\ doomed[p] # <<>>
        /\ \E left \in {"torn", "debris"} : dir' = [dir EXCEPT ![a] = left]
    BY <1>1, <1>3 DEF BeginRemoval, TypeOK
  <2>2. a \in Archives
    BY <2>1, HeadAndRest DEF Entry, Archives
  <2>3. (Victim(p).archive)' = a /\ \A q \in Processes : (Victim(q).archive)' = Victim(q).archive
    BY <2>1 DEF Victim
  <2>. HIDE DEF a
  <2>4. dir'[a] \in {"torn", "debris"} /\ \A b \in Archives \ {a} : dir'[b] = dir[b]
    BY <1>1, <2>1, <2>2 DEF TypeOK
  <2>5. \A b \in Archives : dir'[b] \in {"torn", "debris"} =>
          \E q \in Processes : pc'[q] = "removing" /\ (Victim(q).archive)' = b
    <3> SUFFICES ASSUME NEW b \in Archives \ {a}, dir'[b] \in {"torn", "debris"}
                 PROVE  \E q \in Processes : pc'[q] = "removing" /\ (Victim(q).archive)' = b
      BY <2>1, <2>3
    <3>1. PICK q \in Processes : pc[q] = "removing" /\ Victim(q).archive = b
      BY <2>4 DEF Tidy
    <3>2. q # p
      BY <2>1, <3>1
    <3>. QED
      BY <1>1, <2>3, <3>1, <3>2
  <2>6. \A b \in Archives : dir'[b] = "empty" => b \in Workers /\ pc'[b] = "boot"
    BY <1>1, <2>1, <2>4 DEF Tidy, Processes
  <2>7. \A b \in Archives : writer'[b] # NoProcess => b \in Workers /\ pc'[b] = "running"
    BY <1>1, <2>1 DEF Tidy, Processes
  <2>. QED
    BY <1>2, <2>5, <2>6, <2>7 DEF Tidy
<1>4. CASE EndRemoval(p)
  <2>. DEFINE a == Victim(p).archive
  <2>1. /\ pc[p] = "removing" /\ pc'[p] = "delete" /\ UNCHANGED writer
        /\ dir' = [dir EXCEPT ![a] = "absent"]
    BY <1>1, <1>4 DEF EndRemoval, TypeOK
  <2>2. \A b \in Archives : dir'[b] = dir[b] \/ (b = a /\ dir'[b] = "absent")
    BY <1>1, <2>1 DEF TypeOK
  <2>. HIDE DEF a
  <2>3. \A b \in Archives : dir'[b] \in {"torn", "debris"} =>
          \E q \in Processes : pc'[q] = "removing" /\ (Victim(q).archive)' = b
    <3> SUFFICES ASSUME NEW b \in Archives, dir'[b] \in {"torn", "debris"}
                 PROVE  \E q \in Processes : pc'[q] = "removing" /\ (Victim(q).archive)' = b
      OBVIOUS
    <3>1. PICK q \in Processes : pc[q] = "removing" /\ Victim(q).archive = b
      BY <2>2 DEF Tidy
    <3>2. b # a
      <4>1. a \in Archives => dir'[a] = "absent"
        BY <1>1, <2>1 DEF TypeOK
      <4>. QED
        BY <4>1
    <3>3. q # p
      BY <3>1, <3>2 DEF a
    <3>4. (Victim(q).archive)' = Victim(q).archive /\ pc'[q] = pc[q]
      BY <1>1, <3>3 DEF Victim
    <3>. QED
      BY <3>1, <3>4
  <2>4. \A b \in Archives : dir'[b] = "empty" => b \in Workers /\ pc'[b] = "boot"
    BY <1>1, <2>1, <2>2 DEF Tidy, Processes
  <2>5. \A b \in Archives : writer'[b] # NoProcess => b \in Workers /\ pc'[b] = "running"
    BY <1>1, <2>1 DEF Tidy, Processes
  <2>. QED
    BY <1>2, <2>3, <2>4, <2>5 DEF Tidy
<1>5. CASE ~BeginRemoval(p) /\ ~EndRemoval(p)
  <2>1. /\ pc[p] # "removing" /\ pc'[p] # "removing"
        /\ \A a \in Archives : dir'[a] \in {"torn", "debris"} => dir[a] = dir'[a]
    BY <1>1, <1>5 DEF Sane, Begin, Announce, Release, Open, Skip, Lock, List, Spare, Unlock, Publish, AfterPrune, TypeOK
  <2>2. \A a \in Archives : dir'[a] \in {"torn", "debris"} =>
          \E q \in Processes : pc'[q] = "removing" /\ (Victim(q).archive)' = a
    <3> SUFFICES ASSUME NEW a \in Archives, dir'[a] \in {"torn", "debris"}
                 PROVE  \E q \in Processes : pc'[q] = "removing" /\ (Victim(q).archive)' = a
      OBVIOUS
    <3>1. PICK q \in Processes : pc[q] = "removing" /\ Victim(q).archive = a
      BY <2>1 DEF Tidy
    <3>2. q # p /\ pc'[q] = pc[q] /\ (Victim(q).archive)' = Victim(q).archive
      BY <1>1, <2>1, <3>1 DEF Victim
    <3>. QED
      BY <3>1, <3>2
  <2>3. /\ \A a \in Archives : dir'[a] = "empty" => a \in Workers /\ pc'[a] = "boot"
        /\ \A a \in Archives : writer'[a] # NoProcess => a \in Workers /\ pc'[a] = "running"
    <3>1. CASE Begin(p)
      <4>1. p \in Workers /\ p \in Archives /\ pc[p] = "off" /\ pc'[p] = "boot" /\ UNCHANGED writer
        BY <1>1, <3>1 DEF Begin, Archives, TypeOK
      <4>2. \A a \in Archives \ {p} : dir'[a] = dir[a]
        BY <1>1, <3>1 DEF Begin, TypeOK
      <4>. QED
        BY <1>1, <4>1, <4>2 DEF Tidy, Processes
    <3>2. CASE Announce(p)
      <4>1. p \in Workers /\ p \in Archives /\ pc'[p] = "running" /\ dir'[p] = "whole"
        BY <1>1, <3>2 DEF Announce, Archives, IInv, Places, Processes, TypeOK
      <4>2. \A a \in Archives \ {p} : dir'[a] = dir[a] /\ writer'[a] = writer[a]
        BY <1>1, <3>2 DEF Announce, TypeOK
      <4>. QED
        BY <1>1, <4>1, <4>2 DEF Tidy, Processes
    <3>3. CASE Release(p)
      <4>1. dir' = dir /\ pc[p] = "running" /\ \A a \in Archives : writer'[a] # NoProcess => a # p /\ writer'[a] = writer[a]
        BY <1>1, <3>3 DEF Release, TypeOK
      <4>. QED
        BY <1>1, <4>1 DEF Tidy, Processes
    <3>4. CASE ~Begin(p) /\ ~Announce(p) /\ ~Release(p)
      <4>1. UNCHANGED <<dir, writer>> /\ pc[p] \notin {"boot", "running"}
        BY <1>5, <3>4 DEF Sane, Open, Skip, Lock, List, Spare, Unlock, Publish
      <4>. QED
        BY <1>1, <4>1 DEF Tidy, Processes
    <3>. QED
      BY <3>1, <3>2, <3>3, <3>4
  <2>. QED
    BY <1>2, <2>2, <2>3 DEF Tidy
<1>. QED
  BY <1>3, <1>4, <1>5
\* The last to list: all others are through with theirs, so what it reads names
\* no writer, and it spares nothing but its own archive.
LEMMA LastListStep ==
  ASSUME IInv, Retained, Reached, faults = 0, NEW p \in Processes, Sane(p)
  PROVE  LastListIsDone'
<1>. USE DEF At, Goto
<1>1. /\ TypeOK /\ LastReads /\ Tidy /\ LastListIsDone
      /\ \A q \in Processes \ {p} : pc'[q] = pc[q] /\ doomed'[q] = doomed[q]
      /\ pc' = [pc EXCEPT ![p] = pc'[p]]
  <2>1. TypeOK /\ LastReads /\ Tidy /\ LastListIsDone
    BY DEF IInv, Reached
  <2>2. \E place \in {"off", "boot", "running", "prune", "list", "delete", "removing", "publish",
                      "done", "failed", "dead"} : pc' = [pc EXCEPT ![p] = place]
    BY <2>1 DEF Sane, Begin, Announce, Release, Open, Skip, Lock, List, Spare, BeginRemoval,
         EndRemoval, Unlock, Publish, AfterPrune, TypeOK
  <2>3. pc' = [pc EXCEPT ![p] = pc'[p]]
    BY <2>1, <2>2 DEF TypeOK
  <2>. QED
    BY <2>1, <2>3, OneMoves
<1>2. CASE Begin(p) \/ Announce(p) \/ Release(p) \/ Open(p) \/ Lock(p)
  <2>1. pc'[p] \in {"boot", "running", "prune", "list"}
    BY <1>1, <1>2 DEF Begin, Announce, Release, Open, Lock, TypeOK
  <2>. QED
    BY <2>1, NotAllListed DEF HasListed
<1>3. CASE Skip(p)
  BY <1>3 DEF Skip, LastListIsDone
<1>4. CASE List(p)
  <2>1. lastRead' = p /\ UNCHANGED <<dir, writer>> /\ pc[p] = "list" /\ pc'[p] = "delete"
    BY <1>1, <1>4 DEF List, TypeOK
  <2>2. Going' = Doomed(p)' /\ Owned' = Owned
    BY <2>1 DEF Going, Deleting, Doomed, Owned
  <2>3. Cardinality(Owned' \ ({lastRead'} \cup Going')) <= Keep
    <3>. DEFINE S == Owned \ ({p} \cup Doomed(p)')
                T == Owned \ Doomed(p)'
    <3>1. T \in SUBSET Archives /\ S \in SUBSET T
      BY DEF Owned
    <3>2. Cardinality(T) <= Keep
      BY <1>4, FirstAreKept
    <3>. HIDE DEF S, T
    <3>3. Cardinality(S) \in Nat /\ Cardinality(T) \in Nat /\ Cardinality(S) <= Cardinality(T)
      BY <3>1, ArchivesFinite
    <3>4. Cardinality(S) <= Keep
      BY <3>2, <3>3, BoundsAssumption
    <3>. QED
      BY <2>1, <2>2, <3>4 DEF S
  <2>4. ASSUME \A q \in Processes : HasListed(q)', NEW i \in 1..Len(doomed'[p])
        PROVE  doomed'[p][i].writer = NoProcess
    <3>1. PICK a \in Owned : doomed'[p][i].writer = writer[a]
      BY <1>4, FirstAreKept
    <3>2. a \in Archives
      BY DEF Owned
    <3>3. ASSUME a \in Workers, pc[a] = "running" PROVE FALSE
      <4>1. a \in Processes \ {p}
        BY <2>1, <3>3 DEF Processes
      <4>2. pc'[a] = "running"
        BY <1>1, <3>3, <4>1
      <4>. QED
        BY <2>4, <4>1, <4>2 DEF HasListed
    <3>. QED
      BY <1>1, <3>1, <3>2, <3>3 DEF Tidy
  <2>. QED
    BY <2>1, <2>3, <2>4 DEF LastListIsDone
<1>5. CASE Publish(p) \/ Unlock(p)
  <2>1. /\ UNCHANGED <<dir, doomed, skipped, lastRead>> /\ HasListed(p) /\ ~Deleting(p)'
        /\ Deleting(p) => doomed[p] = <<>>
    BY <1>1, <1>5 DEF Publish, Unlock, AfterPrune, HasListed, Deleting, TypeOK
  <2>2. \A q \in Processes : HasListed(q)' => HasListed(q)
    BY <1>1, <2>1 DEF HasListed
  <2>3. Deleting(p) => Doomed(p) = {}
    <3>1. Len(<<>>) = 0
      BY EmptySeq
    <3>. QED
      BY <2>1, <3>1 DEF Doomed
  <2>4. lastRead \in Processes => Going' = Going
    <3>1. CASE lastRead = p
      <4>1. Going' = {}
        BY <2>1, <3>1 DEF Going
      <4>2. Going = {}
        BY <2>3, <3>1 DEF Going
      <4>. QED
        BY <4>1, <4>2
    <3>2. CASE lastRead \in Processes \ {p}
      <4>1. (Deleting(lastRead)' <=> Deleting(lastRead)) /\ Doomed(lastRead)' = Doomed(lastRead)
        BY <1>1, <2>1, <3>2 DEF Deleting, Doomed
      <4>. QED
        BY <2>1, <4>1 DEF Going
    <3>. QED
      BY <3>1, <3>2
  <2>5. Owned' = Owned
    BY <2>1 DEF Owned
  <2>6. CASE lastRead \in Processes
    <3>1. Deleting(lastRead)' => Deleting(lastRead)
      BY <1>1, <2>1, <2>6 DEF Deleting
    <3>2. Owned' \ ({lastRead} \cup Going') \in SUBSET (Owned \ ({lastRead} \cup Going))
      BY <2>4, <2>5, <2>6
    <3>. QED
      BY <2>1, <2>2, <3>1, <3>2, DoneStays
  <2>7. CASE lastRead \notin Processes
    BY <1>1, <2>1, <2>2, <2>7 DEF LastListIsDone
  <2>. QED
    BY <2>6, <2>7
<1>6. CASE BeginRemoval(p)
  <2>. DEFINE a == Victim(p).archive
  <2>1. /\ UNCHANGED <<doomed, skipped, lastRead>> /\ pc[p] = "delete" /\ pc'[p] = "removing"
        /\ doomed[p] # <<>> /\ \E left \in {"torn", "debris"} : dir' = [dir EXCEPT ![a] = left]
    BY <1>1, <1>6 DEF BeginRemoval, TypeOK
  <2>2. a \in Archives \ Legacy /\ dir[a] \notin {"absent", "empty"} /\ lastRead = p
    BY <1>1, <2>1, HeadAndRest, ArchivesAssumption DEF LastReads, Deleting, Entry, Sound, Archives
  <2>3. dir[a] \in {"whole", "torn"} \/ dir[a] = "debris"
    BY <1>1, <2>2 DEF TypeOK
  <2>. HIDE DEF a
  <2>4. dir[a] # "debris"
    <3> SUFFICES ASSUME dir[a] = "debris" PROVE FALSE
      OBVIOUS
    <3>1. PICK q \in Processes : pc[q] = "removing"
      BY <1>1, <2>2 DEF Tidy
    <3>. QED
      BY <2>1, <3>1 DEF IInv, LockHeld
  <2>5. Owned' \subseteq Owned
    <3>1. a \in Owned
      BY <2>2, <2>3, <2>4 DEF Owned
    <3>2. \A b \in Archives \ {a} : dir'[b] = dir[b]
      BY <1>1, <2>1 DEF TypeOK
    <3>. QED
      BY <3>1, <3>2 DEF Owned
  <2>6. Going' = Going /\ Deleting(lastRead) /\ \A q \in Processes : HasListed(q)' => HasListed(q)
    BY <1>1, <2>1, <2>2 DEF Going, Deleting, Doomed, HasListed
  <2>7. Owned' \ ({lastRead} \cup Going') \in SUBSET (Owned \ ({lastRead} \cup Going))
    BY <2>5, <2>6
  <2>. QED
    BY <2>1, <2>6, <2>7, DoneStays
<1>7. CASE Spare(p) \/ EndRemoval(p)
  <2>. DEFINE a == Victim(p).archive
  <2>1. /\ UNCHANGED <<skipped, lastRead>> /\ Deleting(p) /\ pc'[p] = "delete" /\ doomed[p] # <<>>
        /\ doomed' = [doomed EXCEPT ![p] = Tail(@)] /\ lastRead = p
        /\ \/ Spare(p) /\ dir' = dir
           \/ dir' = [dir EXCEPT ![a] = "absent"]
    <3>1. CASE Spare(p)
      BY <1>1, <3>1 DEF Spare, NextVictim, Deleting, LastReads
    <3>2. CASE EndRemoval(p)
      BY <1>1, <3>2 DEF EndRemoval, NextVictim, Deleting, LastReads, IInv, VictimFinished, TypeOK
    <3>. QED
      BY <1>7, <3>1, <3>2
  <2>2. /\ a \in Doomed(p) /\ Doomed(p)' = Doomed(p) \ {a}
    BY <2>1, DoomedRest
  <2>3. Going = Doomed(p) /\ Going' = Doomed(p) \ {a}
    BY <2>1, <2>2 DEF Going, Deleting
  <2>4. /\ \A q \in Processes : HasListed(q)' => HasListed(q)
    BY <1>1, <2>1 DEF HasListed, Deleting
  <2>5. doomed'[p] = Tail(doomed[p]) /\ doomed[p] \in Seq(Entry)
    BY <1>1, <2>1 DEF TypeOK, Entry
  <2>6. \A i \in 1..Len(doomed'[p]) : \E j \in 1..Len(doomed[p]) : doomed'[p][i] = doomed[p][j]
    BY <2>1, <2>5, TailOf
  <2>7. CASE skipped = {} /\ \A q \in Processes : HasListed(q)
    <3>1. Victim(p).writer = NoProcess
      <4>1. \A i \in 1..Len(doomed[p]) : doomed[p][i].writer = NoProcess
        BY <1>1, <2>1, <2>7 DEF LastListIsDone
      <4>2. Victim(p) = doomed[p][1] /\ 1 \in 1..Len(doomed[p])
        BY <2>1, <2>5, TailOf DEF Victim
      <4>. QED
        BY <4>1, <4>2
    <3>2. Spare(p) => a = p
      BY <3>1 DEF Spare, ActiveWriter
    <3>3. a \in Archives /\ (Spare(p) \/ (a \notin Owned' /\ Owned' \subseteq Owned))
      <4>1. a \in Archives
        BY <2>1, <2>2, OnTheList
      <4>2. Spare(p) \/ (dir'[a] = "absent" /\ \A b \in Archives \ {a} : dir'[b] = dir[b])
        BY <1>1, <2>1, <4>1 DEF TypeOK
      <4>. HIDE DEF a
      <4>. QED
        BY <4>1, <4>2 DEF Owned
    <3>4. Spare(p) => Owned' = Owned
      <4>1. Spare(p) => dir' = dir
        BY DEF Spare
      <4>. QED
        BY <4>1 DEF Owned
    <3>. HIDE DEF a
    <3>5. Owned' \ ({lastRead} \cup Going') \in SUBSET (Owned \ ({lastRead} \cup Going))
      BY <2>1, <2>2, <2>3, <3>2, <3>3, <3>4
    <3>. QED
      BY <2>1, <2>4, <2>6, <3>5, DoneStays
  <2>8. CASE ~(skipped = {} /\ \A q \in Processes : HasListed(q))
    BY <2>1, <2>4, <2>8 DEF LastListIsDone
  <2>. QED
    BY <2>7, <2>8
<1>. QED
  BY <1>2, <1>3, <1>4, <1>5, <1>6, <1>7 DEF Sane

-----------------------------------------------------------------------------
LEMMA InitReached == Init => Reached
<1> SUFFICES ASSUME Init PROVE Reached
  OBVIOUS
<1>1. LastReads
  BY DEF Init, LastReads, Deleting
<1>2. Tidy
  BY DEF Init, Tidy, Archives
<1>3. LastListIsDone
  <2>1. \A q \in Processes : ~HasListed(q)
    BY DEF Init, HasListed
  <2>. QED
    BY <2>1, SharedAssumption DEF LastListIsDone
<1>. QED
  BY <1>1, <1>2, <1>3 DEF Reached

\* The newest rounds are kept and the others go, in every reachable state.
LEMMA RetentionStep == ASSUME IInv, Retained, Reached, [Next]_vars PROVE Retained' /\ Reached'
<1>1. ASSUME NEW p \in Processes, Sane(p) \/ FailRemoval(p) \/ Crash(p) PROVE Retained' /\ Reached'
  <2>1. Retained'
    BY <1>1, QuietRetains, BeginRetains, AnnounceRetains, ListRetains, RestRetains, BeginRemovalRetains
       DEF Sane, Quiet
  <2>2. LastReads'
    BY <1>1, LastReadsStep DEF Reached
  <2>3. faults' = 0 => Sane(p) /\ faults = 0
    BY <1>1, OneMoves
  <2>4. faults' = 0 => Tidy' /\ LastListIsDone'
    BY <2>3, TidyStep, LastListStep DEF Reached
  <2>. QED
    BY <2>1, <2>2, <2>4 DEF Reached
<1>2. CASE UNCHANGED vars
  <2>1. Stamps' /\ KeepsEnough' /\ VictimBroken' /\ NewestKept'
    <3>1. Stamps'
      BY <1>2 DEF vars, Retained, Stamps
    <3>2. VictimBroken'
      BY <1>2 DEF vars, Retained, VictimBroken, Victim
    <3>3. KeepsEnough' /\ NewestKept'
      BY <1>2, NothingTaken DEF vars, Deleting, Doomed
    <3>. QED
      BY <3>1, <3>2, <3>3
  <2>2. LastReads' /\ (faults' = 0 => Tidy')
    BY <1>2 DEF vars, Reached, LastReads, Tidy, Deleting, Victim
  <2>3. faults' = 0 => LastListIsDone'
    BY <1>2 DEF vars, Reached, LastListIsDone, HasListed, Deleting, Going, Doomed, Owned
  <2>. QED
    BY <2>1, <2>2, <2>3 DEF Retained, Reached
<1>. QED
  BY <1>1, <1>2 DEF Next, Sane

LEMMA RetentionInvariant == Spec => [](IInv /\ Retained /\ Reached)
<1>1. Init => Retained /\ Reached
  BY InitRetained, InitReached
<1>2. IInv /\ Retained /\ Reached /\ [Next]_vars => Retained' /\ Reached'
  BY RetentionStep
<1>. QED
  BY <1>1, <1>2, Inductive, PTL DEF Spec

\* Whatever a prune has removed, is removing or left in pieces, Keep newer
\* whole archives remain, for any number of processes, crashes and failed
\* removals (result_storage.py:216, owned[keep:]).
THEOREM NewestKeptHolds == Spec => []NewestKept
<1>1. Retained => NewestKept
  BY DEF Retained
<1>. QED
  BY <1>1, RetentionInvariant, PTL

\* When all have ended, none skipped and nothing failed, the last prune has
\* left no more than Keep archives beside its own (result_storage.py:234).
THEOREM RetentionReachedHolds == Spec => []RetentionReached
<1>1. IInv /\ Reached => RetentionReached
  <2> SUFFICES ASSUME IInv, Reached, AllEnded, skipped = {}, faults = 0
               PROVE  /\ \A a \in Archives : dir[a] \in {"whole", "absent"}
                      /\ Cardinality(Owned \ {lastRead}) <= Keep
    BY DEF RetentionReached
  <2>1. Tidy /\ LastListIsDone /\ TypeOK
    BY DEF Reached, IInv
  <2>2. \A q \in Processes : pc[q] \in {"done", "failed"}
    BY <2>1 DEF AllEnded, Live, Tidy
  <2>3. \A a \in Archives : dir[a] \notin {"torn", "debris", "empty"}
    BY <2>1, <2>2 DEF Tidy, Processes
  <2>4. \A a \in Archives : dir[a] \in {"whole", "absent"}
    BY <2>1, <2>3 DEF TypeOK
  <2>5. /\ lastRead \in Processes
        /\ Cardinality(Owned \ ({lastRead} \cup Going)) <= Keep
    BY <2>1, <2>2 DEF LastListIsDone, HasListed
  <2>6. Going = {}
    BY <2>2, <2>5 DEF Going, Deleting
  <2>7. Owned \ ({lastRead} \cup Going) = Owned \ {lastRead}
    BY <2>6
  <2>. QED
    BY <2>4, <2>5, <2>7
<1>. QED
  BY <1>1, RetentionInvariant, PTL
=============================================================================
