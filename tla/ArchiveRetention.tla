-------------------------- MODULE ArchiveRetention --------------------------
(***************************************************************************)
(* The archives of one output folder and the processes that share it:      *)
(* workers (run_suite, run_session) that each write one archive and prune  *)
(* the folder when they have finished, and windows that prune it when they *)
(* start (restore_results).  prune_archives takes a nonblocking file lock, *)
(* lists the archives with their manifests, and deletes what lies beyond   *)
(* the newest Keep, directory by directory.                                *)
(*                                                                         *)
(* A worker's archive is named after the worker.  A directory that lost    *)
(* its manifest is no archive any more.  Links, unreadable manifests and   *)
(* reused process identifiers are left out.                                *)
(***************************************************************************)
EXTENDS Naturals, FiniteSets, Sequences, SequencesExt

CONSTANTS
  Workers,    \* processes that write an archive
  Windows,    \* processes that only prune
  Old,        \* archives of earlier runs that this application owns
  Legacy,     \* archives without the application's mark
  Keep,       \* KEEP_RUNS
  MaxFaults,  \* bound: crashes and failed deletions
  NoProcess

Processes == Workers \cup Windows
Archives == Workers \cup Old \cup Legacy

ASSUME ArchivesAssumption ==
  /\ IsFiniteSet(Archives) /\ IsFiniteSet(Windows) /\ NoProcess \notin Processes \cup Archives
  /\ Workers \cap (Windows \cup Old \cup Legacy) = {} /\ Old \cap Legacy = {}
ASSUME SharedAssumption == Processes # {}
ASSUME BoundsAssumption == Keep \in Nat \ {0} /\ MaxFaults \in Nat

VARIABLES
  dir,      \* a directory is absent, empty, whole, torn (manifest left) or debris
  stamp,    \* the archive's place in the order of started_at and path, 0 before it is begun
  writer,   \* the manifest's writer, NoProcess when there is none
  lock,     \* who holds .retention.lock
  pc,       \* where a process is
  doomed,   \* what a pruning process still has to look at: archives and writers as read
  skipped,  \* history: processes that found the lock taken
  lastRead, \* history: the process that last listed the folder
  clock, faults

vars == <<dir, stamp, writer, lock, pc, doomed, skipped, lastRead, clock, faults>>

Init ==
  /\ dir = [a \in Archives |-> IF a \in Workers THEN "absent" ELSE "whole"]
  /\ stamp \in [Archives -> 0..Cardinality(Old)]
  /\ \A a \in Archives : stamp[a] = 0 <=> a \notin Old
  /\ \A a, b \in Old : a # b => stamp[a] # stamp[b]
  /\ writer = [a \in Archives |-> NoProcess]
  /\ lock = NoProcess
  /\ pc = [p \in Processes |-> "off"]
  /\ doomed = [p \in Processes |-> <<>>]
  /\ skipped = {} /\ lastRead = NoProcess
  /\ clock = Cardinality(Old) /\ faults = 0

Fault == faults < MaxFaults /\ faults' = faults + 1

Live(p) == pc[p] \notin {"off", "done", "failed", "dead"}
At(p, place) == pc[p] = place
Goto(p, place) == pc' = [pc EXCEPT ![p] = place]

\* Mutant: no writer is active.
NoActiveWriter(w) == FALSE

\* active_writer: the process the manifest names still runs.
ActiveWriter(w) == w # NoProcess /\ Live(w)

-----------------------------------------------------------------------------
\* The archive's directory; started_at is taken now and saved later.
Begin(p) ==
  /\ p \in Workers /\ At(p, "off")
  /\ Goto(p, "boot")
  /\ clock' = clock + 1
  /\ stamp' = [stamp EXCEPT ![p] = clock + 1]
  /\ dir' = [dir EXCEPT ![p] = "empty"]
  /\ UNCHANGED <<writer, lock, doomed, skipped, lastRead, faults>>

\* The first manifest, which names the writer.
Announce(p) ==
  /\ At(p, "boot")
  /\ Goto(p, "running")
  /\ dir' = [dir EXCEPT ![p] = "whole"]
  /\ writer' = [writer EXCEPT ![p] = p]
  /\ UNCHANGED <<stamp, lock, doomed, skipped, lastRead, clock, faults>>

\* Mutant: the writer stays in the manifest.
ReleaseNothing(p) ==
  /\ At(p, "running")
  /\ Goto(p, "prune")
  /\ UNCHANGED <<dir, stamp, writer, lock, doomed, skipped, lastRead, clock, faults>>

\* The verdict and the report are written, the writer is taken out.
Release(p) ==
  /\ At(p, "running")
  /\ Goto(p, "prune")
  /\ writer' = [writer EXCEPT ![p] = NoProcess]
  /\ UNCHANGED <<dir, stamp, lock, doomed, skipped, lastRead, clock, faults>>

Open(p) ==
  /\ p \in Windows /\ At(p, "off")
  /\ Goto(p, "prune")
  /\ UNCHANGED <<dir, stamp, writer, lock, doomed, skipped, lastRead, clock, faults>>

AfterPrune(p) == IF p \in Workers THEN "publish" ELSE "done"

\* The lock is taken: nothing is pruned and nothing is reported.
Skip(p) ==
  /\ At(p, "prune") /\ lock # NoProcess
  /\ Goto(p, AfterPrune(p))
  /\ skipped' = skipped \cup {p}
  /\ UNCHANGED <<dir, stamp, writer, lock, doomed, lastRead, clock, faults>>

\* Mutant: the lock is not looked at.
LockAnyway(p) ==
  /\ At(p, "prune")
  /\ lock' = p
  /\ Goto(p, "list")
  /\ UNCHANGED <<dir, stamp, writer, doomed, skipped, lastRead, clock, faults>>

\* flock without waiting: the lock is free.
Lock(p) ==
  /\ At(p, "prune") /\ lock = NoProcess
  /\ lock' = p
  /\ Goto(p, "list")
  /\ UNCHANGED <<dir, stamp, writer, doomed, skipped, lastRead, clock, faults>>

\* Mutant: the application's mark is not looked at.
Readable == {a \in Archives : dir[a] \in {"whole", "torn"}}

\* The application's own archives, as archives() finds them.
Owned == {a \in Archives \ Legacy : dir[a] \in {"whole", "torn"}}

\* Mutant: oldest first.
OldestFirst(order) ==
  \A i, j \in 1..Len(order) : i < j => stamp[order[i]] <= stamp[order[j]]

\* archives(): newest first.
NewestFirst(order) ==
  \A i, j \in 1..Len(order) : i < j => stamp[order[i]] >= stamp[order[j]]

\* The whole list is read before anything is deleted.
List(p) ==
  /\ At(p, "list")
  /\ \E order \in SetToSeqs(Owned) :
       /\ NewestFirst(order)
       /\ doomed' = [doomed EXCEPT ![p] =
            [i \in 1..(Len(order) - Keep) |->
               [archive |-> order[i + Keep], writer |-> writer[order[i + Keep]]]]]
  /\ lastRead' = p
  /\ Goto(p, "delete")
  /\ UNCHANGED <<dir, stamp, writer, lock, skipped, clock, faults>>

Victim(p) == Head(doomed[p])
NextVictim(p) == doomed' = [doomed EXCEPT ![p] = Tail(@)]

\* The archive just written is protected, an active writer's is left alone.
Spare(p) ==
  /\ At(p, "delete") /\ doomed[p] # <<>>
  /\ Victim(p).archive = p \/ ActiveWriter(Victim(p).writer)
  /\ NextVictim(p)
  /\ UNCHANGED <<dir, stamp, writer, lock, pc, skipped, lastRead, clock, faults>>

\* rmtree: the manifest goes before or after the other files.
BeginRemoval(p) ==
  /\ At(p, "delete") /\ doomed[p] # <<>>
  /\ ~(Victim(p).archive = p \/ ActiveWriter(Victim(p).writer))
  /\ \E left \in {"torn", "debris"} : dir' = [dir EXCEPT ![Victim(p).archive] = left]
  /\ Goto(p, "removing")
  /\ UNCHANGED <<stamp, writer, lock, doomed, skipped, lastRead, clock, faults>>

EndRemoval(p) ==
  /\ At(p, "removing")
  /\ dir' = [dir EXCEPT ![Victim(p).archive] = "absent"]
  /\ NextVictim(p) /\ Goto(p, "delete")
  /\ UNCHANGED <<stamp, writer, lock, skipped, lastRead, clock, faults>>

\* rmtree raises OSError: reported, and the next archive's turn.
FailRemoval(p) ==
  /\ At(p, "removing")
  /\ Fault
  /\ NextVictim(p) /\ Goto(p, "delete")
  /\ UNCHANGED <<dir, stamp, writer, lock, skipped, lastRead, clock>>

Unlock(p) ==
  /\ At(p, "delete") /\ doomed[p] = <<>>
  /\ lock' = NoProcess
  /\ Goto(p, AfterPrune(p))
  /\ UNCHANGED <<dir, stamp, writer, doomed, skipped, lastRead, clock, faults>>

\* run_suite copies its report out of the archive.
Publish(p) ==
  /\ At(p, "publish")
  /\ Goto(p, IF dir[p] = "whole" THEN "done" ELSE "failed")
  /\ UNCHANGED <<dir, stamp, writer, lock, doomed, skipped, lastRead, clock, faults>>

\* The system releases the lock of a dead process.
Crash(p) ==
  /\ Live(p)
  /\ Fault
  /\ Goto(p, "dead")
  /\ lock' = IF lock = p THEN NoProcess ELSE lock
  /\ UNCHANGED <<dir, stamp, writer, doomed, skipped, lastRead, clock>>

AllEnded == \A p \in Processes : ~Live(p) /\ pc[p] # "off"

Next ==
  \/ \E p \in Processes :
       \/ Begin(p) \/ Announce(p) \/ Release(p) \/ Open(p) \/ Skip(p) \/ Lock(p) \/ List(p) \/ Spare(p)
       \/ BeginRemoval(p) \/ EndRemoval(p) \/ FailRemoval(p) \/ Unlock(p) \/ Publish(p) \/ Crash(p)
  \/ AllEnded /\ UNCHANGED vars

Spec == Init /\ [][Next]_vars

-----------------------------------------------------------------------------
TypeOK ==
  /\ dir \in [Archives -> {"absent", "empty", "whole", "torn", "debris"}]
  /\ stamp \in [Archives -> 0..(Cardinality(Old) + Cardinality(Workers))]
  /\ writer \in [Archives -> Workers \cup {NoProcess}]
  /\ lock \in Processes \cup {NoProcess} /\ lastRead \in Processes \cup {NoProcess}
  /\ pc \in [Processes -> {"off", "boot", "running", "prune", "list", "delete", "removing", "publish",
                           "done", "failed", "dead"}]
  /\ doomed \in [Processes -> Seq([archive : Old \cup Workers, writer : Workers \cup {NoProcess}])]
  /\ skipped \in SUBSET Processes
  /\ clock \in 0..(Cardinality(Old) + Cardinality(Workers)) /\ faults \in 0..MaxFaults

\* A worker's archive, once begun, and every archive of an earlier run.
Existed(a) == a \notin Workers \/ stamp[a] > 0

\* The newest Keep rounds are kept: whatever is gone, or going, has at least
\* Keep newer whole archives, whoever deletes and in whatever order the
\* processes started.
NewestKept ==
  \A a \in Archives : Existed(a) /\ dir[a] \in {"absent", "torn", "debris"} =>
    Cardinality({b \in Archives \ Legacy : dir[b] = "whole" /\ stamp[b] >= stamp[a]}) >= Keep

\* Files of unknown origin and the archive of a worker that still writes
\* survive every prune, of a list however old.
UnfinishedSurvives ==
  \A a \in Archives :
    a \in Legacy \/ (a \in Workers /\ pc[a] = "running") => dir[a] = "whole"

\* Between listing and deleting nobody else takes a directory away: rmtree
\* never meets one that is gone, and two prunes never work on one directory.
OnlyOneDeletes ==
  \A p \in Processes : pc[p] \in {"delete", "removing"} =>
    /\ \A i \in 1..Len(doomed[p]) : dir[doomed[p][i].archive] # "absent"
    /\ \A q \in Processes \ {p} : pc[q] # "removing"

\* When everything has ended, nobody skipped the prune and nothing failed, no
\* archive lies beyond the newest Keep but the one its own prune protected.
RetentionReached ==
  AllEnded /\ skipped = {} /\ faults = 0 =>
    /\ \A a \in Archives : dir[a] \in {"whole", "absent"}
    /\ Cardinality(Owned \ {lastRead}) <= Keep

\* result_storage.py:219: active workers survive a prune.  A worker that has
\* not ended finds its archive whole.
WorkerKeepsArchive ==
  \A p \in Workers : Live(p) /\ pc[p] # "boot" => dir[p] = "whole"
=============================================================================
