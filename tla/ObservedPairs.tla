---------------------------- MODULE ObservedPairs ----------------------------
(***************************************************************************)
(* The scheduler-observed core pair diagnostic (src/intercore_observed.h)  *)
(* and the strict reader of its evidence (intercore_observed.py).          *)
(*                                                                         *)
(* The engine keeps a pool of unpinned workers.  For every attempt the     *)
(* main thread names a ping and a pong, resets the shared flags and raises *)
(* the generation; the two meet, bounce a token to warm up, meet again and *)
(* bounce it under the clock, each noting the CPU it ran on before and     *)
(* after; the others stay busy until the pair is done.  Every wait gives   *)
(* up when the attempt is stopped, failed or late.  The main thread        *)
(* classifies the attempt and, at the end, writes the pairs that have all  *)
(* their samples together with every attempt, kept or rejected.            *)
(*                                                                         *)
(* The reader replays the attempts one by one, so its progress is carried  *)
(* here beside the engine's: `audit' is the reader's state after the       *)
(* attempts written so far.                                                *)
(*                                                                         *)
(* A bounce is one exchange for the warm-up and one under the clock (128   *)
(* and 2000 in the code); time is the flag `late'.                         *)
(***************************************************************************)
EXTENDS Naturals, FiniteSets

CONSTANTS
  Cpus,          \* CPU numbers the workers may observe
  MaxLogical,    \* largest number of logical CPUs
  Samples,       \* OBS_SAMPLES, 32 in the code
  MaxAttempts    \* OBS_MAX_ATTEMPTS, 64000 in the code

\* Of the constants.
ObservedAssumption ==
  /\ IsFiniteSet(Cpus) /\ {"none", "odd"} \cap Cpus = {}
  /\ MaxLogical \in Nat \ {0, 1} /\ Samples \in Nat \ {0} /\ MaxAttempts \in Nat \ {0}

VARIABLES
  logical,       \* logical CPUs of the machine
  workers,       \* threads of the pool
  main,          \* where the main thread is
  gen,           \* obs.generation
  shared,        \* the other fields of obs
  late,          \* the attempt's deadline has passed
  worker,        \* each worker: where it is and what it has measured
  engine,        \* the engine's pairs and CPU numbers
  audit,         \* the reader's state after the attempts so far
  verdict        \* exit status, the covered pairs written, and what the reader says

vars == <<logical, workers, main, gen, shared, late, worker, engine, audit, verdict>>

None == "none"
Odd == "odd"          \* a token outside the known register layout
Tokens == Cpus \union {Odd}
AllPairs == {p \in Cpus \X Cpus : p[1] # p[2]}
Pool == 0..(workers - 1)

Cleared == [token |-> 0, done |-> 0, failed |-> FALSE, pairDone |-> FALSE,
            ready |-> {}, warmed |-> {}, stop |-> FALSE]
Unmeasured == [before |-> None, after |-> None, elapsed |-> 0]

Init ==
  /\ logical \in 2..MaxLogical /\ workers \in 2..logical
  /\ main = "start" /\ gen = 0 /\ shared = Cleared /\ late = FALSE
  /\ worker = [w \in 0..(MaxLogical - 1) |->
                 [at |-> "idle", seen |-> 0, whole |-> FALSE, took |-> Unmeasured]]
  /\ engine = [kept |-> [p \in AllPairs |-> 0], ids |-> {}]
  /\ audit = [kept |-> [p \in AllPairs |-> 0], observed |-> {}, valid |-> TRUE]
  /\ verdict = [status |-> None, covered |-> 0, accepted |-> None]

-----------------------------------------------------------------------------
(* The workers. *)

\* Attempt number g names the ping and the pong in turn.
Order(g) == (g - 1) % (workers * (workers - 1))
Ping(g) == Order(g) \div (workers - 1)
Pong(g) == LET k == Order(g) % (workers - 1) IN IF k >= Ping(g) THEN k + 1 ELSE k
Pair(g) == {Ping(g), Pong(g)}
IsPing(w) == w = Ping(worker[w].seen)

Expired == shared.stop \/ shared.failed \/ late
\* A worker that finds the deadline passed fails the attempt for everyone.
FailsLate == IF shared.stop THEN shared.failed ELSE TRUE

Moves(w, to) == worker' = [worker EXCEPT ![w].at = to]
Keeps == UNCHANGED <<logical, workers, main, gen, late, engine, audit, verdict>>

Take(w) ==
  /\ worker[w].at = "idle" /\ ~shared.stop /\ worker[w].seen # gen
  /\ worker' = [worker EXCEPT ![w].seen = gen, ![w].whole = FALSE,
                              ![w].at = IF w \in Pair(gen) THEN "meet" ELSE "busy"]
  /\ shared' = IF w \in Pair(gen) THEN [shared EXCEPT !.ready = @ \union {w}] ELSE shared
  /\ Keeps

\* The waiting places of a participant, and what each waits for.
Waits(w) ==
  CASE worker[w].at = "meet" -> Pair(gen) \subseteq shared.ready
    [] worker[w].at \in {"warm", "trip"} -> shared.token = IF IsPing(w) THEN 0 ELSE 1
    [] worker[w].at = "sync" -> shared.warmed = Pair(gen)
    [] worker[w].at = "final" -> shared.token = 0
    [] worker[w].at = "busy" -> shared.pairDone
    [] OTHER -> FALSE

Flip(w) == [shared EXCEPT !.token = IF IsPing(w) THEN 1 ELSE 0]

Met(w) == worker[w].at = "meet" /\ Waits(w) /\ Moves(w, "warm") /\ UNCHANGED shared /\ Keeps

\* The exchange of the warm-up; only a finished warm-up is announced.  A bounce
\* looks at the deadline after an exchange too, so it may give up having flipped.
Warms(w) ==
  /\ worker[w].at = "warm" /\ Waits(w)
  /\ \/ Moves(w, "sync") /\ shared' = [Flip(w) EXCEPT !.warmed = @ \union {w}]
     \/ Expired /\ Moves(w, "leave") /\ shared' = [Flip(w) EXCEPT !.failed = FailsLate]
  /\ Keeps

\* Mutant: a side whose peer has given up waits on.
OnlyThePeer(w) == Waits(w)
\* The clock starts, whether the peer came or the wait expired.
Together(w) == Waits(w) \/ Expired
Synced(w) ==
  /\ worker[w].at = "sync" /\ Together(w) /\ Moves(w, "trip")
  /\ shared' = IF Waits(w) THEN shared ELSE [shared EXCEPT !.failed = FailsLate]
  /\ Keeps

Trips(w) ==
  /\ worker[w].at = "trip" /\ Waits(w)
  /\ \/ /\ worker' = IF IsPing(w) THEN [worker EXCEPT ![w].at = "final"]
                    ELSE [worker EXCEPT ![w].at = "clock", ![w].whole = TRUE]
        /\ shared' = Flip(w)
     \/ Expired /\ Moves(w, "clock") /\ shared' = [Flip(w) EXCEPT !.failed = FailsLate]
  /\ Keeps

Returned(w) ==
  /\ worker[w].at = "final" /\ Waits(w)
  /\ worker' = [worker EXCEPT ![w].at = "clock", ![w].whole = TRUE]
  /\ UNCHANGED shared /\ Keeps

\* The clock stops.  A coarse one may have seen no time pass, and the CPU number
\* may be none the engine knows; either way the numbers do not matter any more.
Measured ==
  {[before |-> b, after |-> a, elapsed |-> 1] : b \in Cpus, a \in Cpus}
    \union {[before |-> Odd, after |-> Odd, elapsed |-> 1], Unmeasured}

Clocks(w) ==
  /\ worker[w].at = "clock"
  /\ \E m \in Measured : worker' = [worker EXCEPT ![w].at = "leave", ![w].took = m]
  /\ UNCHANGED shared /\ Keeps

\* A wait that expires: before the clock the attempt is dropped, after it the
\* worker still stops its clock.
GivesUp(w) ==
  /\ worker[w].at \in {"meet", "warm", "trip", "final", "busy"} /\ Expired
  /\ Moves(w, IF worker[w].at \in {"trip", "final"} THEN "clock" ELSE "leave")
  /\ shared' = [shared EXCEPT !.failed = FailsLate] /\ Keeps

\* The ping ends the pair for the busy workers, also after a failure.
Leave(w) ==
  /\ worker[w].at = "leave" /\ Moves(w, "idle")
  /\ shared' = [shared EXCEPT !.done = @ + 1, !.pairDone = @ \/ IsPing(w)]
  /\ Keeps

Exits(w) == worker[w].at = "idle" /\ shared.stop /\ Moves(w, "gone") /\ UNCHANGED shared /\ Keeps

Step(w) == Take(w) \/ Met(w) \/ Warms(w) \/ Synced(w) \/ Trips(w) \/ Returned(w)
             \/ Clocks(w) \/ GivesUp(w) \/ Leave(w) \/ Exits(w)

-----------------------------------------------------------------------------
(* What the main thread makes of an attempt. *)

Of(w) == worker[w].took
Distinct(a) == a.from[1] # a.to[1]
Migrated(a) == a.from[1] # a.from[2] \/ a.to[1] # a.to[2]
TimedOut(a) == shared.failed \/ a.ping = 0 \/ a.pong = 0
Unknown(a) == Odd \in {a.from[1], a.from[2], a.to[1], a.to[2]}
Key(a) == <<a.from[1], a.to[1]>>

\* obs_id: the first CPU number is entered even when the second finds no room.
Enter(ids, cpu) == IF Cardinality(ids) < logical THEN ids \union {cpu} ELSE ids

\* Migrations are sorted out before the CPUs are compared.
Classify(a, ids) ==
  IF TimedOut(a) THEN "timeout"
  ELSE IF Unknown(a) THEN "cpu_id_unavailable"
  ELSE IF Migrated(a) THEN "migration"
  ELSE IF ~Distinct(a) THEN "same_cpu"
  ELSE IF ~({a.from[1], a.to[1]} \subseteq ids) THEN "cpu_id_unavailable"
  ELSE IF engine.kept[Key(a)] = Samples THEN "quota" ELSE "kept"

Known(a) == ~TimedOut(a) /\ ~Unknown(a) /\ ~Migrated(a) /\ Distinct(a)
Whole(kept) == {p \in AllPairs : kept[p] = Samples}

\* One attempt as the strict reader takes it.
ReadAttempt(a, status) ==
  LET full == audit.kept[Key(a)] = Samples
      bad == \/ a.ping = 0
             \/ status = "migration" /\ ~Migrated(a)
             \/ status # "migration" /\ Migrated(a)
             \/ status = "same_cpu" /\ Distinct(a)
             \/ status \in {"kept", "quota"} /\ ~Distinct(a)
  IN  IF status \in {"timeout", "cpu_id_unavailable"} THEN audit
      ELSE IF bad THEN [audit EXCEPT !.valid = FALSE]
      ELSE IF status \in {"migration", "same_cpu"} THEN audit
      ELSE [kept |-> IF status = "kept" /\ ~full THEN [audit.kept EXCEPT ![Key(a)] = @ + 1]
                     ELSE audit.kept,
            observed |-> audit.observed \union {a.from[1], a.to[1]},
            valid |-> audit.valid /\ (status = "quota" <=> full)]

\* The reader's verdict on the whole file.
Accepts(covered) ==
  /\ gen >= 1 /\ audit.valid /\ workers <= logical
  /\ Cardinality(audit.observed) <= logical
  /\ covered = Cardinality(Whole(audit.kept)) /\ covered > 0

-----------------------------------------------------------------------------
(* The main thread. *)

\* A pool that is not ready in time or is refused its class of service stops.
Start ==
  /\ main = "start"
  /\ \/ main' = "issue" /\ UNCHANGED <<shared, verdict>>
     \/ /\ main' = "stop" /\ shared' = [shared EXCEPT !.stop = TRUE]
        /\ verdict' = [verdict EXCEPT !.status = "failed"]
  /\ UNCHANGED <<logical, workers, gen, late, worker, engine, audit>>

\* The code resets what the pair measured; what the others have is read no more.
Issue ==
  /\ main = "issue" /\ gen < MaxAttempts
  /\ main' = "wait" /\ gen' = gen + 1 /\ shared' = Cleared /\ late' = FALSE
  /\ worker' = [w \in DOMAIN worker |->
                  [worker[w] EXCEPT !.took = Unmeasured]]
  /\ UNCHANGED <<logical, workers, engine, audit, verdict>>

\* The budget has run out, or the attempts have.
Enough ==
  /\ main = "issue" /\ main' = "stop" /\ shared' = [shared EXCEPT !.stop = TRUE]
  /\ UNCHANGED <<logical, workers, gen, late, worker, engine, audit, verdict>>

Late ==
  /\ main = "wait" /\ ~late /\ late' = TRUE
  /\ UNCHANGED <<logical, workers, main, gen, shared, worker, engine, audit, verdict>>

Fail ==
  /\ main = "wait" /\ late /\ shared' = [shared EXCEPT !.failed = TRUE]
  /\ UNCHANGED <<logical, workers, main, gen, late, worker, engine, audit, verdict>>

\* A worker that has not come back a second after the deadline: no report.
Kill ==
  /\ main = "wait" /\ late /\ shared.failed /\ shared.done # workers
  /\ main' = "end" /\ verdict' = [verdict EXCEPT !.status = "failed"]
  /\ worker' = [w \in DOMAIN worker |-> [worker[w] EXCEPT !.at = "gone"]]
  /\ UNCHANGED <<logical, workers, gen, shared, late, engine, audit>>

Collect ==
  /\ main = "wait" /\ shared.done = workers
  /\ LET ping == Of(Ping(gen))
         pong == Of(Pong(gen))
         a == [from |-> <<ping.before, ping.after>>, to |-> <<pong.before, pong.after>>,
               ping |-> ping.elapsed, pong |-> pong.elapsed]
         ids == IF Known(a) THEN Enter(Enter(engine.ids, a.from[1]), a.to[1]) ELSE engine.ids
         status == Classify(a, ids)
     IN  /\ engine' = [ids |-> ids, kept |-> IF status = "kept"
                          THEN [engine.kept EXCEPT ![Key(a)] = @ + 1] ELSE engine.kept]
         /\ audit' = ReadAttempt(a, status)
  /\ LET all == Cardinality(Whole(engine'.kept)) = logical * (logical - 1)
     IN  /\ main' = IF all THEN "stop" ELSE "issue"
         /\ shared' = [shared EXCEPT !.stop = all]
  /\ UNCHANGED <<logical, workers, gen, late, worker, verdict>>

\* The main thread joins the pool before it writes.
Join ==
  /\ main = "stop" /\ \A w \in Pool : worker[w].at = "gone"
  /\ main' = IF verdict.status = None THEN "write" ELSE "end"
  /\ UNCHANGED <<logical, workers, gen, shared, late, worker, engine, audit, verdict>>

Write ==
  /\ main = "write" /\ main' = "end"
  /\ \/ verdict' = [verdict EXCEPT !.status = "failed"]
     \/ LET covered == Cardinality(Whole(engine.kept))
        IN  verdict' = [status |-> IF covered > 0 THEN "written" ELSE "unsupported", covered |-> covered,
                        accepted |-> IF Accepts(covered) THEN "yes" ELSE "no"]
  /\ UNCHANGED <<logical, workers, gen, shared, late, worker, engine, audit>>

Main == Start \/ Issue \/ Enough \/ Late \/ Fail \/ Kill \/ Collect \/ Join \/ Write
Next == Main \/ \E w \in Pool : Step(w)

\* The system runs every worker, the clock goes on, and the main thread polls.
Spec == /\ Init /\ [][Next]_vars
        /\ WF_vars(Late) /\ WF_vars(Fail) /\ WF_vars(Collect)
        /\ \A w \in 0..(MaxLogical - 1) : WF_vars(w \in Pool /\ Step(w))

-----------------------------------------------------------------------------
(* Properties. *)

(* A report that the engine publishes is accepted by the strict reader, and  *)
(* a report without a complete pair is refused: the two apply the same tests *)
(* in the same order, the engine to the attempt and the reader to what was   *)
(* written of it, and an accepted report holds the samples the engine kept   *)
(* (intercore_observed.h obs_write, read_observed).                          *)
ObservedAccepted ==
  verdict.accepted # None =>
    /\ verdict.accepted = "yes" <=> verdict.status = "written"
    /\ verdict.accepted = "yes" => audit.kept = engine.kept

(* A sample is only kept from an attempt both of whose sides have completed  *)
(* their round trips in this very generation: no side gave up waiting for a  *)
(* peer, and no time of an earlier attempt is read (obs_worker).             *)
KeptIsWhole ==
  [][engine'.kept # engine.kept =>
       \A w \in Pair(gen) : worker[w].whole /\ worker[w].seen = gen]_vars

(* An attempt comes to an end although its sides give up at different times: *)
(* no worker waits for a peer that has left (obs_expired in every wait).     *)
AttemptEnds == main = "wait" ~> main # "wait"
=============================================================================
