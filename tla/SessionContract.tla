--------------------------- MODULE SessionContract ---------------------------
(***************************************************************************)
(* What a reader of an archive may rely on, without the processes behind   *)
(* it: load only runs in an open session, a verdict is written only over a *)
(* stopped load and never changes, the writer is released only after it,   *)
(* and a session whose process ended early is lost, not half closed.       *)
(***************************************************************************)
VARIABLES
  phase,   \* of the newest archive: none, open, judged, closed or lost
  verdict, \* the reason its manifest names, or "none"
  loaded   \* does the session's process hold a load process

vars == <<phase, verdict, loaded>>

Init == phase = "none" /\ verdict = "none" /\ ~loaded

\* A new session starts without an archive, whatever became of the last one.
Forget ==
  /\ phase \in {"closed", "lost"} /\ ~loaded
  /\ phase' = "none" /\ verdict' = "none" /\ ~loaded'

Open ==
  /\ phase = "none"
  /\ phase' = "open" /\ UNCHANGED <<verdict, loaded>>

Switch ==
  /\ phase = "open"
  /\ loaded' \in BOOLEAN /\ UNCHANGED <<phase, verdict>>

Judge ==
  /\ phase = "open" /\ ~loaded
  /\ phase' = "judged" /\ verdict' # "none" /\ UNCHANGED loaded

Close ==
  /\ phase = "judged"
  /\ phase' = "closed" /\ UNCHANGED <<verdict, loaded>>

Lose ==
  /\ phase \in {"none", "open", "judged"}
  /\ phase' = "lost" /\ ~loaded' /\ UNCHANGED verdict

Next == Forget \/ Open \/ Switch \/ Judge \/ Close \/ Lose

Spec == Init /\ [][Next]_vars
=============================================================================
