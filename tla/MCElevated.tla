----------------------------- MODULE MCElevated -----------------------------
(***************************************************************************)
(* The two users of the native helper side by side: the elevated sensor    *)
(* path and a hardware page.  They share the helper's program and no       *)
(* state, so each behaviour is one of the one or one of the other, and the *)
(* part that is not played stays in its initial state.                     *)
(***************************************************************************)
EXTENDS HardwareInspection, ElevatedMonitor

VARIABLE part

bothVars == <<part, monitorVars, vars>>

BothInit == part \in {"monitor", "tool"} /\ MonitorInit /\ Init /\ (part = "tool" => ~reader.blocks)

OfMonitor == part = "monitor" /\ UNCHANGED <<part, vars>>
OfTool == part = "tool" /\ UNCHANGED <<part, monitorVars>>

BothNext == (OfMonitor /\ MonitorNext) \/ (OfTool /\ Next)

\* The fairness of both modules, each for its part.
BothSpec ==
  /\ BothInit /\ [][BothNext]_bothVars
  /\ WF_bothVars(OfMonitor /\ HelperStep) /\ WF_bothVars(OfTool /\ Deadline)

ASSUME ElevatedAssumption == MonitorAssumption /\ InspectionAssumption
=============================================================================
