---------------------------- MODULE MCScoreCard ----------------------------
(* A run of the floating-point module, and those of two faster machines:   *)
(* one has a row of a hundred GOPS, the other nothing below it.            *)
EXTENDS ScoreCard

Floats(fadd, fma) ==
  [cpu_float |-> <<[name |-> "Item", heading |-> "", rows |-> <<>>],
                   [name |-> "Operation", heading |-> "", rows |-> <<<<"fadd", fadd>>, <<"fma", fma>>>>]>>]
MCRuns == {Floats(1, 40), Floats(1, 120), Floats(110, 120)}
MCSelections == {{"cpu_float"}}
=============================================================================
