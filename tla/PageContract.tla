---------------------------- MODULE PageContract ----------------------------
(***************************************************************************)
(* What the user of a hardware page may rely on: a reading on the page is  *)
(* the answer to the last request, none is shown while one is asked for,   *)
(* a request that was given up never shows one, and every request ends.    *)
(***************************************************************************)
EXTENDS Naturals

VARIABLES
  phase,  \* "empty", "reading" or "shown"
  asked,  \* requests so far
  shown   \* the request whose reading is shown, 0 for none

vars == <<phase, asked, shown>>

Init == phase = "empty" /\ asked = 0 /\ shown = 0

Ask ==
  /\ phase # "reading"
  /\ phase' = "reading" /\ asked' = asked + 1 /\ shown' = 0

Show ==
  /\ phase = "reading"
  /\ phase' = "shown" /\ shown' = asked /\ UNCHANGED asked

GiveUp ==
  /\ phase = "reading"
  /\ phase' = "empty" /\ UNCHANGED <<asked, shown>>

Next == Ask \/ Show \/ GiveUp

Safety == Init /\ [][Next]_vars

Ends == phase = "reading" ~> phase # "reading"

Spec == Safety /\ Ends
=============================================================================
