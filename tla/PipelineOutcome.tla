-------------------------- MODULE PipelineOutcome --------------------------
(***************************************************************************)
(* What a native live pipeline promises the process around it, and what    *)
(* the supervisor relies on: it reports one outcome.  It either fails, at  *)
(* any time, or stops cleanly, but only when it was asked to; nothing is   *)
(* taken back afterwards.                                                  *)
(***************************************************************************)
VARIABLES asked, outcome

vars == <<asked, outcome>>

Init == asked = FALSE /\ outcome = "none"

Ask == asked' = TRUE /\ UNCHANGED outcome

Fail == outcome = "none" /\ outcome' = "failed" /\ UNCHANGED asked

Stop == asked /\ outcome = "none" /\ outcome' = "stopped" /\ UNCHANGED asked

Next == Ask \/ Fail \/ Stop

Spec == Init /\ [][Next]_vars
=============================================================================
