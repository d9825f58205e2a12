----------------------------- MODULE RunPromise -----------------------------
(***************************************************************************)
(* What an operator is promised about one run, whatever files, processes   *)
(* and crashes lie behind it: a run whose goal is gated first shows as     *)
(* paused, is carried out only once somebody has permitted it, and a       *)
(* completed run stays completed (docs/NEXUS_EXECUTION.md, "Approvals and  *)
(* pause states" and "Resume flow").                                       *)
(***************************************************************************)
VARIABLES gated,        \* does the goal need an approval?
          phase,        \* what the run record says: none, paused, complete
          permitted     \* has an operator approved the run?

vars == <<gated, phase, permitted>>

Init == gated \in BOOLEAN /\ phase = "none" /\ permitted = FALSE

Begin ==
  /\ phase = "none"
  /\ phase' = IF gated THEN "paused" ELSE "complete"
  /\ UNCHANGED <<gated, permitted>>

Permit ==
  /\ phase = "paused"
  /\ permitted' = TRUE
  /\ UNCHANGED <<gated, phase>>

Complete ==
  /\ phase = "paused"
  /\ permitted
  /\ phase' = "complete"
  /\ UNCHANGED <<gated, permitted>>

Next == Begin \/ Permit \/ Complete

Spec == Init /\ [][Next]_vars

=============================================================================
