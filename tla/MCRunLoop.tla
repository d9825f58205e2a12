----------------------------- MODULE MCRunLoop -----------------------------
(* RunLoop with a plan of three tasks, as the planner makes for most goals. *)
EXTENDS RunLoop
CONSTANTS t1, t2, t3
MCTasks == {t1, t2, t3}
=============================================================================
