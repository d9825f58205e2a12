------------------------------ MODULE RunLoop ------------------------------
(***************************************************************************)
(* The execute / validate / repair loop of the mission kernel, one run.    *)
(*                                                                         *)
(* Two drivers share the RunStateMachine (orchestrator/                    *)
(* run_state_machine.py), the executor, the validator, the repair engine   *)
(* and the retry policy, but not their loop bodies:                        *)
(*   - perform_run (cli/run.py) plans, executes and loops to a verdict;    *)
(*   - continue_execution (cli/resume.py) picks a saved record up at the   *)
(*     stage infer_next_stage (state/resume_runner.py) names.              *)
(* The state is what one process holds while it loops, and the record it   *)
(* leaves in runs/<run_id>.json for the next command to pick up.           *)
(***************************************************************************)
EXTENDS Naturals

CONSTANTS
  Tasks,            \* the tasks of the plan
  FirstTask,        \* tasks[0], which perform_run leaves incomplete on purpose
  MaxRepairs,       \* RetryPolicy.max_repairs
  OperatorMarks     \* task statuses an operator may write into a saved record

ASSUME RunLoopAssumption ==
  /\ FirstTask \in Tasks
  /\ MaxRepairs \in Nat \ {0}
  /\ OperatorMarks \subseteq {"pending", "blocked"}

VARIABLES
  driver,       \* which loop is running: "idle", "run" or "resume"
  sm,           \* run_sm.state of that process
  stage,        \* next_stage of continue_execution; "none" once processed
  tasks,        \* the process's task list
  validation,   \* the process's validation_result
  repairs,      \* the process's repair_count
  saved,        \* the record in runs/<run_id>.json, or Unsaved
  repaired      \* history: calls of repair_tasks over the life of the run

vars == <<driver, sm, stage, tasks, validation, repairs, saved, repaired>>
local == <<sm, stage, tasks, validation, repairs>>

-----------------------------------------------------------------------------

TaskStatus == {"pending", "complete", "blocked"}
NoTasks == [t \in {} |-> "pending"]
TaskList == [Tasks -> TaskStatus] \cup {NoTasks}
Verdict == {"none", "pass", "fail"}
Final == {"complete", "failed"}
RunState == {"intake", "plan", "execute", "validate", "repair"} \cup Final
Stage == {"plan", "execute", "repair", "none"}

Unsaved == [status |-> "unsaved"]
SavedRecord == [status : {"unknown", "awaiting_approval"} \cup Final,
                tasks : TaskList, validation : Verdict, repairs : Nat,
                resumedFrom : Stage \cup {"unknown"}]

AllComplete(ts) == \A t \in DOMAIN ts : ts[t] = "complete"
Everything(status) == [t \in Tasks |-> status]

(***************************************************************************)
(* RunStateMachine.transition.                                             *)
(***************************************************************************)
Transition(state, success) ==
  CASE state = "intake" -> "plan"
    [] state = "plan" -> "execute"
    [] state = "execute" -> "validate"
    [] state = "validate" -> IF success THEN "complete" ELSE "repair"
    [] state = "repair" -> "execute"
    [] OTHER -> state

(* Executor.run_tasks: every task but a blocked one ends complete. *)
RunTasks(ts) == [t \in DOMAIN ts |-> IF ts[t] = "blocked" THEN "blocked" ELSE "complete"]

(* Faulty: repaired tasks get a status of their own. *)
RepairTasksMarked(ts) == [t \in DOMAIN ts |-> IF ts[t] = "complete" THEN "complete" ELSE "repaired"]

(* RepairEngine.repair_tasks: whatever is not complete becomes so. *)
RepairTasks(ts) == [t \in DOMAIN ts |-> "complete"]

(* Faulty: one complete task is enough. *)
ValidateAny(ts) == IF \E t \in DOMAIN ts : ts[t] = "complete" THEN "pass" ELSE "fail"

(* Validator.validate over a task list. *)
Validate(ts) == IF AllComplete(ts) THEN "pass" ELSE "fail"

CanRetry(count) == count < MaxRepairs

(* Faulty: any validation result, not just a failed one, asks for a repair. *)
InferNextStageAnyVerdict(rec) ==
  IF ~AllComplete(rec.tasks) THEN "execute"
  ELSE IF rec.validation # "none" /\ CanRetry(rec.repairs) THEN "repair"
  ELSE "none"

(***************************************************************************)
(* infer_next_stage.  Its own max_repairs = 1 "should match the retry      *)
(* policy" (state/resume_runner.py:10), and here it does.                  *)
(***************************************************************************)
InferNextStage(rec) ==
  IF rec.tasks = NoTasks THEN "plan"
  ELSE IF ~AllComplete(rec.tasks) THEN "execute"
  ELSE IF rec.validation = "fail" /\ CanRetry(rec.repairs) THEN "repair"
  ELSE "none"

(***************************************************************************)
(* What the loops amount to when nothing is blocked: the big steps other   *)
(* modules use.  FollowsOutcome checks the loops against them.             *)
(***************************************************************************)
RunOutcome ==
  [status |-> "complete", tasks |-> Everything("complete"),
   validation |-> "pass", repairs |-> 1, resumedFrom |-> "none"]

ResumeOutcome(rec) ==
  [status |-> "complete", tasks |-> RepairTasks(rec.tasks), validation |-> "pass",
   repairs |-> rec.repairs + (IF InferNextStage(rec) = "repair" THEN 1 ELSE 0),
   resumedFrom |-> IF rec.tasks = NoTasks THEN "plan" ELSE "unknown"]

-----------------------------------------------------------------------------

(***************************************************************************)
(* A run starts either from nothing or from a record the resume path may   *)
(* be handed: tests/test_resume_runner.py gives it empty and partial task  *)
(* lists, failed validations and spent retries.                            *)
(***************************************************************************)
GivenRecords ==
  [status : {"unknown"},
   tasks : [Tasks -> {"pending", "complete"}] \cup {NoTasks},
   validation : Verdict, repairs : 0..MaxRepairs, resumedFrom : {"none"}]

Init ==
  /\ driver = "idle"
  /\ sm = "intake"
  /\ stage = "none"
  /\ tasks = Everything("pending")
  /\ validation = "none"
  /\ repairs = 0
  /\ saved \in GivenRecords \cup {Unsaved}
  /\ repaired = IF saved = Unsaved THEN 0 ELSE saved.repairs

(***************************************************************************)
(* perform_run, up to its loop: plan, execute every task, then put         *)
(* tasks[0] back to pending.  The state machine is still at intake.        *)
(***************************************************************************)
StartRun ==
  /\ driver = "idle"
  /\ saved = Unsaved
  /\ driver' = "run"
  /\ sm' = "intake"
  /\ tasks' = [RunTasks(Everything("pending")) EXCEPT ![FirstTask] = "pending"]
  /\ validation' = "none"
  /\ repairs' = 0
  /\ UNCHANGED <<stage, saved, repaired>>

(* perform_run on a high-risk goal: the record is saved unexecuted. *)
PauseRun ==
  /\ driver = "idle"
  /\ saved = Unsaved
  /\ saved' = [status |-> "awaiting_approval", tasks |-> Everything("pending"),
               validation |-> "none", repairs |-> 0, resumedFrom |-> "none"]
  /\ UNCHANGED <<driver, local, repaired>>

(* Faulty: a failed validation fails the run without asking the policy. *)
ValidateStepNeverRetries ==
  /\ driver # "idle"
  /\ sm = "validate"
  /\ validation' = Validate(tasks)
  /\ sm' = IF validation' = "fail" THEN "failed" ELSE "complete"
  /\ UNCHANGED <<driver, stage, tasks, repairs, saved, repaired>>

(* Both loops: the VALIDATE branch, with the retry decision. *)
ValidateStep ==
  /\ driver # "idle"
  /\ sm = "validate"
  /\ validation' = Validate(tasks)
  /\ sm' = IF validation' = "fail" /\ ~CanRetry(repairs)
           THEN "failed"
           ELSE Transition(sm, validation' = "pass")
  /\ UNCHANGED <<driver, stage, tasks, repairs, saved, repaired>>

(* Both loops: the REPAIR branch.  continue_execution enters it only while
   next_stage still says "repair". *)
RepairStep ==
  /\ sm = "repair"
  /\ \/ driver = "run"
     \/ driver = "resume" /\ stage = "repair"
  /\ tasks' = RepairTasks(tasks)
  /\ repairs' = repairs + 1
  /\ repaired' = repaired + 1
  /\ stage' = "none"
  /\ sm' = Transition(sm, TRUE)
  /\ UNCHANGED <<driver, validation, saved>>

(* Faulty: the stage is not marked as processed. *)
ResumeExecuteStepAgain ==
  /\ driver = "resume"
  /\ sm = "execute"
  /\ stage = "execute"
  /\ tasks' = RunTasks(tasks)
  /\ UNCHANGED <<driver, sm, stage, validation, repairs, saved, repaired>>

(* continue_execution: the EXECUTE branch runs the tasks and marks the stage
   processed without a transition of its own. *)
ResumeExecuteStep ==
  /\ driver = "resume"
  /\ sm = "execute"
  /\ stage = "execute"
  /\ tasks' = RunTasks(tasks)
  /\ stage' = "none"
  /\ UNCHANGED <<driver, sm, validation, repairs, saved, repaired>>

(* Both loops: every other state "just transitions normally". *)
OtherStep ==
  /\ driver # "idle"
  /\ sm \notin Final \cup {"validate"}
  /\ ~(sm = "repair" /\ (driver = "run" \/ stage = "repair"))
  /\ ~(driver = "resume" /\ sm = "execute" /\ stage = "execute")
  /\ sm' = Transition(sm, TRUE)
  /\ UNCHANGED <<driver, stage, tasks, validation, repairs, saved, repaired>>

(* Either loop is over: the record is built and saved.  resumed_from is
   "next_stage or unknown", read after the loop has cleared next_stage. *)
Finish ==
  /\ driver # "idle"
  /\ sm \in Final
  /\ saved' = [status |-> sm, tasks |-> tasks, validation |-> validation, repairs |-> repairs,
               resumedFrom |-> IF driver = "run" THEN "none"
                               ELSE IF stage = "none" THEN "unknown" ELSE stage]
  /\ driver' = "idle"
  /\ UNCHANGED <<local, repaired>>

(* Faulty: the repair budget starts afresh with every resume. *)
StartResumeAfresh ==
  /\ driver = "idle"
  /\ saved # Unsaved
  /\ InferNextStage(saved) # "none"
  /\ driver' = "resume"
  /\ stage' = InferNextStage(saved)
  /\ sm' = IF stage' = "plan" THEN "intake" ELSE stage'
  /\ tasks' = saved.tasks
  /\ validation' = saved.validation
  /\ repairs' = 0
  /\ UNCHANGED <<saved, repaired>>

(* resume_saved_run with the approval gate open: nothing to do unless a stage
   is inferred, else the process takes its state from the record. *)
StartResume ==
  /\ driver = "idle"
  /\ saved # Unsaved
  /\ InferNextStage(saved) # "none"
  /\ driver' = "resume"
  /\ stage' = InferNextStage(saved)
  /\ sm' = IF stage' = "plan" THEN "intake" ELSE stage'
  /\ tasks' = saved.tasks
  /\ validation' = saved.validation
  /\ repairs' = saved.repairs
  /\ UNCHANGED <<saved, repaired>>

(* External: the record is a text file, and an operator marks a task in it. *)
OperatorMarksTask(t, status) ==
  /\ driver = "idle"
  /\ saved # Unsaved
  /\ t \in DOMAIN saved.tasks
  /\ saved.tasks[t] # status
  /\ saved' = [saved EXCEPT !.tasks[t] = status]
  /\ UNCHANGED <<driver, local, repaired>>

LoopStep == ValidateStep \/ RepairStep \/ ResumeExecuteStep \/ OtherStep \/ Finish

Next ==
  \/ StartRun
  \/ PauseRun
  \/ StartResume
  \/ LoopStep
  \/ \E t \in Tasks, status \in OperatorMarks : OperatorMarksTask(t, status)

(* A started command is a running Python loop: it goes on unless killed, and
   nobody has to start one. *)
Fairness == WF_vars(LoopStep)

Spec == Init /\ [][Next]_vars
FairSpec == Spec /\ Fairness

-----------------------------------------------------------------------------

TypeOK ==
  /\ driver \in {"idle", "run", "resume"}
  /\ sm \in RunState
  /\ stage \in Stage
  /\ tasks \in TaskList
  /\ validation \in Verdict
  /\ repairs \in Nat
  /\ saved \in SavedRecord \cup {Unsaved}
  /\ repaired \in Nat

(* However many commands a run is spread over, its tasks are force-completed
   at most MaxRepairs times ("Repair is bounded by retry policy",
   docs/NEXUS_EXECUTION.md): the budget is carried in the saved record, whose
   repair_count is the number of repairs really made, and both loops respect
   it; quality and reliability reports read the same count. *)
RepairBudget ==
  /\ repaired <= MaxRepairs
  /\ driver = "idle" /\ saved # Unsaved => saved.repairs = repaired

(* A loop that reaches a verdict reaches the right one: complete only with a
   passing validation of the tasks it is about to save, failed only when the
   repair budget is spent. *)
VerdictSound ==
  /\ sm = "complete" /\ driver # "idle" => validation = "pass" /\ AllComplete(tasks)
  /\ sm = "failed" /\ driver # "idle" => validation = "fail" /\ repairs >= MaxRepairs

(* resume reports no action on a run that is complete or failed
   (docs/NEXUS_EXECUTION.md:60): what a command leaves behind asks for no
   further stage.  A record without tasks is excepted: the plan stage never
   gives it any, and it is asked to plan again for ever. *)
Settled == saved # Unsaved /\ saved.status \in Final /\ saved.tasks # NoTasks
SettledRunAsksNothing ==
  [][driver # "idle" /\ driver' = "idle" /\ Settled' => InferNextStage(saved') = "none"]_vars

(* Each command, taken as a whole, does what the big-step outcome says; the
   record it started from stays on disk until it ends. *)
FollowsOutcome ==
  [][/\ driver = "run" /\ driver' = "idle" => saved' = RunOutcome
     /\ driver = "resume" /\ driver' = "idle" =>
          saved' = ResumeOutcome(saved)]_vars

(* Every started command ends: repair is bounded by the retry policy
   (docs/NEXUS_EXECUTION.md:146), so neither loop can turn for ever. *)
CommandsEnd == driver # "idle" ~> driver = "idle"

=============================================================================
