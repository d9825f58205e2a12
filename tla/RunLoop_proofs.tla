--------------------------- MODULE RunLoop_proofs ---------------------------
(***************************************************************************)
(* Proofs about RunLoop: types, the repair budget, the accounting of       *)
(* repairs, the soundness of verdicts and, where no task is blocked, what  *)
(* a command does as a whole, for every plan and budget.                   *)
(***************************************************************************)
EXTENDS RunLoop, TLAPS

(* What the counts mean between and inside commands.  RepairBudget alone is
   not inductive: a step into "repair" is safe only because the loop checked
   the budget against a repair_count that is the true number of repairs. *)
Accounting ==
  /\ driver = "idle" /\ saved = Unsaved => repaired = 0
  /\ driver = "idle" /\ saved # Unsaved => saved.repairs = repaired
  /\ driver # "idle" => repairs = repaired
  /\ repaired <= MaxRepairs
  /\ driver # "idle" /\ sm = "repair" => repaired < MaxRepairs

IInv == TypeOK /\ Accounting /\ VerdictSound

(* A record never equals the Unsaved marker: it has other fields. *)
LEMMA SavedIsNotUnsaved ==
  ASSUME NEW r \in SavedRecord
  PROVE  r # Unsaved
BY DEF SavedRecord, Unsaved

(* The list operators map task lists to task lists. *)
LEMMA ListTypes ==
  ASSUME NEW ts \in TaskList
  PROVE  /\ RunTasks(ts) \in TaskList
         /\ RepairTasks(ts) \in TaskList
BY DEF TaskList, NoTasks, RunTasks, RepairTasks, TaskStatus

LEMMA EverythingType ==
  ASSUME NEW status \in TaskStatus
  PROVE  Everything(status) \in TaskList
BY DEF Everything, TaskList

(* The program starts with its books in order. *)
LEMMA InitInv == Init => IInv
<1> SUFFICES ASSUME Init PROVE IInv
  OBVIOUS
<1>1. saved \in SavedRecord \cup {Unsaved}
  BY RunLoopAssumption DEF Init, GivenRecords, SavedRecord, TaskList, TaskStatus, Verdict, Stage
<1>2. saved # Unsaved => saved.repairs \in 0..MaxRepairs
  BY DEF Init, GivenRecords
<1>3. TypeOK
  BY <1>1, <1>2, RunLoopAssumption, EverythingType
     DEF Init, TypeOK, RunState, Stage, Verdict, TaskStatus
<1>4. Accounting
  BY <1>2, RunLoopAssumption DEF Init, Accounting
<1>5. VerdictSound
  BY DEF Init, VerdictSound
<1> QED
  BY <1>3, <1>4, <1>5 DEF IInv

(* Every step keeps them so. *)
LEMMA StepInv == IInv /\ [Next]_vars => IInv'
<1> SUFFICES ASSUME IInv, [Next]_vars PROVE IInv'
  OBVIOUS
<1> USE RunLoopAssumption DEF IInv, TypeOK, Accounting, VerdictSound
<1>1. CASE StartRun
  <2>1. tasks' \in TaskList
    <3>1. RunTasks(Everything("pending")) \in [Tasks -> TaskStatus]
      BY DEF RunTasks, Everything, TaskStatus
    <3> QED
      BY <1>1, <3>1 DEF StartRun, TaskList, TaskStatus
  <2> QED
    BY <1>1, <2>1 DEF StartRun, RunState, Verdict
<1>2. CASE PauseRun
  <2>1. saved' \in SavedRecord
    BY <1>2, EverythingType DEF PauseRun, SavedRecord, Verdict, Stage, TaskStatus
  <2> QED
    BY <1>2, <2>1, SavedIsNotUnsaved DEF PauseRun, local
<1>3. CASE StartResume
  <2>1. saved \in SavedRecord
    BY <1>3 DEF StartResume
  <2>2. /\ saved.tasks \in TaskList
        /\ saved.validation \in Verdict
        /\ saved.repairs \in Nat
    BY <2>1 DEF SavedRecord
  <2>3. InferNextStage(saved) \in {"plan", "execute", "repair"}
    BY <1>3 DEF StartResume, InferNextStage
  <2>4. InferNextStage(saved) = "repair" => saved.repairs < MaxRepairs
    BY DEF InferNextStage, CanRetry
  <2> QED
    BY <1>3, <2>2, <2>3, <2>4 DEF StartResume, RunState, Stage
<1>4. CASE ValidateStep
  BY <1>4 DEF ValidateStep, Validate, Transition, CanRetry, RunState, Final, Verdict
<1>5. CASE RepairStep
  BY <1>5, ListTypes DEF RepairStep, Transition, RunState, Stage
<1>6. CASE ResumeExecuteStep
  BY <1>6, ListTypes DEF ResumeExecuteStep, Stage
<1>7. CASE OtherStep
  BY <1>7 DEF OtherStep, Transition, RunState, Final
<1>8. CASE Finish
  <2>1. saved' \in SavedRecord
    BY <1>8 DEF Finish, SavedRecord, Final, Stage
  <2> QED
    BY <1>8, <2>1, SavedIsNotUnsaved DEF Finish, local
<1>9. ASSUME NEW t \in Tasks, NEW status \in OperatorMarks, OperatorMarksTask(t, status)
      PROVE  IInv'
  <2>1. saved \in SavedRecord
    BY <1>9 DEF OperatorMarksTask
  <2>2. saved' \in SavedRecord /\ saved'.repairs = saved.repairs
    BY <1>9, <2>1 DEF OperatorMarksTask, SavedRecord, TaskList, NoTasks, TaskStatus
  <2> QED
    BY <1>9, <2>1, <2>2, SavedIsNotUnsaved DEF OperatorMarksTask, local
<1>10. CASE UNCHANGED vars
  BY <1>10 DEF vars, local
<1> QED
  BY <1>1, <1>2, <1>3, <1>4, <1>5, <1>6, <1>7, <1>8, <1>9, <1>10 DEF Next, LoopStep

(* The inductive invariant holds throughout. *)
THEOREM Invariance == Spec => []IInv
BY InitInv, StepInv, PTL DEF Spec

(* Every variable keeps its type. *)
THEOREM TypeCorrect == Spec => []TypeOK
<1>1. IInv => TypeOK
  BY DEF IInv
<1> QED
  BY <1>1, Invariance, PTL

(* A run's tasks are force-completed at most MaxRepairs times over its life,
   however many resume commands it takes, and its record says how often. *)
THEOREM RepairsBounded == Spec => []RepairBudget
<1>1. IInv => RepairBudget
  BY DEF IInv, Accounting, RepairBudget
<1> QED
  BY <1>1, Invariance, PTL

(* Verdicts are sound: complete means validated, failed means out of budget. *)
THEOREM VerdictsSound == Spec => []VerdictSound
<1>1. IInv => VerdictSound
  BY DEF IInv
<1> QED
  BY <1>1, Invariance, PTL

-----------------------------------------------------------------------------
(* What a command as a whole does, when no task is marked blocked.          *)

Unblocked(ts) == \A t \in DOMAIN ts : ts[t] \in {"pending", "complete"}

(* The list perform_run begins to loop with. *)
Loose == [t \in Tasks |-> IF t = FirstTask THEN "pending" ELSE "complete"]

(* perform_run fails its first validation, repairs once and completes. *)
RunPath ==
  driver = "run" =>
    /\ \/ /\ repairs = 0 /\ tasks = Loose
          /\ sm \in {"intake", "plan", "execute", "validate", "repair"}
       \/ /\ repairs = 1 /\ tasks = Everything("complete")
          /\ sm \in {"execute", "validate", "complete"}
    /\ sm = "complete" => validation = "pass"

(* continue_execution does the one stage that was inferred, and validates. *)
ResumePath ==
  driver = "resume" =>
    /\ saved # Unsaved
    /\ \/ /\ saved.tasks = NoTasks /\ stage = "plan"
          /\ tasks = NoTasks /\ repairs = saved.repairs
          /\ sm \in {"intake", "plan", "execute", "validate", "complete"}
       \/ /\ saved.tasks # NoTasks /\ stage \in {"execute", "repair"}
          /\ InferNextStage(saved) = stage /\ sm = stage
          /\ tasks = saved.tasks /\ repairs = saved.repairs
       \/ /\ saved.tasks # NoTasks /\ stage = "none"
          /\ tasks = RepairTasks(saved.tasks)
          /\ repairs = saved.repairs + (IF InferNextStage(saved) = "repair" THEN 1 ELSE 0)
          /\ sm \in {"execute", "validate", "complete"}
    /\ sm = "complete" => validation = "pass"

Clean == saved # Unsaved => Unblocked(saved.tasks)

PathInv == IInv /\ RunPath /\ ResumePath /\ Clean

(* What the tasks come to. *)
LEMMA Lists ==
  /\ RepairTasks(NoTasks) = NoTasks /\ Validate(NoTasks) = "pass" /\ Unblocked(NoTasks)
  /\ RepairTasks(Loose) = Everything("complete") /\ Validate(Loose) = "fail"
  /\ Validate(Everything("complete")) = "pass" /\ Unblocked(Everything("complete"))
  /\ Unblocked(Everything("pending"))
  /\ [RunTasks(Everything("pending")) EXCEPT ![FirstTask] = "pending"] = Loose
<1>1. RepairTasks(NoTasks) = NoTasks /\ Validate(NoTasks) = "pass" /\ Unblocked(NoTasks)
  BY DEF RepairTasks, NoTasks, Validate, AllComplete, Unblocked
<1>2. RepairTasks(Loose) = Everything("complete") /\ Validate(Loose) = "fail"
  BY RunLoopAssumption DEF RepairTasks, Loose, Everything, Validate, AllComplete
<1>3. /\ Validate(Everything("complete")) = "pass" /\ Unblocked(Everything("complete"))
      /\ Unblocked(Everything("pending"))
  BY DEF Validate, AllComplete, Everything, Unblocked
<1>4. [RunTasks(Everything("pending")) EXCEPT ![FirstTask] = "pending"] = Loose
  BY RunLoopAssumption DEF RunTasks, Everything, Loose
<1> QED BY <1>1, <1>2, <1>3, <1>4

LEMMA RepairedList ==
  ASSUME NEW ts
  PROVE  Validate(RepairTasks(ts)) = "pass" /\ Unblocked(RepairTasks(ts))
  BY DEF Validate, AllComplete, RepairTasks, Unblocked

LEMMA RanList ==
  ASSUME NEW ts, Unblocked(ts)
  PROVE  RunTasks(ts) = RepairTasks(ts)
  BY DEF RunTasks, RepairTasks, Unblocked

LEMMA PathInit == Init => PathInv
<1> SUFFICES ASSUME Init PROVE PathInv
  OBVIOUS
<1>1. Clean
  BY DEF Init, GivenRecords, Clean, Unblocked, NoTasks
<1> QED BY <1>1, InitInv DEF Init, PathInv, RunPath, ResumePath

(* Starting: from nothing, or at the stage that is inferred. *)
LEMMA PathStart ==
  ASSUME PathInv, StartRun \/ PauseRun \/ StartResume
  PROVE  RunPath' /\ ResumePath' /\ Clean'
<1>1. CASE StartRun
  BY <1>1, Lists DEF StartRun, RunPath, ResumePath, Clean, PathInv
<1>2. CASE PauseRun
  <2>1. saved'.tasks = Everything("pending") /\ driver' = "idle"
    BY <1>2 DEF PauseRun
  <2> QED BY <2>1, Lists DEF RunPath, ResumePath, Clean
<1>3. CASE StartResume
  <2>1. /\ driver' = "resume" /\ saved' = saved /\ saved # Unsaved
        /\ stage' = InferNextStage(saved) /\ stage' # "none"
        /\ sm' = IF stage' = "plan" THEN "intake" ELSE stage'
        /\ tasks' = saved.tasks /\ repairs' = saved.repairs
    BY <1>3 DEF StartResume
  <2>2. stage' \in {"plan", "execute", "repair"} /\ (stage' = "plan" <=> saved.tasks = NoTasks)
    BY <2>1 DEF InferNextStage
  <2>3. InferNextStage(saved)' = InferNextStage(saved)
    BY <2>1
  <2>4. ResumePath'
    BY <2>1, <2>2, <2>3 DEF ResumePath
  <2> QED BY <2>1, <2>4 DEF RunPath, Clean, PathInv
<1> QED BY <1>1, <1>2, <1>3

(* Looping. *)
LEMMA PathRun ==
  ASSUME PathInv, driver = "run", ValidateStep \/ RepairStep \/ OtherStep
  PROVE  RunPath' /\ driver' = driver /\ saved' = saved
<1>1. CASE ValidateStep
  BY <1>1, Lists, RunLoopAssumption
  DEF ValidateStep, PathInv, RunPath, Transition, CanRetry
<1>2. CASE RepairStep
  BY <1>2, Lists DEF RepairStep, PathInv, RunPath, Transition
<1>3. CASE OtherStep
  BY <1>3 DEF OtherStep, PathInv, RunPath, Transition, Final
<1> QED BY <1>1, <1>2, <1>3 DEF ValidateStep, RepairStep, OtherStep

LEMMA PathResume ==
  ASSUME PathInv, driver = "resume",
         ValidateStep \/ RepairStep \/ ResumeExecuteStep \/ OtherStep
  PROVE  ResumePath' /\ driver' = driver /\ saved' = saved
<1>1. driver' = driver /\ saved' = saved /\ saved # Unsaved
  BY DEF ValidateStep, RepairStep, ResumeExecuteStep, OtherStep, PathInv, ResumePath
<1>2. InferNextStage(saved)' = InferNextStage(saved) /\ RepairTasks(saved.tasks)' = RepairTasks(saved.tasks)
  BY <1>1
<1>3. saved.repairs \in Nat /\ Unblocked(saved.tasks)
  BY <1>1 DEF PathInv, IInv, TypeOK, SavedRecord, Clean
<1>4. CASE ValidateStep
  <2>1. /\ sm = "validate" /\ validation' = Validate(tasks)
        /\ stage' = stage /\ tasks' = tasks /\ repairs' = repairs
    BY <1>4 DEF ValidateStep
  <2>2. validation' = "pass"
    BY <2>1, Lists, RepairedList DEF PathInv, ResumePath
  <2>3. sm' = "complete"
    BY <1>4, <2>1, <2>2 DEF ValidateStep, Transition
  <2> QED BY <1>1, <1>2, <2>1, <2>2, <2>3 DEF PathInv, ResumePath
<1>5. CASE RepairStep
  <2>1. /\ stage = "repair" /\ stage' = "none" /\ sm' = "execute"
        /\ repairs' = repairs + 1 /\ tasks' = RepairTasks(tasks)
    BY <1>5 DEF RepairStep, Transition
  <2> QED BY <1>1, <1>2, <2>1 DEF PathInv, ResumePath
<1>6. CASE ResumeExecuteStep
  <2>1. /\ stage = "execute" /\ stage' = "none" /\ sm' = "execute" /\ sm = "execute"
        /\ repairs' = repairs /\ tasks' = RunTasks(tasks)
    BY <1>6 DEF ResumeExecuteStep
  <2>2. tasks = saved.tasks /\ repairs = saved.repairs /\ InferNextStage(saved) = "execute"
        /\ saved.tasks # NoTasks
    BY <2>1 DEF PathInv, ResumePath
  <2>3. tasks' = RepairTasks(saved.tasks)
    BY <1>3, <2>1, <2>2, RanList
  <2>4. repairs' = saved.repairs + 0
    BY <1>3, <2>1, <2>2
  <2> QED BY <1>1, <1>2, <2>1, <2>2, <2>3, <2>4 DEF ResumePath
<1>7. CASE OtherStep
  <2>1. /\ sm \notin {"validate", "complete"} /\ sm' = Transition(sm, TRUE)
        /\ stage' = stage /\ tasks' = tasks /\ repairs' = repairs
        /\ ~(sm = "repair" /\ stage = "repair") /\ ~(sm = "execute" /\ stage = "execute")
    BY <1>7 DEF OtherStep, Final
  <2> QED BY <1>1, <1>2, <2>1 DEF PathInv, ResumePath, Transition
<1> QED BY <1>1, <1>4, <1>5, <1>6, <1>7

(* Where either loop ends: complete, validated, with the outcome of its path. *)
LEMMA PathEnd ==
  ASSUME PathInv, Finish
  PROVE  /\ sm = "complete" /\ driver' = "idle" /\ validation = "pass"
         /\ driver = "run" => saved' = RunOutcome
         /\ driver = "resume" => saved' = ResumeOutcome(saved)
         /\ Unblocked(saved'.tasks)
<1>1. sm \in Final /\ driver \in {"run", "resume"} /\ driver' = "idle"
  BY DEF Finish, PathInv, IInv, TypeOK
<1>2. sm = "complete" /\ validation = "pass"
  BY <1>1 DEF PathInv, RunPath, ResumePath, Final
<1>3. saved' = [status |-> "complete", tasks |-> tasks, validation |-> "pass",
                repairs |-> repairs,
                resumedFrom |-> IF driver = "run" THEN "none"
                                ELSE IF stage = "none" THEN "unknown" ELSE stage]
  BY <1>2 DEF Finish
<1>4. CASE driver = "run"
  <2>1. tasks = Everything("complete") /\ repairs = 1
    BY <1>2, <1>4 DEF PathInv, RunPath
  <2> QED BY <1>1, <1>2, <1>3, <1>4, <2>1, Lists DEF RunOutcome
<1>5. CASE driver = "resume"
  <2>1. /\ tasks = RepairTasks(saved.tasks)
        /\ repairs = saved.repairs + (IF InferNextStage(saved) = "repair" THEN 1 ELSE 0)
        /\ (IF stage = "none" THEN "unknown" ELSE stage)
             = (IF saved.tasks = NoTasks THEN "plan" ELSE "unknown")
    <3>1. saved \in SavedRecord /\ saved.repairs \in Nat
      BY <1>5 DEF PathInv, IInv, TypeOK, ResumePath, SavedRecord
    <3>2. CASE saved.tasks = NoTasks
      <4>1. InferNextStage(saved) = "plan"
        BY <3>2 DEF InferNextStage
      <4>2. tasks = NoTasks /\ repairs = saved.repairs /\ stage = "plan"
        BY <1>5, <3>2 DEF PathInv, ResumePath
      <4> QED BY <3>1, <3>2, <4>1, <4>2, Lists
    <3>3. CASE saved.tasks # NoTasks
      BY <1>2, <1>5, <3>3 DEF PathInv, ResumePath
    <3> QED BY <3>2, <3>3
  <2> QED BY <1>1, <1>2, <1>3, <1>5, <2>1, RepairedList DEF ResumeOutcome
<1> QED BY <1>1, <1>2, <1>4, <1>5

LEMMA PathNext ==
  ASSUME OperatorMarks \subseteq {"pending"}
  PROVE  PathInv /\ [Next]_vars => PathInv'
<1> SUFFICES ASSUME PathInv, [Next]_vars PROVE RunPath' /\ ResumePath' /\ Clean'
  BY StepInv DEF PathInv
<1>1. CASE StartRun \/ PauseRun \/ StartResume
  BY <1>1, PathStart
<1>2. CASE Finish
  BY <1>2, PathEnd DEF RunPath, ResumePath, Clean
<1>3. CASE ValidateStep \/ RepairStep \/ ResumeExecuteStep \/ OtherStep
  <2>1. driver \in {"run", "resume"}
    BY <1>3 DEF ValidateStep, RepairStep, ResumeExecuteStep, OtherStep, PathInv, IInv, TypeOK
  <2>2. CASE driver = "run"
    <3>1. ~ResumeExecuteStep
      BY <2>2 DEF ResumeExecuteStep
    <3>2. RunPath' /\ driver' = driver /\ saved' = saved
      BY <1>3, <2>2, <3>1, PathRun
    <3> QED BY <2>2, <3>2 DEF ResumePath, Clean, PathInv
  <2>3. CASE driver = "resume"
    <3>1. ResumePath' /\ driver' = driver /\ saved' = saved
      BY <1>3, <2>3, PathResume
    <3> QED BY <2>3, <3>1 DEF RunPath, Clean, PathInv
  <2> QED BY <2>1, <2>2, <2>3
<1>4. ASSUME NEW t \in Tasks, NEW status \in OperatorMarks, OperatorMarksTask(t, status)
      PROVE  RunPath' /\ ResumePath' /\ Clean'
  <2>1. driver' = "idle" /\ saved \in SavedRecord /\ Unblocked(saved.tasks) /\ status = "pending"
    BY <1>4 DEF OperatorMarksTask, PathInv, IInv, TypeOK, Clean
  <2>2. saved'.tasks = [saved.tasks EXCEPT ![t] = status]
    BY <1>4, <2>1 DEF OperatorMarksTask, SavedRecord
  <2>3. Unblocked(saved'.tasks)
    BY <2>1, <2>2 DEF Unblocked
  <2> QED BY <2>1, <2>3 DEF RunPath, ResumePath, Clean
<1>5. CASE UNCHANGED vars
  BY <1>5 DEF vars, PathInv, RunPath, ResumePath, Clean
<1> QED BY <1>1, <1>2, <1>3, <1>4, <1>5 DEF Next, LoopStep

(* Only Finish brings a loop to an end. *)
LEMMA EndIsFinish ==
  ASSUME PathInv, [Next]_vars, driver # "idle", driver' = "idle"
  PROVE  Finish
  BY DEF Next, LoopStep, StartRun, PauseRun, StartResume, ValidateStep, RepairStep,
         ResumeExecuteStep, OtherStep, OperatorMarksTask, vars

(* Where no task is marked blocked, every command does as a whole what the
   big-step outcomes say that other modules put in the loops' place. *)
THEOREM OutcomeFollowed ==
  ASSUME OperatorMarks \subseteq {"pending"}
  PROVE  Spec => FollowsOutcome
<1> DEFINE Follows == /\ driver = "run" /\ driver' = "idle" => saved' = RunOutcome
                      /\ driver = "resume" /\ driver' = "idle" => saved' = ResumeOutcome(saved)
<1>1. PathInv /\ [Next]_vars => [Follows]_vars
  BY EndIsFinish, PathEnd
<1>2. PathInv /\ [Next]_vars => PathInv'
  BY PathNext
<1> QED BY PathInit, <1>1, <1>2, PTL DEF Spec, FollowsOutcome

(* ... and what it leaves behind asks for no further stage. *)
THEOREM SettledIsSettled ==
  ASSUME OperatorMarks \subseteq {"pending"}
  PROVE  Spec => SettledRunAsksNothing
<1> DEFINE Asks == driver # "idle" /\ driver' = "idle" /\ Settled'
                     => InferNextStage(saved') = "none"
<1>1. PathInv /\ [Next]_vars => [Asks]_vars
  <2> SUFFICES ASSUME PathInv, [Next]_vars, driver # "idle", driver' = "idle", Settled'
               PROVE  InferNextStage(saved') = "none"
    OBVIOUS
  <2>1. Finish /\ sm = "complete" /\ validation = "pass"
    BY EndIsFinish, PathEnd
  <2>2. AllComplete(tasks)
    BY <2>1 DEF PathInv, IInv, VerdictSound
  <2>3. saved'.tasks = tasks /\ saved'.validation = "pass" /\ saved'.tasks # NoTasks
    BY <2>1 DEF Finish, Settled
  <2> QED BY <2>2, <2>3 DEF InferNextStage
<1>2. PathInv /\ [Next]_vars => PathInv'
  BY PathNext
<1> QED BY PathInit, <1>1, <1>2, PTL DEF Spec, SettledRunAsksNothing

-----------------------------------------------------------------------------
(* Why loops end: each of their steps brings the end nearer.                *)

(* How far a state is from the end of a round of the loop. *)
Rank(d, state, next) ==
  CASE state = "intake" -> 6
    [] state = "plan" -> 5
    [] state = "execute" -> IF d = "resume" /\ next = "execute" THEN 4 ELSE 3
    [] state = "validate" -> 2
    [] OTHER -> 1

(* A repair costs one of the budget and leads back into at most three more
   steps. *)
StepsLeft ==
  IF driver = "idle" THEN 0 ELSE 4 * (MaxRepairs - repairs) + Rank(driver, sm, stage)

LEMMA Ranks ==
  ASSUME NEW d, NEW state, NEW next
  PROVE  /\ Rank(d, state, next) \in 1 .. 6
         /\ state = "intake" => Rank(d, state, next) = 6
         /\ state = "plan" => Rank(d, state, next) = 5
         /\ state = "execute" => Rank(d, state, next) \in {3, 4}
         /\ state = "execute" => (Rank(d, state, next) = 4 <=> d = "resume" /\ next = "execute")
         /\ state = "validate" => Rank(d, state, next) = 2
         /\ state \in {"repair", "complete", "failed"} => Rank(d, state, next) = 1
  BY DEF Rank

(* Within the budget, what is left is a number. *)
LEMMA LeftIsNumber ==
  ASSUME PathInv
  PROVE  /\ StepsLeft \in Nat /\ StepsLeft <= 4 * MaxRepairs + 6
         /\ driver # "idle" => repairs \in Nat /\ MaxRepairs - repairs \in Nat
<1>1. MaxRepairs \in Nat /\ repairs \in Nat /\ (driver # "idle" => repairs <= MaxRepairs)
  BY RunLoopAssumption DEF PathInv, IInv, TypeOK, Accounting
<1> DEFINE r == Rank(driver, sm, stage)
<1>2. r \in 1 .. 6
  BY Ranks
<1> HIDE DEF r
<1>3. StepsLeft = IF driver = "idle" THEN 0 ELSE 4 * (MaxRepairs - repairs) + r
  BY DEF StepsLeft, r
<1> QED BY <1>1, <1>2, <1>3

(* A repair that does not count is not made where no task is blocked. *)
LEMMA RepairsCount ==
  ASSUME PathInv, driver # "idle", sm = "repair"
  PROVE  driver = "run" \/ (driver = "resume" /\ stage = "repair")
  BY DEF PathInv, IInv, TypeOK, RunPath, ResumePath

LEMMA Smaller ==
  ASSUME NEW l \in Nat, NEW a \in 1 .. 6, NEW b \in 1 .. 6, b < a
  PROVE  4 * l + b < 4 * l + a
  OBVIOUS

LEMMA StepCounts ==
  ASSUME PathInv, [Next]_vars, driver # "idle", vars' # vars
  PROVE  StepsLeft' < StepsLeft
<1> DEFINE r == Rank(driver, sm, stage)
           left == MaxRepairs - repairs
<1>1. r \in 1 .. 6 /\ r' \in 1 .. 6 /\ left \in Nat
  BY Ranks, LeftIsNumber
<1>2. StepsLeft = 4 * left + r
  BY DEF StepsLeft
<1>3. LoopStep
  BY DEF Next, StartRun, PauseRun, StartResume, OperatorMarksTask
<1>4. CASE Finish
  <2>1. StepsLeft' = 0
    BY <1>4 DEF Finish, StepsLeft
  <2> HIDE DEF r, left
  <2> QED BY <1>1, <1>2, <2>1
<1>5. ASSUME driver' = driver, repairs' = repairs, r' < r PROVE StepsLeft' < StepsLeft
  <2>1. PICK now \in 1 .. 6, then \in 1 .. 6 : now = r /\ then = r'
    BY <1>1
  <2>2. StepsLeft' = 4 * left + then
    BY <1>5, <2>1 DEF StepsLeft
  <2>3. StepsLeft = 4 * left + now
    BY <1>2, <2>1
  <2>4. then < now
    BY <1>5, <2>1
  <2> HIDE DEF r, left
  <2>5. 4 * left + then < 4 * left + now
    BY <1>1, <2>4, Smaller
  <2> QED BY <2>2, <2>3, <2>5
<1>6. CASE ValidateStep
  <2>1. /\ sm = "validate" /\ sm' \in {"repair", "complete", "failed"}
        /\ driver' = driver /\ repairs' = repairs
    BY <1>6 DEF ValidateStep, Transition
  <2>2. r = 2 /\ r' = 1
    BY <2>1, Ranks
  <2> QED BY <1>5, <2>1, <2>2
<1>7. CASE ResumeExecuteStep
  <2>1. /\ sm = "execute" /\ sm' = "execute" /\ driver = "resume" /\ stage = "execute"
        /\ stage' = "none" /\ driver' = driver /\ repairs' = repairs
    BY <1>7 DEF ResumeExecuteStep
  <2>2. r = 4 /\ r' = 3
    BY <2>1 DEF Rank
  <2> QED BY <1>5, <2>1, <2>2
<1>8. CASE OtherStep
  <2>1. /\ driver' = driver /\ repairs' = repairs /\ stage' = stage
        /\ sm \in {"intake", "plan", "execute"} /\ sm' = Transition(sm, TRUE)
        /\ ~(driver = "resume" /\ sm = "execute" /\ stage = "execute")
    BY <1>8, RepairsCount DEF OtherStep, PathInv, IInv, TypeOK, RunState, Final
  <2>2. CASE sm = "intake"
    <3>1. sm' = "plan"
      BY <2>1, <2>2 DEF Transition
    <3>2. r = 6 /\ r' = 5
      BY <2>2, <3>1, Ranks
    <3> HIDE DEF r
    <3>3. r' < r
      BY <3>2
    <3> QED BY <1>5, <2>1, <3>3
  <2>3. CASE sm = "plan"
    <3>1. sm' = "execute"
      BY <2>1, <2>3 DEF Transition
    <3>2. r = 5 /\ r' \in {3, 4}
      BY <2>3, <3>1, Ranks
    <3> HIDE DEF r
    <3> QED BY <1>5, <2>1, <3>2
  <2>4. CASE sm = "execute"
    <3>1. sm' = "validate"
      BY <2>1, <2>4 DEF Transition
    <3>2. r = 3 /\ r' = 2
      BY <2>1, <2>4, <3>1 DEF Rank
    <3> HIDE DEF r
    <3>3. r' < r
      BY <3>2
    <3> QED BY <1>5, <2>1, <3>3
  <2> QED BY <2>1, <2>2, <2>3, <2>4
<1>9. CASE RepairStep
  <2>1. /\ sm = "repair" /\ sm' = "execute" /\ stage' = "none"
        /\ driver' = driver /\ repairs' = repairs + 1
    BY <1>9 DEF RepairStep, Transition
  <2>2. r = 1 /\ r' = 3
    BY <2>1 DEF Rank
  <2>3. StepsLeft' = 4 * (MaxRepairs - (repairs + 1)) + r'
    BY <2>1 DEF StepsLeft
  <2>4. MaxRepairs \in Nat /\ repairs \in Nat
    BY RunLoopAssumption DEF PathInv, IInv, TypeOK
  <2> HIDE DEF r
  <2> QED BY <1>2, <2>2, <2>3, <2>4
<1> QED BY <1>3, <1>4, <1>6, <1>7, <1>8, <1>9 DEF LoopStep

(* Where no task is marked blocked, every step of a loop is one of at most
   4 * MaxRepairs + 6 that are left, for any plan and budget: no interleaving
   of executing, failing and repairing keeps a command going.  With the
   fairness of the loop that is why commands end. *)
THEOREM LoopsRunOut ==
  ASSUME OperatorMarks \subseteq {"pending"}
  PROVE  Spec => /\ [](StepsLeft \in 0 .. 4 * MaxRepairs + 6)
                 /\ [][driver # "idle" => StepsLeft' < StepsLeft]_vars
<1> DEFINE Bounded == StepsLeft \in 0 .. 4 * MaxRepairs + 6
           Nearer == driver # "idle" => StepsLeft' < StepsLeft
<1>1. PathInv => Bounded
  BY LeftIsNumber, RunLoopAssumption
<1>2. PathInv /\ [Next]_vars => [Nearer]_vars
  BY StepCounts
<1>3. PathInv /\ [Next]_vars => PathInv'
  BY PathNext
<1> QED BY PathInit, <1>1, <1>2, <1>3, PTL DEF Spec

=============================================================================
