---------------------------- MODULE AgentRuntime ----------------------------
(***************************************************************************)
(* The simulated computer-use agent (universal_capability/agent_runtime.py): *)
(* a task is planned as a sequence of action types, one per classifier its   *)
(* text matches, and executed step by step until a sensitive step is not     *)
(* approved.  A step's id is its position in the plan.                       *)
(***************************************************************************)
EXTENDS Naturals, Sequences, Functions

(* The action types of ACTION_CLASSIFIERS, and SENSITIVE_ACTION_TYPES. *)
Classifiers == {"file_read", "form_fill", "file_write", "app_admin_action", "form_submit_payment"}
SensitiveTypes == {"file_write", "file_delete", "form_submit_payment", "app_admin_action"}

ActionType == Classifiers \cup {"browser_navigate", "app_interaction"}

(* model_computer_use_task, for a task whose text matches these classifiers:
   a step for each, in the order of the table. *)
PlanFor(matched) ==
  LET step(type) == IF type \in matched THEN <<type>> ELSE <<>>
  IN  <<"browser_navigate">> \o
        (IF matched = {} THEN <<"app_interaction">>
         ELSE step("file_read") \o step("form_fill") \o step("file_write")
                \o step("app_admin_action") \o step("form_submit_payment"))

SensitiveSteps(steps) == {i \in DOMAIN steps : steps[i] \in SensitiveTypes}

(* What the operator may have declared: yes or no, to a step or to a type. *)
DeclaredFor(steps) ==
  UNION {[said -> BOOLEAN] :
           said \in SUBSET ({<<"step", i>> : i \in SensitiveSteps(steps)}
                              \cup {<<"type", steps[i]>> : i \in SensitiveSteps(steps)})}

VARIABLES
  plan,           \* the action types of the plan's steps
  approvals,      \* approvals
  completedSteps, \* completed_steps
  blockedSteps,   \* blocked_steps
  skippedSteps,   \* skipped_steps
  auditLog        \* audit_log

agentVars == <<plan, approvals, completedSteps, blockedSteps, skippedSteps, auditLog>>

AgentTypeOK ==
  /\ plan \in Seq(ActionType)
  /\ approvals \in DeclaredFor(plan)
  /\ {completedSteps, blockedSteps, skippedSteps} \subseteq Seq(DOMAIN plan)
  /\ auditLog \in Seq([step : DOMAIN plan, approved : BOOLEAN,
                       status : {"executed", "awaiting_approval", "skipped_due_to_gate"}])

AgentInit ==
  /\ \E matched \in SUBSET Classifiers : plan = PlanFor(matched)
  /\ approvals \in DeclaredFor(plan)
  /\ completedSteps = <<>> /\ blockedSteps = <<>> /\ skippedSteps = <<>>
  /\ auditLog = <<>>

ApprovedByEither(i) ==
  i \in SensitiveSteps(plan) =>
    \E said \in DOMAIN approvals \cap {<<"step", i>>, <<"type", plan[i]>>} : approvals[said]

(* What was said of the step itself goes before what was said of its type. *)
Approved(i) ==
  LET said == IF <<"step", i>> \in DOMAIN approvals THEN <<"step", i>> ELSE <<"type", plan[i]>>
  IN  i \in SensitiveSteps(plan) => said \in DOMAIN approvals /\ approvals[said]

Halted == blockedSteps # <<>>

(* One turn of execute_computer_use_plan's loop. *)
Audit(i, status) ==
  auditLog' = Append(auditLog, [step |-> i, approved |-> status = "executed", status |-> status])

ExecuteStep(i) ==
  /\ ~Halted /\ Approved(i)
  /\ completedSteps' = Append(completedSteps, i)
  /\ Audit(i, "executed")
  /\ UNCHANGED <<blockedSteps, skippedSteps>>

BlockStep(i) ==
  /\ ~Halted /\ ~Approved(i)
  /\ blockedSteps' = Append(blockedSteps, i)
  /\ Audit(i, "awaiting_approval")
  /\ UNCHANGED <<completedSteps, skippedSteps>>

SkipStep(i) ==
  /\ Halted
  /\ skippedSteps' = Append(skippedSteps, i)
  /\ Audit(i, "skipped_due_to_gate")
  /\ UNCHANGED <<completedSteps, blockedSteps>>

AgentNext ==
  /\ Len(auditLog) < Len(plan)
  /\ LET i == Len(auditLog) + 1 IN ExecuteStep(i) \/ BlockStep(i) \/ SkipStep(i)
  /\ UNCHANGED <<plan, approvals>>

-----------------------------------------------------------------------------

(* A list of the report has the steps of the audit log with this status, in the
   order of the plan. *)
Lists(list, status) ==
  /\ Range(list) = {k \in DOMAIN auditLog : auditLog[k].status = status}
  /\ \A a, b \in DOMAIN list : a < b => list[a] < list[b]

(* The agent goes as far as the first sensitive step that the operator did not
   agree to and no further, whatever was approved of the steps behind it, and a
   no to a step outweighs a yes to its type; the audit log, from which a run is
   replayed, has every step in turn and tells the same as the three lists
   (agent_runtime.py:151). *)
AgentGateHolds ==
  LET refused(i) == /\ i \in SensitiveSteps(plan)
                    /\ \/ \E no \in DOMAIN approvals : no = <<"step", i>> /\ ~approvals[no]
                       \/ ~\E yes \in DOMAIN approvals :
                             yes \in {<<"step", i>>, <<"type", plan[i]>>} /\ approvals[yes]
      first == {i \in DOMAIN plan : refused(i) /\ \A k \in 1 .. i - 1 : ~refused(k)}
  IN  /\ \A i \in Range(completedSteps) : \A k \in first : i < k
      /\ Range(blockedSteps) \subseteq first
      /\ \A i \in Range(skippedSteps) : \E k \in first : k < i
      /\ \A k \in DOMAIN auditLog : auditLog[k].step = k
      /\ Lists(completedSteps, "executed")
      /\ Lists(blockedSteps, "awaiting_approval")
      /\ Lists(skippedSteps, "skipped_due_to_gate")
=============================================================================
