--------------------------- MODULE MutationSafety ---------------------------
(***************************************************************************)
(* What the two policy layers make of a goal: MutationSafetyPolicy          *)
(* (mutation/safety.py) on the planner's task titles, which decides whether *)
(* a run pauses (policies/action_policy.py), and the same policy on the     *)
(* action and target that the mission layer infers (cli/mission.py).        *)
(*                                                                         *)
(* A text is the set of the policies' keywords that occur in it; a goal has *)
(* besides those that are seen, that is, occur among the characters that    *)
(* the planner copies into a title.  Pure operators.                        *)
(***************************************************************************)
EXTENDS Naturals

Destructive == {"delete", "destroy", "remove", "drop", "truncate", "purge"}
Structural == {"migrate", "rename", "replace", "refactor"}
Mutating == {"update", "modify", "write", "edit", "patch", "apply", "extend"}
Validating == {"validate", "inspect", "proof", "audit", "read", "check"}
Governance == {"control_plane", "approval", "governance", "audit", "state/"}
SpecWords == {"spec", "mission.yml", "stack.yml", "features.yml"}
FileWords == {"file", "repo", "/", "."}

Keyword ==
  Destructive \cup Structural \cup Mutating \cup Validating \cup Governance \cup SpecWords
    \cup FileWords \cup {"production", "database", "sandbox"}

Has(words, any) == words \cap any # {}

(* _action_class *)
ActionClass(words) ==
  CASE Has(words, Destructive) -> "destructive"
    [] ~Has(words, Destructive) /\ Has(words, Structural) -> "structural"
    [] ~Has(words, Destructive \cup Structural) /\ Has(words, Mutating) -> "mutation"
    [] ~Has(words, Destructive \cup Structural \cup Mutating) /\ Has(words, Validating) ->
         "validation"
    [] OTHER -> "creation"

(* _target_type: the first row that fits. *)
TargetRows ==
  << <<{"production"}, "production_resource">>, <<Governance, "governance_state">>,
     <<{"database"}, "database">>, <<{"sandbox"}, "sandbox">>, <<SpecWords, "spec_bundle">>,
     <<FileWords, "filesystem">> >>

TargetType(words) ==
  LET fits == {i \in DOMAIN TargetRows : Has(words, TargetRows[i][1])} IN
  IF fits = {} THEN "logical_goal"
  ELSE TargetRows[CHOOSE i \in fits : \A k \in fits : i <= k][2]

(* evaluate, without a lane and without a word on irreversibility, as both
   layers call it. *)
Sensitive == {"production_resource", "database", "governance_state"}

Irreversible(class, type) ==
  class \in {"destructive", "structural"} /\ type \in Sensitive \cup {"filesystem"}

RiskLevel(class, type, words) ==
  IF class = "validation" \/ (class = "creation" /\ type \notin Sensitive) THEN "safe"
  ELSE IF \/ Irreversible(class, type)
          \/ /\ type \in {"production_resource", "governance_state"}
             /\ class \in {"mutation", "structural", "destructive"}
       THEN "dangerous"
  ELSE IF class \in {"mutation", "structural"} \/ type \in {"filesystem", "spec_bundle", "database"}
       THEN "caution"
  ELSE IF Has(words, {"production", "delete", "destroy", "migrate", "rename"})
       THEN "dangerous" ELSE "safe"

Evaluate(action, target) ==
  LET class == ActionClass(action \cup target)
      type == TargetType(target)
      risk == RiskLevel(class, type, action \cup target)
  IN  [class |-> class, type |-> type, risk |-> risk,
       checkpoint |-> \/ risk = "dangerous"
                      \/ /\ risk = "caution" /\ class \in {"structural", "mutation"}
                         /\ type \in {"governance_state", "database"},
       approval |-> \/ risk = "dangerous"
                    \/ /\ Irreversible(class, type)
                       /\ type \in {"production_resource", "governance_state"}]

-----------------------------------------------------------------------------

Goal == {g \in [words : SUBSET Keyword, seen : SUBSET Keyword] : g.seen \subseteq g.words}

(* create_plan, which always has a repository to look at: the first, second
   and last title are of the repository, the third of four is the goal's own. *)
TitleWords(words) ==
  {"repo", "validate"} \cup
    CASE Has(words, {"delete", "destroy", "remove", "purge"}) -> {"approval"}
      [] /\ ~Has(words, {"delete", "destroy", "remove", "purge"})
         /\ Has(words, {"migrate", "refactor", "rename"}) -> {"apply", "check"}
      [] OTHER -> {}

(* classify_action: the goal, and the titles for a target. *)
RunVerdict(goal) == Evaluate(goal.words, goal.seen \cup TitleWords(goal.words))

(* _infer_action_target, _plan_change_set: the whole goal is the target. *)
InferredAction(words) ==
  CASE Has(words, {"delete", "destroy"}) -> {"delete"}
    [] ~Has(words, {"delete", "destroy"}) /\ "rename" \in words -> {"rename"}
    [] ~Has(words, {"delete", "destroy", "rename"}) /\ "migrate" \in words -> {"migrate"}
    [] /\ ~Has(words, {"delete", "destroy", "rename", "migrate"})
       /\ Has(words, {"update", "modify", "edit", "write"}) -> {"update"}
    [] OTHER -> {}

MissionVerdict(goal) == Evaluate(InferredAction(goal.words), goal.words)

(* A goal as MissionKernel knows it. *)
Verdicts(goal) ==
  [gated |-> RunVerdict(goal).approval, risk |-> MissionVerdict(goal).risk,
   checkpoint |-> MissionVerdict(goal).checkpoint]

=============================================================================
