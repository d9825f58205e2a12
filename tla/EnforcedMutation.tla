-------------------------- MODULE EnforcedMutation --------------------------
(***************************************************************************)
(* execute_mutation (mutation/enforced_mutation.py): policy, approval and    *)
(* preflight in a row, each of which may refuse, and the decision log that   *)
(* the approval engine of the process writes in between.                     *)
(***************************************************************************)
EXTENDS Naturals, Sequences, FiniteSets

CONSTANT MaxMutations   \* bound: mutations asked for

ASSUME MutationAssumption == MaxMutations \in Nat

(* _DEFAULT_RULES: what needs no approval, what does, and an action with no
   rule. *)
FreeActions == {"read", "inspect", "safe_mutation"}
MutationAction ==
  FreeActions \cup {"destructive_mutation", "ship", "restore", "self_extend", "admin_override"}
    \cup {"unrecognized"}

Context == [forbidden : BOOLEAN, destructive : BOOLEAN, approved : BOOLEAN]

VARIABLES
  decisionLog,   \* DecisionLog._records
  asked          \* the mutations asked for so far, and how each ended

mutationVars == <<decisionLog, asked>>

MutationTypeOK ==
  /\ decisionLog \in Seq([action : MutationAction, approved : BOOLEAN])
  /\ asked \in Seq([action : MutationAction, context : Context,
                    outcome : {"done", "denied", "unapproved", "preflight"}])

MutationInit == decisionLog = <<>> /\ asked = <<>>

RequiresApproval(action, context) == context.destructive \/ action \notin FreeActions

EngineApproves(action, context) == RequiresApproval(action, context) => context.approved

Ends(action, context, outcome) ==
  asked' = Append(asked, [action |-> action, context |-> context, outcome |-> outcome])

LogDecision(action, approved) ==
  decisionLog' = Append(decisionLog, [action |-> action, approved |-> approved])

(* The classification of the path is computed and not used. *)
PolicyDenies(action, context) ==
  /\ context.forbidden
  /\ Ends(action, context, "denied")
  /\ UNCHANGED decisionLog

EngineRefuses(action, context) ==
  /\ ~context.forbidden /\ ~EngineApproves(action, context)
  /\ LogDecision(action, FALSE)
  /\ Ends(action, context, "unapproved")

PreflightDecides(action, context) ==
  /\ ~context.forbidden /\ EngineApproves(action, context)
  /\ LogDecision(action, TRUE)
  /\ Ends(action, context, IF context.approved THEN "done" ELSE "preflight")

MutationNext ==
  /\ Len(asked) < MaxMutations
  /\ \E action \in MutationAction, context \in Context :
       \/ PolicyDenies(action, context)
       \/ EngineRefuses(action, context)
       \/ PreflightDecides(action, context)

-----------------------------------------------------------------------------

(* The log is written before the preflight, which may still refuse
   (enforced_mutation.py:20-25), so it is no list of what was done.  What it is:
   one record for every mutation the policy let through, in order; one that
   refuses is never followed by the mutation, one that approves is followed by
   it unless the action is free and nobody approved it; and what is done, was
   not forbidden and was approved by the caller, free or not. *)
MutationsAccounted ==
  LET let == {i \in DOMAIN asked : asked[i].outcome # "denied"}
      decision(i) == decisionLog[Cardinality({k \in let : k <= i})]
  IN
  /\ Len(decisionLog) = Cardinality(let)
  /\ \A i \in let :
       /\ decision(i).action = asked[i].action
       /\ decision(i).approved <=> asked[i].outcome # "unapproved"
       /\ asked[i].outcome = "preflight" =>
            /\ asked[i].action \in FreeActions
            /\ ~asked[i].context.approved /\ ~asked[i].context.destructive
  /\ \A i \in DOMAIN asked :
       asked[i].outcome = "done" => asked[i].context.approved /\ ~asked[i].context.forbidden
=============================================================================
