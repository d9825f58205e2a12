------------------------------ MODULE Services ------------------------------
(***************************************************************************)
(* Five small parts of the system that share nothing, side by side: a       *)
(* behaviour is one of an approval request (Approvals), of a generated      *)
(* application under repair (LaneRepair), of a store that is replaced as a  *)
(* whole (WholeFileStores), of an agent's plan (AgentRuntime) or of the     *)
(* enforced mutations (EnforcedMutation); the others stay as they began.    *)
(***************************************************************************)
EXTENDS Approvals, LaneRepair, WholeFileStores, AgentRuntime, EnforcedMutation

VARIABLE active   \* the part this behaviour is about

ServicesInit ==
  /\ active \in {"approval", "repair", "store", "agent", "mutation"}
  /\ Init /\ RepairInit /\ StoreInit /\ AgentInit /\ MutationInit
  /\ active # "repair" => lane = "first_class_game"
  /\ active # "store" => store = "trust"
  /\ active # "agent" => plan = PlanFor({}) /\ approvals = <<>>

ServicesNext ==
  /\ UNCHANGED active
  /\ \/ active = "approval" /\ Next
        /\ UNCHANGED <<repairVars, storeVars, agentVars, mutationVars>>
     \/ active = "repair" /\ RepairNext
        /\ UNCHANGED <<vars, storeVars, agentVars, mutationVars>>
     \/ active = "store" /\ StoreNext
        /\ UNCHANGED <<vars, repairVars, agentVars, mutationVars>>
     \/ active = "agent" /\ AgentNext
        /\ UNCHANGED <<vars, repairVars, storeVars, mutationVars>>
     \/ active = "mutation" /\ MutationNext
        /\ UNCHANGED <<vars, repairVars, storeVars, agentVars>>

ServicesSpec ==
  ServicesInit
    /\ [][ServicesNext]_<<active, vars, repairVars, storeVars, agentVars, mutationVars>>

(* The variables of all parts keep their types (control_plane/approvals.py:25,
   validator/generated_app_repair.py:36, self_extend/trust_registry.py:8,
   universal_capability/agent_runtime.py:135, control_plane/decision_log.py:19). *)
ServicesTypeOK == TypeOK /\ RepairTypeOK /\ StoreTypeOK /\ AgentTypeOK /\ MutationTypeOK

(* The agent stops at its gate, and the decision log accounts for every
   mutation (universal_capability/agent_runtime.py:151-201,
   mutation/enforced_mutation.py:13-32). *)
GatesHold == AgentGateHolds /\ MutationsAccounted

===============================================================================
