--------------------------- MODULE PlatformPlugins ---------------------------
(***************************************************************************)
(* Which plugins an application type and a stack resolve to               *)
(* (platform_plugins/registry.py over the metadata of                      *)
(* platform_plugins/plugins/).  Pure operators.                            *)
(***************************************************************************)
EXTENDS SpecGates

PluginType == {"archetype", "stack", "generation", "validation", "repair", "packaging"}

(* The six plugins of a lane share their archetypes, stack and priority; of
   the stack only the frontend differs between lanes. *)
CommercialPlugins ==
  [archetypes |-> {"internal_tool", "workspace_app", "saas_web_app", "api_service",
                   "copilot_chat_app"},
   frontend |-> "react_next", priority |-> 10]
MobilePlugins ==
  [archetypes |-> {"mobile_app"}, frontend |-> "flutter_mobile", priority |-> 20]
GamePlugins ==
  [archetypes |-> {"game_app"}, frontend |-> "godot_game", priority |-> 30]
RealtimePlugins ==
  [archetypes |-> {"realtime_system"}, frontend |-> "react_next", priority |-> 40]
EnterprisePlugins ==
  [archetypes |-> {"workflow_system", "enterprise_agent_system"},
   frontend |-> "react_next", priority |-> 50]

Plugins ==
  [first_class_commercial |-> CommercialPlugins, first_class_mobile |-> MobilePlugins,
   first_class_game |-> GamePlugins, first_class_realtime |-> RealtimePlugins,
   first_class_enterprise_agent |-> EnterprisePlugins]

SupportsStack(lane, stack) ==
  stack = [frontend |-> Plugins[lane].frontend, backend |-> "fastapi",
           database |-> "postgres", deployment |-> "docker_compose"]

(* _supports, of any plugin of the lane. *)
Supports(lane, appType, stack) ==
  appType \in Plugins[lane].archetypes /\ SupportsStack(lane, stack)

(* _resolve_one: for archetypes, the stack alone will do. *)
Candidates(type, appType, stack) ==
  LET exact == {l \in DOMAIN Plugins : Supports(l, appType, stack)} IN
  IF exact = {} /\ type = "archetype"
  THEN {l \in DOMAIN Plugins : SupportsStack(l, stack)} ELSE exact

ResolveOne(type, appType, stack) ==
  {l \in Candidates(type, appType, stack) :
     \A k \in Candidates(type, appType, stack) : Plugins[l].priority <= Plugins[k].priority}

(* resolve_plugins: the lane of the set it returns; none when it raises. *)
ResolvedLane(appType, stack) ==
  LET resolved == [type \in PluginType |-> ResolveOne(type, appType, stack)] IN
  {l \in DOMAIN Plugins :
     ResolvesArchetype(appType) /\ \A type \in PluginType : resolved[type] = {l}}

=============================================================================
