----------------------------- MODULE SpecGates -----------------------------
(***************************************************************************)
(* What stands between a specification directory and a build: the loader   *)
(* (specs/loader.py), the archetype catalog, the stack registry, the IR     *)
(* compiler, and the lane and capability contracts                          *)
(* (platform_hardening/capability_maturity.py).  Pure operators.           *)
(***************************************************************************)
EXTENDS Naturals, Sequences, FiniteSets

(* ARCHETYPES, by name. *)
Archetypes ==
  {"internal_tool", "workspace_app", "saas_web_app", "api_service",
   "workflow_system", "copilot_chat_app", "mobile_app", "game_app",
   "realtime_system", "enterprise_agent_system"}

ResolvesArchetype(appType) == appType \in Archetypes

(* STACK_REGISTRY: the support tier of every entry of every category. *)
StackRegistry ==
  [frontend |-> [react_next |-> "first_class", flutter_mobile |-> "first_class",
                 godot_game |-> "first_class", future_frontend_placeholder |-> "future"],
   backend |-> [fastapi |-> "first_class", future_backend_placeholder |-> "future"],
   database |-> [postgres |-> "first_class", future_database_placeholder |-> "future"],
   deployment |-> [docker_compose |-> "first_class",
                   future_deployment_placeholder |-> "future"]]

Category == DOMAIN StackRegistry

ResolvesEntry(category, name) == name \in DOMAIN StackRegistry[category]
ResolvesStack(stack) == \A c \in Category : ResolvesEntry(c, stack[c])
Tier(category, name) == StackRegistry[category][name]

(* LANE_CONTRACTS and APP_TYPE_TO_LANE. *)
LaneContracts ==
  [first_class_commercial |->
     [app_types |-> {"internal_tool", "workspace_app", "saas_web_app", "api_service",
                     "workflow_system", "copilot_chat_app"},
      allowed_frontends |-> {"react_next"}],
   first_class_mobile |->
     [app_types |-> {"mobile_app"}, allowed_frontends |-> {"flutter_mobile"}],
   first_class_game |->
     [app_types |-> {"game_app"}, allowed_frontends |-> {"godot_game"}],
   first_class_realtime |->
     [app_types |-> {"realtime_system"}, allowed_frontends |-> {"react_next"}],
   first_class_enterprise_agent |->
     [app_types |-> {"enterprise_agent_system"}, allowed_frontends |-> {"react_next"}]]

AppTypeToLane ==
  [mobile_app |-> "first_class_mobile", game_app |-> "first_class_game",
   realtime_system |-> "first_class_realtime",
   enterprise_agent_system |-> "first_class_enterprise_agent"]

LaneOf(appType) ==
  IF appType \in DOMAIN AppTypeToLane THEN AppTypeToLane[appType]
  ELSE "first_class_commercial"

(* Faulty: the app type is compared with the contract, the frontend is not. *)
EnforceLaneByType(appType, stack) ==
  appType \in LaneContracts[LaneOf(appType)].app_types

(* enforce_lane_contract: does it let the pair through? *)
EnforceLane(appType, stack) ==
  LET contract == LaneContracts[LaneOf(appType)] IN
  /\ appType \in contract.app_types
  /\ stack.frontend \in contract.allowed_frontends

(* The chat-first family of CAPABILITY_FAMILY_MATURITY, and what
   evaluate_capability_family finds unsupported of a request. *)
ChatFirst ==
  [supported |-> {"preview", "clarification", "default_inference", "project_memory",
                  "conversation_to_spec", "structured_preview_contract",
                  "unsupported_guidance"},
   unsupported |-> {"auto_ship_without_preview"}]

UnsupportedOf(family, requested) ==
  (requested \ family.supported) \cup (requested \cap family.unsupported)

-----------------------------------------------------------------------------
(* A specification directory: how each file reads, what class of value each *)
(* required key has, and the values that decide anything.                   *)

SectionKeys ==
  [product |-> {"name", "app_type"},
   architecture |-> {"entities", "workflows", "api_routes", "runtime_services",
                     "permissions"},
   ui |-> {"pages"},
   acceptance |-> {"criteria"},
   stack |-> Category \cup {"deployment_target"}]

SpecFile == DOMAIN SectionKeys
Key == UNION {SectionKeys[f] : f \in SpecFile}

(* "ragged" is a list with an item of the wrong kind, "other" any value that
   is neither text nor a list. *)
ValueClass == {"missing", "blank", "text", "other", "list", "ragged"}

(* What is accepted for a key: anything str() makes visible for the identity
   and the type, text for the stack, a list of the right items elsewhere. *)
AcceptedFor(key) ==
  CASE key \in SectionKeys.product -> ValueClass \ {"missing", "blank"}
    [] key \in SectionKeys.stack -> {"text"}
    [] OTHER -> {"list"}

(* load_spec_bundle raises unless every file is there and reads as a mapping,
   and every key is there and normalizes. *)
LoadsSpec(doc) ==
  /\ \A f \in SpecFile : doc.files[f] = "mapping"
  /\ \A k \in Key : doc.keys[k] \in AcceptedFor(k)

(* _canonical_application_domains *)
CanonicalDomain(appType) ==
  CASE appType = "mobile_app" -> "mobile_apps"
    [] appType = "game_app" -> "games"
    [] appType = "realtime_system" -> "realtime_systems"
    [] appType = "enterprise_agent_system" -> "enterprise_systems"
    [] OTHER -> "web_apps"

Domains(appType, declared) ==
  IF declared # {} THEN declared ELSE {CanonicalDomain(appType)}

(* compile_specs_to_ir raises or returns the AppIR: here, of its fields, those
   that decide anything later. *)
Compiles(doc) == ResolvesArchetype(doc.app_type) /\ ResolvesStack(doc.stack)

AppIR(doc) ==
  [app_type |-> doc.app_type, stack |-> doc.stack,
   domains |-> Domains(doc.app_type, doc.domains)]

(* Everything run_build_workflow asks before it plans. *)
BuildAccepts(doc) ==
  LoadsSpec(doc) /\ Compiles(doc) /\ EnforceLane(doc.app_type, doc.stack)

FirstClass(stack) == \A c \in Category : Tier(c, stack[c]) # "future"

(* What run_ship_workflow asks before it calls run_build_workflow, which reads
   the directory a second time. *)
ShipPrecheck(doc) ==
  LoadsSpec(doc) /\ ResolvesStack(doc.stack) /\ FirstClass(doc.stack)

=============================================================================
