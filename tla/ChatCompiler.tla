---------------------------- MODULE ChatCompiler ----------------------------
(***************************************************************************)
(* From a prompt to a specification and a preview                          *)
(* (chat_builder/compiler.py, chat_builder/steering.py).  A prompt is the   *)
(* set of the tables' tokens that occur in its text, closed under "occurs   *)
(* in" ("kiosk" has the token "ios", "payments" has "payment"), together    *)
(* with what the text says of a name.  Pure operators.                     *)
(***************************************************************************)
EXTENDS PlatformPlugins, FiniteSetsExt

(* A name: given after "called", given but blank (the pattern also matches
   spaces), made of the first words, or absent. *)
NameGiven == {"given", "blank", "words", "none"}

Prompt == [tokens : SUBSET STRING, name : NameGiven]

Mentions(prompt, tokens) == prompt.tokens \cap tokens # {}

UnsupportedKeywords == {"unity", "unreal", "react native", "swiftui", "kubernetes"}
RiskyKeywords == {"medical", "finance", "children"}

FeatureTokens ==
  [approvals |-> {"approval", "approve", "review gate", "sign-off"},
   notifications |-> {"alert", "notification", "notify", "pager"},
   analytics |-> {"report", "analytics", "dashboard", "insights"},
   memory |-> {"memory", "history", "timeline", "context"},
   realtime |-> {"stream", "realtime", "real-time", "telemetry", "live updates"},
   billing |-> {"billing", "subscription", "invoice", "plans"},
   payments |-> {"payment", "payments", "stripe", "checkout"},
   auth |-> {"auth", "authentication", "login", "signin", "sign in"},
   rbac |-> {"rbac", "permission matrix", "least privilege"},
   roles |-> {"role", "roles", "admin", "auditor", "operator"},
   offline_sync |-> {"offline", "sync", "sync later"},
   operator_console |-> {"operator", "ops", "admin console"}]

FeatureCapability ==
  [approvals |-> "conversation_to_spec", notifications |-> "preview",
   analytics |-> "default_inference", memory |-> "project_memory",
   realtime |-> "clarification", billing |-> "conversation_to_spec",
   payments |-> "conversation_to_spec", auth |-> "conversation_to_spec",
   rbac |-> "conversation_to_spec", roles |-> "conversation_to_spec"]

Features(prompt) == {f \in DOMAIN FeatureTokens : Mentions(prompt, FeatureTokens[f])}

-----------------------------------------------------------------------------
(* _infer_lane: the first row whose words occur, else the commercial lane. *)

LaneRows ==
  << [lane |-> "first_class_mobile", app_type |-> "mobile_app",
      frontend |-> "flutter_mobile",
      words |-> {"flutter", "mobile", "android", "ios"}],
     [lane |-> "first_class_game", app_type |-> "game_app", frontend |-> "godot_game",
      words |-> {"godot", "game", "graphics", "prototype gameplay"}],
     [lane |-> "first_class_realtime", app_type |-> "realtime_system",
      frontend |-> "react_next",
      words |-> {"realtime", "sensor", "stream", "live", "telemetry"}],
     [lane |-> "first_class_enterprise_agent", app_type |-> "enterprise_agent_system",
      frontend |-> "react_next",
      words |-> {"workflow", "enterprise agent", "campaign", "office",
                 "corporate operating"}],
     [lane |-> "first_class_commercial", app_type |-> "saas_web_app",
      frontend |-> "react_next", words |-> {}] >>

InferLane(prompt) ==
  LaneRows[Min({i \in DOMAIN LaneRows : Mentions(prompt, LaneRows[i].words)}
                 \cup {Len(LaneRows)})]

(* Faulty: the web frontend whatever the lane. *)
StackOfWeb(prompt) ==
  [frontend |-> "react_next", backend |-> "fastapi",
   database |-> "postgres", deployment |-> "docker_compose"]

Stack(prompt) ==
  [frontend |-> InferLane(prompt).frontend, backend |-> "fastapi",
   database |-> "postgres", deployment |-> "docker_compose"]

(* unsupported_requests, by keyword and by the chat-first contract. *)
Unsupported(prompt) ==
  (prompt.tokens \cap UnsupportedKeywords) \cup
  UnsupportedOf(ChatFirst, {FeatureCapability[f] :
                            f \in Features(prompt) \cap DOMAIN FeatureCapability})

Risky(prompt) == Mentions(prompt, RiskyKeywords)
Auth(prompt) == Features(prompt) \cap {"auth", "rbac", "roles"} # {}
Billing(prompt) == Features(prompt) \cap {"billing", "payments"} # {}

-----------------------------------------------------------------------------
(* The questions of a preview. *)

Ask(condition, q) == IF condition THEN <<q>> ELSE <<>>

(* missing_info: what parse_conversation_intent appends first, and what it
   appends after that, with the words "compliance" and "credentials". *)
Usual(prompt) ==
  Ask(~Mentions(prompt, {"user", "team", "customer"}), "user")
    \o Ask(~Mentions(prompt, {"must", "need", "should"}), "outcome")
    \o Ask(Features(prompt) = {}, "feature")
Urgent(prompt) == Ask(Risky(prompt), "compliance") \o Ask(Billing(prompt), "credentials")
Missing(prompt) == Usual(prompt) \o Urgent(prompt)

(* Faulty: the questions are asked in the order they were found. *)
PrioritizeNothing(prompt) == SubSeq(Missing(prompt), 1, Min({3, Len(Missing(prompt))}))

(* _prioritize_questions; no other question has the word "billing" or
   "throughput", so the two extra ones are added whenever they apply. *)
Prioritize(prompt) ==
  LET ranked == Urgent(prompt) \o Usual(prompt)
                  \o Ask("billing" \in Features(prompt), "disputes")
                  \o Ask("realtime" \in Features(prompt), "throughput")
  IN  SubSeq(ranked, 1, Min({3, Len(ranked)}))

(* critical_questions of build_steering_decision. *)
Questions(prompt) ==
  IF Prioritize(prompt) = <<>> /\ InferLane(prompt).app_type = "saas_web_app"
  THEN <<"billing placeholders">> ELSE Prioritize(prompt)

-----------------------------------------------------------------------------
(* synthesize_spec_bundle. *)

Where(condition, names) == IF condition THEN names ELSE {}

(* runtime_shape of the decision map (_infer_decision_map). *)
RuntimeShape(prompt) ==
  {"api", "worker"}
    \cup Where("realtime" \in Features(prompt), {"event_router"})
    \cup Where("memory" \in Features(prompt), {"memory_state"})
    \cup Where(Billing(prompt), {"billing_service"})

(* Faulty: payments alone bring no billing service. *)
RuntimeServicesForBilling(prompt) ==
  {"api", "worker"}
    \cup Where(Auth(prompt), {"security_service"})
    \cup Where("billing" \in Features(prompt), {"billing_service"})
    \cup Where("realtime" \in Features(prompt), {"event_router"})
    \cup Where("memory" \in Features(prompt), {"memory_state"})

RuntimeServices(prompt) ==
  {"api", "worker"}
    \cup Where(Auth(prompt), {"security_service"})
    \cup Where(Billing(prompt), {"billing_service"})
    \cup Where("realtime" \in Features(prompt), {"event_router"})
    \cup Where("memory" \in Features(prompt), {"memory_state"})

(* _infer_auth_roles looks for these in the text. *)
RoleNames == {"owner", "admin", "member", "viewer", "operator", "manager", "auditor",
              "billing admin", "billing_admin"}

AuthRoles(prompt) ==
  LET found == prompt.tokens \cap RoleNames
      named == {IF r = "billing admin" THEN "billing_admin" ELSE r : r \in found}
  IN  IF ~Auth(prompt) /\ ~Billing(prompt) THEN {}
      ELSE (IF found = {} THEN {"admin", "member", "viewer"} ELSE named)
             \cup Where(Billing(prompt), {"billing_admin"})

(* _domains_for_app_type, the chat's own table beside the IR compiler's. *)
ChatDomains ==
  [mobile_app |-> "mobile_apps", game_app |-> "games",
   realtime_system |-> "realtime_systems",
   enterprise_agent_system |-> "enterprise_systems", saas_web_app |-> "web_apps"]

(* The five files of write_spec_bundle, as the loader will see them. *)
Synthesize(prompt) ==
  [files |-> [f \in SpecFile |-> "mapping"],
   keys |-> [k \in Key |->
              IF k = "name" /\ prompt.name = "blank" THEN "blank"
              ELSE IF k \in SectionKeys.product \cup SectionKeys.stack THEN "text"
              ELSE "list"],
   app_type |-> InferLane(prompt).app_type,
   stack |-> Stack(prompt),
   domains |-> {ChatDomains[InferLane(prompt).app_type]}]

=============================================================================
