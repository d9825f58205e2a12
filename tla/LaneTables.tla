----------------------------- MODULE LaneTables -----------------------------
(***************************************************************************)
(* The files of the lanes: what is generated (generator/template_packs.py,  *)
(* platform_plugins/plugins/), what the validators ask for                  *)
(* (validator/generated_app.py, the plugins, cli/autobuilder.py) and what   *)
(* a repair may put back.  A path is the sequence of its components, so a   *)
(* directory is a proper prefix of the paths below it.  Pure operators.    *)
(***************************************************************************)
EXTENDS Naturals, Sequences, SequencesExt

Below(dir, names) == {Append(dir, n) : n \in names}
Listed(dir, names) == [i \in DOMAIN names |-> Append(dir, names[i])]

App == <<"frontend", "app">>
Components == <<"frontend", "components">>
Api == <<"backend", "api">>
Reports == <<".autobuilder">>
Docs == <<"docs">>
Release == <<"release">>

Directories(paths) ==
  UNION {{SubSeq(p, 1, k) : k \in 1 .. Len(p) - 1} : p \in paths}

-----------------------------------------------------------------------------
(* What is generated.                                                      *)

ReportFiles ==
  Below(Reports, {"proof_report.json", "readiness_report.json", "validation_summary.json",
                  "determinism_signature.json", "package_artifact_summary.json",
                  "proof_readiness_bundle.json"})

RunbookFiles ==
  { Release \o <<"runbook", "OPERATOR_RUNBOOK.md">>, Release \o <<"proof", "PROOF_BUNDLE.md">> }

ReleaseFiles ==
  RunbookFiles \cup { Release \o <<"README.md">>,
                      Release \o <<"deploy", "DEPLOYMENT_NOTES.md">> }

(* Not templates: prepare_build_plan adds them to any plan. *)
PlanFiles == Below(Reports, {"ir.json", "build_plan.json", "generation_summary.json"})

CommercialPack ==
  Below(<<>>, {"README.md", ".env.example", "docker-compose.yml"})
    \cup Below(<<"frontend">>, {"package.json", "tsconfig.json", "next-env.d.ts",
                                "next.config.js", "status.seed.json"})
    \cup Below(App, {"layout.tsx", "page.tsx", "globals.css"})
    \cup {App \o <<d, "page.tsx">> : d \in {"settings", "admin", "activity"}}
    \cup Below(Components, {"enterprise-shell.tsx", "enterprise-states.tsx"})
    \cup {<<"frontend", "tests", "shell-check.js">>, <<"frontend", "public", ".gitkeep">>}
    \cup Below(<<"backend">>, {"requirements.txt", ".env.example"})
    \cup Below(Api, {"__init__.py", "main.py", "auth.py", "security.py", "config.py",
                     "responses.py", "logging.py", "admin.py", "operator.py", "audit.py",
                     "billing_admin.py", "plans.py", "billing_webhooks.py"})
    \cup Below(<<"backend", "security">>, {"auth_dependency.py", "rbac.py", "__init__.py"})
    \cup Below(<<"backend", "services">>, {"entitlements.py", "__init__.py"})
    \cup {<<"backend", "tests", "test_endpoints.py">>, <<"db", "schema.sql">>}
    \cup Below(Docs, {"OPERATOR.md", "ENTERPRISE_POLISH.md", "READINESS.md",
                      "PROOF_OF_RUN.md", "DEPLOYMENT.md", "STARTUP_VALIDATION.md"})
    \cup ReleaseFiles \cup ReportFiles \cup Below(Reports, {"README.md"})

(* The packs that `build` uses for the other types carry the reports, and the
   IR besides. *)
PackReports == ReportFiles \cup Below(Reports, {"README.md", "ir.json"})

MobilePack ==
  Below(<<>>, {"pubspec.yaml", "docker-compose.yml", "README.md", ".env.example"})
    \cup Below(<<"lib">>, {"app.dart", "main.dart"})
    \cup Below(<<"lib", "screens">>, {"home_screen.dart", "settings_screen.dart",
                                      "admin_screen.dart", "activity_screen.dart"})
    \cup {<<"lib", "navigation", "app_router.dart">>, <<"lib", "auth", "auth_guard.dart">>,
          <<"lib", "state", "app_state.dart">>, <<"lib", "data", "local_store.dart">>,
          <<"lib", "services", "api_client.dart">>}
    \cup Below(Api, {"__init__.py", "main.py", "auth.py", "security.py", "mobile.py"})
    \cup Below(<<"backend", "security">>, {"auth_dependency.py", "rbac.py", "__init__.py"})
    \cup Below(<<"backend">>, {"requirements.txt", ".env.example"})
    \cup Below(Docs, {"READINESS.md", "OPERATOR.md"}) \cup ReleaseFiles \cup PackReports

GamePack ==
  Below(<<>>, {"project.godot", "README.md", "docker-compose.yml"})
    \cup Below(<<"scenes">>, {"Main.tscn", "HUD.tscn"})
    \cup Below(<<"scripts">>, {"main.gd", "player.gd", "input_map.gd", "game_state.gd",
                               "hud.gd"})
    \cup Below(Docs, {"READINESS.md", "EXPORT_AND_RUN.md"})
    \cup Below(Api, {"__init__.py", "main.py", "game.py"})
    \cup {<<"backend", "requirements.txt">>} \cup RunbookFiles \cup PackReports

(* What the realtime and the enterprise pack have in common. *)
ServerPack ==
  Below(<<>>, {"docker-compose.yml", "README.md", ".env.example"})
    \cup Below(Api, {"__init__.py", "main.py", "admin.py", "operator.py", "audit.py",
                     "config.py", "responses.py", "logging.py"})
    \cup Below(<<"backend">>, {"requirements.txt", ".env.example"})
    \cup Below(Docs, {"READINESS.md"}) \cup ReleaseFiles \cup PackReports

RealtimePack ==
  ServerPack
    \cup Below(<<"frontend", "lib">>, {"realtime-client.ts", "alert-actions.ts"})
    \cup Below(<<"backend", "realtime">>, {"channels.py", "events.py", "world_state.py",
                                           "ws_gateway.py"})
    \cup {<<"backend", "connectors", "sensors.py">>, <<"backend", "services", "alerts.py">>,
          Api \o <<"realtime.py">>}

EnterprisePack ==
  ServerPack
    \cup Below(<<"backend", "agent">>, {"runtime.py", "task_router.py", "audit.py",
                                        "briefing.py"})
    \cup Below(<<"backend", "workflows">>, {"router.py", "approvals.py"})
    \cup {<<"backend", "memory", "state_store.py">>, Components \o <<"workflow-board.tsx">>,
          Api \o <<"enterprise.py">>}

(* _shared_artifact_templates and _shared_artifacts of the plugins. *)
SharedArtifacts ==
  ReportFiles \cup ReleaseFiles \cup Below(Docs, {"DEPLOYMENT.md", "STARTUP_VALIDATION.md"})
SharedServices == SharedArtifacts \cup {<<"docker-compose.yml">>, <<"backend", ".env.example">>}

MobileTemplates ==
  SharedArtifacts
    \cup Below(<<>>, {"README.md", "pubspec.yaml", ".env.example"})
    \cup Below(<<"lib">>, {"main.dart", "app.dart", "navigation.dart"})
    \cup {<<"lib", "state", "app_state.dart">>, <<"lib", "services", "api_client.dart">>,
          <<"android", ".gitkeep">>, <<"ios", ".gitkeep">>, Docs \o <<"RUN.md">>}

GameTemplates ==
  SharedArtifacts
    \cup Below(<<>>, {"README.md", "project.godot", ".env.example"})
    \cup Below(<<"scenes">>, {"Main.tscn", "Player.tscn"})
    \cup Below(<<"scripts">>, {"main.gd", "player.gd"})
    \cup {<<"assets", ".gitkeep">>, Docs \o <<"RUN.md">>}

RealtimeTemplates ==
  SharedServices
    \cup {<<"README.md">>, <<".env.example">>, App \o <<"page.tsx">>, Api \o <<"main.py">>,
          <<"frontend", "lib", "realtime-client.ts">>,
          <<"backend", "connectors", "sensors.py">>,
          <<"backend", "realtime", "world_state.py">>}
    \cup Below(Docs, {"RUN.md", "EXPORT.md"})

EnterpriseTemplates ==
  SharedServices
    \cup {<<"README.md">>, <<".env.example">>, App \o <<"page.tsx">>, Api \o <<"main.py">>,
          Components \o <<"workflow-board.tsx">>, <<"backend", "workflows", "router.py">>,
          <<"backend", "memory", "state_store.py">>}
    \cup Below(Docs, {"RUN.md", "BRIEFING.md"})

-----------------------------------------------------------------------------
(* What the validators ask for, in the order they ask: that a path exists,  *)
(* or that the file has its markers.                                       *)

Exist(paths) == [i \in DOMAIN paths |-> [path |-> paths[i], marked |-> FALSE]]
Marked(paths) == [i \in DOMAIN paths |-> [path |-> paths[i], marked |-> TRUE]]

CommercialItems ==
  Exist(<<Reports, <<"frontend">>, App, Components, <<"backend">>, Api,
          <<"backend", "tests">>, <<"db">>, Docs, Release, Release \o <<"deploy">>,
          Release \o <<"runbook">>, Release \o <<"proof">>,
          <<"docker-compose.yml">>, <<"README.md">> >>)
  \o Marked(<<App \o <<"page.tsx">> >>
            \o Listed(Components, <<"enterprise-shell.tsx", "enterprise-states.tsx">>)
            \o Listed(Api, <<"main.py", "admin.py", "operator.py", "audit.py">>))
  \o Exist(Listed(Api, <<"responses.py", "logging.py">>)
           \o << <<"backend", "tests", "test_endpoints.py">> >>)
  \o Marked(<< <<".env.example">>, <<"backend", ".env.example">>, Api \o <<"config.py">>,
               <<"docker-compose.yml">> >>)
  \o Exist(Listed(Docs, <<"ENTERPRISE_POLISH.md", "READINESS.md", "PROOF_OF_RUN.md">>)
           \o Listed(Reports, <<"proof_report.json", "readiness_report.json",
                "validation_summary.json", "determinism_signature.json",
                "package_artifact_summary.json", "proof_readiness_bundle.json",
                "generation_summary.json">>))
  \o Marked(<<Release \o <<"README.md">>, Release \o <<"deploy", "DEPLOYMENT_NOTES.md">>,
              Release \o <<"runbook", "OPERATOR_RUNBOOK.md">>,
              Release \o <<"proof", "PROOF_BUNDLE.md">> >>
            \o Listed(Docs, <<"DEPLOYMENT.md", "STARTUP_VALIDATION.md">>)
            \o [i \in 1 .. 3 |-> App \o << <<"settings", "admin", "activity">>[i], "page.tsx">>])
  \o Exist(<<Docs \o <<"OPERATOR.md">> >>)

(* The last check of the other four: run notes, bundle and reports. *)
PackagingItems(docs, reports) ==
  Exist(Listed(Docs, docs) \o <<Release \o <<"README.md">> >>
        \o Listed(Reports, <<"proof_report.json", "readiness_report.json",
                             "validation_summary.json">> \o reports))

MobileItems ==
  Exist(<< <<"pubspec.yaml">>, <<"lib", "main.dart">>, <<"lib", "navigation.dart">>,
           <<"lib", "state", "app_state.dart">>, <<"lib", "services", "api_client.dart">> >>)
  \o Marked(<< <<"lib", "navigation.dart">>, <<"lib", "services", "api_client.dart">> >>)
  \o PackagingItems(<<"RUN.md">>, <<"determinism_signature.json">>)

GameItems ==
  Exist(<< <<"project.godot">>, <<"scenes", "Main.tscn">>, <<"scenes", "Player.tscn">>,
           <<"scripts", "main.gd">>, <<"scripts", "player.gd">> >>)
  \o Marked(<< <<"project.godot">>, <<"scripts", "main.gd">>, <<"scripts", "player.gd">> >>)
  \o PackagingItems(<<"RUN.md">>, <<"determinism_signature.json">>)

RealtimeItems ==
  Exist(<<App \o <<"page.tsx">>, <<"frontend", "lib", "realtime-client.ts">>,
          Api \o <<"main.py">>, <<"backend", "connectors", "sensors.py">>,
          <<"backend", "realtime", "world_state.py">> >>)
  \o Marked(<<App \o <<"page.tsx">>, Api \o <<"main.py">>,
              <<"backend", "realtime", "world_state.py">> >>)
  \o PackagingItems(<<"RUN.md", "EXPORT.md">>, <<>>)

EnterpriseItems ==
  Exist(<<App \o <<"page.tsx">>, Components \o <<"workflow-board.tsx">>,
          Api \o <<"main.py">>, <<"backend", "workflows", "router.py">>,
          <<"backend", "memory", "state_store.py">> >>)
  \o Marked(<<App \o <<"page.tsx">>, Api \o <<"main.py">>,
              <<"backend", "memory", "state_store.py">> >>)
  \o PackagingItems(<<"RUN.md", "BRIEFING.md">>, <<>>)

(* LANE_VALIDATION_RULES of validate-app, of the types that have any. *)
LaneRules ==
  [mobile_app |->
     {<<"pubspec.yaml">>, <<"lib", "app.dart">>, <<"lib", "navigation", "app_router.dart">>,
      <<"lib", "services", "api_client.dart">>, <<"lib", "auth", "auth_guard.dart">>,
      <<"lib", "state", "app_state.dart">>, <<"lib", "data", "local_store.dart">>,
      Api \o <<"auth.py">>}
       \cup Below(<<"lib", "screens">>, {"home_screen.dart", "settings_screen.dart",
                                         "admin_screen.dart", "activity_screen.dart"})
       \cup Below(Docs, {"READINESS.md", "OPERATOR.md"}),
   realtime_system |->
     Below(<<"frontend", "lib">>, {"realtime-client.ts", "alert-actions.ts"})
       \cup Below(<<"backend", "realtime">>, {"world_state.py", "events.py", "channels.py",
                                              "ws_gateway.py"})
       \cup {Api \o <<"realtime.py">>, <<"backend", "connectors", "sensors.py">>,
             <<"backend", "services", "alerts.py">>, Docs \o <<"READINESS.md">>},
   enterprise_agent_system |->
     Below(<<"backend", "workflows">>, {"router.py", "approvals.py"})
       \cup Below(<<"backend", "agent">>, {"runtime.py", "audit.py", "task_router.py",
                                           "briefing.py"})
       \cup {Api \o <<"enterprise.py">>, <<"backend", "memory", "state_store.py">>,
             Docs \o <<"READINESS.md">>},
   game_app |->
     Below(<<"scenes">>, {"Main.tscn", "HUD.tscn"})
       \cup Below(<<"scripts">>, {"main.gd", "player.gd", "input_map.gd", "game_state.gd",
                                  "hud.gd"})
       \cup {<<"project.godot">>} \cup Below(Docs, {"EXPORT_AND_RUN.md", "READINESS.md"})]

Packs ==
  [mobile_app |-> MobilePack, realtime_system |-> RealtimePack,
   enterprise_agent_system |-> EnterprisePack, game_app |-> GamePack]

(* REQUIRED_FILES of validate-app, whatever the type. *)
RequiredFiles ==
  {Api \o <<"main.py">>, Api \o <<"admin.py">>, Components \o <<"enterprise-states.tsx">>,
   Docs \o <<"READINESS.md">>}

-----------------------------------------------------------------------------
(* The lanes of the plugins: what an application of theirs is made of, what  *)
(* is asked of it, what has to be there for it to start, and the most that   *)
(* one repair may put back.  A commercial application is one that was built, *)
(* plan files and all; the others are their plugin's templates.             *)

Lanes ==
  [first_class_commercial |->
     [templates |-> CommercialPack, items |-> CommercialItems, cap |-> 24],
   first_class_mobile |->
     [templates |-> MobileTemplates, items |-> MobileItems, cap |-> 20],
   first_class_game |->
     [templates |-> GameTemplates, items |-> GameItems, cap |-> 20],
   first_class_realtime |->
     [templates |-> RealtimeTemplates, items |-> RealtimeItems, cap |-> 24],
   first_class_enterprise_agent |->
     [templates |-> EnterpriseTemplates, items |-> EnterpriseItems, cap |-> 24]]

Fresh(l) ==
  Lanes[l].templates \cup IF l = "first_class_commercial" THEN PlanFiles ELSE {}

(* LANE_RUNTIME_CHECKS *)
RuntimeChecks ==
  [first_class_commercial |->
     {<<"docker-compose.yml">>, App \o <<"page.tsx">>, Api \o <<"main.py">>},
   first_class_mobile |->
     {<<"pubspec.yaml">>, <<"lib", "main.dart">>, <<"lib", "navigation.dart">>},
   first_class_game |->
     {<<"project.godot">>, <<"scenes", "Main.tscn">>, <<"scripts", "main.gd">>},
   first_class_realtime |->
     {App \o <<"page.tsx">>, Api \o <<"main.py">>,
      <<"backend", "realtime", "world_state.py">>},
   first_class_enterprise_agent |->
     {App \o <<"page.tsx">>, Api \o <<"main.py">>, <<"backend", "workflows", "router.py">>}]

StartupChecks(l) == RuntimeChecks[l] \cup {Reports \o <<"validation_summary.json">>}

(* _fallback_file_content: what can be put back without a template. *)
FallbackFiles ==
  Below(Docs, {"ENTERPRISE_POLISH.md", "READINESS.md", "PROOF_OF_RUN.md"})
    \cup Below(Reports, {"proof_report.json", "readiness_report.json",
                         "validation_summary.json", "determinism_signature.json"})

(* Every pack has the files that the rules of its type ask for; the required
   files of validate-app are all in the commercial pack only. *)
ASSUME PacksPass == \A t \in DOMAIN LaneRules : LaneRules[t] \subseteq Packs[t]
ASSUME RequiredIsCommercial ==
  RequiredFiles \subseteq CommercialPack /\ \A t \in DOMAIN Packs : ~RequiredFiles \subseteq Packs[t]

(* What holds of the tables of every lane: an item is a file or a directory of
   a fresh application, and a file if markers are asked of it; what a lane
   starts up with is among its items; and where markers are asked for, the
   fallback content, which has none, is never put. *)
ASSUME LanesFit ==
  \A l \in DOMAIN Lanes :
    /\ Lanes[l].cap \in Nat
    /\ Fresh(l) \subseteq Seq(STRING)
    /\ \A k \in DOMAIN Lanes[l].items :
         LET item == Lanes[l].items[k] IN
         /\ item.path \in Fresh(l) \cup Directories(Fresh(l))
         /\ item.marked \in BOOLEAN
         /\ item.marked => item.path \in Fresh(l) \ FallbackFiles
    /\ \A p \in StartupChecks(l) : \E k \in DOMAIN Lanes[l].items : p = Lanes[l].items[k].path

=============================================================================
