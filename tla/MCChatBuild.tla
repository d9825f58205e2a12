---------------------------- MODULE MCChatBuild ----------------------------
(* ChatBuild with every combination of up to two phrases as a single prompt,
   with a few prompts in conversation, and with an operator's directory. *)
EXTENDS ChatBuild, TLC
CONSTANTS p1, p2, here, there

TwoProcs == {p1, p2}
TwoTargets == {here, there}

(* One phrase of each kind that the tables tell apart: the tokens it fires. *)
Phrases ==
  { {"mobile"}, {"ios"}, {"game"}, {"stream"}, {"realtime"}, {"real-time"}, {"sensor"},
    {"workflow"}, {"unreal"}, {"unity"}, {"medical"}, {"user"}, {"must"},
    {"approval"}, {"notify"}, {"report"}, {"history"}, {"billing"},
    {"payment", "payments"}, {"login"}, {"rbac"}, {"admin"}, {"operator"},
    {"billing", "admin", "billing admin"}, {"offline"}, {"ops"} }

Prompts == [tokens : {a \cup b : a, b \in Phrases \cup {{}}}, name : {"words"}]
             \cup [tokens : Phrases, name : {"blank"}]

Say(tokens) == [tokens |-> tokens, name |-> "words"]
Stream == Say({"stream"})
Refused == Say({"unity", "login"})
Blank == [tokens |-> {"game"}, name |-> "blank"]

(* Documents of an operator: right, and wrong in one place. *)
Document(appType, frontend, backend) ==
  [files |-> [f \in SpecFile |-> "mapping"],
   keys |-> [k \in Key |-> IF k \in SectionKeys.product \cup SectionKeys.stack
                           THEN "text" ELSE "list"],
   app_type |-> appType,
   stack |-> [frontend |-> frontend, backend |-> backend, database |-> "postgres",
              deployment |-> "docker_compose"],
   domains |-> {}]
Web == Document("api_service", "react_next", "fastapi")
Mobile == Document("mobile_app", "flutter_mobile", "fastapi")

Documents ==
  { Web, Mobile, Document("workflow_system", "react_next", "fastapi"),
    Document("enterprise_agent_system", "react_next", "fastapi"),
    Document("game_app", "react_next", "fastapi"),
    Document("saas_web_app", "future_frontend_placeholder", "fastapi"),
    Document("saas_web_app", "react_next", "future_backend_placeholder"),
    Document("saas_web_app", "react_next", "django"),
    Document("desktop_app", "react_next", "fastapi"),
    [Web EXCEPT !.files["ui"] = "absent"], [Web EXCEPT !.files["stack"] = "unreadable"],
    [Web EXCEPT !.keys["name"] = "other"], [Web EXCEPT !.keys["criteria"] = "ragged"],
    [Web EXCEPT !.keys["backend"] = "other"], [Web EXCEPT !.domains = {"games"}] }

Case(prompts, docs, n, k, overlap) ==
  [prompts |-> prompts, docs |-> docs, commands |-> n, kills |-> k, overlap |-> overlap]

AllWorlds ==
  {Case({q}, {}, 1, 0, FALSE) : q \in Prompts}
    \cup {Case({Stream, Refused}, {}, 4, 1, FALSE), Case({Stream, Refused}, {}, 3, 1, TRUE),
          Case({Stream, Blank}, {}, 3, 1, FALSE), Case({Stream}, {Mobile}, 3, 0, TRUE),
          Case({}, Documents, 2, 0, TRUE)}

Alike == Permutations(TwoProcs) \cup Permutations(TwoTargets)
=============================================================================
