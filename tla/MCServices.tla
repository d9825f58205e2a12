------------------------------ MODULE MCServices ------------------------------
(***************************************************************************)
(* Small constants for Services.                                           *)
(***************************************************************************)
EXTENDS Services

(* In each lane: a directory, a file with markers, one without, one that the
   repair knows nothing of, and whatever is special there. *)
MCTouched ==
  [first_class_commercial |->
     {Docs, App \o <<"page.tsx">>, Docs \o <<"READINESS.md">>,
      Reports \o <<"generation_summary.json">>, <<"frontend">>},
   first_class_mobile |->
     {<<"lib">>, <<"lib", "navigation.dart">>, Reports},
   first_class_game |->
     {<<"scripts", "main.gd">>, <<"scenes">>, Reports \o <<"proof_report.json">>},
   first_class_realtime |->
     {<<"backend">>, Docs \o <<"EXPORT.md">>, App \o <<"page.tsx">>},
   first_class_enterprise_agent |->
     {Docs, <<"backend", "memory", "state_store.py">>, Release}]

===============================================================================
