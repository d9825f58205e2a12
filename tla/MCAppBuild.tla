----------------------------- MODULE MCAppBuild -----------------------------
(* AppBuild with a file of each kind: lib/auth/auth_guard.dart, critical and
   wanted by the lane; docs/READINESS.md, required and wanted; the router,
   which depends on the specification and must carry markers.  Enterprise
   states are required, and no part of this lane's plan. *)
EXTENDS AppBuild

AFileOfEachKind == <<"readiness", "guard", "router">>
BothKinds == BOOLEAN
=============================================================================
