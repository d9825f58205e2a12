---------------------- MODULE MCCapabilityGovernance -----------------------
(* CapabilityGovernance with two processes, and a tool that needs approval
   next to one that only needs its checks. *)
EXTENDS CapabilityGovernance
CONSTANTS p1, p2, auth_guard, retry_helper

TwoProcs == {p1, p2}
TwoTools == {auth_guard, retry_helper}
OneOfEach == [t \in TwoTools |-> IF t = auth_guard THEN "core" ELSE "plain"]
AllModes == BOOLEAN
SmallBounds ==
  [o \in BOOLEAN |-> IF o THEN [commands |-> 2, gaps |-> 1, crashes |-> 1]
                          ELSE [commands |-> 3, gaps |-> 2, crashes |-> 1]]
=============================================================================
