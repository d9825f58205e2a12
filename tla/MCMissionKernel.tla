-------------------------- MODULE MCMissionKernel --------------------------
(* MissionKernel with two processes and the verdicts that the two policies
   reach on goals of at most two of their keywords, whether or not a title
   still shows them; ShortGoalsAssumption checks the list against the policies'
   tables.  A goal the run layer pauses on may be safe for the mission layer
   ("drop table users"), and one may be dangerous for the mission layer only
   ("wipe production"). *)
EXTENDS MissionKernel, MutationSafety
CONSTANTS p1, p2

TwoProcs == {p1, p2}

UsualGoals ==
  [gated : BOOLEAN, risk : {"safe", "caution"}, checkpoint : {FALSE}]
    \cup [gated : {TRUE}, risk : {"dangerous"}, checkpoint : {TRUE}]
    \cup [gated : {FALSE}, risk : {"caution"}, checkpoint : {TRUE}]
Unseen == [gated |-> FALSE, risk |-> "dangerous", checkpoint |-> TRUE]
AllGoals == UsualGoals \cup {Unseen}

ASSUME ShortGoalsAssumption ==
  AllGoals = {Verdicts(g) : g \in
                {h \in UNION {[words : {{a, b}}, seen : SUBSET {a, b}] : a, b \in Keyword} :
                   h \in Goal}}
=============================================================================
