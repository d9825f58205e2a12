----------------------------- MODULE LaneRepair -----------------------------
(***************************************************************************)
(* Validation and bounded repair of a generated application, as the        *)
(* plugins offer them: a report of what fails (validator/generated_app.py   *)
(* and the plugins' validators), and a repair that works through a report   *)
(* it is handed (platform_hardening/repair_runtime.py,                      *)
(* validator/generated_app_repair.py).  An operator removes and edits files *)
(* between any two steps; a repair may be killed.                          *)
(***************************************************************************)
EXTENDS LaneTables, Integers, Functions

CONSTANTS
  Touched,      \* Touched[l]: what the operator may remove or edit in lane l
  Limits,       \* max_repairs asked for
  MaxMeddling   \* bound: what the operator does, and kills

ASSUME RepairAssumption == Limits \subseteq Int /\ MaxMeddling \in Nat

VARIABLES
  lane,         \* lane_id of the plugins in use
  disk,         \* what is in the directory: path -> content, or "dir"
  report,       \* failed_items of the last validation: their numbers
  stage,        \* "idle", or "repairing"
  limit,        \* effective_max_repairs
  templated,    \* were expected_templates given?
  left,         \* the entries of the report still to be worked through
  repairs,      \* repairs_applied
  blocked,      \* is there an unrepaired blocker?
  concluded,    \* history: did a repair end on the last report, undisturbed?
  current,      \* history: is the report of the directory as it is?
  meddling      \* history: what the operator did, and kills

repairVars == <<lane, disk, report, stage, limit, templated, left, repairs, blocked,
                concluded, current, meddling>>

-----------------------------------------------------------------------------

(* What a file holds: what its template, or the fallback, says; what an
   operator wrote, markers and all; or too little for the markers. *)
FileContent == {"template", "fallback", "own", "lacking"}

(* path.write_text after mkdir(parents=True) *)
Written(path, content) ==
  [p \in DOMAIN disk \cup {path} \cup Directories({path}) |->
     IF p = path THEN content ELSE IF p \in DOMAIN disk THEN disk[p] ELSE "dir"]

(* _file_exists and _file_contains *)
Fails(item) ==
  \/ item.path \notin DOMAIN disk
  \/ item.marked /\ disk[item.path] \notin {"template", "own"}

Items == Lanes[lane].items

(* An item goes by its number: its place in the order of validation, which is
   the order of the report. *)
FailedItems == {k \in DOMAIN Items : Fails(Items[k])}

(* verify_runtime_startup *)
StartsUp == StartupChecks(lane) \subseteq DOMAIN disk

(* What a repair would put at a path: "none" if it knows nothing better. *)
Replacement(path) ==
  IF templated /\ path \in Lanes[lane].templates THEN "template"
  ELSE IF path \in FallbackFiles THEN "fallback" ELSE "none"

-----------------------------------------------------------------------------

(* validate_generated_app, of whichever lane. *)
Validate ==
  /\ stage = "idle"
  /\ report' = FailedItems
  /\ current' = TRUE
  /\ concluded' = FALSE
  /\ UNCHANGED <<lane, disk, stage, limit, templated, left, repairs, blocked, meddling>>

AtLeast0(n) == IF n < 0 THEN 0 ELSE n
AtMost(cap, n) == IF n > cap THEN cap ELSE n

(* repair_with_lane_policy: the lane caps what is asked for.  The report may
   be one of long ago, or one that a repair has worked through already. *)
BeginRepair ==
  /\ stage = "idle"
  /\ stage' = "repairing"
  /\ \E requested \in Limits : limit' = AtMost(Lanes[lane].cap, AtLeast0(requested))
  /\ templated' \in BOOLEAN
  /\ left' = report /\ repairs' = 0 /\ blocked' = FALSE
  /\ current' = (current /\ ~concluded)
  /\ concluded' = FALSE
  /\ UNCHANGED <<lane, disk, report, meddling>>

NextEntry(k) == stage = "repairing" /\ k \in left /\ \A other \in left : k <= other

(* The limit comes first: what follows is not looked at any more. *)
LimitReached ==
  /\ stage = "repairing" /\ left # {}
  /\ repairs >= limit
  /\ blocked' = TRUE
  /\ stage' = "idle" /\ left' = {}
  /\ concluded' = TRUE
  /\ UNCHANGED <<lane, disk, report, limit, templated, repairs, current, meddling>>

Unrepairable(k) ==
  /\ NextEntry(k)
  /\ repairs < limit
  /\ Replacement(Items[k].path) = "none"
  /\ blocked' = TRUE
  /\ left' = left \ {k}
  /\ UNCHANGED <<lane, disk, report, stage, limit, templated, repairs, concluded, current,
                 meddling>>

Restorable(k) ==
  NextEntry(k) /\ repairs < limit /\ Replacement(Items[k].path) # "none"

(* Faulty: an entry is put back and the next one is skipped. *)
RestoreEveryOther(k) ==
  /\ Restorable(k)
  /\ disk' = Written(Items[k].path, Replacement(Items[k].path))
  /\ repairs' = repairs + 1
  /\ left' = {later \in left : \E next \in left : k < next /\ next < later}
  /\ UNCHANGED <<lane, report, stage, limit, templated, blocked, concluded, current, meddling>>

(* Whatever is there is overwritten. *)
Restore(k) ==
  /\ Restorable(k)
  /\ disk' = Written(Items[k].path, Replacement(Items[k].path))
  /\ repairs' = repairs + 1
  /\ left' = left \ {k}
  /\ UNCHANGED <<lane, report, stage, limit, templated, blocked, concluded, current, meddling>>

EndRepair ==
  /\ stage = "repairing" /\ left = {}
  /\ stage' = "idle"
  /\ concluded' = TRUE
  /\ UNCHANGED <<lane, disk, report, limit, templated, left, repairs, blocked, current,
                 meddling>>

-----------------------------------------------------------------------------

Meddles ==
  /\ meddling < MaxMeddling
  /\ meddling' = meddling + 1
  /\ current' = FALSE
  /\ concluded' = FALSE
  /\ UNCHANGED <<lane, report, limit, templated, repairs, blocked>>

(* Killed between two entries, or in the middle of writing one. *)
KillRepair ==
  /\ stage = "repairing"
  /\ stage' = "idle" /\ left' = {}
  /\ \/ UNCHANGED disk
     \/ \E k \in left : Restorable(k) /\ disk' = Written(Items[k].path, "lacking")
  /\ Meddles

(* A directory goes with all that is below it. *)
OperatorRemoves ==
  /\ \E path \in Touched[lane] \cap DOMAIN disk :
       disk' = Restrict(disk, {p \in DOMAIN disk : ~IsPrefix(path, p)})
  /\ UNCHANGED <<stage, left>>
  /\ Meddles

OperatorWrites ==
  /\ \E path \in Touched[lane] \cap DOMAIN disk, content \in {"own", "lacking"} :
       disk[path] \notin {"dir", content} /\ disk' = [disk EXCEPT ![path] = content]
  /\ UNCHANGED <<stage, left>>
  /\ Meddles

RepairInit ==
  /\ lane \in DOMAIN Lanes
  /\ disk = [p \in Fresh(lane) \cup Directories(Fresh(lane)) |->
               IF p \in Fresh(lane) THEN "template" ELSE "dir"]
  /\ report = {} /\ left = {}
  /\ stage = "idle"
  /\ limit = 0 /\ templated = FALSE /\ repairs = 0 /\ blocked = FALSE
  /\ concluded = FALSE /\ current = FALSE /\ meddling = 0

RepairNext ==
  \/ Validate \/ BeginRepair
  \/ LimitReached \/ EndRepair
  \/ \E k \in left : Unrepairable(k) \/ Restore(k)
  \/ KillRepair \/ OperatorRemoves \/ OperatorWrites

RepairSpec == RepairInit /\ [][RepairNext]_repairVars

-----------------------------------------------------------------------------
(* Every variable keeps its type; nothing is without the directories it is in. *)
RepairTypeOK ==
  /\ lane \in DOMAIN Lanes
  /\ \A p \in DOMAIN disk : disk[p] \in FileContent \cup {"dir"}
  /\ Directories(DOMAIN disk) \subseteq DOMAIN disk
  /\ report \subseteq DOMAIN Items /\ left \subseteq report
  /\ stage \in {"idle", "repairing"}
  /\ stage = "idle" => left = {}
  /\ limit \in 0 .. Lanes[lane].cap /\ repairs \in 0 .. limit
  /\ templated \in BOOLEAN /\ blocked \in BOOLEAN /\ concluded \in BOOLEAN
  /\ current \in BOOLEAN
  /\ meddling \in 0 .. MaxMeddling

RepairStatus ==
  IF repairs = 0 THEN "none" ELSE IF blocked THEN "partial" ELSE "repaired"

(* What a repair says of itself is what the next validation finds, when
   nobody interferes: after "repaired" nothing fails and the application has
   all it starts up with; after "partial" less fails than before and nothing
   new; after "none" what failed still does, and it was all beyond repair or
   the limit was none.  A fresh application fails nothing. *)
RepairHelps ==
  /\ (meddling = 0 => FailedItems = {})
  /\ (concluded /\ current) =>
       CASE RepairStatus = "repaired" -> FailedItems = {} /\ StartsUp
         [] RepairStatus = "partial" -> FailedItems \subseteq report /\ FailedItems # report
         [] RepairStatus = "none" ->
              /\ FailedItems = report
              /\ limit = 0 \/ \A k \in report : Replacement(Items[k].path) = "none"

=============================================================================
