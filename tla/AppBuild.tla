------------------------------ MODULE AppBuild ------------------------------
(***************************************************************************)
(* The commands that work on one target directory, one after another:      *)
(* `build`, `ship`, `validate-app [--repair]` and `proof-app [--repair]`   *)
(* (cli/autobuilder.py), with generator/executor.py writing the files and  *)
(* validator/generated_app_proof.py the reports.  Between commands an      *)
(* operator edits or removes files and changes the specification; any      *)
(* command may be killed, perhaps leaving the file it writes truncated.    *)
(***************************************************************************)
EXTENDS Naturals, Sequences

CONSTANTS
  Plan,           \* the generated files, in the order of their paths
  Critical,       \* files _is_production_critical_path recognises
  SpecDependent,  \* files whose generated content depends on the specification
  Required,       \* REQUIRED_FILES of validate-app
  LaneExists,     \* files the lane's validation rules want to exist
  LaneMarked,     \* files the lane's validation rules want markers in
  LaneKinds,      \* does the app type have lane validation rules? (cases)
  Specs,          \* versions of the specification
  MaxCommands,    \* bound: commands issued
  MaxEdits,       \* bound: edits by the operator
  MaxCrashes      \* bound: commands killed

Files == {Plan[i] : i \in DOMAIN Plan}

(* Not every plan has all the files that validate-app requires: those of the
   mobile, game, realtime and enterprise lanes lack some of them (LaneTables). *)
Paths == Files \cup Required

ASSUME AppBuildAssumption ==
  /\ Plan \in Seq(Files)
  /\ \A i, j \in DOMAIN Plan : Plan[i] = Plan[j] => i = j
  /\ Critical \cup SpecDependent \cup LaneExists \cup LaneMarked \subseteq Files
  /\ LaneKinds \subseteq BOOLEAN
  /\ Specs \cap {"absent", "common", "stub", "edited", "broken"} = {}
  /\ MaxCommands \in Nat /\ MaxEdits \in Nat /\ MaxCrashes \in Nat

VARIABLES
  lane,        \* is there a set of lane validation rules for this app?
  spec,        \* the specification as it is now
  disk,        \* disk[f]: what the file f holds
  meta,        \* the files under .autobuilder/ that matter here
  pc,          \* the step the running command is at, or "idle"
  command,     \* the running command
  next,        \* build: position of the next operation of the plan
  merged,      \* build: some decision was "merge_required"
  missing,     \* validate-app: required files still to repair
  verdict,     \* proof_status the command arrived at
  verified,    \* determinism["verified"] as the command has it
  outcome,     \* how the last build ended, until anything else happens
  commands, edits, crashes,
  touched,     \* history: has the operator changed files since the last proof?
  ruled,       \* history: did the last proof consult the lane's rules?
  signed       \* history: has the last build's repeat matched?

target == <<disk, meta>>
locals == <<pc, command, next, merged, missing, verdict, verified>>
counts == <<commands, edits, crashes>>
history == <<touched, ruled, signed>>
vars == <<lane, spec, target, locals, outcome, counts, history>>

-----------------------------------------------------------------------------

(* A file holds what a specification generates, the stub of a repair, or
   what an operator made of it: with the markers the rules look for, or
   without (as a truncated file is). *)
Content == Specs \cup {"absent", "common", "stub", "edited", "broken"}

Generated(f, s) == IF f \in SpecDependent THEN s ELSE "common"

Command == {"build", "ship", "validate", "prove"}
Certified == {"certified", "certified_with_repairs"}
Verdict == Certified \cup {"not_certified"}

(* determinism_signature.json, ir.json, package_artifact_summary.json and
   proof_report.json; "torn" is a file that does not parse. *)
Meta == [determinism : {"absent", "torn", "unverified", "verified"},
         ir : {"absent", "torn", "whole"},
         package : {"absent", "torn", "pending", "ready", "blocked"},
         proof : {"absent", "torn", "pending"} \cup Verdict]

(* Faulty: a stub that says of the signature what the reports say of a proof. *)
StubPending == [determinism |-> "pending", ir |-> "whole",
                package |-> "pending", proof |-> "pending"]

(* The plan writes them first ("." comes before letters), as stubs. *)
MetaPlan == <<"determinism", "ir", "package", "proof">>
Stub == [determinism |-> "unverified", ir |-> "whole",
         package |-> "pending", proof |-> "pending"]

Operations == Len(MetaPlan) + Len(Plan)
FileAt(n) == Plan[n - Len(MetaPlan)]

(* _run_lane_validation *)
LanePasses(d) ==
  /\ \A f \in LaneExists : d[f] # "absent"
  /\ \A f \in LaneMarked : d[f] \notin {"absent", "stub", "broken"}

Missing == {f \in Required : disk[f] = "absent"}

Ends == pc' = "idle"

-----------------------------------------------------------------------------
(* build and ship.  A specification that is refused is refused before        *)
(* anything is written.                                                      *)

StartBuild ==
  /\ pc = "idle"
  /\ commands < MaxCommands
  /\ commands' = commands + 1
  /\ command' \in {"build", "ship"}
  /\ pc' = "apply"
  /\ next' = 1
  /\ merged' = FALSE
  /\ outcome' = "none"
  /\ UNCHANGED <<lane, spec, target, missing, verdict, verified, edits, crashes, history>>

(* Faulty: a proof report that is there is not overwritten. *)
WriteMetaKeepingProof ==
  /\ pc = "apply"
  /\ next \in DOMAIN MetaPlan
  /\ meta' = IF MetaPlan[next] = "proof" /\ meta.proof # "absent" THEN meta
             ELSE [meta EXCEPT ![MetaPlan[next]] = Stub[MetaPlan[next]]]
  /\ next' = next + 1
  /\ signed' = IF MetaPlan[next] = "determinism" THEN "no" ELSE signed
  /\ UNCHANGED <<lane, spec, disk, pc, command, merged, missing, verdict, verified,
                 outcome, counts, touched, ruled>>

(* System-managed paths are always safe to overwrite. *)
WriteMeta ==
  /\ pc = "apply"
  /\ next \in DOMAIN MetaPlan
  /\ meta' = [meta EXCEPT ![MetaPlan[next]] = Stub[MetaPlan[next]]]
  /\ next' = next + 1
  /\ signed' = IF MetaPlan[next] = "determinism" THEN "no" ELSE signed
  /\ UNCHANGED <<lane, spec, disk, pc, command, merged, missing, verdict, verified,
                 outcome, counts, touched, ruled>>

(* Whatever differs from what would be generated counts as the operator's. *)
Modified(f) == disk[f] \notin {"absent", Generated(f, spec)}

AtFile == pc = "apply" /\ next \in Len(MetaPlan) + 1 .. Operations

(* The guardrail raises: the files before are written, those after are not. *)
BlockFile ==
  /\ AtFile
  /\ Modified(FileAt(next)) /\ FileAt(next) \in Critical
  /\ Ends
  /\ outcome' = "blocked"
  /\ UNCHANGED <<lane, spec, target, command, next, merged, missing, verdict, verified,
                 counts, history>>

(* Faulty: a file to be merged is left as it is. *)
WriteFileKeeping ==
  /\ AtFile
  /\ ~(Modified(FileAt(next)) /\ FileAt(next) \in Critical)
  /\ disk' = IF Modified(FileAt(next)) THEN disk
             ELSE [disk EXCEPT ![FileAt(next)] = Generated(FileAt(next), spec)]
  /\ merged' = (merged \/ Modified(FileAt(next)))
  /\ next' = next + 1
  /\ UNCHANGED <<lane, spec, meta, pc, command, missing, verdict, verified,
                 outcome, counts, history>>

(* Faulty: and nothing notes it. *)
WriteFileUnrecorded ==
  /\ AtFile
  /\ ~(Modified(FileAt(next)) /\ FileAt(next) \in Critical)
  /\ disk' = IF Modified(FileAt(next)) THEN disk
             ELSE [disk EXCEPT ![FileAt(next)] = Generated(FileAt(next), spec)]
  /\ next' = next + 1
  /\ UNCHANGED <<lane, spec, meta, pc, command, merged, missing, verdict, verified,
                 outcome, counts, history>>

(* Faulty: no guardrail. *)
WriteFileForcing ==
  /\ AtFile
  /\ disk' = [disk EXCEPT ![FileAt(next)] = Generated(FileAt(next), spec)]
  /\ merged' = (merged \/ Modified(FileAt(next)))
  /\ next' = next + 1
  /\ UNCHANGED <<lane, spec, meta, pc, command, missing, verdict, verified,
                 outcome, counts, history>>

(* "merge_required" is noted, and the file is overwritten all the same. *)
WriteFile ==
  /\ AtFile
  /\ ~(Modified(FileAt(next)) /\ FileAt(next) \in Critical)
  /\ disk' = [disk EXCEPT ![FileAt(next)] = Generated(FileAt(next), spec)]
  /\ merged' = (merged \/ Modified(FileAt(next)))
  /\ next' = next + 1
  /\ UNCHANGED <<lane, spec, meta, pc, command, missing, verdict, verified,
                 outcome, counts, history>>

(* The repeat build goes to an empty directory, where nothing is modified:
   its decisions file differs from this build's if anything here was, and
   with it the output hash. *)
RepeatDiverges ==
  /\ pc = "apply"
  /\ next = Operations + 1
  /\ merged
  /\ Ends
  /\ outcome' = "diverged"
  /\ UNCHANGED <<lane, spec, target, command, next, merged, missing, verdict, verified,
                 counts, history>>

(* The real signature replaces the stub; then the lane's rules decide. *)
RepeatMatches ==
  /\ pc = "apply"
  /\ next = Operations + 1
  /\ ~merged
  /\ meta' = [meta EXCEPT !.determinism = "verified"]
  /\ signed' = "yes"
  /\ verified' = TRUE
  /\ verdict' = IF lane => LanePasses(disk) THEN "certified" ELSE "not_certified"
  /\ pc' = "proof"
  /\ UNCHANGED <<lane, spec, disk, command, next, merged, missing, outcome, counts,
                 touched, ruled>>

-----------------------------------------------------------------------------
(* validate-app and proof-app                                              *)

LaneVerdict == meta.ir = "absent" \/ (meta.ir = "whole" /\ (lane => LanePasses(disk)))

(* The lane is judged on the files as they are before any repair. *)
StartValidate ==
  /\ pc = "idle"
  /\ commands < MaxCommands
  /\ commands' = commands + 1
  /\ command' \in {"validate", "prove"}
  /\ \E repair \in BOOLEAN :
       /\ missing' = IF repair THEN Missing ELSE {}
       /\ verdict' = IF LaneVerdict /\ (repair \/ Missing = {})
                       THEN IF Missing = {} THEN "certified" ELSE "certified_with_repairs"
                       ELSE "not_certified"
  /\ pc' = "repair"
  /\ outcome' = "none"
  /\ UNCHANGED <<lane, spec, target, next, merged, verified, edits, crashes, history>>

(* Faulty: every repair is taken to have worked. *)
RepairFileHopeful ==
  /\ pc = "repair"
  /\ \E f \in missing, writable \in BOOLEAN :
       /\ missing' = missing \ {f}
       /\ disk' = IF writable THEN [disk EXCEPT ![f] = "stub"] ELSE disk
  /\ UNCHANGED <<lane, spec, meta, pc, command, next, merged, verdict, verified, outcome,
                 counts, history>>

(* One missing file gets its stub, or cannot be written and stays a blocker;
   the order does not matter to what is said here. *)
RepairFile ==
  /\ pc = "repair"
  /\ \E f \in missing, writable \in BOOLEAN :
       /\ missing' = missing \ {f}
       /\ disk' = IF writable THEN [disk EXCEPT ![f] = "stub"] ELSE disk
       /\ verdict' = IF writable THEN verdict ELSE "not_certified"
  /\ UNCHANGED <<lane, spec, meta, pc, command, next, merged, verified, outcome, counts,
                 history>>

EndValidate ==
  /\ pc = "repair" /\ missing = {}
  /\ command = "validate"
  /\ Ends
  /\ UNCHANGED <<lane, spec, target, command, next, merged, missing, verdict, verified,
                 outcome, counts, history>>

(* Faulty: a signature that does not say so counts as verified. *)
ReadSignatureTrusting ==
  /\ pc = "repair" /\ missing = {}
  /\ command = "prove"
  /\ IF meta.determinism = "torn" THEN Ends /\ UNCHANGED verified
     ELSE pc' = "proof" /\ verified' = TRUE
  /\ UNCHANGED <<lane, spec, target, command, next, merged, missing, verdict, outcome,
                 counts, history>>

(* A missing signature counts as verified; a truncated one raises. *)
ReadSignature ==
  /\ pc = "repair" /\ missing = {}
  /\ command = "prove"
  /\ IF meta.determinism = "torn" THEN Ends /\ UNCHANGED verified
     ELSE pc' = "proof" /\ verified' = (meta.determinism \in {"absent", "verified"})
  /\ UNCHANGED <<lane, spec, target, command, next, merged, missing, verdict, outcome,
                 counts, history>>

-----------------------------------------------------------------------------
(* emit_generated_app_proof_artifacts: one report after another.           *)

EmitProof ==
  /\ pc = "proof"
  /\ meta' = [meta EXCEPT !.proof = verdict]
  /\ touched' = FALSE
  /\ ruled' = (meta.ir = "whole")
  /\ pc' = "signature"
  /\ UNCHANGED <<lane, spec, disk, command, next, merged, missing, verdict, verified,
                 outcome, counts, signed>>

EmitSignature ==
  /\ pc = "signature"
  /\ meta' = [meta EXCEPT !.determinism = IF verified THEN "verified" ELSE "unverified"]
  /\ pc' = "package"
  /\ UNCHANGED <<lane, spec, disk, command, next, merged, missing, verdict, verified,
                 outcome, counts, history>>

EmitPackage ==
  /\ pc = "package"
  /\ meta' = [meta EXCEPT !.package = IF verdict \in Certified THEN "ready" ELSE "blocked"]
  /\ pc' = IF command = "ship" THEN "ship" ELSE "idle"
  /\ outcome' = IF command = "build" THEN "ok" ELSE outcome
  /\ UNCHANGED <<lane, spec, disk, command, next, merged, missing, verdict, verified,
                 counts, history>>

(* Whatever the reports say, a shipped package is marked ready. *)
ShipPackage ==
  /\ pc = "ship"
  /\ meta' = [meta EXCEPT !.package = "ready"]
  /\ Ends
  /\ outcome' = "ok"
  /\ UNCHANGED <<lane, spec, disk, command, next, merged, missing, verdict, verified,
                 counts, history>>

-----------------------------------------------------------------------------

(* The report being written, or the file. *)
TornMeta ==
  CASE pc = "apply" /\ next \in DOMAIN MetaPlan -> {MetaPlan[next]}
    [] pc = "apply" /\ next = Operations + 1 /\ ~merged -> {"determinism"}
    [] pc = "proof" -> {"proof"}
    [] pc = "signature" -> {"determinism"}
    [] pc \in {"package", "ship"} -> {"package"}
    [] OTHER -> {}

TornFiles ==
  IF AtFile
    THEN {FileAt(next)} \ {f \in Critical : Modified(f)}
    ELSE IF pc = "repair" THEN missing ELSE {}

Crash ==
  /\ pc # "idle"
  /\ crashes < MaxCrashes
  /\ crashes' = crashes + 1
  /\ \/ UNCHANGED target
     \/ \E r \in TornMeta : meta' = [meta EXCEPT ![r] = "torn"] /\ UNCHANGED disk
     \/ \E f \in TornFiles : disk' = [disk EXCEPT ![f] = "broken"] /\ UNCHANGED meta
  /\ Ends
  /\ UNCHANGED <<lane, spec, command, next, merged, missing, verdict, verified, outcome,
                 commands, edits, history>>

OperatorEdits ==
  /\ pc = "idle"
  /\ edits < MaxEdits
  /\ edits' = edits + 1
  /\ \E f \in Paths, c \in {"edited", "broken", "absent"} :
       disk[f] # "absent" /\ disk' = [disk EXCEPT ![f] = c]
  /\ outcome' = "none"
  /\ touched' = TRUE
  /\ UNCHANGED <<lane, spec, meta, locals, commands, crashes, ruled, signed>>

OperatorChangesSpec ==
  /\ pc = "idle"
  /\ edits < MaxEdits
  /\ edits' = edits + 1
  /\ spec' \in Specs \ {spec}
  /\ outcome' = "none"
  /\ UNCHANGED <<lane, target, locals, commands, crashes, history>>

Init ==
  /\ lane \in LaneKinds
  /\ spec \in Specs
  /\ disk = [f \in Paths |-> "absent"]
  /\ meta = [determinism |-> "absent", ir |-> "absent", package |-> "absent",
             proof |-> "absent"]
  /\ pc = "idle" /\ command = "build" /\ next = 1 /\ merged = FALSE
  /\ missing = {} /\ verdict = "not_certified" /\ verified = FALSE
  /\ outcome = "none"
  /\ commands = 0 /\ edits = 0 /\ crashes = 0
  /\ touched = FALSE /\ ruled = FALSE /\ signed = "never"

Build ==
  \/ StartBuild \/ WriteMeta \/ WriteFile \/ BlockFile
  \/ RepeatMatches \/ RepeatDiverges

Prove == StartValidate \/ RepairFile \/ EndValidate \/ ReadSignature

Emit == EmitProof \/ EmitSignature \/ EmitPackage \/ ShipPackage

Next == Build \/ Prove \/ Emit \/ Crash \/ OperatorEdits \/ OperatorChangesSpec

Spec == Init /\ [][Next]_vars

-----------------------------------------------------------------------------
(* Every variable keeps the type of what the code puts there; a file of the
   plan is at hand whenever one is to be written. *)
TypeOK ==
  /\ lane \in BOOLEAN /\ spec \in Specs
  /\ disk \in [Paths -> Content]
  /\ meta \in Meta
  /\ pc \in {"idle", "apply", "repair", "proof", "signature", "package", "ship"}
  /\ command \in Command
  /\ next \in 1 .. Operations + 1
  /\ merged \in BOOLEAN /\ verified \in BOOLEAN
  /\ missing \subseteq Required
  /\ verdict \in Verdict
  /\ outcome \in {"none", "ok", "blocked", "diverged"}
  /\ commands \in 0 .. MaxCommands
  /\ edits \in 0 .. MaxEdits
  /\ crashes \in 0 .. MaxCrashes
  /\ touched \in BOOLEAN /\ ruled \in BOOLEAN
  /\ signed \in {"never", "no", "yes"}

(* No command changes a production-critical file that is there: rebuilt,
   repaired, killed half way or shipped, it is what the operator left
   (_apply_operation's guardrail). *)
CriticalKept ==
  [][\A f \in Critical :
       (pc # "idle" /\ disk[f] \notin {"absent", Generated(f, spec)})
         => disk'[f] = disk[f]]_vars

(* The required files that a certificate vouches for: a build is certified
   without a look at those its plan does not have. *)
Vouched(proof) == IF proof = "certified" THEN Required \cap Files ELSE Required

(* A directory whose report says certified, and which nobody touched since,
   has every file vouched for, and passes the rules of its lane whenever the
   proof could consult them, whatever was repaired, rebuilt or killed after
   that proof (run_build_workflow, run_generated_app_proof_workflow). *)
CertificateHonest ==
  (meta.proof \in Certified /\ ~touched)
    => /\ \A f \in Vouched(meta.proof) : disk[f] # "absent"
       /\ (lane /\ ruled) => LanePasses(disk)

(* "verified" stands in the signature only if the last build that began to
   write here went on to match its repeat, or none ever did
   (run_build_workflow, and proof-app, which writes back what it read). *)
VerifiedByBuild == meta.determinism = "verified" => signed # "no"

(* Once a command has written its last report, the package is ready exactly
   if the proof is certified; `ship`, which marks it ready unasked, does so
   only after a certified build (run_ship_workflow, emit). *)
ReadyIsCertified ==
  [][(pc \in {"package", "ship"} /\ crashes' = crashes)
       => (meta'.package = "ready" <=> meta'.proof \in Certified)]_vars

(* A build refused because its repeat diverged has nevertheless generated the
   whole application, so the same build over again goes through
   (run_build_workflow raises after apply_build_plan). *)
DivergedIsBuilt ==
  outcome = "diverged" => \A f \in Files : disk[f] = Generated(f, spec)

(* No build changes a file under a certificate: by the time it writes its
   first file, the old proof report is gone (the plan's order, .autobuilder
   before the rest). *)
CertificateNotOutlived ==
  [][(pc = "apply" /\ disk' # disk) => meta.proof \notin Certified]_vars

(* platform_hardening/lifecycle.py:27 of a file the operator modified: "merge
   is required before overwrite".  Nothing merges: the build overwrites it. *)
MergedBeforeOverwrite ==
  [][\A f \in Files :
       (pc = "apply" /\ disk[f] = "edited") => disk'[f] = "edited"]_vars
=============================================================================
