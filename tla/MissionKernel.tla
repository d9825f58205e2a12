--------------------------- MODULE MissionKernel ---------------------------
(***************************************************************************)
(* One mission run as several command-line processes see it: `mission`,    *)
(* `mission --resume [--approve]` (cli/mission.py) and `resume`            *)
(* (cli/resume.py), all working on                                         *)
(*    runs/<run_id>.json          the run record,                          *)
(*    runs/<run_id>.mission.json  the mission result shown to operators,   *)
(*    memory/<run_id>.json        the durable memory,                      *)
(* with no lock, each file rewritten in place (open "w", then dump), and a *)
(* process that may die between any two of its steps.                      *)
(*                                                                         *)
(* The loop inside a command is RunLoop; here it is the big step RunLoop's *)
(* FollowsOutcome checks: execution ends with every task complete.         *)
(***************************************************************************)
EXTENDS Naturals, ApprovalStates

CONSTANTS
  Procs,         \* operating-system processes that run commands
  Goals,         \* goals, as the two policy verdicts on them (GoalSpace)
  MaxCommands,   \* bound: commands issued
  MaxCrashes,    \* bound: processes killed
  Overlap        \* may commands run at the same time?

Risk == {"safe", "caution", "dangerous"}

(* gated: ActionPolicy on the planned tasks; risk, checkpoint: the
   MutationSafetyPolicy on the goal, used by the mission layer. *)
GoalSpace == [gated : BOOLEAN, risk : Risk, checkpoint : BOOLEAN]

ASSUME MissionAssumption ==
  /\ Goals \subseteq GoalSpace
  /\ \A g \in Goals : g.risk = "dangerous" => g.checkpoint
  /\ MaxCommands \in Nat
  /\ MaxCrashes \in Nat
  /\ Overlap \in BOOLEAN

VARIABLES
  goal,        \* the mission's goal
  created,     \* has the mission command been issued?
  bytes,       \* bytes[f]: what the file f holds as a file
  record,      \* the last run record written whole, or NoRecord
  result,      \* the last mission result written whole, or NoResult
  pc,          \* pc[p]: the step the command of process p is at
  opened,      \* opened[p]: has p truncated the file it is writing?
  cmd,         \* cmd[p]: the command p runs
  first,       \* first[p]: the record resume_mission loaded at its start
  held,        \* held[p]: the record p has in memory
  commands,    \* number of commands issued
  crashes,     \* number of processes killed
  granted,     \* history: has an operator approved this run?
  executions   \* history: how often the tasks have been executed

files == <<bytes, record, result>>
procs == <<pc, opened, cmd, first, held>>
counts == <<commands, crashes>>
vars == <<goal, created, files, procs, counts, granted, executions>>

-----------------------------------------------------------------------------

File == {"record", "memory", "result"}
Bytes == {"absent", "empty", "partial", "whole"}
Command == {"mission", "resume_mission", "resume"}

(* The writes of the commands, in the order they may come. *)
WriteStage == {"approve", "memory", "save", "overlay", "result"}
Pc == {"idle", "load"} \cup WriteStage

FileOf == [approve |-> "record", memory |-> "memory", save |-> "record",
           overlay |-> "record", result |-> "result"]

RunRecord ==
  [status : {"awaiting_approval", "complete"},
   awaiting : BOOLEAN,                              \* awaiting_approval
   approval : ValidApprovalStates \cup {"none"},    \* approval_request.status
   executed : BOOLEAN,                              \* tasks complete, validated
   changes : BOOLEAN,                               \* change_sets not empty
   risk : Risk \cup {"unset"},                      \* mutation_risk
   restore : BOOLEAN,                               \* restore_available
   plan : {"unset", "paused_approval", "complete"}] \* mission_plan.state

NoRecord == [status |-> "none"]

MissionResult == [status : {"awaiting_approval", "complete"}, awaiting : BOOLEAN,
                  approvalRequired : BOOLEAN, risk : Risk]
NoResult == [status |-> "none"]

Readable(f) == bytes[f] = "whole"
Idle == \A p \in Procs : pc[p] = "idle"

(* perform_run's record: paused before execution, or executed to the end. *)
FreshRecord ==
  [status |-> IF goal.gated THEN "awaiting_approval" ELSE "complete",
   awaiting |-> goal.gated,
   approval |-> IF goal.gated THEN "pending" ELSE "none",
   executed |-> ~goal.gated,
   changes |-> FALSE, risk |-> "unset", restore |-> FALSE, plan |-> "unset"]

(* Faulty: the status is left as it was when the run was paused. *)
ContinueWithoutStatus(r) == [r EXCEPT !.awaiting = FALSE, !.executed = TRUE]

(* continue_execution from the "execute" stage of an approved record. *)
ContinueExecution(r) ==
  [r EXCEPT !.awaiting = FALSE, !.executed = TRUE, !.status = "complete"]

(* run_mission on the record perform_run returned. *)
MissionOverlay(r) ==
  [r EXCEPT !.changes = TRUE, !.risk = goal.risk, !.restore = goal.checkpoint,
            !.plan = IF r.status = "complete" THEN "complete" ELSE "paused_approval"]

(* Faulty: a missing risk is passed on as it is. *)
ResumeOverlayPassesUnset(r, loaded) ==
  [r EXCEPT !.changes = loaded.changes, !.risk = loaded.risk,
            !.restore = loaded.changes /\ goal.checkpoint]

(* Faulty: the restore payload is not rebuilt. *)
ResumeOverlayDropsRestore(r, loaded) ==
  [r EXCEPT !.changes = loaded.changes,
            !.risk = IF loaded.risk = "unset" THEN "safe" ELSE loaded.risk,
            !.restore = FALSE]

(* resume_mission on the record resume_saved_run returned: change sets and risk
   come from the record loaded first, and what is missing counts as safe. *)
ResumeOverlay(r, loaded) ==
  [r EXCEPT !.changes = loaded.changes,
            !.risk = IF loaded.risk = "unset" THEN "safe" ELSE loaded.risk,
            !.restore = loaded.changes /\ goal.checkpoint]

(* build_mission_result. *)
ResultOf(r) ==
  [status |-> r.status, awaiting |-> r.awaiting,
   approvalRequired |-> goal.gated \/ r.risk = "dangerous", risk |-> r.risk]

-----------------------------------------------------------------------------

Init ==
  /\ goal \in Goals
  /\ created = FALSE
  /\ bytes = [f \in File |-> "absent"]
  /\ record = NoRecord
  /\ result = NoResult
  /\ pc = [p \in Procs |-> "idle"]
  /\ opened = [p \in Procs |-> FALSE]
  /\ cmd = [p \in Procs |-> "mission"]
  /\ first = [p \in Procs |-> NoRecord]
  /\ held = [p \in Procs |-> NoRecord]
  /\ commands = 0
  /\ crashes = 0
  /\ granted = FALSE
  /\ executions = 0

(***************************************************************************)
(* Commands start.  One that finds the record unreadable or, asked to      *)
(* approve, finds it denied, raises before it has changed anything.        *)
(***************************************************************************)
Issue(p, c) ==
  /\ pc[p] = "idle"
  /\ Overlap \/ Idle
  /\ commands < MaxCommands
  /\ commands' = commands + 1
  /\ cmd' = [cmd EXCEPT ![p] = c]

(* run_mission up to the first file perform_run writes at its end; a run that
   is not gated has executed its tasks by then. *)
RunMission(p) ==
  /\ ~created
  /\ Issue(p, "mission")
  /\ created' = TRUE
  /\ held' = [held EXCEPT ![p] = FreshRecord]
  /\ pc' = [pc EXCEPT ![p] = IF goal.gated THEN "save" ELSE "memory"]
  /\ executions' = IF goal.gated THEN executions ELSE executions + 1
  /\ UNCHANGED <<goal, files, opened, first, crashes, granted>>

(* resume_mission: the first load and, with --approve, the approval. *)
ResumeMission(p) ==
  /\ Readable("record")
  /\ Issue(p, "resume_mission")
  /\ first' = [first EXCEPT ![p] = record]
  /\ pc' = [pc EXCEPT ![p] = "load"]
  /\ UNCHANGED <<goal, created, files, opened, held, crashes, granted, executions>>

ApproveMission(p) ==
  /\ Readable("record")
  /\ record.awaiting
  /\ record.approval # "none"
  /\ TransitionAllowed(record.approval, "approved")
  /\ Issue(p, "resume_mission")
  /\ first' = [first EXCEPT ![p] = [record EXCEPT !.approval = "approved"]]
  /\ granted' = TRUE
  /\ pc' = [pc EXCEPT ![p] = "approve"]
  /\ UNCHANGED <<goal, created, files, opened, held, crashes, executions>>

(* cli/resume.py main. *)
Resume(p) ==
  /\ Readable("record")
  /\ Issue(p, "resume")
  /\ pc' = [pc EXCEPT ![p] = "load"]
  /\ UNCHANGED <<goal, created, files, opened, first, held, crashes, granted, executions>>

(***************************************************************************)
(* resume_saved_run.                                                       *)
(***************************************************************************)

(* Back to the caller: resume_mission lays its fields over the record, the
   plain command ends. *)
ReturnToCaller(p, r) ==
  IF cmd[p] = "resume_mission"
  THEN /\ pc' = [pc EXCEPT ![p] = "overlay"]
       /\ held' = [held EXCEPT ![p] = ResumeOverlay(r, first[p])]
  ELSE /\ pc' = [pc EXCEPT ![p] = "idle"]
       /\ held' = [held EXCEPT ![p] = r]

(* Faulty: a run with no stage left to resume has no way out. *)
HandBackUnapproved(p) ==
  /\ pc[p] = "load"
  /\ Readable("record")
  /\ record.awaiting /\ record.approval # "approved"
  /\ ReturnToCaller(p, record)
  /\ UNCHANGED <<goal, created, files, opened, cmd, first, counts, granted, executions>>

(* Not approved (pending, escalated or denied), or no stage left to resume:
   the record is handed back as loaded, but for the awaiting flag. *)
HandBack(p) ==
  /\ pc[p] = "load"
  /\ Readable("record")
  /\ IF record.awaiting /\ record.approval # "approved"
     THEN ReturnToCaller(p, record)
     ELSE /\ record.executed
          /\ ReturnToCaller(p, [record EXCEPT !.awaiting = FALSE])
  /\ UNCHANGED <<goal, created, files, opened, cmd, first, counts, granted, executions>>

(* Faulty: only a pending request keeps a run from being executed. *)
ExecuteUnlessPending(p) ==
  /\ pc[p] = "load"
  /\ Readable("record")
  /\ record.awaiting => record.approval # "pending"
  /\ ~record.executed
  /\ held' = [held EXCEPT ![p] = ContinueExecution(record)]
  /\ executions' = executions + 1
  /\ pc' = [pc EXCEPT ![p] = "memory"]
  /\ UNCHANGED <<goal, created, files, opened, cmd, first, counts, granted>>

(* Faulty: the stage is not inferred, a resumed run is always executed. *)
ExecuteAlways(p) ==
  /\ pc[p] = "load"
  /\ Readable("record")
  /\ record.awaiting => record.approval = "approved"
  /\ held' = [held EXCEPT ![p] = ContinueExecution(record)]
  /\ executions' = executions + 1
  /\ pc' = [pc EXCEPT ![p] = "memory"]
  /\ UNCHANGED <<goal, created, files, opened, cmd, first, counts, granted>>

(* The approved run is executed in the memory of this process. *)
Execute(p) ==
  /\ pc[p] = "load"
  /\ Readable("record")
  /\ record.awaiting => record.approval = "approved"
  /\ ~record.executed
  /\ held' = [held EXCEPT ![p] = ContinueExecution(record)]
  /\ executions' = executions + 1
  /\ pc' = [pc EXCEPT ![p] = "memory"]
  /\ UNCHANGED <<goal, created, files, opened, cmd, first, counts, granted>>

(* The second load meets a file another process is rewriting, or has left
   half-written: json.load raises. *)
LoadFails(p) ==
  /\ pc[p] = "load"
  /\ ~Readable("record")
  /\ pc' = [pc EXCEPT ![p] = "idle"]
  /\ UNCHANGED <<goal, created, files, opened, cmd, first, held, counts, granted, executions>>

(***************************************************************************)
(* Writing a file: open(path, "w") truncates it, then the text is dumped.  *)
(***************************************************************************)
Open(p) ==
  /\ pc[p] \in WriteStage
  /\ ~opened[p]
  /\ opened' = [opened EXCEPT ![p] = TRUE]
  /\ bytes' = [bytes EXCEPT ![FileOf[pc[p]]] = "empty"]
  /\ UNCHANGED <<goal, created, record, result, pc, cmd, first, held, counts,
                 granted, executions>>

(* The dump lands whole in a file that is still empty; over text another writer
   left there in the meantime, a tail of that text may survive. *)
DumpOutcome(f) == IF bytes[f] = "empty" THEN {"whole"} ELSE {"whole", "partial"}

Content(p) == IF pc[p] = "approve" THEN first[p] ELSE held[p]

(* Faulty: the mission result is written ahead of the record. *)
AfterWriteResultFirst(p) ==
  CASE pc[p] = "approve" -> pc' = [pc EXCEPT ![p] = "load"] /\ UNCHANGED held
    [] pc[p] = "memory" -> pc' = [pc EXCEPT ![p] = "result"] /\ UNCHANGED held
    [] pc[p] = "result" -> pc' = [pc EXCEPT ![p] = "save"] /\ UNCHANGED held
    [] pc[p] = "save" /\ cmd[p] = "mission" ->
         /\ pc' = [pc EXCEPT ![p] = "overlay"]
         /\ held' = [held EXCEPT ![p] = MissionOverlay(held[p])]
    [] pc[p] = "save" /\ cmd[p] # "mission" -> ReturnToCaller(p, held[p])
    [] pc[p] = "overlay" -> pc' = [pc EXCEPT ![p] = "idle"] /\ UNCHANGED held

(* What the command does once its file is closed. *)
AfterWrite(p) ==
  CASE pc[p] = "approve" -> pc' = [pc EXCEPT ![p] = "load"] /\ UNCHANGED held
    [] pc[p] = "memory" -> pc' = [pc EXCEPT ![p] = "save"] /\ UNCHANGED held
    [] pc[p] = "save" /\ cmd[p] = "mission" ->
         /\ pc' = [pc EXCEPT ![p] = "overlay"]
         /\ held' = [held EXCEPT ![p] = MissionOverlay(held[p])]
    [] pc[p] = "save" /\ cmd[p] # "mission" -> ReturnToCaller(p, held[p])
    [] pc[p] = "overlay" -> pc' = [pc EXCEPT ![p] = "result"] /\ UNCHANGED held
    [] pc[p] = "result" -> pc' = [pc EXCEPT ![p] = "idle"] /\ UNCHANGED held

Dump(p) ==
  /\ opened[p]
  /\ opened' = [opened EXCEPT ![p] = FALSE]
  /\ LET f == FileOf[pc[p]] IN
     \E outcome \in DumpOutcome(f) :
       /\ bytes' = [bytes EXCEPT ![f] = outcome]
       /\ record' = IF f = "record" /\ outcome = "whole" THEN Content(p) ELSE record
       /\ result' = IF f = "result" /\ outcome = "whole" THEN ResultOf(held[p]) ELSE result
  /\ AfterWrite(p)
  /\ UNCHANGED <<goal, created, cmd, first, counts, granted, executions>>

(* The process dies; of a file it was writing, a part may have reached disk. *)
Crash(p) ==
  /\ pc[p] # "idle"
  /\ crashes < MaxCrashes
  /\ crashes' = crashes + 1
  /\ pc' = [pc EXCEPT ![p] = "idle"]
  /\ opened' = [opened EXCEPT ![p] = FALSE]
  /\ IF opened[p]
     THEN LET f == FileOf[pc[p]] IN
          \E left \in {bytes[f], "partial"} : bytes' = [bytes EXCEPT ![f] = left]
     ELSE UNCHANGED bytes
  /\ UNCHANGED <<goal, created, record, result, cmd, first, held, commands, granted,
                 executions>>

(* External: an operator decides by editing the record, as the resume hint
   says, and respects a decision already taken. *)
OperatorDecides(decision) ==
  /\ Overlap \/ Idle
  /\ Readable("record")
  /\ record.awaiting
  /\ decision # record.approval
  /\ TransitionAllowed(record.approval, decision)
  /\ record' = [record EXCEPT !.approval = decision]
  /\ granted' = (granted \/ decision = "approved")
  /\ UNCHANGED <<goal, created, bytes, result, procs, counts, executions>>

Work(p) == HandBack(p) \/ Execute(p) \/ LoadFails(p) \/ Open(p) \/ Dump(p)

Next ==
  \/ \E p \in Procs :
       \/ RunMission(p) \/ ResumeMission(p) \/ ApproveMission(p) \/ Resume(p)
       \/ Work(p)
       \/ Crash(p)
  \/ \E decision \in {"approved", "denied", "escalated"} : OperatorDecides(decision)

(* A process that was started is scheduled; nobody has to start one. *)
Fairness == \A p \in Procs : WF_vars(Work(p))

Spec == Init /\ [][Next]_vars
FairSpec == Spec /\ Fairness

-----------------------------------------------------------------------------

TypeOK ==
  /\ goal \in Goals
  /\ created \in BOOLEAN
  /\ bytes \in [File -> Bytes]
  /\ record \in RunRecord \cup {NoRecord}
  /\ result \in MissionResult \cup {NoResult}
  /\ pc \in [Procs -> Pc]
  /\ opened \in [Procs -> BOOLEAN]
  /\ cmd \in [Procs -> Command]
  /\ first \in [Procs -> RunRecord \cup {NoRecord}]
  /\ held \in [Procs -> RunRecord \cup {NoRecord}]
  /\ commands \in 0..MaxCommands
  /\ crashes \in 0..MaxCrashes
  /\ granted \in BOOLEAN
  /\ executions \in Nat

(* No task of a gated run is executed before an operator approved the run,
   whatever processes overlap and die ("execution does not continue until the
   approval state is changed", docs/NEXUS_EXECUTION.md:45). *)
GateHolds == goal.gated /\ executions > 0 => granted

(* A record that says denied belongs to a run that has not been executed, and
   no process is carrying one out ("resume exits with no continuation",
   docs/NEXUS_EXECUTION.md:58). *)
DeniedNeverRuns ==
  record # NoRecord /\ record.approval = "denied" =>
    executions = 0 /\ \A p \in Procs : pc[p] # "memory"

(* Killing a process costs at most one repetition of the work: executions are
   never repeated but for a crash between execution and save. *)
WorkRepeatedOnlyByCrash == executions <= 1 + crashes

(* A record that says the work is done is right, and once it is written whole
   nobody does the work again. *)
DoneMeansDone ==
  [][record # NoRecord /\ record.executed => executions > 0 /\ executions' = executions]_vars

(* Of the four files of a run none runs ahead of what it tells of: a mission
   result that says complete is preceded by a record that does, and such a
   record by the run's summary in durable memory. *)
WritesInOrder ==
  /\ result # NoResult /\ result.status = "complete" =>
       record # NoRecord /\ record.status = "complete"
  /\ record # NoRecord /\ record.status = "complete" => Readable("memory")

(* A recorded decision is not changed by anybody: a terminal approval state has
   no transition out of it (control_plane/approvals.py:63-64). *)
DecisionIsFinal ==
  [][record # NoRecord /\ record.approval \in TerminalApprovalStates
       => record'.approval = record.approval]_vars

(* The record has what the mission layer laid over it: change sets, the goal's
   risk, and restore data if the goal calls for a checkpoint. *)
RestoreReady ==
  /\ record # NoRecord
  /\ record.changes
  /\ record.risk = goal.risk
  /\ record.restore = goal.checkpoint

(* A dangerous goal is carried out only with restore data on record ("Rollback
   metadata is written before any destructive operation", README.md:209). *)
RestoreFirst ==
  goal.risk = "dangerous" /\ executions > 0 => record # NoRecord /\ record.restore

(* Nothing takes restore data or risk off the record again, whoever resumes,
   approves, denies or is killed in whatever order; and unless a process was
   killed they are there after every command, and before a gated goal is
   carried out. *)
RestoreKept ==
  /\ [][RestoreReady => RestoreReady']_vars
  /\ [](crashes = 0 =>
          /\ created /\ Idle => RestoreReady
          /\ goal.gated => RestoreFirst)

(* A dangerous mutation is executed only after an operator approved it
   ("pause_on_dangerous_mutations", state/audit.py:9, and README.md:208). *)
DangerousWaits == goal.risk = "dangerous" /\ executions > 0 => granted

(* Every command ends. *)
CommandsEnd == \A p \in Procs : pc[p] # "idle" ~> pc[p] = "idle"

(* An approval given on the command line leads to a completed run, unless a
   process is killed. *)
ApprovedRunCompletes ==
  (\E p \in Procs : pc[p] = "approve") ~>
    \/ record # NoRecord /\ record.status = "complete"
    \/ crashes > 0

-----------------------------------------------------------------------------

(* What an operator can rely on: the record, file by file and step by step,
   behaves like RunPromise. *)
Promise == INSTANCE RunPromise WITH
  gated <- goal.gated,
  phase <- IF record = NoRecord THEN "none"
           ELSE IF record.status = "complete" THEN "complete" ELSE "paused",
  permitted <- granted

KeepsPromise == Promise!Spec

=============================================================================
