# AutobuilderV2: TLA+ models, model checks and proofs

AutobuilderV2 turns a goal or a specification into a run: it plans tasks, executes, validates and repairs them,
pauses for an operator when the goal is risky, and records everything in JSON files that later commands pick up.
This directory holds TLA+ modules translated from that code, TLC configurations that check them, and TLAPS proofs
about them. Paths below are relative to the repository root (`src/` here).

## 1. The system

There are no threads. Concurrency is several command-line processes working on the same JSON files without a lock;
each file is rewritten in place (`open(path, "w")`, then dump), so another process can read it empty and a killed
process can leave it torn.

| Component | State it keeps | Operations | What is hard, and what makes it correct |
|---|---|---|---|
| Run loop (`cli/run.py`, `cli/resume.py`, `orchestrator/`, `execution/executor.py`, `debugger/repair.py`, `validator/validator.py`, `state/resume_runner.py`) | state-machine state, task list, validation result, repair count, next stage | plan, execute, validate, repair, save; infer a stage and continue | two loops with different bodies share one machine and one repair budget across processes; verdicts must be right and every loop must end |
| Mission kernel (`cli/mission.py`, `state/json_store.py`, `memory/json_memory.py`) | `runs/<id>.json`, `runs/<id>.mission.json`, `memory/<id>.json` | mission, mission --resume [--approve], resume | overlapping commands, crashes between and inside four writes; nothing risky runs unapproved, decisions and completion stand |
| Approval requests (`control_plane/approvals.py`) | status, approver, audit trail, resolution time | require, transition | any sequence of requests; the trail explains the state, a decision is final |
| Mutation policy (`mutation/safety.py`, `policies/action_policy.py`) | none | classify an action on a target | a decision table whose cases overlap |
| Capability governance (`universal_capability/`) | registry file (two views of it), quarantine file, failure log | self-extend (register or quarantine), roll back | a stale copy overwrites the other view; three writes of one fact; trust must be earned whatever is lost |
| Trust registry (`self_extend/`) | one file, cached per process | register, promote, quarantine, roll back | a stale cache written back |
| App build (`generator/`, `platform_hardening/lifecycle.py`, `validator/generated_app*.py`, `cli/autobuilder.py`) | the target directory, its `.autobuilder/` reports | build, ship, validate-app, proof-app, the last two with repair | the guardrail stops half-way; a refused build has already written; reports must not outlive or contradict the files |
| Enforced mutation (`mutation/enforced_mutation.py`, `control_plane/approval_engine.py`, `policies/engine.py`) | decision log | evaluate and execute one mutation | a chain of gates that each read the same context differently |
| Chat builder (`chat_builder/`) | one conversation file per session and project | preview, approve, build, ship from a prompt | a prompt becomes a specification through five tables in as many files; the conversation is carried over by modification time, and two commands rewrite it whole |
| Spec compiler (`specs/`, `ir/`, `archetypes/`, `stack_registry/`, `platform_hardening/capability_maturity.py`) | none | load, compile, accept | acceptance is spread over loader, catalog, registry, tiers and contracts |
| Template packs and platform plugins (`generator/template_packs.py`, `platform_plugins/`) | none | list the files of a lane, resolve the plugins of a type and a stack | the same lanes are written down twice, with different files |
| Generated-app validator and repair (`validator/generated_app*.py`, `platform_hardening/repair_runtime.py`) | the application's directory, a report | validate, repair up to a limit | the repair works through a report that may name a file twice, or a directory, or name what it cannot restore |
| Agent runtime (`universal_capability/agent_runtime.py`) | audit log of a plan | execute a plan under approvals | the gate halts everything after the first refusal |
| Commerce (`commerce/`) | entitlement store | grant, revoke, override, plan change, webhooks | load-modify-save of one file |
| Planner, failure classification, scores (`planner/`, `debugger/`, `quality/`, `validator/confidence.py`) | none | text rules, weighted sums | what the planner writes into a task's title is what the policy judges |
| Readiness (`readiness/`, `validators/`) | reports | gates | conjunctions of checks |
| Backup rollback (`ops/rollback.py`) | two directories | remove, copy | a crash between |

How they interact: `mission` calls `perform_run` in its own process, then lays its own fields over the record it
returned and saves it again; `mission --resume` loads the record, may approve it and save it, then calls
`resume_saved_run`, which loads it a second time. The approval request lives inside the record, where commands and
operators (with an editor, as the resume hint says) change its status. `self-extend` and rollback read the capability
registry once as a list of `capabilities` and once through `CapabilityRegistry`, each saving the whole file. `build`
writes the target directory and its reports, which `validate-app`, `proof-app` and the next `build` read; the operator
edits the same files between commands. `chat-build` writes a specification directory and calls the same build as
`build` and `ship`. The mutation policy is asked twice about one goal: by the run loop on the
planned task titles, and by the mission layer on an action inferred from the goal.

## 2. Modules

| Module | Models | Checked by | Proofs |
|---|---|---|---|
| `RunLoop` | the two loops and the record they leave, one process at a time | `MCRunLoop`, runs `RunLoop*` | `RunLoop_proofs` |
| `MissionKernel` | the commands as processes over the three files | `MCMissionKernel`, runs `Mission*` | `MissionKernel_proofs`, `MissionAlone_proofs` |
| `RunPromise` | what an operator is promised about one run (abstract) | `MissionKernel!KeepsPromise` | `MissionAlone_proofs` |
| `ApprovalStates` | approval states and allowed transitions | used by the next and by `MissionKernel` | |
| `Approvals` | one approval request and its audit trail | through `Services` | `Services_proofs` |
| `MutationSafety` | the policy's decision table, and what its two callers make of a goal | assumption of `MCMissionKernel` | |
| `CapabilityGovernance` | self-extend and rollback as processes over the registry, the quarantine file and the failure log | `MCCapabilityGovernance`, run `Governance` | `CapabilityGovernance_proofs` |
| `AppBuild` | build, ship, validate-app and proof-app on one directory | `MCAppBuild`, runs `AppBuild*` | `AppBuild_proofs` |
| `SpecGates` | which specification directories are loaded, compiled and accepted (operators) | through `ChatBuild` | |
| `PlatformPlugins` | which plugins a type and a stack resolve to (operators) | through `ChatBuild` | |
| `ChatCompiler` | from a prompt to questions, a preview and a specification (operators) | through `ChatBuild` | |
| `ChatBuild` | chat-build, build and ship as processes over conversations, targets and a specification directory | `MCChatBuild`, run `ChatBuild` | `ChatBuild_proofs` |
| `LaneTables` | the files that packs, plugins and validators name, lane by lane (operators) | through `LaneRepair` | |
| `LaneRepair` | validation and bounded repair of one application | through `Services` | `LaneRepair_proofs` |
| `WholeFileStores` | trust registry, entitlements and backup rollback | through `Services` | `Services_proofs` |
| `AgentRuntime` | execution of an agent's plan under approvals | through `Services` | `Services_proofs` |
| `EnforcedMutation` | `execute_mutation` and its decision log | through `Services` | `Services_proofs` |
| `Services` | `Approvals`, `LaneRepair`, `WholeFileStores`, `AgentRuntime` and `EnforcedMutation` side by side | `MCServices`, run `Services` | `Services_proofs` |

**RunLoop.** `driver` says which loop runs, `sm` is `RunStateMachine.state`, `stage` is `next_stage` of
`continue_execution`, `tasks`, `validation` and `repairs` are the process's variables, `saved` is the record. Each
branch of the loops is an action; `perform_run`'s plan-and-execute prefix is one action (`StartRun`), because nothing
else can happen in it: it has no exit and writes no shared file. A task is one of three statuses, since every test in
the loops is "complete or not" except the executor's "blocked". `repaired` is a history variable counting calls of
`repair_tasks` over the life of the run. `OperatorMarksTask` is external: the record is a text file, the executor
handles a task "marked blocked before execution", and nothing in the code itself writes that status.
`RunOutcome` and `ResumeOutcome` say in one step what each loop amounts to; `FollowsOutcome` checks them, and
`MissionKernel` uses that result where it treats an execution as one step that ends complete.

**MissionKernel.** A process is at a program counter `pc[p]`: idle, about to load, or about to write one of the files
(`approve`, `memory`, `save`, `overlay`, `result`, in the order the code writes). A write is two steps, `Open`
(truncate) and `Dump`; a dump into a file another process has filled in between may leave a mixture, so its outcome is
whole or partial. `Crash` kills a process anywhere, and in the middle of a write leaves any prefix. `record` and
`result` hold the last content written whole, and `bytes` says whether the file still is that content; a command that
meets an unreadable file raises (`LoadFails`, or the guard of the command's first load). The file `memory` counts as
whole once it holds the run's summary (before that it is an empty object). Goals are reduced to the two policy
verdicts on them, and `MutationSafety` says which verdicts there are: a text is the set of the policy's keywords that
occur in it; the run layer takes the goal for the action and the planner's task titles for its target (which copy the
goal's first characters and always contain "Validate"), the mission layer infers an action and takes the whole goal for
the target. `ShortGoalsAssumption` has TLC
compute the verdicts of every goal of up to two keywords and compare them with the list of the runs. A record keeps what a decision depends on: status, awaiting flag, approval status, whether the tasks
are done, and the four fields the mission layer adds. `granted` and `executions` are history variables.

**Approvals.** `status`, `approver` and `history` are the fields of `ApprovalRequest`; `resolved` stands for
`resolved_at` as the index of the trail entry whose time it is.

**CapabilityGovernance.** `registry` is the file, a record of the list `capabilities` and its `history` (what
`_load_registry` reads) and of the sections of `CapabilityRegistry` (how many entries of each candidate
`trusted_internal` and `quarantined` hold). A registration is the steps the code takes: load the file (`ReadSnapshot`,
kept in `snap`), load it again through the other view (`ReadView`), for a rejected candidate read the quarantine file
(`ReadQuarantine`), add the capability to the view and save it (`AddCapability`), save the first copy over it
(`Register`), or write the quarantine file, the registry and the failure log (`Enlist`, `SaveRejected`, `LogFailure`).
Rollback is `Rollback`, `RollbackReadsView`, `DemoteEntry`, `RollbackLoads`, `RollbackSaves`. A candidate is reduced
to its tool, the number of checks it passed, and whether it was approved; a kill may leave the file being written
torn, and whoever loads a torn file raises. The view's change is always lost to the save that follows it, unless the
process is killed in between: a plain fact of this code that the model keeps. `promote`, `retire` and
`record_learning` have no caller. Gap detection looks at the packs and never at the registry, so any tool may be
registered again at any time.

**AppBuild.** `disk` is the generated application, a content class for each file: what a version of the specification
generates, the stub of a repair, the operator's edit with or without the markers that the lane's rules look for. `meta`
is the four reports that a decision or a claim depends on (`determinism_signature.json`, `ir.json`,
`package_artifact_summary.json`, `proof_report.json`). A build writes one operation of its plan per step, the reports'
stubs first as the plan's order has it, then compares itself with a repeat in an empty directory: the repeat differs
exactly if some file here was modified, because the decisions file says so (`RepeatDiverges`). `validate-app` and
`proof-app` judge the lane on the files as they are, then repair what is missing, then write the reports one by one. A
kill leaves any prefix, the file being written perhaps torn. `touched`, `ruled` and `signed` are history variables. The
app's type, and with it whether there are lane rules, stays the same throughout; both cases are initial states.

**SpecGates, PlatformPlugins, ChatCompiler.** The tables of seven files, and the functions over them, as operators. A
specification document is reduced to what the gates tell apart: which of its files are there and parse, the class of
each required value, the application type, the stack and the domains. A prompt is the set of the tables' tokens that
occur in its text - `in` on strings, so "kiosk" fires "ios" and "community" fires "unity" - and what it says of a name.

**ChatBuild.** A case (`world`) fixes which prompts and documents are at hand, how many commands and kills there may
be and whether commands overlap. `memory[t][q]` is the conversation of the session that asks `q` about target `t`,
with the turns, failures and components the code appends; `newer` is the order of the files' modification times, which
decides what a new session carries over. A chat command loads or creates its conversation and appends its turn
(`StartChat`), with an approval builds what the prompt says (`ShipBegins`, `BuildCompletes`, `BuildRaises`), and rewrites
the conversation in two steps (`OpenMemory`, `DumpMemory`). `build` and `ship` work on a directory that an operator
rewrites at any time; `ship` reads it twice (`StartShip`, `Reload`). What a build does to its target's files is
`AppBuild`'s subject, here it begins, ends or raises. `saved`, `built` and
`edited` are history variables.

**LaneTables, LaneRepair.** A path is the sequence of its components, so a directory is a proper prefix of the paths
below it and a missing one fails its checks too. `disk` maps each path to what is there: its template, the fallback of
the repair, an operator's own text with the markers or without. `Validate` is `validate_generated_app` of the lane;
`Restore`, `Unrepairable` and `LimitReached` are the body of the repair's loop over the report, an entry at a time,
with the operator between any two of them. An item goes by its place in the order of validation, which is the order of
the report, so a report is a set of numbers; a path listed twice has two.

**WholeFileStores.** Three things that a command replaces as a whole. `store` says which a behaviour is about: the
trust registry (read when the module is imported, then kept), the entitlements (read and written within one call) or
a directory that a rollback removes and copies back. `meant` adds up the orders given, `ever` all that was ever
ordered, `disturbed` says whether anyone overlapped with the last order, or died.

**AgentRuntime, EnforcedMutation.** A plan is the sequence of its action types, approvals are yes or no to a step or a
type; `execute` is a step at a time. A mutation passes policy, approval engine and preflight, each of which reads the
same context and may refuse; the engine writes its log in between.

**Services.** The five parts share no state. A behaviour is about one of them (`active`) and leaves the others as they
began, so that what is checked and proved of each is checked and proved once, of all.

Each module also holds faulty variants of some of its operators, each marked "Faulty": what a plausible mistake at
that place would be. They are not part of any specification; every property of a passing run is checked to fail when
the variant takes the operator's place.

## 3. Runs

Passing runs:

| Run | Question | Bounds |
|---|---|---|
| `RunLoop` | Do both loops, from any record they may be handed, keep the repair budget, count repairs, judge rightly, do what the big step says, settle, and end? | three tasks, budget 1 as in the code; every subset of complete tasks, no tasks, every verdict and count in the given record; operators reset tasks to pending |
| `Mission` | One command at a time, each may be killed at any step: do decisions and completion stand, does restore data once laid down, is work repeated only for a crash, does every command end, does the record refine `RunPromise`? | two processes, four commands, two crashes, seven goals |
| `MissionOverlap` | Commands interleaved step by step, with a crash: is a gated run ever executed before an approval? | two processes, three commands, one crash, seven goals |
| `Governance` | Is trust ever unearned, does the history replay to the list, is a rejection in the same state in its three files, does a rollback stand? | two processes, a plain tool and a core one, eleven checks; overlapping: two commands, one gap each, one crash; one at a time: three commands, two gaps, one crash |
| `AppBuild` | What do the reports claim, after any commands, edits and kills; what does a refused build leave; which files does no command touch? | a file of each kind, two specifications, with and without lane rules; three commands, two edits, one kill |
| `ChatBuild` | Does a preview say what the build will do, is what the chat compiler wrote accepted everywhere, is everything built lawful, does a conversation account for itself and keep its turns? | single prompts of every two phrases, one for each kind of token; conversations of two sessions on two targets: four commands and a kill one at a time, three and a kill overlapping; an operator's directory with a fault in any one place, two commands, edited while they read it |
| `Services` | Five parts that share nothing, one per behaviour. Does the audit trail replay and a decision stand (`AuditTrailStands`)? Is what a repair says of itself what the next validation finds (`RepairHelps`)? Does whoever works undisturbed get what was ordered, and is nothing on file that never was (`LastOrderStands`)? Does the agent stop at its gate, and does the decision log account for every mutation (`GatesHold`)? | two approvers, trails of five; all five lanes, three to five places to damage each, two interferences or kills, limits 0, 1, 2 and 30; two processes, two names, four orders, one kill; every plan with every declaration; two mutations of any action and context |

Why the bounds are enough: the loops test a task only for complete or blocked, so three tasks give none, one, some and
all of them in each status; a resume after a resume after a crash needs four commands and two crashes; the overlapping
hazards each take two commands after the mission that created the run, and `MissionKernel_proofs` removes the bound
for the property the overlapping run checks. A rollback undone needs a registration, a rollback and a registration,
and a quarantine lost needs one kill; a report outliving its files needs a build, an edit and a second command, and a
kill in any of them. A session carries another's turns over with two commands and loses its own with three; two orders
that overlap and one more show every way in which one of them is lost. A repair differs from the next only in what is
missing: a directory, a marked file, one without markers, one that nobody restores. Where the proofs of section 4 speak
of a property, they remove the bounds. Goals: `ShortGoalsAssumption` makes sure that the runs have every pair of
verdicts that a goal of up to two keywords receives, seven in all.

Runs that show a disagreement, each on one property quoted from the repository:

| Run | What the code does |
|---|---|
| `RunLoopBlocked` | `continue_execution` never ends when a task is blocked: after a failed validation it enters "repair" with `next_stage` cleared, and passes through it without repairing or counting |
| `MissionLostDenial` | an approval computed from a stale record overwrites a denial |
| `MissionLostRestore` | a dangerous mission whose process is killed between the run's save and its own is later approved and carried out with no restore data on record, and reported as "safe" |
| `MissionUnseenDanger` | a goal dangerous to the mission layer only runs without a pause |
| `AppBuildLostEdit` | a file the operator edited, classified "merge_required", is overwritten without a merge |

`MissionLostRestore` leaves out the goal of `MissionUnseenDanger`, which is executed before the mission layer saves
anything and so before there is restore data, killed or not: what it shows is the kill alone. The property, `RestoreFirst`,
speaks of dangerous goals, which all call for a checkpoint, and of the restore data only. The checkpoints of the run loop
are in the record of such a run, and `inspect` makes restore data from them (`cli/inspect.py:35`); the record, its audit
record and the mission's result say that there is none.

The models show more of the kind, which the passing properties step around and name:

* overlapping resumes lose a completion as well as a denial: `KeepsPromise`, which has completion stand, is checked for
  one command at a time;
* a failed run with a blocked task, and any run without tasks, is taken up again by every resume, although "if run is
  already complete/failed, resume reports no action" (`docs/NEXUS_EXECUTION.md:60`): `SettledRunAsksNothing` holds
  when no task is blocked and excepts a record without tasks, which "needs to plan" (`state/resume_runner.py:12`) and
  completes without;
* `resumed_from` is always "unknown" after an execution or a repair (`cli/resume.py:177`, against
  `state/resume_runner.py:43`): `ResumeOutcome` says so;
* `mission_plan.state` of a resumed and completed mission stays "paused_approval" (`cli/mission.py:364`);
* a process killed before or inside the first save leaves nothing, or a torn file, to resume (`state/json_store.py:15`,
  against `docs/NEXUS_MODE.md:17`): commands that meet such a file raise, and that ends the run's life;
* a governance registration overwrites the registry's other view of the same file
  (`universal_capability/governance.py:161`): what `add_capability` added there is lost;
* a registration that overlaps a rollback undoes it: `RollbackStands` speaks of one command at a time;
* a build over an edited file fails with "Determinism verification failed" although nothing is nondeterministic, and
  the same command over again succeeds (`DivergedIsBuilt`);
* a production-critical file that was edited, or cut short by a kill, blocks every later build: the guardrail asks for
  an approval no command can give (`generator/executor.py:107`);
* `proof-app` on a directory that was never built reports `verified` (`cli/autobuilder.py:788`): `VerifiedByBuild`
  speaks only of directories some build has begun to write.

* the run layer reads a goal's target from task titles that copy its first 40 characters, so a target named later is not
  seen; and as one title says "Validate", a goal such as "wipe production" is a validation there and a change in the
  mission layer (`planner/planner.py:88`, `mutation/safety.py`, `MutationSafety`);
* phrases are looked for with `in`: "community" is refused as unity, "kiosk" is an iOS application, "deliver" is live
  data (`chat_builder/compiler.py`);
* a prompt whose name comes out blank ("called " and spaces) is accepted, previewed, and fails when it is built;
* `chat-build` with an approval builds although nothing was previewed, against `preview_required_before_build`
  (`chat_builder/workflow.py:95`) and "auto_ship_without_preview" (`platform_hardening/capability_maturity.py:85`);
* a session that is taken up again after another session of its project carries nothing over, so what the other one did
  is in one file only; a session whose own file is torn raises for ever (`chat_builder/project_memory.py`);
* `workflow_system` is a commercial application for the lane contracts and an enterprise one for the plugins;
  `BuiltIsLawful` excepts it;
* the lanes exist twice: what `generator/template_packs.py` writes does not pass the plugins' validators, and a
  certified application of the mobile or game lane lacks files that the command line's own rules name;
* the repair overwrites an operator's file that lacks a marker, is content with a file that exists whatever is in it,
  counts a file listed twice twice against its limit, and reports a missing directory as a blocker although the files
  it restores bring it back; `generation_summary.json` is in no template and cannot be restored;
* of two overlapping orders on the trust registry or the entitlements one is lost, a quarantine or a revocation
  included, and a torn file stops every later command (`LastOrderStands` speaks of whoever works undisturbed); a webhook
  delivered again overwrites what was changed since;
* the decision log approves a free mutation that the preflight then refuses (`mutation/enforced_mutation.py:20`);
* `cli/autobuilder.py` cannot be imported at this commit: it imports `run_benchmark_cases`, which `benchmarks/runner.py`
  does not define (`cli/autobuilder.py:16`). The models follow its functions as they are written.

Fairness. `RunLoop` assumes weak fairness of a loop's steps: a started command is a running Python loop with no wait
in it. `MissionKernel` assumes weak fairness of each process's own steps for the same reason. The other
modules check no liveness and assume no fairness. Nobody is assumed to start a command, to decide, or to stop
editing. Deadlock is not checked in runs where the system may stop: when all commands have been issued, a plan
is done, a bound is reached, or nobody wants anything.

## 4. Proofs

All are of the form `Spec => []P`, or `Spec => [][A]_vars`, for every value of the constants under the modules' named
assumptions.

* `RunLoop_proofs` - `TypeOK`, `RepairBudget`, `RepairsAccounted`, `VerdictSound`. The budget is not inductive: a step
  into "repair" is safe only because the loop compared the budget with a repair count that is the true number of
  repairs. `Accounting` says what the counts mean between commands (in the record) and inside one (in the process),
  and that a loop in "repair" still has budget. Assumes a positive budget (`RunLoopAssumption`). Where operators mark
  no task blocked, also `FollowsOutcome` and `SettledRunAsksNothing`: `PathInv` says how far each driver is on the one
  path it can take (perform_run fails once, repairs and completes; a resume does the stage that was inferred and
  validates), so that other modules may put `RunOutcome` and `ResumeOutcome` in the loops' place. With a task marked
  blocked neither holds, and run `RunLoopBlocked` shows a loop that does not end.
* `MissionKernel_proofs` - `TypeOK` and `GateHolds`, for any number of processes, commands and crashes, overlapping or
  not. Stale copies of the record are written back at any time, so the invariant is about all of them: `GateShut` says
  that while no approval has been given, every copy of a gated run's record, on disk and in any process, is a waiting
  one and no process is past the gate. `Shape` says a process that writes holds a record fit to be written.
* `MissionAlone_proofs` - for one command at a time (`Overlap = FALSE`), with any number of commands and crashes:
  `DeniedNeverRuns`, `WorkRepeatedOnlyByCrash`, `WritesInOrder`, `RestoreKept`, `DoneMeansDone`, `DecisionIsFinal`, and
  that the kernel implements `RunPromise` (`KeepsPromise`: the initial states map to initial ones, every step to a step
  or a stutter). None is inductive alone: what is on disk is what one process computed from what it had loaded, several
  writes ago. `AloneInv` therefore follows one record through its life: every copy agrees with itself (`AllSound`), only
  one process is at work (`OneAtATime`), its copy is the record or the record's continuation (`NotBehind`, `Agreed`),
  it executes only what was decided (`DecidedFirst`), executions are on record, carried to it or paid for by a crash
  (`Counted`, `AllPaid`), and the fields that the mission layer adds are there once its overlay is, unless a process was
  killed (`FullSince`). `RestoreKept` also says what holds with kills, that restore data on record stays: `KeptInv` says
  of every copy that its restore data and risk are the goal's if it has change sets (`AllMarked`), of a command at work
  that what it will write has them if the record does (`AbreastOf`), and of the mission command that it does not itself
  carry out a gated goal (`StillNew`).
* `CapabilityGovernance_proofs` - all five properties of the run. `TypeOK`, `EarnedTrust` and `HistoryReplays`
  overlapping or not: copies of the registry are written back at any later time, so the invariant says of every copy
  (the file, each process's snapshot and view) that it trusts only candidates that earned it (`Copies`) and that its
  history replays to its list (`Logs`), and of a process about to register that its candidate was accepted (`Cleared`).
  `QuarantineTraced` and `RollbackStands` for one command at a time: `Alone` says which copies are the file's equal at
  which step (`Fresh`), which record of a rejection is due (`Due`), and that the accounts balance but for what is owed
  (`Balanced`).
* `AppBuild_proofs` - all seven properties of the run, for any plan, any classification of its files, any rules of a
  lane. The invariant follows a command through its steps: past the reports the proof report is a stub (`Stubbed`),
  the files before the next operation are generated (`Built`), a repair is due only where there is no file and the
  verdict holds of what will be there once they are done (`VerdictHolds`), the signature a command carries was earned
  (`SignatureEarned`), and the report it has written is its verdict (`VerdictReported`). Needs that a specification's
  content is none of the other content classes and that the rules speak of files of the plan (`AppBuildAssumption`).
* `LaneRepair_proofs` - `RepairHelps`, for whatever an operator may touch, any limit, any number of interferences. A
  repair works through a report of what once failed, and whether it tells the truth depends on how the report stands to
  the directory now: `RepairInv` says that all that fails is in a current report (`Covers`), and is the report if
  nothing was done since (`UpToDate`), that nothing fails before somebody interferes (`Untouched`), and of a repair on
  its way (`UnderWay`) that something has been put back or nothing could be, and that what is worked through passes
  unless the repair is blocked. Rests on what `LanesFit` says of the lanes' tables, which TLC evaluates: a marked item
  is never a file that the fallback, which has no markers, would fill.
* `Services_proofs` - the other four parts, and `Services` as a whole. `AuditTrailStands`, and that no step takes a
  decision back: that a new entry agrees with an old decision follows from the last entry being the present status, so
  the two halves are proved together. `LastOrderStands`, for any processes, names, features, orders and kills:
  `FileStands` says that a process which works undisturbed has what was meant in hand or on file, `DirectoryStands` the
  same of the rollback, `Traced` that every copy has only what was ordered. `GatesHold`, for every task with every
  declaration of approvals, since a task's actions follow one another in a fixed order (`AgentInv`: the status of an
  entry of the log tells where its step is from the first refused one, the lists tell the log), and for any number of
  mutations (`MutationInv`, by counting approvals). `ServicesInvariance` puts the five invariants together: a step of
  one part leaves the others' alone.
* `ChatBuild_proofs` - `TypeOK`, of which the part that a process ends with empty hands (`Fits`) is the one that takes
  an argument; `MemoryExplains`, commands overlapping or not; and `SessionRemembers`, for one command at a time.
  `Tells` says of every file that reads whole and of every process that its conversation explains itself and has no
  entry of a later command, and of a process whose build is to come that its prompt can be built and nothing but its
  turn has been said of it: so the one failure or component noted later contradicts nothing. `Remembering` says that
  whatever was saved of a session is in its file or in the hand of the one process at work on it.
  `PreviewHonest`, `SynthesizedAccepted` and `BuiltIsLawful` are about tables in as many files, and hold for every
  prompt and document, not only those of the runs. The first rests on the order of the questions: what a risk or
  missing credentials ask is put in front, and three questions are asked (`AllQuestions`, `UrgentAsked`). The second on
  the lane inferred being the one its contract is enforced for (`LaneInferred`, `LaneAnnounced`) and on every section
  written being one the loader asks for (`WrittenLoads`). `Lawful` is the invariant behind the third: an application
  begun has passed every gate, and a `ship` between its two readings has read a first-class stack or been noted as
  edited meanwhile; that a first-class application then has the plugins of one lane is `ResolvedToOne`. The stack of a
  document has one entry for each category, as the loader makes it (`World`).

Liveness (`CommandsEnd` of both modules, `ApprovedRunCompletes`) is beyond the prover and only model-checked. What can
be proved of it is its measure. `LoopsRunOut` (`RunLoop_proofs`): where no task is marked blocked, every step of a loop
is one of at most `4 * MaxRepairs + 6`, and with a task marked blocked `RunLoopBlocked` shows the loop for which there
is no such number. `CommandsRunOut` (`MissionKernel_proofs`): a command is at most eleven steps from its end, each of
its own steps is one less, and no other process puts it off, however they overlap. That a step is possible at all,
and so is taken under the fairness assumed, TLC checks. The sequences in the violation runs are counterexamples and need no
proof; every other property of a passing run is the subject of a theorem.

## 5. What is not modelled

Wording, scores, reports and timestamps, but where a property is about them; the content of artifacts and generated
files; `Executor.run_tasks_with_recovery`, `promote`, `retire` and `record_learning` of the capability registry, and
the `update_file` operation, which nothing calls or plans; the reports `proof_enrichment` adds. Whole components:

| Component | Why not |
|---|---|
| Hardening runtime (`platform_hardening/failure_replay.py`, `composition.py`, `security_governance.py`, `enterprise_readiness.py`) | reports assembled from their arguments and printed; no state, and nothing depends on them |
| Mutation provenance | decisions computed from a path and returned; nothing stores or obeys them |
| Failure classification and reliability scores | sums over a finished record; no stage, gate or retry reads them, and a model would repeat the arithmetic |
| Readiness and completion gates | conjunctions over files, commands and benchmark results outside the program |
| Benchmarks | data, and a loop over it |
| Security and API stubs | stateless predicates of a few lines, not called by the mission kernel |
| Observability and events | append-only lists in one process; the restore payload, on which something depends, is in `MissionKernel` |
| Repository tooling | shell scripts and a read-only viewer |

Two hazards have no property: `mission_plan` is forgotten on resume, a single missing assignment; and `add_memory`
loses one of two overlapping writes to an index that nothing but the writer reads. `PROJECT.json` lists every component
with its status.

## 6. Plan

Still worth doing: a composition of `ChatBuild` with `AppBuild`, which now meet only in "begins, ends or raises"; the
governance payload that `build` writes, once something reads it.
