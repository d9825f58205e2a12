----------------------------- MODULE ChatBuild -----------------------------
(***************************************************************************)
(* The two ways by which a specification becomes an application: a prompt  *)
(* given to `chat-build` (chat_builder/workflow.py, with the conversation  *)
(* memory of chat_builder/project_memory.py) and a directory an operator   *)
(* wrote, given to `build` or `ship` (cli/autobuilder.py).  Commands are   *)
(* processes over the memory files and the targets; any may be killed.     *)
(* What a build does to its target's files is AppBuild's subject; here it  *)
(* begins, ends or raises.                                                 *)
(***************************************************************************)
EXTENDS ChatCompiler

CONSTANTS
  Procs,        \* processes that may run a command
  Targets,      \* target directories, each one a project
  Worlds        \* cases: who asks what, how often (the record below)

(* prompts that users give, documents that the operator writes, the numbers of
   commands and kills, and whether commands overlap.  Of a document's stack the
   loader takes one entry for each category. *)
World(w) ==
  /\ \A q \in w.prompts : q \in Prompt
  /\ \A doc \in w.docs : doc.stack \in [Category -> STRING]
  /\ w.commands \in Nat /\ w.kills \in Nat /\ w.overlap \in BOOLEAN

ASSUME ChatBuildAssumption == \A w \in Worlds : World(w)

VARIABLES
  world,        \* the case
  memory,       \* memory[t][q]: chat_<session q>_<project t>.json
  newer,        \* newer[t]: pairs of sessions, the second written later
  app,          \* app[t]: what was last begun to be built in t
  spec,         \* the operator's specification directory
  pc, job,      \* the step a process is at, and its command
  held,         \* the snapshot, or the specification, a process holds
  commands, kills,
  saved,        \* history: the chat commands whose memory was saved
  built,        \* history: the commands whose build completed
  edited        \* history: commands during which the operator edited spec

files == <<memory, newer>>
locals == <<pc, job, held>>
history == <<saved, built, edited>>
vars == <<world, files, app, spec, locals, commands, kills, history>>

-----------------------------------------------------------------------------
(* ChatMemorySnapshot, reduced to the lists that say what happened.  Entries *)
(* carry the number of the command they stem from.                          *)

Absent == [state |-> "absent"]
Torn == [state |-> "torn"]
NoMemory == [state |-> "whole", turns |-> <<>>, failures |-> <<>>, components |-> <<>>]
Readable(m) == m.state = "whole"

NoApp == [by |-> 0]
NoJob == [kind |-> "none", n |-> 0]
Nothing == [state |-> "nothing"]

Idle == \A p \in Procs : pc[p] = "idle"
MayStart(p) == pc[p] = "idle" /\ (world.overlap \/ Idle) /\ commands < world.commands

(* _latest_payload_for_project: of the project's files that parse, the one
   written last. *)
Latest(t) ==
  LET readable == {q \in world.prompts : Readable(memory[t][q])} IN
  IF readable = {} THEN {NoMemory}
  ELSE {memory[t][q] : q \in {s \in readable : \A r \in readable : <<s, r>> \notin newer[t]}}

(* Faulty: a session's own file is not looked for. *)
LoadOrStartAfresh(q, t) ==
  IF \E s \in world.prompts \ {q} : Readable(memory[t][s])
  THEN {memory[t][s] : s \in {r \in world.prompts \ {q} : Readable(memory[t][r])}}
  ELSE {NoMemory}

(* load_or_create: the session's own file, else a copy of the project's
   newest one. *)
LoadOrCreate(q, t) == IF memory[t][q] # Absent THEN {memory[t][q]} ELSE Latest(t)

WithTurn(m, n, q) == [m EXCEPT !.turns = Append(@, [n |-> n, prompt |-> q])]
WithFailure(m, n, kind) == [m EXCEPT !.failures = Append(@, [n |-> n, kind |-> kind])]
WithComponent(m, n) == [m EXCEPT !.components = Append(@, n)]

-----------------------------------------------------------------------------
(* chat-build: parse, load the memory, append the turn; then refuse, show a *)
(* preview, or build.  A session whose own file does not parse raises.      *)

StartChat(p, q, t, approve) ==
  /\ MayStart(p)
  /\ memory[t][q] # Torn
  /\ commands' = commands + 1
  /\ job' = [job EXCEPT ![p] = [kind |-> "chat", n |-> commands', prompt |-> q, target |-> t]]
  /\ \E loaded \in LoadOrCreate(q, t) :
       LET m == WithTurn(loaded, commands', q) IN
       IF Unsupported(q) # {}
       THEN /\ held' = [held EXCEPT ![p] = WithFailure(m, commands', "unsupported_request")]
            /\ pc' = [pc EXCEPT ![p] = "open"]
       ELSE /\ held' = [held EXCEPT ![p] = m]
            /\ pc' = [pc EXCEPT ![p] = IF approve THEN "ship" ELSE "open"]
  /\ UNCHANGED <<world, files, app, spec, kills, history>>

(* Faulty: the snapshot outlives its command. *)
EndsHolding(p) ==
  /\ pc' = [pc EXCEPT ![p] = "idle"]
  /\ job' = [job EXCEPT ![p] = NoJob]
  /\ UNCHANGED held

(* A process that ends, whatever way, leaves nothing behind. *)
Ends(p) ==
  /\ pc' = [pc EXCEPT ![p] = "idle"]
  /\ job' = [job EXCEPT ![p] = NoJob]
  /\ held' = [held EXCEPT ![p] = Nothing]

Continues(p, step) == pc' = [pc EXCEPT ![p] = step] /\ UNCHANGED job

Begin(p, t, ir) ==
  /\ app' = [app EXCEPT ![t] = [by |-> job[p].n, kind |-> job[p].kind, ir |-> ir,
                                whole |-> FALSE, over |-> app[t] # NoApp]]
  /\ pc' = [pc EXCEPT ![p] = "building"]

(* The runner is run_ship_workflow on a temporary directory of its own. *)
ShipRefuses(p) ==
  /\ pc[p] = "ship"
  /\ LET doc == Synthesize(job[p].prompt) IN ~ShipPrecheck(doc) \/ ~BuildAccepts(doc)
  /\ held' = [held EXCEPT ![p] = WithFailure(held[p], job[p].n, "build_failure")]
  /\ pc' = [pc EXCEPT ![p] = "open"]
  /\ UNCHANGED <<world, files, app, spec, job, commands, kills, history>>

(* Faulty: the component is noted when the build starts. *)
ShipBeginsNoted(p) ==
  /\ pc[p] = "ship"
  /\ LET doc == Synthesize(job[p].prompt) IN
     ShipPrecheck(doc) /\ BuildAccepts(doc) /\ Begin(p, job[p].target, AppIR(doc))
  /\ held' = [held EXCEPT ![p] = WithComponent(held[p], job[p].n)]
  /\ UNCHANGED <<world, files, spec, job, commands, kills, history>>

ShipBegins(p) ==
  /\ pc[p] = "ship"
  /\ LET doc == Synthesize(job[p].prompt) IN
     ShipPrecheck(doc) /\ BuildAccepts(doc) /\ Begin(p, job[p].target, AppIR(doc))
  /\ UNCHANGED <<world, files, spec, job, held, commands, kills, history>>

Mine(p) == app[job[p].target].by = job[p].n

(* The build completes; the files are all its own unless another build has
   begun in the same target meanwhile. *)
BuildCompletes(p) ==
  /\ pc[p] = "building"
  /\ IF Mine(p) THEN app' = [app EXCEPT ![job[p].target].whole = TRUE] ELSE UNCHANGED app
  /\ built' = built \cup {job[p].n}
  /\ IF job[p].kind = "chat"
     THEN /\ held' = [held EXCEPT ![p] = WithComponent(held[p], job[p].n)]
          /\ Continues(p, "open")
     ELSE Ends(p)
  /\ UNCHANGED <<world, files, spec, commands, kills, saved, edited>>

(* The guardrail or the repeat build raises: only over files that were there. *)
BuildRaises(p) ==
  /\ pc[p] = "building"
  /\ ~Mine(p) \/ app[job[p].target].over
  /\ IF job[p].kind = "chat"
     THEN /\ held' = [held EXCEPT ![p] = WithFailure(held[p], job[p].n, "build_failure")]
          /\ Continues(p, "open")
     ELSE Ends(p)
  /\ UNCHANGED <<world, files, app, spec, commands, kills, history>>

Touch(t, q) ==
  newer' = [newer EXCEPT ![t] = {pair \in @ : pair[1] # q} \cup
                                ((world.prompts \ {q}) \X {q})]

(* save: the file is truncated, then filled.  It is the project's newest. *)
OpenMemory(p) ==
  /\ pc[p] = "open"
  /\ memory' = [memory EXCEPT ![job[p].target][job[p].prompt] = Torn]
  /\ Touch(job[p].target, job[p].prompt)
  /\ pc' = [pc EXCEPT ![p] = "dump"]
  /\ UNCHANGED <<world, app, spec, job, held, commands, kills, history>>

(* Over what another process has dumped in between, a mixture may be left. *)
DumpMemory(p) ==
  /\ pc[p] = "dump"
  /\ LET q == job[p].prompt t == job[p].target IN
     /\ \E left \in {held[p]} \cup (IF memory[t][q] # Torn THEN {Torn} ELSE {}) :
          memory' = [memory EXCEPT ![t][q] = left]
     /\ Touch(t, q)
     /\ saved' = saved \cup {[n |-> job[p].n, prompt |-> q, target |-> t]}
  /\ Ends(p)
  /\ UNCHANGED <<world, app, spec, commands, kills, built, edited>>

-----------------------------------------------------------------------------
(* build and ship on the operator's directory.  A refusal raises before     *)
(* anything is written.                                                     *)

StartBuild(p, t) ==
  /\ MayStart(p)
  /\ spec # Nothing /\ BuildAccepts(spec)
  /\ commands' = commands + 1
  /\ job' = [job EXCEPT ![p] = [kind |-> "build", n |-> commands', target |-> t]]
  /\ app' = [app EXCEPT ![t] = [by |-> commands', kind |-> "build", ir |-> AppIR(spec),
                                whole |-> FALSE, over |-> app[t] # NoApp]]
  /\ pc' = [pc EXCEPT ![p] = "building"]
  /\ UNCHANGED <<world, files, spec, held, kills, history>>

(* Faulty: the tiers are left to the build. *)
StartShipUnchecked(p, t) ==
  /\ MayStart(p)
  /\ spec # Nothing /\ LoadsSpec(spec)
  /\ commands' = commands + 1
  /\ job' = [job EXCEPT ![p] = [kind |-> "ship", n |-> commands', target |-> t]]
  /\ pc' = [pc EXCEPT ![p] = "reload"]
  /\ UNCHANGED <<world, files, app, spec, held, kills, history>>

StartShip(p, t) ==
  /\ MayStart(p)
  /\ spec # Nothing /\ ShipPrecheck(spec)
  /\ commands' = commands + 1
  /\ job' = [job EXCEPT ![p] = [kind |-> "ship", n |-> commands', target |-> t]]
  /\ pc' = [pc EXCEPT ![p] = "reload"]
  /\ UNCHANGED <<world, files, app, spec, held, kills, history>>

(* run_build_workflow reads the directory again, whatever it is by now. *)
Reload(p) ==
  /\ pc[p] = "reload"
  /\ IF spec # Nothing /\ BuildAccepts(spec)
     THEN Begin(p, job[p].target, AppIR(spec)) /\ UNCHANGED <<job, held>>
     ELSE Ends(p) /\ UNCHANGED app
  /\ UNCHANGED <<world, files, spec, commands, kills, history>>

(* External: the operator rewrites the directory, at any time. *)
OperatorEdits(doc) ==
  /\ doc # spec
  /\ spec' = doc
  /\ edited' = edited \cup {job[p].n : p \in {x \in Procs : pc[x] = "reload"}}
  /\ UNCHANGED <<world, files, app, locals, commands, kills, saved, built>>

Kill(p) ==
  /\ kills < world.kills
  /\ pc[p] # "idle"
  /\ kills' = kills + 1
  /\ Ends(p)
  /\ UNCHANGED <<world, files, app, spec, commands, history>>

Work(p) ==
  \/ ShipRefuses(p) \/ ShipBegins(p) \/ BuildCompletes(p) \/ BuildRaises(p)
  \/ OpenMemory(p) \/ DumpMemory(p) \/ Reload(p)

Next ==
  \/ \E p \in Procs :
       \/ \E q \in world.prompts, t \in Targets, approve \in BOOLEAN :
            StartChat(p, q, t, approve)
       \/ \E t \in Targets : StartBuild(p, t) \/ StartShip(p, t)
       \/ Work(p)
       \/ Kill(p)
  \/ \E doc \in world.docs : OperatorEdits(doc)

Init ==
  /\ world \in Worlds
  /\ memory = [t \in Targets |-> [q \in world.prompts |-> Absent]]
  /\ newer = [t \in Targets |-> {}]
  /\ app = [t \in Targets |-> NoApp]
  /\ spec \in IF world.docs = {} THEN {Nothing} ELSE world.docs
  /\ pc = [p \in Procs |-> "idle"]
  /\ job = [p \in Procs |-> NoJob]
  /\ held = [p \in Procs |-> Nothing]
  /\ commands = 0 /\ kills = 0
  /\ saved = {} /\ built = {} /\ edited = {}

Spec == Init /\ [][Next]_vars

-----------------------------------------------------------------------------

Number == Nat \ {0}
Turn == [n : Number, prompt : world.prompts]
Failure == [n : Number, kind : {"unsupported_request", "build_failure"}]
Snapshot ==
  [state : {"whole"}, turns : Seq(Turn), failures : Seq(Failure),
   components : Seq(Number)]
Job ==
  [kind : {"chat"}, n : Number, prompt : world.prompts, target : Targets]
    \cup [kind : {"build", "ship"}, n : Number, target : Targets]
App ==
  [by : Number, kind : {"chat", "build", "ship"}, whole : BOOLEAN, over : BOOLEAN,
   ir : {AppIR(doc) : doc \in world.docs \cup {Synthesize(q) : q \in world.prompts}}]

(* What a process has in hand fits the step it is at: a snapshot exactly while
   it runs a chat command, and nothing when it is idle. *)
Fits(p) ==
  /\ pc[p] = "idle" <=> job[p] = NoJob
  /\ pc[p] \in {"ship", "open", "dump"} => job[p].kind = "chat"
  /\ pc[p] = "reload" => job[p].kind = "ship"
  /\ held[p] \in IF job[p].kind = "chat" THEN Snapshot ELSE {Nothing}

(* Every variable keeps the type of what the code puts there, and no process
   holds on to what its command has loaded. *)
TypeOK ==
  /\ world \in Worlds
  /\ memory \in [Targets -> [world.prompts -> Snapshot \cup {Absent, Torn}]]
  /\ newer \in [Targets -> SUBSET (world.prompts \X world.prompts)]
  /\ app \in [Targets -> App \cup {NoApp}]
  /\ spec \in world.docs \cup {Nothing}
  /\ pc \in [Procs -> {"idle", "ship", "building", "open", "dump", "reload"}]
  /\ job \in [Procs -> Job \cup {NoJob}]
  /\ held \in [Procs -> Snapshot \cup {Nothing}]
  /\ \A p \in Procs : Fits(p)
  /\ commands \in 0 .. world.commands /\ kills \in 0 .. world.kills
  /\ saved \in SUBSET [n : Number, prompt : world.prompts, target : Targets]
  /\ built \subseteq Number /\ edited \subseteq Number

(* What a preview tells the operator: a risky domain and missing credentials
   are asked about although only three questions are asked, the announced
   lane is the one whose contract will be enforced, and every service of the
   announced runtime shape is in the architecture (steering.py:24,
   compiler.py:82, :185 and :337). *)
PreviewHonest ==
  \A q \in world.prompts :
    LET asked == {Questions(q)[i] : i \in DOMAIN Questions(q)} IN
    /\ Risky(q) => "compliance" \in asked
    /\ Billing(q) => "credentials" \in asked
    /\ InferLane(q).lane = LaneOf(InferLane(q).app_type)
    /\ RuntimeShape(q) \subseteq RuntimeServices(q)
    /\ Billing(q) => "billing_admin" \in AuthRoles(q)

(* A prompt that was not refused as unsupported is not refused later either:
   loader, catalog, registry, tiers and lane contract, five tables in five
   files, take what the chat compiler wrote - unless the name it inferred is
   blank - and the IR says of the domain what the chat said. *)
SynthesizedAccepted ==
  \A p \in Procs :
    pc[p] = "ship" =>
      LET q == job[p].prompt doc == Synthesize(q) IN
      /\ ShipPrecheck(doc) /\ BuildAccepts(doc) <=> q.name # "blank"
      /\ q.name # "blank" =>
           AppIR(doc).domains = {CanonicalDomain(InferLane(q).app_type)}

(* Whoever builds, nothing is begun that its lane does not allow, and no app
   has a future frontend.  Apps of a prompt, and those shipped from a
   directory nobody edited while it was read twice, are first-class in every
   category (run_ship_workflow checks the tiers of the first reading only);
   and what is first-class has one set of plugins, of the lane whose contract
   was enforced - except that two tables disagree about workflow systems
   (capability_maturity.py:33, realtime_and_enterprise.py:444). *)
BuiltIsLawful ==
  \A t \in Targets :
    app[t] # NoApp =>
      LET ir == app[t].ir IN
      /\ ResolvesArchetype(ir.app_type) /\ EnforceLane(ir.app_type, ir.stack)
      /\ Tier("frontend", ir.stack.frontend) = "first_class"
      /\ app[t].kind = "chat" \/ (app[t].kind = "ship" /\ app[t].by \notin edited)
           => FirstClass(ir.stack)
      /\ FirstClass(ir.stack) =>
           ResolvedLane(ir.app_type, ir.stack) =
             {IF ir.app_type = "workflow_system" THEN "first_class_enterprise_agent"
              ELSE LaneOf(ir.app_type)}

InOrder(turns) == \A i, j \in DOMAIN turns : i < j => turns[i].n < turns[j].n

Accounts(turns, failures, components) ==
  /\ \A f \in failures : \E u \in turns :
       u.n = f.n /\ (f.kind = "unsupported_request" <=> Unsupported(u.prompt) # {})
  /\ \A u \in turns : Unsupported(u.prompt) # {} => \E f \in failures : f.n = u.n
  /\ \A c \in components :
       c \in built /\ (\E u \in turns : u.n = c) /\ (\A f \in failures : f.n # c)

Explains(m) ==
  InOrder(m.turns) /\ Accounts(Range(m.turns), Range(m.failures), Range(m.components))

(* A conversation that reads whole explains itself, whatever it was carried
   over from and whoever else was writing: its turns are in the order they
   were taken, none twice, the last one the session's own; what failed, what
   was refused and what was built are its turns', and it says built of no
   build that did not complete. *)
MemoryExplains ==
  /\ \A t \in Targets, q \in world.prompts :
       Readable(memory[t][q]) =>
         /\ Explains(memory[t][q])
         /\ memory[t][q].turns[Len(memory[t][q].turns)].prompt = q
  /\ \A p \in Procs : Readable(held[p]) => Explains(held[p])

(* With one command at a time a session loses none of its turns, whichever
   other sessions of the project come between, unless its file does not
   parse. *)
SessionRemembers ==
  ~world.overlap =>
    \A s \in saved :
      \/ ~Readable(memory[s.target][s.prompt])
      \/ \E i \in DOMAIN memory[s.target][s.prompt].turns :
           memory[s.target][s.prompt].turns[i].n = s.n

=============================================================================
