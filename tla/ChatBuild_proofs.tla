-------------------------- MODULE ChatBuild_proofs --------------------------
(* Proofs about ChatBuild, for any processes, targets, prompts, documents and
   bounds. *)
EXTENDS ChatBuild, TLAPS

-----------------------------------------------------------------------------
(* The lists of a conversation.                                             *)

LEMMA NoMemoryType == NoMemory \in Snapshot
  BY DEF NoMemory, Snapshot, Number

LEMMA Appending ==
  ASSUME NEW S, NEW s \in Seq(S), NEW e \in S
  PROVE  Append(s, e) \in Seq(S)
  OBVIOUS

LEMMA Exchanging ==
  ASSUME NEW A, NEW B, NEW C, NEW D,
         NEW m \in [state : A, turns : B, failures : C, components : D]
  PROVE  /\ \A x \in B :
              /\ [m EXCEPT !.turns = x] \in [state : A, turns : B, failures : C, components : D]
              /\ [m EXCEPT !.turns = x].turns = x
              /\ [m EXCEPT !.turns = x].failures = m.failures
              /\ [m EXCEPT !.turns = x].components = m.components
         /\ \A x \in C :
              /\ [m EXCEPT !.failures = x] \in [state : A, turns : B, failures : C, components : D]
              /\ [m EXCEPT !.failures = x].turns = m.turns
              /\ [m EXCEPT !.failures = x].failures = x
              /\ [m EXCEPT !.failures = x].components = m.components
         /\ \A x \in D :
              /\ [m EXCEPT !.components = x] \in [state : A, turns : B, failures : C, components : D]
              /\ [m EXCEPT !.components = x].turns = m.turns
              /\ [m EXCEPT !.components = x].failures = m.failures
              /\ [m EXCEPT !.components = x].components = x
  OBVIOUS

(* What appending to one of the lists does, and that the others stay. *)
LEMMA WithTurnType ==
  ASSUME NEW m \in Snapshot, NEW n \in Number, NEW q \in world.prompts
  PROVE  /\ WithTurn(m, n, q) \in Snapshot
         /\ WithTurn(m, n, q).turns = Append(m.turns, [n |-> n, prompt |-> q])
         /\ WithTurn(m, n, q).failures = m.failures
         /\ WithTurn(m, n, q).components = m.components
<1> DEFINE u == [n |-> n, prompt |-> q]
<1>1. u \in Turn
  BY DEF Turn
<1>2. Append(m.turns, u) \in Seq(Turn)
  BY <1>1, Appending DEF Snapshot
<1>3. m \in [state : {"whole"}, turns : Seq(Turn), failures : Seq(Failure),
              components : Seq(Number)]
  BY DEF Snapshot
<1> DEFINE A == {"whole"} B == Seq(Turn) C == Seq(Failure) D == Seq(Number)
<1> HIDE DEF A, B, C, D
<1>5. LET x == Append(m.turns, u) IN
        /\ [m EXCEPT !.turns = x] \in [state : A, turns : B, failures : C, components : D]
        /\ [m EXCEPT !.turns = x].turns = x
        /\ [m EXCEPT !.turns = x].failures = m.failures
        /\ [m EXCEPT !.turns = x].components = m.components
  BY <1>2, <1>3, Exchanging DEF A, B, C, D
<1> QED BY <1>5 DEF WithTurn, Snapshot, A, B, C, D

LEMMA WithFailureType ==
  ASSUME NEW m \in Snapshot, NEW n \in Number,
         NEW kind \in {"unsupported_request", "build_failure"}
  PROVE  /\ WithFailure(m, n, kind) \in Snapshot
         /\ WithFailure(m, n, kind).turns = m.turns
         /\ WithFailure(m, n, kind).failures = Append(m.failures, [n |-> n, kind |-> kind])
         /\ WithFailure(m, n, kind).components = m.components
<1> DEFINE f == [n |-> n, kind |-> kind]
<1>1. f \in Failure
  BY DEF Failure
<1>2. Append(m.failures, f) \in Seq(Failure)
  BY <1>1, Appending DEF Snapshot
<1>3. m \in [state : {"whole"}, turns : Seq(Turn), failures : Seq(Failure),
              components : Seq(Number)]
  BY DEF Snapshot
<1> DEFINE A == {"whole"} B == Seq(Turn) C == Seq(Failure) D == Seq(Number)
<1> HIDE DEF A, B, C, D
<1>5. LET x == Append(m.failures, f) IN
        /\ [m EXCEPT !.failures = x] \in [state : A, turns : B, failures : C, components : D]
        /\ [m EXCEPT !.failures = x].turns = m.turns
        /\ [m EXCEPT !.failures = x].failures = x
        /\ [m EXCEPT !.failures = x].components = m.components
  BY <1>2, <1>3, Exchanging DEF A, B, C, D
<1> QED BY <1>5 DEF WithFailure, Snapshot, A, B, C, D

LEMMA WithComponentType ==
  ASSUME NEW m \in Snapshot, NEW n \in Number
  PROVE  /\ WithComponent(m, n) \in Snapshot
         /\ WithComponent(m, n).turns = m.turns
         /\ WithComponent(m, n).failures = m.failures
         /\ WithComponent(m, n).components = Append(m.components, n)
<1>1. Append(m.components, n) \in Seq(Number)
  BY Appending DEF Snapshot
<1>2. m \in [state : {"whole"}, turns : Seq(Turn), failures : Seq(Failure),
              components : Seq(Number)]
  BY DEF Snapshot
<1> DEFINE A == {"whole"} B == Seq(Turn) C == Seq(Failure) D == Seq(Number)
<1> HIDE DEF A, B, C, D
<1>5. LET x == Append(m.components, n) IN
        /\ [m EXCEPT !.components = x] \in [state : A, turns : B, failures : C, components : D]
        /\ [m EXCEPT !.components = x].turns = m.turns
        /\ [m EXCEPT !.components = x].failures = m.failures
        /\ [m EXCEPT !.components = x].components = x
  BY <1>1, <1>2, Exchanging DEF A, B, C, D
<1> QED BY <1>5 DEF WithComponent, Snapshot, A, B, C, D

(* A file is whole exactly if it holds a conversation. *)
LEMMA WholeFiles ==
  ASSUME TypeOK, NEW t \in Targets, NEW q \in world.prompts
  PROVE  /\ memory[t][q] \in Snapshot \cup {Absent, Torn}
         /\ Readable(memory[t][q]) <=> memory[t][q] \in Snapshot
  BY DEF TypeOK, Readable, Snapshot, Absent, Torn

LEMMA NothingIsNoSnapshot ==
  /\ Nothing \notin Snapshot /\ Absent \notin Snapshot /\ Torn \notin Snapshot
  /\ \A m \in Snapshot : Readable(m) /\ m # Absent /\ m # Torn
  BY DEF Nothing, Absent, Torn, Snapshot, Readable

(* What a command loads is a conversation: an empty one, or one of a file of
   its project, the session's own if there is one. *)
LEMMA Loaded ==
  ASSUME TypeOK, NEW t \in Targets, NEW q \in world.prompts,
         memory[t][q] # Torn, NEW m \in LoadOrCreate(q, t)
  PROVE  /\ m \in Snapshot
         /\ m = NoMemory \/ \E s \in world.prompts : m = memory[t][s]
         /\ memory[t][q] # Absent => m = memory[t][q]
<1>1. CASE memory[t][q] # Absent
  BY <1>1, WholeFiles DEF LoadOrCreate
<1>2. CASE memory[t][q] = Absent
  <2>1. m \in Latest(t)
    BY <1>2 DEF LoadOrCreate
  <2>2. m = NoMemory \/ \E s \in world.prompts : Readable(memory[t][s]) /\ m = memory[t][s]
    BY <2>1 DEF Latest
  <2> QED BY <1>2, <2>2, WholeFiles, NoMemoryType
<1> QED BY <1>1, <1>2

-----------------------------------------------------------------------------
(* Types.                                                                   *)

LEMMA JobKinds ==
  /\ NoJob \notin Job /\ NoJob.kind = "none" /\ NoJob.n = 0
  /\ \A j \in Job : j.n \in Number /\ j.target \in Targets /\ j # NoJob
  /\ \A j \in Job : j.kind = "chat" => j.prompt \in world.prompts
  /\ \A j \in Job : j.kind \in {"chat", "build", "ship"}
  BY DEF Job, NoJob, Number

(* A process's job has the kind its step calls for. *)
LEMMA AtStep ==
  ASSUME TypeOK, NEW p \in Procs, pc[p] # "idle"
  PROVE  /\ job[p] \in Job
         /\ pc[p] \in {"ship", "open", "dump"} =>
              job[p].kind = "chat" /\ job[p].prompt \in world.prompts /\ held[p] \in Snapshot
         /\ job[p].kind = "chat" => held[p] \in Snapshot /\ job[p].prompt \in world.prompts
         /\ pc[p] = "reload" => job[p].kind = "ship"
         /\ job[p].kind # "chat" => held[p] = Nothing
<1>1. Fits(p) /\ job[p] \in Job \cup {NoJob} /\ pc[p] \in {"idle", "ship", "building", "open", "dump", "reload"}
  BY DEF TypeOK
<1> QED BY <1>1, JobKinds DEF Fits

LEMMA AppType ==
  ASSUME NEW n \in Number, NEW kind \in {"chat", "build", "ship"},
         NEW doc \in world.docs \cup {Synthesize(q) : q \in world.prompts},
         NEW over \in BOOLEAN
  PROVE  [by |-> n, kind |-> kind, ir |-> AppIR(doc), whole |-> FALSE, over |-> over] \in App
  BY DEF App

LEMMA MayStartBound ==
  ASSUME TypeOK, NEW p \in Procs, MayStart(p)
  PROVE  commands + 1 \in Number /\ commands + 1 \in 0 .. world.commands /\ pc[p] = "idle"
  BY ChatBuildAssumption DEF MayStart, TypeOK, World, Number

(* A process that changes nothing but its own step, job and hand keeps the
   fit of all. *)
LEMMA FitsKept ==
  ASSUME TypeOK, NEW p \in Procs, NEW step, NEW j, NEW h,
         pc' = [pc EXCEPT ![p] = step], job' = [job EXCEPT ![p] = j],
         held' = [held EXCEPT ![p] = h], world' = world,
         step \in {"idle", "ship", "building", "open", "dump", "reload"},
         j \in Job \cup {NoJob},
         step = "idle" <=> j = NoJob,
         step \in {"ship", "open", "dump"} => j.kind = "chat",
         step = "reload" => j.kind = "ship",
         h \in IF j.kind = "chat" THEN Snapshot ELSE {Nothing}
  PROVE  /\ pc' \in [Procs -> {"idle", "ship", "building", "open", "dump", "reload"}]
         /\ job' \in [Procs -> Job' \cup {NoJob}]
         /\ held' \in [Procs -> Snapshot' \cup {Nothing}]
         /\ \A r \in Procs : Fits(r)'
<1>1. Job' = Job /\ Snapshot' = Snapshot
  BY DEF Job, Snapshot, Turn, Failure
<1>2. pc' \in [Procs -> {"idle", "ship", "building", "open", "dump", "reload"}]
  BY DEF TypeOK
<1>3. job' \in [Procs -> Job' \cup {NoJob}]
  BY <1>1 DEF TypeOK
<1>4. h \in Snapshot \cup {Nothing}
  OBVIOUS
<1>5. held' \in [Procs -> Snapshot' \cup {Nothing}]
  BY <1>1, <1>4 DEF TypeOK
<1>6. ASSUME NEW r \in Procs PROVE Fits(r)'
  <2>1. CASE r = p
    <3>1. pc'[r] = step /\ job'[r] = j /\ held'[r] = h
      BY <2>1 DEF TypeOK
    <3> QED BY <3>1, <1>1 DEF Fits
  <2>2. CASE r # p
    <3>1. pc'[r] = pc[r] /\ job'[r] = job[r] /\ held'[r] = held[r]
      BY <2>2 DEF TypeOK
    <3>2. Fits(r)
      BY DEF TypeOK
    <3> QED BY <3>1, <3>2, <1>1 DEF Fits
  <2> QED BY <2>1, <2>2
<1> QED BY <1>2, <1>3, <1>5, <1>6

LEMMA SameSets ==
  ASSUME world' = world
  PROVE  Snapshot' = Snapshot /\ Job' = Job /\ App' = App
  BY DEF Snapshot, Job, App, Turn, Failure

(* The variables a step of a process leaves to it: the files, the apps and
   the history keep their types by themselves. *)
Stores ==
  /\ memory \in [Targets -> [world.prompts -> Snapshot \cup {Absent, Torn}]]
  /\ newer \in [Targets -> SUBSET (world.prompts \X world.prompts)]
  /\ app \in [Targets -> App \cup {NoApp}]
  /\ spec \in world.docs \cup {Nothing}
  /\ commands \in 0 .. world.commands /\ kills \in 0 .. world.kills
  /\ saved \in SUBSET [n : Number, prompt : world.prompts, target : Targets]
  /\ built \subseteq Number /\ edited \subseteq Number

Locals ==
  /\ pc \in [Procs -> {"idle", "ship", "building", "open", "dump", "reload"}]
  /\ job \in [Procs -> Job \cup {NoJob}]
  /\ held \in [Procs -> Snapshot \cup {Nothing}]
  /\ \A p \in Procs : Fits(p)

LEMMA Parts ==
  /\ TypeOK <=> world \in Worlds /\ Stores /\ Locals
  /\ world' \in Worlds /\ Stores' /\ Locals' => TypeOK'
  BY DEF TypeOK, Stores, Locals

(* A process that goes on, perhaps with another snapshot in hand. *)
LEMMA GoesOn ==
  ASSUME TypeOK, NEW p \in Procs, pc[p] # "idle", world' = world, job' = job,
         NEW step, pc' = [pc EXCEPT ![p] = step],
         \/ step = "building"
         \/ step \in {"open", "dump"} /\ job[p].kind = "chat",
         \/ held' = held
         \/ job[p].kind = "chat" /\ \E m \in Snapshot : held' = [held EXCEPT ![p] = m]
  PROVE  Locals'
<1>1. job' = [job EXCEPT ![p] = job[p]]
  BY DEF TypeOK
<1>2. PICK h : held' = [held EXCEPT ![p] = h] /\ (h = held[p] \/ (job[p].kind = "chat" /\ h \in Snapshot))
  <2>1. held = [held EXCEPT ![p] = held[p]]
    BY DEF TypeOK
  <2> QED BY <2>1
<1>3. job[p] \in Job \cup {NoJob} /\ (step = "idle" <=> job[p] = NoJob)
  BY AtStep, JobKinds
<1>4. h \in IF job[p].kind = "chat" THEN Snapshot ELSE {Nothing}
  BY <1>2, AtStep
<1> QED BY <1>1, <1>2, <1>3, <1>4, FitsKept DEF Locals

(* A process that ends. *)
LEMMA EndsTyped ==
  ASSUME TypeOK, NEW p \in Procs, world' = world, Ends(p)
  PROVE  Locals'
  BY FitsKept, JobKinds DEF Ends, Locals, NoJob

LEMMA BeginTyped ==
  ASSUME TypeOK, NEW p \in Procs, pc[p] # "idle", world' = world,
         NEW doc \in world.docs \cup {Synthesize(q) : q \in world.prompts},
         Begin(p, job[p].target, AppIR(doc))
  PROVE  app' \in [Targets -> App' \cup {NoApp}]
<1>1. job[p] \in Job /\ job[p].n \in Number /\ job[p].kind \in {"chat", "build", "ship"}
  BY AtStep, JobKinds
<1> DEFINE over == app[job[p].target] # NoApp
<1>2. over \in BOOLEAN
  OBVIOUS
<1> HIDE DEF over
<1>3. [by |-> job[p].n, kind |-> job[p].kind, ir |-> AppIR(doc), whole |-> FALSE,
       over |-> over] \in App
  BY <1>1, <1>2, AppType
<1>4. app' = [app EXCEPT ![job[p].target] =
                [by |-> job[p].n, kind |-> job[p].kind, ir |-> AppIR(doc),
                 whole |-> FALSE, over |-> over]]
  BY DEF Begin, over
<1> QED BY <1>3, <1>4, SameSets DEF TypeOK

LEMMA InitTyped == Init => TypeOK
<1> SUFFICES ASSUME Init PROVE TypeOK
  OBVIOUS
<1>1. world.commands \in Nat /\ world.kills \in Nat
  BY ChatBuildAssumption DEF Init, World
<1>2. Stores
  BY <1>1 DEF Init, Stores
<1>3. Locals
  BY JobKinds DEF Init, Locals, Fits
<1> QED BY <1>2, <1>3, Parts DEF Init

LEMMA ChatTyped ==
  ASSUME TypeOK, NEW p \in Procs, NEW q \in world.prompts, NEW t \in Targets,
         NEW approve \in BOOLEAN, StartChat(p, q, t, approve)
  PROVE  TypeOK'
<1>1. commands' \in Number /\ commands' \in 0 .. world'.commands /\ world' = world
  BY MayStartBound DEF StartChat
<1> DEFINE j == [kind |-> "chat", n |-> commands', prompt |-> q, target |-> t]
<1>2. j \in Job /\ job' = [job EXCEPT ![p] = j] /\ j.kind = "chat" /\ j # NoJob
  BY <1>1, JobKinds DEF StartChat, Job
<1>3. PICK loaded \in LoadOrCreate(q, t) :
        LET m == WithTurn(loaded, commands', q) IN
        IF Unsupported(q) # {}
        THEN /\ held' = [held EXCEPT ![p] = WithFailure(m, commands', "unsupported_request")]
             /\ pc' = [pc EXCEPT ![p] = "open"]
        ELSE /\ held' = [held EXCEPT ![p] = m]
             /\ pc' = [pc EXCEPT ![p] = IF approve THEN "ship" ELSE "open"]
  BY DEF StartChat
<1> DEFINE m == WithTurn(loaded, commands', q)
           f == WithFailure(m, commands', "unsupported_request")
<1>4. m \in Snapshot /\ f \in Snapshot
  <2>1. loaded \in Snapshot
    BY <1>3, Loaded DEF StartChat
  <2>2. m \in Snapshot
    BY <1>1, <2>1, WithTurnType
  <2> HIDE DEF m
  <2> QED BY <1>1, <2>2, WithFailureType
<1>5. PICK h \in Snapshot, step \in {"open", "ship"} :
        held' = [held EXCEPT ![p] = h] /\ pc' = [pc EXCEPT ![p] = step]
  <2> HIDE DEF m, f
  <2>1. CASE Unsupported(q) # {}
    BY <1>3, <1>4, <2>1 DEF m, f
  <2>2. CASE Unsupported(q) = {}
    BY <1>3, <1>4, <2>2 DEF m
  <2> QED BY <2>1, <2>2
<1> HIDE DEF j, m, f
<1>6. Locals'
  BY <1>1, <1>2, <1>5, FitsKept DEF Locals
<1>7. Stores'
  BY <1>1, SameSets DEF StartChat, TypeOK, Stores, files, history
<1> QED BY <1>1, <1>6, <1>7, Parts DEF TypeOK

LEMMA ShipTyped ==
  ASSUME TypeOK, NEW p \in Procs, ShipRefuses(p) \/ ShipBegins(p)
  PROVE  TypeOK'
<1>1. /\ pc[p] = "ship" /\ world' = world
      /\ job[p].kind = "chat" /\ job[p].prompt \in world.prompts
      /\ job[p].n \in Number /\ held[p] \in Snapshot
  BY AtStep, JobKinds DEF ShipRefuses, ShipBegins
<1>2. CASE ShipRefuses(p)
  <2>1. WithFailure(held[p], job[p].n, "build_failure") \in Snapshot
    BY <1>1, WithFailureType
  <2>2. Locals'
    BY <1>1, <1>2, <2>1, GoesOn DEF ShipRefuses
  <2>3. Stores'
    BY <1>1, <1>2, SameSets DEF ShipRefuses, TypeOK, Stores, files, history
  <2> QED BY <1>1, <2>2, <2>3, Parts DEF TypeOK
<1>3. CASE ShipBegins(p)
  <2>1. Begin(p, job[p].target, AppIR(Synthesize(job[p].prompt)))
    BY <1>3 DEF ShipBegins
  <2>2. Locals'
    BY <1>1, <1>3, <2>1, GoesOn DEF ShipBegins, Begin
  <2>3. app' \in [Targets -> App' \cup {NoApp}]
    BY <1>1, <2>1, BeginTyped
  <2>4. Stores'
    BY <1>1, <1>3, <2>3, SameSets DEF ShipBegins, TypeOK, Stores, files, history
  <2> QED BY <1>1, <2>2, <2>4, Parts DEF TypeOK
<1> QED BY <1>2, <1>3

LEMMA BuildTyped ==
  ASSUME TypeOK, NEW p \in Procs, BuildCompletes(p) \/ BuildRaises(p)
  PROVE  TypeOK'
<1>1. /\ pc[p] = "building" /\ world' = world
      /\ job[p] \in Job /\ job[p].n \in Number /\ job[p].target \in Targets
      /\ job[p].kind = "chat" => held[p] \in Snapshot
  BY AtStep, JobKinds DEF BuildCompletes, BuildRaises
<1>2. job[p].kind = "chat" =>
        /\ WithFailure(held[p], job[p].n, "build_failure") \in Snapshot
        /\ WithComponent(held[p], job[p].n) \in Snapshot
  BY <1>1, WithFailureType, WithComponentType
<1>3. Locals'
  <2>1. CASE job[p].kind = "chat"
    <3>1. \E m \in Snapshot : held' = [held EXCEPT ![p] = m]
      BY <1>2, <2>1 DEF BuildCompletes, BuildRaises
    <3> QED BY <1>1, <2>1, <3>1, GoesOn DEF BuildCompletes, BuildRaises, Continues
  <2>2. CASE job[p].kind # "chat"
    BY <1>1, <2>2, EndsTyped DEF BuildCompletes, BuildRaises
  <2> QED BY <2>1, <2>2
<1>4. app' \in [Targets -> App \cup {NoApp}]
  <2>1. CASE UNCHANGED app
    BY <2>1 DEF TypeOK
  <2>2. CASE Mine(p) /\ app' = [app EXCEPT ![job[p].target].whole = TRUE]
    <3>1. app[job[p].target] \in App
      BY <1>1, <2>2 DEF TypeOK, Mine, NoApp, Number
    <3>2. [app[job[p].target] EXCEPT !.whole = TRUE] \in App
      BY <3>1 DEF App
    <3> QED BY <1>1, <2>2, <3>2 DEF TypeOK
  <2> QED BY <2>1, <2>2 DEF BuildCompletes, BuildRaises
<1>5. Stores'
  BY <1>1, <1>4, SameSets
  DEF BuildCompletes, BuildRaises, TypeOK, Stores, files, history
<1> QED BY <1>1, <1>3, <1>5, Parts DEF TypeOK

LEMMA MemoryTyped ==
  ASSUME TypeOK, NEW p \in Procs, OpenMemory(p) \/ DumpMemory(p)
  PROVE  TypeOK'
<1>1. /\ pc[p] # "idle" /\ world' = world /\ job[p].kind = "chat"
      /\ job[p].prompt \in world.prompts /\ job[p].target \in Targets
      /\ job[p].n \in Number /\ held[p] \in Snapshot
  BY AtStep, JobKinds DEF OpenMemory, DumpMemory
<1>2. Locals'
  <2>1. CASE OpenMemory(p)
    BY <1>1, <2>1, GoesOn DEF OpenMemory
  <2>2. CASE DumpMemory(p)
    BY <1>1, <2>2, EndsTyped DEF DumpMemory
  <2> QED BY <2>1, <2>2
<1>3. memory' \in [Targets -> [world.prompts -> Snapshot \cup {Absent, Torn}]]
  <2>1. PICK left \in Snapshot \cup {Absent, Torn} :
          memory' = [memory EXCEPT ![job[p].target][job[p].prompt] = left]
    BY <1>1 DEF OpenMemory, DumpMemory
  <2> QED BY <1>1, <2>1 DEF TypeOK
<1>4. newer' \in [Targets -> SUBSET (world.prompts \X world.prompts)]
  BY <1>1 DEF OpenMemory, DumpMemory, Touch, TypeOK
<1>5. saved' \in SUBSET [n : Number, prompt : world.prompts, target : Targets]
  BY <1>1 DEF OpenMemory, DumpMemory, TypeOK, history
<1>6. Stores'
  BY <1>1, <1>3, <1>4, <1>5, SameSets DEF OpenMemory, DumpMemory, TypeOK, Stores, history
<1> QED BY <1>1, <1>2, <1>6, Parts DEF TypeOK

LEMMA OperatorTyped ==
  ASSUME TypeOK, NEW p \in Procs, NEW t \in Targets,
         StartBuild(p, t) \/ StartShip(p, t) \/ Reload(p)
  PROVE  TypeOK'
<1>1. CASE StartBuild(p, t)
  <2>1. /\ commands' \in Number /\ commands' \in 0 .. world'.commands /\ world' = world
        /\ commands' = commands + 1 /\ pc[p] = "idle"
    BY <1>1, MayStartBound DEF StartBuild
  <2>2. [kind |-> "build", n |-> commands', target |-> t] \in Job
    BY <2>1 DEF Job
  <2>3. held' = [held EXCEPT ![p] = Nothing]
    BY <1>1, <2>1 DEF StartBuild, TypeOK, Fits, NoJob
  <2>4. Locals'
    BY <1>1, <2>1, <2>2, <2>3, JobKinds, FitsKept DEF StartBuild, Locals
  <2>5. spec \in world.docs
    BY <1>1 DEF StartBuild, TypeOK
  <2> DEFINE over == app[t] # NoApp
  <2>6. over \in BOOLEAN
    OBVIOUS
  <2> HIDE DEF over
  <2>7. [by |-> commands', kind |-> "build", ir |-> AppIR(spec), whole |-> FALSE,
         over |-> over] \in App
    BY <2>1, <2>5, <2>6, AppType
  <2>8. app' = [app EXCEPT ![t] = [by |-> commands', kind |-> "build", ir |-> AppIR(spec),
                                   whole |-> FALSE, over |-> over]]
    BY <1>1 DEF StartBuild, over
  <2>9. Stores'
    BY <1>1, <2>1, <2>7, <2>8, SameSets DEF StartBuild, TypeOK, Stores, files, history
  <2> QED BY <2>1, <2>4, <2>9, Parts DEF TypeOK
<1>2. CASE StartShip(p, t)
  <2>1. /\ commands' \in Number /\ commands' \in 0 .. world'.commands /\ world' = world
        /\ commands' = commands + 1 /\ pc[p] = "idle"
    BY <1>2, MayStartBound DEF StartShip
  <2>2. [kind |-> "ship", n |-> commands', target |-> t] \in Job
    BY <2>1 DEF Job
  <2>3. held' = [held EXCEPT ![p] = Nothing]
    BY <1>2, <2>1 DEF StartShip, TypeOK, Fits, NoJob
  <2>4. Locals'
    BY <1>2, <2>1, <2>2, <2>3, JobKinds, FitsKept DEF StartShip, Locals
  <2>5. Stores'
    BY <1>2, <2>1, SameSets DEF StartShip, TypeOK, Stores, files, history
  <2> QED BY <2>1, <2>4, <2>5, Parts DEF TypeOK
<1>3. CASE Reload(p)
  <2>1. pc[p] = "reload" /\ world' = world /\ job[p].target \in Targets
    BY <1>3, AtStep, JobKinds DEF Reload
  <2>2. CASE spec # Nothing /\ BuildAccepts(spec)
    <3>1. Begin(p, job[p].target, AppIR(spec)) /\ UNCHANGED <<job, held>>
      BY <1>3, <2>2 DEF Reload
    <3>2. spec \in world.docs
      BY <2>2 DEF TypeOK
    <3>3. app' \in [Targets -> App' \cup {NoApp}]
      BY <2>1, <3>1, <3>2, BeginTyped
    <3>4. Locals'
      BY <2>1, <3>1, GoesOn DEF Begin
    <3>5. Stores'
      BY <1>3, <2>1, <3>3, SameSets DEF Reload, TypeOK, Stores, files, history
    <3> QED BY <2>1, <3>4, <3>5, Parts DEF TypeOK
  <2>3. CASE ~(spec # Nothing /\ BuildAccepts(spec))
    <3>1. Ends(p) /\ UNCHANGED app
      BY <1>3, <2>3 DEF Reload
    <3>2. Locals'
      BY <2>1, <3>1, EndsTyped
    <3>3. Stores'
      BY <1>3, <2>1, <3>1, SameSets DEF Reload, TypeOK, Stores, files, history
    <3> QED BY <2>1, <3>2, <3>3, Parts DEF TypeOK
  <2> QED BY <2>2, <2>3
<1> QED BY <1>1, <1>2, <1>3

LEMMA OutsideTyped ==
  ASSUME TypeOK, (\E p \in Procs : Kill(p)) \/ (\E doc \in world.docs : OperatorEdits(doc))
  PROVE  TypeOK'
<1>1. ASSUME NEW p \in Procs, Kill(p) PROVE TypeOK'
  <2>1. Locals' /\ world' = world
    BY <1>1, EndsTyped DEF Kill
  <2>2. world.kills \in Nat
    BY ChatBuildAssumption DEF TypeOK, World
  <2>3. Stores'
    BY <1>1, <2>1, <2>2, SameSets DEF Kill, TypeOK, Stores, files, history
  <2> QED BY <2>1, <2>3, Parts DEF TypeOK
<1>2. ASSUME NEW doc \in world.docs, OperatorEdits(doc) PROVE TypeOK'
  <2>1. \A p \in Procs : pc[p] = "reload" => job[p].n \in Number
    BY AtStep, JobKinds
  <2>2. edited' \subseteq Number
    BY <1>2, <2>1 DEF OperatorEdits, TypeOK
  <2>3. world' = world
    BY <1>2 DEF OperatorEdits
  <2>4. Stores'
    BY <1>2, <2>2, <2>3, SameSets DEF OperatorEdits, TypeOK, Stores, files
  <2>5. Locals'
    BY <1>2, <2>3, SameSets DEF OperatorEdits, TypeOK, Locals, locals, Fits
  <2> QED BY <2>3, <2>4, <2>5, Parts DEF TypeOK
<1> QED BY <1>1, <1>2

LEMMA StutterTyped == TypeOK /\ UNCHANGED vars => TypeOK'
<1> SUFFICES ASSUME TypeOK, UNCHANGED vars PROVE TypeOK'
  OBVIOUS
<1>1. world' = world /\ UNCHANGED <<files, app, spec, locals, commands, kills, history>>
  BY DEF vars
<1>2. Stores'
  BY <1>1, SameSets DEF TypeOK, Stores, files, history
<1>3. Locals'
  BY <1>1, SameSets DEF TypeOK, Locals, locals, Fits
<1> QED BY <1>1, <1>2, <1>3, Parts DEF TypeOK

LEMMA TypeNext == TypeOK /\ [Next]_vars => TypeOK'
<1> SUFFICES ASSUME TypeOK, [Next]_vars PROVE TypeOK'
  OBVIOUS
<1>1. CASE UNCHANGED vars
  BY <1>1, StutterTyped
<1>2. CASE \E doc \in world.docs : OperatorEdits(doc)
  BY <1>2, OutsideTyped
<1>3. ASSUME NEW p \in Procs, Work(p) \/ Kill(p) PROVE TypeOK'
  <2>1. CASE Reload(p)
    <3>1. job[p].target \in Targets
      BY <2>1, AtStep, JobKinds DEF Reload
    <3> QED BY <2>1, <3>1, OperatorTyped
  <2> QED BY <1>3, <2>1, ShipTyped, BuildTyped, MemoryTyped, OutsideTyped DEF Work
<1>4. ASSUME NEW p \in Procs, NEW q \in world.prompts, NEW t \in Targets,
             NEW approve \in BOOLEAN, StartChat(p, q, t, approve)
      PROVE  TypeOK'
  BY <1>4, ChatTyped
<1>5. ASSUME NEW p \in Procs, NEW t \in Targets, StartBuild(p, t) \/ StartShip(p, t)
      PROVE  TypeOK'
  BY <1>5, OperatorTyped
<1> QED BY <1>1, <1>2, <1>3, <1>4, <1>5 DEF Next

(* No process ever holds on to what its command has loaded, and all files keep
   their form. *)
THEOREM TypeCorrect == Spec => []TypeOK
  BY InitTyped, TypeNext, PTL DEF Spec

-----------------------------------------------------------------------------
(* Conversations explain themselves.                                        *)

LEMMA AppendRange ==
  ASSUME NEW S, NEW s \in Seq(S), NEW e \in S
  PROVE  /\ Range(Append(s, e)) = Range(s) \cup {e}
         /\ Len(Append(s, e)) = Len(s) + 1 /\ Append(s, e)[Len(s) + 1] = e
         /\ \A i \in DOMAIN s : Append(s, e)[i] = s[i]
         /\ DOMAIN Append(s, e) = DOMAIN s \cup {Len(s) + 1}
         /\ Range(s) \subseteq S
<1>1. /\ DOMAIN Append(s, e) = 1 .. Len(s) + 1 /\ DOMAIN s = 1 .. Len(s) /\ Len(s) \in Nat
      /\ \A i \in 1 .. Len(s) : Append(s, e)[i] = s[i]
      /\ Append(s, e)[Len(s) + 1] = e /\ Len(Append(s, e)) = Len(s) + 1
  OBVIOUS
<1>2. Range(Append(s, e)) = Range(s) \cup {e}
  BY <1>1 DEF Range
<1>3. Range(s) \subseteq S
  BY DEF Range
<1> QED BY <1>1, <1>2, <1>3

(* Accounts, apart from what was really built. *)
Consistent(turns, failures, components) ==
  /\ \A f \in failures : \E u \in turns :
       u.n = f.n /\ (f.kind = "unsupported_request" <=> Unsupported(u.prompt) # {})
  /\ \A u \in turns : Unsupported(u.prompt) # {} => \E f \in failures : f.n = u.n
  /\ \A c \in components : (\E u \in turns : u.n = c) /\ (\A f \in failures : f.n # c)

(* The conversation m explains itself after the builds b and the first c
   commands, and has no entry of a later one. *)
Explained(m, b, c) ==
  /\ InOrder(m.turns)
  /\ Consistent(Range(m.turns), Range(m.failures), Range(m.components))
  /\ Range(m.components) \subseteq b
  /\ \A u \in Range(m.turns) : u.n <= c
  /\ \A f \in Range(m.failures) : f.n <= c
  /\ \A k \in Range(m.components) : k <= c

(* The last turn is n's, the session q's. *)
LastTurn(m, n, q) ==
  /\ Len(m.turns) > 0
  /\ m.turns[Len(m.turns)] = [n |-> n, prompt |-> q]

(* Nothing is said of the command n but its turn. *)
Unsaid(m, n) ==
  /\ \A f \in Range(m.failures) : f.n # n
  /\ \A c \in Range(m.components) : c # n

Told ==
  \A t \in Targets, q \in world.prompts :
    memory[t][q] \in Snapshot =>
      /\ Explained(memory[t][q], built, commands)
      /\ \E n \in Number : LastTurn(memory[t][q], n, q)

(* What a command j has in hand at a step: a conversation that ends with its
   own turn, and has said nothing of it while its build is still to come. *)
InHand(h, j, step, b, c) ==
  j.kind = "chat" =>
    /\ Explained(h, b, c)
    /\ LastTurn(h, j.n, j.prompt)
    /\ j.n <= c
    /\ step \in {"ship", "building"} =>
         Unsupported(j.prompt) = {} /\ Unsaid(h, j.n)

Telling == \A p \in Procs : InHand(held[p], job[p], pc[p], built, commands)

Tells == TypeOK /\ Told /\ Telling

LEMMA ExplainedIsEnough ==
  ASSUME NEW m, Explained(m, built, commands)
  PROVE  Explains(m)
<1>1. Consistent(Range(m.turns), Range(m.failures), Range(m.components))
      /\ Range(m.components) \subseteq built /\ InOrder(m.turns)
  BY DEF Explained
<1>2. Accounts(Range(m.turns), Range(m.failures), Range(m.components))
  BY <1>1 DEF Consistent, Accounts
<1> QED BY <1>1, <1>2 DEF Explains

LEMMA TellsIsEnough == Tells => MemoryExplains
<1> SUFFICES ASSUME Tells PROVE MemoryExplains
  OBVIOUS
<1>1. ASSUME NEW t \in Targets, NEW q \in world.prompts, Readable(memory[t][q])
      PROVE  /\ Explains(memory[t][q])
             /\ memory[t][q].turns[Len(memory[t][q].turns)].prompt = q
  <2>1. memory[t][q] \in Snapshot
    BY <1>1, WholeFiles DEF Tells
  <2>2. /\ Explained(memory[t][q], built, commands)
        /\ \E n \in Number : LastTurn(memory[t][q], n, q)
    BY <2>1 DEF Tells, Told
  <2>3. memory[t][q].turns[Len(memory[t][q].turns)].prompt = q
    BY <2>2 DEF LastTurn
  <2> QED BY <2>2, <2>3, ExplainedIsEnough
<1>2. ASSUME NEW p \in Procs, Readable(held[p]) PROVE Explains(held[p])
  <2>1. held[p] # Nothing
    BY <1>2 DEF Readable, Nothing
  <2>2. job[p].kind = "chat"
    BY <2>1 DEF Tells, TypeOK, Fits
  <2>3. Explained(held[p], built, commands)
    BY <2>2 DEF Tells, Telling, InHand
  <2> QED BY <2>3, ExplainedIsEnough
<1> QED BY <1>1, <1>2 DEF MemoryExplains

(* An entry of a whole conversation has a number. *)
LEMMA Numbered ==
  ASSUME NEW m \in Snapshot
  PROVE  /\ \A u \in Range(m.turns) : u \in Turn /\ u.n \in Nat
         /\ \A f \in Range(m.failures) : f \in Failure /\ f.n \in Nat
         /\ \A c \in Range(m.components) : c \in Nat
         /\ Len(m.turns) \in Nat /\ DOMAIN m.turns = 1 .. Len(m.turns)
         /\ m.turns \in Seq(Turn) /\ m.failures \in Seq(Failure)
         /\ m.components \in Seq(Number)
<1>1. m.turns \in Seq(Turn) /\ m.failures \in Seq(Failure) /\ m.components \in Seq(Number)
  BY DEF Snapshot
<1>2. /\ \A u \in Range(m.turns) : u \in Turn
      /\ \A f \in Range(m.failures) : f \in Failure
      /\ \A c \in Range(m.components) : c \in Number
  BY <1>1 DEF Range
<1> QED BY <1>1, <1>2 DEF Turn, Failure, Number

(* A younger command is in none of the entries. *)
LEMMA Older ==
  ASSUME NEW m \in Snapshot, NEW n, NEW b, NEW c \in Nat, Explained(m, b, c), n = c + 1
  PROVE  /\ \A u \in Range(m.turns) : u.n < n /\ u.n <= n
         /\ \A f \in Range(m.failures) : f.n # n /\ f.n <= n
         /\ \A k \in Range(m.components) : k # n /\ k <= n
<1>1. \A k \in Nat : k <= c => k < n /\ k <= n /\ k # n
  OBVIOUS
<1>2. /\ \A u \in Range(m.turns) : u.n \in Nat /\ u.n <= c
      /\ \A f \in Range(m.failures) : f.n \in Nat /\ f.n <= c
      /\ \A k \in Range(m.components) : k \in Nat /\ k <= c
  BY Numbered DEF Explained
<1> QED BY <1>1, <1>2

(* A new turn of a command younger than every entry. *)
LEMMA TurnTold ==
  ASSUME NEW m \in Snapshot, NEW n \in Number, NEW q \in world.prompts,
         NEW b, NEW c \in Nat, Explained(m, b, c), n = c + 1,
         NEW w, w = WithTurn(m, n, q)
  PROVE  /\ w \in Snapshot
         /\ InOrder(w.turns)
         /\ Unsaid(w, n) /\ LastTurn(w, n, q)
         /\ Range(w.turns) = Range(m.turns) \cup {[n |-> n, prompt |-> q]}
         /\ Range(w.failures) = Range(m.failures) /\ Range(w.components) = Range(m.components)
<1> DEFINE u == [n |-> n, prompt |-> q]
<1>1. /\ w \in Snapshot /\ w.turns = Append(m.turns, u)
      /\ w.failures = m.failures /\ w.components = m.components
  BY WithTurnType
<1>2. u \in Turn /\ u.n = n
  BY DEF Turn
<1> HIDE DEF u
<1>3. /\ Range(w.turns) = Range(m.turns) \cup {u}
      /\ Len(w.turns) = Len(m.turns) + 1 /\ w.turns[Len(m.turns) + 1] = u
      /\ \A i \in DOMAIN m.turns : w.turns[i] = m.turns[i]
      /\ DOMAIN w.turns = DOMAIN m.turns \cup {Len(m.turns) + 1}
  <2>1. m.turns \in Seq(Turn)
    BY Numbered
  <2>2. LET a == Append(m.turns, u) IN
          /\ Range(a) = Range(m.turns) \cup {u}
          /\ Len(a) = Len(m.turns) + 1 /\ a[Len(m.turns) + 1] = u
          /\ \A i \in DOMAIN m.turns : a[i] = m.turns[i]
          /\ DOMAIN a = DOMAIN m.turns \cup {Len(m.turns) + 1}
    BY <1>2, <2>1, AppendRange
  <2> QED BY <1>1, <2>2
<1>4. InOrder(w.turns)
  <2>1. ASSUME NEW i \in DOMAIN w.turns, NEW j \in DOMAIN w.turns, i < j
        PROVE  w.turns[i].n < w.turns[j].n
    <3>1. CASE j \in DOMAIN m.turns
      <4>1. i \in DOMAIN m.turns
        BY <1>3, <2>1, <3>1, Numbered
      <4> QED BY <1>3, <2>1, <3>1, <4>1 DEF Explained, InOrder
    <3>2. CASE j = Len(m.turns) + 1
      <4>1. i \in DOMAIN m.turns
        BY <1>3, <2>1, <3>2, Numbered
      <4>2. m.turns[i] \in Range(m.turns)
        BY <4>1 DEF Range
      <4>3. m.turns[i].n < n
        BY <4>2, Older
      <4>4. w.turns[i] = m.turns[i] /\ w.turns[j] = u
        BY <1>3, <3>2, <4>1
      <4> QED BY <1>2, <4>3, <4>4
    <3> QED BY <1>3, <3>1, <3>2
  <2> QED BY <2>1 DEF InOrder
<1>5. Unsaid(w, n)
  BY <1>1, Older DEF Unsaid
<1>6. LastTurn(w, n, q)
  <2>1. Len(m.turns) \in Nat
    BY Numbered
  <2> QED BY <1>3, <2>1 DEF LastTurn, u
<1> QED BY <1>1, <1>3, <1>4, <1>5, <1>6 DEF u

(* What an entry more does to an account. *)
LEMMA SupportedTurn ==
  ASSUME NEW T, NEW F, NEW C, NEW u, Consistent(T, F, C), Unsupported(u.prompt) = {}
  PROVE  Consistent(T \cup {u}, F, C)
  BY DEF Consistent

LEMMA RefusedTurn ==
  ASSUME NEW T, NEW F, NEW C, NEW u, NEW f, Consistent(T, F, C), Unsupported(u.prompt) # {},
         f.n = u.n, f.kind = "unsupported_request", \A c \in C : c # u.n
  PROVE  Consistent(T \cup {u}, F \cup {f}, C)
  BY DEF Consistent

LEMMA FailedTurn ==
  ASSUME NEW T, NEW F, NEW C, NEW u \in T, NEW f, Consistent(T, F, C),
         Unsupported(u.prompt) = {}, f.n = u.n, f.kind = "build_failure",
         \A c \in C : c # u.n
  PROVE  Consistent(T, F \cup {f}, C)
<1> DEFINE mine(g) == \E x \in T :
             x.n = g.n /\ (g.kind = "unsupported_request" <=> Unsupported(x.prompt) # {})
<1>1. mine(f)
  OBVIOUS
<1>2. \A g \in F : mine(g)
  BY DEF Consistent
<1> HIDE DEF mine
<1>3. \A g \in F \cup {f} : mine(g)
  BY <1>1, <1>2
<1>4. \A x \in T : Unsupported(x.prompt) # {} => \E g \in F \cup {f} : g.n = x.n
  BY DEF Consistent
<1>5. \A c \in C : (\E x \in T : x.n = c) /\ \A g \in F \cup {f} : g.n # c
  BY DEF Consistent
<1> QED BY <1>3, <1>4, <1>5 DEF Consistent, mine

LEMMA BuiltTurn ==
  ASSUME NEW T, NEW F, NEW C, NEW u \in T, NEW c, Consistent(T, F, C),
         c = u.n, \A f \in F : f.n # c
  PROVE  Consistent(T, F, C \cup {c})
  BY DEF Consistent

LEMMA FailureLists ==
  ASSUME NEW m \in Snapshot, NEW n \in Number,
         NEW kind \in {"unsupported_request", "build_failure"},
         NEW w, w = WithFailure(m, n, kind)
  PROVE  /\ w \in Snapshot /\ w.turns = m.turns /\ w.components = m.components
         /\ Range(w.failures) = Range(m.failures) \cup {[n |-> n, kind |-> kind]}
<1> DEFINE f == [n |-> n, kind |-> kind]
<1>1. /\ w \in Snapshot /\ w.turns = m.turns /\ w.failures = Append(m.failures, f)
      /\ w.components = m.components
  BY WithFailureType
<1>2. f \in Failure
  BY DEF Failure
<1>3. m.failures \in Seq(Failure)
  BY Numbered
<1> HIDE DEF f
<1>4. Range(Append(m.failures, f)) = Range(m.failures) \cup {f}
  BY <1>2, <1>3, AppendRange
<1> QED BY <1>1, <1>4 DEF f

LEMMA ComponentLists ==
  ASSUME NEW m \in Snapshot, NEW n \in Number, NEW w, w = WithComponent(m, n)
  PROVE  /\ w \in Snapshot /\ w.turns = m.turns /\ w.failures = m.failures
         /\ Range(w.components) = Range(m.components) \cup {n}
<1>1. /\ w \in Snapshot /\ w.turns = m.turns /\ w.failures = m.failures
      /\ w.components = Append(m.components, n)
  BY WithComponentType
<1>2. m.components \in Seq(Number)
  BY Numbered
<1>3. Range(Append(m.components, n)) = Range(m.components) \cup {n}
  BY <1>2, AppendRange
<1> QED BY <1>1, <1>3

LEMMA LastIsTurn ==
  ASSUME NEW m \in Snapshot, NEW n, NEW q, LastTurn(m, n, q)
  PROVE  [n |-> n, prompt |-> q] \in Range(m.turns)
<1>1. DOMAIN m.turns = 1 .. Len(m.turns) /\ Len(m.turns) \in Nat
  BY Numbered
<1>2. Len(m.turns) \in DOMAIN m.turns
  BY <1>1 DEF LastTurn
<1> QED BY <1>2 DEF LastTurn, Range

(* The turn of a prompt that can be built explains itself at once. *)
LEMMA SupportedTold ==
  ASSUME NEW m \in Snapshot, NEW n \in Number, NEW q \in world.prompts,
         NEW b, NEW c \in Nat, Explained(m, b, c), n = c + 1,
         NEW w, w = WithTurn(m, n, q), Unsupported(q) = {}
  PROVE  Explained(w, b, n) /\ Unsaid(w, n) /\ LastTurn(w, n, q) /\ w \in Snapshot
<1> DEFINE u == [n |-> n, prompt |-> q]
<1>1. /\ w \in Snapshot /\ InOrder(w.turns) /\ Unsaid(w, n) /\ LastTurn(w, n, q)
      /\ Range(w.turns) = Range(m.turns) \cup {u}
      /\ Range(w.failures) = Range(m.failures) /\ Range(w.components) = Range(m.components)
  BY TurnTold
<1>2. u.n = n /\ u.prompt = q
  OBVIOUS
<1> HIDE DEF u
<1>3. Consistent(Range(w.turns), Range(w.failures), Range(w.components))
  BY <1>1, <1>2, SupportedTurn DEF Explained
<1>4. /\ \A x \in Range(w.turns) : x.n <= n
      /\ \A f \in Range(w.failures) : f.n <= n
      /\ \A k \in Range(w.components) : k <= n
  <2>1. n <= n
    BY DEF Number
  <2> QED BY <1>1, <1>2, <2>1, Older
<1> QED BY <1>1, <1>3, <1>4 DEF Explained

(* The turn of one that cannot needs its refusal. *)
LEMMA RefusedTold ==
  ASSUME NEW m \in Snapshot, NEW n \in Number, NEW q \in world.prompts,
         NEW b, NEW c \in Nat, Explained(m, b, c), n = c + 1,
         NEW w, w = WithTurn(m, n, q), Unsupported(q) # {},
         NEW v, v = WithFailure(w, n, "unsupported_request")
  PROVE  Explained(v, b, n) /\ LastTurn(v, n, q) /\ v \in Snapshot
<1> DEFINE u == [n |-> n, prompt |-> q]
           f == [n |-> n, kind |-> "unsupported_request"]
<1>1. /\ w \in Snapshot /\ InOrder(w.turns) /\ Unsaid(w, n) /\ LastTurn(w, n, q)
      /\ Range(w.turns) = Range(m.turns) \cup {u}
      /\ Range(w.failures) = Range(m.failures) /\ Range(w.components) = Range(m.components)
  BY TurnTold
<1>2. /\ v \in Snapshot /\ v.turns = w.turns /\ v.components = w.components
      /\ Range(v.failures) = Range(w.failures) \cup {f}
  <2>1. w \in Snapshot
    BY <1>1
  <2> HIDE DEF u
  <2> QED BY <2>1, FailureLists
<1>3. u.n = n /\ u.prompt = q /\ f.n = n /\ f.kind = "unsupported_request"
  OBVIOUS
<1> HIDE DEF u, f
<1>4. Consistent(Range(m.turns) \cup {u}, Range(m.failures) \cup {f}, Range(m.components))
  <2>1. \A k \in Range(m.components) : k # u.n
    BY <1>1, <1>3 DEF Unsaid
  <2>2. Consistent(Range(m.turns), Range(m.failures), Range(m.components))
    BY DEF Explained
  <2> QED BY <1>3, <2>1, <2>2, RefusedTurn
<1>5. /\ \A x \in Range(v.turns) : x.n <= n
      /\ \A g \in Range(v.failures) : g.n <= n
      /\ \A k \in Range(v.components) : k <= n
  <2>1. n <= n
    BY DEF Number
  <2> QED BY <1>1, <1>2, <1>3, <2>1, Older
<1>6. LastTurn(v, n, q)
  BY <1>1, <1>2 DEF LastTurn
<1> QED BY <1>1, <1>2, <1>4, <1>5, <1>6 DEF Explained

(* A build of the last turn's command that fails, or completes. *)
LEMMA FailureTold ==
  ASSUME NEW m \in Snapshot, NEW n \in Number, NEW q, NEW b, NEW c \in Nat,
         Explained(m, b, c), Unsaid(m, n), LastTurn(m, n, q), n <= c,
         Unsupported(q) = {}, NEW w, w = WithFailure(m, n, "build_failure")
  PROVE  Explained(w, b, c) /\ LastTurn(w, n, q) /\ w \in Snapshot
<1> DEFINE u == [n |-> n, prompt |-> q]
           f == [n |-> n, kind |-> "build_failure"]
<1>1. /\ w \in Snapshot /\ w.turns = m.turns /\ w.components = m.components
      /\ Range(w.failures) = Range(m.failures) \cup {f}
  BY FailureLists
<1>2. u \in Range(m.turns)
  BY LastIsTurn
<1>3. u.n = n /\ u.prompt = q /\ f.n = n /\ f.kind = "build_failure"
  OBVIOUS
<1> HIDE DEF u, f
<1>4. Consistent(Range(m.turns), Range(m.failures) \cup {f}, Range(m.components))
  <2>1. \A k \in Range(m.components) : k # u.n
    BY <1>3 DEF Unsaid
  <2>2. Consistent(Range(m.turns), Range(m.failures), Range(m.components))
    BY DEF Explained
  <2> QED BY <1>2, <1>3, <2>1, <2>2, FailedTurn
<1>5. \A g \in Range(w.failures) : g.n <= c
  BY <1>1, <1>3 DEF Explained
<1>6. LastTurn(w, n, q)
  BY <1>1 DEF LastTurn
<1> QED BY <1>1, <1>4, <1>5, <1>6 DEF Explained

LEMMA ComponentTold ==
  ASSUME NEW m \in Snapshot, NEW n \in Number, NEW q, NEW b, NEW c \in Nat,
         Explained(m, b, c), Unsaid(m, n), LastTurn(m, n, q), n <= c,
         NEW w, w = WithComponent(m, n)
  PROVE  Explained(w, b \cup {n}, c) /\ LastTurn(w, n, q) /\ w \in Snapshot
<1> DEFINE u == [n |-> n, prompt |-> q]
<1>1. /\ w \in Snapshot /\ w.turns = m.turns /\ w.failures = m.failures
      /\ Range(w.components) = Range(m.components) \cup {n}
  BY ComponentLists
<1>2. u \in Range(m.turns)
  BY LastIsTurn
<1>3. u.n = n
  OBVIOUS
<1> HIDE DEF u
<1>4. Consistent(Range(m.turns), Range(m.failures), Range(m.components) \cup {n})
  BY <1>2, <1>3, BuiltTurn DEF Explained, Unsaid
<1>5. LastTurn(w, n, q)
  BY <1>1 DEF LastTurn
<1> QED BY <1>1, <1>4, <1>5 DEF Explained

(* What was explained stays so as builds complete and commands begin. *)
LEMMA StaysExplained ==
  ASSUME NEW m \in Snapshot, NEW b, NEW c \in Nat, NEW b2, NEW c2 \in Nat,
         Explained(m, b, c), b \subseteq b2, c <= c2
  PROVE  Explained(m, b2, c2)
<1>1. \A k \in Nat : k <= c => k <= c2
  OBVIOUS
<1>2. /\ \A u \in Range(m.turns) : u.n \in Nat /\ u.n <= c
      /\ \A f \in Range(m.failures) : f.n \in Nat /\ f.n <= c
      /\ \A k \in Range(m.components) : k \in Nat /\ k <= c
  BY Numbered DEF Explained
<1> QED BY <1>1, <1>2 DEF Explained

Grows == world' = world /\ commands' \in Nat /\ commands <= commands' /\ built \subseteq built'

LEMMA CommandsNat == TypeOK => commands \in Nat
  BY ChatBuildAssumption DEF TypeOK, World

LEMMA FileStaysTold ==
  ASSUME Tells, Grows, memory' = memory
  PROVE  Told'
<1>1. commands \in Nat /\ TypeOK
  BY CommandsNat DEF Tells
<1>2. ASSUME NEW t \in Targets, NEW q \in world.prompts, memory[t][q] \in Snapshot
      PROVE  /\ Explained(memory[t][q], built', commands')
             /\ \E n \in Number : LastTurn(memory[t][q], n, q)
  <2>1. /\ Explained(memory[t][q], built, commands)
        /\ \E n \in Number : LastTurn(memory[t][q], n, q)
    BY <1>2 DEF Tells, Told
  <2>2. Explained(memory[t][q], built', commands')
    BY <1>1, <1>2, <2>1, StaysExplained DEF Grows
  <2> QED BY <2>1, <2>2
<1> QED BY <1>2, SameSets DEF Told, Grows

LEMMA HandStays ==
  ASSUME Tells, Grows, NEW r \in Procs
  PROVE  InHand(held[r], job[r], pc[r], built', commands')
<1>1. commands \in Nat /\ TypeOK
  BY CommandsNat DEF Tells
<1>2. SUFFICES ASSUME job[r].kind = "chat"
               PROVE  InHand(held[r], job[r], pc[r], built', commands')
  BY DEF InHand
<1>3. held[r] \in Snapshot /\ job[r].n \in Nat
  <2>1. job[r] # NoJob /\ job[r] \in Job \cup {NoJob} /\ Fits(r)
    BY <1>1, <1>2, JobKinds DEF TypeOK
  <2> QED BY <1>2, <2>1, JobKinds DEF Fits, Number
<1>4. InHand(held[r], job[r], pc[r], built, commands)
  BY DEF Tells, Telling
<1>5. Explained(held[r], built', commands')
  BY <1>1, <1>2, <1>3, <1>4, StaysExplained DEF Grows, InHand
<1>6. job[r].n <= commands'
  BY <1>1, <1>2, <1>3, <1>4 DEF Grows, InHand
<1> QED BY <1>2, <1>4, <1>5, <1>6 DEF InHand

(* Only the hand of the process that steps has to be looked at. *)
LEMMA OthersStay ==
  ASSUME Tells, Grows, NEW p \in Procs, NEW step, NEW j, NEW h,
         pc' = [pc EXCEPT ![p] = step], job' = [job EXCEPT ![p] = j],
         held' = [held EXCEPT ![p] = h], InHand(h, j, step, built', commands')
  PROVE  Telling'
<1>1. ASSUME NEW r \in Procs
      PROVE  InHand(held'[r], job'[r], pc'[r], built', commands')
  <2>1. CASE r = p
    <3>1. pc'[r] = step /\ job'[r] = j /\ held'[r] = h
      BY <2>1 DEF Tells, TypeOK
    <3> QED BY <3>1
  <2>2. CASE r # p
    <3>1. pc'[r] = pc[r] /\ job'[r] = job[r] /\ held'[r] = held[r]
      BY <2>2 DEF Tells, TypeOK
    <3> QED BY <3>1, HandStays
  <2> QED BY <2>1, <2>2
<1> QED BY <1>1 DEF Telling

LEMMA EndsTells ==
  ASSUME Tells, Grows, NEW p \in Procs, Ends(p)
  PROVE  Telling'
<1>1. InHand(Nothing, NoJob, "idle", built', commands')
  BY JobKinds DEF InHand
<1> QED BY <1>1, OthersStay DEF Ends

LEMMA InitTells == Init => Tells
<1> SUFFICES ASSUME Init PROVE Told /\ Telling
  BY InitTyped DEF Tells
<1>1. Told
  BY NothingIsNoSnapshot DEF Init, Told
<1>2. Telling
  BY JobKinds DEF Init, Telling, InHand
<1> QED BY <1>1, <1>2

LEMMA LoadedTold ==
  ASSUME Tells, NEW t \in Targets, NEW q \in world.prompts,
         memory[t][q] # Torn, NEW m \in LoadOrCreate(q, t)
  PROVE  m \in Snapshot /\ Explained(m, built, commands)
<1>1. TypeOK /\ m \in Snapshot /\ (m = NoMemory \/ \E s \in world.prompts : m = memory[t][s])
  BY Loaded DEF Tells
<1>2. CASE m = NoMemory
  BY <1>1, <1>2 DEF NoMemory, Explained, Consistent, InOrder, Range
<1>3. CASE \E s \in world.prompts : m = memory[t][s]
  BY <1>1, <1>3 DEF Tells, Told
<1> QED BY <1>1, <1>2, <1>3

LEMMA ChatTells ==
  ASSUME Tells, NEW p \in Procs, NEW q \in world.prompts, NEW t \in Targets,
         NEW approve \in BOOLEAN, StartChat(p, q, t, approve)
  PROVE  Told' /\ Telling'
<1>1. /\ commands \in Nat /\ commands' = commands + 1 /\ commands' \in Number
      /\ world' = world /\ memory' = memory /\ built' = built
  BY CommandsNat, MayStartBound DEF Tells, StartChat, files, history
<1>2. Grows
  BY <1>1 DEF Grows, Number
<1> DEFINE j == [kind |-> "chat", n |-> commands', prompt |-> q, target |-> t]
<1>3. job' = [job EXCEPT ![p] = j] /\ j.n = commands' /\ j.prompt = q
  BY DEF StartChat
<1> HIDE DEF j
<1>4. PICK loaded \in LoadOrCreate(q, t) :
        LET m == WithTurn(loaded, commands', q) IN
        IF Unsupported(q) # {}
        THEN /\ held' = [held EXCEPT ![p] = WithFailure(m, commands', "unsupported_request")]
             /\ pc' = [pc EXCEPT ![p] = "open"]
        ELSE /\ held' = [held EXCEPT ![p] = m]
             /\ pc' = [pc EXCEPT ![p] = IF approve THEN "ship" ELSE "open"]
  BY DEF StartChat
<1>5. loaded \in Snapshot /\ Explained(loaded, built, commands)
  BY LoadedTold DEF StartChat
<1> DEFINE m == WithTurn(loaded, commands', q)
           v == WithFailure(m, commands', "unsupported_request")
<1>6. CASE Unsupported(q) # {}
  <2>1. held' = [held EXCEPT ![p] = v] /\ pc' = [pc EXCEPT ![p] = "open"]
    BY <1>4, <1>6
  <2>2. Explained(v, built', commands') /\ LastTurn(v, commands', q)
    BY <1>1, <1>5, <1>6, RefusedTold
  <2> HIDE DEF v
  <2>3. InHand(v, j, "open", built', commands')
    BY <1>1, <1>3, <2>2 DEF InHand, Number
  <2> QED BY <1>1, <1>2, <1>3, <2>1, <2>3, OthersStay, FileStaysTold
<1>7. CASE Unsupported(q) = {}
  <2>1. PICK step : held' = [held EXCEPT ![p] = m] /\ pc' = [pc EXCEPT ![p] = step]
    BY <1>4, <1>7
  <2>2. Explained(m, built', commands') /\ Unsaid(m, commands') /\ LastTurn(m, commands', q)
    BY <1>1, <1>5, <1>7, SupportedTold
  <2> HIDE DEF m
  <2>3. InHand(m, j, step, built', commands')
    BY <1>1, <1>3, <1>7, <2>2 DEF InHand, Number
  <2> QED BY <1>1, <1>2, <1>3, <2>1, <2>3, OthersStay, FileStaysTold
<1> QED BY <1>6, <1>7

(* A chat command at work has its own turn in hand. *)
LEMMA AtWork ==
  ASSUME Tells, NEW p \in Procs, pc[p] # "idle", job[p].kind = "chat"
  PROVE  /\ held[p] \in Snapshot /\ job[p].n \in Number /\ job[p].n <= commands
         /\ job[p].prompt \in world.prompts /\ job[p].target \in Targets
         /\ Explained(held[p], built, commands)
         /\ LastTurn(held[p], job[p].n, job[p].prompt)
         /\ pc[p] \in {"ship", "building"} =>
              Unsupported(job[p].prompt) = {} /\ Unsaid(held[p], job[p].n)
<1>1. TypeOK /\ InHand(held[p], job[p], pc[p], built, commands)
  BY DEF Tells, Telling
<1>2. job[p] \in Job /\ held[p] \in Snapshot
  BY <1>1, AtStep
<1> QED BY <1>1, <1>2, JobKinds DEF InHand

LEMMA ShipTells ==
  ASSUME Tells, NEW p \in Procs, ShipRefuses(p) \/ ShipBegins(p)
  PROVE  Told' /\ Telling'
<1>1. /\ pc[p] = "ship" /\ job[p].kind = "chat" /\ commands \in Nat
      /\ world' = world /\ memory' = memory /\ built' = built /\ commands' = commands
      /\ job' = job
  BY AtStep, CommandsNat DEF Tells, ShipRefuses, ShipBegins, files, history
<1>2. Grows
  BY <1>1 DEF Grows
<1>3. job' = [job EXCEPT ![p] = job[p]] /\ held = [held EXCEPT ![p] = held[p]]
  BY <1>1 DEF Tells, TypeOK
<1>4. CASE ShipRefuses(p)
  <2> DEFINE w == WithFailure(held[p], job[p].n, "build_failure")
  <2>1. Explained(w, built, commands) /\ LastTurn(w, job[p].n, job[p].prompt)
    BY <1>1, AtWork, FailureTold
  <2>2. held' = [held EXCEPT ![p] = w] /\ pc' = [pc EXCEPT ![p] = "open"]
    BY <1>4 DEF ShipRefuses
  <2> HIDE DEF w
  <2>3. InHand(w, job[p], "open", built', commands')
    BY <1>1, <2>1, AtWork DEF InHand
  <2> QED BY <1>1, <1>2, <1>3, <2>2, <2>3, OthersStay, FileStaysTold
<1>5. CASE ShipBegins(p)
  <2>1. held' = held /\ pc' = [pc EXCEPT ![p] = "building"]
    BY <1>5 DEF ShipBegins, Begin
  <2>2. InHand(held[p], job[p], "building", built', commands')
    BY <1>1, AtWork DEF InHand
  <2>3. held' = [held EXCEPT ![p] = held[p]]
    BY <1>3, <2>1
  <2>4. Telling'
    BY <1>2, <1>3, <2>1, <2>2, <2>3, OthersStay
  <2> QED BY <1>1, <1>2, <2>4, FileStaysTold
<1> QED BY <1>4, <1>5

LEMMA BuildTells ==
  ASSUME Tells, NEW p \in Procs, BuildCompletes(p) \/ BuildRaises(p)
  PROVE  Told' /\ Telling'
<1>1. /\ pc[p] = "building" /\ commands \in Nat
      /\ world' = world /\ memory' = memory /\ commands' = commands
      /\ BuildCompletes(p) => built' = built \cup {job[p].n}
      /\ BuildRaises(p) => built' = built
  BY CommandsNat DEF Tells, BuildCompletes, BuildRaises, files, history
<1>2. Grows
  BY <1>1 DEF Grows
<1>3. Told'
  BY <1>1, <1>2, FileStaysTold
<1>4. CASE job[p].kind # "chat"
  BY <1>2, <1>3, <1>4, EndsTells DEF BuildCompletes, BuildRaises
<1>5. CASE job[p].kind = "chat" /\ BuildCompletes(p)
  <2> DEFINE w == WithComponent(held[p], job[p].n)
  <2>1. Explained(w, built \cup {job[p].n}, commands) /\ LastTurn(w, job[p].n, job[p].prompt)
    BY <1>1, <1>5, AtWork, ComponentTold
  <2>2. held' = [held EXCEPT ![p] = w] /\ pc' = [pc EXCEPT ![p] = "open"] /\ job' = job
    BY <1>5 DEF BuildCompletes, Continues
  <2> HIDE DEF w
  <2>3. InHand(w, job[p], "open", built', commands')
    BY <1>1, <1>5, <2>1, AtWork DEF InHand
  <2>4. job' = [job EXCEPT ![p] = job[p]]
    BY <2>2 DEF Tells, TypeOK
  <2> QED BY <1>2, <1>3, <2>2, <2>3, <2>4, OthersStay
<1>6. CASE job[p].kind = "chat" /\ BuildRaises(p)
  <2> DEFINE w == WithFailure(held[p], job[p].n, "build_failure")
  <2>1. Explained(w, built, commands) /\ LastTurn(w, job[p].n, job[p].prompt)
    BY <1>1, <1>6, AtWork, FailureTold
  <2>2. held' = [held EXCEPT ![p] = w] /\ pc' = [pc EXCEPT ![p] = "open"] /\ job' = job
    BY <1>6 DEF BuildRaises, Continues
  <2> HIDE DEF w
  <2>3. InHand(w, job[p], "open", built', commands')
    BY <1>1, <1>6, <2>1, AtWork DEF InHand
  <2>4. job' = [job EXCEPT ![p] = job[p]]
    BY <2>2 DEF Tells, TypeOK
  <2> QED BY <1>2, <1>3, <2>2, <2>3, <2>4, OthersStay
<1> QED BY <1>4, <1>5, <1>6

(* A save leaves what the command had in hand, or nothing that reads whole. *)
LEMMA SaveTells ==
  ASSUME Tells, NEW p \in Procs, OpenMemory(p) \/ DumpMemory(p)
  PROVE  Told' /\ Telling'
<1>1. /\ pc[p] \in {"open", "dump"} /\ pc[p] # "idle" /\ job[p].kind = "chat"
      /\ commands \in Nat /\ world' = world /\ commands' = commands /\ built' = built
  BY AtStep, CommandsNat DEF Tells, OpenMemory, DumpMemory, history
<1>2. Grows
  BY <1>1 DEF Grows
<1>3. PICK left \in {held[p], Torn} :
        memory' = [memory EXCEPT ![job[p].target][job[p].prompt] = left]
  BY DEF OpenMemory, DumpMemory
<1>4. Told'
  <2>1. ASSUME NEW t \in Targets, NEW q \in world.prompts, memory'[t][q] \in Snapshot
        PROVE  /\ Explained(memory'[t][q], built, commands)
               /\ \E n \in Number : LastTurn(memory'[t][q], n, q)
    <3>1. CASE t = job[p].target /\ q = job[p].prompt
      <4>1. memory'[t][q] = left
        BY <1>3, <3>1 DEF Tells, TypeOK
      <4>2. left = held[p]
        BY <1>3, <2>1, <4>1, NothingIsNoSnapshot
      <4> QED BY <1>1, <3>1, <4>1, <4>2, AtWork
    <3>2. CASE ~(t = job[p].target /\ q = job[p].prompt)
      <4>1. memory'[t][q] = memory[t][q]
        BY <1>3, <3>2 DEF Tells, TypeOK
      <4> QED BY <2>1, <4>1 DEF Tells, Told
    <3> QED BY <3>1, <3>2
  <2> QED BY <1>1, <2>1, SameSets DEF Told
<1>5. Telling'
  <2>1. CASE OpenMemory(p)
    <3>1. InHand(held[p], job[p], "dump", built', commands')
      BY <1>1, AtWork DEF InHand
    <3>2. /\ job' = [job EXCEPT ![p] = job[p]] /\ held' = [held EXCEPT ![p] = held[p]]
          /\ pc' = [pc EXCEPT ![p] = "dump"]
      BY <2>1 DEF OpenMemory, Tells, TypeOK
    <3> QED BY <1>2, <3>1, <3>2, OthersStay
  <2>2. CASE DumpMemory(p)
    BY <1>2, <2>2, EndsTells DEF DumpMemory
  <2> QED BY <2>1, <2>2
<1> QED BY <1>4, <1>5

LEMMA OperatorTells ==
  ASSUME Tells, NEW p \in Procs, NEW t \in Targets,
         StartBuild(p, t) \/ StartShip(p, t) \/ Reload(p)
  PROVE  Told' /\ Telling'
<1>1. /\ commands \in Nat /\ commands' \in {commands, commands + 1}
      /\ world' = world /\ memory' = memory /\ built' = built
  BY CommandsNat DEF Tells, StartBuild, StartShip, Reload, files, history
<1>2. Grows
  BY <1>1 DEF Grows
<1>3. held = [held EXCEPT ![p] = held[p]] /\ job = [job EXCEPT ![p] = job[p]]
  BY DEF Tells, TypeOK
<1>4. CASE StartBuild(p, t) \/ StartShip(p, t)
  <2>1. PICK j, step : /\ j.kind # "chat" /\ job' = [job EXCEPT ![p] = j]
                       /\ held' = held /\ pc' = [pc EXCEPT ![p] = step]
    <3>1. CASE StartBuild(p, t)
      <4> DEFINE j == [kind |-> "build", n |-> commands', target |-> t]
      <4>1. j.kind # "chat" /\ job' = [job EXCEPT ![p] = j]
        BY <3>1 DEF StartBuild
      <4> HIDE DEF j
      <4> QED BY <3>1, <4>1 DEF StartBuild
    <3>2. CASE StartShip(p, t)
      <4> DEFINE j == [kind |-> "ship", n |-> commands', target |-> t]
      <4>1. j.kind # "chat" /\ job' = [job EXCEPT ![p] = j]
        BY <3>2 DEF StartShip
      <4> HIDE DEF j
      <4> QED BY <3>2, <4>1 DEF StartShip
    <3> QED BY <1>4, <3>1, <3>2
  <2>2. InHand(held[p], j, step, built', commands')
    BY <2>1 DEF InHand
  <2> QED BY <1>1, <1>2, <1>3, <2>1, <2>2, OthersStay, FileStaysTold
<1>5. CASE Reload(p)
  <2>1. CASE Ends(p)
    BY <1>1, <1>2, <2>1, EndsTells, FileStaysTold
  <2>2. CASE ~Ends(p)
    <3>1. job' = job /\ held' = held /\ pc' = [pc EXCEPT ![p] = "building"]
      BY <1>5, <2>2 DEF Reload, Begin
    <3>2. job[p].kind = "ship"
      BY <1>5, AtStep DEF Tells, Reload
    <3>3. InHand(held[p], job[p], "building", built', commands')
      BY <3>2 DEF InHand
    <3> QED BY <1>1, <1>2, <1>3, <3>1, <3>3, OthersStay, FileStaysTold
  <2> QED BY <2>1, <2>2
<1> QED BY <1>4, <1>5

LEMMA OutsideTells ==
  ASSUME Tells,
         \/ UNCHANGED vars
         \/ \E p \in Procs : Kill(p)
         \/ \E doc \in world.docs : OperatorEdits(doc)
  PROVE  Told' /\ Telling'
<1>1. /\ commands \in Nat /\ commands' = commands
      /\ world' = world /\ memory' = memory /\ built' = built
  BY CommandsNat DEF Tells, Kill, OperatorEdits, vars, files, history
<1>2. Grows
  BY <1>1 DEF Grows
<1>3. Told'
  BY <1>1, <1>2, FileStaysTold
<1>4. ASSUME NEW p \in Procs, Kill(p) PROVE Telling'
  BY <1>2, <1>4, EndsTells DEF Kill
<1>5. CASE UNCHANGED locals
  <2>1. pc' = pc /\ job' = job /\ held' = held
    BY <1>5 DEF locals
  <2>2. ASSUME NEW r \in Procs
        PROVE  InHand(held'[r], job'[r], pc'[r], built', commands')
    BY <1>2, <2>1, HandStays
  <2> QED BY <1>3, <2>2 DEF Telling
<1> QED BY <1>3, <1>4, <1>5 DEF OperatorEdits, vars

LEMMA TellsNext == Tells /\ [Next]_vars => Tells'
<1> SUFFICES ASSUME Tells, [Next]_vars PROVE Told' /\ Telling'
  BY TypeNext DEF Tells
<1>1. ASSUME NEW p \in Procs, Work(p) PROVE Told' /\ Telling'
  <2>1. CASE Reload(p)
    <3>1. job[p].target \in Targets
      BY <2>1, AtStep, JobKinds DEF Reload, Tells
    <3> QED BY <2>1, <3>1, OperatorTells
  <2> QED BY <1>1, <2>1, ShipTells, BuildTells, SaveTells DEF Work
<1>2. ASSUME NEW p \in Procs, NEW q \in world.prompts, NEW t \in Targets,
             NEW approve \in BOOLEAN, StartChat(p, q, t, approve)
      PROVE  Told' /\ Telling'
  BY <1>2, ChatTells
<1>3. ASSUME NEW p \in Procs, NEW t \in Targets, StartBuild(p, t) \/ StartShip(p, t)
      PROVE  Told' /\ Telling'
  BY <1>3, OperatorTells
<1> QED BY <1>1, <1>2, <1>3, OutsideTells DEF Next

(* A conversation that reads whole explains itself: turns in order, the last
   one the session's own, failures and components of its turns only, and
   nothing called built whose build did not complete - for any processes that
   save over each other, are killed between the two steps of a save, and carry
   conversations from session to session. *)
THEOREM ConversationsExplain == Spec => []MemoryExplains
  BY InitTells, TellsNext, TellsIsEnough, PTL DEF Spec

-----------------------------------------------------------------------------
(* Sessions remember.                                                       *)

(* The conversation m has a turn of the command n. *)
Has(m, n) == \E u \in Range(m.turns) : u.n = n

(* One command at a time. *)
Alone == \A p, r \in Procs : pc[p] # "idle" /\ pc[r] # "idle" => p = r

(* What was saved of a session is in its file, if that reads whole. *)
Kept ==
  \A s \in saved :
    /\ memory[s.target][s.prompt] # Absent
    /\ memory[s.target][s.prompt] \in Snapshot => Has(memory[s.target][s.prompt], s.n)

(* A command has all of it in hand that was saved of its session, and its own
   turn. *)
InMind(h, j, all) ==
  j.kind = "chat" =>
    /\ Has(h, j.n)
    /\ \A s \in all : s.target = j.target /\ s.prompt = j.prompt => Has(h, s.n)

Minding == \A p \in Procs : InMind(held[p], job[p], saved)

Remembering == TypeOK /\ (~world.overlap => Alone /\ Kept /\ Minding)

LEMMA RememberingIsEnough == Remembering => SessionRemembers
<1> SUFFICES ASSUME Remembering, ~world.overlap, NEW s \in saved,
                    Readable(memory[s.target][s.prompt])
             PROVE  \E i \in DOMAIN memory[s.target][s.prompt].turns :
                      memory[s.target][s.prompt].turns[i].n = s.n
  BY DEF SessionRemembers
<1>1. s.target \in Targets /\ s.prompt \in world.prompts
  BY DEF Remembering, TypeOK
<1>2. memory[s.target][s.prompt] \in Snapshot
  BY <1>1, WholeFiles DEF Remembering
<1>3. Has(memory[s.target][s.prompt], s.n)
  BY <1>2 DEF Remembering, Kept
<1> QED BY <1>3 DEF Has, Range

LEMMA InitRemembering == Init => Remembering
<1> SUFFICES ASSUME Init PROVE Alone /\ Kept /\ Minding
  BY InitTyped DEF Remembering
<1> QED BY JobKinds DEF Init, Alone, Kept, Minding, InMind

(* A process that starts does so alone; one that goes on or ends was. *)
LEMMA AloneStays ==
  ASSUME TypeOK, Alone, NEW p \in Procs, NEW step, pc' = [pc EXCEPT ![p] = step],
         pc[p] # "idle" \/ Idle \/ step = "idle"
  PROVE  Alone'
  BY DEF TypeOK, Alone, Idle

(* If the files and what was saved stay, the hand of one process matters. *)
LEMMA MindStays ==
  ASSUME TypeOK, Minding, NEW p \in Procs, NEW j, NEW h, saved' = saved,
         job' = [job EXCEPT ![p] = j], held' = [held EXCEPT ![p] = h],
         InMind(h, j, saved)
  PROVE  Minding'
<1>1. ASSUME NEW r \in Procs PROVE InMind(held'[r], job'[r], saved')
  <2>1. CASE r = p
    <3>1. job'[r] = j /\ held'[r] = h
      BY <2>1 DEF TypeOK
    <3> QED BY <3>1
  <2>2. CASE r # p
    <3>1. job'[r] = job[r] /\ held'[r] = held[r]
      BY <2>2 DEF TypeOK
    <3> QED BY <3>1 DEF Minding
  <2> QED BY <2>1, <2>2
<1> QED BY <1>1 DEF Minding

LEMMA KeptStays ==
  ASSUME Kept, world' = world, memory' = memory, saved' = saved
  PROVE  Kept'
  BY SameSets DEF Kept

LEMMA EndsMinding ==
  ASSUME TypeOK, Minding, NEW p \in Procs, Ends(p), saved' = saved
  PROVE  Minding'
<1>1. InMind(Nothing, NoJob, saved)
  BY JobKinds DEF InMind
<1> QED BY <1>1, MindStays DEF Ends

(* Further entries of a conversation leave its turns alone. *)
LEMMA SameTurns ==
  ASSUME NEW h, NEW w, w.turns = h.turns, NEW j, NEW all, InMind(h, j, all)
  PROVE  InMind(w, j, all)
  BY DEF InMind, Has

LEMMA ChatRemembers ==
  ASSUME Remembering, ~world.overlap, NEW p \in Procs, NEW q \in world.prompts,
         NEW t \in Targets, NEW approve \in BOOLEAN, StartChat(p, q, t, approve)
  PROVE  Alone' /\ Kept' /\ Minding'
<1>1. /\ TypeOK /\ Alone /\ Kept /\ Minding /\ Idle /\ memory[t][q] # Torn
      /\ commands' \in Number /\ world' = world /\ memory' = memory /\ saved' = saved
  BY MayStartBound DEF Remembering, StartChat, MayStart, files, history
<1> DEFINE j == [kind |-> "chat", n |-> commands', prompt |-> q, target |-> t]
<1>2. /\ job' = [job EXCEPT ![p] = j]
      /\ j.n = commands' /\ j.prompt = q /\ j.target = t
  BY DEF StartChat
<1> HIDE DEF j
<1>3. PICK loaded \in LoadOrCreate(q, t) :
        LET m == WithTurn(loaded, commands', q) IN
        IF Unsupported(q) # {}
        THEN /\ held' = [held EXCEPT ![p] = WithFailure(m, commands', "unsupported_request")]
             /\ pc' = [pc EXCEPT ![p] = "open"]
        ELSE /\ held' = [held EXCEPT ![p] = m]
             /\ pc' = [pc EXCEPT ![p] = IF approve THEN "ship" ELSE "open"]
  BY DEF StartChat
<1> DEFINE m == WithTurn(loaded, commands', q)
           v == WithFailure(m, commands', "unsupported_request")
           u == [n |-> commands', prompt |-> q]
<1>4. loaded \in Snapshot /\ (memory[t][q] # Absent => loaded = memory[t][q])
  BY <1>1, Loaded
<1>5. m \in Snapshot /\ m.turns = Append(loaded.turns, u)
  BY <1>1, <1>4, WithTurnType
<1>6. Range(m.turns) = Range(loaded.turns) \cup {u}
  <2>1. loaded.turns \in Seq(Turn) /\ u \in Turn
    BY <1>1, <1>4, Numbered DEF Turn
  <2> HIDE DEF u
  <2>2. Range(Append(loaded.turns, u)) = Range(loaded.turns) \cup {u}
    BY <2>1, AppendRange
  <2> QED BY <1>5, <2>2
<1>7. u.n = commands'
  OBVIOUS
<1>8. v.turns = m.turns
  <2> HIDE DEF m
  <2> QED BY <1>1, <1>5, WithFailureType
<1> HIDE DEF m, v, u
<1>9. ASSUME NEW s \in saved, s.target = t, s.prompt = q PROVE Has(loaded, s.n)
  <2>1. memory[t][q] # Absent /\ loaded \in Snapshot /\ loaded = memory[t][q]
    BY <1>1, <1>4, <1>9 DEF Kept
  <2> QED BY <1>1, <1>9, <2>1 DEF Kept
<1>10. InMind(m, j, saved)
  BY <1>2, <1>6, <1>7, <1>9 DEF InMind, Has
<1>11. InMind(v, j, saved)
  BY <1>8, <1>10, SameTurns
<1>12. PICK h, step : /\ InMind(h, j, saved) /\ held' = [held EXCEPT ![p] = h]
                      /\ pc' = [pc EXCEPT ![p] = step]
  <2>1. CASE Unsupported(q) # {}
    BY <1>3, <1>11, <2>1 DEF m, v
  <2>2. CASE Unsupported(q) = {}
    BY <1>3, <1>10, <2>2 DEF m
  <2> QED BY <2>1, <2>2
<1>13. Alone'
  BY <1>1, <1>12, AloneStays
<1>14. Minding'
  BY <1>1, <1>2, <1>12, MindStays
<1> QED BY <1>1, <1>13, <1>14, KeptStays

LEMMA BuildRemembers ==
  ASSUME Remembering, ~world.overlap, NEW p \in Procs,
         ShipRefuses(p) \/ ShipBegins(p) \/ BuildCompletes(p) \/ BuildRaises(p)
  PROVE  Alone' /\ Kept' /\ Minding'
<1>1. /\ TypeOK /\ Alone /\ Kept /\ Minding /\ pc[p] \in {"ship", "building"}
      /\ pc[p] # "idle" /\ world' = world /\ memory' = memory /\ saved' = saved
  BY DEF Remembering, ShipRefuses, ShipBegins, BuildCompletes, BuildRaises, files, history
<1>2. \E step : pc' = [pc EXCEPT ![p] = step]
  BY DEF ShipRefuses, ShipBegins, BuildCompletes, BuildRaises, Begin, Continues, Ends
<1>3. Alone' /\ Kept'
  BY <1>1, <1>2, AloneStays, KeptStays
<1>4. CASE Ends(p)
  BY <1>1, <1>3, <1>4, EndsMinding
<1>5. CASE ~Ends(p)
  <2>1. job[p].kind = "chat" \/ held' = held
    BY <1>1, <1>5, AtStep DEF BuildCompletes, BuildRaises, ShipRefuses, ShipBegins
  <2>2. /\ held = [held EXCEPT ![p] = held[p]] /\ job = [job EXCEPT ![p] = job[p]]
        /\ InMind(held[p], job[p], saved)
    BY <1>1 DEF TypeOK, Minding
  <2>3. job' = job
    BY <1>5 DEF ShipRefuses, ShipBegins, BuildCompletes, BuildRaises, Continues
  <2>4. CASE held' = held
    BY <1>1, <1>3, <2>2, <2>3, <2>4, MindStays
  <2>5. CASE held' # held
    <3>1. job[p].kind = "chat" /\ held[p] \in Snapshot /\ job[p].n \in Number
      BY <1>1, <2>1, <2>5, AtStep, JobKinds
    <3>2. PICK w : /\ held' = [held EXCEPT ![p] = w]
                   /\ \/ w = WithFailure(held[p], job[p].n, "build_failure")
                      \/ w = WithComponent(held[p], job[p].n)
      <4>1. CASE ShipRefuses(p) \/ ShipBegins(p)
        BY <2>5, <4>1 DEF ShipRefuses, ShipBegins
      <4>2. CASE BuildRaises(p)
        BY <3>1, <4>2 DEF BuildRaises
      <4>3. CASE BuildCompletes(p)
        BY <3>1, <4>3 DEF BuildCompletes
      <4> QED BY <4>1, <4>2, <4>3
    <3>3. w.turns = held[p].turns
      <4>1. /\ WithFailure(held[p], job[p].n, "build_failure").turns = held[p].turns
            /\ WithComponent(held[p], job[p].n).turns = held[p].turns
        BY <3>1, WithFailureType, WithComponentType
      <4> QED BY <3>2, <4>1
    <3>4. InMind(w, job[p], saved)
      BY <2>2, <3>3, SameTurns
    <3>5. Minding'
      BY <1>1, <2>2, <2>3, <3>2, <3>4, MindStays
    <3> QED BY <1>3, <3>5
  <2> QED BY <2>4, <2>5
<1> QED BY <1>4, <1>5

(* The two steps of a save, with nobody else at work: torn in between, and
   then what the command had in hand - or torn for good, if it is killed. *)
LEMMA SaveRemembers ==
  ASSUME Remembering, ~world.overlap, NEW p \in Procs, OpenMemory(p) \/ DumpMemory(p)
  PROVE  Alone' /\ Kept' /\ Minding'
<1> DEFINE t == job[p].target
           q == job[p].prompt
<1>1. /\ TypeOK /\ Alone /\ Kept /\ Minding /\ pc[p] \in {"open", "dump"}
      /\ pc[p] # "idle" /\ world' = world
  BY DEF Remembering, OpenMemory, DumpMemory
<1>2. /\ job[p].kind = "chat" /\ t \in Targets /\ q \in world.prompts
      /\ held[p] \in Snapshot /\ InMind(held[p], job[p], saved)
  BY <1>1, AtStep, JobKinds DEF Minding
<1>3. \E step : pc' = [pc EXCEPT ![p] = step]
  BY DEF OpenMemory, DumpMemory, Ends
<1>4. Alone'
  BY <1>1, <1>3, AloneStays
<1>5. PICK left \in {held[p], Torn} : memory' = [memory EXCEPT ![t][q] = left]
  BY DEF OpenMemory, DumpMemory
<1> HIDE DEF t, q
<1>6. \A x \in Targets, y \in world.prompts :
        memory'[x][y] = IF x = t /\ y = q THEN left ELSE memory[x][y]
  BY <1>1, <1>2, <1>5 DEF TypeOK
<1>7. left # Absent /\ (left \in Snapshot => left = held[p])
  BY <1>2, <1>5, NothingIsNoSnapshot DEF Torn, Absent
<1>8. ASSUME NEW s \in saved'
      PROVE  /\ s.target \in Targets /\ s.prompt \in world.prompts
             /\ s.target = t /\ s.prompt = q => Has(held[p], s.n)
             /\ s \in saved \/ (s.target = t /\ s.prompt = q)
  <2>1. CASE s \in saved
    BY <1>1, <1>2, <2>1 DEF TypeOK, InMind, t, q
  <2>2. CASE s \notin saved
    <3>1. s = [n |-> job[p].n, prompt |-> q, target |-> t]
      BY <2>2 DEF OpenMemory, DumpMemory, history, t, q
    <3> QED BY <1>2, <3>1 DEF InMind
  <2> QED BY <2>1, <2>2
<1>9. Kept'
  <2>1. ASSUME NEW s \in saved'
        PROVE  /\ memory'[s.target][s.prompt] # Absent
               /\ memory'[s.target][s.prompt] \in Snapshot =>
                    Has(memory'[s.target][s.prompt], s.n)
    <3>1. CASE s.target = t /\ s.prompt = q
      BY <1>6, <1>7, <1>8, <3>1
    <3>2. CASE ~(s.target = t /\ s.prompt = q)
      <4>1. s \in saved /\ memory'[s.target][s.prompt] = memory[s.target][s.prompt]
        BY <1>6, <1>8, <3>2
      <4> QED BY <1>1, <4>1 DEF Kept
    <3> QED BY <3>1, <3>2
  <2> QED BY <1>1, <2>1, SameSets DEF Kept
<1>10. Minding'
  <2>1. CASE OpenMemory(p)
    <3>1. job' = job /\ held' = held /\ saved' = saved
      BY <2>1 DEF OpenMemory, history
    <3> QED BY <1>1, <3>1 DEF Minding
  <2>2. CASE DumpMemory(p)
    <3>1. ASSUME NEW r \in Procs PROVE job'[r] = NoJob
      <4>1. CASE r = p
        BY <2>2, <4>1 DEF DumpMemory, Ends, TypeOK, Remembering
      <4>2. CASE r # p
        <5>1. pc[r] = "idle"
          BY <1>1, <4>2 DEF Alone
        <5>2. job[r] = NoJob
          BY <1>1, <5>1 DEF TypeOK, Fits
        <5> QED BY <1>1, <2>2, <4>2, <5>2 DEF DumpMemory, Ends, TypeOK
      <4> QED BY <4>1, <4>2
    <3>2. ASSUME NEW r \in Procs PROVE InMind(held'[r], job'[r], saved')
      BY <3>1, JobKinds DEF InMind
    <3> QED BY <3>2 DEF Minding
  <2> QED BY <2>1, <2>2
<1> QED BY <1>4, <1>9, <1>10

LEMMA OperatorRemembers ==
  ASSUME Remembering, ~world.overlap, NEW p \in Procs, NEW t \in Targets,
         StartBuild(p, t) \/ StartShip(p, t) \/ Reload(p)
  PROVE  Alone' /\ Kept' /\ Minding'
<1>1. /\ TypeOK /\ Alone /\ Kept /\ Minding
      /\ (pc[p] # "idle" \/ Idle)
      /\ world' = world /\ memory' = memory /\ saved' = saved
  BY DEF Remembering, StartBuild, StartShip, Reload, MayStart, files, history
<1>2. PICK step : pc' = [pc EXCEPT ![p] = step]
  BY DEF StartBuild, StartShip, Reload, Begin, Ends
<1>3. Alone' /\ Kept'
  BY <1>1, <1>2, AloneStays, KeptStays
<1>4. CASE Ends(p)
  BY <1>1, <1>3, <1>4, EndsMinding
<1>5. CASE ~Ends(p)
  <2>1. held' = held /\ held = [held EXCEPT ![p] = held[p]] /\ job = [job EXCEPT ![p] = job[p]]
    BY <1>1, <1>5 DEF StartBuild, StartShip, Reload, TypeOK
  <2>2. PICK j : job' = [job EXCEPT ![p] = j] /\ InMind(held[p], j, saved)
    <3>1. CASE StartBuild(p, t)
      <4> DEFINE j == [kind |-> "build", n |-> commands', target |-> t]
      <4>1. j.kind # "chat" /\ job' = [job EXCEPT ![p] = j]
        BY <3>1 DEF StartBuild
      <4> HIDE DEF j
      <4> QED BY <4>1 DEF InMind
    <3>2. CASE StartShip(p, t)
      <4> DEFINE j == [kind |-> "ship", n |-> commands', target |-> t]
      <4>1. j.kind # "chat" /\ job' = [job EXCEPT ![p] = j]
        BY <3>2 DEF StartShip
      <4> HIDE DEF j
      <4> QED BY <4>1 DEF InMind
    <3>3. CASE Reload(p)
      <4>1. job' = job
        BY <1>5, <3>3 DEF Reload
      <4> QED BY <1>1, <2>1, <4>1 DEF Minding
    <3> QED BY <3>1, <3>2, <3>3
  <2>3. Minding'
    BY <1>1, <2>1, <2>2, MindStays
  <2> QED BY <1>3, <2>3
<1> QED BY <1>4, <1>5

LEMMA RememberingNext == Remembering /\ [Next]_vars => Remembering'
<1> SUFFICES ASSUME Remembering, [Next]_vars, ~world'.overlap
             PROVE  Alone' /\ Kept' /\ Minding'
  BY TypeNext DEF Remembering
<1>1. world' = world
  <2>1. ASSUME NEW p \in Procs, Work(p) \/ Kill(p) PROVE world' = world
    BY <2>1 DEF Work, ShipRefuses, ShipBegins, BuildCompletes, BuildRaises, OpenMemory,
                DumpMemory, Reload, Kill
  <2>2. ASSUME NEW p \in Procs, NEW t \in Targets, StartBuild(p, t) \/ StartShip(p, t)
        PROVE  world' = world
    BY <2>2 DEF StartBuild, StartShip
  <2>3. ASSUME NEW p \in Procs, NEW q \in world.prompts, NEW t \in Targets,
               NEW approve \in BOOLEAN, StartChat(p, q, t, approve)
        PROVE  world' = world
    BY <2>3 DEF StartChat
  <2> QED BY <2>1, <2>2, <2>3 DEF Next, OperatorEdits, vars
<1>2. /\ ~world.overlap /\ TypeOK /\ Alone /\ Kept /\ Minding
  BY <1>1 DEF Remembering
<1>3. ASSUME NEW p \in Procs, Work(p) PROVE Alone' /\ Kept' /\ Minding'
  <2>1. CASE Reload(p)
    <3>1. job[p].target \in Targets
      BY <1>2, <2>1, AtStep, JobKinds DEF Reload
    <3> QED BY <1>2, <2>1, <3>1, OperatorRemembers
  <2> QED BY <1>2, <1>3, <2>1, BuildRemembers, SaveRemembers DEF Work
<1>4. ASSUME NEW p \in Procs, NEW q \in world.prompts, NEW t \in Targets,
             NEW approve \in BOOLEAN, StartChat(p, q, t, approve)
      PROVE  Alone' /\ Kept' /\ Minding'
  BY <1>2, <1>4, ChatRemembers
<1>5. ASSUME NEW p \in Procs, NEW t \in Targets, StartBuild(p, t) \/ StartShip(p, t)
      PROVE  Alone' /\ Kept' /\ Minding'
  BY <1>2, <1>5, OperatorRemembers
<1>6. ASSUME NEW p \in Procs, Kill(p) PROVE Alone' /\ Kept' /\ Minding'
  <2>1. memory' = memory /\ saved' = saved /\ Ends(p)
    BY <1>6 DEF Kill, files, history
  <2>2. Alone'
    BY <1>2, <2>1, AloneStays DEF Ends
  <2> QED BY <1>1, <1>2, <2>1, <2>2, KeptStays, EndsMinding
<1>7. CASE UNCHANGED <<memory, saved, locals>>
  <2>1. pc' = pc /\ job' = job /\ held' = held /\ memory' = memory /\ saved' = saved
    BY <1>7 DEF locals
  <2>2. Alone'
    BY <1>2, <2>1 DEF Alone
  <2>3. Minding'
    BY <1>2, <2>1 DEF Minding
  <2> QED BY <1>1, <1>2, <2>1, <2>2, <2>3, KeptStays
<1> QED BY <1>3, <1>4, <1>5, <1>6, <1>7
     DEF Next, OperatorEdits, vars, files, locals, history

(* One command at a time, a session loses none of its turns, whichever sessions
   of the project come between and wherever a command is killed: what was saved
   of it is in its file, or the file does not parse. *)
THEOREM SessionsRemember == Spec => []SessionRemembers
  BY InitRemembering, RememberingNext, RememberingIsEnough, PTL DEF Spec

-----------------------------------------------------------------------------
(* The preview.                                                             *)

LEMMA LeastOfRows ==
  ASSUME NEW S \in SUBSET (1 .. 5), 5 \in S
  PROVE  Min(S) \in S
<1>1. \E i \in S : \A j \in S : i <= j
  BY SMTT(30)
<1> QED BY <1>1 DEF Min

LEMMA FiveOf ==
  ASSUME NEW a, NEW b, NEW c, NEW d, NEW e
  PROVE  LET s == <<a, b, c, d, e>> IN
         /\ DOMAIN s = 1 .. 5 /\ Len(s) = 5
         /\ s[1] = a /\ s[2] = b /\ s[3] = c /\ s[4] = d /\ s[5] = e
  OBVIOUS

(* The five rows, by what the gates look at. *)
LEMMA Row1 == LaneRows[1].lane = "first_class_mobile" /\ LaneRows[1].app_type = "mobile_app"
                /\ LaneRows[1].frontend = "flutter_mobile"
  BY DEF LaneRows
LEMMA Row2 == LaneRows[2].lane = "first_class_game" /\ LaneRows[2].app_type = "game_app"
                /\ LaneRows[2].frontend = "godot_game"
  BY DEF LaneRows
LEMMA Row3 == LaneRows[3].lane = "first_class_realtime" /\ LaneRows[3].app_type = "realtime_system"
                /\ LaneRows[3].frontend = "react_next"
  BY DEF LaneRows
LEMMA Row4 == LaneRows[4].lane = "first_class_enterprise_agent" /\ LaneRows[4].app_type = "enterprise_agent_system"
                /\ LaneRows[4].frontend = "react_next"
  BY DEF LaneRows
LEMMA Row5 == LaneRows[5].lane = "first_class_commercial" /\ LaneRows[5].app_type = "saas_web_app"
                /\ LaneRows[5].frontend = "react_next"
  BY DEF LaneRows
LEMMA RowNumbers == DOMAIN LaneRows = 1 .. 5 /\ Len(LaneRows) = 5
  BY DEF LaneRows

LEMMA Inferred ==
  ASSUME NEW q
  PROVE  \E i \in 1 .. 5 : InferLane(q) = LaneRows[i]
<1> DEFINE S == {i \in DOMAIN LaneRows : Mentions(q, LaneRows[i].words)} \cup {Len(LaneRows)}
<1>1. S \in SUBSET (1 .. 5) /\ 5 \in S
  BY RowNumbers
<1>2. InferLane(q) = LaneRows[Min(S)]
  BY DEF InferLane
<1> HIDE DEF S
<1> QED BY <1>1, <1>2, LeastOfRows

(* What _infer_lane may return. *)
LEMMA LaneInferred ==
  ASSUME NEW q
  PROVE  LET row == InferLane(q) IN
         \/ row.lane = "first_class_mobile" /\ row.app_type = "mobile_app"
              /\ row.frontend = "flutter_mobile"
         \/ row.lane = "first_class_game" /\ row.app_type = "game_app"
              /\ row.frontend = "godot_game"
         \/ row.lane = "first_class_realtime" /\ row.app_type = "realtime_system"
              /\ row.frontend = "react_next"
         \/ row.lane = "first_class_enterprise_agent" /\ row.app_type = "enterprise_agent_system"
              /\ row.frontend = "react_next"
         \/ row.lane = "first_class_commercial" /\ row.app_type = "saas_web_app"
              /\ row.frontend = "react_next"
<1>1. PICK i \in 1 .. 5 : InferLane(q) = LaneRows[i]
  BY Inferred
<1>2. i = 1 \/ i = 2 \/ i = 3 \/ i = 4 \/ i = 5
  OBVIOUS
<1> QED BY <1>1, <1>2, Row1, Row2, Row3, Row4, Row5

(* The lane of the contracts that a type belongs to. *)
LEMMA LaneOfTypes ==
  /\ LaneOf("mobile_app") = "first_class_mobile"
  /\ LaneOf("game_app") = "first_class_game"
  /\ LaneOf("realtime_system") = "first_class_realtime"
  /\ LaneOf("enterprise_agent_system") = "first_class_enterprise_agent"
  /\ \A a : a \notin {"mobile_app", "game_app", "realtime_system", "enterprise_agent_system"} =>
       LaneOf(a) = "first_class_commercial"
  BY DEF LaneOf, AppTypeToLane

LEMMA LaneAnnounced ==
  ASSUME NEW q
  PROVE  InferLane(q).lane = LaneOf(InferLane(q).app_type)
  BY LaneInferred, LaneOfTypes

Question ==
  {"user", "outcome", "feature", "compliance", "credentials", "disputes", "throughput"}

LEMMA AllQuestions ==
  /\ "user" \in Question /\ "outcome" \in Question /\ "feature" \in Question
  /\ "compliance" \in Question /\ "credentials" \in Question
  /\ "disputes" \in Question /\ "throughput" \in Question
  BY DEF Question

(* An urgent question is among the first three asked. *)
LEMMA AskedFirst ==
  ASSUME NEW urgent \in Seq(Question), NEW ranked \in Seq(Question), Len(urgent) <= Len(ranked),
         NEW i \in 1 .. Len(urgent), ranked[i] = urgent[i], Len(urgent) <= 3
  PROVE  LET asked == SubSeq(ranked, 1, Min({3, Len(ranked)})) IN
         i \in DOMAIN asked /\ asked[i] = urgent[i]
<1> DEFINE k == Min({3, Len(ranked)})
<1>1. k \in {3, Len(ranked)} /\ k <= 3 /\ k <= Len(ranked)
  <2>1. \E x \in {3, Len(ranked)} : \A y \in {3, Len(ranked)} : x <= y
    OBVIOUS
  <2> QED BY <2>1 DEF Min
<1> HIDE DEF k
<1>2. k \in Nat /\ i <= k
  BY <1>1
<1>3. DOMAIN SubSeq(ranked, 1, k) = 1 .. k /\ SubSeq(ranked, 1, k)[i] = ranked[i]
  BY <1>1, <1>2
<1> QED BY <1>2, <1>3 DEF k

LEMMA OneWord ==
  ASSUME NEW S, NEW e \in S
  PROVE  <<e>> \in Seq(S) /\ Len(<<e>>) = 1 /\ <<e>>[1] = e
  OBVIOUS

LEMMA NoWord ==
  ASSUME NEW S
  PROVE  <<>> \in Seq(S) /\ Len(<<>>) = 0
  OBVIOUS

LEMMA Joining ==
  ASSUME NEW S, NEW s \in Seq(S), NEW r \in Seq(S)
  PROVE  /\ s \o r \in Seq(S) /\ Len(s \o r) = Len(s) + Len(r)
         /\ \A i \in 1 .. Len(s) : (s \o r)[i] = s[i]
         /\ \A i \in 1 .. Len(r) : (s \o r)[Len(s) + i] = r[i]
  OBVIOUS

LEMMA AskType ==
  ASSUME NEW c, NEW w \in Question
  PROVE  /\ Ask(c, w) \in Seq(Question) /\ Len(Ask(c, w)) \in {0, 1}
         /\ c => Len(Ask(c, w)) = 1 /\ Ask(c, w)[1] = w
<1>1. CASE c
  <2>1. Ask(c, w) = <<w>>
    BY <1>1, Zenon DEF Ask
  <2> QED BY <2>1, OneWord, Zenon
<1>2. CASE ~c
  <2>1. Ask(c, w) = <<>>
    BY <1>2, Zenon DEF Ask
  <2> QED BY <1>2, <2>1, NoWord, Zenon
<1> QED BY <1>1, <1>2, Zenon

LEMMA UrgentFirst ==
  ASSUME NEW q
  PROVE  /\ Urgent(q) \in Seq(Question) /\ Len(Urgent(q)) <= 3
         /\ Risky(q) => \E i \in 1 .. Len(Urgent(q)) : Urgent(q)[i] = "compliance"
         /\ Billing(q) => \E i \in 1 .. Len(Urgent(q)) : Urgent(q)[i] = "credentials"
<1> DEFINE a == Ask(Risky(q), "compliance")
           b == Ask(Billing(q), "credentials")
<1>1. /\ a \in Seq(Question) /\ Len(a) \in {0, 1}
      /\ Risky(q) => Len(a) = 1 /\ a[1] = "compliance"
  BY AskType, AllQuestions, Zenon
<1>2. /\ b \in Seq(Question) /\ Len(b) \in {0, 1}
      /\ Billing(q) => Len(b) = 1 /\ b[1] = "credentials"
  BY AskType, AllQuestions, Zenon
<1>3. Urgent(q) = a \o b
  BY Zenon DEF Urgent
<1> HIDE DEF a, b
<1>4. Urgent(q) \in Seq(Question) /\ Len(Urgent(q)) = Len(a) + Len(b)
  BY <1>1, <1>2, <1>3, Joining
<1>5. Len(Urgent(q)) <= 3
  <2>1. Len(a) \in {0, 1} /\ Len(b) \in {0, 1} /\ Len(Urgent(q)) = Len(a) + Len(b)
    BY <1>1, <1>2, <1>4, Zenon
  <2>2. \A m, n \in {0, 1} : m + n <= 3
    OBVIOUS
  <2> QED BY <2>1, <2>2, Zenon
<1>6. ASSUME Risky(q) PROVE 1 \in 1 .. Len(Urgent(q)) /\ Urgent(q)[1] = "compliance"
  <2>1. 1 \in 1 .. Len(a) /\ 1 \in 1 .. Len(Urgent(q))
    BY <1>1, <1>2, <1>4, <1>6
  <2> QED BY <1>1, <1>2, <1>3, <1>6, <2>1, Joining
<1>7. ASSUME Billing(q)
      PROVE  Len(a) + 1 \in 1 .. Len(Urgent(q)) /\ Urgent(q)[Len(a) + 1] = "credentials"
  <2>1. 1 \in 1 .. Len(b) /\ Len(a) + 1 \in 1 .. Len(Urgent(q))
    BY <1>1, <1>2, <1>4, <1>7
  <2> QED BY <1>1, <1>2, <1>3, <1>7, <2>1, Joining
<1> QED BY <1>4, <1>5, <1>6, <1>7

LEMMA UrgentAsked ==
  ASSUME NEW q, NEW i \in 1 .. Len(Urgent(q))
  PROVE  i \in DOMAIN Questions(q) /\ Questions(q)[i] = Urgent(q)[i]
<1> DEFINE u == Urgent(q)
           a == Usual(q)
           b == Ask("billing" \in Features(q), "disputes")
           c == Ask("realtime" \in Features(q), "throughput")
           ranked == u \o a \o b \o c
<1>1. u \in Seq(Question) /\ Len(u) <= 3 /\ i \in 1 .. Len(u)
  BY UrgentFirst
<1>2. a \in Seq(Question)
  <2> DEFINE x == Ask(~Mentions(q, {"user", "team", "customer"}), "user")
             y == Ask(~Mentions(q, {"must", "need", "should"}), "outcome")
             z == Ask(Features(q) = {}, "feature")
  <2>1. x \in Seq(Question) /\ y \in Seq(Question) /\ z \in Seq(Question)
    BY AskType, AllQuestions, Zenon
  <2>2. a = x \o y \o z
    BY DEF Usual
  <2> HIDE DEF a, x, y, z
  <2> QED BY <2>1, <2>2
<1>3. b \in Seq(Question) /\ c \in Seq(Question)
  BY AskType, AllQuestions, Zenon
<1>4. Prioritize(q) = SubSeq(ranked, 1, Min({3, Len(ranked)}))
  BY DEF Prioritize
<1> HIDE DEF u, a, b, c
<1>5. ranked \in Seq(Question) /\ Len(u) <= Len(ranked) /\ ranked[i] = u[i]
  <2>1. u \o a \in Seq(Question) /\ Len(u) <= Len(u \o a) /\ (u \o a)[i] = u[i]
    BY <1>1, <1>2
  <2> DEFINE v == u \o a
  <2> HIDE DEF v
  <2>2. v \o b \in Seq(Question) /\ Len(u) <= Len(v \o b) /\ (v \o b)[i] = u[i]
    BY <1>1, <1>3, <2>1 DEF v
  <2> DEFINE w == v \o b
  <2> HIDE DEF w
  <2>3. w \o c \in Seq(Question) /\ Len(u) <= Len(w \o c) /\ (w \o c)[i] = u[i]
    BY <1>1, <1>3, <2>2 DEF w
  <2> QED BY <2>3 DEF w, v
<1> HIDE DEF ranked
<1>6. i \in DOMAIN Prioritize(q) /\ Prioritize(q)[i] = u[i]
  BY <1>1, <1>4, <1>5, AskedFirst
<1>7. Prioritize(q) # <<>>
  BY <1>6
<1> QED BY <1>6, <1>7 DEF Questions, u

LEMMA RolesOfBilling ==
  ASSUME NEW q, Billing(q)
  PROVE  "billing_admin" \in AuthRoles(q)
  BY DEF AuthRoles, Where

LEMMA ShapeServed ==
  ASSUME NEW q
  PROVE  RuntimeShape(q) \subseteq RuntimeServices(q)
  BY DEF RuntimeShape, RuntimeServices

LEMMA PreviewTrue == PreviewHonest
<1> SUFFICES ASSUME NEW q \in world.prompts
             PROVE  LET asked == {Questions(q)[i] : i \in DOMAIN Questions(q)} IN
                    /\ Risky(q) => "compliance" \in asked
                    /\ Billing(q) => "credentials" \in asked
                    /\ InferLane(q).lane = LaneOf(InferLane(q).app_type)
                    /\ RuntimeShape(q) \subseteq RuntimeServices(q)
                    /\ Billing(q) => "billing_admin" \in AuthRoles(q)
  BY DEF PreviewHonest
<1> DEFINE asked == {Questions(q)[i] : i \in DOMAIN Questions(q)}
<1>1. ASSUME NEW i \in 1 .. Len(Urgent(q)) PROVE Urgent(q)[i] \in asked
  BY UrgentAsked
<1>2. Risky(q) => "compliance" \in asked
  BY <1>1, UrgentFirst
<1>3. Billing(q) => "credentials" \in asked
  BY <1>1, UrgentFirst
<1> HIDE DEF asked
<1>4. InferLane(q).lane = LaneOf(InferLane(q).app_type)
  BY LaneAnnounced
<1>5. RuntimeShape(q) \subseteq RuntimeServices(q)
  BY ShapeServed
<1>6. Billing(q) => "billing_admin" \in AuthRoles(q)
  BY RolesOfBilling
<1> QED BY <1>2, <1>3, <1>4, <1>5, <1>6 DEF asked

(* A preview never announces another lane or another architecture than those
   that will be built, and whatever else it has to ask, the two questions that
   bear on safety are among the three it asks - for every prompt. *)
THEOREM PreviewsAreHonest == Spec => []PreviewHonest
  BY PreviewTrue, PTL

-----------------------------------------------------------------------------
(* The gates.                                                               *)

LEMMA Categories == Category = {"frontend", "backend", "database", "deployment"}
  BY DEF Category, StackRegistry

(* The registry's rows, one category at a time. *)
LEMMA Frontends ==
  /\ \A x : ResolvesEntry("frontend", x) <=>
              x \in {"react_next", "flutter_mobile", "godot_game", "future_frontend_placeholder"}
  /\ \A x \in {"react_next", "flutter_mobile", "godot_game"} : Tier("frontend", x) = "first_class"
  BY DEF ResolvesEntry, Tier, StackRegistry

LEMMA Backends ==
  /\ \A x : ResolvesEntry("backend", x) <=> x \in {"fastapi", "future_backend_placeholder"}
  /\ Tier("backend", "fastapi") = "first_class"
  /\ Tier("backend", "future_backend_placeholder") = "future"
  BY DEF ResolvesEntry, Tier, StackRegistry

LEMMA Databases ==
  /\ \A x : ResolvesEntry("database", x) <=> x \in {"postgres", "future_database_placeholder"}
  /\ Tier("database", "postgres") = "first_class"
  /\ Tier("database", "future_database_placeholder") = "future"
  BY DEF ResolvesEntry, Tier, StackRegistry

LEMMA Deployments ==
  /\ \A x : ResolvesEntry("deployment", x) <=>
              x \in {"docker_compose", "future_deployment_placeholder"}
  /\ Tier("deployment", "docker_compose") = "first_class"
  /\ Tier("deployment", "future_deployment_placeholder") = "future"
  BY DEF ResolvesEntry, Tier, StackRegistry

(* What a lane's contract lets through. *)
LEMMA Contracts ==
  /\ LaneContracts["first_class_commercial"].app_types =
       {"internal_tool", "workspace_app", "saas_web_app", "api_service", "workflow_system",
        "copilot_chat_app"}
  /\ LaneContracts["first_class_commercial"].allowed_frontends = {"react_next"}
  /\ LaneContracts["first_class_mobile"].app_types = {"mobile_app"}
  /\ LaneContracts["first_class_mobile"].allowed_frontends = {"flutter_mobile"}
  /\ LaneContracts["first_class_game"].app_types = {"game_app"}
  /\ LaneContracts["first_class_game"].allowed_frontends = {"godot_game"}
  /\ LaneContracts["first_class_realtime"].app_types = {"realtime_system"}
  /\ LaneContracts["first_class_realtime"].allowed_frontends = {"react_next"}
  /\ LaneContracts["first_class_enterprise_agent"].app_types = {"enterprise_agent_system"}
  /\ LaneContracts["first_class_enterprise_agent"].allowed_frontends = {"react_next"}
  BY DEF LaneContracts

LEMMA Enforced ==
  ASSUME NEW a, NEW stack
  PROVE  EnforceLane(a, stack) <=>
           \/ a = "mobile_app" /\ stack.frontend = "flutter_mobile"
           \/ a = "game_app" /\ stack.frontend = "godot_game"
           \/ /\ a \in {"internal_tool", "workspace_app", "saas_web_app", "api_service",
                        "workflow_system", "copilot_chat_app", "realtime_system",
                        "enterprise_agent_system"}
              /\ stack.frontend = "react_next"
<1>1. CASE a = "mobile_app"
  BY <1>1, LaneOfTypes, Contracts DEF EnforceLane
<1>2. CASE a = "game_app"
  BY <1>2, LaneOfTypes, Contracts DEF EnforceLane
<1>3. CASE a = "realtime_system"
  BY <1>3, LaneOfTypes, Contracts DEF EnforceLane
<1>4. CASE a = "enterprise_agent_system"
  BY <1>4, LaneOfTypes, Contracts DEF EnforceLane
<1>5. CASE a \notin {"mobile_app", "game_app", "realtime_system", "enterprise_agent_system"}
  BY <1>5, LaneOfTypes, Contracts DEF EnforceLane
<1> QED BY <1>1, <1>2, <1>3, <1>4, <1>5

-----------------------------------------------------------------------------
(* What the chat writes.                                                    *)

LEMMA StackWritten ==
  ASSUME NEW q
  PROVE  /\ Stack(q).frontend = InferLane(q).frontend
         /\ Stack(q).backend = "fastapi" /\ Stack(q).database = "postgres"
         /\ Stack(q).deployment = "docker_compose"
  BY DEF Stack

LEMMA WrittenFirstClass ==
  ASSUME NEW q
  PROVE  ResolvesStack(Stack(q)) /\ FirstClass(Stack(q))
<1>1. InferLane(q).frontend \in {"react_next", "flutter_mobile", "godot_game"}
  BY LaneInferred
<1> DEFINE stack == Stack(q)
<1>2. /\ stack.frontend \in {"react_next", "flutter_mobile", "godot_game"}
      /\ stack.backend = "fastapi" /\ stack.database = "postgres"
      /\ stack.deployment = "docker_compose"
  BY <1>1, StackWritten
<1> HIDE DEF stack
<1>3. ResolvesStack(stack)
  BY <1>2, Categories, Frontends, Backends, Databases, Deployments DEF ResolvesStack
<1>4. FirstClass(stack)
  BY <1>2, Categories, Frontends, Backends, Databases, Deployments DEF FirstClass
<1> QED BY <1>3, <1>4 DEF stack

LEMMA WrittenLawful ==
  ASSUME NEW q
  PROVE  /\ ResolvesArchetype(InferLane(q).app_type)
         /\ EnforceLane(InferLane(q).app_type, Stack(q))
<1>1. ResolvesArchetype(InferLane(q).app_type)
  BY LaneInferred DEF ResolvesArchetype, Archetypes
<1>2. EnforceLane(InferLane(q).app_type, Stack(q))
  BY LaneInferred, Enforced, StackWritten
<1> QED BY <1>1, <1>2

LEMMA Sections ==
  /\ SectionKeys.product = {"name", "app_type"}
  /\ SectionKeys.stack = {"frontend", "backend", "database", "deployment", "deployment_target"}
  /\ "name" \in Key
<1>1. SectionKeys.product = {"name", "app_type"} /\ SectionKeys["product"] = {"name", "app_type"}
  BY DEF SectionKeys
<1>2. SectionKeys.stack = {"frontend", "backend", "database", "deployment", "deployment_target"}
  BY Categories DEF SectionKeys
<1>3. "product" \in SpecFile
  BY DEF SpecFile, SectionKeys
<1>4. "name" \in Key
  BY <1>1, <1>3 DEF Key
<1> QED BY <1>1, <1>2, <1>4

LEMMA Accepting ==
  /\ \A k \in SectionKeys.product : AcceptedFor(k) = {"text", "other", "list", "ragged"}
  /\ \A k \in SectionKeys.stack : AcceptedFor(k) = {"text"}
  /\ \A k : k \notin SectionKeys.product \cup SectionKeys.stack => AcceptedFor(k) = {"list"}
<1>1. ValueClass \ {"missing", "blank"} = {"text", "other", "list", "ragged"}
  BY DEF ValueClass
<1>2. \A k \in SectionKeys.product : k \notin SectionKeys.stack
  BY Sections
<1> QED BY <1>1, <1>2 DEF AcceptedFor

LEMMA WrittenLoads ==
  ASSUME NEW q
  PROVE  LoadsSpec(Synthesize(q)) <=> q.name # "blank"
<1> DEFINE doc == Synthesize(q)
           value(k) == IF k = "name" /\ q.name = "blank" THEN "blank"
                       ELSE IF k \in SectionKeys.product \cup SectionKeys.stack THEN "text"
                       ELSE "list"
<1>1. /\ doc.files = [f \in SpecFile |-> "mapping"]
      /\ doc.keys = [k \in Key |-> value(k)]
  BY DEF Synthesize
<1>2. \A f \in SpecFile : doc.files[f] = "mapping"
  BY <1>1
<1>3. \A k \in Key : doc.keys[k] = value(k)
  BY <1>1
<1> HIDE DEF doc
<1>4. ASSUME q.name # "blank", NEW k \in Key PROVE value(k) \in AcceptedFor(k)
  BY <1>4, Accepting
<1>5. ASSUME q.name = "blank" PROVE value("name") \notin AcceptedFor("name")
  BY <1>5, Accepting, Sections
<1> HIDE DEF value
<1>6. LoadsSpec(doc) <=> q.name # "blank"
  BY <1>2, <1>3, <1>4, <1>5, Sections DEF LoadsSpec
<1> QED BY <1>6 DEF doc

LEMMA WrittenDomains ==
  ASSUME NEW q
  PROVE  AppIR(Synthesize(q)).domains = {CanonicalDomain(InferLane(q).app_type)}
<1> DEFINE a == InferLane(q).app_type
<1>1. a \in {"mobile_app", "game_app", "realtime_system", "enterprise_agent_system", "saas_web_app"}
  BY LaneInferred
<1>2. Synthesize(q).domains = {ChatDomains[a]}
  BY DEF Synthesize
<1>3. AppIR(Synthesize(q)).domains = {ChatDomains[a]}
  BY <1>2 DEF AppIR, Domains
<1> HIDE DEF a
<1>4. ChatDomains[a] = CanonicalDomain(a)
  BY <1>1 DEF ChatDomains, CanonicalDomain
<1> QED BY <1>3, <1>4 DEF a

LEMMA WrittenAccepted ==
  ASSUME NEW q
  PROVE  LET doc == Synthesize(q) IN
         /\ ShipPrecheck(doc) /\ BuildAccepts(doc) <=> q.name # "blank"
         /\ FirstClass(doc.stack)
<1> DEFINE doc == Synthesize(q)
<1>1. doc.app_type = InferLane(q).app_type /\ doc.stack = Stack(q)
  BY DEF Synthesize
<1> HIDE DEF doc
<1>2. LoadsSpec(doc) <=> q.name # "blank"
  BY WrittenLoads DEF doc
<1>3. /\ ResolvesStack(doc.stack) /\ FirstClass(doc.stack)
      /\ ResolvesArchetype(doc.app_type) /\ EnforceLane(doc.app_type, doc.stack)
  BY <1>1, WrittenFirstClass, WrittenLawful
<1>4. ShipPrecheck(doc) /\ BuildAccepts(doc) <=> q.name # "blank"
  BY <1>2, <1>3 DEF ShipPrecheck, BuildAccepts, Compiles
<1> QED BY <1>3, <1>4 DEF doc

LEMMA SynthesizedTaken == SynthesizedAccepted
  BY WrittenAccepted, WrittenDomains DEF SynthesizedAccepted

(* Whatever the prompt, what the chat compiler writes passes every gate unless
   the name is blank, and is of the domain that the IR compiler would have
   given it. *)
THEOREM SynthesizedIsAccepted == Spec => []SynthesizedAccepted
  BY SynthesizedTaken, PTL

-----------------------------------------------------------------------------
(* The lane that a built application's plugins are of.                      *)

LEMMA PluginRows ==
  /\ DOMAIN Plugins = {"first_class_commercial", "first_class_mobile", "first_class_game",
                       "first_class_realtime", "first_class_enterprise_agent"}
  /\ Plugins["first_class_commercial"].archetypes =
       {"internal_tool", "workspace_app", "saas_web_app", "api_service", "copilot_chat_app"}
  /\ Plugins["first_class_mobile"].archetypes = {"mobile_app"}
  /\ Plugins["first_class_game"].archetypes = {"game_app"}
  /\ Plugins["first_class_realtime"].archetypes = {"realtime_system"}
  /\ Plugins["first_class_enterprise_agent"].archetypes =
       {"workflow_system", "enterprise_agent_system"}
  BY DEF Plugins, CommercialPlugins, MobilePlugins, GamePlugins, RealtimePlugins,
         EnterprisePlugins

LEMMA PluginFrontends ==
  /\ Plugins["first_class_commercial"].frontend = "react_next"
  /\ Plugins["first_class_mobile"].frontend = "flutter_mobile"
  /\ Plugins["first_class_game"].frontend = "godot_game"
  /\ Plugins["first_class_realtime"].frontend = "react_next"
  /\ Plugins["first_class_enterprise_agent"].frontend = "react_next"
  BY DEF Plugins, CommercialPlugins, MobilePlugins, GamePlugins, RealtimePlugins,
         EnterprisePlugins

LEMMA PluginPriorities == \A l \in DOMAIN Plugins : Plugins[l].priority \in Nat
  BY PluginRows DEF Plugins, CommercialPlugins, MobilePlugins, GamePlugins, RealtimePlugins,
         EnterprisePlugins

(* A stack as the loader makes it: one entry for each category. *)
AsLoaded(stack) == stack = [c \in Category |-> stack[c]]

(* A first-class stack is all one stack, but for its frontend. *)
LEMMA FirstClassStack ==
  ASSUME NEW stack, AsLoaded(stack), ResolvesStack(stack), FirstClass(stack)
  PROVE  stack = [frontend |-> stack.frontend, backend |-> "fastapi",
                  database |-> "postgres", deployment |-> "docker_compose"]
<1>1. stack.backend = "fastapi"
  BY Categories, Backends DEF ResolvesStack, FirstClass
<1>2. stack.database = "postgres"
  BY Categories, Databases DEF ResolvesStack, FirstClass
<1>3. stack.deployment = "docker_compose"
  BY Categories, Deployments DEF ResolvesStack, FirstClass
<1> QED BY <1>1, <1>2, <1>3, Categories DEF AsLoaded

(* The lane that a type's plugins are of. *)
PluginLane(a) == IF a = "workflow_system" THEN "first_class_enterprise_agent" ELSE LaneOf(a)

LEMMA OneLane ==
  ASSUME NEW a, NEW stack, EnforceLane(a, stack),
         stack = [frontend |-> stack.frontend, backend |-> "fastapi",
                  database |-> "postgres", deployment |-> "docker_compose"],
         NEW l \in DOMAIN Plugins
  PROVE  Supports(l, a, stack) <=> l = PluginLane(a)
<1>1. SupportsStack(l, stack) <=> Plugins[l].frontend = stack.frontend
  BY DEF SupportsStack
<1>2. Supports(l, a, stack) <=> a \in Plugins[l].archetypes /\ Plugins[l].frontend = stack.frontend
  BY <1>1 DEF Supports
<1>3. CASE a = "mobile_app" /\ stack.frontend = "flutter_mobile"
  BY <1>2, <1>3, PluginRows, PluginFrontends, LaneOfTypes DEF PluginLane
<1>4. CASE a = "game_app" /\ stack.frontend = "godot_game"
  BY <1>2, <1>4, PluginRows, PluginFrontends, LaneOfTypes DEF PluginLane
<1>5. CASE a = "realtime_system" /\ stack.frontend = "react_next"
  BY <1>2, <1>5, PluginRows, PluginFrontends, LaneOfTypes DEF PluginLane
<1>6. CASE a = "enterprise_agent_system" /\ stack.frontend = "react_next"
  BY <1>2, <1>6, PluginRows, PluginFrontends, LaneOfTypes DEF PluginLane
<1>7. CASE a = "workflow_system" /\ stack.frontend = "react_next"
  BY <1>2, <1>7, PluginRows, PluginFrontends, LaneOfTypes DEF PluginLane
<1>8. CASE /\ a \in {"internal_tool", "workspace_app", "saas_web_app", "api_service",
                     "copilot_chat_app"}
           /\ stack.frontend = "react_next"
  BY <1>2, <1>8, PluginRows, PluginFrontends, LaneOfTypes DEF PluginLane
<1> QED BY <1>3, <1>4, <1>5, <1>6, <1>7, <1>8, Enforced

LEMMA OneLaneExists ==
  ASSUME NEW a, NEW stack, EnforceLane(a, stack)
  PROVE  PluginLane(a) \in DOMAIN Plugins
  BY Enforced, LaneOfTypes, PluginRows DEF PluginLane

LEMMA ResolvedToOne ==
  ASSUME NEW a, NEW stack, ResolvesArchetype(a), EnforceLane(a, stack), AsLoaded(stack),
         ResolvesStack(stack), FirstClass(stack)
  PROVE  ResolvedLane(a, stack) = {PluginLane(a)}
<1> DEFINE lane == PluginLane(a)
<1>1. lane \in DOMAIN Plugins
  BY OneLaneExists
<1>2. stack = [frontend |-> stack.frontend, backend |-> "fastapi",
               database |-> "postgres", deployment |-> "docker_compose"]
  BY FirstClassStack
<1>3. \A l \in DOMAIN Plugins : Supports(l, a, stack) <=> l = lane
  BY <1>2, OneLane
<1> HIDE DEF lane
<1>4. {l \in DOMAIN Plugins : Supports(l, a, stack)} = {lane}
  BY <1>1, <1>3
<1>5. \A type : Candidates(type, a, stack) = {lane}
  BY <1>4 DEF Candidates
<1>6. \A type : ResolveOne(type, a, stack) = {lane}
  BY <1>1, <1>5, PluginPriorities DEF ResolveOne
<1>7. "stack" \in PluginType
  BY DEF PluginType
<1>8. \A l : l \in ResolvedLane(a, stack) <=> l = lane
  BY <1>1, <1>6, <1>7 DEF ResolvedLane
<1>9. ResolvedLane(a, stack) = {lane}
  BY <1>8
<1> QED BY <1>9 DEF lane

-----------------------------------------------------------------------------
(* Whatever is built is lawful.                                             *)

(* What run_build_workflow has asked of an application, and what was asked of
   it before, unless the directory was edited between the two readings; e is
   the set of the commands during which it was. *)
LawfulApp(a, e) ==
  /\ AsLoaded(a.ir.stack) /\ ResolvesArchetype(a.ir.app_type) /\ ResolvesStack(a.ir.stack)
  /\ EnforceLane(a.ir.app_type, a.ir.stack)
  /\ (a.kind = "chat" \/ (a.kind = "ship" /\ a.by \notin e)) => FirstClass(a.ir.stack)

AppsLawful == \A t \in Targets : app[t] # NoApp => LawfulApp(app[t], edited)

(* Between the two readings, the first one's verdict stands. *)
ShipsChecked ==
  \A p \in Procs :
    pc[p] = "reload" => job[p].n \in edited \/ (spec # Nothing /\ FirstClass(spec.stack))

Lawful == TypeOK /\ AppsLawful /\ ShipsChecked

LEMMA LawfulIsEnough == Lawful => BuiltIsLawful
<1> SUFFICES ASSUME Lawful, NEW t \in Targets, app[t] # NoApp
             PROVE  LET ir == app[t].ir IN
                    /\ ResolvesArchetype(ir.app_type) /\ EnforceLane(ir.app_type, ir.stack)
                    /\ Tier("frontend", ir.stack.frontend) = "first_class"
                    /\ app[t].kind = "chat" \/ (app[t].kind = "ship" /\ app[t].by \notin edited)
                         => FirstClass(ir.stack)
                    /\ FirstClass(ir.stack) =>
                         ResolvedLane(ir.app_type, ir.stack) =
                           {IF ir.app_type = "workflow_system" THEN "first_class_enterprise_agent"
                            ELSE LaneOf(ir.app_type)}
  BY DEF BuiltIsLawful
<1> DEFINE ir == app[t].ir
<1>1. LawfulApp(app[t], edited)
  BY DEF Lawful, AppsLawful
<1>2. /\ AsLoaded(ir.stack) /\ ResolvesArchetype(ir.app_type) /\ ResolvesStack(ir.stack)
      /\ EnforceLane(ir.app_type, ir.stack)
  BY <1>1 DEF LawfulApp
<1>3. app[t].kind = "chat" \/ (app[t].kind = "ship" /\ app[t].by \notin edited)
        => FirstClass(ir.stack)
  BY <1>1 DEF LawfulApp
<1> HIDE DEF ir
<1>4. Tier("frontend", ir.stack.frontend) = "first_class"
  BY <1>2, Enforced, Frontends
<1>5. FirstClass(ir.stack) => ResolvedLane(ir.app_type, ir.stack) = {PluginLane(ir.app_type)}
  BY <1>2, ResolvedToOne
<1> QED BY <1>2, <1>3, <1>4, <1>5 DEF ir, PluginLane

LEMMA InitLawful == Init => Lawful
  BY InitTyped DEF Init, Lawful, AppsLawful, ShipsChecked

(* Of an application it is enough to know the document. *)
LEMMA AppOfDocument ==
  ASSUME NEW doc, AsLoaded(doc.stack), BuildAccepts(doc), NEW n, NEW kind, NEW over, NEW e,
         (kind = "chat" \/ (kind = "ship" /\ n \notin e)) => FirstClass(doc.stack)
  PROVE  LawfulApp([by |-> n, kind |-> kind, ir |-> AppIR(doc), whole |-> FALSE,
                    over |-> over], e)
<1>1. AppIR(doc).stack = doc.stack /\ AppIR(doc).app_type = doc.app_type
  BY DEF AppIR
<1> DEFINE ir == AppIR(doc)
<1>2. ir.stack = doc.stack /\ ir.app_type = doc.app_type
  BY <1>1
<1> HIDE DEF ir
<1>3. LawfulApp([by |-> n, kind |-> kind, ir |-> ir, whole |-> FALSE, over |-> over], e)
  BY <1>2 DEF LawfulApp, BuildAccepts, Compiles
<1> QED BY <1>3 DEF ir

LEMMA OperatorsStack ==
  ASSUME TypeOK, NEW doc \in world.docs
  PROVE  AsLoaded(doc.stack)
<1>1. doc.stack \in [Category -> STRING]
  BY ChatBuildAssumption DEF TypeOK, World
<1> QED BY <1>1 DEF AsLoaded

LEMMA WrittenStack ==
  ASSUME NEW q
  PROVE  AsLoaded(Synthesize(q).stack)
<1>1. Synthesize(q).stack = Stack(q)
  BY DEF Synthesize
<1> DEFINE f == InferLane(q).frontend
<1>2. Stack(q) = [frontend |-> f, backend |-> "fastapi", database |-> "postgres",
                  deployment |-> "docker_compose"]
  BY DEF Stack
<1> HIDE DEF f
<1>3. AsLoaded(Stack(q))
  BY <1>2, Categories DEF AsLoaded
<1> QED BY <1>1, <1>3

(* A target gets another application, the others keep theirs. *)
LEMMA AppReplaced ==
  ASSUME TypeOK, AppsLawful, NEW t \in Targets, NEW a, app' = [app EXCEPT ![t] = a],
         edited' = edited, LawfulApp(a, edited)
  PROVE  AppsLawful'
<1>1. ASSUME NEW s \in Targets, app'[s] # NoApp PROVE LawfulApp(app'[s], edited)
  <2>1. CASE s = t
    BY <2>1 DEF TypeOK
  <2>2. CASE s # t
    BY <1>1, <2>2 DEF TypeOK, AppsLawful
  <2> QED BY <2>1, <2>2
<1> QED BY <1>1 DEF AppsLawful

(* A process that is not at its second reading puts none in doubt. *)
LEMMA ShipsStay ==
  ASSUME TypeOK, ShipsChecked, NEW p \in Procs, NEW step, pc' = [pc EXCEPT ![p] = step],
         step # "reload", NEW j, job' = [job EXCEPT ![p] = j], spec' = spec, edited' = edited
  PROVE  ShipsChecked'
<1>1. ASSUME NEW r \in Procs, pc'[r] = "reload"
      PROVE  job'[r].n \in edited \/ (spec # Nothing /\ FirstClass(spec.stack))
  <2>1. r # p
    BY <1>1 DEF TypeOK
  <2>2. pc'[r] = pc[r] /\ job'[r] = job[r]
    BY <2>1 DEF TypeOK
  <2> QED BY <1>1, <2>2 DEF ShipsChecked
<1> QED BY <1>1 DEF ShipsChecked

LEMMA SameJob ==
  ASSUME TypeOK, NEW p \in Procs, job' = job
  PROVE  job' = [job EXCEPT ![p] = job[p]]
  BY DEF TypeOK

LEMMA ChatLawful ==
  ASSUME Lawful, NEW p \in Procs, NEW q \in world.prompts, NEW t \in Targets,
         NEW approve \in BOOLEAN, StartChat(p, q, t, approve)
  PROVE  AppsLawful' /\ ShipsChecked'
<1>1. app' = app /\ spec' = spec /\ edited' = edited
  BY DEF StartChat, history
<1>2. \E step : pc' = [pc EXCEPT ![p] = step] /\ step # "reload"
  BY DEF StartChat
<1>3. \E j : job' = [job EXCEPT ![p] = j]
  BY DEF StartChat
<1>4. AppsLawful'
  BY <1>1 DEF Lawful, AppsLawful
<1> QED BY <1>1, <1>2, <1>3, <1>4, ShipsStay DEF Lawful

LEMMA ShipLawful ==
  ASSUME Lawful, NEW p \in Procs, ShipBegins(p)
  PROVE  AppsLawful' /\ ShipsChecked'
<1> DEFINE doc == Synthesize(job[p].prompt)
           over == app[job[p].target] # NoApp
           a == [by |-> job[p].n, kind |-> job[p].kind, ir |-> AppIR(doc), whole |-> FALSE,
                 over |-> over]
<1>1. BuildAccepts(doc) /\ Begin(p, job[p].target, AppIR(doc))
  BY DEF ShipBegins
<1>2. AsLoaded(doc.stack) /\ FirstClass(doc.stack)
  BY WrittenStack, WrittenAccepted
<1>3. spec' = spec /\ edited' = edited /\ job' = job
  BY DEF ShipBegins, history
<1>4. job[p].target \in Targets
  BY AtStep, JobKinds DEF ShipBegins, Lawful
<1>5. app' = [app EXCEPT ![job[p].target] = a] /\ pc' = [pc EXCEPT ![p] = "building"]
  BY <1>1 DEF Begin
<1> HIDE DEF doc, over
<1>6. LawfulApp(a, edited)
  BY <1>1, <1>2, AppOfDocument
<1> HIDE DEF a
<1> QED BY <1>3, <1>4, <1>5, <1>6, AppReplaced, ShipsStay, SameJob DEF Lawful

(* What completes stays what it was begun as. *)
LEMMA BuildLawful ==
  ASSUME Lawful, NEW p \in Procs, BuildCompletes(p) \/ BuildRaises(p)
  PROVE  AppsLawful' /\ ShipsChecked'
<1>1. spec' = spec /\ edited' = edited
  BY DEF BuildCompletes, BuildRaises, history
<1>2. \E step, j : /\ pc' = [pc EXCEPT ![p] = step] /\ step # "reload"
                   /\ job' = [job EXCEPT ![p] = j]
  <2>1. CASE job[p].kind = "chat"
    <3>1. Continues(p, "open")
      BY <2>1 DEF BuildCompletes, BuildRaises
    <3> QED BY <3>1, SameJob DEF Continues, Lawful
  <2>2. CASE job[p].kind # "chat"
    <3>1. Ends(p)
      BY <2>2 DEF BuildCompletes, BuildRaises
    <3> QED BY <3>1 DEF Ends
  <2> QED BY <2>1, <2>2
<1>3. ShipsChecked'
  BY <1>1, <1>2, ShipsStay DEF Lawful
<1>4. CASE app' = app
  BY <1>1, <1>3, <1>4 DEF Lawful, AppsLawful
<1>5. CASE Mine(p) /\ app' = [app EXCEPT ![job[p].target].whole = TRUE]
  <2> DEFINE t == job[p].target
             a == [app[t] EXCEPT !.whole = TRUE]
  <2>1. t \in Targets /\ job[p].n \in Number
    BY AtStep, JobKinds DEF BuildCompletes, BuildRaises, Lawful
  <2>2. app[t] \in App /\ app[t] # NoApp
    BY <1>5, <2>1 DEF Lawful, TypeOK, Mine, NoApp, Number
  <2>3. app' = [app EXCEPT ![t] = a]
    BY <1>5
  <2>4. a.ir = app[t].ir /\ a.kind = app[t].kind /\ a.by = app[t].by
    BY <2>2 DEF App
  <2>5. LawfulApp(app[t], edited)
    BY <2>1, <2>2 DEF Lawful, AppsLawful
  <2> HIDE DEF t, a
  <2>6. LawfulApp(a, edited)
    BY <2>4, <2>5 DEF LawfulApp
  <2> QED BY <1>1, <1>3, <2>1, <2>3, <2>6, AppReplaced DEF Lawful
<1> QED BY <1>4, <1>5 DEF BuildCompletes, BuildRaises

LEMMA SaveLawful ==
  ASSUME Lawful, NEW p \in Procs,
         ShipRefuses(p) \/ OpenMemory(p) \/ DumpMemory(p) \/ Kill(p)
  PROVE  AppsLawful' /\ ShipsChecked'
<1>1. app' = app /\ spec' = spec /\ edited' = edited
  BY DEF ShipRefuses, OpenMemory, DumpMemory, Kill, history
<1>2. \E step, j : /\ pc' = [pc EXCEPT ![p] = step] /\ step # "reload"
                   /\ job' = [job EXCEPT ![p] = j]
  BY SameJob DEF ShipRefuses, OpenMemory, DumpMemory, Kill, Ends, Lawful
<1>3. AppsLawful'
  BY <1>1 DEF Lawful, AppsLawful
<1> QED BY <1>1, <1>2, <1>3, ShipsStay DEF Lawful

(* The tiers are asked at the first reading, and asked of what is there. *)
LEMMA OperatorLawful ==
  ASSUME Lawful, NEW p \in Procs, NEW t \in Targets,
         StartBuild(p, t) \/ StartShip(p, t) \/ Reload(p)
  PROVE  AppsLawful' /\ ShipsChecked'
<1>1. spec' = spec /\ edited' = edited
  BY DEF StartBuild, StartShip, Reload, history
<1>2. CASE StartBuild(p, t)
  <2> DEFINE over == app[t] # NoApp
             a == [by |-> commands', kind |-> "build", ir |-> AppIR(spec), whole |-> FALSE,
                   over |-> over]
  <2>1. app' = [app EXCEPT ![t] = a]
    BY <1>2 DEF StartBuild
  <2>2. BuildAccepts(spec) /\ AsLoaded(spec.stack)
    BY <1>2, OperatorsStack DEF StartBuild, Lawful, TypeOK
  <2> HIDE DEF over
  <2>3. LawfulApp(a, edited)
    BY <2>2, AppOfDocument
  <2> HIDE DEF a
  <2>4. \E step, j : /\ pc' = [pc EXCEPT ![p] = step] /\ step # "reload"
                     /\ job' = [job EXCEPT ![p] = j]
    BY <1>2 DEF StartBuild
  <2> QED BY <1>1, <2>1, <2>3, <2>4, AppReplaced, ShipsStay DEF Lawful
<1>3. CASE StartShip(p, t)
  <2>1. app' = app
    BY <1>3 DEF StartShip
  <2>2. spec # Nothing /\ FirstClass(spec.stack)
    BY <1>3 DEF StartShip, ShipPrecheck
  <2>3. AppsLawful'
    BY <1>1, <2>1 DEF Lawful, AppsLawful
  <2> QED BY <1>1, <2>2, <2>3 DEF ShipsChecked
<1>4. CASE Reload(p)
  <2>1. pc[p] = "reload" /\ job[p].target \in Targets /\ job[p].kind = "ship"
    BY <1>4, AtStep, JobKinds DEF Reload, Lawful
  <2>2. CASE spec # Nothing /\ BuildAccepts(spec)
    <3> DEFINE over == app[job[p].target] # NoApp
               a == [by |-> job[p].n, kind |-> job[p].kind, ir |-> AppIR(spec),
                     whole |-> FALSE, over |-> over]
    <3>1. Begin(p, job[p].target, AppIR(spec)) /\ job' = job
      BY <1>4, <2>2 DEF Reload
    <3>2. app' = [app EXCEPT ![job[p].target] = a] /\ pc' = [pc EXCEPT ![p] = "building"]
      BY <3>1 DEF Begin
    <3>3. AsLoaded(spec.stack)
      BY <2>2, OperatorsStack DEF Lawful, TypeOK
    <3>4. job[p].n \notin edited => FirstClass(spec.stack)
      BY <2>1 DEF Lawful, ShipsChecked
    <3> HIDE DEF over
    <3>5. LawfulApp(a, edited)
      BY <2>1, <2>2, <3>3, <3>4, AppOfDocument
    <3> HIDE DEF a
    <3> QED BY <1>1, <2>1, <3>1, <3>2, <3>5, AppReplaced, ShipsStay, SameJob DEF Lawful
  <2>3. CASE ~(spec # Nothing /\ BuildAccepts(spec))
    <3>1. Ends(p) /\ app' = app
      BY <1>4, <2>3 DEF Reload
    <3>2. AppsLawful'
      BY <1>1, <3>1 DEF Lawful, AppsLawful
    <3> QED BY <1>1, <3>1, <3>2, ShipsStay DEF Lawful, Ends
  <2> QED BY <2>2, <2>3
<1> QED BY <1>2, <1>3, <1>4

(* An edit is noted against every command that has read the directory once. *)
LEMMA EditLawful ==
  ASSUME Lawful, NEW doc \in world.docs, OperatorEdits(doc)
  PROVE  AppsLawful' /\ ShipsChecked'
<1>1. /\ app' = app /\ pc' = pc /\ job' = job
      /\ edited' = edited \cup {job[r].n : r \in {x \in Procs : pc[x] = "reload"}}
  BY DEF OperatorEdits, locals
<1>2. \A a : LawfulApp(a, edited) => LawfulApp(a, edited')
  <2>1. edited \subseteq edited'
    BY <1>1
  <2> QED BY <2>1 DEF LawfulApp
<1>3. AppsLawful'
  BY <1>1, <1>2 DEF Lawful, AppsLawful
<1>4. ShipsChecked'
  BY <1>1 DEF ShipsChecked
<1> QED BY <1>3, <1>4

LEMMA LawfulNext == Lawful /\ [Next]_vars => Lawful'
<1> SUFFICES ASSUME Lawful, [Next]_vars PROVE AppsLawful' /\ ShipsChecked'
  BY TypeNext DEF Lawful
<1>1. ASSUME NEW p \in Procs, Work(p) PROVE AppsLawful' /\ ShipsChecked'
  <2>1. CASE Reload(p)
    <3>1. job[p].target \in Targets
      BY <2>1, AtStep, JobKinds DEF Reload, Lawful
    <3> QED BY <2>1, <3>1, OperatorLawful
  <2> QED BY <1>1, <2>1, ShipLawful, BuildLawful, SaveLawful DEF Work
<1>2. ASSUME NEW p \in Procs, NEW q \in world.prompts, NEW t \in Targets,
             NEW approve \in BOOLEAN, StartChat(p, q, t, approve)
      PROVE  AppsLawful' /\ ShipsChecked'
  BY <1>2, ChatLawful
<1>3. ASSUME NEW p \in Procs, NEW t \in Targets, StartBuild(p, t) \/ StartShip(p, t)
      PROVE  AppsLawful' /\ ShipsChecked'
  BY <1>3, OperatorLawful
<1>4. CASE UNCHANGED vars
  BY <1>4 DEF vars, locals, history, Lawful, AppsLawful, ShipsChecked
<1> QED BY <1>1, <1>2, <1>3, <1>4, SaveLawful, EditLawful DEF Next

(* Nothing is ever begun that its lane's contract does not allow; what a prompt
   led to, and what was shipped from a directory that stayed as it was read
   first, is first-class throughout; and what is first-class has plugins of
   one lane - for any commands that overlap and die, and an operator who edits
   whenever he likes. *)
THEOREM BuildsAreLawful == Spec => []BuiltIsLawful
  BY InitLawful, LawfulNext, LawfulIsEnough, PTL DEF Spec

=============================================================================
