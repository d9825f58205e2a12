------------------------ MODULE MissionKernel_proofs ------------------------
(***************************************************************************)
(* Proofs about MissionKernel: types, that no task of a gated run is       *)
(* executed before an operator approved it, and that no command goes on    *)
(* for ever, for any number of processes that overlap, fail to read a file *)
(* and die at any step.                                                    *)
(***************************************************************************)
EXTENDS MissionKernel, TLAPS

(* What a process relies on when it uses the record it holds. *)
Shape ==
  /\ Readable("record") => record \in RunRecord
  /\ \A p \in Procs :
       /\ opened[p] => pc[p] \in WriteStage
       /\ pc[p] \in WriteStage \ {"approve"} => held[p] \in RunRecord
       /\ pc[p] \in {"overlay", "result"} => held[p].risk # "unset"
       /\ pc[p] = "approve" => cmd[p] = "resume_mission"
       /\ pc[p] # "idle" /\ cmd[p] = "resume_mission" => first[p] \in RunRecord

(* GateHolds alone is not inductive: stale records are written back by any
   process at any time, so until an approval is given every copy of the record,
   on disk and in memory, must be a waiting one. *)
Waiting(r) == r # NoRecord => r.awaiting = TRUE /\ r.approval # "approved"

GateShut ==
  goal.gated = TRUE /\ granted = FALSE =>
    /\ executions = 0
    /\ Waiting(record)
    /\ \A p \in Procs : /\ pc[p] \notin {"approve", "memory"}
                        /\ Waiting(held[p])
                        /\ Waiting(first[p])

IInv == TypeOK /\ Shape /\ GateShut

LEMMA RecordIsNotNoRecord ==
  ASSUME NEW r \in RunRecord
  PROVE  r # NoRecord
BY DEF RunRecord, NoRecord

LEMMA GoalFields ==
  ASSUME goal \in Goals
  PROVE  /\ goal.gated \in BOOLEAN
         /\ goal.risk \in Risk
         /\ goal.checkpoint \in BOOLEAN
BY MissionAssumption DEF GoalSpace

LEMMA FreshType == ASSUME goal \in Goals PROVE FreshRecord \in RunRecord
<1>1. goal.gated = TRUE \/ goal.gated = FALSE
  BY GoalFields
<1>2. CASE goal.gated = TRUE
  BY <1>2 DEF FreshRecord, RunRecord, ValidApprovalStates
<1>3. CASE goal.gated = FALSE
  BY <1>3 DEF FreshRecord, RunRecord, ValidApprovalStates
<1> QED
  BY <1>1, <1>2, <1>3

(* The record builders make records. *)
LEMMA BuilderTypes ==
  ASSUME goal \in Goals, NEW r \in RunRecord, NEW loaded \in RunRecord
  PROVE  /\ ContinueExecution(r) \in RunRecord
         /\ MissionOverlay(r) \in RunRecord
         /\ MissionOverlay(r).risk # "unset"
         /\ ResumeOverlay(r, loaded) \in RunRecord
         /\ ResumeOverlay(r, loaded).risk # "unset"
         /\ [r EXCEPT !.awaiting = FALSE] \in RunRecord
         /\ [r EXCEPT !.approval = "approved"] \in RunRecord
<1> USE GoalFields DEF RunRecord, Risk, ValidApprovalStates
<1>1. ContinueExecution(r) \in RunRecord
  BY DEF ContinueExecution
<1>2. (loaded.changes /\ goal.checkpoint) \in BOOLEAN
  OBVIOUS
<1>3. MissionOverlay(r) \in RunRecord /\ MissionOverlay(r).risk # "unset"
  BY DEF MissionOverlay
<1>4. ResumeOverlay(r, loaded) \in RunRecord /\ ResumeOverlay(r, loaded).risk # "unset"
  <2> DEFINE restore == loaded.changes /\ goal.checkpoint
             risk == IF loaded.risk = "unset" THEN "safe" ELSE loaded.risk
  <2>1. ResumeOverlay(r, loaded) =
          [r EXCEPT !.changes = loaded.changes, !.risk = risk, !.restore = restore]
    BY DEF ResumeOverlay
  <2>2. restore \in BOOLEAN /\ risk \in Risk
    BY <1>2
  <2> HIDE DEF restore, risk
  <2> QED
    BY <2>1, <2>2
<1>5. /\ [r EXCEPT !.awaiting = FALSE] \in RunRecord
      /\ [r EXCEPT !.approval = "approved"] \in RunRecord
  OBVIOUS
<1> QED
  BY <1>1, <1>3, <1>4, <1>5

(* Neither overlay touches what the gate looks at. *)
LEMMA OverlaysKeepWaiting ==
  ASSUME NEW r \in RunRecord, NEW loaded \in RunRecord, Waiting(r)
  PROVE  Waiting(MissionOverlay(r)) /\ Waiting(ResumeOverlay(r, loaded))
BY RecordIsNotNoRecord DEF Waiting, MissionOverlay, ResumeOverlay, RunRecord

LEMMA ResultType ==
  ASSUME goal \in Goals, NEW r \in RunRecord, r.risk # "unset"
  PROVE  ResultOf(r) \in MissionResult
BY GoalFields DEF ResultOf, MissionResult, RunRecord, Risk

LEMMA InitInv == Init => IInv
<1> SUFFICES ASSUME Init PROVE IInv
  OBVIOUS
<1> USE DEF Init
<1>1. TypeOK
  <2>1. 0 \in 0..MaxCommands /\ 0 \in 0..MaxCrashes /\ 0 \in Nat
    BY MissionAssumption
  <2>2. /\ bytes \in [File -> Bytes]
        /\ pc \in [Procs -> Pc]
        /\ opened \in [Procs -> BOOLEAN]
        /\ cmd \in [Procs -> Command]
        /\ first \in [Procs -> RunRecord \cup {NoRecord}]
        /\ held \in [Procs -> RunRecord \cup {NoRecord}]
    BY DEF Bytes, Pc, Command
  <2> QED
    BY <2>1, <2>2 DEF TypeOK
<1>2. Shape
  BY DEF Shape, Readable, File, WriteStage
<1>3. GateShut
  BY DEF GateShut, Waiting
<1> QED
  BY <1>1, <1>2, <1>3 DEF IInv

(* A gated goal's first record waits. *)
LEMMA FreshWaits ==
  ASSUME goal \in Goals, goal.gated = TRUE
  PROVE  Waiting(FreshRecord)
BY DEF FreshRecord, Waiting

(* run_mission. *)
LEMMA RunMissionStep ==
  ASSUME IInv, NEW p \in Procs, RunMission(p)
  PROVE  IInv'
<1> USE DEF IInv, RunMission, Issue, files
<1>1. FreshRecord \in RunRecord
  BY FreshType DEF TypeOK
<1>2. TypeOK'
  BY <1>1, MissionAssumption DEF TypeOK, Pc, WriteStage, Command
<1>3. Shape'
  BY <1>1 DEF TypeOK, Shape, Readable, WriteStage
<1>4. GateShut'
  BY FreshWaits, GoalFields DEF TypeOK, GateShut
<1> QED
  BY <1>2, <1>3, <1>4

(* The commands that start by loading the record. *)
LEMMA ResumeStep ==
  ASSUME IInv, NEW p \in Procs, ResumeMission(p) \/ Resume(p)
  PROVE  IInv'
<1> USE DEF IInv, ResumeMission, Resume, Issue, files
<1>1. record \in RunRecord
  BY DEF Shape
<1>2. TypeOK'
  BY <1>1, MissionAssumption DEF TypeOK, Pc, WriteStage, Command
<1>3. Shape'
  BY <1>1 DEF TypeOK, Shape, Readable, WriteStage
<1>4. GateShut'
  BY DEF TypeOK, GateShut
<1> QED
  BY <1>2, <1>3, <1>4

LEMMA ApproveStep ==
  ASSUME IInv, NEW p \in Procs, ApproveMission(p)
  PROVE  IInv'
<1> USE DEF IInv, ApproveMission, Issue, files
<1>1. [record EXCEPT !.approval = "approved"] \in RunRecord
  BY DEF Shape, RunRecord, ValidApprovalStates
<1>2. TypeOK'
  BY <1>1, MissionAssumption DEF TypeOK, Pc, WriteStage, Command
<1>3. Shape'
  BY <1>1 DEF TypeOK, Shape, Readable, WriteStage
<1>4. GateShut'
  BY DEF GateShut
<1> QED
  BY <1>2, <1>3, <1>4

(* Handing a record back to the caller of resume_saved_run, or of a save. *)
LEMMA ReturnKeeps ==
  ASSUME IInv, NEW p \in Procs, NEW r \in RunRecord, ReturnToCaller(p, r),
         pc[p] \in {"load", "save"}
  PROVE  /\ pc' \in [Procs -> Pc]
         /\ held' \in [Procs -> RunRecord \cup {NoRecord}]
         /\ pc'[p] \in {"idle", "overlay"}
         /\ pc'[p] = "overlay" => held'[p] \in RunRecord /\ held'[p].risk # "unset"
         /\ Waiting(r) => Waiting(held'[p])
         /\ \A q \in Procs \ {p} : pc'[q] = pc[q] /\ held'[q] = held[q]
<1> USE DEF IInv, ReturnToCaller
<1>1. CASE cmd[p] = "resume_mission"
  <2>1. first[p] \in RunRecord
    BY <1>1 DEF Shape
  <2>2. /\ ResumeOverlay(r, first[p]) \in RunRecord
        /\ ResumeOverlay(r, first[p]).risk # "unset"
        /\ Waiting(r) => Waiting(ResumeOverlay(r, first[p]))
    BY <2>1, BuilderTypes, OverlaysKeepWaiting DEF TypeOK
  <2> QED
    BY <1>1, <2>2 DEF TypeOK, Pc, WriteStage
<1>2. CASE cmd[p] # "resume_mission"
  BY <1>2 DEF TypeOK, Pc, WriteStage
<1> QED
  BY <1>1, <1>2

LEMMA HandBackStep ==
  ASSUME IInv, NEW p \in Procs, HandBack(p)
  PROVE  IInv'
<1> USE DEF HandBack, files, counts
<1>1. record \in RunRecord
  BY DEF IInv, Shape
<1> DEFINE blocked == record.awaiting /\ record.approval # "approved"
           r == IF blocked THEN record ELSE [record EXCEPT !.awaiting = FALSE]
<1>2. r \in RunRecord /\ ReturnToCaller(p, r)
  BY <1>1 DEF RunRecord
<1>3. goal.gated = TRUE /\ granted = FALSE => Waiting(r)
  BY <1>1, RecordIsNotNoRecord DEF IInv, GateShut, Waiting
<1> HIDE DEF r
<1>4. /\ pc' \in [Procs -> Pc]
      /\ held' \in [Procs -> RunRecord \cup {NoRecord}]
      /\ pc'[p] \in {"idle", "overlay"}
      /\ pc'[p] = "overlay" => held'[p] \in RunRecord /\ held'[p].risk # "unset"
      /\ Waiting(r) => Waiting(held'[p])
      /\ \A q \in Procs \ {p} : pc'[q] = pc[q] /\ held'[q] = held[q]
  BY <1>2, ReturnKeeps
<1>5. TypeOK'
  BY <1>4 DEF IInv, TypeOK
<1>6. Shape'
  BY <1>4 DEF IInv, TypeOK, Shape, Readable, WriteStage
<1>7. GateShut'
  BY <1>3, <1>4 DEF IInv, TypeOK, GateShut
<1> QED
  BY <1>5, <1>6, <1>7 DEF IInv

(* Only an approved record is executed, and there is none while the gate is
   shut. *)
LEMMA ExecuteStep ==
  ASSUME IInv, NEW p \in Procs, Execute(p)
  PROVE  IInv'
<1> USE DEF Execute, files, counts
<1>1. record \in RunRecord
  BY DEF IInv, Shape
<1>2. ContinueExecution(record) \in RunRecord
  BY <1>1 DEF ContinueExecution, RunRecord
<1>3. TypeOK'
  BY <1>2 DEF IInv, TypeOK, Pc, WriteStage
<1>4. Shape'
  BY <1>2 DEF IInv, TypeOK, Shape, Readable, WriteStage
<1>5. GateShut'
  BY <1>1, RecordIsNotNoRecord DEF IInv, GateShut, Waiting
<1> QED
  BY <1>3, <1>4, <1>5 DEF IInv

LEMMA FileOfType == ASSUME NEW w \in WriteStage PROVE FileOf[w] \in File
BY DEF FileOf, WriteStage, File

LEMMA OpenStep ==
  ASSUME IInv, NEW p \in Procs, Open(p)
  PROVE  IInv'
<1> USE DEF Open, counts, IInv
<1>1. TypeOK'
  BY FileOfType DEF TypeOK, Bytes
<1>2. Shape'
  BY FileOfType DEF TypeOK, Shape, Readable, File
<1>3. GateShut'
  BY DEF GateShut
<1> QED
  BY <1>1, <1>2, <1>3

(* What a process writes is a record fit to be read, and a waiting one while the
   gate is shut; what it holds afterwards likewise. *)
LEMMA AfterWriteKeeps ==
  ASSUME IInv, NEW p \in Procs, pc[p] \in WriteStage, AfterWrite(p)
  PROVE  /\ pc' \in [Procs -> Pc]
         /\ held' \in [Procs -> RunRecord \cup {NoRecord}]
         /\ pc'[p] \in WriteStage \ {"approve"} => held'[p] \in RunRecord
         /\ pc'[p] \in {"overlay", "result"} => held'[p].risk # "unset"
         /\ pc'[p] # "approve"
         /\ pc'[p] # "memory"
         /\ Waiting(held[p]) => Waiting(held'[p])
         /\ \A q \in Procs \ {p} : pc'[q] = pc[q] /\ held'[q] = held[q]
<1> USE DEF AfterWrite
<1>1. CASE pc[p] \in {"approve", "memory", "overlay", "result"}
  BY <1>1 DEF IInv, TypeOK, Shape, Pc, WriteStage
<1>2. CASE pc[p] = "save" /\ cmd[p] = "mission"
  <2>1. held[p] \in RunRecord
    BY <1>2 DEF IInv, Shape, WriteStage
  <2>2. /\ MissionOverlay(held[p]) \in RunRecord
        /\ MissionOverlay(held[p]).risk # "unset"
        /\ Waiting(held[p]) => Waiting(MissionOverlay(held[p]))
    BY <2>1, BuilderTypes, OverlaysKeepWaiting DEF IInv, TypeOK
  <2> QED
    BY <1>2, <2>2 DEF IInv, TypeOK, Pc, WriteStage
<1>3. CASE pc[p] = "save" /\ cmd[p] # "mission"
  <2>1. held[p] \in RunRecord
    BY <1>3 DEF IInv, Shape, WriteStage
  <2>2. ReturnToCaller(p, held[p])
    BY <1>3
  <2> QED
    BY <1>3, <2>1, <2>2, ReturnKeeps DEF WriteStage
<1> QED
  BY <1>1, <1>2, <1>3 DEF WriteStage

LEMMA DumpStep ==
  ASSUME IInv, NEW p \in Procs, Dump(p)
  PROVE  IInv'
<1>1. pc[p] \in WriteStage /\ AfterWrite(p)
  BY DEF Dump, IInv, Shape
<1>2. /\ pc' \in [Procs -> Pc]
      /\ held' \in [Procs -> RunRecord \cup {NoRecord}]
      /\ pc'[p] \in WriteStage \ {"approve"} => held'[p] \in RunRecord
      /\ pc'[p] \in {"overlay", "result"} => held'[p].risk # "unset"
      /\ pc'[p] # "approve"
      /\ pc'[p] # "memory"
      /\ Waiting(held[p]) => Waiting(held'[p])
      /\ \A q \in Procs \ {p} : pc'[q] = pc[q] /\ held'[q] = held[q]
  BY <1>1, AfterWriteKeeps
<1> DEFINE f == FileOf[pc[p]]
<1>3. PICK outcome \in DumpOutcome(f) :
        /\ bytes' = [bytes EXCEPT ![f] = outcome]
        /\ record' = IF f = "record" /\ outcome = "whole" THEN Content(p) ELSE record
        /\ result' = IF f = "result" /\ outcome = "whole" THEN ResultOf(held[p]) ELSE result
  BY DEF Dump
<1>4. f \in File /\ outcome \in Bytes
  BY <1>1, <1>3, FileOfType DEF DumpOutcome, Bytes
<1>5. f = "record" => Content(p) \in RunRecord
  BY <1>1 DEF IInv, Shape, Content, FileOf, WriteStage
<1>6. f = "result" => ResultOf(held[p]) \in MissionResult
  <2>1. f = "result" => pc[p] = "result"
    BY <1>1 DEF FileOf, WriteStage
  <2> QED
    BY <2>1, ResultType DEF IInv, TypeOK, Shape, WriteStage
<1> HIDE DEF f
<1>7. UNCHANGED <<goal, created, cmd, first, counts, granted, executions>>
      /\ opened' = [opened EXCEPT ![p] = FALSE]
  BY DEF Dump
<1>0. TypeOK'
  BY <1>2, <1>3, <1>4, <1>5, <1>6, <1>7 DEF IInv, TypeOK, counts
<1>9. Shape'
  <2>1. Readable("record")' => record' \in RunRecord
    BY <1>3, <1>4, <1>5 DEF IInv, TypeOK, Shape, Readable
  <2> QED
    BY <1>1, <1>2, <1>7, <2>1 DEF IInv, TypeOK, Shape, WriteStage
<1>10. GateShut'
  BY <1>1, <1>2, <1>3, <1>7 DEF IInv, GateShut, Content
<1> QED
  BY <1>0, <1>9, <1>10 DEF IInv

LEMMA LoadFailsStep ==
  ASSUME IInv, NEW p \in Procs, LoadFails(p)
  PROVE  IInv'
<1> USE DEF IInv, LoadFails, files, counts
<1>1. TypeOK'
  BY DEF TypeOK, Pc
<1>2. Shape'
  BY DEF TypeOK, Shape, Readable, WriteStage
<1>3. GateShut'
  BY DEF TypeOK, GateShut
<1> QED
  BY <1>1, <1>2, <1>3

(* A death leaves every whole copy of the record as it was. *)
LEMMA CrashStep ==
  ASSUME IInv, NEW p \in Procs, Crash(p)
  PROVE  IInv'
<1> USE DEF Crash, IInv
<1>1. \/ UNCHANGED bytes
      \/ /\ opened[p]
         /\ \E left \in {bytes[FileOf[pc[p]]], "partial"} :
              bytes' = [bytes EXCEPT ![FileOf[pc[p]]] = left]
  OBVIOUS
<1>2. opened[p] => FileOf[pc[p]] \in File
  BY FileOfType DEF Shape
<1>3. bytes' \in [File -> Bytes] /\ (Readable("record")' => Readable("record"))
  <2>1. CASE UNCHANGED bytes
    BY <2>1 DEF TypeOK, Readable
  <2>2. ASSUME opened[p],
               NEW left \in {bytes[FileOf[pc[p]]], "partial"},
               bytes' = [bytes EXCEPT ![FileOf[pc[p]]] = left]
        PROVE  bytes' \in [File -> Bytes] /\ (Readable("record")' => Readable("record"))
    BY <2>2, <1>2 DEF TypeOK, Bytes, Readable, File
  <2> QED
    BY <1>1, <2>1, <2>2
<1>4. TypeOK'
  BY <1>3, MissionAssumption DEF TypeOK, Pc
<1>5. Shape'
  BY <1>3 DEF TypeOK, Shape, WriteStage
<1>6. GateShut'
  BY DEF TypeOK, GateShut
<1> QED
  BY <1>4, <1>5, <1>6

LEMMA OperatorStep ==
  ASSUME IInv, NEW decision \in {"approved", "denied", "escalated"},
         OperatorDecides(decision)
  PROVE  IInv'
<1> USE DEF OperatorDecides, procs, counts
<1>1. record \in RunRecord
  BY DEF IInv, Shape
<1>2. record' \in RunRecord /\ record'.awaiting = record.awaiting
                           /\ record'.approval = decision
  BY <1>1 DEF RunRecord, ValidApprovalStates
<1>3. TypeOK'
  BY <1>2 DEF IInv, TypeOK
<1>4. Shape'
  BY <1>2 DEF IInv, Shape, Readable
<1>5. GateShut'
  BY <1>1, <1>2, RecordIsNotNoRecord DEF IInv, TypeOK, GateShut, Waiting
<1> QED
  BY <1>3, <1>4, <1>5 DEF IInv

LEMMA StepInv == IInv /\ [Next]_vars => IInv'
<1> SUFFICES ASSUME IInv, [Next]_vars PROVE IInv'
  OBVIOUS
<1>1. CASE UNCHANGED vars
  BY <1>1 DEF IInv, TypeOK, Shape, GateShut, Readable, vars, files, procs, counts
<1>2. CASE Next
  BY <1>2, RunMissionStep, ResumeStep, ApproveStep, HandBackStep, ExecuteStep,
     LoadFailsStep, OpenStep, DumpStep, CrashStep, OperatorStep
     DEF Next, Work
<1> QED
  BY <1>1, <1>2

LEMMA Invariance == Spec => []IInv
BY InitInv, StepInv, PTL DEF Spec

(* Every variable keeps its type, crashes and overlapping commands included. *)
THEOREM TypeCorrect == Spec => []TypeOK
<1>1. IInv => TypeOK
  BY DEF IInv
<1> QED
  BY <1>1, Invariance, PTL

(* A gated run is never executed before it is approved. *)
THEOREM GateHolding == Spec => []GateHolds
<1>1. IInv => GateHolds
  BY GoalFields DEF IInv, TypeOK, GateShut, GateHolds
<1> QED
  BY <1>1, Invariance, PTL

-----------------------------------------------------------------------------
(* Why commands end: every step of a process brings its own end nearer, and *)
(* no other process can put it off.                                         *)

(* The steps a command has before it at most when it comes to w; a write is
   two of them, opening the file and dumping the text. *)
Ahead(w) ==
  [idle |-> 0, result |-> 2, overlay |-> 4, save |-> 6, memory |-> 8, load |-> 9,
   approve |-> 11][w]

StepsLeft(p) == IF opened[p] THEN Ahead(pc[p]) - 1 ELSE Ahead(pc[p])

(* The steps of a process that is at w, its file open or not. *)
Follows(w, open, v, open1) ==
  \/ w = "load" /\ open = FALSE /\ v \in {"idle", "overlay", "memory"} /\ open1 = FALSE
  \/ w \in WriteStage /\ open = FALSE /\ v = w /\ open1 = TRUE
  \/ w = "approve" /\ open = TRUE /\ v = "load" /\ open1 = FALSE
  \/ w = "memory" /\ open = TRUE /\ v = "save" /\ open1 = FALSE
  \/ w = "save" /\ open = TRUE /\ v \in {"idle", "overlay"} /\ open1 = FALSE
  \/ w = "overlay" /\ open = TRUE /\ v = "result" /\ open1 = FALSE
  \/ w = "result" /\ open = TRUE /\ v = "idle" /\ open1 = FALSE

LEMMA AheadTable ==
  /\ Ahead("approve") = 11 /\ Ahead("load") = 9 /\ Ahead("memory") = 8
  /\ Ahead("save") = 6 /\ Ahead("overlay") = 4 /\ Ahead("result") = 2
  /\ Ahead("idle") = 0
BY DEF Ahead

(* Each of these steps is one less. *)
LEMMA AheadFalls ==
  ASSUME NEW w, NEW open \in BOOLEAN, NEW v, NEW open1 \in BOOLEAN,
         Follows(w, open, v, open1)
  PROVE  (IF open1 THEN Ahead(v) - 1 ELSE Ahead(v))
           < (IF open THEN Ahead(w) - 1 ELSE Ahead(w))
<1>1. CASE open = TRUE
  BY <1>1, AheadTable DEF Follows
<1>2. CASE open = FALSE /\ w = "load"
  BY <1>2, AheadTable DEF Follows, WriteStage
<1>3. CASE open = FALSE /\ w # "load"
  BY <1>3, AheadTable DEF Follows, WriteStage
<1> QED BY <1>1, <1>2, <1>3

(* Where a process may be: it holds a file open only at a write. *)
LEMMA AtWrite ==
  ASSUME IInv, NEW p \in Procs
  PROVE  /\ pc[p] \in {"idle", "load", "approve", "memory", "save", "overlay", "result"}
         /\ opened[p] \in BOOLEAN
         /\ opened[p] = TRUE => pc[p] \in WriteStage
BY DEF IInv, TypeOK, Shape, Pc, WriteStage

(* The end is never more than eleven steps away, and only an idle process has
   none left. *)
LEMMA AheadNumber ==
  ASSUME NEW w \in Pc, NEW open \in BOOLEAN, open = TRUE => w \in WriteStage
  PROVE  /\ (IF open THEN Ahead(w) - 1 ELSE Ahead(w)) \in 0 .. 11
         /\ w # "idle" => (IF open THEN Ahead(w) - 1 ELSE Ahead(w)) > 0
<1>1. CASE open = FALSE
  BY <1>1, AheadTable DEF Pc, WriteStage
<1>2. CASE open = TRUE
  BY <1>2, AheadTable DEF WriteStage
<1> QED BY <1>1, <1>2

LEMMA LeftIsNumber ==
  ASSUME IInv, NEW p \in Procs
  PROVE  StepsLeft(p) \in 0 .. 11 /\ (pc[p] # "idle" => StepsLeft(p) > 0)
<1>1. pc[p] \in Pc /\ opened[p] \in BOOLEAN /\ (opened[p] = TRUE => pc[p] \in WriteStage)
  BY AtWrite DEF Pc, WriteStage
<1> QED BY <1>1, AheadNumber DEF StepsLeft

(* Each step of a command, and a crash, is one step less. *)
LEMMA StepCounts ==
  ASSUME IInv, NEW p \in Procs, Work(p) \/ Crash(p)
  PROVE  StepsLeft(p)' < StepsLeft(p)
<1>1. /\ pc \in [Procs -> Pc] /\ opened \in [Procs -> BOOLEAN]
      /\ opened[p] = TRUE => pc[p] \in WriteStage
  BY DEF IInv, TypeOK, Shape
<1>0. ASSUME Follows(pc[p], opened[p], pc'[p], opened'[p])
      PROVE  StepsLeft(p)' < StepsLeft(p)
  <2>1. opened[p] \in BOOLEAN /\ opened'[p] \in BOOLEAN
    BY <1>1, <1>0 DEF Follows
  <2>2. (IF opened'[p] THEN Ahead(pc'[p]) - 1 ELSE Ahead(pc'[p]))
          < (IF opened[p] THEN Ahead(pc[p]) - 1 ELSE Ahead(pc[p]))
    BY <1>0, <2>1, AheadFalls
  <2> QED BY <2>2 DEF StepsLeft
<1>2. CASE HandBack(p)
  <2>1. PICK r : ReturnToCaller(p, r)
    BY <1>2 DEF HandBack
  <2>2. pc[p] = "load" /\ pc'[p] \in {"idle", "overlay"} /\ opened' = opened
    BY <1>1, <1>2, <2>1 DEF HandBack, ReturnToCaller
  <2>3. opened[p] = FALSE
    BY <1>1, <2>2 DEF WriteStage
  <2>4. Follows(pc[p], opened[p], pc'[p], opened'[p])
    BY <2>2, <2>3 DEF Follows
  <2> QED BY <1>0, <2>4
<1>3. CASE Execute(p)
  <2>1. pc[p] = "load" /\ pc'[p] = "memory" /\ opened' = opened
    BY <1>1, <1>3 DEF Execute
  <2>2. opened[p] = FALSE
    BY <1>1, <2>1 DEF WriteStage
  <2>3. Follows(pc[p], opened[p], pc'[p], opened'[p])
    BY <2>1, <2>2 DEF Follows
  <2> QED BY <1>0, <2>3
<1>4. CASE LoadFails(p)
  <2>1. pc[p] = "load" /\ pc'[p] = "idle" /\ opened' = opened
    BY <1>1, <1>4 DEF LoadFails
  <2>2. opened[p] = FALSE
    BY <1>1, <2>1 DEF WriteStage
  <2>3. Follows(pc[p], opened[p], pc'[p], opened'[p])
    BY <2>1, <2>2 DEF Follows
  <2> QED BY <1>0, <2>3
<1>5. CASE Open(p)
  <2>1. pc[p] \in WriteStage /\ pc' = pc /\ opened[p] = FALSE /\ opened'[p] = TRUE
    BY <1>1, <1>5 DEF Open
  <2>2. Follows(pc[p], opened[p], pc'[p], opened'[p])
    BY <2>1 DEF Follows
  <2> QED BY <1>0, <2>2
<1>6. CASE Dump(p)
  <2>1. opened[p] = TRUE /\ opened'[p] = FALSE /\ AfterWrite(p) /\ pc[p] \in WriteStage
    BY <1>1, <1>6 DEF Dump
  <2>2. /\ pc[p] = "approve" => pc'[p] = "load"
        /\ pc[p] = "memory" => pc'[p] = "save"
        /\ pc[p] = "save" => pc'[p] \in {"idle", "overlay"}
        /\ pc[p] = "overlay" => pc'[p] = "result"
        /\ pc[p] = "result" => pc'[p] = "idle"
    BY <1>1, <2>1 DEF AfterWrite, ReturnToCaller, WriteStage
  <2>3. Follows(pc[p], opened[p], pc'[p], opened'[p])
    BY <2>1, <2>2 DEF Follows, WriteStage
  <2> QED BY <1>0, <2>3
<1>7. CASE Crash(p)
  <2>1. pc[p] # "idle" /\ pc'[p] = "idle" /\ opened'[p] = FALSE
    BY <1>1, <1>7 DEF Crash
  <2>2. StepsLeft(p) \in 0 .. 11 /\ StepsLeft(p) > 0
    BY <2>1, LeftIsNumber
  <2>3. StepsLeft(p)' = 0
    BY <2>1, AheadTable DEF StepsLeft
  <2> QED BY <2>2, <2>3
<1> QED BY <1>2, <1>3, <1>4, <1>5, <1>6, <1>7 DEF Work

(* What one process does leaves the place of every other as it was; a command
   is started only where none is running, and the operator touches no process. *)
LEMMA OthersStay ==
  ASSUME IInv, Next, NEW p \in Procs, pc[p] # "idle"
  PROVE  Work(p) \/ Crash(p) \/ (pc'[p] = pc[p] /\ opened'[p] = opened[p])
<1>1. /\ pc \in [Procs -> Pc] /\ opened \in [Procs -> BOOLEAN]
  BY DEF IInv, TypeOK
<1>2. ASSUME NEW decision, OperatorDecides(decision)
      PROVE  pc' = pc /\ opened' = opened
  BY <1>2 DEF OperatorDecides, procs
<1>3. ASSUME NEW q \in Procs,
             RunMission(q) \/ ResumeMission(q) \/ ApproveMission(q) \/ Resume(q)
      PROVE  pc'[p] = pc[p] /\ opened' = opened
  BY <1>1, <1>3 DEF RunMission, ResumeMission, ApproveMission, Resume, Issue
<1>4. ASSUME NEW q \in Procs, q # p, Work(q) \/ Crash(q)
      PROVE  pc'[p] = pc[p] /\ opened'[p] = opened[p]
  <2>1. CASE HandBack(q) \/ Execute(q) \/ LoadFails(q) \/ Open(q) \/ Crash(q)
    BY <1>1, <1>4, <2>1 DEF HandBack, Execute, LoadFails, Open, Crash, ReturnToCaller
  <2>2. CASE Dump(q)
    <3>1. AfterWrite(q) /\ opened' = [opened EXCEPT ![q] = FALSE] /\ pc[q] \in WriteStage
      BY <2>2 DEF Dump, IInv, Shape
    <3>2. \E w : pc' = [pc EXCEPT ![q] = w]
      BY <3>1 DEF AfterWrite, ReturnToCaller, WriteStage
    <3> QED BY <1>1, <1>4, <3>1, <3>2
  <2> QED BY <1>4, <2>1, <2>2 DEF Work
<1> QED BY <1>2, <1>3, <1>4 DEF Next

(* A command that has started is at most eleven steps from its end; each of its
   steps is one less and no other process, operator or crash puts it off,
   however many of them share its files.  With the scheduling of every process
   that is why commands end, whatever they read. *)
THEOREM CommandsRunOut ==
  Spec => /\ [](\A p \in Procs : StepsLeft(p) \in 0 .. 11)
          /\ [][\A p \in Procs : Work(p) => StepsLeft(p)' < StepsLeft(p)]_vars
          /\ [][\A p \in Procs : pc[p] # "idle" => StepsLeft(p)' <= StepsLeft(p)]_vars
<1> DEFINE Bounded == \A p \in Procs : StepsLeft(p) \in 0 .. 11
           Nearer == \A p \in Procs : Work(p) => StepsLeft(p)' < StepsLeft(p)
           NotPutOff == \A p \in Procs : pc[p] # "idle" => StepsLeft(p)' <= StepsLeft(p)
<1>1. IInv => Bounded
  BY LeftIsNumber
<1>2. IInv /\ [Next]_vars => [Nearer]_vars
  BY StepCounts
<1>3. IInv /\ [Next]_vars => [NotPutOff]_vars
  <2> SUFFICES ASSUME IInv, Next, IInv', NEW p \in Procs, pc[p] # "idle"
               PROVE  StepsLeft(p)' <= StepsLeft(p)
    BY StepInv
  <2>1. StepsLeft(p) \in 0 .. 11
    BY LeftIsNumber
  <2>2. CASE pc'[p] = pc[p] /\ opened'[p] = opened[p]
    <3>1. StepsLeft(p)' = StepsLeft(p)
      BY <2>2 DEF StepsLeft
    <3> QED BY <2>1, <3>1
  <2>3. CASE Work(p) \/ Crash(p)
    <3>1. StepsLeft(p)' < StepsLeft(p)
      BY <2>3, StepCounts
    <3>2. ASSUME IInv' PROVE (StepsLeft(p) \in 0 .. 11)'
      BY <3>2, LeftIsNumber, PTL
    <3> QED BY <2>1, <3>1, <3>2
  <2> QED BY <2>2, <2>3, OthersStay
<1> QED BY Invariance, <1>1, <1>2, <1>3, PTL DEF Spec

=============================================================================
