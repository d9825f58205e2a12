------------------------- MODULE MissionAlone_proofs -------------------------
(***************************************************************************)
(* Proofs about MissionKernel when one command runs at a time, as an        *)
(* operator at one terminal runs them: a denied run is never executed, work *)
(* is repeated only for a crash, no file is ahead of the one it depends on, *)
(* restore data, decisions and completion stand, and the record refines     *)
(* RunPromise; for any number of commands and crashes.  With overlapping    *)
(* commands a stale record undoes most of them.                             *)
(***************************************************************************)
EXTENDS MissionKernel_proofs

(* What every copy of the record, on disk and in memory, stale or not, agrees
   on with itself. *)
Sound(r) ==
  r # NoRecord =>
    /\ r.status = "complete" <=> r.executed = TRUE
    /\ r.executed = TRUE => r.awaiting = FALSE
    /\ r.approval = "none" => r.awaiting = FALSE
    /\ r.approval \notin {"approved", "none"} => r.awaiting = TRUE

AllSound ==
  /\ Sound(record)
  /\ \A p \in Procs : Sound(held[p]) /\ Sound(first[p])

Done(r) == r # NoRecord /\ r.executed = TRUE
Decided(r) == r # NoRecord => r.approval \in {"approved", "none"}
Full(r) ==
  /\ r # NoRecord
  /\ r.changes = TRUE /\ r.risk = goal.risk /\ r.restore = goal.checkpoint

Saving == {"save", "overlay", "result"}

(* One command at a time, and the file it writes was empty when it began. *)
OneAtATime ==
  /\ \A p, q \in Procs : pc[p] # "idle" /\ pc[q] # "idle" => p = q
  /\ \A p \in Procs : opened[p] => bytes[FileOf[pc[p]]] = "empty"

(* The mission command starts a record; any other finds one. *)
Beginning ==
  /\ created = FALSE => record = NoRecord /\ executions = 0
  /\ \A p \in Procs :
       /\ pc[p] # "idle" => created = TRUE
       /\ pc[p] # "idle" /\ cmd[p] = "mission" =>
            /\ pc[p] \in {"memory"} \cup Saving
            /\ pc[p] \in {"memory", "save"} => record = NoRecord
            /\ pc[p] \in {"overlay", "result"} => record # NoRecord
       /\ pc[p] # "idle" /\ cmd[p] # "mission" => record # NoRecord

(* Work that is on record stays there. *)
NotBehind ==
  Done(record) =>
    \A p \in Procs : /\ pc[p] \notin {"approve", "memory"}
                     /\ pc[p] \in Saving => Done(held[p])

(* Nothing is executed, or being executed, but what is approved or needs no
   approval; no copy says otherwise. *)
DecidedFirst ==
  /\ \A p \in Procs : /\ pc[p] = "memory" => executions > 0 /\ Done(held[p])
                      /\ pc[p] = "approve" =>
                           first[p].approval = "approved" /\ first[p].awaiting = TRUE
  /\ executions > 0 =>
       /\ Decided(record)
       /\ \A p \in Procs : pc[p] \in {"memory"} \cup Saving => Decided(held[p])

(* Work that is neither on record nor about to be was lost to a crash. *)
Carried(p) == pc[p] \in {"memory", "save"} /\ Done(held[p])

Counted ==
  /\ executions <= 1 + crashes
  /\ ~Done(record) /\ (\A p \in Procs : ~Carried(p)) => executions <= crashes

(* Without a crash, a record and all that is made of it have the mission's
   fields from the mission's own save on. *)
FullSince ==
  crashes = 0 =>
    /\ created = TRUE /\ Idle => Full(record)
    /\ \A p \in Procs :
         /\ pc[p] # "idle" /\ cmd[p] # "mission" => Full(record)
         /\ pc[p] # "idle" /\ cmd[p] = "resume_mission" => Full(first[p])
         /\ pc[p] \in {"memory"} \cup Saving /\ (cmd[p] = "mission" => pc[p] = "overlay") =>
              Full(held[p])
         /\ pc[p] = "result" => Full(record)

(* Memory, record, result: in this order. *)
InOrder ==
  /\ Done(record) => Readable("memory")
  /\ \A p \in Procs : pc[p] \in Saving /\ Done(held[p]) => Readable("memory")
  /\ \A p \in Procs : pc[p] = "result" /\ Done(held[p]) => Done(record)
  /\ result # NoResult /\ result.status = "complete" => Done(record)

(* Every copy of the record tells of work that was done, and one of an ungated
   goal of nothing else. *)
Paid(r) ==
  r # NoRecord =>
    /\ r.executed = TRUE => executions > 0
    /\ goal.gated = FALSE => r.executed = TRUE

AllPaid == Paid(record) /\ \A p \in Procs : Paid(held[p]) /\ Paid(first[p])

(* What a process is about to write bears the decision that is on record. *)
Agreed ==
  \A p \in Procs :
    /\ pc[p] = "approve" => record.approval # "denied"
    /\ pc[p] \in {"memory"} \cup Saving /\ record # NoRecord =>
         held[p].approval = record.approval
    /\ pc[p] \in {"memory", "save"} /\ cmd[p] = "mission" /\ goal.gated = TRUE =>
         ~Done(held[p])

AloneInv ==
  /\ AllSound /\ OneAtATime /\ Beginning /\ NotBehind
  /\ DecidedFirst /\ Counted /\ FullSince /\ InOrder
  /\ AllPaid /\ Agreed

-----------------------------------------------------------------------------

(* What the record builders leave of a record and what they change. *)
LEMMA ContinueFields ==
  ASSUME NEW r \in RunRecord
  PROVE  LET c == ContinueExecution(r) IN
         /\ c \in RunRecord /\ c # NoRecord
         /\ c.status = "complete" /\ c.executed = TRUE /\ c.awaiting = FALSE
         /\ c.approval = r.approval
         /\ c.changes = r.changes /\ c.risk = r.risk /\ c.restore = r.restore
BY RecordIsNotNoRecord DEF ContinueExecution, RunRecord

LEMMA MissionFields ==
  ASSUME goal \in Goals, NEW r \in RunRecord
  PROVE  LET c == MissionOverlay(r) IN
         /\ c \in RunRecord /\ c # NoRecord
         /\ c.status = r.status /\ c.executed = r.executed
         /\ c.awaiting = r.awaiting /\ c.approval = r.approval
         /\ c.changes = TRUE /\ c.risk = goal.risk /\ c.restore = goal.checkpoint
<1> DEFINE plan == IF r.status = "complete" THEN "complete" ELSE "paused_approval"
           c == MissionOverlay(r)
<1>1. c \in RunRecord /\ c # NoRecord
  BY BuilderTypes, RecordIsNotNoRecord
<1>2. c = [r EXCEPT !.changes = TRUE, !.risk = goal.risk, !.restore = goal.checkpoint,
                    !.plan = plan]
  BY DEF MissionOverlay
<1> HIDE DEF plan
<1>3. /\ c.status = r.status /\ c.executed = r.executed
      /\ c.awaiting = r.awaiting /\ c.approval = r.approval
      /\ c.changes = TRUE /\ c.risk = goal.risk /\ c.restore = goal.checkpoint
  BY <1>2 DEF RunRecord
<1> QED
  BY <1>1, <1>3

LEMMA ResumeFields ==
  ASSUME goal \in Goals, NEW r \in RunRecord, NEW loaded \in RunRecord
  PROVE  LET c == ResumeOverlay(r, loaded) IN
         /\ c \in RunRecord /\ c # NoRecord
         /\ c.status = r.status /\ c.executed = r.executed
         /\ c.awaiting = r.awaiting /\ c.approval = r.approval
         /\ Full(loaded) => Full(c)
<1>1. ResumeOverlay(r, loaded) \in RunRecord
  BY BuilderTypes
<1>2. goal.risk # "unset" /\ goal.checkpoint \in BOOLEAN
  BY GoalFields DEF Risk
<1> DEFINE restore == loaded.changes /\ goal.checkpoint
           risk == IF loaded.risk = "unset" THEN "safe" ELSE loaded.risk
           c == ResumeOverlay(r, loaded)
<1>3. c = [r EXCEPT !.changes = loaded.changes, !.risk = risk, !.restore = restore]
  BY DEF ResumeOverlay
<1> HIDE DEF restore, risk
<1>4. /\ c.status = r.status /\ c.executed = r.executed
      /\ c.awaiting = r.awaiting /\ c.approval = r.approval
      /\ c.changes = loaded.changes /\ c.risk = risk /\ c.restore = restore
  BY <1>3 DEF RunRecord
<1>5. c # NoRecord
  BY <1>1, RecordIsNotNoRecord
<1> HIDE DEF c
<1>6. Full(loaded) => risk = goal.risk /\ restore = goal.checkpoint
  BY <1>2 DEF Full, risk, restore
<1>7. Full(loaded) => Full(c)
  BY <1>4, <1>5, <1>6 DEF Full
<1> QED
  BY <1>1, <1>4, <1>5, <1>7 DEF c

LEMMA FreshFields ==
  ASSUME goal \in Goals
  PROVE  /\ FreshRecord \in RunRecord /\ Sound(FreshRecord)
         /\ goal.gated = TRUE => ~Done(FreshRecord)
         /\ goal.gated = FALSE => Done(FreshRecord) /\ Decided(FreshRecord)
BY FreshType, GoalFields DEF FreshRecord, Sound, Done, Decided, NoRecord

LEMMA InitAlone == Init => AloneInv
<1> SUFFICES ASSUME Init PROVE AloneInv
  OBVIOUS
<1> USE DEF Init
<1>1. AllSound /\ OneAtATime /\ Beginning
  BY DEF AllSound, Sound, OneAtATime, Beginning
<1>2. NotBehind /\ DecidedFirst /\ FullSince
  BY DEF NotBehind, DecidedFirst, FullSince, Done, Decided, Saving
<1>3. Counted /\ InOrder
  BY DEF Counted, InOrder, Done, Saving
<1>4. AllPaid /\ Agreed
  BY DEF AllPaid, Paid, Agreed, Saving
<1> QED
  BY <1>1, <1>2, <1>3, <1>4 DEF AloneInv

(* run_mission. *)
LEMMA RunMissionAlone ==
  ASSUME Overlap = FALSE, IInv, IInv', AloneInv, NEW p \in Procs,
         RunMission(p)
  PROVE  AloneInv'
<1>1. /\ FreshRecord \in RunRecord /\ Sound(FreshRecord)
      /\ goal.gated = TRUE => ~Done(FreshRecord)
      /\ goal.gated = FALSE => Done(FreshRecord) /\ Decided(FreshRecord)
      /\ goal.gated \in BOOLEAN
  BY FreshFields, GoalFields DEF IInv, TypeOK
<1>2. /\ \A q \in Procs : pc[q] = "idle" /\ opened[q] = FALSE
      /\ record = NoRecord
  BY DEF RunMission, Issue, Idle, AloneInv, Beginning, IInv, TypeOK, Shape, WriteStage
<1>3. goal.gated = FALSE => executions' > 0
  BY DEF RunMission, IInv, TypeOK
<1>4. goal.gated = TRUE => pc'[p] = "save" /\ executions' = executions
  BY DEF RunMission, IInv, TypeOK
<1> USE DEF AloneInv, RunMission, Issue, files, IInv, TypeOK
<1>5. AllSound'
  BY <1>1, <1>2, <1>3, <1>4 DEF AllSound, Sound
<1>6. OneAtATime'
  BY <1>1, <1>2, <1>3, <1>4 DEF OneAtATime
<1>7. Beginning'
  BY <1>1, <1>2, <1>3, <1>4 DEF Beginning, Saving
<1>8. NotBehind'
  BY <1>1, <1>2, <1>3, <1>4 DEF NotBehind, Done, Saving
<1>9. DecidedFirst'
  <2>1. executions = 0
    BY DEF Beginning
  <2>2. \A q \in Procs \ {p} : pc'[q] = "idle" /\ first'[q] = first[q]
    BY <1>2
  <2>3. held'[p] = FreshRecord /\ record' = NoRecord /\ pc'[p] \in {"memory", "save"}
    BY <1>2
  <2>4. CASE goal.gated = TRUE
    BY <1>4, <2>1, <2>2, <2>3, <2>4 DEF DecidedFirst
  <2>5. CASE goal.gated = FALSE
    BY <1>1, <1>3, <2>2, <2>3, <2>5 DEF DecidedFirst, Decided, Saving
  <2> QED
    BY <1>1, <2>4, <2>5
<1>10. Counted'
  BY <1>1, <1>2, <1>3, <1>4 DEF Counted, Carried, Done
<1>11. FullSince'
  BY <1>1, <1>2, <1>3, <1>4 DEF FullSince, Full, Idle, Saving
<1>12. InOrder'
  BY <1>1, <1>2, <1>3, <1>4 DEF InOrder, Done, Saving, Readable
<1>13. AllPaid'
  <2>1. /\ held' = [held EXCEPT ![p] = FreshRecord]
        /\ UNCHANGED <<goal, record, first>>
    BY DEF RunMission
  <2>2. /\ FreshRecord.executed = TRUE => executions' > 0
        /\ goal.gated = FALSE => FreshRecord.executed = TRUE
    BY <1>1, <1>3, RecordIsNotNoRecord DEF Done
  <2>3. executions > 0 => executions' > 0
    BY DEF RunMission
  <2> QED
    BY <2>1, <2>2, <2>3 DEF AllPaid, Paid
<1>14. Agreed'
  BY <1>1, <1>2, <1>3, <1>4 DEF Agreed, Done, Saving
<1> QED
  BY <1>5, <1>6, <1>7, <1>8, <1>9, <1>10, <1>11, <1>12, <1>13, <1>14 DEF AloneInv

(* The commands that start by loading the record. *)
LEMMA ResumeAlone ==
  ASSUME Overlap = FALSE, IInv, IInv', AloneInv, NEW p \in Procs,
         ResumeMission(p) \/ Resume(p)
  PROVE  AloneInv'
<1>1. /\ \A q \in Procs : pc[q] = "idle" /\ opened[q] = FALSE
      /\ record \in RunRecord /\ record # NoRecord
  BY RecordIsNotNoRecord DEF ResumeMission, Resume, Issue, Idle, IInv, TypeOK, Shape, WriteStage
<1>2. crashes = 0 => Full(record)
  BY <1>1 DEF AloneInv, Beginning, FullSince, Idle, IInv, TypeOK
<1>3. /\ pc' = [pc EXCEPT ![p] = "load"] /\ cmd'[p] # "mission"
      /\ first'[p] \in {record, first[p]} /\ (cmd'[p] = "resume_mission" => first'[p] = record)
      /\ \A q \in Procs \ {p} : cmd'[q] = cmd[q] /\ first'[q] = first[q]
      /\ UNCHANGED <<goal, created, files, opened, held, crashes, granted, executions>>
  BY DEF ResumeMission, Resume, Issue, IInv, TypeOK
<1> USE DEF AloneInv, files, IInv, TypeOK
<1>4. AllSound'
  BY <1>1, <1>2, <1>3 DEF AllSound, Sound
<1>5. OneAtATime'
  BY <1>1, <1>2, <1>3 DEF OneAtATime
<1>6. Beginning'
  BY <1>1, <1>2, <1>3 DEF Beginning, Saving
<1>7. NotBehind'
  BY <1>1, <1>2, <1>3 DEF NotBehind, Done, Saving
<1>8. DecidedFirst'
  BY <1>1, <1>2, <1>3 DEF DecidedFirst, Decided, Done, Saving
<1>9. Counted'
  BY <1>1, <1>2, <1>3 DEF Counted, Carried, Done
<1>10. FullSince'
  BY <1>1, <1>2, <1>3 DEF FullSince, Full, Idle, Saving
<1>11. InOrder'
  BY <1>1, <1>2, <1>3 DEF InOrder, Done, Saving, Readable
<1>12. AllPaid'
  BY <1>1, <1>2, <1>3 DEF AllPaid, Paid
<1>13. Agreed'
  BY <1>1, <1>2, <1>3 DEF Agreed, Done, Saving
<1> QED
  BY <1>4, <1>5, <1>6, <1>7, <1>8, <1>9, <1>10, <1>11, <1>12, <1>13 DEF AloneInv

(* Only a record that waits is approved. *)
LEMMA ApproveAlone ==
  ASSUME Overlap = FALSE, IInv, IInv', AloneInv, NEW p \in Procs,
         ApproveMission(p)
  PROVE  AloneInv'
<1>1. /\ \A q \in Procs : pc[q] = "idle" /\ opened[q] = FALSE
      /\ record \in RunRecord /\ record # NoRecord
  BY RecordIsNotNoRecord DEF ApproveMission, Issue, Idle, IInv, TypeOK, Shape, WriteStage
<1> DEFINE r == [record EXCEPT !.approval = "approved"]
<1>2. /\ r \in RunRecord /\ r # NoRecord
      /\ r.awaiting = record.awaiting /\ r.executed = record.executed /\ r.status = record.status
      /\ r.changes = record.changes /\ r.risk = record.risk /\ r.restore = record.restore
      /\ r.approval = "approved" /\ record.awaiting = TRUE
  BY <1>1, RecordIsNotNoRecord DEF RunRecord, ValidApprovalStates, ApproveMission
<1>3. first' = [first EXCEPT ![p] = r]
  BY DEF ApproveMission
<1>4. ~Done(record)
  BY <1>1, <1>2 DEF AloneInv, AllSound, Sound, Done
<1>5. record.approval # "denied" /\ pc' = [pc EXCEPT ![p] = "approve"]
  BY DEF ApproveMission, TransitionAllowed, TerminalApprovalStates
<1>6. crashes = 0 => Full(record) /\ Full(r)
  BY <1>1, <1>2 DEF AloneInv, Beginning, FullSince, Full, Idle, IInv, TypeOK
<1> HIDE DEF r
<1> USE DEF AloneInv, ApproveMission, Issue, files, IInv, TypeOK
<1>7. AllSound'
  BY <1>1, <1>2, <1>3, <1>4, <1>5, <1>6 DEF AllSound, Sound
<1>8. OneAtATime'
  BY <1>1, <1>2, <1>3, <1>4, <1>5, <1>6 DEF OneAtATime
<1>9. Beginning'
  BY <1>1, <1>2, <1>3, <1>4, <1>5, <1>6 DEF Beginning, Saving
<1>10. NotBehind'
  BY <1>1, <1>2, <1>3, <1>4, <1>5, <1>6 DEF NotBehind, Done, Saving
<1>11. DecidedFirst'
  BY <1>1, <1>2, <1>3, <1>4, <1>5, <1>6 DEF DecidedFirst, Decided, Done, Saving
<1>12. Counted'
  BY <1>1, <1>2, <1>3, <1>4, <1>5, <1>6 DEF Counted, Carried, Done
<1>13. FullSince'
  BY <1>1, <1>2, <1>3, <1>4, <1>5, <1>6 DEF FullSince, Full, Idle, Saving
<1>14. InOrder'
  BY <1>1, <1>2, <1>3, <1>4, <1>5, <1>6 DEF InOrder, Done, Saving, Readable
<1>15. AllPaid'
  BY <1>1, <1>2, <1>3, <1>4, <1>5, <1>6 DEF AllPaid, Paid
<1>16. Agreed'
  BY <1>1, <1>2, <1>3, <1>4, <1>5, <1>6 DEF Agreed, Done, Saving
<1> QED
  BY <1>7, <1>8, <1>9, <1>10, <1>11, <1>12, <1>13, <1>14, <1>15, <1>16 DEF AloneInv

(* Only a decided record is executed. *)
LEMMA ExecuteAlone ==
  ASSUME Overlap = FALSE, IInv, IInv', AloneInv, NEW p \in Procs,
         Execute(p)
  PROVE  AloneInv'
<1>1. /\ \A q \in Procs \ {p} : pc[q] = "idle"
      /\ \A q \in Procs : opened[q] = FALSE
      /\ record \in RunRecord /\ record # NoRecord
  BY RecordIsNotNoRecord DEF Execute, AloneInv, OneAtATime, IInv, TypeOK, Shape, WriteStage
<1> DEFINE c == ContinueExecution(record)
<1>2. /\ c \in RunRecord /\ c # NoRecord
      /\ c.status = "complete" /\ c.executed = TRUE /\ c.awaiting = FALSE
      /\ c.approval = record.approval
      /\ c.changes = record.changes /\ c.risk = record.risk /\ c.restore = record.restore
  BY <1>1, ContinueFields
<1>3. held' = [held EXCEPT ![p] = c]
  BY DEF Execute
<1>4. cmd[p] # "mission" /\ pc' = [pc EXCEPT ![p] = "memory"]
  BY DEF Execute, AloneInv, Beginning, Saving
<1>5. Decided(record) /\ ~Done(record)
  BY <1>1 DEF Execute, AloneInv, AllSound, Sound, Decided, Done, RunRecord
<1> HIDE DEF c
<1> USE DEF AloneInv, Execute, files, counts, IInv, TypeOK
<1>6. AllSound'
  BY <1>1, <1>2, <1>3, <1>4, <1>5 DEF AllSound, Sound
<1>7. OneAtATime'
  BY <1>1, <1>2, <1>3, <1>4, <1>5 DEF OneAtATime
<1>8. Beginning'
  BY <1>1, <1>2, <1>3, <1>4, <1>5 DEF Beginning, Saving
<1>9. NotBehind'
  BY <1>1, <1>2, <1>3, <1>4, <1>5 DEF NotBehind, Done, Saving
<1>10. DecidedFirst'
  BY <1>1, <1>2, <1>3, <1>4, <1>5 DEF DecidedFirst, Decided, Done, Saving
<1>11. Counted'
  BY <1>1, <1>2, <1>3, <1>4, <1>5 DEF Counted, Carried, Done
<1>12. FullSince'
  BY <1>1, <1>2, <1>3, <1>4, <1>5 DEF FullSince, Full, Idle, Saving
<1>13. InOrder'
  BY <1>1, <1>2, <1>3, <1>4, <1>5 DEF InOrder, Done, Saving, Readable
<1>14. AllPaid'
  BY <1>1, <1>2, <1>3, <1>4, <1>5 DEF AllPaid, Paid
<1>15. Agreed'
  BY <1>1, <1>2, <1>3, <1>4, <1>5 DEF Agreed, Done, Saving
<1> QED
  BY <1>6, <1>7, <1>8, <1>9, <1>10, <1>11, <1>12, <1>13, <1>14, <1>15 DEF AloneInv

(* A record that cannot be read leaves everything as it is. *)
LEMMA LoadFailsAlone ==
  ASSUME Overlap = FALSE, IInv, IInv', AloneInv, NEW p \in Procs,
         LoadFails(p)
  PROVE  AloneInv'
<1>1. /\ \A q \in Procs \ {p} : pc[q] = "idle"
      /\ \A q \in Procs : opened[q] = FALSE
  BY DEF LoadFails, AloneInv, OneAtATime, IInv, TypeOK, Shape, WriteStage
<1>2. cmd[p] # "mission"
  BY DEF LoadFails, AloneInv, Beginning, Saving
<1> USE DEF AloneInv, LoadFails, files, counts, IInv, TypeOK
<1>3. AllSound'
  BY <1>1, <1>2 DEF AllSound, Sound
<1>4. OneAtATime'
  BY <1>1, <1>2 DEF OneAtATime
<1>5. Beginning'
  BY <1>1, <1>2 DEF Beginning, Saving
<1>6. NotBehind'
  BY <1>1, <1>2 DEF NotBehind, Done, Saving
<1>7. DecidedFirst'
  BY <1>1, <1>2 DEF DecidedFirst, Decided, Done, Saving
<1>8. Counted'
  BY <1>1, <1>2 DEF Counted, Carried, Done
<1>9. FullSince'
  BY <1>1, <1>2 DEF FullSince, Full, Idle, Saving
<1>10. InOrder'
  BY <1>1, <1>2 DEF InOrder, Done, Saving, Readable
<1>11. AllPaid'
  BY <1>1, <1>2 DEF AllPaid, Paid
<1>12. Agreed'
  BY <1>1, <1>2 DEF Agreed, Done, Saving
<1> QED
  BY <1>3, <1>4, <1>5, <1>6, <1>7, <1>8, <1>9, <1>10, <1>11, <1>12 DEF AloneInv

(* A file is truncated by the one command that runs. *)
LEMMA OpenAlone ==
  ASSUME Overlap = FALSE, IInv, IInv', AloneInv, NEW p \in Procs,
         Open(p)
  PROVE  AloneInv'
<1>1. \A q \in Procs \ {p} : pc[q] = "idle"
  BY DEF Open, AloneInv, OneAtATime, WriteStage
<1>2. pc[p] # "memory" => bytes'["memory"] = bytes["memory"]
  BY DEF Open, FileOf, WriteStage, IInv, TypeOK
<1>3. bytes'[FileOf[pc[p]]] = "empty"
  BY FileOfType DEF Open, IInv, TypeOK
<1>4. pc[p] = "memory" => ~Done(record)
  BY DEF AloneInv, NotBehind
<1> USE DEF AloneInv, Open, counts, IInv, TypeOK, Shape
<1>5. AllSound'
  BY <1>1, <1>2, <1>3, <1>4 DEF AllSound, Sound
<1>6. OneAtATime'
  BY <1>1, <1>2, <1>3, <1>4 DEF OneAtATime
<1>7. Beginning'
  BY <1>1, <1>2, <1>3, <1>4 DEF Beginning, Saving
<1>8. NotBehind'
  BY <1>1, <1>2, <1>3, <1>4 DEF NotBehind, Done, Saving
<1>9. DecidedFirst'
  BY <1>1, <1>2, <1>3, <1>4 DEF DecidedFirst, Decided, Done, Saving
<1>10. Counted'
  BY <1>1, <1>2, <1>3, <1>4 DEF Counted, Carried, Done
<1>11. FullSince'
  BY <1>1, <1>2, <1>3, <1>4 DEF FullSince, Full, Idle, Saving
<1>12. InOrder'
  BY <1>1, <1>2, <1>3, <1>4 DEF InOrder, Done, Saving, Readable
<1>13. AllPaid'
  BY <1>1, <1>2, <1>3, <1>4 DEF AllPaid, Paid
<1>14. Agreed'
  BY <1>1, <1>2, <1>3, <1>4 DEF Agreed, Done, Saving
<1> QED
  BY <1>5, <1>6, <1>7, <1>8, <1>9, <1>10, <1>11, <1>12, <1>13, <1>14 DEF AloneInv

(* A crash loses at most what one command carried. *)
LEMMA CrashAlone ==
  ASSUME Overlap = FALSE, IInv, IInv', AloneInv, NEW p \in Procs,
         Crash(p)
  PROVE  AloneInv'
<1>1. \A q \in Procs \ {p} : pc[q] = "idle"
  BY DEF Crash, AloneInv, OneAtATime
<1>2. pc[p] # "memory" => bytes'["memory"] = bytes["memory"]
  <2>1. CASE UNCHANGED bytes
    BY <2>1
  <2>2. ASSUME pc[p] # "memory", opened[p],
               NEW left \in {bytes[FileOf[pc[p]]], "partial"},
               bytes' = [bytes EXCEPT ![FileOf[pc[p]]] = left]
        PROVE  bytes'["memory"] = bytes["memory"]
    BY <2>2 DEF FileOf, WriteStage, IInv, TypeOK, Shape
  <2> QED
    BY <2>1, <2>2 DEF Crash
<1>3. pc[p] = "memory" => ~Done(record)
  BY DEF AloneInv, NotBehind
<1>4. \A q \in Procs : opened'[q] = FALSE
  BY <1>1 DEF Crash, IInv, TypeOK, Shape, WriteStage
<1> USE DEF AloneInv, Crash, IInv, TypeOK, Shape
<1>5. AllSound'
  BY <1>1, <1>2, <1>3, <1>4 DEF AllSound, Sound
<1>6. OneAtATime'
  BY <1>1, <1>2, <1>3, <1>4 DEF OneAtATime
<1>7. Beginning'
  BY <1>1, <1>2, <1>3, <1>4 DEF Beginning, Saving
<1>8. NotBehind'
  BY <1>1, <1>2, <1>3, <1>4 DEF NotBehind, Done, Saving
<1>9. DecidedFirst'
  BY <1>1, <1>2, <1>3, <1>4 DEF DecidedFirst, Decided, Done, Saving
<1>10. Counted'
  BY <1>1, <1>2, <1>3, <1>4 DEF Counted, Carried, Done
<1>11. FullSince'
  BY <1>1, <1>2, <1>3, <1>4 DEF FullSince, Full, Idle, Saving
<1>12. InOrder'
  BY <1>1, <1>2, <1>3, <1>4 DEF InOrder, Done, Saving, Readable
<1>13. AllPaid'
  BY <1>1, <1>2, <1>3, <1>4 DEF AllPaid, Paid
<1>14. Agreed'
  BY <1>1, <1>2, <1>3, <1>4 DEF Agreed, Done, Saving
<1> QED
  BY <1>5, <1>6, <1>7, <1>8, <1>9, <1>10, <1>11, <1>12, <1>13, <1>14 DEF AloneInv

(* A record handed back keeps all but what resume_mission lays over it. *)
LEMMA ReturnFields ==
  ASSUME goal \in Goals, NEW p \in Procs, NEW r \in RunRecord, ReturnToCaller(p, r),
         held \in [Procs -> RunRecord \cup {NoRecord}], pc \in [Procs -> Pc],
         cmd[p] = "resume_mission" => first[p] \in RunRecord
  PROVE  LET h == held'[p] IN
         /\ h \in RunRecord /\ h # NoRecord
         /\ h.status = r.status /\ h.executed = r.executed
         /\ h.awaiting = r.awaiting /\ h.approval = r.approval
         /\ cmd[p] = "resume_mission" /\ Full(first[p]) => Full(h)
         /\ pc'[p] = IF cmd[p] = "resume_mission" THEN "overlay" ELSE "idle"
         /\ \A q \in Procs \ {p} : held'[q] = held[q] /\ pc'[q] = pc[q]
<1>1. CASE cmd[p] = "resume_mission"
  <2>1. held'[p] = ResumeOverlay(r, first[p])
    BY <1>1 DEF ReturnToCaller
  <2> QED
    BY <1>1, <2>1, ResumeFields DEF ReturnToCaller
<1>2. CASE cmd[p] # "resume_mission"
  BY <1>2, RecordIsNotNoRecord DEF ReturnToCaller
<1> QED
  BY <1>1, <1>2

(* A record that is handed back tells the same of the work. *)
LEMMA HandBackAlone ==
  ASSUME Overlap = FALSE, IInv, IInv', AloneInv, NEW p \in Procs,
         HandBack(p)
  PROVE  AloneInv'
<1>1. /\ \A q \in Procs \ {p} : pc[q] = "idle"
      /\ \A q \in Procs : opened[q] = FALSE
      /\ record \in RunRecord /\ record # NoRecord
  BY RecordIsNotNoRecord DEF HandBack, AloneInv, OneAtATime, IInv, TypeOK, Shape, WriteStage
<1> DEFINE blocked == record.awaiting /\ record.approval # "approved"
           r == IF blocked THEN record ELSE [record EXCEPT !.awaiting = FALSE]
<1>2. r \in RunRecord /\ ReturnToCaller(p, r)
  BY <1>1 DEF RunRecord, HandBack
<1>3. /\ r.status = record.status /\ r.executed = record.executed /\ r.approval = record.approval
      /\ r.awaiting \in {record.awaiting, FALSE}
      /\ Sound(r)
  BY <1>1 DEF RunRecord, HandBack, Sound, AloneInv, AllSound
<1> HIDE DEF r
<1>4. cmd[p] # "mission" /\ (cmd[p] = "resume_mission" => first[p] \in RunRecord)
  BY DEF HandBack, AloneInv, Beginning, Saving, IInv, Shape
<1> DEFINE h == held'[p]
<1>5. /\ h \in RunRecord /\ h # NoRecord
      /\ h.status = r.status /\ h.executed = r.executed
      /\ h.awaiting = r.awaiting /\ h.approval = r.approval
      /\ cmd[p] = "resume_mission" /\ Full(first[p]) => Full(h)
      /\ pc'[p] = IF cmd[p] = "resume_mission" THEN "overlay" ELSE "idle"
      /\ \A q \in Procs \ {p} : held'[q] = held[q] /\ pc'[q] = pc[q]
  BY <1>2, <1>4, ReturnFields DEF IInv, TypeOK
<1> HIDE DEF h
<1>6. /\ pc[p] = "load"
      /\ UNCHANGED <<goal, created, files, opened, cmd, first, counts, granted, executions>>
  BY DEF HandBack
<1>7. h = held'[p]
  BY DEF h
<1>8. Sound(h)
  BY <1>2, <1>3, <1>5, RecordIsNotNoRecord DEF Sound
<1> USE DEF AloneInv, files, counts, IInv, TypeOK
<1>9. AllSound'
  BY <1>1, <1>2, <1>3, <1>4, <1>5, <1>6, <1>7, <1>8 DEF AllSound, Sound
<1>10. OneAtATime'
  BY <1>1, <1>2, <1>3, <1>4, <1>5, <1>6, <1>7, <1>8 DEF OneAtATime
<1>11. Beginning'
  BY <1>1, <1>2, <1>3, <1>4, <1>5, <1>6, <1>7, <1>8 DEF Beginning, Saving
<1>12. NotBehind'
  BY <1>1, <1>2, <1>3, <1>4, <1>5, <1>6, <1>7, <1>8 DEF NotBehind, Done, Saving
<1>13. DecidedFirst'
  BY <1>1, <1>2, <1>3, <1>4, <1>5, <1>6, <1>7, <1>8 DEF DecidedFirst, Decided, Done, Saving
<1>14. Counted'
  BY <1>1, <1>2, <1>3, <1>4, <1>5, <1>6, <1>7, <1>8 DEF Counted, Carried, Done
<1>15. FullSince'
  BY <1>1, <1>2, <1>3, <1>4, <1>5, <1>6, <1>7, <1>8 DEF FullSince, Full, Idle, Saving
<1>16. InOrder'
  BY <1>1, <1>2, <1>3, <1>4, <1>5, <1>6, <1>7, <1>8 DEF InOrder, Done, Saving, Readable
<1>17. AllPaid'
  BY <1>1, <1>2, <1>3, <1>4, <1>5, <1>6, <1>7, <1>8 DEF AllPaid, Paid
<1>18. Agreed'
  BY <1>1, <1>2, <1>3, <1>4, <1>5, <1>6, <1>7, <1>8 DEF Agreed, Done, Saving
<1> QED
  BY <1>9, <1>10, <1>11, <1>12, <1>13, <1>14, <1>15, <1>16, <1>17, <1>18 DEF AloneInv

(* Alone, a process writes its file whole. *)
LEMMA DumpWhole ==
  ASSUME IInv, AloneInv, NEW p \in Procs, Dump(p)
  PROVE  /\ pc[p] \in WriteStage /\ AfterWrite(p)
         /\ \A q \in Procs \ {p} : pc[q] = "idle"
         /\ \A q \in Procs : opened'[q] = FALSE
         /\ bytes' = [bytes EXCEPT ![FileOf[pc[p]]] = "whole"]
         /\ record' = IF FileOf[pc[p]] = "record" THEN Content(p) ELSE record
         /\ result' = IF FileOf[pc[p]] = "result" THEN ResultOf(held[p]) ELSE result
         /\ UNCHANGED <<goal, created, cmd, first, counts, granted, executions>>
<1>1. pc[p] \in WriteStage
  BY DEF Dump, IInv, Shape
<1>2. \A q \in Procs \ {p} : pc[q] = "idle"
  BY <1>1 DEF AloneInv, OneAtATime, WriteStage
<1>3. \A q \in Procs : opened'[q] = FALSE
  BY <1>2 DEF Dump, IInv, TypeOK, Shape, WriteStage
<1>4. DumpOutcome(FileOf[pc[p]]) = {"whole"}
  BY DEF Dump, DumpOutcome, AloneInv, OneAtATime
<1>5. /\ bytes' = [bytes EXCEPT ![FileOf[pc[p]]] = "whole"]
      /\ record' = IF FileOf[pc[p]] = "record" THEN Content(p) ELSE record
      /\ result' = IF FileOf[pc[p]] = "result" THEN ResultOf(held[p]) ELSE result
  BY <1>4 DEF Dump
<1> QED
  BY <1>1, <1>2, <1>3, <1>5 DEF Dump

(* What a process in the course of saving knows of the work. *)
LEMMA SavingKnows ==
  ASSUME AloneInv, NEW p \in Procs, pc[p] \in Saving,
         \A q \in Procs \ {p} : pc[q] = "idle"
  PROVE  /\ Done(record) => Done(held[p])
         /\ Done(held[p]) => Readable("memory")
         /\ ~Done(held[p]) => executions <= crashes
         /\ executions > 0 => Decided(held[p])
<1>1. Done(record) => Done(held[p])
  BY DEF AloneInv, NotBehind
<1>2. Done(held[p]) => Readable("memory")
  BY DEF AloneInv, InOrder
<1>3. ASSUME ~Done(held[p]) PROVE executions <= crashes
  BY <1>1, <1>3 DEF AloneInv, Counted, Carried
<1>4. executions > 0 => Decided(held[p])
  BY DEF AloneInv, DecidedFirst
<1> QED
  BY <1>1, <1>2, <1>3, <1>4

(* The approved record is saved. *)
LEMMA DumpApprove ==
  ASSUME Overlap = FALSE, IInv, IInv', AloneInv, NEW p \in Procs,
         Dump(p), pc[p] = "approve"
  PROVE  AloneInv'
<1>1. /\ pc[p] \in WriteStage /\ AfterWrite(p)
      /\ \A q \in Procs \ {p} : pc[q] = "idle"
      /\ \A q \in Procs : opened'[q] = FALSE
      /\ bytes' = [bytes EXCEPT ![FileOf[pc[p]]] = "whole"]
      /\ record' = IF FileOf[pc[p]] = "record" THEN Content(p) ELSE record
      /\ result' = IF FileOf[pc[p]] = "result" THEN ResultOf(held[p]) ELSE result
      /\ UNCHANGED <<goal, created, cmd, first, counts, granted, executions>>
  BY DumpWhole
<1>2. record' = first[p] /\ result' = result
  BY <1>1 DEF FileOf, Content
<1>3. bytes'["memory"] = bytes["memory"]
  BY <1>1 DEF FileOf, IInv, TypeOK, File
<1>4. \A q \in Procs \ {p} : pc'[q] = "idle" /\ held'[q] = held[q]
  BY <1>1, AfterWriteKeeps
<1>5. /\ pc' = [pc EXCEPT ![p] = "load"] /\ held' = held
      /\ cmd[p] = "resume_mission" /\ first[p] \in RunRecord
  BY <1>1 DEF AfterWrite, IInv, Shape
<1>6. ~Done(record) /\ ~Done(first[p]) /\ first[p].approval = "approved" /\ first[p] # NoRecord
  BY <1>5, RecordIsNotNoRecord DEF AloneInv, NotBehind, DecidedFirst, AllSound, Sound, Done
<1>7. \A q \in Procs : ~Carried(q)
  BY <1>1 DEF Carried
<1> USE DEF AloneInv, counts, IInv, TypeOK
<1>8. AllSound'
  BY <1>1, <1>2, <1>3, <1>4, <1>5, <1>6, <1>7 DEF AllSound, Sound
<1>9. OneAtATime'
  BY <1>1, <1>2, <1>3, <1>4, <1>5, <1>6, <1>7 DEF OneAtATime
<1>10. Beginning'
  BY <1>1, <1>2, <1>3, <1>4, <1>5, <1>6, <1>7 DEF Beginning, Saving
<1>11. NotBehind'
  BY <1>1, <1>2, <1>3, <1>4, <1>5, <1>6, <1>7 DEF NotBehind, Done, Saving
<1>12. DecidedFirst'
  BY <1>1, <1>2, <1>3, <1>4, <1>5, <1>6, <1>7 DEF DecidedFirst, Decided, Done, Saving
<1>13. Counted'
  BY <1>1, <1>2, <1>3, <1>4, <1>5, <1>6, <1>7 DEF Counted, Carried, Done
<1>14. FullSince'
  BY <1>1, <1>2, <1>3, <1>4, <1>5, <1>6, <1>7 DEF FullSince, Full, Idle, Saving
<1>15. InOrder'
  BY <1>1, <1>2, <1>3, <1>4, <1>5, <1>6, <1>7 DEF InOrder, Done, Saving, Readable
<1>16. AllPaid'
  BY <1>1, <1>2, <1>3, <1>4, <1>5, <1>6, <1>7 DEF AllPaid, Paid
<1>17. Agreed'
  BY <1>1, <1>2, <1>3, <1>4, <1>5, <1>6, <1>7 DEF Agreed, Done, Saving
<1> QED
  BY <1>8, <1>9, <1>10, <1>11, <1>12, <1>13, <1>14, <1>15, <1>16, <1>17 DEF AloneInv

(* The summary is remembered. *)
LEMMA DumpMemory ==
  ASSUME Overlap = FALSE, IInv, IInv', AloneInv, NEW p \in Procs,
         Dump(p), pc[p] = "memory"
  PROVE  AloneInv'
<1>1. /\ pc[p] \in WriteStage /\ AfterWrite(p)
      /\ \A q \in Procs \ {p} : pc[q] = "idle"
      /\ \A q \in Procs : opened'[q] = FALSE
      /\ bytes' = [bytes EXCEPT ![FileOf[pc[p]]] = "whole"]
      /\ record' = IF FileOf[pc[p]] = "record" THEN Content(p) ELSE record
      /\ result' = IF FileOf[pc[p]] = "result" THEN ResultOf(held[p]) ELSE result
      /\ UNCHANGED <<goal, created, cmd, first, counts, granted, executions>>
  BY DumpWhole
<1>2. record' = record /\ result' = result
  BY <1>1 DEF FileOf, Content
<1>3. bytes'["memory"] = "whole"
  BY <1>1 DEF FileOf, IInv, TypeOK, File
<1>4. \A q \in Procs \ {p} : pc'[q] = "idle" /\ held'[q] = held[q]
  BY <1>1, AfterWriteKeeps
<1>5. pc' = [pc EXCEPT ![p] = "save"] /\ held' = held
  BY <1>1 DEF AfterWrite
<1> USE DEF AloneInv, counts, IInv, TypeOK
<1>6. AllSound'
  BY <1>1, <1>2, <1>3, <1>4, <1>5 DEF AllSound, Sound
<1>7. OneAtATime'
  BY <1>1, <1>2, <1>3, <1>4, <1>5 DEF OneAtATime
<1>8. Beginning'
  BY <1>1, <1>2, <1>3, <1>4, <1>5 DEF Beginning, Saving
<1>9. NotBehind'
  BY <1>1, <1>2, <1>3, <1>4, <1>5 DEF NotBehind, Done, Saving
<1>10. DecidedFirst'
  BY <1>1, <1>2, <1>3, <1>4, <1>5 DEF DecidedFirst, Decided, Done, Saving
<1>11. Counted'
  BY <1>1, <1>2, <1>3, <1>4, <1>5 DEF Counted, Carried, Done
<1>12. FullSince'
  BY <1>1, <1>2, <1>3, <1>4, <1>5 DEF FullSince, Full, Idle, Saving
<1>13. InOrder'
  BY <1>1, <1>2, <1>3, <1>4, <1>5 DEF InOrder, Done, Saving, Readable
<1>14. AllPaid'
  BY <1>1, <1>2, <1>3, <1>4, <1>5 DEF AllPaid, Paid
<1>15. Agreed'
  BY <1>1, <1>2, <1>3, <1>4, <1>5 DEF Agreed, Done, Saving
<1> QED
  BY <1>6, <1>7, <1>8, <1>9, <1>10, <1>11, <1>12, <1>13, <1>14, <1>15 DEF AloneInv

(* The mission's record is saved, and the mission's fields laid over it. *)
LEMMA DumpMissionSave ==
  ASSUME Overlap = FALSE, IInv, IInv', AloneInv, NEW p \in Procs,
         Dump(p), pc[p] = "save", cmd[p] = "mission"
  PROVE  AloneInv'
<1>1. /\ pc[p] \in WriteStage /\ AfterWrite(p)
      /\ \A q \in Procs \ {p} : pc[q] = "idle"
      /\ \A q \in Procs : opened'[q] = FALSE
      /\ bytes' = [bytes EXCEPT ![FileOf[pc[p]]] = "whole"]
      /\ record' = IF FileOf[pc[p]] = "record" THEN Content(p) ELSE record
      /\ result' = IF FileOf[pc[p]] = "result" THEN ResultOf(held[p]) ELSE result
      /\ UNCHANGED <<goal, created, cmd, first, counts, granted, executions>>
  BY DumpWhole
<1>2. record' = held[p] /\ result' = result
  BY <1>1 DEF FileOf, Content
<1>3. bytes'["memory"] = bytes["memory"]
  BY <1>1 DEF FileOf, IInv, TypeOK, File
<1>4. \A q \in Procs \ {p} : pc'[q] = "idle" /\ held'[q] = held[q]
  BY <1>1, AfterWriteKeeps
<1>5. held[p] \in RunRecord /\ held[p] # NoRecord
  BY RecordIsNotNoRecord DEF IInv, Shape, WriteStage
<1> DEFINE h == held'[p]
<1>6. /\ pc' = [pc EXCEPT ![p] = "overlay"]
      /\ held' = [held EXCEPT ![p] = MissionOverlay(held[p])]
  BY <1>1 DEF AfterWrite
<1>7. /\ h \in RunRecord /\ h # NoRecord
      /\ h.status = held[p].status /\ h.executed = held[p].executed
      /\ h.awaiting = held[p].awaiting /\ h.approval = held[p].approval
      /\ Full(h)
  <2>1. h = MissionOverlay(held[p])
    BY <1>6 DEF IInv, TypeOK
  <2> HIDE DEF h
  <2> QED
    BY <1>5, <2>1, MissionFields DEF IInv, TypeOK, Full
<1> HIDE DEF h
<1>8. h = held'[p]
  BY DEF h
<1>9. record = NoRecord
  BY DEF AloneInv, Beginning
<1>10. /\ Done(record) => Done(held[p])
       /\ Done(held[p]) => Readable("memory")
       /\ ~Done(held[p]) => executions <= crashes
       /\ executions > 0 => Decided(held[p])
  BY <1>1, SavingKnows DEF Saving
<1> USE DEF AloneInv, counts, IInv, TypeOK
<1>11. AllSound'
  BY <1>1, <1>2, <1>3, <1>4, <1>5, <1>6, <1>7, <1>8, <1>9, <1>10 DEF AllSound, Sound
<1>12. OneAtATime'
  BY <1>1, <1>2, <1>3, <1>4, <1>5, <1>6, <1>7, <1>8, <1>9, <1>10 DEF OneAtATime
<1>13. Beginning'
  BY <1>1, <1>2, <1>3, <1>4, <1>5, <1>6, <1>7, <1>8, <1>9, <1>10 DEF Beginning, Saving
<1>14. NotBehind'
  BY <1>1, <1>2, <1>3, <1>4, <1>5, <1>6, <1>7, <1>8, <1>9, <1>10 DEF NotBehind, Done, Saving
<1>15. DecidedFirst'
  BY <1>1, <1>2, <1>3, <1>4, <1>5, <1>6, <1>7, <1>8, <1>9, <1>10 DEF DecidedFirst, Decided, Done, Saving
<1>16. Counted'
  BY <1>1, <1>2, <1>3, <1>4, <1>5, <1>6, <1>7, <1>8, <1>9, <1>10 DEF Counted, Carried, Done
<1>17. FullSince'
  BY <1>1, <1>2, <1>3, <1>4, <1>5, <1>6, <1>7, <1>8, <1>9, <1>10 DEF FullSince, Full, Idle, Saving
<1>18. InOrder'
  BY <1>1, <1>2, <1>3, <1>4, <1>5, <1>6, <1>7, <1>8, <1>9, <1>10 DEF InOrder, Done, Saving, Readable
<1>19. AllPaid'
  BY <1>1, <1>2, <1>3, <1>4, <1>5, <1>6, <1>7, <1>8, <1>9, <1>10 DEF AllPaid, Paid
<1>20. Agreed'
  BY <1>1, <1>2, <1>3, <1>4, <1>5, <1>6, <1>7, <1>8, <1>9, <1>10 DEF Agreed, Done, Saving
<1> QED
  BY <1>11, <1>12, <1>13, <1>14, <1>15, <1>16, <1>17, <1>18, <1>19, <1>20 DEF AloneInv

(* The resumed record is saved, and handed back. *)
LEMMA DumpResumeSave ==
  ASSUME Overlap = FALSE, IInv, IInv', AloneInv, NEW p \in Procs,
         Dump(p), pc[p] = "save", cmd[p] # "mission"
  PROVE  AloneInv'
<1>1. /\ pc[p] \in WriteStage /\ AfterWrite(p)
      /\ \A q \in Procs \ {p} : pc[q] = "idle"
      /\ \A q \in Procs : opened'[q] = FALSE
      /\ bytes' = [bytes EXCEPT ![FileOf[pc[p]]] = "whole"]
      /\ record' = IF FileOf[pc[p]] = "record" THEN Content(p) ELSE record
      /\ result' = IF FileOf[pc[p]] = "result" THEN ResultOf(held[p]) ELSE result
      /\ UNCHANGED <<goal, created, cmd, first, counts, granted, executions>>
  BY DumpWhole
<1>2. record' = held[p] /\ result' = result
  BY <1>1 DEF FileOf, Content
<1>3. bytes'["memory"] = bytes["memory"]
  BY <1>1 DEF FileOf, IInv, TypeOK, File
<1>4. \A q \in Procs \ {p} : pc'[q] = "idle" /\ held'[q] = held[q]
  BY <1>1, AfterWriteKeeps
<1>5. held[p] \in RunRecord /\ held[p] # NoRecord
  BY RecordIsNotNoRecord DEF IInv, Shape, WriteStage
<1> DEFINE h == held'[p]
<1>6. /\ h \in RunRecord /\ h # NoRecord
      /\ h.status = held[p].status /\ h.executed = held[p].executed
      /\ h.awaiting = held[p].awaiting /\ h.approval = held[p].approval
      /\ cmd[p] = "resume_mission" /\ Full(first[p]) => Full(h)
      /\ pc'[p] = IF cmd[p] = "resume_mission" THEN "overlay" ELSE "idle"
  <2>1. ReturnToCaller(p, held[p])
    BY <1>1 DEF AfterWrite
  <2>2. cmd[p] = "resume_mission" => first[p] \in RunRecord
    BY DEF IInv, Shape
  <2> QED
    BY <1>5, <2>1, <2>2, ReturnFields DEF IInv, TypeOK
<1> HIDE DEF h
<1>7. h = held'[p]
  BY DEF h
<1>8. /\ Done(record) => Done(held[p])
      /\ Done(held[p]) => Readable("memory")
      /\ ~Done(held[p]) => executions <= crashes
      /\ executions > 0 => Decided(held[p])
  BY <1>1, SavingKnows DEF Saving
<1> USE DEF AloneInv, counts, IInv, TypeOK
<1>9. AllSound'
  BY <1>1, <1>2, <1>3, <1>4, <1>5, <1>6, <1>7, <1>8 DEF AllSound, Sound
<1>10. OneAtATime'
  BY <1>1, <1>2, <1>3, <1>4, <1>5, <1>6, <1>7, <1>8 DEF OneAtATime
<1>11. Beginning'
  BY <1>1, <1>2, <1>3, <1>4, <1>5, <1>6, <1>7, <1>8 DEF Beginning, Saving
<1>12. NotBehind'
  BY <1>1, <1>2, <1>3, <1>4, <1>5, <1>6, <1>7, <1>8 DEF NotBehind, Done, Saving
<1>13. DecidedFirst'
  BY <1>1, <1>2, <1>3, <1>4, <1>5, <1>6, <1>7, <1>8 DEF DecidedFirst, Decided, Done, Saving
<1>14. Counted'
  BY <1>1, <1>2, <1>3, <1>4, <1>5, <1>6, <1>7, <1>8 DEF Counted, Carried, Done
<1>15. FullSince'
  BY <1>1, <1>2, <1>3, <1>4, <1>5, <1>6, <1>7, <1>8 DEF FullSince, Full, Idle, Saving
<1>16. InOrder'
  BY <1>1, <1>2, <1>3, <1>4, <1>5, <1>6, <1>7, <1>8 DEF InOrder, Done, Saving, Readable
<1>17. AllPaid'
  BY <1>1, <1>2, <1>3, <1>4, <1>5, <1>6, <1>7, <1>8 DEF AllPaid, Paid
<1>18. Agreed'
  BY <1>1, <1>2, <1>3, <1>4, <1>5, <1>6, <1>7, <1>8 DEF Agreed, Done, Saving
<1> QED
  BY <1>9, <1>10, <1>11, <1>12, <1>13, <1>14, <1>15, <1>16, <1>17, <1>18 DEF AloneInv

(* The record with the mission's fields is saved. *)
LEMMA DumpOverlay ==
  ASSUME Overlap = FALSE, IInv, IInv', AloneInv, NEW p \in Procs,
         Dump(p), pc[p] = "overlay"
  PROVE  AloneInv'
<1>1. /\ pc[p] \in WriteStage /\ AfterWrite(p)
      /\ \A q \in Procs \ {p} : pc[q] = "idle"
      /\ \A q \in Procs : opened'[q] = FALSE
      /\ bytes' = [bytes EXCEPT ![FileOf[pc[p]]] = "whole"]
      /\ record' = IF FileOf[pc[p]] = "record" THEN Content(p) ELSE record
      /\ result' = IF FileOf[pc[p]] = "result" THEN ResultOf(held[p]) ELSE result
      /\ UNCHANGED <<goal, created, cmd, first, counts, granted, executions>>
  BY DumpWhole
<1>2. record' = held[p] /\ result' = result
  BY <1>1 DEF FileOf, Content
<1>3. bytes'["memory"] = bytes["memory"]
  BY <1>1 DEF FileOf, IInv, TypeOK, File
<1>4. \A q \in Procs \ {p} : pc'[q] = "idle" /\ held'[q] = held[q]
  BY <1>1, AfterWriteKeeps
<1>5. pc' = [pc EXCEPT ![p] = "result"] /\ held' = held
  BY <1>1 DEF AfterWrite
<1>6. held[p] \in RunRecord /\ held[p] # NoRecord
  BY RecordIsNotNoRecord DEF IInv, Shape, WriteStage
<1>7. /\ Done(record) => Done(held[p])
      /\ Done(held[p]) => Readable("memory")
      /\ ~Done(held[p]) => executions <= crashes
      /\ executions > 0 => Decided(held[p])
  BY <1>1, SavingKnows DEF Saving
<1> USE DEF AloneInv, counts, IInv, TypeOK
<1>8. AllSound'
  BY <1>1, <1>2, <1>3, <1>4, <1>5, <1>6, <1>7 DEF AllSound, Sound
<1>9. OneAtATime'
  BY <1>1, <1>2, <1>3, <1>4, <1>5, <1>6, <1>7 DEF OneAtATime
<1>10. Beginning'
  BY <1>1, <1>2, <1>3, <1>4, <1>5, <1>6, <1>7 DEF Beginning, Saving
<1>11. NotBehind'
  BY <1>1, <1>2, <1>3, <1>4, <1>5, <1>6, <1>7 DEF NotBehind, Done, Saving
<1>12. DecidedFirst'
  BY <1>1, <1>2, <1>3, <1>4, <1>5, <1>6, <1>7 DEF DecidedFirst, Decided, Done, Saving
<1>13. Counted'
  BY <1>1, <1>2, <1>3, <1>4, <1>5, <1>6, <1>7 DEF Counted, Carried, Done
<1>14. FullSince'
  BY <1>1, <1>2, <1>3, <1>4, <1>5, <1>6, <1>7 DEF FullSince, Full, Idle, Saving
<1>15. InOrder'
  BY <1>1, <1>2, <1>3, <1>4, <1>5, <1>6, <1>7 DEF InOrder, Done, Saving, Readable
<1>16. AllPaid'
  BY <1>1, <1>2, <1>3, <1>4, <1>5, <1>6, <1>7 DEF AllPaid, Paid
<1>17. Agreed'
  BY <1>1, <1>2, <1>3, <1>4, <1>5, <1>6, <1>7 DEF Agreed, Done, Saving
<1> QED
  BY <1>8, <1>9, <1>10, <1>11, <1>12, <1>13, <1>14, <1>15, <1>16, <1>17 DEF AloneInv

(* The mission result is saved. *)
LEMMA DumpResult ==
  ASSUME Overlap = FALSE, IInv, IInv', AloneInv, NEW p \in Procs,
         Dump(p), pc[p] = "result"
  PROVE  AloneInv'
<1>1. /\ pc[p] \in WriteStage /\ AfterWrite(p)
      /\ \A q \in Procs \ {p} : pc[q] = "idle"
      /\ \A q \in Procs : opened'[q] = FALSE
      /\ bytes' = [bytes EXCEPT ![FileOf[pc[p]]] = "whole"]
      /\ record' = IF FileOf[pc[p]] = "record" THEN Content(p) ELSE record
      /\ result' = IF FileOf[pc[p]] = "result" THEN ResultOf(held[p]) ELSE result
      /\ UNCHANGED <<goal, created, cmd, first, counts, granted, executions>>
  BY DumpWhole
<1>2. record' = record /\ result' = ResultOf(held[p])
  BY <1>1 DEF FileOf, Content
<1>3. bytes'["memory"] = bytes["memory"]
  BY <1>1 DEF FileOf, IInv, TypeOK, File
<1>4. \A q \in Procs \ {p} : pc'[q] = "idle" /\ held'[q] = held[q]
  BY <1>1, AfterWriteKeeps
<1>5. pc' = [pc EXCEPT ![p] = "idle"] /\ held' = held
  BY <1>1 DEF AfterWrite
<1>6. held[p] \in RunRecord /\ held[p] # NoRecord
  BY RecordIsNotNoRecord DEF IInv, Shape, WriteStage
<1>7. ResultOf(held[p]).status = "complete" => Done(record)
  BY <1>6 DEF ResultOf, AloneInv, AllSound, Sound, InOrder, Done
<1>8. /\ Done(record) => Done(held[p])
      /\ Done(held[p]) => Readable("memory")
      /\ ~Done(held[p]) => executions <= crashes
      /\ executions > 0 => Decided(held[p])
  BY <1>1, SavingKnows DEF Saving
<1> USE DEF AloneInv, counts, IInv, TypeOK
<1>9. AllSound'
  BY <1>1, <1>2, <1>3, <1>4, <1>5, <1>6, <1>7, <1>8 DEF AllSound, Sound
<1>10. OneAtATime'
  BY <1>1, <1>2, <1>3, <1>4, <1>5, <1>6, <1>7, <1>8 DEF OneAtATime
<1>11. Beginning'
  BY <1>1, <1>2, <1>3, <1>4, <1>5, <1>6, <1>7, <1>8 DEF Beginning, Saving
<1>12. NotBehind'
  BY <1>1, <1>2, <1>3, <1>4, <1>5, <1>6, <1>7, <1>8 DEF NotBehind, Done, Saving
<1>13. DecidedFirst'
  BY <1>1, <1>2, <1>3, <1>4, <1>5, <1>6, <1>7, <1>8 DEF DecidedFirst, Decided, Done, Saving
<1>14. Counted'
  BY <1>1, <1>2, <1>3, <1>4, <1>5, <1>6, <1>7, <1>8 DEF Counted, Carried, Done
<1>15. FullSince'
  BY <1>1, <1>2, <1>3, <1>4, <1>5, <1>6, <1>7, <1>8 DEF FullSince, Full, Idle, Saving
<1>16. InOrder'
  BY <1>1, <1>2, <1>3, <1>4, <1>5, <1>6, <1>7, <1>8 DEF InOrder, Done, Saving, Readable
<1>17. AllPaid'
  BY <1>1, <1>2, <1>3, <1>4, <1>5, <1>6, <1>7, <1>8 DEF AllPaid, Paid
<1>18. Agreed'
  BY <1>1, <1>2, <1>3, <1>4, <1>5, <1>6, <1>7, <1>8 DEF Agreed, Done, Saving
<1> QED
  BY <1>9, <1>10, <1>11, <1>12, <1>13, <1>14, <1>15, <1>16, <1>17, <1>18 DEF AloneInv

(* An operator decides between commands, and only what waits. *)
LEMMA OperatorAlone ==
  ASSUME Overlap = FALSE, IInv, IInv', AloneInv,
         NEW decision \in {"approved", "denied", "escalated"},
         OperatorDecides(decision)
  PROVE  AloneInv'
<1>1. /\ \A q \in Procs : pc[q] = "idle" /\ opened[q] = FALSE
      /\ record \in RunRecord /\ record # NoRecord
  BY RecordIsNotNoRecord DEF OperatorDecides, Idle, IInv, TypeOK, Shape, WriteStage
<1>2. /\ record' \in RunRecord /\ record' # NoRecord
      /\ record'.status = record.status /\ record'.executed = record.executed
      /\ record'.awaiting = record.awaiting /\ record'.approval = decision
      /\ record'.changes = record.changes /\ record'.risk = record.risk
      /\ record'.restore = record.restore
  BY <1>1, RecordIsNotNoRecord DEF OperatorDecides, RunRecord, ValidApprovalStates
<1>3. /\ record.awaiting = TRUE /\ record.approval \notin {"approved", "none"}
      /\ UNCHANGED <<goal, created, bytes, result, procs, counts, executions>>
  BY <1>1 DEF OperatorDecides, TransitionAllowed, TerminalApprovalStates, AloneInv, AllSound, Sound,
     RunRecord
<1> USE DEF AloneInv, procs, counts, IInv, TypeOK
<1>4. AllSound'
  BY <1>1, <1>2, <1>3 DEF AllSound, Sound
<1>5. OneAtATime'
  BY <1>1, <1>2, <1>3 DEF OneAtATime
<1>6. Beginning'
  BY <1>1, <1>2, <1>3 DEF Beginning, Saving
<1>7. NotBehind'
  BY <1>1, <1>2, <1>3 DEF NotBehind, Done, Saving
<1>8. DecidedFirst'
  BY <1>1, <1>2, <1>3 DEF DecidedFirst, Decided, Done, Saving
<1>9. Counted'
  BY <1>1, <1>2, <1>3 DEF Counted, Carried, Done
<1>10. FullSince'
  BY <1>1, <1>2, <1>3 DEF FullSince, Full, Idle, Saving
<1>11. InOrder'
  BY <1>1, <1>2, <1>3 DEF InOrder, Done, Saving, Readable
<1>12. AllPaid'
  BY <1>1, <1>2, <1>3 DEF AllPaid, Paid
<1>13. Agreed'
  BY <1>1, <1>2, <1>3 DEF Agreed, Done, Saving
<1> QED
  BY <1>4, <1>5, <1>6, <1>7, <1>8, <1>9, <1>10, <1>11, <1>12, <1>13 DEF AloneInv

(* Whatever a command writes. *)
LEMMA DumpAlone ==
  ASSUME Overlap = FALSE, IInv, IInv', AloneInv, NEW p \in Procs, Dump(p)
  PROVE  AloneInv'
<1>1. pc[p] \in WriteStage
  BY DumpWhole
<1>2. CASE pc[p] = "save"
  BY <1>2, DumpMissionSave, DumpResumeSave
<1>3. CASE pc[p] \in {"approve", "memory", "overlay", "result"}
  BY <1>3, DumpApprove, DumpMemory, DumpOverlay, DumpResult
<1> QED
  BY <1>1, <1>2, <1>3 DEF WriteStage

LEMMA AloneStep ==
  ASSUME Overlap = FALSE, IInv, AloneInv, [Next]_vars
  PROVE  AloneInv'
<1>1. IInv'
  BY StepInv
<1>2. CASE UNCHANGED vars
  <2> USE <1>2 DEF vars, files, procs, counts
  <2>1. AllSound' /\ OneAtATime' /\ Beginning' /\ NotBehind'
    BY DEF AloneInv, AllSound, OneAtATime, Beginning, NotBehind, Done, Saving
  <2>2. DecidedFirst' /\ Counted' /\ FullSince' /\ InOrder'
    BY DEF AloneInv, DecidedFirst, Decided, Done, Counted, Carried, FullSince, Full, Idle,
       InOrder, Readable, Saving
  <2>3. AllPaid' /\ Agreed'
    BY DEF AloneInv, AllPaid, Paid, Agreed, Done, Saving
  <2> QED
    BY <2>1, <2>2, <2>3 DEF AloneInv
<1>3. ASSUME NEW p \in Procs,
             \/ RunMission(p) \/ ResumeMission(p) \/ ApproveMission(p) \/ Resume(p)
             \/ Work(p) \/ Crash(p)
      PROVE  AloneInv'
  BY <1>1, <1>3, RunMissionAlone, ResumeAlone, ApproveAlone, ExecuteAlone, HandBackAlone,
     LoadFailsAlone, OpenAlone, DumpAlone, CrashAlone DEF Work
<1>4. ASSUME NEW decision \in {"approved", "denied", "escalated"}, OperatorDecides(decision)
      PROVE  AloneInv'
  BY <1>1, <1>4, OperatorAlone
<1> QED
  BY <1>2, <1>3, <1>4 DEF Next

LEMMA AloneInvariance ==
  ASSUME Overlap = FALSE
  PROVE  Spec => [](IInv /\ AloneInv)
<1>1. Init => IInv /\ AloneInv
  BY InitInv, InitAlone
<1>2. IInv /\ AloneInv /\ [Next]_vars => (IInv /\ AloneInv)'
  BY StepInv, AloneStep
<1> QED
  BY <1>1, <1>2, PTL DEF Spec

(* A run on record as denied has not been executed and nobody is executing it:
   while it waits it is not executed, and what is executed was decided first. *)
THEOREM DeniedStandsAlone ==
  ASSUME Overlap = FALSE
  PROVE  Spec => []DeniedNeverRuns
<1>1. IInv /\ AloneInv => DeniedNeverRuns
  BY DEF IInv, TypeOK, AloneInv, DecidedFirst, Decided, DeniedNeverRuns
<1> QED
  BY <1>1, AloneInvariance, PTL

(* The work is repeated at most once for every process killed: work that is
   neither on record nor carried to it was lost to a crash. *)
THEOREM RepeatedOnlyByCrash ==
  ASSUME Overlap = FALSE
  PROVE  Spec => []WorkRepeatedOnlyByCrash
<1>1. AloneInv => WorkRepeatedOnlyByCrash
  BY DEF AloneInv, Counted, WorkRepeatedOnlyByCrash
<1> QED
  BY <1>1, AloneInvariance, PTL

(* Memory before record before result, whatever process is killed between two
   of the writes or in the middle of one. *)
THEOREM OrderKept ==
  ASSUME Overlap = FALSE
  PROVE  Spec => []WritesInOrder
<1>1. AloneInv => WritesInOrder
  BY DEF AloneInv, AllSound, Sound, InOrder, Done, WritesInOrder
<1> QED
  BY <1>1, AloneInvariance, PTL

(* Work on record has been done, and nobody does it again: a loaded record that
   tells of it is handed back. *)
THEOREM DoneStands ==
  ASSUME Overlap = FALSE
  PROVE  Spec => DoneMeansDone
<1> DEFINE Stands == record # NoRecord /\ record.executed =>
                       executions > 0 /\ executions' = executions
<1>1. IInv /\ AloneInv /\ [Next]_vars => [Stands]_vars
  <2> SUFFICES ASSUME IInv, AloneInv, Next, record # NoRecord, record.executed
               PROVE  executions > 0 /\ executions' = executions
    OBVIOUS
  <2>1. record \in RunRecord
    BY DEF IInv, TypeOK
  <2>2. record.executed = TRUE /\ executions > 0
    BY <2>1 DEF RunRecord, AloneInv, AllPaid, Paid
  <2>3. \A p \in Procs : ~RunMission(p) /\ ~Execute(p)
    BY DEF RunMission, Execute, AloneInv, Beginning
  <2>4. ASSUME NEW p \in Procs,
               \/ ResumeMission(p) \/ ApproveMission(p) \/ Resume(p)
               \/ HandBack(p) \/ LoadFails(p) \/ Open(p) \/ Dump(p) \/ Crash(p)
        PROVE  executions' = executions
    BY <2>4 DEF ResumeMission, ApproveMission, Resume, HandBack, LoadFails, Open, Dump, Crash
  <2>5. ASSUME NEW decision, OperatorDecides(decision)
        PROVE  executions' = executions
    BY <2>5 DEF OperatorDecides
  <2> QED
    BY <2>2, <2>3, <2>4, <2>5 DEF Next, Work
<1> QED
  BY <1>1, AloneInvariance, PTL DEF Spec, DoneMeansDone

(* What a step that writes the record puts there. *)
LEMMA WhatIsSaved ==
  ASSUME IInv, AloneInv, NEW p \in Procs, Dump(p), record' # record
  PROVE  /\ record' \in RunRecord /\ record' # NoRecord
         /\ UNCHANGED <<goal, granted>>
         /\ record # NoRecord /\ record.approval \in TerminalApprovalStates =>
              record'.approval = record.approval
         /\ record = NoRecord => (record'.executed = TRUE <=> goal.gated = FALSE)
         /\ record'.executed = TRUE => executions > 0
         /\ record'.status = "complete" <=> record'.executed = TRUE
         /\ Done(record) => Done(record')
<1>1. /\ pc[p] \in WriteStage /\ record' = Content(p) /\ FileOf[pc[p]] = "record"
      /\ UNCHANGED <<goal, granted>>
  BY DumpWhole
<1>2. CASE pc[p] = "approve"
  <2>1. record' = first[p] /\ first[p] \in RunRecord
    BY <1>1, <1>2 DEF Content, IInv, Shape
  <2>2. first[p] # NoRecord /\ record # NoRecord /\ ~Done(record)
    BY <1>2, <2>1, RecordIsNotNoRecord DEF AloneInv, Beginning, NotBehind, IInv, Shape, Saving
  <2>3. record.approval \in TerminalApprovalStates => first[p].approval = record.approval
    BY <1>2 DEF AloneInv, Agreed, DecidedFirst, TerminalApprovalStates
  <2> QED
    BY <1>1, <2>1, <2>2, <2>3 DEF AloneInv, AllSound, Sound, AllPaid, Paid
<1>3. CASE pc[p] \in {"save", "overlay"}
  <2>1. record' = held[p] /\ held[p] \in RunRecord /\ held[p] # NoRecord
    BY <1>1, <1>3, RecordIsNotNoRecord DEF Content, IInv, Shape, WriteStage
  <2>2. record = NoRecord => pc[p] = "save" /\ cmd[p] = "mission"
    BY <1>3 DEF AloneInv, Beginning, Saving
  <2>3. record = NoRecord => (held[p].executed = TRUE <=> goal.gated = FALSE)
    BY <1>3, <2>1, <2>2, GoalFields DEF AloneInv, Agreed, AllPaid, Paid, Done, IInv, TypeOK
  <2>4. record # NoRecord => held[p].approval = record.approval
    BY <1>3 DEF AloneInv, Agreed, Saving
  <2>5. Done(record) => Done(held[p])
    BY <1>3 DEF AloneInv, NotBehind, Saving
  <2> QED
    BY <1>1, <2>1, <2>3, <2>4, <2>5 DEF AloneInv, AllSound, Sound, AllPaid, Paid
<1>4. pc[p] \in {"approve", "save", "overlay"}
  BY <1>1 DEF WriteStage, FileOf
<1> QED
  BY <1>2, <1>3, <1>4

(* Who else changes what the record or an operator has said. *)
LEMMA WhoElseDecides ==
  ASSUME IInv, AloneInv, Next, \A p \in Procs : ~Dump(p)
  PROVE  /\ goal' = goal
         /\ \/ record' = record
            \/ \E decision \in {"approved", "denied", "escalated"} : OperatorDecides(decision)
         /\ \/ granted' = granted
            \/ granted' = TRUE /\ record # NoRecord /\ record.awaiting = TRUE
<1>1. ASSUME NEW p \in Procs,
             \/ RunMission(p) \/ ResumeMission(p) \/ Resume(p)
             \/ HandBack(p) \/ Execute(p) \/ LoadFails(p) \/ Open(p) \/ Crash(p)
      PROVE  UNCHANGED <<goal, record, granted>>
  BY <1>1 DEF RunMission, ResumeMission, Resume, HandBack, Execute, LoadFails, Open, Crash, files
<1>2. ASSUME NEW p \in Procs, ApproveMission(p)
      PROVE  /\ UNCHANGED <<goal, record>> /\ granted' = TRUE
             /\ record # NoRecord /\ record.awaiting = TRUE
  BY <1>2, RecordIsNotNoRecord DEF ApproveMission, files, IInv, Shape, RunRecord
<1>3. ASSUME NEW decision \in {"approved", "denied", "escalated"}, OperatorDecides(decision)
      PROVE  /\ goal' = goal /\ record # NoRecord /\ record.awaiting = TRUE
             /\ granted' = granted \/ granted' = TRUE
  <2>1. record \in RunRecord /\ record # NoRecord /\ granted \in BOOLEAN
    BY <1>3, RecordIsNotNoRecord DEF OperatorDecides, IInv, TypeOK, Shape
  <2>2. record.awaiting = TRUE
    BY <1>3, <2>1 DEF OperatorDecides, RunRecord
  <2>3. goal' = goal /\ granted' = (granted \/ decision = "approved")
    BY <1>3 DEF OperatorDecides
  <2> QED
    BY <2>1, <2>2, <2>3
<1> QED
  BY <1>1, <1>2, <1>3 DEF Next, Work

(* A recorded decision stands: what a command writes back was loaded after it,
   and operators do not take one back. *)
THEOREM DecisionStandsAlone ==
  ASSUME Overlap = FALSE
  PROVE  Spec => DecisionIsFinal
<1> DEFINE Stands == record # NoRecord /\ record.approval \in TerminalApprovalStates
                       => record'.approval = record.approval
<1>1. IInv /\ AloneInv /\ [Next]_vars => [Stands]_vars
  <2> SUFFICES ASSUME IInv, AloneInv, Next, record # NoRecord,
                      record.approval \in TerminalApprovalStates
               PROVE  record'.approval = record.approval
    OBVIOUS
  <2>1. ASSUME NEW p \in Procs, Dump(p)
        PROVE  record'.approval = record.approval
    BY <2>1, WhatIsSaved
  <2>2. ASSUME NEW decision, OperatorDecides(decision)
        PROVE  record'.approval = record.approval
    BY <2>2 DEF OperatorDecides, TransitionAllowed
  <2>3. CASE \A p \in Procs : ~Dump(p)
    BY <2>2, <2>3, WhoElseDecides
  <2> QED
    BY <2>1, <2>3
<1> QED
  BY <1>1, AloneInvariance, PTL DEF Spec, DecisionIsFinal

(* The record, written whole or torn, by commands that may be killed at any
   step, behaves like the abstract run: it begins paused if and only if its goal
   is gated, completes only when permitted, and stays complete. *)
THEOREM PromiseKept ==
  ASSUME Overlap = FALSE
  PROVE  Spec => KeepsPromise
<1> DEFINE phase == IF record = NoRecord THEN "none"
                    ELSE IF record.status = "complete" THEN "complete" ELSE "paused"
<1>1. Init => Promise!Init
  BY GoalFields DEF Init, Promise!Init, TypeOK
<1>2. IInv /\ AloneInv /\ [Next]_vars => [Promise!Next]_(Promise!vars)
  <2> SUFFICES ASSUME IInv, AloneInv, [Next]_vars
               PROVE  \/ Promise!Begin \/ Promise!Permit \/ Promise!Complete
                      \/ UNCHANGED <<goal.gated, phase, granted>>
    BY DEF Promise!Next, Promise!vars
  <2>1. CASE UNCHANGED vars
    BY <2>1 DEF vars, files
  <2>2. ASSUME NEW p \in Procs, Dump(p), record' # record
        PROVE  \/ Promise!Begin \/ Promise!Complete
               \/ UNCHANGED <<goal.gated, phase, granted>>
    <3>1. /\ record' \in RunRecord /\ record' # NoRecord
          /\ UNCHANGED <<goal, granted>>
          /\ record = NoRecord => (record'.executed = TRUE <=> goal.gated = FALSE)
          /\ record'.executed = TRUE => executions > 0
          /\ record'.status = "complete" <=> record'.executed = TRUE
          /\ Done(record) => Done(record')
      BY <2>2, WhatIsSaved
    <3>2. goal.gated \in BOOLEAN
      BY GoalFields DEF IInv, TypeOK
    <3>3. CASE record = NoRecord
      BY <3>1, <3>2, <3>3 DEF Promise!Begin
    <3>4. CASE record # NoRecord /\ Done(record)
      BY <3>1, <3>4 DEF Done, AloneInv, AllSound, Sound
    <3>5. CASE record # NoRecord /\ ~Done(record)
      <4>1. phase = "paused" /\ goal.gated = TRUE
        BY <3>2, <3>5 DEF Done, AloneInv, AllSound, Sound, AllPaid, Paid
      <4>2. record'.executed = TRUE => granted = TRUE
        BY <3>1, <4>1 DEF IInv, TypeOK, GateShut
      <4> QED
        BY <3>1, <4>1, <4>2 DEF Promise!Complete
    <3> QED
      BY <3>3, <3>4, <3>5
  <2>3. ASSUME NEW p \in Procs, Dump(p), record' = record
        PROVE  UNCHANGED <<goal.gated, phase, granted>>
    BY <2>3 DEF Dump
  <2>4. CASE Next /\ \A p \in Procs : ~Dump(p)
    <3>1. /\ goal' = goal
          /\ \/ record' = record
             \/ \E decision \in {"approved", "denied", "escalated"} : OperatorDecides(decision)
          /\ \/ granted' = granted
             \/ granted' = TRUE /\ record # NoRecord /\ record.awaiting = TRUE
      BY <2>4, WhoElseDecides
    <3>2. phase' = phase
      <4>1. ASSUME NEW decision, OperatorDecides(decision)
            PROVE  record' # NoRecord /\ record # NoRecord /\ record'.status = record.status
        <5>1. record \in RunRecord /\ record' = [record EXCEPT !.approval = decision]
          BY <4>1 DEF OperatorDecides, IInv, Shape
        <5> QED
          BY <5>1, RecordIsNotNoRecord DEF RunRecord, NoRecord
      <4> QED
        BY <3>1, <4>1
    <3>3. record # NoRecord /\ record.awaiting = TRUE => phase = "paused"
      BY DEF AloneInv, AllSound, Sound
    <3> QED
      BY <3>1, <3>2, <3>3 DEF Promise!Permit
  <2> QED
    BY <2>1, <2>2, <2>3, <2>4
<1> QED
  BY <1>1, <1>2, AloneInvariance, PTL DEF Spec, KeepsPromise, Promise!Spec

-----------------------------------------------------------------------------

(* Restore data and risk come with the change sets: a copy that has these has
   what the mission laid over it. *)
Marked(r) ==
  r # NoRecord /\ r.changes = TRUE => r.risk = goal.risk /\ r.restore = goal.checkpoint

AllMarked ==
  /\ Marked(record)
  /\ \A p \in Procs : Marked(held[p]) /\ Marked(first[p])

(* What a process is going to write has change sets if the record has; what a
   mission writes over its own record has them in any case. *)
AbreastOf(p) ==
  /\ pc[p] # "idle" /\ cmd[p] = "resume_mission" => first[p].changes = record.changes
  /\ pc[p] \in {"memory"} \cup Saving /\ cmd[p] # "mission" => held[p].changes = record.changes
  /\ pc[p] \in {"overlay", "result"} /\ cmd[p] = "mission" => held[p].changes = TRUE

(* A gated mission is not carried out by the command that starts it. *)
StillNew(p) == pc[p] # "idle" /\ cmd[p] = "mission" /\ goal.gated = TRUE => executions = 0

KeptInv == AllMarked /\ \A p \in Procs : AbreastOf(p) /\ StillNew(p)

LEMMA OverlayMarks ==
  ASSUME goal \in Goals, NEW r \in RunRecord, NEW loaded \in RunRecord, Marked(loaded)
  PROVE  LET c == ResumeOverlay(r, loaded) IN
         Marked(c) /\ c.changes = loaded.changes
<1>1. goal.risk # "unset" /\ goal.checkpoint \in BOOLEAN
  BY GoalFields DEF Risk
<1> DEFINE restore == loaded.changes /\ goal.checkpoint
           risk == IF loaded.risk = "unset" THEN "safe" ELSE loaded.risk
           c == ResumeOverlay(r, loaded)
<1>2. c = [r EXCEPT !.changes = loaded.changes, !.risk = risk, !.restore = restore]
  BY DEF ResumeOverlay
<1> HIDE DEF restore, risk
<1>3. c.changes = loaded.changes /\ c.risk = risk /\ c.restore = restore
  BY <1>2 DEF RunRecord
<1> HIDE DEF c
<1>4. loaded # NoRecord
  BY RecordIsNotNoRecord
<1>5. loaded.changes = TRUE => risk = goal.risk /\ restore = goal.checkpoint
  BY <1>1, <1>4 DEF Marked, risk, restore
<1>6. Marked(c)
  BY <1>3, <1>5 DEF Marked
<1> QED
  BY <1>3, <1>6 DEF c

LEMMA ReturnMarks ==
  ASSUME goal \in Goals, NEW p \in Procs, NEW r \in RunRecord, Marked(r),
         ReturnToCaller(p, r),
         held \in [Procs -> RunRecord \cup {NoRecord}], pc \in [Procs -> Pc],
         cmd[p] = "resume_mission" =>
           first[p] \in RunRecord /\ Marked(first[p]) /\ first[p].changes = r.changes
  PROVE  /\ Marked(held'[p])
         /\ held'[p].changes = r.changes
         /\ \A q \in Procs \ {p} : held'[q] = held[q] /\ pc'[q] = pc[q]
<1>1. CASE cmd[p] = "resume_mission"
  <2>1. held'[p] = ResumeOverlay(r, first[p])
    BY <1>1 DEF ReturnToCaller
  <2>2. Marked(ResumeOverlay(r, first[p])) /\ ResumeOverlay(r, first[p]).changes = r.changes
    BY <1>1, OverlayMarks
  <2> QED
    BY <1>1, <2>1, <2>2 DEF ReturnToCaller
<1>2. CASE cmd[p] # "resume_mission"
  BY <1>2 DEF ReturnToCaller
<1> QED
  BY <1>1, <1>2

(* A command that runs alone keeps KeptInv if it does for itself. *)
LEMMA OneKeeps ==
  ASSUME KeptInv, NEW p \in Procs, goal' = goal,
         \A q \in Procs \ {p} : /\ pc'[q] = "idle"
                                /\ held'[q] = held[q] /\ first'[q] = first[q],
         Marked(record'), Marked(held'[p]), Marked(first'[p]),
         AbreastOf(p)', StillNew(p)'
  PROVE  KeptInv'
<1>1. AllMarked'
  BY DEF KeptInv, AllMarked, Marked
<1>2. ASSUME NEW q \in Procs PROVE (AbreastOf(q) /\ StillNew(q))'
  <2>1. CASE q = p
    BY <2>1
  <2>2. CASE q # p
    BY <2>2 DEF AbreastOf, StillNew, Saving
  <2> QED
    BY <2>1, <2>2
<1> QED
  BY <1>1, <1>2 DEF KeptInv

LEMMA InitKept == Init => KeptInv
BY DEF Init, KeptInv, AllMarked, Marked, AbreastOf, StillNew, Saving

(* The commands that start. *)
LEMMA StartKept ==
  ASSUME Overlap = FALSE, IInv, AloneInv, KeptInv, NEW p \in Procs,
         RunMission(p) \/ ResumeMission(p) \/ ApproveMission(p) \/ Resume(p)
  PROVE  KeptInv'
<1>1. /\ \A q \in Procs : pc[q] = "idle"
      /\ UNCHANGED <<goal, record>>
      /\ Marked(record) /\ \A q \in Procs : Marked(held[q]) /\ Marked(first[q])
  BY DEF RunMission, ResumeMission, ApproveMission, Resume, Issue, Idle, files, KeptInv,
     AllMarked
<1> USE DEF IInv, TypeOK, Issue
<1>2. CASE RunMission(p)
  <2>1. Marked(FreshRecord)
    BY DEF FreshRecord, Marked
  <2>2. pc'[p] \in {"memory", "save"} /\ cmd'[p] = "mission"
    BY <1>2 DEF RunMission
  <2>3. goal.gated = TRUE => executions' = 0
    BY <1>2 DEF RunMission, AloneInv, Beginning
  <2>4. AbreastOf(p)' /\ StillNew(p)'
    BY <1>1, <2>2, <2>3 DEF AbreastOf, StillNew
  <2>5. /\ held' = [held EXCEPT ![p] = FreshRecord] /\ first' = first
        /\ \A q \in Procs \ {p} : pc'[q] = "idle"
    BY <1>1, <1>2 DEF RunMission
  <2>6. held'[p] = FreshRecord
    BY <2>5
  <2> QED
    BY <1>1, <2>1, <2>4, <2>5, <2>6, OneKeeps
<1>3. CASE ResumeMission(p) \/ Resume(p)
  <2>1. /\ pc' = [pc EXCEPT ![p] = "load"] /\ cmd'[p] # "mission" /\ held' = held
        /\ first'[p] \in {record, first[p]} /\ (cmd'[p] = "resume_mission" => first'[p] = record)
        /\ \A q \in Procs \ {p} : first'[q] = first[q]
    BY <1>3 DEF ResumeMission, Resume
  <2>2. AbreastOf(p)' /\ StillNew(p)'
    BY <1>1, <2>1 DEF AbreastOf, StillNew, Saving
  <2> QED
    BY <1>1, <2>1, <2>2, OneKeeps
<1>4. CASE ApproveMission(p)
  <2> DEFINE r == [record EXCEPT !.approval = "approved"]
  <2>1. record \in RunRecord /\ record # NoRecord
    BY <1>4, RecordIsNotNoRecord DEF ApproveMission, Shape
  <2>2. r.changes = record.changes /\ r.risk = record.risk /\ r.restore = record.restore
    BY <2>1 DEF RunRecord
  <2>3. first' = [first EXCEPT ![p] = r]
    BY <1>4 DEF ApproveMission
  <2> HIDE DEF r
  <2>4. Marked(r)
    BY <1>1, <2>1, <2>2 DEF Marked
  <2>5. /\ pc' = [pc EXCEPT ![p] = "approve"] /\ cmd'[p] = "resume_mission" /\ held' = held
        /\ first'[p] = r /\ \A q \in Procs \ {p} : first'[q] = first[q]
    BY <1>4, <2>3 DEF ApproveMission
  <2>6. AbreastOf(p)' /\ StillNew(p)'
    BY <1>1, <2>2, <2>5 DEF AbreastOf, StillNew, Saving
  <2> QED
    BY <1>1, <2>4, <2>5, <2>6, OneKeeps
<1> QED
  BY <1>2, <1>3, <1>4

(* What a command does between its writes. *)
LEMMA WorkKept ==
  ASSUME Overlap = FALSE, IInv, AloneInv, KeptInv, NEW p \in Procs,
         Execute(p) \/ HandBack(p) \/ LoadFails(p) \/ Open(p) \/ Crash(p)
  PROVE  KeptInv'
<1>1. /\ \A q \in Procs \ {p} : pc[q] = "idle"
      /\ UNCHANGED <<goal, record, cmd, first>>
      /\ Marked(record) /\ \A q \in Procs : Marked(held[q]) /\ Marked(first[q])
      /\ AbreastOf(p) /\ StillNew(p)
  BY DEF Execute, HandBack, LoadFails, Open, Crash, files, KeptInv, AllMarked, AloneInv,
     OneAtATime, WriteStage
<1> USE DEF IInv, TypeOK
<1>2. pc[p] = "load" => cmd[p] # "mission"
  BY DEF AloneInv, Beginning, Saving
<1>3. CASE Execute(p)
  <2>1. record \in RunRecord
    BY <1>3 DEF Execute, Shape
  <2> DEFINE c == ContinueExecution(record)
  <2>2. /\ c # NoRecord /\ c.changes = record.changes /\ c.risk = record.risk
        /\ c.restore = record.restore
    BY <2>1, ContinueFields
  <2>3. /\ held' = [held EXCEPT ![p] = c] /\ pc' = [pc EXCEPT ![p] = "memory"]
        /\ pc[p] = "load"
    BY <1>3 DEF Execute
  <2> HIDE DEF c
  <2>4. Marked(c)
    BY <1>1, <2>1, <2>2, RecordIsNotNoRecord DEF Marked
  <2>5. AbreastOf(p)' /\ StillNew(p)'
    BY <1>1, <1>2, <2>2, <2>3 DEF AbreastOf, StillNew, Saving
  <2> QED
    BY <1>1, <2>3, <2>4, <2>5, OneKeeps
<1>4. CASE HandBack(p)
  <2> DEFINE blocked == record.awaiting /\ record.approval # "approved"
             r == IF blocked THEN record ELSE [record EXCEPT !.awaiting = FALSE]
  <2>1. record \in RunRecord /\ pc[p] = "load"
    BY <1>4 DEF HandBack, Shape
  <2>2. r \in RunRecord /\ ReturnToCaller(p, r)
    BY <1>4, <2>1 DEF RunRecord, HandBack
  <2>3. r.changes = record.changes /\ r.risk = record.risk /\ r.restore = record.restore
    BY <2>1 DEF RunRecord
  <2> HIDE DEF r
  <2>4. Marked(r)
    BY <1>1, <2>1, <2>3, RecordIsNotNoRecord DEF Marked
  <2>5. cmd[p] = "resume_mission" => first[p] \in RunRecord /\ first[p].changes = r.changes
    BY <1>1, <2>1, <2>3 DEF AbreastOf, Shape
  <2>6. /\ Marked(held'[p]) /\ held'[p].changes = r.changes
        /\ \A q \in Procs \ {p} : held'[q] = held[q] /\ pc'[q] = pc[q]
    BY <1>1, <2>2, <2>4, <2>5, ReturnMarks
  <2>7. executions' = executions
    BY <1>4 DEF HandBack
  <2>8. AbreastOf(p)' /\ StillNew(p)'
    BY <1>1, <1>2, <2>1, <2>3, <2>5, <2>6, <2>7 DEF AbreastOf, StillNew
  <2> QED
    BY <1>1, <2>6, <2>8, OneKeeps
<1>5. CASE LoadFails(p) \/ Crash(p)
  <2>1. pc' = [pc EXCEPT ![p] = "idle"] /\ UNCHANGED <<held, executions>>
    BY <1>5 DEF LoadFails, Crash
  <2>2. AbreastOf(p)' /\ StillNew(p)'
    BY <1>1, <2>1 DEF AbreastOf, StillNew, Saving
  <2> QED
    BY <1>1, <2>1, <2>2, OneKeeps
<1>6. CASE Open(p)
  <2>1. UNCHANGED <<pc, held, executions>>
    BY <1>6 DEF Open
  <2>2. AbreastOf(p)' /\ StillNew(p)'
    BY <1>1, <2>1 DEF AbreastOf, StillNew
  <2> QED
    BY <1>1, <2>1, <2>2, OneKeeps
<1> QED
  BY <1>3, <1>4, <1>5, <1>6

(* Whatever a command writes. *)
LEMMA DumpKept ==
  ASSUME Overlap = FALSE, IInv, AloneInv, KeptInv, NEW p \in Procs, Dump(p)
  PROVE  KeptInv'
<1>1. /\ pc[p] \in WriteStage /\ AfterWrite(p)
      /\ \A q \in Procs \ {p} : pc[q] = "idle"
      /\ record' = IF FileOf[pc[p]] = "record" THEN Content(p) ELSE record
      /\ UNCHANGED <<goal, cmd, first, executions>>
  BY DumpWhole
<1>2. /\ Marked(record) /\ \A q \in Procs : Marked(held[q]) /\ Marked(first[q])
      /\ AbreastOf(p) /\ StillNew(p)
  BY DEF KeptInv, AllMarked
<1> USE DEF IInv, TypeOK
<1>3. CASE pc[p] = "approve"
  <2>1. record' = first[p] /\ pc' = [pc EXCEPT ![p] = "load"] /\ held' = held
        /\ cmd[p] = "resume_mission"
    BY <1>1, <1>3 DEF FileOf, Content, AfterWrite, Shape
  <2>2. AbreastOf(p)' /\ StillNew(p)'
    BY <1>1, <1>2, <2>1 DEF AbreastOf, StillNew, Saving
  <2> QED
    BY <1>1, <1>2, <2>1, <2>2, OneKeeps
<1>4. CASE pc[p] = "memory"
  <2>1. record' = record /\ pc' = [pc EXCEPT ![p] = "save"] /\ held' = held
    BY <1>1, <1>4 DEF FileOf, AfterWrite
  <2>2. AbreastOf(p)' /\ StillNew(p)'
    BY <1>1, <1>2, <1>4, <2>1 DEF AbreastOf, StillNew, Saving
  <2> QED
    BY <1>1, <1>2, <2>1, <2>2, OneKeeps
<1>5. CASE pc[p] = "save" /\ cmd[p] = "mission"
  <2>1. /\ record' = held[p] /\ pc' = [pc EXCEPT ![p] = "overlay"]
        /\ held' = [held EXCEPT ![p] = MissionOverlay(held[p])]
    BY <1>1, <1>5 DEF FileOf, Content, AfterWrite
  <2>2. held[p] \in RunRecord
    BY <1>5 DEF Shape, WriteStage
  <2> DEFINE c == MissionOverlay(held[p])
  <2>3. c.changes = TRUE /\ c.risk = goal.risk /\ c.restore = goal.checkpoint
    BY <2>2, MissionFields
  <2>4. held'[p] = c /\ \A q \in Procs \ {p} : held'[q] = held[q]
    BY <2>1
  <2> HIDE DEF c
  <2>5. Marked(c)
    BY <2>3 DEF Marked
  <2>6. AbreastOf(p)' /\ StillNew(p)'
    BY <1>1, <1>2, <1>5, <2>1, <2>3, <2>4 DEF AbreastOf, StillNew, Saving
  <2> QED
    BY <1>1, <1>2, <2>1, <2>4, <2>5, <2>6, OneKeeps
<1>6. CASE pc[p] = "save" /\ cmd[p] # "mission"
  <2>1. record' = held[p] /\ ReturnToCaller(p, held[p])
    BY <1>1, <1>6 DEF FileOf, Content, AfterWrite
  <2>2. held[p] \in RunRecord
    BY <1>6 DEF Shape, WriteStage
  <2>3. cmd[p] = "resume_mission" =>
          first[p] \in RunRecord /\ first[p].changes = held[p].changes
    BY <1>2, <1>6 DEF AbreastOf, Shape, Saving
  <2>4. /\ Marked(held'[p]) /\ held'[p].changes = held[p].changes
        /\ \A q \in Procs \ {p} : held'[q] = held[q] /\ pc'[q] = pc[q]
    BY <1>2, <2>1, <2>2, <2>3, ReturnMarks
  <2>5. AbreastOf(p)' /\ StillNew(p)'
    BY <1>1, <1>6, <2>1, <2>3, <2>4 DEF AbreastOf, StillNew
  <2> QED
    BY <1>1, <1>2, <2>1, <2>4, <2>5, OneKeeps
<1>7. CASE pc[p] = "overlay"
  <2>1. record' = held[p] /\ pc' = [pc EXCEPT ![p] = "result"] /\ held' = held
    BY <1>1, <1>7 DEF FileOf, Content, AfterWrite
  <2>2. AbreastOf(p)' /\ StillNew(p)'
    BY <1>1, <1>2, <1>7, <2>1 DEF AbreastOf, StillNew, Saving
  <2> QED
    BY <1>1, <1>2, <2>1, <2>2, OneKeeps
<1>8. CASE pc[p] = "result"
  <2>1. record' = record /\ pc' = [pc EXCEPT ![p] = "idle"] /\ held' = held
    BY <1>1, <1>8 DEF FileOf, AfterWrite
  <2>2. AbreastOf(p)' /\ StillNew(p)'
    BY <1>1, <2>1 DEF AbreastOf, StillNew, Saving
  <2> QED
    BY <1>1, <1>2, <2>1, <2>2, OneKeeps
<1> QED
  BY <1>1, <1>3, <1>4, <1>5, <1>6, <1>7, <1>8 DEF WriteStage

(* An operator's decision leaves the mission's fields alone. *)
LEMMA OperatorKept ==
  ASSUME Overlap = FALSE, IInv, KeptInv, NEW decision, OperatorDecides(decision)
  PROVE  KeptInv'
<1>1. /\ \A q \in Procs : pc[q] = "idle"
      /\ record \in RunRecord /\ record # NoRecord
      /\ record' = [record EXCEPT !.approval = decision]
      /\ UNCHANGED <<goal, pc, cmd, first, held, executions>>
  BY RecordIsNotNoRecord DEF OperatorDecides, Idle, IInv, Shape, procs
<1>2. /\ record'.changes = record.changes /\ record'.risk = record.risk
      /\ record'.restore = record.restore
  BY <1>1 DEF RunRecord
<1>3. AllMarked'
  BY <1>1, <1>2 DEF KeptInv, AllMarked, Marked
<1>4. \A q \in Procs : (AbreastOf(q) /\ StillNew(q))'
  BY <1>1 DEF AbreastOf, StillNew, Saving
<1> QED
  BY <1>3, <1>4 DEF KeptInv

LEMMA KeptStep ==
  ASSUME Overlap = FALSE, IInv, AloneInv, KeptInv, [Next]_vars
  PROVE  KeptInv'
<1>1. CASE UNCHANGED vars
  BY <1>1 DEF vars, files, procs, KeptInv, AllMarked, Marked, AbreastOf, StillNew
<1>2. CASE Next
  BY <1>2, StartKept, WorkKept, DumpKept, OperatorKept DEF Next, Work
<1> QED
  BY <1>1, <1>2

LEMMA KeptInvariance ==
  ASSUME Overlap = FALSE
  PROVE  Spec => [](IInv /\ AloneInv /\ KeptInv)
<1>1. Init => KeptInv
  BY InitKept
<1>2. IInv /\ AloneInv /\ KeptInv /\ [Next]_vars => KeptInv'
  BY KeptStep
<1> QED
  BY <1>1, <1>2, AloneInvariance, PTL DEF Spec

(* What is written over a record with change sets has them too. *)
LEMMA ChangesStay ==
  ASSUME IInv, AloneInv, KeptInv, Next, record # NoRecord, record.changes = TRUE
  PROVE  record' # NoRecord /\ record'.changes = TRUE /\ goal' = goal
<1>1. ASSUME NEW p \in Procs, Dump(p)
      PROVE  record' # NoRecord /\ record'.changes = TRUE /\ goal' = goal
  <2>1. /\ pc[p] \in WriteStage /\ goal' = goal
        /\ record' = IF FileOf[pc[p]] = "record" THEN Content(p) ELSE record
    BY <1>1, DumpWhole
  <2>2. CASE pc[p] = "approve"
    BY <2>1, <2>2, RecordIsNotNoRecord
       DEF FileOf, Content, KeptInv, AbreastOf, IInv, Shape
  <2>3. CASE pc[p] \in {"save", "overlay"}
    <3>1. held[p] # NoRecord /\ record' = held[p]
      BY <2>1, <2>3, RecordIsNotNoRecord DEF FileOf, Content, IInv, Shape, WriteStage
    <3>2. cmd[p] = "mission" => pc[p] = "overlay"
      BY <2>3 DEF AloneInv, Beginning
    <3> QED
      BY <2>1, <2>3, <3>1, <3>2 DEF KeptInv, AbreastOf, Saving
  <2>4. CASE pc[p] \in {"memory", "result"}
    BY <2>1, <2>4 DEF FileOf
  <2> QED
    BY <2>1, <2>2, <2>3, <2>4 DEF WriteStage
<1>2. ASSUME NEW decision, OperatorDecides(decision)
      PROVE  record' # NoRecord /\ record'.changes = TRUE /\ goal' = goal
  <2>1. record \in RunRecord /\ record' = [record EXCEPT !.approval = decision]
    BY <1>2 DEF OperatorDecides, IInv, Shape
  <2>2. [record EXCEPT !.approval = decision] # NoRecord
    BY <2>1 DEF RunRecord, NoRecord
  <2> QED
    BY <1>2, <2>1, <2>2 DEF OperatorDecides, RunRecord
<1>3. CASE \A p \in Procs : ~Dump(p)
  BY <1>2, <1>3, WhoElseDecides
<1> QED
  BY <1>1, <1>3

(* Nothing takes restore data or risk off the record once the mission laid them
   over it, whoever resumes or is killed: what is written back was loaded with
   them.  Unless a process was killed they are there after every command, and
   before a gated goal is carried out. *)
THEOREM RestoreStands ==
  ASSUME Overlap = FALSE
  PROVE  Spec => RestoreKept
<1> DEFINE Stays == RestoreReady => RestoreReady'
           Uncrashed == crashes = 0 =>
                          /\ created /\ Idle => RestoreReady
                          /\ goal.gated => RestoreFirst
<1>1. IInv /\ AloneInv /\ KeptInv /\ [Next]_vars => [Stays]_vars
  <2> SUFFICES ASSUME IInv, AloneInv, KeptInv, Next, RestoreReady
               PROVE  RestoreReady'
    OBVIOUS
  <2>1. record # NoRecord /\ record.changes = TRUE
    BY DEF RestoreReady, IInv, TypeOK, RunRecord
  <2>2. record' # NoRecord /\ record'.changes = TRUE
    BY <2>1, ChangesStay
  <2>3. Marked(record)'
    BY KeptStep DEF KeptInv, AllMarked
  <2> QED
    BY <2>2, <2>3 DEF Marked, RestoreReady
<1>2. IInv /\ AloneInv /\ KeptInv => Uncrashed
  <2> SUFFICES ASSUME IInv, AloneInv, KeptInv, crashes = 0
               PROVE  /\ created /\ Idle => RestoreReady
                      /\ goal.gated => RestoreFirst
    OBVIOUS
  <2>1. created \in BOOLEAN /\ goal.gated \in BOOLEAN /\ goal \in Goals
    BY GoalFields DEF IInv, TypeOK
  <2>2. Full(record) => RestoreReady
    BY DEF Full, RestoreReady
  <2>3. created /\ Idle => RestoreReady
    BY <2>1, <2>2 DEF AloneInv, FullSince
  <2>4. ASSUME goal.gated, goal.risk = "dangerous", executions > 0
        PROVE  record # NoRecord /\ record.restore
    <3>1. goal.checkpoint = TRUE
      BY <2>1, <2>4, MissionAssumption, GoalFields
    <3>2. created = TRUE
      BY <2>1, <2>4 DEF AloneInv, Beginning
    <3>3. Full(record)
      <4>1. CASE Idle
        BY <3>2, <4>1 DEF AloneInv, FullSince
      <4>2. ASSUME NEW p \in Procs, pc[p] # "idle" PROVE Full(record)
        <5>1. cmd[p] # "mission"
          BY <2>1, <2>4, <4>2 DEF KeptInv, StillNew
        <5> QED
          BY <4>2, <5>1 DEF AloneInv, FullSince
      <4> QED
        BY <4>1, <4>2 DEF Idle
    <3> QED
      BY <3>1, <3>3 DEF Full
  <2> QED
    BY <2>3, <2>4 DEF RestoreFirst
<1>3. RestoreKept <=> [][Stays]_vars /\ []Uncrashed
  BY DEF RestoreKept
<1> QED
  BY <1>1, <1>2, <1>3, KeptInvariance, PTL DEF Spec

=============================================================================
