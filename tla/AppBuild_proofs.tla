--------------------------- MODULE AppBuild_proofs ---------------------------
(***************************************************************************)
(* The safety properties of AppBuild for any plan of files, any rules of   *)
(* a lane, any specifications and any number of commands, edits and kills. *)
(***************************************************************************)
EXTENDS AppBuild, TLAPS

(* Past the reports, a build has stubbed the proof report. *)
Stubbed == (pc = "apply" /\ next > 4) => meta.proof = "pending"

(* The signature, and what a command holds of it, say no more than the last
   build earned; there is none only where no build began. *)
SignatureEarned ==
  /\ meta.determinism = "absent" => signed = "never"
  /\ (pc \in {"proof", "signature"} /\ verified) => signed # "no"

(* A build that has come to an operation has generated the files before it. *)
Built ==
  /\ pc = "apply" => \A n \in 5 .. Operations :
                       n < next => disk[FileAt(n)] = Generated(FileAt(n), spec)
  /\ outcome = "diverged" => pc = "idle"

(* Repairs are due only where there is no file, and a verdict holds once they
   are done. *)
VerdictHolds ==
  /\ pc = "repair" => \A f \in missing : disk[f] = "absent"
  /\ (pc \in {"repair", "proof"} /\ verdict \in Certified)
       => /\ \A f \in Vouched(verdict) :
               disk[f] = "absent" => (pc = "repair" /\ f \in missing)
          /\ (lane /\ meta.ir = "whole") => LanePasses(disk)

(* A package report follows the proof report it was written after. *)
VerdictReported ==
  /\ pc \in {"signature", "package"} => meta.proof = verdict
  /\ pc = "ship" => meta.proof \in Certified
  /\ (pc \in {"proof", "signature", "package"} /\ command = "ship")
       => verdict \in Certified

Inv == /\ Stubbed /\ SignatureEarned /\ VerifiedByBuild /\ Built /\ DivergedIsBuilt
       /\ VerdictHolds /\ CertificateHonest /\ VerdictReported

IInv == TypeOK /\ Inv

-----------------------------------------------------------------------------
(* Lemmas about the plan and what is generated.                            *)

(* The four reports come first. *)
LEMMA Reports ==
  /\ Len(MetaPlan) = 4 /\ DOMAIN MetaPlan = 1 .. 4
  /\ MetaPlan[1] = "determinism" /\ MetaPlan[2] = "ir"
  /\ MetaPlan[3] = "package" /\ MetaPlan[4] = "proof"
BY DEF MetaPlan

(* After them come the files, each at one of the positions that follow. *)
LEMMA Positions ==
  /\ Operations \in Nat /\ Operations >= 4
  /\ \A n \in 5 .. Operations : FileAt(n) \in Files
  /\ \A f \in Files : \E n \in 5 .. Operations : f = FileAt(n)
<1>1. Len(Plan) \in Nat /\ DOMAIN Plan = 1 .. Len(Plan)
  BY AppBuildAssumption
<1>2. Operations = 4 + Len(Plan) /\ \A n : FileAt(n) = Plan[n - 4]
  BY Reports DEF Operations, FileAt
<1>3. \A n \in 5 .. Operations : n - 4 \in DOMAIN Plan
  BY <1>1, <1>2
<1>4. ASSUME NEW f \in Files PROVE \E n \in 5 .. Operations : f = FileAt(n)
  <2>1. PICK i \in DOMAIN Plan : f = Plan[i]
    BY DEF Files
  <2>2. i + 4 \in 5 .. Operations /\ (i + 4) - 4 = i
    BY <1>1, <1>2, <2>1
  <2>3. QED
    BY <1>2, <2>1, <2>2
<1>5. ASSUME NEW n \in 5 .. Operations PROVE FileAt(n) \in Files
  <2>1. FileAt(n) = Plan[n - 4] /\ n - 4 \in DOMAIN Plan
    BY <1>2, <1>3
  <2>2. QED
    BY <2>1 DEF Files
<1>6. Operations \in Nat /\ Operations >= 4
  BY <1>1, <1>2
<1>7. QED
  BY <1>4, <1>5, <1>6

(* What is generated is content that is there and passes the lane's rules. *)
LEMMA GeneratedContent ==
  ASSUME NEW f, NEW s \in Specs
  PROVE  /\ Generated(f, s) \in Content
         /\ Generated(f, s) \notin {"absent", "stub", "broken"}
BY AppBuildAssumption DEF Generated, Content

(* Writing a field of the reports. *)
LEMMA MetaFields ==
  ASSUME NEW r \in Meta
  PROVE  /\ \A v \in {"absent", "torn", "unverified", "verified"} :
              [r EXCEPT !.determinism = v] \in Meta
         /\ \A v \in {"absent", "torn", "whole"} : [r EXCEPT !.ir = v] \in Meta
         /\ \A v \in {"absent", "torn", "pending", "ready", "blocked"} :
              [r EXCEPT !.package = v] \in Meta
         /\ \A v \in {"absent", "torn", "pending"} \cup Verdict :
              [r EXCEPT !.proof = v] \in Meta
BY DEF Meta

(* What the plan writes of them, one by one. *)
LEMMA StubFields ==
  ASSUME NEW r \in Meta, NEW n \in DOMAIN MetaPlan
  PROVE  LET w == [r EXCEPT ![MetaPlan[n]] = Stub[MetaPlan[n]]] IN
         /\ w \in Meta
         /\ w.determinism = IF n = 1 THEN "unverified" ELSE r.determinism
         /\ MetaPlan[n] = "determinism" <=> n = 1
         /\ w.ir = IF n = 2 THEN "whole" ELSE r.ir
         /\ w.proof = IF n = 4 THEN "pending" ELSE r.proof
<1>1. n \in 1 .. 4
  BY Reports
<1>2. CASE n = 1
  <2>1. MetaPlan[n] = "determinism" /\ Stub["determinism"] = "unverified"
    BY <1>2, Reports DEF Stub
  <2> DEFINE w == [r EXCEPT !.determinism = "unverified"]
  <2>2. [r EXCEPT ![MetaPlan[n]] = Stub[MetaPlan[n]]] = w
    BY <2>1
  <2>3. w \in Meta
    BY MetaFields
  <2>4. w.determinism = "unverified" /\ w.ir = r.ir /\ w.proof = r.proof
    BY DEF Meta
  <2> HIDE DEF w
  <2>5. MetaPlan[n] = "determinism" <=> n = 1
    BY <1>2, <2>1
  <2>6. w.determinism = IF n = 1 THEN "unverified" ELSE r.determinism
    BY <1>2, <2>4
  <2>7. w.ir = IF n = 2 THEN "whole" ELSE r.ir
    BY <1>2, <2>4
  <2>8. w.proof = IF n = 4 THEN "pending" ELSE r.proof
    BY <1>2, <2>4
  <2>9. QED
    BY <2>2, <2>3, <2>5, <2>6, <2>7, <2>8
<1>3. CASE n = 2
  BY <1>3, Reports, MetaFields DEF Stub, Meta
<1>4. CASE n = 3
  BY <1>4, Reports, MetaFields DEF Stub, Meta
<1>5. CASE n = 4
  BY <1>5, Reports, MetaFields DEF Stub, Meta
<1>6. n = 1 \/ n = 2 \/ n = 3 \/ n = 4
  BY <1>1
<1>7. QED
  BY <1>2, <1>3, <1>4, <1>5, <1>6, Zenon

(* A report cut short is still a report file. *)
LEMMA TornFields ==
  ASSUME NEW r \in Meta, NEW k \in TornMeta
  PROVE  LET w == [r EXCEPT ![k] = "torn"] IN
         /\ w \in Meta
         /\ k \in {"determinism", "ir", "package", "proof"}
         /\ w.determinism = IF k = "determinism" THEN "torn" ELSE r.determinism
         /\ w.ir = IF k = "ir" THEN "torn" ELSE r.ir
         /\ w.proof = IF k = "proof" THEN "torn" ELSE r.proof
<1>1. k \in {"determinism", "ir", "package", "proof"}
  <2>1. \A n \in DOMAIN MetaPlan : MetaPlan[n] \in {"determinism", "ir", "package", "proof"}
    BY Reports, SMT
  <2>2. QED
    BY <2>1 DEF TornMeta
<1>2. CASE k = "determinism"
  BY <1>2, MetaFields DEF Meta
<1>3. CASE k = "ir"
  BY <1>3, MetaFields DEF Meta
<1>4. CASE k = "package"
  BY <1>4, MetaFields DEF Meta
<1>5. CASE k = "proof"
  BY <1>5, MetaFields DEF Meta
<1>6. QED
  BY <1>1, <1>2, <1>3, <1>4, <1>5

(* A file put where there was none takes nothing from the lane's rules. *)
LEMMA RepairPasses ==
  ASSUME NEW d \in [Paths -> Content], NEW f \in Paths, NEW c,
         d[f] = "absent", LanePasses(d)
  PROVE  LanePasses([d EXCEPT ![f] = c])
<1>1. f \notin LaneExists /\ f \notin LaneMarked
  BY DEF LanePasses
<1>2. LaneExists \subseteq Paths /\ LaneMarked \subseteq Paths
  BY AppBuildAssumption DEF Paths
<1>3. QED
  BY <1>1, <1>2 DEF LanePasses

(* What is vouched for is among the required files. *)
LEMMA VouchedRequired == \A v : Vouched(v) \subseteq Required
BY DEF Vouched

-----------------------------------------------------------------------------
(* Type correctness.                                                       *)

LEMMA InitTyped == Init => TypeOK
<1>1. Init => meta \in Meta
  BY DEF Init, Meta
<1>2. Init => disk \in [Paths -> Content]
  BY DEF Init, Content
<1>3. Init => next \in 1 .. Operations + 1
  BY Positions DEF Init
<1>4. lane \in LaneKinds => lane \in BOOLEAN
  BY AppBuildAssumption
<1>5. Init => commands \in 0 .. MaxCommands /\ edits \in 0 .. MaxEdits
               /\ crashes \in 0 .. MaxCrashes
  BY AppBuildAssumption DEF Init
<1>6. Init => verdict \in Verdict /\ command \in Command /\ missing \subseteq Required
  BY DEF Init, Verdict, Command
<1>7. QED
  BY <1>1, <1>2, <1>3, <1>4, <1>5, <1>6 DEF Init, TypeOK

LEMMA NextTyped == TypeOK /\ [Next]_vars => TypeOK'
<1> SUFFICES ASSUME TypeOK, [Next]_vars PROVE TypeOK'
  OBVIOUS
<1> USE DEF TypeOK
<1>1. CASE StartBuild
  <2>1. commands' \in 0 .. MaxCommands
    BY <1>1, AppBuildAssumption DEF StartBuild
  <2>2. next' \in 1 .. Operations + 1 /\ command' \in Command
    BY <1>1, Positions DEF StartBuild, Command
  <2>3. QED
    BY <1>1, <2>1, <2>2 DEF StartBuild, target, history
<1>2. CASE WriteMeta
  <2>1. next \in 1 .. 4 /\ next + 1 \in 1 .. Operations + 1
    BY <1>2, Reports, Positions DEF WriteMeta
  <2>2. meta' \in Meta
    BY <1>2, StubFields DEF WriteMeta
  <2>3. QED
    BY <1>2, <2>1, <2>2 DEF WriteMeta, counts
<1>3. CASE WriteFile
  <2>1. FileAt(next) \in Files /\ next + 1 \in 1 .. Operations + 1
    BY <1>3, Reports, Positions DEF WriteFile, AtFile
  <2>2. disk' \in [Paths -> Content]
    BY <1>3, <2>1, GeneratedContent DEF WriteFile, Paths
  <2>3. merged' \in BOOLEAN
    BY <1>3 DEF WriteFile, Modified
  <2>4. QED
    BY <1>3, <2>1, <2>2, <2>3 DEF WriteFile, counts, history
<1>4. CASE BlockFile
  BY <1>4 DEF BlockFile, Ends, target, counts, history
<1>5. CASE RepeatMatches
  BY <1>5, MetaFields DEF RepeatMatches, counts, Verdict, Certified
<1>6. CASE RepeatDiverges
  BY <1>6 DEF RepeatDiverges, Ends, target, counts, history
<1>7. CASE StartValidate
  <2>1. missing' \subseteq Required
    BY <1>7 DEF StartValidate, Missing
  <2>2. verdict' \in Verdict
    BY <1>7 DEF StartValidate, Verdict, Certified
  <2>3. commands' \in 0 .. MaxCommands
    BY <1>7, AppBuildAssumption DEF StartValidate
  <2>4. QED
    BY <1>7, <2>1, <2>2, <2>3 DEF StartValidate, target, history, Command
<1>8. CASE RepairFile
  <2>1. PICK f \in missing, writable \in BOOLEAN :
          /\ missing' = missing \ {f}
          /\ disk' = IF writable THEN [disk EXCEPT ![f] = "stub"] ELSE disk
          /\ verdict' = IF writable THEN verdict ELSE "not_certified"
    BY <1>8 DEF RepairFile
  <2>2. disk' \in [Paths -> Content]
    BY <2>1 DEF Content, Paths
  <2>3. missing' \subseteq Required /\ verdict' \in Verdict
    BY <2>1 DEF Verdict
  <2>4. QED
    BY <1>8, <2>2, <2>3 DEF RepairFile, counts, history
<1>9. CASE EndValidate
  BY <1>9 DEF EndValidate, Ends, target, counts, history
<1>10. CASE ReadSignature
  <2>1. verified' \in BOOLEAN
    <3>1. \/ verified' = verified
          \/ verified' = (meta.determinism \in {"absent", "verified"})
      BY <1>10, Zenon DEF ReadSignature
    <3>2. (meta.determinism \in {"absent", "verified"}) \in BOOLEAN
      OBVIOUS
    <3>3. QED
      BY <3>1, <3>2, Zenon
  <2>2. pc' \in {"idle", "proof"}
    BY <1>10 DEF ReadSignature, Ends
  <2>3. QED
    BY <1>10, <2>1, <2>2 DEF ReadSignature, target, counts, history
<1>11. CASE EmitProof
  BY <1>11, MetaFields DEF EmitProof, counts
<1>12. CASE EmitSignature
  BY <1>12, MetaFields DEF EmitSignature, counts, history
<1>13. CASE EmitPackage
  BY <1>13, MetaFields DEF EmitPackage, counts, history
<1>14. CASE ShipPackage
  BY <1>14, MetaFields DEF ShipPackage, Ends, counts, history
<1>15. CASE Crash
  <2>1. meta' \in Meta
    BY <1>15, TornFields DEF Crash, target
  <2>2. disk' \in [Paths -> Content]
    BY <1>15 DEF Crash, target, Content
  <2>3. crashes' \in 0 .. MaxCrashes
    BY <1>15, AppBuildAssumption DEF Crash
  <2>4. QED
    BY <1>15, <2>1, <2>2, <2>3 DEF Crash, Ends, history
<1>16. CASE OperatorEdits
  <2>1. disk' \in [Paths -> Content]
    BY <1>16 DEF OperatorEdits, Content
  <2>2. edits' \in 0 .. MaxEdits
    BY <1>16, AppBuildAssumption DEF OperatorEdits
  <2>3. QED
    BY <1>16, <2>1, <2>2 DEF OperatorEdits, locals
<1>17. CASE OperatorChangesSpec
  <2>1. edits' \in 0 .. MaxEdits
    BY <1>17, AppBuildAssumption DEF OperatorChangesSpec
  <2>2. QED
    BY <1>17, <2>1 DEF OperatorChangesSpec, target, locals, history
<1>18. CASE UNCHANGED vars
  BY <1>18 DEF vars, target, locals, counts, history
<1>19. QED
  BY <1>1, <1>2, <1>3, <1>4, <1>5, <1>6, <1>7, <1>8, <1>9, <1>10, <1>11, <1>12,
     <1>13, <1>14, <1>15, <1>16, <1>17, <1>18 DEF Next, Build, Prove, Emit

-----------------------------------------------------------------------------
(* The inductive invariant.                                                *)

LEMMA InitInv == Init => Inv
BY DEF Init, Inv, Stubbed, SignatureEarned, VerifiedByBuild, Built, DivergedIsBuilt,
       VerdictHolds, CertificateHonest, VerdictReported, Certified

(* Every step preserves it: one case for each action. *)
LEMMA NextInv == TypeOK /\ Inv /\ [Next]_vars => Inv'
<1> SUFFICES ASSUME TypeOK, Inv, [Next]_vars PROVE Inv'
  OBVIOUS
<1> USE DEF TypeOK, Inv, Stubbed, SignatureEarned, VerifiedByBuild, Built,
            DivergedIsBuilt, VerdictHolds, CertificateHonest, VerdictReported
<1>1. CASE StartBuild
  BY <1>1 DEF StartBuild, target, history
<1>2. CASE WriteMeta
  <2>1. /\ next \in 1 .. 4 /\ pc' = "apply" /\ next' = next + 1
        /\ meta'.determinism = IF next = 1 THEN "unverified" ELSE meta.determinism
        /\ meta'.proof = IF next = 4 THEN "pending" ELSE meta.proof
        /\ signed' = IF next = 1 THEN "no" ELSE signed
    <3>1. /\ next \in DOMAIN MetaPlan /\ meta \in Meta
          /\ meta' = [meta EXCEPT ![MetaPlan[next]] = Stub[MetaPlan[next]]]
          /\ signed' = IF MetaPlan[next] = "determinism" THEN "no" ELSE signed
          /\ pc' = "apply" /\ next' = next + 1
      BY <1>2 DEF WriteMeta
    <3>2. /\ meta'.determinism = IF next = 1 THEN "unverified" ELSE meta.determinism
          /\ meta'.proof = IF next = 4 THEN "pending" ELSE meta.proof
          /\ MetaPlan[next] = "determinism" <=> next = 1
      BY <3>1, StubFields
    <3>3. QED
      BY <3>1, <3>2, Reports
  <2>2. Stubbed' /\ SignatureEarned' /\ VerifiedByBuild'
    BY <1>2, <2>1 DEF WriteMeta
  <2>3. Built' /\ DivergedIsBuilt' /\ VerdictHolds' /\ VerdictReported'
    BY <1>2, <2>1 DEF WriteMeta
  <2>4. CertificateHonest'
    BY <1>2, <2>1 DEF WriteMeta, LanePasses, Certified
  <2>5. QED
    BY <2>2, <2>3, <2>4
<1>3. CASE WriteFile
  <2>1. /\ next \in 5 .. Operations /\ pc' = "apply" /\ next' = next + 1
        /\ meta' = meta /\ meta.proof = "pending"
    BY <1>3, Reports DEF WriteFile, AtFile
  <2>2. ASSUME NEW n \in 5 .. Operations, n < next'
        PROVE  disk'[FileAt(n)] = Generated(FileAt(n), spec)
    <3>1. n < next \/ n = next
      BY <2>1, <2>2
    <3>2. FileAt(n) \in Paths
      BY Positions DEF Paths
    <3>3. QED
      BY <1>3, <2>1, <3>1, <3>2 DEF WriteFile, AtFile
  <2>3. Built' /\ DivergedIsBuilt'
    BY <1>3, <2>1, <2>2 DEF WriteFile, AtFile
  <2>4. CertificateHonest'
    BY <2>1 DEF Certified
  <2>5. Stubbed' /\ SignatureEarned' /\ VerifiedByBuild' /\ VerdictHolds'
          /\ VerdictReported'
    BY <1>3, <2>1 DEF WriteFile, history
  <2>6. QED
    BY <2>3, <2>4, <2>5
<1>4. CASE BlockFile
  BY <1>4 DEF BlockFile, Ends, target, counts, history
<1>5. CASE RepeatMatches
  <2>1. \A f \in Files : disk[f] = Generated(f, spec)
    BY <1>5, Positions DEF RepeatMatches
  <2>2. \A f \in Files : disk[f] \notin {"absent", "stub", "broken"}
    BY <2>1, GeneratedContent
  <2>3. LanePasses(disk) /\ \A f \in Vouched("certified") : disk[f] # "absent"
    BY <2>2, AppBuildAssumption DEF LanePasses, Vouched
  <2>4. /\ verdict' = "certified" /\ pc' = "proof" /\ disk' = disk /\ lane' = lane
        /\ meta'.determinism = "verified" /\ signed' = "yes"
        /\ meta'.proof = "pending" /\ outcome' = outcome
    BY <1>5, <2>3, Positions DEF RepeatMatches, Meta
  <2>5. LanePasses(disk') /\ \A f \in Vouched("certified") : disk'[f] # "absent"
    BY <2>3, <2>4
  <2>6. Stubbed' /\ SignatureEarned' /\ VerifiedByBuild' /\ Built' /\ VerdictReported'
    BY <1>5, <2>4 DEF RepeatMatches, Certified
  <2>7. VerdictHolds' /\ CertificateHonest' /\ DivergedIsBuilt'
    BY <1>5, <2>4, <2>5 DEF RepeatMatches, Certified
  <2>8. QED
    BY <2>6, <2>7
<1>6. CASE RepeatDiverges
  BY <1>6, Positions DEF RepeatDiverges, Ends, target, counts, history
<1>7. CASE StartValidate
  <2>1. /\ pc' = "repair" /\ missing' \subseteq Missing
        /\ verdict' \in Certified => LaneVerdict /\ (Missing = {} \/ missing' = Missing)
    BY <1>7 DEF StartValidate, Certified
  <2>2. VerdictHolds'
    BY <1>7, <2>1, VouchedRequired DEF StartValidate, target, Missing, LaneVerdict
  <2>3. Stubbed' /\ SignatureEarned' /\ VerifiedByBuild' /\ Built' /\ DivergedIsBuilt'
          /\ VerdictReported' /\ CertificateHonest'
    BY <1>7, <2>1 DEF StartValidate, target, history, LanePasses
  <2>4. QED
    BY <2>2, <2>3
<1>8. CASE RepairFile
  <2>1. PICK f \in missing, writable \in BOOLEAN :
          /\ missing' = missing \ {f}
          /\ disk' = IF writable THEN [disk EXCEPT ![f] = "stub"] ELSE disk
          /\ verdict' = IF writable THEN verdict ELSE "not_certified"
    BY <1>8 DEF RepairFile
  <2>2. /\ f \in Required /\ f \in Paths /\ disk[f] = "absent"
        /\ pc = "repair" /\ pc' = "repair" /\ meta' = meta /\ lane' = lane
        /\ touched' = touched /\ ruled' = ruled
    BY <1>8, <2>1 DEF RepairFile, Paths, history
  <2>3. \A g \in Required : disk'[g] = "absent" => disk[g] = "absent"
    BY <2>1, <2>2 DEF Paths
  <2>10. LanePasses(disk) => LanePasses(disk')
    BY <2>1, <2>2, RepairPasses
  <2>4. CertificateHonest'
    BY <2>2, <2>3, <2>10, VouchedRequired
  <2>5. ASSUME verdict' \in Certified
        PROVE  /\ \A g \in Vouched(verdict') : disk'[g] = "absent" => g \in missing'
               /\ (lane /\ meta.ir = "whole") => LanePasses(disk')
    <3>1. writable /\ verdict \in Certified
      BY <2>1, <2>5 DEF Certified
    <3>2. disk' = [disk EXCEPT ![f] = "stub"]
      BY <2>1, <3>1
    <3>3. (lane /\ meta.ir = "whole") => LanePasses(disk)
      BY <2>2, <3>1
    <3>4. (lane /\ meta.ir = "whole") => LanePasses(disk')
      BY <3>3, <2>10
    <3>5. verdict' = verdict /\ \A g \in Vouched(verdict) : disk[g] = "absent" => g \in missing
      BY <2>1, <2>2, <3>1
    <3>6. \A g \in Required : disk'[g] = "absent" => g # f /\ disk[g] = "absent"
      BY <2>2, <3>2 DEF Paths
    <3>7. QED
      BY <2>1, <3>4, <3>5, <3>6, VouchedRequired
  <2>6. \A g \in missing' : disk'[g] = "absent"
    BY <2>1, <2>2 DEF Paths
  <2>7. VerdictHolds'
    BY <2>2, <2>5, <2>6
  <2>8. Stubbed' /\ SignatureEarned' /\ VerifiedByBuild' /\ Built' /\ DivergedIsBuilt'
          /\ VerdictReported'
    BY <1>8, <2>2 DEF RepairFile, history
  <2>9. QED
    BY <2>4, <2>7, <2>8
<1>9. CASE EndValidate
  BY <1>9 DEF EndValidate, Ends, target, counts, history
<1>10. CASE ReadSignature
  BY <1>10 DEF ReadSignature, Ends, target, counts, history
<1>11. CASE EmitProof
  BY <1>11 DEF EmitProof, counts, Meta
<1>12. CASE EmitSignature
  BY <1>12 DEF EmitSignature, counts, history, Meta
<1>13. CASE EmitPackage
  BY <1>13 DEF EmitPackage, counts, history, Meta
<1>14. CASE ShipPackage
  BY <1>14 DEF ShipPackage, Ends, counts, history, Meta
<1>15. CASE Crash
  <2>1. /\ pc' = "idle" /\ pc # "idle" /\ outcome' = outcome /\ history' = history
        /\ lane' = lane /\ spec' = spec
    BY <1>15 DEF Crash, Ends
  <2>2. Stubbed' /\ VerdictHolds' /\ VerdictReported' /\ Built' /\ DivergedIsBuilt'
    BY <2>1
  <2>3. /\ meta'.determinism \in {meta.determinism, "torn"}
        /\ meta'.proof \in {meta.proof, "torn"}
    <3>1. meta' = meta \/ \E k \in TornMeta : meta' = [meta EXCEPT ![k] = "torn"]
      BY <1>15 DEF Crash, target
    <3>2. ASSUME NEW k \in TornMeta, meta' = [meta EXCEPT ![k] = "torn"]
          PROVE  /\ meta'.determinism \in {meta.determinism, "torn"}
                 /\ meta'.proof \in {meta.proof, "torn"}
      BY <3>2, TornFields
    <3>3. QED
      BY <3>1, <3>2
  <2>4. SignatureEarned' /\ VerifiedByBuild'
    BY <2>1, <2>3 DEF history
  <2>5. CertificateHonest'
    <3> SUFFICES ASSUME meta.proof \in Certified, ~touched, meta'.proof = meta.proof
                 PROVE  /\ \A g \in Required : disk'[g] = "absent" => disk[g] = "absent"
                        /\ LanePasses(disk) => LanePasses(disk')
      BY <2>1, <2>3, VouchedRequired DEF history, Certified
    <3>1. ~(pc = "apply" /\ next > 4)
      BY DEF Certified
    <3>2. \A f \in TornFiles : f \in Paths /\ disk[f] = "absent"
      BY <3>1, Reports DEF TornFiles, AtFile, Paths
    <3>3. disk' = disk \/ \E f \in TornFiles : disk' = [disk EXCEPT ![f] = "broken"]
      BY <1>15 DEF Crash, target
    <3>4. CASE disk' = disk
      BY <3>4
    <3>5. ASSUME NEW f \in TornFiles, disk' = [disk EXCEPT ![f] = "broken"]
          PROVE  /\ \A g \in Required : disk'[g] = "absent" => disk[g] = "absent"
                 /\ LanePasses(disk) => LanePasses(disk')
      <4>1. LanePasses(disk) => LanePasses(disk')
        BY <3>2, <3>5, RepairPasses
      <4>2. QED
        BY <3>2, <3>5, <4>1 DEF Paths
    <3>6. QED
      BY <3>3, <3>4, <3>5
  <2>6. QED
    BY <2>2, <2>4, <2>5
<1>16. CASE OperatorEdits
  BY <1>16 DEF OperatorEdits, locals
<1>17. CASE OperatorChangesSpec
  BY <1>17 DEF OperatorChangesSpec, target, locals, history
<1>18. CASE UNCHANGED vars
  BY <1>18 DEF vars, target, locals, counts, history
<1>19. QED
  BY <1>1, <1>2, <1>3, <1>4, <1>5, <1>6, <1>7, <1>8, <1>9, <1>10, <1>11, <1>12,
     <1>13, <1>14, <1>15, <1>16, <1>17, <1>18 DEF Next, Build, Prove, Emit

LEMMA Invariance == Spec => []IInv
<1>1. Init => IInv
  BY InitTyped, InitInv DEF IInv
<1>2. IInv /\ [Next]_vars => IInv'
  BY NextTyped, NextInv DEF IInv
<1>3. QED
  BY <1>1, <1>2, PTL DEF Spec

-----------------------------------------------------------------------------
(* What the commands promise.                                              *)

(* Every variable keeps its type, whatever is built, edited or killed. *)
THEOREM TypeCorrect == Spec => []TypeOK
<1>1. IInv => TypeOK
  BY DEF IInv
<1>2. QED
  BY <1>1, Invariance, PTL

(* A certificate on a directory nobody touched since tells the truth about
   its required files and its lane, for any plan and any rules. *)
THEOREM CertificatesHonest == Spec => []CertificateHonest
<1>1. IInv => CertificateHonest
  BY DEF IInv, Inv
<1>2. QED
  BY <1>1, Invariance, PTL

(* No sequence of commands turns the stub of a build that did not match its
   repeat into a verified signature. *)
THEOREM SignaturesEarned == Spec => []VerifiedByBuild
<1>1. IInv => VerifiedByBuild
  BY DEF IInv, Inv
<1>2. QED
  BY <1>1, Invariance, PTL

(* A build refused for diverging has generated every file of the plan. *)
THEOREM RetriesGoThrough == Spec => []DivergedIsBuilt
<1>1. IInv => DivergedIsBuilt
  BY DEF IInv, Inv
<1>2. QED
  BY <1>1, Invariance, PTL

(* No command changes a production-critical file that an operator changed or
   a kill cut short. *)
THEOREM CriticalStands == Spec => CriticalKept
<1> DEFINE Keeps == \A f \in Critical :
                      (pc # "idle" /\ disk[f] \notin {"absent", Generated(f, spec)})
                        => disk'[f] = disk[f]
<1>1. IInv /\ [Next]_vars => Keeps
  <2> SUFFICES ASSUME IInv, [Next]_vars, NEW f \in Critical, pc # "idle",
                      disk[f] \notin {"absent", Generated(f, spec)}
               PROVE  disk'[f] = disk[f]
    OBVIOUS
  <2> USE DEF IInv, Inv, TypeOK
  <2>1. f \in Paths /\ Modified(f)
    BY AppBuildAssumption DEF Modified, Paths
  <2>2. CASE WriteFile
    <3>1. f # FileAt(next)
      BY <2>1, <2>2 DEF WriteFile
    <3>2. QED
      BY <2>1, <2>2, <3>1 DEF WriteFile
  <2>3. CASE RepairFile
    <3>1. f \notin missing
      BY <2>3 DEF VerdictHolds, RepairFile
    <3>2. QED
      BY <2>1, <2>3, <3>1 DEF RepairFile
  <2>4. CASE Crash
    <3>1. f \notin TornFiles
      BY <2>1 DEF TornFiles, VerdictHolds, AtFile
    <3>2. QED
      BY <2>1, <2>4, <3>1 DEF Crash, target
  <2>5. CASE ~(WriteFile \/ RepairFile \/ Crash)
    BY <2>5 DEF Next, Build, Prove, Emit, StartBuild, WriteMeta, BlockFile, RepeatMatches,
       RepeatDiverges, StartValidate, EndValidate, ReadSignature, EmitProof,
       EmitSignature, EmitPackage, ShipPackage, OperatorEdits, OperatorChangesSpec,
       vars, target
  <2>6. QED
    BY <2>2, <2>3, <2>4, <2>5
<1>2. [][Keeps]_vars <=> CriticalKept
  BY DEF CriticalKept
<1>3. QED
  BY <1>1, <1>2, Invariance, PTL DEF Spec

(* The last report of a command says ready exactly if its proof is certified,
   and so does a shipped package. *)
THEOREM ReportsAgree == Spec => ReadyIsCertified
<1> DEFINE Agrees == (pc \in {"package", "ship"} /\ crashes' = crashes)
                       => (meta'.package = "ready" <=> meta'.proof \in Certified)
<1>1. IInv /\ Next => Agrees
  <2> SUFFICES ASSUME IInv, Next, pc \in {"package", "ship"}, crashes' = crashes
               PROVE  meta'.package = "ready" <=> meta'.proof \in Certified
    OBVIOUS
  <2> USE DEF IInv, Inv, TypeOK, VerdictReported
  <2>1. ~Crash
    BY DEF Crash
  <2>2. EmitPackage \/ ShipPackage
    BY <2>1 DEF Next, Build, Prove, Emit, StartBuild, WriteMeta, WriteFile, BlockFile,
       AtFile, RepeatMatches, RepeatDiverges, StartValidate, RepairFile, EndValidate,
       ReadSignature, EmitProof, EmitSignature, OperatorEdits, OperatorChangesSpec
  <2>3. CASE EmitPackage
    <3>1. meta'.proof = verdict
      BY <2>3 DEF EmitPackage, Meta
    <3>2. meta'.package = IF verdict \in Certified THEN "ready" ELSE "blocked"
      BY <2>3 DEF EmitPackage, Meta
    <3>3. QED
      BY <3>1, <3>2
  <2>4. CASE ShipPackage
    BY <2>4 DEF ShipPackage, Meta
  <2>5. QED
    BY <2>2, <2>3, <2>4
<1>2. IInv /\ [Next]_vars => [Agrees]_vars
  BY <1>1
<1>3. [][Agrees]_vars <=> ReadyIsCertified
  BY DEF ReadyIsCertified
<1>4. QED
  BY <1>2, <1>3, Invariance, PTL DEF Spec

(* No build changes a file of the application under a certificate. *)
THEOREM CertificatesGoFirst == Spec => CertificateNotOutlived
<1> DEFINE Gone == (pc = "apply" /\ disk' # disk) => meta.proof \notin Certified
<1>1. IInv /\ [Next]_vars => Gone
  <2> SUFFICES ASSUME IInv, [Next]_vars, pc = "apply", disk' # disk
               PROVE  meta.proof = "pending"
    BY DEF Certified
  <2> USE DEF IInv, Inv, TypeOK, Stubbed
  <2>1. CASE WriteFile
    BY <2>1, Reports DEF WriteFile, AtFile
  <2>2. CASE Crash
    <3>1. AtFile
      BY <2>2 DEF Crash, TornFiles, target
    <3>2. QED
      BY <3>1, Reports DEF AtFile
  <2>3. CASE ~(WriteFile \/ Crash)
    BY <2>3 DEF Next, Build, Prove, Emit, StartBuild, WriteMeta, BlockFile, RepeatMatches,
       RepeatDiverges, StartValidate, RepairFile, EndValidate, ReadSignature, EmitProof,
       EmitSignature, EmitPackage, ShipPackage, OperatorEdits, OperatorChangesSpec,
       vars, target
  <2>4. QED
    BY <2>1, <2>2, <2>3
<1>2. [][Gone]_vars <=> CertificateNotOutlived
  BY DEF CertificateNotOutlived
<1>3. QED
  BY <1>1, <1>2, Invariance, PTL DEF Spec
=============================================================================
