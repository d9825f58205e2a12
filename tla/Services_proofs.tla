--------------------------- MODULE Services_proofs ---------------------------
(***************************************************************************)
(* Proofs about the parts that Services puts side by side - approval        *)
(* requests, stores replaced as a whole, the agent, the enforced mutations  *)
(* (a lane's repair is in LaneRepair_proofs) - and about Services itself,   *)
(* whose invariant is theirs, since a step of one leaves the others alone.  *)
(***************************************************************************)
EXTENDS Services, LaneRepair_proofs, SequenceTheorems, FiniteSetTheorems, TLAPS

-----------------------------------------------------------------------------
(* Approvals: the audit trail is an unbroken chain and a decision stands.   *)

(* ResolutionStands alone is not inductive: that the entry appended next agrees
   with a decision in the middle of the trail follows from the last entry being
   the present status, which HistoryExplains says. *)
RequestInv == TypeOK /\ HistoryExplains /\ ResolutionStands

LEMMA RequestInitInv == Init => RequestInv
<1> SUFFICES ASSUME Init PROVE RequestInv
  OBVIOUS
<1>1. TypeOK
  BY DEF Init, TypeOK, ValidApprovalStates, Identity, Entry
<1>2. HistoryExplains
  BY DEF Init, HistoryExplains
<1>3. ResolutionStands
  BY DEF Init, ResolutionStands, TerminalApprovalStates
<1> QED
  BY <1>1, <1>2, <1>3 DEF RequestInv

LEMMA RequestStepInv == RequestInv /\ [Next]_vars => RequestInv'
<1> SUFFICES ASSUME RequestInv, [Next]_vars PROVE RequestInv'
  OBVIOUS
<1> USE DEF RequestInv
<1>1. ASSUME NEW next \in Requested, NEW who \in Identity, TransitionApproval(next, who)
      PROVE  RequestInv'
  <2> DEFINE entry == [from |-> status, to |-> next, by |-> approver']
  <2>1. /\ next \in ValidApprovalStates
        /\ status \in TerminalApprovalStates => next = status
        /\ status' = next
        /\ approver' \in Identity
        /\ history' = Append(history, entry)
        /\ resolved' = IF next \in TerminalApprovalStates THEN Len(history') ELSE resolved
    BY <1>1 DEF TransitionApproval, TransitionAllowed, TypeOK
  <2>2. entry \in Entry
    BY <2>1 DEF Entry, TypeOK
  <2>3. history \in Seq(Entry) /\ Len(history) \in Nat \ {0}
    <3>1. history \in Seq(Entry) /\ history # <<>>
      BY DEF TypeOK, HistoryExplains
    <3> QED
      BY <3>1
  <2> HIDE DEF entry
  <2>4. /\ history' \in Seq(Entry)
        /\ Len(history') = Len(history) + 1
        /\ \A i \in 1..Len(history) : history'[i] = history[i]
        /\ history'[Len(history')] = entry
    BY <2>1, <2>2, <2>3
  <2>5. TypeOK'
    BY <2>1, <2>3, <2>4 DEF TypeOK
  <2>6. HistoryExplains'
    BY <2>1, <2>3, <2>4 DEF HistoryExplains, entry
  <2>7. ResolutionStands'
    <3>1. resolved' = 0 <=> status' \notin TerminalApprovalStates
      BY <2>1, <2>3, <2>4 DEF ResolutionStands, TypeOK
    <3>2. ASSUME NEW i \in 1..Len(history'), NEW j \in 1..Len(history'),
                 i < j, history'[i].to \in TerminalApprovalStates
          PROVE  history'[j].to = history'[i].to
      <4>1. CASE j <= Len(history)
        BY <3>2, <4>1, <2>3, <2>4 DEF ResolutionStands
      <4>2. CASE j = Len(history')
        <5>1. i \in 1..Len(history) /\ history[i].to \in TerminalApprovalStates
          BY <3>2, <4>2, <2>3, <2>4
        <5>2. history[i].to = status
          BY <5>1, <2>3 DEF ResolutionStands, HistoryExplains
        <5>3. history'[j].to = next
          BY <4>2, <2>4 DEF entry
        <5> QED
          BY <5>1, <5>2, <5>3, <2>1, <2>4
      <4> QED
        BY <4>1, <4>2, <2>3, <2>4
    <3> QED
      BY <3>1, <3>2 DEF ResolutionStands
  <2> QED
    BY <2>5, <2>6, <2>7
<1>2. CASE UNCHANGED vars
  BY <1>2 DEF vars, TypeOK, HistoryExplains, ResolutionStands
<1> QED
  BY <1>1, <1>2 DEF Next

LEMMA RequestInvariance == Spec => []RequestInv
BY RequestInitInv, RequestStepInv, PTL DEF Spec

(* Replaying the audit trail of a request always leads to where it is, and a
   decision in it is never followed by a different one. *)
THEOREM TrailStands == Spec => []AuditTrailStands
<1>1. RequestInv => AuditTrailStands
  BY DEF RequestInv, AuditTrailStands
<1> QED
  BY <1>1, RequestInvariance, PTL

(* No step takes a decision back. *)
THEOREM DecisionsStand == Spec => DecisionStands
<1>1. [Next]_vars => [(status \in TerminalApprovalStates) => (status' = status)]_vars
  BY DEF Next, vars, TransitionApproval, TransitionAllowed
<1> QED
  BY <1>1, PTL DEF Spec, DecisionStands

-----------------------------------------------------------------------------
(* WholeFileStores: who works undisturbed gets what was ordered.            *)

StoreTypes ==
  /\ StoreTypeOK
  /\ copy \in [Users -> Registry \cup {Nothing}]

(* What a process holds and where it stands go together, differently in each
   of the three stores. *)
Shape ==
  \A p \in Users :
    /\ store = "rollback" => step[p] # "save" /\ copy[p] = Nothing
    /\ store # "rollback" => step[p] \in {"idle", "save"}
    /\ step[p] = "save" => copy[p] # Nothing

(* Nothing that was never ordered is on file or about to be. *)
Traced ==
  /\ \A name \in Names : file[name] \subseteq ever[name]
  /\ \A p \in Users, name \in Names :
       copy[p] # Nothing => copy[p][name] \subseteq ever[name]

Busy(p) == copy[p] # Nothing \/ step[p] # "idle"

OneBusy == \A p, q \in Users : Busy(p) /\ Busy(q) => p = q

(* LastOrderStands says nothing while a process is busy; undisturbed there is
   but one, and what it is about to save is what is meant. *)
FileStands ==
  store # "rollback" /\ ~disturbed =>
    /\ OneBusy
    /\ \A p \in Users : copy[p] # Nothing => copy[p] = meant
    /\ (\A p \in Users : step[p] = "idle") => ~torn /\ file = meant

(* Undisturbed, the one rollback finds the directory as its last step left it. *)
DirectoryStands ==
  store = "rollback" /\ ~disturbed =>
    /\ OneBusy
    /\ \A p \in Users :
         /\ step[p] = "remove" => directory # "absent"
         /\ step[p] = "copy" => directory = "absent"
    /\ (\A p \in Users : step[p] = "idle") => directory = "restored"

StoreInv == StoreTypes /\ Shape /\ Traced /\ FileStands /\ DirectoryStands

-----------------------------------------------------------------------------

(* An order that is not ignored changes an entry into an entry. *)
LEMMA ChangedType ==
  ASSUME NEW order \in Order,
         NEW entry \in EntryOnFile
  PROVE  Changed(order, entry) \in EntryOnFile
<1> USE DEF EntryOnFile
<1>1. CASE order \in [kind : {"register"}]
  BY <1>1 DEF Changed, Status
<1>2. CASE order \in [kind : {"status"}, to : Status]
  BY <1>2 DEF Changed
<1>3. CASE order \in [kind : {"grant", "revoke"}, feature : Features]
  BY <1>3 DEF Changed
<1>4. CASE order \in [kind : {"plan"}, plan : DOMAIN PlanFeatures]
  <2>1. PlanFeatures[order.plan] \subseteq PlanFeature
    BY <1>4 DEF PlanFeature
  <2>2. Changed(order, entry) = PlanFeatures[order.plan] \cup {"listed"}
    BY <1>4 DEF Changed
  <2> QED
    BY <2>1, <2>2
<1> QED
  BY <1>1, <1>2, <1>3, <1>4 DEF Order

(* The inductive invariant holds at first. *)
LEMMA StoreInitInv == StoreInit => StoreInv
<1> SUFFICES ASSUME StoreInit PROVE StoreInv
  OBVIOUS
<1>1. StoreTypes
  <2>1. {} \in EntryOnFile
    BY DEF EntryOnFile
  <2>2. file \in Registry /\ meant \in Registry /\ ever \in Registry
    BY <2>1 DEF StoreInit, Registry
  <2>3. orders \in 0..MaxOrders /\ deaths \in 0..MaxDeaths
    BY StoresAssumption DEF StoreInit
  <2> QED
    BY <2>2, <2>3 DEF StoreInit, StoreTypes, StoreTypeOK
<1>2. Shape /\ Traced
  BY DEF StoreInit, Shape, Traced
<1>3. FileStands /\ DirectoryStands
  BY DEF StoreInit, FileStands, DirectoryStands
<1> QED
  BY <1>1, <1>2, <1>3 DEF StoreInv

(* What an order is about to save is a registry. *)
LEMMA OrderLoads ==
  ASSUME StoreInv, NEW p \in Users, NEW name \in Names, NEW order \in Order,
         GiveOrder(p, name, order)
  PROVE  /\ Loaded(p) \in Registry
         /\ Changed(order, Loaded(p)[name]) \in EntryOnFile
         /\ copy' = [copy EXCEPT ![p] = [Loaded(p) EXCEPT ![name] = Changed(order, Loaded(p)[name])]]
         /\ [Loaded(p) EXCEPT ![name] = Changed(order, Loaded(p)[name])] \in Registry
<1>1. Loaded(p) \in Registry
  BY DEF GiveOrder, CanOrder, Loaded, StoreInv, StoreTypes, StoreTypeOK
<1>2. Changed(order, Loaded(p)[name]) \in EntryOnFile
  BY <1>1, ChangedType DEF Registry
<1>3. copy' = [copy EXCEPT ![p] = [Loaded(p) EXCEPT ![name] = Changed(order, Loaded(p)[name])]]
  BY DEF GiveOrder
<1>4. [Loaded(p) EXCEPT ![name] = Changed(order, Loaded(p)[name])] \in Registry
  BY <1>1, <1>2 DEF Registry
<1> QED
  BY <1>1, <1>2, <1>3, <1>4

(* Every step keeps the types. *)
LEMMA StoreTypesStep == StoreInv /\ [StoreNext]_storeVars => StoreTypes'
<1> SUFFICES ASSUME StoreInv, [StoreNext]_storeVars PROVE StoreTypes'
  OBVIOUS
<1> USE StoresAssumption DEF StoreInv, StoreTypes, StoreTypeOK
<1>1. ASSUME NEW p \in Users, Import(p) PROVE StoreTypes'
  BY <1>1 DEF Import
<1>2. ASSUME NEW p \in Users, Exits(p) PROVE StoreTypes'
  BY <1>2 DEF Exits
<1>3. ASSUME NEW p \in Users, Save(p) PROVE StoreTypes'
  <2>1. copy[p] \in Registry
    BY <1>3 DEF Save, Shape
  <2> QED
    BY <1>3, <2>1 DEF Save
<1>4. ASSUME NEW p \in Users, NEW name \in Names, NEW order \in Order, GiveOrder(p, name, order) PROVE StoreTypes'
  <2>2. Changed(order, Loaded(p)[name]) \in EntryOnFile
    BY <1>4, OrderLoads
  <2>3. ever' \in Registry
    <3>1. ever' = [ever EXCEPT ![name] = @ \cup Changed(order, Loaded(p)[name])]
      BY <1>4 DEF GiveOrder, Ordered
    <3> QED
      BY <2>2, <3>1 DEF Registry, EntryOnFile
  <2>4. meant' \in Registry
    <3> DEFINE before == IF store = "entitlements" /\ Alone(p) THEN file ELSE meant
    <3>1. before \in Registry
      OBVIOUS
    <3>2. Changed(order, before[name]) \in EntryOnFile
      BY <3>1, ChangedType DEF Registry
    <3>3. meant' = [before EXCEPT ![name] = Changed(order, @)]
      BY <1>4 DEF GiveOrder, Ordered
    <3> QED
      BY <3>1, <3>2, <3>3 DEF Registry
  <2>5. orders' \in 0..MaxOrders
    BY <1>4 DEF GiveOrder, Ordered, CanOrder
  <2>6. step' \in [Users -> {"idle", "save", "remove", "copy", "copying"}] /\ disturbed' \in BOOLEAN
    BY <1>4 DEF GiveOrder, Ordered
  <2>7. UNCHANGED <<store, file, torn, directory, deaths>>
    BY <1>4 DEF GiveOrder, Ordered
  <2>8. copy' \in [Users -> Registry \cup {Nothing}]
    BY <1>4, OrderLoads
  <2> QED
    BY <2>3, <2>4, <2>5, <2>6, <2>7, <2>8
<1>5. ASSUME NEW p \in Users, BeginRollback(p) PROVE StoreTypes'
  <2>1. orders' \in 0..MaxOrders
    BY <1>5 DEF BeginRollback
  <2>2. step' \in [Users -> {"idle", "save", "remove", "copy", "copying"}]
    BY <1>5 DEF BeginRollback
  <2>3. disturbed' \in BOOLEAN
    BY <1>5 DEF BeginRollback
  <2> QED
    BY <1>5, <2>1, <2>2, <2>3 DEF BeginRollback
<1>6. ASSUME NEW p \in Users, RemoveDirectory(p) PROVE StoreTypes'
  BY <1>6 DEF RemoveDirectory
<1>7. ASSUME NEW p \in Users, BeginCopy(p) PROVE StoreTypes'
  BY <1>7 DEF BeginCopy
<1>8. ASSUME NEW p \in Users, EndCopy(p) PROVE StoreTypes'
  BY <1>8 DEF EndCopy
<1>9. ASSUME NEW p \in Users, Killed(p) PROVE StoreTypes'
  <2>1. copy' \in [Users -> Registry \cup {Nothing}]
    BY <1>9 DEF Killed
  <2>2. deaths' \in 0..MaxDeaths
    BY <1>9 DEF Killed
  <2>3. step' \in [Users -> {"idle", "save", "remove", "copy", "copying"}]
    BY <1>9 DEF Killed
  <2>4. torn' \in BOOLEAN /\ directory' \in {"changed", "restored", "absent", "part"}
    BY <1>9 DEF Killed
  <2>5. disturbed' \in BOOLEAN /\ UNCHANGED <<store, file, orders, meant, ever>>
    BY <1>9 DEF Killed
  <2> QED
    BY <2>1, <2>2, <2>3, <2>4, <2>5
<1>10. ASSUME WorkGoesOn PROVE StoreTypes'
  BY <1>10 DEF WorkGoesOn
<1>11. ASSUME UNCHANGED storeVars PROVE StoreTypes'
  BY <1>11 DEF storeVars
<1> QED
  BY <1>1, <1>2, <1>3, <1>4, <1>5, <1>6, <1>7, <1>8, <1>9, <1>10, <1>11 DEF StoreNext

(* Every step keeps the shape. *)
LEMMA ShapeStep == StoreInv /\ [StoreNext]_storeVars => Shape'
<1> SUFFICES ASSUME StoreInv, [StoreNext]_storeVars PROVE Shape'
  OBVIOUS
<1> USE DEF StoreInv, StoreTypes, StoreTypeOK, Shape
<1>1. ASSUME NEW p \in Users, Import(p) PROVE Shape'
  BY <1>1 DEF Import
<1>2. ASSUME NEW p \in Users, Exits(p) PROVE Shape'
  BY <1>2 DEF Exits
<1>3. ASSUME NEW p \in Users, Save(p) PROVE Shape'
  BY <1>3 DEF Save
<1>4. ASSUME NEW p \in Users, NEW name \in Names, NEW order \in Order, GiveOrder(p, name, order) PROVE Shape'
  <2>1. store # "rollback"
    BY <1>4 DEF Order
  <2>2. copy'[p] # Nothing
    <3>1. copy'[p] \in Registry
      BY <1>4, OrderLoads
    <3> QED
      BY <3>1, StoresAssumption
  <2> QED
    BY <1>4, <2>1, <2>2, OrderLoads DEF GiveOrder, Ordered
<1>5. ASSUME NEW p \in Users, BeginRollback(p) PROVE Shape'
  BY <1>5 DEF BeginRollback
<1>6. ASSUME NEW p \in Users, RemoveDirectory(p) PROVE Shape'
  BY <1>6 DEF RemoveDirectory
<1>7. ASSUME NEW p \in Users, BeginCopy(p) PROVE Shape'
  BY <1>7 DEF BeginCopy
<1>8. ASSUME NEW p \in Users, EndCopy(p) PROVE Shape'
  BY <1>8 DEF EndCopy
<1>9. ASSUME NEW p \in Users, Killed(p) PROVE Shape'
  BY <1>9 DEF Killed
<1>10. ASSUME WorkGoesOn PROVE Shape'
  BY <1>10 DEF WorkGoesOn
<1>11. ASSUME UNCHANGED storeVars PROVE Shape'
  BY <1>11 DEF storeVars
<1> QED
  BY <1>1, <1>2, <1>3, <1>4, <1>5, <1>6, <1>7, <1>8, <1>9, <1>10, <1>11 DEF StoreNext

(* Every step keeps what is on file, and about to be, within what was ordered. *)
LEMMA TracedStep == StoreInv /\ [StoreNext]_storeVars => Traced'
<1> SUFFICES ASSUME StoreInv, [StoreNext]_storeVars PROVE Traced'
  OBVIOUS
<1> USE DEF StoreInv, StoreTypes, StoreTypeOK, Shape, Traced, Registry
<1>1. ASSUME NEW p \in Users, Import(p) PROVE Traced'
  BY <1>1 DEF Import
<1>2. ASSUME NEW p \in Users, Exits(p) PROVE Traced'
  BY <1>2 DEF Exits
<1>3. ASSUME NEW p \in Users, Save(p) PROVE Traced'
  BY <1>3 DEF Save
<1>4. ASSUME NEW p \in Users, NEW name \in Names, NEW order \in Order, GiveOrder(p, name, order) PROVE Traced'
  BY <1>4 DEF GiveOrder, Ordered, CanOrder, Loaded
<1>5. ASSUME NEW p \in Users, BeginRollback(p) PROVE Traced'
  BY <1>5 DEF BeginRollback
<1>6. ASSUME NEW p \in Users, RemoveDirectory(p) PROVE Traced'
  BY <1>6 DEF RemoveDirectory
<1>7. ASSUME NEW p \in Users, BeginCopy(p) PROVE Traced'
  BY <1>7 DEF BeginCopy
<1>8. ASSUME NEW p \in Users, EndCopy(p) PROVE Traced'
  BY <1>8 DEF EndCopy
<1>9. ASSUME NEW p \in Users, Killed(p) PROVE Traced'
  BY <1>9 DEF Killed
<1>10. ASSUME WorkGoesOn PROVE Traced'
  BY <1>10 DEF WorkGoesOn
<1>11. ASSUME UNCHANGED storeVars PROVE Traced'
  BY <1>11 DEF storeVars
<1> QED
  BY <1>1, <1>2, <1>3, <1>4, <1>5, <1>6, <1>7, <1>8, <1>9, <1>10, <1>11 DEF StoreNext

(* Every step keeps the file what was meant. *)
LEMMA FileStep == StoreInv /\ [StoreNext]_storeVars => FileStands'
<1> SUFFICES ASSUME StoreInv, [StoreNext]_storeVars PROVE FileStands'
  OBVIOUS
<1> USE DEF StoreInv, StoreTypes, StoreTypeOK, Shape, FileStands, OneBusy, Busy, Alone
<1>1. ASSUME NEW p \in Users, Import(p) PROVE FileStands'
  BY <1>1 DEF Import
<1>2. ASSUME NEW p \in Users, Exits(p) PROVE FileStands'
  BY <1>2 DEF Exits
<1>3. ASSUME NEW p \in Users, Save(p) PROVE FileStands'
  BY <1>3 DEF Save
<1>4. ASSUME NEW p \in Users, NEW name \in Names, NEW order \in Order, GiveOrder(p, name, order) PROVE FileStands'
  BY <1>4 DEF GiveOrder, Ordered, CanOrder, Loaded
<1>5. ASSUME NEW p \in Users, BeginRollback(p) PROVE FileStands'
  BY <1>5 DEF BeginRollback
<1>6. ASSUME NEW p \in Users, RemoveDirectory(p) PROVE FileStands'
  BY <1>6 DEF RemoveDirectory
<1>7. ASSUME NEW p \in Users, BeginCopy(p) PROVE FileStands'
  BY <1>7 DEF BeginCopy
<1>8. ASSUME NEW p \in Users, EndCopy(p) PROVE FileStands'
  BY <1>8 DEF EndCopy
<1>9. ASSUME NEW p \in Users, Killed(p) PROVE FileStands'
  BY <1>9 DEF Killed
<1>10. ASSUME WorkGoesOn PROVE FileStands'
  BY <1>10 DEF WorkGoesOn
<1>11. ASSUME UNCHANGED storeVars PROVE FileStands'
  BY <1>11 DEF storeVars
<1> QED
  BY <1>1, <1>2, <1>3, <1>4, <1>5, <1>6, <1>7, <1>8, <1>9, <1>10, <1>11 DEF StoreNext

(* Every step keeps the directory where the one rollback left it. *)
LEMMA DirectoryStep == StoreInv /\ [StoreNext]_storeVars => DirectoryStands'
<1> SUFFICES ASSUME StoreInv, [StoreNext]_storeVars PROVE DirectoryStands'
  OBVIOUS
<1> USE DEF StoreInv, StoreTypes, StoreTypeOK, Shape, DirectoryStands, OneBusy, Busy, Alone
<1>1. ASSUME NEW p \in Users, Import(p) PROVE DirectoryStands'
  BY <1>1 DEF Import
<1>2. ASSUME NEW p \in Users, Exits(p) PROVE DirectoryStands'
  BY <1>2 DEF Exits
<1>3. ASSUME NEW p \in Users, Save(p) PROVE DirectoryStands'
  BY <1>3 DEF Save
<1>4. ASSUME NEW p \in Users, NEW name \in Names, NEW order \in Order, GiveOrder(p, name, order) PROVE DirectoryStands'
  BY <1>4 DEF GiveOrder, Ordered, CanOrder, Loaded
<1>5. ASSUME NEW p \in Users, BeginRollback(p) PROVE DirectoryStands'
  BY <1>5 DEF BeginRollback
<1>6. ASSUME NEW p \in Users, RemoveDirectory(p) PROVE DirectoryStands'
  BY <1>6 DEF RemoveDirectory
<1>7. ASSUME NEW p \in Users, BeginCopy(p) PROVE DirectoryStands'
  BY <1>7 DEF BeginCopy
<1>8. ASSUME NEW p \in Users, EndCopy(p) PROVE DirectoryStands'
  BY <1>8 DEF EndCopy
<1>9. ASSUME NEW p \in Users, Killed(p) PROVE DirectoryStands'
  BY <1>9 DEF Killed
<1>10. ASSUME WorkGoesOn PROVE DirectoryStands'
  BY <1>10 DEF WorkGoesOn
<1>11. ASSUME UNCHANGED storeVars PROVE DirectoryStands'
  BY <1>11 DEF storeVars
<1> QED
  BY <1>1, <1>2, <1>3, <1>4, <1>5, <1>6, <1>7, <1>8, <1>9, <1>10, <1>11 DEF StoreNext

LEMMA StoreStepInv == StoreInv /\ [StoreNext]_storeVars => StoreInv'
BY StoreTypesStep, ShapeStep, TracedStep, FileStep, DirectoryStep DEF StoreInv

LEMMA InvLastOrder == StoreInv => LastOrderStands
BY DEF StoreInv, StoreTypes, StoreTypeOK, Traced, FileStands, DirectoryStands, LastOrderStands

(* The inductive invariant holds throughout. *)
THEOREM StoreInvariance == StoreSpec => []StoreInv
BY StoreInitInv, StoreStepInv, PTL DEF StoreSpec

(* Every variable keeps its type. *)
THEOREM StoreTypeCorrect == StoreSpec => []StoreTypeOK
<1>1. StoreInv => StoreTypeOK
  BY DEF StoreInv, StoreTypes
<1> QED
  BY <1>1, StoreInvariance, PTL

(* Whoever works undisturbed gets what was ordered, and nothing is ever on file
   that was not. *)
THEOREM LastOrderStanding == StoreSpec => []LastOrderStands
BY InvLastOrder, StoreInvariance, PTL

-----------------------------------------------------------------------------
(* AgentRuntime: the agent stops at its gate and its log tells all.         *)

(* The agent refuses exactly the steps AgentGateHolds calls refused, and the
   status of an entry of the log says where its step is from the first of them. *)
Statuses ==
  \A k \in DOMAIN auditLog :
    /\ auditLog[k].status = "executed" => \A j \in 1 .. k : Approved(j)
    /\ auditLog[k].status = "awaiting_approval" =>
         ~Approved(k) /\ \A j \in 1 .. k - 1 : Approved(j)
    /\ auditLog[k].status = "skipped_due_to_gate" =>
         \E j \in 1 .. k - 1 : auditLog[j].status = "awaiting_approval"

LogInOrder ==
  /\ Len(auditLog) <= Len(plan)
  /\ \A k \in DOMAIN auditLog : auditLog[k].step = k

ListsTell ==
  /\ Lists(completedSteps, "executed")
  /\ Lists(blockedSteps, "awaiting_approval")
  /\ Lists(skippedSteps, "skipped_due_to_gate")

AgentInv == AgentTypeOK /\ LogInOrder /\ Statuses /\ ListsTell

LEMMA PlanTyped ==
  ASSUME NEW matched \in SUBSET Classifiers
  PROVE  PlanFor(matched) \in Seq(ActionType)
<1> DEFINE Step(type) == IF type \in matched THEN <<type>> ELSE <<>>
<1>1. ASSUME NEW type \in ActionType PROVE Step(type) \in Seq(ActionType)
  <2>1. <<>> \in Seq(ActionType) /\ <<type>> \in Seq(ActionType)
    OBVIOUS
  <2> QED
    BY <2>1
<1>2. /\ Step("file_read") \in Seq(ActionType) /\ Step("form_fill") \in Seq(ActionType)
      /\ Step("file_write") \in Seq(ActionType) /\ Step("app_admin_action") \in Seq(ActionType)
      /\ Step("form_submit_payment") \in Seq(ActionType)
  BY <1>1 DEF Classifiers, ActionType
<1>3. <<"browser_navigate">> \in Seq(ActionType) /\ <<"app_interaction">> \in Seq(ActionType)
  BY DEF ActionType
<1>4. PlanFor(matched) =
        <<"browser_navigate">> \o
          (IF matched = {} THEN <<"app_interaction">>
           ELSE Step("file_read") \o Step("form_fill") \o Step("file_write")
                  \o Step("app_admin_action") \o Step("form_submit_payment"))
  BY DEF PlanFor
<1> HIDE DEF Step
<1> QED
  BY <1>2, <1>3, <1>4, ConcatProperties

LEMMA AgentInitInv == AgentInit => AgentInv
<1> SUFFICES ASSUME AgentInit PROVE AgentInv
  OBVIOUS
<1>1. plan \in Seq(ActionType)
  BY PlanTyped DEF AgentInit
<1>2. /\ completedSteps = <<>> /\ blockedSteps = <<>> /\ skippedSteps = <<>>
      /\ auditLog = <<>> /\ approvals \in DeclaredFor(plan)
  BY DEF AgentInit
<1>3. AgentTypeOK
  BY <1>1, <1>2 DEF AgentTypeOK
<1>4. Len(plan) \in Nat
  BY <1>1
<1>5. LogInOrder /\ Statuses
  BY <1>2, <1>4 DEF LogInOrder, Statuses
<1>6. Range(<<>>) = {} /\ DOMAIN <<>> = {}
  BY DEF Range
<1>7. ListsTell
  BY <1>2, <1>6 DEF ListsTell, Lists
<1> QED
  BY <1>3, <1>5, <1>7 DEF AgentInv

(* What appending the number of the next step to a list does to it. *)
LEMMA ListGrows ==
  ASSUME NEW n \in Nat, NEW list \in Seq(1 .. n), NEW j \in Nat, j > n,
         \A a, b \in DOMAIN list : a < b => list[a] < list[b]
  PROVE  /\ Range(Append(list, j)) = Range(list) \cup {j}
         /\ \A a, b \in DOMAIN Append(list, j) :
              a < b => Append(list, j)[a] < Append(list, j)[b]
<1>1. /\ DOMAIN Append(list, j) = 1 .. Len(list) + 1 /\ DOMAIN list = 1 .. Len(list)
      /\ Len(list) \in Nat
      /\ \A i \in 1 .. Len(list) : Append(list, j)[i] = list[i] /\ list[i] \in 1 .. n
      /\ Append(list, j)[Len(list) + 1] = j
  OBVIOUS
<1> DEFINE longer == Append(list, j)
<1> HIDE DEF longer
<1>2. Range(longer) = Range(list) \cup {j}
  <2>1. \A x : x \in Range(longer) <=> \E k \in 1 .. Len(list) + 1 : x = longer[k]
    BY <1>1 DEF Range, longer
  <2>2. \A x : x \in Range(list) <=> \E k \in 1 .. Len(list) : x = list[k]
    BY <1>1 DEF Range
  <2>3. /\ \A k \in 1 .. Len(list) : longer[k] = list[k]
        /\ longer[Len(list) + 1] = j
    BY <1>1 DEF longer
  <2>4. 1 .. Len(list) + 1 = (1 .. Len(list)) \cup {Len(list) + 1}
    BY <1>1
  <2>5. ASSUME NEW x PROVE x \in Range(longer) <=> x \in Range(list) \/ x = j
    <3>1. (\E k \in 1 .. Len(list) + 1 : x = longer[k]) <=>
            (\E k \in 1 .. Len(list) : x = longer[k]) \/ x = longer[Len(list) + 1]
      BY <2>4
    <3>2. (\E k \in 1 .. Len(list) : x = longer[k]) <=> (\E k \in 1 .. Len(list) : x = list[k])
      BY <2>3
    <3> QED
      BY <3>1, <3>2, <2>1, <2>2, <2>3
  <2> QED
    BY <2>5
<1>3. ASSUME NEW a \in DOMAIN Append(list, j), NEW b \in DOMAIN Append(list, j), a < b
      PROVE  Append(list, j)[a] < Append(list, j)[b]
  <2>1. a \in 1 .. Len(list)
    BY <1>1, <1>3
  <2>2. CASE b \in 1 .. Len(list)
    <3>1. list[a] < list[b]
      BY <2>1, <2>2, <1>1, <1>3
    <3> QED
      BY <3>1, <2>1, <2>2, <1>1
  <2>3. CASE b = Len(list) + 1
    BY <2>1, <2>3, <1>1
  <2> QED
    BY <2>2, <2>3, <1>1, <1>3
<1> QED
  BY <1>2, <1>3 DEF longer

LogStatus == {"executed", "awaiting_approval", "skipped_due_to_gate"}
LogEntry == [step : DOMAIN plan, approved : BOOLEAN, status : LogStatus]

(* Lists, of any log. *)
ListsOf(log, list, status_) ==
  /\ Range(list) = {k \in DOMAIN log : log[k].status = status_}
  /\ \A a, b \in DOMAIN list : a < b => list[a] < list[b]

(* The list for the status of a new entry grows by it, the others stay. *)
LEMMA ListsFollow ==
  ASSUME NEW Steps, NEW S, NEW log \in Seq(S), NEW e \in S, NEW list \in Seq(Steps), Steps \subseteq Nat,
         NEW status_, ListsOf(log, list, status_),
         NEW longer, longer = IF e.status = status_ THEN Append(list, Len(log) + 1) ELSE list
  PROVE  ListsOf(Append(log, e), longer, status_)
<1> DEFINE n == Len(log)
           now == Append(log, e)
<1>1. /\ n \in Nat /\ DOMAIN log = 1 .. n /\ DOMAIN now = 1 .. n + 1
      /\ \A k \in 1 .. n : now[k] = log[k]
      /\ now[n + 1] = e
  OBVIOUS
<1>2. /\ Range(list) = {k \in 1 .. n : log[k].status = status_}
      /\ \A a, b \in DOMAIN list : a < b => list[a] < list[b]
  BY <1>1 DEF ListsOf
<1>3. list \in Seq(1 .. n)
  <2>1. \A k \in 1 .. Len(list) : list[k] \in Range(list)
    BY DEF Range
  <2>2. \A k \in 1 .. Len(list) : list[k] \in 1 .. n
    BY <1>2, <2>1
  <2> QED
    BY <2>2
<1> HIDE DEF n, now
<1>4. CASE e.status = status_
  <2>1. /\ Range(longer) = Range(list) \cup {n + 1}
        /\ \A a, b \in DOMAIN longer : a < b => longer[a] < longer[b]
    <3>1. /\ Range(Append(list, n + 1)) = Range(list) \cup {n + 1}
          /\ \A a, b \in DOMAIN Append(list, n + 1) :
               a < b => Append(list, n + 1)[a] < Append(list, n + 1)[b]
      <4>1. n + 1 \in Nat /\ n + 1 > n
        BY <1>1
      <4> QED
        BY <1>1, <1>2, <1>3, <4>1, ListGrows
    <3> QED
      BY <3>1, <1>4 DEF n
  <2>2. Range(list) \cup {n + 1} = {k \in 1 .. n + 1 : now[k].status = status_}
    BY <1>1, <1>2, <1>4
  <2> QED
    BY <2>1, <2>2, <1>1 DEF ListsOf, now
<1>5. CASE e.status # status_
  <2>1. longer = list
    BY <1>5
  <2>2. Range(list) = {k \in 1 .. n + 1 : now[k].status = status_}
    BY <1>1, <1>2, <1>5
  <2> QED
    BY <2>1, <2>2, <1>1, <1>2 DEF ListsOf, now
<1> QED
  BY <1>4, <1>5

LEMMA AgentStepInv == AgentInv /\ AgentNext => AgentInv'
<1> SUFFICES ASSUME AgentInv, AgentNext PROVE AgentInv'
  OBVIOUS
<1> DEFINE n == Len(auditLog)
           i == n + 1
<1>1. /\ plan \in Seq(ActionType) /\ auditLog \in Seq(LogEntry)
      /\ completedSteps \in Seq(DOMAIN plan) /\ blockedSteps \in Seq(DOMAIN plan)
      /\ skippedSteps \in Seq(DOMAIN plan) /\ approvals \in DeclaredFor(plan)
  BY DEF AgentInv, AgentTypeOK, LogEntry, LogStatus
<1>2. /\ n \in Nat /\ i \in DOMAIN plan /\ i \in 1 .. Len(plan) /\ DOMAIN auditLog = 1 .. n
      /\ plan' = plan /\ approvals' = approvals /\ Len(plan) \in Nat
      /\ DOMAIN plan \subseteq Nat
  BY <1>1 DEF AgentNext
<1>3. \A k \in 1 .. n : /\ auditLog[k] \in LogEntry /\ auditLog[k].step = k
                       /\ auditLog[k].status \in LogStatus
  <2>1. \A k \in 1 .. n : auditLog[k] \in LogEntry
    BY <1>1, <1>2
  <2>2. \A k \in 1 .. n : auditLog[k].step = k
    BY <1>2 DEF AgentInv, LogInOrder
  <2> QED
    BY <2>1, <2>2 DEF LogEntry
<1>4. /\ ListsOf(auditLog, completedSteps, "executed")
      /\ ListsOf(auditLog, blockedSteps, "awaiting_approval")
      /\ ListsOf(auditLog, skippedSteps, "skipped_due_to_gate")
  BY DEF AgentInv, ListsTell, Lists, ListsOf
<1>5. Halted <=> \E k \in 1 .. n : auditLog[k].status = "awaiting_approval"
  <2>1. blockedSteps # <<>> <=> Range(blockedSteps) # {}
    <3>1. blockedSteps = <<>> => DOMAIN blockedSteps = {}
      OBVIOUS
    <3>2. blockedSteps # <<>> => 1 \in DOMAIN blockedSteps
      BY <1>1
    <3> QED
      BY <3>1, <3>2 DEF Range
  <2>2. Range(blockedSteps) = {k \in 1 .. n : auditLog[k].status = "awaiting_approval"}
    BY <1>2, <1>4 DEF ListsOf
  <2> QED
    BY <2>1, <2>2 DEF Halted
<1>6. ~Halted => \A j \in 1 .. n : Approved(j)
  <2> SUFFICES ASSUME ~Halted, NEW j \in 1 .. n PROVE Approved(j)
    OBVIOUS
  <2>1. auditLog[j].status # "awaiting_approval"
    BY <1>5
  <2>2. auditLog[j].status # "skipped_due_to_gate"
    <3>1. auditLog[j].status = "skipped_due_to_gate" =>
            \E k \in 1 .. j - 1 : auditLog[k].status = "awaiting_approval"
      BY <1>2 DEF AgentInv, Statuses
    <3> QED
      BY <3>1, <1>2, <1>5
  <2>3. auditLog[j].status = "executed"
    BY <2>1, <2>2, <1>3 DEF LogStatus
  <2>4. \A k \in 1 .. j : Approved(k)
    BY <2>3, <1>2 DEF AgentInv, Statuses
  <2> QED
    BY <2>4, <1>2
<1>7. \A k \in Nat : Approved(k)' <=> Approved(k)
  BY <1>2 DEF Approved, SensitiveSteps
(* Every turn appends one entry, whose status says where the step stands, and
   the entry's step to one of the lists. *)
<1>8. ASSUME NEW status_ \in LogStatus, Audit(i, status_),
             completedSteps' = IF status_ = "executed" THEN Append(completedSteps, i) ELSE completedSteps,
             blockedSteps' = IF status_ = "awaiting_approval" THEN Append(blockedSteps, i) ELSE blockedSteps,
             skippedSteps' = IF status_ = "skipped_due_to_gate" THEN Append(skippedSteps, i) ELSE skippedSteps,
             status_ = "executed" => \A j \in 1 .. i : Approved(j),
             status_ = "awaiting_approval" => ~Approved(i) /\ \A j \in 1 .. n : Approved(j),
             status_ = "skipped_due_to_gate" =>
               \E j \in 1 .. n : auditLog[j].status = "awaiting_approval"
      PROVE  AgentInv'
  <2> DEFINE e == [step |-> i, approved |-> status_ = "executed", status |-> status_]
  <2>1. e \in LogEntry /\ e.status = status_ /\ e.step = i /\ auditLog' = Append(auditLog, e)
    BY <1>2, <1>8 DEF LogEntry, Audit
  <2> HIDE DEF e
  <2>2. /\ DOMAIN auditLog' = 1 .. i /\ Len(auditLog') = i
        /\ \A k \in 1 .. n : auditLog'[k] = auditLog[k]
        /\ auditLog'[i] = e
        /\ auditLog' \in Seq(LogEntry)
        /\ 1 .. i = (1 .. n) \cup {i}
    BY <2>1, <1>1, <1>2
  <2>3. AgentTypeOK'
    <3>1. /\ completedSteps' \in Seq(DOMAIN plan) /\ blockedSteps' \in Seq(DOMAIN plan)
          /\ skippedSteps' \in Seq(DOMAIN plan)
      <4>1. /\ Append(completedSteps, i) \in Seq(DOMAIN plan)
            /\ Append(blockedSteps, i) \in Seq(DOMAIN plan)
            /\ Append(skippedSteps, i) \in Seq(DOMAIN plan)
        BY <1>1, <1>2
      <4> QED
        BY <4>1, <1>1, <1>8
    <3>2. auditLog' \in Seq([step : DOMAIN plan, approved : BOOLEAN,
                       status : {"executed", "awaiting_approval", "skipped_due_to_gate"}])
      BY <2>2 DEF LogEntry, LogStatus
    <3> QED
      BY <3>1, <3>2, <1>1, <1>2 DEF AgentTypeOK
  <2>4. LogInOrder'
    BY <2>1, <2>2, <1>2, <1>3 DEF LogInOrder
  <2>5. Statuses'
    <3> SUFFICES ASSUME NEW k \in 1 .. i
                 PROVE  /\ auditLog'[k].status = "executed" => \A j \in 1 .. k : Approved(j)
                        /\ auditLog'[k].status = "awaiting_approval" =>
                             ~Approved(k) /\ \A j \in 1 .. k - 1 : Approved(j)
                        /\ auditLog'[k].status = "skipped_due_to_gate" =>
                             \E j \in 1 .. k - 1 : auditLog'[j].status = "awaiting_approval"
      <4>1. \A k \in 1 .. i : k \in Nat /\ 1 .. k \subseteq Nat /\ 1 .. k - 1 \subseteq Nat
        BY <1>2
      <4> QED
        BY <4>1, <2>2, <1>7 DEF Statuses
    <3>1. CASE k \in 1 .. n
      <4>1. /\ auditLog[k].status = "executed" => \A j \in 1 .. k : Approved(j)
            /\ auditLog[k].status = "awaiting_approval" =>
                 ~Approved(k) /\ \A j \in 1 .. k - 1 : Approved(j)
            /\ auditLog[k].status = "skipped_due_to_gate" =>
                 \E j \in 1 .. k - 1 : auditLog[j].status = "awaiting_approval"
        BY <3>1, <1>2 DEF AgentInv, Statuses
      <4>2. 1 .. k - 1 \subseteq 1 .. n /\ auditLog'[k] = auditLog[k]
        BY <3>1, <1>2, <2>2
      <4> QED
        BY <4>1, <4>2, <2>2
    <3>2. CASE k = i
      <4>1. auditLog'[k].status = status_ /\ 1 .. k - 1 = 1 .. n
        BY <3>2, <2>1, <2>2, <1>2
      <4> QED
        BY <4>1, <3>2, <1>8, <2>2
    <3> QED
      BY <3>1, <3>2, <2>2
  <2>6. ListsTell'
    <3>1. /\ ListsOf(auditLog', completedSteps', "executed")
          /\ ListsOf(auditLog', blockedSteps', "awaiting_approval")
          /\ ListsOf(auditLog', skippedSteps', "skipped_due_to_gate")
      BY <1>1, <1>2, <1>4, <1>8, <2>1, ListsFollow
    <3> QED
      BY <3>1 DEF ListsTell, Lists, ListsOf
  <2> QED
    BY <2>3, <2>4, <2>5, <2>6 DEF AgentInv
<1>9. CASE ExecuteStep(i)
  <2>1. \A j \in 1 .. i : Approved(j)
    BY <1>2, <1>6, <1>9 DEF ExecuteStep
  <2> QED
    BY <2>1, <1>9, <1>8 DEF ExecuteStep, LogStatus
<1>10. CASE BlockStep(i)
  <2>1. ~Approved(i) /\ \A j \in 1 .. n : Approved(j)
    BY <1>2, <1>6, <1>10 DEF BlockStep
  <2> QED
    BY <2>1, <1>10, <1>8 DEF BlockStep, LogStatus
<1>11. CASE SkipStep(i)
  <2>1. \E j \in 1 .. n : auditLog[j].status = "awaiting_approval"
    BY <1>5, <1>11 DEF SkipStep
  <2> QED
    BY <2>1, <1>11, <1>8 DEF SkipStep, LogStatus
<1> QED
  BY <1>9, <1>10, <1>11 DEF AgentNext

(* A step the operator refused, in the words of AgentGateHolds. *)
Refused(i) ==
  /\ i \in SensitiveSteps(plan)
  /\ \/ \E no \in DOMAIN approvals : no = <<"step", i>> /\ ~approvals[no]
     \/ ~\E yes \in DOMAIN approvals :
           yes \in {<<"step", i>>, <<"type", plan[i]>>} /\ approvals[yes]

LEMMA RefusedIsNotApproved ==
  ASSUME AgentTypeOK, NEW i \in DOMAIN plan
  PROVE  Refused(i) <=> ~Approved(i)
<1> DEFINE ofStep == <<"step", i>>
           ofType == <<"type", plan[i]>>
<1>1. ofStep # ofType
  OBVIOUS
<1> HIDE DEF ofStep, ofType
<1> QED
  BY <1>1 DEF Refused, Approved, ofStep, ofType

LEMMA InvGate == AgentInv => AgentGateHolds
<1> SUFFICES ASSUME AgentInv PROVE AgentGateHolds
  OBVIOUS
<1> DEFINE first == {i \in DOMAIN plan : Refused(i) /\ \A k \in 1 .. i - 1 : ~Refused(k)}
           n == Len(auditLog)
<1>1. /\ plan \in Seq(ActionType) /\ auditLog \in Seq(LogEntry)
      /\ n \in Nat /\ Len(plan) \in Nat /\ n <= Len(plan)
      /\ DOMAIN auditLog = 1 .. n /\ DOMAIN plan = 1 .. Len(plan)
  BY DEF AgentInv, AgentTypeOK, LogEntry, LogStatus, LogInOrder
<1>2. \A i \in 1 .. Len(plan) : Refused(i) <=> ~Approved(i)
  BY <1>1, RefusedIsNotApproved DEF AgentInv
<1>3. \A i \in first : /\ i \in 1 .. Len(plan) /\ ~Approved(i)
                      /\ \A k \in 1 .. i - 1 : Approved(k)
  BY <1>1, <1>2
<1>4. \A i \in 1 .. Len(plan) :
        ~Approved(i) /\ (\A k \in 1 .. i - 1 : Approved(k)) => i \in first
  BY <1>1, <1>2
<1> HIDE DEF first, n
<1>5. /\ Range(completedSteps) = {k \in 1 .. n : auditLog[k].status = "executed"}
      /\ Range(blockedSteps) = {k \in 1 .. n : auditLog[k].status = "awaiting_approval"}
      /\ Range(skippedSteps) = {k \in 1 .. n : auditLog[k].status = "skipped_due_to_gate"}
  BY <1>1 DEF AgentInv, ListsTell, Lists
<1>6. ASSUME NEW i \in Range(completedSteps), NEW k \in first PROVE i < k
  <2>1. i \in 1 .. n /\ \A j \in 1 .. i : Approved(j)
    BY <1>5, <1>6, <1>1 DEF AgentInv, Statuses
  <2>2. k \in 1 .. Len(plan) /\ ~Approved(k)
    BY <1>3, <1>6
  <2> QED
    BY <2>1, <2>2, <1>1
<1>7. ASSUME NEW i \in 1 .. n, auditLog[i].status = "awaiting_approval" PROVE i \in first
  <2>1. i \in 1 .. Len(plan) /\ ~Approved(i) /\ \A j \in 1 .. i - 1 : Approved(j)
    BY <1>7, <1>1 DEF AgentInv, Statuses
  <2> QED
    BY <2>1, <1>4
<1>8. Range(blockedSteps) \subseteq first
  BY <1>5, <1>7
<1>9. ASSUME NEW i \in Range(skippedSteps) PROVE \E k \in first : k < i
  <2>1. i \in 1 .. n /\ \E j \in 1 .. i - 1 : auditLog[j].status = "awaiting_approval"
    BY <1>5, <1>9, <1>1 DEF AgentInv, Statuses
  <2> QED
    BY <2>1, <1>1, <1>7
<1>10. \A k \in DOMAIN auditLog : auditLog[k].step = k
  BY DEF AgentInv, LogInOrder
<1> QED
  BY <1>6, <1>8, <1>9, <1>10 DEF AgentGateHolds, AgentInv, ListsTell, first, Refused

-----------------------------------------------------------------------------
(* EnforcedMutation: the decision log accounts for every mutation.          *)

(* MutationsAccounted, of any log and any list of mutations. *)
Let(mutations) == {i \in DOMAIN mutations : mutations[i].outcome # "denied"}
Rank(mutations, i) == Cardinality({k \in Let(mutations) : k <= i})

Accounts(decision, mutation) ==
  /\ decision.action = mutation.action
  /\ decision.approved <=> mutation.outcome # "unapproved"
  /\ mutation.outcome = "preflight" =>
       /\ mutation.action \in FreeActions
       /\ ~mutation.context.approved /\ ~mutation.context.destructive

Accounted(log, mutations) ==
  /\ Len(log) = Cardinality(Let(mutations))
  /\ \A i \in Let(mutations) : Accounts(log[Rank(mutations, i)], mutations[i])
  /\ \A i \in DOMAIN mutations :
       mutations[i].outcome = "done" =>
         mutations[i].context.approved /\ ~mutations[i].context.forbidden

Mutations == [action : MutationAction, context : Context,
              outcome : {"done", "denied", "unapproved", "preflight"}]
Decisions == [action : MutationAction, approved : BOOLEAN]

(* One more mutation: the ranks of those before it stay, its own is the next. *)
LEMMA RanksStay ==
  ASSUME NEW mutations \in Seq(Mutations), NEW m \in Mutations
  PROVE  LET longer == Append(mutations, m) n == Len(mutations) IN
         /\ IsFiniteSet(Let(mutations)) /\ Cardinality(Let(mutations)) \in Nat
         /\ Let(mutations) \subseteq 1 .. n
         /\ m.outcome = "denied" => Let(longer) = Let(mutations)
         /\ m.outcome # "denied" =>
              /\ Let(longer) = Let(mutations) \cup {n + 1}
              /\ Cardinality(Let(longer)) = Cardinality(Let(mutations)) + 1
              /\ Rank(longer, n + 1) = Cardinality(Let(mutations)) + 1
         /\ \A i \in Let(mutations) :
              /\ Rank(longer, i) = Rank(mutations, i)
              /\ Rank(mutations, i) \in 1 .. Cardinality(Let(mutations))
<1> DEFINE longer == Append(mutations, m)
           n == Len(mutations)
           let == Let(mutations)
           now == Let(longer)
<1>1. /\ n \in Nat /\ DOMAIN mutations = 1 .. n /\ DOMAIN longer = 1 .. n + 1
      /\ \A k \in 1 .. n : longer[k] = mutations[k]
      /\ longer[n + 1] = m
  OBVIOUS
<1>2. let \subseteq 1 .. n /\ \A i : i \in let <=> i \in 1 .. n /\ mutations[i].outcome # "denied"
  BY <1>1 DEF Let
<1>3. \A i : i \in now <=> i \in 1 .. n + 1 /\ longer[i].outcome # "denied"
  BY <1>1 DEF Let
<1> HIDE DEF longer, n, let, now
<1>4. IsFiniteSet(let) /\ Cardinality(let) \in Nat
  <2>1. IsFiniteSet(1 .. n)
    <3>1. 1 \in Int /\ n \in Int
      BY <1>1
    <3> QED
      BY <3>1, FS_Interval
  <2> QED
    BY <2>1, <1>2, FS_Subset, FS_CardinalityType
<1>5. ASSUME m.outcome = "denied" PROVE now = let
  <2>1. \A i : i \in now <=> i \in let
    BY <1>1, <1>2, <1>3, <1>5
  <2> QED
    BY <2>1
<1>6. m.outcome # "denied" => now = let \cup {n + 1}
  BY <1>1, <1>2, <1>3
<1>7. n + 1 \notin let
  BY <1>1, <1>2
<1>8. m.outcome # "denied" => Cardinality(now) = Cardinality(let) + 1
  BY <1>4, <1>6, <1>7, FS_AddElement
<1>9. m.outcome # "denied" => {k \in now : k <= n + 1} = now
  BY <1>1, <1>3
<1>10. ASSUME NEW i \in let
       PROVE  /\ {k \in now : k <= i} = {k \in let : k <= i}
              /\ Cardinality({k \in let : k <= i}) \in 1 .. Cardinality(let)
  <2>1. {k \in now : k <= i} = {k \in let : k <= i}
    BY <1>1, <1>2, <1>3
  <2> DEFINE upto == {k \in let : k <= i}
  <2>2. upto \subseteq let /\ i \in upto
    BY <1>1, <1>2
  <2> HIDE DEF upto
  <2>3. /\ IsFiniteSet(upto) /\ Cardinality(upto) \in Nat
        /\ Cardinality(upto) <= Cardinality(let)
    BY <2>2, <1>4, FS_Subset, FS_CardinalityType
  <2>4. Cardinality(upto) # 0
    BY <2>2, <2>3, FS_EmptySet
  <2> QED
    BY <2>1, <2>3, <2>4, <1>4 DEF upto
<1> QED
  BY <1>2, <1>4, <1>5, <1>6, <1>8, <1>9, <1>10 DEF Rank, longer, n, let, now

MutationInv == MutationTypeOK /\ MutationsAccounted

LEMMA AccountedIs == MutationsAccounted <=> Accounted(decisionLog, asked)
BY DEF MutationsAccounted, Accounted, Accounts, Rank, Let

LEMMA AccountedPrime == MutationsAccounted' <=> Accounted(decisionLog', asked')
BY DEF MutationsAccounted, Accounted, Accounts, Rank, Let

LEMMA MutationInitInv == MutationInit => MutationInv
<1> SUFFICES ASSUME MutationInit PROVE MutationInv
  OBVIOUS
<1>1. decisionLog = <<>> /\ asked = <<>>
  BY DEF MutationInit
<1>2. Let(<<>>) = {}
  BY DEF Let
<1>3. Accounted(decisionLog, asked)
  BY <1>1, <1>2, FS_EmptySet DEF Accounted
<1> QED
  BY <1>1, <1>3, AccountedIs DEF MutationInv, MutationTypeOK

LEMMA MutationStepInv == MutationInv /\ MutationNext => MutationInv'
<1> SUFFICES ASSUME MutationInv, MutationNext PROVE MutationInv'
  OBVIOUS
<1>1. /\ asked \in Seq(Mutations) /\ decisionLog \in Seq(Decisions)
      /\ Accounted(decisionLog, asked)
  BY AccountedIs DEF MutationInv, MutationTypeOK, Mutations, Decisions
<1> DEFINE n == Len(asked)
<1>2. n \in Nat /\ DOMAIN asked = 1 .. n /\ Len(decisionLog) \in Nat
  BY <1>1
(* A mutation is asked for and ends; unless it is denied, one decision is
   logged that accounts for it. *)
<1>3. ASSUME NEW m \in Mutations, asked' = Append(asked, m),
             m.outcome = "done" => m.context.approved /\ ~m.context.forbidden,
             \/ m.outcome = "denied" /\ decisionLog' = decisionLog
             \/ /\ m.outcome # "denied"
                /\ \E d \in Decisions : decisionLog' = Append(decisionLog, d) /\ Accounts(d, m)
      PROVE  MutationInv'
  <2>1. /\ asked' \in Seq(Mutations) /\ Len(asked') = n + 1 /\ DOMAIN asked' = 1 .. n + 1
        /\ \A k \in 1 .. n : asked'[k] = asked[k]
        /\ asked'[n + 1] = m
        /\ 1 .. n + 1 = (1 .. n) \cup {n + 1}
    BY <1>1, <1>2, <1>3
  <2>2. /\ Cardinality(Let(asked)) \in Nat /\ Let(asked) \subseteq 1 .. n
        /\ m.outcome = "denied" => Let(asked') = Let(asked)
        /\ m.outcome # "denied" =>
             /\ Let(asked') = Let(asked) \cup {n + 1}
             /\ Cardinality(Let(asked')) = Cardinality(Let(asked)) + 1
             /\ Rank(asked', n + 1) = Cardinality(Let(asked)) + 1
        /\ \A i \in Let(asked) : /\ Rank(asked', i) = Rank(asked, i)
                                 /\ Rank(asked, i) \in 1 .. Cardinality(Let(asked))
    BY <1>1, <1>3, RanksStay
  <2>3. /\ Len(decisionLog) = Cardinality(Let(asked))
        /\ \A i \in Let(asked) : Accounts(decisionLog[Rank(asked, i)], asked[i])
        /\ \A i \in 1 .. n : asked[i].outcome = "done" =>
                              asked[i].context.approved /\ ~asked[i].context.forbidden
    BY <1>1, <1>2 DEF Accounted
  <2>4. \A i \in DOMAIN asked' : asked'[i].outcome = "done" =>
                                 asked'[i].context.approved /\ ~asked'[i].context.forbidden
    BY <2>1, <2>3, <1>3
  <2>5. CASE m.outcome = "denied" /\ decisionLog' = decisionLog
    <3>1. \A i \in Let(asked) : Accounts(decisionLog'[Rank(asked', i)], asked'[i])
      BY <2>5, <2>1, <2>2, <2>3
    <3>2. Accounted(decisionLog', asked')
      BY <3>1, <2>2, <2>3, <2>4, <2>5 DEF Accounted
    <3> QED
      BY <3>2, <2>1, <2>5, <1>1, AccountedPrime DEF MutationInv, MutationTypeOK, Mutations, Decisions
  <2>6. ASSUME NEW d \in Decisions, m.outcome # "denied",
               decisionLog' = Append(decisionLog, d), Accounts(d, m)
        PROVE  MutationInv'
    <3>1. /\ decisionLog' \in Seq(Decisions) /\ Len(decisionLog') = Len(decisionLog) + 1
          /\ \A k \in 1 .. Len(decisionLog) : decisionLog'[k] = decisionLog[k]
          /\ decisionLog'[Len(decisionLog) + 1] = d
      BY <1>1, <2>6
    <3>2. \A i \in Let(asked) : Accounts(decisionLog'[Rank(asked', i)], asked'[i])
      BY <3>1, <2>1, <2>2, <2>3
    <3>3. Accounts(decisionLog'[Rank(asked', n + 1)], asked'[n + 1])
      BY <3>1, <2>1, <2>2, <2>3, <2>6
    <3>4. Accounted(decisionLog', asked')
      BY <3>1, <3>2, <3>3, <2>2, <2>3, <2>4, <2>6 DEF Accounted
    <3> QED
      BY <3>1, <3>4, <2>1, AccountedPrime DEF MutationInv, MutationTypeOK, Mutations, Decisions
  <2> QED
    BY <2>5, <2>6, <1>3
<1>4. ASSUME NEW action \in MutationAction, NEW context \in Context,
             \/ PolicyDenies(action, context)
             \/ EngineRefuses(action, context)
             \/ PreflightDecides(action, context)
      PROVE  MutationInv'
  <2>1. /\ context.forbidden \in BOOLEAN /\ context.approved \in BOOLEAN
        /\ context.destructive \in BOOLEAN
    BY DEF Context
  <2>2. CASE PolicyDenies(action, context)
    <3> DEFINE m == [action |-> action, context |-> context, outcome |-> "denied"]
    <3>1. m \in Mutations /\ m.outcome = "denied" /\ asked' = Append(asked, m)
      BY <2>2 DEF Mutations, PolicyDenies, Ends
    <3> HIDE DEF m
    <3> QED
      BY <3>1, <1>3, <2>2 DEF PolicyDenies
  <2>3. CASE EngineRefuses(action, context)
    <3> DEFINE m == [action |-> action, context |-> context, outcome |-> "unapproved"]
               d == [action |-> action, approved |-> FALSE]
    <3>1. m \in Mutations /\ m.outcome = "unapproved" /\ asked' = Append(asked, m)
      BY <2>3 DEF Mutations, EngineRefuses, Ends
    <3>2. d \in Decisions /\ Accounts(d, m) /\ decisionLog' = Append(decisionLog, d)
      BY <2>3 DEF Decisions, Accounts, EngineRefuses, LogDecision
    <3> HIDE DEF m, d
    <3> QED
      BY <3>1, <3>2, <1>3
  <2>4. CASE PreflightDecides(action, context)
    <3> DEFINE m == [action |-> action, context |-> context,
                     outcome |-> IF context.approved THEN "done" ELSE "preflight"]
               d == [action |-> action, approved |-> TRUE]
    <3>1. /\ m \in Mutations /\ m.outcome # "denied" /\ asked' = Append(asked, m)
          /\ m.outcome = "done" => m.context.approved /\ ~m.context.forbidden
      BY <2>1, <2>4 DEF Mutations, PreflightDecides, Ends
    <3>2. d \in Decisions /\ decisionLog' = Append(decisionLog, d)
      BY <2>4 DEF Decisions, PreflightDecides, LogDecision
    <3>3. Accounts(d, m)
      BY <2>1, <2>4 DEF Accounts, PreflightDecides, EngineApproves, RequiresApproval
    <3> HIDE DEF m, d
    <3> QED
      BY <3>1, <3>2, <3>3, <1>3
  <2> QED
    BY <1>4, <2>2, <2>3, <2>4
<1> QED
  BY <1>4 DEF MutationNext

-----------------------------------------------------------------------------
(* Services: all of them side by side.                                      *)

ServicesInv == RequestInv /\ RepairInv /\ StoreInv /\ AgentInv /\ MutationInv

servicesVars == <<active, vars, repairVars, storeVars, agentVars, mutationVars>>

LEMMA ServicesInitInv == ServicesInit => ServicesInv
BY RequestInitInv, RepairInitInv, StoreInitInv, AgentInitInv, MutationInitInv
DEF ServicesInit, ServicesInv

LEMMA AgentStays == AgentInv /\ UNCHANGED agentVars => AgentInv'
<1> SUFFICES ASSUME AgentInv, UNCHANGED agentVars PROVE AgentInv'
  OBVIOUS
<1>1. /\ plan' = plan /\ approvals' = approvals /\ auditLog' = auditLog
      /\ completedSteps' = completedSteps /\ blockedSteps' = blockedSteps
      /\ skippedSteps' = skippedSteps
  BY DEF agentVars
<1>2. AgentTypeOK' /\ LogInOrder'
  BY <1>1 DEF AgentInv, AgentTypeOK, LogInOrder
<1>3. Statuses'
  BY <1>1 DEF AgentInv, Statuses, Approved, SensitiveSteps
<1>4. ListsTell'
  BY <1>1 DEF AgentInv, ListsTell, Lists
<1> QED
  BY <1>2, <1>3, <1>4 DEF AgentInv

LEMMA MutationStays == MutationInv /\ UNCHANGED mutationVars => MutationInv'
BY DEF MutationInv, MutationTypeOK, MutationsAccounted, mutationVars

LEMMA ServicesStepInv == ServicesInv /\ [ServicesNext]_servicesVars => ServicesInv'
<1> SUFFICES ASSUME ServicesInv, [ServicesNext]_servicesVars PROVE ServicesInv'
  OBVIOUS
<1>1. /\ [Next]_vars /\ [RepairNext]_repairVars /\ [StoreNext]_storeVars
      /\ AgentNext \/ UNCHANGED agentVars
      /\ MutationNext \/ UNCHANGED mutationVars
  BY DEF ServicesNext, servicesVars
<1> QED
  BY <1>1, RequestStepInv, RepairStepInv, StoreStepInv, AgentStepInv, AgentStays,
     MutationStepInv, MutationStays
  DEF ServicesInv

THEOREM ServicesInvariance == ServicesSpec => []ServicesInv
BY ServicesInitInv, ServicesStepInv, PTL DEF ServicesSpec, servicesVars

(* Every part keeps its types, whichever is at work (control_plane/approvals.py:25,
   validator/generated_app_repair.py:36, self_extend/trust_registry.py:8,
   universal_capability/agent_runtime.py:135, control_plane/decision_log.py:19). *)
THEOREM ServicesTypeCorrect == ServicesSpec => []ServicesTypeOK
<1>1. ServicesInv => ServicesTypeOK
  BY TypesAreOK DEF ServicesInv, RequestInv, RepairInv, StoreInv, StoreTypes, AgentInv,
                    MutationInv, ServicesTypeOK
<1> QED
  BY <1>1, ServicesInvariance, PTL

(* For every task and every declaration of approvals the agent stops at the first
   step refused, its log and its lists telling the same; for any number of
   mutations the decision log accounts for each the policy let through
   (universal_capability/agent_runtime.py:151-201, mutation/enforced_mutation.py:13-32). *)
THEOREM GatesAreKept == ServicesSpec => []GatesHold
<1>1. ServicesInv => GatesHold
  BY InvGate DEF ServicesInv, MutationInv, GatesHold
<1> QED
  BY <1>1, ServicesInvariance, PTL

(* The promises of the other parts hold of the whole as they do of each alone:
   the audit trail of a request, the outcome of a repair, and the last order
   given to a store (control_plane/approvals.py:53-92,
   validator/generated_app_repair.py:55-116, self_extend/lifecycle.py:9-26). *)
THEOREM ServicesKeepTheirPromises ==
  ServicesSpec => [](AuditTrailStands /\ RepairHelps /\ LastOrderStands)
<1>1. ServicesInv => AuditTrailStands
  BY DEF ServicesInv, RequestInv, AuditTrailStands
<1>2. ServicesInv => RepairHelps
  BY InvHelps DEF ServicesInv
<1>3. ServicesInv => LastOrderStands
  BY InvLastOrder DEF ServicesInv
<1> QED
  BY <1>1, <1>2, <1>3, ServicesInvariance, PTL

=============================================================================
