-------------------------- MODULE LaneRepair_proofs --------------------------
(***************************************************************************)
(* Proofs about LaneRepair: what a repair says of itself is what the next   *)
(* validation finds, for whatever an operator may touch and any limit.      *)
(***************************************************************************)
EXTENDS LaneRepair, SequenceTheorems, TLAPS

-----------------------------------------------------------------------------
(* The definitions that read the variables, as operators of what they read. *)

FailsOn(d, item) ==
  \/ item.path \notin DOMAIN d
  \/ item.marked /\ d[item.path] \notin {"template", "own"}

Failing(l, d) == {k \in DOMAIN Lanes[l].items : FailsOn(d, Lanes[l].items[k])}

Put(d, path, content) ==
  [p \in DOMAIN d \cup {path} \cup Directories({path}) |->
     IF p = path THEN content ELSE IF p \in DOMAIN d THEN d[p] ELSE "dir"]

LEMMA FailingIs == FailedItems = Failing(lane, disk)
BY DEF FailedItems, Fails, Items, Failing, FailsOn

LEMMA FailingIsPrime == FailedItems' = Failing(lane', disk')
BY DEF FailedItems, Fails, Items, Failing, FailsOn

LEMMA WrittenIs == \A path, content : Written(path, content) = Put(disk, path, content)
BY DEF Written, Put

-----------------------------------------------------------------------------
(* Directories are proper prefixes, so those of a directory of a path are    *)
(* among those of the path.                                                 *)

Path == Seq(STRING)

LEMMA PrefixOfPrefix ==
  ASSUME NEW p \in Path, NEW k \in 1 .. Len(p), NEW j \in 1 .. k
  PROVE  /\ SubSeq(p, 1, k) \in Path /\ Len(SubSeq(p, 1, k)) = k
         /\ SubSeq(SubSeq(p, 1, k), 1, j) = SubSeq(p, 1, j)
<1>1. Len(p) \in Nat /\ \A i \in 1 .. k : p[i] \in STRING
  BY DEF Path
<1>2. SubSeq(p, 1, k) \in Path /\ Len(SubSeq(p, 1, k)) = k
  BY <1>1, SubSeqProperties DEF Path
<1>3. SubSeq(SubSeq(p, 1, k), 1, j) = SubSeq(p, 1 + 1 - 1, 1 + j - 1)
  <2>1. 1 \in 1 .. Len(p) /\ k \in 1 .. Len(p) /\ 1 \in 1 .. k - 1 + 1 /\ j \in 1 .. k - 1 + 1
    BY <1>1
  <2> QED
    BY <2>1, SubSeqOfSubSeq DEF Path
<1> QED
  BY <1>1, <1>2, <1>3

LEMMA DirectoryIs ==
  ASSUME NEW paths
  PROVE  \A q : q \in Directories(paths) <=>
                  \E p \in paths : \E k \in 1 .. Len(p) - 1 : q = SubSeq(p, 1, k)
BY DEF Directories

LEMMA DirectoriesNest ==
  ASSUME NEW paths \in SUBSET Path
  PROVE  /\ Directories(paths) \subseteq Path
         /\ Directories(Directories(paths)) \subseteq Directories(paths)
<1>1. ASSUME NEW q \in Directories(paths)
      PROVE  /\ q \in Path
             /\ \A j \in 1 .. Len(q) - 1 : SubSeq(q, 1, j) \in Directories(paths)
  <2>1. PICK p \in paths : \E k \in 1 .. Len(p) - 1 : q = SubSeq(p, 1, k)
    BY DirectoryIs
  <2>1a. PICK k \in 1 .. Len(p) - 1 : q = SubSeq(p, 1, k)
    BY <2>1
  <2>2. p \in Path /\ Len(p) \in Nat /\ k \in 1 .. Len(p) /\ k \in 1 .. k
    BY DEF Path
  <2>3. q \in Path /\ Len(q) = k
    BY <2>1a, <2>2, PrefixOfPrefix
  <2>4. ASSUME NEW j \in 1 .. Len(q) - 1 PROVE SubSeq(q, 1, j) \in Directories(paths)
    <3>1. j \in 1 .. k /\ j \in 1 .. Len(p) - 1
      BY <2>2, <2>3
    <3>2. SubSeq(q, 1, j) = SubSeq(p, 1, j)
      BY <2>1a, <2>2, <3>1, PrefixOfPrefix
    <3> QED
      BY <3>1, <3>2, DirectoryIs
  <2> QED
    BY <2>3, <2>4
<1>2. ASSUME NEW r \in Directories(Directories(paths)) PROVE r \in Directories(paths)
  <2>1. PICK q \in Directories(paths) : \E j \in 1 .. Len(q) - 1 : r = SubSeq(q, 1, j)
    BY DirectoryIs
  <2> QED
    BY <2>1, <1>1
<1> QED
  BY <1>1, <1>2

LEMMA DirectoriesOfUnion ==
  ASSUME NEW P, NEW Q
  PROVE  Directories(P \cup Q) = Directories(P) \cup Directories(Q)
BY DirectoryIs

(* A directory in good order: nothing is without the directories it is in. *)
InOrder(d) ==
  /\ DOMAIN d \subseteq Path
  /\ \A p \in DOMAIN d : d[p] \in FileContent \cup {"dir"}
  /\ Directories(DOMAIN d) \subseteq DOMAIN d

LEMMA PutInOrder ==
  ASSUME NEW d, InOrder(d), NEW path \in Path, NEW content \in FileContent
  PROVE  InOrder(Put(d, path, content))
<1> DEFINE now == Put(d, path, content)
<1>1. /\ DOMAIN now = DOMAIN d \cup {path} \cup Directories({path})
      /\ \A p \in DOMAIN now :
           now[p] = IF p = path THEN content ELSE IF p \in DOMAIN d THEN d[p] ELSE "dir"
  BY DEF Put
<1> HIDE DEF now
<1>2. Directories({path}) \subseteq Path /\ Directories(Directories({path})) \subseteq Directories({path})
  BY DirectoriesNest
<1>3. DOMAIN now \subseteq Path
  BY <1>1, <1>2 DEF InOrder
<1>4. \A p \in DOMAIN now : now[p] \in FileContent \cup {"dir"}
  BY <1>1 DEF InOrder
<1>5. Directories(DOMAIN now) \subseteq DOMAIN now
  <2>1. Directories(DOMAIN now) =
          Directories(DOMAIN d) \cup Directories({path}) \cup Directories(Directories({path}))
    <3> DEFINE above == Directories({path})
    <3>1. Directories(DOMAIN d \cup {path} \cup above) =
            Directories(DOMAIN d \cup {path}) \cup Directories(above)
      BY DirectoriesOfUnion
    <3>2. Directories(DOMAIN d \cup {path}) = Directories(DOMAIN d) \cup Directories({path})
      BY DirectoriesOfUnion
    <3> QED
      BY <3>1, <3>2, <1>1
  <2> QED
    BY <2>1, <1>1, <1>2 DEF InOrder
<1> QED
  BY <1>3, <1>4, <1>5 DEF InOrder, now

(* A directory goes with all that is below it, so what stays is in order. *)
LEMMA RemovedInOrder ==
  ASSUME NEW d, InOrder(d), NEW path \in DOMAIN d
  PROVE  InOrder(Restrict(d, {p \in DOMAIN d : ~IsPrefix(path, p)}))
<1> DEFINE stay == {p \in DOMAIN d : ~IsPrefix(path, p)}
           now == Restrict(d, stay)
<1>1. DOMAIN now = stay /\ stay \subseteq DOMAIN d /\ \A p \in stay : now[p] = d[p]
  BY DEF Restrict
<1>2. ASSUME NEW q \in Directories(stay) PROVE q \in stay
  <2>1. PICK p \in stay : \E k \in 1 .. Len(p) - 1 : q = SubSeq(p, 1, k)
    BY DirectoryIs
  <2>1a. PICK k \in 1 .. Len(p) - 1 : q = SubSeq(p, 1, k)
    BY <2>1
  <2>2. /\ p \in Path /\ path \in Path /\ Len(p) \in Nat /\ Len(path) \in Nat
        /\ k \in 1 .. Len(p) /\ k \in 1 .. k
    BY <1>1 DEF Path, InOrder
  <2>3. q \in DOMAIN d
    <3>1. q \in Directories(DOMAIN d)
      BY <2>1a, DirectoryIs
    <3> QED
      BY <3>1 DEF InOrder
  <2>4. Len(q) = k
    BY <2>1a, <2>2, PrefixOfPrefix
  <2>5. ASSUME IsPrefix(path, q) PROVE IsPrefix(path, p)
    <3>1. Len(path) <= k /\ SubSeq(path, 1, Len(path)) = SubSeq(q, 1, Len(path))
      BY <2>4, <2>5 DEF IsPrefix
    <3>2. SubSeq(q, 1, Len(path)) = SubSeq(p, 1, Len(path))
      <4>1. CASE Len(path) = 0
        BY <4>1, SubSeqEmpty
      <4>2. CASE Len(path) # 0
        <5>1. Len(path) \in 1 .. k
          BY <4>2, <3>1, <2>2
        <5> QED
          BY <5>1, <2>1a, <2>2, PrefixOfPrefix
      <4> QED
        BY <4>1, <4>2
    <3> QED
      BY <3>1, <3>2, <2>2 DEF IsPrefix
  <2> QED
    BY <2>3, <2>5, <2>1
<1> HIDE DEF stay
<1>3. InOrder(now)
  BY <1>1, <1>2 DEF InOrder
<1> QED
  BY <1>3 DEF stay

-----------------------------------------------------------------------------
(* Types.                                                                  *)

(* RepairTypeOK, but for the directory. *)
Kept ==
  /\ lane \in DOMAIN Lanes
  /\ report \subseteq DOMAIN Lanes[lane].items /\ left \subseteq report
  /\ stage \in {"idle", "repairing"}
  /\ stage = "idle" => left = {}
  /\ limit \in 0 .. Lanes[lane].cap /\ repairs \in 0 .. limit
  /\ templated \in BOOLEAN /\ blocked \in BOOLEAN /\ concluded \in BOOLEAN
  /\ current \in BOOLEAN
  /\ meddling \in 0 .. MaxMeddling

TypesHold == Kept /\ InOrder(disk)

LEMMA TypesAreOK == TypesHold => RepairTypeOK
BY DEF TypesHold, Kept, InOrder, RepairTypeOK, Items

LEMMA FreshInOrder ==
  ASSUME NEW l \in DOMAIN Lanes
  PROVE  InOrder([p \in Fresh(l) \cup Directories(Fresh(l)) |->
                    IF p \in Fresh(l) THEN "template" ELSE "dir"])
<1> DEFINE paths == Fresh(l)
           d == [p \in paths \cup Directories(paths) |->
                   IF p \in paths THEN "template" ELSE "dir"]
<1>1. paths \subseteq Path
  BY LanesFit DEF Path
<1> HIDE DEF paths
<1>2. /\ DOMAIN d = paths \cup Directories(paths)
      /\ \A p \in DOMAIN d : d[p] \in {"template", "dir"}
  OBVIOUS
<1> HIDE DEF d
<1>3. Directories(paths) \subseteq Path /\ Directories(Directories(paths)) \subseteq Directories(paths)
  BY <1>1, DirectoriesNest
<1>4. Directories(DOMAIN d) = Directories(paths) \cup Directories(Directories(paths))
  BY <1>2, DirectoriesOfUnion
<1>5. InOrder(d)
  BY <1>1, <1>2, <1>3, <1>4 DEF InOrder, FileContent
<1> QED
  BY <1>5 DEF d, paths

LEMMA ItemsArePaths ==
  ASSUME NEW l \in DOMAIN Lanes, NEW k \in DOMAIN Lanes[l].items
  PROVE  Lanes[l].items[k].path \in Path
<1>1. Fresh(l) \subseteq Path /\ Lanes[l].items[k].path \in Fresh(l) \cup Directories(Fresh(l))
  BY LanesFit DEF Path
<1> QED
  BY <1>1, DirectoriesNest

(* What a repair puts is one of two contents, and the fallback only where the
   fallback knows of. *)
LEMMA ReplacementIs ==
  ASSUME NEW path, Replacement(path) # "none"
  PROVE  \/ Replacement(path) = "template"
         \/ Replacement(path) = "fallback" /\ path \in FallbackFiles
BY DEF Replacement

LEMMA TypesInit == RepairInit => TypesHold
<1> SUFFICES ASSUME RepairInit PROVE TypesHold
  OBVIOUS
<1>1. lane \in DOMAIN Lanes /\ Lanes[lane].cap \in Nat
  BY LanesFit DEF RepairInit
<1>2. InOrder(disk)
  BY <1>1, FreshInOrder DEF RepairInit
<1> QED
  <2>1. /\ stage = "idle" /\ report = {} /\ left = {} /\ limit = 0 /\ repairs = 0
        /\ ~templated /\ ~blocked /\ ~concluded /\ ~current /\ meddling = 0
        /\ {templated, blocked, concluded, current} \subseteq BOOLEAN
    BY DEF RepairInit
  <2>2. limit \in 0 .. Lanes[lane].cap /\ repairs \in 0 .. limit /\ meddling \in 0 .. MaxMeddling
    BY <2>1, <1>1, RepairAssumption
  <2>3. Kept
    BY <1>1, <2>1, <2>2 DEF Kept
  <2> QED
    BY <1>2, <2>3 DEF TypesHold

LEMMA TypesStep == TypesHold /\ [RepairNext]_repairVars => TypesHold'
<1> SUFFICES ASSUME TypesHold, [RepairNext]_repairVars PROVE TypesHold'
  OBVIOUS
<1> USE RepairAssumption DEF TypesHold
<1>0. lane \in DOMAIN Lanes /\ Lanes[lane].cap \in Nat
  BY LanesFit DEF Kept
<1>1. CASE Validate
  <2>1. report' \subseteq DOMAIN Items /\ left = {}
    BY <1>1 DEF Validate, FailedItems, Items, Kept
  <2> QED
    BY <2>1, <1>1 DEF Validate, Kept, Items
<1>2. CASE BeginRepair
  <2>1. PICK requested \in Limits : limit' = AtMost(Lanes[lane].cap, AtLeast0(requested))
    BY <1>2 DEF BeginRepair
  <2>2. limit' \in 0 .. Lanes[lane].cap
    <3> DEFINE cap == Lanes[lane].cap
    <3>1. requested \in Int /\ cap \in Nat
      BY <1>0
    <3> HIDE DEF cap
    <3>2. AtMost(cap, AtLeast0(requested)) \in 0 .. cap
      BY <3>1 DEF AtMost, AtLeast0
    <3> QED
      BY <3>2, <2>1 DEF cap
  <2>3. current' \in BOOLEAN
    BY <1>2 DEF BeginRepair, Kept
  <2> QED
    <3>1. /\ lane' = lane /\ disk' = disk /\ report' = report /\ meddling' = meddling
          /\ stage' = "repairing" /\ templated' \in BOOLEAN /\ left' = report /\ repairs' = 0
          /\ blocked' \in BOOLEAN /\ concluded' \in BOOLEAN
      BY <1>2 DEF BeginRepair
    <3>2. repairs' \in 0 .. limit'
      BY <3>1, <2>2, <1>0
    <3> QED
      BY <3>1, <3>2, <2>2, <2>3 DEF Kept
<1>3. CASE LimitReached
  BY <1>3 DEF LimitReached, Kept
<1>4. CASE EndRepair
  BY <1>4 DEF EndRepair, Kept
<1>5. ASSUME NEW k \in left, Unrepairable(k) PROVE TypesHold'
  BY <1>5 DEF Unrepairable, Kept
<1>6. ASSUME NEW k \in left, Restore(k) PROVE TypesHold'
  <2>1. Items[k].path \in Path
    BY <1>0, ItemsArePaths DEF Kept, Items
  <2>2. Replacement(Items[k].path) \in FileContent
    BY <1>6, ReplacementIs DEF Restore, Restorable, FileContent
  <2>3. InOrder(disk')
    BY <2>1, <2>2, <1>6, PutInOrder, WrittenIs DEF Restore
  <2> QED
    BY <2>3, <1>0, <1>6 DEF Restore, Restorable, Kept
<1>11. ASSUME Meddles,
              \/ UNCHANGED <<stage, left>>
              \/ stage' = "idle" /\ left' = {}
       PROVE  Kept'
  <2>1. meddling' \in 0 .. MaxMeddling
    BY <1>11 DEF Meddles, Kept
  <2> QED
    BY <2>1, <1>11 DEF Meddles, Kept
<1>7. CASE KillRepair
  <2>1. InOrder(disk')
    <3>1. CASE UNCHANGED disk
      BY <3>1
    <3>2. ASSUME NEW k \in left, disk' = Written(Items[k].path, "lacking") PROVE InOrder(disk')
      <4>1. Items[k].path \in Path
        BY <1>0, ItemsArePaths DEF Kept, Items
      <4> QED
        BY <4>1, <3>2, PutInOrder, WrittenIs DEF FileContent
    <3> QED
      BY <3>1, <3>2, <1>7 DEF KillRepair
  <2> QED
    BY <2>1, <1>7, <1>11 DEF KillRepair
<1>8. CASE OperatorRemoves
  <2>1. InOrder(disk')
    BY <1>8, RemovedInOrder DEF OperatorRemoves
  <2> QED
    BY <2>1, <1>8, <1>11 DEF OperatorRemoves
<1>9. CASE OperatorWrites
  <2>1. PICK path \in DOMAIN disk, content \in {"own", "lacking"} :
          disk' = [disk EXCEPT ![path] = content]
    BY <1>9 DEF OperatorWrites
  <2>2. InOrder(disk')
    BY <2>1 DEF InOrder, FileContent
  <2> QED
    BY <2>2, <1>9, <1>11 DEF OperatorWrites
<1>10. CASE UNCHANGED repairVars
  BY <1>10 DEF repairVars, Kept, InOrder
<1> QED
  BY <1>1, <1>2, <1>3, <1>4, <1>5, <1>6, <1>7, <1>8, <1>9, <1>10 DEF RepairNext

-----------------------------------------------------------------------------
(* What is put back helps: its entry passes afterwards, and so does whatever *)
(* passed before.                                                           *)

LEMMA PutHelps ==
  ASSUME NEW l \in DOMAIN Lanes, NEW d, NEW k \in DOMAIN Lanes[l].items,
         NEW content \in {"template", "fallback"},
         content = "fallback" => Lanes[l].items[k].path \in FallbackFiles
  PROVE  Failing(l, Put(d, Lanes[l].items[k].path, content)) \subseteq Failing(l, d) \ {k}
<1> DEFINE path == Lanes[l].items[k].path
           now == Put(d, path, content)
<1>1. /\ DOMAIN now = DOMAIN d \cup {path} \cup Directories({path})
      /\ now[path] = content
      /\ \A p \in DOMAIN d : p # path => now[p] = d[p]
  BY DEF Put
<1>2. \A i \in DOMAIN Lanes[l].items :
        Lanes[l].items[i].marked /\ Lanes[l].items[i].path = path => content = "template"
  BY LanesFit
<1> HIDE DEF now
<1>3. ASSUME NEW i \in DOMAIN Lanes[l].items,
             i = k \/ ~FailsOn(d, Lanes[l].items[i])
      PROVE  ~FailsOn(now, Lanes[l].items[i])
  <2> DEFINE item == Lanes[l].items[i]
  <2>1. CASE item.path = path
    BY <2>1, <1>1, <1>2 DEF FailsOn
  <2>2. CASE item.path # path
    <3>1. ~FailsOn(d, item)
      BY <2>2, <1>3
    <3> HIDE DEF path
    <3> QED
      BY <3>1, <2>2, <1>1 DEF FailsOn
  <2> QED
    BY <2>1, <2>2
<1> QED
  BY <1>3 DEF Failing, now

-----------------------------------------------------------------------------
(* The inductive invariant.                                                *)

(* What fails is in the report as long as the report is of the directory. *)
Covers == current => Failing(lane, disk) \subseteq report

(* A report nothing was done about says what fails. *)
UpToDate ==
  current /\ stage = "idle" /\ ~concluded => Failing(lane, disk) = report

(* Nothing fails before somebody interferes. *)
Untouched == meddling = 0 => Failing(lane, disk) = {} /\ report = {}

(* A repair on its way: nothing was put back because nothing worked through so
   far could be, or something has been; and what is worked through passes
   unless the repair is blocked. *)
UnderWay ==
  stage = "repairing" =>
    /\ ~concluded
    /\ current =>
         /\ repairs = 0 =>
              /\ Failing(lane, disk) = report
              /\ \A k \in report \ left : Replacement(Items[k].path) = "none"
         /\ repairs # 0 => Failing(lane, disk) # report
         /\ ~blocked => Failing(lane, disk) \subseteq left

(* RepairHelps, of a repair that has ended, in terms of Failing. *)
Ended ==
  concluded /\ current =>
    /\ repairs = 0 =>
         /\ Failing(lane, disk) = report
         /\ limit = 0 \/ \A k \in report : Replacement(Items[k].path) = "none"
    /\ repairs # 0 => Failing(lane, disk) # report
    /\ repairs # 0 /\ ~blocked => Failing(lane, disk) = {}

RepairInv == TypesHold /\ Covers /\ UpToDate /\ Untouched /\ UnderWay /\ Ended

LEMMA RepairInitInv == RepairInit => RepairInv
<1> SUFFICES ASSUME RepairInit PROVE RepairInv
  OBVIOUS
<1>1. TypesHold
  BY TypesInit
<1>2. /\ lane \in DOMAIN Lanes /\ stage = "idle" /\ ~concluded /\ ~current /\ report = {}
      /\ disk = [p \in Fresh(lane) \cup Directories(Fresh(lane)) |->
                   IF p \in Fresh(lane) THEN "template" ELSE "dir"]
  BY DEF RepairInit
<1>3. Failing(lane, disk) = {}
  <2>1. ASSUME NEW k \in DOMAIN Lanes[lane].items PROVE ~FailsOn(disk, Lanes[lane].items[k])
    <3> DEFINE item == Lanes[lane].items[k]
    <3>1. /\ item.path \in Fresh(lane) \cup Directories(Fresh(lane))
          /\ item.marked => item.path \in Fresh(lane)
      BY <1>2, LanesFit
    <3> HIDE DEF item
    <3>2. /\ DOMAIN disk = Fresh(lane) \cup Directories(Fresh(lane))
          /\ \A p \in Fresh(lane) : disk[p] = "template"
      BY <1>2
    <3>3. ~FailsOn(disk, item)
      BY <3>1, <3>2 DEF FailsOn
    <3> QED
      BY <3>3 DEF item
  <2> QED
    BY <2>1 DEF Failing
<1> QED
  BY <1>1, <1>2, <1>3 DEF RepairInv, Covers, UpToDate, Untouched, UnderWay, Ended

LEMMA RepairStepInv == RepairInv /\ [RepairNext]_repairVars => RepairInv'
<1> SUFFICES ASSUME RepairInv, [RepairNext]_repairVars PROVE RepairInv'
  OBVIOUS
<1> DEFINE fails == Failing(lane, disk)
<1>1. TypesHold'
  BY TypesStep DEF RepairInv
<1>2. /\ lane \in DOMAIN Lanes /\ left \subseteq report /\ report \subseteq DOMAIN Items
      /\ stage \in {"idle", "repairing"} /\ repairs \in Nat /\ limit \in Nat
      /\ blocked \in BOOLEAN /\ concluded \in BOOLEAN /\ current \in BOOLEAN
      /\ meddling \in Nat
      /\ TypesHold
  <2>1. Lanes[lane].cap \in Nat
    BY LanesFit DEF RepairInv, TypesHold, Kept
  <2> QED
    BY <2>1, RepairAssumption DEF RepairInv, TypesHold, Kept, Items
<1>3. /\ current => fails \subseteq report
      /\ current /\ stage = "idle" /\ ~concluded => fails = report
      /\ meddling = 0 => fails = {} /\ report = {}
  BY DEF RepairInv, Covers, UpToDate, Untouched
<1>4. CASE Validate
  <2>1. /\ report' = fails /\ lane' = lane /\ disk' = disk /\ stage' = "idle" /\ ~concluded'
        /\ meddling' = meddling
    BY <1>4, FailingIs DEF Validate
  <2> QED
    BY <2>1, <1>1, <1>3 DEF RepairInv, Covers, UpToDate, Untouched, UnderWay, Ended
<1>5. CASE BeginRepair
  <2>1. /\ report' = report /\ lane' = lane /\ disk' = disk /\ left' = report
        /\ stage = "idle" /\ stage' = "repairing" /\ ~concluded'
        /\ current' = (current /\ ~concluded) /\ repairs' = 0 /\ meddling' = meddling
    BY <1>5 DEF BeginRepair
  <2>2. current' => fails = report
    BY <2>1, <1>3
  <2> QED
    BY <2>1, <2>2, <1>1, <1>3 DEF RepairInv, Covers, UpToDate, Untouched, UnderWay, Ended
<1>6. CASE LimitReached
  <2>1. /\ report' = report /\ lane' = lane /\ disk' = disk /\ stage = "repairing"
        /\ stage' = "idle" /\ concluded' /\ current' = current /\ repairs' = repairs
        /\ limit' = limit /\ templated' = templated /\ blocked' /\ meddling' = meddling
        /\ repairs >= limit
    BY <1>6 DEF LimitReached
  <2>2. repairs = 0 => limit = 0
    BY <2>1, <1>2
  <2>3. /\ current /\ repairs = 0 => fails = report
        /\ current /\ repairs # 0 => fails # report
    BY <2>1 DEF RepairInv, UnderWay
  <2> QED
    BY <2>1, <2>2, <2>3, <1>1, <1>3 DEF RepairInv, Covers, UpToDate, Untouched, UnderWay, Ended
<1>7. CASE EndRepair
  <2>1. /\ report' = report /\ lane' = lane /\ disk' = disk /\ stage = "repairing"
        /\ stage' = "idle" /\ concluded' /\ current' = current /\ repairs' = repairs
        /\ templated' = templated /\ blocked' = blocked /\ meddling' = meddling
        /\ left = {}
    BY <1>7 DEF EndRepair
  <2>2. /\ current /\ repairs = 0 =>
             /\ fails = report
             /\ \A k \in report : Replacement(Items[k].path) = "none"
        /\ current /\ repairs # 0 => fails # report
        /\ current /\ ~blocked => fails = {}
    BY <2>1 DEF RepairInv, UnderWay
  <2> QED
    BY <2>1, <2>2, <1>1, <1>3
    DEF RepairInv, Covers, UpToDate, Untouched, UnderWay, Ended, Replacement, Items
<1>8. ASSUME NEW k \in left, Unrepairable(k) PROVE RepairInv'
  <2>1. /\ report' = report /\ lane' = lane /\ disk' = disk /\ stage = "repairing"
        /\ stage' = "repairing" /\ concluded' = concluded /\ current' = current
        /\ repairs' = repairs /\ templated' = templated /\ blocked' /\ meddling' = meddling
        /\ left' = left \ {k} /\ Replacement(Items[k].path) = "none"
    BY <1>8 DEF Unrepairable, NextEntry
  <2>2. /\ ~concluded
        /\ current /\ repairs = 0 =>
             /\ fails = report
             /\ \A i \in report \ left' : Replacement(Items[i].path) = "none"
        /\ current /\ repairs # 0 => fails # report
    BY <2>1 DEF RepairInv, UnderWay
  <2> QED
    BY <2>1, <2>2, <1>1, <1>3
    DEF RepairInv, Covers, UpToDate, Untouched, UnderWay, Ended, Replacement, Items
<1>9. ASSUME NEW k \in left, Restore(k) PROVE RepairInv'
  <2> DEFINE put == Replacement(Items[k].path)
             now == Failing(lane, disk')
  <2>1. /\ report' = report /\ lane' = lane /\ stage = "repairing"
        /\ stage' = "repairing" /\ concluded' = concluded /\ current' = current
        /\ repairs' = repairs + 1 /\ blocked' = blocked /\ meddling' = meddling
        /\ left' = left \ {k} /\ disk' = Put(disk, Items[k].path, put) /\ put # "none"
    BY <1>9, WrittenIs DEF Restore, Restorable, NextEntry
  <2>2. put \in {"template", "fallback"} /\ (put = "fallback" => Items[k].path \in FallbackFiles)
    BY <2>1, ReplacementIs
  <2>3. now \subseteq fails \ {k}
    <3>1. k \in DOMAIN Lanes[lane].items
      BY <1>2 DEF Items
    <3> HIDE DEF put
    <3> QED
      BY <2>1, <2>2, <3>1, <1>2, PutHelps DEF Items
  <2>4. k \in report /\ meddling # 0
    BY <1>2, <1>3
  <2>5. /\ ~concluded
        /\ current /\ ~blocked => fails \subseteq left
    BY <2>1 DEF RepairInv, UnderWay
  <2>6. repairs' # 0
    BY <2>1, <1>2
  <2> HIDE DEF fails, put
  <2>7. Covers' /\ UpToDate' /\ Untouched' /\ Ended'
    BY <2>1, <2>3, <2>4, <2>5, <1>3 DEF Covers, UpToDate, Untouched, Ended
  <2>8. UnderWay'
    BY <2>1, <2>3, <2>4, <2>5, <2>6 DEF UnderWay
  <2> QED
    BY <2>7, <2>8, <1>1 DEF RepairInv
<1>10. ASSUME Meddles PROVE Covers' /\ UpToDate' /\ Untouched' /\ Ended'
  <2>1. ~current' /\ ~concluded' /\ meddling' # 0
    BY <1>10, <1>2 DEF Meddles
  <2> QED
    BY <2>1 DEF Covers, UpToDate, Untouched, Ended
<1>11. CASE KillRepair \/ OperatorRemoves \/ OperatorWrites
  <2>1. Meddles
    BY <1>11 DEF KillRepair, OperatorRemoves, OperatorWrites
  <2>2. ~current' /\ ~concluded'
    BY <2>1 DEF Meddles
  <2> QED
    BY <1>1, <1>10, <2>1, <2>2 DEF RepairInv, UnderWay
<1>12. CASE UNCHANGED repairVars
  BY <1>1, <1>12
  DEF RepairInv, Covers, UpToDate, Untouched, UnderWay, Ended, repairVars, Replacement, Items
<1> QED
  BY <1>4, <1>5, <1>6, <1>7, <1>8, <1>9, <1>11, <1>12 DEF RepairNext

-----------------------------------------------------------------------------

LEMMA InvHelps == RepairInv => RepairHelps
<1> SUFFICES ASSUME RepairInv PROVE RepairHelps
  OBVIOUS
<1> DEFINE fails == FailedItems
<1>1. /\ meddling = 0 => fails = {}
      /\ concluded /\ current =>
           /\ fails \subseteq report
           /\ repairs = 0 =>
                /\ fails = report
                /\ limit = 0 \/ \A k \in report : Replacement(Items[k].path) = "none"
           /\ repairs # 0 => fails # report
           /\ repairs # 0 /\ ~blocked => fails = {}
  BY FailingIs DEF RepairInv, Untouched, Covers, Ended
<1>2. fails = {} => StartsUp
  <2> SUFFICES ASSUME FailedItems = {}, NEW p \in StartupChecks(lane) PROVE p \in DOMAIN disk
    BY DEF StartsUp
  <2>1. lane \in DOMAIN Lanes
    BY DEF RepairInv, TypesHold, Kept
  <2>2. PICK k \in DOMAIN Items : p = Items[k].path
    BY <2>1, LanesFit DEF Items
  <2> QED
    BY <2>2 DEF FailedItems, Fails
<1> HIDE DEF fails
<1>3. CASE repairs = 0
  BY <1>1, <1>3 DEF RepairHelps, RepairStatus, fails
<1>4. CASE repairs # 0 /\ blocked
  BY <1>1, <1>4 DEF RepairHelps, RepairStatus, fails
<1>5. CASE repairs # 0 /\ ~blocked
  BY <1>1, <1>2, <1>5 DEF RepairHelps, RepairStatus, fails
<1> QED
  BY <1>3, <1>4, <1>5

(* A repair tells the truth, for whatever an operator may touch, any limit and
   any number of interferences: after "repaired" nothing fails and the
   application has what it starts up with, after "partial" less fails than
   before, after "none" the same, all of it beyond repair or the limit none
   (validator/generated_app_repair.py:55-116). *)
THEOREM RepairTellsTheTruth == RepairSpec => []RepairHelps
<1>1. RepairInit => RepairInv
  BY RepairInitInv
<1>2. RepairInv /\ [RepairNext]_repairVars => RepairInv'
  BY RepairStepInv
<1> QED
  BY <1>1, <1>2, InvHelps, PTL DEF RepairSpec

(* Every variable of a lane keeps its type, and nothing in its directory is
   without the directories it is in. *)
THEOREM RepairTypeCorrect == RepairSpec => []RepairTypeOK
BY TypesAreOK, TypesInit, TypesStep, PTL DEF RepairSpec

=============================================================================
