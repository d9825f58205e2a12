----------------------- MODULE CapabilityGovernance ------------------------
(***************************************************************************)
(* Self-extension: `self-extend` generates a candidate for every missing   *)
(* capability, evaluates it, and registers or quarantines it; rollback     *)
(* takes a registered one out again.  The registry is one JSON file with   *)
(* two views: governance.py edits "capabilities" and "history" in a copy   *)
(* of the whole file, CapabilityRegistry edits the trust sections and      *)
(* "history" in another.  Each view is read whole and written whole, with  *)
(* no lock, so the order of the reads and writes decides what survives.    *)
(* Gaps are looked for in the lane's packs, never in the registry, so a    *)
(* capability may be asked for again whatever became of it.                *)
(***************************************************************************)
EXTENDS Naturals, Sequences, FiniteSets

CONSTANTS
  Procs,         \* operating-system processes
  Tools,         \* tool ids of the capabilities that may be missing
  Kind,          \* Kind[t]: what the name of t makes of it
  SameId,        \* tools whose capability_id is their tool_id (kind "tool")
  NChecks,       \* number of checks of validate_tool_candidate
  Overlaps,      \* may commands run at the same time? (the cases to look at)
  Bounds         \* commands issued, gaps per command, processes killed:
                 \* Bounds[TRUE] with overlap, Bounds[FALSE] without

ASSUME GovernanceAssumption ==
  /\ Tools # {}
  /\ Kind \in [Tools -> {"core", "guarded", "plain"}]
  /\ SameId \subseteq Tools
  /\ NChecks \in Nat \ {0}
  /\ Overlaps \subseteq BOOLEAN
  /\ Bounds \in [BOOLEAN -> [commands : Nat, gaps : Nat, crashes : Nat]]

VARIABLES
  overlap,      \* do commands overlap in this behaviour?
  registry,     \* the registry file, as last written whole
  quarantine,   \* quarantine[t]: entries for t in the quarantine file
  failures,     \* failures[t]: entries for t in the failure corpus
  torn,         \* files a killed process left truncated
  pc,           \* pc[p]: the step the command of p is at
  job,          \* job[p]: what the command of p works on
  snap,         \* snap[p]: governance.py's copy of the registry
  view,         \* view[p]: CapabilityRegistry.payload
  listed,       \* listed[p]: the quarantine entries p has read
  commands,     \* number of commands issued
  crashes       \* number of processes killed

files == <<registry, quarantine, failures, torn>>
procs == <<pc, job, snap, view, listed>>
counts == <<commands, crashes>>
vars == <<overlap, files, procs, counts>>

-----------------------------------------------------------------------------

(* A candidate with what its decision rests on: the checks it passed and
   whether the operator gave --approve-core.  Generated from a template, it
   passes every check unless the name it quotes contains a forbidden snippet. *)
Candidate == [tool : Tools, passed : {NChecks - 1, NChecks}, approved : BOOLEAN]
Entry == [candidate : Candidate, status : {"active", "rolled_back"}]
Event == [event : {"registered", "quarantined", "rolled_back", "added", "demoted"},
          tool : Tools]
Counts == [Tools -> Nat]
Section == [Candidate -> Nat]     \* a section of the registry, as a bag

(* The sections the commands write; built_in and the others stay empty. *)
Registry == [capabilities : Seq(Entry), history : Seq(Event),
             trusted_internal : Section, quarantined : Section]

EmptyRegistry == [capabilities |-> <<>>, history |-> <<>>,
                  trusted_internal |-> [c \in Candidate |-> 0],
                  quarantined |-> [c \in Candidate |-> 0]]

Job == [gaps : SUBSET Tools, approved : BOOLEAN, candidate : Candidate]
NoJob == [gaps |-> {}, approved |-> FALSE, candidate |-> CHOOSE c \in Candidate : TRUE]
NoCounts == [t \in Tools |-> 0]

ReadStep == {"snapshot", "view", "list", "rb_view", "rb_load"}
WriteStep == {"add", "register", "enlist", "reject", "rb_demote", "rb_save"}
Pc == {"idle", "log"} \cup ReadStep \cup WriteStep

FileOf(step) == IF step \in {"list", "enlist"} THEN "quarantine" ELSE "registry"

Idle == \A p \in Procs : pc[p] = "idle"

-----------------------------------------------------------------------------
(* evaluate_registration, with the report of validate_tool_candidate.      *)

QualityScore(c) == (c.passed * 100) \div NChecks

QualityThreshold(c) ==
  CASE Kind[c.tool] = "core" -> 92
    [] Kind[c.tool] = "guarded" -> 90
    [] Kind[c.tool] = "plain" -> 85

(* Faulty: the score stands for validity. *)
AcceptedOnScore(c) ==
  /\ QualityScore(c) >= QualityThreshold(c)
  /\ Kind[c.tool] = "core" => c.approved

(* The command line always requires approval for core impact.  A generated
   candidate's descriptor is always complete, so no later issue undoes this. *)
Accepted(c) ==
  /\ c.passed = NChecks
  /\ QualityScore(c) >= QualityThreshold(c)
  /\ Kind[c.tool] = "core" => c.approved

-----------------------------------------------------------------------------
(* The changes of the two views.                                           *)

Noted(r, event, t) ==
  [r EXCEPT !.history = Append(@, [event |-> event, tool |-> t])]

(* CapabilityRegistry.add_capability *)
WithCapability(r, c) ==
  IF Accepted(c)
    THEN Noted([r EXCEPT !.trusted_internal[c] = @ + 1], "added", c.tool)
    ELSE Noted([r EXCEPT !.quarantined[c] = @ + 1], "added", c.tool)

(* Faulty: an entry the tool already has is made active again. *)
WithRegistrationReused(r, c) ==
  LET old == {i \in DOMAIN r.capabilities : r.capabilities[i].candidate.tool = c.tool}
  IN  IF old = {}
        THEN Noted([r EXCEPT !.capabilities =
                      Append(@, [candidate |-> c, status |-> "active"])],
                   "registered", c.tool)
        ELSE Noted([r EXCEPT !.capabilities =
                      [i \in DOMAIN @ |-> IF i \in old
                         THEN [candidate |-> c, status |-> "active"] ELSE @[i]]],
                   "registered", c.tool)

(* register_or_quarantine_candidate's own entry and event *)
WithRegistration(r, c) ==
  Noted([r EXCEPT !.capabilities =
           Append(@, [candidate |-> c, status |-> "active"])],
        "registered", c.tool)

(* CapabilityRegistry.demote: one entry with this capability_id moves; the
   event is noted whether or not there is one. *)
Demotable(r, t) ==
  {c \in Candidate : c.tool = t /\ t \in SameId /\ r.trusted_internal[c] > 0}

Demotions(r, t) ==
  IF Demotable(r, t) = {}
    THEN {Noted(r, "demoted", t)}
    ELSE {Noted([r EXCEPT !.trusted_internal[c] = @ - 1,
                          !.quarantined[c] = @ + 1], "demoted", t)
            : c \in Demotable(r, t)}

(* Faulty: the status is misspelt, as no other code reads it. *)
RollBackMisspelt(r, t) ==
  Noted([r EXCEPT !.capabilities =
           [i \in DOMAIN @ |-> IF @[i].candidate.tool = t
              THEN [@[i] EXCEPT !.status = "rolledback"] ELSE @[i]]],
        "rolled_back", t)

(* Faulty: only the newest entry of the tool is rolled back. *)
RollBackNewest(r, t) ==
  Noted([r EXCEPT !.capabilities =
           [i \in DOMAIN @ |->
              IF /\ @[i].candidate.tool = t
                 /\ \A j \in DOMAIN @ : j > i => @[j].candidate.tool # t
                THEN [@[i] EXCEPT !.status = "rolled_back"] ELSE @[i]]],
        "rolled_back", t)

(* rollback_capability: every active entry of the tool. *)
RolledBack(r, t) ==
  Noted([r EXCEPT !.capabilities =
           [i \in DOMAIN @ |-> IF @[i].candidate.tool = t
              THEN [@[i] EXCEPT !.status = "rolled_back"] ELSE @[i]]],
        "rolled_back", t)

-----------------------------------------------------------------------------
(* Steps common to the commands.                                           *)

CanStart(p) ==
  /\ pc[p] = "idle"
  /\ overlap \/ Idle
  /\ commands < Bounds[overlap].commands
  /\ commands' = commands + 1

Goto(p, step) == pc' = [pc EXCEPT ![p] = step]

(* A process that ends keeps nothing. *)
Ends(p) ==
  /\ Goto(p, "idle")
  /\ job' = [job EXCEPT ![p] = NoJob]
  /\ snap' = [snap EXCEPT ![p] = EmptyRegistry]
  /\ view' = [view EXCEPT ![p] = EmptyRegistry]
  /\ listed' = [listed EXCEPT ![p] = NoCounts]

NextGap(p) ==
  IF job[p].gaps = {}
    THEN Ends(p)
    ELSE Goto(p, "snapshot") /\ UNCHANGED <<job, snap, view, listed>>

Reads(p, step) ==
  /\ pc[p] = step
  /\ FileOf(step) \notin torn
  /\ UNCHANGED <<overlap, files, counts>>

(* The file is rewritten whole, over whatever was left of it. *)
WritesRegistry(p, step, r) ==
  /\ pc[p] = step
  /\ registry' = r
  /\ torn' = torn \ {"registry"}
  /\ UNCHANGED <<overlap, quarantine, failures, counts>>

Current(p) == job[p].candidate

-----------------------------------------------------------------------------
(* self-extend                                                             *)

(* Without a gap the command ends at once and touches no file. *)
Synthesize(p) ==
  /\ CanStart(p)
  /\ \E gaps \in SUBSET Tools \ {{}}, approved \in BOOLEAN :
       /\ Cardinality(gaps) <= Bounds[overlap].gaps
       /\ job' = [job EXCEPT ![p].gaps = gaps, ![p].approved = approved]
  /\ Goto(p, "snapshot")
  /\ UNCHANGED <<overlap, files, snap, view, listed, crashes>>

(* The next gap's candidate is generated and evaluated, and governance.py
   reads its copy of the registry. *)
ReadSnapshot(p) ==
  /\ Reads(p, "snapshot")
  /\ \E t \in job[p].gaps, passed \in {NChecks - 1, NChecks} :
       job' = [job EXCEPT ![p].gaps = @ \ {t},
                 ![p].candidate = [tool |-> t, passed |-> passed,
                                   approved |-> job[p].approved]]
  /\ snap' = [snap EXCEPT ![p] = registry]
  /\ Goto(p, "view")
  /\ UNCHANGED <<view, listed>>

ReadView(p) ==
  /\ Reads(p, "view")
  /\ view' = [view EXCEPT ![p] = registry]
  /\ Goto(p, IF Accepted(Current(p)) THEN "add" ELSE "list")
  /\ UNCHANGED <<job, snap, listed>>

(* The quarantine file is read before the candidate is added ... *)
ReadQuarantine(p) ==
  /\ Reads(p, "list")
  /\ listed' = [listed EXCEPT ![p] = quarantine]
  /\ Goto(p, "add")
  /\ UNCHANGED <<job, snap, view>>

AddCapability(p) ==
  /\ WritesRegistry(p, "add", WithCapability(view[p], Current(p)))
  /\ Goto(p, IF Accepted(Current(p)) THEN "register" ELSE "enlist")
  /\ UNCHANGED <<job, snap, view, listed>>

(* The copy read before the candidate was added is written over it. *)
Register(p) ==
  /\ WritesRegistry(p, "register", WithRegistration(snap[p], Current(p)))
  /\ NextGap(p)

(* Faulty: the list is written back as it was read. *)
EnlistNothing(p) ==
  /\ pc[p] = "enlist"
  /\ quarantine' = listed[p]
  /\ torn' = torn \ {"quarantine"}
  /\ Goto(p, "reject")
  /\ UNCHANGED <<overlap, registry, failures, job, snap, view, listed, counts>>

(* ... and written after it. *)
Enlist(p) ==
  /\ pc[p] = "enlist"
  /\ quarantine' = [listed[p] EXCEPT ![Current(p).tool] = @ + 1]
  /\ torn' = torn \ {"quarantine"}
  /\ Goto(p, "reject")
  /\ UNCHANGED <<overlap, registry, failures, job, snap, view, listed, counts>>

SaveRejected(p) ==
  /\ WritesRegistry(p, "reject", Noted(snap[p], "quarantined", Current(p).tool))
  /\ Goto(p, "log")
  /\ UNCHANGED <<job, snap, view, listed>>

LogFailure(p) ==
  /\ pc[p] = "log"
  /\ failures' = [failures EXCEPT ![Current(p).tool] = @ + 1]
  /\ NextGap(p)
  /\ UNCHANGED <<overlap, registry, quarantine, torn, counts>>

-----------------------------------------------------------------------------
(* rollback_capability                                                     *)

Rollback(p) ==
  /\ CanStart(p)
  /\ \E t \in Tools : job' = [job EXCEPT ![p].candidate.tool = t]
  /\ Goto(p, "rb_view")
  /\ UNCHANGED <<overlap, files, snap, view, listed, crashes>>

RollbackReadsView(p) ==
  /\ Reads(p, "rb_view")
  /\ view' = [view EXCEPT ![p] = registry]
  /\ Goto(p, "rb_demote")
  /\ UNCHANGED <<job, snap, listed>>

DemoteEntry(p) ==
  /\ \E r \in Demotions(view[p], Current(p).tool) :
       WritesRegistry(p, "rb_demote", r)
  /\ Goto(p, "rb_load")
  /\ UNCHANGED <<job, snap, view, listed>>

RollbackLoads(p) ==
  /\ Reads(p, "rb_load")
  /\ snap' = [snap EXCEPT ![p] = registry]
  /\ Goto(p, "rb_save")
  /\ UNCHANGED <<job, view, listed>>

RollbackSaves(p) ==
  /\ WritesRegistry(p, "rb_save", RolledBack(snap[p], Current(p).tool))
  /\ Ends(p)

-----------------------------------------------------------------------------

(* A file that was left truncated, or that another process is rewriting at
   this moment, does not parse: the command ends with an exception. *)
Raise(p) ==
  /\ pc[p] \in ReadStep
  /\ LET f == FileOf(pc[p]) IN
       \/ f \in torn
       \/ \E q \in Procs : pc[q] \in WriteStep /\ FileOf(pc[q]) = f
  /\ Ends(p)
  /\ UNCHANGED <<overlap, files, counts>>

(* Killed, perhaps inside the write it is at. *)
Crash(p) ==
  /\ pc[p] # "idle"
  /\ crashes < Bounds[overlap].crashes
  /\ crashes' = crashes + 1
  /\ \/ UNCHANGED torn
     \/ pc[p] \in WriteStep /\ torn' = torn \cup {FileOf(pc[p])}
  /\ Ends(p)
  /\ UNCHANGED <<overlap, registry, quarantine, failures, commands>>

Init ==
  /\ overlap \in Overlaps
  /\ registry = EmptyRegistry
  /\ quarantine = NoCounts
  /\ failures = NoCounts
  /\ torn = {}
  /\ pc = [p \in Procs |-> "idle"]
  /\ job = [p \in Procs |-> NoJob]
  /\ snap = [p \in Procs |-> EmptyRegistry]
  /\ view = [p \in Procs |-> EmptyRegistry]
  /\ listed = [p \in Procs |-> NoCounts]
  /\ commands = 0
  /\ crashes = 0

SelfExtend(p) ==
  \/ Synthesize(p)
  \/ ReadSnapshot(p) \/ ReadView(p) \/ ReadQuarantine(p)
  \/ AddCapability(p) \/ Register(p)
  \/ Enlist(p) \/ SaveRejected(p) \/ LogFailure(p)

RollBack(p) ==
  \/ Rollback(p) \/ RollbackReadsView(p) \/ DemoteEntry(p)
  \/ RollbackLoads(p) \/ RollbackSaves(p)

Next == \E p \in Procs : SelfExtend(p) \/ RollBack(p) \/ Raise(p) \/ Crash(p)

Spec == Init /\ [][Next]_vars

-----------------------------------------------------------------------------

(* Every variable stays within its type. *)
TypeOK ==
  /\ overlap \in Overlaps
  /\ registry \in Registry
  /\ quarantine \in Counts
  /\ failures \in Counts
  /\ torn \subseteq {"registry", "quarantine"}
  /\ pc \in [Procs -> Pc]
  /\ job \in [Procs -> Job]
  /\ snap \in [Procs -> Registry]
  /\ view \in [Procs -> Registry]
  /\ listed \in [Procs -> Counts]
  /\ commands \in Nat
  /\ crashes \in Nat

(* A candidate earns its place by passing every check and, where it touches
   the core, by the operator's approval. *)
Earned(c) ==
  /\ c.passed = NChecks
  /\ Kind[c.tool] = "core" => c.approved

OnlyEarned(r) ==
  /\ \A i \in DOMAIN r.capabilities : Earned(r.capabilities[i].candidate)
  /\ \A c \in Candidate : r.trusted_internal[c] > 0 => Earned(c)

(* Whatever is written over what, by whichever of the commands that overlap,
   and whoever is killed: neither view of the registry ever holds a capability
   as active or trusted that has not earned it. *)
EarnedTrust == OnlyEarned(registry)

Occurrences(e, t) ==
  {i \in DOMAIN registry.history : registry.history[i] = [event |-> e, tool |-> t]}

Registrations ==
  {i \in DOMAIN registry.history : registry.history[i].event = "registered"}

(* The history is a log the capability list can be replayed from: the n-th
   registration is the n-th entry, active unless its tool was rolled back
   since.  Commands that overlap, die and write stale copies back may lose
   registrations and rollbacks, but never one without its event, although two
   views of the file are written over one another. *)
HistoryReplays ==
  /\ Len(registry.capabilities) = Cardinality(Registrations)
  /\ \A i \in Registrations :
       LET entry == registry.capabilities[
                      Cardinality({j \in Registrations : j <= i})]
           tool == registry.history[i].tool
       IN  /\ entry.candidate.tool = tool
           /\ entry.status = "active" <=>
                \A j \in Occurrences("rolled_back", tool) : j < i

(* A rejection is recorded in three files.  With one command at a time the
   order of the writes makes the failure corpus the last to know and the
   quarantine file the first, and only a killed command or a torn file
   leaves them apart. *)
QuarantineTraced ==
  ~overlap =>
    \A t \in Tools :
      LET quarantinings == Cardinality(Occurrences("quarantined", t)) IN
        /\ failures[t] <= quarantinings
        /\ quarantinings <= quarantine[t]
        /\ Idle /\ crashes = 0 => failures[t] = quarantine[t]

(* A capability that was rolled back is not active again unless it is
   registered again: no entry changes but from active to rolled back, and
   none is lost.  (With commands that overlap both happen: a registration
   that read the registry before the rollback writes the old entry back.) *)
RollbackStands ==
  [][~overlap =>
       \A i \in DOMAIN registry.capabilities :
         LET before == registry.capabilities[i]
             after == registry'.capabilities[i]
         IN  /\ i \in DOMAIN registry'.capabilities
             /\ after.candidate = before.candidate
             /\ before.status = "rolled_back" => after.status = "rolled_back"
    ]_vars
=============================================================================
