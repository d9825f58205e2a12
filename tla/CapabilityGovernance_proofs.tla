-------------------- MODULE CapabilityGovernance_proofs --------------------
(***************************************************************************)
(* The properties of CapabilityGovernance for any tools, processes, bounds *)
(* and kills.  Overlapping or not: neither view of the registry ever       *)
(* trusts a capability that has not earned it, and the list of             *)
(* capabilities replays from the history.  One command at a time: the      *)
(* records of a rejection keep step, and rollbacks stand.                  *)
(***************************************************************************)
EXTENDS CapabilityGovernance, FiniteSetTheorems, TLAPS

(* Copies of the registry are written back at any later time, so the claim
   is about every copy; and a process about to register holds a candidate
   the evaluation accepted. *)
Copies ==
  /\ OnlyEarned(registry)
  /\ \A p \in Procs : OnlyEarned(snap[p]) /\ OnlyEarned(view[p])

Cleared == \A p \in Procs : pc[p] = "register" => Accepted(job[p].candidate)

IInv == TypeOK /\ Copies /\ Cleared

-----------------------------------------------------------------------------
(* Lemmas about the operators on a registry.                               *)

(* There is a candidate, so a process without a job is well defined. *)
LEMMA NoJobType == NoJob \in Job /\ NoCounts \in Counts
<1>1. PICK t \in Tools : TRUE
  BY GovernanceAssumption
<1>2. [tool |-> t, passed |-> NChecks, approved |-> FALSE] \in Candidate
  BY DEF Candidate
<1>3. (CHOOSE c \in Candidate : TRUE) \in Candidate
  BY <1>2
<1>4. QED
  BY <1>3 DEF NoJob, Job, NoCounts, Counts

(* The empty registry is one, and trusts nobody. *)
LEMMA EmptyType == EmptyRegistry \in Registry /\ OnlyEarned(EmptyRegistry)
<1> DEFINE none == [c \in Candidate |-> 0]
<1>1. none \in Section
  BY DEF Section
<1>2. \A c \in Candidate : ~(none[c] > 0)
  OBVIOUS
<1>3. EmptyRegistry = [capabilities |-> <<>>, history |-> <<>>,
                       trusted_internal |-> none, quarantined |-> none]
  BY DEF EmptyRegistry
<1> HIDE DEF none
<1>4. EmptyRegistry \in Registry
  BY <1>1, <1>3 DEF Registry
<1>5. QED
  BY <1>2, <1>3, <1>4 DEF OnlyEarned

(* One more, or one less where there is one, keeps a section a section. *)
LEMMA SectionSteps ==
  ASSUME NEW n \in Section, NEW c \in Candidate
  PROVE  /\ [n EXCEPT ![c] = @ + 1] \in Section
         /\ n[c] > 0 => [n EXCEPT ![c] = @ - 1] \in Section
<1>1. n[c] \in Nat
  BY DEF Section
<1>2. n[c] + 1 \in Nat /\ (n[c] > 0 => n[c] - 1 \in Nat)
  BY <1>1
<1>3. QED
  BY <1>2 DEF Section

(* Replacing one field of a registry by another of its type. *)
LEMMA FieldSteps ==
  ASSUME NEW r \in Registry, NEW n \in Section, NEW m \in Section,
         NEW list \in Seq(Entry)
  PROVE  /\ [r EXCEPT !.trusted_internal = n] \in Registry
         /\ [r EXCEPT !.quarantined = n] \in Registry
         /\ [r EXCEPT !.trusted_internal = n, !.quarantined = m] \in Registry
         /\ [r EXCEPT !.capabilities = list] \in Registry
BY DEF Registry

(* What the gate lets through has earned its place. *)
LEMMA AcceptedEarned == \A c : Accepted(c) => Earned(c)
BY DEF Accepted, Earned

(* A note in the history changes nobody's standing. *)
LEMMA NotedKeeps ==
  ASSUME NEW r \in Registry, NEW t \in Tools,
         NEW e \in {"registered", "quarantined", "rolled_back", "added", "demoted"}
  PROVE  /\ Noted(r, e, t) \in Registry
         /\ OnlyEarned(r) => OnlyEarned(Noted(r, e, t))
<1>1. [event |-> e, tool |-> t] \in Event
  BY DEF Event
<1>2. Append(r.history, [event |-> e, tool |-> t]) \in Seq(Event)
  BY <1>1 DEF Registry
<1>3. QED
  BY <1>2 DEF Noted, Registry, OnlyEarned

(* Adding a candidate to its section keeps the trusted one earned. *)
LEMMA WithCapabilityKeeps ==
  ASSUME NEW r \in Registry, NEW c \in Candidate, OnlyEarned(r)
  PROVE  WithCapability(r, c) \in Registry /\ OnlyEarned(WithCapability(r, c))
<1> DEFINE up == [r EXCEPT !.trusted_internal[c] = @ + 1]
           aside == [r EXCEPT !.quarantined[c] = @ + 1]
<1>1. c.tool \in Tools
  BY DEF Candidate
<1>2. up \in Registry /\ aside \in Registry
  <2>1. r.trusted_internal \in Section /\ r.quarantined \in Section
        /\ r.capabilities \in Seq(Entry)
    BY DEF Registry
  <2>2. QED
    BY <2>1, SectionSteps, FieldSteps
<1>3. OnlyEarned(aside)
  BY DEF OnlyEarned, Registry
<1>4. Accepted(c) => OnlyEarned(up)
  BY AcceptedEarned DEF OnlyEarned, Registry, Section
<1>5. QED
  BY <1>1, <1>2, <1>3, <1>4, NotedKeeps DEF WithCapability

(* Registering an accepted candidate. *)
LEMMA WithRegistrationKeeps ==
  ASSUME NEW r \in Registry, NEW c \in Candidate, OnlyEarned(r), Accepted(c)
  PROVE  WithRegistration(r, c) \in Registry /\ OnlyEarned(WithRegistration(r, c))
<1> DEFINE new == [candidate |-> c, status |-> "active"]
           longer == [r EXCEPT !.capabilities = Append(@, new)]
<1>1. c.tool \in Tools
  BY DEF Candidate
<1>2. new \in Entry /\ r.capabilities \in Seq(Entry)
  BY DEF Entry, Registry
<1>3. longer \in Registry
  <2>1. r.trusted_internal \in Section /\ Append(r.capabilities, new) \in Seq(Entry)
    BY <1>2 DEF Registry
  <2>2. QED
    BY <2>1, FieldSteps
<1>4. OnlyEarned(longer)
  <2>1. ASSUME NEW i \in DOMAIN longer.capabilities
        PROVE  Earned(longer.capabilities[i].candidate)
    <3> HIDE DEF new
    <3>1. longer.capabilities = Append(r.capabilities, new)
      BY DEF Registry
    <3>2. CASE i \in DOMAIN r.capabilities
      BY <3>1, <3>2, <1>2 DEF OnlyEarned
    <3>3. CASE i = Len(r.capabilities) + 1
      <4>1. longer.capabilities[i] = new
        BY <3>1, <3>3, <1>2
      <4>2. QED
        BY <4>1, AcceptedEarned DEF new
    <3>4. QED
      BY <3>1, <3>2, <3>3, <1>2
  <2>2. longer.trusted_internal = r.trusted_internal
    BY DEF Registry
  <2>3. QED
    BY <2>1, <2>2 DEF OnlyEarned
<1>5. WithRegistration(r, c) = Noted(longer, "registered", c.tool)
  BY DEF WithRegistration
<1>6. QED
  BY <1>1, <1>3, <1>4, <1>5, NotedKeeps

(* A demotion takes from the trusted section only. *)
LEMMA DemotionsKeep ==
  ASSUME NEW r \in Registry, NEW t \in Tools, OnlyEarned(r), NEW s \in Demotions(r, t)
  PROVE  s \in Registry /\ OnlyEarned(s)
<1>1. CASE Demotable(r, t) = {}
  BY <1>1, NotedKeeps DEF Demotions
<1>2. CASE Demotable(r, t) # {}
  <2>1. PICK c \in Demotable(r, t) :
          s = Noted([r EXCEPT !.trusted_internal[c] = @ - 1,
                              !.quarantined[c] = @ + 1], "demoted", t)
    BY <1>2 DEF Demotions
  <2> DEFINE less == [r EXCEPT !.trusted_internal[c] = @ - 1,
                               !.quarantined[c] = @ + 1]
  <2>2. c \in Candidate /\ r.trusted_internal[c] > 0
    BY DEF Demotable
  <2>3. less \in Registry
    <3>1. r.trusted_internal \in Section /\ r.quarantined \in Section
          /\ r.capabilities \in Seq(Entry)
      BY DEF Registry
    <3>2. /\ [r.trusted_internal EXCEPT ![c] = @ - 1] \in Section
          /\ [r.quarantined EXCEPT ![c] = @ + 1] \in Section
      BY <2>2, <3>1, SectionSteps
    <3>3. less = [r EXCEPT !.trusted_internal = [r.trusted_internal EXCEPT ![c] = @ - 1],
                           !.quarantined = [r.quarantined EXCEPT ![c] = @ + 1]]
      OBVIOUS
    <3> HIDE DEF less
    <3>4. QED
      BY <3>1, <3>2, <3>3, FieldSteps
  <2>4. OnlyEarned(less)
    BY <2>2 DEF OnlyEarned, Registry, Section
  <2>5. QED
    BY <2>1, <2>3, <2>4, NotedKeeps
<1>3. QED
  BY <1>1, <1>2

(* A rollback changes the status of entries, not their candidates. *)
LEMMA RolledBackKeeps ==
  ASSUME NEW r \in Registry, NEW t \in Tools, OnlyEarned(r)
  PROVE  RolledBack(r, t) \in Registry /\ OnlyEarned(RolledBack(r, t))
<1> DEFINE list == [i \in DOMAIN r.capabilities |->
                      IF r.capabilities[i].candidate.tool = t
                        THEN [r.capabilities[i] EXCEPT !.status = "rolled_back"]
                        ELSE r.capabilities[i]]
           back == [r EXCEPT !.capabilities = list]
<1>1. r.capabilities \in Seq(Entry)
  BY DEF Registry
<1>2. \A i \in DOMAIN r.capabilities :
        r.capabilities[i] \in Entry /\ list[i] \in Entry
        /\ list[i].candidate = r.capabilities[i].candidate
  <2> SUFFICES ASSUME NEW i \in DOMAIN r.capabilities
               PROVE  r.capabilities[i] \in Entry /\ list[i] \in Entry
                      /\ list[i].candidate = r.capabilities[i].candidate
    OBVIOUS
  <2>1. r.capabilities[i] \in Entry
    BY <1>1
  <2>2. \A e \in Entry : /\ [e EXCEPT !.status = "rolled_back"] \in Entry
                        /\ [e EXCEPT !.status = "rolled_back"].candidate = e.candidate
    BY DEF Entry
  <2>3. QED
    BY <2>1, <2>2
<1>3. DOMAIN list = 1 .. Len(r.capabilities) /\ Len(r.capabilities) \in Nat
  BY <1>1
<1>4. list \in Seq(Entry)
  <2> HIDE DEF list
  <2>1. \A i \in 1 .. Len(r.capabilities) : list[i] \in Entry
    BY <1>1, <1>2
  <2>2. list = [i \in 1 .. Len(r.capabilities) |-> list[i]]
    BY <1>3 DEF list
  <2>3. QED
    BY <1>3, <2>1, <2>2
<1>5. back \in Registry
  BY <1>4 DEF Registry
<1>6. OnlyEarned(back)
  <2>1. back.capabilities = list /\ back.trusted_internal = r.trusted_internal
    BY DEF Registry
  <2>2. DOMAIN list = DOMAIN r.capabilities
    OBVIOUS
  <2> HIDE DEF list, back
  <2>3. QED
    BY <1>2, <2>1, <2>2 DEF OnlyEarned
<1>7. RolledBack(r, t) = Noted(back, "rolled_back", t)
  BY DEF RolledBack
<1>8. QED
  BY <1>5, <1>6, <1>7, NotedKeeps

-----------------------------------------------------------------------------
(* Every process starts empty-handed. *)
LEMMA InitHolds == Init => IInv
BY EmptyType, NoJobType, GovernanceAssumption
   DEF Init, IInv, TypeOK, Copies, Cleared, Pc

(* A process that ends leaves blank locals behind. *)
LEMMA EndsKeeps ==
  ASSUME IInv, NEW p \in Procs, Ends(p), OnlyEarned(registry'), registry' \in Registry
  PROVE  /\ pc' \in [Procs -> Pc] /\ job' \in [Procs -> Job]
         /\ snap' \in [Procs -> Registry] /\ view' \in [Procs -> Registry]
         /\ listed' \in [Procs -> Counts]
         /\ Copies' /\ Cleared'
<1>1. /\ pc' \in [Procs -> Pc] /\ job' \in [Procs -> Job]
      /\ snap' \in [Procs -> Registry] /\ view' \in [Procs -> Registry]
      /\ listed' \in [Procs -> Counts]
  BY EmptyType, NoJobType DEF Ends, Goto, IInv, TypeOK, Pc
<1>2. Copies'
  BY EmptyType DEF Ends, IInv, TypeOK, Copies, OnlyEarned
<1>3. Cleared'
  BY DEF Ends, Goto, IInv, TypeOK, Cleared, Accepted
<1>4. QED
  BY <1>1, <1>2, <1>3

(* Going to a step other than "register" with the locals as they were. *)
LEMMA NextGapKeeps ==
  ASSUME IInv, NEW p \in Procs, NextGap(p), OnlyEarned(registry'), registry' \in Registry
  PROVE  /\ pc' \in [Procs -> Pc] /\ job' \in [Procs -> Job]
         /\ snap' \in [Procs -> Registry] /\ view' \in [Procs -> Registry]
         /\ listed' \in [Procs -> Counts]
         /\ Copies' /\ Cleared'
<1>1. CASE job[p].gaps = {}
  BY <1>1, EndsKeeps DEF NextGap
<1>2. CASE job[p].gaps # {}
  <2>1. pc' = [pc EXCEPT ![p] = "snapshot"] /\ UNCHANGED <<job, snap, view, listed>>
    BY <1>2 DEF NextGap, Goto
  <2>2. QED
    BY <2>1 DEF IInv, TypeOK, Copies, Cleared, Pc, ReadStep, Accepted, OnlyEarned
<1>3. QED
  BY <1>1, <1>2

-----------------------------------------------------------------------------
(* Every step keeps the invariant.  Under each action: the types, the copies
   and the candidates about to be registered. *)
LEMMA NextHolds == IInv /\ [Next]_vars => IInv'
<1> SUFFICES ASSUME IInv, [Next]_vars PROVE IInv'
  OBVIOUS
<1> USE DEF IInv
<1>0. ASSUME NEW p \in Procs
      PROVE  /\ Current(p) \in Candidate /\ Current(p).tool \in Tools
             /\ snap[p] \in Registry /\ OnlyEarned(snap[p])
             /\ view[p] \in Registry /\ OnlyEarned(view[p])
             /\ registry \in Registry /\ OnlyEarned(registry)
  BY DEF TypeOK, Copies, Current, Job, Candidate
<1>1. ASSUME NEW p \in Procs, Synthesize(p) PROVE IInv'
  <2>1. PICK gaps \in SUBSET Tools, approved \in BOOLEAN :
          job' = [job EXCEPT ![p].gaps = gaps, ![p].approved = approved]
    BY <1>1 DEF Synthesize
  <2>2. job' \in [Procs -> Job]
    BY <2>1 DEF TypeOK, Job
  <2>3. TypeOK'
    BY <1>1, <2>2 DEF TypeOK, Synthesize, CanStart, Goto, Pc, ReadStep, files
  <2>4. Copies'
    BY <1>1 DEF Copies, Synthesize, files, OnlyEarned
  <2>5. Cleared'
    BY <1>1, <2>1 DEF Cleared, TypeOK, Synthesize, CanStart, Goto, Accepted, Job
  <2>6. QED
    BY <2>3, <2>4, <2>5
<1>2. ASSUME NEW p \in Procs, ReadSnapshot(p) PROVE IInv'
  <2>1. PICK t \in job[p].gaps, passed \in {NChecks - 1, NChecks} :
          job' = [job EXCEPT ![p].gaps = @ \ {t},
                    ![p].candidate = [tool |-> t, passed |-> passed,
                                      approved |-> job[p].approved]]
    BY <1>2 DEF ReadSnapshot
  <2>2. job[p] \in Job
    BY DEF TypeOK
  <2>3. [tool |-> t, passed |-> passed, approved |-> job[p].approved] \in Candidate
    BY <2>1, <2>2 DEF Job, Candidate
  <2>4. job' \in [Procs -> Job]
    BY <2>1, <2>2, <2>3 DEF TypeOK, Job
  <2>5. TypeOK'
    BY <1>2, <2>4 DEF TypeOK, ReadSnapshot, Reads, Goto, Pc, ReadStep, files, counts
  <2>6. Copies'
    BY <1>2 DEF Copies, TypeOK, ReadSnapshot, Reads, files, OnlyEarned
  <2>7. Cleared'
    BY <1>2, <2>1 DEF Cleared, TypeOK, ReadSnapshot, Goto, Accepted, Job
  <2>8. QED
    BY <2>5, <2>6, <2>7
<1>3. ASSUME NEW p \in Procs,
             ReadView(p) \/ RollbackReadsView(p)
      PROVE  IInv'
  <2>1. PICK step \in {"add", "list", "rb_demote"} : pc' = [pc EXCEPT ![p] = step]
    BY <1>3 DEF ReadView, RollbackReadsView, Goto
  <2>2. /\ view' = [view EXCEPT ![p] = registry]
        /\ UNCHANGED <<overlap, registry, quarantine, failures, torn, job, snap,
                       listed, commands, crashes>>
    BY <1>3 DEF ReadView, RollbackReadsView, Reads, files, counts
  <2>3. TypeOK'
    BY <2>1, <2>2 DEF TypeOK, Pc, ReadStep, WriteStep
  <2>4. Copies'
    BY <2>2 DEF Copies, TypeOK, OnlyEarned
  <2>5. Cleared'
    BY <2>1, <2>2 DEF Cleared, TypeOK, Accepted
  <2>6. QED
    BY <2>3, <2>4, <2>5
<1>4. ASSUME NEW p \in Procs, ReadQuarantine(p) PROVE IInv'
  <2>1. TypeOK'
    BY <1>4 DEF TypeOK, ReadQuarantine, Reads, Goto, Pc, WriteStep, files, counts
  <2>2. Copies'
    BY <1>4 DEF Copies, ReadQuarantine, Reads, files, OnlyEarned
  <2>3. Cleared'
    BY <1>4 DEF Cleared, TypeOK, ReadQuarantine, Goto, Accepted
  <2>4. QED
    BY <2>1, <2>2, <2>3
<1>5. ASSUME NEW p \in Procs, AddCapability(p) PROVE IInv'
  <2>1. registry' = WithCapability(view[p], Current(p))
    BY <1>5 DEF AddCapability, WritesRegistry
  <2>2. registry' \in Registry /\ OnlyEarned(registry')
    BY <2>1, <1>0, WithCapabilityKeeps
  <2>3. TypeOK'
    BY <1>5, <2>2 DEF TypeOK, AddCapability, WritesRegistry, Goto, Pc, WriteStep, counts
  <2>4. Copies'
    BY <1>5, <2>2 DEF Copies, AddCapability, OnlyEarned
  <2>5. Cleared'
    BY <1>5 DEF Cleared, TypeOK, AddCapability, Goto, Accepted, Current
  <2>6. QED
    BY <2>3, <2>4, <2>5
<1>6. ASSUME NEW p \in Procs, Register(p) PROVE IInv'
  <2>1. pc[p] = "register" /\ registry' = WithRegistration(snap[p], Current(p))
    BY <1>6 DEF Register, WritesRegistry
  <2>2. Accepted(Current(p))
    BY <2>1 DEF Cleared, Current
  <2>3. registry' \in Registry /\ OnlyEarned(registry')
    BY <2>1, <2>2, <1>0, WithRegistrationKeeps
  <2>4. NextGap(p)
    BY <1>6 DEF Register
  <2>5. QED
    BY <1>6, <2>3, <2>4, NextGapKeeps DEF TypeOK, Register, WritesRegistry, counts
<1>7. ASSUME NEW p \in Procs, Enlist(p) PROVE IInv'
  <2>1. quarantine' \in Counts
    <3>1. listed[p] \in Counts /\ Current(p).tool \in Tools
      BY <1>0 DEF TypeOK
    <3>2. listed[p][Current(p).tool] + 1 \in Nat
      BY <3>1 DEF Counts
    <3>3. QED
      BY <1>7, <3>1, <3>2 DEF Enlist, Counts
  <2>2. TypeOK'
    BY <1>7, <2>1 DEF TypeOK, Enlist, Goto, Pc, WriteStep, counts
  <2>3. Copies'
    BY <1>7 DEF Copies, Enlist, OnlyEarned
  <2>4. Cleared'
    BY <1>7 DEF Cleared, TypeOK, Enlist, Goto, Accepted
  <2>5. QED
    BY <2>2, <2>3, <2>4
<1>8. ASSUME NEW p \in Procs, SaveRejected(p) PROVE IInv'
  <2>1. registry' = Noted(snap[p], "quarantined", Current(p).tool)
    BY <1>8 DEF SaveRejected, WritesRegistry
  <2>2. registry' \in Registry /\ OnlyEarned(registry')
    BY <2>1, <1>0, NotedKeeps
  <2>3. TypeOK'
    BY <1>8, <2>2 DEF TypeOK, SaveRejected, WritesRegistry, Goto, Pc, counts
  <2>4. Copies'
    BY <1>8, <2>2 DEF Copies, SaveRejected, OnlyEarned
  <2>5. Cleared'
    BY <1>8 DEF Cleared, TypeOK, SaveRejected, Goto, Accepted
  <2>6. QED
    BY <2>3, <2>4, <2>5
<1>9. ASSUME NEW p \in Procs, LogFailure(p) PROVE IInv'
  <2>1. failures' \in Counts
    <3>1. failures \in Counts /\ Current(p).tool \in Tools
      BY <1>0 DEF TypeOK
    <3>2. failures[Current(p).tool] + 1 \in Nat
      BY <3>1 DEF Counts
    <3>3. QED
      BY <1>9, <3>1, <3>2 DEF LogFailure, Counts
  <2>2. NextGap(p) /\ registry' = registry
    BY <1>9 DEF LogFailure
  <2>3. registry' \in Registry /\ OnlyEarned(registry')
    BY <1>0, <2>2
  <2>4. QED
    BY <1>9, <2>1, <2>2, <2>3, NextGapKeeps DEF TypeOK, LogFailure, counts
<1>10. ASSUME NEW p \in Procs, Rollback(p) PROVE IInv'
  <2>1. PICK t \in Tools : job' = [job EXCEPT ![p].candidate.tool = t]
    BY <1>10 DEF Rollback
  <2>2. job[p] \in Job /\ [job[p].candidate EXCEPT !.tool = t] \in Candidate
    BY DEF TypeOK, Job, Candidate
  <2>3. job' \in [Procs -> Job]
    BY <2>1, <2>2 DEF TypeOK, Job
  <2>4. TypeOK'
    BY <1>10, <2>3 DEF TypeOK, Rollback, CanStart, Goto, Pc, ReadStep, files
  <2>5. Copies'
    BY <1>10 DEF Copies, Rollback, files, OnlyEarned
  <2>6. Cleared'
    BY <1>10, <2>1 DEF Cleared, TypeOK, Rollback, Goto, Accepted
  <2>7. QED
    BY <2>4, <2>5, <2>6
<1>11. ASSUME NEW p \in Procs, DemoteEntry(p) PROVE IInv'
  <2>1. registry' \in Demotions(view[p], Current(p).tool)
    BY <1>11 DEF DemoteEntry, WritesRegistry
  <2>2. registry' \in Registry /\ OnlyEarned(registry')
    BY <2>1, <1>0, DemotionsKeep
  <2>3. TypeOK'
    BY <1>11, <2>2 DEF TypeOK, DemoteEntry, WritesRegistry, Goto, Pc, ReadStep, counts
  <2>4. Copies'
    BY <1>11, <2>2 DEF Copies, DemoteEntry, OnlyEarned
  <2>5. Cleared'
    BY <1>11 DEF Cleared, TypeOK, DemoteEntry, Goto, Accepted
  <2>6. QED
    BY <2>3, <2>4, <2>5
<1>12. ASSUME NEW p \in Procs, RollbackLoads(p) PROVE IInv'
  <2>1. TypeOK'
    BY <1>12 DEF TypeOK, RollbackLoads, Reads, Goto, Pc, WriteStep, files, counts
  <2>2. Copies'
    BY <1>12 DEF Copies, TypeOK, RollbackLoads, Reads, files, OnlyEarned
  <2>3. Cleared'
    BY <1>12 DEF Cleared, TypeOK, RollbackLoads, Goto, Accepted
  <2>4. QED
    BY <2>1, <2>2, <2>3
<1>13. ASSUME NEW p \in Procs, RollbackSaves(p) PROVE IInv'
  <2>1. Ends(p) /\ registry' = RolledBack(snap[p], Current(p).tool)
    BY <1>13 DEF RollbackSaves, WritesRegistry
  <2>2. registry' \in Registry /\ OnlyEarned(registry')
    BY <2>1, <1>0, RolledBackKeeps
  <2>3. QED
    BY <1>13, <2>1, <2>2, EndsKeeps DEF TypeOK, RollbackSaves, WritesRegistry, counts
<1>14. ASSUME NEW p \in Procs, Raise(p) PROVE IInv'
  <2>1. Ends(p) /\ UNCHANGED <<overlap, files, counts>>
    BY <1>14 DEF Raise
  <2>2. registry' \in Registry /\ OnlyEarned(registry')
    BY <2>1, <1>0 DEF files
  <2>3. QED
    BY <2>1, <2>2, EndsKeeps DEF TypeOK, files, counts
<1>15. ASSUME NEW p \in Procs, Crash(p) PROVE IInv'
  <2>1. /\ Ends(p) /\ crashes' = crashes + 1
        /\ UNCHANGED <<overlap, registry, quarantine, failures, commands>>
        /\ torn' = torn \/ torn' = torn \cup {FileOf(pc[p])}
    BY <1>15 DEF Crash
  <2>2. registry' \in Registry /\ OnlyEarned(registry')
    BY <2>1, <1>0
  <2>3. torn' \subseteq {"registry", "quarantine"}
    BY <2>1 DEF TypeOK, FileOf
  <2>4. QED
    BY <2>1, <2>2, <2>3, EndsKeeps DEF TypeOK
<1>16. CASE UNCHANGED vars
  BY <1>16 DEF vars, files, procs, counts, TypeOK, Copies, Cleared, OnlyEarned, Accepted
<1>17. QED
  BY <1>1, <1>2, <1>3, <1>4, <1>5, <1>6, <1>7, <1>8, <1>9, <1>10, <1>11, <1>12,
     <1>13, <1>14, <1>15, <1>16 DEF Next, SelfExtend, RollBack

LEMMA Inductive == Spec => []IInv
<1>1. QED
  BY InitHolds, NextHolds, PTL DEF Spec

(* Every variable of the registration and rollback commands keeps its type,
   for any tools, processes and bounds. *)
THEOREM TypeCorrect == Spec => []TypeOK
<1>1. IInv => TypeOK
  BY DEF IInv
<1>2. QED
  BY <1>1, Inductive, PTL

(* Neither view of the registry ever holds as active or trusted a capability
   that failed a check or, touching the core, was not approved: commands may
   overlap, write stale copies back and be killed at any step. *)
THEOREM TrustIsEarned == Spec => []EarnedTrust
<1>1. IInv => EarnedTrust
  BY DEF IInv, Copies, EarnedTrust
<1>2. QED
  BY <1>1, Inductive, PTL

-----------------------------------------------------------------------------
(* The history replays to the list, in every copy of the registry.         *)

EventKind == {"registered", "quarantined", "rolled_back", "added", "demoted"}
Neutral == {"quarantined", "added", "demoted"}   \* no business of the list

Happened(r, e, t) == {i \in DOMAIN r.history : r.history[i] = [event |-> e, tool |-> t]}
NewPlace(r) == Len(r.history) + 1
Logged(r, s, e, t) == s.history = Append(r.history, [event |-> e, tool |-> t])
Made(r) == {i \in DOMAIN r.history : r.history[i].event = "registered"}
UpTo(r, i) == {j \in Made(r) : j <= i}

(* What HistoryReplays says of the registration at place i of the history. *)
Entered(r, i) ==
  LET entry == r.capabilities[Cardinality(UpTo(r, i))]
      tool == r.history[i].tool
  IN  /\ entry.candidate.tool = tool
      /\ entry.status = "active" <=> \A j \in Happened(r, "rolled_back", tool) : j < i

Replays(r) ==
  /\ Len(r.capabilities) = Cardinality(Made(r))
  /\ \A i \in Made(r) : Entered(r, i)

Logs == Replays(registry) /\ \A p \in Procs : Replays(snap[p]) /\ Replays(view[p])

(* Places in a history are finitely many, and those up to a registration lead
   to a place in the list. *)
LEMMA Places ==
  ASSUME NEW r \in Registry
  PROVE  /\ DOMAIN r.history = 1 .. Len(r.history) /\ Len(r.history) \in Nat
         /\ r.history \in Seq(Event)
         /\ IsFiniteSet(Made(r)) /\ Cardinality(Made(r)) \in Nat
         /\ \A i \in Made(r) : Cardinality(UpTo(r, i)) \in 1 .. Cardinality(Made(r))
<1>1. r.history \in Seq(Event)
  BY DEF Registry
<1>2. DOMAIN r.history = 1 .. Len(r.history) /\ Len(r.history) \in Nat
  BY <1>1
<1>3. IsFiniteSet(DOMAIN r.history)
  BY <1>2, FS_Interval
<1>4. IsFiniteSet(Made(r)) /\ Cardinality(Made(r)) \in Nat
  BY <1>3, FS_Subset, FS_CardinalityType DEF Made
<1>5. ASSUME NEW i \in Made(r)
      PROVE  Cardinality(UpTo(r, i)) \in 1 .. Cardinality(Made(r))
  <2>1. UpTo(r, i) \subseteq Made(r) /\ i \in UpTo(r, i)
    BY <1>2 DEF UpTo, Made
  <2>2. /\ Cardinality(UpTo(r, i)) \in Nat
        /\ Cardinality(UpTo(r, i)) <= Cardinality(Made(r))
        /\ UpTo(r, i) # {}
        /\ IsFiniteSet(UpTo(r, i))
    BY <1>4, <2>1, FS_Subset, FS_CardinalityType
  <2>3. Cardinality(UpTo(r, i)) # 0
    BY <2>2, FS_EmptySet
  <2> QED
    BY <1>4, <2>2, <2>3
<1> QED
  BY <1>1, <1>2, <1>4, <1>5

LEMMA ToolsOfHistory ==
  ASSUME NEW r \in Registry, NEW i \in DOMAIN r.history
  PROVE  r.history[i].tool \in Tools
<1>1. r.history \in Seq(Event)
  BY DEF Registry
<1>2. r.history[i] \in Event
  BY <1>1
<1> QED
  BY <1>2 DEF Event

(* What a note adds to a history: one place, after the others. *)
LEMMA NotedHistory ==
  ASSUME NEW r \in Registry, NEW t \in Tools, NEW e \in EventKind,
         NEW s \in Registry, Logged(r, s, e, t)
  PROVE  /\ \A i \in DOMAIN r.history : s.history[i] = r.history[i] /\ i < NewPlace(r)
         /\ DOMAIN s.history = DOMAIN r.history \cup {NewPlace(r)}
         /\ NewPlace(r) \notin DOMAIN r.history
         /\ s.history[NewPlace(r)] = [event |-> e, tool |-> t]
<1> DEFINE note == [event |-> e, tool |-> t]
<1>1. /\ DOMAIN r.history = 1 .. Len(r.history) /\ Len(r.history) \in Nat
      /\ r.history \in Seq(Event)
  BY Places
<1>2. note \in Event
  BY DEF Event, EventKind
<1> HIDE DEF note
<1>3. s.history = Append(r.history, note)
  BY DEF Logged, note
<1>4. /\ \A i \in DOMAIN r.history : s.history[i] = r.history[i] /\ i < NewPlace(r)
      /\ DOMAIN s.history = DOMAIN r.history \cup {NewPlace(r)}
      /\ NewPlace(r) \notin DOMAIN r.history
      /\ s.history[NewPlace(r)] = note
  BY <1>1, <1>2, <1>3 DEF NewPlace
<1> QED
  BY <1>4 DEF note

LEMMA NotedMade ==
  ASSUME NEW r \in Registry, NEW t \in Tools, NEW e \in EventKind,
         NEW s \in Registry, Logged(r, s, e, t)
  PROVE  IF e = "registered" THEN Made(s) = Made(r) \cup {NewPlace(r)}
                             ELSE Made(s) = Made(r)
<1>1. /\ \A i \in DOMAIN r.history : s.history[i] = r.history[i] /\ i < NewPlace(r)
      /\ DOMAIN s.history = DOMAIN r.history \cup {NewPlace(r)}
      /\ NewPlace(r) \notin DOMAIN r.history
      /\ s.history[NewPlace(r)] = [event |-> e, tool |-> t]
  BY NotedHistory
<1>2. s.history[NewPlace(r)].event = e
  BY <1>1
<1> QED
  BY <1>1, <1>2 DEF Made

LEMMA NotedHappened ==
  ASSUME NEW r \in Registry, NEW t \in Tools, NEW e \in EventKind,
         NEW s \in Registry, Logged(r, s, e, t)
  PROVE  \A d \in EventKind, u \in Tools :
           Happened(s, d, u) = IF d = e /\ u = t THEN Happened(r, d, u) \cup {NewPlace(r)}
                                                 ELSE Happened(r, d, u)
<1> SUFFICES ASSUME NEW d \in EventKind, NEW u \in Tools
             PROVE  Happened(s, d, u) = IF d = e /\ u = t
                                          THEN Happened(r, d, u) \cup {NewPlace(r)}
                                          ELSE Happened(r, d, u)
  OBVIOUS
<1>1. [event |-> e, tool |-> t] = [event |-> d, tool |-> u] <=> d = e /\ u = t
  OBVIOUS
<1> QED
  BY <1>1, NotedHistory DEF Happened

(* An event that is neither a registration nor a rollback, with the list as it
   was, whatever becomes of the trust sections. *)
LEMMA OtherNoteReplays ==
  ASSUME NEW r \in Registry, NEW s \in Registry, NEW t \in Tools,
         NEW e \in Neutral, Logged(r, s, e, t), s.capabilities = r.capabilities, Replays(r)
  PROVE  Replays(s)
<1>1. e \in EventKind
  BY DEF EventKind, Neutral
<1>2. Made(s) = Made(r)
  <2>1. e # "registered"
    BY DEF Neutral
  <2> QED
    BY <1>1, <2>1, NotedMade
<1>3. \A i \in DOMAIN r.history : s.history[i] = r.history[i]
  <2>1. \A i \in DOMAIN r.history : s.history[i] = r.history[i] /\ i < NewPlace(r)
    BY <1>1, NotedHistory
  <2> QED
    BY <2>1
<1>4. \A u \in Tools : Happened(s, "rolled_back", u) = Happened(r, "rolled_back", u)
  <2>1. e # "rolled_back" /\ "rolled_back" \in EventKind
    BY DEF Neutral, EventKind
  <2> QED
    BY <1>1, <2>1, NotedHappened
<1>5. \A i \in Made(r) : i \in DOMAIN r.history /\ r.history[i].tool \in Tools
  BY ToolsOfHistory DEF Made
<1> QED
  BY <1>2, <1>3, <1>4, <1>5 DEF Replays, Entered, UpTo

(* A registration is one event and one entry, both at the end. *)
LEMMA RegistrationReplays ==
  ASSUME NEW r \in Registry, NEW c \in Candidate, Replays(r),
         WithRegistration(r, c) \in Registry
  PROVE  Replays(WithRegistration(r, c))
<1> DEFINE s == WithRegistration(r, c)
           entry == [candidate |-> c, status |-> "active"]
           new == NewPlace(r)
<1>1. /\ Logged(r, s, "registered", c.tool)
      /\ s.capabilities = Append(r.capabilities, entry)
  BY DEF WithRegistration, Noted, Registry, Logged
<1>2. c.tool \in Tools /\ entry \in Entry /\ r.capabilities \in Seq(Entry)
  BY DEF Candidate, Entry, Registry
<1>3. s \in Registry
  OBVIOUS
<1> HIDE DEF s
<1>4. /\ \A i \in DOMAIN r.history : s.history[i] = r.history[i] /\ i < new
      /\ new \notin DOMAIN r.history
      /\ s.history[new] = [event |-> "registered", tool |-> c.tool]
      /\ Made(s) = Made(r) \cup {new}
      /\ \A u \in Tools : Happened(s, "rolled_back", u) = Happened(r, "rolled_back", u)
  <2>1. "registered" \in EventKind /\ "rolled_back" \in EventKind
    BY DEF EventKind
  <2>2. /\ \A i \in DOMAIN r.history : s.history[i] = r.history[i] /\ i < new
        /\ new \notin DOMAIN r.history
        /\ s.history[new] = [event |-> "registered", tool |-> c.tool]
    BY <1>1, <1>2, <1>3, <2>1, NotedHistory
  <2>3. Made(s) = Made(r) \cup {new}
    BY <1>1, <1>2, <1>3, <2>1, NotedMade
  <2>4. \A u \in Tools : Happened(s, "rolled_back", u) = Happened(r, "rolled_back", u)
    BY <1>1, <1>2, <1>3, <2>1, NotedHappened
  <2> QED
    BY <2>2, <2>3, <2>4
<1>5. /\ new = Len(r.history) + 1
      /\ Len(r.history) \in Nat /\ IsFiniteSet(Made(r)) /\ Cardinality(Made(r)) \in Nat
      /\ DOMAIN r.history = 1 .. Len(r.history)
      /\ \A i \in Made(r) : Cardinality(UpTo(r, i)) \in 1 .. Cardinality(Made(r))
  BY Places DEF NewPlace
<1>6. Cardinality(Made(s)) = Cardinality(Made(r)) + 1
  BY <1>4, <1>5, FS_AddElement DEF Made
<1>7. Len(s.capabilities) = Cardinality(Made(s))
  BY <1>1, <1>2, <1>6 DEF Replays
<1>8. ASSUME NEW i \in Made(r) PROVE Entered(s, i)
  <2>1. i \in DOMAIN r.history /\ i < new /\ r.history[i].tool \in Tools
    BY <1>4, ToolsOfHistory DEF Made
  <2>2. UpTo(s, i) = UpTo(r, i)
    BY <1>4, <1>5, <2>1 DEF UpTo
  <2>3. s.capabilities[Cardinality(UpTo(r, i))] = r.capabilities[Cardinality(UpTo(r, i))]
    <3> HIDE DEF entry
    <3>1. Cardinality(UpTo(r, i)) \in 1 .. Len(r.capabilities)
      BY <1>5 DEF Replays
    <3> QED
      BY <1>1, <1>2, <3>1
  <2>4. Entered(r, i)
    BY DEF Replays
  <2> QED
    BY <1>4, <2>1, <2>2, <2>3, <2>4 DEF Entered
<1>9. Entered(s, new)
  <2>1. UpTo(s, new) = Made(s)
    BY <1>4, <1>5 DEF UpTo, Made
  <2>2. s.capabilities[Cardinality(UpTo(s, new))] = entry
    BY <1>1, <1>2, <1>6, <2>1 DEF Replays
  <2>3. \A j \in Happened(s, "rolled_back", c.tool) : j < new
    BY <1>2, <1>4 DEF Happened
  <2> QED
    BY <1>4, <2>2, <2>3 DEF Entered
<1> QED
  BY <1>4, <1>7, <1>8, <1>9 DEF Replays, s

(* A rollback is one event, and reaches every entry of its tool. *)
LEMMA RollbackReplays ==
  ASSUME NEW r \in Registry, NEW t \in Tools, Replays(r), RolledBack(r, t) \in Registry
  PROVE  Replays(RolledBack(r, t))
<1> DEFINE s == RolledBack(r, t)
           new == NewPlace(r)
           list == [i \in DOMAIN r.capabilities |->
                      IF r.capabilities[i].candidate.tool = t
                        THEN [r.capabilities[i] EXCEPT !.status = "rolled_back"]
                        ELSE r.capabilities[i]]
<1>1. /\ Logged(r, s, "rolled_back", t)
      /\ s.capabilities = list
  BY DEF RolledBack, Noted, Registry, Logged
<1>2. r.capabilities \in Seq(Entry) /\ s.capabilities \in Seq(Entry) /\ s \in Registry
  BY DEF Registry
<1>3. DOMAIN r.capabilities = 1 .. Len(r.capabilities) /\ Len(r.capabilities) \in Nat
  BY <1>2
<1>4. \A n \in DOMAIN r.capabilities :
        LET b == r.capabilities[n]  a == list[n] IN
        /\ a.candidate = b.candidate
        /\ b.candidate.tool = t => a.status = "rolled_back"
        /\ b.candidate.tool # t => a = b
  <2>1. \A n \in DOMAIN r.capabilities : r.capabilities[n] \in Entry
    BY <1>2
  <2>2. \A b \in Entry : /\ [b EXCEPT !.status = "rolled_back"].candidate = b.candidate
                         /\ [b EXCEPT !.status = "rolled_back"].status = "rolled_back"
    BY DEF Entry
  <2> QED
    BY <2>1, <2>2
<1>5. DOMAIN list = DOMAIN r.capabilities
  OBVIOUS
<1> HIDE DEF s, list
<1>6. Len(s.capabilities) = Len(r.capabilities)
  BY <1>1, <1>2, <1>3, <1>5
<1>7. /\ \A i \in DOMAIN r.history : s.history[i] = r.history[i] /\ i < new
      /\ Made(s) = Made(r)
      /\ Happened(s, "rolled_back", t) = Happened(r, "rolled_back", t) \cup {new}
      /\ \A u \in Tools : u # t => Happened(s, "rolled_back", u) = Happened(r, "rolled_back", u)
  <2>1. "rolled_back" \in EventKind
    BY DEF EventKind
  <2>2. \A i \in DOMAIN r.history : s.history[i] = r.history[i] /\ i < new
    BY <1>1, <1>2, <2>1, NotedHistory
  <2>3. Made(s) = Made(r)
    BY <1>1, <1>2, <2>1, NotedMade
  <2>4. /\ Happened(s, "rolled_back", t) = Happened(r, "rolled_back", t) \cup {new}
        /\ \A u \in Tools :
             u # t => Happened(s, "rolled_back", u) = Happened(r, "rolled_back", u)
    BY <1>1, <1>2, <2>1, NotedHappened
  <2> QED
    BY <2>2, <2>3, <2>4
<1>8. \A i \in Made(r) : Cardinality(UpTo(r, i)) \in DOMAIN r.capabilities
  BY <1>3, Places DEF Replays
<1>9. ASSUME NEW i \in Made(r) PROVE Entered(s, i)
  <2> DEFINE n == Cardinality(UpTo(r, i))
             u == r.history[i].tool
  <2>1. i \in DOMAIN r.history /\ UpTo(s, i) = UpTo(r, i) /\ s.history[i] = r.history[i]
        /\ i < new /\ u \in Tools
    BY <1>7, ToolsOfHistory DEF Made, UpTo
  <2>2. n \in DOMAIN r.capabilities
    BY <1>8
  <2>3. /\ r.capabilities[n].candidate.tool = u
        /\ r.capabilities[n].status = "active" <=>
             \A j \in Happened(r, "rolled_back", u) : j < i
    BY DEF Replays, Entered
  <2>4. s.capabilities[n] = list[n]
    BY <1>1
  <2>5. CASE u = t
    <3>1. new \in Happened(s, "rolled_back", u) /\ ~(new < i)
      BY <1>7, <2>1, <2>5, Places DEF NewPlace
    <3>2. s.capabilities[n].candidate.tool = u /\ s.capabilities[n].status = "rolled_back"
      BY <1>4, <2>2, <2>3, <2>4, <2>5
    <3> QED
      BY <2>1, <3>1, <3>2 DEF Entered
  <2>6. CASE u # t
    <3>1. Happened(s, "rolled_back", u) = Happened(r, "rolled_back", u)
      BY <1>7, <2>1, <2>6
    <3>2. s.capabilities[n] = r.capabilities[n]
      BY <1>4, <2>2, <2>3, <2>4, <2>6
    <3> QED
      BY <2>1, <2>3, <3>1, <3>2 DEF Entered
  <2> QED
    BY <2>5, <2>6
<1> QED
  BY <1>6, <1>7, <1>9 DEF Replays, s

(* The empty registry replays the empty history. *)
LEMMA EmptyReplays == Replays(EmptyRegistry)
<1>1. EmptyRegistry.history = <<>> /\ EmptyRegistry.capabilities = <<>>
  BY DEF EmptyRegistry
<1>2. Made(EmptyRegistry) = {}
  BY <1>1 DEF Made
<1> QED
  BY <1>1, <1>2, FS_EmptySet DEF Replays

(* The trust sections do not enter into it. *)
LEMMA SectionNotes ==
  ASSUME NEW r \in Registry, NEW c \in Candidate, NEW t \in Tools, Replays(r), OnlyEarned(r)
  PROVE  /\ Replays(WithCapability(r, c))
         /\ Replays(Noted(r, "quarantined", t))
         /\ \A s \in Demotions(r, t) : Replays(s)
<1>1. c.tool \in Tools
  BY DEF Candidate
<1>2. /\ WithCapability(r, c).capabilities = r.capabilities
      /\ Logged(r, WithCapability(r, c), "added", c.tool)
  BY DEF WithCapability, Noted, Registry, Logged
<1>3. /\ Noted(r, "quarantined", t).capabilities = r.capabilities
      /\ Logged(r, Noted(r, "quarantined", t), "quarantined", t)
  BY DEF Noted, Registry, Logged
<1>4. ASSUME NEW s \in Demotions(r, t)
      PROVE  /\ s.capabilities = r.capabilities
             /\ Logged(r, s, "demoted", t)
  BY <1>4 DEF Demotions, Noted, Registry, Logged
<1>5. /\ WithCapability(r, c) \in Registry /\ Noted(r, "quarantined", t) \in Registry
      /\ \A s \in Demotions(r, t) : s \in Registry
  BY WithCapabilityKeeps, NotedKeeps, DemotionsKeep
<1> QED
  BY <1>1, <1>2, <1>3, <1>4, <1>5, OtherNoteReplays DEF Neutral

-----------------------------------------------------------------------------
LEMMA InitLogs == Init => Logs
BY EmptyReplays DEF Init, Logs

(* Every step writes a copy back that replays, or one with an entry and its
   event, or one rolled back together with its event. *)
LEMMA NextLogs == IInv /\ Logs /\ [Next]_vars => Logs'
<1> SUFFICES ASSUME IInv, Logs, [Next]_vars PROVE Logs'
  OBVIOUS
<1>1. ASSUME NEW p \in Procs
      PROVE  /\ Current(p) \in Candidate /\ Current(p).tool \in Tools
             /\ snap[p] \in Registry /\ OnlyEarned(snap[p]) /\ Replays(snap[p])
             /\ view[p] \in Registry /\ OnlyEarned(view[p]) /\ Replays(view[p])
  BY DEF IInv, TypeOK, Copies, Current, Job, Candidate, Logs
<1>2. ASSUME NEW p \in Procs, Ends(p) \/ NextGap(p), Replays(registry')
      PROVE  Logs'
  BY <1>2, EmptyReplays DEF Ends, NextGap, IInv, TypeOK, Logs
<1>3. ASSUME NEW p \in Procs, Synthesize(p) \/ ReadQuarantine(p) \/ Enlist(p) \/ Rollback(p)
      PROVE  Logs'
  BY <1>3 DEF Synthesize, ReadQuarantine, Reads, Enlist, Rollback, files, Logs
<1>4. ASSUME NEW p \in Procs,
             ReadSnapshot(p) \/ ReadView(p) \/ RollbackReadsView(p) \/ RollbackLoads(p)
      PROVE  Logs'
  BY <1>4 DEF ReadSnapshot, ReadView, RollbackReadsView, RollbackLoads, Reads, files, Logs,
     IInv, TypeOK
<1>5. ASSUME NEW p \in Procs, AddCapability(p) \/ SaveRejected(p) \/ DemoteEntry(p)
      PROVE  Logs'
  <2>1. Replays(registry')
    BY <1>1, <1>5, SectionNotes DEF AddCapability, SaveRejected, DemoteEntry, WritesRegistry
  <2>2. UNCHANGED <<snap, view>>
    BY <1>5 DEF AddCapability, SaveRejected, DemoteEntry
  <2> QED
    BY <2>1, <2>2 DEF Logs
<1>6. ASSUME NEW p \in Procs, Register(p) PROVE Logs'
  <2>1. /\ registry' = WithRegistration(snap[p], Current(p)) /\ NextGap(p)
        /\ Accepted(Current(p))
    BY <1>6 DEF Register, WritesRegistry, IInv, Cleared, Current
  <2>2. Replays(registry')
    BY <1>1, <2>1, RegistrationReplays, WithRegistrationKeeps
  <2> QED
    BY <1>2, <2>1, <2>2
<1>7. ASSUME NEW p \in Procs, RollbackSaves(p) PROVE Logs'
  <2>1. registry' = RolledBack(snap[p], Current(p).tool) /\ Ends(p)
    BY <1>7 DEF RollbackSaves, WritesRegistry
  <2>2. Replays(registry')
    BY <1>1, <2>1, RollbackReplays, RolledBackKeeps
  <2> QED
    BY <1>2, <2>1, <2>2
<1>8. ASSUME NEW p \in Procs, LogFailure(p) \/ Raise(p) \/ Crash(p) PROVE Logs'
  <2>1. registry' = registry /\ (Ends(p) \/ NextGap(p))
    BY <1>8 DEF LogFailure, Raise, Crash, files
  <2> QED
    BY <1>2, <2>1 DEF Logs
<1>9. CASE UNCHANGED vars
  BY <1>9 DEF vars, files, procs, Logs
<1> QED
  BY <1>3, <1>4, <1>5, <1>6, <1>7, <1>8, <1>9 DEF Next, SelfExtend, RollBack

(* The list of capabilities can be replayed from the history, entry by entry:
   registrations and rollbacks may be lost to a stale copy, but never apart
   from their events, whatever overlaps and dies. *)
THEOREM HistoryTells == Spec => []HistoryReplays
<1>1. Replays(registry) => HistoryReplays
  <2>1. /\ Made(registry) = Registrations
        /\ \A i : UpTo(registry, i) = {j \in Registrations : j <= i}
        /\ \A u : Happened(registry, "rolled_back", u) = Occurrences("rolled_back", u)
    BY DEF Made, Registrations, UpTo, Happened, Occurrences
  <2> QED
    BY <2>1 DEF Replays, Entered, HistoryReplays
<1>2. Spec => [](IInv /\ Logs)
  BY InitHolds, NextHolds, InitLogs, NextLogs, PTL DEF Spec
<1>3. IInv /\ Logs => HistoryReplays
  BY <1>1 DEF Logs
<1> QED
  BY <1>2, <1>3, PTL

-----------------------------------------------------------------------------
(* One command at a time: what a process has read is what it writes over, and *)
(* the three records of a rejection are one step apart.                     *)

(* How often a tool's rejection is on record in a copy of the registry. *)
Rejections(r, t) == Cardinality(Happened(r, "quarantined", t))

OneAtATime == \A p, q \in Procs : pc[p] # "idle" /\ pc[q] # "idle" => p = q

Fresh(p) ==
  /\ pc[p] \in {"view", "list", "add", "rb_save"} => snap[p] = registry
  /\ pc[p] \in {"list", "add", "rb_demote"} => view[p] = registry
  /\ pc[p] \in {"register", "enlist", "reject"} =>
       /\ snap[p].capabilities = registry.capabilities
       /\ \A t \in Tools : Rejections(snap[p], t) = Rejections(registry, t)
  /\ pc[p] = "enlist" \/ (pc[p] = "add" /\ ~Accepted(Current(p))) => listed[p] = quarantine

Recorded ==
  \A t \in Tools : /\ failures[t] <= Rejections(registry, t)
                   /\ Rejections(registry, t) <= quarantine[t]

(* Past the quarantine file, a rejection is due in the registry, then in the
   failure corpus. *)
Due(p) ==
  LET t == Current(p).tool IN
  /\ pc[p] = "reject" => Rejections(registry, t) < quarantine[t]
  /\ pc[p] = "log" => failures[t] < Rejections(registry, t)

Owed(p, t) == pc[p] \in {"reject", "log"} /\ Current(p).tool = t

Balanced ==
  crashes = 0 =>
    \A t \in Tools :
      /\ (\E p \in Procs : Owed(p, t)) => quarantine[t] = failures[t] + 1
      /\ (\A p \in Procs : ~Owed(p, t)) => quarantine[t] = failures[t]

Alone ==
  overlap = FALSE =>
    OneAtATime /\ Recorded /\ Balanced /\ \A p \in Procs : Fresh(p) /\ Due(p)

(* One more event on record counts for its tool, if it is a rejection. *)
LEMMA CountNoted ==
  ASSUME NEW r \in Registry, NEW t \in Tools, NEW e \in EventKind,
         NEW s \in Registry, Logged(r, s, e, t)
  PROVE  \A u \in Tools :
           Rejections(s, u) = IF e = "quarantined" /\ u = t THEN Rejections(r, u) + 1
                                                            ELSE Rejections(r, u)
<1> SUFFICES ASSUME NEW u \in Tools
             PROVE  Rejections(s, u) = IF e = "quarantined" /\ u = t
                                         THEN Rejections(r, u) + 1 ELSE Rejections(r, u)
  OBVIOUS
<1>1. "quarantined" \in EventKind
  BY DEF EventKind
<1>2. Happened(s, "quarantined", u) =
        IF "quarantined" = e /\ u = t THEN Happened(r, "quarantined", u) \cup {NewPlace(r)}
                                      ELSE Happened(r, "quarantined", u)
  BY <1>1, NotedHappened
<1>3. NewPlace(r) \notin Happened(r, "quarantined", u)
  BY NotedHistory DEF Happened
<1>4. IsFiniteSet(Happened(r, "quarantined", u))
  <2>1. IsFiniteSet(DOMAIN r.history)
    BY Places, FS_Interval
  <2> QED
    BY <2>1, FS_Subset DEF Happened
<1> QED
  BY <1>2, <1>3, <1>4, FS_AddElement DEF Rejections

LEMMA RejectionsType ==
  ASSUME NEW r \in Registry, NEW t \in Tools
  PROVE  Rejections(r, t) \in Nat
<1>1. IsFiniteSet(DOMAIN r.history)
  BY Places, FS_Interval
<1> QED
  BY <1>1, FS_Subset, FS_CardinalityType DEF Happened, Rejections

(* What each change of the registry does to the list and to the count. *)
LEMMA CapabilityAdded ==
  ASSUME NEW r \in Registry, NEW c \in Candidate, OnlyEarned(r)
  PROVE  /\ WithCapability(r, c).capabilities = r.capabilities
         /\ \A u \in Tools : Rejections(WithCapability(r, c), u) = Rejections(r, u)
<1>1. c.tool \in Tools /\ "added" \in EventKind /\ "added" # "quarantined"
  BY DEF Candidate, EventKind
<1>2. /\ WithCapability(r, c).capabilities = r.capabilities
      /\ Logged(r, WithCapability(r, c), "added", c.tool)
  BY DEF WithCapability, Noted, Registry, Logged
<1>3. WithCapability(r, c) \in Registry
  BY WithCapabilityKeeps
<1> QED
  BY <1>1, <1>2, <1>3, CountNoted

LEMMA EntryDemoted ==
  ASSUME NEW r \in Registry, NEW t \in Tools, OnlyEarned(r), NEW s \in Demotions(r, t)
  PROVE  /\ s.capabilities = r.capabilities
         /\ \A u \in Tools : Rejections(s, u) = Rejections(r, u)
<1>1. "demoted" \in EventKind /\ "demoted" # "quarantined"
  BY DEF EventKind
<1>2. s.capabilities = r.capabilities /\ Logged(r, s, "demoted", t)
  BY DEF Demotions, Noted, Registry, Logged
<1>3. s \in Registry
  BY DemotionsKeep
<1> QED
  BY <1>1, <1>2, <1>3, CountNoted

LEMMA RejectionNoted ==
  ASSUME NEW r \in Registry, NEW t \in Tools
  PROVE  /\ Noted(r, "quarantined", t).capabilities = r.capabilities
         /\ \A u \in Tools : Rejections(Noted(r, "quarantined", t), u) =
                               IF u = t THEN Rejections(r, u) + 1 ELSE Rejections(r, u)
<1>1. "quarantined" \in EventKind
  BY DEF EventKind
<1>2. /\ Noted(r, "quarantined", t).capabilities = r.capabilities
      /\ Logged(r, Noted(r, "quarantined", t), "quarantined", t)
  BY DEF Noted, Registry, Logged
<1>3. Noted(r, "quarantined", t) \in Registry
  BY NotedKeeps
<1> QED
  BY <1>1, <1>2, <1>3, CountNoted

LEMMA EntryRegistered ==
  ASSUME NEW r \in Registry, NEW c \in Candidate, OnlyEarned(r), Accepted(c)
  PROVE  /\ WithRegistration(r, c).capabilities =
              Append(r.capabilities, [candidate |-> c, status |-> "active"])
         /\ \A u \in Tools : Rejections(WithRegistration(r, c), u) = Rejections(r, u)
<1>1. c.tool \in Tools /\ "registered" \in EventKind /\ "registered" # "quarantined"
  BY DEF Candidate, EventKind
<1>2. /\ WithRegistration(r, c).capabilities =
           Append(r.capabilities, [candidate |-> c, status |-> "active"])
      /\ Logged(r, WithRegistration(r, c), "registered", c.tool)
  BY DEF WithRegistration, Noted, Registry, Logged
<1>3. WithRegistration(r, c) \in Registry
  BY WithRegistrationKeeps
<1> QED
  BY <1>1, <1>2, <1>3, CountNoted

LEMMA EntryRolledBack ==
  ASSUME NEW r \in Registry, NEW t \in Tools, OnlyEarned(r)
  PROVE  /\ DOMAIN RolledBack(r, t).capabilities = DOMAIN r.capabilities
         /\ \A n \in DOMAIN r.capabilities :
              LET before == r.capabilities[n]
                  after == RolledBack(r, t).capabilities[n]
              IN  /\ after.candidate = before.candidate
                  /\ before.status = "rolled_back" => after.status = "rolled_back"
         /\ \A u \in Tools : Rejections(RolledBack(r, t), u) = Rejections(r, u)
<1> DEFINE list == [i \in DOMAIN r.capabilities |->
                      IF r.capabilities[i].candidate.tool = t
                        THEN [r.capabilities[i] EXCEPT !.status = "rolled_back"]
                        ELSE r.capabilities[i]]
<1>1. "rolled_back" \in EventKind /\ "rolled_back" # "quarantined"
  BY DEF EventKind
<1>2. RolledBack(r, t).capabilities = list /\ Logged(r, RolledBack(r, t), "rolled_back", t)
  BY DEF RolledBack, Noted, Registry, Logged
<1>3. RolledBack(r, t) \in Registry
  BY RolledBackKeeps
<1>4. \A n \in DOMAIN r.capabilities :
        /\ list[n].candidate = r.capabilities[n].candidate
        /\ r.capabilities[n].status = "rolled_back" => list[n].status = "rolled_back"
  <2>1. \A n \in DOMAIN r.capabilities : r.capabilities[n] \in Entry
    BY DEF Registry
  <2>2. \A b \in Entry : /\ [b EXCEPT !.status = "rolled_back"].candidate = b.candidate
                         /\ [b EXCEPT !.status = "rolled_back"].status = "rolled_back"
    BY DEF Entry
  <2> QED
    BY <2>1, <2>2
<1>5. DOMAIN list = DOMAIN r.capabilities
  OBVIOUS
<1>6. \A u \in Tools : Rejections(RolledBack(r, t), u) = Rejections(r, u)
  BY <1>1, <1>2, <1>3, CountNoted
<1> HIDE DEF list
<1> QED
  BY <1>2, <1>4, <1>5, <1>6

-----------------------------------------------------------------------------

LEMMA InitAlone == Init => Alone
<1> SUFFICES ASSUME Init PROVE Alone
  OBVIOUS
<1>1. \A t \in Tools : Rejections(registry, t) = 0 /\ failures[t] = 0 /\ quarantine[t] = 0
  <2>1. \A t \in Tools : Happened(registry, "quarantined", t) = {}
    BY DEF Init, EmptyRegistry, Happened
  <2> QED
    BY <2>1, FS_EmptySet DEF Init, NoCounts, Rejections
<1>2. \A p \in Procs : pc[p] = "idle"
  BY DEF Init
<1> QED
  BY <1>1, <1>2 DEF Alone, OneAtATime, Recorded, Balanced, Fresh, Due, Owed

(* With one process at work, the claims about the others are empty. *)
LEMMA SoleStep ==
  ASSUME NEW p \in Procs, \A q \in Procs : q # p => pc'[q] = "idle",
         Recorded', Fresh(p)', Due(p)',
         crashes' = 0 =>
           \A t \in Tools : /\ Owed(p, t)' => quarantine'[t] = failures'[t] + 1
                            /\ ~Owed(p, t)' => quarantine'[t] = failures'[t]
  PROVE  Alone'
<1>1. OneAtATime'
  BY DEF OneAtATime
<1>2. \A q \in Procs : Fresh(q)' /\ Due(q)'
  BY DEF Fresh, Due
<1>3. Balanced'
  <2>1. \A q \in Procs, t \in Tools : Owed(q, t)' => q = p
    BY DEF Owed
  <2> QED
    BY <2>1 DEF Balanced
<1> QED
  BY <1>1, <1>2, <1>3 DEF Alone

(* At these steps a process has nothing to rely on. *)
AtEase == {"idle", "snapshot", "rb_view", "rb_load"}

LEMMA EasyStep ==
  ASSUME NEW p \in Procs, \A q \in Procs : q # p => pc'[q] = "idle",
         pc'[p] \in AtEase, Recorded',
         crashes' = 0 => \A t \in Tools : quarantine'[t] = failures'[t]
  PROVE  Alone'
<1>1. Fresh(p)' /\ Due(p)' /\ \A t \in Tools : ~Owed(p, t)'
  BY DEF AtEase, Fresh, Due, Owed
<1> QED
  BY <1>1, SoleStep

(* Who is at work is alone at it, and so is who starts. *)
LEMMA OthersIdle ==
  ASSUME IInv, Alone, overlap = FALSE, NEW p \in Procs, pc[p] # "idle" \/ Idle,
         NEW x, pc' = [pc EXCEPT ![p] = x]
  PROVE  /\ pc'[p] = x
         /\ \A q \in Procs : q # p => pc[q] = "idle" /\ pc'[q] = "idle"
BY DEF IInv, TypeOK, Alone, OneAtATime, Idle

(* What is due of a rejection when it is not the process's. *)
LEMMA Square ==
  ASSUME Alone, overlap = FALSE, crashes = 0, NEW p \in Procs,
         \A q \in Procs : q # p => pc[q] = "idle",
         NEW t \in Tools
  PROVE  /\ Owed(p, t) => quarantine[t] = failures[t] + 1
         /\ ~Owed(p, t) => quarantine[t] = failures[t]
<1>1. \A q \in Procs : Owed(q, t) => q = p
  BY DEF Owed
<1> QED
  BY <1>1 DEF Alone, Balanced

(* The files keep their counts. *)
SameCounts ==
  /\ failures' = failures /\ quarantine' = quarantine
  /\ \A t \in Tools : Rejections(registry', t) = Rejections(registry, t)

LEMMA KeptCounts ==
  ASSUME Alone, overlap = FALSE, SameCounts PROVE Recorded'
BY DEF Alone, Recorded, SameCounts

(* A step that settles no account and opens none. *)
LEMMA NeutralStep ==
  ASSUME IInv, Alone, overlap = FALSE, NEW p \in Procs, pc[p] # "idle" \/ Idle,
         pc[p] \notin {"reject", "log"}, NEW x, x \notin {"reject", "log"},
         pc' = [pc EXCEPT ![p] = x], SameCounts, crashes' = crashes, Fresh(p)'
  PROVE  Alone'
<1>1. /\ pc'[p] = x
      /\ \A q \in Procs : q # p => pc[q] = "idle" /\ pc'[q] = "idle"
  BY OthersIdle
<1>2. \A t \in Tools : ~Owed(p, t) /\ ~Owed(p, t)'
  BY <1>1 DEF Owed
<1>3. crashes' = 0 => \A t \in Tools : quarantine'[t] = failures'[t]
  BY <1>1, <1>2, Square DEF SameCounts
<1>4. Due(p)'
  BY <1>1 DEF Due
<1> QED
  BY <1>1, <1>2, <1>3, <1>4, KeptCounts, SoleStep

LEMMA QuietStep ==
  ASSUME IInv, Alone, overlap = FALSE, NEW p \in Procs, pc[p] # "idle" \/ Idle,
         pc[p] \notin {"reject", "log"}, NEW x \in AtEase,
         pc' = [pc EXCEPT ![p] = x], SameCounts, crashes' = crashes
  PROVE  Alone'
<1>1. pc'[p] = x
  BY OthersIdle
<1>2. Fresh(p)' /\ x \notin {"reject", "log"}
  BY <1>1 DEF AtEase, Fresh
<1> QED
  BY <1>2, NeutralStep

LEMMA EndStep ==
  ASSUME NEW p \in Procs, Ends(p) \/ NextGap(p)
  PROVE  \E x \in AtEase : pc' = [pc EXCEPT ![p] = x]
BY DEF Ends, NextGap, Goto, AtEase

LEMMA NextAlone == IInv /\ Alone /\ [Next]_vars => Alone'
<1> SUFFICES ASSUME IInv, Alone, [Next]_vars, overlap' = FALSE PROVE Alone'
  BY DEF Alone
<1>0. ASSUME NEW p \in Procs
      PROVE  /\ Current(p) \in Candidate /\ Current(p).tool \in Tools
             /\ snap[p] \in Registry /\ OnlyEarned(snap[p])
             /\ view[p] \in Registry /\ OnlyEarned(view[p])
  BY DEF IInv, TypeOK, Copies, Current, Job, Candidate
<1>1. ASSUME NEW p \in Procs, Synthesize(p) \/ Rollback(p) PROVE Alone'
  <2>1. /\ pc[p] = "idle" /\ (overlap \/ Idle) /\ UNCHANGED <<overlap, files, crashes>>
        /\ \E x \in AtEase : pc' = [pc EXCEPT ![p] = x]
    BY <1>1 DEF Synthesize, Rollback, CanStart, Goto, AtEase
  <2>2. SameCounts
    BY <2>1 DEF files, SameCounts
  <2>3. overlap = FALSE /\ Idle /\ pc[p] \notin {"reject", "log"}
    BY <2>1
  <2> QED
    BY <2>1, <2>2, <2>3, QuietStep
<1>2. ASSUME NEW p \in Procs, Raise(p) PROVE Alone'
  <2>1. /\ pc[p] \in ReadStep /\ Ends(p) /\ UNCHANGED <<overlap, files, counts>>
    BY <1>2 DEF Raise
  <2>2. overlap = FALSE /\ SameCounts /\ crashes' = crashes
    BY <2>1 DEF files, counts, SameCounts
  <2>3. pc[p] \notin {"idle", "reject", "log"}
    BY <2>1 DEF ReadStep
  <2> QED
    BY <2>1, <2>2, <2>3, EndStep, QuietStep
<1>3. ASSUME NEW p \in Procs, Crash(p) PROVE Alone'
  <2>1. /\ pc[p] # "idle" /\ crashes' = crashes + 1 /\ Ends(p)
        /\ UNCHANGED <<overlap, registry, quarantine, failures>>
    BY <1>3 DEF Crash
  <2>2. overlap = FALSE /\ SameCounts /\ crashes' # 0
    BY <2>1 DEF SameCounts, IInv, TypeOK
  <2>3. PICK x \in AtEase : pc' = [pc EXCEPT ![p] = x]
    BY <2>1, EndStep
  <2>4. pc'[p] = x /\ \A q \in Procs : q # p => pc'[q] = "idle"
    BY <2>1, <2>2, <2>3, OthersIdle
  <2> QED
    BY <2>2, <2>4, KeptCounts, EasyStep
<1>4. ASSUME NEW p \in Procs,
             ReadSnapshot(p) \/ ReadView(p) \/ ReadQuarantine(p) \/ RollbackReadsView(p)
               \/ RollbackLoads(p)
      PROVE  Alone'
  <2>1. /\ pc[p] \in ReadStep /\ UNCHANGED <<overlap, files, counts>>
        /\ \E x \in Pc \ {"idle", "reject", "log"} : pc' = [pc EXCEPT ![p] = x]
    BY <1>4 DEF ReadSnapshot, ReadView, ReadQuarantine, RollbackReadsView, RollbackLoads,
       Reads, Goto, Pc, ReadStep, WriteStep
  <2>2. overlap = FALSE /\ SameCounts /\ crashes' = crashes
    BY <2>1 DEF files, counts, SameCounts
  <2>3. pc[p] \notin {"idle", "reject", "log"}
    BY <2>1 DEF ReadStep
  <2>4. Fresh(p)'
    <3>1. Fresh(p)
      BY <2>2 DEF Alone
    <3>2. ASSUME ReadSnapshot(p) PROVE Fresh(p)'
      BY <3>2, <2>3 DEF ReadSnapshot, Reads, Goto, Fresh, files, IInv, TypeOK
    <3>3. ASSUME ReadView(p) PROVE Fresh(p)'
      <4>1. /\ pc[p] = "view" /\ UNCHANGED <<files, job, snap>> /\ view'[p] = registry
            /\ pc'[p] = IF Accepted(Current(p)) THEN "add" ELSE "list"
        BY <3>3 DEF ReadView, Reads, Goto, IInv, TypeOK
      <4>2. Current(p)' = Current(p) /\ Accepted(Current(p)') = Accepted(Current(p))
        BY <4>1 DEF Current
      <4> QED
        BY <3>1, <4>1, <4>2 DEF Fresh, files
    <3>4. ASSUME ReadQuarantine(p) PROVE Fresh(p)'
      BY <3>1, <3>4 DEF ReadQuarantine, Reads, Goto, Fresh, files, IInv, TypeOK
    <3>5. ASSUME RollbackReadsView(p) PROVE Fresh(p)'
      BY <3>1, <3>5 DEF RollbackReadsView, Reads, Goto, Fresh, files, IInv, TypeOK
    <3>6. ASSUME RollbackLoads(p) PROVE Fresh(p)'
      BY <3>1, <3>6 DEF RollbackLoads, Reads, Goto, Fresh, files, IInv, TypeOK
    <3> QED
      BY <1>4, <3>2, <3>3, <3>4, <3>5, <3>6
  <2> QED
    BY <2>1, <2>2, <2>3, <2>4, NeutralStep
<1>5. ASSUME NEW p \in Procs, AddCapability(p) PROVE Alone'
  <2>1. /\ pc[p] = "add" /\ UNCHANGED <<overlap, quarantine, failures, crashes, job, snap, listed>>
        /\ registry' = WithCapability(view[p], Current(p))
        /\ pc' = [pc EXCEPT ![p] = IF Accepted(Current(p)) THEN "register" ELSE "enlist"]
    BY <1>5 DEF AddCapability, WritesRegistry, Goto, counts
  <2>2. overlap = FALSE /\ Fresh(p)
    BY <2>1 DEF Alone
  <2>3. snap[p] = registry /\ view[p] = registry
    BY <2>1, <2>2 DEF Fresh
  <2>4. registry'.capabilities = registry.capabilities /\ SameCounts
    BY <1>0, <2>1, <2>3, CapabilityAdded DEF SameCounts
  <2>5. pc'[p] = IF Accepted(Current(p)) THEN "register" ELSE "enlist"
    BY <2>1 DEF IInv, TypeOK
  <2>6. Fresh(p)'
    BY <2>1, <2>2, <2>3, <2>4, <2>5 DEF Fresh, SameCounts
  <2> QED
    BY <2>1, <2>2, <2>4, <2>6, NeutralStep
<1>6. ASSUME NEW p \in Procs, Register(p) PROVE Alone'
  <2>1. /\ pc[p] = "register" /\ UNCHANGED <<overlap, quarantine, failures, crashes>>
        /\ registry' = WithRegistration(snap[p], Current(p)) /\ NextGap(p)
    BY <1>6 DEF Register, WritesRegistry, counts
  <2>2. overlap = FALSE /\ Fresh(p) /\ Accepted(Current(p))
    BY <2>1 DEF Alone, IInv, Cleared, Current
  <2>3. SameCounts
    BY <1>0, <2>1, <2>2, EntryRegistered DEF Fresh, SameCounts
  <2> QED
    BY <2>1, <2>2, <2>3, EndStep, QuietStep
<1>7. ASSUME NEW p \in Procs, Enlist(p) PROVE Alone'
  <2> DEFINE tool == Current(p).tool
  <2>1. /\ pc[p] = "enlist" /\ UNCHANGED <<overlap, registry, failures, crashes, job, snap>>
        /\ quarantine' = [listed[p] EXCEPT ![tool] = @ + 1]
        /\ pc' = [pc EXCEPT ![p] = "reject"]
    BY <1>7 DEF Enlist, Goto, counts
  <2>2. overlap = FALSE /\ Fresh(p) /\ Recorded
    BY <2>1 DEF Alone
  <2>3. /\ pc'[p] = "reject"
        /\ \A q \in Procs : q # p => pc[q] = "idle" /\ pc'[q] = "idle"
    BY <2>1, <2>2, OthersIdle
  <2>4. /\ listed[p] = quarantine /\ tool \in Tools /\ Current(p)' = Current(p)
        /\ \A t \in Tools : quarantine[t] \in Nat /\ failures[t] \in Nat
                             /\ Rejections(registry, t) \in Nat
    BY <1>0, <2>1, <2>2, RejectionsType DEF Fresh, Current, IInv, TypeOK, Counts
  <2>5. \A t \in Tools : quarantine'[t] = IF t = tool THEN quarantine[t] + 1 ELSE quarantine[t]
    BY <2>1, <2>4 DEF IInv, TypeOK, Counts
  <2> HIDE DEF tool
  <2>6. Recorded'
    BY <2>1, <2>2, <2>4, <2>5 DEF Recorded
  <2>7. Fresh(p)'
    BY <2>1, <2>2, <2>3 DEF Fresh
  <2>8. Due(p)'
    BY <2>1, <2>2, <2>3, <2>4, <2>5 DEF Due, Recorded, tool
  <2>9. ASSUME crashes' = 0, NEW t \in Tools
        PROVE  /\ Owed(p, t)' => quarantine'[t] = failures'[t] + 1
               /\ ~Owed(p, t)' => quarantine'[t] = failures'[t]
    <3>1. quarantine[t] = failures[t]
      BY <2>1, <2>2, <2>3, <2>9, Square DEF Owed
    <3>2. Owed(p, t)' <=> t = tool
      BY <2>3, <2>4 DEF Owed, tool
    <3> QED
      BY <2>1, <2>5, <3>1, <3>2
  <2> QED
    BY <2>3, <2>6, <2>7, <2>8, <2>9, SoleStep
<1>8. ASSUME NEW p \in Procs, SaveRejected(p) PROVE Alone'
  <2> DEFINE tool == Current(p).tool
  <2>1. /\ pc[p] = "reject" /\ UNCHANGED <<overlap, quarantine, failures, crashes, job>>
        /\ registry' = Noted(snap[p], "quarantined", tool)
        /\ pc' = [pc EXCEPT ![p] = "log"]
    BY <1>8 DEF SaveRejected, WritesRegistry, Goto, counts
  <2>2. overlap = FALSE /\ Fresh(p) /\ Recorded /\ Due(p)
    BY <2>1 DEF Alone
  <2>3. /\ pc'[p] = "log"
        /\ \A q \in Procs : q # p => pc[q] = "idle" /\ pc'[q] = "idle"
    BY <2>1, <2>2, OthersIdle
  <2>4. /\ tool \in Tools /\ Current(p)' = Current(p)
        /\ \A t \in Tools : quarantine[t] \in Nat /\ failures[t] \in Nat
                             /\ Rejections(registry, t) \in Nat
    BY <1>0, <2>1, RejectionsType DEF Current, IInv, TypeOK, Counts
  <2>5. \A t \in Tools : Rejections(registry', t) =
                             IF t = tool THEN Rejections(registry, t) + 1
                                         ELSE Rejections(registry, t)
    BY <1>0, <2>1, <2>2, <2>4, RejectionNoted DEF Fresh
  <2> HIDE DEF tool
  <2>6. Recorded'
    BY <2>1, <2>2, <2>4, <2>5 DEF Recorded, Due, tool
  <2>7. Fresh(p)'
    BY <2>3 DEF Fresh
  <2>8. Due(p)'
    BY <2>1, <2>2, <2>3, <2>4, <2>5 DEF Due, Recorded, tool
  <2>9. ASSUME crashes' = 0, NEW t \in Tools
        PROVE  /\ Owed(p, t)' => quarantine'[t] = failures'[t] + 1
               /\ ~Owed(p, t)' => quarantine'[t] = failures'[t]
    <3>1. Owed(p, t)' <=> Owed(p, t)
      BY <2>1, <2>3, <2>4 DEF Owed
    <3> QED
      BY <2>1, <2>2, <2>3, <2>9, <3>1, Square
  <2> QED
    BY <2>3, <2>6, <2>7, <2>8, <2>9, SoleStep
<1>9. ASSUME NEW p \in Procs, LogFailure(p) PROVE Alone'
  <2> DEFINE tool == Current(p).tool
  <2>1. /\ pc[p] = "log" /\ UNCHANGED <<overlap, registry, quarantine, crashes>>
        /\ failures' = [failures EXCEPT ![tool] = @ + 1] /\ NextGap(p)
    BY <1>9 DEF LogFailure, counts
  <2>2. overlap = FALSE /\ Recorded /\ Due(p)
    BY <2>1 DEF Alone
  <2>3. PICK x \in AtEase : pc' = [pc EXCEPT ![p] = x]
    BY <2>1, EndStep
  <2>4. /\ pc'[p] = x
        /\ \A q \in Procs : q # p => pc[q] = "idle" /\ pc'[q] = "idle"
    BY <2>1, <2>2, <2>3, OthersIdle
  <2>5. /\ tool \in Tools
        /\ \A t \in Tools : quarantine[t] \in Nat /\ failures[t] \in Nat
                             /\ Rejections(registry, t) \in Nat
    BY <1>0, RejectionsType DEF IInv, TypeOK, Counts
  <2>6. \A t \in Tools : failures'[t] = IF t = tool THEN failures[t] + 1 ELSE failures[t]
    BY <2>1, <2>5 DEF IInv, TypeOK, Counts
  <2> HIDE DEF tool
  <2>7. Recorded'
    BY <2>1, <2>2, <2>5, <2>6 DEF Recorded, Due, tool
  <2>8. ASSUME crashes' = 0, NEW t \in Tools PROVE quarantine'[t] = failures'[t]
    <3>1. Owed(p, t) <=> t = tool
      BY <2>1 DEF Owed, tool
    <3>2. /\ Owed(p, t) => quarantine[t] = failures[t] + 1
          /\ ~Owed(p, t) => quarantine[t] = failures[t]
      BY <2>1, <2>2, <2>4, <2>8, Square
    <3> QED
      BY <2>1, <2>6, <3>1, <3>2
  <2> QED
    BY <2>4, <2>7, <2>8, EasyStep
<1>10. ASSUME NEW p \in Procs, DemoteEntry(p) PROVE Alone'
  <2>1. /\ pc[p] = "rb_demote" /\ UNCHANGED <<overlap, quarantine, failures, crashes>>
        /\ registry' \in Demotions(view[p], Current(p).tool)
        /\ pc' = [pc EXCEPT ![p] = "rb_load"]
    BY <1>10 DEF DemoteEntry, WritesRegistry, Goto, counts
  <2>2. overlap = FALSE /\ view[p] = registry
    BY <2>1 DEF Alone, Fresh
  <2>3. SameCounts
    BY <1>0, <2>1, <2>2, EntryDemoted DEF SameCounts
  <2>4. "rb_load" \in AtEase
    BY DEF AtEase
  <2> QED
    BY <2>1, <2>2, <2>3, <2>4, QuietStep
<1>11. ASSUME NEW p \in Procs, RollbackSaves(p) PROVE Alone'
  <2>1. /\ pc[p] = "rb_save" /\ UNCHANGED <<overlap, quarantine, failures, crashes>>
        /\ registry' = RolledBack(snap[p], Current(p).tool) /\ Ends(p)
    BY <1>11 DEF RollbackSaves, WritesRegistry, counts
  <2>2. overlap = FALSE /\ snap[p] = registry
    BY <2>1 DEF Alone, Fresh
  <2>3. SameCounts
    BY <1>0, <2>1, <2>2, EntryRolledBack DEF SameCounts
  <2> QED
    BY <2>1, <2>2, <2>3, EndStep, QuietStep
<1>12. CASE UNCHANGED vars
  BY <1>12 DEF vars, files, procs, counts, Alone, OneAtATime, Recorded, Balanced, Fresh, Due,
     Owed, Current
<1> QED
  BY <1>1, <1>2, <1>3, <1>4, <1>5, <1>6, <1>7, <1>8, <1>9, <1>10, <1>11, <1>12
     DEF Next, SelfExtend, RollBack

LEMMA AloneHolds == Spec => [](IInv /\ Alone)
BY InitHolds, NextHolds, InitAlone, NextAlone, PTL DEF Spec

(* With one command at a time the three records of a rejection are never more
   than the steps between their writes apart, for any number of commands and
   kills. *)
THEOREM RejectionsTraced == Spec => []QuarantineTraced
<1>1. ASSUME IInv, Alone PROVE QuarantineTraced
  <2>1. ASSUME overlap = FALSE, NEW t \in Tools
        PROVE  /\ failures[t] <= Rejections(registry, t)
               /\ Rejections(registry, t) <= quarantine[t]
               /\ Idle /\ crashes = 0 => failures[t] = quarantine[t]
    <3>1. Idle => \A p \in Procs : ~Owed(p, t)
      BY DEF Idle, Owed
    <3> QED
      BY <1>1, <2>1, <3>1 DEF Alone, Recorded, Balanced
  <2>2. \A t : Cardinality(Occurrences("quarantined", t)) = Rejections(registry, t)
    BY DEF Occurrences, Rejections, Happened
  <2>3. ~overlap <=> overlap = FALSE
    BY <1>1, GovernanceAssumption DEF IInv, TypeOK
  <2> QED
    BY <2>1, <2>2, <2>3 DEF QuarantineTraced
<1> QED
  BY <1>1, AloneHolds, PTL

(* No step makes an entry active again or loses one: whatever is written over
   the registry was read from it and holds all that is there. *)
ListKept ==
  \A i \in DOMAIN registry.capabilities :
    LET before == registry.capabilities[i]
        after == registry'.capabilities[i]
    IN  /\ i \in DOMAIN registry'.capabilities
        /\ after.candidate = before.candidate
        /\ before.status = "rolled_back" => after.status = "rolled_back"

LEMMA NextListKept ==
  ASSUME IInv, Alone, overlap = FALSE, [Next]_vars PROVE ListKept
<1>0. ASSUME NEW p \in Procs
      PROVE  /\ Current(p) \in Candidate /\ Current(p).tool \in Tools
             /\ snap[p] \in Registry /\ OnlyEarned(snap[p])
             /\ view[p] \in Registry /\ OnlyEarned(view[p])
             /\ Fresh(p)
  BY DEF IInv, TypeOK, Copies, Current, Job, Candidate, Alone
<1>1. ASSUME registry'.capabilities = registry.capabilities PROVE ListKept
  BY <1>1 DEF ListKept
<1>2. ASSUME NEW p \in Procs, AddCapability(p) PROVE ListKept
  <2>1. pc[p] = "add" /\ registry' = WithCapability(view[p], Current(p))
    BY <1>2 DEF AddCapability, WritesRegistry
  <2>2. view[p] = registry
    BY <1>0, <2>1 DEF Fresh
  <2> QED
    BY <1>0, <1>1, <2>1, <2>2, CapabilityAdded
<1>3. ASSUME NEW p \in Procs, Register(p) PROVE ListKept
  <2> DEFINE new == [candidate |-> Current(p), status |-> "active"]
  <2>1. /\ pc[p] = "register" /\ registry' = WithRegistration(snap[p], Current(p))
        /\ Accepted(Current(p))
    BY <1>3 DEF Register, WritesRegistry, IInv, Cleared, Current
  <2>2. registry'.capabilities = Append(registry.capabilities, new)
    BY <1>0, <2>1, EntryRegistered DEF Fresh
  <2>3. new \in Entry /\ registry.capabilities \in Seq(Entry)
    BY <1>0 DEF Entry, IInv, TypeOK, Registry
  <2> HIDE DEF new
  <2> QED
    BY <2>2, <2>3 DEF ListKept
<1>4. ASSUME NEW p \in Procs, SaveRejected(p) PROVE ListKept
  <2>1. pc[p] = "reject" /\ registry' = Noted(snap[p], "quarantined", Current(p).tool)
    BY <1>4 DEF SaveRejected, WritesRegistry
  <2> QED
    BY <1>0, <1>1, <2>1, RejectionNoted DEF Fresh
<1>5. ASSUME NEW p \in Procs, DemoteEntry(p) PROVE ListKept
  <2>1. pc[p] = "rb_demote" /\ registry' \in Demotions(view[p], Current(p).tool)
    BY <1>5 DEF DemoteEntry, WritesRegistry
  <2>2. view[p] = registry
    BY <1>0, <2>1 DEF Fresh
  <2> QED
    BY <1>0, <1>1, <2>1, <2>2, EntryDemoted
<1>6. ASSUME NEW p \in Procs, RollbackSaves(p) PROVE ListKept
  <2>1. pc[p] = "rb_save" /\ registry' = RolledBack(snap[p], Current(p).tool)
    BY <1>6 DEF RollbackSaves, WritesRegistry
  <2>2. snap[p] = registry
    BY <1>0, <2>1 DEF Fresh
  <2> QED
    BY <1>0, <2>1, <2>2, EntryRolledBack DEF ListKept
<1>7. ASSUME NEW p \in Procs,
             Synthesize(p) \/ ReadSnapshot(p) \/ ReadView(p) \/ ReadQuarantine(p) \/ Enlist(p)
               \/ LogFailure(p) \/ Rollback(p) \/ RollbackReadsView(p) \/ RollbackLoads(p)
               \/ Raise(p) \/ Crash(p)
      PROVE  ListKept
  <2>1. registry' = registry
    BY <1>7 DEF Synthesize, ReadSnapshot, ReadView, ReadQuarantine, Enlist, LogFailure,
       Rollback, RollbackReadsView, RollbackLoads, Raise, Crash, Reads, files
  <2> QED
    BY <1>1, <2>1
<1>8. CASE UNCHANGED vars
  BY <1>1, <1>8 DEF vars, files
<1> QED
  BY <1>2, <1>3, <1>4, <1>5, <1>6, <1>7, <1>8 DEF Next, SelfExtend, RollBack

(* With one command at a time no step makes a capability that was rolled back
   active again, and none loses an entry. *)
THEOREM RollbacksStand == Spec => RollbackStands
<1>1. ASSUME IInv, Alone, [Next]_vars PROVE overlap = FALSE => ListKept
  BY <1>1, NextListKept
<1>2. IInv => (~overlap <=> overlap = FALSE)
  BY GovernanceAssumption DEF IInv, TypeOK
<1>3. Spec => [][~overlap => ListKept]_vars
  <2>1. IInv /\ Alone /\ [Next]_vars => [~overlap => ListKept]_vars
    BY <1>1, <1>2
  <2> QED
    BY <2>1, AloneHolds, PTL DEF Spec
<1>4. [][~overlap => ListKept]_vars <=> RollbackStands
  BY DEF ListKept, RollbackStands
<1> QED
  BY <1>3, <1>4
=============================================================================
