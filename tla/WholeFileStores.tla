--------------------------- MODULE WholeFileStores ---------------------------
(***************************************************************************)
(* Things kept on disk that every command replaces as a whole: the trust    *)
(* registry of extensions (self_extend/), the entitlements of users         *)
(* (commerce/), and the directory that a rollback restores (ops/rollback.py).*)
(* Commands are processes; any may be killed while it writes.              *)
(***************************************************************************)
EXTENDS Naturals

CONSTANTS
  Users,        \* processes
  Names,        \* extensions, or users with entitlements
  Features,     \* what is granted and revoked one at a time
  Nothing,      \* what a process has loaded before it has loaded anything
  MaxOrders,    \* bound: orders given
  MaxDeaths     \* bound: processes killed

VARIABLES
  store,        \* which of the three this behaviour is about
  file,         \* file[name]: its entry in the registry, or its features
  torn,         \* is the file cut short?
  copy,         \* copy[p]: what the process p has loaded of the file
  step,         \* step[p]: "idle", or what p is in the middle of
  directory,    \* the directory a rollback restores
  orders, deaths,
  meant,        \* history: what the orders given so far add up to
  ever,         \* history: what was ever ordered for each name
  disturbed     \* history: did others overlap with the last one, or it die?

storeVars == <<store, file, torn, copy, step, directory, orders, deaths, meant, ever,
               disturbed>>

-----------------------------------------------------------------------------
(* What is on file for a name is a set, empty without an entry: the status   *)
(* of an extension, or the features of a user that is listed.               *)

PlanFeatures ==
  [free |-> {"read"}, pro |-> {"read", "build", "deploy"},
   enterprise |-> {"read", "build", "deploy", "admin", "self_extend"}]

Status == {"quarantined", "promoted", "rolled_back"}
PlanFeature == UNION {PlanFeatures[plan] : plan \in DOMAIN PlanFeatures}

EntryOnFile == SUBSET (Status \cup Features \cup PlanFeature \cup {"listed"})
Registry == [Names -> EntryOnFile]

ASSUME StoresAssumption == Nothing \notin Registry /\ MaxOrders \in Nat /\ MaxDeaths \in Nat

Order ==
  CASE store = "trust" -> [kind : {"register"}] \cup [kind : {"status"}, to : Status]
    [] store = "entitlements" -> [kind : {"grant", "revoke"}, feature : Features]
                                 \cup [kind : {"plan"}, plan : DOMAIN PlanFeatures]
    [] OTHER -> {}

(* A status is changed, and a feature revoked, only of what has an entry;
   otherwise nothing is saved. *)
Ignored(order, entry) == order.kind \in {"status", "revoke"} /\ entry = {}

Changed(order, entry) ==
  CASE order.kind = "register" -> {"quarantined"}
    [] order.kind = "status" -> {order.to}
    [] order.kind = "grant" -> entry \cup {"listed", order.feature}
    [] order.kind = "revoke" -> entry \ {order.feature}
    [] order.kind = "plan" -> PlanFeatures[order.plan] \cup {"listed"}

Alone(p) == \A other \in Users \ {p} : copy[other] = Nothing /\ step[other] = "idle"

-----------------------------------------------------------------------------

(* self_extend.lifecycle is imported: the registry is loaded, once for the
   process; it raises on a torn file. *)
Import(p) ==
  /\ store = "trust"
  /\ copy[p] = Nothing /\ ~torn
  /\ copy' = [copy EXCEPT ![p] = file]
  /\ meant' = IF Alone(p) THEN file ELSE meant
  /\ disturbed' = ~Alone(p)
  /\ UNCHANGED <<store, file, torn, step, directory, orders, deaths, ever>>

Exits(p) ==
  /\ store = "trust"
  /\ step[p] = "idle" /\ copy[p] # Nothing
  /\ copy' = [copy EXCEPT ![p] = Nothing]
  /\ UNCHANGED <<store, file, torn, step, directory, orders, deaths, meant, ever, disturbed>>

(* An order works on the registry as it was imported, on the entitlements as
   they are loaded for it. *)
CanOrder(p) ==
  /\ orders < MaxOrders
  /\ step[p] = "idle"
  /\ IF store = "trust" THEN copy[p] # Nothing ELSE ~torn

Loaded(p) == IF store = "trust" THEN copy[p] ELSE file

Ordered(p, name, order) ==
  /\ LET before == IF store = "entitlements" /\ Alone(p) THEN file ELSE meant IN
       meant' = [before EXCEPT ![name] = Changed(order, @)]
  /\ ever' = [ever EXCEPT ![name] = @ \cup Changed(order, Loaded(p)[name])]
  /\ disturbed' = (~Alone(p) \/ (disturbed /\ store = "trust"))
  /\ step' = [step EXCEPT ![p] = "save"]
  /\ orders' = orders + 1
  /\ UNCHANGED <<store, file, torn, directory, deaths>>

(* Faulty: what is about to be saved is what was loaded. *)
GiveOrderLate(p, name, order) ==
  /\ CanOrder(p) /\ ~Ignored(order, Loaded(p)[name])
  /\ copy' = [copy EXCEPT ![p] = Loaded(p)]
  /\ Ordered(p, name, order)

(* register, promote, quarantine and rollback of an extension; grant, revoke
   and plan of a user, the last also by a webhook whose signature verifies. *)
GiveOrder(p, name, order) ==
  /\ CanOrder(p) /\ ~Ignored(order, Loaded(p)[name])
  /\ copy' = [copy EXCEPT ![p] = [Loaded(p) EXCEPT ![name] = Changed(order, @)]]
  /\ Ordered(p, name, order)

Save(p) ==
  /\ step[p] = "save"
  /\ file' = copy[p] /\ torn' = FALSE
  /\ copy' = [copy EXCEPT ![p] = IF store = "trust" THEN @ ELSE Nothing]
  /\ step' = [step EXCEPT ![p] = "idle"]
  /\ UNCHANGED <<store, directory, orders, deaths, meant, ever, disturbed>>

-----------------------------------------------------------------------------
(* rollback_to_last_valid, with a backup: the directory is removed, then the *)
(* backup copied in its place, which raises if something is there again.    *)

BeginRollback(p) ==
  /\ store = "rollback"
  /\ step[p] = "idle" /\ orders < MaxOrders
  /\ orders' = orders + 1
  /\ step' = [step EXCEPT ![p] = IF directory = "absent" THEN "copy" ELSE "remove"]
  /\ disturbed' = ~Alone(p)
  /\ UNCHANGED <<store, file, torn, copy, directory, deaths, meant, ever>>

(* rmtree raises on what another has removed. *)
RemoveDirectory(p) ==
  /\ step[p] = "remove"
  /\ directory' = "absent"
  /\ step' = [step EXCEPT ![p] = IF directory = "absent" THEN "idle" ELSE "copy"]
  /\ UNCHANGED <<store, file, torn, copy, orders, deaths, meant, ever, disturbed>>

BeginCopy(p) ==
  /\ step[p] = "copy"
  /\ directory' = IF directory = "absent" THEN "part" ELSE directory
  /\ step' = [step EXCEPT ![p] = IF directory = "absent" THEN "copying" ELSE "idle"]
  /\ UNCHANGED <<store, file, torn, copy, orders, deaths, meant, ever, disturbed>>

(* What another removed meanwhile is missing from the copy. *)
EndCopy(p) ==
  /\ step[p] = "copying"
  /\ directory' = IF disturbed THEN "part" ELSE "restored"
  /\ step' = [step EXCEPT ![p] = "idle"]
  /\ UNCHANGED <<store, file, torn, copy, orders, deaths, meant, ever, disturbed>>

(* Whoever works in the directory changes it, or removes it. *)
WorkGoesOn ==
  /\ store = "rollback"
  /\ directory' \in {"changed", "absent"}
  /\ disturbed' = TRUE
  /\ UNCHANGED <<store, file, torn, copy, step, orders, deaths, meant, ever>>

-----------------------------------------------------------------------------

(* Killed before the write, or during it: a file is cut short, a directory
   half removed or half copied. *)
Killed(p) ==
  /\ deaths < MaxDeaths
  /\ step[p] # "idle"
  /\ deaths' = deaths + 1
  /\ step' = [step EXCEPT ![p] = "idle"] /\ copy' = [copy EXCEPT ![p] = Nothing]
  /\ disturbed' = TRUE
  /\ \/ UNCHANGED torn
     \/ step[p] = "save" /\ torn' = TRUE
  /\ \/ UNCHANGED directory
     \/ step[p] = "remove" /\ directory # "absent" /\ directory' = "part"
  /\ UNCHANGED <<store, file, orders, meant, ever>>

StoreInit ==
  /\ store \in {"trust", "entitlements", "rollback"}
  /\ file = [name \in Names |-> {}] /\ torn = FALSE
  /\ copy = [p \in Users |-> Nothing] /\ step = [p \in Users |-> "idle"]
  /\ directory = "changed"
  /\ orders = 0 /\ deaths = 0
  /\ meant = file /\ ever = file /\ disturbed = TRUE

StoreNext ==
  \/ \E p \in Users :
       \/ Import(p) \/ Exits(p) \/ Save(p)
       \/ \E name \in Names, order \in Order : GiveOrder(p, name, order)
       \/ BeginRollback(p) \/ RemoveDirectory(p) \/ BeginCopy(p) \/ EndCopy(p)
       \/ Killed(p)
  \/ WorkGoesOn

StoreSpec == StoreInit /\ [][StoreNext]_storeVars

-----------------------------------------------------------------------------

(* Every variable keeps its type. *)
StoreTypeOK ==
  /\ store \in {"trust", "entitlements", "rollback"}
  /\ file \in Registry /\ meant \in Registry /\ ever \in Registry
  /\ torn \in BOOLEAN
  /\ \A p \in Users : copy[p] = Nothing \/ copy[p] \in Registry
  /\ step \in [Users -> {"idle", "save", "remove", "copy", "copying"}]
  /\ directory \in {"changed", "restored", "absent", "part"}
  /\ orders \in 0..MaxOrders /\ deaths \in 0..MaxDeaths
  /\ disturbed \in BOOLEAN

(* Whoever works undisturbed gets what was ordered: the file then adds up to
   the orders given, the directory is the backup, however many were killed or
   overlapped before.  And whatever overlaps or is killed: a file that can be
   read has only entries that were ordered for the name they are at. *)
LastOrderStands ==
  /\ ~disturbed /\ (\A p \in Users : step[p] = "idle") =>
       IF store = "rollback" THEN directory = "restored" ELSE ~torn /\ file = meant
  /\ ~torn => \A name \in Names : file[name] \subseteq ever[name]

=============================================================================
