----------------------------- MODULE Approvals -----------------------------
(***************************************************************************)
(* One approval request over its life (control_plane/approvals.py): created *)
(* by require_approval, moved by transition_approval, every move recorded  *)
(* in its history.  Its users keep it in a run record.                     *)
(***************************************************************************)
EXTENDS Naturals, Sequences, ApprovalStates

CONSTANTS
  Approvers,    \* identities that may be given to transition_approval
  Unnamed,      \* approver_identity = None
  MaxHistory    \* bound: entries in the history

ASSUME ApprovalsAssumption == Unnamed \notin Approvers /\ MaxHistory \in Nat

VARIABLES
  status,
  approver,     \* approver_identity
  history,
  resolved      \* the history entry whose time resolved_at is, 0 if none

vars == <<status, approver, history, resolved>>

Identity == Approvers \cup {Unnamed}
Entry == [from : ValidApprovalStates \cup {"none"}, to : ValidApprovalStates,
          by : Identity]

(* require_approval. *)
Init ==
  /\ status = "pending"
  /\ approver = Unnamed
  /\ history = << [from |-> "none", to |-> "pending", by |-> Unnamed] >>
  /\ resolved = 0

(* Faulty: the history entry is built from the status already changed. *)
TransitionApprovalLate(next, who) ==
  /\ Len(history) < MaxHistory
  /\ TransitionAllowed(status, next)
  /\ status' = next
  /\ approver' = IF who = Unnamed THEN approver ELSE who
  /\ history' = Append(history, [from |-> status', to |-> next, by |-> approver'])
  /\ resolved' = IF next \in TerminalApprovalStates THEN Len(history') ELSE resolved

(* transition_approval; a transition that is not allowed raises. *)
TransitionApproval(next, who) ==
  /\ Len(history) < MaxHistory
  /\ TransitionAllowed(status, next)
  /\ status' = next
  /\ approver' = IF who = Unnamed THEN approver ELSE who
  /\ history' = Append(history, [from |-> status, to |-> next, by |-> approver'])
  /\ resolved' = IF next \in TerminalApprovalStates THEN Len(history') ELSE resolved

(* What callers may ask for: every state of the module, and one it has not. *)
Requested == ValidApprovalStates \cup {"unsupported"}

Next == \E next \in Requested, who \in Identity : TransitionApproval(next, who)

Spec == Init /\ [][Next]_vars

-----------------------------------------------------------------------------

TypeOK ==
  /\ status \in ValidApprovalStates
  /\ approver \in Identity
  /\ history \in Seq(Entry)
  /\ resolved \in 0..Len(history)

(* The history is one unbroken chain from creation to the present status and
   approver: an auditor who replays it arrives where the request is. *)
HistoryExplains ==
  /\ history # <<>>
  /\ history[1].from = "none"
  /\ \A i \in 2..Len(history) : history[i].from = history[i - 1].to
  /\ history[Len(history)].to = status
  /\ history[Len(history)].by = approver

(* resolved_at is set exactly when the request has been decided, and the trail
   never shows a decision followed by anything but the same decision. *)
ResolutionStands ==
  /\ resolved = 0 <=> status \notin TerminalApprovalStates
  /\ \A i, j \in 1..Len(history) :
       i < j /\ history[i].to \in TerminalApprovalStates => history[j].to = history[i].to

(* What an auditor relies on: the trail leads unbroken to where the request is,
   and shows one decision at most, the one that stands. *)
AuditTrailStands == HistoryExplains /\ ResolutionStands

(* Nobody takes a decision back (control_plane/approvals.py:63-64). *)
DecisionStands ==
  [][(status \in TerminalApprovalStates) => (status' = status)]_vars

=============================================================================
