--------------------------- MODULE ApprovalStates ---------------------------
(***************************************************************************)
(* The states of an approval request and which may follow which            *)
(* (control_plane/approvals.py).                                           *)
(***************************************************************************)

ValidApprovalStates == {"pending", "approved", "denied", "escalated"}
TerminalApprovalStates == {"approved", "denied"}

(* A faulty form of TransitionAllowed: the terminal-state check is missing. *)
TransitionAlways(current, next) == next \in ValidApprovalStates

(* A faulty form of TransitionAllowed: any state is accepted as the next one. *)
TransitionToAny(current, next) == current \in TerminalApprovalStates => next = current

(* _validate_transition: a terminal state may only be entered again. *)
TransitionAllowed(current, next) ==
  /\ next \in ValidApprovalStates
  /\ current \in TerminalApprovalStates => next = current

=============================================================================
