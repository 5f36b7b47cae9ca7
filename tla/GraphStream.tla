---------------------------- MODULE GraphStream ----------------------------
(***************************************************************************)
(* What the run service relies on of a control plane: a stream of node     *)
(* updates that stops at an interrupt for the human, goes on from it with  *)
(* the answer, and is exhausted when the graph has nothing left to run.    *)
(* RunService pulls such a stream and ControlPlane implements it, each as  *)
(* far as the other one keeps its part: the approval is decided while the  *)
(* stream asks for it, and is asked for only while it is undecided.        *)
(***************************************************************************)
VARIABLES
  interrupt,  \* kind of the persisted interrupt, or NONE
  approval,   \* status of the approval in the runtime session
  ended       \* the graph has nothing left to run

vars == <<interrupt, approval, ended>>

Kinds == {"clarification", "approval"}
Statuses == {"ABSENT", "PENDING", "APPROVED", "REJECTED"}

Init ==
  /\ interrupt = "NONE"
  /\ approval \in Statuses
  /\ ended = FALSE

\* An update of a node; one of them makes the approval visible.
Yield ==
  /\ interrupt = "NONE" /\ ~ended
  /\ ended' \in BOOLEAN
  /\ \/ approval' = approval
     \/ approval = "ABSENT" /\ approval' \in Statuses \ {"ABSENT"}
  /\ UNCHANGED interrupt

\* The graph stops to ask; for an approval that can still be decided.
Pause(kind) ==
  /\ interrupt = "NONE" /\ ~ended
  /\ kind = "approval" => approval = "PENDING"
  /\ interrupt' = kind
  /\ UNCHANGED <<approval, ended>>

\* The interrupted node runs again, with the answer: the first update of a
\* resumed stream.  It leaves the session alone and something to run.
Resume ==
  /\ interrupt # "NONE"
  /\ interrupt' = "NONE"
  /\ UNCHANGED <<approval, ended>>

\* The human decides in the session, when asked.
Decide ==
  /\ interrupt = "approval" /\ approval = "PENDING"
  /\ approval' \in {"APPROVED", "REJECTED"}
  /\ UNCHANGED <<interrupt, ended>>

Next ==
  \/ Yield \/ Resume \/ Decide
  \/ \E kind \in Kinds : Pause(kind)

Spec == Init /\ [][Next]_vars

=============================================================================
