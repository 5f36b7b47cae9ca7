----------------------------- MODULE CaseLedger -----------------------------
(***************************************************************************)
(* What the write path of a case promises, with scripts, versions,         *)
(* entities and replies left out: each idempotency key is spent at most    *)
(* once, the one effect that resolves the case happens at most once and,   *)
(* in a protected case, only under a granted approval, and a decision is   *)
(* final.                                                                  *)
(***************************************************************************)
CONSTANT Keys

VARIABLES
  protected,  \* the case declares an approval
  used,       \* keys whose write was performed
  decision,   \* ABSENT until the approval is visible, then its status
  resolved    \* the goal effect happened

vars == <<protected, used, decision, resolved>>

Init ==
  /\ protected \in BOOLEAN
  /\ used = {}
  /\ decision \in {"ABSENT", "PENDING", "APPROVED", "REJECTED"}
  /\ resolved = FALSE

\* A write that does not resolve the case; the one that requests the approval
\* makes it visible.
Attempt(key) ==
  /\ key \notin used
  /\ used' = used \cup {key}
  /\ \/ decision' = decision
     \/ decision = "ABSENT" /\ decision' \in {"PENDING", "APPROVED", "REJECTED"}
  /\ UNCHANGED <<protected, resolved>>

\* The write that resolves it.
Effect(key) ==
  /\ key \notin used
  /\ ~resolved
  /\ protected => decision = "APPROVED"
  /\ used' = used \cup {key}
  /\ resolved' = TRUE
  /\ UNCHANGED <<protected, decision>>

\* The human decides a pending approval, once.
Decide ==
  /\ decision = "PENDING"
  /\ decision' \in {"APPROVED", "REJECTED"}
  /\ UNCHANGED <<protected, used, resolved>>

Next == Decide \/ \E key \in Keys : Attempt(key) \/ Effect(key)

Spec == Init /\ [][Next]_vars

=============================================================================
