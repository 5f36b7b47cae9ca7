----------------------------- MODULE ServedRun -----------------------------
(***************************************************************************)
(* A run as the web service serves it: RunService driving ControlPlane     *)
(* itself, where each of the two was modelled against the GraphStream      *)
(* between them.  The worker's pulls run the graph's nodes, the answer a   *)
(* worker was given is the one the graph goes on with, and the human       *)
(* decides through a request or not at all.                                *)
(***************************************************************************)
EXTENDS ControlPlane

CONSTANTS
  Threads, Clients, Readers, Modes, Answers,  \* the service's: see RunService
  MaxNodes, MaxPauses, Patient

VARIABLES
  mode, status, pause, permits, awaiting, workerActive,  \* the service's, too
  events, worker, client, reader, nodes, released, pauses, accepted,
  half         \* the first node of the last superstep has reported

\* What the service sees of the graph is what ControlPlane!Stream shows; the
\* instance is of the module with the theorems, for their sake.
Service == INSTANCE RunServiceProofs WITH
  interrupt <- InterruptType, approval <- decision, ended <- (next = {})

serviceVars == <<mode, status, pause, permits, awaiting, workerActive, events, worker,
                 client, reader, nodes, released, pauses, accepted>>
servedVars == <<vars, serviceVars, half>>

ServedInit == Init /\ Service!Init /\ half = FALSE

\* What the service does without the graph.
ServiceStep ==
  /\ UNCHANGED <<vars, half>>
  /\ \/ Service!Start
     \/ \E t \in Threads :
          \/ Service!Begin(t) \/ Service!AwaitStep(t) \/ Service!AnnounceStep(t)
          \/ Service!TakePermit(t) \/ Service!CompleteNode(t)
          \/ Service!AnnouncePause(t) \/ Service!EndStream(t)
          \/ Service!FailStream(t) \/ Service!Finally(t)
     \/ \E c \in Clients :
          \/ Service!Advance(c) \/ Service!AnnounceAdvance(c)
          \/ Service!ResumeClarification(c)
          \/ Service!AnnounceResume(c) \/ Service!ResumeWorker(c)
     \/ \E r \in Readers : Service!Deliver(r)

LastSuperstep == next = {"memory_updater", "final_response"}

\* The two nodes of the last superstep report one after the other, and the
\* checkpoint follows the second.
ReportFirst ==
  /\ LastSuperstep /\ ~half
  /\ half' = TRUE
  /\ UNCHANGED vars

RunNode ==
  /\ GraphStep /\ interrupt' = "NONE"
  /\ LastSuperstep => half
  /\ half' = FALSE

\* resume_stream: the interrupted node runs again with the worker's payload.
GoOn(t) ==
  /\ Resume
  /\ interrupt = "APPROVAL" => state'.response = worker[t].payload
  /\ UNCHANGED half

PullUpdate(t) ==
  /\ RunNode \/ GoOn(t) \/ ReportFirst
  /\ Service!TakeUpdate(t)

PullInterrupt(t) ==
  /\ GraphStep /\ UNCHANGED half
  /\ \E kind \in Service!Kinds : InterruptType' = kind /\ Service!TakePause(t, kind)

\* The decision is recorded in the session of the graph; "still pending" is not
\* one.
RecordDecision(c) ==
  \E recorded \in {"PENDING", "APPROVED", "REJECTED"} :
    /\ \/ recorded = "PENDING" /\ UNCHANGED vars
       \/ HumanDecides /\ decision' = recorded
    /\ Service!AnswerApproval(c, recorded)
    /\ UNCHANGED half

ServedNext ==
  \/ ServiceStep
  \/ \E t \in Threads : PullUpdate(t) \/ PullInterrupt(t)
  \/ \E c \in Clients : RecordDecision(c)

ServedSpec == ServedInit /\ [][ServedNext]_servedVars

-----------------------------------------------------------------------------
(* Properties of the two together *)

\* An approval the service shows is the one the graph waits for: about the
\* candidate of the current plan, let through by a verdict about that candidate
\* and all of its evidence, and asking for the version the session has as long as
\* it is undecided.
ShownApprovalIsCurrent ==
  status = "WAITING" /\ pause = "approval" =>
    /\ interrupt = "APPROVAL" /\ next = {"pause_checkpoint"}
    /\ state.runStatus = "WAITING_FOR_APPROVAL"
    /\ state.candidate.plan = state.plan /\ state.verdict.plan = state.plan
    /\ state.candidate.evidence = state.evidence.seen
    /\ decision = "PENDING" => state.pauseVersion = approvalVersion

\* The node that reads the decision after a pause reads what the client answered,
\* so the client's claim, which the graph keeps apart from the session's word, is
\* never at odds with it.
ClaimIsTheDecision ==
  next = {"human_approval"} /\ state.response # "NONE" => state.response = decision

\* A run the service reports as completed is one the graph concluded: resolved,
\* a protected case under a granted approval, or handed over.
CompletedIsConcluded ==
  status = "COMPLETED" =>
    /\ next = {} /\ interrupt = "NONE"
    /\ \/ state.outcome = "ADMIN_HANDOFF"
       \/ state.outcome = "DONE" /\ resolved /\ (protected => decision = "APPROVED")

=============================================================================
