-------------------------- MODULE ServedRunProofs --------------------------
(***************************************************************************)
(* Theorems about a run as the web service serves it: that the service     *)
(* drives the graph the way RunService assumes, that the graph is driven   *)
(* the way ControlPlane assumes, and what the two promise together.        *)
(***************************************************************************)
EXTENDS ServedRun, ControlPlaneProofs

\* RunService's assumption about its constants; ControlPlane's is its own.
ServiceConditions ==
  /\ Modes \subseteq {"NORMAL", "STEP"}
  /\ Answers \subseteq Service!ClarificationAnswers \cup Service!ApprovalAnswers
  /\ MaxNodes \in Nat /\ MaxPauses \in Nat /\ Patient \in BOOLEAN

\* What the client answered to an approval, once it is not the question any
\* more, is the session's decision; and while it is no decision the run is at the
\* pause, asks for the decision again, or was handed over.
Responded ==
  /\ state.response \in {"APPROVED", "REJECTED"} => decision = state.response
  /\ state.response = "PENDING" =>
       \/ next \in {{"pause_checkpoint"}, {"human_admin_review"}, {"final_response"}, {}}
       \/ next = {"human_approval"} /\ decision = "PENDING"

\* The two invariants depend on each other: the graph's on decisions that are
\* recorded only while it asks, the service's on pauses that can be decided.
ServedInv ==
  /\ Typed /\ Inv /\ Askable /\ Concluded
  /\ Service!RunInvariant
  /\ Responded

-----------------------------------------------------------------------------
(* The steps of the two *)

LEMMA DoneIsLast == Typed /\ Inv /\ LastSuperstep => interrupt = "NONE" /\ next # {}
  <1> SUFFICES ASSUME Typed, Inv, LastSuperstep PROVE interrupt = "NONE" /\ next # {}
    OBVIOUS
  <1>1. interrupt \in {"NONE", "CLARIFICATION", "APPROVAL"}
    BY DEF Typed, RunTyped
  <1>2. "memory_updater" \in next
    BY DEF LastSuperstep
  <1> QED
    BY <1>1, <1>2 DEF Inv, Interrupted

LEMMA NoAnswerWanted == InterruptType = "NONE" <=> interrupt \notin {"CLARIFICATION", "APPROVAL"}
  BY DEF InterruptType

\* What a worker pulls is the stream of the graph.
LEMMA UpdatePulls ==
  ASSUME ServedInv, NEW t \in Threads, PullUpdate(t)
  PROVE  Service!YieldNode(t) /\ [GraphStep \/ Resume]_vars
  <1>1. Service!TakeUpdate(t)
    BY DEF PullUpdate
  <1>2. CASE RunNode
    <2>1. GraphStep /\ interrupt' = "NONE"
      BY <1>2 DEF RunNode
    <2>2. InterruptType' = "NONE"
      BY <2>1 DEF InterruptType
    <2>3. Stream!Yield
      BY <2>1, <2>2, NodeStreams DEF ServedInv, Stream!Pause, Stream!Kinds
    <2>4. Service!Stream!Yield
      BY <2>3 DEF Stream!Yield, Service!Stream!Yield, Stream!Statuses, Service!Stream!Statuses
    <2> QED
      BY <1>1, <2>1, <2>4 DEF Service!YieldNode
  <1>3. CASE GoOn(t)
    <2>1. Resume
      BY <1>3 DEF GoOn
    <2>2. Stream!Resume
      BY <2>1, AnswerStreams DEF ServedInv
    <2>3. Service!Stream!Resume
      BY <2>2 DEF Stream!Resume, Service!Stream!Resume
    <2> QED
      BY <1>1, <2>1, <2>3 DEF Service!YieldNode
  <1>4. CASE ReportFirst
    <2>1. UNCHANGED vars /\ interrupt = "NONE" /\ next # {}
      BY <1>4, DoneIsLast DEF ReportFirst, ServedInv
    <2>2. Service!Stream!Yield
      BY <2>1 DEF Service!Stream!Yield, vars, session, InterruptType
    <2> QED
      BY <1>1, <2>1, <2>2 DEF Service!YieldNode
  <1> QED
    BY <1>2, <1>3, <1>4 DEF PullUpdate

LEMMA InterruptPulls ==
  ASSUME ServedInv, NEW t \in Threads, PullInterrupt(t)
  PROVE  Service!YieldInterrupt(t) /\ GraphStep
  <1>1. GraphStep
    BY DEF PullInterrupt
  <1>2. PICK kind \in Service!Kinds : InterruptType' = kind /\ Service!TakePause(t, kind)
    BY DEF PullInterrupt
  <1>3. kind # "NONE"
    BY <1>2 DEF Service!Kinds, Service!Stream!Kinds
  <1>4. Stream!Pause(kind)
    BY <1>1, <1>2, <1>3, NodeStreams DEF ServedInv, Stream!Yield, Stream!Pause
  <1>5. Service!Stream!Pause(kind)
    BY <1>4 DEF Stream!Pause, Service!Stream!Pause
  <1> QED
    BY <1>1, <1>2, <1>5 DEF Service!YieldInterrupt

\* A decision is recorded only while the graph asks for it.
LEMMA DecisionAsked ==
  ASSUME ServedInv, NEW c \in Clients, RecordDecision(c)
  PROVE  /\ Service!ResumeApproval(c)
         /\ interrupt = "APPROVAL" /\ [HumanDecides]_vars
  <1>1. PICK recorded \in {"PENDING", "APPROVED", "REJECTED"} :
          /\ \/ recorded = "PENDING" /\ UNCHANGED vars
             \/ HumanDecides /\ decision' = recorded
          /\ Service!AnswerApproval(c, recorded)
    BY DEF RecordDecision
  <1>2. InterruptType = "approval" /\ decision = "PENDING"
    BY <1>1 DEF ServedInv, Service!RunInvariant, Service!Displayed, Service!AnswerApproval,
                Service!CanAnswer
  <1>3. decision' = recorded /\ UNCHANGED <<interrupt, next>>
    BY <1>1, <1>2 DEF vars, session, HumanDecides
  <1>4. Service!ResumeApproval(c)
    BY <1>1, <1>3 DEF Service!ResumeApproval, InterruptType
  <1> QED
    BY <1>1, <1>2, <1>4 DEF InterruptType

\* A step of the two is a step, or a stutter, of each.
LEMMA StepOfBoth ==
  ServedInv /\ [ServedNext]_servedVars =>
    [Service!Next]_(Service!vars) /\ [AskedNext]_vars
  <1> SUFFICES ASSUME ServedInv, [ServedNext]_servedVars
               PROVE  [Service!Next]_(Service!vars) /\ [AskedNext]_vars
    OBVIOUS
  <1>1. CASE UNCHANGED servedVars
    BY <1>1 DEF servedVars, serviceVars, vars, session, InterruptType, Service!vars,
                Service!record, Service!plane, Service!history
  <1>2. CASE ServiceStep
    BY <1>2 DEF ServiceStep, Service!Next, Service!WorkerStep, Service!ClientStep
  <1>3. ASSUME NEW t \in Threads, PullUpdate(t) \/ PullInterrupt(t)
        PROVE  Service!WorkerStep(t) /\ [AskedNext]_vars
    BY <1>3, UpdatePulls, InterruptPulls DEF Service!WorkerStep, AskedNext
  <1>4. ASSUME NEW c \in Clients, RecordDecision(c)
        PROVE  Service!ClientStep(c) /\ [AskedNext]_vars
    BY <1>4, DecisionAsked DEF Service!ClientStep, AskedNext
  <1> QED
    BY <1>1, <1>2, <1>3, <1>4 DEF ServedNext, Service!Next

-----------------------------------------------------------------------------
(* The client's answer and the session's decision *)

\* The approval node reads the session, and says what it read.
LEMMA FollowResponds ==
  ASSUME NEW base \in WorkflowStates, NEW seen, NEW version,
         seen \in {"ABSENT", "PENDING", "APPROVED", "REJECTED"},
         Follow(base, seen, version)
  PROVE  /\ state'.response = Visible(seen)
         /\ Visible(seen) = "PENDING" => next' = {"pause_checkpoint"}
  BY DEF Follow, Visible, PauseFor, GoTo, WorkflowStates

LEMMA ApprovalResponds ==
  ASSUME ServedInv, HumanApproval, SessionTyped'
  PROVE  Responded'
  <1>1. /\ state \in WorkflowStates /\ StateTyped
        /\ decision \in {"ABSENT", "PENDING", "APPROVED", "REJECTED"}
        /\ decision' \in {"ABSENT", "PENDING", "APPROVED", "REJECTED"}
    BY DEF ServedInv, Typed, StateTyped, SessionTyped
  <1> DEFINE base == Counted(FALSE, FALSE)
             filed == WithReceipt(base, ApprovalKey, FALSE)
  <1>2. base.response = state.response /\ (May(FALSE, FALSE) => base \in WorkflowStates)
    BY <1>1, CountedKeeps, ChargedTyped
  <1>3. decision' = decision \/ decision = "ABSENT"
    BY ApprovalAsks DEF ServedInv
  <1>4. state.response \in {"APPROVED", "REJECTED"} => decision' = state.response
    BY <1>3 DEF ServedInv, Responded
  <1>5. ASSUME NEW from \in WorkflowStates, NEW version, Follow(from, decision', version)
        PROVE  Responded'
    <2>1. /\ state'.response = Visible(decision')
          /\ Visible(decision') = "PENDING" => next' = {"pause_checkpoint"}
      BY <1>1, <1>5, FollowResponds
    <2> QED
      BY <1>1, <2>1 DEF Visible, Responded
  <1>6. ASSUME state'.response = state.response, next' = {"human_admin_review"}
        PROVE  Responded'
    BY <1>4, <1>6 DEF Responded
  <1>7. CASE Stop(FALSE, FALSE) \/ Escalate(FALSE, FALSE)
    BY <1>2, <1>6, <1>7 DEF Stop, Escalate, GoTo
  <1>8. CASE May(FALSE, FALSE) /\ Follow(base, decision, approvalVersion) /\ UNCHANGED session
    BY <1>2, <1>5, <1>8 DEF session
  <1>9. CASE /\ May(FALSE, FALSE)
             /\ \/ Follow(filed, decision', approvalVersion')
                \/ state' = filed /\ GoTo("human_admin_review")
    <2>1. base \in WorkflowStates /\ base.response = state.response
      BY <1>2, <1>9
    <2>2. ApprovalKey \in Keys
      BY ControlPlaneAssumption DEF Keys, ApprovalKey
    <2> HIDE DEF base
    <2>3. filed \in WorkflowStates
      BY <2>1, <2>2, ReceiptTyped
    <2>4. filed.response = state.response
      BY <2>1 DEF WithReceipt, WorkflowStates
    <2> QED
      BY <1>5, <1>6, <1>9, <2>3, <2>4 DEF GoTo
  <1> QED
    BY <1>7, <1>8, <1>9 DEF HumanApproval

\* Going on from an approval takes the worker's payload for the response, and the
\* payload repeats the session.
LEMMA ClaimResponds ==
  ASSUME ServedInv, NEW t \in Threads, GoOn(t), Service!TakeUpdate(t)
  PROVE  Responded'
  <1>1. Resume /\ UNCHANGED session
    BY AnswerGoesOn DEF GoOn, ServedInv
  <1>2. CASE ResumeApproval
    <2>1. interrupt = "APPROVAL" /\ next' = {"human_approval"}
      BY <1>2 DEF ResumeApproval, ReRun
    <2>2. worker[t].payload = decision
      <3>1. Service!Working(t)
        BY DEF Service!TakeUpdate, Service!Working
      <3>2. InterruptType = "approval"
        BY <2>1 DEF InterruptType
      <3> QED
        BY <3>1, <3>2 DEF ServedInv, Service!RunInvariant, Service!AnswersFit, Service!Fits
    <2>3. state'.response = decision
      BY <2>1, <2>2 DEF GoOn
    <2> QED
      BY <1>1, <2>1, <2>3 DEF session, Responded
  <1>3. CASE ResumeClarification
    <2>1. next = {"clarification"}
      BY <1>3 DEF ResumeClarification, ReRun, ServedInv, Inv, Interrupted
    <2>2. state.response # "PENDING"
      BY <2>1 DEF ServedInv, Responded
    <2>3. ~HumanApproval /\ ~ResumeApproval
      BY <1>3 DEF ResumeClarification, ResumeApproval, HumanApproval, ReRun, At
    <2>4. state'.response = state.response
      BY <1>1, <2>3, OpenStep DEF ServedInv
    <2> QED
      BY <1>1, <2>2, <2>4 DEF session, ServedInv, Responded
  <1> QED
    BY <1>1, <1>2, <1>3 DEF Resume

LEMMA NodeResponds ==
  ASSUME ServedInv, GraphStep, SessionTyped'
  PROVE  Responded'
  <1>1. Typed /\ Inv /\ Responded
    BY DEF ServedInv
  <1>2. ASSUME state'.response = state.response, decision' = decision,
               state.response # "PENDING"
        PROVE  Responded'
    BY <1>1, <1>2 DEF Responded
  <1>3. ASSUME next \notin {{"pause_checkpoint"}, {"human_admin_review"}, {"final_response"},
                           {"human_approval"}, {}}
        PROVE  state.response # "PENDING"
    BY <1>1, <1>3 DEF Responded
  <1>4. CASE HumanApproval
    BY <1>4, ApprovalResponds
  <1>5. CASE \/ IntakeContext \/ MemoryRetriever \/ Planner \/ SupervisorRouter
             \/ \E s \in Specialists : Specialist(s)
             \/ ResolutionBuilder \/ VerifierPre \/ VerifierPost
             \/ ActionGate \/ Observation
    <2>1. \E node \in Nodes \ {"pause_checkpoint", "human_admin_review", "final_response",
                              "human_approval"} : next = {node} /\ interrupt = "NONE"
      BY <1>5 DEF IntakeContext, MemoryRetriever, Planner, SupervisorRouter, Specialist,
                  ResolutionBuilder, VerifierPre, VerifierPost, ActionGate, Observation, At,
                  Nodes, Specialists
    <2>2. ~HumanApproval /\ ~ResumeApproval
      BY <2>1 DEF HumanApproval, ResumeApproval, ReRun, At
    <2>3. state.response # "PENDING"
      BY <1>3, <2>1
    <2>4. state'.response = state.response
      BY <1>1, <1>5, <2>2, OpenStep
    <2>5. decision' = decision
      BY <1>1, <1>5, QuietNode DEF session
    <2> QED
      BY <1>2, <2>3, <2>4, <2>5
  <1>6. CASE Transaction
    <2>1. next = {"transaction"} /\ interrupt = "NONE"
      BY <1>6 DEF Transaction, At
    <2>2. ~HumanApproval /\ ~ResumeApproval
      BY <2>1 DEF HumanApproval, ResumeApproval, ReRun, At
    <2>3. state'.response = state.response /\ decision' = decision
      BY <1>1, <1>6, <2>2, OpenStep, WriteAsksNothing
    <2> QED
      BY <1>2, <1>3, <2>1, <2>3
  <1>7. CASE AskClarification \/ PauseCheckpoint
    BY <1>1, <1>7 DEF AskClarification, PauseCheckpoint, session, Responded
  <1>8. CASE HumanAdminReview \/ FinalResponse \/ Done
    <2>1. state'.response = state.response /\ next' \in {{"final_response"}, {}}
      BY <1>1, <1>8 DEF HumanAdminReview, FinalResponse, Done, GoTo, Typed, StateTyped,
                        WorkflowStates
    <2>2. decision' = decision
      BY <1>1, <1>8, QuietNode DEF session
    <2> QED
      BY <1>1, <2>1, <2>2 DEF Responded
  <1> QED
    BY <1>4, <1>5, <1>6, <1>7, <1>8 DEF GraphStep

LEMMA StepResponds ==
  ASSUME ServedInv, SessionTyped', [ServedNext]_servedVars
  PROVE  Responded'
  <1>1. CASE UNCHANGED vars
    BY <1>1 DEF vars, session, ServedInv, Responded
  <1>2. CASE GraphStep
    BY <1>2, NodeResponds
  <1>3. ASSUME NEW t \in Threads, GoOn(t), Service!TakeUpdate(t)
        PROVE  Responded'
    BY <1>3, ClaimResponds
  <1>4. ASSUME NEW c \in Clients, RecordDecision(c)
        PROVE  Responded'
    <2>1. interrupt = "APPROVAL" /\ [HumanDecides]_vars
      BY <1>4, DecisionAsked
    <2>2. CASE HumanDecides
      <3>1. decision = "PENDING" /\ UNCHANGED <<state, next>> /\ next = {"pause_checkpoint"}
        BY <2>1, <2>2 DEF HumanDecides, Ledger!Decide, ServedInv, Inv, Interrupted
      <3> QED
        BY <3>1 DEF ServedInv, Responded
    <2> QED
      BY <1>1, <2>1, <2>2
  <1> QED
    BY <1>1, <1>2, <1>3, <1>4
       DEF servedVars, ServedNext, ServiceStep, PullUpdate, PullInterrupt, RunNode, ReportFirst

-----------------------------------------------------------------------------
(* The two together *)

LEMMA InitServed ==
  ASSUME ServiceConditions
  PROVE  ServedInit => ServedInv
  <1> SUFFICES ASSUME ServedInit PROVE ServedInv
    OBVIOUS
  <1>1. Service!RunInvariant
    BY Service!InitRun DEF ServedInit, ServiceConditions
  <1>2. state.response = "NONE"
    BY DEF ServedInit, Init, StartState
  <1> QED
    BY <1>1, <1>2, InitTyped, InitInv, InitAskable, InitConcluded
       DEF ServedInit, ServedInv, Responded

LEMMA StepKeepsServed ==
  ASSUME ServiceConditions
  PROVE  ServedInv /\ [ServedNext]_servedVars => ServedInv'
  <1> SUFFICES ASSUME ServedInv, [ServedNext]_servedVars PROVE ServedInv'
    OBVIOUS
  <1>1. [Service!Next]_(Service!vars) /\ [AskedNext]_vars /\ [Next]_vars
    BY StepOfBoth, AskedIsNext
  <1>2. Typed' /\ Inv' /\ Askable' /\ Concluded'
    BY <1>1, StepKeepsTypes, StepKeepsInv, StepKeepsAskable, StepConcludes DEF ServedInv
  <1>3. Service!RunInvariant'
    BY <1>1, Service!StepKeepsRun DEF ServedInv, ServiceConditions
  <1>4. Responded'
    BY <1>2, StepResponds DEF Typed
  <1> QED
    BY <1>2, <1>3, <1>4 DEF ServedInv

LEMMA ServedAlways ==
  ASSUME ServiceConditions
  PROVE  ServedSpec => []ServedInv
  BY InitServed, StepKeepsServed, PTL DEF ServedSpec

\* The service with the real graph behind it is the service that was modelled with
\* the stream: nothing the graph does surprises it, so all that is proved of
\* RunService holds of the two together.
THEOREM ServedRunsAreServiceRuns ==
  ASSUME ServiceConditions
  PROVE  ServedSpec => Service!Spec
  <1>1. ServedInit => Service!Init
    BY DEF ServedInit
  <1> QED
    BY <1>1, StepOfBoth, ServedAlways, PTL DEF ServedSpec, Service!Spec

\* The graph is driven as it may be: the service runs its nodes in order, resumes
\* it only from an interrupt and has the human decide only when it asks.
THEOREM ServedRunsAreGraphRuns ==
  ASSUME ServiceConditions
  PROVE  ServedSpec => AskedSpec
  <1>1. ServedInit => Init
    BY DEF ServedInit
  <1> QED
    BY <1>1, StepOfBoth, ServedAlways, PTL DEF ServedSpec, AskedSpec

\* What the client sees when it is asked for an approval is what its answer will be
\* applied to: however slow it is, however many others answer and whatever the
\* worker still announces, the candidate, the verdict and the evidence are the
\* current plan's, and the version is the session's until somebody decides.
THEOREM ShownApprovalsAreCurrent ==
  ASSUME ServiceConditions
  PROVE  ServedSpec => []ShownApprovalIsCurrent
  <1>1. ServedInv => ShownApprovalIsCurrent
    <2> SUFFICES ASSUME ServedInv, status = "WAITING", pause = "approval"
                 PROVE  /\ interrupt = "APPROVAL" /\ next = {"pause_checkpoint"}
                        /\ state.runStatus = "WAITING_FOR_APPROVAL"
                        /\ state.candidate.plan = state.plan
                        /\ state.verdict.plan = state.plan
                        /\ state.candidate.evidence = state.evidence.seen
                        /\ decision = "PENDING" => state.pauseVersion = approvalVersion
      BY DEF ShownApprovalIsCurrent
    <2>1. InterruptType = "approval"
      BY DEF ServedInv, Service!RunInvariant, Service!Displayed
    <2>2. interrupt = "APPROVAL" /\ next = {"pause_checkpoint"}
      BY <2>1 DEF InterruptType, ServedInv, Inv, Interrupted
    <2>3. Expects("pause_checkpoint")
      BY <2>2 DEF ServedInv, Inv, Positional
    <2> QED
      BY <2>2, <2>3 DEF Expects, Covered, Paused, PastVerifier
  <1> QED
    BY <1>1, ServedAlways, PTL

\* The graph trusts the session and not the client; served, the two never differ:
\* no lost, late or repeated answer makes the graph go on with a claim the session
\* does not confirm.
THEOREM ClaimsAreDecisions ==
  ASSUME ServiceConditions
  PROVE  ServedSpec => []ClaimIsTheDecision
  <1>1. ServedInv => ClaimIsTheDecision
    BY DEF ServedInv, Typed, StateTyped, WorkflowStates, Responded, ClaimIsTheDecision
  <1> QED
    BY <1>1, ServedAlways, PTL

\* A run the service reports as completed was concluded by the graph, and not just
\* left by its worker: it is handed over, or its case is resolved, a protected one
\* under a granted approval.
THEOREM CompletedRunsAreConcluded ==
  ASSUME ServiceConditions
  PROVE  ServedSpec => []CompletedIsConcluded
  <1>1. ServedInv => CompletedIsConcluded
    <2> SUFFICES ASSUME ServedInv, status = "COMPLETED"
                 PROVE  /\ next = {} /\ interrupt = "NONE"
                        /\ \/ state.outcome = "ADMIN_HANDOFF"
                           \/ state.outcome = "DONE" /\ resolved = TRUE
                              /\ (protected = TRUE => decision = "APPROVED")
      BY DEF CompletedIsConcluded, ServedInv, Typed, SessionTyped
    <2>1. next = {}
      BY DEF ServedInv, Service!RunInvariant, Service!Exhausted
    <2>2. interrupt = "NONE"
      BY <2>1 DEF ServedInv, Inv, Interrupted, Typed, RunTyped
    <2>3. state.outcome \in {"DONE", "ADMIN_HANDOFF"}
      BY <2>1 DEF ServedInv, Concluded, Typed, StateTyped, WorkflowStates
    <2>4. state.outcome = "DONE" =>
            resolved = TRUE /\ (protected = TRUE => decision = "APPROVED")
      BY DEF ServedInv, Inv, Standing
    <2> QED
      BY <2>1, <2>2, <2>3, <2>4
  <1> QED
    BY <1>1, ServedAlways, PTL

=============================================================================
