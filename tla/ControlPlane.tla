---------------------------- MODULE ControlPlane ----------------------------
(***************************************************************************)
(* One run of the orchestration graph (orchestration/graph.py, nodes.py)   *)
(* over one runtime session.                                               *)
(*                                                                         *)
(* A node reads the whole WorkflowState and returns an update of some of   *)
(* its fields; the graph merges the update, saves a checkpoint and runs    *)
(* the node the update names.  So each node is one action over the record  *)
(* state, and next is the set of nodes the last checkpoint would run.      *)
(* Three parties act: the worker that drives the graph, the client that    *)
(* answers an interrupt, and the human authority that decides the approval *)
(* in the session, at any time and whatever the client claims.             *)
(*                                                                         *)
(* The session is what CaseLedger promises of it, and ActionEngine is      *)
(* shown to keep that promise: writes of the graph are CaseLedger's        *)
(* actions.  What the read tools say of the case is a constant of the run  *)
(* or, where a read can fail, a choice.                                    *)
(***************************************************************************)
EXTENDS Integers, FiniteSets

CONSTANTS
  Cases,           \* what the cases explored are: see Case
  Offerings,       \* offering states of the target course
  NoOffering,      \* "the candidate names no offering"
  MaxReplans, MaxToolRetries, MaxTotalSteps,  \* LoopCaps
  RecursionLimit,  \* supersteps LangGraph allows one invocation
  ModelReview      \* whether a language model reviews the grounded decisions

VARIABLES
  case,        \* the case of this run (never changes)
  state,       \* WorkflowState as of the last checkpoint
  next,        \* nodes to run
  interrupt,   \* kind of the persisted interrupt, or NONE
  supersteps,  \* supersteps of the current invocation
  protected, used, decision, resolved,  \* the session, as CaseLedger sees it
  approvalVersion                       \* version of its approval record

session == <<protected, used, decision, resolved, approvalVersion>>
vars == <<case, state, next, interrupt, supersteps, session>>

-----------------------------------------------------------------------------
(* Vocabulary *)

Specialists == {"degree_audit_agent", "policy_agent", "course_agent"}
Kinds == {"REGISTRATION", "WAIVER", "GRADUATION", "UNAVAILABLE"}

\* What stays true of a case while it runs: the problem type, whether it
\* declares an approval, what the policy tools say of eligibility and documents,
\* whether the degree audit is indeterminate, whether intake questions are open.
Case == [kind : Kinds, protected : BOOLEAN,
         facts : {"ELIGIBLE", "DOCUMENTS_MISSING", "INELIGIBLE"},
         indeterminate : BOOLEAN, unresolved : BOOLEAN]

ASSUME ControlPlaneAssumption ==
  /\ Cases \subseteq Case
  /\ NoOffering \notin Offerings /\ Offerings # {}
  /\ MaxReplans \in Nat /\ MaxToolRetries \in Nat /\ MaxTotalSteps \in Nat \ {0}
  /\ RecursionLimit \in Nat /\ ModelReview \in BOOLEAN

\* One key for the approval request of the case, one per plan version.
ApprovalKey == 0
Keys == ApprovalKey..(MaxReplans + 1)

Ledger == INSTANCE CaseLedger

Clarifications == {"CLARIFY_SMALL", "CLARIFY_MATERIAL"}
PreActionCodes == {"VALID", "REPLAN", "ESCALATE"} \cup Clarifications

NoRequirement == [required |-> FALSE, version |-> 0]
NoCandidate == [plan |-> 0, approval |-> FALSE, version |-> 0,
                offering |-> NoOffering, evidence |-> {}]
NoVerdict == [phase |-> "PRE", code |-> "NONE", plan |-> 0, version |-> 0]

Bump(condition) == IF condition THEN 1 ELSE 0

\* Deviations.  A definition whose comment begins "Deviation" is a plausible bug
\* in the definition it names; the properties are tested against it, and nothing
\* else uses it.

-----------------------------------------------------------------------------
(* Initial state: _prepare_start *)

StartState(c) ==
  [plan |-> 0, selected |-> {}, pending |-> {},
   evidence |-> [seen |-> {}, complete |-> TRUE],
   requirement |-> NoRequirement, candidate |-> NoCandidate,
   phase |-> "PRE", verdict |-> NoVerdict, goalMet |-> FALSE,
   intakeError |-> FALSE, unresolved |-> c.unresolved,
   pauseVersion |-> 0, response |-> "NONE",
   receipts |-> {}, result |-> "NONE", observation |-> "NONE", attempted |-> {},
   counters |-> [replans |-> 0, retries |-> 0, steps |-> 0],
   runStatus |-> "RUNNING", outcome |-> "NONE", memory |-> "NONE"]

Init ==
  /\ case \in Cases
  /\ state = StartState(case)
  /\ next = {"intake_context"}
  /\ interrupt = "NONE"
  /\ supersteps = 0
  /\ protected = case.protected
  /\ used = {} /\ resolved = FALSE
  /\ decision \in IF protected THEN {"ABSENT", "PENDING", "APPROVED", "REJECTED"}
                  ELSE {"ABSENT"}
  /\ approvalVersion = 1

-----------------------------------------------------------------------------
(* Running a node *)

At(node) ==
  /\ next = {node} /\ interrupt = "NONE"
  /\ supersteps' = supersteps + 1
  /\ UNCHANGED case

GoTo(node) == next' = {node} /\ UNCHANGED interrupt

\* Deviation of Charged: only plans count as steps.
ChargedForPlans(replan, retry) ==
  [replans |-> state.counters.replans + Bump(replan),
   retries |-> state.counters.retries + Bump(retry),
   steps   |-> state.counters.steps + Bump(replan)]

\* LoopCounters.advanced and exceeded_cap.
Charged(replan, retry) ==
  [replans |-> state.counters.replans + Bump(replan),
   retries |-> state.counters.retries + Bump(retry),
   steps   |-> state.counters.steps + 1]

\* Deviation of Within: the step cap is not enforced.
WithinRetries(counters) ==
  /\ counters.replans <= MaxReplans
  /\ counters.retries <= MaxToolRetries

Within(counters) ==
  /\ counters.replans <= MaxReplans
  /\ counters.retries <= MaxToolRetries
  /\ counters.steps <= MaxTotalSteps

\* _limit_update: a node that would exceed a cap does nothing but escalate.
Stop(replan, retry) ==
  /\ ~Within(Charged(replan, retry))
  /\ GoTo("human_admin_review")
  /\ UNCHANGED <<state, session>>

May(replan, retry) == Within(Charged(replan, retry))

\* The update every charged node returns.
Counted(replan, retry) == [state EXCEPT !.counters = Charged(replan, retry)]

\* Deviation of Escalate: no handoff is prepared.
EscalateDirectly(replan, retry) ==
  /\ state' = Counted(replan, retry)
  /\ GoTo("final_response")

Escalate(replan, retry) ==
  /\ state' = Counted(replan, retry)
  /\ GoTo("human_admin_review")

-----------------------------------------------------------------------------
(* Intake and planning *)

IntakeContext ==
  /\ At("intake_context")
  /\ \E failed \in BOOLEAN : state' = [state EXCEPT !.intakeError = failed]
  /\ GoTo("memory_retriever")
  /\ UNCHANGED session

\* Advisory only: whatever the store returns or raises, planning goes on.
MemoryRetriever ==
  /\ At("memory_retriever")
  /\ GoTo("planner")
  /\ UNCHANGED <<state, session>>

Required ==
  IF case.kind = "REGISTRATION" THEN {"policy_agent", "course_agent"} ELSE Specialists

\* A model may add specialists, never drop one.
Selections == {s \in SUBSET Specialists :
                 Required \subseteq s /\ (ModelReview \/ s = Required)}

IsReplan == state.plan # 0
IsToolRetry == IsReplan /\ state.observation = "RETRYABLE"

NoSafeRoute ==
  \/ state.intakeError
  \/ state.response = "REJECTED"
  \/ state.observation = "FINAL"

PlanWith(base, chosen) ==
  [base EXCEPT !.plan = @ + 1, !.selected = chosen, !.pending = chosen,
               !.evidence = [seen |-> {}, complete |-> TRUE]]

Planner ==
  /\ At("planner")
  /\ \/ Stop(IsReplan, IsToolRetry)
     \/ /\ May(IsReplan, IsToolRetry) /\ NoSafeRoute
        /\ Escalate(IsReplan, IsToolRetry)
     \/ /\ May(IsReplan, IsToolRetry) /\ ~NoSafeRoute
        /\ \E chosen \in Selections :
             state' = PlanWith(Counted(IsReplan, IsToolRetry), chosen)
        /\ GoTo("supervisor_router")
  /\ UNCHANGED session

-----------------------------------------------------------------------------
(* Specialists and the candidate *)

\* _next_specialist: the order of the plan is degree audit, policy, course.
NextSpecialist(pending) ==
  IF "degree_audit_agent" \in pending THEN "degree_audit_agent"
  ELSE IF "policy_agent" \in pending THEN "policy_agent"
  ELSE IF "course_agent" \in pending THEN "course_agent"
  ELSE "resolution_builder"

SupervisorRouter ==
  /\ At("supervisor_router")
  /\ GoTo(NextSpecialist(state.pending))
  /\ UNCHANGED <<state, session>>

\* get_approval_requirement; the version is the seed's until the decision shows.
Requirement(version) ==
  IF protected THEN [required |-> TRUE, version |-> version] ELSE NoRequirement

\* Deviation of Remaining: the specialist stays pending.
StillPending(s) == state.pending

Remaining(s) == state.pending \ {s}

\* A specialist's reads may fail or come back with unknown completeness; if the
\* one of the approval requirement fails, the state forgets the requirement.
Specialist(s) ==
  /\ At(s)
  /\ \E complete, readable \in BOOLEAN :
       /\ complete => readable
       /\ state' = [state EXCEPT
            !.pending = Remaining(s),
            !.evidence = [seen |-> @.seen \cup {s}, complete |-> @.complete /\ complete],
            !.requirement = IF s # "policy_agent" THEN @
                            ELSE IF readable THEN Requirement(approvalVersion)
                            ELSE NoRequirement]
  /\ GoTo(NextSpecialist(Remaining(s)))
  /\ UNCHANGED session

\* Deviation of Untried: a retry may take the class that just failed.
AnyOffering == Offerings

\* _select_registration_state.
Untried == IF state.observation = "RETRYABLE" THEN Offerings \ state.attempted
           ELSE Offerings

\* The one class a case of an unavailable course declares.
Declared == CHOOSE offering \in Offerings : TRUE

\* What the candidate may name, by problem type; nothing when there is no safe
\* candidate.  Which classes pass the feasibility checks is a choice.
Choices ==
  CASE case.kind = "REGISTRATION" -> Untried
    [] case.kind = "WAIVER"       -> IF state.requirement.required THEN {NoOffering} ELSE {}
    [] case.kind = "GRADUATION"   -> {NoOffering}
    [] case.kind = "UNAVAILABLE"  -> IF state.unresolved THEN {NoOffering} ELSE {Declared}

Candidate(offering) ==
  [plan |-> state.plan, approval |-> state.requirement.required,
   version |-> state.requirement.version, offering |-> offering,
   evidence |-> state.evidence.seen]

\* Deviation of BuiltFrom: the candidate of an earlier plan is kept.
KeptCandidate(offering) ==
  IF state.candidate # NoCandidate THEN state.candidate ELSE Candidate(offering)

BuiltFrom(offering) == Candidate(offering)

ResolutionBuilder ==
  /\ At("resolution_builder")
  /\ \/ \E offering \in Choices :
          state' = [state EXCEPT !.candidate = BuiltFrom(offering), !.phase = "PRE"]
     \/ /\ case.kind # "GRADUATION"
        /\ state' = [state EXCEPT !.candidate = NoCandidate, !.phase = "PRE"]
  /\ GoTo("verifier")
  /\ UNCHANGED session

-----------------------------------------------------------------------------
(* The verifier *)

Ungrounded ==
  \/ state.candidate = NoCandidate
  \/ state.evidence.seen # state.selected
  \/ ~state.evidence.complete

\* What the policy and audit reads ask for.
FactsVerdict ==
  CASE case.facts = "DOCUMENTS_MISSING" -> "CLARIFY_SMALL"
    [] case.facts = "INELIGIBLE"        -> "ESCALATE"
    [] case.facts = "ELIGIBLE" ->
         IF case.kind = "GRADUATION" /\ case.indeterminate THEN "CLARIFY_MATERIAL"
         ELSE IF case.kind = "UNAVAILABLE" /\ state.unresolved THEN "CLARIFY_SMALL"
         ELSE "VALID"

\* Whether the candidate rests on the current evidence and versions.
CandidateVerdict ==
  IF state.candidate.evidence # state.evidence.seen THEN "ESCALATE"
  ELSE IF state.candidate.approval /\ state.candidate.version # state.requirement.version
  THEN "REPLAN" ELSE "VALID"

\* GroundedDecisionProvider.assess_pre_action, in the order of its checks.
Baseline ==
  IF Ungrounded THEN "ESCALATE"
  ELSE IF FactsVerdict # "VALID" THEN FactsVerdict
  ELSE CandidateVerdict

\* A model may narrow a valid verdict, never broaden another; what it wants
\* clarified must be an open question of the case.
Assessments ==
  IF Baseline # "VALID" \/ ~ModelReview THEN {Baseline}
  ELSE {"VALID", "REPLAN", "ESCALATE"}
         \cup (IF state.unresolved THEN Clarifications ELSE {})

RouteOf(code) ==
  CASE code = "VALID"    -> "action_gate"
    [] code = "REPLAN"   -> "planner"
    [] code = "ESCALATE" -> "human_admin_review"
    [] OTHER             -> "clarification"

VerifierPre ==
  /\ At("verifier") /\ state.phase = "PRE"
  /\ \/ Stop(FALSE, FALSE)
     \/ /\ May(FALSE, FALSE)
        /\ \E code \in Assessments :
             /\ state' = [Counted(FALSE, FALSE) EXCEPT
                  !.verdict = [phase |-> "PRE", code |-> code,
                               plan |-> state.candidate.plan,
                               version |-> state.candidate.version],
                  !.runStatus = IF code \in Clarifications
                                THEN "WAITING_FOR_CLARIFICATION" ELSE @]
             /\ GoTo(RouteOf(code))
  /\ UNCHANGED session

\* Deviation of GoalReached: a receipt of an intermediate step counts.
AnyReceipt == \E r \in state.receipts : r.key = state.candidate.plan

\* evaluate_goal: a registration is looked up in the session, any other goal in
\* the receipt of this very candidate.
GoalReached ==
  IF case.kind = "REGISTRATION" THEN resolved
  ELSE \E r \in state.receipts : r.key = state.candidate.plan /\ r.effect

VerifierPost ==
  /\ At("verifier") /\ state.phase = "POST"
  /\ \/ Stop(FALSE, FALSE)
     \/ /\ May(FALSE, FALSE)
        /\ state' = [Counted(FALSE, FALSE) EXCEPT
             !.goalMet = GoalReached,
             !.verdict = [phase |-> "POST",
                          code |-> IF GoalReached THEN "DONE" ELSE "CONTINUE_FAILURE",
                          plan |-> state.candidate.plan, version |-> 0],
             !.runStatus = IF GoalReached THEN "COMPLETED" ELSE @]
        /\ next' = IF GoalReached THEN {"memory_updater", "final_response"}
                   ELSE {"planner"}
        /\ UNCHANGED interrupt
  /\ UNCHANGED session

-----------------------------------------------------------------------------
(* Clarification *)

\* The node's first run ends in an interrupt, which the graph persists.
AskClarification ==
  /\ At("clarification")
  /\ interrupt' = "CLARIFICATION"
  /\ UNCHANGED <<state, next, session>>

\* A new invocation re-runs the interrupted node with the answer in hand.
ReRun(kind) ==
  /\ interrupt = kind
  /\ interrupt' = "NONE"
  /\ supersteps' = 1
  /\ UNCHANGED <<case, session>>

ResumeClarification ==
  /\ ReRun("CLARIFICATION")
  /\ IF May(FALSE, FALSE)
     THEN /\ state' = [Counted(FALSE, FALSE) EXCEPT
                        !.unresolved = FALSE, !.runStatus = "RUNNING"]
          /\ next' = IF state.verdict.code = "CLARIFY_SMALL" THEN {"verifier"}
                     ELSE {"planner"}
     ELSE next' = {"human_admin_review"} /\ UNCHANGED state

-----------------------------------------------------------------------------
(* The action gate and the approval *)

\* The verdict must be about this candidate and the approval still the same.
GateMismatch ==
  \/ state.verdict.plan # state.candidate.plan
  \/ state.verdict.version # state.candidate.version
  \/ state.requirement.required # state.candidate.approval

ActionGate ==
  /\ At("action_gate")
  /\ \/ Stop(FALSE, FALSE)
     \/ /\ May(FALSE, FALSE)
        /\ state' = Counted(FALSE, FALSE)
        /\ GoTo(IF GateMismatch THEN "human_admin_review"
                ELSE IF state.candidate.approval THEN "human_approval"
                ELSE "transaction")
  /\ UNCHANGED session

\* Deviation of Visible: the answer the client gave is taken for the decision.
VisibleOrAnswered(status) ==
  IF state.response # "NONE" THEN state.response
  ELSE IF status = "ABSENT" THEN "PENDING" ELSE status

Visible(status) == IF status = "ABSENT" THEN "PENDING" ELSE status

\* Deviation of PauseFor: the pause names the version read before the request.
PauseForFirstRead(base, version) ==
  [base EXCEPT !.pauseVersion = state.requirement.version,
               !.runStatus = "WAITING_FOR_APPROVAL"]

PauseFor(base, version) ==
  [base EXCEPT !.pauseVersion = version, !.runStatus = "WAITING_FOR_APPROVAL"]

\* What human_approval does with the decision it reads.
Follow(base, status, version) ==
  LET seen == [base EXCEPT !.requirement = Requirement(version),
                           !.response = Visible(status)] IN
  \/ /\ Visible(status) = "APPROVED"
     /\ state' = [seen EXCEPT !.candidate.version = version, !.runStatus = "RUNNING"]
     /\ GoTo("transaction")
  \/ /\ Visible(status) = "REJECTED"
     /\ state' = seen
     /\ GoTo("planner")
  \/ /\ Visible(status) = "PENDING"
     /\ state' = PauseFor(seen, version)
     /\ GoTo("pause_checkpoint")

\* The request was made by an earlier run of the node.
Requested == \E r \in state.receipts : r.key = ApprovalKey

\* A committed request makes the approval visible and raises its version.  It
\* expects the version of the seed, so it is refused once a human has decided.
RequestApproval ==
  /\ approvalVersion = 1
  /\ Ledger!Attempt(ApprovalKey)
  /\ decision' # "ABSENT"
  /\ approvalVersion' = approvalVersion + 1

WithReceipt(base, key, effect) ==
  [base EXCEPT !.receipts = @ \cup {[key |-> key, effect |-> effect]}]

\* Any of the three calls may fail; a request already committed stays committed.
HumanApproval ==
  /\ At("human_approval")
  /\ \/ Stop(FALSE, FALSE)
     \/ /\ May(FALSE, FALSE)
        /\ Escalate(FALSE, FALSE)
        /\ UNCHANGED session
     \/ /\ May(FALSE, FALSE) /\ Requested
        /\ Follow(Counted(FALSE, FALSE), decision, approvalVersion)
        /\ UNCHANGED session
     \/ /\ May(FALSE, FALSE) /\ ~Requested
        /\ RequestApproval
        /\ LET base == WithReceipt(Counted(FALSE, FALSE), ApprovalKey, FALSE) IN
           \/ Follow(base, decision', approvalVersion')
           \/ state' = base /\ GoTo("human_admin_review")

PauseCheckpoint ==
  /\ At("pause_checkpoint")
  /\ interrupt' = "APPROVAL"
  /\ UNCHANGED <<state, next, session>>

\* The client may claim any decision; the payload only names the version.
ResumeApproval ==
  /\ ReRun("APPROVAL")
  /\ \E claim \in {"PENDING", "APPROVED", "REJECTED"} :
       state' = [state EXCEPT !.response = claim, !.runStatus = "RUNNING"]
  /\ next' = {"human_approval"}

-----------------------------------------------------------------------------
(* The write and what follows it *)

\* What the write path asks of a protected write.  Only registrations and
\* waivers carry the approval in their parameters.
Accepts ==
  protected => /\ state.candidate.approval
               /\ case.kind \in {"REGISTRATION", "WAIVER"}
               /\ decision = "APPROVED"
               /\ state.candidate.version = approvalVersion

\* Performed or refused, the write leaves a result and the class counts as tried.
Reported(base, result) ==
  /\ state' = [base EXCEPT !.result = result,
                 !.attempted = @ \cup ({state.candidate.offering} \ {NoOffering})]
  /\ GoTo("observation")

Transaction ==
  /\ At("transaction")
  /\ LET key  == state.candidate.plan
         base == Counted(FALSE, FALSE)
     IN
     \/ Stop(FALSE, FALSE)
     \/ May(FALSE, FALSE) /\ Escalate(FALSE, FALSE) /\ UNCHANGED session
     \/ /\ May(FALSE, FALSE)
        /\ \E result \in {"RETRYABLE", "FINAL"} : Reported(base, result)
        /\ UNCHANGED session
     \/ /\ May(FALSE, FALSE) /\ Accepts
        /\ UNCHANGED <<decision, approvalVersion>> /\ Ledger!Attempt(key)
        /\ \E result \in {"RETRYABLE", "FINAL"} :
             Reported(WithReceipt(base, key, FALSE), result)
     \/ /\ May(FALSE, FALSE) /\ Accepts
        /\ Ledger!Effect(key) /\ UNCHANGED approvalVersion
        /\ Reported(WithReceipt(base, key, TRUE), "FINAL")

\* Deviation of Observation: the verifier is not told that the write was made.
ObservationBeforeAction ==
  /\ At("observation")
  /\ state' = [state EXCEPT !.observation = state.result]
  /\ GoTo("verifier")
  /\ UNCHANGED session

Observation ==
  /\ At("observation")
  /\ state' = [state EXCEPT !.observation = state.result, !.phase = "POST"]
  /\ GoTo("verifier")
  /\ UNCHANGED session

\* Beyond a cap the handoff is prepared all the same, and not counted.
HumanAdminReview ==
  /\ At("human_admin_review")
  /\ state' = [state EXCEPT
       !.counters = IF May(FALSE, FALSE) THEN Charged(FALSE, FALSE) ELSE @,
       !.runStatus = "ESCALATED"]
  /\ GoTo("final_response")
  /\ UNCHANGED session

FinalResponse ==
  /\ At("final_response")
  /\ state' = [state EXCEPT !.outcome = "ADMIN_HANDOFF"]
  /\ next' = {}
  /\ UNCHANGED <<interrupt, session>>

\* memory_updater and final_response, side by side in one superstep.  The store
\* may refuse the record; that does not undo the outcome.
Done ==
  /\ next = {"memory_updater", "final_response"}
  /\ supersteps' = supersteps + 1
  /\ \E stored \in {"STORED", "NOT_STORED"} :
       state' = [state EXCEPT !.memory = stored, !.outcome = "DONE"]
  /\ next' = {}
  /\ UNCHANGED <<case, interrupt, session>>

-----------------------------------------------------------------------------
(* Specification *)

\* record_human_approval: the human authority decides in the session.
HumanDecides ==
  /\ Ledger!Decide
  /\ approvalVersion' = approvalVersion + 1
  /\ UNCHANGED <<case, state, next, interrupt, supersteps>>

GraphStep ==
  \/ IntakeContext \/ MemoryRetriever \/ Planner \/ SupervisorRouter
  \/ \E s \in Specialists : Specialist(s)
  \/ ResolutionBuilder \/ VerifierPre \/ VerifierPost
  \/ AskClarification \/ ActionGate \/ HumanApproval \/ PauseCheckpoint
  \/ Transaction \/ Observation \/ HumanAdminReview \/ FinalResponse \/ Done

Resume == ResumeClarification \/ ResumeApproval

Next == GraphStep \/ Resume \/ HumanDecides

Spec == Init /\ [][Next]_vars

\* The run service records a decision only while the graph asks for it.
AskedNext == GraphStep \/ Resume \/ (interrupt = "APPROVAL" /\ HumanDecides)

AskedSpec == Init /\ [][AskedNext]_vars

\* What the service sees of the graph, under the names interrupts travel by.
InterruptType ==
  CASE interrupt = "CLARIFICATION" -> "clarification"
    [] interrupt = "APPROVAL"      -> "approval"
    [] OTHER                       -> "NONE"

Stream == INSTANCE GraphStream WITH
  interrupt <- InterruptType, approval <- decision, ended <- (next = {})

\* The worker keeps running the graph and the client answers what it is asked;
\* nothing obliges the human authority to decide.
FairSpec == Spec /\ WF_vars(GraphStep) /\ WF_vars(Resume)

-----------------------------------------------------------------------------
(* Properties *)

Nodes == Specialists \cup
  {"intake_context", "memory_retriever", "planner", "supervisor_router",
   "resolution_builder", "verifier", "clarification", "action_gate",
   "human_approval", "pause_checkpoint", "transaction", "observation",
   "human_admin_review", "memory_updater", "final_response"}

\* The checkpoint is well typed, and no counter it saves is beyond its cap.
TypeOK ==
  /\ case \in Cases
  /\ next \subseteq Nodes
  /\ interrupt \in {"NONE", "CLARIFICATION", "APPROVAL"}
  /\ supersteps \in Nat
  /\ protected \in BOOLEAN /\ used \subseteq Keys /\ resolved \in BOOLEAN
  /\ decision \in {"ABSENT", "PENDING", "APPROVED", "REJECTED"}
  /\ approvalVersion \in Nat
  /\ state.plan \in 0..(MaxReplans + 1)
  /\ state.selected \subseteq Specialists /\ state.pending \subseteq state.selected
  /\ state.candidate.plan \in 0..state.plan
  /\ state.receipts \subseteq [key : Keys, effect : BOOLEAN]
  /\ state.attempted \subseteq Offerings
  /\ state.verdict.code \in
       PreActionCodes \cup {"NONE", "DONE", "CONTINUE_FAILURE"}
  /\ state.counters \in [replans : 0..MaxReplans, retries : 0..MaxToolRetries,
                         steps : 0..MaxTotalSteps]
  /\ state.runStatus \in {"RUNNING", "WAITING_FOR_CLARIFICATION",
                          "WAITING_FOR_APPROVAL", "COMPLETED", "ESCALATED"}

\* No invocation reaches LangGraph's own recursion limit, which would fail the
\* run instead of handing the case over: the loop caps and the shrinking list of
\* pending specialists end it before, uncharged nodes included.
BackstopUnneeded == supersteps <= RecursionLimit

\* The checks by which a node raises, and so fails the run, never bite: the
\* routing delivers to each node the fields it insists on.
NodePreconditions ==
  /\ next \in {{"action_gate"}, {"human_approval"}, {"transaction"}} =>
       state.candidate # NoCandidate
  /\ next = {"action_gate"} =>
       state.verdict.phase = "PRE" /\ state.verdict.code = "VALID"
  /\ next = {"human_approval"} => state.candidate.approval
  /\ next = {"verifier"} /\ state.phase = "POST" => state.candidate # NoCandidate
  /\ "memory_updater" \in next =>
       state.goalMet /\ state.verdict.phase = "POST" /\ state.verdict.code = "DONE"
  /\ next = {"final_response"} => state.runStatus = "ESCALATED"

\* From the gate to the write, whatever pauses lie between, the candidate is the
\* one of the current plan, built from all of its evidence, and the verdict that
\* let it through was about it.
VerdictCoversCandidate ==
  next \in {{"action_gate"}, {"human_approval"}, {"pause_checkpoint"}, {"transaction"}} =>
    /\ state.verdict.phase = "PRE" /\ state.verdict.code = "VALID"
    /\ state.verdict.plan = state.plan /\ state.candidate.plan = state.plan
    /\ state.evidence.complete
    /\ state.candidate.evidence = state.evidence.seen

\* In a protected case the graph reaches the write only when the session itself,
\* and not just the client's answer, says the approval is granted, and the
\* candidate names the version of that grant; also after a failed policy read
\* made the state forget that an approval is required.
ProtectedWritesAreApproved ==
  next = {"transaction"} /\ protected =>
    /\ state.candidate.approval
    /\ decision = "APPROVED"
    /\ state.candidate.version = approvalVersion

\* No node is about to write under an idempotency key already spent, so a retry
\* is never answered with the receipt of an earlier attempt.
NoKeyReused ==
  /\ next = {"transaction"} => state.candidate.plan \notin used
  /\ next = {"human_approval"} /\ ~Requested => ApprovalKey \notin used

\* A registration is never submitted for a class that was tried before.
NoOfferingTriedTwice ==
  next = {"transaction"} /\ case.kind = "REGISTRATION" =>
    state.candidate.offering \notin state.attempted

\* A run reported as done, or remembered as a success, did resolve its case, and
\* a protected one under a granted approval.
DoneIsEarned ==
  state.outcome = "DONE" \/ state.memory = "STORED" \/ state.runStatus = "COMPLETED" =>
    /\ resolved
    /\ protected => decision = "APPROVED"

\* Every persisted interrupt passes the checks of _validate_resume, and as long
\* as the approval is undecided the version it asks for is the session's.
InterruptIsResumable ==
  /\ interrupt = "CLARIFICATION" =>
       /\ next = {"clarification"}
       /\ state.runStatus = "WAITING_FOR_CLARIFICATION"
       /\ state.verdict.code \in Clarifications
  /\ interrupt = "APPROVAL" =>
       /\ next = {"pause_checkpoint"}
       /\ state.runStatus = "WAITING_FOR_APPROVAL"
       /\ decision = "PENDING" => state.pauseVersion = approvalVersion

\* Every run comes to an end if its pauses are answered, even when the human
\* authority never decides.
RunEnds == <>(next = {})

\* A case handed to the administration is one the run did not resolve.
HandoffMeansUnresolved == state.outcome = "ADMIN_HANDOFF" => ~resolved

=============================================================================
