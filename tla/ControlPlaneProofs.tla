------------------------- MODULE ControlPlaneProofs -------------------------
(***************************************************************************)
(* Theorems about one run of the graph, for every set of cases and         *)
(* offerings, any loop caps, with and without a reviewing model.           *)
(***************************************************************************)
EXTENDS ControlPlane, TLAPS

-----------------------------------------------------------------------------
(* Types *)

Evidence == [seen : SUBSET Specialists, complete : BOOLEAN]
Requirements == [required : BOOLEAN, version : Nat]
Candidates == [plan : Nat, approval : BOOLEAN, version : Nat,
               offering : Offerings \cup {NoOffering}, evidence : SUBSET Specialists]
Verdicts == [phase : {"PRE", "POST"},
             code : PreActionCodes \cup {"NONE", "DONE", "CONTINUE_FAILURE"},
             plan : Nat, version : Nat]
Counters == [replans : 0..MaxReplans, retries : 0..MaxToolRetries,
             steps : 0..MaxTotalSteps]

WorkflowStates ==
  [plan : Nat, selected : SUBSET Specialists, pending : SUBSET Specialists,
   evidence : Evidence, requirement : Requirements, candidate : Candidates,
   phase : {"PRE", "POST"}, verdict : Verdicts, goalMet : BOOLEAN,
   intakeError : BOOLEAN, unresolved : BOOLEAN,
   pauseVersion : Nat, response : {"NONE", "PENDING", "APPROVED", "REJECTED"},
   receipts : SUBSET [key : Keys, effect : BOOLEAN],
   result : {"NONE", "RETRYABLE", "FINAL"}, observation : {"NONE", "RETRYABLE", "FINAL"},
   attempted : SUBSET Offerings, counters : Counters,
   runStatus : {"RUNNING", "WAITING_FOR_CLARIFICATION", "WAITING_FOR_APPROVAL",
                "COMPLETED", "ESCALATED"},
   outcome : {"NONE", "DONE", "ADMIN_HANDOFF"}, memory : {"NONE", "STORED", "NOT_STORED"}]

SessionTyped ==
  /\ protected \in BOOLEAN /\ used \subseteq Keys /\ resolved \in BOOLEAN
  /\ decision \in {"ABSENT", "PENDING", "APPROVED", "REJECTED"}
  /\ approvalVersion \in Nat

\* A plan beyond the first costs a replan, which bounds the plans by the cap.
StateTyped ==
  /\ state \in WorkflowStates
  /\ state.pending \subseteq state.selected
  /\ state.candidate.plan <= state.plan
  /\ state.plan <= state.counters.replans + 1

RunTyped ==
  /\ case \in Cases
  /\ next \subseteq Nodes
  /\ interrupt \in {"NONE", "CLARIFICATION", "APPROVAL"}
  /\ supersteps \in Nat

Typed == SessionTyped /\ StateTyped /\ RunTyped

LEMMA Interval == \A n \in Nat : n <= MaxReplans + 1 => n \in Keys
  BY ControlPlaneAssumption DEF Keys, ApprovalKey

LEMMA PlanIsKey == StateTyped => state.plan \in Keys /\ state.candidate.plan \in Keys
  <1> SUFFICES ASSUME StateTyped PROVE state.plan \in Keys /\ state.candidate.plan \in Keys
    OBVIOUS
  <1>1. /\ state.plan \in Nat /\ state.candidate.plan \in Nat
        /\ state.counters.replans \in 0..MaxReplans
    BY DEF StateTyped, WorkflowStates, Candidates, Counters
  <1>2. state.plan <= MaxReplans + 1 /\ state.candidate.plan <= MaxReplans + 1
    BY <1>1, ControlPlaneAssumption DEF StateTyped
  <1> QED
    BY <1>1, <1>2, Interval

LEMMA TypedIsTypeOK == Typed => TypeOK
  <1> SUFFICES ASSUME Typed PROVE TypeOK
    OBVIOUS
  <1>1. state.plan \in 0..(MaxReplans + 1)
    BY PlanIsKey DEF Typed, Keys, ApprovalKey
  <1>2. state.candidate.plan \in 0..state.plan
    BY DEF Typed, StateTyped, WorkflowStates, Candidates
  <1>3. /\ state.selected \subseteq Specialists /\ state.pending \subseteq state.selected
        /\ state.receipts \subseteq [key : Keys, effect : BOOLEAN]
        /\ state.attempted \subseteq Offerings
        /\ state.verdict.code \in PreActionCodes \cup {"NONE", "DONE", "CONTINUE_FAILURE"}
        /\ state.runStatus \in {"RUNNING", "WAITING_FOR_CLARIFICATION",
                                "WAITING_FOR_APPROVAL", "COMPLETED", "ESCALATED"}
    BY DEF Typed, StateTyped, WorkflowStates, Verdicts
  <1>4. state.counters \in [replans : 0..MaxReplans, retries : 0..MaxToolRetries,
                            steps : 0..MaxTotalSteps]
    BY DEF Typed, StateTyped, WorkflowStates, Counters
  <1> QED
    BY <1>1, <1>2, <1>3, <1>4 DEF Typed, SessionTyped, RunTyped, TypeOK

LEMMA InitTyped == Init => Typed
  <1> SUFFICES ASSUME Init PROVE Typed
    OBVIOUS
  <1>1. case \in Case
    BY ControlPlaneAssumption DEF Init
  <1>2. SessionTyped
    BY <1>1 DEF Init, SessionTyped, Case
  <1>3. StateTyped
    <2>1. [seen |-> {}, complete |-> TRUE] \in Evidence
      BY DEF Evidence
    <2>2. NoRequirement \in Requirements
      BY DEF NoRequirement, Requirements
    <2>3. NoCandidate \in Candidates
      BY DEF NoCandidate, Candidates
    <2>4. NoVerdict \in Verdicts
      BY DEF NoVerdict, Verdicts
    <2>5. [replans |-> 0, retries |-> 0, steps |-> 0] \in Counters
      BY ControlPlaneAssumption DEF Counters
    <2>6. case.unresolved \in BOOLEAN
      BY <1>1 DEF Case
    <2>7. state \in WorkflowStates
      BY <2>1, <2>2, <2>3, <2>4, <2>5, <2>6 DEF Init, StartState, WorkflowStates
    <2> QED
      BY <2>7 DEF Init, StartState, StateTyped, NoCandidate
  <1>4. RunTyped
    BY DEF Init, RunTyped, Nodes
  <1> QED
    BY <1>2, <1>3, <1>4 DEF Typed

\* The caps are kept: a node that may run saves counters within them.
LEMMA ChargedTyped ==
  ASSUME StateTyped, NEW replan \in BOOLEAN, NEW retry \in BOOLEAN, May(replan, retry)
  PROVE  /\ Charged(replan, retry) \in Counters
         /\ Charged(replan, retry).replans = state.counters.replans + Bump(replan)
         /\ Counted(replan, retry) \in WorkflowStates
  <1>1. state.counters \in [replans : Nat, retries : Nat, steps : Nat]
    BY ControlPlaneAssumption DEF StateTyped, WorkflowStates, Counters
  <1>2. Bump(replan) \in {0, 1} /\ Bump(retry) \in {0, 1}
    BY DEF Bump
  <1>3. Charged(replan, retry) \in Counters
    BY <1>1, <1>2, ControlPlaneAssumption DEF May, Within, Charged, Counters
  <1> QED
    BY <1>3 DEF StateTyped, WorkflowStates, Counted, Charged

\* What every step does to the run's own variables.
LEMMA StepKeepsRun == Typed /\ [Next]_vars => RunTyped'
  <1> SUFFICES ASSUME Typed, [Next]_vars PROVE RunTyped'
    OBVIOUS
  <1> USE DEF Typed, RunTyped
  <1>1. ASSUME NEW node \in Nodes, At(node), next' \subseteq Nodes,
               interrupt' \in {"NONE", "CLARIFICATION", "APPROVAL"}
        PROVE  RunTyped'
    BY <1>1 DEF At
  <1>2. ASSUME NEW node \in Nodes, At(node), NEW to \in Nodes, GoTo(to)
        PROVE  RunTyped'
    BY <1>1, <1>2 DEF GoTo
  <1>3. ASSUME NEW kind, ReRun(kind), next' \subseteq Nodes
        PROVE  RunTyped'
    BY <1>3 DEF ReRun
  <1>4. \A pending : NextSpecialist(pending) \in Nodes
    BY DEF NextSpecialist, Nodes, Specialists
  <1>5. \A code : RouteOf(code) \in Nodes
    BY DEF RouteOf, Nodes
  <1>6. /\ Specialists \subseteq Nodes
        /\ {"intake_context", "memory_retriever", "planner", "supervisor_router",
            "resolution_builder", "verifier", "clarification", "action_gate",
            "human_approval", "pause_checkpoint", "transaction", "observation",
            "human_admin_review", "memory_updater", "final_response"} \subseteq Nodes
    BY DEF Nodes
  <1>7. CASE UNCHANGED vars
    BY <1>7 DEF vars
  <1>8. CASE IntakeContext \/ MemoryRetriever
    BY <1>2, <1>6, <1>8 DEF IntakeContext, MemoryRetriever
  <1>9. CASE Planner
    BY <1>2, <1>6, <1>9 DEF Planner, Stop, Escalate
  <1>10. CASE SupervisorRouter
    BY <1>2, <1>4, <1>6, <1>10 DEF SupervisorRouter
  <1>11. ASSUME NEW s \in Specialists, Specialist(s)
         PROVE  RunTyped'
    BY <1>2, <1>4, <1>6, <1>11 DEF Specialist
  <1>12. CASE ResolutionBuilder
    BY <1>2, <1>6, <1>12 DEF ResolutionBuilder
  <1>13. CASE VerifierPre
    BY <1>2, <1>5, <1>6, <1>13 DEF VerifierPre, Stop
  <1>14. CASE VerifierPost
    <2>1. CASE Stop(FALSE, FALSE)
      BY <1>2, <1>6, <1>14, <2>1 DEF VerifierPost, Stop
    <2>2. CASE ~Stop(FALSE, FALSE)
      BY <1>1, <1>6, <1>14, <2>2 DEF VerifierPost
    <2> QED
      BY <2>1, <2>2
  <1>15. CASE AskClarification \/ PauseCheckpoint
    BY <1>1, <1>6, <1>15 DEF AskClarification, PauseCheckpoint
  <1>16. CASE ActionGate
    <2>1. CASE Stop(FALSE, FALSE)
      BY <1>2, <1>6, <1>16, <2>1 DEF ActionGate, Stop
    <2>2. CASE ~Stop(FALSE, FALSE)
      <3>1. PICK to \in {"human_admin_review", "human_approval", "transaction"} : GoTo(to)
        BY <1>16, <2>2 DEF ActionGate
      <3> QED
        BY <1>2, <1>6, <1>16, <3>1 DEF ActionGate
    <2> QED
      BY <2>1, <2>2
  <1>17. CASE HumanApproval
    BY <1>2, <1>6, <1>17 DEF HumanApproval, Stop, Escalate, Follow
  <1>18. CASE Transaction
    BY <1>2, <1>6, <1>18 DEF Transaction, Stop, Escalate, Reported
  <1>19. CASE Observation \/ HumanAdminReview
    BY <1>2, <1>6, <1>19 DEF Observation, HumanAdminReview
  <1>20. CASE FinalResponse
    BY <1>1, <1>6, <1>20 DEF FinalResponse
  <1>21. CASE Done
    BY <1>21 DEF Done
  <1>22. CASE ResumeClarification
    BY <1>3, <1>6, <1>22 DEF ResumeClarification
  <1>23. CASE ResumeApproval
    BY <1>3, <1>6, <1>23 DEF ResumeApproval
  <1>24. CASE HumanDecides
    BY <1>24 DEF HumanDecides
  <1> QED
    BY <1>7, <1>8, <1>9, <1>10, <1>11, <1>12, <1>13, <1>14, <1>15, <1>16, <1>17, <1>18,
       <1>19, <1>20, <1>21, <1>22, <1>23, <1>24 DEF Next, GraphStep, Resume

\* The session's part: two nodes and the human write to it.
LEMMA StepKeepsSession == Typed /\ [Next]_vars => SessionTyped'
  <1> SUFFICES ASSUME Typed, [Next]_vars PROVE SessionTyped'
    OBVIOUS
  <1> USE DEF session, SessionTyped, Typed
  <1>1. CASE UNCHANGED session
    BY <1>1
  <1>2. CASE HumanApproval
    <2>1. CASE RequestApproval
      <3>1. ApprovalKey \in Keys
        BY ControlPlaneAssumption DEF Keys, ApprovalKey
      <3> QED
        BY <2>1, <3>1 DEF RequestApproval, Ledger!Attempt
    <2> QED
      BY <1>1, <1>2, <2>1 DEF HumanApproval, Stop
  <1>3. CASE Transaction
    <2>1. state.candidate.plan \in Keys
      BY PlanIsKey
    <2>2. CASE UNCHANGED <<decision, approvalVersion>> /\ Ledger!Attempt(state.candidate.plan)
      BY <2>1, <2>2 DEF Ledger!Attempt
    <2>3. CASE UNCHANGED approvalVersion /\ Ledger!Effect(state.candidate.plan)
      BY <2>1, <2>3 DEF Ledger!Effect
    <2> QED
      BY <1>1, <1>3, <2>2, <2>3 DEF Transaction, Stop
  <1>4. CASE HumanDecides
    BY <1>4 DEF HumanDecides, Ledger!Decide
  <1>5. CASE UNCHANGED vars
    BY <1>1, <1>5 DEF vars
  <1>6. CASE IntakeContext \/ MemoryRetriever \/ Planner \/ SupervisorRouter
    BY <1>1, <1>6 DEF IntakeContext, MemoryRetriever, Planner, SupervisorRouter
  <1>7. CASE ResolutionBuilder \/ VerifierPre \/ VerifierPost \/ AskClarification \/ ActionGate
    BY <1>1, <1>7
       DEF ResolutionBuilder, VerifierPre, VerifierPost, AskClarification, ActionGate
  <1>8. CASE \E s \in Specialists : Specialist(s)
    BY <1>1, <1>8 DEF Specialist
  <1>9. CASE PauseCheckpoint \/ Observation \/ HumanAdminReview \/ FinalResponse \/ Done
    BY <1>1, <1>9 DEF PauseCheckpoint, Observation, HumanAdminReview, FinalResponse, Done
  <1>10. CASE Resume
    BY <1>1, <1>10 DEF Resume, ResumeClarification, ResumeApproval, ReRun
  <1> QED
    BY <1>2, <1>3, <1>4, <1>5, <1>6, <1>7, <1>8, <1>9, <1>10 DEF Next, GraphStep

\* What a charged node starts from: its checkpoint with the counters advanced.
LEMMA CountedTyped ==
  ASSUME StateTyped, NEW replan \in BOOLEAN, NEW retry \in BOOLEAN, May(replan, retry)
  PROVE  LET base == Counted(replan, retry) IN
         /\ base \in WorkflowStates
         /\ base.plan <= base.counters.replans + 1
         /\ replan = TRUE => base.plan + 1 <= base.counters.replans + 1
         /\ base.plan = state.plan /\ base.candidate = state.candidate
         /\ base.pending = state.pending /\ base.selected = state.selected
  <1> DEFINE base == Counted(replan, retry)
  <1>1. /\ base \in WorkflowStates
        /\ base.counters.replans = state.counters.replans + Bump(replan)
        /\ base.plan = state.plan /\ base.candidate = state.candidate
        /\ base.pending = state.pending /\ base.selected = state.selected
    BY SMTT(30), ChargedTyped DEF Counted, StateTyped, WorkflowStates
  <1>2. Bump(replan) \in {0, 1} /\ (replan = TRUE => Bump(replan) = 1)
    BY DEF Bump
  <1>3. /\ state.plan \in Nat /\ state.counters.replans \in Nat
        /\ state.plan <= state.counters.replans + 1
    BY ControlPlaneAssumption DEF StateTyped, WorkflowStates, Counters
  <1> QED
    BY <1>1, <1>2, <1>3

LEMMA PlannerTyped == ASSUME StateTyped, Planner PROVE StateTyped'
  <1>1. IsReplan \in BOOLEAN /\ IsToolRetry \in BOOLEAN
    BY DEF IsReplan, IsToolRetry
  <1>2. CASE Stop(IsReplan, IsToolRetry)
    BY <1>2 DEF Stop, StateTyped
  <1> DEFINE base == Counted(IsReplan, IsToolRetry)
  <1>3. CASE May(IsReplan, IsToolRetry) /\ Escalate(IsReplan, IsToolRetry)
    BY <1>1, <1>3, CountedTyped DEF Escalate, StateTyped
  <1>4. ASSUME May(IsReplan, IsToolRetry), NEW chosen \in Selections,
               state' = PlanWith(base, chosen)
        PROVE  StateTyped'
    <2>1. /\ base \in WorkflowStates /\ base.plan = state.plan
          /\ base.candidate = state.candidate
          /\ base.plan <= base.counters.replans + 1
          /\ IsReplan = TRUE => base.plan + 1 <= base.counters.replans + 1
      BY <1>1, <1>4, CountedTyped
    <2> HIDE DEF base
    <2>2. chosen \subseteq Specialists
      BY DEF Selections
    <2>3. [seen |-> {}, complete |-> TRUE] \in Evidence
      BY DEF Evidence
    <2> DEFINE evidence == [seen |-> {}, complete |-> TRUE]
               plan == base.plan + 1
    <2>4. plan \in Nat /\ evidence \in Evidence
      BY <2>1, <2>3 DEF WorkflowStates
    <2>5. state' = [base EXCEPT !.plan = plan, !.selected = chosen, !.pending = chosen,
                                !.evidence = evidence]
      BY <1>4 DEF PlanWith
    <2>6. plan = base.plan + 1
      OBVIOUS
    <2> HIDE DEF evidence, plan
    <2>7. /\ state' \in WorkflowStates /\ state'.counters = base.counters
          /\ state'.plan = base.plan + 1 /\ state'.candidate = base.candidate
          /\ state'.pending = chosen /\ state'.selected = chosen
      BY <2>1, <2>2, <2>4, <2>5, <2>6 DEF WorkflowStates
    <2>8. state'.plan <= state'.counters.replans + 1
      <3>1. base.counters.replans \in Nat
        BY <2>1, ControlPlaneAssumption DEF WorkflowStates, Counters
      <3>2. state.plan # 0 => IsReplan = TRUE
        BY DEF IsReplan
      <3> QED
        BY <2>1, <2>7, <3>1, <3>2
    <2>9. state'.candidate.plan <= state'.plan
      BY <2>1, <2>7 DEF StateTyped, WorkflowStates, Candidates
    <2> QED
      BY <2>7, <2>8, <2>9 DEF StateTyped
  <1> QED
    BY <1>2, <1>3, <1>4 DEF Planner

LEMMA SpecialistTyped ==
  ASSUME SessionTyped, StateTyped, NEW s \in Specialists, Specialist(s)
  PROVE  StateTyped'
  <1>1. PICK complete \in BOOLEAN, readable \in BOOLEAN :
          state' = [state EXCEPT
            !.pending = Remaining(s),
            !.evidence = [seen |-> @.seen \cup {s}, complete |-> @.complete /\ complete],
            !.requirement = IF s # "policy_agent" THEN @
                            ELSE IF readable THEN Requirement(approvalVersion)
                            ELSE NoRequirement]
    BY DEF Specialist
  <1>2. Remaining(s) \subseteq state.pending
    BY DEF Remaining
  <1>3. state.evidence \in Evidence /\ state.requirement \in Requirements
    BY DEF StateTyped, WorkflowStates
  <1>4. [seen |-> state.evidence.seen \cup {s},
         complete |-> state.evidence.complete /\ complete] \in Evidence
    BY <1>3 DEF Evidence
  <1>5. NoRequirement \in Requirements /\ Requirement(approvalVersion) \in Requirements
    BY DEF SessionTyped, Requirement, NoRequirement, Requirements
  <1>6. (IF s # "policy_agent" THEN state.requirement
         ELSE IF readable THEN Requirement(approvalVersion) ELSE NoRequirement) \in Requirements
    BY <1>3, <1>5
  <1> DEFINE requirement == IF s # "policy_agent" THEN state.requirement
                            ELSE IF readable THEN Requirement(approvalVersion) ELSE NoRequirement
             evidence == [seen |-> state.evidence.seen \cup {s},
                          complete |-> state.evidence.complete /\ complete]
  <1>7. state' = [state EXCEPT !.pending = Remaining(s), !.evidence = evidence,
                               !.requirement = requirement]
    BY <1>1
  <1>8. evidence \in Evidence /\ requirement \in Requirements
    BY <1>4, <1>6
  <1> HIDE DEF evidence, requirement
  <1> QED
    BY <1>2, <1>7, <1>8 DEF StateTyped, WorkflowStates

LEMMA ChoicesTyped == case \in Cases => Choices \subseteq Offerings \cup {NoOffering}
  <1>1. Declared \in Offerings
    BY ControlPlaneAssumption DEF Declared
  <1>2. Untried \subseteq Offerings
    BY DEF Untried
  <1>3. case \in Cases => case.kind \in Kinds
    BY ControlPlaneAssumption DEF Case
  <1> QED
    BY <1>1, <1>2, <1>3 DEF Choices, Kinds

LEMMA BuilderTyped == ASSUME RunTyped, StateTyped, ResolutionBuilder PROVE StateTyped'
  <1>1. PICK candidate :
          /\ candidate = NoCandidate \/ \E offering \in Choices : candidate = Candidate(offering)
          /\ state' = [state EXCEPT !.candidate = candidate, !.phase = "PRE"]
    BY DEF ResolutionBuilder, BuiltFrom
  <1>2. NoCandidate \in Candidates /\ NoCandidate.plan = 0
    BY DEF NoCandidate, Candidates
  <1>3. ASSUME NEW offering \in Choices
        PROVE  Candidate(offering) \in Candidates /\ Candidate(offering).plan = state.plan
    BY ChoicesTyped
       DEF RunTyped, StateTyped, WorkflowStates, Requirements, Evidence, Candidate, Candidates
  <1>4. candidate \in Candidates /\ candidate.plan \in {0, state.plan}
    BY <1>1, <1>2, <1>3
  <1>5. /\ state' \in WorkflowStates /\ state'.candidate = candidate
        /\ state'.plan = state.plan /\ state'.counters = state.counters
        /\ state'.pending = state.pending /\ state'.selected = state.selected
    BY <1>1, <1>4 DEF StateTyped, WorkflowStates
  <1>6. state.plan \in Nat
    BY DEF StateTyped, WorkflowStates
  <1> QED
    BY <1>4, <1>5, <1>6 DEF StateTyped

LEMMA AssessmentsTyped == case \in Cases => Assessments \subseteq PreActionCodes
  <1> SUFFICES ASSUME case \in Cases PROVE Assessments \subseteq PreActionCodes
    OBVIOUS
  <1>1. case.facts \in {"ELIGIBLE", "DOCUMENTS_MISSING", "INELIGIBLE"}
    BY ControlPlaneAssumption DEF Case
  <1>2. FactsVerdict \in PreActionCodes
    BY <1>1 DEF FactsVerdict, PreActionCodes, Clarifications
  <1>3. CandidateVerdict \in PreActionCodes
    BY DEF CandidateVerdict, PreActionCodes
  <1>4. Baseline \in PreActionCodes
    BY <1>2, <1>3 DEF Baseline, PreActionCodes
  <1> QED
    BY <1>4 DEF Assessments, PreActionCodes

LEMMA VerifierTyped ==
  ASSUME SessionTyped, RunTyped, StateTyped, VerifierPre \/ VerifierPost
  PROVE  StateTyped'
  <1> DEFINE base == Counted(FALSE, FALSE)
  <1>1. CASE Stop(FALSE, FALSE)
    BY <1>1 DEF Stop, StateTyped
  <1>2. ASSUME May(FALSE, FALSE)
        PROVE  /\ base \in WorkflowStates /\ base.plan <= base.counters.replans + 1
               /\ base.plan = state.plan /\ base.candidate = state.candidate
               /\ base.pending = state.pending /\ base.selected = state.selected
    BY <1>2, CountedTyped
  <1>3. state.candidate.plan \in Nat /\ state.candidate.version \in Nat
    BY DEF StateTyped, WorkflowStates, Candidates
  <1>4. CASE May(FALSE, FALSE) /\ VerifierPre
    <2>1. PICK code \in Assessments :
            state' = [base EXCEPT
              !.verdict = [phase |-> "PRE", code |-> code, plan |-> state.candidate.plan,
                           version |-> state.candidate.version],
              !.runStatus = IF code \in Clarifications
                            THEN "WAITING_FOR_CLARIFICATION" ELSE @]
      BY <1>4 DEF VerifierPre, Stop, May
    <2> DEFINE verdict == [phase |-> "PRE", code |-> code, plan |-> state.candidate.plan,
                           version |-> state.candidate.version]
    <2>2. verdict \in Verdicts
      BY <1>3, AssessmentsTyped DEF RunTyped, Verdicts
    <2> HIDE DEF verdict, base
    <2>3. PICK runStatus \in {base.runStatus, "WAITING_FOR_CLARIFICATION"} :
            state' = [base EXCEPT !.verdict = verdict, !.runStatus = runStatus]
      BY <2>1 DEF verdict
    <2>4. /\ state' \in WorkflowStates
          /\ state'.plan = base.plan /\ state'.counters = base.counters
          /\ state'.candidate = base.candidate
          /\ state'.pending = base.pending /\ state'.selected = base.selected
      BY ZenonT(60), <1>2, <1>4, <2>2, <2>3 DEF WorkflowStates
    <2> QED
      BY <1>2, <1>4, <2>4 DEF StateTyped
  <1>5. CASE May(FALSE, FALSE) /\ VerifierPost
    <2>1. PICK code \in {"DONE", "CONTINUE_FAILURE"}, goalMet \in BOOLEAN,
               runStatus \in {base.runStatus, "COMPLETED"} :
            state' = [base EXCEPT
              !.goalMet = goalMet,
              !.verdict = [phase |-> "POST", code |-> code, plan |-> state.candidate.plan,
                           version |-> 0],
              !.runStatus = runStatus]
      <3>1. GoalReached \in BOOLEAN
        BY DEF GoalReached, SessionTyped
      <3>2. state' = [base EXCEPT
              !.goalMet = GoalReached,
              !.verdict = [phase |-> "POST",
                           code |-> IF GoalReached THEN "DONE" ELSE "CONTINUE_FAILURE",
                           plan |-> state.candidate.plan, version |-> 0],
              !.runStatus = IF GoalReached THEN "COMPLETED" ELSE @]
        BY <1>5 DEF VerifierPost, Stop, May
      <3> QED
        BY <3>1, <3>2
    <2> DEFINE verdict == [phase |-> "POST", code |-> code, plan |-> state.candidate.plan,
                           version |-> 0]
    <2>2. verdict \in Verdicts
      BY <1>3 DEF Verdicts
    <2> HIDE DEF verdict, base
    <2>3. state' = [base EXCEPT !.goalMet = goalMet, !.verdict = verdict,
                                !.runStatus = runStatus]
      BY <2>1 DEF verdict
    <2> DEFINE judged == [base EXCEPT !.goalMet = goalMet, !.verdict = verdict]
    <2>4. /\ judged \in WorkflowStates
          /\ judged.plan = base.plan /\ judged.counters = base.counters
          /\ judged.candidate = base.candidate /\ judged.runStatus = base.runStatus
          /\ judged.pending = base.pending /\ judged.selected = base.selected
      BY <1>2, <1>5, <2>2 DEF WorkflowStates
    <2>5. state' = [judged EXCEPT !.runStatus = runStatus]
      BY <2>3
    <2> HIDE DEF judged
    <2>6. /\ state' \in WorkflowStates
          /\ state'.plan = base.plan /\ state'.counters = base.counters
          /\ state'.candidate = base.candidate
          /\ state'.pending = base.pending /\ state'.selected = base.selected
      BY <2>4, <2>5 DEF WorkflowStates
    <2> QED
      BY <1>2, <1>5, <2>6 DEF StateTyped
  <1> QED
    BY <1>1, <1>4, <1>5 DEF VerifierPre, VerifierPost

LEMMA GateTyped ==
  ASSUME StateTyped, ActionGate \/ ResumeClarification
  PROVE  StateTyped'
  <1> DEFINE base == Counted(FALSE, FALSE)
  <1>1. CASE UNCHANGED state
    BY <1>1 DEF StateTyped
  <1>2. ASSUME May(FALSE, FALSE)
        PROVE  /\ base \in WorkflowStates /\ base.plan <= base.counters.replans + 1
               /\ base.plan = state.plan /\ base.candidate = state.candidate
               /\ base.pending = state.pending /\ base.selected = state.selected
    BY <1>2, CountedTyped
  <1>3. CASE May(FALSE, FALSE) /\ ActionGate
    BY <1>2, <1>3 DEF ActionGate, Stop, StateTyped
  <1>4. CASE May(FALSE, FALSE) /\ ResumeClarification
    <2>1. state' = [base EXCEPT !.unresolved = FALSE, !.runStatus = "RUNNING"]
      BY <1>4 DEF ResumeClarification
    <2> HIDE DEF base
    <2>2. /\ state' \in WorkflowStates
          /\ state'.plan = base.plan /\ state'.counters = base.counters
          /\ state'.candidate = base.candidate
          /\ state'.pending = base.pending /\ state'.selected = base.selected
      BY ZenonT(60), <1>2, <1>4, <2>1 DEF WorkflowStates
    <2> QED
      BY <1>2, <1>4, <2>2 DEF StateTyped
  <1> QED
    BY <1>1, <1>3, <1>4 DEF ActionGate, ResumeClarification, Stop

\* Following the decision the node has read.
LEMMA FollowTyped ==
  ASSUME NEW base \in WorkflowStates, NEW version \in Nat,
         NEW status \in {"ABSENT", "PENDING", "APPROVED", "REJECTED"},
         Follow(base, status, version)
  PROVE  /\ state' \in WorkflowStates
         /\ state'.plan = base.plan /\ state'.counters = base.counters
         /\ state'.candidate.plan = base.candidate.plan
         /\ state'.pending = base.pending /\ state'.selected = base.selected
  <1> DEFINE requirement == Requirement(version)
             response == Visible(status)
             seen == [base EXCEPT !.requirement = requirement, !.response = response]
  <1>1. requirement \in Requirements
    BY DEF Requirement, NoRequirement, Requirements
  <1>2. response \in {"PENDING", "APPROVED", "REJECTED"}
    BY DEF Visible
  <1> HIDE DEF requirement, response
  <1>3. /\ seen \in WorkflowStates /\ seen.plan = base.plan /\ seen.counters = base.counters
        /\ seen.candidate = base.candidate
        /\ seen.pending = base.pending /\ seen.selected = base.selected
    BY ZenonT(60), <1>1, <1>2 DEF WorkflowStates
  <1> HIDE DEF seen
  <1>4. \/ state' = [seen EXCEPT !.candidate.version = version, !.runStatus = "RUNNING"]
        \/ state' = seen
        \/ state' = PauseFor(seen, version)
    BY DEF Follow, seen, requirement, response
  <1>5. CASE state' = [seen EXCEPT !.candidate.version = version, !.runStatus = "RUNNING"]
    <2>1. seen.candidate \in Candidates
      BY <1>3 DEF WorkflowStates
    <2>2. [seen.candidate EXCEPT !.version = version] \in Candidates
      BY <2>1 DEF Candidates
    <2>3. [seen.candidate EXCEPT !.version = version].plan = seen.candidate.plan
      BY <2>1 DEF Candidates
    <2> DEFINE candidate == [seen.candidate EXCEPT !.version = version]
    <2>4. state' = [seen EXCEPT !.candidate = candidate, !.runStatus = "RUNNING"]
      BY <1>5
    <2> HIDE DEF candidate
    <2>5. candidate \in Candidates /\ candidate.plan = seen.candidate.plan
      BY <2>2, <2>3 DEF candidate
    <2> QED
      BY ZenonT(60), <1>3, <2>4, <2>5 DEF WorkflowStates
  <1>6. CASE state' = seen
    BY <1>3, <1>6
  <1>7. CASE state' = PauseFor(seen, version)
    BY ZenonT(60), <1>3, <1>7 DEF PauseFor, WorkflowStates
  <1> QED
    BY <1>4, <1>5, <1>6, <1>7

\* A receipt enters the checkpoint under a key of the ledger.
LEMMA ReceiptTyped ==
  ASSUME NEW base \in WorkflowStates, NEW key \in Keys, NEW effect \in BOOLEAN
  PROVE  LET updated == WithReceipt(base, key, effect) IN
         /\ updated \in WorkflowStates
         /\ updated.plan = base.plan /\ updated.counters = base.counters
         /\ updated.candidate = base.candidate
         /\ updated.pending = base.pending /\ updated.selected = base.selected
         /\ updated.attempted = base.attempted
  <1> DEFINE receipts == base.receipts \cup {[key |-> key, effect |-> effect]}
  <1>1. receipts \in SUBSET [key : Keys, effect : BOOLEAN]
    BY DEF WorkflowStates
  <1>2. WithReceipt(base, key, effect) = [base EXCEPT !.receipts = receipts]
    BY DEF WithReceipt
  <1> HIDE DEF receipts
  <1> QED
    BY <1>1, <1>2 DEF WorkflowStates

LEMMA ApprovalTyped ==
  ASSUME SessionTyped, SessionTyped', StateTyped, HumanApproval
  PROVE  StateTyped'
  <1> DEFINE base == Counted(FALSE, FALSE)
             updated == WithReceipt(base, ApprovalKey, FALSE)
  <1>1. CASE Stop(FALSE, FALSE)
    BY <1>1 DEF Stop, StateTyped
  <1> SUFFICES ASSUME ~Stop(FALSE, FALSE) PROVE StateTyped'
    BY <1>1
  <1>2. /\ base \in WorkflowStates /\ base.plan <= base.counters.replans + 1
        /\ base.plan = state.plan /\ base.candidate = state.candidate
        /\ base.pending = state.pending /\ base.selected = state.selected
    BY CountedTyped DEF HumanApproval
  <1>3. ApprovalKey \in Keys
    BY ControlPlaneAssumption DEF Keys, ApprovalKey
  <1>4. /\ updated \in WorkflowStates
        /\ updated.plan = base.plan /\ updated.counters = base.counters
        /\ updated.candidate = base.candidate
        /\ updated.pending = base.pending /\ updated.selected = base.selected
    BY <1>2, <1>3, ReceiptTyped
  <1>5. \/ state' \in {base, updated}
        \/ Follow(base, decision, approvalVersion)
        \/ Follow(updated, decision', approvalVersion')
    BY DEF HumanApproval, Escalate
  <1> HIDE DEF base, updated
  <1>6. CASE state' \in {base, updated}
    BY <1>2, <1>4, <1>6 DEF StateTyped
  <1>7. CASE Follow(base, decision, approvalVersion)
    BY <1>2, <1>7, FollowTyped DEF SessionTyped, StateTyped
  <1>8. CASE Follow(updated, decision', approvalVersion')
    BY <1>2, <1>4, <1>8, FollowTyped DEF SessionTyped, StateTyped
  <1> QED
    BY <1>5, <1>6, <1>7, <1>8

LEMMA TransactionTyped == ASSUME StateTyped, Transaction PROVE StateTyped'
  <1> DEFINE base == Counted(FALSE, FALSE)
  <1>1. CASE Stop(FALSE, FALSE)
    BY <1>1 DEF Stop, StateTyped
  <1> SUFFICES ASSUME ~Stop(FALSE, FALSE) PROVE StateTyped'
    BY <1>1
  <1>2. /\ base \in WorkflowStates /\ base.plan <= base.counters.replans + 1
        /\ base.plan = state.plan /\ base.candidate = state.candidate
        /\ base.pending = state.pending /\ base.selected = state.selected
    BY CountedTyped DEF Transaction
  <1> HIDE DEF base
  <1>3. state.candidate.plan \in Keys
    BY PlanIsKey
  <1>4. ASSUME NEW updated \in WorkflowStates, NEW result \in {"RETRYABLE", "FINAL"},
               updated.plan = base.plan, updated.counters = base.counters,
               updated.candidate = base.candidate, updated.pending = base.pending,
               updated.selected = base.selected, Reported(updated, result)
        PROVE  StateTyped'
    <2> DEFINE attempted == updated.attempted \cup ({state.candidate.offering} \ {NoOffering})
    <2>1. state' = [updated EXCEPT !.result = result, !.attempted = attempted]
      BY <1>4 DEF Reported
    <2>2. attempted \subseteq Offerings
      BY <1>4 DEF StateTyped, WorkflowStates, Candidates
    <2> HIDE DEF attempted
    <2>3. /\ state' \in WorkflowStates
          /\ state'.plan = base.plan /\ state'.counters = base.counters
          /\ state'.candidate = base.candidate
          /\ state'.pending = base.pending /\ state'.selected = base.selected
      BY ZenonT(60), <1>4, <2>1, <2>2 DEF WorkflowStates
    <2> QED
      BY <1>2, <2>3 DEF StateTyped
  <1>5. CASE state' = base
    BY <1>2, <1>5 DEF StateTyped
  <1>6. \/ state' = base
        \/ \E result \in {"RETRYABLE", "FINAL"} : Reported(base, result)
        \/ \E result \in {"RETRYABLE", "FINAL"}, effect \in BOOLEAN :
             Reported(WithReceipt(base, state.candidate.plan, effect), result)
    BY DEF Transaction, Escalate, base
  <1>7. ASSUME NEW effect \in BOOLEAN
        PROVE  LET updated == WithReceipt(base, state.candidate.plan, effect) IN
               /\ updated \in WorkflowStates
               /\ updated.plan = base.plan /\ updated.counters = base.counters
               /\ updated.candidate = base.candidate
               /\ updated.pending = base.pending /\ updated.selected = base.selected
    BY <1>2, <1>3, ReceiptTyped
  <1> QED
    BY <1>2, <1>4, <1>5, <1>6, <1>7

LEMMA ReviewTyped == ASSUME StateTyped, HumanAdminReview PROVE StateTyped'
  <1>1. PICK counters :
          /\ \/ counters = state.counters
             \/ May(FALSE, FALSE) /\ counters = Charged(FALSE, FALSE)
          /\ state' = [state EXCEPT !.counters = counters, !.runStatus = "ESCALATED"]
    BY DEF HumanAdminReview
  <1>2. counters \in Counters /\ counters.replans = state.counters.replans
    <2>1. CASE counters = state.counters
      BY <2>1 DEF StateTyped, WorkflowStates
    <2>2. CASE May(FALSE, FALSE) /\ counters = Charged(FALSE, FALSE)
      <3>1. counters \in Counters /\ counters.replans = state.counters.replans + Bump(FALSE)
        BY <2>2, ChargedTyped
      <3>2. state.counters.replans \in Nat
        BY ControlPlaneAssumption DEF StateTyped, WorkflowStates, Counters
      <3> QED
        BY <3>1, <3>2 DEF Bump
    <2> QED
      BY <1>1, <2>1, <2>2
  <1> QED
    BY ZenonT(60), <1>1, <1>2 DEF StateTyped, WorkflowStates

LEMMA StepKeepsTypes == Typed /\ [Next]_vars => Typed'
  <1> SUFFICES ASSUME Typed, [Next]_vars PROVE Typed'
    OBVIOUS
  <1>1. SessionTyped /\ StateTyped /\ RunTyped
    BY DEF Typed
  <1>2. SessionTyped' /\ RunTyped'
    BY StepKeepsRun, StepKeepsSession
  <1>3. StateTyped'
    <2>1. CASE UNCHANGED state
      BY <1>1, <2>1 DEF StateTyped
    <2>2. CASE UNCHANGED vars \/ HumanDecides \/ MemoryRetriever \/ SupervisorRouter
      BY <2>1, <2>2 DEF vars, HumanDecides, MemoryRetriever, SupervisorRouter
    <2>3. CASE AskClarification \/ PauseCheckpoint
      BY <2>1, <2>3 DEF AskClarification, PauseCheckpoint
    <2>4. CASE IntakeContext
      BY <1>1, <2>4 DEF IntakeContext, StateTyped, WorkflowStates
    <2>5. CASE ResumeApproval
      <3>1. PICK claim \in {"PENDING", "APPROVED", "REJECTED"} :
              state' = [state EXCEPT !.response = claim, !.runStatus = "RUNNING"]
        BY <2>5 DEF ResumeApproval
      <3> QED
        BY ZenonT(60), <1>1, <3>1 DEF StateTyped, WorkflowStates
    <2>6. CASE Observation
      BY ZenonT(60), <1>1, <2>6 DEF Observation, StateTyped, WorkflowStates
    <2>7. CASE FinalResponse
      BY <1>1, <2>7 DEF FinalResponse, StateTyped, WorkflowStates
    <2>8. CASE Done
      <3>1. PICK stored \in {"STORED", "NOT_STORED"} :
              state' = [state EXCEPT !.memory = stored, !.outcome = "DONE"]
        BY <2>8 DEF Done
      <3>2. state' \in WorkflowStates
        <4> DEFINE remembered == [state EXCEPT !.memory = stored]
        <4>1. remembered \in WorkflowStates
          BY <1>1 DEF StateTyped, WorkflowStates
        <4>2. state' = [remembered EXCEPT !.outcome = "DONE"]
          BY <3>1
        <4> HIDE DEF remembered
        <4> QED
          BY <4>1, <4>2 DEF WorkflowStates
      <3>3. /\ state'.plan = state.plan /\ state'.counters = state.counters
            /\ state'.candidate = state.candidate
            /\ state'.pending = state.pending /\ state'.selected = state.selected
        BY <1>1, <3>1 DEF StateTyped, WorkflowStates
      <3> QED
        BY <1>1, <3>2, <3>3 DEF StateTyped
    <2>9. CASE Planner \/ ResolutionBuilder \/ VerifierPre \/ VerifierPost
      BY <1>1, <2>9, PlannerTyped, BuilderTyped, VerifierTyped
    <2>10. CASE \E s \in Specialists : Specialist(s)
      BY <1>1, <2>10, SpecialistTyped
    <2>11. CASE ActionGate \/ ResumeClarification \/ HumanApproval
      BY <1>1, <1>2, <2>11, GateTyped, ApprovalTyped
    <2>12. CASE Transaction \/ HumanAdminReview
      BY <1>1, <2>12, TransactionTyped, ReviewTyped
    <2> QED
      BY <2>2, <2>3, <2>4, <2>5, <2>6, <2>7, <2>8, <2>9, <2>10, <2>11, <2>12
         DEF Next, GraphStep, Resume
  <1> QED
    BY <1>2, <1>3 DEF Typed

LEMMA TypedAlways == Spec => []Typed
  BY InitTyped, StepKeepsTypes, PTL DEF Spec

\* The checkpoint stays well typed and within the caps, whichever they are.
THEOREM CheckpointTypes == Spec => []TypeOK
  BY TypedIsTypeOK, TypedAlways, PTL

-----------------------------------------------------------------------------
(* The invariant of a run *)

BeforeWrite == Specialists \cup
  {"supervisor_router", "resolution_builder", "clarification", "action_gate",
   "human_approval", "pause_checkpoint", "transaction"}

PastVerifier == {"action_gate", "human_approval", "pause_checkpoint", "transaction"}

\* A candidate on the table is the current plan's, and its class is untried.
Proposed ==
  \/ state.candidate = NoCandidate
  \/ /\ state.candidate.plan = state.plan
     /\ case.kind = "REGISTRATION" => state.candidate.offering \notin state.attempted

\* The verdict that let it through was about it and about all of its evidence,
\* the policy's among it.
Covered ==
  /\ state.candidate.plan = state.plan
  /\ state.verdict.phase = "PRE" /\ state.verdict.code = "VALID"
  /\ state.verdict.plan = state.plan
  /\ state.evidence.complete = TRUE
  /\ state.candidate.evidence = state.evidence.seen
  /\ "policy_agent" \in state.evidence.seen

Granted ==
  protected = TRUE =>
    /\ state.candidate.approval = TRUE
    /\ decision = "APPROVED"
    /\ state.candidate.version = approvalVersion

Asked ==
  /\ state.runStatus = "WAITING_FOR_CLARIFICATION"
  /\ state.verdict.code \in Clarifications

Paused ==
  /\ state.runStatus = "WAITING_FOR_APPROVAL"
  /\ decision = "PENDING" => state.pauseVersion = approvalVersion

Unwritten ==
  state.plan # 0 /\ state.plan \notin used /\ state.observation # "FINAL"

\* What a node finds when it is the next to run.
Expects(node) ==
  /\ node \in BeforeWrite => Unwritten
  /\ node = "verifier" /\ state.phase = "PRE" => Unwritten /\ Proposed
  /\ node \in PastVerifier \cup {"clarification"} => state.phase = "PRE" /\ Proposed
  /\ node \in PastVerifier => Covered
  /\ node \in {"human_approval", "pause_checkpoint"} => state.candidate.approval = TRUE
  /\ node = "transaction" => Granted
  /\ node = "clarification" => Asked
  /\ node = "pause_checkpoint" => Paused
  /\ node = "observation" => state.candidate.plan # 0 /\ state.result # "NONE"
  /\ node = "verifier" /\ state.phase = "POST" => state.candidate.plan # 0
  /\ node = "memory_updater" =>
       /\ state.goalMet = TRUE /\ state.runStatus = "COMPLETED"
       /\ state.verdict.phase = "POST" /\ state.verdict.code = "DONE"
  /\ node = "final_response" /\ "memory_updater" \notin next => state.runStatus = "ESCALATED"

Positional == \A node \in next : Expects(node)

Interrupted ==
  /\ interrupt = "CLARIFICATION" => next = {"clarification"}
  /\ interrupt = "APPROVAL" => next = {"pause_checkpoint"}

\* What holds wherever the run stands: spent keys and receipts are the same, an
\* effect is a granted one, complete evidence knows of the approval requirement.
Standing ==
  /\ used = {r.key : r \in state.receipts}
  /\ \A k \in used : k <= state.plan
  /\ \A r \in state.receipts : r.effect = TRUE => resolved = TRUE
  /\ resolved = TRUE /\ protected = TRUE => decision = "APPROVED"
  /\ state.plan # 0 => "policy_agent" \in state.selected
  /\ state.evidence.complete = TRUE /\ "policy_agent" \in state.evidence.seen =>
       state.requirement.required = protected
  /\ state.attempted # {} /\ "observation" \notin next => state.observation # "NONE"
  /\ state.runStatus = "COMPLETED" => resolved = TRUE
  /\ state.memory = "STORED" \/ state.outcome = "DONE" => resolved = TRUE

Inv == Standing /\ Positional /\ Interrupted

LEMMA InitInv == Init => Inv
  <1> SUFFICES ASSUME Init PROVE Inv
    OBVIOUS
  <1>1. /\ state.plan = 0 /\ state.receipts = {} /\ state.attempted = {}
        /\ state.evidence.seen = {} /\ state.runStatus = "RUNNING"
        /\ state.memory = "NONE" /\ state.outcome = "NONE"
    BY DEF Init, StartState
  <1>2. Standing
    BY <1>1 DEF Init, Standing
  <1>3. Expects("intake_context")
    BY DEF Expects, BeforeWrite, PastVerifier, Specialists
  <1> QED
    BY <1>2, <1>3 DEF Init, Inv, Positional, Interrupted

\* A step that ends in one node and asks nobody.
LEMMA Arrive ==
  ASSUME NEW node, next' = {node}, Expects(node)', interrupt' = "NONE", Standing'
  PROVE  Inv'
  BY DEF Inv, Positional, Interrupted

\* Nodes that expect nothing.
LEMMA Welcome ==
  ASSUME NEW node \in {"intake_context", "memory_retriever", "planner", "human_admin_review"}
  PROVE  Expects(node)'
  BY DEF Expects, BeforeWrite, PastVerifier, Specialists

\* Nodes before there is a candidate.
LEMMA Gathering ==
  ASSUME NEW node \in Specialists \cup {"supervisor_router", "resolution_builder"}
  PROVE  /\ Unwritten' => Expects(node)'
         /\ Expects(node) => Unwritten
  BY DEF Expects, BeforeWrite, PastVerifier, Specialists

\* A step that leaves the session and what was found and done so far alone.
LEMMA StandingKept ==
  ASSUME Standing, UNCHANGED session, "observation" \notin next,
         state'.plan = state.plan, state'.selected = state.selected,
         state'.evidence = state.evidence, state'.requirement = state.requirement,
         state'.receipts = state.receipts, state'.attempted = state.attempted,
         state'.observation = state.observation,
         state'.runStatus = "COMPLETED" => state.runStatus = "COMPLETED" \/ resolved = TRUE,
         state'.memory = "STORED" => state.memory = "STORED" \/ resolved = TRUE,
         state'.outcome = "DONE" => state.outcome = "DONE" \/ resolved = TRUE
  PROVE  Standing'
  BY DEF Standing, session

\* Where a node starts from.
LEMMA Here ==
  ASSUME Inv, NEW node, At(node)
  PROVE  Standing /\ Expects(node) /\ next = {node} /\ interrupt = "NONE"
  BY DEF Inv, Positional, At

\* A node that would exceed a cap hands the case over.
LEMMA StopKept ==
  ASSUME Inv, NEW node, At(node), node # "observation",
         NEW replan \in BOOLEAN, NEW retry \in BOOLEAN, Stop(replan, retry),
         UNCHANGED session
  PROVE  Inv'
  <1>1. Standing /\ next = {node} /\ interrupt = "NONE"
    BY Here
  <1>2. Standing'
    BY <1>1, StandingKept DEF Stop
  <1>3. next' = {"human_admin_review"} /\ interrupt' = "NONE"
    BY <1>1 DEF Stop, GoTo
  <1> QED
    BY <1>2, <1>3, Arrive, Welcome

\* What a charge leaves as it was.
LEMMA CountedKeeps ==
  ASSUME StateTyped, NEW replan \in BOOLEAN, NEW retry \in BOOLEAN
  PROVE  LET base == Counted(replan, retry) IN
         /\ base = [state EXCEPT !.counters = base.counters]
         /\ base.plan = state.plan /\ base.selected = state.selected
         /\ base.evidence = state.evidence /\ base.requirement = state.requirement
         /\ base.candidate = state.candidate /\ base.phase = state.phase
         /\ base.verdict = state.verdict /\ base.goalMet = state.goalMet
         /\ base.pauseVersion = state.pauseVersion /\ base.response = state.response
         /\ base.receipts = state.receipts /\ base.result = state.result
         /\ base.attempted = state.attempted /\ base.observation = state.observation
         /\ base.runStatus = state.runStatus
         /\ base.memory = state.memory /\ base.outcome = state.outcome
  BY DEF StateTyped, WorkflowStates, Counted

\* Handing the case over keeps what stands.
LEMMA EscalateKept ==
  ASSUME Typed, Inv, NEW node, At(node), node # "observation",
         NEW replan \in BOOLEAN, NEW retry \in BOOLEAN, Escalate(replan, retry),
         UNCHANGED session
  PROVE  Inv'
  <1>1. Standing /\ next = {node} /\ interrupt = "NONE"
    BY Here
  <1>2. Standing'
    <2>1. LET base == Counted(replan, retry) IN
          /\ base.plan = state.plan /\ base.selected = state.selected
          /\ base.evidence = state.evidence /\ base.requirement = state.requirement
          /\ base.receipts = state.receipts /\ base.attempted = state.attempted
          /\ base.observation = state.observation /\ base.runStatus = state.runStatus
          /\ base.memory = state.memory /\ base.outcome = state.outcome
      BY CountedKeeps DEF Typed
    <2>2. state' = Counted(replan, retry)
      BY DEF Escalate
    <2> QED
      BY <1>1, <2>1, <2>2, StandingKept
  <1>3. next' = {"human_admin_review"} /\ interrupt' = "NONE"
    BY <1>1 DEF Escalate, GoTo
  <1> QED
    BY <1>2, <1>3, Arrive, Welcome

LEMMA IntakeKept ==
  ASSUME Typed, Inv, IntakeContext \/ MemoryRetriever PROVE Inv'
  <1>1. Standing /\ next \in {{"intake_context"}, {"memory_retriever"}} /\ interrupt = "NONE"
    BY Here DEF IntakeContext, MemoryRetriever
  <1>2. Standing'
    <2>1. PICK failed \in BOOLEAN :
            state' \in {state, [state EXCEPT !.intakeError = failed]}
      BY DEF IntakeContext, MemoryRetriever
    <2>2. UNCHANGED session
      BY DEF IntakeContext, MemoryRetriever
    <2> QED
      BY ZenonT(60), <1>1, <2>1, <2>2, StandingKept DEF Typed, StateTyped, WorkflowStates
  <1>3. PICK to \in {"memory_retriever", "planner"} : next' = {to} /\ interrupt' = "NONE"
    BY <1>1 DEF IntakeContext, MemoryRetriever, GoTo
  <1> QED
    BY <1>2, <1>3, Arrive, Welcome

\* A new plan is a key not spent yet.
LEMMA PlannerKept == ASSUME Typed, Inv, Planner PROVE Inv'
  <1>1. At("planner") /\ UNCHANGED session
    BY DEF Planner
  <1>2. Standing /\ next = {"planner"} /\ interrupt = "NONE"
    BY <1>1, Here
  <1>3. IsReplan \in BOOLEAN /\ IsToolRetry \in BOOLEAN
    BY DEF IsReplan, IsToolRetry
  <1>4. CASE Stop(IsReplan, IsToolRetry)
    BY <1>1, <1>4, <1>3, StopKept
  <1>5. CASE Escalate(IsReplan, IsToolRetry)
    BY <1>1, <1>5, <1>3, EscalateKept
  <1> DEFINE base == Counted(IsReplan, IsToolRetry)
  <1>6. ASSUME ~NoSafeRoute, NEW chosen \in Selections,
               state' = PlanWith(base, chosen), GoTo("supervisor_router")
        PROVE  Inv'
    <2>1. /\ base.plan = state.plan /\ base.requirement = state.requirement
          /\ base.receipts = state.receipts /\ base.attempted = state.attempted
          /\ base.observation = state.observation /\ base.runStatus = state.runStatus
          /\ base.memory = state.memory /\ base.outcome = state.outcome
          /\ base = [state EXCEPT !.counters = base.counters]
      BY <1>3, CountedKeeps DEF Typed
    <2>2. /\ state'.plan = state.plan + 1 /\ state'.selected = chosen
          /\ state'.evidence = [seen |-> {}, complete |-> TRUE]
          /\ state'.requirement = state.requirement
          /\ state'.receipts = state.receipts /\ state'.attempted = state.attempted
          /\ state'.observation = state.observation
          /\ state'.runStatus = state.runStatus
          /\ state'.memory = state.memory /\ state'.outcome = state.outcome
      BY <1>6, <2>1 DEF PlanWith, Typed, StateTyped, WorkflowStates
    <2>3. state.plan \in Nat /\ used \subseteq Int
      BY ControlPlaneAssumption
         DEF Typed, StateTyped, WorkflowStates, SessionTyped, Keys, ApprovalKey
    <2>4. "policy_agent" \in chosen
      BY DEF Selections, Required, Specialists
    <2>5. Standing'
      BY <1>1, <1>2, <2>2, <2>3, <2>4 DEF Standing, session
    <2>6. Unwritten'
      BY <1>1, <1>2, <1>6, <2>2, <2>3 DEF Standing, session, NoSafeRoute, Unwritten
    <2>7. next' = {"supervisor_router"} /\ interrupt' = "NONE"
      BY <1>2, <1>6 DEF GoTo
    <2> QED
      BY <2>5, <2>6, <2>7, Gathering, Arrive
  <1> QED
    BY <1>4, <1>5, <1>6 DEF Planner

LEMMA NextIsGathering ==
  \A pending : NextSpecialist(pending) \in Specialists \cup {"resolution_builder"}
  BY DEF NextSpecialist, Specialists

LEMMA RouterKept == ASSUME Typed, Inv, SupervisorRouter PROVE Inv'
  <1>1. At("supervisor_router") /\ UNCHANGED session /\ UNCHANGED state
    BY DEF SupervisorRouter
  <1>2. Standing /\ Unwritten /\ next = {"supervisor_router"} /\ interrupt = "NONE"
    BY <1>1, Here, Gathering
  <1>3. Standing'
    BY <1>1, <1>2, StandingKept
  <1>4. Unwritten'
    BY <1>1, <1>2 DEF Unwritten, session
  <1>5. next' = {NextSpecialist(state.pending)} /\ interrupt' = "NONE"
    BY <1>2 DEF SupervisorRouter, GoTo
  <1> QED
    BY <1>3, <1>4, <1>5, NextIsGathering, Gathering, Arrive

\* Evidence stays complete only if the read of the requirement succeeded.
LEMMA SpecialistKept ==
  ASSUME Typed, Inv, NEW s \in Specialists, Specialist(s)
  PROVE  Inv'
  <1>1. At(s) /\ UNCHANGED session
    BY DEF Specialist
  <1>2. Standing /\ Unwritten /\ next = {s} /\ interrupt = "NONE"
    BY <1>1, Here, Gathering
  <1>3. PICK complete \in BOOLEAN, readable \in BOOLEAN :
          /\ complete => readable
          /\ state' = [state EXCEPT
            !.pending = Remaining(s),
            !.evidence = [seen |-> @.seen \cup {s}, complete |-> @.complete /\ complete],
            !.requirement = IF s # "policy_agent" THEN @
                            ELSE IF readable THEN Requirement(approvalVersion)
                            ELSE NoRequirement]
    BY DEF Specialist
  <1> DEFINE evidence == [seen |-> state.evidence.seen \cup {s},
                          complete |-> state.evidence.complete /\ complete]
             requirement == IF s # "policy_agent" THEN state.requirement
                            ELSE IF readable THEN Requirement(approvalVersion)
                            ELSE NoRequirement
  <1>4. state' = [state EXCEPT !.pending = Remaining(s), !.evidence = evidence,
                               !.requirement = requirement]
    BY <1>3
  <1>5. /\ evidence.seen = state.evidence.seen \cup {s}
        /\ evidence.complete = TRUE =>
             state.evidence.complete = TRUE /\ (complete = TRUE)
    BY DEF Typed, StateTyped, WorkflowStates, Evidence
  <1>6. evidence.complete = TRUE /\ "policy_agent" \in evidence.seen =>
          requirement.required = protected
    <2>1. CASE s # "policy_agent"
      BY <1>2, <1>5, <2>1 DEF Standing
    <2>2. CASE s = "policy_agent"
      <3>1. Requirement(approvalVersion).required = protected
        BY DEF Requirement, NoRequirement, Typed, SessionTyped
      <3> QED
        BY <1>3, <1>5, <2>2, <3>1
    <2> QED
      BY <2>1, <2>2
  <1> HIDE DEF evidence, requirement
  <1>7. /\ state'.plan = state.plan /\ state'.selected = state.selected
        /\ state'.evidence = evidence /\ state'.requirement = requirement
        /\ state'.receipts = state.receipts /\ state'.attempted = state.attempted
        /\ state'.observation = state.observation
        /\ state'.runStatus = state.runStatus
        /\ state'.memory = state.memory /\ state'.outcome = state.outcome
    BY <1>4 DEF Typed, StateTyped, WorkflowStates
  <1>8. s # "observation"
    BY DEF Specialists
  <1>9. Standing'
    BY <1>1, <1>2, <1>6, <1>7, <1>8 DEF Standing, session
  <1>10. Unwritten'
    BY <1>1, <1>2, <1>7 DEF Unwritten, session
  <1>11. next' = {NextSpecialist(Remaining(s))} /\ interrupt' = "NONE"
    BY <1>2 DEF Specialist, GoTo
  <1> QED
    BY <1>9, <1>10, <1>11, NextIsGathering, Gathering, Arrive

\* A registration is proposed for a class that was not tried: after a failure
\* that may be retried the tried ones are left out, and before any there are none.
LEMMA BuilderKept == ASSUME Typed, Inv, ResolutionBuilder PROVE Inv'
  <1>1. At("resolution_builder") /\ UNCHANGED session /\ GoTo("verifier")
    BY DEF ResolutionBuilder
  <1>2. Standing /\ Unwritten /\ next = {"resolution_builder"} /\ interrupt = "NONE"
    BY <1>1, Here, Gathering
  <1>3. PICK candidate :
          /\ candidate = NoCandidate \/ \E offering \in Choices : candidate = Candidate(offering)
          /\ state' = [state EXCEPT !.candidate = candidate, !.phase = "PRE"]
    BY DEF ResolutionBuilder, BuiltFrom
  <1>4. /\ state'.candidate = candidate /\ state'.phase = "PRE"
        /\ state'.plan = state.plan /\ state'.selected = state.selected
        /\ state'.evidence = state.evidence /\ state'.requirement = state.requirement
        /\ state'.receipts = state.receipts /\ state'.attempted = state.attempted
        /\ state'.observation = state.observation
        /\ state'.runStatus = state.runStatus
        /\ state'.memory = state.memory /\ state'.outcome = state.outcome
    BY <1>3 DEF Typed, StateTyped, WorkflowStates
  <1>5. Standing'
    BY <1>1, <1>2, <1>4, StandingKept
  <1>6. Unwritten'
    BY <1>1, <1>2, <1>4 DEF Unwritten, session
  <1>7. ASSUME NEW offering \in Choices, case.kind = "REGISTRATION"
        PROVE  offering \notin state.attempted
    <2>1. offering \in Untried
      BY <1>7 DEF Choices
    <2>2. CASE state.observation = "RETRYABLE"
      BY <2>1, <2>2 DEF Untried
    <2>3. CASE state.observation # "RETRYABLE"
      BY <1>2, <2>3 DEF Unwritten, Standing, Typed, StateTyped, WorkflowStates
    <2> QED
      BY <2>2, <2>3
  <1>8. Proposed'
    <2>1. ASSUME NEW offering \in Choices
          PROVE  Candidate(offering).plan = state.plan /\ Candidate(offering).offering = offering
      BY DEF Candidate
    <2>2. case' = case
      BY <1>1 DEF At
    <2> QED
      BY <1>3, <1>4, <1>7, <2>1, <2>2 DEF Proposed
  <1>9. Expects("verifier")'
    BY <1>4, <1>6, <1>8 DEF Expects, BeforeWrite, PastVerifier, Specialists
  <1> QED
    BY <1>1, <1>2, <1>5, <1>9, Arrive DEF GoTo

\* A valid verdict is a grounded one: a model narrows the baseline, never broadens it.
LEMMA ValidIsGrounded ==
  ASSUME "VALID" \in Assessments, case \in Cases
  PROVE  /\ state.candidate # NoCandidate
         /\ state.evidence.seen = state.selected /\ state.evidence.complete
         /\ state.candidate.evidence = state.evidence.seen
  <1>1. Baseline = "VALID"
    BY DEF Assessments
  <1>2. ~Ungrounded
    BY <1>1 DEF Baseline
  <1>3. FactsVerdict = "VALID"
    BY <1>1, <1>2 DEF Baseline
  <1>4. CandidateVerdict = "VALID"
    BY <1>1, <1>2, <1>3 DEF Baseline
  <1> QED
    BY <1>2, <1>4 DEF Ungrounded, CandidateVerdict

LEMMA VerifierPreKept == ASSUME Typed, Inv, VerifierPre PROVE Inv'
  <1>1. At("verifier") /\ UNCHANGED session /\ state.phase = "PRE"
    BY DEF VerifierPre
  <1>2. /\ Standing /\ Unwritten /\ Proposed
        /\ next = {"verifier"} /\ interrupt = "NONE"
    BY <1>1, Here DEF Expects
  <1>3. CASE Stop(FALSE, FALSE)
    BY <1>1, <1>3, StopKept
  <1> DEFINE base == Counted(FALSE, FALSE)
             verdict(code) == [phase |-> "PRE", code |-> code, plan |-> state.candidate.plan,
                               version |-> state.candidate.version]
             runStatus(code) == IF code \in Clarifications
                                THEN "WAITING_FOR_CLARIFICATION" ELSE base.runStatus
  <1>4. ASSUME May(FALSE, FALSE), NEW code \in Assessments,
               state' = [base EXCEPT !.verdict = verdict(code), !.runStatus = runStatus(code)],
               GoTo(RouteOf(code))
        PROVE  Inv'
    <2>1. /\ base \in WorkflowStates
          /\ base.plan = state.plan /\ base.selected = state.selected
          /\ base.evidence = state.evidence /\ base.requirement = state.requirement
          /\ base.candidate = state.candidate /\ base.phase = state.phase
          /\ base.receipts = state.receipts /\ base.attempted = state.attempted
          /\ base.observation = state.observation /\ base.runStatus = state.runStatus
          /\ base.memory = state.memory /\ base.outcome = state.outcome
      BY <1>4, CountedKeeps, ChargedTyped DEF Typed
    <2> HIDE DEF base, verdict, runStatus
    <2>2. /\ state'.plan = state.plan /\ state'.selected = state.selected
          /\ state'.evidence = state.evidence /\ state'.requirement = state.requirement
          /\ state'.candidate = state.candidate /\ state'.phase = "PRE"
          /\ state'.receipts = state.receipts /\ state'.attempted = state.attempted
          /\ state'.observation = state.observation
          /\ state'.memory = state.memory /\ state'.outcome = state.outcome
          /\ state'.verdict = verdict(code) /\ state'.runStatus = runStatus(code)
      BY <1>1, <1>4, <2>1 DEF WorkflowStates
    <2>3. /\ code \in Clarifications => runStatus(code) = "WAITING_FOR_CLARIFICATION"
          /\ code \notin Clarifications => runStatus(code) = state.runStatus
      BY <2>1 DEF runStatus
    <2>4. Standing'
      BY <1>1, <1>2, <2>2, <2>3, StandingKept
    <2>5. Unwritten' /\ Proposed'
      BY <1>1, <1>2, <2>2 DEF Unwritten, Proposed, session, At
    <2>6. code \in PreActionCodes
      BY AssessmentsTyped DEF Typed, RunTyped
    <2>7. next' = {RouteOf(code)} /\ interrupt' = "NONE"
      BY <1>2, <1>4 DEF GoTo
    <2>8. CASE code = "VALID"
      <3>1. Covered'
        <4>1. /\ state.candidate # NoCandidate
              /\ state.evidence.seen = state.selected /\ state.evidence.complete
              /\ state.candidate.evidence = state.evidence.seen
          BY <2>8, ValidIsGrounded DEF Typed, RunTyped
        <4>2. state.candidate.plan = state.plan
          BY <1>2, <4>1 DEF Proposed
        <4>3. "policy_agent" \in state.evidence.seen
          BY <1>2, <4>1 DEF Standing, Unwritten
        <4>4. state.evidence.complete = TRUE
          BY <4>1 DEF Typed, StateTyped, WorkflowStates, Evidence
        <4>5. /\ verdict(code).phase = "PRE" /\ verdict(code).code = "VALID"
              /\ verdict(code).plan = state.plan
          BY <2>8, <4>2 DEF verdict
        <4> QED
          BY <2>2, <4>1, <4>2, <4>3, <4>4, <4>5 DEF Covered
      <3>2. Expects("action_gate")'
        BY <2>2, <2>5, <3>1 DEF Expects, BeforeWrite, PastVerifier, Specialists
      <3>3. RouteOf(code) = "action_gate"
        BY <2>8 DEF RouteOf
      <3> QED
        BY <2>4, <2>7, <3>2, <3>3, Arrive
    <2>9. CASE code \in Clarifications
      <3>1. Asked'
        <4>1. verdict(code).code = code
          BY DEF verdict
        <4> QED
          BY <2>2, <2>3, <2>9, <4>1 DEF Asked
      <3>2. Expects("clarification")'
        BY <2>2, <2>5, <3>1 DEF Expects, BeforeWrite, PastVerifier, Specialists
      <3>3. RouteOf(code) = "clarification"
        BY <2>9 DEF RouteOf, Clarifications
      <3> QED
        BY <2>4, <2>7, <3>2, <3>3, Arrive
    <2>10. CASE code \in {"REPLAN", "ESCALATE"}
      <3>1. RouteOf(code) \in {"planner", "human_admin_review"}
        BY <2>10 DEF RouteOf
      <3> QED
        BY <2>4, <2>7, <3>1, Arrive, Welcome
    <2> QED
      BY <2>6, <2>8, <2>9, <2>10 DEF PreActionCodes
  <1> QED
    BY <1>3, <1>4 DEF VerifierPre

\* The goal is met only by an effect on the case.
LEMMA GoalIsResolution == ASSUME Typed, Standing, GoalReached PROVE resolved = TRUE
  <1>1. CASE case.kind = "REGISTRATION"
    BY <1>1 DEF GoalReached, Typed, SessionTyped
  <1>2. CASE case.kind # "REGISTRATION"
    <2>1. PICK r \in state.receipts : r.effect
      BY <1>2 DEF GoalReached
    <2>2. r.effect = TRUE
      BY <2>1 DEF Typed, StateTyped, WorkflowStates
    <2> QED
      BY <2>2 DEF Standing
  <1> QED
    BY <1>1, <1>2

LEMMA VerifierPostKept == ASSUME Typed, Inv, VerifierPost PROVE Inv'
  <1>1. At("verifier") /\ UNCHANGED session /\ state.phase = "POST"
    BY DEF VerifierPost
  <1>2. Standing /\ next = {"verifier"} /\ interrupt = "NONE"
    BY <1>1, Here
  <1>3. CASE Stop(FALSE, FALSE)
    BY <1>1, <1>3, StopKept
  <1> DEFINE base == Counted(FALSE, FALSE)
             verdict == [phase |-> "POST",
                         code |-> IF GoalReached THEN "DONE" ELSE "CONTINUE_FAILURE",
                         plan |-> state.candidate.plan, version |-> 0]
             runStatus == IF GoalReached THEN "COMPLETED" ELSE base.runStatus
             met == GoalReached
  <1>4. ASSUME May(FALSE, FALSE),
               state' = [base EXCEPT !.goalMet = met, !.verdict = verdict,
                                     !.runStatus = runStatus],
               next' = IF GoalReached THEN {"memory_updater", "final_response"}
                       ELSE {"planner"},
               UNCHANGED interrupt
        PROVE  Inv'
    <2>1. /\ base \in WorkflowStates
          /\ base.plan = state.plan /\ base.selected = state.selected
          /\ base.evidence = state.evidence /\ base.requirement = state.requirement
          /\ base.receipts = state.receipts /\ base.attempted = state.attempted
          /\ base.observation = state.observation /\ base.runStatus = state.runStatus
          /\ base.memory = state.memory /\ base.outcome = state.outcome
      BY <1>4, CountedKeeps, ChargedTyped DEF Typed
    <2>2. /\ GoalReached => met = TRUE /\ runStatus = "COMPLETED"
          /\ GoalReached => verdict.phase = "POST" /\ verdict.code = "DONE"
          /\ ~GoalReached => runStatus = state.runStatus
      BY <2>1
    <2> HIDE DEF base, verdict, runStatus, met
    <2>3. /\ state'.plan = state.plan /\ state'.selected = state.selected
          /\ state'.evidence = state.evidence /\ state'.requirement = state.requirement
          /\ state'.receipts = state.receipts /\ state'.attempted = state.attempted
          /\ state'.observation = state.observation
          /\ state'.memory = state.memory /\ state'.outcome = state.outcome
          /\ state'.goalMet = met /\ state'.verdict = verdict
          /\ state'.runStatus = runStatus
      BY <1>4, <2>1 DEF WorkflowStates
    <2>4. GoalReached => resolved = TRUE
      BY <1>2, GoalIsResolution
    <2>5. Standing'
      BY <1>1, <1>2, <2>2, <2>3, <2>4, StandingKept
    <2>6. CASE GoalReached
      <3>1. next' = {"memory_updater", "final_response"} /\ interrupt' = "NONE"
        BY <1>2, <1>4, <2>6
      <3>2. Expects("memory_updater")' /\ Expects("final_response")'
        BY <2>2, <2>3, <2>6, <3>1 DEF Expects, BeforeWrite, PastVerifier, Specialists
      <3> QED
        BY <2>5, <3>1, <3>2 DEF Inv, Positional, Interrupted
    <2>7. CASE ~GoalReached
      <3>1. next' = {"planner"} /\ interrupt' = "NONE"
        BY <1>2, <1>4, <2>7
      <3> QED
        BY <2>5, <3>1, Arrive, Welcome
    <2> QED
      BY <2>6, <2>7
  <1> QED
    BY <1>3, <1>4 DEF VerifierPost

\* A pause is saved where the node stands.
LEMMA AskKept ==
  ASSUME Typed, Inv, AskClarification \/ PauseCheckpoint PROVE Inv'
  <1>1. PICK node \in {"clarification", "pause_checkpoint"} :
          /\ At(node) /\ UNCHANGED <<state, next, session>>
          /\ interrupt' = "CLARIFICATION" => node = "clarification"
          /\ interrupt' = "APPROVAL" => node = "pause_checkpoint"
    BY DEF AskClarification, PauseCheckpoint
  <1>2. Standing /\ Expects(node) /\ next = {node}
    BY <1>1, Here
  <1>3. Standing'
    BY <1>1, <1>2, StandingKept
  <1>4. Expects(node)'
    BY <1>1, <1>2 DEF Expects, Unwritten, Proposed, Covered, Granted, Asked, Paused,
                      session, At
  <1> QED
    BY <1>1, <1>2, <1>3, <1>4 DEF Inv, Positional, Interrupted

\* An answer sends the same candidate back to the verifier, or starts a new plan.
LEMMA AnswerKept == ASSUME Typed, Inv, ResumeClarification PROVE Inv'
  <1>1. /\ interrupt = "CLARIFICATION" /\ interrupt' = "NONE"
        /\ UNCHANGED <<case, session>>
    BY DEF ResumeClarification, ReRun
  <1>2. Standing /\ next = {"clarification"} /\ Expects("clarification")
    BY <1>1 DEF Inv, Interrupted, Positional
  <1>3. Unwritten /\ Proposed /\ state.phase = "PRE"
    BY <1>2 DEF Expects, BeforeWrite
  <1>4. CASE ~May(FALSE, FALSE)
    <2>1. UNCHANGED state /\ next' = {"human_admin_review"}
      BY <1>4 DEF ResumeClarification
    <2>2. Standing'
      BY <1>1, <1>2, <2>1, StandingKept
    <2> QED
      BY <1>1, <2>1, <2>2, Arrive, Welcome
  <1> DEFINE base == Counted(FALSE, FALSE)
  <1>5. CASE May(FALSE, FALSE)
    <2>1. /\ base \in WorkflowStates
          /\ base.plan = state.plan /\ base.selected = state.selected
          /\ base.evidence = state.evidence /\ base.requirement = state.requirement
          /\ base.candidate = state.candidate /\ base.phase = state.phase
          /\ base.receipts = state.receipts /\ base.attempted = state.attempted
          /\ base.observation = state.observation
          /\ base.memory = state.memory /\ base.outcome = state.outcome
      BY <1>5, CountedKeeps, ChargedTyped DEF Typed
    <2>2. state' = [base EXCEPT !.unresolved = FALSE, !.runStatus = "RUNNING"]
      BY <1>5 DEF ResumeClarification
    <2> HIDE DEF base
    <2>3. /\ state'.plan = state.plan /\ state'.selected = state.selected
          /\ state'.evidence = state.evidence /\ state'.requirement = state.requirement
          /\ state'.candidate = state.candidate /\ state'.phase = "PRE"
          /\ state'.receipts = state.receipts /\ state'.attempted = state.attempted
          /\ state'.observation = state.observation /\ state'.runStatus = "RUNNING"
          /\ state'.memory = state.memory /\ state'.outcome = state.outcome
      BY <1>3, <2>1, <2>2 DEF WorkflowStates
    <2>4. Standing'
      BY <1>1, <1>2, <2>3, StandingKept
    <2>5. Unwritten' /\ Proposed'
      BY <1>1, <1>3, <2>3 DEF Unwritten, Proposed, session
    <2>6. Expects("verifier")'
      BY <2>3, <2>5 DEF Expects, BeforeWrite, PastVerifier, Specialists
    <2>7. next' = {"verifier"} \/ next' = {"planner"}
      BY <1>5 DEF ResumeClarification
    <2> QED
      BY <1>1, <2>4, <2>6, <2>7, Arrive, Welcome
  <1> QED
    BY <1>4, <1>5

\* A candidate the gate lets through without an approval needs none: its
\* evidence is complete, so the requirement it was checked against is the session's.
LEMMA GateKept == ASSUME Typed, Inv, ActionGate PROVE Inv'
  <1>1. At("action_gate") /\ UNCHANGED session
    BY DEF ActionGate
  <1>2. Standing /\ Expects("action_gate") /\ next = {"action_gate"} /\ interrupt = "NONE"
    BY <1>1, Here
  <1>3. Unwritten /\ Proposed /\ Covered /\ state.phase = "PRE"
    BY <1>2 DEF Expects, BeforeWrite, PastVerifier
  <1>4. CASE Stop(FALSE, FALSE)
    BY <1>1, <1>4, StopKept
  <1> DEFINE base == Counted(FALSE, FALSE)
  <1>5. ASSUME state' = base,
               GoTo(IF GateMismatch THEN "human_admin_review"
                    ELSE IF state.candidate.approval THEN "human_approval"
                    ELSE "transaction")
        PROVE  Inv'
    <2>1. /\ base.plan = state.plan /\ base.selected = state.selected
          /\ base.evidence = state.evidence /\ base.requirement = state.requirement
          /\ base.candidate = state.candidate /\ base.phase = state.phase
          /\ base.verdict = state.verdict
          /\ base.receipts = state.receipts /\ base.attempted = state.attempted
          /\ base.observation = state.observation /\ base.runStatus = state.runStatus
          /\ base.memory = state.memory /\ base.outcome = state.outcome
      BY CountedKeeps DEF Typed
    <2> HIDE DEF base
    <2>2. Standing'
      BY <1>1, <1>2, <1>5, <2>1, StandingKept
    <2>3. Unwritten' /\ Proposed' /\ Covered' /\ state'.phase = "PRE"
      BY <1>1, <1>3, <1>5, <2>1 DEF Unwritten, Proposed, Covered, session, At
    <2>4. interrupt' = "NONE"
      BY <1>2, <1>5 DEF GoTo
    <2>5. state.candidate.approval \in BOOLEAN
      BY DEF Typed, StateTyped, WorkflowStates, Candidates
    <2>6. CASE GateMismatch
      BY <1>5, <2>2, <2>4, <2>6, Arrive, Welcome DEF GoTo
    <2>7. CASE ~GateMismatch /\ state.candidate.approval = TRUE
      <3>1. Expects("human_approval")'
        BY <1>5, <2>1, <2>3, <2>7 DEF Expects, BeforeWrite, PastVerifier, Specialists
      <3> QED
        BY <1>5, <2>2, <2>4, <2>7, <3>1, Arrive DEF GoTo
    <2>8. CASE ~GateMismatch /\ state.candidate.approval = FALSE
      <3>1. state.requirement.required = protected
        BY <1>2, <1>3 DEF Standing, Covered
      <3>2. protected = FALSE
        BY <2>8, <3>1 DEF GateMismatch
      <3>3. Granted'
        BY <1>1, <3>2 DEF Granted, session
      <3>4. Expects("transaction")'
        BY <2>3, <3>3 DEF Expects, BeforeWrite, PastVerifier, Specialists
      <3> QED
        BY <1>5, <2>2, <2>4, <2>8, <3>4, Arrive DEF GoTo
    <2> QED
      BY <2>5, <2>6, <2>7, <2>8
  <1> QED
    BY <1>4, <1>5 DEF ActionGate

\* What following a decision does to the checkpoint, and where it leads.
LEMMA FollowOutcome ==
  ASSUME NEW base \in WorkflowStates, NEW version \in Nat,
         NEW status \in {"ABSENT", "PENDING", "APPROVED", "REJECTED"},
         protected \in BOOLEAN, Follow(base, status, version)
  PROVE  /\ state'.plan = base.plan /\ state'.selected = base.selected
         /\ state'.evidence = base.evidence /\ state'.phase = base.phase
         /\ state'.verdict = base.verdict /\ state'.receipts = base.receipts
         /\ state'.attempted = base.attempted /\ state'.observation = base.observation
         /\ state'.memory = base.memory /\ state'.outcome = base.outcome
         /\ state'.requirement.required = protected
         /\ state'.runStatus \in {base.runStatus, "RUNNING", "WAITING_FOR_APPROVAL"}
         /\ state'.candidate.plan = base.candidate.plan
         /\ state'.candidate.approval = base.candidate.approval
         /\ state'.candidate.offering = base.candidate.offering
         /\ state'.candidate.evidence = base.candidate.evidence
         /\ interrupt' = interrupt
         /\ \/ /\ next' = {"transaction"} /\ status = "APPROVED"
               /\ state'.candidate.version = version
            \/ next' = {"planner"}
            \/ /\ next' = {"pause_checkpoint"}
               /\ state'.runStatus = "WAITING_FOR_APPROVAL" /\ state'.pauseVersion = version
  <1> DEFINE requirement == Requirement(version)
             response == Visible(status)
             seen == [base EXCEPT !.requirement = requirement, !.response = response]
             candidate == [seen.candidate EXCEPT !.version = version]
  <1>1. requirement.required = protected
    BY DEF Requirement, NoRequirement
  <1>2. response = "APPROVED" => status = "APPROVED"
    BY DEF Visible
  <1> HIDE DEF requirement, response
  <1>3. /\ seen.plan = base.plan /\ seen.selected = base.selected
        /\ seen.evidence = base.evidence /\ seen.phase = base.phase
        /\ seen.verdict = base.verdict /\ seen.receipts = base.receipts
        /\ seen.attempted = base.attempted /\ seen.observation = base.observation
        /\ seen.memory = base.memory /\ seen.outcome = base.outcome
        /\ seen.requirement = requirement /\ seen.runStatus = base.runStatus
        /\ seen.candidate = base.candidate
        /\ DOMAIN seen = DOMAIN base
    BY DEF WorkflowStates
  <1>4. base.candidate \in Candidates
    BY DEF WorkflowStates
  <1>5. /\ candidate.plan = base.candidate.plan /\ candidate.version = version
        /\ candidate.approval = base.candidate.approval
        /\ candidate.offering = base.candidate.offering
        /\ candidate.evidence = base.candidate.evidence
    BY <1>3, <1>4 DEF Candidates
  <1>6. \/ /\ response = "APPROVED" /\ GoTo("transaction")
           /\ state' = [seen EXCEPT !.candidate = candidate, !.runStatus = "RUNNING"]
        \/ /\ GoTo("planner") /\ state' = seen
        \/ /\ GoTo("pause_checkpoint")
           /\ state' = [seen EXCEPT !.pauseVersion = version,
                                    !.runStatus = "WAITING_FOR_APPROVAL"]
    BY DEF Follow, PauseFor, requirement, response
  <1>7. DOMAIN seen = DOMAIN base
    BY <1>3
  <1> HIDE DEF seen, candidate
  <1>8. CASE response = "APPROVED" /\ GoTo("transaction")
             /\ state' = [seen EXCEPT !.candidate = candidate, !.runStatus = "RUNNING"]
    BY <1>1, <1>2, <1>3, <1>5, <1>7, <1>8 DEF GoTo, WorkflowStates
  <1>9. CASE GoTo("planner") /\ state' = seen
    BY <1>1, <1>3, <1>9 DEF GoTo
  <1>10. CASE /\ GoTo("pause_checkpoint")
              /\ state' = [seen EXCEPT !.pauseVersion = version,
                                       !.runStatus = "WAITING_FOR_APPROVAL"]
    BY <1>1, <1>3, <1>7, <1>10 DEF GoTo, WorkflowStates
  <1> QED
    BY <1>6, <1>8, <1>9, <1>10

\* The node that asks for the approval: what it follows is the session's own
\* decision and version, after its request if it made one.
LEMMA FollowKept ==
  ASSUME Typed, Inv, At("human_approval"),
         SessionTyped', protected' = protected, resolved' = resolved,
         decision' = decision \/ decision = "ABSENT",
         NEW base \in WorkflowStates,
         base.plan = state.plan, base.selected = state.selected,
         base.evidence = state.evidence, base.phase = state.phase,
         base.verdict = state.verdict, base.attempted = state.attempted,
         base.observation = state.observation, base.runStatus = state.runStatus,
         base.memory = state.memory, base.outcome = state.outcome,
         base.candidate = state.candidate,
         used' = {r.key : r \in base.receipts},
         \A k \in used' : k <= state.plan, state.plan \notin used',
         \A r \in base.receipts : r.effect = TRUE => resolved = TRUE,
         Follow(base, decision', approvalVersion')
  PROVE  Inv'
  <1>1. /\ Standing /\ Expects("human_approval")
        /\ next = {"human_approval"} /\ interrupt = "NONE"
    BY Here
  <1>2. /\ Unwritten /\ Proposed /\ Covered /\ state.phase = "PRE"
        /\ state.candidate.approval = TRUE
    BY <1>1 DEF Expects, BeforeWrite, PastVerifier
  <1>3. protected \in BOOLEAN /\ case' = case
    BY DEF Typed, SessionTyped, At
  <1>4. /\ approvalVersion' \in Nat
        /\ decision' \in {"ABSENT", "PENDING", "APPROVED", "REJECTED"}
    BY DEF SessionTyped
  <1>5. /\ state'.plan = base.plan /\ state'.selected = base.selected
        /\ state'.evidence = base.evidence /\ state'.phase = base.phase
        /\ state'.verdict = base.verdict /\ state'.receipts = base.receipts
        /\ state'.attempted = base.attempted /\ state'.observation = base.observation
        /\ state'.memory = base.memory /\ state'.outcome = base.outcome
        /\ state'.requirement.required = protected
        /\ state'.runStatus \in {base.runStatus, "RUNNING", "WAITING_FOR_APPROVAL"}
        /\ state'.candidate.plan = base.candidate.plan
        /\ state'.candidate.approval = base.candidate.approval
        /\ state'.candidate.offering = base.candidate.offering
        /\ state'.candidate.evidence = base.candidate.evidence
        /\ interrupt' = interrupt
        /\ \/ /\ next' = {"transaction"} /\ decision' = "APPROVED"
              /\ state'.candidate.version = approvalVersion'
           \/ next' = {"planner"}
           \/ /\ next' = {"pause_checkpoint"}
              /\ state'.runStatus = "WAITING_FOR_APPROVAL"
              /\ state'.pauseVersion = approvalVersion'
    BY <1>3, <1>4, FollowOutcome
  <1>6. Standing'
    BY <1>1, <1>3, <1>5 DEF Standing
  <1>7. Unwritten'
    BY <1>2, <1>5 DEF Unwritten
  <1>8. Covered'
    BY <1>2, <1>5 DEF Covered
  <1>9. Proposed'
    <2>1. state.candidate # NoCandidate
      BY <1>2 DEF Covered, Unwritten, NoCandidate
    <2> QED
      BY <1>2, <1>3, <1>5, <2>1 DEF Proposed
  <1>10. state'.phase = "PRE" /\ state'.candidate.approval = TRUE
    BY <1>2, <1>5
  <1>11. CASE /\ next' = {"transaction"} /\ decision' = "APPROVED"
              /\ state'.candidate.version = approvalVersion'
    <2>1. Expects("transaction")'
      BY <1>7, <1>8, <1>9, <1>10, <1>11
         DEF Expects, Granted, BeforeWrite, PastVerifier, Specialists
    <2> QED
      BY <1>1, <1>5, <1>6, <1>11, <2>1, Arrive
  <1>12. CASE next' = {"planner"}
    BY <1>1, <1>5, <1>6, <1>12, Arrive, Welcome
  <1>13. CASE /\ next' = {"pause_checkpoint"}
              /\ state'.runStatus = "WAITING_FOR_APPROVAL"
              /\ state'.pauseVersion = approvalVersion'
    <2>1. Expects("pause_checkpoint")'
      BY <1>7, <1>8, <1>9, <1>10, <1>13
         DEF Expects, Paused, BeforeWrite, PastVerifier, Specialists
    <2> QED
      BY <1>1, <1>5, <1>6, <1>13, <2>1, Arrive
  <1> QED
    BY <1>5, <1>11, <1>12, <1>13

\* A receipt is filed for the key just spent.
LEMMA Filed ==
  ASSUME NEW base \in WorkflowStates, NEW key \in Keys, NEW effect \in BOOLEAN
  PROVE  LET updated == WithReceipt(base, key, effect) IN
         /\ updated \in WorkflowStates
         /\ updated.receipts = base.receipts \cup {[key |-> key, effect |-> effect]}
         /\ {r.key : r \in updated.receipts} = {r.key : r \in base.receipts} \cup {key}
         /\ updated.plan = base.plan /\ updated.selected = base.selected
         /\ updated.evidence = base.evidence /\ updated.phase = base.phase
         /\ updated.verdict = base.verdict /\ updated.attempted = base.attempted
         /\ updated.observation = base.observation /\ updated.runStatus = base.runStatus
         /\ updated.memory = base.memory /\ updated.outcome = base.outcome
         /\ updated.candidate = base.candidate /\ updated.requirement = base.requirement
  <1> DEFINE updated == WithReceipt(base, key, effect)
             receipts == base.receipts \cup {[key |-> key, effect |-> effect]}
  <1>1. {r.key : r \in receipts} = {r.key : r \in base.receipts} \cup {key}
    <2> DEFINE receipt == [key |-> key, effect |-> effect]
    <2>1. receipt.key = key
      OBVIOUS
    <2>2. receipts = base.receipts \cup {receipt}
      OBVIOUS
    <2> HIDE DEF receipt, receipts
    <2>3. ASSUME NEW k PROVE k \in {r.key : r \in receipts} <=>
                             k \in {r.key : r \in base.receipts} \cup {key}
      BY <2>1, <2>2
    <2> QED
      BY <2>3
  <1>2. receipts \in SUBSET [key : Keys, effect : BOOLEAN]
    BY DEF WorkflowStates
  <1>3. updated = [base EXCEPT !.receipts = receipts]
    BY DEF WithReceipt
  <1> HIDE DEF updated, receipts
  <1>4. updated.receipts = receipts /\ updated \in WorkflowStates
    BY <1>2, <1>3 DEF WorkflowStates
  <1>5. /\ updated.plan = base.plan /\ updated.selected = base.selected
        /\ updated.evidence = base.evidence /\ updated.phase = base.phase
        /\ updated.verdict = base.verdict /\ updated.attempted = base.attempted
        /\ updated.observation = base.observation /\ updated.runStatus = base.runStatus
        /\ updated.memory = base.memory /\ updated.outcome = base.outcome
        /\ updated.candidate = base.candidate /\ updated.requirement = base.requirement
    BY <1>3 DEF WorkflowStates
  <1> QED
    BY <1>1, <1>4, <1>5 DEF updated, receipts

LEMMA ApprovalKept == ASSUME Typed, Inv, SessionTyped', HumanApproval PROVE Inv'
  <1>1. At("human_approval")
    BY DEF HumanApproval
  <1>2. /\ Standing /\ Expects("human_approval")
        /\ next = {"human_approval"} /\ interrupt = "NONE"
    BY <1>1, Here
  <1>3. Unwritten
    BY <1>2 DEF Expects, BeforeWrite
  <1>4. CASE Stop(FALSE, FALSE)
    BY <1>1, <1>4, StopKept DEF Stop
  <1> DEFINE base == Counted(FALSE, FALSE)
             updated == WithReceipt(base, ApprovalKey, FALSE)
  <1>5. ASSUME May(FALSE, FALSE)
        PROVE  /\ base \in WorkflowStates
               /\ base.plan = state.plan /\ base.selected = state.selected
               /\ base.evidence = state.evidence /\ base.requirement = state.requirement
               /\ base.candidate = state.candidate /\ base.phase = state.phase
               /\ base.verdict = state.verdict /\ base.receipts = state.receipts
               /\ base.attempted = state.attempted /\ base.observation = state.observation
               /\ base.runStatus = state.runStatus
               /\ base.memory = state.memory /\ base.outcome = state.outcome
    BY <1>5, CountedKeeps, ChargedTyped DEF Typed
  <1>6. CASE Escalate(FALSE, FALSE) /\ UNCHANGED session
    BY <1>1, <1>6, EscalateKept
  <1>7. CASE May(FALSE, FALSE) /\ UNCHANGED session
             /\ Follow(base, decision, approvalVersion)
    <2>1. /\ decision' = decision /\ approvalVersion' = approvalVersion
          /\ protected' = protected /\ resolved' = resolved /\ used' = used
      BY <1>7 DEF session
    <2>2. Follow(base, decision', approvalVersion')
      BY <1>7, <2>1
    <2> HIDE DEF base
    <2> QED
      BY <1>1, <1>2, <1>3, <1>5, <1>7, <2>1, <2>2, FollowKept DEF Standing, Unwritten
  <1>8. CASE /\ May(FALSE, FALSE) /\ RequestApproval
             /\ \/ Follow(updated, decision', approvalVersion')
                \/ state' = updated /\ GoTo("human_admin_review")
    <2>1. /\ used' = used \cup {ApprovalKey}
          /\ protected' = protected /\ resolved' = resolved
          /\ decision' = decision \/ decision = "ABSENT"
      BY <1>8 DEF RequestApproval, Ledger!Attempt
    <2>2. ApprovalKey \in Keys /\ ApprovalKey = 0 /\ FALSE \in BOOLEAN
      BY ControlPlaneAssumption DEF Keys, ApprovalKey
    <2> HIDE DEF base
    <2>3. /\ updated \in WorkflowStates
          /\ updated.receipts = base.receipts \cup {[key |-> ApprovalKey, effect |-> FALSE]}
          /\ {r.key : r \in updated.receipts} = {r.key : r \in base.receipts} \cup {ApprovalKey}
          /\ updated.plan = base.plan /\ updated.selected = base.selected
          /\ updated.evidence = base.evidence /\ updated.phase = base.phase
          /\ updated.verdict = base.verdict /\ updated.attempted = base.attempted
          /\ updated.observation = base.observation /\ updated.runStatus = base.runStatus
          /\ updated.memory = base.memory /\ updated.outcome = base.outcome
          /\ updated.candidate = base.candidate /\ updated.requirement = base.requirement
      BY ZenonT(60), <1>5, <1>8, <2>2, Filed
    <2> HIDE DEF updated
    <2>4. used' = {r.key : r \in updated.receipts}
      BY <1>2, <1>5, <1>8, <2>1, <2>3 DEF Standing
    <2>5. state.plan \in Nat
      BY DEF Typed, StateTyped, WorkflowStates
    <2>6. (\A k \in used' : k <= state.plan) /\ state.plan \notin used'
      BY <1>2, <1>3, <2>1, <2>2, <2>5 DEF Standing, Unwritten
    <2>7. \A r \in updated.receipts : r.effect = TRUE => resolved = TRUE
      <3>1. [key |-> ApprovalKey, effect |-> FALSE].effect = FALSE
        OBVIOUS
      <3> DEFINE receipt == [key |-> ApprovalKey, effect |-> FALSE]
      <3>2. updated.receipts = state.receipts \cup {receipt} /\ receipt.effect = FALSE
        BY <1>5, <1>8, <2>3, <3>1
      <3> HIDE DEF receipt
      <3> QED
        BY <1>2, <3>2 DEF Standing
    <2>8. CASE Follow(updated, decision', approvalVersion')
      BY <1>1, <1>5, <1>8, <2>1, <2>3, <2>4, <2>6, <2>7, <2>8, FollowKept
    <2>9. CASE state' = updated /\ GoTo("human_admin_review")
      <3>1. Standing'
        BY <1>2, <1>5, <1>8, <2>1, <2>3, <2>4, <2>6, <2>7, <2>9 DEF Standing, GoTo
      <3> QED
        BY <1>2, <2>9, <3>1, Arrive, Welcome DEF GoTo
    <2> QED
      BY <1>8, <2>8, <2>9
  <1> QED
    BY <1>4, <1>6, <1>7, <1>8 DEF HumanApproval

\* Whatever the client claims, the pause only leads back to the session's decision.
LEMMA ClaimKept == ASSUME Typed, Inv, ResumeApproval PROVE Inv'
  <1>1. /\ interrupt = "APPROVAL" /\ interrupt' = "NONE" /\ next' = {"human_approval"}
        /\ UNCHANGED <<case, session>>
    BY DEF ResumeApproval, ReRun
  <1>2. Standing /\ next = {"pause_checkpoint"} /\ Expects("pause_checkpoint")
    BY <1>1 DEF Inv, Interrupted, Positional
  <1>3. /\ Unwritten /\ Proposed /\ Covered /\ state.phase = "PRE"
        /\ state.candidate.approval = TRUE
    BY <1>2 DEF Expects, BeforeWrite, PastVerifier
  <1>4. PICK claim \in {"PENDING", "APPROVED", "REJECTED"} :
          state' = [state EXCEPT !.response = claim, !.runStatus = "RUNNING"]
    BY DEF ResumeApproval
  <1>5. /\ state'.plan = state.plan /\ state'.selected = state.selected
        /\ state'.evidence = state.evidence /\ state'.requirement = state.requirement
        /\ state'.candidate = state.candidate /\ state'.phase = state.phase
        /\ state'.verdict = state.verdict
        /\ state'.receipts = state.receipts /\ state'.attempted = state.attempted
        /\ state'.observation = state.observation /\ state'.runStatus = "RUNNING"
        /\ state'.memory = state.memory /\ state'.outcome = state.outcome
    BY <1>4 DEF Typed, StateTyped, WorkflowStates
  <1>6. Standing'
    BY <1>1, <1>2, <1>5, StandingKept
  <1>7. Unwritten' /\ Proposed' /\ Covered'
    BY <1>1, <1>3, <1>5 DEF Unwritten, Proposed, Covered, session
  <1>8. Expects("human_approval")'
    BY <1>3, <1>5, <1>7 DEF Expects, BeforeWrite, PastVerifier, Specialists
  <1> QED
    BY <1>1, <1>6, <1>8, Arrive

\* The write spends the key of the plan, with or without an effect.
LEMMA TransactionKept == ASSUME Typed, Inv, Transaction PROVE Inv'
  <1>1. At("transaction")
    BY DEF Transaction
  <1>2. /\ Standing /\ Expects("transaction")
        /\ next = {"transaction"} /\ interrupt = "NONE"
    BY <1>1, Here
  <1>3. Unwritten /\ Covered /\ state.candidate.plan = state.plan
    BY <1>2 DEF Expects, BeforeWrite, PastVerifier, Covered
  <1>4. CASE Stop(FALSE, FALSE)
    BY <1>1, <1>4, StopKept DEF Stop
  <1> DEFINE base == Counted(FALSE, FALSE)
             key == state.candidate.plan
  <1>5. ASSUME May(FALSE, FALSE)
        PROVE  /\ base \in WorkflowStates
               /\ base.plan = state.plan /\ base.selected = state.selected
               /\ base.evidence = state.evidence /\ base.requirement = state.requirement
               /\ base.candidate = state.candidate /\ base.receipts = state.receipts
               /\ base.observation = state.observation /\ base.runStatus = state.runStatus
               /\ base.memory = state.memory /\ base.outcome = state.outcome
    BY <1>5, CountedKeeps, ChargedTyped DEF Typed
  <1>6. CASE Escalate(FALSE, FALSE) /\ UNCHANGED session
    BY <1>1, <1>6, EscalateKept
  <1>7. state.plan \in Nat /\ key \in Keys /\ resolved \in BOOLEAN
    BY PlanIsKey DEF Typed, SessionTyped, StateTyped, WorkflowStates
  \* A report of what the session holds keeps what stands.
  <1>8. ASSUME NEW updated \in WorkflowStates, NEW result \in {"RETRYABLE", "FINAL"},
               Reported(updated, result), protected' = protected,
               updated.plan = state.plan, updated.selected = state.selected,
               updated.evidence = state.evidence, updated.requirement = state.requirement,
               updated.candidate = state.candidate,
               updated.observation = state.observation,
               updated.runStatus = state.runStatus,
               updated.memory = state.memory, updated.outcome = state.outcome,
               used' = {r.key : r \in updated.receipts},
               \A k \in used' : k <= state.plan,
               \A r \in updated.receipts : r.effect = TRUE => resolved' = TRUE,
               resolved = TRUE => resolved' = TRUE,
               resolved' = TRUE /\ protected = TRUE => decision' = "APPROVED"
        PROVE  Inv'
    <2> DEFINE attempted == updated.attempted \cup ({state.candidate.offering} \ {NoOffering})
    <2>1. /\ state' = [updated EXCEPT !.result = result, !.attempted = attempted]
          /\ next' = {"observation"} /\ interrupt' = "NONE"
      BY <1>2, <1>8 DEF Reported, GoTo
    <2> HIDE DEF attempted
    <2>2. /\ state'.plan = state.plan /\ state'.selected = state.selected
          /\ state'.evidence = state.evidence /\ state'.requirement = state.requirement
          /\ state'.candidate = state.candidate /\ state'.result = result
          /\ state'.receipts = updated.receipts
          /\ state'.observation = state.observation
          /\ state'.runStatus = state.runStatus
          /\ state'.memory = state.memory /\ state'.outcome = state.outcome
      BY <1>8, <2>1 DEF WorkflowStates
    <2>3. Standing'
      BY <1>2, <1>8, <2>1, <2>2 DEF Standing
    <2>4. Expects("observation")'
      BY <1>3, <1>8, <2>2 DEF Unwritten, Expects, BeforeWrite, PastVerifier, Specialists
    <2> QED
      BY <2>1, <2>3, <2>4, Arrive
  <1>9. CASE /\ May(FALSE, FALSE) /\ UNCHANGED session
             /\ \E result \in {"RETRYABLE", "FINAL"} : Reported(base, result)
    <2>1. PICK result \in {"RETRYABLE", "FINAL"} : Reported(base, result)
      BY <1>9
    <2>2. /\ protected' = protected /\ used' = used /\ resolved' = resolved
          /\ decision' = decision
      BY <1>9 DEF session
    <2> HIDE DEF base
    <2> QED
      BY <1>2, <1>5, <1>8, <1>9, <2>1, <2>2 DEF Standing
  \* Filing the receipt of the key spent.
  <1>10. ASSUME May(FALSE, FALSE), NEW effect \in BOOLEAN,
                NEW result \in {"RETRYABLE", "FINAL"},
                Reported(WithReceipt(base, key, effect), result),
                protected' = protected, used' = used \cup {key},
                effect = TRUE => resolved' = TRUE, resolved = TRUE => resolved' = TRUE,
                resolved' = TRUE /\ protected = TRUE => decision' = "APPROVED"
         PROVE  Inv'
    <2> DEFINE updated == WithReceipt(base, key, effect)
               receipt == [key |-> key, effect |-> effect]
    <2> HIDE DEF base, key
    <2>1. /\ updated \in WorkflowStates
          /\ updated.receipts = base.receipts \cup {receipt}
          /\ {r.key : r \in updated.receipts} = {r.key : r \in base.receipts} \cup {key}
          /\ updated.plan = base.plan /\ updated.selected = base.selected
          /\ updated.evidence = base.evidence
          /\ updated.observation = base.observation /\ updated.runStatus = base.runStatus
          /\ updated.memory = base.memory /\ updated.outcome = base.outcome
          /\ updated.candidate = base.candidate /\ updated.requirement = base.requirement
      BY <1>5, <1>7, <1>10, Filed
    <2>2. receipt.effect = effect
      OBVIOUS
    <2>3. Reported(updated, result)
      BY <1>10
    <2> HIDE DEF updated, receipt
    <2>4. used' = {r.key : r \in updated.receipts}
      BY <1>2, <1>5, <1>10, <2>1 DEF Standing
    <2>5. \A k \in used' : k <= state.plan
      BY <1>2, <1>3, <1>7, <1>10 DEF Standing, key
    <2>6. \A r \in updated.receipts : r.effect = TRUE => resolved' = TRUE
      BY <1>2, <1>5, <1>10, <2>1, <2>2 DEF Standing
    <2> QED
      BY <1>5, <1>8, <1>10, <2>1, <2>3, <2>4, <2>5, <2>6
  <1>11. CASE /\ May(FALSE, FALSE) /\ UNCHANGED <<decision, approvalVersion>>
              /\ Ledger!Attempt(key)
              /\ \E result \in {"RETRYABLE", "FINAL"} :
                   Reported(WithReceipt(base, key, FALSE), result)
    <2>1. PICK result \in {"RETRYABLE", "FINAL"} :
            Reported(WithReceipt(base, key, FALSE), result)
      BY <1>11
    <2>2. /\ protected' = protected /\ used' = used \cup {key} /\ resolved' = resolved
          /\ decision' = decision
      BY <1>11 DEF Ledger!Attempt
    <2>3. resolved' = TRUE /\ protected = TRUE => decision' = "APPROVED"
      BY <1>2, <2>2 DEF Standing
    <2> HIDE DEF base, key
    <2> QED
      BY <1>10, <1>11, <2>1, <2>2, <2>3
  <1>12. CASE /\ May(FALSE, FALSE) /\ Ledger!Effect(key)
              /\ Reported(WithReceipt(base, key, TRUE), "FINAL")
    <2>1. /\ protected' = protected /\ used' = used \cup {key} /\ resolved' = TRUE
          /\ decision' = decision
          /\ protected = TRUE => decision = "APPROVED"
      BY <1>12 DEF Ledger!Effect, Typed, SessionTyped
    <2> HIDE DEF base, key
    <2> QED
      BY <1>10, <1>12, <2>1
  <1> QED
    BY <1>4, <1>6, <1>9, <1>11, <1>12 DEF Transaction

LEMMA ObservationKept == ASSUME Typed, Inv, Observation PROVE Inv'
  <1>1. At("observation") /\ UNCHANGED session /\ GoTo("verifier")
    BY DEF Observation
  <1>2. /\ Standing /\ next = {"observation"} /\ interrupt = "NONE"
        /\ state.candidate.plan # 0 /\ state.result # "NONE"
    BY <1>1, Here DEF Expects
  <1>3. /\ state'.plan = state.plan /\ state'.selected = state.selected
        /\ state'.evidence = state.evidence /\ state'.requirement = state.requirement
        /\ state'.candidate = state.candidate /\ state'.phase = "POST"
        /\ state'.receipts = state.receipts /\ state'.attempted = state.attempted
        /\ state'.observation = state.result /\ state'.runStatus = state.runStatus
        /\ state'.memory = state.memory /\ state'.outcome = state.outcome
    BY DEF Observation, Typed, StateTyped, WorkflowStates
  <1>4. Standing'
    BY <1>1, <1>2, <1>3 DEF Standing, session
  <1>5. Expects("verifier")'
    BY <1>2, <1>3 DEF Expects, BeforeWrite, PastVerifier, Specialists
  <1> QED
    BY <1>1, <1>2, <1>4, <1>5, Arrive DEF GoTo

LEMMA ReviewKept == ASSUME Typed, Inv, HumanAdminReview PROVE Inv'
  <1>1. At("human_admin_review") /\ UNCHANGED session /\ GoTo("final_response")
    BY DEF HumanAdminReview
  <1>2. Standing /\ next = {"human_admin_review"} /\ interrupt = "NONE"
    BY <1>1, Here
  <1>3. PICK counters :
          state' = [state EXCEPT !.counters = counters, !.runStatus = "ESCALATED"]
    BY DEF HumanAdminReview
  <1>4. /\ state'.plan = state.plan /\ state'.selected = state.selected
        /\ state'.evidence = state.evidence /\ state'.requirement = state.requirement
        /\ state'.receipts = state.receipts /\ state'.attempted = state.attempted
        /\ state'.observation = state.observation /\ state'.runStatus = "ESCALATED"
        /\ state'.memory = state.memory /\ state'.outcome = state.outcome
    BY <1>3 DEF Typed, StateTyped, WorkflowStates
  <1>5. Standing'
    BY <1>1, <1>2, <1>4, StandingKept
  <1>6. Expects("final_response")'
    BY <1>4 DEF Expects, BeforeWrite, PastVerifier, Specialists
  <1> QED
    BY <1>1, <1>2, <1>5, <1>6, Arrive DEF GoTo

\* The run ends: with a handoff, or done, which its verdict has earned.
LEMMA EndKept == ASSUME Typed, Inv, FinalResponse \/ Done PROVE Inv'
  <1>1. UNCHANGED session /\ next' = {} /\ UNCHANGED interrupt
    BY DEF FinalResponse, Done
  <1>2. Standing /\ "observation" \notin next /\ interrupt = "NONE"
    BY DEF FinalResponse, Done, At, Inv, Interrupted, Typed, RunTyped
  <1>3. CASE FinalResponse
    <2>1. state' = [state EXCEPT !.outcome = "ADMIN_HANDOFF"]
      BY <1>3 DEF FinalResponse
    <2>2. Standing'
      BY <1>1, <1>2, <2>1, StandingKept DEF Typed, StateTyped, WorkflowStates
    <2> QED
      BY <1>1, <1>2, <2>2 DEF Inv, Positional, Interrupted
  <1>4. CASE Done
    <2>1. state.runStatus = "COMPLETED"
      BY <1>4 DEF Done, Inv, Positional, Expects
    <2>2. resolved = TRUE
      BY <1>2, <2>1 DEF Standing
    <2>3. PICK stored \in {"STORED", "NOT_STORED"} :
            state' = [state EXCEPT !.memory = stored, !.outcome = "DONE"]
      BY <1>4 DEF Done
    <2>4. /\ state'.plan = state.plan /\ state'.selected = state.selected
          /\ state'.evidence = state.evidence /\ state'.requirement = state.requirement
          /\ state'.receipts = state.receipts /\ state'.attempted = state.attempted
          /\ state'.observation = state.observation /\ state'.runStatus = state.runStatus
      BY <2>3 DEF Typed, StateTyped, WorkflowStates
    <2>5. Standing'
      BY <1>1, <1>2, <2>2, <2>4, StandingKept
    <2> QED
      BY <1>1, <1>2, <2>5 DEF Inv, Positional, Interrupted
  <1> QED
    BY <1>3, <1>4

\* A decision that comes later than the pause finds no candidate past the write's
\* door in a protected case, and never changes one already made.
LEMMA DecisionKept == ASSUME Typed, Inv, HumanDecides PROVE Inv'
  <1>1. /\ decision = "PENDING" /\ decision' \in {"APPROVED", "REJECTED"}
        /\ UNCHANGED <<protected, used, resolved, case, state, next, interrupt>>
    BY DEF HumanDecides, Ledger!Decide
  <1>2. Standing'
    BY <1>1 DEF Inv, Standing
  <1>3. ASSUME NEW node \in next PROVE Expects(node)'
    <2>1. Expects(node)
      BY DEF Inv, Positional
    <2>2. Granted => protected # TRUE
      BY <1>1 DEF Granted
    <2> QED
      BY <1>1, <2>1, <2>2 DEF Expects, Unwritten, Proposed, Covered, Granted, Asked, Paused
  <1> QED
    BY <1>1, <1>2, <1>3 DEF Inv, Positional, Interrupted

LEMMA StepKeepsInv == Typed /\ Inv /\ [Next]_vars => Inv'
  <1> SUFFICES ASSUME Typed, Inv, [Next]_vars PROVE Inv'
    OBVIOUS
  <1>1. SessionTyped'
    BY StepKeepsSession
  <1>2. CASE UNCHANGED vars
    BY <1>2 DEF vars, session, Inv, Standing, Positional, Interrupted, Expects, Unwritten,
                Proposed, Covered, Granted, Asked, Paused
  <1>3. CASE IntakeContext \/ MemoryRetriever \/ Planner \/ SupervisorRouter
    BY <1>3, IntakeKept, PlannerKept, RouterKept
  <1>4. CASE \E s \in Specialists : Specialist(s)
    BY <1>4, SpecialistKept
  <1>5. CASE ResolutionBuilder \/ VerifierPre \/ VerifierPost
    BY <1>5, BuilderKept, VerifierPreKept, VerifierPostKept
  <1>6. CASE AskClarification \/ PauseCheckpoint \/ Resume
    BY <1>6, AskKept, AnswerKept, ClaimKept DEF Resume
  <1>7. CASE ActionGate \/ HumanApproval \/ Transaction \/ Observation
    BY <1>1, <1>7, GateKept, ApprovalKept, TransactionKept, ObservationKept
  <1>8. CASE HumanAdminReview \/ FinalResponse \/ Done \/ HumanDecides
    BY <1>8, ReviewKept, EndKept, DecisionKept
  <1> QED
    BY <1>2, <1>3, <1>4, <1>5, <1>6, <1>7, <1>8 DEF Next, GraphStep

LEMMA InvAlways == Spec => [](Typed /\ Inv)
  <1>1. Init => Typed /\ Inv
    BY InitTyped, InitInv
  <1>2. (Typed /\ Inv) /\ [Next]_vars => (Typed /\ Inv)'
    BY StepKeepsTypes, StepKeepsInv
  <1> QED
    BY <1>1, <1>2, PTL DEF Spec

-----------------------------------------------------------------------------
(* What the invariant shows *)

\* No routing of the graph reaches a node whose own checks would fail the run:
\* whatever the tools answer, the model says and the client claims.
THEOREM NodesFindWhatTheyNeed == Spec => []NodePreconditions
  <1>1. Typed /\ Inv => NodePreconditions
    <2> SUFFICES ASSUME Typed, Inv PROVE NodePreconditions
      OBVIOUS
    <2>1. \A node \in next : Expects(node)
      BY DEF Inv, Positional
    <2>2. Unwritten /\ Covered => state.candidate # NoCandidate
      BY DEF Unwritten, Covered, NoCandidate
    <2>3. CASE next \in {{"action_gate"}, {"human_approval"}, {"transaction"}}
      <3>1. PICK node \in {"action_gate", "human_approval", "transaction"} : next = {node}
        BY <2>3
      <3>2. Unwritten /\ Covered
        BY <2>1, <3>1 DEF Expects, BeforeWrite, PastVerifier
      <3>3. node = "human_approval" => state.candidate.approval
        BY <2>1, <3>1 DEF Expects
      <3> QED
        BY <2>2, <3>1, <3>2, <3>3 DEF NodePreconditions, Covered
    <2>4. CASE next = {"verifier"} /\ state.phase = "POST"
      BY <2>1, <2>4 DEF Expects, NoCandidate, NodePreconditions
    <2>5. CASE "memory_updater" \in next
      BY <2>1, <2>5 DEF Expects, NodePreconditions
    <2>6. CASE next = {"final_response"}
      BY <2>1, <2>6 DEF Expects, NodePreconditions
    <2> QED
      BY <2>3, <2>4, <2>5, <2>6 DEF NodePreconditions
  <1> QED
    BY <1>1, InvAlways, PTL

\* From the gate to the write, pauses included, the candidate rests on all the
\* evidence of the current plan and on a verdict about itself.
THEOREM VerdictsCoverCandidates == Spec => []VerdictCoversCandidate
  <1>1. Inv => VerdictCoversCandidate
    <2> SUFFICES ASSUME Inv, NEW node \in PastVerifier, next = {node}
                 PROVE  /\ state.verdict.phase = "PRE" /\ state.verdict.code = "VALID"
                        /\ state.verdict.plan = state.plan
                        /\ state.candidate.plan = state.plan
                        /\ state.evidence.complete
                        /\ state.candidate.evidence = state.evidence.seen
      BY DEF VerdictCoversCandidate, PastVerifier
    <2>1. Covered
      BY DEF Inv, Positional, Expects
    <2> QED
      BY <2>1 DEF Covered
  <1> QED
    BY <1>1, InvAlways, PTL

\* A protected write starts only under an approval the session grants, and with
\* the version of that grant, whatever the client claimed while it was paused.
THEOREM WritesAreApproved == Spec => []ProtectedWritesAreApproved
  <1>1. Typed /\ Inv => ProtectedWritesAreApproved
    <2> SUFFICES ASSUME Typed, Inv, next = {"transaction"}, protected
                 PROVE  /\ state.candidate.approval
                        /\ decision = "APPROVED"
                        /\ state.candidate.version = approvalVersion
      BY DEF ProtectedWritesAreApproved
    <2>1. Granted
      BY DEF Inv, Positional, Expects
    <2>2. protected = TRUE
      BY DEF Typed, SessionTyped
    <2> QED
      BY <2>1, <2>2 DEF Granted
  <1> QED
    BY <1>1, InvAlways, PTL

\* A key is spent once: neither a replan, nor a retry, nor a resumed approval
\* writes under a key the session has seen.
THEOREM KeysAreFresh == Spec => []NoKeyReused
  <1>1. Inv => NoKeyReused
    <2> SUFFICES ASSUME Inv PROVE NoKeyReused
      OBVIOUS
    <2>1. next = {"transaction"} => state.candidate.plan \notin used
      BY DEF Inv, Positional, Expects, BeforeWrite, PastVerifier, Covered, Unwritten
    <2>2. ~Requested => ApprovalKey \notin used
      BY DEF Inv, Standing, Requested
    <2> QED
      BY <2>1, <2>2 DEF NoKeyReused
  <1> QED
    BY <1>1, InvAlways, PTL

\* However many replans, a registration is submitted once for each class.
THEOREM ClassesAreTriedOnce == Spec => []NoOfferingTriedTwice
  <1>1. Inv => NoOfferingTriedTwice
    <2> SUFFICES ASSUME Inv, next = {"transaction"}, case.kind = "REGISTRATION"
                 PROVE  state.candidate.offering \notin state.attempted
      BY DEF NoOfferingTriedTwice
    <2>1. Unwritten /\ Covered /\ Proposed
      BY DEF Inv, Positional, Expects, BeforeWrite, PastVerifier
    <2> QED
      BY <2>1 DEF Unwritten, Covered, Proposed, NoCandidate
  <1> QED
    BY <1>1, InvAlways, PTL

\* A run that ends as done has resolved its case, under a granted approval where
\* the case declares one.
THEOREM DoneMeansResolved == Spec => []DoneIsEarned
  <1>1. Typed /\ Inv => DoneIsEarned
    BY DEF Typed, SessionTyped, Inv, Standing, DoneIsEarned
  <1> QED
    BY <1>1, InvAlways, PTL

\* Each interrupt the graph persists can be answered: the checkpoint it lies in
\* passes every check of the resume.
THEOREM InterruptsCanBeAnswered == Spec => []InterruptIsResumable
  <1>1. Inv => InterruptIsResumable
    <2> SUFFICES ASSUME Inv PROVE InterruptIsResumable
      OBVIOUS
    <2>1. interrupt = "CLARIFICATION" => next = {"clarification"} /\ Asked
      BY DEF Inv, Interrupted, Positional, Expects
    <2>2. interrupt = "APPROVAL" => next = {"pause_checkpoint"} /\ Paused
      BY DEF Inv, Interrupted, Positional, Expects
    <2> QED
      BY <2>1, <2>2 DEF InterruptIsResumable, Asked, Paused
  <1> QED
    BY <1>1, InvAlways, PTL

-----------------------------------------------------------------------------
(* How long an invocation may last *)

\* Supersteps a run has earned: one for every charged step, six for every plan,
\* which are those of the uncharged nodes that follow it, two for the intake.
Earned == state.counters.steps + 6 * state.plan + 2

Todo(pending) == Bump("degree_audit_agent" \in pending)
  + Bump("policy_agent" \in pending) + Bump("course_agent" \in pending)

\* What a node finds left of them.
Paced(node) ==
  /\ node = "intake_context" => supersteps <= 0
  /\ node = "memory_retriever" => supersteps <= 1
  /\ node \in {"planner", "memory_updater"} => supersteps <= Earned
  /\ node = "verifier" /\ state.phase = "POST" => supersteps <= Earned
  /\ node = "supervisor_router" => supersteps + 6 <= Earned
  /\ node \in Specialists =>
       node \in state.pending /\ supersteps + Todo(state.pending) + 2 <= Earned
  /\ node = "resolution_builder" => supersteps + 2 <= Earned
  /\ node = "verifier" /\ state.phase = "PRE" => supersteps + 1 <= Earned
  /\ node \in PastVerifier \cup {"clarification", "observation"} => supersteps + 1 <= Earned
  /\ node = "human_admin_review" => supersteps <= Earned + 1
  /\ node = "final_response" => supersteps <= Earned + 2

Pace ==
  /\ supersteps <= Earned + 3
  /\ interrupt = "NONE" => \A node \in next : Paced(node)

LEMMA Sizes ==
  ASSUME StateTyped
  PROVE  /\ state.counters.steps \in Nat /\ state.plan \in Nat /\ Earned \in Nat
         /\ Earned = state.counters.steps + 6 * state.plan + 2
         /\ state.pending \subseteq Specialists
  BY ControlPlaneAssumption DEF StateTyped, WorkflowStates, Counters, Earned

LEMMA TodoRange == \A pending : Todo(pending) \in 0..3
  BY DEF Todo, Bump

\* The specialist whose turn it is was pending, and is one less to come.
LEMMA TodoShrinks ==
  ASSUME NEW pending, NEW s \in Specialists, s \in pending
  PROVE  Todo(pending \ {s}) + 1 = Todo(pending)
  <1>1. CASE s = "degree_audit_agent"
    BY <1>1 DEF Todo, Bump
  <1>2. CASE s = "policy_agent"
    BY <1>2 DEF Todo, Bump
  <1>3. CASE s = "course_agent"
    BY <1>3 DEF Todo, Bump
  <1> QED
    BY <1>1, <1>2, <1>3 DEF Specialists

LEMMA NextIsPending ==
  ASSUME NEW pending
  PROVE  \/ NextSpecialist(pending) \in Specialists /\ NextSpecialist(pending) \in pending
         \/ NextSpecialist(pending) = "resolution_builder"
  BY DEF NextSpecialist, Specialists

\* A node is reached in good time if it would be by its own account.
LEMMA PaceAt ==
  ASSUME NEW node, next' = {node}, Paced(node)', supersteps' <= Earned' + 3
  PROVE  Pace'
  BY DEF Pace

LEMMA PaceHere ==
  ASSUME Pace, NEW node, At(node)
  PROVE  /\ Paced(node) /\ next = {node} /\ interrupt = "NONE"
         /\ supersteps' = supersteps + 1 /\ supersteps <= Earned + 3
  BY DEF Pace, At

\* Charged nodes pay for their superstep.
LEMMA ChargePays ==
  ASSUME StateTyped, NEW replan \in BOOLEAN, NEW retry \in BOOLEAN
  PROVE  Counted(replan, retry).counters.steps = state.counters.steps + 1
  BY DEF StateTyped, WorkflowStates, Counted, Charged

\* An update that pays, and stays in its plan.
Pays == state'.counters.steps = state.counters.steps + 1 /\ state'.plan = state.plan

LEMMA PaidStep ==
  ASSUME Typed, StateTyped', Pays, supersteps' = supersteps + 1
  PROVE  Earned' = Earned + 1 /\ supersteps' - Earned' = supersteps - Earned
  <1>1. Earned \in Nat /\ Earned' \in Nat /\ supersteps \in Nat
    BY Sizes DEF Typed, RunTyped, StateTyped, Earned, WorkflowStates, Counters
  <1> QED
    BY <1>1, Sizes DEF Earned, Pays, Typed

LEMMA FreeStep ==
  ASSUME state'.counters = state.counters, state'.plan = state.plan
  PROVE  Earned' = Earned
  BY DEF Earned

\* Nodes that write in the checkpoint what costs nothing, on the way to a candidate.
LEMMA GatheringPace ==
  ASSUME Typed, Typed', Inv, Pace,
         \/ IntakeContext \/ MemoryRetriever \/ SupervisorRouter
         \/ \E s \in Specialists : Specialist(s)
         \/ ResolutionBuilder
  PROVE  Pace'
  <1>1. supersteps \in Nat /\ Earned \in Nat /\ state.plan \in Nat
    BY Sizes DEF Typed, RunTyped
  <1>2. CASE IntakeContext
    <2>1. supersteps <= 0 /\ supersteps' = supersteps + 1 /\ next' = {"memory_retriever"}
      BY <1>2, PaceHere DEF IntakeContext, Paced, GoTo
    <2>2. state'.counters = state.counters /\ state'.plan = state.plan
      BY <1>2 DEF IntakeContext, Typed, StateTyped, WorkflowStates
    <2>3. Earned' = Earned
      BY <2>2, FreeStep
    <2>4. Paced("memory_retriever")'
      BY <1>1, <2>1 DEF Paced, PastVerifier, Specialists
    <2> QED
      BY <1>1, <2>1, <2>3, <2>4, PaceAt
  <1>3. CASE MemoryRetriever
    <2>1. supersteps <= 1 /\ supersteps' = supersteps + 1 /\ next' = {"planner"}
      BY <1>3, PaceHere DEF MemoryRetriever, Paced, GoTo
    <2>2. Earned' = Earned
      BY <1>3, FreeStep DEF MemoryRetriever
    <2>3. 2 <= Earned
      BY Sizes DEF Typed
    <2>4. Paced("planner")'
      BY <1>1, <2>1, <2>2, <2>3 DEF Paced, PastVerifier, Specialists
    <2> QED
      BY <1>1, <2>1, <2>2, <2>3, <2>4, PaceAt
  <1>4. ASSUME NEW node \in Specialists \cup {"resolution_builder"}, next' = {node},
               node = "resolution_builder" \/ node \in state'.pending,
               supersteps' + Todo(state'.pending) + 2 <= Earned',
               supersteps' + 2 <= Earned'
        PROVE  Pace'
    <2>1. supersteps' \in Nat /\ Earned' \in Nat
      BY Sizes DEF Typed, RunTyped, StateTyped, Earned, WorkflowStates, Counters
    <2>2. Paced(node)'
      BY <1>4 DEF Paced, PastVerifier, Specialists
    <2> QED
      BY <1>4, <2>1, <2>2, PaceAt
  <1>5. CASE SupervisorRouter
    <2>1. supersteps + 6 <= Earned /\ supersteps' = supersteps + 1
      BY <1>5, PaceHere DEF SupervisorRouter, Paced
    <2>2. Earned' = Earned /\ state' = state
      BY <1>5, FreeStep DEF SupervisorRouter
    <2>3. next' = {NextSpecialist(state.pending)}
      BY <1>5 DEF SupervisorRouter, GoTo
    <2>4. supersteps' + Todo(state.pending) + 2 <= Earned' /\ supersteps' + 2 <= Earned'
      BY <1>1, <2>1, <2>2, TodoRange
    <2> QED
      BY <1>4, <2>2, <2>3, <2>4, NextIsPending
  <1>6. ASSUME NEW s \in Specialists, Specialist(s) PROVE Pace'
    <2>1. /\ s \in state.pending /\ supersteps + Todo(state.pending) + 2 <= Earned
          /\ supersteps' = supersteps + 1
      BY <1>6, PaceHere DEF Specialist, Paced
    <2>2. /\ state'.counters = state.counters /\ state'.plan = state.plan
          /\ state'.pending = state.pending \ {s}
      BY ZenonT(60), <1>6 DEF Specialist, Remaining, Typed, StateTyped, WorkflowStates
    <2>3. Earned' = Earned
      BY <2>2, FreeStep
    <2>4. next' = {NextSpecialist(state'.pending)}
      BY <1>6, <2>2 DEF Specialist, Remaining, GoTo
    <2>5. Todo(state.pending) = Todo(state'.pending) + 1 /\ Todo(state'.pending) \in 0..3
      BY <2>1, <2>2, TodoShrinks, TodoRange
    <2>6. supersteps' + Todo(state'.pending) + 2 <= Earned' /\ supersteps' + 2 <= Earned'
      BY <1>1, <2>1, <2>3, <2>5
    <2> QED
      BY <1>4, <2>4, <2>6, NextIsPending
  <1>7. CASE ResolutionBuilder
    <2>1. supersteps + 2 <= Earned /\ supersteps' = supersteps + 1 /\ next' = {"verifier"}
      BY <1>7, PaceHere DEF ResolutionBuilder, Paced, GoTo
    <2>2. PICK candidate :
            state' = [state EXCEPT !.candidate = candidate, !.phase = "PRE"]
      BY <1>7 DEF ResolutionBuilder
    <2>3. /\ state'.counters = state.counters /\ state'.plan = state.plan
          /\ state'.phase = "PRE"
      BY <2>2 DEF Typed, StateTyped, WorkflowStates
    <2>4. Earned' = Earned
      BY <2>3, FreeStep
    <2>5. Paced("verifier")'
      BY <1>1, <2>1, <2>3, <2>4 DEF Paced, PastVerifier, Specialists
    <2> QED
      BY <1>1, <2>1, <2>4, <2>5, PaceAt
  <1> QED
    BY <1>2, <1>3, <1>5, <1>6, <1>7

\* A node that stops for a cap has had its superstep for nothing.
LEMMA StopPace ==
  ASSUME Typed, supersteps' = supersteps + 1, supersteps <= Earned,
         NEW replan, NEW retry, Stop(replan, retry)
  PROVE  Pace'
  <1>1. supersteps \in Nat /\ Earned \in Nat
    BY Sizes DEF Typed, RunTyped
  <1>2. Earned' = Earned /\ next' = {"human_admin_review"}
    BY FreeStep DEF Stop, GoTo
  <1>3. Paced("human_admin_review")'
    BY <1>1, <1>2 DEF Paced, PastVerifier, Specialists
  <1> QED
    BY <1>1, <1>2, <1>3, PaceAt

\* A node that pays goes on with what it had left.
LEMMA PaidPace ==
  ASSUME Typed, StateTyped', Pays, supersteps' = supersteps + 1, supersteps <= Earned,
         NEW node \in PastVerifier \cup {"planner", "clarification", "human_admin_review",
                                         "observation", "verifier"},
         next' = {node}, supersteps + 1 <= Earned \/ node \in {"planner", "human_admin_review"},
         node # "verifier" \/ state'.phase = "PRE"
  PROVE  Pace'
  <1>1. supersteps \in Nat /\ Earned \in Nat
    BY Sizes DEF Typed, RunTyped
  <1>2. Earned' = Earned + 1
    BY PaidStep
  <1>3. Paced(node)'
    BY <1>1, <1>2 DEF Paced, PastVerifier, Specialists
  <1> QED
    BY <1>1, <1>2, <1>3, PaceAt

LEMMA PlannerPace == ASSUME Typed, Typed', Pace, Planner PROVE Pace'
  <1>1. supersteps <= Earned /\ supersteps' = supersteps + 1
    BY PaceHere DEF Planner, Paced
  <1>2. IsReplan \in BOOLEAN /\ IsToolRetry \in BOOLEAN
    BY DEF IsReplan, IsToolRetry
  <1>3. CASE Stop(IsReplan, IsToolRetry)
    BY <1>1, <1>2, <1>3, StopPace
  <1> DEFINE base == Counted(IsReplan, IsToolRetry)
  <1>4. base.counters.steps = state.counters.steps + 1
    BY <1>2, ChargePays DEF Typed
  <1>5. base = [state EXCEPT !.counters = base.counters] /\ base.plan = state.plan
    BY <1>2, CountedKeeps DEF Typed
  <1>6. CASE Escalate(IsReplan, IsToolRetry)
    <2>1. state' = base /\ next' = {"human_admin_review"}
      BY <1>6 DEF Escalate, GoTo
    <2> QED
      BY <1>1, <1>4, <1>5, <2>1, PaidPace DEF Pays, Typed
  <1>7. ASSUME NEW chosen \in Selections, state' = PlanWith(base, chosen),
               GoTo("supervisor_router")
        PROVE  Pace'
    <2> HIDE DEF base
    <2>1. state'.counters = base.counters /\ state'.plan = state.plan + 1
      BY <1>5, <1>7 DEF PlanWith, Typed, StateTyped, WorkflowStates
    <2>2. supersteps \in Nat /\ Earned \in Nat
      BY Sizes DEF Typed, RunTyped
    <2>3. Earned' = Earned + 7
      BY <1>4, <2>1, Sizes DEF Earned, Typed
    <2>4. Paced("supervisor_router")'
      BY <1>1, <2>2, <2>3 DEF Paced, PastVerifier, Specialists
    <2> QED
      BY <1>1, <1>7, <2>2, <2>3, <2>4, PaceAt DEF GoTo
  <1> QED
    BY <1>3, <1>6, <1>7 DEF Planner

LEMMA VerifierPace == ASSUME Typed, Typed', Pace, VerifierPre \/ VerifierPost PROVE Pace'
  <1> DEFINE base == Counted(FALSE, FALSE)
  <1>1. /\ Paced("verifier") /\ supersteps' = supersteps + 1
        /\ supersteps \in Nat /\ Earned \in Nat
    BY PaceHere, Sizes DEF VerifierPre, VerifierPost, Typed, RunTyped
  <1>2. supersteps <= Earned
    <2>1. CASE state.phase = "PRE"
      <3>1. supersteps + 1 <= Earned
        BY <1>1, <2>1 DEF Paced
      <3> QED
        BY <1>1, <3>1
    <2>2. CASE state.phase = "POST"
      BY <1>1, <2>2 DEF Paced
    <2> QED
      BY <2>1, <2>2 DEF Typed, StateTyped, WorkflowStates
  <1>3. CASE Stop(FALSE, FALSE)
    BY <1>1, <1>2, <1>3, StopPace
  <1>4. base.counters.steps = state.counters.steps + 1
    BY ChargePays DEF Typed
  <1>5. base = [state EXCEPT !.counters = base.counters] /\ base.plan = state.plan
    BY CountedKeeps DEF Typed
  <1>6. CASE VerifierPre /\ ~Stop(FALSE, FALSE)
    <2>1. PICK code, verdict, runStatus :
            /\ state' = [base EXCEPT !.verdict = verdict, !.runStatus = runStatus]
            /\ GoTo(RouteOf(code))
      BY <1>6 DEF VerifierPre
    <2> HIDE DEF base
    <2>2. Pays
      BY <1>4, <1>5, <2>1 DEF Pays, Typed, StateTyped, WorkflowStates
    <2>3. supersteps + 1 <= Earned
      BY <1>1, <1>6 DEF VerifierPre, Paced
    <2>4. RouteOf(code) \in {"action_gate", "planner", "human_admin_review", "clarification"}
      BY DEF RouteOf
    <2> QED
      BY <1>1, <1>2, <2>1, <2>2, <2>3, <2>4, PaidPace DEF GoTo, PastVerifier, Typed
  <1>7. CASE VerifierPost /\ ~Stop(FALSE, FALSE)
    <2>1. PICK verdict, met, runStatus :
            /\ state' = [base EXCEPT !.goalMet = met, !.verdict = verdict,
                                     !.runStatus = runStatus]
            /\ \/ next' = {"memory_updater", "final_response"}
               \/ next' = {"planner"}
      BY <1>7 DEF VerifierPost
    <2> HIDE DEF base
    <2>2. Pays
      BY <1>4, <1>5, <2>1 DEF Pays, Typed, StateTyped, WorkflowStates
    <2>3. CASE next' = {"planner"}
      BY <1>1, <1>2, <2>2, <2>3, PaidPace DEF Typed
    <2>4. CASE next' = {"memory_updater", "final_response"}
      <3>1. Earned' = Earned + 1
        BY <1>1, <2>2, PaidStep DEF Typed
      <3>2. Paced("memory_updater")' /\ Paced("final_response")'
        BY <1>1, <1>2, <3>1 DEF Paced, PastVerifier, Specialists
      <3> QED
        BY <1>1, <1>2, <2>4, <3>1, <3>2 DEF Pace
    <2> QED
      BY <2>1, <2>3, <2>4
  <1> QED
    BY <1>3, <1>6, <1>7

\* The gate, the approval and the write pay; the write's observation was allowed for.
LEMMA WritePace ==
  ASSUME Typed, Typed', Pace, ActionGate \/ HumanApproval \/ Transaction
  PROVE  Pace'
  <1> DEFINE base == Counted(FALSE, FALSE)
  <1>1. /\ supersteps + 1 <= Earned /\ supersteps' = supersteps + 1
        /\ supersteps \in Nat /\ Earned \in Nat
    BY PaceHere, Sizes
       DEF ActionGate, HumanApproval, Transaction, Paced, PastVerifier, Typed, RunTyped
  <1>2. supersteps <= Earned
    BY <1>1
  <1>3. CASE Stop(FALSE, FALSE)
    BY <1>1, <1>2, <1>3, StopPace
  <1> SUFFICES ASSUME May(FALSE, FALSE) PROVE Pace'
    BY <1>3 DEF Stop, May, ActionGate, HumanApproval, Transaction
  <1>4. base.counters.steps = state.counters.steps + 1
    BY ChargePays DEF Typed
  <1>5. base.plan = state.plan /\ base \in WorkflowStates
    BY CountedKeeps, ChargedTyped DEF Typed
  <1>6. ASSUME NEW node \in PastVerifier \cup {"planner", "human_admin_review", "observation"},
               next' = {node}, state'.counters = base.counters, state'.plan = base.plan
        PROVE  Pace'
    <2>1. Pays
      BY <1>4, <1>5, <1>6 DEF Pays
    <2>2. node # "verifier"
      BY DEF PastVerifier
    <2> QED
      BY <1>1, <1>2, <1>6, <2>1, <2>2, PaidPace DEF Typed
  <1>7. \A key \in Keys, effect \in BOOLEAN :
          LET updated == WithReceipt(base, key, effect) IN
          /\ updated \in WorkflowStates
          /\ updated.counters = base.counters /\ updated.plan = base.plan
    BY <1>5, ReceiptTyped
  <1>8. ASSUME NEW updated \in WorkflowStates, updated.counters = base.counters,
               updated.plan = base.plan, NEW result, Reported(updated, result)
        PROVE  Pace'
    <2>1. PICK attempted :
            state' = [updated EXCEPT !.result = result, !.attempted = attempted]
      BY <1>8 DEF Reported
    <2> HIDE DEF base
    <2>2. state'.counters = base.counters /\ state'.plan = base.plan
      BY <1>8, <2>1 DEF WorkflowStates
    <2> QED
      BY <1>6, <1>8, <2>2 DEF Reported, GoTo
  <1>9. ASSUME NEW updated \in WorkflowStates, updated.counters = base.counters,
               updated.plan = base.plan, NEW version \in Nat,
               NEW status \in {"ABSENT", "PENDING", "APPROVED", "REJECTED"},
               Follow(updated, status, version)
        PROVE  Pace'
    <2> HIDE DEF base
    <2>1. state'.counters = base.counters /\ state'.plan = base.plan
      BY <1>9, FollowTyped
    <2>2. next' \in {{"transaction"}, {"planner"}, {"pause_checkpoint"}}
      BY <1>9 DEF Follow, GoTo
    <2> QED
      BY <1>6, <2>1, <2>2 DEF PastVerifier
  <1>10. CASE Escalate(FALSE, FALSE)
    BY <1>6, <1>10 DEF Escalate, GoTo
  <1>11. CASE ActionGate /\ ~Stop(FALSE, FALSE)
    <2>1. state' = base /\ next' \in {{"human_admin_review"}, {"human_approval"}, {"transaction"}}
      BY <1>11 DEF ActionGate, GoTo
    <2> QED
      BY <1>6, <2>1 DEF PastVerifier
  <1>12. CASE HumanApproval /\ ~Stop(FALSE, FALSE) /\ ~Escalate(FALSE, FALSE)
    <2> DEFINE updated == WithReceipt(base, ApprovalKey, FALSE)
    <2>1. \/ Follow(base, decision, approvalVersion)
          \/ Follow(updated, decision', approvalVersion')
          \/ state' = updated /\ GoTo("human_admin_review")
      BY <1>12 DEF HumanApproval
    <2>2. ApprovalKey \in Keys
      BY ControlPlaneAssumption DEF Keys, ApprovalKey
    <2>3. /\ updated \in WorkflowStates
          /\ updated.counters = base.counters /\ updated.plan = base.plan
      BY <1>7, <2>2
    <2>4. /\ approvalVersion \in Nat /\ approvalVersion' \in Nat
          /\ decision \in {"ABSENT", "PENDING", "APPROVED", "REJECTED"}
          /\ decision' \in {"ABSENT", "PENDING", "APPROVED", "REJECTED"}
      BY DEF Typed, SessionTyped
    <2> HIDE DEF base, updated
    <2> QED
      BY <1>5, <1>6, <1>9, <2>1, <2>3, <2>4 DEF GoTo
  <1>13. CASE Transaction /\ ~Stop(FALSE, FALSE) /\ ~Escalate(FALSE, FALSE)
    <2>1. \E result : \/ Reported(base, result)
                      \/ \E effect \in BOOLEAN :
                           Reported(WithReceipt(base, state.candidate.plan, effect), result)
      BY <1>13 DEF Transaction
    <2>2. state.candidate.plan \in Keys
      BY PlanIsKey DEF Typed
    <2> HIDE DEF base
    <2> QED
      BY <1>5, <1>7, <1>8, <2>1, <2>2
  <1> QED
    BY <1>3, <1>10, <1>11, <1>12, <1>13

\* An answer starts a new invocation.
LEMMA PausePace ==
  ASSUME Typed, Typed', Inv, Pace,
         AskClarification \/ PauseCheckpoint \/ ResumeClarification \/ ResumeApproval
  PROVE  Pace'
  <1>1. CASE AskClarification \/ PauseCheckpoint
    <2>1. /\ supersteps + 1 <= Earned /\ supersteps' = supersteps + 1
          /\ supersteps \in Nat /\ Earned \in Nat
      BY <1>1, PaceHere, Sizes
         DEF AskClarification, PauseCheckpoint, Paced, PastVerifier, Typed, RunTyped
    <2>2. Earned' = Earned /\ interrupt' # "NONE"
      BY <1>1, FreeStep DEF AskClarification, PauseCheckpoint
    <2> QED
      BY <2>1, <2>2 DEF Pace
  <1>2. CASE ResumeClarification \/ ResumeApproval
    <2>1. state.plan # 0 /\ supersteps' = 1
      <3>1. next \in {{"clarification"}, {"pause_checkpoint"}}
        BY <1>2 DEF ResumeClarification, ResumeApproval, ReRun, Inv, Interrupted
      <3>2. Unwritten
        BY <3>1 DEF Inv, Positional, Expects, BeforeWrite
      <3> QED
        BY <1>2, <3>2 DEF ResumeClarification, ResumeApproval, ReRun, Unwritten
    <2>2. state'.plan = state.plan
      <3>1. CASE ResumeClarification
        <4>1. CASE May(FALSE, FALSE)
          <5> DEFINE base == Counted(FALSE, FALSE)
          <5>1. base.plan = state.plan
            BY CountedKeeps DEF Typed
          <5>2. base \in WorkflowStates
            BY <4>1, ChargedTyped DEF Typed
          <5>3. state' = [base EXCEPT !.unresolved = FALSE, !.runStatus = "RUNNING"]
            BY <3>1, <4>1 DEF ResumeClarification
          <5> HIDE DEF base
          <5> QED
            BY <5>1, <5>2, <5>3 DEF WorkflowStates
        <4>2. CASE ~May(FALSE, FALSE)
          BY <3>1, <4>2 DEF ResumeClarification
        <4> QED
          BY <4>1, <4>2
      <3>2. CASE ResumeApproval
        BY <3>2 DEF ResumeApproval, Typed, StateTyped, WorkflowStates
      <3> QED
        BY <1>2, <3>1, <3>2
    <2>3. Earned' \in Nat /\ 8 <= Earned'
      <3>1. /\ state'.counters.steps \in Nat /\ state'.plan \in Nat
            /\ Earned' = state'.counters.steps + 6 * state'.plan + 2
        BY ControlPlaneAssumption DEF Typed, StateTyped, WorkflowStates, Counters, Earned
      <3> QED
        BY <2>1, <2>2, <3>1
    <2>4. /\ supersteps' <= Earned' /\ supersteps' + 1 <= Earned'
          /\ supersteps' <= Earned' + 1 /\ supersteps' <= Earned' + 3
      <3>1. \A n \in Nat : 8 <= n =>
              /\ 1 <= n /\ 1 + 1 <= n
              /\ 1 <= n + 1 /\ 1 <= n + 3
        OBVIOUS
      <3> QED
        BY <2>1, <2>3, <3>1
    <2>5. PICK node \in {"verifier", "planner", "human_admin_review", "human_approval"} :
            next' = {node}
      BY <1>2 DEF ResumeClarification, ResumeApproval
    <2>6. Paced(node)'
      BY <2>4, <2>5 DEF Paced, PastVerifier, Specialists
    <2> QED
      BY <2>4, <2>5, <2>6, PaceAt
  <1> QED
    BY <1>1, <1>2

\* What follows the write, or the decision to hand over.
LEMMA LastPace ==
  ASSUME Typed, Typed', Inv, Pace,
         Observation \/ HumanAdminReview \/ FinalResponse \/ Done
  PROVE  Pace'
  <1>1. supersteps \in Nat /\ Earned \in Nat
    BY Sizes DEF Typed, RunTyped
  <1>2. CASE Observation
    <2>1. supersteps + 1 <= Earned /\ supersteps' = supersteps + 1 /\ next' = {"verifier"}
      BY <1>2, PaceHere DEF Observation, Paced, GoTo
    <2>2. /\ state'.counters = state.counters /\ state'.plan = state.plan
          /\ state'.phase = "POST"
      BY <1>2 DEF Observation, Typed, StateTyped, WorkflowStates
    <2>3. Earned' = Earned
      BY <2>2, FreeStep
    <2>4. Paced("verifier")'
      BY <1>1, <2>1, <2>2, <2>3 DEF Paced, PastVerifier, Specialists
    <2> QED
      BY <1>1, <2>1, <2>3, <2>4, PaceAt
  <1>3. CASE HumanAdminReview
    <2>1. /\ supersteps <= Earned + 1 /\ supersteps' = supersteps + 1
          /\ next' = {"final_response"}
      BY <1>3, PaceHere DEF HumanAdminReview, Paced, GoTo
    <2>2. PICK counters :
            /\ \/ counters = state.counters
               \/ counters = Charged(FALSE, FALSE)
            /\ state' = [state EXCEPT !.counters = counters, !.runStatus = "ESCALATED"]
      BY <1>3 DEF HumanAdminReview
    <2>3. state'.counters = counters /\ state'.plan = state.plan
      BY <2>2 DEF Typed, StateTyped, WorkflowStates
    <2>4. Charged(FALSE, FALSE).steps = state.counters.steps + 1
      BY DEF Charged
    <2>5. \/ counters.steps = state.counters.steps
          \/ counters.steps = state.counters.steps + 1
      BY <2>2, <2>4
    <2>6. Earned' = Earned \/ Earned' = Earned + 1
      BY <2>3, <2>5, Sizes DEF Earned, Typed
    <2>7. supersteps' <= Earned' + 2
      BY <1>1, <2>1, <2>6
    <2>8. Paced("final_response")'
      BY <2>7 DEF Paced, PastVerifier, Specialists
    <2>9. supersteps' <= Earned' + 3
      BY <1>1, <2>1, <2>6
    <2> QED
      BY <2>1, <2>8, <2>9, PaceAt
  <1>4. CASE FinalResponse \/ Done
    <2>1. interrupt = "NONE"
      BY <1>4 DEF FinalResponse, Done, At, Inv, Interrupted, Typed, RunTyped
    <2>2. Paced("final_response")
      BY <1>4, <2>1 DEF FinalResponse, Done, At, Pace
    <2>3. supersteps <= Earned + 2 /\ supersteps' = supersteps + 1 /\ next' = {}
      BY <1>4, <2>2 DEF FinalResponse, Done, At, Paced
    <2>4. state'.counters = state.counters /\ state'.plan = state.plan
      BY ZenonT(60), <1>4 DEF FinalResponse, Done, Typed, StateTyped, WorkflowStates
    <2>5. Earned' = Earned
      BY <2>4, FreeStep
    <2> QED
      BY <1>1, <2>3, <2>5 DEF Pace
  <1> QED
    BY <1>2, <1>3, <1>4

LEMMA StepKeepsPace == Typed /\ Typed' /\ Inv /\ Pace /\ [Next]_vars => Pace'
  <1> SUFFICES ASSUME Typed, Typed', Inv, Pace, [Next]_vars PROVE Pace'
    OBVIOUS
  <1>1. CASE UNCHANGED <<state, next, interrupt, supersteps>>
    BY <1>1 DEF Pace, Paced, Earned
  <1>2. CASE UNCHANGED vars \/ HumanDecides
    BY <1>1, <1>2 DEF vars, HumanDecides
  <1>3. CASE \/ IntakeContext \/ MemoryRetriever \/ SupervisorRouter
             \/ \E s \in Specialists : Specialist(s)
             \/ ResolutionBuilder
    BY <1>3, GatheringPace
  <1>4. CASE Planner \/ VerifierPre \/ VerifierPost
    BY <1>4, PlannerPace, VerifierPace
  <1>5. CASE ActionGate \/ HumanApproval \/ Transaction
    BY <1>5, WritePace
  <1>6. CASE AskClarification \/ PauseCheckpoint \/ Resume
    BY <1>6, PausePace DEF Resume
  <1>7. CASE Observation \/ HumanAdminReview \/ FinalResponse \/ Done
    BY <1>7, LastPace
  <1> QED
    BY <1>2, <1>3, <1>4, <1>5, <1>6, <1>7 DEF Next, GraphStep

LEMMA InitPace == Init => Pace
  <1> SUFFICES ASSUME Init PROVE Pace
    OBVIOUS
  <1>1. Earned = 2 /\ supersteps = 0 /\ next = {"intake_context"}
    BY DEF Init, StartState, Earned
  <1> QED
    BY <1>1 DEF Pace, Paced, PastVerifier, Specialists

\* The caps alone end every invocation: with a recursion limit of six supersteps
\* for every plan, one for every charged step and five more, the backstop of the
\* graph library is never what ends a run.
THEOREM CapsEndInvocations ==
  ASSUME RecursionLimit >= MaxTotalSteps + 6 * (MaxReplans + 1) + 5
  PROVE  Spec => []BackstopUnneeded
  <1>1. Init => Typed /\ Inv /\ Pace
    BY InitTyped, InitInv, InitPace
  <1>2. (Typed /\ Inv /\ Pace) /\ [Next]_vars => (Typed /\ Inv /\ Pace)'
    BY StepKeepsTypes, StepKeepsInv, StepKeepsPace
  <1>3. Typed /\ Inv /\ Pace => BackstopUnneeded
    <2> SUFFICES ASSUME Typed, Pace PROVE supersteps <= RecursionLimit
      BY DEF BackstopUnneeded
    <2>1. supersteps \in Nat /\ supersteps <= Earned + 3
      BY DEF Typed, RunTyped, Pace
    <2>2. /\ state.counters.steps \in Nat /\ state.plan \in Nat
          /\ Earned = state.counters.steps + 6 * state.plan + 2
      BY Sizes DEF Typed
    <2>3. /\ state.counters.steps <= MaxTotalSteps /\ state.plan <= MaxReplans + 1
          /\ MaxTotalSteps \in Nat /\ MaxReplans \in Nat /\ RecursionLimit \in Nat
      BY ControlPlaneAssumption DEF Typed, StateTyped, WorkflowStates, Counters
    <2> QED
      BY <2>1, <2>2, <2>3
  <1> QED
    BY <1>1, <1>2, <1>3, PTL DEF Spec

-----------------------------------------------------------------------------
(* The graph as a stream *)

\* The graph moves to the pause with an undecided approval: it has asked for it.
Askable ==
  /\ ApprovalKey \in used => decision # "ABSENT"
  /\ interrupt = "NONE" /\ next = {"pause_checkpoint"} => decision = "PENDING"

LEMMA RequestedIsUsed == Standing => (Requested <=> ApprovalKey \in used)
  BY DEF Standing, Requested

\* Nodes that leave the session alone and do not move to the pause.
LEMMA QuietNode ==
  ASSUME Typed, Inv,
         \/ IntakeContext \/ MemoryRetriever \/ Planner \/ SupervisorRouter
         \/ \E s \in Specialists : Specialist(s)
         \/ ResolutionBuilder \/ VerifierPre \/ VerifierPost
         \/ ActionGate \/ Observation \/ HumanAdminReview \/ FinalResponse \/ Done
  PROVE  /\ next # {} /\ interrupt = "NONE" /\ interrupt' = "NONE"
         /\ next' # {"pause_checkpoint"}
         /\ UNCHANGED session
  <1>1. CASE IntakeContext \/ MemoryRetriever \/ ResolutionBuilder \/ Observation
             \/ HumanAdminReview \/ FinalResponse
    BY <1>1 DEF IntakeContext, MemoryRetriever, ResolutionBuilder, Observation,
                HumanAdminReview, FinalResponse, At, GoTo
  <1>2. CASE Planner
    BY <1>2 DEF Planner, Stop, Escalate, At, GoTo
  <1>3. CASE SupervisorRouter \/ \E s \in Specialists : Specialist(s)
    <2>1. \A pending : NextSpecialist(pending) # "pause_checkpoint"
      BY DEF NextSpecialist
    <2> QED
      BY <1>3, <2>1 DEF SupervisorRouter, Specialist, At, GoTo
  <1>4. CASE VerifierPre
    <2>1. \A code : code \in PreActionCodes => RouteOf(code) # "pause_checkpoint"
      BY DEF RouteOf, PreActionCodes, Clarifications
    <2>2. case \in Cases
      BY DEF Typed, RunTyped
    <2> QED
      BY <1>4, <2>1, <2>2, AssessmentsTyped DEF VerifierPre, Stop, At, GoTo
  <1>5. CASE VerifierPost
    BY <1>5 DEF VerifierPost, Stop, At, GoTo
  <1>6. CASE ActionGate
    BY <1>6 DEF ActionGate, Stop, At, GoTo
  <1>7. CASE Done
    <2>1. interrupt = "NONE"
      <3>1. interrupt \in {"NONE", "CLARIFICATION", "APPROVAL"}
        BY DEF Typed, RunTyped
      <3>2. "memory_updater" \in next
        BY <1>7 DEF Done
      <3> QED
        BY <3>1, <3>2 DEF Inv, Interrupted
    <2> QED
      BY <1>7, <2>1 DEF Done, session
  <1> QED
    BY <1>1, <1>2, <1>3, <1>4, <1>5, <1>6, <1>7

\* A node that moves to the pause read an undecided approval.
LEMMA FollowAsks ==
  ASSUME NEW base, NEW status, NEW version, Follow(base, status, version)
  PROVE  /\ interrupt' = interrupt /\ next' # {}
         /\ next' = {"pause_checkpoint"} /\ status # "ABSENT" => status = "PENDING"
  BY DEF Follow, Visible, GoTo, PauseFor

LEMMA ApprovalAsks ==
  ASSUME Typed, Inv, Askable, HumanApproval
  PROVE  /\ next # {} /\ interrupt = "NONE" /\ interrupt' = "NONE" /\ next' # {}
         /\ decision' = decision \/ (decision = "ABSENT" /\ decision' # "ABSENT")
         /\ ApprovalKey \in used' => decision' # "ABSENT"
         /\ next' = {"pause_checkpoint"} => decision' = "PENDING"
  <1>1. next = {"human_approval"} /\ interrupt = "NONE"
    BY DEF HumanApproval, At
  <1>2. CASE \/ Stop(FALSE, FALSE)
             \/ Escalate(FALSE, FALSE) /\ UNCHANGED session
    <2>1. UNCHANGED session /\ next' = {"human_admin_review"} /\ interrupt' = interrupt
      BY <1>2 DEF Stop, Escalate, GoTo
    <2> QED
      BY <1>1, <2>1 DEF session, Askable
  <1>3. CASE Requested /\ Follow(Counted(FALSE, FALSE), decision, approvalVersion)
             /\ UNCHANGED session
    <2>1. decision # "ABSENT"
      BY <1>3, RequestedIsUsed DEF Inv, Askable
    <2> QED
      BY <1>1, <1>3, <2>1, FollowAsks DEF session
  <1>4. CASE RequestApproval /\ \E base :
               \/ Follow(base, decision', approvalVersion')
               \/ GoTo("human_admin_review")
    <2>1. /\ decision' # "ABSENT"
          /\ decision' = decision \/ decision = "ABSENT"
      BY <1>4 DEF RequestApproval, Ledger!Attempt
    <2>2. PICK base : \/ Follow(base, decision', approvalVersion')
                      \/ GoTo("human_admin_review")
      BY <1>4
    <2>3. CASE Follow(base, decision', approvalVersion')
      BY <1>1, <2>1, <2>3, FollowAsks
    <2>4. CASE GoTo("human_admin_review")
      BY <1>1, <2>1, <2>4 DEF GoTo
    <2> QED
      BY <2>2, <2>3, <2>4
  <1> QED
    BY <1>2, <1>3, <1>4 DEF HumanApproval

LEMMA WriteAsksNothing ==
  ASSUME Typed, Inv, Transaction
  PROVE  /\ next # {} /\ interrupt = "NONE" /\ interrupt' = "NONE"
         /\ next' # {} /\ next' # {"pause_checkpoint"}
         /\ decision' = decision
         /\ ApprovalKey \in used' => ApprovalKey \in used
  <1>1. At("transaction")
    BY DEF Transaction
  <1>2. Expects("transaction") /\ next = {"transaction"} /\ interrupt = "NONE"
    BY <1>1, Here
  <1>3. state.candidate.plan # ApprovalKey
    BY <1>2 DEF Expects, Covered, Unwritten, BeforeWrite, PastVerifier, ApprovalKey
  <1>4. CASE \/ Stop(FALSE, FALSE)
             \/ Escalate(FALSE, FALSE) /\ UNCHANGED session
    BY <1>2, <1>4 DEF Stop, Escalate, GoTo, session
  <1>5. CASE /\ \E base, result : Reported(base, result)
             /\ \/ UNCHANGED session
                \/ decision' = decision /\ Ledger!Attempt(state.candidate.plan)
                \/ Ledger!Effect(state.candidate.plan)
    <2>1. next' = {"observation"} /\ interrupt' = interrupt
      BY <1>5 DEF Reported, GoTo
    <2>2. decision' = decision /\ used' \subseteq used \cup {state.candidate.plan}
      BY <1>5 DEF session, Ledger!Attempt, Ledger!Effect
    <2> QED
      BY <1>2, <1>3, <2>1, <2>2
  <1> QED
    BY <1>4, <1>5 DEF Transaction

\* Running an interrupted node again.
LEMMA AnswerGoesOn ==
  ASSUME Typed, Inv, Resume
  PROVE  /\ interrupt \in {"CLARIFICATION", "APPROVAL"} /\ interrupt' = "NONE"
         /\ next # {} /\ next' # {} /\ next' # {"pause_checkpoint"}
         /\ UNCHANGED session
  BY DEF Resume, ResumeClarification, ResumeApproval, ReRun, Inv, Interrupted

LEMMA StepKeepsAskable == Typed /\ Inv /\ Askable /\ [AskedNext]_vars => Askable'
  <1> SUFFICES ASSUME Typed, Inv, Askable, [AskedNext]_vars PROVE Askable'
    OBVIOUS
  <1>1. ASSUME UNCHANGED session, next' # {"pause_checkpoint"} PROVE Askable'
    BY <1>1 DEF session, Askable
  <1>2. CASE UNCHANGED vars
    BY <1>2 DEF vars, session, Askable
  <1>3. CASE HumanApproval
    BY <1>3, ApprovalAsks DEF Askable
  <1>4. CASE Transaction
    BY <1>4, WriteAsksNothing DEF Askable
  <1>5. CASE Resume
    BY <1>1, <1>5, AnswerGoesOn
  <1>6. CASE AskClarification \/ PauseCheckpoint
    BY <1>6 DEF AskClarification, PauseCheckpoint, At, session, Askable
  <1>7. CASE interrupt = "APPROVAL" /\ HumanDecides
    BY <1>7 DEF HumanDecides, Ledger!Decide, Askable
  <1> QED
    BY <1>1, <1>2, <1>3, <1>4, <1>5, <1>6, <1>7, QuietNode DEF AskedNext, GraphStep

\* A step of the graph that asks nobody is an update of the stream.
LEMMA Yielded ==
  ASSUME next # {}, interrupt = "NONE", interrupt' = "NONE",
         SessionTyped',
         decision' = decision \/ (decision = "ABSENT" /\ decision' # "ABSENT")
  PROVE  Stream!Yield
  BY DEF Stream!Yield, Stream!Statuses, InterruptType, SessionTyped

\* A step of the graph is an update of the stream or the move to a pause.
LEMMA NodeStreams ==
  ASSUME Typed, Inv, Askable, GraphStep
  PROVE  Stream!Yield \/ \E kind \in Stream!Kinds : Stream!Pause(kind)
  <1>1. SessionTyped'
    BY StepKeepsSession DEF Next
  <1>2. CASE HumanApproval
    BY <1>1, <1>2, ApprovalAsks, Yielded
  <1>3. CASE Transaction
    BY <1>1, <1>3, WriteAsksNothing, Yielded
  <1>4. CASE AskClarification
    <2>1. Stream!Pause("clarification")
      BY <1>4 DEF AskClarification, At, session, Stream!Pause, InterruptType
    <2> QED
      BY <2>1 DEF Stream!Kinds
  <1>5. CASE PauseCheckpoint
    <2>1. Stream!Pause("approval")
      BY <1>5 DEF PauseCheckpoint, At, session, Askable, Stream!Pause, InterruptType
    <2> QED
      BY <2>1 DEF Stream!Kinds
  <1>6. ASSUME next # {}, interrupt = "NONE", interrupt' = "NONE", UNCHANGED session
        PROVE  Stream!Yield
    BY <1>1, <1>6, Yielded DEF session
  <1> QED
    BY <1>2, <1>3, <1>4, <1>5, <1>6, QuietNode DEF GraphStep

LEMMA AnswerStreams == ASSUME Typed, Inv, Resume PROVE Stream!Resume
  BY AnswerGoesOn DEF Stream!Resume, InterruptType, session

LEMMA GraphStreams ==
  Typed /\ Inv /\ Askable /\ [AskedNext]_vars => [Stream!Next]_(Stream!vars)
  <1> SUFFICES ASSUME Typed, Inv, Askable, [AskedNext]_vars
               PROVE  [Stream!Next]_(Stream!vars)
    OBVIOUS
  <1>1. CASE UNCHANGED vars
    BY <1>1 DEF vars, session, Stream!vars, InterruptType
  <1>2. CASE GraphStep
    BY <1>2, NodeStreams DEF Stream!Next
  <1>3. CASE Resume
    BY <1>3, AnswerStreams DEF Stream!Next
  <1>4. CASE interrupt = "APPROVAL" /\ HumanDecides
    <2>1. Stream!Decide
      BY <1>4 DEF HumanDecides, Ledger!Decide, Stream!Decide, InterruptType
    <2> QED
      BY <2>1 DEF Stream!Next
  <1> QED
    BY <1>1, <1>2, <1>3, <1>4 DEF AskedNext

LEMMA InitAskable == Init => Askable /\ Stream!Init
  <1>1. Init => Askable
    BY DEF Init, Askable
  <1>2. Init => Stream!Init
    BY DEF Init, Stream!Init, Stream!Statuses, InterruptType
  <1> QED
    BY <1>1, <1>2

LEMMA AskedIsNext == [AskedNext]_vars => [Next]_vars
  BY DEF AskedNext, Next

\* The graph is the stream the service relies on, as long as the approval is
\* decided only while the graph asks for it: whatever the nodes read, it asks for
\* an approval only while the session's is pending, goes on from an interrupt
\* with something to run, and ends with no interrupt left.
THEOREM GraphImplementsStream == AskedSpec => Stream!Spec
  <1>1. Init => Typed /\ Inv /\ Askable /\ Stream!Init
    BY InitTyped, InitInv, InitAskable
  <1>2. (Typed /\ Inv /\ Askable) /\ [AskedNext]_vars => (Typed /\ Inv /\ Askable)'
    BY AskedIsNext, StepKeepsTypes, StepKeepsInv, StepKeepsAskable
  <1> QED
    BY <1>1, <1>2, GraphStreams, PTL DEF AskedSpec, Stream!Spec

-----------------------------------------------------------------------------
(* Resolved cases that are handed over *)

\* An update that neither ends the run nor answers for the human.
Silent(from, to) == to.outcome = from.outcome /\ to.response = from.response

\* Only the last superstep concludes the run, and only the two nodes of an approval
\* say what the human answered.
LEMMA OpenStep ==
  ASSUME Typed, Inv,
         \/ IntakeContext \/ MemoryRetriever \/ Planner \/ SupervisorRouter
         \/ \E s \in Specialists : Specialist(s)
         \/ ResolutionBuilder \/ VerifierPre \/ VerifierPost
         \/ AskClarification \/ ActionGate \/ HumanApproval \/ PauseCheckpoint
         \/ Transaction \/ Observation \/ HumanAdminReview \/ Resume
  PROVE  /\ state'.outcome = state.outcome /\ next # {} /\ next' # {}
         /\ state'.response = state.response \/ HumanApproval \/ ResumeApproval
  <1> USE DEF Silent
  <1>1. state \in WorkflowStates /\ StateTyped
    BY DEF Typed, StateTyped
  <1>2. ASSUME NEW replan \in BOOLEAN, NEW retry \in BOOLEAN
        PROVE  /\ May(replan, retry) => Counted(replan, retry) \in WorkflowStates
               /\ Silent(state, Counted(replan, retry))
    BY <1>1, CountedKeeps, ChargedTyped
  <1>3. ASSUME NEW replan \in BOOLEAN, NEW retry \in BOOLEAN,
               Stop(replan, retry) \/ Escalate(replan, retry)
        PROVE  Silent(state, state') /\ next' # {}
    BY <1>2, <1>3 DEF Stop, Escalate, GoTo
  <1>4. CASE IntakeContext \/ MemoryRetriever \/ SupervisorRouter
    BY <1>1, <1>4 DEF IntakeContext, MemoryRetriever, SupervisorRouter, At, GoTo, WorkflowStates
  <1>5. CASE Planner
    <2>1. IsReplan \in BOOLEAN /\ IsToolRetry \in BOOLEAN
      BY DEF IsReplan, IsToolRetry
    <2>2. next # {}
      BY <1>5 DEF Planner, At
    <2>3. CASE \/ Stop(IsReplan, IsToolRetry)
               \/ Escalate(IsReplan, IsToolRetry)
      BY <1>3, <2>1, <2>2, <2>3
    <2>4. CASE /\ May(IsReplan, IsToolRetry)
               /\ \E chosen \in Selections :
                    state' = PlanWith(Counted(IsReplan, IsToolRetry), chosen)
               /\ GoTo("supervisor_router")
      <3> DEFINE base == Counted(IsReplan, IsToolRetry)
      <3>1. base \in WorkflowStates /\ Silent(state, base)
        BY <1>2, <2>1, <2>4
      <3>2. PICK chosen : state' = PlanWith(base, chosen)
        BY <2>4
      <3> HIDE DEF base
      <3>3. Silent(state, state')
        BY <3>1, <3>2 DEF PlanWith, WorkflowStates
      <3> QED
        BY <2>2, <2>4, <3>3 DEF GoTo
    <2> QED
      BY <1>5, <2>3, <2>4 DEF Planner
  <1>6. CASE \E s \in Specialists : Specialist(s)
    BY <1>1, <1>6 DEF Specialist, At, GoTo, WorkflowStates
  <1>7. CASE ResolutionBuilder
    BY <1>1, <1>7 DEF ResolutionBuilder, At, GoTo, WorkflowStates
  <1>8. CASE VerifierPre
    <2>1. next # {}
      BY <1>8 DEF VerifierPre, At
    <2> DEFINE base == Counted(FALSE, FALSE)
    <2>2. ASSUME May(FALSE, FALSE),
                 NEW verdict, NEW runStatus, NEW to,
                 state' = [base EXCEPT !.verdict = verdict, !.runStatus = runStatus],
                 next' = {to}
          PROVE  Silent(state, state') /\ next' # {}
      <3>1. base \in WorkflowStates /\ Silent(state, base)
        BY <1>2, <2>2
      <3> HIDE DEF base
      <3> QED
        BY <2>2, <3>1 DEF WorkflowStates
    <2> QED
      BY <1>3, <1>8, <2>1, <2>2 DEF VerifierPre, GoTo
  <1>9. CASE VerifierPost
    <2>1. next # {}
      BY <1>9 DEF VerifierPost, At
    <2> DEFINE base == Counted(FALSE, FALSE)
    <2>2. ASSUME May(FALSE, FALSE),
                 NEW met, NEW verdict, NEW runStatus,
                 state' = [base EXCEPT !.goalMet = met, !.verdict = verdict,
                                       !.runStatus = runStatus]
          PROVE  Silent(state, state')
      <3>1. base \in WorkflowStates /\ Silent(state, base)
        BY <1>2, <2>2
      <3> HIDE DEF base
      <3> QED
        BY <2>2, <3>1 DEF WorkflowStates
    <2>3. CASE Stop(FALSE, FALSE)
      BY <1>3, <2>1, <2>3
    <2>4. CASE ~Stop(FALSE, FALSE)
      <3> DEFINE met == GoalReached
                 verdict == [phase |-> "POST",
                             code |-> IF GoalReached THEN "DONE" ELSE "CONTINUE_FAILURE",
                             plan |-> state.candidate.plan, version |-> 0]
                 runStatus == IF GoalReached THEN "COMPLETED" ELSE base.runStatus
      <3>0. /\ May(FALSE, FALSE)
            /\ state' = [base EXCEPT !.goalMet = met, !.verdict = verdict,
                                     !.runStatus = runStatus]
        BY <1>9, <2>4 DEF VerifierPost
      <3> HIDE DEF base, met, verdict, runStatus
      <3>1. Silent(state, state')
        BY <2>2, <3>0
      <3>2. next' # {}
        BY <1>9, <2>4 DEF VerifierPost
      <3> QED
        BY <2>1, <3>1, <3>2
    <2> QED
      BY <2>3, <2>4
  <1>10. CASE AskClarification \/ PauseCheckpoint
    BY <1>10 DEF AskClarification, PauseCheckpoint, At
  <1>11. CASE ActionGate
    BY <1>2, <1>3, <1>11 DEF ActionGate, At, GoTo
  <1>12. CASE HumanApproval
    <2>1. next # {}
      BY <1>12 DEF HumanApproval, At
    <2> DEFINE base == Counted(FALSE, FALSE)
               filed == WithReceipt(base, ApprovalKey, FALSE)
    <2>2. ASSUME NEW from \in WorkflowStates, NEW status, NEW version,
                 Follow(from, status, version)
          PROVE  state'.outcome = from.outcome /\ next' # {}
      BY <2>2 DEF Follow, PauseFor, GoTo, WorkflowStates
    <2>3. CASE Stop(FALSE, FALSE) \/ Escalate(FALSE, FALSE)
      BY <1>3, <2>1, <2>3
    <2>4. CASE May(FALSE, FALSE) /\ Follow(base, decision, approvalVersion)
      BY <1>2, <1>12, <2>1, <2>2, <2>4
    <2>5. CASE /\ May(FALSE, FALSE)
               /\ \/ Follow(filed, decision', approvalVersion')
                  \/ state' = filed /\ GoTo("human_admin_review")
      <3>1. base \in WorkflowStates /\ base.outcome = state.outcome
        BY <1>2, <2>5
      <3>2. ApprovalKey \in Keys
        BY ControlPlaneAssumption DEF Keys, ApprovalKey
      <3> HIDE DEF base
      <3>3. filed \in WorkflowStates
        BY <3>1, <3>2, ReceiptTyped
      <3>4. filed.outcome = state.outcome
        BY <3>1 DEF WithReceipt, WorkflowStates
      <3> QED
        BY <1>12, <2>1, <2>2, <2>5, <3>3, <3>4 DEF GoTo
    <2> QED
      BY <1>12, <2>3, <2>4, <2>5 DEF HumanApproval
  <1>13. CASE Transaction
    <2>1. next # {}
      BY <1>13 DEF Transaction, At
    <2> DEFINE base == Counted(FALSE, FALSE)
               key == state.candidate.plan
    <2>2. ASSUME NEW from \in WorkflowStates, NEW result, Reported(from, result)
          PROVE  Silent(from, state') /\ next' # {}
      BY <2>2 DEF Reported, GoTo, WorkflowStates
    <2>3. CASE Stop(FALSE, FALSE) \/ Escalate(FALSE, FALSE)
      BY <1>3, <2>1, <2>3
    <2>4. CASE May(FALSE, FALSE) /\ \E result : Reported(base, result)
      BY <1>2, <2>1, <2>2, <2>4
    <2>5. CASE May(FALSE, FALSE) /\ \E effect \in BOOLEAN, result \in {"RETRYABLE", "FINAL"} :
                 Reported(WithReceipt(base, key, effect), result)
      <3>1. base \in WorkflowStates /\ Silent(state, base)
        BY <1>2, <2>5
      <3>2. key \in Keys
        BY <1>1, PlanIsKey
      <3>3. PICK effect \in BOOLEAN, result \in {"RETRYABLE", "FINAL"} :
              Reported(WithReceipt(base, key, effect), result)
        BY <2>5
      <3> HIDE DEF base, key
      <3> DEFINE filed == WithReceipt(base, key, effect)
      <3>4. filed \in WorkflowStates
        BY <3>1, <3>2, ReceiptTyped
      <3>5. Silent(state, filed)
        BY <3>1 DEF WithReceipt, WorkflowStates
      <3> QED
        BY <2>1, <2>2, <3>3, <3>4, <3>5
    <2> QED
      BY <1>13, <2>3, <2>4, <2>5 DEF Transaction
  <1>14. CASE Observation \/ HumanAdminReview
    BY <1>1, <1>14 DEF Observation, HumanAdminReview, At, GoTo, WorkflowStates
  <1>15. CASE Resume
    <2>1. next # {} /\ next' # {}
      BY <1>15, AnswerGoesOn
    <2>2. CASE ResumeApproval
      BY <1>1, <2>1, <2>2 DEF ResumeApproval, WorkflowStates
    <2>3. CASE ResumeClarification
      <3> DEFINE base == Counted(FALSE, FALSE)
      <3>1. CASE UNCHANGED state
        BY <2>1, <3>1
      <3>2. CASE /\ May(FALSE, FALSE)
                 /\ state' = [base EXCEPT !.unresolved = FALSE, !.runStatus = "RUNNING"]
        <4>1. base \in WorkflowStates /\ Silent(state, base)
          BY <1>2, <3>2
        <4> HIDE DEF base
        <4> QED
          BY <2>1, <3>2, <4>1 DEF WorkflowStates
      <3> QED
        BY <2>3, <3>1, <3>2 DEF ResumeClarification
    <2> QED
      BY <1>15, <2>2, <2>3 DEF Resume
  <1> QED
    BY <1>4, <1>5, <1>6, <1>7, <1>8, <1>9, <1>10, <1>11, <1>12, <1>13, <1>14, <1>15

\* Once the write has resolved the case, the run reports that and checks its goal,
\* which is reached; only a check that the step cap forbids leads elsewhere.
Checking ==
  /\ next \in {{"observation"}, {"verifier"}}
  /\ next = {"verifier"} => state.phase = "POST"
  /\ GoalReached

CapReached ==
  /\ next \in {{"human_admin_review"}, {"final_response"}, {}}
  /\ state.counters.steps = MaxTotalSteps

Concluded ==
  /\ next = {} <=> state.outcome # "NONE"
  /\ resolved = TRUE =>
       \/ Checking
       \/ next = {"memory_updater", "final_response"}
       \/ next = {} /\ state.outcome = "DONE"
       \/ CapReached

\* Nothing is resolved before the write.
LEMMA NotResolvedAt ==
  ASSUME Typed, Concluded, NEW node, next = {node},
         node \notin {"observation", "verifier", "human_admin_review", "final_response"}
  PROVE  resolved = FALSE
  BY DEF Concluded, Checking, CapReached, Typed, SessionTyped

LEMMA UnresolvedKept ==
  ASSUME Typed, Inv, Concluded,
         \/ IntakeContext \/ MemoryRetriever \/ Planner \/ SupervisorRouter
         \/ \E s \in Specialists : Specialist(s)
         \/ ResolutionBuilder \/ VerifierPre
         \/ AskClarification \/ ActionGate \/ HumanApproval \/ PauseCheckpoint \/ Resume
  PROVE  resolved' = FALSE
  <1>1. CASE \/ IntakeContext \/ MemoryRetriever \/ Planner \/ SupervisorRouter
             \/ ResolutionBuilder \/ AskClarification \/ ActionGate \/ PauseCheckpoint
    <2>1. PICK node \in {"intake_context", "memory_retriever", "planner",
                         "supervisor_router", "resolution_builder", "clarification",
                         "action_gate", "pause_checkpoint"} : next = {node}
      BY <1>1 DEF IntakeContext, MemoryRetriever, Planner, SupervisorRouter,
                  ResolutionBuilder, AskClarification, ActionGate, PauseCheckpoint, At
    <2>2. resolved = FALSE
      BY <2>1, NotResolvedAt
    <2>3. UNCHANGED session
      BY <1>1 DEF IntakeContext, MemoryRetriever, Planner, SupervisorRouter,
                  ResolutionBuilder, AskClarification, ActionGate, PauseCheckpoint
    <2> QED
      BY <2>2, <2>3 DEF session
  <1>2. CASE \E s \in Specialists : Specialist(s)
    BY <1>2, NotResolvedAt DEF Specialist, Specialists, At, session
  <1>3. CASE VerifierPre
    <2>1. next = {"verifier"} /\ state.phase = "PRE" /\ UNCHANGED session
      BY <1>3 DEF VerifierPre, At
    <2>2. ~Checking /\ ~CapReached
      BY <2>1 DEF Checking, CapReached
    <2>3. resolved = FALSE
      BY <2>1, <2>2 DEF Concluded, Typed, SessionTyped
    <2> QED
      BY <2>1, <2>3 DEF session
  <1>4. CASE HumanApproval
    <2>1. resolved = FALSE
      BY <1>4, NotResolvedAt DEF HumanApproval, At
    <2>2. UNCHANGED resolved
      BY <1>4 DEF HumanApproval, Stop, RequestApproval, Ledger!Attempt, session
    <2> QED
      BY <2>1, <2>2
  <1>5. CASE Resume
    <2>1. next \in {{"clarification"}, {"pause_checkpoint"}} /\ UNCHANGED session
      BY <1>5 DEF Resume, ResumeClarification, ResumeApproval, ReRun, Inv, Interrupted
    <2> QED
      BY <2>1, NotResolvedAt DEF session
  <1> QED
    BY <1>1, <1>2, <1>3, <1>4, <1>5

\* The write that resolves the case reaches its goal.
LEMMA WriteConcludes ==
  ASSUME Typed, Inv, Concluded, Transaction
  PROVE  resolved' = TRUE => Checking'
  <1>1. next = {"transaction"} /\ resolved = FALSE
    BY NotResolvedAt DEF Transaction, At
  <1>2. case' = case
    BY DEF Transaction, At
  <1> DEFINE base == Counted(FALSE, FALSE)
             key == state.candidate.plan
  <1>3. CASE resolved' = resolved
    BY <1>1, <1>3
  <1>4. CASE /\ May(FALSE, FALSE)
             /\ Ledger!Effect(key)
             /\ Reported(WithReceipt(base, key, TRUE), "FINAL")
    <2>1. base \in WorkflowStates /\ base.candidate = state.candidate
      BY <1>4, CountedKeeps, ChargedTyped DEF Typed
    <2>2. key \in Keys
      BY PlanIsKey DEF Typed
    <2>3. key = base.candidate.plan
      BY <2>1
    <2> DEFINE filed == WithReceipt(base, key, TRUE)
    <2> HIDE DEF base, key
    <2>4. filed \in WorkflowStates /\ filed.candidate = base.candidate
      BY <2>1, <2>2, ReceiptTyped
    <2>5. [key |-> key, effect |-> TRUE] \in filed.receipts
      BY <2>1 DEF WithReceipt, WorkflowStates
    <2> HIDE DEF filed
    <2>6. /\ state'.receipts = filed.receipts /\ state'.candidate = filed.candidate
          /\ next' = {"observation"}
      BY <1>4, <2>4 DEF filed, Reported, GoTo, WorkflowStates
    <2>7. resolved' = TRUE
      BY <1>4 DEF Ledger!Effect
    <2>8. GoalReached'
      BY <2>3, <2>4, <2>5, <2>6, <2>7 DEF GoalReached
    <2> QED
      BY <2>6, <2>8 DEF Checking
  <1> QED
    BY <1>3, <1>4 DEF Transaction, Stop, Ledger!Attempt, session

\* A verifier stopped by the caps has used up its steps.
LEMMA StoppedAtCap ==
  ASSUME Typed, ~May(FALSE, FALSE)
  PROVE  state.counters.steps = MaxTotalSteps
  <1>1. /\ state.counters.replans \in 0..MaxReplans
        /\ state.counters.retries \in 0..MaxToolRetries
        /\ state.counters.steps \in 0..MaxTotalSteps
    BY DEF Typed, StateTyped, WorkflowStates, Counters
  <1>2. ~(state.counters.steps + 1 <= MaxTotalSteps)
    BY <1>1, ControlPlaneAssumption DEF May, Within, Charged, Bump
  <1> QED
    BY <1>1, <1>2, ControlPlaneAssumption

LEMMA CheckConcludes ==
  ASSUME Typed, Inv, Concluded, resolved = TRUE,
         \/ VerifierPost \/ Observation \/ HumanAdminReview \/ FinalResponse \/ Done
  PROVE  Concluded'
  <1>1. CASE Observation
    <2>1. /\ next = {"observation"} /\ next' = {"verifier"} /\ UNCHANGED <<case, resolved>>
          /\ state' = [state EXCEPT !.observation = state.result, !.phase = "POST"]
      BY <1>1 DEF Observation, At, GoTo, session
    <2>2. /\ state'.phase = "POST" /\ state'.candidate = state.candidate
          /\ state'.receipts = state.receipts /\ state'.outcome = state.outcome
      BY <2>1 DEF Typed, StateTyped, WorkflowStates
    <2>3. GoalReached
      BY <2>1 DEF Concluded, Checking, CapReached
    <2>4. GoalReached'
      BY <2>1, <2>2, <2>3 DEF GoalReached
    <2> QED
      BY <2>1, <2>2, <2>4 DEF Concluded, Checking
  <1>2. CASE VerifierPost
    <2>1. next = {"verifier"} /\ UNCHANGED resolved
      BY <1>2 DEF VerifierPost, At, session
    <2>2. GoalReached
      BY <2>1 DEF Concluded, Checking, CapReached
    <2>3. next' # {} /\ state'.outcome = "NONE"
      BY <1>2, <2>1, OpenStep DEF Concluded
    <2>4. CASE Stop(FALSE, FALSE)
      <3>1. state.counters.steps = MaxTotalSteps
        BY <2>4, StoppedAtCap DEF Stop, May
      <3>2. next' = {"human_admin_review"} /\ state' = state
        BY <2>4 DEF Stop, GoTo
      <3> QED
        BY <2>3, <3>1, <3>2 DEF Concluded, CapReached
    <2>5. CASE next' = {"memory_updater", "final_response"}
      BY <2>3, <2>5 DEF Concluded
    <2> QED
      BY <1>2, <2>2, <2>4, <2>5 DEF VerifierPost
  <1>3. CASE HumanAdminReview
    <2>1. next = {"human_admin_review"} /\ next' = {"final_response"} /\ UNCHANGED resolved
      BY <1>3 DEF HumanAdminReview, At, GoTo, session
    <2>2. state.counters.steps = MaxTotalSteps
      BY <2>1 DEF Concluded, Checking, CapReached
    <2>3. ~May(FALSE, FALSE)
      <3>1. Charged(FALSE, FALSE).steps = MaxTotalSteps + 1
        BY <2>2 DEF Charged
      <3>2. ~(MaxTotalSteps + 1 <= MaxTotalSteps)
        BY ControlPlaneAssumption
      <3> QED
        BY <3>1, <3>2 DEF May, Within
    <2>4. state'.counters = state.counters /\ state'.outcome = state.outcome
      BY <1>3, <2>3 DEF HumanAdminReview, Typed, StateTyped, WorkflowStates
    <2> QED
      BY <2>1, <2>2, <2>4 DEF Concluded, CapReached
  <1>4. CASE FinalResponse
    <2>1. next = {"final_response"} /\ next' = {} /\ UNCHANGED resolved
      BY <1>4 DEF FinalResponse, At, session
    <2>2. state.counters.steps = MaxTotalSteps
      BY <2>1 DEF Concluded, Checking, CapReached
    <2>3. state'.counters = state.counters /\ state'.outcome = "ADMIN_HANDOFF"
      BY <1>4 DEF FinalResponse, Typed, StateTyped, WorkflowStates
    <2> QED
      BY <2>1, <2>2, <2>3 DEF Concluded, CapReached
  <1>5. CASE Done
    <2>1. next' = {} /\ state'.outcome = "DONE"
      BY <1>5 DEF Done, Typed, StateTyped, WorkflowStates
    <2> QED
      BY <2>1 DEF Concluded
  <1> QED
    BY <1>1, <1>2, <1>3, <1>4, <1>5

LEMMA StepConcludes == Typed /\ Inv /\ Concluded /\ [Next]_vars => Concluded'
  <1> SUFFICES ASSUME Typed, Inv, Concluded, [Next]_vars PROVE Concluded'
    OBVIOUS
  <1>1. CASE UNCHANGED <<case, state, next, resolved>>
    <2>1. GoalReached' <=> GoalReached
      BY <1>1 DEF GoalReached
    <2> QED
      BY <1>1, <2>1 DEF Concluded, Checking, CapReached
  <1>2. CASE UNCHANGED vars \/ HumanDecides
    BY <1>1, <1>2 DEF vars, session, HumanDecides, Ledger!Decide
  <1>3. ASSUME next # {}, next' # {}, state'.outcome = state.outcome,
               resolved' = TRUE => Checking'
        PROVE  Concluded'
    BY <1>3 DEF Concluded
  <1>4. CASE \/ IntakeContext \/ MemoryRetriever \/ Planner \/ SupervisorRouter
             \/ \E s \in Specialists : Specialist(s)
             \/ ResolutionBuilder \/ VerifierPre
             \/ AskClarification \/ ActionGate \/ HumanApproval \/ PauseCheckpoint \/ Resume
    <2>1. resolved' = FALSE
      BY <1>4, UnresolvedKept
    <2> QED
      BY <1>3, <1>4, <2>1, OpenStep
  <1>5. CASE Transaction
    BY <1>3, <1>5, OpenStep, WriteConcludes
  <1>6. CASE \/ VerifierPost \/ Observation \/ HumanAdminReview \/ FinalResponse \/ Done
    <2>1. CASE resolved = TRUE
      BY <1>6, <2>1, CheckConcludes
    <2>2. CASE resolved # TRUE
      <3>1. resolved' # TRUE
        BY <1>6, <2>2 DEF VerifierPost, Observation, HumanAdminReview, FinalResponse, Done, session
      <3>2. CASE VerifierPost \/ Observation \/ HumanAdminReview
        BY <1>3, <3>1, <3>2, OpenStep
      <3>3. CASE FinalResponse \/ Done
        <4>1. next' = {} /\ state'.outcome # "NONE"
          BY <3>3 DEF FinalResponse, Done, Typed, StateTyped, WorkflowStates
        <4> QED
          BY <3>1, <4>1 DEF Concluded
      <3> QED
        BY <1>6, <3>2, <3>3
    <2> QED
      BY <2>1, <2>2
  <1> QED
    BY <1>2, <1>4, <1>5, <1>6 DEF Next, GraphStep

LEMMA InitConcluded == Init => Concluded
  <1> SUFFICES ASSUME Init PROVE Concluded
    OBVIOUS
  <1>1. next = {"intake_context"} /\ state.outcome = "NONE" /\ resolved = FALSE
    BY DEF Init, StartState
  <1> QED
    BY <1>1 DEF Concluded

LEMMA ConcludedAlways == Spec => []Concluded
  BY InitConcluded, StepConcludes, InvAlways, PTL DEF Spec

\* A resolved case that is handed over to the administration is the work of the
\* step cap, and of nothing else: the run has used up every permitted step.
ResolvedHandoffUsedUpTheSteps ==
  state.outcome = "ADMIN_HANDOFF" /\ resolved => state.counters.steps = MaxTotalSteps

\* So the late cap is the only way to the handoff of a resolved case: no failed
\* read, rejected approval, refused write, replan or answer leads there.
THEOREM OnlyTheCapHandsOverResolvedCases == Spec => []ResolvedHandoffUsedUpTheSteps
  <1>1. Typed /\ Concluded => ResolvedHandoffUsedUpTheSteps
    <2> SUFFICES ASSUME Typed, Concluded, state.outcome = "ADMIN_HANDOFF", resolved
                 PROVE  state.counters.steps = MaxTotalSteps
      BY DEF ResolvedHandoffUsedUpTheSteps
    <2>1. next = {} /\ resolved = TRUE
      BY DEF Concluded, Typed, SessionTyped
    <2> QED
      BY <2>1 DEF Concluded, Checking, CapReached
  <1> QED
    BY <1>1, ConcludedAlways, TypedAlways, PTL

=============================================================================
