-------------------------- MODULE ContractCampaign --------------------------
(***************************************************************************)
(* What follows a package once it is frozen: the hidden execution contract  *)
(* somebody derives from it (scripts/build_execution_contracts.py), the     *)
(* rules a contract must keep to be loaded (evaluation/                     *)
(* execution_contracts.py), the agent's run over a fresh session with the   *)
(* grounded provider (orchestration/nodes.py, decisions.py), and the        *)
(* evaluation campaign that answers the run's questions and grades it       *)
(* against the contract (evaluation/campaign.py).                          *)
(*                                                                         *)
(* The contract is derived from the package's hidden part, the run from     *)
(* what the agent may observe, and neither program knows the other.  A run  *)
(* is kept to the transitions contracts speak of; the interleavings and     *)
(* failing calls of the graph are ControlPlane's subject.                  *)
(***************************************************************************)
EXTENDS ScenarioPackage, FiniteSetsExt, SequencesExt

CONSTANTS MaxReplans, MaxToolRetries, MaxTotalSteps  \* the caps of a run

ASSUME ContractCampaignAssumption ==
  MaxReplans \in Nat /\ MaxToolRetries \in Nat /\ MaxTotalSteps \in Nat

VARIABLE run  \* the agent's run: its last checkpoint and what the campaign keeps of it

campaignVars == <<vars, run>>

-----------------------------------------------------------------------------
(* The contract generator *)

GoalAction(family) ==
  CASE family \in NeedsStatePair -> "SUBMIT_REGISTRATION"
    [] family = "S2" -> "SUBMIT_WAIVER"
    [] OTHER -> "SUBMIT_EXCEPTION"

GoalKindOf == [SUBMIT_REGISTRATION |-> "COURSE_REGISTERED", SUBMIT_WAIVER |-> "WAIVER_SUBMITTED",
               SUBMIT_EXCEPTION |-> "EXCEPTION_SUBMITTED"]

\* _completion_predicate: what the last successful step of the goal's action asked
\* for, where the script has one.
CompletionPredicate(p) ==
  LET action == GoalAction(p.family)
      successes == {i \in DOMAIN p.steps : p.steps[i].action = action /\ p.steps[i].result = "SUCCESS"}
  IN [type |-> IF action = "SUBMIT_REGISTRATION" THEN "REGISTRATION_CONTAINS_COURSE"
               ELSE "COMMITTED_ACTION_RECEIPT",
      action |-> action,
      state |-> IF successes = {} THEN "none" ELSE p.steps[Max(successes)].state,
      approval |-> successes # {} /\ p.steps[Max(successes)].approval]

Clarified(p) == p.outcome = "CLARIFICATION_REQUIRED"

\* _clarification_contract
Impact(p) == IF ~Clarified(p) THEN "NONE" ELSE IF p.family = "S3" THEN "MATERIAL" ELSE "SMALL"
ResumeAt == [NONE |-> "NONE", MATERIAL |-> "PLANNER", SMALL |-> "VERIFIER_PRE_ACTION"]

\* Where _contract_for and what it calls raise no ValueError.
Contractable(p) ==
  /\ p.human <=> p.approval # "NONE"
  /\ p.approval # "NONE" =>
       /\ p.steps[1].action = "REQUEST_APPROVAL"
       /\ p.outcome = [APPROVED |-> "RESOLVED", REJECTED |-> "ESCALATED",
                       PENDING |-> "PENDING_APPROVAL"][p.approval]
  /\ Clarified(p) => p.family \in {"S3", "S6"}
  /\ p.outcome \in {"CLARIFICATION_REQUIRED", "ESCALATED", "RESOLVED"} \/ p.approval = "PENDING"
       \/ p.family = "S7"

\* _verifier_expectations
PreExpected(p) ==
  IF Clarified(p) THEN <<"CLARIFY">>
  ELSE IF p.approval \notin {"REJECTED", "PENDING"} /\ p.family = "S7" THEN <<"VALID", "VALID">>
  ELSE <<"VALID">>

PostExpected(p) ==
  IF Clarified(p) \/ p.approval \in {"REJECTED", "PENDING"} THEN <<>>
  ELSE IF p.family = "S7" THEN <<"CONTINUE_FAILURE", "DONE">>
  ELSE IF p.outcome = "ESCALATED" THEN <<"CONTINUE_FAILURE">>
  ELSE <<"DONE">>

Baseline ==
  {"INTAKE:CONTEXT_READY->MEMORY_RETRIEVER", "MEMORY_RETRIEVER:READY->PLANNER",
   "RESOLUTION_BUILDER:CANDIDATES_BUILT->VERIFIER_PRE_ACTION"}

Handoff == {"PLANNER:NO_SAFE_ROUTE->HUMAN_ADMIN_REVIEW",
            "HUMAN_ADMIN_REVIEW:HANDOFF_PREPARED->FINAL_RESPONSE"}

ActingRoute(p) ==
  {"TRANSACTION:RESULT->OBSERVATION", "OBSERVATION:NORMALIZED->VERIFIER_POST_ACTION"} \cup
  CASE p.outcome = "RESOLVED" ->
         {"VERIFIER_POST_ACTION:DONE->FINAL_RESPONSE", "VERIFIER_POST_ACTION:DONE->MEMORY_UPDATER"}
           \cup (IF p.family = "S7" THEN {"VERIFIER_POST_ACTION:CONTINUE_FAILURE->PLANNER"} ELSE {})
    [] p.outcome = "ESCALATED" -> {"VERIFIER_POST_ACTION:CONTINUE_FAILURE->PLANNER"} \cup Handoff
    [] OTHER -> {}

\* _required_transitions
RequiredTransitions(p) ==
  LET Gate == {"VERIFIER_PRE_ACTION:VALID->ACTION_GATE"} IN
  Baseline \cup
  CASE Impact(p) = "SMALL" -> {"VERIFIER_PRE_ACTION:CLARIFY->CLARIFICATION",
                               "CLARIFICATION:SMALL_CHANGE->VERIFIER_PRE_ACTION"}
    [] Impact(p) = "MATERIAL" -> {"VERIFIER_PRE_ACTION:CLARIFY->CLARIFICATION",
                                  "CLARIFICATION:MATERIAL_CHANGE->PLANNER"}
    [] OTHER ->
         IF p.approval = "NONE"
         THEN Gate \cup {"ACTION_GATE:NO_APPROVAL->TRANSACTION"} \cup ActingRoute(p) ELSE
         Gate \cup {"ACTION_GATE:APPROVAL_REQUIRED->HUMAN_APPROVAL"} \cup
         CASE p.approval = "APPROVED" -> {"HUMAN_APPROVAL:APPROVED->TRANSACTION"} \cup ActingRoute(p)
           [] p.approval = "REJECTED" -> {"HUMAN_APPROVAL:REJECTED->PLANNER"} \cup Handoff
           [] OTHER -> {"HUMAN_APPROVAL:PENDING->PAUSE_CHECKPOINT",
                        "PAUSE_CHECKPOINT:APPROVAL_OBSERVED->HUMAN_APPROVAL"}

\* _forbidden_transitions
ForbiddenTransitions(p) ==
  {"REQUEST_APPROVAL:SUCCESS->GOAL_COMPLETE", "TRANSACTION:SUCCESS->FINAL_RESPONSE",
   "VERIFIER_POST_ACTION:CONTINUE_FAILURE->MEMORY_UPDATER"} \cup
  (IF Clarified(p) THEN {"VERIFIER_PRE_ACTION:CLARIFY->ACTION_GATE",
                         "ACTION_GATE:APPROVAL_REQUIRED->HUMAN_APPROVAL",
                         "ACTION_GATE:NO_APPROVAL->TRANSACTION"}
   ELSE IF p.approval = "NONE" THEN {"ACTION_GATE:APPROVAL_REQUIRED->HUMAN_APPROVAL"}
   ELSE   {"ACTION_GATE:NO_APPROVAL->TRANSACTION"} \cup
          (CASE p.approval = "REJECTED" -> {"HUMAN_APPROVAL:REJECTED->TRANSACTION",
                                            "HUMAN_APPROVAL:REJECTED->HUMAN_ADMIN_REVIEW"}
             [] p.approval = "PENDING" -> {"HUMAN_APPROVAL:PENDING->TRANSACTION",
                                           "HUMAN_APPROVAL:PENDING->FINAL_RESPONSE"}
             [] OTHER -> {})) \cup
  (IF p.outcome # "RESOLVED" THEN {"VERIFIER_POST_ACTION:DONE->MEMORY_UPDATER"} ELSE {})

\* Deviation of AdminExpected: a refused request needs no handoff.
AdminExpectedOfFailures(p) == p.outcome = "ESCALATED" /\ p.approval = "NONE"

AdminExpected(p) == p.approval = "REJECTED" \/ (p.outcome = "ESCALATED" /\ p.approval = "NONE")

ReplansExpected(p) ==
  IF p.family = "S7" \/ AdminExpected(p) \/ Impact(p) = "MATERIAL" THEN 1 ELSE 0

RetriesExpected(p) ==
  Cardinality({i \in 1..(Len(p.steps) - 1) : p.steps[i].action = p.steps[i + 1].action})

\* _contract_for
ContractFor(p) ==
  [outcome |-> p.outcome, kind |-> GoalKindOf[GoalAction(p.family)],
   predicate |-> CompletionPredicate(p), satisfied |-> p.outcome = "RESOLVED",
   approval |-> p.approval, admin |-> AdminExpected(p),
   impact |-> Impact(p), resume |-> ResumeAt[Impact(p)],
   pre |-> PreExpected(p), post |-> PostExpected(p),
   required |-> RequiredTransitions(p), forbidden |-> ForbiddenTransitions(p),
   pause |-> p.approval = "PENDING",
   memory |-> p.outcome = "RESOLVED" /\ PostExpected(p) # <<>> /\ Last(PostExpected(p)) = "DONE",
   replans |-> ReplansExpected(p), retries |-> RetriesExpected(p)]

-----------------------------------------------------------------------------
(* What a contract must be to load: the validators of execution_contracts.py *)

\* GoalExpectation.predicate_matches_goal
GoalValid(c) ==
  /\ c.kind = "COURSE_REGISTERED" <=> c.predicate.type = "REGISTRATION_CONTAINS_COURSE"
  /\ c.predicate.type = "COMMITTED_ACTION_RECEIPT" => c.kind = GoalKindOf[c.predicate.action]

\* EvaluatorExecutionContract.validate_routes_and_terminal_expectations, with
\* HumanRouteExpectation, LoopExpectation and CheckpointExpectation.
ContractValid(c) ==
  LET clarifies == \E i \in DOMAIN c.pre : c.pre[i] = "CLARIFY" IN
  /\ GoalValid(c)
  /\ c.approval = "REJECTED" => c.admin
  /\ c.replans <= MaxReplans /\ c.retries <= MaxToolRetries
  /\ c.required \cap c.forbidden = {} /\ Baseline \subseteq c.required
  /\ IF c.approval = "NONE" THEN "ACTION_GATE:APPROVAL_REQUIRED->HUMAN_APPROVAL" \in c.forbidden
     ELSE /\ "ACTION_GATE:APPROVAL_REQUIRED->HUMAN_APPROVAL" \in c.required
          /\ [APPROVED |-> "HUMAN_APPROVAL:APPROVED->TRANSACTION",
              REJECTED |-> "HUMAN_APPROVAL:REJECTED->PLANNER",
              PENDING |-> "HUMAN_APPROVAL:PENDING->PAUSE_CHECKPOINT"][c.approval] \in c.required
  /\ clarifies <=> c.impact # "NONE"
  /\ c.impact # "NONE" =>
       /\ "VERIFIER_PRE_ACTION:CLARIFY->CLARIFICATION" \in c.required
       /\ [MATERIAL |-> "CLARIFICATION:MATERIAL_CHANGE->PLANNER",
           SMALL |-> "CLARIFICATION:SMALL_CHANGE->VERIFIER_PRE_ACTION"][c.impact] \in c.required
  /\ c.pause => "PAUSE_CHECKPOINT:APPROVAL_OBSERVED->HUMAN_APPROVAL" \in c.required
  /\ c.admin => Handoff \subseteq c.required
  /\ c.memory <=> "VERIFIER_POST_ACTION:DONE->MEMORY_UPDATER" \in c.required
  /\ c.memory => Last(c.post) = "DONE"
  /\ c.memory <=> c.outcome = "RESOLVED"
  /\ c.satisfied <=> c.outcome = "RESOLVED"
  /\ c.pause <=> c.approval = "PENDING"
  /\ c.pause <=> c.outcome = "PENDING_APPROVAL"
  /\ c.impact # "NONE" <=> c.outcome = "CLARIFICATION_REQUIRED"
  /\ c.admin <=> c.outcome = "ESCALATED"
  /\ c.retries > 0 => "VERIFIER_POST_ACTION:CONTINUE_FAILURE->PLANNER" \in c.required
  /\ c.replans > 0 =>
       c.required \cap {"VERIFIER_POST_ACTION:CONTINUE_FAILURE->PLANNER",
                        "HUMAN_APPROVAL:REJECTED->PLANNER",
                        "CLARIFICATION:MATERIAL_CHANGE->PLANNER"} # {}

-----------------------------------------------------------------------------
(* The agent's run *)

NoCandidate == [action |-> "NONE", state |-> "none", approval |-> FALSE, retry |-> FALSE]

\* The run before it starts; `matched` is the checkpoint it will be graded at,
\* `outcome` what it had come to when it first stopped.
FreshRun ==
  [node |-> "none", trace |-> {}, pre |-> <<>>, post |-> <<>>,
   planned |-> FALSE, replans |-> 0, retries |-> 0, steps |-> 0,
   ready |-> "UNKNOWN", questions |-> FALSE,
   candidate |-> NoCandidate, attempted |-> {}, effects |-> {}, requested |-> FALSE,
   response |-> "NONE", observation |-> "NONE", impact |-> "NONE",
   outcome |-> "NONE", resumed |-> FALSE, matched |-> {}]

\* A node's update: where the run goes, by which transitions, at what charge.
Moved(r, node, transitions) == [r EXCEPT !.node = node, !.trace = @ \cup transitions]
Charge(r) == [r EXCEPT !.steps = @ + 1]

\* _matching_contract_checkpoint: the shortest checkpoint with every required
\* transition and no forbidden one.  Traces only grow, so it is the first.
Matches(c, r) == c.required \subseteq r.trace /\ c.forbidden \cap r.trace = {}
Checkpointed(r) ==
  IF r.matched = {} /\ Matches(ContractFor(pkg), r) THEN [r EXCEPT !.matched = {r}] ELSE r

Running(node) == phase = "running" /\ run.node = node
Continue(r) == run' = Checkpointed(r) /\ UNCHANGED <<pkg, edits, phase>>
Reads(r) == Continue(r) /\ UNCHANGED world

\* create_intake, intake_context and memory_retriever: the store is advisory.
Intake ==
  /\ Running("intake")
  /\ Reads(Moved([run EXCEPT !.ready = pkg.ready, !.questions = pkg.questions], "planner",
                 {"INTAKE:CONTEXT_READY->MEMORY_RETRIEVER", "MEMORY_RETRIEVER:READY->PLANNER"}))

Planner ==
  /\ Running("planner")
  /\ LET counted == [Charge(run) EXCEPT
           !.planned = TRUE,
           !.replans = IF run.planned THEN @ + 1 ELSE @,
           !.retries = IF run.planned /\ run.observation = "RETRYABLE" THEN @ + 1 ELSE @]
     IN IF run.response = "REJECTED" \/ run.observation = "FINAL"
        THEN Reads(Moved(counted, "human_admin_review", {"PLANNER:NO_SAFE_ROUTE->HUMAN_ADMIN_REVIEW"}))
        ELSE Reads([counted EXCEPT !.node = "resolution_builder"])

\* What the course tools say of a class, from the session as it is.
Feasible(s) ==
  /\ s \in world.open /\ world.seats[s] > 0 /\ s \notin pkg.clashes
  /\ pkg.prerequisite = "PASS" /\ ~pkg.excluded /\ ~pkg.overload

\* _select_registration_state: preferred first, after a retryable failure without
\* what was attempted.
Eligible ==
  {i \in 1..2 :
     /\ pkg.pair[i] \in States /\ Feasible(pkg.pair[i])
     /\ run.observation = "RETRYABLE" => pkg.pair[i] \notin run.attempted}

\* _build_resolution, the form of the candidate by problem type; the same for S3,
\* whose submission is empty.
CandidateFor(p) ==
  LET Asking(state) == [NoCandidate EXCEPT !.action = GoalAction(p.family), !.state = state,
                                           !.approval = p.approval # "NONE"]
  IN
  CASE p.family \in NeedsStatePair ->
         IF Eligible = {} THEN NoCandidate
         ELSE [Asking(p.pair[Min(Eligible)]) EXCEPT !.retry = run.observation = "RETRYABLE"]
    [] p.family \in {"S2", "S5"} ->
         IF p.approval # "NONE" /\ (p.family = "S5" => p.onPath) THEN Asking("none") ELSE NoCandidate
    [] p.family = "S6" -> [Asking(IF run.ready = "YES" THEN CHOOSE s \in p.linked : TRUE ELSE "none")
                             EXCEPT !.approval = FALSE]
    [] OTHER -> [Asking("none") EXCEPT !.approval = FALSE]

\* The supervisor, the specialists' reads and resolution_builder.
ResolutionBuilder ==
  /\ Running("resolution_builder")
  /\ LET candidate == CandidateFor(pkg) IN
     Reads(Moved([run EXCEPT !.candidate = candidate], "verifier_pre_action",
                 IF candidate = NoCandidate THEN {}
                 ELSE {"RESOLUTION_BUILDER:CANDIDATES_BUILT->VERIFIER_PRE_ACTION"}))

\* assess_pre_action, in the order of its checks, for reads that all succeed.
Assessment ==
  IF run.candidate = NoCandidate THEN "ESCALATE"
  ELSE IF ~pkg.documents THEN "CLARIFY_SMALL"
  ELSE IF pkg.family = "S3" /\ pkg.indeterminate THEN "CLARIFY_MATERIAL"
  ELSE IF pkg.family = "S6" /\ (run.ready = "NO" \/ run.questions) THEN "CLARIFY_SMALL"
  ELSE "VALID"

VerifierPreAction ==
  /\ Running("verifier_pre_action")
  /\ LET Decided(code) == [Charge(run) EXCEPT !.pre = Append(@, code)] IN
     CASE Assessment = "VALID" ->
            Reads(Moved(Decided("VALID"), "action_gate", {"VERIFIER_PRE_ACTION:VALID->ACTION_GATE"}))
       [] Assessment = "ESCALATE" -> Reads(Moved(Decided("ESCALATE"), "human_admin_review", {}))
       [] OTHER ->
            Reads(Moved([Decided("CLARIFY") EXCEPT
                           !.impact = IF Assessment = "CLARIFY_SMALL" THEN "SMALL" ELSE "MATERIAL"],
                        "clarification", {"VERIFIER_PRE_ACTION:CLARIFY->CLARIFICATION"}))

ActionGate ==
  /\ Running("action_gate")
  /\ IF pkg.approval # "NONE"
     THEN Reads(Moved(Charge(run), "human_approval", {"ACTION_GATE:APPROVAL_REQUIRED->HUMAN_APPROVAL"}))
     ELSE Reads(Moved(Charge(run), "transaction", {"ACTION_GATE:NO_APPROVAL->TRANSACTION"}))

\* The next step of the script, when the request is the one it expects.  The run
\* supplies the versions it has just read.
StepFor(request) ==
  LET cursor == world.cursor IN
  {step \in {pkg.steps[i] : i \in {cursor} \cap DOMAIN pkg.steps} :
     [action |-> step.action, state |-> step.state, approval |-> step.approval, retry |-> step.retry]
       = request}

\* ActionEngine.execute, as in the replay.
Perform(step) == world' = Applied(step, Mutated(step.mutation))

ApprovalRequest == [NoCandidate EXCEPT !.action = "REQUEST_APPROVAL", !.approval = TRUE]

\* What human_approval does with the decision the session shows.
FollowDecision(r, seen, decision) ==
  CASE seen /\ decision = "APPROVED" ->
         Continue(Moved([r EXCEPT !.response = "APPROVED"], "transaction",
                        {"HUMAN_APPROVAL:APPROVED->TRANSACTION"}))
    [] seen /\ decision = "REJECTED" ->
         Continue(Moved([r EXCEPT !.response = "REJECTED"], "planner", {"HUMAN_APPROVAL:REJECTED->PLANNER"}))
    [] OTHER ->
         Continue(Moved([r EXCEPT !.response = "PENDING"], "pause_checkpoint",
                        {"HUMAN_APPROVAL:PENDING->PAUSE_CHECKPOINT"}))

HumanApproval ==
  /\ Running("human_approval")
  /\ IF run.requested THEN FollowDecision(Charge(run), world.seen, world.decision) /\ UNCHANGED world
     ELSE \/ \E step \in {s \in StepFor(ApprovalRequest) : Executable(pkg, s)} :
               /\ Perform(step)
               /\ FollowDecision([Charge(run) EXCEPT !.requested = TRUE], world'.seen, world'.decision)
          \/ /\ {s \in StepFor(ApprovalRequest) : Executable(pkg, s)} = {}
             /\ Reads([Charge(run) EXCEPT !.node = "human_admin_review"])

\* transaction and observation
Transaction ==
  /\ Running("transaction")
  /\ LET steps == StepFor(run.candidate)
         Observed(r, observation) ==
           Moved([Charge(r) EXCEPT !.observation = observation,
                                   !.attempted = @ \cup ({run.candidate.state} \ {"none"})],
                 "verifier_post_action",
                 {"TRANSACTION:RESULT->OBSERVATION", "OBSERVATION:NORMALIZED->VERIFIER_POST_ACTION"})
     IN
     \/ \E step \in {s \in steps : Executable(pkg, s)} :
          /\ Perform(step)
          /\ Continue(Observed([run EXCEPT !.effects =
                                  IF IsGoalEffect(step) THEN @ \cup {step.action} ELSE @],
                               IF step.retryable THEN "RETRYABLE" ELSE "FINAL"))
     \/ /\ {s \in steps : Executable(pkg, s)} = {}
        /\ Reads(Observed(run, IF \E s \in steps : GateOpen(pkg, s) /\ ~Current(pkg, s)
                               THEN "RETRYABLE" ELSE "FINAL"))

\* evaluate_goal for the candidate of the run
GoalReached ==
  IF pkg.family \in NeedsStatePair THEN world.registered \cap pkg.offers # {}
  ELSE run.candidate.action \in run.effects

VerifierPostAction ==
  /\ Running("verifier_post_action")
  /\ LET Decided(code) == [Charge(run) EXCEPT !.post = Append(@, code)] IN
     IF GoalReached
     THEN Reads(Moved(Decided("DONE"), "done",
                      {"VERIFIER_POST_ACTION:DONE->FINAL_RESPONSE",
                       "VERIFIER_POST_ACTION:DONE->MEMORY_UPDATER"}))
     ELSE Reads(Moved(Decided("CONTINUE_FAILURE"), "planner",
                      {"VERIFIER_POST_ACTION:CONTINUE_FAILURE->PLANNER"}))

\* human_admin_review and final_response
HumanAdminReview ==
  /\ Running("human_admin_review")
  /\ Reads(Moved(Charge(run), "handoff", {"HUMAN_ADMIN_REVIEW:HANDOFF_PREPARED->FINAL_RESPONSE"}))

-----------------------------------------------------------------------------
(* The campaign *)

\* _run_one.  The contracts are bound by digest to the package they were made
\* from, so only frozen packages are run.
StartRun ==
  /\ phase = "accepted" /\ edits = 0 /\ world = FreshWorld(pkg)
  /\ Contractable(pkg) /\ ContractValid(ContractFor(pkg))
  /\ phase' = "running"
  /\ run' = [run EXCEPT !.node = "intake"]
  /\ UNCHANGED <<pkg, edits, world>>

\* _actual_outcome of a run that has stopped
OutcomeAt ==
  [clarification |-> "CLARIFICATION_REQUIRED", pause_checkpoint |-> "PENDING_APPROVAL",
   done |-> "RESOLVED", handoff |-> "ESCALATED"]
Stopped == phase = "running" /\ run.node \in DOMAIN OutcomeAt
First == IF run.outcome = "NONE" THEN OutcomeAt[run.node] ELSE run.outcome

\* What the contract has the campaign answer, once.
Answerable ==
  /\ Stopped /\ ~run.resumed
  /\ \/ run.node = "clarification" /\ Clarified(pkg)
     \/ run.node = "pause_checkpoint" /\ pkg.outcome = "PENDING_APPROVAL"

\* The clarification node, resumed with meaningful answers.
AnswerClarification ==
  /\ Answerable /\ run.node = "clarification"
  /\ LET answered == [Charge(run) EXCEPT !.outcome = First, !.resumed = TRUE, !.questions = FALSE] IN
     IF run.impact = "SMALL"
     THEN Reads(Moved([answered EXCEPT !.ready = "YES"], "verifier_pre_action",
                      {"CLARIFICATION:SMALL_CHANGE->VERIFIER_PRE_ACTION"}))
     ELSE Reads(Moved(answered, "planner", {"CLARIFICATION:MATERIAL_CHANGE->PLANNER"}))

\* The pause node, resumed with the approval still pending.
ObserveApproval ==
  /\ Answerable /\ run.node = "pause_checkpoint"
  /\ Reads(Moved([run EXCEPT !.outcome = First, !.resumed = TRUE], "human_approval",
                 {"PAUSE_CHECKPOINT:APPROVAL_OBSERVED->HUMAN_APPROVAL"}))

\* The run has stopped for good.
Grade ==
  /\ Stopped /\ ~Answerable
  /\ phase' = "graded"
  /\ run' = [run EXCEPT !.outcome = First]
  /\ UNCHANGED <<pkg, edits, world>>

\* _completion_predicate_satisfied
Satisfied(predicate) ==
  IF predicate.type = "REGISTRATION_CONTAINS_COURSE"
  THEN \E s \in world.registered \cap pkg.offers : predicate.state \in {"none", s}
  ELSE /\ predicate.action \in run.effects
       /\ predicate.state \in {"none", run.candidate.state}
       /\ predicate.approval => run.candidate.approval

\* _evaluate_run, judged at the matching checkpoint m and at the latest one.  The
\* transitions need no second look: m was chosen for them.  A material
\* clarification shows its replan only later.
Flags(c, m) ==
  LET counters == IF c.impact = "MATERIAL" THEN run ELSE m
      waits == c.pause \/ c.impact # "NONE"
  IN
  [FINAL_OUTCOME_MISMATCH |-> run.outcome # c.outcome,
   PRE_ACTION_VERIFIER_MISMATCH |-> m.pre # c.pre,
   POST_ACTION_VERIFIER_MISMATCH |-> m.post # c.post,
   LOOP_EXPECTATION_MISMATCH |-> counters.replans # c.replans \/ counters.retries # c.retries,
   LOOP_CAP_EXCEEDED |->
     run.replans > MaxReplans \/ run.retries > MaxToolRetries \/ run.steps > MaxTotalSteps,
   CHECKPOINT_PAUSE_MISMATCH |->
     (run.outcome \in {"CLARIFICATION_REQUIRED", "PENDING_APPROVAL"}) # waits,
   CLARIFICATION_IMPACT_MISMATCH |-> c.impact # "NONE" /\ m.impact # c.impact,
   FINAL_STATE_PREDICATE_MISMATCH |-> Satisfied(c.predicate) # c.satisfied,
   POST_ACTION_FALSE_COMPLETION |-> run.node = "done" /\ ~Satisfied(c.predicate),
   MEMORY_WRITE_GATE_VIOLATION |->
     ("VERIFIER_POST_ACTION:DONE->MEMORY_UPDATER" \in m.trace) # c.memory]

\* The violations of a graded run.  Without a matching checkpoint, or without the
\* pause it meant to answer, the campaign fails with an exception instead.
Violations ==
  LET c == ContractFor(pkg) IN
  IF run.matched = {} \/ ((c.pause \/ c.impact # "NONE") /\ ~run.resumed) THEN {"RUNNER_EXCEPTION"}
  ELSE LET flags == Flags(c, CHOOSE m \in run.matched : TRUE)
       IN {code \in DOMAIN flags : flags[code]}

-----------------------------------------------------------------------------
(* Specification *)

CampaignInit == Init /\ run = FreshRun

PackageStep == Next /\ UNCHANGED run

RunStep ==
  \/ StartRun \/ Intake \/ Planner \/ ResolutionBuilder \/ VerifierPreAction \/ ActionGate
  \/ HumanApproval \/ Transaction \/ VerifierPostAction \/ HumanAdminReview
  \/ AnswerClarification \/ ObserveApproval \/ Grade

CampaignNext == PackageStep \/ RunStep

CampaignSpec == CampaignInit /\ [][CampaignNext]_campaignVars

-----------------------------------------------------------------------------
(* Properties *)

\* Every package the generator builds replays to the outcome it hides and has a
\* contract that loads, and the agent's run over it, which sees nothing of either,
\* passes: the campaign's grading finds no violation, neither of the route nor of
\* what is left in the session.
BuiltRunsMeetContracts ==
  edits = 0 =>
    /\ ReplaysAsExpected
    /\ phase = "accepted" => Contractable(pkg) /\ ContractValid(ContractFor(pkg))
    /\ phase = "graded" => Violations = {}

=============================================================================
