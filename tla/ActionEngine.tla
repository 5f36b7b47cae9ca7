---------------------------- MODULE ActionEngine ----------------------------
(***************************************************************************)
(* The deterministic write path of one case: RuntimeSession (session.py),  *)
(* ScenarioController (controller.py) and ActionEngine (execution.py).     *)
(*                                                                         *)
(* A caller sends a write with an idempotency key, the parameters of the   *)
(* action and the versions of the entities it read earlier.  The engine    *)
(* runs the whole request under the session lock, so a request is one      *)
(* step; what interleaves is requests of several callers, in any order,    *)
(* with any key, built from views of any age, and the decision a human     *)
(* makes through the host.                                                 *)
(*                                                                         *)
(* What a write does is fixed beforehand by the case's transaction script  *)
(* (a sequence of steps with a result, preconditions and mutations); the   *)
(* controller hands out the steps one by one.                              *)
(***************************************************************************)
EXTENDS Integers, Sequences

CONSTANTS
  Offerings,      \* offering-state identifiers of the case
  NoOffering,     \* "this write names no offering"
  Courses,        \* course codes
  NoCourse,       \* "this write names no course"
  CourseOf,       \* the course an offering state belongs to
  Aus,            \* workload (academic units) of a course
  WorkloadLimit,  \* workload_limit_aus of the registration
  SeatsAt,        \* vacancies of each offering state when the session is built
  RegisteredAt,   \* courses registered when the session is built
  WorkloadAt,     \* workload_aus when the session is built
  SeedVersion,    \* version of the data set's approval record
  Keys,           \* idempotency keys callers use
  Requests,       \* the requests callers send: action, parameters, views
  Scenarios       \* the cases: approval requirement, seed, script

VARIABLES
  scenario,         \* the case this session was built for (never changes)
  cursor,           \* steps of the script the controller has handed out
  seats,            \* vacancies of each offering state
  open,             \* whether its runtime status is OPEN
  offeringVersion,  \* the version field of each offering state
  approvalStatus,   \* status of the approval in the session, or ABSENT
  approvalVersion,  \* its version field (0 while absent)
  entityVersions,   \* the session's second copy of every version
  registered,       \* registered items: course and offering state
  workload,         \* running total kept beside them
  caseState,        \* state of the exception case
  receipts,         \* receipts in commit order
  idempotency,      \* key -> index of its receipt, 0 when unused
  revision,         \* session revision
  reply             \* what the last request returned

vars == <<scenario, cursor, seats, open, offeringVersion, approvalStatus,
          approvalVersion, entityVersions, registered, workload, caseState,
          receipts, idempotency, revision, reply>>

offeringVars == <<seats, open, offeringVersion>>
approvalVars == <<approvalStatus, approvalVersion>>
ledgerVars   == <<cursor, receipts, idempotency>>

-----------------------------------------------------------------------------
(* Vocabulary *)

Approval     == "approval"
Registration == "registration"
Case         == "case"
Entities     == Offerings \cup {Approval, Registration, Case}

Actions == {"REQUEST_APPROVAL", "SUBMIT_REGISTRATION", "SUBMIT_WAIVER",
            "SUBMIT_EXCEPTION"}

\* TransactionCode, the two SUCCESS codes and the failures with no effect of
\* their own merged.
Results == {"SUCCESS", "FAILURE", "APPROVAL_REJECTED", "APPROVAL_PENDING",
            "REQUIRED_INFORMATION_MISSING"}

Decisions == {"PENDING", "APPROVED", "REJECTED"}

CaseStates == {"INVESTIGATING", "READY_FOR_ACTION", "WAITING_FOR_APPROVAL",
               "WAITING_FOR_STUDENT", "RESOLVED"}

\* A mutation is named for what it sets: VACANCY_BECOMES_ZERO,
\* CLASS_BECOMES_UNAVAILABLE and STATE_CHANGED (waitlist only) on an offering
\* state; a decision, which also makes the approval observable, on the approval.
OfferingEvents == {"VACANCY_BECOMES_ZERO", "CLASS_BECOMES_UNAVAILABLE",
                   "STATE_CHANGED"}
NoMutation == [event |-> "NONE", from |-> 0]
Mutations == [event : OfferingEvents \cup Decisions \cup {"NONE"}, from : Nat]

Parameters == [approval : BOOLEAN, offering : Offerings \cup {NoOffering},
               course : Courses \cup {NoCourse}, retry : BOOLEAN]

\* A view maps each entity to the version the caller supplies, 0 for none; that the
\* caller names the entity's type rightly is taken for granted.
\* A step maps each entity to the version it requires, 0 for none, and to its
\* mutation of it, if any.
Views == [Entities -> Nat]

Request == [action : Actions, params : Parameters, expected : Views]

Step == [action : Actions, params : Parameters, result : Results, pre : Views,
         mutations : [Entities -> Mutations]]

Targets(step) == {e \in Entities : step.mutations[e] # NoMutation}

\* seed is the approval record of the data set: hidden from the session unless
\* it is observable and the run is not interactive.
Scenario == [requirement : BOOLEAN, seedStatus : Decisions,
             seedObservable : BOOLEAN, interactive : BOOLEAN, script : Seq(Step)]

\* The decision a result of an approval request stands for.
DecisionBehind(result) ==
  IF result = "SUCCESS" THEN "APPROVED"
  ELSE IF result = "APPROVAL_REJECTED" THEN "REJECTED" ELSE "PENDING"

(***************************************************************************)
(* What the data set's scripts look like.  TransactionScript and           *)
(* TransactionResult (workflow.py) and the validator of the simulated data *)
(* enforce the first four; that a script requests approval once, first,    *)
(* and stops at its goal effect holds of every script of the data set.     *)
(***************************************************************************)
OnlyRequestMutatesApproval(script) ==
  \A i \in DOMAIN script :
    LET step == script[i] IN
    IF step.action = "REQUEST_APPROVAL"
    THEN /\ Targets(step) = {Approval}
         /\ step.mutations[Approval].from = SeedVersion
         /\ step.mutations[Approval].event = DecisionBehind(step.result)
         /\ step.result \in {"SUCCESS", "APPROVAL_REJECTED", "APPROVAL_PENDING"}
    ELSE /\ Targets(step) \subseteq Offerings
         /\ step.result \notin {"APPROVAL_REJECTED", "APPROVAL_PENDING"}
         /\ \A e \in Targets(step) : step.mutations[e].event \in OfferingEvents

RegistrationNamesItsOffering(script) ==
  \A i \in DOMAIN script :
    script[i].action = "SUBMIT_REGISTRATION" =>
      /\ script[i].params.offering \in Offerings
      /\ script[i].pre[script[i].params.offering] # 0

ProtectedWritesNameTheDecision(s) ==
  \A i \in DOMAIN s.script :
    s.requirement /\ s.script[i].action # "REQUEST_APPROVAL" =>
      s.script[i].pre[Approval] = SeedVersion + 1

RequestsApprovalFirst(s) ==
  \A i \in DOMAIN s.script :
    s.script[i].action = "REQUEST_APPROVAL" => s.requirement /\ i = 1

EffectEndsScript(script) ==
  \A i \in DOMAIN script :
    script[i].action # "REQUEST_APPROVAL" /\ script[i].result = "SUCCESS"
      => i = Len(script)

\* The stored request ends in the seed's own status, and unless that is a grant
\* nothing follows it.
RequestAgreesWithSeed(s) ==
  \A i \in DOMAIN s.script :
    s.script[i].action = "REQUEST_APPROVAL" =>
      /\ s.script[i].mutations[Approval].event = s.seedStatus
      /\ s.seedStatus # "APPROVED" => i = Len(s.script)

WellFormed(s) ==
  /\ RequestAgreesWithSeed(s)
  /\ OnlyRequestMutatesApproval(s.script)
  /\ RegistrationNamesItsOffering(s.script)
  /\ ProtectedWritesNameTheDecision(s)
  /\ RequestsApprovalFirst(s)
  /\ EffectEndsScript(s.script)

\* The version the steps before the i-th leave an entity at, by what they write.
VersionBefore(script, i, e) ==
  LET writers == {j \in 1..(i - 1) : e \in Targets(script[j])}
      latest  == CHOOSE j \in writers : \A k \in writers : k <= j
  IN  IF writers # {} THEN script[latest].mutations[e].from + 1
      ELSE IF e = Approval THEN SeedVersion ELSE 1

\* The validator replays a script on its own: a step requires versions only of
\* classes and of the case's approval, and those the steps before it leave.
VersionsReplay(s) ==
  \A i \in DOMAIN s.script, e \in Entities :
    s.script[i].pre[e] # 0 =>
      /\ e \in Offerings \/ (e = Approval /\ s.requirement)
      /\ s.script[i].pre[e] = VersionBefore(s.script, i, e)

\* An approval record in plain sight is decided: those of the data set are hidden
\* until they are requested.
SeedDecided(s) == s.seedObservable => s.seedStatus # "PENDING"

ASSUME EngineAssumption ==
  /\ NoOffering \notin Offerings /\ NoCourse \notin Courses
  /\ Offerings \cap {Approval, Registration, Case} = {}
  /\ CourseOf \in [Offerings -> Courses]
  /\ Aus \in [Courses -> Nat]
  /\ WorkloadLimit \in Nat /\ WorkloadAt \in 0..WorkloadLimit
  /\ SeedVersion \in Nat \ {0}
  /\ SeatsAt \in [Offerings -> Nat]
  /\ RegisteredAt \subseteq Courses
  /\ Requests \subseteq Request
  /\ Scenarios \subseteq {s \in Scenario : WellFormed(s)}

\* Only NextStepReachable rests on it.
ASSUME ReplayAssumption == \A s \in Scenarios : VersionsReplay(s) /\ SeedDecided(s)

-----------------------------------------------------------------------------
(* The script of the run *)

\* Deviations.  A definition whose comment begins "Deviation" is a plausible bug
\* in the definition it names; the properties are tested against it, and nothing
\* else uses it.

\* Deviation of WithInteractiveApproval: the UI run keeps the scripted decision.
KeepScriptedDecision(script) == script

\* The approval request as a retryable pending result, and the version every
\* later step requires when a human decides instead of the script.
PendingForm(step) ==
  [action |-> step.action, params |-> step.params, result |-> "APPROVAL_PENDING",
   pre |-> step.pre,
   mutations |-> [e \in Entities |->
     IF e = Approval THEN [event |-> "PENDING", from |-> step.mutations[e].from]
     ELSE step.mutations[e]]]

\* Deviation of AfterDecision: later steps keep the scripted version.
AsScripted(step, pending) == step

AfterDecision(step, pending) ==
  [action |-> step.action, params |-> step.params, result |-> step.result,
   pre |-> [e \in Entities |-> IF e = Approval /\ step.pre[e] = pending
                               THEN pending + 1 ELSE step.pre[e]],
   mutations |-> step.mutations]

FirstRequests(script) ==
  {i \in DOMAIN script :
     /\ script[i].action = "REQUEST_APPROVAL"
     /\ \A j \in 1..(i - 1) : script[j].action # "REQUEST_APPROVAL"}

\* What a human will decide instead of the script: the first approval request
\* becomes pending, and every later step that required the version the script's
\* decision would have produced requires the human's, one higher.
WithInteractiveApproval(script) ==
  [n \in DOMAIN script |->
     IF n \in FirstRequests(script) THEN PendingForm(script[n])
     ELSE IF \E i \in FirstRequests(script) : i < n
          THEN LET i == CHOOSE i \in FirstRequests(script) : i < n IN
               AfterDecision(script[n], script[i].mutations[Approval].from + 1)
          ELSE script[n]]

Script == IF scenario.interactive THEN WithInteractiveApproval(scenario.script)
          ELSE scenario.script

\* The step the controller hands out next.
NextStep == Script[cursor + 1]

StepMatches(request) ==
  /\ cursor < Len(Script)
  /\ NextStep.action = request.action
  /\ NextStep.params = request.params

-----------------------------------------------------------------------------
(* Initial state: what ScenarioRuntimeFactory.build puts into the session. *)

SeedVisible(s) == s.requirement /\ s.seedObservable /\ ~s.interactive

NoReply == [code |-> "NONE", receipt |-> 0]

Init ==
  /\ scenario \in Scenarios
  /\ cursor = 0
  /\ seats = SeatsAt
  /\ open = [o \in Offerings |-> TRUE]
  /\ offeringVersion = [o \in Offerings |-> 1]
  /\ approvalStatus = IF SeedVisible(scenario) THEN scenario.seedStatus ELSE "ABSENT"
  /\ approvalVersion = IF SeedVisible(scenario) THEN SeedVersion ELSE 0
  /\ entityVersions = [e \in Entities |-> IF e = Approval THEN approvalVersion ELSE 1]
  /\ registered = {}
  /\ workload = WorkloadAt
  /\ caseState = "INVESTIGATING"
  /\ receipts = <<>>
  /\ idempotency = [k \in Keys |-> 0]
  /\ revision = 0
  /\ reply = NoReply

-----------------------------------------------------------------------------
(* Guards of a request *)

\* _validate_call: the three actions that name a target need parameters.
NamesTarget(request) ==
  \/ request.action = "SUBMIT_EXCEPTION"
  \/ request.params.approval
  \/ request.params.offering # NoOffering
  \/ request.params.course # NoCourse
  \/ request.params.retry

\* _validate_approval_gate.
GateOpen(request) ==
  IF request.action = "REQUEST_APPROVAL"
  THEN scenario.requirement /\ request.params.approval
  ELSE \/ ~scenario.requirement
       \/ request.params.approval /\ approvalStatus = "APPROVED"

\* _current_version; the approval answers with the hidden seed's version until
\* it is in the session, and nothing answers for it in a case without one.
CurrentVersion(e) ==
  IF e \in Offerings THEN offeringVersion[e]
  ELSE IF e # Approval THEN entityVersions[e]
  ELSE IF approvalStatus # "ABSENT" THEN approvalVersion
  ELSE IF scenario.requirement THEN SeedVersion ELSE 0

\* Deviation of ViewSupplied: a required version may be left out.
ViewOptional(request, step) == TRUE

\* Deviation of ViewCurrent: versions the step does not require are not checked.
RequiredViewCurrent(request, step) ==
  \A e \in Entities :
    step.pre[e] # 0 /\ request.expected[e] # 0 =>
      /\ request.expected[e] = step.pre[e]
      /\ request.expected[e] = CurrentVersion(e)

\* _validate_versions, in three parts: what the step requires was supplied,
\* nothing supplied is stale, and both agree.
ViewSupplied(request, step) ==
  \A e \in Entities : step.pre[e] # 0 => request.expected[e] # 0

ViewCurrent(request, step) ==
  \A e \in Entities :
    /\ request.expected[e] # 0 => request.expected[e] = CurrentVersion(e)
    /\ step.pre[e] # 0 /\ request.expected[e] # 0
         => request.expected[e] = step.pre[e]

\* What a refusal tells apart: an entity that is not visible in the session, and a
\* visible one that stands at another version.
ViewKnown(request) ==
  \A e \in Entities : request.expected[e] # 0 => CurrentVersion(e) # 0

ViewStale(request, step) ==
  \E e \in Entities :
    /\ request.expected[e] # 0 /\ CurrentVersion(e) # 0
    /\ \/ request.expected[e] # CurrentVersion(e)
       \/ step.pre[e] \notin {0, request.expected[e]}

\* _apply_script_mutation: the target must exist and stand at the version the
\* mutation was written for.
MutationsApply(step) ==
  \A e \in Targets(step) :
    /\ e \in Offerings \cup {Approval}
    /\ step.mutations[e].from = CurrentVersion(e)

-----------------------------------------------------------------------------
(* The candidate state the script's mutations produce *)

Hits(step, e, event) == step.mutations[e].event = event

MutatedSeats(step) ==
  [o \in Offerings |-> IF Hits(step, o, "VACANCY_BECOMES_ZERO") THEN 0 ELSE seats[o]]

MutatedOpen(step) ==
  [o \in Offerings |-> open[o] /\ ~Hits(step, o, "CLASS_BECOMES_UNAVAILABLE")]

MutatedStatus(step) ==
  IF Approval \in Targets(step) THEN step.mutations[Approval].event
  ELSE approvalStatus

\* Deviation of Mutated: a mutation leaves the version alone.
MutatedSilently(step, e, version) == version

\* Every version copy of a mutated entity becomes resulting_version.
Mutated(step, e, version) ==
  IF e \in Targets(step) THEN step.mutations[e].from + 1 ELSE version

-----------------------------------------------------------------------------
(* Effects of a step that was handed out *)

IsGoalEffect(step) == step.result = "SUCCESS" /\ step.action # "REQUEST_APPROVAL"

IsRegistration(step) == IsGoalEffect(step) /\ step.action = "SUBMIT_REGISTRATION"

\* Deviation of SeatFree: off by one at the last seat, open or not.
SeatFreeOffByOne(step) == MutatedSeats(step)[step.params.offering] >= 0

\* Deviation of Registrable: the workload limit is not checked.
RegistrableOverLimit(step) ==
  LET course == CourseOf[step.params.offering] IN
  /\ course \notin RegisteredAt
  /\ \A item \in registered : item.course # course

\* _commit_registration refuses a full or closed class, a class of another
\* course, a course already registered and a workload over the limit.
SeatFree(step) ==
  /\ MutatedOpen(step)[step.params.offering]
  /\ MutatedSeats(step)[step.params.offering] > 0

Registrable(step) ==
  LET course == CourseOf[step.params.offering] IN
  /\ step.params.course \in {NoCourse, course}
  /\ course \notin RegisteredAt
  /\ \A item \in registered : item.course # course
  /\ workload + Aus[course] <= WorkloadLimit

\* _apply_approval_case_state, _commit_* and _apply_failure_case_state.
NextCaseState(step) ==
  IF step.action = "REQUEST_APPROVAL"
  THEN IF step.result = "SUCCESS" THEN "READY_FOR_ACTION"
       ELSE IF step.result = "APPROVAL_PENDING" THEN "WAITING_FOR_APPROVAL"
       ELSE "INVESTIGATING"
  ELSE IF IsGoalEffect(step) THEN "RESOLVED"
  ELSE IF step.result = "REQUIRED_INFORMATION_MISSING" THEN "WAITING_FOR_STUDENT"
  ELSE caseState

TakesSeat(step, o) == IsRegistration(step) /\ o = step.params.offering

Bump(condition) == IF condition THEN 1 ELSE 0

\* Deviation of NextVersion: taking a seat updates the offering's own field only.
NextVersionWithoutSeat(step, e) ==
  IF e = Case THEN entityVersions[e] + Bump(NextCaseState(step) # caseState)
  ELSE IF e = Registration THEN entityVersions[e] + Bump(IsRegistration(step))
  ELSE Mutated(step, e, entityVersions[e])

NextVersion(step, e) ==
  IF e = Case THEN entityVersions[e] + Bump(NextCaseState(step) # caseState)
  ELSE IF e = Registration THEN entityVersions[e] + Bump(IsRegistration(step))
  ELSE IF TakesSeat(step, e) THEN Mutated(step, e, offeringVersion[e]) + 1
  ELSE Mutated(step, e, entityVersions[e])

\* _apply_step: every effect of one script step, then _commit_action.
ApplyStep(step) ==
  /\ seats' = [o \in Offerings |-> MutatedSeats(step)[o] - Bump(TakesSeat(step, o))]
  /\ open' = MutatedOpen(step)
  /\ offeringVersion' = [o \in Offerings |->
       Mutated(step, o, offeringVersion[o]) + Bump(TakesSeat(step, o))]
  /\ approvalStatus' = MutatedStatus(step)
  /\ approvalVersion' = Mutated(step, Approval, approvalVersion)
  /\ entityVersions' = [e \in Entities |-> NextVersion(step, e)]
  /\ caseState' = NextCaseState(step)
  /\ IF IsRegistration(step)
     THEN LET o == step.params.offering IN
          /\ registered' = registered \cup {[course |-> CourseOf[o], offering |-> o]}
          /\ workload' = workload + Aus[CourseOf[o]]
     ELSE UNCHANGED <<registered, workload>>

\* Deviation of RecordReceipt: the key is not indexed.
RecordUnindexed(key, request, step) ==
  /\ receipts' = Append(receipts,
       [key |-> key, request |-> request, result |-> step.result,
        goalEffect |-> IsGoalEffect(step)])
  /\ revision' = revision + 1
  /\ cursor' = cursor + 1
  /\ reply' = [code |-> "RECEIPT", receipt |-> Len(receipts) + 1]
  /\ UNCHANGED idempotency

RecordReceipt(key, request, step) ==
  /\ receipts' = Append(receipts,
       [key |-> key, request |-> request, result |-> step.result,
        goalEffect |-> IsGoalEffect(step)])
  /\ idempotency' = [idempotency EXCEPT ![key] = Len(receipts) + 1]
  /\ revision' = revision + 1
  /\ cursor' = cursor + 1
  /\ reply' = [code |-> "RECEIPT", receipt |-> Len(receipts) + 1]

-----------------------------------------------------------------------------
(* Actions *)

\* Deviation of Refuse: the cursor moves before the step is executed.
RefuseLosesStep(code) ==
  /\ reply' = [code |-> code, receipt |-> 0]
  /\ cursor' = cursor + 1
  /\ UNCHANGED <<scenario, receipts, idempotency, offeringVars, approvalVars,
                 entityVersions, registered, workload, caseState, revision>>

Refuse(code) ==
  /\ reply' = [code |-> code, receipt |-> 0]
  /\ UNCHANGED <<scenario, ledgerVars, offeringVars, approvalVars, entityVersions,
                 registered, workload, caseState, revision>>

\* The key was used: the same request gets its old receipt back, a different
\* one a conflict, whatever has happened to the case since.
Replay(key, request) ==
  /\ NamesTarget(request)
  /\ idempotency[key] # 0
  /\ LET old == receipts[idempotency[key]] IN
     IF old.request = request
     THEN /\ reply' = [code |-> "REPLAYED", receipt |-> idempotency[key]]
          /\ UNCHANGED <<scenario, ledgerVars, offeringVars, approvalVars,
                         entityVersions, registered, workload, caseState, revision>>
     ELSE Refuse("IDEMPOTENCY_CONFLICT")

\* A new key, and the request fails one of the checks, in their order.  Versions
\* are checked one entity after the other, so of a missing, an unknown and a stale
\* one any may be reported.
Rejected(key, request) ==
  LET fresh == NamesTarget(request) /\ idempotency[key] = 0
      step  == NextStep
  IN
  \/ ~NamesTarget(request) /\ Refuse("INVALID_REQUEST")
  \/ fresh /\ ~GateOpen(request) /\ Refuse("APPROVAL_GATE")
  \/ /\ fresh /\ GateOpen(request)
     /\ \/ ~StepMatches(request) /\ Refuse("CONSTRAINT_VIOLATION")
        \/ /\ StepMatches(request)
           /\ \/ ~ViewSupplied(request, step) /\ Refuse("INVALID_REQUEST")
              \/ ~ViewKnown(request) /\ Refuse("NOT_FOUND")
              \/ /\ ViewStale(request, step) \/ ~MutationsApply(step)
                 /\ Refuse("STALE_STATE")
              \/ /\ ViewSupplied(request, step) /\ ViewCurrent(request, step)
                 /\ MutationsApply(step) /\ IsRegistration(step)
                 /\ \/ ~SeatFree(step) /\ Refuse("MODULE_FULL")
                    \/ /\ SeatFree(step) /\ ~Registrable(step)
                       /\ Refuse("CONSTRAINT_VIOLATION")

\* A new key, every check passed: the step is applied and recorded.
Commit(key, request) ==
  /\ NamesTarget(request)
  /\ idempotency[key] = 0
  /\ GateOpen(request)
  /\ StepMatches(request)
  /\ ViewSupplied(request, NextStep)
  /\ ViewCurrent(request, NextStep)
  /\ MutationsApply(NextStep)
  /\ IsRegistration(NextStep) => SeatFree(NextStep) /\ Registrable(NextStep)
  /\ ApplyStep(NextStep)
  /\ RecordReceipt(key, request, NextStep)
  /\ UNCHANGED scenario

Execute(key, request) ==
  Replay(key, request) \/ Rejected(key, request) \/ Commit(key, request)

\* Deviation of RecordHumanApproval: a decision may be taken again.
DecideAgain(status) ==
  /\ approvalStatus # "ABSENT" /\ status # "PENDING"
  /\ approvalStatus' = status
  /\ approvalVersion' = approvalVersion + 1
  /\ caseState' = IF status = "APPROVED" THEN "READY_FOR_ACTION" ELSE "INVESTIGATING"
  /\ entityVersions' = [entityVersions EXCEPT ![Approval] = approvalVersion + 1,
                                              ![Case] = @ + 1]
  /\ revision' = revision + 1
  /\ UNCHANGED <<scenario, ledgerVars, offeringVars, registered, workload, reply>>

\* record_human_approval: only the case's own pending approval can be decided,
\* and a "still pending" answer changes nothing.
RecordHumanApproval(status) ==
  /\ scenario.requirement
  /\ approvalStatus = "PENDING"
  /\ status # "PENDING"
  /\ approvalStatus' = status
  /\ approvalVersion' = approvalVersion + 1
  /\ caseState' = IF status = "APPROVED" THEN "READY_FOR_ACTION" ELSE "INVESTIGATING"
  /\ entityVersions' = [entityVersions EXCEPT ![Approval] = approvalVersion + 1,
                                              ![Case] = @ + 1]
  /\ revision' = revision + 1
  /\ UNCHANGED <<scenario, ledgerVars, offeringVars, registered, workload, reply>>

Next ==
  \/ \E key \in Keys, request \in Requests : Execute(key, request)
  \/ \E status \in Decisions : RecordHumanApproval(status)

Spec == Init /\ [][Next]_vars

-----------------------------------------------------------------------------
(* Properties *)

Receipt == [key : Keys, request : Requests, result : Results, goalEffect : BOOLEAN]

\* Every variable holds a value of the kind the session's models declare.
TypeOK ==
  /\ scenario \in Scenarios
  /\ cursor \in 0..Len(Script)
  /\ seats \in [Offerings -> Nat]
  /\ open \in [Offerings -> BOOLEAN]
  /\ offeringVersion \in [Offerings -> Nat \ {0}]
  /\ approvalStatus \in Decisions \cup {"ABSENT"}
  /\ approvalVersion \in Nat
  /\ entityVersions \in [Entities -> Nat]
  /\ registered \subseteq [course : Courses, offering : Offerings]
  /\ workload \in Nat
  /\ caseState \in CaseStates
  /\ receipts \in Seq(Receipt)
  /\ idempotency \in [Keys -> Nat]
  /\ revision \in Nat
  /\ reply \in [code : {"NONE", "RECEIPT", "REPLAYED", "IDEMPOTENCY_CONFLICT",
                        "INVALID_REQUEST", "APPROVAL_GATE", "NOT_FOUND", "STALE_STATE",
                        "MODULE_FULL", "CONSTRAINT_VIOLATION"},
                receipt : Nat]

\* A key owns at most one receipt, and the idempotency index finds it: however
\* often and in whatever order callers repeat their requests, no key has its
\* write performed twice (execute, lines 123-140, with _commit_action).
OneReceiptPerKey ==
  /\ \A k \in Keys : idempotency[k] # 0 =>
       /\ idempotency[k] \in DOMAIN receipts
       /\ receipts[idempotency[k]].key = k
  /\ \A i \in DOMAIN receipts : idempotency[receipts[i].key] = i

\* The controller's cursor and the session's receipts, held by two objects
\* under two locks, stay in step: a request that is refused after its step was
\* taken off the script gives the step back (ScenarioController.consume).
ReceiptsFollowScript ==
  /\ cursor = Len(receipts)
  /\ \A i \in DOMAIN receipts :
       /\ receipts[i].request.action = Script[i].action
       /\ receipts[i].result = Script[i].result

\* In a case that declares an approval, a write with an effect happened only if
\* the approval is granted and visible, and in a run where a human decides, only
\* after the human did: the data set's hidden APPROVED seed opens nothing.
EffectOnlyWhenApproved ==
  \A i \in DOMAIN receipts :
    scenario.requirement /\ receipts[i].goalEffect =>
      /\ approvalStatus = "APPROVED"
      /\ scenario.interactive => revision > Len(receipts)

\* The write saw the decision it rests on: the approval version the caller
\* supplied is the version the granted approval still has.
EffectSawTheDecision ==
  \A i \in DOMAIN receipts :
    scenario.requirement /\ receipts[i].goalEffect =>
      receipts[i].request.expected[Approval] = approvalVersion

\* Seats are conserved: an offering state has the seats it began with less the
\* registrations taken from it, unless an injected event emptied it, and never
\* gave out more than it had.
SeatsConserved ==
  \A o \in Offerings :
    LET taken == IF \E item \in registered : item.offering = o THEN 1 ELSE 0 IN
    /\ taken <= SeatsAt[o]
    /\ seats[o] \in {0, SeatsAt[o] - taken}

\* A student never holds two classes of one course nor more units than the
\* limit, though the total is a running field and not recomputed.
RegistrationSound ==
  /\ \A a, b \in registered : a.course = b.course => a = b
  /\ \A item \in registered :
       item.course \notin RegisteredAt /\ item.course = CourseOf[item.offering]
  /\ workload <= WorkloadLimit

\* The two copies of a version (the model's field and entity_versions) agree,
\* so a view built from either is accepted or refused alike.
VersionCopiesAgree ==
  /\ \A o \in Offerings : entityVersions[o] = offeringVersion[o]
  /\ entityVersions[Approval] = approvalVersion
  /\ (approvalStatus = "ABSENT") <=> (approvalVersion = 0)

\* The case is RESOLVED exactly when a receipt with a goal effect exists: a
\* later failure or a late human decision never takes it back, and nothing
\* resolves a case without a receipt to show for it.
ResolvedIffEffect ==
  (caseState = "RESOLVED") <=> (\E i \in DOMAIN receipts : receipts[i].goalEffect)

\* The script does not outrun its own preconditions: whatever versions the next
\* step requires are the current ones, unless the approval it waits for is
\* still to be requested or decided.  This is what the version shift of
\* _with_interactive_approval_checkpoint is for.
NextStepReachable ==
  cursor < Len(Script) /\ approvalStatus # "PENDING" =>
    \A e \in Entities : NextStep.pre[e] # 0 => NextStep.pre[e] = CurrentVersion(e)

\* Nothing changes behind a version: a step that changes what a reader can see
\* of an entity raises the entity's version, and versions never fall.  Optimistic
\* checks rest on it.
ChangesRaiseVersions ==
  [][/\ \A o \in Offerings :
          /\ (seats'[o] # seats[o] \/ open'[o] # open[o])
               => offeringVersion'[o] > offeringVersion[o]
          /\ offeringVersion'[o] >= offeringVersion[o]
     /\ approvalStatus' # approvalStatus => approvalVersion' > approvalVersion
     /\ registered' # registered
          => entityVersions'[Registration] > entityVersions[Registration]
     /\ caseState' # caseState => entityVersions'[Case] > entityVersions[Case]
     /\ \A e \in Entities : entityVersions'[e] >= entityVersions[e]]_vars

\* Whatever a committed write was told about the state was still true when it
\* committed, and a request answered from the index or refused commits nothing.
CommitsOnlyCurrentViews ==
  [][receipts' # receipts =>
       /\ reply'.code = "RECEIPT"
       /\ LET written == receipts'[Len(receipts')] IN
          \A e \in Entities :
            written.request.expected[e] # 0
              => written.request.expected[e] = CurrentVersion(e)]_vars

-----------------------------------------------------------------------------
(* Refinement: what the write path promises its callers. *)

Ledger == INSTANCE CaseLedger WITH
  protected <- scenario.requirement,
  used      <- {receipts[i].key : i \in DOMAIN receipts},
  decision  <- approvalStatus,
  resolved  <- caseState = "RESOLVED"

LedgerSpec == Ledger!Spec

=============================================================================
