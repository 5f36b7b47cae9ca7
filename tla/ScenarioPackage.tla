--------------------------- MODULE ScenarioPackage ---------------------------
(***************************************************************************)
(* The life of one scenario of the simulated data: the generator           *)
(* (scripts/build_simulated_data.py) builds it, somebody may edit it,       *)
(* construction (models/workflow.py) and the cross-file validator           *)
(* (data/simulated/validator.py) accept or refuse it, and a fresh runtime   *)
(* (runtime/execution.py) replays its script.                              *)
(*                                                                         *)
(* Four programs thus read one script by rules of their own.  The validator *)
(* predicts versions and feasibility from the static records; the engine    *)
(* finds out by applying steps to a session, and checks other things: it    *)
(* never looks at timetables or prerequisites, and the validator never      *)
(* moves a seat.  ActionEngine follows the engine under every caller; here  *)
(* the caller is the faithful replay, and the packages vary.                *)
(*                                                                         *)
(* A package has one student, two class states that may offer the target    *)
(* course, and the facts about them the rules ask for.                     *)
(***************************************************************************)
EXTENDS Integers, Sequences, FiniteSets

CONSTANTS
  Families,  \* the scenario families built
  MaxEdits   \* bound: edits made to a built package

ASSUME ScenarioPackageAssumption ==
  /\ Families \subseteq {"S1", "S2", "S3", "S4", "S5", "S6", "S7"}
  /\ MaxEdits \in Nat

VARIABLES
  pkg,    \* the package
  edits,  \* edits made so far
  phase,  \* draft, accepted or refused, replayed
  world   \* the session of the replay

vars == <<pkg, edits, phase, world>>

-----------------------------------------------------------------------------
(* Vocabulary *)

States == {"pref", "alt"}
Targets == States \cup {"approval"}
Decisions == {"APPROVED", "REJECTED", "PENDING"}
Successes == {"SUCCESS", "EXCEPTION_SUBMISSION_SUCCESS"}

\* What an injected event makes of the transaction it hits.
ResultOf == [
  VACANCY_BECOMES_ZERO |-> "MODULE_FULL", CLASS_BECOMES_UNAVAILABLE |-> "CLASS_UNAVAILABLE",
  TEMPORARY_TRANSACTION_FAILURE |-> "TEMPORARY_SYSTEM_FAILURE",
  STATE_CHANGED_BEFORE_COMMIT |-> "STALE_STATE",
  APPROVAL_GRANTED |-> "SUCCESS", APPROVAL_REJECTED |-> "APPROVAL_REJECTED",
  APPROVAL_PENDING |-> "APPROVAL_PENDING",
  REQUIRED_INFORMATION_MISSING |-> "REQUIRED_INFORMATION_MISSING"]

OfferingEvents == {"VACANCY_BECOMES_ZERO", "CLASS_BECOMES_UNAVAILABLE", "STATE_CHANGED_BEFORE_COMMIT"}
ApprovalEvents == {"APPROVAL_GRANTED", "APPROVAL_REJECTED", "APPROVAL_PENDING"}
DynamicEvents == OfferingEvents \cup {"TEMPORARY_TRANSACTION_FAILURE"}

NoEvent == [type |-> "NONE", target |-> "none", version |-> 0]
Event(type, target, version) == [type |-> type, target |-> target, version |-> version]

\* What the event's mutation writes: seats, runtime status, the waiting list, or
\* a decision.  A mutation always takes the version from `from` to from + 1.
ChangeOf == [
  VACANCY_BECOMES_ZERO |-> "FULL", CLASS_BECOMES_UNAVAILABLE |-> "WITHDRAWN",
  STATE_CHANGED_BEFORE_COMMIT |-> "WAITLIST",
  APPROVAL_GRANTED |-> "APPROVED", APPROVAL_REJECTED |-> "REJECTED", APPROVAL_PENDING |-> "PENDING"]

NoMutation == [target |-> "none", from |-> 0, change |-> "NONE", observable |-> FALSE]
MutationOf(event) ==
  IF event.type \in DOMAIN ChangeOf
  THEN [target |-> event.target, from |-> event.version, change |-> ChangeOf[event.type],
        observable |-> event.target = "approval"]
  ELSE NoMutation

\* The versions a step is bound to; 0 where it names none.
Unbound == [t \in Targets |-> 0]
Bound(t, version) == [Unbound EXCEPT ![t] = version]

Step(action, names, result, pre) ==
  [action |-> action, approval |-> "approval" \in names,
   state |-> IF names \cap States = {} THEN "none" ELSE CHOOSE s \in names \cap States : TRUE,
   retry |-> FALSE, result |-> result, retryable |-> FALSE, event |-> NoEvent, pre |-> pre,
   mutation |-> NoMutation]

\* A step an injected event decides.
Hit(action, names, event, retryable) ==
  [Step(action, names, ResultOf[event.type],
        IF event.version = 0 THEN Unbound ELSE Bound(event.target, event.version))
     EXCEPT !.event = event, !.retryable = retryable, !.mutation = MutationOf(event)]

Path(name, state, version, approval) ==
  [name |-> name, state |-> state, version |-> version, approval |-> approval]

-----------------------------------------------------------------------------
(* The generator *)

\* _build, the approval of a case by its position in the family.
DecisionAt(position) ==
  CASE position < 8 -> "APPROVED" [] position \in 8..15 -> "REJECTED" [] OTHER -> "PENDING"

NeedsApproval == {"S2", "S4", "S5"}
NeedsStatePair == {"S1", "S4", "S7"}

\* _observable_intake_readiness
IntakeReady(family, position) ==
  IF family # "S6" THEN "UNKNOWN" ELSE IF position % 2 = 0 THEN "NO" ELSE "YES"

GrantOf(decision) ==
  CHOOSE type \in ApprovalEvents : ChangeOf[type] = decision

FailureAt(position) ==
  LET type == <<"VACANCY_BECOMES_ZERO", "CLASS_BECOMES_UNAVAILABLE",
                "TEMPORARY_TRANSACTION_FAILURE", "STATE_CHANGED_BEFORE_COMMIT">>[(position % 4) + 1]
  IN Event(type, "pref", 1)

\* _build, the script of a case and the event its first step meets.
BuiltEvent(family, position) ==
  CASE family \in NeedsApproval -> Event(GrantOf(DecisionAt(position)), "approval", 1)
    [] family = "S7" -> FailureAt(position)
    [] family = "S6" -> IF position % 2 = 0
                        THEN Event("REQUIRED_INFORMATION_MISSING", "case", 0)
                        ELSE Event("CLASS_BECOMES_UNAVAILABLE", "pref", 1)
    [] OTHER -> NoEvent

\* Deviation of ApprovedFollowUp: the follow-up of S4 keeps the student's choice.
ApprovedFollowUpAsRequested(family) ==
  CASE family = "S2" -> Step("SUBMIT_WAIVER", {"approval"}, "SUCCESS", Bound("approval", 2))
    [] family = "S4" -> Step("SUBMIT_REGISTRATION", {"approval", "pref"}, "SUCCESS",
                             [Bound("approval", 2) EXCEPT !["pref"] = 1])
    [] family = "S5" -> Step("SUBMIT_EXCEPTION", {"approval"}, "SUCCESS", Bound("approval", 2))

ApprovedFollowUp(family) ==
  CASE family = "S2" -> Step("SUBMIT_WAIVER", {"approval"}, "SUCCESS", Bound("approval", 2))
    [] family = "S4" -> Step("SUBMIT_REGISTRATION", {"approval", "alt"}, "SUCCESS",
                             [Bound("approval", 2) EXCEPT !["alt"] = 1])
    [] family = "S5" -> Step("SUBMIT_EXCEPTION", {"approval"}, "SUCCESS", Bound("approval", 2))

BuiltSteps(family, position, unresolvable) ==
  LET event == BuiltEvent(family, position)
      Register == Step("SUBMIT_REGISTRATION", {"alt"}, "SUCCESS", Bound("alt", 1))
  IN
  CASE family \in NeedsApproval ->
         <<Hit("REQUEST_APPROVAL", {"approval"}, event, FALSE)>> \o
         (IF event.type = "APPROVAL_GRANTED" THEN <<ApprovedFollowUp(family)>> ELSE <<>>)
    [] family = "S7" -> <<Hit("SUBMIT_REGISTRATION", {"pref"}, event, TRUE), [Register EXCEPT !.retry = TRUE]>>
    [] family = "S6" -> <<Hit("SUBMIT_EXCEPTION", {event.target} \cap States, event, FALSE)>>
    [] family = "S1" -> <<Register>>
    [] family = "S3" -> <<Step("SUBMIT_EXCEPTION", {},
                               IF unresolvable THEN "REQUIRED_INFORMATION_MISSING" ELSE "SUCCESS",
                               Unbound)>>

\* _build, the expected outcome.
BuiltOutcome(family, position, unresolvable) ==
  CASE \/ family \in {"S1", "S7"}
       \/ family = "S3" /\ ~unresolvable
       \/ family \in NeedsApproval /\ DecisionAt(position) = "APPROVED" -> "RESOLVED"
    [] family \in NeedsApproval /\ DecisionAt(position) = "PENDING" -> "PENDING_APPROVAL"
    [] \/ family = "S3" /\ unresolvable
       \/ family = "S6" /\ position % 2 = 0 -> "CLARIFICATION_REQUIRED"
    [] OTHER -> "ESCALATED"

\* _build, the paths of the ground truth.
BuiltInitial(family, resolved) ==
  CASE family \in NeedsApproval -> {Path("request-approval", "none", 0, TRUE)}
    [] family = "S1" -> {Path("conflict-free-alternative", "alt", 0, FALSE)}
    [] family = "S7" -> {Path("pre-event-index", "pref", 1, FALSE)}
    [] OTHER -> IF resolved THEN {Path("grounded-resolution", "none", 0, FALSE)} ELSE {}

BuiltFinal(family, event, resolved) ==
  CASE family \in NeedsApproval ->
         IF resolved
         THEN {Path("approved-followup", IF family = "S4" THEN "alt" ELSE "none", 0, TRUE)}
         ELSE {}
    [] family = "S7" ->
         {Path("post-event-alternative", "alt", 0, FALSE)} \cup
         (CASE event.type = "TEMPORARY_TRANSACTION_FAILURE" ->
                 {Path("refreshed-original-index", "pref", 1, FALSE)}
            [] event.type = "STATE_CHANGED_BEFORE_COMMIT" ->
                 {Path("refreshed-original-index", "pref", 2, FALSE)}
            [] OTHER -> {})
    [] OTHER -> {}

BuiltInvalid(family, event) ==
  CASE family \in {"S1", "S4"} -> {Path("invalid-conflicting-index", "pref", 0, FALSE)}
    [] family = "S7" /\ event.type # "TEMPORARY_TRANSACTION_FAILURE" ->
         {Path("invalidated-index", "pref",
               IF event.type = "STATE_CHANGED_BEFORE_COMMIT" THEN 1 ELSE 0, FALSE)}
    [] OTHER -> {}

\* _build chooses target, base class and alternative so that S1, S4 and S7 are
\* feasible; the other families take any base class and any target.
FeasibleTuple(family, student) ==
  family \in NeedsStatePair =>
    /\ student.clashes = IF family = "S7" THEN {} ELSE {"pref"}
    /\ student.prerequisite = "PASS" /\ ~student.overload /\ ~student.excluded

\* The students of a family, by their position in it.
Students(family) ==
  {student \in [position : 0..19, unresolvable : IF family = "S3" THEN BOOLEAN ELSE {FALSE},
                clashes : {{}, {"pref"}}, prerequisite : {"PASS", "FAIL"},
                overload : BOOLEAN, excluded : BOOLEAN] :
     FeasibleTuple(family, student)}

\* The package of one.  Both class states exist in the simulated data, at version 1,
\* open and with a seat, whether or not the scenario links them.
BuiltPackage(family, student) ==
  LET event == BuiltEvent(family, student.position)
      outcome == BuiltOutcome(family, student.position, student.unresolvable)
      ready == IntakeReady(family, student.position)
      linked == IF family \in NeedsStatePair THEN States ELSE {"pref"}
  IN
  [family |-> family, ready |-> ready, questions |-> ready = "NO",
   approval |-> IF family \in NeedsApproval THEN DecisionAt(student.position) ELSE "NONE",
   documents |-> TRUE, indeterminate |-> student.unresolvable,
   seats |-> [s \in States |-> 1], offers |-> States,
   clashes |-> student.clashes, prerequisite |-> student.prerequisite,
   overload |-> student.overload, excluded |-> student.excluded,
   demanding |-> family = "S2", onPath |-> family = "S5", primary |-> family # "S5",
   linked |-> linked,
   observed |-> [s \in States |-> IF s \in linked THEN 1 ELSE 0],
   pair |-> IF family \in NeedsStatePair THEN <<"pref", "alt">> ELSE <<"none", "none">>,
   steps |-> BuiltSteps(family, student.position, student.unresolvable), event |-> event,
   human |-> family \in NeedsApproval, outcome |-> outcome,
   initial |-> BuiltInitial(family, outcome = "RESOLVED"),
   final |-> BuiltFinal(family, event, outcome = "RESOLVED"),
   invalid |-> BuiltInvalid(family, event)]

BuiltPackages(family) == {BuiltPackage(family, student) : student \in Students(family)}

-----------------------------------------------------------------------------
(* What can be constructed: the model validators *)

\* InjectedEvent.validate_target
EventValid(event) ==
  /\ event.type \in OfferingEvents => event.target \in States /\ event.version # 0
  /\ event.type \in ApprovalEvents => event.target = "approval" /\ event.version # 0

\* TransactionResult._validate_event_coherence
Coherent(step) ==
  LET event == step.event
      written == step.mutation
  IN
  /\ step.result = ResultOf[event.type]
  /\ IF event.type \in DOMAIN ChangeOf
     THEN /\ written.target = event.target
          /\ event.type # "STATE_CHANGED_BEFORE_COMMIT" => written.change = ChangeOf[event.type]
     ELSE written = NoMutation

\* TransactionResult.validate_result
StepValid(step) ==
  /\ step.result \in Successes => ~step.retryable
  /\ step.result \in {"STALE_STATE", "TEMPORARY_SYSTEM_FAILURE"} => step.retryable
  /\ step.event # NoEvent =>
       /\ EventValid(step.event)
       /\ step.event.version # 0 =>
            step.event.target \in Targets /\ step.pre[step.event.target] = step.event.version
       /\ Coherent(step)

\* TransactionScript.validate_steps
ScriptValid(steps) ==
  /\ steps # <<>>
  /\ \A i \in DOMAIN steps : StepValid(steps[i])
  /\ \A i \in 1..(Len(steps) - 1) : steps[i].result \in Successes \/ steps[i].retryable

\* ExceptionCase.validate_case: an incomplete submission has questions, no other does.
CaseValid(p) == p.questions <=> p.ready = "NO"

\* ScenarioGroundTruth.disjoint_path_sets, Scenario.validate_scenario
ScenarioValid(p) ==
  /\ \A x \in p.initial, y \in p.final : x.name # y.name
  /\ \A x \in p.initial \cup p.final, y \in p.invalid : x.name # y.name
  /\ p.family = "S7" => p.event.type \in DynamicEvents
  /\ p.event.type \in ApprovalEvents => p.human
  /\ p.event.target \in States => p.event.target \in p.linked
  /\ p.outcome = "RESOLVED" =>
       IF p.family = "S7" THEN p.initial # {} /\ p.final # {} ELSE p.initial \cup p.final # {}

Constructible(p) == CaseValid(p) /\ ScriptValid(p.steps) /\ EventValid(p.event) /\ ScenarioValid(p)

-----------------------------------------------------------------------------
(* The cross-file validator *)

Known(p, t) == t \in States \/ (t = "approval" /\ p.approval # "NONE")

\* _check_mutations: the versions its replay of the script has before each step.
\* Only mutations move them: the version is what the latest one before it leaves.
Latest(indices) == CHOOSE j \in indices : \A k \in indices : k <= j

Predicted(p) ==
  [i \in 1..(Len(p.steps) + 1) |-> [t \in Targets |->
     LET writers == {j \in DOMAIN p.steps : j < i /\ p.steps[j].mutation.target = t}
     IN IF writers = {} THEN 1 ELSE p.steps[Latest(writers)].mutation.from + 1]]

\* A decision with a date cannot become pending, nor one without a date final.
DecisionFits(seed, status) == seed = "PENDING" <=> status = "PENDING"

CheckMutations(p, i) ==
  LET step == p.steps[i]
      version == Predicted(p)[i]
      written == step.mutation
  IN
  /\ \A t \in Targets : step.pre[t] # 0 => Known(p, t) /\ step.pre[t] = version[t]
  /\ written.target # "none" =>
       /\ Known(p, written.target) /\ written.from = version[written.target]
       /\ IF written.target = "approval"
          THEN written.change \in Decisions /\ DecisionFits(p.approval, written.change)
          ELSE written.change \in {"FULL", "WITHDRAWN", "WAITLIST"}

\* _check_script_event_target, and the binding of approval events in _check_scripts.
CheckEventTarget(p, step) ==
  /\ step.event # NoEvent => step.event.target = "case" \/ Known(p, step.event.target)
  /\ step.event.target = "approval" => step.approval /\ step.mutation.observable

\* _check_scripts
CheckScripts(p) ==
  \A i \in DOMAIN p.steps :
    LET step == p.steps[i] IN
    /\ CheckEventTarget(p, step)
    /\ step.approval => Known(p, "approval")
    /\ step.approval /\ step.event = NoEvent /\ step.action # "REQUEST_APPROVAL"
         /\ step.result \in Successes => step.pre["approval"] = 2
    /\ step.action = "SUBMIT_REGISTRATION" => step.state # "none" /\ step.pre[step.state] # 0
    /\ CheckMutations(p, i)

\* _check_approvals: an approval is granted on documents provided and not rejected.
CheckApprovals(p) == p.approval = "APPROVED" => p.documents

\* _check_initial_context_contract and _check_scenario_target_course
CheckContext(p) ==
  /\ \A s \in States : p.observed[s] = IF s \in p.linked THEN 1 ELSE 0
  /\ p.linked # {} /\ p.linked \subseteq p.offers

\* _state_initially_usable
InitiallyUsable(p, s) == p.seats[s] > 0

\* _check_resolution_paths
CheckPaths(p) ==
  \A x \in p.initial \cup p.final \cup p.invalid :
    /\ x.state # "none" =>
         /\ x.state \in p.linked
         /\ x \in p.invalid \/ InitiallyUsable(p, x.state)
    /\ x.approval => Known(p, "approval")

\* _check_script_scenario_bindings
CheckBindings(p) ==
  \A i \in DOMAIN p.steps : p.steps[i].state \in p.linked \cup {"none"}

\* _expected_outcome_for_terminal
OutcomeOf(result, decision) ==
  IF decision = "REJECTED" THEN "ESCALATED"
  ELSE IF decision = "PENDING" THEN "PENDING_APPROVAL"
  ELSE CASE result \in Successes -> "RESOLVED"
         [] result = "REQUIRED_INFORMATION_MISSING" -> "CLARIFICATION_REQUIRED"
         [] result = "APPROVAL_PENDING" -> "PENDING_APPROVAL"
         [] result \in {"STALE_STATE", "TEMPORARY_SYSTEM_FAILURE"} -> "FAILED"
         [] OTHER -> "ESCALATED"

\* _check_expected_outcome: the last step decides, and fits the decision.
CheckOutcome(p) ==
  LET terminal == p.steps[Len(p.steps)].result IN
  /\ p.outcome = OutcomeOf(terminal, p.approval)
  /\ CASE p.approval = "APPROVED" -> terminal \in Successes
       [] p.approval = "REJECTED" -> terminal = "APPROVAL_REJECTED"
       [] p.approval = "PENDING" -> terminal = "APPROVAL_PENDING"
       [] OTHER -> TRUE

\* _check_observable_intake_readiness
CheckIntake(p) ==
  IF p.family # "S6" THEN p.ready = "UNKNOWN" /\ ~p.questions
  ELSE /\ p.event.type = "REQUIRED_INFORMATION_MISSING" => p.ready = "NO" /\ p.questions
       /\ p.event.type = "CLASS_BECOMES_UNAVAILABLE" => p.ready = "YES" /\ ~p.questions

\* Deviation of CheckFeasibility: the family's own rules are trusted.
TrustFeasibility(p) == TRUE

\* _check_registration_feasibility: judged by the initial records.
CheckFeasibility(p) ==
  \A i \in DOMAIN p.steps :
    LET step == p.steps[i] IN
    step.action = "SUBMIT_REGISTRATION" /\ step.result \in Successes =>
      /\ step.state # "none" => InitiallyUsable(p, step.state) /\ step.state \notin p.clashes
      /\ p.prerequisite = "PASS" /\ ~p.overload

\* _check_family_semantics, S1, S4 and S7
CheckStatePair(p) ==
  LET preferred == p.pair[1]
      alternative == p.pair[2]
      first == {x.state : x \in p.initial} \ {"none"}
      last == {x.state : x \in p.final} \ {"none"}
  IN
  /\ preferred # alternative
  /\ {preferred, alternative} \subseteq p.linked
  /\ \A s \in {preferred, alternative} : InitiallyUsable(p, s)
  /\ preferred \in p.clashes <=> p.family # "S7"
  /\ alternative \notin p.clashes
  /\ p.prerequisite = "PASS" /\ ~p.overload
  /\ p.family = "S7" =>
       /\ preferred \in first /\ alternative \in last /\ last \ first # {}
       /\ p.event.type \in {"VACANCY_BECOMES_ZERO", "CLASS_BECOMES_UNAVAILABLE"} =>
            preferred \notin last

\* _check_family_semantics
CheckFamily(p) ==
  /\ p.family = "S2" => p.demanding
  /\ p.family = "S5" => p.onPath /\ ~p.primary
  /\ CheckFeasibility(p)
  /\ p.family \in NeedsStatePair => CheckStatePair(p)
  /\ p.family = "S6" =>
       \/ p.event.type = "REQUIRED_INFORMATION_MISSING" /\ p.event.target = "case"
       \/ p.event.type = "CLASS_BECOMES_UNAVAILABLE" /\ p.event.target \in p.linked

\* The steps that meet the scenario's event.
Meetings(p) == {i \in DOMAIN p.steps : p.steps[i].event = p.event}

\* _check_scenario_event, and what _check_scenarios asks where there is none.
CheckScenarioEvent(p) ==
  IF p.event = NoEvent THEN \A i \in DOMAIN p.steps : p.steps[i].event = NoEvent
  ELSE /\ p.event.target = "case" \/ Known(p, p.event.target)
       /\ p.event.target \in Targets => p.event.version \in {0, 1}
       /\ p.event.type \in ApprovalEvents => ChangeOf[p.event.type] = p.approval
       /\ \E i \in DOMAIN p.steps : Meetings(p) = {i}

\* _check_scenarios, for one scenario
CheckScenario(p) ==
  /\ CheckContext(p) /\ CheckPaths(p) /\ CheckBindings(p) /\ CheckOutcome(p)
  /\ CheckIntake(p) /\ CheckFamily(p) /\ CheckScenarioEvent(p)
  /\ p.human <=> p.approval # "NONE"

\* validate_stage3_data, the checks a single scenario can fail.
Accepted(p) == CheckApprovals(p) /\ CheckScripts(p) /\ CheckScenario(p)

-----------------------------------------------------------------------------
(* Edits: what somebody who touches the files may change *)

Actions == {"REQUEST_APPROVAL", "SUBMIT_REGISTRATION", "SUBMIT_WAIVER", "SUBMIT_EXCEPTION"}
SomeEvents ==
  {NoEvent, Event("REQUIRED_INFORMATION_MISSING", "case", 0)}
    \cup {Event(type, "approval", 1) : type \in ApprovalEvents}
    \cup {Event(type, s, 1) : type \in DynamicEvents, s \in States}

\* Another class, bound to a version of it.
Retargeted(step, s, version) ==
  [step EXCEPT !.state = s, !.pre = [Bound(s, version) EXCEPT !["approval"] = step.pre["approval"]]]

EditedSteps(step) ==
  {Retargeted(step, s, version) : s \in States, version \in 1..2}
    \cup {[step EXCEPT !.pre[t] = version] : t \in Targets, version \in 0..2}
    \cup {[step EXCEPT !.approval = ~@], [step EXCEPT !.retryable = ~@],
          [step EXCEPT !.mutation = NoMutation], [step EXCEPT !.mutation.from = 2],
          [step EXCEPT !.mutation.observable = ~@]}
    \cup {[step EXCEPT !.action = action] : action \in Actions}
    \cup {[step EXCEPT !.result = ResultOf[type]] : type \in DOMAIN ResultOf}
    \cup {[step EXCEPT !.event = event, !.mutation = MutationOf(event)] : event \in SomeEvents}

EditedScripts(steps) ==
  (UNION {{[steps EXCEPT ![i] = step] : step \in EditedSteps(steps[i])} : i \in DOMAIN steps})
    \cup {SubSeq(steps, 1, Len(steps) - 1), Append(steps, steps[Len(steps)]), Tail(steps),
          [i \in DOMAIN steps |-> steps[Len(steps) + 1 - i]]}

\* The records of the student, the course and the approval.
EditedRecords(p) ==
  {[p EXCEPT !.approval = decision] : decision \in Decisions \cup {"NONE"}}
    \cup {[p EXCEPT !.clashes = clashes] : clashes \in SUBSET States}
    \cup {[p EXCEPT !.offers = offers] : offers \in SUBSET States}
    \cup {[p EXCEPT !.prerequisite = result] : result \in {"PASS", "FAIL", "UNKNOWN"}}
    \cup {[p EXCEPT !.seats[s] = 0] : s \in States}

\* The scenario, what it observes and what it hides.
EditedScenario(p) ==
  {[p EXCEPT !.linked = linked] : linked \in SUBSET States}
    \cup {[p EXCEPT !.observed[s] = 2] : s \in States}
    \cup {[p EXCEPT !.event = event] : event \in SomeEvents}
    \cup {[p EXCEPT !.outcome = outcome] :
            outcome \in {"RESOLVED", "PENDING_APPROVAL", "CLARIFICATION_REQUIRED", "FAILED", "ESCALATED"}}
    \cup {[p EXCEPT !.pair = <<"alt", "pref">>], [p EXCEPT !.pair = <<"none", "none">>]}
    \cup {[p EXCEPT !.initial = {}], [p EXCEPT !.final = {}], [p EXCEPT !.invalid = {}],
          [p EXCEPT !.final = @ \cup p.initial], [p EXCEPT !.final = @ \cup p.invalid, !.invalid = {}]}

\* What the case says of its submission.
EditedIntake(p) ==
  {[p EXCEPT !.ready = intake[1], !.questions = intake[2]] :
     intake \in {"UNKNOWN", "YES", "NO"} \X BOOLEAN}

Facts == {"overload", "excluded", "human", "documents", "demanding", "onPath"}
EditedFacts(p) == {[p EXCEPT ![fact] = ~@] : fact \in Facts}

Edited(p) ==
  {[p EXCEPT !.steps = steps] : steps \in EditedScripts(p.steps) \ {<<>>}}
    \cup EditedRecords(p) \cup EditedScenario(p) \cup EditedIntake(p) \cup EditedFacts(p)

-----------------------------------------------------------------------------
(* The replay: a caller that performs each step with the versions it names *)

\* ScenarioRuntimeFactory.build: the session holds the classes the scenario links, and
\* the decision of its case.
Held(p) == p.linked \cup IF p.approval = "NONE" THEN {} ELSE {"approval"}

FreshWorld(p) ==
  [cursor |-> 1, decision |-> p.approval, seen |-> FALSE, version |-> [t \in Targets |-> 1],
   seats |-> p.seats, open |-> p.linked,
   case |-> IF p.family \in NeedsApproval THEN "WAITING_FOR_APPROVAL" ELSE "OPEN",
   registered |-> {}]

\* ActionEngine._validate_call
NamesTarget(step) == step.action = "SUBMIT_EXCEPTION" \/ step.approval \/ step.state # "none"

\* ActionEngine._validate_approval_gate
GateOpen(p, step) ==
  IF step.action = "REQUEST_APPROVAL" THEN p.approval # "NONE" /\ step.approval
  ELSE p.approval # "NONE" => step.approval /\ world.seen /\ world.decision = "APPROVED"

\* ActionEngine._validate_versions
Current(p, step) ==
  \A t \in Targets : step.pre[t] # 0 => t \in Held(p) /\ step.pre[t] = world.version[t]

\* ActionEngine._apply_script_mutation: which mutations the session takes.
Applicable(p, written) ==
  written.target # "none" =>
    /\ written.target \in Held(p)
    /\ written.from = world.version[written.target]
    /\ written.target = "approval" => DecisionFits(p.approval, written.change)

\* Deviation of Mutated: a class changes under the version it had.
MutatedInPlace(written) ==
  CASE written.target = "none" -> world
    [] written.target = "approval" ->
         [world EXCEPT !.decision = written.change, !.version["approval"] = @ + 1,
                       !.seen = written.observable]
    [] OTHER ->
         [world EXCEPT !.seats[written.target] = IF written.change = "FULL" THEN 0 ELSE @,
                       !.open = IF written.change = "WITHDRAWN" THEN @ \ {written.target} ELSE @]

\* What a mutation leaves behind.
Mutated(written) ==
  CASE written.target = "none" -> world
    [] written.target = "approval" ->
         [world EXCEPT !.decision = written.change, !.version["approval"] = @ + 1,
                       !.seen = written.observable]
    [] OTHER ->
         [world EXCEPT !.version[written.target] = @ + 1,
                       !.seats[written.target] = IF written.change = "FULL" THEN 0 ELSE @,
                       !.open = IF written.change = "WITHDRAWN" THEN @ \ {written.target} ELSE @]

\* ActionEngine._commit_registration: a free class, a first registration of the
\* course, and no overload.  Timetable, prerequisite and exclusions are not asked.
Registrable(p, step, after) ==
  /\ step.state \in after.open /\ after.seats[step.state] > 0
  /\ after.registered = {} /\ ~p.overload

IsGoalEffect(step) == step.result \in Successes /\ step.action # "REQUEST_APPROVAL"

CaseAfter(step, case) ==
  IF step.action = "REQUEST_APPROVAL"
  THEN CASE step.result \in Successes -> "READY_FOR_ACTION"
         [] step.result = "APPROVAL_PENDING" -> "WAITING_FOR_APPROVAL"
         [] OTHER -> "INVESTIGATING"
  ELSE CASE IsGoalEffect(step) -> "RESOLVED"
         [] step.result = "REQUIRED_INFORMATION_MISSING" -> "WAITING_FOR_STUDENT"
         [] OTHER -> case

Registers(step) == IsGoalEffect(step) /\ step.action = "SUBMIT_REGISTRATION"

\* ActionEngine._apply_step
Applied(step, after) ==
  [after EXCEPT !.cursor = @ + 1, !.case = CaseAfter(step, @),
     !.seats = [s \in States |-> IF Registers(step) /\ s = step.state THEN @[s] - 1 ELSE @[s]],
     !.version = [t \in Targets |-> IF Registers(step) /\ t = step.state THEN @[t] + 1 ELSE @[t]],
     !.registered = IF Registers(step) THEN @ \cup {step.state} ELSE @]

\* ActionEngine.execute for the next step of the script.
Executable(p, step) ==
  /\ NamesTarget(step) /\ GateOpen(p, step) /\ Current(p, step) /\ Applicable(p, step.mutation)
  /\ Registers(step) => Registrable(p, step, Mutated(step.mutation))

-----------------------------------------------------------------------------
(* Specification *)

Init ==
  /\ pkg \in UNION {BuiltPackages(family) : family \in Families}
  /\ edits = 0 /\ phase = "draft" /\ world = FreshWorld(pkg)

Edit ==
  /\ phase = "draft" /\ edits < MaxEdits
  /\ pkg' \in Edited(pkg) \ {pkg}
  /\ edits' = edits + 1
  /\ world' = FreshWorld(pkg')
  /\ UNCHANGED phase

Validate ==
  /\ phase = "draft"
  /\ phase' = IF Constructible(pkg) /\ Accepted(pkg) THEN "accepted" ELSE "refused"
  /\ UNCHANGED <<pkg, edits, world>>

Replay ==
  /\ phase = "accepted"
  /\ IF world.cursor > Len(pkg.steps) THEN phase' = "replayed" /\ UNCHANGED world
     ELSE LET step == pkg.steps[world.cursor] IN
          IF Executable(pkg, step)
          THEN world' = Applied(step, Mutated(step.mutation)) /\ UNCHANGED phase
          ELSE phase' = "stuck" /\ UNCHANGED world
  /\ UNCHANGED <<pkg, edits>>

Next == Edit \/ Validate \/ Replay

Spec == Init /\ [][Next]_vars

-----------------------------------------------------------------------------
(* Properties *)

\* What a case looks like at the end of a script with a given outcome.
Shows(case, outcome) ==
  CASE outcome = "RESOLVED" -> case = "RESOLVED"
    [] outcome = "PENDING_APPROVAL" -> case = "WAITING_FOR_APPROVAL"
    [] outcome = "CLARIFICATION_REQUIRED" -> case = "WAITING_FOR_STUDENT"
    [] OTHER -> case \in {"OPEN", "INVESTIGATING"}

\* Generator, model validators and cross-file validator, written apart, agree:
\* nothing the generator builds, at any position of any family, is refused.
BuiltPackagesAccepted == edits = 0 => phase # "refused"

\* The replay of a script meets no step refused, and at its end the case is as the
\* hidden expected outcome says.
ReplaysAsExpected ==
  /\ phase # "stuck"
  /\ phase = "replayed" => Shows(world.case, pkg.outcome)

\* The engine registers without looking at timetable or prerequisite.  Replaying
\* whatever package the validator lets through, it still registers only classes of
\* the target course that fit the timetable, for students who may take it.
RegistrationsAreFeasible ==
  \A s \in world.registered :
    s \in pkg.offers \ pkg.clashes /\ pkg.prerequisite = "PASS" /\ ~pkg.overload

\* Until a seat is taken, the versions the validator predicted for each step are
\* those of the session, in a replay and in an agent's run: no accepted script goes
\* stale under a faithful caller.
VersionsAsPredicted ==
  world.registered = {} =>
    \A t \in Held(pkg) : world.version[t] = Predicted(pkg)[world.cursor][t]

\* docs/development-log/stage_3_simulation_data_details.md: validation proves that
\* the exclusion predicate of S1, S4 and S7 holds.
AcceptedExclusionsHold ==
  phase = "accepted" /\ pkg.family \in NeedsStatePair => ~pkg.excluded

=============================================================================
