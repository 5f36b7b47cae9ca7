------------------------- MODULE ActionEngineProofs -------------------------
(***************************************************************************)
(* Theorems about the write path, for every data set, script, set of keys  *)
(* and set of requests that EngineAssumption admits.                       *)
(***************************************************************************)
EXTENDS ActionEngine, SequenceTheorems, TLAPS

-----------------------------------------------------------------------------
(* The script of a run *)

\* What the proofs use of a step of a script: stated for the decision its
\* approval request ends in.
ShapeDeciding(script, n, decision) ==
  LET step == script[n] IN
  /\ step \in Step
  /\ step.action = "REQUEST_APPROVAL" =>
       /\ n = 1
       /\ scenario.requirement
       /\ Targets(step) = {Approval}
       /\ step.mutations[Approval].from = SeedVersion
       /\ step.mutations[Approval].event = decision
  /\ step.action # "REQUEST_APPROVAL" =>
       /\ Targets(step) \subseteq Offerings
       /\ scenario.requirement => step.pre[Approval] # 0
  /\ step.action = "SUBMIT_REGISTRATION" => step.params.offering \in Offerings
  /\ IsGoalEffect(step) => n = Len(script)

StoredShape(script, n) == ShapeDeciding(script, n, scenario.seedStatus)

\* What the controller hands out decides nothing in an interactive run.
StepShape(script, n) ==
  ShapeDeciding(script, n,
                IF scenario.interactive THEN "PENDING" ELSE scenario.seedStatus)

ScriptShape(script) ==
  /\ script \in Seq(Step)
  /\ \A n \in 1..Len(script) : StepShape(script, n)

\* The stored script has the shape: the assumption on scenarios, restated.
LEMMA StoredScriptShape ==
  ASSUME scenario \in Scenarios
  PROVE  /\ scenario.script \in Seq(Step)
         /\ \A n \in 1..Len(scenario.script) : StoredShape(scenario.script, n)
PROOF
  <1> DEFINE script == scenario.script
  <1>1. scenario \in Scenario /\ WellFormed(scenario)
    BY EngineAssumption
  <1>2. script \in Seq(Step)
    BY <1>1 DEF Scenario
  <1>3. ASSUME NEW n \in 1..Len(script)
        PROVE  StoredShape(script, n)
    <2> DEFINE step == script[n]
    <2>1. n \in DOMAIN script /\ step \in Step
      BY <1>2
    <2>2. ASSUME step.action = "REQUEST_APPROVAL"
          PROVE  /\ n = 1 /\ scenario.requirement /\ Targets(step) = {Approval}
                 /\ step.mutations[Approval].from = SeedVersion
                 /\ step.mutations[Approval].event = scenario.seedStatus
                 /\ step.mutations[Approval].event = DecisionBehind(step.result)
      BY <1>1, <2>1, <2>2 DEF WellFormed, RequestsApprovalFirst,
         OnlyRequestMutatesApproval, RequestAgreesWithSeed
    <2>3. step.action # "REQUEST_APPROVAL" =>
            /\ Targets(step) \subseteq Offerings
            /\ scenario.requirement => step.pre[Approval] # 0
      <3>1. SeedVersion + 1 # 0
        BY EngineAssumption
      <3>2. QED
        BY <1>1, <2>1, <3>1 DEF WellFormed, OnlyRequestMutatesApproval,
           ProtectedWritesNameTheDecision
    <2>4. step.action = "SUBMIT_REGISTRATION" => step.params.offering \in Offerings
      BY <1>1, <2>1 DEF WellFormed, RegistrationNamesItsOffering
    <2>5. IsGoalEffect(step) => n = Len(script)
      BY <1>1, <2>1 DEF WellFormed, EffectEndsScript, IsGoalEffect
    <2>6. QED
      BY <2>1, <2>2, <2>3, <2>4, <2>5 DEF StoredShape, ShapeDeciding
  <1>4. QED
    BY <1>2, <1>3

\* What becomes of each step of a stored script when a human decides.
LEMMA InteractiveSteps ==
  ASSUME scenario \in Scenarios, NEW n \in 1..Len(scenario.script)
  PROVE  LET stored == scenario.script
             step == WithInteractiveApproval(stored)[n]
         IN
         \/ n = 1 /\ stored[1].action = "REQUEST_APPROVAL" /\ step = PendingForm(stored[1])
         \/ stored[n].action # "REQUEST_APPROVAL" /\ stored[1].action # "REQUEST_APPROVAL"
            /\ step = stored[n]
         \/ n > 1 /\ stored[n].action # "REQUEST_APPROVAL" /\ stored[1].action = "REQUEST_APPROVAL"
            /\ step = AfterDecision(stored[n], SeedVersion + 1)
PROOF
  <1> DEFINE stored == scenario.script
             first == FirstRequests(stored)
  <1>1. stored \in Seq(Step) /\ \A i \in 1..Len(stored) : StoredShape(stored, i)
    BY StoredScriptShape
  <1>2. /\ DOMAIN stored = 1..Len(stored) /\ Len(stored) \in Nat /\ 1 \in 1..Len(stored)
        /\ DOMAIN WithInteractiveApproval(stored) = 1..Len(stored)
    BY <1>1 DEF WithInteractiveApproval
  <1>3. \A i \in 1..Len(stored) : stored[i].action = "REQUEST_APPROVAL" =>
          i = 1 /\ stored[1].mutations[Approval].from = SeedVersion
    BY <1>1 DEF StoredShape, ShapeDeciding
  <1>4. first = IF stored[1].action = "REQUEST_APPROVAL" THEN {1} ELSE {}
    BY <1>2, <1>3 DEF FirstRequests
  <1>5. CASE stored[1].action # "REQUEST_APPROVAL"
    <2>1. stored[n].action # "REQUEST_APPROVAL"
      BY <1>3, <1>5
    <2>2. QED
      BY <1>2, <1>4, <1>5, <2>1 DEF WithInteractiveApproval
  <1>6. CASE stored[1].action = "REQUEST_APPROVAL" /\ n = 1
    BY <1>2, <1>4, <1>6 DEF WithInteractiveApproval
  <1>7. CASE stored[1].action = "REQUEST_APPROVAL" /\ n > 1
    <2>1. /\ n \notin first /\ \E i \in first : i < n
          /\ (CHOOSE i \in first : i < n) = 1
      BY <1>2, <1>4, <1>7
    <2>2. WithInteractiveApproval(stored)[n] = AfterDecision(stored[n], SeedVersion + 1)
      BY <1>2, <1>3, <1>7, <2>1 DEF WithInteractiveApproval
    <2>3. QED
      BY <1>3, <1>7, <2>2
  <1>8. QED
    BY <1>2, <1>5, <1>6, <1>7

\* Leaving the decision to a human keeps the shape: only the approval request
\* changes its outcome, and other steps at most the version they require.
LEMMA InteractiveScriptShape ==
  ASSUME scenario \in Scenarios, scenario.interactive
  PROVE  ScriptShape(WithInteractiveApproval(scenario.script))
PROOF
  <1> DEFINE stored == scenario.script
             script == WithInteractiveApproval(stored)
             raised == SeedVersion + 1
  <1>1. stored \in Seq(Step) /\ \A n \in 1..Len(stored) : StoredShape(stored, n)
    BY StoredScriptShape
  <1>2. DOMAIN stored = 1..Len(stored) /\ DOMAIN script = 1..Len(stored)
    BY <1>1 DEF WithInteractiveApproval
  <1>4. ASSUME NEW n \in 1..Len(stored)
        PROVE  \/ stored[n].action = "REQUEST_APPROVAL" /\ script[n] = PendingForm(stored[n])
               \/ /\ stored[n].action # "REQUEST_APPROVAL"
                  /\ script[n] = stored[n] \/ script[n] = AfterDecision(stored[n], raised)
    BY InteractiveSteps
  <1>5. ASSUME NEW n \in 1..Len(stored)
        PROVE  script[n] \in Step
    <2>1. StoredShape(stored, n) /\ stored[n] \in Step
      BY <1>1 DEF StoredShape, ShapeDeciding
    <2>2. CASE script[n] = PendingForm(stored[n])
      BY <2>1, <2>2 DEF PendingForm, Step, Mutations, Results, Decisions
    <2>3. CASE script[n] = AfterDecision(stored[n], raised)
      <3>1. \A e \in Entities : stored[n].pre[e] \in Nat
        BY <2>1 DEF Step, Views
      <3>2. \A e \in Entities : stored[n].pre[e] = raised => raised + 1 \in Nat
        BY <3>1
      <3>3. [e \in Entities |-> IF e = Approval /\ stored[n].pre[e] = raised
                                THEN raised + 1 ELSE stored[n].pre[e]] \in Views
        BY <3>1, <3>2 DEF Views
      <3>4. QED
        BY <2>1, <2>3, <3>3 DEF AfterDecision, Step
    <2>4. QED
      BY <1>4, <2>1, <2>2, <2>3
  <1>6. script \in Seq(Step) /\ Len(script) = Len(stored)
    <2>1. script \in [1..Len(stored) -> Step]
      BY <1>2, <1>5 DEF WithInteractiveApproval
    <2>2. Len(stored) \in Nat
      BY <1>1
    <2>3. script \in Seq(Step)
      BY <2>1, <2>2, SeqDef
    <2>4. QED
      BY <1>2, <2>2, <2>3
  <1>7. ASSUME NEW n \in 1..Len(stored)
        PROVE  StepShape(script, n)
    <2>1. StoredShape(stored, n) /\ script[n] \in Step
      BY <1>1, <1>5
    <2>2. CASE /\ stored[n].action = "REQUEST_APPROVAL"
               /\ script[n] = PendingForm(stored[n])
      <3> DEFINE pending == [event |-> "PENDING",
                             from |-> stored[n].mutations[Approval].from]
      <3>1. /\ Approval \in Entities
            /\ Targets(stored[n]) = {Approval}
            /\ stored[n].mutations[Approval].from = SeedVersion
        BY <2>1, <2>2 DEF StoredShape, ShapeDeciding, Entities
      <3>2. \A e \in Entities : script[n].mutations[e] =
              IF e = Approval THEN pending ELSE stored[n].mutations[e]
        BY <2>2 DEF PendingForm
      <3>3. pending # NoMutation
        BY DEF NoMutation
      <3>4. Targets(script[n]) = {Approval}
        BY <3>1, <3>2, <3>3 DEF Targets
      <3>5. /\ script[n].mutations[Approval].event = "PENDING"
            /\ script[n].mutations[Approval].from = SeedVersion
        BY <3>1, <3>2
      <3>6. /\ script[n].action = "REQUEST_APPROVAL"
            /\ script[n].result = "APPROVAL_PENDING"
        BY <2>2 DEF PendingForm
      <3>7. n = 1 /\ scenario.requirement
        BY <2>1, <2>2 DEF StoredShape, ShapeDeciding
      <3>8. QED
        BY <2>1, <3>4, <3>5, <3>6, <3>7 DEF StepShape, ShapeDeciding, IsGoalEffect
    <2>3. CASE stored[n].action # "REQUEST_APPROVAL" /\ script[n] = stored[n]
      BY <2>1, <2>3, <1>6 DEF StoredShape, StepShape, ShapeDeciding
    <2>4. CASE /\ stored[n].action # "REQUEST_APPROVAL"
               /\ script[n] = AfterDecision(stored[n], raised)
      <3>1. Targets(script[n]) = Targets(stored[n])
        BY <2>4 DEF Targets, AfterDecision
      <3>2. IsGoalEffect(script[n]) <=> IsGoalEffect(stored[n])
        BY <2>4 DEF IsGoalEffect, AfterDecision
      <3>3. /\ script[n].action = stored[n].action
            /\ script[n].params = stored[n].params
        BY <2>4 DEF AfterDecision
      <3>4. scenario.requirement => script[n].pre[Approval] # 0
        <4>1. Approval \in Entities
          BY DEF Entities
        <4>2. script[n].pre[Approval] = (IF stored[n].pre[Approval] = raised
                                         THEN raised + 1 ELSE stored[n].pre[Approval])
          BY <2>4, <4>1 DEF AfterDecision
        <4>3. stored[n].pre[Approval] \in Nat
          BY <2>1, <4>1 DEF StoredShape, ShapeDeciding, Step, Views
        <4>4. scenario.requirement => stored[n].pre[Approval] # 0
          BY <2>1, <2>4 DEF StoredShape, ShapeDeciding
        <4>5. CASE stored[n].pre[Approval] = raised
          <5>1. script[n].pre[Approval] = stored[n].pre[Approval] + 1
            BY <4>2, <4>5
          <5>2. QED
            BY <4>3, <5>1
        <4>6. CASE stored[n].pre[Approval] # raised
          <5>1. script[n].pre[Approval] = stored[n].pre[Approval]
            BY <4>2, <4>6
          <5>2. QED
            BY <4>4, <5>1
        <4>7. QED
          BY <4>5, <4>6
      <3>5. QED
        BY <1>6, <2>1, <2>4, <3>1, <3>2, <3>3, <3>4 DEF StoredShape, StepShape, ShapeDeciding
    <2>5. QED
      BY <1>4, <2>2, <2>3, <2>4
  <1>8. QED
    BY <1>6, <1>7 DEF ScriptShape

\* The script a run follows has the shape, interactive or not.
LEMMA ScriptOfRun ==
  ASSUME scenario \in Scenarios
  PROVE  ScriptShape(Script)
PROOF
  <1>1. CASE scenario.interactive
    BY <1>1, InteractiveScriptShape DEF Script
  <1>2. CASE ~scenario.interactive
    BY <1>2, StoredScriptShape DEF Script, ScriptShape, StoredShape, StepShape
  <1>3. QED
    BY <1>1, <1>2

\* The step the controller is about to hand out.
LEMMA NextStepShape ==
  ASSUME scenario \in Scenarios, cursor \in 0..Len(Script), cursor < Len(Script)
  PROVE  NextStep \in Step /\ StepShape(Script, cursor + 1)
PROOF
  <1>1. ScriptShape(Script) /\ Len(Script) \in Nat
    BY ScriptOfRun DEF ScriptShape
  <1>2. cursor + 1 \in 1..Len(Script)
    BY <1>1
  <1>3. QED
    BY <1>1, <1>2 DEF ScriptShape, StepShape, ShapeDeciding, NextStep

-----------------------------------------------------------------------------
(* Type correctness *)

\* The built session is well typed.
LEMMA InitTypeOK == Init => TypeOK
PROOF
  <1> SUFFICES ASSUME Init PROVE TypeOK
    OBVIOUS
  <1>1. scenario \in Scenario
    BY EngineAssumption DEF Init
  <1>2. Len(Script) \in Nat
    BY ScriptOfRun DEF Init, ScriptShape
  <1>3. cursor \in 0..Len(Script)
    BY <1>2 DEF Init
  <1>4. /\ approvalStatus \in Decisions \cup {"ABSENT"}
        /\ approvalVersion \in Nat
    BY <1>1, EngineAssumption DEF Init, Scenario, SeedVisible
  <1>5. entityVersions \in [Entities -> Nat]
    BY <1>4 DEF Init
  <1>6. workload \in Nat
    BY EngineAssumption DEF Init
  <1>7. QED
    BY <1>3, <1>4, <1>5, <1>6, EngineAssumption
       DEF Init, TypeOK, CaseStates, NoReply

\* A request that changes nothing but the reply.
LEMMA RefuseTypeOK ==
  ASSUME TypeOK,
         NEW code \in {"IDEMPOTENCY_CONFLICT", "INVALID_REQUEST", "APPROVAL_GATE",
                       "NOT_FOUND", "STALE_STATE", "MODULE_FULL", "CONSTRAINT_VIOLATION"},
         Refuse(code)
  PROVE  TypeOK'
PROOF
  <1>1. Script' = Script
    BY DEF Refuse, Script
  <1>2. reply' \in [code : {"NONE", "RECEIPT", "REPLAYED", "IDEMPOTENCY_CONFLICT",
                            "INVALID_REQUEST", "APPROVAL_GATE", "NOT_FOUND", "STALE_STATE",
                            "MODULE_FULL", "CONSTRAINT_VIOLATION"},
                    receipt : Nat]
    BY DEF Refuse
  <1>3. QED
    BY <1>1, <1>2 DEF TypeOK, Refuse, ledgerVars, offeringVars, approvalVars

\* A human decision keeps it well typed.
LEMMA DecisionTypeOK ==
  ASSUME TypeOK, NEW status \in Decisions, RecordHumanApproval(status)
  PROVE  TypeOK'
PROOF
  <1>1. Script' = Script
    BY DEF RecordHumanApproval, Script
  <1>2. entityVersions' \in [Entities -> Nat]
    BY DEF TypeOK, RecordHumanApproval, Entities
  <1>3. /\ approvalStatus' \in Decisions \cup {"ABSENT"}
        /\ approvalVersion' \in Nat /\ revision' \in Nat
        /\ caseState' \in CaseStates
    BY DEF TypeOK, RecordHumanApproval, CaseStates
  <1>4. /\ UNCHANGED <<scenario, cursor, receipts, idempotency>>
        /\ UNCHANGED <<seats, open, offeringVersion, registered, workload, reply>>
    BY DEF RecordHumanApproval, ledgerVars, offeringVars
  <1>5. QED
    BY <1>1, <1>2, <1>3, <1>4 DEF TypeOK

\* A committed step keeps it well typed: no seat is taken from an empty class.
LEMMA CommitTypeOK ==
  ASSUME TypeOK, NEW key \in Keys, NEW request \in Requests, Commit(key, request)
  PROVE  TypeOK'
PROOF
  <1> DEFINE step == NextStep
             o == step.params.offering
  <1>1. /\ step \in Step /\ StepShape(Script, cursor + 1)
        /\ cursor \in Nat /\ Len(Script) \in Nat /\ cursor < Len(Script)
        /\ Script[cursor + 1] = step
    BY ScriptOfRun, NextStepShape DEF Commit, StepMatches, TypeOK, NextStep, ScriptShape
  <1>2. \A e \in Entities : step.mutations[e] \in Mutations
    BY <1>1 DEF Step
  <1>3. IsRegistration(step) => o \in Offerings /\ CourseOf[o] \in Courses
    BY <1>1, EngineAssumption DEF IsRegistration, IsGoalEffect, StepShape, ShapeDeciding
  <1>4. \A e, v : e \in Entities /\ v \in Nat => Mutated(step, e, v) \in Nat
    BY <1>2 DEF Mutated, Mutations
  <1>5. \A e, v : e \in Entities /\ v \in Nat \ {0} => Mutated(step, e, v) \in Nat \ {0}
    BY <1>2 DEF Mutated, Mutations
  <1>6. scenario' = scenario /\ Script' = Script /\ cursor' \in 0..Len(Script)
    BY <1>1 DEF Commit, RecordReceipt, Script
  <1>7. seats' \in [Offerings -> Nat]
    <2>1. \A x \in Offerings : MutatedSeats(step)[x] \in Nat
      BY DEF MutatedSeats, TypeOK
    <2>2. ASSUME NEW x \in Offerings
          PROVE  MutatedSeats(step)[x] - Bump(TakesSeat(step, x)) \in Nat
      BY <2>1, <2>2 DEF Commit, TakesSeat, SeatFree, Bump
    <2>3. QED
      BY <2>2 DEF Commit, ApplyStep
  <1>8. open' \in [Offerings -> BOOLEAN]
    BY DEF Commit, ApplyStep, MutatedOpen
  <1>9. offeringVersion' \in [Offerings -> Nat \ {0}]
    <2>1. ASSUME NEW x \in Offerings
          PROVE  Mutated(step, x, offeringVersion[x]) + Bump(TakesSeat(step, x))
                   \in Nat \ {0}
      <3>1. Mutated(step, x, offeringVersion[x]) \in Nat \ {0}
        BY <1>5 DEF TypeOK, Entities
      <3>2. QED
        BY <3>1 DEF Bump
    <2>2. QED
      BY <2>1 DEF Commit, ApplyStep
  <1>10. approvalStatus' \in Decisions \cup {"ABSENT"}
    <2>1. CASE Approval \in Targets(step)
      <3>1. step.action = "REQUEST_APPROVAL"
        BY <1>1, <2>1, EngineAssumption DEF StepShape, ShapeDeciding
      <3>2. step.mutations[Approval].event \in Decisions
        BY <1>1, <3>1, EngineAssumption DEF StepShape, ShapeDeciding, TypeOK, Scenario, Decisions
      <3>3. QED
        BY <2>1, <3>2 DEF Commit, ApplyStep, MutatedStatus
    <2>2. CASE Approval \notin Targets(step)
      BY <2>2 DEF Commit, ApplyStep, MutatedStatus, TypeOK
    <2>3. QED
      BY <2>1, <2>2
  <1>11. approvalVersion' \in Nat
    BY <1>4 DEF Commit, ApplyStep, TypeOK, Entities
  <1>12. entityVersions' \in [Entities -> Nat]
    <2>1. ASSUME NEW e \in Entities
          PROVE  NextVersion(step, e) \in Nat
      <3>1. entityVersions[e] \in Nat /\ Mutated(step, e, entityVersions[e]) \in Nat
        BY <1>4 DEF TypeOK
      <3>2. \A c : entityVersions[e] + Bump(c) \in Nat
        BY <3>1 DEF Bump
      <3>3. ASSUME TakesSeat(step, e)
            PROVE  Mutated(step, e, offeringVersion[e]) + 1 \in Nat
        <4>1. e \in Offerings /\ offeringVersion[e] \in Nat
          BY <1>3, <3>3 DEF TakesSeat, TypeOK
        <4>2. QED
          BY <4>1, <1>4
      <3>4. QED
        BY <3>1, <3>2, <3>3 DEF NextVersion
    <2>2. QED
      BY <2>1 DEF Commit, ApplyStep
  <1>13. /\ registered' \subseteq [course : Courses, offering : Offerings]
         /\ workload' \in Nat
    <2>1. CASE IsRegistration(step)
      <3>1. Aus[CourseOf[o]] \in Nat
        BY <1>3, <2>1, EngineAssumption
      <3>2. QED
        BY <1>3, <2>1, <3>1 DEF Commit, ApplyStep, TypeOK
    <2>2. CASE ~IsRegistration(step)
      BY <2>2 DEF Commit, ApplyStep, TypeOK
    <2>3. QED
      BY <2>1, <2>2
  <1>14. caseState' \in CaseStates
    BY DEF Commit, ApplyStep, NextCaseState, TypeOK, CaseStates
  <1>15. receipts' \in Seq(Receipt)
    <2>1. [key |-> key, request |-> request, result |-> step.result,
           goalEffect |-> IsGoalEffect(step)] \in Receipt
      BY <1>1 DEF Receipt, Step, IsGoalEffect
    <2>2. QED
      BY <2>1 DEF Commit, RecordReceipt, TypeOK
  <1>16. idempotency' \in [Keys -> Nat] /\ revision' \in Nat
    BY DEF Commit, RecordReceipt, TypeOK
  <1>17. reply' \in [code : {"NONE", "RECEIPT", "REPLAYED", "IDEMPOTENCY_CONFLICT",
                             "INVALID_REQUEST", "APPROVAL_GATE", "NOT_FOUND", "STALE_STATE",
                             "MODULE_FULL", "CONSTRAINT_VIOLATION"},
                     receipt : Nat]
    BY DEF Commit, RecordReceipt, TypeOK
  <1>18. QED
    BY <1>6, <1>7, <1>8, <1>9, <1>10, <1>11, <1>12, <1>13, <1>14, <1>15, <1>16, <1>17
       DEF TypeOK

\* What a request can do: commit, or leave everything but the reply alone.
LEMMA ExecuteCases ==
  ASSUME TypeOK, NEW key \in Keys, NEW request \in Requests, Execute(key, request)
  PROVE  \/ Commit(key, request)
         \/ \E code \in {"IDEMPOTENCY_CONFLICT", "INVALID_REQUEST", "APPROVAL_GATE",
                         "NOT_FOUND", "STALE_STATE", "MODULE_FULL", "CONSTRAINT_VIOLATION"} :
              Refuse(code)
         \/ /\ reply' = [code |-> "REPLAYED", receipt |-> idempotency[key]]
            /\ UNCHANGED <<scenario, ledgerVars, offeringVars, approvalVars,
                           entityVersions, registered, workload, caseState, revision>>
PROOF
  BY DEF Execute, Replay, Rejected

\* Everything the session keeps stays of the kind its models declare, whatever
\* callers send: in particular no vacancy falls below zero and no version to it.
THEOREM TypeCorrect == Spec => []TypeOK
PROOF
  <1>1. Init => TypeOK
    BY InitTypeOK
  <1>2. TypeOK /\ [Next]_vars => TypeOK'
    <2> SUFFICES ASSUME TypeOK, [Next]_vars PROVE TypeOK'
      OBVIOUS
    <2>1. ASSUME NEW key \in Keys, NEW request \in Requests, Execute(key, request)
          PROVE  TypeOK'
      <3>1. CASE Commit(key, request)
        BY <3>1, CommitTypeOK
      <3>2. ASSUME NEW code \in {"IDEMPOTENCY_CONFLICT", "INVALID_REQUEST",
                                 "APPROVAL_GATE", "NOT_FOUND", "STALE_STATE", "MODULE_FULL",
                                 "CONSTRAINT_VIOLATION"},
                   Refuse(code)
            PROVE  TypeOK'
        BY <3>2, RefuseTypeOK
      <3>3. CASE /\ reply' = [code |-> "REPLAYED", receipt |-> idempotency[key]]
                 /\ UNCHANGED <<scenario, ledgerVars, offeringVars, approvalVars,
                                entityVersions, registered, workload, caseState,
                                revision>>
        <4>1. Script' = Script
          BY <3>3 DEF Script
        <4>2. reply' \in [code : {"NONE", "RECEIPT", "REPLAYED",
                                  "IDEMPOTENCY_CONFLICT", "INVALID_REQUEST",
                                  "APPROVAL_GATE", "NOT_FOUND", "STALE_STATE", "MODULE_FULL",
                                  "CONSTRAINT_VIOLATION"},
                          receipt : Nat]
          BY <3>3 DEF TypeOK
        <4>3. QED
          BY <3>3, <4>1, <4>2 DEF TypeOK, ledgerVars, offeringVars, approvalVars
      <3>4. QED
        BY <2>1, <3>1, <3>2, <3>3, ExecuteCases
    <2>2. ASSUME NEW status \in Decisions, RecordHumanApproval(status)
          PROVE  TypeOK'
      BY <2>2, DecisionTypeOK
    <2>3. CASE UNCHANGED vars
      <3>1. Script' = Script
        BY <2>3 DEF vars, Script
      <3>2. QED
        BY <2>3, <3>1 DEF TypeOK, vars, ledgerVars, offeringVars, approvalVars
    <2>4. QED
      BY <2>1, <2>2, <2>3 DEF Next
  <1>3. QED
    BY <1>1, <1>2, PTL DEF Spec

-----------------------------------------------------------------------------
(* The inductive invariant *)

\* The receipts are the steps handed out so far, with the script's own verdict
\* on whether each had the goal effect.
StepsTaken ==
  /\ cursor = Len(receipts)
  /\ \A i \in 1..Len(receipts) :
       /\ receipts[i].request.action = Script[i].action
       /\ receipts[i].result = Script[i].result
       /\ receipts[i].goalEffect = IsGoalEffect(Script[i])

\* Where a decision can come from: every receipt and every human decision
\* raised the revision, so a grant in a run that leaves the decision to a human
\* shows there; and before the first step the decision is either the visible
\* seed's or a human's.
DecisionGrounded ==
  /\ revision >= Len(receipts)
  /\ scenario.interactive /\ approvalStatus = "APPROVED" => revision > Len(receipts)
  /\ cursor = 0 /\ approvalStatus # "ABSENT" =>
       \/ approvalVersion > SeedVersion
       \/ /\ approvalVersion = SeedVersion
          /\ ~scenario.interactive
          /\ approvalStatus = scenario.seedStatus

Inv ==
  /\ TypeOK
  /\ OneReceiptPerKey
  /\ StepsTaken
  /\ VersionCopiesAgree
  /\ EffectOnlyWhenApproved
  /\ EffectSawTheDecision
  /\ ResolvedIffEffect
  /\ DecisionGrounded

\* The built session satisfies the inductive invariant.
LEMMA InitInv == Init => Inv
PROOF
  <1> SUFFICES ASSUME Init PROVE Inv
    OBVIOUS
  <1>1. TypeOK
    BY InitTypeOK
  <1>2. receipts = <<>> /\ Len(receipts) = 0 /\ cursor = 0 /\ revision = 0
    BY DEF Init
  <1>3. scenario.interactive => approvalStatus = "ABSENT"
    BY DEF Init, SeedVisible
  <1>4. approvalStatus # "ABSENT" =>
          approvalVersion = SeedVersion /\ approvalStatus = scenario.seedStatus
    BY DEF Init
  <1>5. VersionCopiesAgree
    <2>1. scenario.seedStatus # "ABSENT" /\ SeedVersion # 0
      BY <1>1, EngineAssumption DEF TypeOK, Scenario, Decisions
    <2>2. (approvalStatus = "ABSENT") <=> (approvalVersion = 0)
      BY <2>1 DEF Init
    <2>3. /\ \A x \in Offerings : x \in Entities /\ x # Approval
          /\ Approval \in Entities
      BY EngineAssumption DEF Entities
    <2>4. QED
      BY <2>2, <2>3 DEF Init, VersionCopiesAgree
  <1>6. OneReceiptPerKey /\ StepsTaken /\ EffectOnlyWhenApproved
        /\ EffectSawTheDecision
    BY <1>2 DEF Init, OneReceiptPerKey, StepsTaken, EffectOnlyWhenApproved,
       EffectSawTheDecision
  <1>7. ResolvedIffEffect
    BY <1>2 DEF Init, ResolvedIffEffect
  <1>8. DecisionGrounded
    BY <1>2, <1>3, <1>4 DEF DecisionGrounded
  <1>9. QED
    BY <1>1, <1>5, <1>6, <1>7, <1>8 DEF Inv

\* What a commit does to the ledger, and what it finds there: a case whose goal
\* effect happened has no step left to hand out.
LEMMA CommitFacts ==
  ASSUME Inv, NEW key \in Keys, NEW request \in Requests, Commit(key, request)
  PROVE  /\ NextStep \in Step /\ StepShape(Script, cursor + 1)
         /\ Script[cursor + 1] = NextStep /\ Script' = Script
         /\ Len(receipts) \in Nat /\ Len(receipts') = Len(receipts) + 1
         /\ \A i \in 1..Len(receipts) : receipts'[i] = receipts[i]
         /\ receipts'[Len(receipts) + 1] =
              [key |-> key, request |-> request, result |-> NextStep.result,
               goalEffect |-> IsGoalEffect(NextStep)]
         /\ \A i \in 1..Len(receipts) : ~receipts[i].goalEffect
         /\ caseState # "RESOLVED"
         /\ NextStep.action # "REQUEST_APPROVAL" =>
              approvalStatus' = approvalStatus /\ approvalVersion' = approvalVersion
PROOF
  <1>1. TypeOK
    BY DEF Inv
  <1>2. /\ NextStep \in Step /\ StepShape(Script, cursor + 1)
        /\ Script[cursor + 1] = NextStep /\ cursor < Len(Script)
    BY <1>1, NextStepShape DEF Commit, StepMatches, TypeOK, NextStep
  <1>3. Script' = Script
    BY DEF Commit, Script
  <1>4. /\ Len(receipts) \in Nat /\ Len(receipts') = Len(receipts) + 1
        /\ \A i \in 1..Len(receipts) : receipts'[i] = receipts[i]
        /\ receipts'[Len(receipts) + 1] =
             [key |-> key, request |-> request, result |-> NextStep.result,
              goalEffect |-> IsGoalEffect(NextStep)]
    BY <1>1 DEF TypeOK, Commit, RecordReceipt
  <1>5. ASSUME NEW i \in 1..Len(receipts), receipts[i].goalEffect
        PROVE  FALSE
    <2>1. IsGoalEffect(Script[i]) /\ cursor = Len(receipts)
      BY <1>5 DEF Inv, StepsTaken
    <2>2. i \in 1..Len(Script) /\ i < Len(Script)
      BY <1>1, <1>2, <1>4, <2>1 DEF TypeOK
    <2>3. StepShape(Script, i)
      BY <1>1, <2>2, ScriptOfRun DEF TypeOK, ScriptShape
    <2>4. QED
      BY <2>1, <2>2, <2>3 DEF StepShape, ShapeDeciding
  <1>6. caseState # "RESOLVED"
    BY <1>1, <1>4, <1>5 DEF Inv, ResolvedIffEffect, TypeOK
  <1>7. NextStep.action # "REQUEST_APPROVAL" =>
          approvalStatus' = approvalStatus /\ approvalVersion' = approvalVersion
    <2>1. NextStep.action # "REQUEST_APPROVAL" => Approval \notin Targets(NextStep)
      BY <1>2, EngineAssumption DEF StepShape, ShapeDeciding
    <2>2. QED
      BY <2>1 DEF Commit, ApplyStep, MutatedStatus, Mutated
  <1>8. QED
    BY <1>2, <1>3, <1>4, <1>5, <1>6, <1>7

\* A committed write keeps the inductive invariant.
LEMMA CommitInv ==
  ASSUME Inv, NEW key \in Keys, NEW request \in Requests, Commit(key, request)
  PROVE  Inv'
PROOF
  <1> DEFINE step == NextStep
             n == Len(receipts) + 1
             o == step.params.offering
  <1>1. TypeOK /\ TypeOK'
    BY CommitTypeOK DEF Inv
  <1>2. /\ step \in Step /\ StepShape(Script, cursor + 1)
        /\ Script[cursor + 1] = step /\ Script' = Script
        /\ Len(receipts) \in Nat /\ Len(receipts') = n
        /\ \A i \in 1..Len(receipts) : receipts'[i] = receipts[i]
        /\ receipts'[n] = [key |-> key, request |-> request, result |-> step.result,
                           goalEffect |-> IsGoalEffect(step)]
    BY CommitFacts
  <1>3. /\ \A i \in 1..Len(receipts) : ~receipts[i].goalEffect
        /\ caseState # "RESOLVED"
        /\ step.action # "REQUEST_APPROVAL" =>
             approvalStatus' = approvalStatus /\ approvalVersion' = approvalVersion
    BY CommitFacts
  <1>4. /\ cursor = Len(receipts) /\ cursor' = n
        /\ revision \in Nat /\ revision' = revision + 1 /\ revision >= Len(receipts)
        /\ scenario' = scenario /\ request.action = step.action
    BY <1>1, <1>2 DEF Inv, StepsTaken, DecisionGrounded, Commit, RecordReceipt,
       StepMatches, TypeOK
  <1>5. /\ DOMAIN receipts = 1..Len(receipts) /\ DOMAIN receipts' = 1..n
    BY <1>1, <1>2 DEF TypeOK
  <1>6. OneReceiptPerKey'
    <2>1. idempotency' = [idempotency EXCEPT ![key] = n] /\ idempotency[key] = 0
      BY DEF Commit, RecordReceipt
    <2>2. OneReceiptPerKey /\ idempotency \in [Keys -> Nat]
      BY <1>1 DEF Inv, TypeOK
    <2>3. ASSUME NEW k \in Keys, idempotency'[k] # 0
          PROVE  idempotency'[k] \in DOMAIN receipts'
                   /\ receipts'[idempotency'[k]].key = k
      BY <1>2, <1>5, <2>1, <2>2, <2>3 DEF OneReceiptPerKey
    <2>4. ASSUME NEW i \in DOMAIN receipts'
          PROVE  idempotency'[receipts'[i].key] = i
      <3>1. CASE i = n
        BY <1>2, <2>1, <2>2, <3>1
      <3>2. CASE i \in DOMAIN receipts
        <4>1. receipts'[i] = receipts[i] /\ idempotency[receipts[i].key] = i /\ i # 0
          BY <1>2, <1>5, <2>2, <3>2 DEF OneReceiptPerKey
        <4>2. receipts[i].key # key
          BY <2>1, <4>1
        <4>3. QED
          BY <2>1, <2>2, <4>1, <4>2
      <3>3. QED
        BY <1>2, <1>5, <3>1, <3>2
    <2>5. QED
      BY <2>3, <2>4 DEF OneReceiptPerKey
  <1>7. StepsTaken'
    <2>1. ASSUME NEW i \in 1..n
          PROVE  /\ receipts'[i].request.action = Script'[i].action
                 /\ receipts'[i].result = Script'[i].result
                 /\ receipts'[i].goalEffect = IsGoalEffect(Script'[i])
      <3>1. CASE i = n
        BY <1>2, <1>4, <3>1
      <3>2. CASE i \in 1..Len(receipts)
        BY <1>2, <3>2 DEF Inv, StepsTaken
      <3>3. QED
        BY <1>2, <3>1, <3>2
    <2>2. QED
      BY <1>2, <1>4, <2>1 DEF StepsTaken, IsGoalEffect
  <1>8. VersionCopiesAgree'
    <2>1. IsRegistration(step) => o \in Offerings
      BY <1>2 DEF IsRegistration, IsGoalEffect, StepShape, ShapeDeciding
    <2>2. ASSUME NEW x \in Offerings
          PROVE  entityVersions'[x] = offeringVersion'[x]
      <3>1. x \in Entities /\ x # Case /\ x # Registration
        BY EngineAssumption DEF Entities
      <3>2. entityVersions[x] = offeringVersion[x] /\ offeringVersion[x] \in Nat
        BY <1>1 DEF Inv, VersionCopiesAgree, TypeOK
      <3>3. Mutated(step, x, offeringVersion[x]) \in Nat
        BY <1>2, <3>1, <3>2 DEF Mutated, Step, Mutations
      <3>4. QED
        BY <3>1, <3>2, <3>3 DEF Commit, ApplyStep, NextVersion, Bump
    <2>3. entityVersions'[Approval] = approvalVersion'
      <3>1. Approval \in Entities /\ Approval # Case /\ Approval # Registration
        BY DEF Entities, Approval, Case, Registration
      <3>2. ~TakesSeat(step, Approval)
        BY <2>1, EngineAssumption DEF TakesSeat
      <3>3. entityVersions[Approval] = approvalVersion
        BY DEF Inv, VersionCopiesAgree
      <3>4. QED
        BY <3>1, <3>2, <3>3 DEF Commit, ApplyStep, NextVersion
    <2>4. (approvalStatus' = "ABSENT") <=> (approvalVersion' = 0)
      <3>1. CASE Approval \in Targets(step)
        <4>1. step.action = "REQUEST_APPROVAL"
          BY <1>2, <3>1, EngineAssumption DEF StepShape, ShapeDeciding
        <4>2. step.mutations[Approval].event # "ABSENT"
              /\ step.mutations[Approval].from \in Nat
          BY <1>1, <1>2, <4>1, EngineAssumption
             DEF StepShape, ShapeDeciding, TypeOK, Scenario, Decisions
        <4>3. QED
          BY <3>1, <4>2 DEF Commit, ApplyStep, Mutated, MutatedStatus
      <3>2. CASE Approval \notin Targets(step)
        BY <3>2 DEF Commit, ApplyStep, Mutated, MutatedStatus, Inv, VersionCopiesAgree
      <3>3. QED
        BY <3>1, <3>2
    <2>5. QED
      BY <2>2, <2>3, <2>4 DEF VersionCopiesAgree
  <1>9. EffectOnlyWhenApproved'
    <2>1. ASSUME scenario.requirement, IsGoalEffect(step)
          PROVE  /\ approvalStatus' = "APPROVED"
                 /\ scenario.interactive => revision' > n
      <3>1. step.action # "REQUEST_APPROVAL" /\ request.action # "REQUEST_APPROVAL"
        BY <1>4, <2>1 DEF IsGoalEffect
      <3>2. approvalStatus = "APPROVED"
        BY <2>1, <3>1 DEF Commit, GateOpen
      <3>3. scenario.interactive => revision > Len(receipts)
        BY <3>2 DEF Inv, DecisionGrounded
      <3>4. QED
        BY <1>2, <1>3, <1>4, <3>1, <3>2, <3>3
    <2>2. ASSUME NEW i \in 1..n, receipts'[i].goalEffect
          PROVE  i = n /\ IsGoalEffect(step)
      BY <1>2, <1>3, <2>2
    <2>3. QED
      BY <1>2, <1>4, <1>5, <2>1, <2>2 DEF EffectOnlyWhenApproved
  <1>10. ResolvedIffEffect'
    <2>1. (caseState' = "RESOLVED") <=> IsGoalEffect(step)
      BY <1>3 DEF Commit, ApplyStep, NextCaseState, IsGoalEffect
    <2>2. (\E i \in 1..n : receipts'[i].goalEffect) <=> IsGoalEffect(step)
      BY <1>2, <1>3
    <2>3. QED
      BY <1>5, <2>1, <2>2 DEF ResolvedIffEffect
  <1>11. DecisionGrounded'
    <2>1. scenario.interactive /\ approvalStatus' = "APPROVED" => revision' > n
      <3>1. ASSUME scenario.interactive, approvalStatus' = "APPROVED"
            PROVE  approvalStatus = "APPROVED"
        BY <1>2, <1>3, <3>1 DEF StepShape, ShapeDeciding, Commit, ApplyStep, MutatedStatus
      <3>2. QED
        BY <1>2, <1>4, <3>1 DEF Inv, DecisionGrounded
    <2>2. QED
      BY <1>2, <1>4, <2>1 DEF DecisionGrounded
  <1>12. EffectSawTheDecision'
    <2>1. ASSUME scenario.requirement, IsGoalEffect(step)
          PROVE  request.expected[Approval] = approvalVersion'
      <3>1. step.action # "REQUEST_APPROVAL" /\ request.action # "REQUEST_APPROVAL"
        BY <1>4, <2>1 DEF IsGoalEffect
      <3>2. Approval \in Entities /\ Approval \notin Offerings /\ step.pre[Approval] # 0
        BY <1>2, <2>1, <3>1, EngineAssumption DEF StepShape, ShapeDeciding, Entities
      <3>3. approvalStatus = "APPROVED"
        BY <2>1, <3>1 DEF Commit, GateOpen
      <3>4. CurrentVersion(Approval) = approvalVersion
        BY <3>2, <3>3 DEF CurrentVersion
      <3>5. QED
        BY <1>3, <3>1, <3>2, <3>4 DEF Commit, ViewSupplied, ViewCurrent
    <2>2. ASSUME NEW i \in 1..n, receipts'[i].goalEffect
          PROVE  receipts'[i].request = request /\ IsGoalEffect(step)
      BY <1>2, <1>3, <2>2
    <2>3. QED
      BY <1>4, <1>5, <2>1, <2>2 DEF EffectSawTheDecision
  <1>13. QED
    BY <1>1, <1>6, <1>7, <1>8, <1>9, <1>10, <1>11, <1>12 DEF Inv

\* A human decision keeps the inductive invariant: nothing it bears on has
\* happened yet.
LEMMA DecisionInv ==
  ASSUME Inv, NEW status \in Decisions, RecordHumanApproval(status)
  PROVE  Inv'
PROOF
  <1>1. TypeOK /\ TypeOK'
    BY DecisionTypeOK DEF Inv
  <1>2. /\ approvalStatus = "PENDING" /\ scenario.requirement
        /\ approvalStatus' = status /\ status # "ABSENT"
        /\ approvalVersion' = approvalVersion + 1 /\ approvalVersion \in Nat
        /\ revision' = revision + 1 /\ revision \in Nat
        /\ UNCHANGED <<scenario, cursor, receipts, idempotency, offeringVersion>>
        /\ Script' = Script
    BY <1>1 DEF RecordHumanApproval, ledgerVars, offeringVars, Script, Decisions, TypeOK
  <1>3. \A i \in DOMAIN receipts : ~receipts[i].goalEffect
    BY <1>2 DEF Inv, EffectOnlyWhenApproved
  <1>4. /\ OneReceiptPerKey' /\ StepsTaken'
        /\ EffectOnlyWhenApproved' /\ EffectSawTheDecision'
    BY <1>2, <1>3 DEF Inv, OneReceiptPerKey, StepsTaken, EffectOnlyWhenApproved,
       EffectSawTheDecision, IsGoalEffect
  <1>5. VersionCopiesAgree'
    <2>1. /\ Approval \in Entities /\ Approval # Case
          /\ \A x \in Offerings : x \in Entities /\ x # Approval /\ x # Case
      BY EngineAssumption DEF Entities, Approval, Case
    <2>2. entityVersions \in [Entities -> Nat]
      BY <1>1 DEF TypeOK
    <2>3. entityVersions' = [entityVersions EXCEPT ![Approval] = approvalVersion + 1,
                                                   ![Case] = @ + 1]
      BY DEF RecordHumanApproval
    <2>4. entityVersions'[Approval] = approvalVersion + 1
      BY <2>1, <2>2, <2>3
    <2>5. \A x \in Offerings : entityVersions'[x] = entityVersions[x]
      BY <2>1, <2>2, <2>3
    <2>6. QED
      BY <1>2, <2>4, <2>5 DEF Inv, VersionCopiesAgree
  <1>6. ResolvedIffEffect'
    BY <1>2, <1>3 DEF ResolvedIffEffect, RecordHumanApproval
  <1>7. DecisionGrounded'
    <2>1. Len(receipts) \in Nat /\ SeedVersion \in Nat
      BY <1>1, EngineAssumption DEF TypeOK
    <2>2. cursor = 0 => approvalVersion >= SeedVersion
      BY <1>2, <2>1 DEF Inv, DecisionGrounded
    <2>3. QED
      BY <1>2, <2>1, <2>2 DEF Inv, DecisionGrounded
  <1>8. QED
    BY <1>1, <1>4, <1>5, <1>6, <1>7 DEF Inv

\* A step that leaves everything but the reply alone.
LEMMA ReplyOnlyInv ==
  ASSUME Inv, TypeOK',
         UNCHANGED <<scenario, ledgerVars, offeringVars, approvalVars, entityVersions,
                     caseState, revision>>
  PROVE  Inv'
PROOF
  <1>1. UNCHANGED <<scenario, cursor, receipts, idempotency, offeringVersion,
                    approvalStatus, approvalVersion, entityVersions, caseState,
                    revision>>
        /\ Script' = Script
    BY DEF ledgerVars, offeringVars, approvalVars, Script
  <1>2. OneReceiptPerKey' /\ StepsTaken' /\ VersionCopiesAgree'
    BY <1>1 DEF Inv, OneReceiptPerKey, StepsTaken, VersionCopiesAgree, IsGoalEffect
  <1>3. /\ EffectOnlyWhenApproved' /\ EffectSawTheDecision'
        /\ ResolvedIffEffect' /\ DecisionGrounded'
    BY <1>1 DEF Inv, EffectOnlyWhenApproved, EffectSawTheDecision, ResolvedIffEffect,
       DecisionGrounded
  <1>4. QED
    BY <1>2, <1>3 DEF Inv

\* Every step keeps the inductive invariant.
LEMMA StepInv == Inv /\ TypeOK' /\ [Next]_vars => Inv'
PROOF
  <1> SUFFICES ASSUME Inv, TypeOK', [Next]_vars PROVE Inv'
    OBVIOUS
  <1>1. ASSUME NEW key \in Keys, NEW request \in Requests, Execute(key, request)
        PROVE  Inv'
    <2>1. CASE Commit(key, request)
      BY <2>1, CommitInv
    <2>2. CASE ~Commit(key, request)
      <3>1. UNCHANGED <<scenario, ledgerVars, offeringVars, approvalVars, entityVersions,
                        caseState, revision>>
        BY <1>1, <2>2, ExecuteCases DEF Inv, Refuse
      <3>2. QED
        BY <3>1, ReplyOnlyInv
    <2>3. QED
      BY <2>1, <2>2
  <1>2. ASSUME NEW status \in Decisions, RecordHumanApproval(status)
        PROVE  Inv'
    BY <1>2, DecisionInv
  <1>3. CASE UNCHANGED vars
    BY <1>3, ReplyOnlyInv DEF vars, ledgerVars, offeringVars, approvalVars
  <1>4. QED
    BY <1>1, <1>2, <1>3 DEF Next

\* The inductive invariant of the write path, from which the safety theorems
\* below follow.
THEOREM Invariance == Spec => []Inv
PROOF
  <1>1. Init => Inv
    BY InitInv
  <1>2. Inv /\ TypeOK' /\ [Next]_vars => Inv'
    BY StepInv
  <1>3. QED
    BY <1>1, <1>2, TypeCorrect, PTL DEF Spec

-----------------------------------------------------------------------------
(* Safety *)

\* No idempotency key has its write performed twice, for any number of callers,
\* keys and repetitions.
THEOREM IdempotentWrites == Spec => []OneReceiptPerKey
PROOF
  BY Invariance, PTL DEF Inv

\* The controller's cursor and the session's receipts never part, whatever is
\* refused in between.
THEOREM ReceiptsMatchScript == Spec => []ReceiptsFollowScript
PROOF
  <1>1. Inv => ReceiptsFollowScript
    BY DEF Inv, TypeOK, StepsTaken, ReceiptsFollowScript
  <1>2. QED
    BY <1>1, Invariance, PTL

\* The two copies of every version agree, for any number of offerings.
THEOREM VersionsConsistent == Spec => []VersionCopiesAgree
PROOF
  BY Invariance, PTL DEF Inv

\* No write takes effect in a protected case without a granted, visible approval,
\* and in an interactive run without a human's.
THEOREM ApprovalGuardsEffects == Spec => []EffectOnlyWhenApproved
PROOF
  BY Invariance, PTL DEF Inv

\* The write that took effect was built from the decision that stands.
THEOREM EffectsRestOnTheDecision == Spec => []EffectSawTheDecision
PROOF
  BY Invariance, PTL DEF Inv

\* A case is resolved exactly when its effect happened.
THEOREM ResolutionIsEarned == Spec => []ResolvedIffEffect
PROOF
  BY Invariance, PTL DEF Inv

\* No write commits on a stale view, and no refusal or replay commits one.
THEOREM ViewsCurrentAtCommit == Spec => CommitsOnlyCurrentViews
PROOF
  <1> DEFINE CommitSeesNow ==
        receipts' # receipts =>
          /\ reply'.code = "RECEIPT"
          /\ LET written == receipts'[Len(receipts')] IN
             \A e \in Entities :
               written.request.expected[e] # 0
                 => written.request.expected[e] = CurrentVersion(e)
  <1>1. Inv /\ [Next]_vars => [CommitSeesNow]_vars
    <2> SUFFICES ASSUME Inv, Next PROVE CommitSeesNow
      OBVIOUS
    <2>1. ASSUME NEW key \in Keys, NEW request \in Requests, Commit(key, request)
          PROVE  CommitSeesNow
      BY <2>1, CommitFacts DEF Commit, RecordReceipt, ViewCurrent
    <2>2. ASSUME NEW key \in Keys, NEW request \in Requests,
                 Execute(key, request), ~Commit(key, request)
          PROVE  receipts' = receipts
      BY <2>2, ExecuteCases DEF Inv, Refuse, ledgerVars
    <2>3. ASSUME NEW status \in Decisions, RecordHumanApproval(status)
          PROVE  receipts' = receipts
      BY <2>3 DEF RecordHumanApproval, ledgerVars
    <2>4. QED
      BY <2>1, <2>2, <2>3 DEF Next
  <1>2. QED
    BY <1>1, Invariance, PTL DEF Spec, CommitsOnlyCurrentViews

\* What a registration finds and does: a free seat in a class that exists, of a
\* course the student does not hold.
LEMMA RegistrationFacts ==
  ASSUME TypeOK, NEW key \in Keys, NEW request \in Requests, Commit(key, request),
         IsRegistration(NextStep)
  PROVE  LET o == NextStep.params.offering IN
         /\ o \in Offerings /\ CourseOf[o] \in Courses /\ Aus[CourseOf[o]] \in Nat
         /\ seats[o] > 0 /\ MutatedSeats(NextStep)[o] = seats[o]
         /\ CourseOf[o] \notin RegisteredAt
         /\ \A item \in registered : item.course # CourseOf[o]
         /\ workload + Aus[CourseOf[o]] <= WorkloadLimit
         /\ registered' = registered \cup {[course |-> CourseOf[o], offering |-> o]}
         /\ workload' = workload + Aus[CourseOf[o]]
PROOF
  <1> DEFINE o == NextStep.params.offering
  <1>1. o \in Offerings
    <2>1. scenario \in Scenarios /\ cursor \in 0..Len(Script) /\ cursor < Len(Script)
      BY DEF Commit, StepMatches, TypeOK
    <2>2. StepShape(Script, cursor + 1) /\ Script[cursor + 1] = NextStep
      BY <2>1, NextStepShape DEF NextStep
    <2>3. NextStep.action = "SUBMIT_REGISTRATION"
      BY DEF IsRegistration
    <2>4. QED
      BY <2>2, <2>3 DEF StepShape, ShapeDeciding
  <1>2. CourseOf[o] \in Courses /\ Aus[CourseOf[o]] \in Nat
    BY <1>1, EngineAssumption
  <1>3. SeatFree(NextStep) /\ Registrable(NextStep)
    BY DEF Commit
  <1>4. seats[o] > 0 /\ MutatedSeats(NextStep)[o] = seats[o]
    BY <1>1, <1>3 DEF SeatFree, MutatedSeats, TypeOK
  <1>5. QED
    BY <1>1, <1>2, <1>3, <1>4 DEF Registrable, Commit, ApplyStep

\* A committed write keeps the student's registrations sound.
LEMMA CommitRegistrationSound ==
  ASSUME TypeOK, RegistrationSound, NEW key \in Keys, NEW request \in Requests,
         Commit(key, request)
  PROVE  RegistrationSound'
PROOF
  <1>1. CASE IsRegistration(NextStep)
    <2> DEFINE o == NextStep.params.offering
               new == [course |-> CourseOf[o], offering |-> o]
    <2>1. /\ registered' = registered \cup {new}
          /\ \A item \in registered : item.course # CourseOf[o]
          /\ CourseOf[o] \notin RegisteredAt
          /\ workload' <= WorkloadLimit
      BY <1>1, RegistrationFacts
    <2>2. new.course = CourseOf[o] /\ new.offering = o
      OBVIOUS
    <2>3. \A a, b \in registered' : a.course = b.course => a = b
      BY <2>1, <2>2 DEF RegistrationSound
    <2>4. \A item \in registered' :
            item.course \notin RegisteredAt /\ item.course = CourseOf[item.offering]
      BY <2>1, <2>2 DEF RegistrationSound
    <2>5. QED
      BY <2>1, <2>3, <2>4 DEF RegistrationSound
  <1>2. CASE ~IsRegistration(NextStep)
    BY <1>2 DEF Commit, ApplyStep, RegistrationSound
  <1>3. QED
    BY <1>1, <1>2

\* A committed write conserves seats.  That the seat taken is the first taken
\* from its class rests on the registrations: the student would otherwise hold
\* the course already.
LEMMA CommitSeatsConserved ==
  ASSUME TypeOK, RegistrationSound, SeatsConserved,
         NEW key \in Keys, NEW request \in Requests, Commit(key, request)
  PROVE  SeatsConserved'
PROOF
  <1> DEFINE step == NextStep
             taken(x) == IF \E item \in registered : item.offering = x THEN 1 ELSE 0
             takenThen(x) == IF \E item \in registered' : item.offering = x THEN 1 ELSE 0
  <1> SUFFICES ASSUME NEW x \in Offerings
               PROVE  takenThen(x) <= SeatsAt[x]
                        /\ seats'[x] \in {0, SeatsAt[x] - takenThen(x)}
    BY DEF SeatsConserved
  <1>1. /\ taken(x) <= SeatsAt[x] /\ seats[x] \in {0, SeatsAt[x] - taken(x)}
        /\ seats[x] \in Nat /\ SeatsAt[x] \in Nat
    BY EngineAssumption DEF SeatsConserved, TypeOK
  <1>2. seats'[x] = MutatedSeats(step)[x] - Bump(TakesSeat(step, x))
    BY DEF Commit, ApplyStep
  <1>3. MutatedSeats(step)[x] \in {0, seats[x]}
    BY DEF MutatedSeats
  <1>4. CASE TakesSeat(step, x)
    <2>1. /\ x = step.params.offering /\ IsRegistration(step)
      BY <1>4 DEF TakesSeat
    <2>2. /\ seats[x] > 0 /\ MutatedSeats(step)[x] = seats[x]
          /\ \A item \in registered : item.course # CourseOf[x]
          /\ registered' = registered \cup {[course |-> CourseOf[x], offering |-> x]}
      BY <2>1, RegistrationFacts
    <2>3. taken(x) = 0
      BY <2>2 DEF RegistrationSound
    <2>4. takenThen(x) = 1
      <3>1. [course |-> CourseOf[x], offering |-> x].offering = x
        OBVIOUS
      <3>2. QED
        BY <2>2, <3>1
    <2>5. seats[x] = SeatsAt[x] /\ Bump(TakesSeat(step, x)) = 1
      BY <1>1, <1>4, <2>2, <2>3 DEF Bump
    <2>6. QED
      BY <1>1, <1>2, <2>2, <2>4, <2>5
  <1>5. CASE ~TakesSeat(step, x)
    <2>1. takenThen(x) = taken(x)
      <3>1. CASE IsRegistration(step)
        <4> DEFINE o == step.params.offering
        <4>1. o # x
          BY <1>5, <3>1 DEF TakesSeat
        <4>2. registered' = registered \cup {[course |-> CourseOf[o], offering |-> o]}
          BY <3>1, RegistrationFacts
        <4>3. [course |-> CourseOf[o], offering |-> o].offering = o
          OBVIOUS
        <4>4. (\E item \in registered' : item.offering = x)
                <=> (\E item \in registered : item.offering = x)
          BY <4>1, <4>2, <4>3
        <4>5. QED
          BY <4>4
      <3>2. CASE ~IsRegistration(step)
        BY <3>2 DEF Commit, ApplyStep
      <3>3. QED
        BY <3>1, <3>2
    <2>2. seats'[x] = MutatedSeats(step)[x]
      BY <1>1, <1>2, <1>3, <1>5 DEF Bump
    <2>3. QED
      BY <1>1, <1>3, <2>1, <2>2
  <1>6. QED
    BY <1>4, <1>5

\* A refused or replayed request and a human decision leave the classes and the
\* registrations alone.
LEMMA OnlyCommitsRegister ==
  ASSUME TypeOK, [Next]_vars,
         ~\E key \in Keys, request \in Requests : Commit(key, request)
  PROVE  UNCHANGED <<seats, open, offeringVersion, registered, workload>>
PROOF
  <1>1. ASSUME NEW key \in Keys, NEW request \in Requests, Execute(key, request)
        PROVE  UNCHANGED <<seats, open, offeringVersion, registered, workload>>
    BY <1>1, ExecuteCases DEF Refuse, offeringVars
  <1>2. ASSUME NEW status \in Decisions, RecordHumanApproval(status)
        PROVE  UNCHANGED <<seats, open, offeringVersion, registered, workload>>
    BY <1>2 DEF RecordHumanApproval, offeringVars
  <1>3. CASE UNCHANGED vars
    BY <1>3 DEF vars
  <1>4. QED
    BY <1>1, <1>2, <1>3 DEF Next

\* A student never holds two classes of one course, a class of a course already
\* registered, or more units than the limit, whatever is tried in between.
THEOREM RegistrationsStaySound == Spec => []RegistrationSound
PROOF
  <1>1. Init => RegistrationSound
    BY EngineAssumption DEF Init, RegistrationSound
  <1>2. TypeOK /\ RegistrationSound /\ [Next]_vars => RegistrationSound'
    <2> SUFFICES ASSUME TypeOK, RegistrationSound, [Next]_vars
                 PROVE  RegistrationSound'
      OBVIOUS
    <2>1. CASE \E key \in Keys, request \in Requests : Commit(key, request)
      BY <2>1, CommitRegistrationSound
    <2>2. CASE ~\E key \in Keys, request \in Requests : Commit(key, request)
      BY <2>2, OnlyCommitsRegister DEF RegistrationSound
    <2>3. QED
      BY <2>1, <2>2
  <1>3. QED
    BY <1>1, <1>2, TypeCorrect, PTL DEF Spec

\* No class gives out a seat it does not have, and none is lost except to an
\* injected event.
THEOREM SeatsAreConserved == Spec => []SeatsConserved
PROOF
  <1>1. Init => SeatsConserved
    <2> SUFFICES ASSUME Init, NEW o \in Offerings
                 PROVE  0 <= SeatsAt[o] /\ seats[o] \in {0, SeatsAt[o] - 0}
      BY DEF Init, SeatsConserved
    <2>1. seats[o] = SeatsAt[o] /\ SeatsAt[o] \in Nat
      BY EngineAssumption DEF Init
    <2>2. QED
      BY <2>1
  <1>2. TypeOK /\ RegistrationSound /\ SeatsConserved /\ [Next]_vars => SeatsConserved'
    <2> SUFFICES ASSUME TypeOK, RegistrationSound, SeatsConserved, [Next]_vars
                 PROVE  SeatsConserved'
      OBVIOUS
    <2>1. CASE \E key \in Keys, request \in Requests : Commit(key, request)
      BY <2>1, CommitSeatsConserved
    <2>2. CASE ~\E key \in Keys, request \in Requests : Commit(key, request)
      BY <2>2, OnlyCommitsRegister DEF SeatsConserved
    <2>3. QED
      BY <2>1, <2>2
  <1>3. QED
    BY <1>1, <1>2, TypeCorrect, RegistrationsStaySound, PTL DEF Spec

\* What one step may do to what a reader sees and to its versions.
RaisesVersions ==
  /\ \A o \in Offerings :
       /\ (seats'[o] # seats[o] \/ open'[o] # open[o])
            => offeringVersion'[o] > offeringVersion[o]
       /\ offeringVersion'[o] >= offeringVersion[o]
  /\ approvalStatus' # approvalStatus => approvalVersion' > approvalVersion
  /\ registered' # registered
       => entityVersions'[Registration] > entityVersions[Registration]
  /\ caseState' # caseState => entityVersions'[Case] > entityVersions[Case]
  /\ \A e \in Entities : entityVersions'[e] >= entityVersions[e]

\* A committed write raises the version of everything it changes.
LEMMA CommitRaisesVersions ==
  ASSUME Inv, NEW key \in Keys, NEW request \in Requests, Commit(key, request)
  PROVE  RaisesVersions
PROOF
  <1> DEFINE step == NextStep
  <1>1. /\ TypeOK /\ VersionCopiesAgree
        /\ step \in Step /\ StepShape(Script, cursor + 1)
    BY CommitFacts DEF Inv
  <1>2. \A e \in Targets(step) : step.mutations[e].from = CurrentVersion(e)
    BY DEF Commit, MutationsApply
  <1>3. Targets(step) \subseteq Offerings \cup {Approval}
    BY DEF Commit, MutationsApply
  <1>4. /\ Approval \in Entities /\ Registration \in Entities /\ Case \in Entities
        /\ Approval # Registration /\ Approval # Case /\ Registration # Case
        /\ \A o \in Offerings : o \in Entities /\ o \notin {Approval, Registration, Case}
    BY EngineAssumption DEF Entities, Approval, Registration, Case
  <1>5. ASSUME NEW o \in Offerings
        PROVE  /\ offeringVersion[o] \in Nat /\ entityVersions[o] = offeringVersion[o]
               /\ Mutated(step, o, offeringVersion[o]) =
                    offeringVersion[o] + Bump(o \in Targets(step))
    <2>1. offeringVersion[o] \in Nat /\ entityVersions[o] = offeringVersion[o]
      BY <1>1 DEF TypeOK, VersionCopiesAgree
    <2>2. o \in Targets(step) => step.mutations[o].from = offeringVersion[o]
      BY <1>2 DEF CurrentVersion
    <2>3. QED
      BY <2>1, <2>2 DEF Mutated, Bump
  <1>6. ASSUME NEW o \in Offerings
        PROVE  /\ (seats'[o] # seats[o] \/ open'[o] # open[o])
                    => offeringVersion'[o] > offeringVersion[o]
               /\ offeringVersion'[o] >= offeringVersion[o]
    <2>1. offeringVersion'[o] =
            offeringVersion[o] + Bump(o \in Targets(step)) + Bump(TakesSeat(step, o))
      BY <1>5 DEF Commit, ApplyStep
    <2>2. CASE o \in Targets(step) \/ TakesSeat(step, o)
      <3>1. /\ Bump(o \in Targets(step)) \in {0, 1} /\ Bump(TakesSeat(step, o)) \in {0, 1}
            /\ Bump(o \in Targets(step)) = 1 \/ Bump(TakesSeat(step, o)) = 1
        BY <2>2 DEF Bump
      <3>2. offeringVersion[o] \in Nat
        BY <1>5
      <3>3. offeringVersion'[o] > offeringVersion[o] /\ offeringVersion'[o] \in Nat
        BY <2>1, <3>1, <3>2
      <3>4. QED
        BY <3>2, <3>3
    <2>3. CASE o \notin Targets(step) /\ ~TakesSeat(step, o)
      <3>1. step.mutations[o] = NoMutation
        BY <1>4, <2>3 DEF Targets
      <3>2. MutatedSeats(step)[o] = seats[o] /\ MutatedOpen(step)[o] = open[o]
        BY <1>1, <3>1 DEF MutatedSeats, MutatedOpen, Hits, NoMutation, TypeOK
      <3>3. seats'[o] = seats[o] /\ open'[o] = open[o]
        BY <1>1, <2>3, <3>2 DEF Commit, ApplyStep, Bump, TypeOK
      <3>4. offeringVersion'[o] = offeringVersion[o] /\ offeringVersion[o] \in Nat
        <4>1. Bump(o \in Targets(step)) = 0 /\ Bump(TakesSeat(step, o)) = 0
          BY <2>3 DEF Bump
        <4>2. QED
          BY <1>5, <2>1, <4>1
      <3>5. QED
        BY <3>3, <3>4
    <2>4. QED
      BY <2>2, <2>3
  <1>7. /\ Approval \in Targets(step) => approvalVersion' > approvalVersion
        /\ Approval \notin Targets(step) =>
             approvalVersion' = approvalVersion /\ approvalStatus' = approvalStatus
        /\ approvalVersion \in Nat
    <2>1. approvalVersion \in Nat
      BY <1>1 DEF TypeOK
    <2>2. CASE Approval \in Targets(step)
      <3>1. approvalVersion' = CurrentVersion(Approval) + 1
        BY <1>2, <2>2 DEF Commit, ApplyStep, Mutated
      <3>2. CurrentVersion(Approval) >= approvalVersion /\ CurrentVersion(Approval) \in Nat
        BY <1>1, <1>4, <2>1, EngineAssumption DEF CurrentVersion, VersionCopiesAgree
      <3>3. QED
        BY <2>1, <2>2, <3>1, <3>2
    <2>3. CASE Approval \notin Targets(step)
      BY <2>1, <2>3 DEF Commit, ApplyStep, Mutated, MutatedStatus
    <2>4. QED
      BY <2>2, <2>3
  <1>8. /\ registered' # registered => IsRegistration(step)
        /\ caseState' = NextCaseState(step)
        /\ entityVersions'[Registration] =
             entityVersions[Registration] + Bump(IsRegistration(step))
        /\ entityVersions'[Case] =
             entityVersions[Case] + Bump(NextCaseState(step) # caseState)
        /\ entityVersions[Registration] \in Nat /\ entityVersions[Case] \in Nat
    BY <1>1, <1>4 DEF Commit, ApplyStep, NextVersion, TypeOK
  <1>9. /\ registered' # registered
             => entityVersions'[Registration] > entityVersions[Registration]
        /\ caseState' # caseState => entityVersions'[Case] > entityVersions[Case]
        /\ entityVersions'[Registration] >= entityVersions[Registration]
        /\ entityVersions'[Case] >= entityVersions[Case]
    BY <1>8 DEF Bump
  <1>10. approvalVersion' \in Nat
    BY CommitInv DEF Inv, TypeOK
  <1>11. ASSUME NEW e \in Entities
         PROVE  entityVersions'[e] >= entityVersions[e]
    <2>1. /\ entityVersions[Approval] = approvalVersion
          /\ entityVersions'[Approval] = approvalVersion'
      BY <1>1, CommitInv DEF Inv, VersionCopiesAgree
    <2>2. \A o \in Offerings : entityVersions[o] = offeringVersion[o]
                                 /\ entityVersions'[o] = offeringVersion'[o]
      BY <1>1, CommitInv DEF Inv, VersionCopiesAgree
    <2>3. CASE e \in Offerings
      BY <1>6, <2>2, <2>3
    <2>4. CASE e = Approval
      <3>1. approvalVersion' >= approvalVersion
        BY <1>7, <1>10
      <3>2. QED
        BY <2>1, <2>4, <3>1
    <2>5. CASE e \in {Registration, Case}
      BY <1>9, <2>5
    <2>6. QED
      BY <2>3, <2>4, <2>5 DEF Entities
  <1>12. QED
    BY <1>6, <1>7, <1>9, <1>11 DEF RaisesVersions

\* So does a human decision, of the approval and of the case.
LEMMA DecisionRaisesVersions ==
  ASSUME Inv, NEW status \in Decisions, RecordHumanApproval(status)
  PROVE  RaisesVersions
PROOF
  <1>1. /\ TypeOK /\ entityVersions \in [Entities -> Nat] /\ approvalVersion \in Nat
        /\ offeringVersion \in [Offerings -> Nat \ {0}]
        /\ entityVersions[Approval] = approvalVersion
    BY DEF Inv, TypeOK, VersionCopiesAgree
  <1>2. /\ UNCHANGED <<seats, open, offeringVersion, registered>>
        /\ approvalVersion' = approvalVersion + 1
        /\ entityVersions' = [entityVersions EXCEPT ![Approval] = approvalVersion + 1,
                                                    ![Case] = @ + 1]
    BY DEF RecordHumanApproval, offeringVars
  <1>3. Approval \in Entities /\ Case \in Entities /\ Approval # Case
    BY DEF Entities, Approval, Case
  <1>4. \A e \in Entities : entityVersions'[e] =
          IF e \in {Approval, Case} THEN entityVersions[e] + 1 ELSE entityVersions[e]
    BY <1>1, <1>2, <1>3
  <1>5. \A e \in Entities : entityVersions'[e] >= entityVersions[e]
    BY <1>1, <1>4
  <1>6. entityVersions'[Case] > entityVersions[Case]
    BY <1>1, <1>3, <1>4
  <1>7. QED
    BY <1>1, <1>2, <1>5, <1>6 DEF RaisesVersions

\* Nothing changes behind a version: a caller whose view is current has seen
\* everything that happened to what it names.
THEOREM VersionsTellChanges == Spec => ChangesRaiseVersions
PROOF
  <1>1. Inv /\ [Next]_vars => [RaisesVersions]_vars
    <2> SUFFICES ASSUME Inv, Next PROVE RaisesVersions
      OBVIOUS
    <2>1. ASSUME NEW key \in Keys, NEW request \in Requests, Commit(key, request)
          PROVE  RaisesVersions
      BY <2>1, CommitRaisesVersions
    <2>2. ASSUME NEW key \in Keys, NEW request \in Requests,
                 Execute(key, request), ~Commit(key, request)
          PROVE  RaisesVersions
      <3>1. UNCHANGED <<seats, open, offeringVersion, approvalStatus, approvalVersion,
                        registered, caseState, entityVersions>>
        BY <2>2, ExecuteCases DEF Inv, Refuse, offeringVars, approvalVars
      <3>2. /\ \A o \in Offerings : offeringVersion[o] \in Nat
            /\ \A e \in Entities : entityVersions[e] \in Nat
        BY DEF Inv, TypeOK
      <3>3. QED
        BY <3>1, <3>2 DEF RaisesVersions
    <2>3. ASSUME NEW status \in Decisions, RecordHumanApproval(status)
          PROVE  RaisesVersions
      BY <2>3, DecisionRaisesVersions
    <2>4. QED
      BY <2>1, <2>2, <2>3 DEF Next
  <1>2. QED
    BY <1>1, Invariance, PTL DEF Spec, ChangesRaiseVersions, RaisesVersions

-----------------------------------------------------------------------------
(* Refinement *)

\* The mapped variables that a commit touches.
LEMMA CommitMapped ==
  ASSUME Inv, NEW key \in Keys, NEW request \in Requests, Commit(key, request)
  PROVE  Ledger!Attempt(key) \/ Ledger!Effect(key)
PROOF
  <1> DEFINE used == {receipts[i].key : i \in DOMAIN receipts}
             n == Len(receipts) + 1
             step == NextStep
  <1>1. TypeOK /\ TypeOK' /\ Inv'
    BY CommitTypeOK, CommitInv DEF Inv
  <1>2. /\ DOMAIN receipts = 1..Len(receipts) /\ Len(receipts) \in Nat
        /\ DOMAIN receipts' = 1..n
        /\ \A i \in 1..Len(receipts) : receipts'[i] = receipts[i]
        /\ receipts'[n].key = key /\ receipts'[n].goalEffect = IsGoalEffect(step)
    <2>1. /\ Len(receipts) \in Nat /\ Len(receipts') = n
          /\ \A i \in 1..Len(receipts) : receipts'[i] = receipts[i]
          /\ receipts'[n] = [key |-> key, request |-> request, result |-> step.result,
                             goalEffect |-> IsGoalEffect(step)]
      BY CommitFacts
    <2>2. DOMAIN receipts = 1..Len(receipts) /\ DOMAIN receipts' = 1..n
      BY <1>1, <2>1 DEF TypeOK
    <2>3. QED
      BY <2>1, <2>2
  <1>3. used' = used \cup {key}
    BY <1>2
  <1>4. key \notin used
    <2>1. idempotency[key] = 0
      BY DEF Commit
    <2>2. QED
      BY <1>2, <2>1 DEF Inv, OneReceiptPerKey
  <1>5. /\ caseState # "RESOLVED"
        /\ (caseState' = "RESOLVED") <=> IsGoalEffect(step)
    <2>1. caseState # "RESOLVED"
      BY CommitFacts
    <2>2. QED
      BY <2>1 DEF Commit, ApplyStep, NextCaseState, IsGoalEffect
  <1>6. scenario' = scenario /\ request.action = step.action
    BY DEF Commit, StepMatches
  <1>7. CASE IsGoalEffect(step)
    <2>1. step.action # "REQUEST_APPROVAL"
      BY <1>7 DEF IsGoalEffect
    <2>2. approvalStatus' = approvalStatus
      BY <2>1, CommitFacts
    <2>3. scenario.requirement => approvalStatus = "APPROVED"
      BY <1>6, <2>1 DEF Commit, GateOpen
    <2>4. QED
      BY <1>3, <1>4, <1>5, <1>6, <1>7, <2>2, <2>3 DEF Ledger!Effect
  <1>8. CASE ~IsGoalEffect(step)
    <2>1. \/ approvalStatus' = approvalStatus
          \/ /\ approvalStatus = "ABSENT"
             /\ approvalStatus' \in {"PENDING", "APPROVED", "REJECTED"}
      <3>1. CASE step.action # "REQUEST_APPROVAL"
        BY <3>1, CommitFacts
      <3>2. CASE step.action = "REQUEST_APPROVAL"
        <4>1. /\ cursor + 1 = 1 /\ cursor \in Nat /\ Targets(step) = {Approval}
              /\ step.mutations[Approval].from = SeedVersion
              /\ step.mutations[Approval].event =
                   (IF scenario.interactive THEN "PENDING" ELSE scenario.seedStatus)
          <5>1. StepShape(Script, cursor + 1) /\ Script[cursor + 1] = step
            BY CommitFacts
          <5>2. cursor \in Nat
            BY <1>1 DEF TypeOK
          <5>3. QED
            BY <3>2, <5>1, <5>2 DEF StepShape, ShapeDeciding
        <4>2. /\ approvalStatus' = step.mutations[Approval].event
              /\ SeedVersion = CurrentVersion(Approval)
          BY <4>1 DEF Commit, ApplyStep, MutatedStatus, MutationsApply
        <4>3. CASE approvalStatus = "ABSENT"
          <5>1. scenario.seedStatus \in {"PENDING", "APPROVED", "REJECTED"}
            BY <1>1, EngineAssumption DEF TypeOK, Scenario, Decisions
          <5>2. QED
            BY <4>1, <4>2, <4>3, <5>1
        <4>4. CASE approvalStatus # "ABSENT"
          <5>1. CurrentVersion(Approval) = approvalVersion /\ SeedVersion \in Nat
            BY <4>4, EngineAssumption DEF CurrentVersion
          <5>2. approvalStatus = scenario.seedStatus /\ ~scenario.interactive
            BY <4>1, <4>2, <4>4, <5>1 DEF Inv, DecisionGrounded
          <5>3. QED
            BY <4>1, <4>2, <5>2
        <4>5. QED
          BY <4>3, <4>4
      <3>3. QED
        BY <3>1, <3>2
    <2>2. QED
      BY <1>3, <1>4, <1>5, <1>6, <1>8, <2>1 DEF Ledger!Attempt
  <1>9. QED
    BY <1>7, <1>8

\* The write path implements its promise: whatever the script, the views and the
\* replies, a caller sees a ledger in which keys are spent once, the one effect
\* happens at most once and under a grant, and a decision is final.
THEOREM WritePathImplementsLedger == Spec => LedgerSpec
PROOF
  <1>1. Init => Ledger!Init
    <2> SUFFICES ASSUME Init PROVE Ledger!Init
      OBVIOUS
    <2>1. TypeOK
      BY InitTypeOK
    <2>2. scenario.requirement \in BOOLEAN
      BY <2>1, EngineAssumption DEF TypeOK, Scenario
    <2>3. {receipts[i].key : i \in DOMAIN receipts} = {}
      BY DEF Init
    <2>4. approvalStatus \in {"ABSENT", "PENDING", "APPROVED", "REJECTED"}
      BY <2>1 DEF TypeOK, Decisions
    <2>5. (caseState = "RESOLVED") = FALSE
      BY DEF Init
    <2>6. QED
      BY <2>2, <2>3, <2>4, <2>5 DEF Ledger!Init
  <1>2. Inv /\ [Next]_vars => [Ledger!Next]_(Ledger!vars)
    <2> SUFFICES ASSUME Inv, [Next]_vars PROVE [Ledger!Next]_(Ledger!vars)
      OBVIOUS
    <2>1. ASSUME NEW key \in Keys, NEW request \in Requests, Execute(key, request)
          PROVE  [Ledger!Next]_(Ledger!vars)
      <3>1. CASE Commit(key, request)
        BY <3>1, CommitMapped DEF Ledger!Next
      <3>2. CASE ~Commit(key, request)
        <4>1. UNCHANGED <<scenario, receipts, approvalStatus, caseState>>
          BY <2>1, <3>2, ExecuteCases DEF Inv, Refuse, ledgerVars, approvalVars
        <4>2. QED
          BY <4>1 DEF Ledger!vars
      <3>3. QED
        BY <3>1, <3>2
    <2>2. ASSUME NEW status \in Decisions, RecordHumanApproval(status)
          PROVE  [Ledger!Next]_(Ledger!vars)
      <3>1. /\ approvalStatus = "PENDING" /\ approvalStatus' \in {"APPROVED", "REJECTED"}
            /\ scenario.requirement /\ scenario' = scenario /\ receipts' = receipts
            /\ caseState' # "RESOLVED"
        BY <2>2 DEF RecordHumanApproval, ledgerVars, Decisions
      <3>2. caseState # "RESOLVED"
        BY <3>1 DEF Inv, ResolvedIffEffect, EffectOnlyWhenApproved
      <3>3. Ledger!Decide
        BY <3>1, <3>2 DEF Ledger!Decide
      <3>4. QED
        BY <3>3 DEF Ledger!Next
    <2>3. CASE UNCHANGED vars
      BY <2>3 DEF vars, ledgerVars, offeringVars, approvalVars, Ledger!vars
    <2>4. QED
      BY <2>1, <2>2, <2>3 DEF Next
  <1>3. QED
    BY <1>1, <1>2, Invariance, PTL DEF Spec, LedgerSpec, Ledger!Spec

-----------------------------------------------------------------------------
(* The next step can be reached *)

\* The versions of the session are those the steps before the next one leave: of a
\* class always, since no seat was taken before the last step; of the approval, one
\* more when a human has decided since it was requested.
VersionsReplayed ==
  cursor < Len(Script) =>
    /\ \A o \in Offerings : offeringVersion[o] = VersionBefore(scenario.script, cursor + 1, o)
    /\ scenario.requirement /\ cursor = 0 =>
         approvalStatus # "PENDING" /\ CurrentVersion(Approval) = SeedVersion
    /\ scenario.requirement /\ cursor > 0 =>
         /\ approvalStatus = "PENDING" => scenario.interactive
         /\ CurrentVersion(Approval) =
              IF scenario.interactive /\ approvalStatus # "PENDING" THEN SeedVersion + 2
              ELSE SeedVersion + 1

\* A step that does not write an entity leaves its version alone, one that writes it
\* sets it.
LEMMA VersionAfter ==
  ASSUME NEW script, NEW i \in Nat \ {0}, NEW e \in Entities
  PROVE  VersionBefore(script, i + 1, e) =
           Mutated(script[i], e, VersionBefore(script, i, e))
PROOF
  <1> DEFINE Writers(n) == {j \in 1..(n - 1) : e \in Targets(script[j])}
             Latest(writers) == CHOOSE j \in writers : \A k \in writers : k <= j
             Left(writers) == IF writers # {} THEN script[Latest(writers)].mutations[e].from + 1
                              ELSE IF e = Approval THEN SeedVersion ELSE 1
  <1>1. VersionBefore(script, i, e) = Left(Writers(i))
        /\ VersionBefore(script, i + 1, e) = Left(Writers(i + 1))
    BY DEF VersionBefore
  <1>2. CASE e \notin Targets(script[i])
    <2>1. Writers(i + 1) = Writers(i)
      BY <1>2
    <2> HIDE DEF Writers, Left
    <2>2. QED
      BY <1>1, <1>2, <2>1 DEF Mutated
  <1>3. CASE e \in Targets(script[i])
    <2>1. i \in Writers(i + 1) /\ \A k \in Writers(i + 1) : k \in Nat /\ k <= i
      BY <1>3
    <2>2. (CHOOSE j \in Writers(i + 1) : \A k \in Writers(i + 1) : k <= j) = i
      <3>1. \A j \in Writers(i + 1) : (\A k \in Writers(i + 1) : k <= j) <=> j = i
        BY <2>1
      <3>2. QED
        BY <2>1, <3>1
    <2>3. QED
      BY <1>3, <2>1, <2>2 DEF VersionBefore, Mutated
  <1>4. QED
    BY <1>2, <1>3

\* Nothing has written an entity before the first step.
LEMMA VersionAtFirst ==
  ASSUME NEW script, NEW e
  PROVE  VersionBefore(script, 1, e) = IF e = Approval THEN SeedVersion ELSE 1
BY DEF VersionBefore

\* A case with an approval requests it first, and at the version of its record; what
\* follows the request finds the version it leaves.
LEMMA ApprovalComesFirst ==
  ASSUME scenario \in Scenarios, scenario.requirement, NEW n \in 1..Len(scenario.script)
  PROVE  /\ scenario.script[1].action = "REQUEST_APPROVAL"
         /\ n > 1 => VersionBefore(scenario.script, n, Approval) = SeedVersion + 1
PROOF
  <1> DEFINE script == scenario.script
  <1>1. /\ script \in Seq(Step) /\ Len(script) \in Nat /\ DOMAIN script = 1..Len(script)
        /\ \A i \in 1..Len(script) : StoredShape(script, i)
        /\ 1 \in 1..Len(script) /\ Approval \in Entities
    BY StoredScriptShape DEF Entities
  <1>2. script[1].action = "REQUEST_APPROVAL"
    <2>1. script[1].pre[Approval] # 0 => script[1].pre[Approval] = SeedVersion
      BY <1>1, ReplayAssumption, VersionAtFirst DEF VersionsReplay
    <2>2. script[1].action # "REQUEST_APPROVAL" => script[1].pre[Approval] = SeedVersion + 1
      BY <1>1, EngineAssumption DEF WellFormed, ProtectedWritesNameTheDecision
    <2>3. SeedVersion \in Nat
      BY EngineAssumption
    <2>4. QED
      BY <2>1, <2>2, <2>3
  <1>3. ASSUME n > 1
        PROVE  VersionBefore(script, n, Approval) = SeedVersion + 1
    <2> DEFINE writers == {j \in 1..(n - 1) : Approval \in Targets(script[j])}
    <2>1. \A j \in 1..Len(script) : Approval \in Targets(script[j]) <=> j = 1
      BY <1>1, <1>2, EngineAssumption DEF StoredShape, ShapeDeciding
    <2>2. writers = {1}
      BY <1>1, <1>3, <2>1
    <2>3. (CHOOSE j \in writers : \A k \in writers : k <= j) = 1
      BY <2>2
    <2>4. script[1].mutations[Approval].from = SeedVersion
      BY <1>1, <1>2 DEF StoredShape, ShapeDeciding
    <2>5. QED
      BY <2>2, <2>3, <2>4 DEF VersionBefore
  <1>4. QED
    BY <1>2, <1>3

\* A human's decision adds no step.
LEMMA ScriptLength ==
  ASSUME scenario \in Scenarios
  PROVE  /\ Len(Script) = Len(scenario.script) /\ Len(Script) \in Nat
         /\ DOMAIN scenario.script = 1..Len(Script)
PROOF
  <1>1. scenario.script \in Seq(Step)
    BY StoredScriptShape
  <1>2. QED
    BY <1>1 DEF Script, WithInteractiveApproval

\* The run's script against the stored one: the same writes of classes, and the same
\* versions but for the approval's once a human decides.
LEMMA ScriptAgainstStored ==
  ASSUME scenario \in Scenarios, NEW n \in 1..Len(scenario.script)
  PROVE  LET stored == scenario.script[n]
             step == Script[n]
         IN
         /\ Len(Script) = Len(scenario.script)
         /\ step.action = stored.action
         /\ \A o \in Offerings : step.mutations[o] = stored.mutations[o]
         /\ \A e \in Entities \ {Approval} : step.pre[e] = stored.pre[e]
         /\ step.pre[Approval] =
              IF /\ scenario.interactive /\ n > 1
                 /\ scenario.script[1].action = "REQUEST_APPROVAL"
                 /\ stored.pre[Approval] = SeedVersion + 1
              THEN SeedVersion + 2 ELSE stored.pre[Approval]
PROOF
  <1> DEFINE stored == scenario.script[n]
  <1>1. /\ scenario.script \in Seq(Step) /\ stored \in Step /\ SeedVersion \in Nat
        /\ Approval \in Entities /\ Approval \notin Offerings /\ Offerings \subseteq Entities
    BY StoredScriptShape, EngineAssumption DEF Entities
  <1>2. Len(Script) = Len(scenario.script)
    BY ScriptLength
  <1>3. CASE ~scenario.interactive
    BY <1>2, <1>3 DEF Script
  <1>4. CASE scenario.interactive
    <2>1. CASE n = 1 /\ stored.action = "REQUEST_APPROVAL" /\ Script[n] = PendingForm(stored)
      BY <1>1, <1>2, <2>1 DEF PendingForm
    <2>2. CASE scenario.script[1].action # "REQUEST_APPROVAL" /\ Script[n] = stored
      BY <1>2, <2>2
    <2>3. CASE /\ n > 1 /\ scenario.script[1].action = "REQUEST_APPROVAL"
               /\ Script[n] = AfterDecision(stored, SeedVersion + 1)
      BY <1>1, <1>2, <1>4, <2>3 DEF AfterDecision
    <2>4. QED
      BY <1>4, <2>1, <2>2, <2>3, InteractiveSteps DEF Script
  <1>5. QED
    BY <1>3, <1>4

\* The invariant holds of the built session.
LEMMA InitReplayed == Init => VersionsReplayed
PROOF
  <1> SUFFICES ASSUME Init, cursor < Len(Script) PROVE VersionsReplayed
    BY DEF VersionsReplayed
  <1>1. /\ scenario \in Scenarios /\ cursor = 0 /\ Approval \notin Offerings
        /\ scenario.seedStatus \in Decisions
    BY EngineAssumption DEF Init, Scenario
  <1>2. \A o \in Offerings : offeringVersion[o] = VersionBefore(scenario.script, cursor + 1, o)
    <2>1. cursor + 1 = 1 /\ \A o \in Offerings : o # Approval /\ offeringVersion[o] = 1
      BY <1>1 DEF Init
    <2>2. \A o \in Offerings : VersionBefore(scenario.script, 1, o) = 1
      BY <2>1, VersionAtFirst
    <2>3. QED
      BY <2>1, <2>2
  <1>3. scenario.requirement =>
          approvalStatus # "PENDING" /\ CurrentVersion(Approval) = SeedVersion
    BY <1>1, ReplayAssumption DEF Init, SeedVisible, SeedDecided, CurrentVersion, Decisions
  <1>4. QED
    BY <1>1, <1>2, <1>3 DEF VersionsReplayed

\* A committed step moves each version as the script says.
LEMMA CommitReplayed ==
  ASSUME Inv, VersionsReplayed,
         NEW key \in Keys, NEW request \in Requests, Commit(key, request)
  PROVE  VersionsReplayed'
PROOF
  <1> DEFINE step == NextStep
             script == scenario.script
             n == cursor + 1
  <1>1. /\ TypeOK /\ scenario \in Scenarios /\ cursor \in Nat /\ cursor < Len(Script)
        /\ Script[n] = step /\ Script' = Script /\ scenario' = scenario /\ cursor' = n
        /\ StepShape(Script, n) /\ step \in Step
    <2>1. StepShape(Script, n) /\ step \in Step /\ Script[n] = step /\ Script' = Script
      BY CommitFacts
    <2>2. QED
      BY <2>1, ScriptLength DEF Inv, TypeOK, Commit, RecordReceipt, StepMatches
  <1>2. /\ Len(script) \in Nat /\ Len(script) = Len(Script) /\ DOMAIN script = 1..Len(script)
        /\ n \in 1..Len(script) /\ n \in Nat \ {0}
    BY <1>1, ScriptLength
  <1> SUFFICES ASSUME n < Len(Script) PROVE VersionsReplayed'
    BY <1>1 DEF VersionsReplayed
  <1>3. ~IsGoalEffect(step)
    BY <1>1 DEF StepShape, ShapeDeciding
  <1>4. \A o \in Offerings : offeringVersion'[o] = VersionBefore(script, n + 1, o)
    <2> SUFFICES ASSUME NEW o \in Offerings
                 PROVE  offeringVersion'[o] = VersionBefore(script, n + 1, o)
      OBVIOUS
    <2>1. o \in Entities /\ step.mutations[o] = script[n].mutations[o]
      BY <1>1, <1>2, ScriptAgainstStored DEF Entities
    <2>2. offeringVersion'[o] = Mutated(step, o, offeringVersion[o])
      <3>1. Mutated(step, o, offeringVersion[o]) \in Nat
        BY <1>1, <2>1 DEF Mutated, Step, Mutations, TypeOK
      <3>2. QED
        BY <1>3, <3>1 DEF Commit, ApplyStep, TakesSeat, IsRegistration, Bump
    <2>3. Mutated(step, o, offeringVersion[o]) = Mutated(script[n], o, offeringVersion[o])
      BY <2>1 DEF Mutated, Targets
    <2>4. offeringVersion[o] = VersionBefore(script, n, o)
      BY <1>1 DEF VersionsReplayed
    <2>5. QED
      BY <1>2, <2>1, <2>2, <2>3, <2>4, VersionAfter
  <1>5. ASSUME scenario.requirement
        PROVE  /\ approvalStatus' = "PENDING" => scenario.interactive
               /\ CurrentVersion(Approval)' =
                    IF scenario.interactive /\ approvalStatus' # "PENDING" THEN SeedVersion + 2
                    ELSE SeedVersion + 1
    <2>1. script[1].action = "REQUEST_APPROVAL" /\ Approval \notin Offerings
      BY <1>1, <1>2, <1>5, ApprovalComesFirst, EngineAssumption
    <2>2. CASE cursor = 0
      <3>1. step.action = "REQUEST_APPROVAL"
        BY <1>1, <1>2, <2>1, <2>2, ScriptAgainstStored
      <3>2. /\ approvalStatus' = IF scenario.interactive THEN "PENDING" ELSE scenario.seedStatus
            /\ approvalVersion' = SeedVersion + 1
        BY <1>1, <3>1 DEF StepShape, ShapeDeciding, Commit, ApplyStep, MutatedStatus, Mutated
      <3>3. scenario.seedStatus = "APPROVED"
        BY <1>1, <1>2, <2>1, <2>2, EngineAssumption DEF WellFormed, RequestAgreesWithSeed
      <3>4. QED
        BY <2>1, <3>2, <3>3 DEF CurrentVersion
    <2>3. CASE cursor > 0
      <3>1. step.action # "REQUEST_APPROVAL"
        BY <1>1, <2>3 DEF StepShape, ShapeDeciding
      <3>2. approvalStatus' = approvalStatus /\ approvalVersion' = approvalVersion
        BY <3>1, CommitFacts
      <3>3. QED
        BY <1>1, <1>5, <2>1, <2>3, <3>2 DEF VersionsReplayed, CurrentVersion
    <2>4. QED
      BY <1>1, <2>2, <2>3
  <1>6. QED
    BY <1>1, <1>2, <1>4, <1>5 DEF VersionsReplayed

\* A human decides after the request, once, and raises the version by one.
LEMMA DecisionReplayed ==
  ASSUME Inv, VersionsReplayed, NEW status \in Decisions, RecordHumanApproval(status)
  PROVE  VersionsReplayed'
PROOF
  <1>1. /\ scenario.requirement /\ approvalStatus = "PENDING" /\ status # "PENDING"
        /\ status # "ABSENT" /\ approvalStatus' = status
        /\ approvalVersion' = approvalVersion + 1
        /\ UNCHANGED <<scenario, cursor, offeringVersion>> /\ Script' = Script
    BY DEF RecordHumanApproval, ledgerVars, offeringVars, Script, Decisions
  <1>2. /\ cursor \in Nat /\ SeedVersion \in Nat /\ Approval \notin Offerings
        /\ Len(Script) \in Nat
    BY ScriptOfRun, EngineAssumption DEF Inv, TypeOK, ScriptShape
  <1> SUFFICES ASSUME cursor < Len(Script) PROVE VersionsReplayed'
    BY <1>1 DEF VersionsReplayed
  <1>3. cursor > 0 /\ scenario.interactive /\ CurrentVersion(Approval) = SeedVersion + 1
    BY <1>1, <1>2 DEF VersionsReplayed
  <1>4. CurrentVersion(Approval)' = SeedVersion + 2
    BY <1>1, <1>2, <1>3 DEF CurrentVersion
  <1>5. QED
    BY <1>1, <1>3, <1>4 DEF VersionsReplayed

LEMMA StepReplayed ==
  Inv /\ VersionsReplayed /\ [Next]_vars => VersionsReplayed'
PROOF
  <1> SUFFICES ASSUME Inv, VersionsReplayed, [Next]_vars PROVE VersionsReplayed'
    OBVIOUS
  <1>1. ASSUME UNCHANGED <<scenario, ledgerVars, offeringVars, approvalVars>>
        PROVE  VersionsReplayed'
    BY <1>1 DEF VersionsReplayed, CurrentVersion, Script, ledgerVars, offeringVars, approvalVars
  <1>2. ASSUME NEW key \in Keys, NEW request \in Requests, Execute(key, request)
        PROVE  VersionsReplayed'
    <2>1. CASE Commit(key, request)
      BY <2>1, CommitReplayed
    <2>2. CASE ~Commit(key, request)
      <3>1. UNCHANGED <<scenario, ledgerVars, offeringVars, approvalVars>>
        BY <1>2, <2>2, ExecuteCases DEF Inv, Refuse
      <3>2. QED
        BY <1>1, <3>1
    <2>3. QED
      BY <2>1, <2>2
  <1>3. ASSUME NEW status \in Decisions, RecordHumanApproval(status)
        PROVE  VersionsReplayed'
    BY <1>3, DecisionReplayed
  <1>4. CASE UNCHANGED vars
    BY <1>1, <1>4 DEF vars, ledgerVars, offeringVars, approvalVars
  <1>5. QED
    BY <1>2, <1>3, <1>4 DEF Next

\* The step the versions lead to asks for no others.
LEMMA ReplayedIsReachable == Inv /\ VersionsReplayed => NextStepReachable
PROOF
  <1> SUFFICES ASSUME Inv, VersionsReplayed, cursor < Len(Script), approvalStatus # "PENDING",
                      NEW e \in Entities, NextStep.pre[e] # 0
               PROVE  NextStep.pre[e] = CurrentVersion(e)
    BY DEF NextStepReachable
  <1> DEFINE script == scenario.script
             n == cursor + 1
  <1>1. /\ scenario \in Scenarios /\ cursor \in Nat /\ SeedVersion \in Nat \ {0}
        /\ Approval \notin Offerings /\ NextStep = Script[n]
    BY ScriptLength, EngineAssumption DEF Inv, TypeOK, NextStep
  <1>2. n \in 1..Len(script) /\ DOMAIN script = 1..Len(script)
    BY <1>1, ScriptLength
  <1>3. script[n].pre[e] # 0 =>
          /\ e \in Offerings \/ (e = Approval /\ scenario.requirement)
          /\ script[n].pre[e] = VersionBefore(script, n, e)
    BY <1>1, <1>2, ReplayAssumption DEF VersionsReplay
  <1>4. CASE e # Approval
    <2>1. NextStep.pre[e] = script[n].pre[e]
      BY <1>1, <1>2, <1>4, ScriptAgainstStored
    <2>2. QED
      BY <1>3, <1>4, <2>1 DEF VersionsReplayed, CurrentVersion
  <1>5. CASE e = Approval
    <2>1. NextStep.pre[e] =
            IF /\ scenario.interactive /\ n > 1 /\ script[1].action = "REQUEST_APPROVAL"
               /\ script[n].pre[e] = SeedVersion + 1
            THEN SeedVersion + 2 ELSE script[n].pre[e]
      BY <1>1, <1>2, <1>5, ScriptAgainstStored
    <2>2. scenario.requirement /\ script[n].pre[e] = VersionBefore(script, n, e)
      BY <1>1, <1>3, <1>5, <2>1
    <2>3. script[1].action = "REQUEST_APPROVAL"
          /\ (n > 1 => script[n].pre[e] = SeedVersion + 1)
      BY <1>1, <1>2, <1>5, <2>2, ApprovalComesFirst
    <2>4. CASE cursor = 0
      BY <1>1, <1>5, <2>1, <2>2, <2>4, VersionAtFirst DEF VersionsReplayed
    <2>5. CASE cursor > 0
      BY <1>1, <1>5, <2>1, <2>2, <2>3, <2>5 DEF VersionsReplayed
    <2>6. QED
      BY <1>1, <2>4, <2>5
  <1>6. QED
    BY <1>4, <1>5

\* The versions a script asks for are those its own steps and a human's decision lead
\* to, also when it was rewritten for that decision
\* (_with_interactive_approval_checkpoint, runtime/factory.py).
THEOREM StepsStayReachable == Spec => []NextStepReachable
PROOF
  <1>1. Init => VersionsReplayed
    BY InitReplayed
  <1>2. Inv /\ VersionsReplayed /\ [Next]_vars => VersionsReplayed'
    BY StepReplayed
  <1>3. Inv /\ VersionsReplayed => NextStepReachable
    BY ReplayedIsReachable
  <1>4. QED
    BY <1>1, <1>2, <1>3, Invariance, PTL DEF Spec

=============================================================================
