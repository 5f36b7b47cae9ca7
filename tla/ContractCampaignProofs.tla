------------------------ MODULE ContractCampaignProofs ------------------------
(***************************************************************************)
(* Why the contracts of the packages the generator builds load, and why the *)
(* agent's runs over those packages pass: for every family, student and     *)
(* position the generator may pick, and any caps that leave room for one    *)
(* replan, one retry and ten steps.                                         *)
(*                                                                         *)
(* A built package goes one of eight ways (BuiltKindsOfRun), and its        *)
(* contract says which (Terms, Routes, Loops).  The run, which sees neither *)
(* the script nor the outcome, finds the way by itself: OnCourse lists, way *)
(* by way, every place it can be with all it has gathered there.  The proof *)
(* that it stays on course goes from one place to the next: the law of the  *)
(* node (Goes, Keeps), what the session shows, and what they come to.       *)
(***************************************************************************)
EXTENDS ScenarioPackageProofs

-----------------------------------------------------------------------------
(* The contracts of what was built *)

\* How a built package goes: what its script and its records make of the run.
Direct == pkg.family = "S1" \/ (pkg.family = "S3" /\ ~pkg.indeterminate)
Material == pkg.family = "S3" /\ pkg.indeterminate
Incomplete == pkg.family = "S6" /\ pkg.ready = "NO"
Withdrawn == pkg.family = "S6" /\ pkg.ready = "YES"
Recovered == pkg.family = "S7"
ApprovalIs(decision) == pkg.family \in NeedsApproval /\ pkg.approval = decision

LEMMA BuiltKindsOfRun ==
  ASSUME NEW family, NEW student, BuiltAs(family, student)
  PROVE  /\ \/ Direct \/ Material \/ Incomplete \/ Withdrawn \/ Recovered
            \/ ApprovalIs("APPROVED") \/ ApprovalIs("REJECTED") \/ ApprovalIs("PENDING")
         /\ pkg.family = family
         /\ family \notin NeedsApproval => pkg.approval = "NONE"
<1>1. family \in AllFamilies /\ pkg.family = family
  BY BuiltRecords DEF BuiltAs
<1>2. CASE family \in NeedsApproval
  BY <1>1, <1>2, BuiltEvents DEF ApprovalIs, Decisions
<1>3. CASE family \notin NeedsApproval
  <2>1. family \in {"S1", "S3", "S6", "S7"}
    BY <1>1, <1>3, FamiliesNeed DEF AllFamilies
  <2> QED
    BY <1>1, <1>3, <2>1, BuiltIntake, BuiltRecords
       DEF Direct, Material, Incomplete, Withdrawn, Recovered
<1> QED
  BY <1>2, <1>3

\* The terms of a contract that its outcome settles, and those it does not.
Terms(c, outcome, approval, impact, pre, post) ==
  /\ c.outcome = outcome /\ c.approval = approval /\ c.impact = impact
  /\ c.pre = pre /\ c.post = post
  /\ c.admin <=> outcome = "ESCALATED"
  /\ c.pause <=> outcome = "PENDING_APPROVAL"
  /\ c.memory <=> outcome = "RESOLVED"
  /\ c.satisfied <=> outcome = "RESOLVED"

LEMMA ShortEnds ==
  /\ \A x : Len(<<x>>) = 1 /\ DOMAIN <<x>> = {1} /\ <<x>>[1] = x /\ Last(<<x>>) = x /\ <<x>> # <<>>
  /\ \A x, y : /\ Len(<<x, y>>) = 2 /\ DOMAIN <<x, y>> = {1, 2}
               /\ <<x, y>>[1] = x /\ <<x, y>>[2] = y /\ Last(<<x, y>>) = y /\ <<x, y>> # <<>>
BY DEF Last

LEMMA DirectTerms ==
  ASSUME NEW family, NEW student, BuiltAs(family, student), Direct, NEW c, c = ContractFor(pkg)
  PROVE  Terms(c, "RESOLVED", "NONE", "NONE", <<"VALID">>, <<"DONE">>)
<1>1. pkg.approval = "NONE" /\ pkg.outcome = "RESOLVED" /\ pkg.family \in {"S1", "S3"}
      /\ pkg.family = family
  BY BuiltKindsOfRun, BuiltOutcomes, FamiliesNeed DEF Direct
<1>2. ~Clarified(pkg) /\ Impact(pkg) = "NONE" /\ ~AdminExpected(pkg)
  BY <1>1 DEF Clarified, Impact, AdminExpected
<1>3. PreExpected(pkg) = <<"VALID">> /\ PostExpected(pkg) = <<"DONE">>
  BY <1>1, <1>2 DEF PreExpected, PostExpected
<1> QED
  BY <1>1, <1>2, <1>3, ShortEnds DEF ContractFor, Terms

LEMMA MaterialTerms ==
  ASSUME NEW family, NEW student, BuiltAs(family, student), Material, NEW c, c = ContractFor(pkg)
  PROVE  Terms(c, "CLARIFICATION_REQUIRED", "NONE", "MATERIAL", <<"CLARIFY">>, <<>>)
<1>1. /\ pkg.approval = "NONE" /\ pkg.outcome = "CLARIFICATION_REQUIRED"
      /\ pkg.family = family /\ family = "S3"
  BY BuiltKindsOfRun, BuiltOutcomes, FamiliesNeed DEF Material
<1>2. Clarified(pkg) /\ Impact(pkg) = "MATERIAL" /\ ~AdminExpected(pkg)
  BY <1>1 DEF Clarified, Impact, AdminExpected
<1>3. PreExpected(pkg) = <<"CLARIFY">> /\ PostExpected(pkg) = <<>>
  BY <1>1, <1>2, FamiliesNeed DEF PreExpected, PostExpected, NeedsApproval
<1> QED
  BY <1>1, <1>2, <1>3, ShortEnds DEF ContractFor, Terms

LEMMA IncompleteTerms ==
  ASSUME NEW family, NEW student, BuiltAs(family, student), Incomplete, NEW c, c = ContractFor(pkg)
  PROVE  Terms(c, "CLARIFICATION_REQUIRED", "NONE", "SMALL", <<"CLARIFY">>, <<>>)
<1>1. /\ pkg.approval = "NONE" /\ pkg.outcome = "CLARIFICATION_REQUIRED"
      /\ pkg.family = family /\ family = "S6"
  BY BuiltKindsOfRun, BuiltOutcomes, FamiliesNeed DEF Incomplete
<1>2. Clarified(pkg) /\ Impact(pkg) = "SMALL" /\ ~AdminExpected(pkg)
  BY <1>1 DEF Clarified, Impact, AdminExpected
<1>3. PreExpected(pkg) = <<"CLARIFY">> /\ PostExpected(pkg) = <<>>
  BY <1>1, <1>2, FamiliesNeed DEF PreExpected, PostExpected, NeedsApproval
<1> QED
  BY <1>1, <1>2, <1>3, ShortEnds DEF ContractFor, Terms

LEMMA WithdrawnTerms ==
  ASSUME NEW family, NEW student, BuiltAs(family, student), Withdrawn, NEW c, c = ContractFor(pkg)
  PROVE  Terms(c, "ESCALATED", "NONE", "NONE", <<"VALID">>, <<"CONTINUE_FAILURE">>)
<1>1. /\ pkg.approval = "NONE" /\ pkg.outcome = "ESCALATED"
      /\ pkg.family = family /\ family = "S6"
  BY BuiltKindsOfRun, BuiltOutcomes, FamiliesNeed DEF Withdrawn
<1>2. ~Clarified(pkg) /\ Impact(pkg) = "NONE" /\ AdminExpected(pkg)
  BY <1>1 DEF Clarified, Impact, AdminExpected
<1>3. PreExpected(pkg) = <<"VALID">> /\ PostExpected(pkg) = <<"CONTINUE_FAILURE">>
  BY <1>1, <1>2, FamiliesNeed DEF PreExpected, PostExpected, NeedsApproval
<1> QED
  BY <1>1, <1>2, <1>3, ShortEnds DEF ContractFor, Terms

LEMMA RecoveredTerms ==
  ASSUME NEW family, NEW student, BuiltAs(family, student), Recovered, NEW c, c = ContractFor(pkg)
  PROVE  Terms(c, "RESOLVED", "NONE", "NONE", <<"VALID", "VALID">>, <<"CONTINUE_FAILURE", "DONE">>)
<1>1. /\ pkg.approval = "NONE" /\ pkg.outcome = "RESOLVED"
      /\ pkg.family = family /\ family = "S7"
  BY BuiltKindsOfRun, BuiltOutcomes, FamiliesNeed DEF Recovered
<1>2. ~Clarified(pkg) /\ Impact(pkg) = "NONE" /\ ~AdminExpected(pkg)
  BY <1>1 DEF Clarified, Impact, AdminExpected
<1>3. PreExpected(pkg) = <<"VALID", "VALID">> /\ PostExpected(pkg) = <<"CONTINUE_FAILURE", "DONE">>
  BY <1>1, <1>2, FamiliesNeed DEF PreExpected, PostExpected, NeedsApproval
<1>4. PostExpected(pkg) # <<>> /\ Last(PostExpected(pkg)) = "DONE"
  BY <1>3, ShortEnds
<1> QED
  BY <1>1, <1>2, <1>3, <1>4 DEF ContractFor, Terms

LEMMA ApprovedTerms ==
  ASSUME NEW family, NEW student, BuiltAs(family, student), ApprovalIs("APPROVED"), NEW c,
         c = ContractFor(pkg)
  PROVE  Terms(c, "RESOLVED", "APPROVED", "NONE", <<"VALID">>, <<"DONE">>)
<1>1. /\ pkg.approval = "APPROVED" /\ pkg.outcome = "RESOLVED"
      /\ pkg.family = family /\ family \in NeedsApproval
  BY BuiltKindsOfRun, BuiltOutcomes, FamiliesNeed DEF ApprovalIs
<1>2. ~Clarified(pkg) /\ Impact(pkg) = "NONE" /\ ~AdminExpected(pkg)
  BY <1>1 DEF Clarified, Impact, AdminExpected
<1>3. PreExpected(pkg) = <<"VALID">> /\ PostExpected(pkg) = <<"DONE">>
  BY <1>1, <1>2, FamiliesNeed DEF PreExpected, PostExpected, NeedsApproval
<1> QED
  BY <1>1, <1>2, <1>3, ShortEnds DEF ContractFor, Terms

LEMMA RefusedTerms ==
  ASSUME NEW family, NEW student, BuiltAs(family, student), ApprovalIs("REJECTED"), NEW c,
         c = ContractFor(pkg)
  PROVE  Terms(c, "ESCALATED", "REJECTED", "NONE", <<"VALID">>, <<>>)
<1>1. /\ pkg.approval = "REJECTED" /\ pkg.outcome = "ESCALATED"
      /\ pkg.family = family /\ family \in NeedsApproval
  BY BuiltKindsOfRun, BuiltOutcomes, FamiliesNeed DEF ApprovalIs
<1>2. ~Clarified(pkg) /\ Impact(pkg) = "NONE" /\ AdminExpected(pkg)
  BY <1>1 DEF Clarified, Impact, AdminExpected
<1>3. PreExpected(pkg) = <<"VALID">> /\ PostExpected(pkg) = <<>>
  BY <1>1, <1>2, FamiliesNeed DEF PreExpected, PostExpected, NeedsApproval
<1> QED
  BY <1>1, <1>2, <1>3, ShortEnds DEF ContractFor, Terms

LEMMA WaitingTerms ==
  ASSUME NEW family, NEW student, BuiltAs(family, student), ApprovalIs("PENDING"), NEW c,
         c = ContractFor(pkg)
  PROVE  Terms(c, "PENDING_APPROVAL", "PENDING", "NONE", <<"VALID">>, <<>>)
<1>1. /\ pkg.approval = "PENDING" /\ pkg.outcome = "PENDING_APPROVAL"
      /\ pkg.family = family /\ family \in NeedsApproval
  BY BuiltKindsOfRun, BuiltOutcomes, FamiliesNeed DEF ApprovalIs
<1>2. ~Clarified(pkg) /\ Impact(pkg) = "NONE" /\ ~AdminExpected(pkg)
  BY <1>1 DEF Clarified, Impact, AdminExpected
<1>3. PreExpected(pkg) = <<"VALID">> /\ PostExpected(pkg) = <<>>
  BY <1>1, <1>2, FamiliesNeed DEF PreExpected, PostExpected, NeedsApproval
<1> QED
  BY <1>1, <1>2, <1>3, ShortEnds DEF ContractFor, Terms

\* What a run passes on its way: through an action, to the goal, and never.
ActingTrace == {"TRANSACTION:RESULT->OBSERVATION", "OBSERVATION:NORMALIZED->VERIFIER_POST_ACTION"}
DoneTrace == {"VERIFIER_POST_ACTION:DONE->FINAL_RESPONSE",
              "VERIFIER_POST_ACTION:DONE->MEMORY_UPDATER"}
NeverTrace == {"REQUEST_APPROVAL:SUCCESS->GOAL_COMPLETE", "TRANSACTION:SUCCESS->FINAL_RESPONSE",
               "VERIFIER_POST_ACTION:CONTINUE_FAILURE->MEMORY_UPDATER"}

\* The transitions a contract requires, beyond the common ones, and those it forbids.
Routes(c, required, forbidden) ==
  c.required = Baseline \cup required /\ c.forbidden = NeverTrace \cup forbidden

DirectRoute ==
  {"VERIFIER_PRE_ACTION:VALID->ACTION_GATE", "ACTION_GATE:NO_APPROVAL->TRANSACTION"}
   \cup ActingTrace \cup DoneTrace
DirectBars ==
  {"ACTION_GATE:APPROVAL_REQUIRED->HUMAN_APPROVAL"}

MaterialRoute ==
  {"VERIFIER_PRE_ACTION:CLARIFY->CLARIFICATION", "CLARIFICATION:MATERIAL_CHANGE->PLANNER"}
MaterialBars ==
  {"VERIFIER_PRE_ACTION:CLARIFY->ACTION_GATE", "ACTION_GATE:APPROVAL_REQUIRED->HUMAN_APPROVAL",
   "ACTION_GATE:NO_APPROVAL->TRANSACTION", "VERIFIER_POST_ACTION:DONE->MEMORY_UPDATER"}

IncompleteRoute ==
  {"VERIFIER_PRE_ACTION:CLARIFY->CLARIFICATION",
   "CLARIFICATION:SMALL_CHANGE->VERIFIER_PRE_ACTION"}
IncompleteBars ==
  {"VERIFIER_PRE_ACTION:CLARIFY->ACTION_GATE", "ACTION_GATE:APPROVAL_REQUIRED->HUMAN_APPROVAL",
   "ACTION_GATE:NO_APPROVAL->TRANSACTION", "VERIFIER_POST_ACTION:DONE->MEMORY_UPDATER"}

WithdrawnRoute ==
  {"VERIFIER_PRE_ACTION:VALID->ACTION_GATE", "ACTION_GATE:NO_APPROVAL->TRANSACTION",
   "VERIFIER_POST_ACTION:CONTINUE_FAILURE->PLANNER"} \cup ActingTrace \cup Handoff
WithdrawnBars ==
  {"ACTION_GATE:APPROVAL_REQUIRED->HUMAN_APPROVAL",
   "VERIFIER_POST_ACTION:DONE->MEMORY_UPDATER"}

RecoveredRoute ==
  {"VERIFIER_PRE_ACTION:VALID->ACTION_GATE", "ACTION_GATE:NO_APPROVAL->TRANSACTION",
   "VERIFIER_POST_ACTION:CONTINUE_FAILURE->PLANNER"} \cup ActingTrace \cup DoneTrace
RecoveredBars ==
  {"ACTION_GATE:APPROVAL_REQUIRED->HUMAN_APPROVAL"}

ApprovedRoute ==
  {"VERIFIER_PRE_ACTION:VALID->ACTION_GATE", "ACTION_GATE:APPROVAL_REQUIRED->HUMAN_APPROVAL",
   "HUMAN_APPROVAL:APPROVED->TRANSACTION"} \cup ActingTrace \cup DoneTrace
ApprovedBars ==
  {"ACTION_GATE:NO_APPROVAL->TRANSACTION"}

RefusedRoute ==
  {"VERIFIER_PRE_ACTION:VALID->ACTION_GATE", "ACTION_GATE:APPROVAL_REQUIRED->HUMAN_APPROVAL",
   "HUMAN_APPROVAL:REJECTED->PLANNER"} \cup Handoff
RefusedBars ==
  {"ACTION_GATE:NO_APPROVAL->TRANSACTION", "HUMAN_APPROVAL:REJECTED->TRANSACTION",
   "HUMAN_APPROVAL:REJECTED->HUMAN_ADMIN_REVIEW", "VERIFIER_POST_ACTION:DONE->MEMORY_UPDATER"}

WaitingRoute ==
  {"VERIFIER_PRE_ACTION:VALID->ACTION_GATE", "ACTION_GATE:APPROVAL_REQUIRED->HUMAN_APPROVAL",
   "HUMAN_APPROVAL:PENDING->PAUSE_CHECKPOINT",
   "PAUSE_CHECKPOINT:APPROVAL_OBSERVED->HUMAN_APPROVAL"}
WaitingBars ==
  {"ACTION_GATE:NO_APPROVAL->TRANSACTION", "HUMAN_APPROVAL:PENDING->TRANSACTION",
   "HUMAN_APPROVAL:PENDING->FINAL_RESPONSE", "VERIFIER_POST_ACTION:DONE->MEMORY_UPDATER"}

LEMMA DirectRoutes ==
  ASSUME NEW family, NEW student, BuiltAs(family, student), Direct, NEW c, c = ContractFor(pkg)
  PROVE  Routes(c, DirectRoute, DirectBars)
<1>1. /\ c.outcome = pkg.outcome /\ c.approval = pkg.approval /\ c.impact = Impact(pkg)
      /\ c.required = RequiredTransitions(pkg) /\ c.forbidden = ForbiddenTransitions(pkg)
  BY DEF ContractFor
<1>2. /\ pkg.outcome = "RESOLVED" /\ pkg.approval = "NONE"
      /\ Impact(pkg) = "NONE"
  BY <1>1, DirectTerms DEF Terms
<1>3. pkg.family # "S7"
  BY DEF Direct
<1>4. RequiredTransitions(pkg) = Baseline \cup DirectRoute
  BY <1>2, <1>3 DEF RequiredTransitions, ActingRoute, DirectRoute, ActingTrace, DoneTrace, Handoff
<1>5. ForbiddenTransitions(pkg) = NeverTrace \cup DirectBars
  BY <1>2, <1>3 DEF ForbiddenTransitions, NeverTrace, DirectBars, Clarified
<1> QED
  BY <1>1, <1>4, <1>5 DEF Routes

LEMMA MaterialRoutes ==
  ASSUME NEW family, NEW student, BuiltAs(family, student), Material, NEW c, c = ContractFor(pkg)
  PROVE  Routes(c, MaterialRoute, MaterialBars)
<1>1. /\ c.outcome = pkg.outcome /\ c.approval = pkg.approval /\ c.impact = Impact(pkg)
      /\ c.required = RequiredTransitions(pkg) /\ c.forbidden = ForbiddenTransitions(pkg)
  BY DEF ContractFor
<1>2. /\ pkg.outcome = "CLARIFICATION_REQUIRED" /\ pkg.approval = "NONE"
      /\ Impact(pkg) = "MATERIAL"
  BY <1>1, MaterialTerms DEF Terms
<1>3. pkg.family # "S7"
  BY DEF Material
<1>4. RequiredTransitions(pkg) = Baseline \cup MaterialRoute
  BY <1>2, <1>3 DEF RequiredTransitions, ActingRoute, MaterialRoute, ActingTrace, DoneTrace, Handoff
<1>5. ForbiddenTransitions(pkg) = NeverTrace \cup MaterialBars
  BY <1>2, <1>3 DEF ForbiddenTransitions, NeverTrace, MaterialBars, Clarified
<1> QED
  BY <1>1, <1>4, <1>5 DEF Routes

LEMMA IncompleteRoutes ==
  ASSUME NEW family, NEW student, BuiltAs(family, student), Incomplete, NEW c, c = ContractFor(pkg)
  PROVE  Routes(c, IncompleteRoute, IncompleteBars)
<1>1. /\ c.outcome = pkg.outcome /\ c.approval = pkg.approval /\ c.impact = Impact(pkg)
      /\ c.required = RequiredTransitions(pkg) /\ c.forbidden = ForbiddenTransitions(pkg)
  BY DEF ContractFor
<1>2. /\ pkg.outcome = "CLARIFICATION_REQUIRED" /\ pkg.approval = "NONE"
      /\ Impact(pkg) = "SMALL"
  BY <1>1, IncompleteTerms DEF Terms
<1>3. pkg.family # "S7"
  BY DEF Incomplete
<1>4. RequiredTransitions(pkg) = Baseline \cup IncompleteRoute
  BY <1>2, <1>3 DEF RequiredTransitions, ActingRoute, IncompleteRoute, ActingTrace, DoneTrace, Handoff
<1>5. ForbiddenTransitions(pkg) = NeverTrace \cup IncompleteBars
  BY <1>2, <1>3 DEF ForbiddenTransitions, NeverTrace, IncompleteBars, Clarified
<1> QED
  BY <1>1, <1>4, <1>5 DEF Routes

LEMMA WithdrawnRoutes ==
  ASSUME NEW family, NEW student, BuiltAs(family, student), Withdrawn, NEW c, c = ContractFor(pkg)
  PROVE  Routes(c, WithdrawnRoute, WithdrawnBars)
<1>1. /\ c.outcome = pkg.outcome /\ c.approval = pkg.approval /\ c.impact = Impact(pkg)
      /\ c.required = RequiredTransitions(pkg) /\ c.forbidden = ForbiddenTransitions(pkg)
  BY DEF ContractFor
<1>2. /\ pkg.outcome = "ESCALATED" /\ pkg.approval = "NONE"
      /\ Impact(pkg) = "NONE"
  BY <1>1, WithdrawnTerms DEF Terms
<1>3. pkg.family # "S7"
  BY DEF Withdrawn
<1>4. RequiredTransitions(pkg) = Baseline \cup WithdrawnRoute
  BY <1>2, <1>3 DEF RequiredTransitions, ActingRoute, WithdrawnRoute, ActingTrace, DoneTrace, Handoff
<1>5. ForbiddenTransitions(pkg) = NeverTrace \cup WithdrawnBars
  BY <1>2, <1>3 DEF ForbiddenTransitions, NeverTrace, WithdrawnBars, Clarified
<1> QED
  BY <1>1, <1>4, <1>5 DEF Routes

LEMMA RecoveredRoutes ==
  ASSUME NEW family, NEW student, BuiltAs(family, student), Recovered, NEW c, c = ContractFor(pkg)
  PROVE  Routes(c, RecoveredRoute, RecoveredBars)
<1>1. /\ c.outcome = pkg.outcome /\ c.approval = pkg.approval /\ c.impact = Impact(pkg)
      /\ c.required = RequiredTransitions(pkg) /\ c.forbidden = ForbiddenTransitions(pkg)
  BY DEF ContractFor
<1>2. /\ pkg.outcome = "RESOLVED" /\ pkg.approval = "NONE"
      /\ Impact(pkg) = "NONE"
  BY <1>1, RecoveredTerms DEF Terms
<1>3. pkg.family = "S7"
  BY DEF Recovered
<1>4. RequiredTransitions(pkg) = Baseline \cup RecoveredRoute
  BY <1>2, <1>3 DEF RequiredTransitions, ActingRoute, RecoveredRoute, ActingTrace, DoneTrace, Handoff
<1>5. ForbiddenTransitions(pkg) = NeverTrace \cup RecoveredBars
  BY <1>2, <1>3 DEF ForbiddenTransitions, NeverTrace, RecoveredBars, Clarified
<1> QED
  BY <1>1, <1>4, <1>5 DEF Routes

LEMMA ApprovedRoutes ==
  ASSUME NEW family, NEW student, BuiltAs(family, student), ApprovalIs("APPROVED"), NEW c,
         c = ContractFor(pkg)
  PROVE  Routes(c, ApprovedRoute, ApprovedBars)
<1>1. /\ c.outcome = pkg.outcome /\ c.approval = pkg.approval /\ c.impact = Impact(pkg)
      /\ c.required = RequiredTransitions(pkg) /\ c.forbidden = ForbiddenTransitions(pkg)
  BY DEF ContractFor
<1>2. /\ pkg.outcome = "RESOLVED" /\ pkg.approval = "APPROVED"
      /\ Impact(pkg) = "NONE"
  BY <1>1, ApprovedTerms DEF Terms
<1>3. pkg.family # "S7"
  BY DEF ApprovalIs, NeedsApproval
<1>4. RequiredTransitions(pkg) = Baseline \cup ApprovedRoute
  BY <1>2, <1>3 DEF RequiredTransitions, ActingRoute, ApprovedRoute, ActingTrace, DoneTrace, Handoff
<1>5. ForbiddenTransitions(pkg) = NeverTrace \cup ApprovedBars
  BY <1>2, <1>3 DEF ForbiddenTransitions, NeverTrace, ApprovedBars, Clarified
<1> QED
  BY <1>1, <1>4, <1>5 DEF Routes

LEMMA RefusedRoutes ==
  ASSUME NEW family, NEW student, BuiltAs(family, student), ApprovalIs("REJECTED"), NEW c,
         c = ContractFor(pkg)
  PROVE  Routes(c, RefusedRoute, RefusedBars)
<1>1. /\ c.outcome = pkg.outcome /\ c.approval = pkg.approval /\ c.impact = Impact(pkg)
      /\ c.required = RequiredTransitions(pkg) /\ c.forbidden = ForbiddenTransitions(pkg)
  BY DEF ContractFor
<1>2. /\ pkg.outcome = "ESCALATED" /\ pkg.approval = "REJECTED"
      /\ Impact(pkg) = "NONE"
  BY <1>1, RefusedTerms DEF Terms
<1>3. pkg.family # "S7"
  BY DEF ApprovalIs, NeedsApproval
<1>4. RequiredTransitions(pkg) = Baseline \cup RefusedRoute
  BY <1>2, <1>3 DEF RequiredTransitions, ActingRoute, RefusedRoute, ActingTrace, DoneTrace, Handoff
<1>5. ForbiddenTransitions(pkg) = NeverTrace \cup RefusedBars
  BY <1>2, <1>3 DEF ForbiddenTransitions, NeverTrace, RefusedBars, Clarified
<1> QED
  BY <1>1, <1>4, <1>5 DEF Routes

LEMMA WaitingRoutes ==
  ASSUME NEW family, NEW student, BuiltAs(family, student), ApprovalIs("PENDING"), NEW c,
         c = ContractFor(pkg)
  PROVE  Routes(c, WaitingRoute, WaitingBars)
<1>1. /\ c.outcome = pkg.outcome /\ c.approval = pkg.approval /\ c.impact = Impact(pkg)
      /\ c.required = RequiredTransitions(pkg) /\ c.forbidden = ForbiddenTransitions(pkg)
  BY DEF ContractFor
<1>2. /\ pkg.outcome = "PENDING_APPROVAL" /\ pkg.approval = "PENDING"
      /\ Impact(pkg) = "NONE"
  BY <1>1, WaitingTerms DEF Terms
<1>3. pkg.family # "S7"
  BY DEF ApprovalIs, NeedsApproval
<1>4. RequiredTransitions(pkg) = Baseline \cup WaitingRoute
  BY <1>2, <1>3 DEF RequiredTransitions, ActingRoute, WaitingRoute, ActingTrace, DoneTrace, Handoff
<1>5. ForbiddenTransitions(pkg) = NeverTrace \cup WaitingBars
  BY <1>2, <1>3 DEF ForbiddenTransitions, NeverTrace, WaitingBars, Clarified
<1> QED
  BY <1>1, <1>4, <1>5 DEF Routes

\* Only the recovery of S7 tries an action again.
LEMMA BuiltRetries ==
  ASSUME NEW family, NEW student, BuiltAs(family, student)
  PROVE  RetriesExpected(pkg) = IF family = "S7" THEN 1 ELSE 0
<1> DEFINE repeats == {i \in 1..(Len(pkg.steps) - 1) : pkg.steps[i].action = pkg.steps[i + 1].action}
<1>1. RetriesExpected(pkg) = Cardinality(repeats)
  BY DEF RetriesExpected
<1>2. Len(pkg.steps) \in {1, 2}
  BY FirstSteps
<1>3. \A i \in repeats : i = 1 /\ Len(pkg.steps) = 2
  BY <1>2, ShortIndices
<1>4. 1 + 1 = 2
  OBVIOUS
<1>5. CASE family = "S7"
  <2>1. Len(pkg.steps) = 2 /\ pkg.steps[1].action = pkg.steps[2].action
    BY <1>5, RecoveryScript DEF StepNames
  <2>2. 1 \in 1..(Len(pkg.steps) - 1)
    BY <2>1
  <2>3. 1 \in repeats
    BY <1>4, <2>1, <2>2
  <2> HIDE DEF repeats
  <2>4. repeats = {1}
    BY <1>3, <2>3
  <2> QED
    BY <1>1, <1>5, <2>4, FS_Singleton
<1>6. CASE family # "S7"
  <2>1. ASSUME NEW i \in repeats PROVE FALSE
    <3>1. i = 1 /\ Len(pkg.steps) = 2
      BY <1>3
    <3>2. pkg.steps[1].action = pkg.steps[2].action
      BY <1>4, <3>1
    <3>3. family \in NeedsApproval /\ FollowedBy(pkg.steps[2], family)
      BY <1>6, <3>1, SecondEffects, FamiliesNeed
    <3>4. pkg.steps[1].action = "REQUEST_APPROVAL"
      BY <3>3, ApprovalScript DEF StepNames
    <3> QED
      BY <3>2, <3>3, <3>4 DEF FollowedBy, StepNames
  <2> HIDE DEF repeats
  <2>2. repeats = {}
    BY <2>1
  <2> QED
    BY <1>1, <1>6, <2>2, FS_EmptySet
<1> QED
  BY <1>5, <1>6

\* The loops a contract expects.
Loops(c, replans, retries) == c.replans = replans /\ c.retries = retries

LEMMA BuiltLoops ==
  ASSUME NEW family, NEW student, BuiltAs(family, student), NEW c, c = ContractFor(pkg)
  PROVE  /\ Recovered => Loops(c, 1, 1)
         /\ Material \/ Withdrawn \/ ApprovalIs("REJECTED") => Loops(c, 1, 0)
         /\ Direct \/ Incomplete \/ ApprovalIs("APPROVED") \/ ApprovalIs("PENDING") => Loops(c, 0, 0)
<1>1. /\ c.replans = ReplansExpected(pkg) /\ c.retries = RetriesExpected(pkg)
      /\ c.outcome = pkg.outcome /\ c.approval = pkg.approval /\ c.impact = Impact(pkg)
      /\ (c.admin <=> AdminExpected(pkg))
  BY DEF ContractFor
<1>2. pkg.family = family
  BY BuiltRecords
<1>3. c.retries = IF family = "S7" THEN 1 ELSE 0
  BY <1>1, BuiltRetries
<1>4. c.replans = IF pkg.family = "S7" \/ c.admin \/ c.impact = "MATERIAL" THEN 1 ELSE 0
  BY <1>1 DEF ReplansExpected
<1>5. Recovered => c.replans = 1 /\ c.retries = 1
  BY <1>2, <1>3, <1>4 DEF Recovered
<1>6. Direct => c.replans = 0 /\ c.retries = 0
  <2> SUFFICES ASSUME Direct PROVE c.replans = 0 /\ c.retries = 0
    OBVIOUS
  <2>1. family # "S7" /\ Terms(c, "RESOLVED", "NONE", "NONE", <<"VALID">>, <<"DONE">>)
    BY <1>2, DirectTerms, FamiliesNeed DEF Direct
  <2> QED
    BY <1>2, <1>3, <1>4, <2>1 DEF Terms
<1>7. Material => c.replans = 1 /\ c.retries = 0
  <2> SUFFICES ASSUME Material PROVE c.replans = 1 /\ c.retries = 0
    OBVIOUS
  <2>1. family # "S7" /\ Terms(c, "CLARIFICATION_REQUIRED", "NONE", "MATERIAL", <<"CLARIFY">>, <<>>)
    BY <1>2, MaterialTerms, FamiliesNeed DEF Material
  <2> QED
    BY <1>2, <1>3, <1>4, <2>1 DEF Terms
<1>8. Incomplete => c.replans = 0 /\ c.retries = 0
  <2> SUFFICES ASSUME Incomplete PROVE c.replans = 0 /\ c.retries = 0
    OBVIOUS
  <2>1. family # "S7" /\ Terms(c, "CLARIFICATION_REQUIRED", "NONE", "SMALL", <<"CLARIFY">>, <<>>)
    BY <1>2, IncompleteTerms, FamiliesNeed DEF Incomplete
  <2> QED
    BY <1>2, <1>3, <1>4, <2>1 DEF Terms
<1>9. Withdrawn => c.replans = 1 /\ c.retries = 0
  <2> SUFFICES ASSUME Withdrawn PROVE c.replans = 1 /\ c.retries = 0
    OBVIOUS
  <2>1. family # "S7" /\ Terms(c, "ESCALATED", "NONE", "NONE", <<"VALID">>, <<"CONTINUE_FAILURE">>)
    BY <1>2, WithdrawnTerms, FamiliesNeed DEF Withdrawn
  <2> QED
    BY <1>2, <1>3, <1>4, <2>1 DEF Terms
<1>10. ApprovalIs("APPROVED") => c.replans = 0 /\ c.retries = 0
  <2> SUFFICES ASSUME ApprovalIs("APPROVED") PROVE c.replans = 0 /\ c.retries = 0
    OBVIOUS
  <2>1. family # "S7" /\ Terms(c, "RESOLVED", "APPROVED", "NONE", <<"VALID">>, <<"DONE">>)
    BY <1>2, ApprovedTerms, FamiliesNeed DEF ApprovalIs
  <2> QED
    BY <1>2, <1>3, <1>4, <2>1 DEF Terms
<1>11. ApprovalIs("REJECTED") => c.replans = 1 /\ c.retries = 0
  <2> SUFFICES ASSUME ApprovalIs("REJECTED") PROVE c.replans = 1 /\ c.retries = 0
    OBVIOUS
  <2>1. family # "S7" /\ Terms(c, "ESCALATED", "REJECTED", "NONE", <<"VALID">>, <<>>)
    BY <1>2, RefusedTerms, FamiliesNeed DEF ApprovalIs
  <2> QED
    BY <1>2, <1>3, <1>4, <2>1 DEF Terms
<1>12. ApprovalIs("PENDING") => c.replans = 0 /\ c.retries = 0
  <2> SUFFICES ASSUME ApprovalIs("PENDING") PROVE c.replans = 0 /\ c.retries = 0
    OBVIOUS
  <2>1. family # "S7" /\ Terms(c, "PENDING_APPROVAL", "PENDING", "NONE", <<"VALID">>, <<>>)
    BY <1>2, WaitingTerms, FamiliesNeed DEF ApprovalIs
  <2> QED
    BY <1>2, <1>3, <1>4, <2>1 DEF Terms
<1> QED
  BY <1>5, <1>6, <1>7, <1>8, <1>9, <1>10, <1>11, <1>12 DEF Loops

LEMMA BuiltGoals ==
  ASSUME NEW family, NEW student, BuiltAs(family, student), NEW c, c = ContractFor(pkg)
  PROVE  GoalValid(c)
<1>1. /\ c.kind = GoalKindOf[GoalAction(pkg.family)] /\ c.predicate = CompletionPredicate(pkg)
  BY DEF ContractFor
<1>2. GoalAction(pkg.family) \in {"SUBMIT_REGISTRATION", "SUBMIT_WAIVER", "SUBMIT_EXCEPTION"}
  BY DEF GoalAction, NeedsStatePair
<1> DEFINE action == GoalAction(pkg.family)
           successes == {i \in DOMAIN pkg.steps :
                           pkg.steps[i].action = action /\ pkg.steps[i].result = "SUCCESS"}
           type == IF action = "SUBMIT_REGISTRATION" THEN "REGISTRATION_CONTAINS_COURSE"
                   ELSE "COMMITTED_ACTION_RECEIPT"
           state == IF successes = {} THEN "none" ELSE pkg.steps[Max(successes)].state
           approval == successes # {} /\ pkg.steps[Max(successes)].approval
<1>3. c.predicate = [type |-> type, action |-> action, state |-> state, approval |-> approval]
  BY <1>1 DEF CompletionPredicate
<1>4. c.predicate.type = type /\ c.predicate.action = action
  <2> HIDE DEF type, action, state, approval
  <2> QED
    BY <1>3
<1> HIDE DEF successes, state, approval
<1> QED
  BY <1>1, <1>2, <1>4 DEF GoalValid, GoalKindOf

\* A run over a built package may replan once, retry once and take ten steps; the code
\* allows four, two and twenty (models/orchestration.py:46-48).
CapsSuffice == MaxReplans >= 1 /\ MaxToolRetries >= 1 /\ MaxTotalSteps >= 10

LEMMA DirectLoads ==
  ASSUME CapsSuffice, NEW family, NEW student, BuiltAs(family, student), Direct
  PROVE  ContractValid(ContractFor(pkg))
<1> SUFFICES ASSUME NEW c, c = ContractFor(pkg) PROVE ContractValid(c)
  OBVIOUS
<1>1. /\ GoalValid(c) /\ Routes(c, DirectRoute, DirectBars) /\ Loops(c, 0, 0)
      /\ Terms(c, "RESOLVED", "NONE", "NONE", <<"VALID">>, <<"DONE">>)
  BY BuiltGoals, DirectRoutes, BuiltLoops, DirectTerms
<1>2. c.replans <= MaxReplans /\ c.retries <= MaxToolRetries
  BY <1>1, ContractCampaignAssumption DEF CapsSuffice, Loops
<1>3. (\E i \in DOMAIN c.pre : c.pre[i] = "CLARIFY") <=> c.impact # "NONE"
  BY <1>1, ShortEnds DEF Terms
<1>4. c.memory => Last(c.post) = "DONE"
  BY <1>1, ShortEnds DEF Terms
<1>5. c.required \cap c.forbidden = {} /\ Baseline \subseteq c.required
  BY <1>1 DEF Routes, Baseline, DirectRoute, DirectBars, ActingTrace, DoneTrace, Handoff, NeverTrace
<1> QED
  BY <1>1, <1>2, <1>3, <1>4, <1>5
     DEF ContractValid, Terms, Routes, Loops, Baseline, DirectRoute, DirectBars, ActingTrace,
         DoneTrace, Handoff, NeverTrace

LEMMA MaterialLoads ==
  ASSUME CapsSuffice, NEW family, NEW student, BuiltAs(family, student), Material
  PROVE  ContractValid(ContractFor(pkg))
<1> SUFFICES ASSUME NEW c, c = ContractFor(pkg) PROVE ContractValid(c)
  OBVIOUS
<1>1. /\ GoalValid(c) /\ Routes(c, MaterialRoute, MaterialBars) /\ Loops(c, 1, 0)
      /\ Terms(c, "CLARIFICATION_REQUIRED", "NONE", "MATERIAL", <<"CLARIFY">>, <<>>)
  BY BuiltGoals, MaterialRoutes, BuiltLoops, MaterialTerms
<1>2. c.replans <= MaxReplans /\ c.retries <= MaxToolRetries
  BY <1>1, ContractCampaignAssumption DEF CapsSuffice, Loops
<1>3. (\E i \in DOMAIN c.pre : c.pre[i] = "CLARIFY") <=> c.impact # "NONE"
  BY <1>1, ShortEnds DEF Terms
<1>4. c.memory => Last(c.post) = "DONE"
  BY <1>1, ShortEnds DEF Terms
<1>5. c.required \cap c.forbidden = {} /\ Baseline \subseteq c.required
  BY <1>1 DEF Routes, Baseline, MaterialRoute, MaterialBars, ActingTrace, DoneTrace, Handoff,
              NeverTrace
<1> QED
  BY <1>1, <1>2, <1>3, <1>4, <1>5
     DEF ContractValid, Terms, Routes, Loops, Baseline, MaterialRoute, MaterialBars, ActingTrace,
         DoneTrace, Handoff, NeverTrace

LEMMA IncompleteLoads ==
  ASSUME CapsSuffice, NEW family, NEW student, BuiltAs(family, student), Incomplete
  PROVE  ContractValid(ContractFor(pkg))
<1> SUFFICES ASSUME NEW c, c = ContractFor(pkg) PROVE ContractValid(c)
  OBVIOUS
<1>1. /\ GoalValid(c) /\ Routes(c, IncompleteRoute, IncompleteBars) /\ Loops(c, 0, 0)
      /\ Terms(c, "CLARIFICATION_REQUIRED", "NONE", "SMALL", <<"CLARIFY">>, <<>>)
  BY BuiltGoals, IncompleteRoutes, BuiltLoops, IncompleteTerms
<1>2. c.replans <= MaxReplans /\ c.retries <= MaxToolRetries
  BY <1>1, ContractCampaignAssumption DEF CapsSuffice, Loops
<1>3. (\E i \in DOMAIN c.pre : c.pre[i] = "CLARIFY") <=> c.impact # "NONE"
  BY <1>1, ShortEnds DEF Terms
<1>4. c.memory => Last(c.post) = "DONE"
  BY <1>1, ShortEnds DEF Terms
<1>5. c.required \cap c.forbidden = {} /\ Baseline \subseteq c.required
  BY <1>1 DEF Routes, Baseline, IncompleteRoute, IncompleteBars, ActingTrace, DoneTrace, Handoff,
              NeverTrace
<1> QED
  BY <1>1, <1>2, <1>3, <1>4, <1>5
     DEF ContractValid, Terms, Routes, Loops, Baseline, IncompleteRoute, IncompleteBars, ActingTrace,
         DoneTrace, Handoff, NeverTrace

LEMMA WithdrawnLoads ==
  ASSUME CapsSuffice, NEW family, NEW student, BuiltAs(family, student), Withdrawn
  PROVE  ContractValid(ContractFor(pkg))
<1> SUFFICES ASSUME NEW c, c = ContractFor(pkg) PROVE ContractValid(c)
  OBVIOUS
<1>1. /\ GoalValid(c) /\ Routes(c, WithdrawnRoute, WithdrawnBars) /\ Loops(c, 1, 0)
      /\ Terms(c, "ESCALATED", "NONE", "NONE", <<"VALID">>, <<"CONTINUE_FAILURE">>)
  BY BuiltGoals, WithdrawnRoutes, BuiltLoops, WithdrawnTerms
<1>2. c.replans <= MaxReplans /\ c.retries <= MaxToolRetries
  BY <1>1, ContractCampaignAssumption DEF CapsSuffice, Loops
<1>3. (\E i \in DOMAIN c.pre : c.pre[i] = "CLARIFY") <=> c.impact # "NONE"
  BY <1>1, ShortEnds DEF Terms
<1>4. c.memory => Last(c.post) = "DONE"
  BY <1>1, ShortEnds DEF Terms
<1>5. c.required \cap c.forbidden = {} /\ Baseline \subseteq c.required
  BY <1>1 DEF Routes, Baseline, WithdrawnRoute, WithdrawnBars, ActingTrace, DoneTrace, Handoff,
              NeverTrace
<1> QED
  BY <1>1, <1>2, <1>3, <1>4, <1>5
     DEF ContractValid, Terms, Routes, Loops, Baseline, WithdrawnRoute, WithdrawnBars, ActingTrace,
         DoneTrace, Handoff, NeverTrace

LEMMA RecoveredLoads ==
  ASSUME CapsSuffice, NEW family, NEW student, BuiltAs(family, student), Recovered
  PROVE  ContractValid(ContractFor(pkg))
<1> SUFFICES ASSUME NEW c, c = ContractFor(pkg) PROVE ContractValid(c)
  OBVIOUS
<1>1. /\ GoalValid(c) /\ Routes(c, RecoveredRoute, RecoveredBars) /\ Loops(c, 1, 1)
      /\ Terms(c, "RESOLVED", "NONE", "NONE", <<"VALID", "VALID">>, <<"CONTINUE_FAILURE", "DONE">>)
  BY BuiltGoals, RecoveredRoutes, BuiltLoops, RecoveredTerms
<1>2. c.replans <= MaxReplans /\ c.retries <= MaxToolRetries
  BY <1>1, ContractCampaignAssumption DEF CapsSuffice, Loops
<1>3. (\E i \in DOMAIN c.pre : c.pre[i] = "CLARIFY") <=> c.impact # "NONE"
  BY <1>1, ShortEnds DEF Terms
<1>4. c.memory => Last(c.post) = "DONE"
  BY <1>1, ShortEnds DEF Terms
<1>5. c.required \cap c.forbidden = {} /\ Baseline \subseteq c.required
  BY <1>1 DEF Routes, Baseline, RecoveredRoute, RecoveredBars, ActingTrace, DoneTrace, Handoff,
              NeverTrace
<1> QED
  BY <1>1, <1>2, <1>3, <1>4, <1>5
     DEF ContractValid, Terms, Routes, Loops, Baseline, RecoveredRoute, RecoveredBars, ActingTrace,
         DoneTrace, Handoff, NeverTrace

LEMMA ApprovedLoads ==
  ASSUME CapsSuffice, NEW family, NEW student, BuiltAs(family, student), ApprovalIs("APPROVED")
  PROVE  ContractValid(ContractFor(pkg))
<1> SUFFICES ASSUME NEW c, c = ContractFor(pkg) PROVE ContractValid(c)
  OBVIOUS
<1>1. /\ GoalValid(c) /\ Routes(c, ApprovedRoute, ApprovedBars) /\ Loops(c, 0, 0)
      /\ Terms(c, "RESOLVED", "APPROVED", "NONE", <<"VALID">>, <<"DONE">>)
  BY BuiltGoals, ApprovedRoutes, BuiltLoops, ApprovedTerms
<1>2. c.replans <= MaxReplans /\ c.retries <= MaxToolRetries
  BY <1>1, ContractCampaignAssumption DEF CapsSuffice, Loops
<1>3. (\E i \in DOMAIN c.pre : c.pre[i] = "CLARIFY") <=> c.impact # "NONE"
  BY <1>1, ShortEnds DEF Terms
<1>4. c.memory => Last(c.post) = "DONE"
  BY <1>1, ShortEnds DEF Terms
<1>5. c.required \cap c.forbidden = {} /\ Baseline \subseteq c.required
  BY <1>1 DEF Routes, Baseline, ApprovedRoute, ApprovedBars, ActingTrace, DoneTrace, Handoff,
              NeverTrace
<1> QED
  BY <1>1, <1>2, <1>3, <1>4, <1>5
     DEF ContractValid, Terms, Routes, Loops, Baseline, ApprovedRoute, ApprovedBars, ActingTrace,
         DoneTrace, Handoff, NeverTrace

LEMMA RefusedLoads ==
  ASSUME CapsSuffice, NEW family, NEW student, BuiltAs(family, student), ApprovalIs("REJECTED")
  PROVE  ContractValid(ContractFor(pkg))
<1> SUFFICES ASSUME NEW c, c = ContractFor(pkg) PROVE ContractValid(c)
  OBVIOUS
<1>1. /\ GoalValid(c) /\ Routes(c, RefusedRoute, RefusedBars) /\ Loops(c, 1, 0)
      /\ Terms(c, "ESCALATED", "REJECTED", "NONE", <<"VALID">>, <<>>)
  BY BuiltGoals, RefusedRoutes, BuiltLoops, RefusedTerms
<1>2. c.replans <= MaxReplans /\ c.retries <= MaxToolRetries
  BY <1>1, ContractCampaignAssumption DEF CapsSuffice, Loops
<1>3. (\E i \in DOMAIN c.pre : c.pre[i] = "CLARIFY") <=> c.impact # "NONE"
  BY <1>1, ShortEnds DEF Terms
<1>4. c.memory => Last(c.post) = "DONE"
  BY <1>1, ShortEnds DEF Terms
<1>5. c.required \cap c.forbidden = {} /\ Baseline \subseteq c.required
  BY <1>1 DEF Routes, Baseline, RefusedRoute, RefusedBars, ActingTrace, DoneTrace, Handoff, NeverTrace
<1> QED
  BY <1>1, <1>2, <1>3, <1>4, <1>5
     DEF ContractValid, Terms, Routes, Loops, Baseline, RefusedRoute, RefusedBars, ActingTrace,
         DoneTrace, Handoff, NeverTrace

LEMMA WaitingLoads ==
  ASSUME CapsSuffice, NEW family, NEW student, BuiltAs(family, student), ApprovalIs("PENDING")
  PROVE  ContractValid(ContractFor(pkg))
<1> SUFFICES ASSUME NEW c, c = ContractFor(pkg) PROVE ContractValid(c)
  OBVIOUS
<1>1. /\ GoalValid(c) /\ Routes(c, WaitingRoute, WaitingBars) /\ Loops(c, 0, 0)
      /\ Terms(c, "PENDING_APPROVAL", "PENDING", "NONE", <<"VALID">>, <<>>)
  BY BuiltGoals, WaitingRoutes, BuiltLoops, WaitingTerms
<1>2. c.replans <= MaxReplans /\ c.retries <= MaxToolRetries
  BY <1>1, ContractCampaignAssumption DEF CapsSuffice, Loops
<1>3. (\E i \in DOMAIN c.pre : c.pre[i] = "CLARIFY") <=> c.impact # "NONE"
  BY <1>1, ShortEnds DEF Terms
<1>4. c.memory => Last(c.post) = "DONE"
  BY <1>1, ShortEnds DEF Terms
<1>5. c.required \cap c.forbidden = {} /\ Baseline \subseteq c.required
  BY <1>1 DEF Routes, Baseline, WaitingRoute, WaitingBars, ActingTrace, DoneTrace, Handoff, NeverTrace
<1> QED
  BY <1>1, <1>2, <1>3, <1>4, <1>5
     DEF ContractValid, Terms, Routes, Loops, Baseline, WaitingRoute, WaitingBars, ActingTrace,
         DoneTrace, Handoff, NeverTrace

LEMMA BuiltContractable ==
  ASSUME NEW family, NEW student, BuiltAs(family, student)
  PROVE  Contractable(pkg)
<1>1. /\ pkg.family = family /\ family \in AllFamilies
      /\ pkg.human <=> family \in NeedsApproval
      /\ pkg.approval # "NONE" <=> family \in NeedsApproval
  BY BuiltRecords DEF BuiltAs
<1>2. ASSUME pkg.approval # "NONE"
      PROVE  /\ pkg.steps[1].action = "REQUEST_APPROVAL"
             /\ pkg.outcome = [APPROVED |-> "RESOLVED", REJECTED |-> "ESCALATED",
                               PENDING |-> "PENDING_APPROVAL"][pkg.approval]
             /\ pkg.outcome = "PENDING_APPROVAL" => pkg.approval = "PENDING"
  BY <1>1, <1>2, ApprovalScript, BuiltEvents, BuiltOutcomes DEF StepNames, Decisions
<1>3. ASSUME pkg.approval = "NONE"
      PROVE  /\ pkg.outcome \in {"CLARIFICATION_REQUIRED", "ESCALATED", "RESOLVED"}
             /\ pkg.outcome = "CLARIFICATION_REQUIRED" => family \in {"S3", "S6"}
  <2>1. family \in {"S1", "S3", "S6", "S7"}
    BY <1>1, <1>3, FamiliesNeed DEF AllFamilies
  <2> QED
    BY <2>1, BuiltOutcomes
<1>4. pkg.approval # "NONE" => pkg.approval \in Decisions
  BY <1>1, BuiltEvents
<1>5. CASE pkg.approval = "NONE"
  BY <1>1, <1>3, <1>5 DEF Contractable, Clarified
<1>6. CASE pkg.approval # "NONE"
  <2>1. pkg.outcome \in {"RESOLVED", "ESCALATED", "PENDING_APPROVAL"}
    BY <1>2, <1>4, <1>6 DEF Decisions
  <2> QED
    BY <1>1, <1>2, <1>6, <2>1 DEF Contractable, Clarified
<1> QED
  BY <1>5, <1>6

LEMMA BuiltLoads ==
  ASSUME CapsSuffice, NEW family, NEW student, BuiltAs(family, student)
  PROVE  ContractValid(ContractFor(pkg))
BY BuiltKindsOfRun, DirectLoads, MaterialLoads, IncompleteLoads, WithdrawnLoads, RecoveredLoads,
   ApprovedLoads, RefusedLoads, WaitingLoads

\* What is built has a contract, and the contract loads: the generator of contracts
\* (scripts/build_execution_contracts.py) and the rules it must keep
\* (evaluation/execution_contracts.py) agree on every package.
THEOREM BuiltContractsLoad ==
  ASSUME CapsSuffice
  PROVE  CampaignSpec => [](edits = 0 => Contractable(pkg) /\ ContractValid(ContractFor(pkg)))
<1>1. ASSUME VerdictInv, edits = 0
      PROVE  Contractable(pkg) /\ ContractValid(ContractFor(pkg))
  <2>1. PICK family \in AllFamilies : \E student \in Students(family) : BuiltAs(family, student)
    BY <1>1, FrozenAsBuilt DEF VerdictInv
  <2>2. PICK student \in Students(family) : BuiltAs(family, student)
    BY <2>1
  <2> QED
    BY <2>2, BuiltContractable, BuiltLoads
<1>2. VerdictInv => (edits = 0 => Contractable(pkg) /\ ContractValid(ContractFor(pkg)))
  BY <1>1
<1> QED
  BY <1>2, VerdictInvHolds, PTL

-----------------------------------------------------------------------------
(* The steps of a run *)

RunFields ==
  {"node", "trace", "pre", "post", "planned", "replans", "retries", "steps", "ready",
   "questions", "candidate", "attempted", "effects", "requested", "response", "observation",
   "impact", "outcome", "resumed", "matched"}

\* The checkpoint a step writes: the matching one, if none was before and it matches.
Checked ==
  \/ run'.matched = run.matched /\ (run.matched # {} \/ ~Matches(ContractFor(pkg), run'))
  \/ /\ run.matched = {} /\ Matches(ContractFor(pkg), run')
     /\ \E m : run'.matched = {m} /\ \A f \in RunFields \ {"matched"} : m[f] = run'[f]

\* Where a step takes the run, and what it leaves as it was.
Goes(node, steps, transitions) ==
  /\ DOMAIN run' = RunFields
  /\ run'.node = node /\ run'.steps = steps /\ run'.trace = run.trace \cup transitions
  /\ Checked

Keeps(changed) ==
  \A f \in RunFields \ ({"node", "steps", "trace", "matched"} \cup changed) : run'[f] = run[f]

LEMMA Travels ==
  ASSUME NEW r, DOMAIN r = RunFields, r.matched = run.matched, Continue(r)
  PROVE  /\ DOMAIN run' = RunFields /\ Checked
         /\ \A f \in RunFields \ {"matched"} : run'[f] = r[f]
         /\ UNCHANGED <<pkg, edits, phase>>
<1>1. run' = IF r.matched = {} /\ Matches(ContractFor(pkg), r) THEN [r EXCEPT !.matched = {r}] ELSE r
  BY DEF Continue, Checkpointed
<1>2. DOMAIN run' = RunFields /\ \A f \in RunFields \ {"matched"} : run'[f] = r[f]
  BY <1>1 DEF RunFields
<1>3. Matches(ContractFor(pkg), run') <=> Matches(ContractFor(pkg), r)
  <2>1. run'.trace = r.trace
    BY <1>2 DEF RunFields
  <2> QED
    BY <2>1 DEF Matches
<1>4. Checked
  <2>1. CASE r.matched = {} /\ Matches(ContractFor(pkg), r)
    <3>1. run'.matched = {r}
      BY <1>1, <2>1 DEF RunFields
    <3>2. \A f \in RunFields \ {"matched"} : r[f] = run'[f]
      BY <1>2
    <3> QED
      BY <1>3, <2>1, <3>1, <3>2 DEF Checked
  <2>2. CASE ~(r.matched = {} /\ Matches(ContractFor(pkg), r))
    BY <1>1, <1>3, <2>2 DEF Checked
  <2> QED
    BY <2>1, <2>2
<1> QED
  BY <1>2, <1>4 DEF Continue

LEMMA IntakeGoes ==
  ASSUME DOMAIN run = RunFields, Intake
  PROVE  /\ Goes("planner", run.steps, {"INTAKE:CONTEXT_READY->MEMORY_RETRIEVER",
                                        "MEMORY_RETRIEVER:READY->PLANNER"})
         /\ Keeps({"ready", "questions"})
         /\ run'.ready = pkg.ready /\ run'.questions = pkg.questions
         /\ UNCHANGED vars
<1> DEFINE r == Moved([run EXCEPT !.ready = pkg.ready, !.questions = pkg.questions], "planner",
                      {"INTAKE:CONTEXT_READY->MEMORY_RETRIEVER", "MEMORY_RETRIEVER:READY->PLANNER"})
<1>1. Continue(r) /\ UNCHANGED world
  BY DEF Intake, Reads
<1>2. /\ DOMAIN r = RunFields /\ r.matched = run.matched
      /\ r.node = "planner" /\ r.steps = run.steps
      /\ r.trace = run.trace \cup {"INTAKE:CONTEXT_READY->MEMORY_RETRIEVER",
                                   "MEMORY_RETRIEVER:READY->PLANNER"}
      /\ r.ready = pkg.ready /\ r.questions = pkg.questions
      /\ \A f \in RunFields \ {"node", "steps", "trace", "matched", "ready", "questions"} :
           r[f] = run[f]
  BY DEF Moved, RunFields
<1> HIDE DEF r
<1> QED
  BY <1>1, <1>2, Travels DEF Goes, Keeps, RunFields, vars

LEMMA PlannerContinues ==
  ASSUME DOMAIN run = RunFields, Planner, ~(run.response = "REJECTED" \/ run.observation = "FINAL")
  PROVE  /\ Goes("resolution_builder", run.steps + 1, {})
         /\ Keeps({"planned", "replans", "retries"})
         /\ run'.planned
         /\ run'.replans = IF run.planned THEN run.replans + 1 ELSE run.replans
         /\ run'.retries = IF run.planned /\ run.observation = "RETRYABLE" THEN run.retries + 1
                             ELSE run.retries
         /\ UNCHANGED vars
<1> DEFINE r == [[Charge(run) EXCEPT
                  !.planned = TRUE, !.replans = IF run.planned THEN @ + 1 ELSE @,
                  !.retries = IF run.planned /\ run.observation = "RETRYABLE" THEN @ + 1 ELSE @]
                EXCEPT !.node = "resolution_builder"]
<1>1. Continue(r) /\ UNCHANGED world
  BY DEF Planner, Reads
<1>2. /\ DOMAIN r = RunFields /\ r.matched = run.matched
      /\ r.node = "resolution_builder" /\ r.steps = run.steps + 1
      /\ r.trace = run.trace \cup {}
      /\ r.planned
      /\ r.replans = IF run.planned THEN run.replans + 1 ELSE run.replans
      /\ r.retries = IF run.planned /\ run.observation = "RETRYABLE" THEN run.retries + 1
                           ELSE run.retries
      /\ \A f \in RunFields \ {"node", "steps", "trace", "matched", "planned", "replans", "retries"} :
           r[f] = run[f]
  BY DEF Moved, Charge, RunFields
<1> HIDE DEF r
<1> QED
  BY <1>1, <1>2, Travels DEF Goes, Keeps, RunFields, vars

LEMMA PlannerGivesUp ==
  ASSUME DOMAIN run = RunFields, Planner, run.response = "REJECTED" \/ run.observation = "FINAL"
  PROVE  /\ Goes("human_admin_review", run.steps + 1, {"PLANNER:NO_SAFE_ROUTE->HUMAN_ADMIN_REVIEW"})
         /\ Keeps({"planned", "replans", "retries"})
         /\ run'.planned
         /\ run'.replans = IF run.planned THEN run.replans + 1 ELSE run.replans
         /\ run'.retries = IF run.planned /\ run.observation = "RETRYABLE" THEN run.retries + 1
                             ELSE run.retries
         /\ UNCHANGED vars
<1> DEFINE r == Moved([Charge(run) EXCEPT
                  !.planned = TRUE, !.replans = IF run.planned THEN @ + 1 ELSE @,
                  !.retries = IF run.planned /\ run.observation = "RETRYABLE" THEN @ + 1 ELSE @],
                "human_admin_review", {"PLANNER:NO_SAFE_ROUTE->HUMAN_ADMIN_REVIEW"})
<1>1. Continue(r) /\ UNCHANGED world
  BY DEF Planner, Reads
<1>2. /\ DOMAIN r = RunFields /\ r.matched = run.matched
      /\ r.node = "human_admin_review" /\ r.steps = run.steps + 1
      /\ r.trace = run.trace \cup {"PLANNER:NO_SAFE_ROUTE->HUMAN_ADMIN_REVIEW"}
      /\ r.planned
      /\ r.replans = IF run.planned THEN run.replans + 1 ELSE run.replans
      /\ r.retries = IF run.planned /\ run.observation = "RETRYABLE" THEN run.retries + 1
                           ELSE run.retries
      /\ \A f \in RunFields \ {"node", "steps", "trace", "matched", "planned", "replans", "retries"} :
           r[f] = run[f]
  BY DEF Moved, Charge, RunFields
<1> HIDE DEF r
<1> QED
  BY <1>1, <1>2, Travels DEF Goes, Keeps, RunFields, vars

LEMMA BuilderGoes ==
  ASSUME DOMAIN run = RunFields, ResolutionBuilder, CandidateFor(pkg) # NoCandidate
  PROVE  /\ Goes("verifier_pre_action", run.steps,
                 {"RESOLUTION_BUILDER:CANDIDATES_BUILT->VERIFIER_PRE_ACTION"})
         /\ Keeps({"candidate"})
         /\ run'.candidate = CandidateFor(pkg)
         /\ UNCHANGED vars
<1> DEFINE r == Moved([run EXCEPT !.candidate = CandidateFor(pkg)], "verifier_pre_action",
                {"RESOLUTION_BUILDER:CANDIDATES_BUILT->VERIFIER_PRE_ACTION"})
<1>1. Continue(r) /\ UNCHANGED world
  BY DEF ResolutionBuilder, Reads
<1>2. /\ DOMAIN r = RunFields /\ r.matched = run.matched
      /\ r.node = "verifier_pre_action" /\ r.steps = run.steps
      /\ r.trace = run.trace \cup {"RESOLUTION_BUILDER:CANDIDATES_BUILT->VERIFIER_PRE_ACTION"}
      /\ r.candidate = CandidateFor(pkg)
      /\ \A f \in RunFields \ {"node", "steps", "trace", "matched", "candidate"} : r[f] = run[f]
  BY DEF Moved, Charge, RunFields
<1> HIDE DEF r
<1> QED
  BY <1>1, <1>2, Travels DEF Goes, Keeps, RunFields, vars

LEMMA PreActionValid ==
  ASSUME DOMAIN run = RunFields, VerifierPreAction, Assessment = "VALID"
  PROVE  /\ Goes("action_gate", run.steps + 1, {"VERIFIER_PRE_ACTION:VALID->ACTION_GATE"})
         /\ Keeps({"pre"})
         /\ run'.pre = Append(run.pre, "VALID")
         /\ UNCHANGED vars
<1> DEFINE r == Moved([Charge(run) EXCEPT !.pre = Append(@, "VALID")], "action_gate",
                {"VERIFIER_PRE_ACTION:VALID->ACTION_GATE"})
<1>1. Continue(r) /\ UNCHANGED world
  BY DEF VerifierPreAction, Reads
<1>2. /\ DOMAIN r = RunFields /\ r.matched = run.matched
      /\ r.node = "action_gate" /\ r.steps = run.steps + 1
      /\ r.trace = run.trace \cup {"VERIFIER_PRE_ACTION:VALID->ACTION_GATE"}
      /\ r.pre = Append(run.pre, "VALID")
      /\ \A f \in RunFields \ {"node", "steps", "trace", "matched", "pre"} : r[f] = run[f]
  BY DEF Moved, Charge, RunFields
<1> HIDE DEF r
<1> QED
  BY <1>1, <1>2, Travels DEF Goes, Keeps, RunFields, vars

LEMMA PreActionSmall ==
  ASSUME DOMAIN run = RunFields, VerifierPreAction, Assessment = "CLARIFY_SMALL"
  PROVE  /\ Goes("clarification", run.steps + 1, {"VERIFIER_PRE_ACTION:CLARIFY->CLARIFICATION"})
         /\ Keeps({"pre", "impact"})
         /\ run'.pre = Append(run.pre, "CLARIFY") /\ run'.impact = "SMALL"
         /\ UNCHANGED vars
<1> DEFINE r == Moved([[Charge(run) EXCEPT !.pre = Append(@, "CLARIFY")] EXCEPT !.impact = "SMALL"],
                "clarification", {"VERIFIER_PRE_ACTION:CLARIFY->CLARIFICATION"})
<1>1. Continue(r) /\ UNCHANGED world
  BY DEF VerifierPreAction, Reads
<1>2. /\ DOMAIN r = RunFields /\ r.matched = run.matched
      /\ r.node = "clarification" /\ r.steps = run.steps + 1
      /\ r.trace = run.trace \cup {"VERIFIER_PRE_ACTION:CLARIFY->CLARIFICATION"}
      /\ r.pre = Append(run.pre, "CLARIFY") /\ r.impact = "SMALL"
      /\ \A f \in RunFields \ {"node", "steps", "trace", "matched", "pre", "impact"} : r[f] = run[f]
  BY DEF Moved, Charge, RunFields
<1> HIDE DEF r
<1> QED
  BY <1>1, <1>2, Travels DEF Goes, Keeps, RunFields, vars

LEMMA PreActionMaterial ==
  ASSUME DOMAIN run = RunFields, VerifierPreAction, Assessment = "CLARIFY_MATERIAL"
  PROVE  /\ Goes("clarification", run.steps + 1, {"VERIFIER_PRE_ACTION:CLARIFY->CLARIFICATION"})
         /\ Keeps({"pre", "impact"})
         /\ run'.pre = Append(run.pre, "CLARIFY") /\ run'.impact = "MATERIAL"
         /\ UNCHANGED vars
<1> DEFINE r == Moved([[Charge(run) EXCEPT !.pre = Append(@,
                                                          "CLARIFY")] EXCEPT !.impact = "MATERIAL"],
                "clarification", {"VERIFIER_PRE_ACTION:CLARIFY->CLARIFICATION"})
<1>1. Continue(r) /\ UNCHANGED world
  BY DEF VerifierPreAction, Reads
<1>2. /\ DOMAIN r = RunFields /\ r.matched = run.matched
      /\ r.node = "clarification" /\ r.steps = run.steps + 1
      /\ r.trace = run.trace \cup {"VERIFIER_PRE_ACTION:CLARIFY->CLARIFICATION"}
      /\ r.pre = Append(run.pre, "CLARIFY") /\ r.impact = "MATERIAL"
      /\ \A f \in RunFields \ {"node", "steps", "trace", "matched", "pre", "impact"} : r[f] = run[f]
  BY DEF Moved, Charge, RunFields
<1> HIDE DEF r
<1> QED
  BY <1>1, <1>2, Travels DEF Goes, Keeps, RunFields, vars

LEMMA GateOpens ==
  ASSUME DOMAIN run = RunFields, ActionGate, pkg.approval = "NONE"
  PROVE  /\ Goes("transaction", run.steps + 1, {"ACTION_GATE:NO_APPROVAL->TRANSACTION"})
         /\ Keeps({})
         /\ UNCHANGED vars
<1> DEFINE r == Moved(Charge(run), "transaction", {"ACTION_GATE:NO_APPROVAL->TRANSACTION"})
<1>1. Continue(r) /\ UNCHANGED world
  BY DEF ActionGate, Reads
<1>2. /\ DOMAIN r = RunFields /\ r.matched = run.matched
      /\ r.node = "transaction" /\ r.steps = run.steps + 1
      /\ r.trace = run.trace \cup {"ACTION_GATE:NO_APPROVAL->TRANSACTION"}
      /\ \A f \in RunFields \ {"node", "steps", "trace", "matched"} : r[f] = run[f]
  BY DEF Moved, Charge, RunFields
<1> HIDE DEF r
<1> QED
  BY <1>1, <1>2, Travels DEF Goes, Keeps, RunFields, vars

LEMMA GateAsks ==
  ASSUME DOMAIN run = RunFields, ActionGate, pkg.approval # "NONE"
  PROVE  /\ Goes("human_approval", run.steps + 1, {"ACTION_GATE:APPROVAL_REQUIRED->HUMAN_APPROVAL"})
         /\ Keeps({})
         /\ UNCHANGED vars
<1> DEFINE r == Moved(Charge(run), "human_approval",
                {"ACTION_GATE:APPROVAL_REQUIRED->HUMAN_APPROVAL"})
<1>1. Continue(r) /\ UNCHANGED world
  BY DEF ActionGate, Reads
<1>2. /\ DOMAIN r = RunFields /\ r.matched = run.matched
      /\ r.node = "human_approval" /\ r.steps = run.steps + 1
      /\ r.trace = run.trace \cup {"ACTION_GATE:APPROVAL_REQUIRED->HUMAN_APPROVAL"}
      /\ \A f \in RunFields \ {"node", "steps", "trace", "matched"} : r[f] = run[f]
  BY DEF Moved, Charge, RunFields
<1> HIDE DEF r
<1> QED
  BY <1>1, <1>2, Travels DEF Goes, Keeps, RunFields, vars

LEMMA PostActionDone ==
  ASSUME DOMAIN run = RunFields, VerifierPostAction, GoalReached
  PROVE  /\ Goes("done", run.steps + 1, {"VERIFIER_POST_ACTION:DONE->FINAL_RESPONSE",
                                         "VERIFIER_POST_ACTION:DONE->MEMORY_UPDATER"})
         /\ Keeps({"post"})
         /\ run'.post = Append(run.post, "DONE")
         /\ UNCHANGED vars
<1> DEFINE r == Moved([Charge(run) EXCEPT !.post = Append(@, "DONE")], "done",
                {"VERIFIER_POST_ACTION:DONE->FINAL_RESPONSE",
                 "VERIFIER_POST_ACTION:DONE->MEMORY_UPDATER"})
<1>1. Continue(r) /\ UNCHANGED world
  BY DEF VerifierPostAction, Reads
<1>2. /\ DOMAIN r = RunFields /\ r.matched = run.matched
      /\ r.node = "done" /\ r.steps = run.steps + 1
      /\ r.trace = run.trace \cup {"VERIFIER_POST_ACTION:DONE->FINAL_RESPONSE",
                                   "VERIFIER_POST_ACTION:DONE->MEMORY_UPDATER"}
      /\ r.post = Append(run.post, "DONE")
      /\ \A f \in RunFields \ {"node", "steps", "trace", "matched", "post"} : r[f] = run[f]
  BY DEF Moved, Charge, RunFields
<1> HIDE DEF r
<1> QED
  BY <1>1, <1>2, Travels DEF Goes, Keeps, RunFields, vars

LEMMA PostActionFails ==
  ASSUME DOMAIN run = RunFields, VerifierPostAction, ~GoalReached
  PROVE  /\ Goes("planner", run.steps + 1, {"VERIFIER_POST_ACTION:CONTINUE_FAILURE->PLANNER"})
         /\ Keeps({"post"})
         /\ run'.post = Append(run.post, "CONTINUE_FAILURE")
         /\ UNCHANGED vars
<1> DEFINE r == Moved([Charge(run) EXCEPT !.post = Append(@, "CONTINUE_FAILURE")], "planner",
                {"VERIFIER_POST_ACTION:CONTINUE_FAILURE->PLANNER"})
<1>1. Continue(r) /\ UNCHANGED world
  BY DEF VerifierPostAction, Reads
<1>2. /\ DOMAIN r = RunFields /\ r.matched = run.matched
      /\ r.node = "planner" /\ r.steps = run.steps + 1
      /\ r.trace = run.trace \cup {"VERIFIER_POST_ACTION:CONTINUE_FAILURE->PLANNER"}
      /\ r.post = Append(run.post, "CONTINUE_FAILURE")
      /\ \A f \in RunFields \ {"node", "steps", "trace", "matched", "post"} : r[f] = run[f]
  BY DEF Moved, Charge, RunFields
<1> HIDE DEF r
<1> QED
  BY <1>1, <1>2, Travels DEF Goes, Keeps, RunFields, vars

LEMMA AdminGoes ==
  ASSUME DOMAIN run = RunFields, HumanAdminReview
  PROVE  /\ Goes("handoff", run.steps + 1, {"HUMAN_ADMIN_REVIEW:HANDOFF_PREPARED->FINAL_RESPONSE"})
         /\ Keeps({})
         /\ UNCHANGED vars
<1> DEFINE r == Moved(Charge(run), "handoff", {"HUMAN_ADMIN_REVIEW:HANDOFF_PREPARED->FINAL_RESPONSE"})
<1>1. Continue(r) /\ UNCHANGED world
  BY DEF HumanAdminReview, Reads
<1>2. /\ DOMAIN r = RunFields /\ r.matched = run.matched
      /\ r.node = "handoff" /\ r.steps = run.steps + 1
      /\ r.trace = run.trace \cup {"HUMAN_ADMIN_REVIEW:HANDOFF_PREPARED->FINAL_RESPONSE"}
      /\ \A f \in RunFields \ {"node", "steps", "trace", "matched"} : r[f] = run[f]
  BY DEF Moved, Charge, RunFields
<1> HIDE DEF r
<1> QED
  BY <1>1, <1>2, Travels DEF Goes, Keeps, RunFields, vars

LEMMA AnswerSmall ==
  ASSUME DOMAIN run = RunFields, AnswerClarification, run.impact = "SMALL"
  PROVE  /\ Goes("verifier_pre_action", run.steps + 1,
                 {"CLARIFICATION:SMALL_CHANGE->VERIFIER_PRE_ACTION"})
         /\ Keeps({"outcome", "resumed", "questions", "ready"})
         /\ run'.outcome = First /\ run'.resumed /\ ~run'.questions
         /\ run'.ready = "YES"
         /\ UNCHANGED vars
<1> DEFINE r == Moved([[Charge(run) EXCEPT !.outcome = First, !.resumed = TRUE, !.questions = FALSE]
                  EXCEPT !.ready = "YES"], "verifier_pre_action",
                {"CLARIFICATION:SMALL_CHANGE->VERIFIER_PRE_ACTION"})
<1>1. Continue(r) /\ UNCHANGED world
  BY DEF AnswerClarification, Reads
<1>2. /\ DOMAIN r = RunFields /\ r.matched = run.matched
      /\ r.node = "verifier_pre_action" /\ r.steps = run.steps + 1
      /\ r.trace = run.trace \cup {"CLARIFICATION:SMALL_CHANGE->VERIFIER_PRE_ACTION"}
      /\ r.outcome = First /\ r.resumed /\ ~r.questions
      /\ r.ready = "YES"
      /\ \A f \in RunFields \ {"node", "steps", "trace", "matched", "outcome", "resumed", "questions", "ready"} :
           r[f] = run[f]
  BY DEF Moved, Charge, RunFields
<1> HIDE DEF r
<1> QED
  BY <1>1, <1>2, Travels DEF Goes, Keeps, RunFields, vars

LEMMA AnswerMaterial ==
  ASSUME DOMAIN run = RunFields, AnswerClarification, run.impact # "SMALL"
  PROVE  /\ Goes("planner", run.steps + 1, {"CLARIFICATION:MATERIAL_CHANGE->PLANNER"})
         /\ Keeps({"outcome", "resumed", "questions"})
         /\ run'.outcome = First /\ run'.resumed /\ ~run'.questions
         /\ UNCHANGED vars
<1> DEFINE r == Moved([Charge(run) EXCEPT !.outcome = First, !.resumed = TRUE, !.questions = FALSE],
                "planner", {"CLARIFICATION:MATERIAL_CHANGE->PLANNER"})
<1>1. Continue(r) /\ UNCHANGED world
  BY DEF AnswerClarification, Reads
<1>2. /\ DOMAIN r = RunFields /\ r.matched = run.matched
      /\ r.node = "planner" /\ r.steps = run.steps + 1
      /\ r.trace = run.trace \cup {"CLARIFICATION:MATERIAL_CHANGE->PLANNER"}
      /\ r.outcome = First /\ r.resumed /\ ~r.questions
      /\ \A f \in RunFields \ {"node", "steps", "trace", "matched", "outcome", "resumed", "questions"} :
           r[f] = run[f]
  BY DEF Moved, Charge, RunFields
<1> HIDE DEF r
<1> QED
  BY <1>1, <1>2, Travels DEF Goes, Keeps, RunFields, vars

LEMMA PauseResumes ==
  ASSUME DOMAIN run = RunFields, ObserveApproval
  PROVE  /\ Goes("human_approval", run.steps, {"PAUSE_CHECKPOINT:APPROVAL_OBSERVED->HUMAN_APPROVAL"})
         /\ Keeps({"outcome", "resumed"})
         /\ run'.outcome = First /\ run'.resumed
         /\ UNCHANGED vars
<1> DEFINE r == Moved([run EXCEPT !.outcome = First, !.resumed = TRUE], "human_approval",
                {"PAUSE_CHECKPOINT:APPROVAL_OBSERVED->HUMAN_APPROVAL"})
<1>1. Continue(r) /\ UNCHANGED world
  BY DEF ObserveApproval, Reads
<1>2. /\ DOMAIN r = RunFields /\ r.matched = run.matched
      /\ r.node = "human_approval" /\ r.steps = run.steps
      /\ r.trace = run.trace \cup {"PAUSE_CHECKPOINT:APPROVAL_OBSERVED->HUMAN_APPROVAL"}
      /\ r.outcome = First /\ r.resumed
      /\ \A f \in RunFields \ {"node", "steps", "trace", "matched", "outcome", "resumed"} :
           r[f] = run[f]
  BY DEF Moved, Charge, RunFields
<1> HIDE DEF r
<1> QED
  BY <1>1, <1>2, Travels DEF Goes, Keeps, RunFields, vars

\* What a run may ask of the engine.
Requests == [action : Actions \cup {"NONE"}, state : States \cup {"none"}, approval : BOOLEAN,
                                                                  retry : BOOLEAN]

LEMMA SameRequests ==
  ASSUME NEW x \in Requests, NEW y \in Requests, x.action = y.action, x.state = y.state,
         x.approval = y.approval, x.retry = y.retry
  PROVE  x = y
BY DEF Requests

\* The script expects a request when its next step names the same.
LEMMA StepAsked ==
  ASSUME NEW request \in Requests, NEW i \in DOMAIN pkg.steps, i = world.cursor,
         pkg.steps[i].approval \in BOOLEAN, pkg.steps[i].retry \in BOOLEAN,
         request.action = pkg.steps[i].action, request.state = pkg.steps[i].state,
         request.approval = pkg.steps[i].approval, request.retry = pkg.steps[i].retry
  PROVE  StepFor(request) = {pkg.steps[i]}
<1> DEFINE named == [action |-> pkg.steps[i].action, state |-> pkg.steps[i].state,
                     approval |-> pkg.steps[i].approval, retry |-> pkg.steps[i].retry]
<1>1. request.action \in Actions \cup {"NONE"} /\ request.state \in States \cup {"none"}
  BY DEF Requests
<1>2. named \in Requests
  BY <1>1 DEF Requests
<1>3. named = request
  BY <1>2, SameRequests
<1> QED
  BY <1>3 DEF StepFor

\* The flags of a built step are truth values.
LEMMA StepFlags ==
  ASSUME NEW family, NEW student, BuiltAs(family, student)
  PROVE  /\ family \in NeedsApproval => pkg.steps[1].approval = TRUE /\ pkg.steps[1].retry = FALSE
         /\ family \notin NeedsApproval => pkg.steps[1].approval = FALSE /\ pkg.steps[1].retry = FALSE
         /\ family = "S7" => pkg.steps[2].approval = FALSE /\ pkg.steps[2].retry = TRUE
         /\ family \in NeedsApproval /\ pkg.approval = "APPROVED" =>
              pkg.steps[2].approval = TRUE /\ pkg.steps[2].retry = FALSE
<1>1. family \in AllFamilies
  BY DEF BuiltAs
<1>2. CASE family \in NeedsApproval
  BY <1>2, ApprovalScript, FamiliesNeed DEF FollowedBy
<1>3. CASE family = "S1"
  BY <1>3, RegistrationScript, FamiliesNeed
<1>4. CASE family = "S3"
  BY <1>4, ExceptionScript, FamiliesNeed
<1>5. CASE family = "S6"
  BY <1>5, IncompleteScript, FamiliesNeed
<1>6. CASE family = "S7"
  BY <1>6, RecoveryScript, FamiliesNeed
<1> QED
  BY <1>1, <1>2, <1>3, <1>4, <1>5, <1>6 DEF AllFamilies, NeedsApproval

\* The first step of a script that needs an approval is the request for it.
LEMMA RequestAsked ==
  ASSUME NEW family, NEW student, BuiltAs(family, student), family \in NeedsApproval,
         PackageShape(pkg), world = FreshWorld(pkg)
  PROVE  /\ StepFor(ApprovalRequest) = {pkg.steps[1]} /\ Executable(pkg, pkg.steps[1])
<1>1. 1 \in DOMAIN pkg.steps /\ world.cursor = 1
  BY ApprovalScript DEF FreshWorld
<1>2. /\ pkg.steps[1].action = "REQUEST_APPROVAL" /\ pkg.steps[1].state = "none"
      /\ pkg.steps[1].approval = TRUE /\ pkg.steps[1].retry = FALSE
  BY StepFlags, ApprovalScript DEF StepNames
<1>3. /\ ApprovalRequest \in Requests
      /\ ApprovalRequest.action = "REQUEST_APPROVAL" /\ ApprovalRequest.state = "none"
      /\ ApprovalRequest.approval = TRUE /\ ApprovalRequest.retry = FALSE
  BY DEF ApprovalRequest, NoCandidate, Requests, Actions
<1>4. StepFor(ApprovalRequest) = {pkg.steps[1]}
  BY <1>1, <1>2, <1>3, StepAsked
<1> QED
  BY <1>4, FirstExecutable

LEMMA HumanApproves ==
  ASSUME DOMAIN run = RunFields, NEW family, NEW student, BuiltAs(family, student),
         family \in NeedsApproval, PackageShape(pkg), pkg.approval = "APPROVED",
         world = FreshWorld(pkg), HumanApproval, ~run.requested
  PROVE  /\ Goes("transaction", run.steps + 1, {"HUMAN_APPROVAL:APPROVED->TRANSACTION"})
         /\ Keeps({"requested", "response"})
         /\ run'.requested /\ run'.response = "APPROVED"
         /\ FirstDone(family)' /\ UNCHANGED <<pkg, edits, phase>>
<1> DEFINE r == Moved([[Charge(run) EXCEPT !.requested = TRUE] EXCEPT !.response = "APPROVED"],
                      "transaction", {"HUMAN_APPROVAL:APPROVED->TRANSACTION"})
<1>1. PICK step \in StepFor(ApprovalRequest) :
        /\ Perform(step)
        /\ FollowDecision([Charge(run) EXCEPT !.requested = TRUE], world'.seen, world'.decision)
  BY RequestAsked DEF HumanApproval
<1>2. step = pkg.steps[1]
  BY <1>1, RequestAsked
<1>3. UNCHANGED <<pkg, edits, phase>>
  BY <1>1 DEF FollowDecision, Continue
<1>4. FirstDone(family)'
  BY <1>1, <1>2, <1>3, FirstPerformed DEF Perform
<1>5. world'.seen /\ world'.decision = "APPROVED"
  BY <1>3, <1>4 DEF FirstDone
<1>6. Continue(r)
  BY <1>1, <1>5 DEF FollowDecision
<1>7. /\ DOMAIN r = RunFields /\ r.matched = run.matched
      /\ r.node = "transaction" /\ r.steps = run.steps + 1
      /\ r.trace = run.trace \cup {"HUMAN_APPROVAL:APPROVED->TRANSACTION"}
      /\ r.requested /\ r.response = "APPROVED"
      /\ \A f \in RunFields \ {"node", "steps", "trace", "matched", "requested", "response"} :
           r[f] = run[f]
  BY DEF Moved, Charge, RunFields
<1> HIDE DEF r
<1>8. /\ DOMAIN run' = RunFields /\ Checked
      /\ \A f \in RunFields \ {"matched"} : run'[f] = r[f]
  BY <1>6, <1>7, Travels
<1> QED
  BY <1>3, <1>4, <1>7, <1>8 DEF Goes, Keeps, RunFields

LEMMA HumanRefuses ==
  ASSUME DOMAIN run = RunFields, NEW family, NEW student, BuiltAs(family, student),
         family \in NeedsApproval, PackageShape(pkg), pkg.approval = "REJECTED",
         world = FreshWorld(pkg), HumanApproval, ~run.requested
  PROVE  /\ Goes("planner", run.steps + 1, {"HUMAN_APPROVAL:REJECTED->PLANNER"})
         /\ Keeps({"requested", "response"})
         /\ run'.requested /\ run'.response = "REJECTED"
         /\ FirstDone(family)' /\ UNCHANGED <<pkg, edits, phase>>
<1> DEFINE r == Moved([[Charge(run) EXCEPT !.requested = TRUE] EXCEPT !.response = "REJECTED"],
                      "planner", {"HUMAN_APPROVAL:REJECTED->PLANNER"})
<1>1. PICK step \in StepFor(ApprovalRequest) :
        /\ Perform(step)
        /\ FollowDecision([Charge(run) EXCEPT !.requested = TRUE], world'.seen, world'.decision)
  BY RequestAsked DEF HumanApproval
<1>2. step = pkg.steps[1]
  BY <1>1, RequestAsked
<1>3. UNCHANGED <<pkg, edits, phase>>
  BY <1>1 DEF FollowDecision, Continue
<1>4. FirstDone(family)'
  BY <1>1, <1>2, <1>3, FirstPerformed DEF Perform
<1>5. world'.seen /\ world'.decision = "REJECTED"
  BY <1>3, <1>4 DEF FirstDone
<1>6. Continue(r)
  BY <1>1, <1>5 DEF FollowDecision
<1>7. /\ DOMAIN r = RunFields /\ r.matched = run.matched
      /\ r.node = "planner" /\ r.steps = run.steps + 1
      /\ r.trace = run.trace \cup {"HUMAN_APPROVAL:REJECTED->PLANNER"}
      /\ r.requested /\ r.response = "REJECTED"
      /\ \A f \in RunFields \ {"node", "steps", "trace", "matched", "requested", "response"} :
           r[f] = run[f]
  BY DEF Moved, Charge, RunFields
<1> HIDE DEF r
<1>8. /\ DOMAIN run' = RunFields /\ Checked
      /\ \A f \in RunFields \ {"matched"} : run'[f] = r[f]
  BY <1>6, <1>7, Travels
<1> QED
  BY <1>3, <1>4, <1>7, <1>8 DEF Goes, Keeps, RunFields

LEMMA HumanWaits ==
  ASSUME DOMAIN run = RunFields, NEW family, NEW student, BuiltAs(family, student),
         family \in NeedsApproval, PackageShape(pkg), pkg.approval = "PENDING",
         world = FreshWorld(pkg), HumanApproval, ~run.requested
  PROVE  /\ Goes("pause_checkpoint", run.steps + 1, {"HUMAN_APPROVAL:PENDING->PAUSE_CHECKPOINT"})
         /\ Keeps({"requested", "response"})
         /\ run'.requested /\ run'.response = "PENDING"
         /\ FirstDone(family)' /\ UNCHANGED <<pkg, edits, phase>>
<1> DEFINE r == Moved([[Charge(run) EXCEPT !.requested = TRUE] EXCEPT !.response = "PENDING"],
                      "pause_checkpoint", {"HUMAN_APPROVAL:PENDING->PAUSE_CHECKPOINT"})
<1>1. PICK step \in StepFor(ApprovalRequest) :
        /\ Perform(step)
        /\ FollowDecision([Charge(run) EXCEPT !.requested = TRUE], world'.seen, world'.decision)
  BY RequestAsked DEF HumanApproval
<1>2. step = pkg.steps[1]
  BY <1>1, RequestAsked
<1>3. UNCHANGED <<pkg, edits, phase>>
  BY <1>1 DEF FollowDecision, Continue
<1>4. FirstDone(family)'
  BY <1>1, <1>2, <1>3, FirstPerformed DEF Perform
<1>5. world'.seen /\ world'.decision = "PENDING"
  BY <1>3, <1>4 DEF FirstDone
<1>6. Continue(r)
  BY <1>1, <1>5 DEF FollowDecision
<1>7. /\ DOMAIN r = RunFields /\ r.matched = run.matched
      /\ r.node = "pause_checkpoint" /\ r.steps = run.steps + 1
      /\ r.trace = run.trace \cup {"HUMAN_APPROVAL:PENDING->PAUSE_CHECKPOINT"}
      /\ r.requested /\ r.response = "PENDING"
      /\ \A f \in RunFields \ {"node", "steps", "trace", "matched", "requested", "response"} :
           r[f] = run[f]
  BY DEF Moved, Charge, RunFields
<1> HIDE DEF r
<1>8. /\ DOMAIN run' = RunFields /\ Checked
      /\ \A f \in RunFields \ {"matched"} : run'[f] = r[f]
  BY <1>6, <1>7, Travels
<1> QED
  BY <1>3, <1>4, <1>7, <1>8 DEF Goes, Keeps, RunFields

\* Asked again, with the decision still pending.
LEMMA HumanWaitsAgain ==
  ASSUME DOMAIN run = RunFields, HumanApproval, run.requested, world.decision = "PENDING"
  PROVE  /\ Goes("pause_checkpoint", run.steps + 1, {"HUMAN_APPROVAL:PENDING->PAUSE_CHECKPOINT"})
         /\ Keeps({"response"}) /\ run'.response = "PENDING"
         /\ UNCHANGED vars
<1> DEFINE r == Moved([Charge(run) EXCEPT !.response = "PENDING"], "pause_checkpoint",
                      {"HUMAN_APPROVAL:PENDING->PAUSE_CHECKPOINT"})
<1>1. Continue(r) /\ UNCHANGED world
  BY DEF HumanApproval, FollowDecision
<1>2. /\ DOMAIN r = RunFields /\ r.matched = run.matched
      /\ r.node = "pause_checkpoint" /\ r.steps = run.steps + 1
      /\ r.trace = run.trace \cup {"HUMAN_APPROVAL:PENDING->PAUSE_CHECKPOINT"}
      /\ r.response = "PENDING"
      /\ \A f \in RunFields \ {"node", "steps", "trace", "matched", "response"} : r[f] = run[f]
  BY DEF Moved, Charge, RunFields
<1> HIDE DEF r
<1> QED
  BY <1>1, <1>2, Travels DEF Goes, Keeps, RunFields, vars

\* The transaction the script expects.
LEMMA TransactionGoes ==
  ASSUME DOMAIN run = RunFields, Transaction, NEW step, StepFor(run.candidate) = {step},
         Executable(pkg, step)
  PROVE  /\ Goes("verifier_post_action", run.steps + 1, ActingTrace)
         /\ Keeps({"observation", "attempted", "effects"})
         /\ run'.observation = IF step.retryable THEN "RETRYABLE" ELSE "FINAL"
         /\ run'.attempted = run.attempted \cup ({run.candidate.state} \ {"none"})
         /\ run'.effects = IF IsGoalEffect(step) THEN run.effects \cup {step.action} ELSE run.effects
         /\ world' = Applied(step, Mutated(step.mutation)) /\ UNCHANGED <<pkg, edits, phase>>
<1> DEFINE observation == IF step.retryable THEN "RETRYABLE" ELSE "FINAL"
           effects == IF IsGoalEffect(step) THEN run.effects \cup {step.action} ELSE run.effects
           done == [run EXCEPT !.effects = effects]
           r == Moved([Charge(done) EXCEPT
                         !.observation = observation,
                         !.attempted = @ \cup ({run.candidate.state} \ {"none"})],
                      "verifier_post_action",
                      {"TRANSACTION:RESULT->OBSERVATION",
                       "OBSERVATION:NORMALIZED->VERIFIER_POST_ACTION"})
<1>1. {s \in StepFor(run.candidate) : Executable(pkg, s)} = {step}
  OBVIOUS
<1>2. Perform(step) /\ Continue(r)
  BY <1>1 DEF Transaction
<1> HIDE DEF observation, effects
<1>3. /\ DOMAIN r = RunFields /\ r.matched = run.matched
      /\ r.node = "verifier_post_action" /\ r.steps = run.steps + 1
      /\ r.trace = run.trace \cup ActingTrace
      /\ r.observation = observation /\ r.effects = effects
      /\ r.attempted = run.attempted \cup ({run.candidate.state} \ {"none"})
      /\ \A f \in RunFields \ {"node", "steps", "trace", "matched", "observation", "attempted",
                               "effects"} : r[f] = run[f]
  BY DEF Moved, Charge, RunFields, ActingTrace
<1> HIDE DEF r
<1>4. /\ DOMAIN run' = RunFields /\ Checked
      /\ \A f \in RunFields \ {"matched"} : run'[f] = r[f]
      /\ UNCHANGED <<pkg, edits, phase>>
  BY <1>2, <1>3, Travels
<1>5. /\ Goes("verifier_post_action", run.steps + 1, ActingTrace)
      /\ Keeps({"observation", "attempted", "effects"})
      /\ run'.observation = observation /\ run'.effects = effects
      /\ run'.attempted = run.attempted \cup ({run.candidate.state} \ {"none"})
  BY <1>3, <1>4 DEF Goes, Keeps, RunFields
<1> QED
  BY <1>2, <1>4, <1>5 DEF Perform, observation, effects

\* A candidate is the request a step of the script expects.
Expects(step, request) ==
  /\ request \in Requests
  /\ request.action = step.action /\ request.state = step.state
  /\ request.approval = step.approval /\ request.retry = step.retry

LEMMA Least == Min({1, 2}) = 1 /\ Min({2}) = 2
BY DEF Min

LEMMA FirstEligible ==
  ASSUME NEW family, NEW student, BuiltAs(family, student), family \in NeedsStatePair,
         world = FreshWorld(pkg), run.observation # "RETRYABLE"
  PROVE  /\ Min(Eligible) = (IF family = "S7" THEN 1 ELSE 2)
         /\ Eligible # {} /\ pkg.pair[1] = "pref" /\ pkg.pair[2] = "alt"
<1>1. /\ pkg.pair = <<"pref", "alt">> /\ pkg.linked = States /\ pkg.family = family
      /\ \A s \in States : pkg.seats[s] = 1
      /\ pkg.clashes = (IF family = "S7" THEN {} ELSE {"pref"})
      /\ pkg.prerequisite = "PASS" /\ ~pkg.overload /\ ~pkg.excluded
  BY BuiltRecords, BuiltStudents
<1>2. pkg.pair[1] = "pref" /\ pkg.pair[2] = "alt"
  BY <1>1
<1>3. world.open = States /\ world.seats["pref"] = 1 /\ world.seats["alt"] = 1
  BY <1>1 DEF FreshWorld, States
<1>4. Feasible("alt") /\ (Feasible("pref") <=> family = "S7")
  BY <1>1, <1>3 DEF Feasible, States
<1>5. \A i \in 1..2 : i = 1 \/ i = 2
  OBVIOUS
<1>6. 1 \in 1..2 /\ 2 \in 1..2
  OBVIOUS
<1>7. Eligible = IF family = "S7" THEN {1, 2} ELSE {2}
  <2>1. \A i \in 1..2 : i \in Eligible <=> Feasible(pkg.pair[i])
    BY <1>2, <1>5 DEF Eligible, States
  <2>2. 2 \in Eligible /\ (1 \in Eligible <=> family = "S7")
    BY <1>2, <1>4, <1>6, <2>1
  <2>3. Eligible \subseteq 1..2
    BY DEF Eligible
  <2> QED
    BY <1>5, <2>2, <2>3
<1>8. CASE family = "S7"
  BY <1>2, <1>7, <1>8, Least
<1>9. CASE family # "S7"
  BY <1>2, <1>7, <1>9, Least
<1> QED
  BY <1>8, <1>9

\* After a failure that may be retried, the class attempted is left out.
LEMMA NextEligible ==
  ASSUME NEW family, NEW student, BuiltAs(family, student), family = "S7",
         FirstDone(family), run.observation = "RETRYABLE", run.attempted = {"pref"}
  PROVE  Min(Eligible) = 2 /\ Eligible # {} /\ pkg.pair[2] = "alt"
<1>1. /\ pkg.pair = <<"pref", "alt">>
      /\ pkg.clashes = {} /\ pkg.prerequisite = "PASS" /\ ~pkg.overload /\ ~pkg.excluded
  BY BuiltRecords, BuiltStudents, FamiliesNeed
<1>2. pkg.pair[1] = "pref" /\ pkg.pair[2] = "alt"
  BY <1>1
<1>3. Feasible("alt")
  BY <1>1 DEF Feasible, FirstDone
<1>4. 2 \in Eligible /\ 1 \notin Eligible
  <2>1. 2 \in 1..2
    OBVIOUS
  <2> QED
    BY <1>2, <1>3, <2>1 DEF Eligible, States
<1>5. \A i \in Eligible : i = 1 \/ i = 2
  BY DEF Eligible
<1>6. Eligible = {2}
  BY <1>4, <1>5
<1> QED
  BY <1>2, <1>6, Least

LEMMA CandidateFields ==
  ASSUME NEW family, NEW student, BuiltAs(family, student)
  PROVE  LET candidate == CandidateFor(pkg) IN
         /\ family \in NeedsStatePair /\ Eligible # {} =>
              /\ candidate.action = "SUBMIT_REGISTRATION"
              /\ candidate.state = pkg.pair[Min(Eligible)]
              /\ candidate.approval <=> pkg.approval # "NONE"
              /\ candidate.retry <=> run.observation = "RETRYABLE"
              /\ pkg.pair[Min(Eligible)] \in States => candidate \in Requests
         /\ family \in {"S2", "S5"} =>
              /\ candidate.action = IF family = "S2" THEN "SUBMIT_WAIVER" ELSE "SUBMIT_EXCEPTION"
              /\ candidate.state = "none" /\ candidate.approval /\ ~candidate.retry
              /\ candidate \in Requests
         /\ family = "S3" =>
              /\ candidate.action = "SUBMIT_EXCEPTION" /\ candidate.state = "none"
              /\ ~candidate.approval /\ ~candidate.retry
              /\ candidate \in Requests
         /\ family = "S6" =>
              /\ candidate.action = "SUBMIT_EXCEPTION"
              /\ candidate.state = IF run.ready = "YES" THEN "pref" ELSE "none"
              /\ ~candidate.approval /\ ~candidate.retry
              /\ candidate \in Requests
<1>1. /\ pkg.family = family /\ family \in AllFamilies
      /\ pkg.linked = IF family \in NeedsStatePair THEN States ELSE {"pref"}
      /\ pkg.approval # "NONE" <=> family \in NeedsApproval
      /\ pkg.onPath <=> family = "S5"
  BY BuiltRecords DEF BuiltAs
<1> SUFFICES ASSUME NEW candidate, candidate = CandidateFor(pkg)
             PROVE 
       /\ family \in NeedsStatePair /\ Eligible # {} =>
            /\ candidate.action = "SUBMIT_REGISTRATION"
            /\ candidate.state = pkg.pair[Min(Eligible)]
            /\ candidate.approval <=> pkg.approval # "NONE"
            /\ candidate.retry <=> run.observation = "RETRYABLE"
            /\ pkg.pair[Min(Eligible)] \in States => candidate \in Requests
       /\ family \in {"S2", "S5"} =>
            /\ candidate.action = IF family = "S2" THEN "SUBMIT_WAIVER" ELSE "SUBMIT_EXCEPTION"
            /\ candidate.state = "none" /\ candidate.approval /\ ~candidate.retry
            /\ candidate \in Requests
       /\ family = "S3" =>
            /\ candidate.action = "SUBMIT_EXCEPTION" /\ candidate.state = "none"
            /\ ~candidate.approval /\ ~candidate.retry
            /\ candidate \in Requests
       /\ family = "S6" =>
            /\ candidate.action = "SUBMIT_EXCEPTION"
            /\ candidate.state = IF run.ready = "YES" THEN "pref" ELSE "none"
            /\ ~candidate.approval /\ ~candidate.retry
            /\ candidate \in Requests
  OBVIOUS
<1>2. CASE family \in NeedsStatePair
  BY <1>1, <1>2, FamiliesNeed DEF CandidateFor, GoalAction, NoCandidate, Requests, Actions,
                                  NeedsStatePair
<1>3. CASE family \in {"S2", "S5"}
  BY <1>1, <1>3, FamiliesNeed DEF CandidateFor, GoalAction, NoCandidate, Requests, Actions
<1>4. CASE family = "S3"
  BY <1>1, <1>4, FamiliesNeed DEF CandidateFor, GoalAction, NoCandidate, Requests, Actions
<1>5. CASE family = "S6"
  <2>1. (CHOOSE s \in pkg.linked : TRUE) = "pref"
    BY <1>1, <1>5, FamiliesNeed
  <2> QED
    BY <1>1, <1>5, <2>1, FamiliesNeed DEF CandidateFor, GoalAction, NoCandidate, Requests, Actions,
                                          States
<1> QED
  BY <1>1, <1>2, <1>3, <1>4, <1>5 DEF AllFamilies, NeedsStatePair

\* The first candidate of a run is there, and where the script acts without having
\* been refused or asked it is what the script expects.
Apt(candidate) ==
  /\ candidate \in Requests /\ candidate.action # "NONE"
  /\ ~candidate.retry
  /\ Direct \/ Incomplete \/ Withdrawn \/ Recovered => Expects(pkg.steps[1], candidate)
  /\ ApprovalIs("APPROVED") => Expects(pkg.steps[2], candidate)
  /\ candidate.approval <=> pkg.approval # "NONE"

LEMMA FirstCandidate ==
  ASSUME NEW family, NEW student, BuiltAs(family, student), world = FreshWorld(pkg),
         run.observation = "NONE", run.ready = pkg.ready
  PROVE  Apt(CandidateFor(pkg))
<1> DEFINE candidate == CandidateFor(pkg)
<1>1. /\ pkg.family = family /\ family \in AllFamilies
      /\ pkg.approval # "NONE" <=> family \in NeedsApproval
  BY BuiltRecords DEF BuiltAs
<1>2. ~(run.observation = "RETRYABLE")
  OBVIOUS
<1>3. /\ family \in NeedsStatePair /\ Eligible # {} =>
            /\ candidate.action = "SUBMIT_REGISTRATION"
            /\ candidate.state = pkg.pair[Min(Eligible)]
            /\ candidate.approval <=> pkg.approval # "NONE"
            /\ candidate.retry <=> run.observation = "RETRYABLE"
            /\ pkg.pair[Min(Eligible)] \in States => candidate \in Requests
      /\ family \in {"S2", "S5"} =>
            /\ candidate.action = IF family = "S2" THEN "SUBMIT_WAIVER" ELSE "SUBMIT_EXCEPTION"
            /\ candidate.state = "none" /\ candidate.approval /\ ~candidate.retry
            /\ candidate \in Requests
      /\ family = "S3" =>
            /\ candidate.action = "SUBMIT_EXCEPTION" /\ candidate.state = "none"
            /\ ~candidate.approval /\ ~candidate.retry
            /\ candidate \in Requests
      /\ family = "S6" =>
            /\ candidate.action = "SUBMIT_EXCEPTION"
            /\ candidate.state = IF run.ready = "YES" THEN "pref" ELSE "none"
            /\ ~candidate.approval /\ ~candidate.retry
            /\ candidate \in Requests
  BY CandidateFields
<1> HIDE DEF candidate
<1>4. CASE family \in NeedsStatePair
  <2>1. /\ Min(Eligible) = (IF family = "S7" THEN 1 ELSE 2)
        /\ Eligible # {} /\ pkg.pair[1] = "pref" /\ pkg.pair[2] = "alt"
    BY <1>2, <1>4, FirstEligible
  <2>2. pkg.pair[Min(Eligible)] = IF family = "S7" THEN "pref" ELSE "alt"
    BY <2>1
  <2>3. /\ candidate \in Requests /\ candidate.action = "SUBMIT_REGISTRATION"
        /\ candidate.state = (IF family = "S7" THEN "pref" ELSE "alt")
        /\ candidate.approval <=> pkg.approval # "NONE"
        /\ ~candidate.retry
    BY <1>2, <1>3, <1>4, <2>1, <2>2 DEF States
  <2>4. CASE family = "S1"
    BY <1>1, <2>3, <2>4, RegistrationScript, FamiliesNeed, StepFlags
       DEF Apt, Expects, StepNames, Requests, Incomplete, Withdrawn, Recovered, ApprovalIs, candidate
  <2>5. CASE family = "S7"
    BY <1>1, <2>3, <2>5, RecoveryScript, FamiliesNeed, StepFlags
       DEF Apt, Expects, StepNames, Requests, Direct, Incomplete, Withdrawn, ApprovalIs, candidate
  <2>6. CASE family = "S4"
    BY <1>1, <2>3, <2>6, ApprovalScript, FamiliesNeed, StepFlags
       DEF Apt, Expects, FollowedBy, StepNames, Requests, Direct, Incomplete, Withdrawn, Recovered,
           ApprovalIs, candidate
  <2> QED
    BY <1>4, <2>4, <2>5, <2>6 DEF NeedsStatePair
<1>5. CASE family \in {"S2", "S5"}
  BY <1>1, <1>3, <1>5, ApprovalScript, FamiliesNeed, StepFlags
     DEF Apt, Expects, FollowedBy, StepNames, Requests, Direct, Incomplete, Withdrawn, Recovered,
         ApprovalIs, candidate
<1>6. CASE family = "S3"
  BY <1>1, <1>3, <1>6, ExceptionScript, FamiliesNeed, StepFlags
     DEF Apt, Expects, StepNames, Requests, Direct, Incomplete, Withdrawn, Recovered, ApprovalIs,
         candidate
<1>7. CASE family = "S6"
  BY <1>1, <1>3, <1>7, IncompleteScript, FamiliesNeed, StepFlags
     DEF Apt, Expects, StepNames, Requests, Direct, Incomplete, Withdrawn, Recovered, ApprovalIs,
         candidate
<1> QED
  BY <1>1, <1>4, <1>5, <1>6, <1>7 DEF AllFamilies, NeedsStatePair

\* After the failure of S7 the second candidate is the retry the script expects.
LEMMA SecondCandidate ==
  ASSUME NEW family, NEW student, BuiltAs(family, student), Recovered, FirstDone(family),
         run.observation = "RETRYABLE", run.attempted = {"pref"}
  PROVE  Expects(pkg.steps[2], CandidateFor(pkg)) /\ CandidateFor(pkg).action # "NONE"
<1> DEFINE candidate == CandidateFor(pkg)
<1>1. family = "S7" /\ family \in NeedsStatePair /\ pkg.approval = "NONE"
  BY BuiltRecords, FamiliesNeed DEF Recovered
<1>2. Min(Eligible) = 2 /\ Eligible # {} /\ pkg.pair[2] = "alt"
  BY <1>1, NextEligible
<1>3. /\ candidate.action = "SUBMIT_REGISTRATION"
      /\ candidate.state = pkg.pair[Min(Eligible)]
      /\ candidate.approval <=> pkg.approval # "NONE"
      /\ candidate.retry <=> run.observation = "RETRYABLE"
      /\ pkg.pair[Min(Eligible)] \in States => candidate \in Requests
  BY <1>1, <1>2, CandidateFields
<1> HIDE DEF candidate
<1>4. candidate \in Requests /\ candidate.state = "alt" /\ ~candidate.approval /\ candidate.retry
  BY <1>1, <1>2, <1>3 DEF States
<1>5. Expects(pkg.steps[2], candidate) /\ candidate.action # "NONE"
  BY <1>1, <1>3, <1>4, RecoveryScript, StepFlags DEF Expects, StepNames, Requests
<1> QED
  BY <1>5 DEF candidate

-----------------------------------------------------------------------------
(* The course of a run *)

\* The action a running run takes is the one of its node.
LEMMA NodeActs ==
  ASSUME phase = "running", RunStep
  PROVE  /\ run.node = "intake" => Intake
         /\ run.node = "planner" => Planner
         /\ run.node = "resolution_builder" => ResolutionBuilder
         /\ run.node = "verifier_pre_action" => VerifierPreAction
         /\ run.node = "action_gate" => ActionGate
         /\ run.node = "human_approval" => HumanApproval
         /\ run.node = "transaction" => Transaction
         /\ run.node = "verifier_post_action" => VerifierPostAction
         /\ run.node = "human_admin_review" => HumanAdminReview
         /\ run.node = "clarification" => AnswerClarification \/ Grade
         /\ run.node = "pause_checkpoint" => ObserveApproval \/ Grade
         /\ run.node \in {"done", "handoff"} => Grade
BY DEF RunStep, StartRun, Intake, Planner, ResolutionBuilder, VerifierPreAction, ActionGate,
       HumanApproval, Transaction, VerifierPostAction, HumanAdminReview, AnswerClarification,
       ObserveApproval, Grade, Running, Answerable, Stopped, OutcomeAt

\* What a checkpoint must show to be graded well.
Right(c, m) ==
  /\ m.pre = c.pre /\ m.post = c.post
  /\ c.impact # "NONE" => m.impact = c.impact
  /\ c.impact # "MATERIAL" => m.replans = c.replans /\ m.retries = c.retries
  /\ "VERIFIER_POST_ACTION:DONE->MEMORY_UPDATER" \in m.trace <=> c.memory

Matched == \E m : run.matched = {m} /\ Right(ContractFor(pkg), m)

\* No checkpoint matches before one of these is passed.
LastTrace == {"VERIFIER_POST_ACTION:DONE->FINAL_RESPONSE",
              "HUMAN_ADMIN_REVIEW:HANDOFF_PREPARED->FINAL_RESPONSE",
              "CLARIFICATION:MATERIAL_CHANGE->PLANNER",
              "CLARIFICATION:SMALL_CHANGE->VERIFIER_PRE_ACTION",
              "PAUSE_CHECKPOINT:APPROVAL_OBSERVED->HUMAN_APPROVAL"}

LEMMA Unclinched ==
  ASSUME NEW family, NEW student, BuiltAs(family, student), Checked, run.matched = {},
         run'.trace \cap LastTrace = {}
  PROVE  run'.matched = {}
<1> SUFFICES ASSUME NEW c, c = ContractFor(pkg) PROVE c.required \cap LastTrace # {}
  BY DEF Checked, Matches
<1>1. CASE Direct
  BY <1>1, DirectRoutes DEF Routes, DirectRoute, DoneTrace, LastTrace
<1>2. CASE Material
  BY <1>2, MaterialRoutes DEF Routes, MaterialRoute, LastTrace
<1>3. CASE Incomplete
  BY <1>3, IncompleteRoutes DEF Routes, IncompleteRoute, LastTrace
<1>4. CASE Withdrawn
  BY <1>4, WithdrawnRoutes DEF Routes, WithdrawnRoute, Handoff, LastTrace
<1>5. CASE Recovered
  BY <1>5, RecoveredRoutes DEF Routes, RecoveredRoute, DoneTrace, LastTrace
<1>6. CASE ApprovalIs("APPROVED")
  BY <1>6, ApprovedRoutes DEF Routes, ApprovedRoute, DoneTrace, LastTrace
<1>7. CASE ApprovalIs("REJECTED")
  BY <1>7, RefusedRoutes DEF Routes, RefusedRoute, Handoff, LastTrace
<1>8. CASE ApprovalIs("PENDING")
  BY <1>8, WaitingRoutes DEF Routes, WaitingRoute, LastTrace
<1> QED
  BY <1>1, <1>2, <1>3, <1>4, <1>5, <1>6, <1>7, <1>8, BuiltKindsOfRun

LEMMA Clinched ==
  ASSUME Checked, run.matched = {}, UNCHANGED pkg,
         Matches(ContractFor(pkg), run'), Right(ContractFor(pkg), run')
  PROVE  Matched'
<1>1. PICK m : run'.matched = {m} /\ \A f \in RunFields \ {"matched"} : m[f] = run'[f]
  BY DEF Checked
<1>2. Right(ContractFor(pkg), m)
  BY <1>1 DEF Right, RunFields
<1> QED
  BY <1>1, <1>2 DEF Matched

\* What was matched stays so.
LEMMA StaysMatched ==
  ASSUME Checked, Matched, UNCHANGED pkg
  PROVE  Matched'
BY DEF Checked, Matched

-----------------------------------------------------------------------------
(* The stages of a run *)

Stage(node, steps, trace, pre, post) ==
  /\ DOMAIN run = RunFields /\ run.node = node /\ run.steps = steps
  /\ run.trace = trace /\ run.pre = pre /\ run.post = post

Counts(replans, retries) == run.planned /\ run.replans = replans /\ run.retries = retries
Untried == run.observation = "NONE" /\ run.attempted = {} /\ run.effects = {} /\ world = FreshWorld(pkg)
Unasked == ~run.requested /\ run.response = "NONE"
Unstopped == run.outcome = "NONE" /\ ~run.resumed
Told == run.ready = pkg.ready /\ run.questions = pkg.questions

Entered == {"INTAKE:CONTEXT_READY->MEMORY_RETRIEVER", "MEMORY_RETRIEVER:READY->PLANNER"}
Vetted == Baseline \cup {"VERIFIER_PRE_ACTION:VALID->ACTION_GATE"}
Opened == Vetted \cup {"ACTION_GATE:NO_APPROVAL->TRANSACTION"}
Asked == Vetted \cup {"ACTION_GATE:APPROVAL_REQUIRED->HUMAN_APPROVAL"}
Queried == Baseline \cup {"VERIFIER_PRE_ACTION:CLARIFY->CLARIFICATION"}

\* On the way to the first candidate, and with it.
Outset(node, steps, trace, pre) ==
  /\ Stage(node, steps, trace, pre, <<>>) /\ run.matched = {}
  /\ Untried /\ Unasked /\ Unstopped

AtIntake == /\ Outset("intake", 0, {}, <<>>)
            /\ ~run.planned /\ run.replans = 0 /\ run.retries = 0
AtPlanner == /\ Outset("planner", 0, Entered, <<>>) /\ Told
             /\ ~run.planned /\ run.replans = 0 /\ run.retries = 0
AtBuilder == Outset("resolution_builder", 1, Entered, <<>>) /\ Told /\ Counts(0, 0)
AtVerifier == Outset("verifier_pre_action", 1, Baseline, <<>>) /\ Told /\ Counts(0, 0) /\ Apt(run.candidate)
AtGate == Outset("action_gate", 2, Vetted, <<"VALID">>) /\ Counts(0, 0) /\ Apt(run.candidate)
AtTransaction == Outset("transaction", 3, Opened, <<"VALID">>) /\ Counts(0, 0) /\ Apt(run.candidate)
AtHuman == Outset("human_approval", 3, Asked, <<"VALID">>) /\ Counts(0, 0) /\ Apt(run.candidate)
AtClarification(impact) ==
  /\ Outset("clarification", 2, Queried, <<"CLARIFY">>) /\ Counts(0, 0) /\ Told
  /\ Apt(run.candidate) /\ run.impact = impact

LEMMA Appended ==
  ASSUME NEW x, NEW y
  PROVE  Append(<<>>, x) = <<x>> /\ Append(<<x>>, y) = <<x, y>>
<1>1. Append(<<>>, x) = <<x>>
  OBVIOUS
<1>2. <<x>> \in Seq({x, y}) /\ Append(<<x>>, y) \in Seq({x, y}) /\ <<x, y>> \in Seq({x, y})
  OBVIOUS
<1>3. DOMAIN Append(<<x>>, y) = 1..2 /\ DOMAIN <<x, y>> = 1..2
  OBVIOUS
<1>4. Append(<<x>>, y)[1] = x /\ Append(<<x>>, y)[2] = y
  OBVIOUS
<1>5. \A s \in Seq({x, y}), t \in Seq({x, y}) :
        DOMAIN s = 1..2 /\ DOMAIN t = 1..2 /\ s[1] = t[1] /\ s[2] = t[2] => s = t
  OBVIOUS
<1> QED
  BY <1>1, <1>2, <1>3, <1>4, <1>5

LEMMA FromIntake ==
  ASSUME NEW family, NEW student, BuiltAs(family, student), phase = "running", RunStep, AtIntake
  PROVE  AtPlanner' /\ UNCHANGED vars
<1>1. /\ Goes("planner", run.steps, Entered) /\ Keeps({"ready", "questions"})
      /\ run'.ready = pkg.ready /\ run'.questions = pkg.questions
      /\ UNCHANGED vars
  BY NodeActs, IntakeGoes DEF AtIntake, Outset, Stage, Entered
<1>2. run'.trace = Entered
  BY <1>1 DEF Goes, AtIntake, Outset, Stage
<1>3. run'.matched = {}
  BY <1>1, <1>2, Unclinched DEF Goes, AtIntake, Outset, LastTrace, Entered
<1> QED
  BY <1>1, <1>2, <1>3 DEF Goes, Keeps, RunFields, AtIntake, AtPlanner, Outset, Stage, Told,
                          Untried, Unasked, Unstopped, vars

LEMMA FromPlanner ==
  ASSUME NEW family, NEW student, BuiltAs(family, student), phase = "running", RunStep, AtPlanner
  PROVE  AtBuilder' /\ UNCHANGED vars
<1>1. /\ Goes("resolution_builder", run.steps + 1, {}) /\ Keeps({"planned", "replans", "retries"})
      /\ run'.planned /\ run'.replans = 0 /\ run'.retries = 0
      /\ UNCHANGED vars
  BY NodeActs, PlannerContinues DEF AtPlanner, Outset, Stage, Untried, Unasked
<1>2. run'.trace = Entered
  BY <1>1 DEF Goes, AtPlanner, Outset, Stage
<1>3. run'.matched = {}
  BY <1>1, <1>2, Unclinched DEF Goes, AtPlanner, Outset, LastTrace, Entered
<1> QED
  BY <1>1, <1>2, <1>3 DEF Goes, Keeps, RunFields, AtPlanner, AtBuilder, Outset, Stage, Told,
                          Untried, Unasked, Unstopped, Counts, vars

LEMMA FromBuilder ==
  ASSUME NEW family, NEW student, BuiltAs(family, student), phase = "running", RunStep, AtBuilder
  PROVE  AtVerifier' /\ UNCHANGED vars
<1>1. Apt(CandidateFor(pkg))
  BY FirstCandidate DEF AtBuilder, Outset, Untried, Told
<1>2. CandidateFor(pkg) # NoCandidate
  BY <1>1 DEF Apt, NoCandidate
<1>3. /\ Goes("verifier_pre_action", run.steps,
              {"RESOLUTION_BUILDER:CANDIDATES_BUILT->VERIFIER_PRE_ACTION"})
      /\ Keeps({"candidate"}) /\ run'.candidate = CandidateFor(pkg)
      /\ UNCHANGED vars
  BY <1>2, NodeActs, BuilderGoes DEF AtBuilder, Outset, Stage
<1>4. run'.trace = Baseline
  BY <1>3 DEF Goes, AtBuilder, Outset, Stage, Entered, Baseline
<1>5. run'.matched = {}
  BY <1>3, <1>4, Unclinched DEF Goes, AtBuilder, Outset, LastTrace, Baseline
<1>6. Apt(run.candidate)'
  BY <1>1, <1>3 DEF Apt, Expects, Direct, Incomplete, Withdrawn, Recovered, ApprovalIs, vars
<1> QED
  BY <1>3, <1>4, <1>5, <1>6 DEF Goes, Keeps, RunFields, AtBuilder, AtVerifier, Outset, Stage, Told,
                          Untried, Unasked, Unstopped, Counts, vars

-----------------------------------------------------------------------------
(* What a run leaves in the session *)

\* Which steps of a script do what the case is about.
LEMMA GoalEffects ==
  ASSUME NEW family, NEW student, BuiltAs(family, student)
  PROVE  /\ pkg.steps[1].action = GoalAction(family) /\ pkg.steps[1].result = "SUCCESS" <=> Direct
         /\ IsGoalEffect(pkg.steps[1]) <=> Direct
         /\ pkg.steps[1].retryable <=> Recovered
         /\ Direct => DOMAIN pkg.steps = {1}
         /\ Recovered \/ ApprovalIs("APPROVED") =>
              /\ DOMAIN pkg.steps = {1, 2}
              /\ pkg.steps[2].action = GoalAction(family) /\ pkg.steps[2].result = "SUCCESS"
              /\ IsGoalEffect(pkg.steps[2]) /\ ~pkg.steps[2].retryable
<1>1. family \in AllFamilies /\ pkg.family = family
  BY BuiltRecords DEF BuiltAs
<1>2. CASE family = "S1"
  BY <1>1, <1>2, RegistrationScript, FamiliesNeed
     DEF StepNames, StepDoes, IsGoalEffect, Successes, GoalAction, Direct, Recovered, ApprovalIs
<1>3. CASE family = "S3"
  BY <1>1, <1>3, ExceptionScript, FamiliesNeed
     DEF StepNames, StepDoes, IsGoalEffect, Successes, GoalAction, Direct, Recovered, ApprovalIs
<1>4. CASE family = "S6"
  BY <1>1, <1>4, IncompleteScript, FamiliesNeed
     DEF StepNames, StepDoes, IsGoalEffect, Successes, GoalAction, Direct, Recovered, ApprovalIs
<1>5. CASE family = "S7"
  <2>1. pkg.event.type \in DynamicEvents
    BY <1>5, BuiltEvents, EventFields
  <2>2. pkg.steps[1].result \notin Successes
    BY <1>5, <2>1, RecoveryScript
       DEF StepDoes, ResultOf, Successes, DynamicEvents, OfferingEvents
  <2> QED
    BY <1>1, <1>5, <2>2, RecoveryScript, FamiliesNeed
       DEF StepNames, StepDoes, IsGoalEffect, Successes, GoalAction, Direct, Recovered, ApprovalIs
<1>6. CASE family \in NeedsApproval
  <2>1. family \in {"S2", "S4", "S5"} /\ GoalAction(family) # "REQUEST_APPROVAL"
    BY <1>6, FamiliesNeed DEF NeedsApproval, GoalAction
  <2>2. pkg.steps[1].action = "REQUEST_APPROVAL" /\ ~pkg.steps[1].retryable
    BY <1>6, ApprovalScript DEF StepNames
  <2>3. ASSUME pkg.approval = "APPROVED"
        PROVE  /\ DOMAIN pkg.steps = {1, 2}
               /\ pkg.steps[2].action = GoalAction(family) /\ pkg.steps[2].result = "SUCCESS"
               /\ IsGoalEffect(pkg.steps[2]) /\ ~pkg.steps[2].retryable
    BY <1>6, <2>1, <2>3, ApprovalScript, FamiliesNeed
       DEF FollowedBy, StepNames, StepDoes, IsGoalEffect, Successes, GoalAction
  <2> QED
    BY <1>1, <2>1, <2>2, <2>3 DEF IsGoalEffect, Direct, Recovered, ApprovalIs
<1> QED
  BY <1>1, <1>2, <1>3, <1>4, <1>5, <1>6 DEF AllFamilies, NeedsApproval

LEMMA Greatest == Max({1}) = 1 /\ Max({2}) = 2
BY DEF Max

\* What a contract wants done: what the last step of a script that resolves its case did.
LEMMA PredicateFields ==
  ASSUME NEW family, NEW student, BuiltAs(family, student), NEW wanted,
         wanted = ContractFor(pkg).predicate
  PROVE  /\ wanted.type = (IF family \in NeedsStatePair THEN "REGISTRATION_CONTAINS_COURSE"
                           ELSE "COMMITTED_ACTION_RECEIPT")
         /\ wanted.action = GoalAction(family)
         /\ Direct => /\ wanted.state = pkg.steps[1].state
                      /\ wanted.approval <=> pkg.steps[1].approval
         /\ Recovered \/ ApprovalIs("APPROVED") =>
              wanted.state = pkg.steps[2].state /\ (wanted.approval <=> pkg.steps[2].approval)
<1> DEFINE successes == {i \in DOMAIN pkg.steps :
                           pkg.steps[i].action = GoalAction(family) /\ pkg.steps[i].result = "SUCCESS"}
           approved == successes # {} /\ pkg.steps[Max(successes)].approval
<1>1. pkg.family = family
  BY BuiltRecords
<1>2. wanted = [type |-> IF GoalAction(family) = "SUBMIT_REGISTRATION"
                         THEN "REGISTRATION_CONTAINS_COURSE" ELSE "COMMITTED_ACTION_RECEIPT",
                action |-> GoalAction(family),
                state |-> IF successes = {} THEN "none" ELSE pkg.steps[Max(successes)].state,
                approval |-> approved]
  BY <1>1 DEF ContractFor, CompletionPredicate
<1>3. Direct => successes = {1}
  BY GoalEffects
<1>4. Recovered \/ ApprovalIs("APPROVED") => successes = {2}
  <2> SUFFICES ASSUME Recovered \/ ApprovalIs("APPROVED") PROVE successes = {2}
    OBVIOUS
  <2>1. ~Direct
    BY FamiliesNeed DEF Direct, Recovered, ApprovalIs
  <2> QED
    BY <2>1, GoalEffects
<1> HIDE DEF successes
<1>5. GoalAction(family) = "SUBMIT_REGISTRATION" <=> family \in NeedsStatePair
  BY DEF GoalAction, NeedsStatePair
<1>6. /\ wanted.type = (IF GoalAction(family) = "SUBMIT_REGISTRATION"
                        THEN "REGISTRATION_CONTAINS_COURSE" ELSE "COMMITTED_ACTION_RECEIPT")
      /\ wanted.action = GoalAction(family)
      /\ wanted.state = (IF successes = {} THEN "none" ELSE pkg.steps[Max(successes)].state)
  BY <1>2
<1> HIDE DEF approved
<1>8. wanted.approval <=> approved
  BY <1>2
<1>7. ASSUME NEW i \in {1, 2}, successes = {i}
      PROVE  wanted.state = pkg.steps[i].state /\ (wanted.approval <=> pkg.steps[i].approval)
  <2>1. Max(successes) = i /\ successes # {}
    BY <1>7, Greatest
  <2> QED
    BY <1>6, <1>8, <2>1 DEF approved
<1> QED
  BY <1>3, <1>4, <1>5, <1>6, <1>7

LEMMA Unsatisfied ==
  ASSUME NEW family, NEW student, BuiltAs(family, student), run.effects = {}, world.registered = {}
  PROVE  ~Satisfied(ContractFor(pkg).predicate) /\ ~GoalReached
BY PredicateFields DEF Satisfied, GoalReached

\* The registration a resolved case ends with is the one wanted.
LEMMA RegistrationSatisfies ==
  ASSUME NEW family, NEW student, BuiltAs(family, student), family \in NeedsStatePair,
         Direct \/ Recovered \/ ApprovalIs("APPROVED"), world.registered = {"alt"}
  PROVE  Satisfied(ContractFor(pkg).predicate) /\ GoalReached
<1>1. pkg.family = family /\ "alt" \in pkg.offers
  BY BuiltRecords DEF States
<1>2. ContractFor(pkg).predicate.state = "alt"
  <2>1. CASE family = "S1"
    BY <1>1, <2>1, PredicateFields, RegistrationScript DEF Direct, StepNames
  <2>2. CASE family = "S4"
    BY <1>1, <2>2, PredicateFields, ApprovalScript, FamiliesNeed
       DEF Direct, Recovered, ApprovalIs, FollowedBy, StepNames
  <2>3. CASE family = "S7"
    BY <1>1, <2>3, PredicateFields, RecoveryScript DEF Recovered, StepNames
  <2> QED
    BY <2>1, <2>2, <2>3 DEF NeedsStatePair
<1> QED
  BY <1>1, <1>2, PredicateFields DEF Satisfied, GoalReached

\* The receipt it ends with is the one wanted.
LEMMA ReceiptSatisfies ==
  ASSUME NEW family, NEW student, BuiltAs(family, student), family \notin NeedsStatePair,
         \/ Direct /\ Expects(pkg.steps[1], run.candidate)
         \/ ApprovalIs("APPROVED") /\ Expects(pkg.steps[2], run.candidate),
         run.effects = {run.candidate.action}
  PROVE  Satisfied(ContractFor(pkg).predicate) /\ GoalReached
<1>1. pkg.family = family
  BY BuiltRecords
<1>2. run.candidate.action = GoalAction(family)
  BY GoalEffects DEF Expects
<1>3. /\ ContractFor(pkg).predicate.state = run.candidate.state
      /\ ContractFor(pkg).predicate.approval => run.candidate.approval
  BY PredicateFields DEF Expects
<1> QED
  BY <1>1, <1>2, <1>3, PredicateFields DEF Satisfied, GoalReached

-----------------------------------------------------------------------------
(* From the first candidate on *)

LEMMA FromVerifier ==
  ASSUME NEW family, NEW student, BuiltAs(family, student), phase = "running", RunStep, AtVerifier
  PROVE  /\ UNCHANGED vars
         /\ Material => AtClarification("MATERIAL")'
         /\ Incomplete => AtClarification("SMALL")'
         /\ ~(Material \/ Incomplete) => AtGate'
<1>1. VerifierPreAction /\ DOMAIN run = RunFields /\ run.candidate # NoCandidate
  BY NodeActs DEF AtVerifier, Outset, Stage, Apt, NoCandidate
<1>2. /\ pkg.documents = TRUE /\ run.ready = pkg.ready
      /\ run.questions <=> pkg.ready = "NO"
      /\ pkg.family = "S6" => pkg.ready \in {"NO", "YES"}
  <2>1. pkg.documents = TRUE /\ pkg.family = family
    BY BuiltRecords
  <2>2. run.ready = pkg.ready /\ run.questions = pkg.questions
    BY DEF AtVerifier, Told
  <2>3. (pkg.questions <=> pkg.ready = "NO") /\ (family = "S6" => pkg.ready \in {"NO", "YES"})
    BY BuiltIntake
  <2> QED
    BY <2>1, <2>2, <2>3
<1>3. CASE Material
  <2>1. Assessment = "CLARIFY_MATERIAL"
    BY <1>1, <1>2, <1>3 DEF Assessment, Material
  <2>2. /\ Goes("clarification", run.steps + 1, {"VERIFIER_PRE_ACTION:CLARIFY->CLARIFICATION"})
        /\ Keeps({"pre", "impact"})
        /\ run'.pre = Append(run.pre, "CLARIFY") /\ run'.impact = "MATERIAL"
        /\ UNCHANGED vars
    BY <1>1, <2>1, PreActionMaterial
  <2>3. run'.trace = Queried /\ run'.pre = <<"CLARIFY">>
    BY <2>2, Appended DEF Goes, AtVerifier, Outset, Stage, Queried
  <2>4. run'.matched = {}
    BY <2>2, <2>3, Unclinched DEF Goes, AtVerifier, Outset, LastTrace, Queried, Baseline
  <2>5. AtClarification("MATERIAL")'
    BY <2>2, <2>3, <2>4 DEF Goes, Keeps, RunFields, AtVerifier, AtClarification, Outset, Stage, Told,
                            Untried, Unasked, Unstopped, Counts, vars, Apt, Expects, Direct,
                            Incomplete, Withdrawn, Recovered, ApprovalIs
  <2> QED
    BY <1>3, <2>2, <2>5 DEF Material, Incomplete
<1>4. CASE Incomplete
  <2>1. Assessment = "CLARIFY_SMALL"
    BY <1>1, <1>2, <1>4 DEF Assessment, Incomplete
  <2>2. /\ Goes("clarification", run.steps + 1, {"VERIFIER_PRE_ACTION:CLARIFY->CLARIFICATION"})
        /\ Keeps({"pre", "impact"})
        /\ run'.pre = Append(run.pre, "CLARIFY") /\ run'.impact = "SMALL"
        /\ UNCHANGED vars
    BY <1>1, <2>1, PreActionSmall
  <2>3. run'.trace = Queried /\ run'.pre = <<"CLARIFY">>
    BY <2>2, Appended DEF Goes, AtVerifier, Outset, Stage, Queried
  <2>4. run'.matched = {}
    BY <2>2, <2>3, Unclinched DEF Goes, AtVerifier, Outset, LastTrace, Queried, Baseline
  <2>5. AtClarification("SMALL")'
    BY <2>2, <2>3, <2>4 DEF Goes, Keeps, RunFields, AtVerifier, AtClarification, Outset, Stage, Told,
                            Untried, Unasked, Unstopped, Counts, vars, Apt, Expects, Direct,
                            Incomplete, Withdrawn, Recovered, ApprovalIs
  <2> QED
    BY <1>4, <2>2, <2>5 DEF Material, Incomplete
<1>5. CASE ~(Material \/ Incomplete)
  <2>1. Assessment = "VALID"
    BY <1>1, <1>2, <1>5 DEF Assessment, Material, Incomplete
  <2>2. /\ Goes("action_gate", run.steps + 1, {"VERIFIER_PRE_ACTION:VALID->ACTION_GATE"})
        /\ Keeps({"pre"}) /\ run'.pre = Append(run.pre, "VALID")
        /\ UNCHANGED vars
    BY <1>1, <2>1, PreActionValid
  <2>3. run'.trace = Vetted /\ run'.pre = <<"VALID">>
    BY <2>2, Appended DEF Goes, AtVerifier, Outset, Stage, Vetted
  <2>4. run'.matched = {}
    BY <2>2, <2>3, Unclinched DEF Goes, AtVerifier, Outset, LastTrace, Vetted, Baseline
  <2>5. AtGate'
    BY <2>2, <2>3, <2>4 DEF Goes, Keeps, RunFields, AtVerifier, AtGate, Outset, Stage, Told,
                            Untried, Unasked, Unstopped, Counts, vars, Apt, Expects, Direct,
                            Incomplete, Withdrawn, Recovered, ApprovalIs
  <2> QED
    BY <1>5, <2>2, <2>5
<1> QED
  BY <1>3, <1>4, <1>5

LEMMA FromGate ==
  ASSUME NEW family, NEW student, BuiltAs(family, student), phase = "running", RunStep, AtGate
  PROVE  /\ UNCHANGED vars
         /\ pkg.approval = "NONE" => AtTransaction'
         /\ pkg.approval # "NONE" => AtHuman'
<1>1. ActionGate /\ DOMAIN run = RunFields
  BY NodeActs DEF AtGate, Outset, Stage
<1>2. CASE pkg.approval = "NONE"
  <2>1. /\ Goes("transaction", run.steps + 1, {"ACTION_GATE:NO_APPROVAL->TRANSACTION"})
        /\ Keeps({}) /\ UNCHANGED vars
    BY <1>1, <1>2, GateOpens
  <2>2. run'.trace = Opened
    BY <2>1 DEF Goes, AtGate, Outset, Stage, Opened
  <2>3. run'.matched = {}
    BY <2>1, <2>2, Unclinched DEF Goes, AtGate, Outset, LastTrace, Opened, Vetted, Baseline
  <2> QED
    BY <1>2, <2>1, <2>2, <2>3
       DEF Goes, Keeps, RunFields, AtGate, AtTransaction, Outset, Stage, Untried, Unasked,
           Unstopped, Counts, vars, Apt, Expects, Direct, Incomplete, Withdrawn, Recovered,
           ApprovalIs
<1>3. CASE pkg.approval # "NONE"
  <2>1. /\ Goes("human_approval", run.steps + 1, {"ACTION_GATE:APPROVAL_REQUIRED->HUMAN_APPROVAL"})
        /\ Keeps({}) /\ UNCHANGED vars
    BY <1>1, <1>3, GateAsks
  <2>2. run'.trace = Asked
    BY <2>1 DEF Goes, AtGate, Outset, Stage, Asked
  <2>3. run'.matched = {}
    BY <2>1, <2>2, Unclinched DEF Goes, AtGate, Outset, LastTrace, Asked, Vetted, Baseline
  <2> QED
    BY <1>3, <2>1, <2>2, <2>3
       DEF Goes, Keeps, RunFields, AtGate, AtHuman, Outset, Stage, Untried, Unasked,
           Unstopped, Counts, vars, Apt, Expects, Direct, Incomplete, Withdrawn, Recovered,
           ApprovalIs
<1> QED
  BY <1>2, <1>3

\* A step of the script, when the candidate is what the script expects.
LEMMA FirstAsked ==
  ASSUME NEW family, NEW student, BuiltAs(family, student), PackageShape(pkg),
         world = FreshWorld(pkg), Expects(pkg.steps[1], run.candidate)
  PROVE  StepFor(run.candidate) = {pkg.steps[1]} /\ Executable(pkg, pkg.steps[1])
<1>1. /\ 1 \in DOMAIN pkg.steps /\ world.cursor = 1
      /\ pkg.steps[1].approval \in BOOLEAN /\ pkg.steps[1].retry \in BOOLEAN
  <2>1. Len(pkg.steps) \in {1, 2} /\ DOMAIN pkg.steps = 1..Len(pkg.steps)
    BY FirstSteps
  <2>2. 1 \in DOMAIN pkg.steps
    BY <2>1
  <2>3. pkg.steps[1].approval \in BOOLEAN /\ pkg.steps[1].retry \in BOOLEAN
    BY StepFlags
  <2> QED
    BY <2>2, <2>3 DEF FreshWorld
<1>2. StepFor(run.candidate) = {pkg.steps[1]}
  BY <1>1, StepAsked DEF Expects
<1> QED
  BY <1>2, FirstExecutable

LEMMA SecondAsked ==
  ASSUME NEW family, NEW student, BuiltAs(family, student), FirstDone(family),
         Recovered \/ ApprovalIs("APPROVED"), Expects(pkg.steps[2], run.candidate)
  PROVE  /\ StepFor(run.candidate) = {pkg.steps[2]} /\ Executable(pkg, pkg.steps[2])
         /\ Len(pkg.steps) = 2
<1>1. Len(pkg.steps) = 2 /\ DOMAIN pkg.steps = {1, 2} /\ pkg.family = family
  <2>1. pkg.family = family
    BY BuiltRecords
  <2>2. CASE Recovered
    BY <2>1, <2>2, RecoveryScript DEF Recovered
  <2>3. CASE ApprovalIs("APPROVED")
    BY <2>1, <2>3, ApprovalScript DEF ApprovalIs
  <2> QED
    BY <2>1, <2>2, <2>3
<1>2. /\ 2 \in DOMAIN pkg.steps /\ world.cursor = 2
      /\ pkg.steps[2].approval \in BOOLEAN /\ pkg.steps[2].retry \in BOOLEAN
  BY <1>1, StepFlags DEF FirstDone, Recovered, ApprovalIs
<1>3. StepFor(run.candidate) = {pkg.steps[2]}
  BY <1>2, StepAsked DEF Expects
<1> QED
  BY <1>1, <1>3, SecondExecutable

FirstTaken == FirstDone(pkg.family)
SecondTaken == SecondDone(pkg.family)

LEMMA TakenStays ==
  ASSUME UNCHANGED <<pkg, world>>
  PROVE  (FirstTaken => FirstTaken') /\ (SecondTaken => SecondTaken')
BY DEF FirstTaken, SecondTaken, FirstDone, SecondDone, CaseAfterFirst

LEMMA FirstTransaction ==
  ASSUME NEW family, NEW student, BuiltAs(family, student), PackageInv,
         DOMAIN run = RunFields, Transaction,
         world = FreshWorld(pkg), Expects(pkg.steps[1], run.candidate)
  PROVE  /\ Goes("verifier_post_action", run.steps + 1, ActingTrace)
         /\ Keeps({"observation", "attempted", "effects"})
         /\ run'.observation = IF Recovered THEN "RETRYABLE" ELSE "FINAL"
         /\ run'.attempted = run.attempted \cup ({run.candidate.state} \ {"none"})
         /\ run'.effects = IF Direct THEN run.effects \cup {run.candidate.action} ELSE run.effects
         /\ FirstTaken' /\ UNCHANGED <<pkg, edits, phase>>
<1> DEFINE step == pkg.steps[1]
<1>1. StepFor(run.candidate) = {step} /\ Executable(pkg, step)
  BY FirstAsked DEF PackageInv
<1>2. /\ Goes("verifier_post_action", run.steps + 1, ActingTrace)
      /\ Keeps({"observation", "attempted", "effects"})
      /\ run'.observation = IF step.retryable THEN "RETRYABLE" ELSE "FINAL"
      /\ run'.attempted = run.attempted \cup ({run.candidate.state} \ {"none"})
      /\ run'.effects = IF IsGoalEffect(step) THEN run.effects \cup {step.action} ELSE run.effects
      /\ world' = Applied(step, Mutated(step.mutation)) /\ UNCHANGED <<pkg, edits, phase>>
  BY <1>1, TransactionGoes
<1>3. FirstDone(family)' /\ pkg.family = family
  BY <1>2, FirstPerformed, BuiltRecords
<1>4. FirstTaken'
  BY <1>2, <1>3 DEF FirstTaken, FirstDone, CaseAfterFirst
<1> QED
  BY <1>2, <1>4, GoalEffects DEF Expects

LEMMA SecondTransaction ==
  ASSUME NEW family, NEW student, BuiltAs(family, student), PackageInv,
         DOMAIN run = RunFields, Transaction, Recovered \/ ApprovalIs("APPROVED"),
         FirstTaken, Expects(pkg.steps[2], run.candidate)
  PROVE  /\ Goes("verifier_post_action", run.steps + 1, ActingTrace)
         /\ Keeps({"observation", "attempted", "effects"})
         /\ run'.effects = run.effects \cup {run.candidate.action}
         /\ SecondTaken' /\ UNCHANGED <<pkg, edits, phase>>
<1> DEFINE step == pkg.steps[2]
<1>0. FirstDone(family) /\ pkg.family = family
  BY BuiltRecords DEF FirstTaken
<1>1. StepFor(run.candidate) = {step} /\ Executable(pkg, step) /\ Len(pkg.steps) = 2
  BY <1>0, SecondAsked
<1>2. /\ Goes("verifier_post_action", run.steps + 1, ActingTrace)
      /\ Keeps({"observation", "attempted", "effects"})
      /\ run'.effects = IF IsGoalEffect(step) THEN run.effects \cup {step.action} ELSE run.effects
      /\ world' = Applied(step, Mutated(step.mutation)) /\ UNCHANGED <<pkg, edits, phase>>
  BY <1>1, TransactionGoes
<1>3. SecondDone(family)'
  BY <1>0, <1>1, <1>2, SecondPerformed DEF PackageInv, SessionShape
<1>4. SecondTaken'
  BY <1>0, <1>2, <1>3 DEF SecondTaken, SecondDone
<1> QED
  BY <1>2, <1>4, GoalEffects DEF Expects

-----------------------------------------------------------------------------
(* The end of a run *)

\* A run about to be graded well.
AtEnd ==
  /\ DOMAIN run = RunFields /\ run.node \in DOMAIN OutcomeAt /\ Matched
  /\ run.steps \in 0..10 /\ run.replans \in 0..1 /\ run.retries \in 0..1
  /\ First = pkg.outcome
  /\ run.resumed \/ pkg.outcome \notin {"CLARIFICATION_REQUIRED", "PENDING_APPROVAL"}
  /\ Impact(pkg) = "MATERIAL" => run.replans = 1 /\ run.retries = 0
  /\ Satisfied(ContractFor(pkg).predicate) <=> pkg.outcome = "RESOLVED"
  /\ run.node = "done" => pkg.outcome = "RESOLVED"

LEMMA BuiltFlags ==
  ASSUME NEW family, NEW student, BuiltAs(family, student), NEW c, c = ContractFor(pkg)
  PROVE  /\ c.outcome = pkg.outcome /\ c.impact = Impact(pkg)
         /\ c.pause <=> pkg.outcome = "PENDING_APPROVAL"
         /\ c.impact # "NONE" <=> pkg.outcome = "CLARIFICATION_REQUIRED"
         /\ c.satisfied = (pkg.outcome = "RESOLVED")
         /\ c.memory \in BOOLEAN
         /\ c.impact = "MATERIAL" => c.replans = 1 /\ c.retries = 0
<1>1. /\ c.outcome = pkg.outcome /\ c.impact = Impact(pkg)
      /\ c.satisfied = (pkg.outcome = "RESOLVED") /\ c.memory \in BOOLEAN
  BY DEF ContractFor
<1>2. c.pause <=> pkg.outcome = "PENDING_APPROVAL"
  BY <1>1, BuiltKindsOfRun, DirectTerms, MaterialTerms, IncompleteTerms, WithdrawnTerms,
     RecoveredTerms, ApprovedTerms, RefusedTerms, WaitingTerms DEF Terms
<1>3. c.impact # "NONE" <=> pkg.outcome = "CLARIFICATION_REQUIRED"
  BY <1>1 DEF Impact, Clarified
<1>4. c.impact = "MATERIAL" => Material
  <2> SUFFICES ASSUME c.impact = "MATERIAL" PROVE Material
    OBVIOUS
  <2>1. pkg.family = "S3" /\ pkg.outcome = "CLARIFICATION_REQUIRED" /\ pkg.family = family
    BY <1>1, BuiltRecords DEF Impact, Clarified
  <2> QED
    BY <2>1, BuiltOutcomes DEF Material
<1> QED
  BY <1>1, <1>2, <1>3, <1>4, BuiltLoops DEF Loops

LEMMA FromEnd ==
  ASSUME CapsSuffice, NEW family, NEW student, BuiltAs(family, student), phase = "running", RunStep,
         AtEnd
  PROVE  phase' = "graded" /\ Violations' = {} /\ UNCHANGED <<pkg, edits, world>>
<1>1. Grade
  <2>1. ~Answerable
    BY DEF AtEnd, Answerable, Clarified
  <2> QED
    BY <2>1, NodeActs DEF AtEnd, OutcomeAt, AnswerClarification, ObserveApproval
<1>2. /\ run' = [run EXCEPT !.outcome = First] /\ phase' = "graded"
      /\ UNCHANGED <<pkg, edits, world>>
  BY <1>1 DEF Grade
<1>3. PICK c : c = ContractFor(pkg)
  OBVIOUS
<1>4. PICK m : run.matched = {m} /\ Right(c, m)
  BY <1>3 DEF AtEnd, Matched
<1>5. /\ run'.matched = {m} /\ run'.outcome = pkg.outcome /\ run'.node = run.node
      /\ run'.replans = run.replans /\ run'.retries = run.retries /\ run'.steps = run.steps
      /\ run'.resumed = run.resumed /\ run'.effects = run.effects
      /\ run'.candidate = run.candidate
  BY <1>2, <1>4 DEF AtEnd, RunFields
<1>6. /\ c.outcome = pkg.outcome /\ c.impact = Impact(pkg)
      /\ c.pause <=> pkg.outcome = "PENDING_APPROVAL"
      /\ c.impact # "NONE" <=> pkg.outcome = "CLARIFICATION_REQUIRED"
      /\ c.satisfied = (pkg.outcome = "RESOLVED")
      /\ c.memory \in BOOLEAN
      /\ c.impact = "MATERIAL" => c.replans = 1 /\ c.retries = 0
  BY <1>3, BuiltFlags
<1>7. /\ Satisfied(c.predicate) <=> pkg.outcome = "RESOLVED"
      /\ Satisfied(c.predicate)' <=> Satisfied(c.predicate)
  <2>1. Satisfied(c.predicate) <=> pkg.outcome = "RESOLVED"
    BY <1>3 DEF AtEnd
  <2>2. Satisfied(c.predicate)' <=> Satisfied(c.predicate)
    BY <1>2, <1>5 DEF Satisfied
  <2> QED
    BY <2>1, <2>2
<1> DEFINE counters == IF c.impact = "MATERIAL" THEN run' ELSE m
           waits == c.pause \/ c.impact # "NONE"
           outcome == run'.outcome # c.outcome
           before == m.pre # c.pre
           after == m.post # c.post
           loops == counters.replans # c.replans \/ counters.retries # c.retries
           caps == \/ run'.replans > MaxReplans \/ run'.retries > MaxToolRetries
                   \/ run'.steps > MaxTotalSteps
           paused == (run'.outcome \in {"CLARIFICATION_REQUIRED", "PENDING_APPROVAL"}) # waits
           impact == c.impact # "NONE" /\ m.impact # c.impact
           final == Satisfied(c.predicate)' # c.satisfied
           falsely == run'.node = "done" /\ ~Satisfied(c.predicate)'
           memory == ("VERIFIER_POST_ACTION:DONE->MEMORY_UPDATER" \in m.trace) # c.memory
           flags == [FINAL_OUTCOME_MISMATCH |-> outcome, PRE_ACTION_VERIFIER_MISMATCH |-> before,
                     POST_ACTION_VERIFIER_MISMATCH |-> after, LOOP_EXPECTATION_MISMATCH |-> loops,
                     LOOP_CAP_EXCEEDED |-> caps, CHECKPOINT_PAUSE_MISMATCH |-> paused,
                     CLARIFICATION_IMPACT_MISMATCH |-> impact,
                     FINAL_STATE_PREDICATE_MISMATCH |-> final,
                     POST_ACTION_FALSE_COMPLETION |-> falsely,
                     MEMORY_WRITE_GATE_VIOLATION |-> memory]
<1>8. Flags(c, m)' = flags
  BY DEF Flags
<1>9. ~outcome /\ ~before /\ ~after /\ ~impact /\ ~falsely
  BY <1>4, <1>5, <1>6, <1>7 DEF AtEnd, Right
<1>10. ~loops
  BY <1>4, <1>5, <1>6 DEF AtEnd, Right
<1>11. ~caps
  BY <1>5, ContractCampaignAssumption DEF AtEnd, CapsSuffice
<1>12. ~paused
  BY <1>5, <1>6
<1>13. ~final
  <2>1. CASE pkg.outcome = "RESOLVED"
    <3>1. c.satisfied = TRUE /\ Satisfied(c.predicate)'
      BY <1>6, <1>7, <2>1
    <3> QED
      BY <3>1
  <2>2. CASE pkg.outcome # "RESOLVED"
    <3>1. c.satisfied = FALSE /\ Satisfied(c.predicate)' = FALSE
      <4>1. Satisfied(c.predicate)' \in BOOLEAN
        BY DEF Satisfied
      <4> QED
        BY <1>6, <1>7, <2>2, <4>1
    <3> QED
      BY <3>1
  <2> QED
    BY <2>1, <2>2
<1>14. ~memory
  BY <1>4, <1>6 DEF Right
<1> HIDE DEF outcome, before, after, loops, caps, paused, impact, final, falsely, memory
<1>15. {code \in DOMAIN flags : flags[code]} = {}
  BY <1>9, <1>10, <1>11, <1>12, <1>13, <1>14
<1> HIDE DEF flags
<1>16. (CHOOSE x \in run'.matched : TRUE) = m
  BY <1>5
<1>17. ~(run'.matched = {} \/ ((c.pause \/ c.impact # "NONE") /\ ~run'.resumed))
  BY <1>5, <1>6 DEF AtEnd
<1>18. Violations' = {code \in DOMAIN Flags(c, m)' : Flags(c, m)'[code]}
  <2>1. ContractFor(pkg)' = c
    BY <1>2, <1>3
  <2> QED
    BY <1>16, <1>17, <2>1 DEF Violations
<1> QED
  BY <1>2, <1>8, <1>15, <1>18

\* A contract without questions, met by a run that has passed some transitions more.
Fits(c, trace, pre, post) ==
  /\ c.required \subseteq trace /\ c.forbidden \cap trace = {}
  /\ c.pre = pre /\ c.post = post /\ c.impact = "NONE"
  /\ c.replans = run.replans /\ c.retries = run.retries
  /\ run.replans \in 0..1 /\ run.retries \in 0..1 /\ run.steps \in 0..9

\* The last step of a run that reaches its goal.
LEMMA Resolves ==
  ASSUME NEW family, NEW student, BuiltAs(family, student), NEW c, c = ContractFor(pkg),
         VerifierPostAction, DOMAIN run = RunFields, GoalReached, Satisfied(c.predicate),
         run.matched = {}, Unstopped, pkg.outcome = "RESOLVED",
         Fits(c, run.trace \cup DoneTrace, run.pre, Append(run.post, "DONE")), c.memory
  PROVE  AtEnd' /\ UNCHANGED vars
<1>1. /\ Goes("done", run.steps + 1, DoneTrace) /\ Keeps({"post"})
      /\ run'.post = Append(run.post, "DONE") /\ UNCHANGED vars
  BY PostActionDone DEF DoneTrace
<1>2. Matches(c, run')
  BY <1>1 DEF Goes, Fits, Matches
<1>3. /\ run'.pre = run.pre /\ run'.replans = run.replans /\ run'.retries = run.retries
      /\ run'.outcome = "NONE" /\ run'.effects = run.effects /\ run'.candidate = run.candidate
      /\ run'.steps \in 0..10 /\ run'.node = "done"
  BY <1>1 DEF Goes, Keeps, RunFields, Fits, Unstopped
<1>4. Right(c, run')
  BY <1>1, <1>3 DEF Goes, Fits, Right, DoneTrace
<1>5. Matched'
  BY <1>1, <1>2, <1>4, Clinched DEF Goes, vars
<1>6. c.impact = Impact(pkg)
  BY BuiltFlags
<1>7. Satisfied(ContractFor(pkg).predicate)'
  <2>1. ContractFor(pkg)' = c
    BY <1>1 DEF vars
  <2> QED
    BY <1>1, <1>3, <2>1 DEF Satisfied, vars
<1>8. First'= "RESOLVED"
  BY <1>3 DEF First, OutcomeAt
<1>9. UNCHANGED pkg /\ DOMAIN run' = RunFields
  BY <1>1 DEF vars, Goes
<1>10. /\ run'.replans \in 0..1 /\ run'.retries \in 0..1
       /\ Impact(pkg)' # "MATERIAL" /\ pkg'.outcome = "RESOLVED"
  BY <1>3, <1>6, <1>9 DEF Fits
<1> QED
  BY <1>1, <1>3, <1>5, <1>7, <1>8, <1>9, <1>10 DEF AtEnd, OutcomeAt

\* The last step of a run that hands its case to the office.
LEMMA HandsOver ==
  ASSUME NEW family, NEW student, BuiltAs(family, student), NEW c, c = ContractFor(pkg),
         HumanAdminReview, DOMAIN run = RunFields, run.effects = {}, world.registered = {},
         run.matched = {}, Unstopped, pkg.outcome = "ESCALATED",
         Fits(c, run.trace \cup {"HUMAN_ADMIN_REVIEW:HANDOFF_PREPARED->FINAL_RESPONSE"},
              run.pre, run.post),
         ~c.memory, "VERIFIER_POST_ACTION:DONE->MEMORY_UPDATER" \notin run.trace
  PROVE  AtEnd' /\ UNCHANGED vars
<1>1. /\ Goes("handoff", run.steps + 1, {"HUMAN_ADMIN_REVIEW:HANDOFF_PREPARED->FINAL_RESPONSE"})
      /\ Keeps({}) /\ UNCHANGED vars
  BY AdminGoes
<1>2. Matches(c, run')
  BY <1>1 DEF Goes, Fits, Matches
<1>3. /\ run'.pre = run.pre /\ run'.post = run.post
      /\ run'.replans = run.replans /\ run'.retries = run.retries
      /\ run'.outcome = "NONE" /\ run'.effects = {} /\ run'.candidate = run.candidate
      /\ run'.steps \in 0..10 /\ run'.node = "handoff"
  BY <1>1 DEF Goes, Keeps, RunFields, Fits, Unstopped
<1>4. Right(c, run')
  BY <1>1, <1>3 DEF Goes, Fits, Right
<1>5. Matched'
  BY <1>1, <1>2, <1>4, Clinched DEF Goes, vars
<1>6. c.impact = Impact(pkg)
  BY BuiltFlags
<1>7. ~Satisfied(ContractFor(pkg).predicate)'
  <2>1. ContractFor(pkg)' = c /\ ~Satisfied(c.predicate) /\ world' = world /\ pkg' = pkg
    BY <1>1, Unsatisfied DEF vars
  <2> QED
    BY <1>3, <2>1 DEF Satisfied
<1>8. First'= "ESCALATED"
  BY <1>3 DEF First, OutcomeAt
<1>9. UNCHANGED pkg /\ DOMAIN run' = RunFields
  BY <1>1 DEF vars, Goes
<1>10. /\ run'.replans \in 0..1 /\ run'.retries \in 0..1
       /\ Impact(pkg)' # "MATERIAL" /\ pkg'.outcome = "ESCALATED"
  BY <1>3, <1>6, <1>9 DEF Fits
<1> QED
  BY <1>1, <1>3, <1>5, <1>7, <1>8, <1>9, <1>10 DEF AtEnd, OutcomeAt

-----------------------------------------------------------------------------
(* Runs that act without an approval *)

Tried == Opened \cup ActingTrace
Failed == Tried \cup {"VERIFIER_POST_ACTION:CONTINUE_FAILURE->PLANNER"}
GivenUp == Failed \cup {"PLANNER:NO_SAFE_ROUTE->HUMAN_ADMIN_REVIEW"}

\* After the first transaction.
Acted(node, steps, trace, pre, post) ==
  Stage(node, steps, trace, pre, post) /\ run.matched = {} /\ Unstopped /\ FirstTaken

DirectAtPost ==
  /\ Acted("verifier_post_action", 4, Tried, <<"VALID">>, <<>>) /\ Counts(0, 0)
  /\ run.effects = {run.candidate.action} /\ Expects(pkg.steps[1], run.candidate)

Withdrawing(node, steps, trace, post, replans) ==
  /\ Acted(node, steps, trace, <<"VALID">>, post) /\ Counts(replans, 0)
  /\ run.observation = "FINAL" /\ run.effects = {}
WithdrawnAtPost == Withdrawing("verifier_post_action", 4, Tried, <<>>, 0)
WithdrawnAtPlanner == Withdrawing("planner", 5, Failed, <<"CONTINUE_FAILURE">>, 0)
WithdrawnAtAdmin == Withdrawing("human_admin_review", 6, GivenUp, <<"CONTINUE_FAILURE">>, 1)

\* S7: the failed class is left out of the second candidate.
Recovering(node, steps, trace, pre, post) ==
  /\ Acted(node, steps, trace, pre, post) /\ run.effects = {}
  /\ run.observation = "RETRYABLE" /\ run.attempted = {"pref"} /\ run.response = "NONE"
RecoveredAtPost ==
  Recovering("verifier_post_action", 4, Tried, <<"VALID">>, <<>>) /\ Counts(0, 0)
RecoveredAtPlanner ==
  Recovering("planner", 5, Failed, <<"VALID">>, <<"CONTINUE_FAILURE">>) /\ Counts(0, 0)
RecoveredAtBuilder ==
  Recovering("resolution_builder", 6, Failed, <<"VALID">>, <<"CONTINUE_FAILURE">>) /\ Counts(1, 1)
RecoveredAtVerifier ==
  /\ Recovering("verifier_pre_action", 6, Failed, <<"VALID">>, <<"CONTINUE_FAILURE">>)
  /\ Counts(1, 1) /\ Expects(pkg.steps[2], run.candidate) /\ run.candidate.action # "NONE"
RecoveredAtGate ==
  /\ Recovering("action_gate", 7, Failed, <<"VALID", "VALID">>, <<"CONTINUE_FAILURE">>)
  /\ Counts(1, 1) /\ Expects(pkg.steps[2], run.candidate)
RecoveredAtTransaction ==
  /\ Recovering("transaction", 8, Failed, <<"VALID", "VALID">>, <<"CONTINUE_FAILURE">>)
  /\ Counts(1, 1) /\ Expects(pkg.steps[2], run.candidate)
RecoveredAtPostAgain ==
  /\ Stage("verifier_post_action", 9, Failed, <<"VALID", "VALID">>, <<"CONTINUE_FAILURE">>)
  /\ run.matched = {} /\ Unstopped /\ SecondTaken /\ Counts(1, 1)

LEMMA FromTransaction ==
  ASSUME NEW family, NEW student, BuiltAs(family, student), PackageInv, phase = "running", RunStep,
         AtTransaction, Direct \/ Withdrawn \/ Recovered
  PROVE  /\ UNCHANGED <<pkg, edits, phase>>
         /\ Direct => DirectAtPost'
         /\ Withdrawn => WithdrawnAtPost'
         /\ Recovered => RecoveredAtPost'
<1>1. /\ Transaction /\ DOMAIN run = RunFields /\ world = FreshWorld(pkg)
      /\ Expects(pkg.steps[1], run.candidate)
  BY NodeActs DEF AtTransaction, Outset, Stage, Untried, Apt
<1>2. /\ Goes("verifier_post_action", run.steps + 1, ActingTrace)
      /\ Keeps({"observation", "attempted", "effects"})
      /\ run'.observation = (IF Recovered THEN "RETRYABLE" ELSE "FINAL")
      /\ run'.attempted = run.attempted \cup ({run.candidate.state} \ {"none"})
      /\ run'.effects = (IF Direct THEN run.effects \cup {run.candidate.action} ELSE run.effects)
      /\ FirstTaken' /\ UNCHANGED <<pkg, edits, phase>>
  BY <1>1, FirstTransaction
<1>3. run'.trace = Tried
  BY <1>2 DEF Goes, AtTransaction, Outset, Stage, Tried
<1>4. run'.matched = {}
  BY <1>2, <1>3, Unclinched
     DEF Goes, AtTransaction, Outset, LastTrace, Tried, ActingTrace, Opened, Vetted, Baseline
<1>5. Recovered => run'.attempted = {"pref"}
  <2>1. Recovered => run.candidate.state = "pref"
    <3> SUFFICES ASSUME Recovered PROVE run.candidate.state = "pref"
      OBVIOUS
    <3>1. family = "S7"
      BY BuiltRecords DEF Recovered
    <3> QED
      BY <1>1, <3>1, RecoveryScript DEF Expects, StepNames
  <2> QED
    BY <1>2, <2>1 DEF AtTransaction, Outset, Untried
<1>6. /\ Acted("verifier_post_action", 4, Tried, <<"VALID">>, <<>>)' /\ Counts(0, 0)'
      /\ run'.candidate = run.candidate /\ run'.response = "NONE"
  BY <1>2, <1>3, <1>4 DEF Goes, Keeps, RunFields, AtTransaction, Acted, Outset, Stage,
                          Unasked, Unstopped, Counts
<1>7. Direct => ~Recovered
  BY DEF Direct, Recovered
<1>8. Withdrawn => ~Direct /\ ~Recovered
  BY DEF Direct, Recovered, Withdrawn
<1>9. run.effects = {}
  BY DEF AtTransaction, Outset, Untried
<1>10. Direct => DirectAtPost'
  BY <1>1, <1>2, <1>6, <1>9 DEF DirectAtPost, Expects
<1>11. Withdrawn => WithdrawnAtPost'
  BY <1>2, <1>6, <1>8, <1>9 DEF WithdrawnAtPost, Withdrawing
<1>12. Recovered => RecoveredAtPost'
  BY <1>2, <1>5, <1>6, <1>7, <1>9 DEF RecoveredAtPost, Recovering
<1> QED
  BY <1>2, <1>10, <1>11, <1>12

LEMMA FromDirectPost ==
  ASSUME NEW family, NEW student, BuiltAs(family, student), phase = "running", RunStep,
         Direct, DirectAtPost
  PROVE  AtEnd' /\ UNCHANGED vars
<1>1. /\ VerifierPostAction /\ DOMAIN run = RunFields /\ run.matched = {} /\ Unstopped
      /\ FirstDone(family) /\ pkg.family = family
  BY NodeActs, BuiltRecords DEF DirectAtPost, Acted, Stage, FirstTaken
<1>2. PICK c : c = ContractFor(pkg)
  OBVIOUS
<1>3. Satisfied(c.predicate) /\ GoalReached
  <2>1. CASE family = "S1"
    BY <1>1, <1>2, <2>1, RegistrationSatisfies, FamiliesNeed DEF FirstDone
  <2>2. CASE family # "S1"
    BY <1>1, <1>2, <2>2, ReceiptSatisfies, FamiliesNeed DEF Direct, DirectAtPost
  <2> QED
    BY <2>1, <2>2
<1>4. /\ Terms(c, "RESOLVED", "NONE", "NONE", <<"VALID">>, <<"DONE">>)
      /\ Routes(c, DirectRoute, DirectBars) /\ Loops(c, 0, 0)
  BY <1>2, DirectTerms, DirectRoutes, BuiltLoops
<1>5. c.memory /\ pkg.outcome = "RESOLVED"
  BY <1>2, <1>4, BuiltFlags DEF Terms
<1>6. c.required \subseteq run.trace \cup DoneTrace /\ c.forbidden \cap (run.trace \cup DoneTrace) = {}
  BY <1>4 DEF Routes, DirectAtPost, Acted, Stage, DirectRoute, DirectBars, Tried, Opened, Vetted,
              Baseline, ActingTrace, DoneTrace, NeverTrace
<1>7. Fits(c, run.trace \cup DoneTrace, run.pre, Append(run.post, "DONE"))
  BY <1>4, <1>6, Appended DEF Fits, Terms, Loops, DirectAtPost, Acted, Stage, Counts
<1> QED
  BY <1>1, <1>2, <1>3, <1>5, <1>7, Resolves

LEMMA FromWithdrawnPost ==
  ASSUME NEW family, NEW student, BuiltAs(family, student), phase = "running", RunStep,
         Withdrawn, WithdrawnAtPost
  PROVE  WithdrawnAtPlanner' /\ UNCHANGED vars
<1>1. VerifierPostAction /\ DOMAIN run = RunFields /\ ~GoalReached
  <2>1. pkg.family = family /\ world.registered = {}
    BY BuiltRecords, FamiliesNeed DEF WithdrawnAtPost, Withdrawing, Acted, FirstTaken, FirstDone,
                                      Withdrawn
  <2> QED
    BY <2>1, NodeActs, Unsatisfied DEF WithdrawnAtPost, Withdrawing, Acted, Stage
<1>2. /\ Goes("planner", run.steps + 1, {"VERIFIER_POST_ACTION:CONTINUE_FAILURE->PLANNER"})
      /\ Keeps({"post"}) /\ run'.post = Append(run.post, "CONTINUE_FAILURE") /\ UNCHANGED vars
  BY <1>1, PostActionFails
<1>3. run'.trace = Failed /\ run'.post = <<"CONTINUE_FAILURE">> /\ FirstTaken'
  BY <1>2, Appended, TakenStays DEF Goes, WithdrawnAtPost, Withdrawing, Acted, Stage, Failed, vars
<1>4. run'.matched = {}
  BY <1>2, <1>3, Unclinched DEF Goes, WithdrawnAtPost, Withdrawing, Acted, LastTrace, Failed, Tried,
                                ActingTrace, Opened, Vetted, Baseline
<1> QED
  BY <1>2, <1>3, <1>4 DEF Goes, Keeps, RunFields, WithdrawnAtPost, WithdrawnAtPlanner, Withdrawing,
                          Acted, Stage, Unstopped, Counts

LEMMA FromWithdrawnPlanner ==
  ASSUME NEW family, NEW student, BuiltAs(family, student), phase = "running", RunStep,
         Withdrawn, WithdrawnAtPlanner
  PROVE  WithdrawnAtAdmin' /\ UNCHANGED vars
<1>1. /\ Goes("human_admin_review", run.steps + 1, {"PLANNER:NO_SAFE_ROUTE->HUMAN_ADMIN_REVIEW"})
      /\ Keeps({"planned", "replans", "retries"})
      /\ run'.planned /\ run'.replans = 1 /\ run'.retries = 0 /\ UNCHANGED vars
  BY NodeActs, PlannerGivesUp DEF WithdrawnAtPlanner, Withdrawing, Acted, Stage, Counts
<1>2. run'.trace = GivenUp /\ FirstTaken'
  BY <1>1, TakenStays DEF Goes, WithdrawnAtPlanner, Withdrawing, Acted, Stage, GivenUp, vars
<1>3. run'.matched = {}
  BY <1>1, <1>2, Unclinched DEF Goes, WithdrawnAtPlanner, Withdrawing, Acted, LastTrace, GivenUp,
                                Failed, Tried, ActingTrace, Opened, Vetted, Baseline
<1> QED
  BY <1>1, <1>2, <1>3 DEF Goes, Keeps, RunFields, WithdrawnAtPlanner, WithdrawnAtAdmin, Withdrawing,
                          Acted, Stage, Unstopped, Counts

LEMMA FromWithdrawnAdmin ==
  ASSUME NEW family, NEW student, BuiltAs(family, student), phase = "running", RunStep,
         Withdrawn, WithdrawnAtAdmin
  PROVE  AtEnd' /\ UNCHANGED vars
<1>1. /\ HumanAdminReview /\ DOMAIN run = RunFields /\ run.effects = {} /\ run.matched = {}
      /\ Unstopped
  BY NodeActs DEF WithdrawnAtAdmin, Withdrawing, Acted, Stage
<1>2. pkg.family = family /\ world.registered = {}
  BY BuiltRecords, FamiliesNeed
     DEF WithdrawnAtAdmin, Withdrawing, Acted, FirstTaken, FirstDone, Withdrawn
<1>3. PICK c : c = ContractFor(pkg)
  OBVIOUS
<1>4. /\ Terms(c, "ESCALATED", "NONE", "NONE", <<"VALID">>, <<"CONTINUE_FAILURE">>)
      /\ Routes(c, WithdrawnRoute, WithdrawnBars) /\ Loops(c, 1, 0)
  BY <1>3, WithdrawnTerms, WithdrawnRoutes, BuiltLoops
<1>5. ~c.memory /\ pkg.outcome = "ESCALATED"
  BY <1>3, <1>4, BuiltFlags DEF Terms
<1> DEFINE ended == run.trace \cup {"HUMAN_ADMIN_REVIEW:HANDOFF_PREPARED->FINAL_RESPONSE"}
<1>6. /\ c.required \subseteq ended /\ c.forbidden \cap ended = {}
      /\ "VERIFIER_POST_ACTION:DONE->MEMORY_UPDATER" \notin run.trace
  BY <1>4 DEF Routes, WithdrawnAtAdmin, Withdrawing, Acted, Stage, WithdrawnRoute, WithdrawnBars,
              GivenUp, Failed, Tried, Opened, Vetted, Baseline, ActingTrace, Handoff, NeverTrace
<1>7. Fits(c, ended, run.pre, run.post)
  BY <1>4, <1>6 DEF Fits, Terms, Loops, WithdrawnAtAdmin, Withdrawing, Acted, Stage, Counts
<1> QED
  BY <1>1, <1>2, <1>3, <1>5, <1>6, <1>7, HandsOver

-----------------------------------------------------------------------------
(* The recovery of S7 *)

LEMMA FromRecoveredPost ==
  ASSUME NEW family, NEW student, BuiltAs(family, student), phase = "running", RunStep,
         Recovered, RecoveredAtPost
  PROVE  RecoveredAtPlanner' /\ UNCHANGED vars
<1>1. VerifierPostAction /\ DOMAIN run = RunFields /\ ~GoalReached
  <2>1. pkg.family = family /\ world.registered = {}
    BY BuiltRecords, FamiliesNeed DEF RecoveredAtPost, Recovering, Acted, FirstTaken, FirstDone,
                                      Recovered
  <2> QED
    BY <2>1, NodeActs, Unsatisfied DEF RecoveredAtPost, Recovering, Acted, Stage
<1>2. /\ Goes("planner", run.steps + 1, {"VERIFIER_POST_ACTION:CONTINUE_FAILURE->PLANNER"})
      /\ Keeps({"post"}) /\ run'.post = Append(run.post, "CONTINUE_FAILURE") /\ UNCHANGED vars
  BY <1>1, PostActionFails
<1>3. run'.trace = Failed /\ run'.post = <<"CONTINUE_FAILURE">> /\ FirstTaken'
  BY <1>2, Appended, TakenStays DEF Goes, RecoveredAtPost, Recovering, Acted, Stage, Failed, vars
<1>4. run'.matched = {}
  BY <1>2, <1>3, Unclinched DEF Goes, RecoveredAtPost, Recovering, Acted, LastTrace, Failed, Tried,
                                ActingTrace, Opened, Vetted, Baseline
<1> QED
  BY <1>2, <1>3, <1>4 DEF Goes, Keeps, RunFields, RecoveredAtPost, RecoveredAtPlanner, Recovering,
                          Acted, Stage, Unstopped, Counts

\* A step of the recovery that passes nothing new.
LEMMA RecoveryGoes ==
  ASSUME NEW family, NEW student, BuiltAs(family, student), NEW node, NEW steps, NEW passed,
         NEW changed,
         NEW from, NEW before, NEW pre, NEW post, NEW now,
         run'.pre = now, Recovering(from, before, Failed, pre, post),
         Goes(node, steps, passed), Keeps(changed),
         changed \subseteq {"planned", "replans", "retries", "candidate", "pre"},
         passed \subseteq Failed, UNCHANGED vars
  PROVE  Recovering(node, steps, Failed, now, post)'
<1>1. run'.trace = Failed /\ FirstTaken'
  BY TakenStays DEF Goes, Recovering, Acted, Stage, vars
<1>2. run'.matched = {}
  BY <1>1, Unclinched DEF Goes, Recovering, Acted, LastTrace, Failed, Tried, ActingTrace, Opened,
                          Vetted, Baseline
<1> QED
  BY <1>1, <1>2 DEF Goes, Keeps, RunFields, Recovering, Acted, Stage, Unstopped

LEMMA FromRecoveredPlanner ==
  ASSUME NEW family, NEW student, BuiltAs(family, student), phase = "running", RunStep,
         RecoveredAtPlanner
  PROVE  RecoveredAtBuilder' /\ UNCHANGED vars
<1>1. /\ Goes("resolution_builder", 6, {}) /\ Keeps({"planned", "replans", "retries"})
      /\ Counts(1, 1)' /\ UNCHANGED vars
  BY NodeActs, PlannerContinues DEF RecoveredAtPlanner, Recovering, Acted, Stage, Counts
<1>2. run'.pre = <<"VALID">>
  BY <1>1 DEF Keeps, RunFields, RecoveredAtPlanner, Recovering, Acted, Stage
<1> QED
  BY <1>1, <1>2, RecoveryGoes DEF RecoveredAtPlanner, RecoveredAtBuilder

LEMMA FromRecoveredBuilder ==
  ASSUME NEW family, NEW student, BuiltAs(family, student), phase = "running", RunStep,
         Recovered, RecoveredAtBuilder
  PROVE  RecoveredAtVerifier' /\ UNCHANGED vars
<1> DEFINE built == {"RESOLUTION_BUILDER:CANDIDATES_BUILT->VERIFIER_PRE_ACTION"}
<1>1. Expects(pkg.steps[2], CandidateFor(pkg)) /\ CandidateFor(pkg).action # "NONE"
  BY SecondCandidate, BuiltRecords DEF RecoveredAtBuilder, Recovering, Acted, FirstTaken
<1>2. CandidateFor(pkg) # NoCandidate
  BY <1>1 DEF NoCandidate
<1>3. /\ Goes("verifier_pre_action", 6, built) /\ Keeps({"candidate"})
      /\ run'.candidate = CandidateFor(pkg) /\ UNCHANGED vars
  BY <1>2, NodeActs, BuilderGoes DEF RecoveredAtBuilder, Recovering, Acted, Stage
<1>4. run'.pre = <<"VALID">> /\ Counts(1, 1)'
  BY <1>3 DEF Keeps, RunFields, RecoveredAtBuilder, Recovering, Acted, Stage, Counts
<1>5. built \subseteq Failed
  BY DEF Failed, Tried, Opened, Vetted, Baseline
<1>6. Recovering("verifier_pre_action", 6, Failed, <<"VALID">>, <<"CONTINUE_FAILURE">>)'
  BY <1>3, <1>4, <1>5, RecoveryGoes DEF RecoveredAtBuilder
<1>7. Expects(pkg.steps[2], run.candidate)' /\ run'.candidate.action # "NONE"
  BY <1>1, <1>3 DEF Expects, vars
<1> QED
  BY <1>3, <1>4, <1>6, <1>7 DEF RecoveredAtVerifier

LEMMA FromRecoveredVerifier ==
  ASSUME NEW family, NEW student, BuiltAs(family, student), phase = "running", RunStep,
         Recovered, RecoveredAtVerifier
  PROVE  RecoveredAtGate' /\ UNCHANGED vars
<1> DEFINE vetted == {"VERIFIER_PRE_ACTION:VALID->ACTION_GATE"}
<1>1. VerifierPreAction /\ DOMAIN run = RunFields
  BY NodeActs DEF RecoveredAtVerifier, Recovering, Acted, Stage
<1>2. Assessment = "VALID"
  <2>1. pkg.documents = TRUE /\ pkg.family = "S7"
    BY BuiltRecords DEF Recovered
  <2>2. run.candidate # NoCandidate
    BY DEF RecoveredAtVerifier, NoCandidate
  <2> QED
    BY <2>1, <2>2 DEF Assessment
<1>3. /\ Goes("action_gate", 7, vetted) /\ Keeps({"pre"})
      /\ run'.pre = <<"VALID", "VALID">> /\ UNCHANGED vars
  BY <1>1, <1>2, PreActionValid, Appended DEF RecoveredAtVerifier, Recovering, Acted, Stage
<1>4. Counts(1, 1)' /\ run'.candidate = run.candidate
  BY <1>3 DEF Keeps, RunFields, RecoveredAtVerifier, Counts
<1>5. vetted \subseteq Failed
  BY DEF Failed, Tried, Opened, Vetted, Baseline
<1>6. Recovering("action_gate", 7, Failed, <<"VALID", "VALID">>, <<"CONTINUE_FAILURE">>)'
  BY <1>3, <1>5, RecoveryGoes DEF RecoveredAtVerifier
<1> QED
  BY <1>3, <1>4, <1>6 DEF RecoveredAtVerifier, RecoveredAtGate, Expects, vars

LEMMA FromRecoveredGate ==
  ASSUME NEW family, NEW student, BuiltAs(family, student), phase = "running", RunStep,
         Recovered, RecoveredAtGate
  PROVE  RecoveredAtTransaction' /\ UNCHANGED vars
<1> DEFINE opened == {"ACTION_GATE:NO_APPROVAL->TRANSACTION"}
<1>1. ActionGate /\ DOMAIN run = RunFields
  BY NodeActs DEF RecoveredAtGate, Recovering, Acted, Stage
<1>2. pkg.approval = "NONE"
  BY BuiltKindsOfRun, FamiliesNeed DEF Recovered
<1>3. /\ Goes("transaction", 8, opened) /\ Keeps({}) /\ UNCHANGED vars
  BY <1>1, <1>2, GateOpens DEF RecoveredAtGate, Recovering, Acted, Stage
<1>4. Counts(1, 1)' /\ run'.candidate = run.candidate /\ run'.pre = <<"VALID", "VALID">>
  BY <1>3 DEF Keeps, RunFields, RecoveredAtGate, Recovering, Acted, Stage, Counts
<1>5. opened \subseteq Failed
  BY DEF Failed, Tried, Opened
<1>6. Recovering("transaction", 8, Failed, <<"VALID", "VALID">>, <<"CONTINUE_FAILURE">>)'
  BY <1>3, <1>4, <1>5, RecoveryGoes DEF RecoveredAtGate
<1> QED
  BY <1>3, <1>4, <1>6 DEF RecoveredAtGate, RecoveredAtTransaction, Expects, vars

LEMMA FromRecoveredTransaction ==
  ASSUME NEW family, NEW student, BuiltAs(family, student), PackageInv, phase = "running", RunStep,
         Recovered, RecoveredAtTransaction
  PROVE  RecoveredAtPostAgain' /\ UNCHANGED <<pkg, edits, phase>>
<1>1. Transaction /\ DOMAIN run = RunFields
  BY NodeActs DEF RecoveredAtTransaction, Recovering, Acted, Stage
<1>2. /\ Goes("verifier_post_action", run.steps + 1, ActingTrace)
      /\ Keeps({"observation", "attempted", "effects"})
      /\ SecondTaken' /\ UNCHANGED <<pkg, edits, phase>>
  BY <1>1, SecondTransaction DEF RecoveredAtTransaction, Recovering, Acted
<1>3. run'.trace = Failed
  BY <1>2 DEF Goes, RecoveredAtTransaction, Recovering, Acted, Stage, Failed, Tried
<1>4. run'.matched = {}
  BY <1>2, <1>3, Unclinched DEF Goes, RecoveredAtTransaction, Recovering, Acted, LastTrace, Failed,
                                Tried, ActingTrace, Opened, Vetted, Baseline
<1> QED
  BY <1>2, <1>3, <1>4 DEF Goes, Keeps, RunFields, RecoveredAtTransaction, RecoveredAtPostAgain,
                          Recovering, Acted, Stage, Unstopped, Counts

LEMMA FromRecoveredPostAgain ==
  ASSUME NEW family, NEW student, BuiltAs(family, student), phase = "running", RunStep,
         Recovered, RecoveredAtPostAgain
  PROVE  AtEnd' /\ UNCHANGED vars
<1>1. /\ VerifierPostAction /\ DOMAIN run = RunFields /\ run.matched = {} /\ Unstopped
  BY NodeActs DEF RecoveredAtPostAgain, Stage
<1>2. PICK c : c = ContractFor(pkg)
  OBVIOUS
<1>3. Satisfied(c.predicate) /\ GoalReached
  <2>1. world.registered = {"alt"} /\ family \in NeedsStatePair
    BY BuiltRecords, FamiliesNeed DEF RecoveredAtPostAgain, SecondTaken, SecondDone, Recovered
  <2> QED
    BY <1>2, <2>1, RegistrationSatisfies
<1>4. /\ Terms(c, "RESOLVED", "NONE", "NONE", <<"VALID", "VALID">>, <<"CONTINUE_FAILURE", "DONE">>)
      /\ Routes(c, RecoveredRoute, RecoveredBars) /\ Loops(c, 1, 1)
  BY <1>2, RecoveredTerms, RecoveredRoutes, BuiltLoops
<1>5. c.memory /\ pkg.outcome = "RESOLVED"
  BY <1>2, <1>4, BuiltFlags DEF Terms
<1>6. c.required \subseteq run.trace \cup DoneTrace /\ c.forbidden \cap (run.trace \cup DoneTrace) = {}
  BY <1>4 DEF Routes, RecoveredAtPostAgain, Stage, RecoveredRoute, RecoveredBars, Failed, Tried,
              Opened, Vetted, Baseline, ActingTrace, DoneTrace, NeverTrace
<1>7. Fits(c, run.trace \cup DoneTrace, run.pre, Append(run.post, "DONE"))
  BY <1>4, <1>6, Appended DEF Fits, Terms, Loops, RecoveredAtPostAgain, Stage, Counts
<1> QED
  BY <1>1, <1>2, <1>3, <1>5, <1>7, Resolves

-----------------------------------------------------------------------------
(* Runs that ask for an approval *)

Approved == Asked \cup {"HUMAN_APPROVAL:APPROVED->TRANSACTION"}
Refused == Asked \cup {"HUMAN_APPROVAL:REJECTED->PLANNER"}
Paused == Asked \cup {"HUMAN_APPROVAL:PENDING->PAUSE_CHECKPOINT"}

\* After the request, with the decision seen.
Answered(node, steps, trace, response, replans) ==
  /\ Acted(node, steps, trace, <<"VALID">>, <<>>) /\ Counts(replans, 0)
  /\ run.response = response /\ run.requested /\ run.effects = {} /\ run.observation = "NONE"

ApprovedAtTransaction ==
  Answered("transaction", 4, Approved, "APPROVED", 0) /\ Expects(pkg.steps[2], run.candidate)
ApprovedAtPost ==
  /\ Stage("verifier_post_action", 5, Approved \cup ActingTrace, <<"VALID">>, <<>>)
  /\ run.matched = {} /\ Unstopped /\ SecondTaken /\ Counts(0, 0)
  /\ run.effects = {run.candidate.action} /\ Expects(pkg.steps[2], run.candidate)
RefusedAtPlanner == Answered("planner", 4, Refused, "REJECTED", 0)
RefusedAtAdmin ==
  Answered("human_admin_review", 5, Refused \cup {"PLANNER:NO_SAFE_ROUTE->HUMAN_ADMIN_REVIEW"},
           "REJECTED", 1)
WaitingAtPause == Answered("pause_checkpoint", 4, Paused, "PENDING", 0)

LEMMA FromHuman ==
  ASSUME NEW family, NEW student, BuiltAs(family, student), PackageInv, phase = "running", RunStep,
         AtHuman, pkg.family \in NeedsApproval
  PROVE  /\ UNCHANGED <<pkg, edits, phase>>
         /\ pkg.approval = "APPROVED" => ApprovedAtTransaction'
         /\ pkg.approval = "REJECTED" => RefusedAtPlanner'
         /\ pkg.approval = "PENDING" => WaitingAtPause'
<1>1. /\ HumanApproval /\ DOMAIN run = RunFields /\ ~run.requested
      /\ world = FreshWorld(pkg) /\ PackageShape(pkg)
  BY NodeActs DEF AtHuman, Outset, Stage, Unasked, Untried, PackageInv
<1>2. /\ pkg.family = family /\ family \in NeedsApproval
      /\ pkg.approval \in {"APPROVED", "REJECTED", "PENDING"}
  BY BuiltRecords, BuiltEvents DEF Decisions
<1>3. ASSUME NEW trace, NEW response,
             Goes(run'.node, run.steps + 1, trace), Keeps({"requested", "response"}),
             run'.requested, run'.response = response, FirstDone(family)', UNCHANGED <<pkg, edits, phase>>,
             trace \cap LastTrace = {}
      PROVE  \A node, all : run'.node = node /\ Asked \cup trace = all =>
               Answered(node, 4, all, response, 0)'
  <2>1. run'.trace = Asked \cup trace
    BY <1>3 DEF Goes, AtHuman, Outset, Stage
  <2>2. run'.matched = {}
    BY <1>3, <2>1, Unclinched DEF Goes, AtHuman, Outset, LastTrace, Asked, Vetted, Baseline
  <2>3. FirstTaken'
    BY <1>2, <1>3 DEF FirstTaken, FirstDone, CaseAfterFirst
  <2> QED
    BY <1>3, <2>1, <2>2, <2>3
       DEF Goes, Keeps, RunFields, AtHuman, Outset, Stage, Answered, Acted, Untried, Unstopped, Counts
<1>4. CASE pkg.approval = "APPROVED"
  <2>1. /\ Goes("transaction", run.steps + 1, {"HUMAN_APPROVAL:APPROVED->TRANSACTION"})
        /\ Keeps({"requested", "response"})
        /\ run'.requested /\ run'.response = "APPROVED"
        /\ FirstDone(family)' /\ UNCHANGED <<pkg, edits, phase>>
    BY <1>1, <1>2, <1>4, HumanApproves
  <2>2. run'.node = "transaction"
    BY <2>1 DEF Goes
  <2>3. {"HUMAN_APPROVAL:APPROVED->TRANSACTION"} \cap LastTrace = {}
    BY DEF LastTrace
  <2>4. Answered("transaction", 4, Approved, "APPROVED", 0)'
    BY <1>3, <2>1, <2>2, <2>3 DEF Approved
  <2>5. run'.candidate = run.candidate /\ Expects(pkg.steps[2], run.candidate)
    BY <1>2, <1>4, <2>1 DEF Keeps, RunFields, AtHuman, Apt, ApprovalIs
  <2> QED
    BY <1>4, <2>1, <2>4, <2>5 DEF ApprovedAtTransaction, Expects
<1>5. CASE pkg.approval = "REJECTED"
  <2>1. /\ Goes("planner", run.steps + 1, {"HUMAN_APPROVAL:REJECTED->PLANNER"})
        /\ Keeps({"requested", "response"})
        /\ run'.requested /\ run'.response = "REJECTED"
        /\ FirstDone(family)' /\ UNCHANGED <<pkg, edits, phase>>
    BY <1>1, <1>2, <1>5, HumanRefuses
  <2>2. run'.node = "planner"
    BY <2>1 DEF Goes
  <2>3. {"HUMAN_APPROVAL:REJECTED->PLANNER"} \cap LastTrace = {}
    BY DEF LastTrace
  <2> QED
    BY <1>3, <1>5, <2>1, <2>2, <2>3 DEF Refused, RefusedAtPlanner
<1>6. CASE pkg.approval = "PENDING"
  <2>1. /\ Goes("pause_checkpoint", run.steps + 1, {"HUMAN_APPROVAL:PENDING->PAUSE_CHECKPOINT"})
        /\ Keeps({"requested", "response"})
        /\ run'.requested /\ run'.response = "PENDING"
        /\ FirstDone(family)' /\ UNCHANGED <<pkg, edits, phase>>
    BY <1>1, <1>2, <1>6, HumanWaits
  <2>2. run'.node = "pause_checkpoint"
    BY <2>1 DEF Goes
  <2>3. {"HUMAN_APPROVAL:PENDING->PAUSE_CHECKPOINT"} \cap LastTrace = {}
    BY DEF LastTrace
  <2> QED
    BY <1>3, <1>6, <2>1, <2>2, <2>3 DEF Paused, WaitingAtPause
<1> QED
  BY <1>2, <1>4, <1>5, <1>6

LEMMA FromApprovedTransaction ==
  ASSUME NEW family, NEW student, BuiltAs(family, student), PackageInv, phase = "running", RunStep,
         ApprovalIs("APPROVED"), ApprovedAtTransaction
  PROVE  ApprovedAtPost' /\ UNCHANGED <<pkg, edits, phase>>
<1>1. Transaction /\ DOMAIN run = RunFields
  BY NodeActs DEF ApprovedAtTransaction, Answered, Acted, Stage
<1>2. /\ Goes("verifier_post_action", run.steps + 1, ActingTrace)
      /\ Keeps({"observation", "attempted", "effects"})
      /\ run'.effects = run.effects \cup {run.candidate.action}
      /\ SecondTaken' /\ UNCHANGED <<pkg, edits, phase>>
  BY <1>1, SecondTransaction DEF ApprovedAtTransaction, Answered, Acted
<1>3. run'.trace = Approved \cup ActingTrace
  BY <1>2 DEF Goes, ApprovedAtTransaction, Answered, Acted, Stage
<1>4. run'.matched = {}
  BY <1>2, <1>3, Unclinched DEF Goes, ApprovedAtTransaction, Answered, Acted, LastTrace, Approved,
                                Asked, ActingTrace, Vetted, Baseline
<1> QED
  BY <1>2, <1>3, <1>4 DEF Goes, Keeps, RunFields, ApprovedAtTransaction, ApprovedAtPost, Answered,
                          Acted, Stage, Unstopped, Counts, Expects

LEMMA FromApprovedPost ==
  ASSUME NEW family, NEW student, BuiltAs(family, student), phase = "running", RunStep,
         ApprovalIs("APPROVED"), ApprovedAtPost
  PROVE  AtEnd' /\ UNCHANGED vars
<1>1. /\ VerifierPostAction /\ DOMAIN run = RunFields /\ run.matched = {} /\ Unstopped
      /\ SecondDone(family) /\ pkg.family = family
  BY NodeActs, BuiltRecords DEF ApprovedAtPost, Stage, SecondTaken
<1>2. PICK c : c = ContractFor(pkg)
  OBVIOUS
<1>3. Satisfied(c.predicate) /\ GoalReached
  <2>1. CASE family = "S4"
    BY <1>1, <1>2, <2>1, RegistrationSatisfies, FamiliesNeed DEF SecondDone
  <2>2. CASE family # "S4"
    BY <1>1, <1>2, <2>2, ReceiptSatisfies, FamiliesNeed
       DEF ApprovalIs, ApprovedAtPost, NeedsApproval, NeedsStatePair
  <2> QED
    BY <2>1, <2>2
<1>4. /\ Terms(c, "RESOLVED", "APPROVED", "NONE", <<"VALID">>, <<"DONE">>)
      /\ Routes(c, ApprovedRoute, ApprovedBars) /\ Loops(c, 0, 0)
  BY <1>2, ApprovedTerms, ApprovedRoutes, BuiltLoops
<1>5. c.memory /\ pkg.outcome = "RESOLVED"
  BY <1>2, <1>4, BuiltFlags DEF Terms
<1>6. c.required \subseteq run.trace \cup DoneTrace /\ c.forbidden \cap (run.trace \cup DoneTrace) = {}
  BY <1>4 DEF Routes, ApprovedAtPost, Stage, ApprovedRoute, ApprovedBars, Approved, Asked, Vetted,
              Baseline, ActingTrace, DoneTrace, NeverTrace
<1>7. Fits(c, run.trace \cup DoneTrace, run.pre, Append(run.post, "DONE"))
  BY <1>4, <1>6, Appended DEF Fits, Terms, Loops, ApprovedAtPost, Stage, Counts
<1> QED
  BY <1>1, <1>2, <1>3, <1>5, <1>7, Resolves

LEMMA FromRefusedPlanner ==
  ASSUME NEW family, NEW student, BuiltAs(family, student), phase = "running", RunStep,
         RefusedAtPlanner
  PROVE  RefusedAtAdmin' /\ UNCHANGED vars
<1>1. /\ Goes("human_admin_review", run.steps + 1, {"PLANNER:NO_SAFE_ROUTE->HUMAN_ADMIN_REVIEW"})
      /\ Keeps({"planned", "replans", "retries"}) /\ UNCHANGED vars
      /\ run'.planned
      /\ run'.replans = 1
      /\ run'.retries = (IF run.observation = "RETRYABLE" THEN 1 ELSE 0)
  BY NodeActs, PlannerGivesUp DEF RefusedAtPlanner, Answered, Acted, Stage, Counts
<1>2. run'.trace = Refused \cup {"PLANNER:NO_SAFE_ROUTE->HUMAN_ADMIN_REVIEW"} /\ FirstTaken'
  BY <1>1, TakenStays DEF Goes, RefusedAtPlanner, Answered, Acted, Stage, vars
<1>3. run'.matched = {}
  BY <1>1, <1>2, Unclinched DEF Goes, RefusedAtPlanner, Answered, Acted, LastTrace, Refused, Asked,
                                Vetted, Baseline
<1> QED
  BY <1>1, <1>2, <1>3 DEF Goes, Keeps, RunFields, RefusedAtPlanner, RefusedAtAdmin, Answered,
                          Acted, Stage, Unstopped, Counts

LEMMA FromRefusedAdmin ==
  ASSUME NEW family, NEW student, BuiltAs(family, student), phase = "running", RunStep,
         ApprovalIs("REJECTED"), RefusedAtAdmin
  PROVE  AtEnd' /\ UNCHANGED vars
<1>1. /\ HumanAdminReview /\ DOMAIN run = RunFields /\ run.effects = {} /\ run.matched = {}
      /\ Unstopped
  BY NodeActs DEF RefusedAtAdmin, Answered, Acted, Stage
<1>2. pkg.family = family /\ world.registered = {}
  BY BuiltRecords, FamiliesNeed DEF RefusedAtAdmin, Answered, Acted, FirstTaken, FirstDone, ApprovalIs
<1>3. PICK c : c = ContractFor(pkg)
  OBVIOUS
<1>4. /\ Terms(c, "ESCALATED", "REJECTED", "NONE", <<"VALID">>, <<>>)
      /\ Routes(c, RefusedRoute, RefusedBars) /\ Loops(c, 1, 0)
  BY <1>3, RefusedTerms, RefusedRoutes, BuiltLoops
<1>5. ~c.memory /\ pkg.outcome = "ESCALATED"
  BY <1>3, <1>4, BuiltFlags DEF Terms
<1> DEFINE ended == run.trace \cup {"HUMAN_ADMIN_REVIEW:HANDOFF_PREPARED->FINAL_RESPONSE"}
<1>6. /\ c.required \subseteq ended /\ c.forbidden \cap ended = {}
      /\ "VERIFIER_POST_ACTION:DONE->MEMORY_UPDATER" \notin run.trace
  BY <1>4 DEF Routes, RefusedAtAdmin, Answered, Acted, Stage, RefusedRoute, RefusedBars, Refused,
              Asked, Vetted, Baseline, Handoff, NeverTrace
<1>7. Fits(c, ended, run.pre, run.post)
  BY <1>4, <1>6 DEF Fits, Terms, Loops, RefusedAtAdmin, Answered, Acted, Stage, Counts
<1> QED
  BY <1>1, <1>2, <1>3, <1>5, <1>6, <1>7, HandsOver

-----------------------------------------------------------------------------
(* Runs that stop for somebody, and are resumed *)

\* After the checkpoint the run will be graded at.
Later(node, steps) ==
  /\ DOMAIN run = RunFields /\ run.node = node /\ run.steps = steps /\ Matched
  /\ run.resumed /\ run.outcome = pkg.outcome /\ run.effects = {}

\* The resumption passes the last transition the contract requires.
LEMMA Resumes ==
  ASSUME NEW family, NEW student, BuiltAs(family, student), NEW c, c = ContractFor(pkg),
         NEW node, NEW steps, NEW passed, NEW all, all = run.trace \cup passed,
         Goes(node, steps, passed), Keeps({"outcome", "resumed", "questions", "ready"}),
         UNCHANGED vars, run'.resumed, run'.outcome = pkg.outcome,
         run.matched = {}, run.effects = {},
         c.required \subseteq all, c.forbidden \cap all = {},
         c.pre = run.pre, c.post = run.post, c.impact # "NONE" => run.impact = c.impact,
         c.impact # "MATERIAL" => run.replans = c.replans /\ run.retries = c.retries,
         "VERIFIER_POST_ACTION:DONE->MEMORY_UPDATER" \notin all, ~c.memory
  PROVE  Later(node, steps)'
<1>1. /\ run'.trace = all /\ run'.pre = run.pre /\ run'.post = run.post
      /\ run'.impact = run.impact /\ run'.replans = run.replans /\ run'.retries = run.retries
      /\ run'.effects = {}
  BY DEF Goes, Keeps, RunFields
<1>2. Matches(c, run')
  BY <1>1 DEF Matches
<1>3. Right(c, run')
  BY <1>1 DEF Right
<1>4. Matched'
  BY <1>2, <1>3, Clinched DEF Goes, vars
<1> QED
  BY <1>1, <1>4 DEF Goes, Later, vars

\* Any step after it.
LEMMA GoesOn ==
  ASSUME NEW node, NEW steps, NEW passed, NEW from, NEW before, NEW changed,
         Later(from, before), Goes(node, steps, passed), Keeps(changed), UNCHANGED pkg,
         changed \cap {"resumed", "outcome"} = {}, run'.effects = {}
  PROVE  Later(node, steps)'
<1>1. Matched'
  BY StaysMatched DEF Later, Goes
<1> QED
  BY <1>1 DEF Goes, Keeps, RunFields, Later

\* A resumed run that stops with nothing done.
LEMMA StopsAgain ==
  ASSUME NEW family, NEW student, BuiltAs(family, student), NEW node, NEW steps,
         Later(node, steps)', UNCHANGED vars, run'.candidate = run.candidate,
         node \in {"clarification", "pause_checkpoint", "handoff"}, steps \in 0..10,
         run.effects = {}, world.registered = {},
         pkg.outcome \in {"CLARIFICATION_REQUIRED", "PENDING_APPROVAL"},
         run'.replans \in 0..1, run'.retries = 0, Impact(pkg) = "MATERIAL" => run'.replans = 1
  PROVE  AtEnd'
<1>1. /\ DOMAIN run' = RunFields /\ run'.node = node /\ run'.steps = steps /\ Matched'
      /\ run'.resumed /\ run'.outcome = pkg.outcome /\ run'.effects = {}
  BY DEF Later, vars
<1>2. ~Satisfied(ContractFor(pkg).predicate)'
  <2>1. ~Satisfied(ContractFor(pkg).predicate)
    BY Unsatisfied
  <2> QED
    BY <1>1, <2>1 DEF Satisfied, vars
<1>3. First' = pkg.outcome
  BY <1>1 DEF First
<1> QED
  BY <1>1, <1>2, <1>3 DEF AtEnd, OutcomeAt, vars

-----------------------------------------------------------------------------
(* An approval that does not come *)

WaitingAtHuman ==
  /\ Later("human_approval", 4) /\ Counts(0, 0) /\ run.requested /\ FirstTaken

LEMMA FromWaitingPause ==
  ASSUME NEW family, NEW student, BuiltAs(family, student), phase = "running", RunStep,
         ApprovalIs("PENDING"), WaitingAtPause
  PROVE  WaitingAtHuman' /\ UNCHANGED vars
<1>1. PICK c : c = ContractFor(pkg)
  OBVIOUS
<1>2. /\ Terms(c, "PENDING_APPROVAL", "PENDING", "NONE", <<"VALID">>, <<>>)
      /\ Routes(c, WaitingRoute, WaitingBars) /\ Loops(c, 0, 0)
  BY <1>1, WaitingTerms, WaitingRoutes, BuiltLoops
<1>3. pkg.outcome = "PENDING_APPROVAL" /\ ~c.memory
  BY <1>1, <1>2, BuiltFlags DEF Terms
<1>4. ObserveApproval /\ DOMAIN run = RunFields
  BY <1>3, NodeActs DEF WaitingAtPause, Answered, Acted, Stage, Unstopped, Grade, Answerable,
                        Stopped, OutcomeAt
<1> DEFINE observed == {"PAUSE_CHECKPOINT:APPROVAL_OBSERVED->HUMAN_APPROVAL"}
<1>5. /\ Goes("human_approval", run.steps, observed) /\ Keeps({"outcome", "resumed"})
      /\ run'.outcome = First /\ run'.resumed /\ UNCHANGED vars
  BY <1>4, PauseResumes
<1>6. /\ run.steps = 4 /\ run.pre = <<"VALID">> /\ run.post = <<>> /\ run.matched = {}
      /\ run.effects = {} /\ First = "PENDING_APPROVAL"
      /\ run.planned /\ run.replans = 0 /\ run.retries = 0
      /\ run.trace = Paused /\ run.requested
  BY DEF WaitingAtPause, Answered, Acted, Stage, Counts, First, Unstopped, OutcomeAt
<1>7. /\ c.required \subseteq run.trace \cup observed /\ c.forbidden \cap (run.trace \cup observed) = {}
      /\ "VERIFIER_POST_ACTION:DONE->MEMORY_UPDATER" \notin run.trace \cup observed
  BY <1>2, <1>6 DEF Routes, WaitingRoute, WaitingBars, Paused, Asked, Vetted, Baseline, NeverTrace
<1>8. Keeps({"outcome", "resumed", "questions", "ready"})
  BY <1>5 DEF Keeps
<1>9. Later("human_approval", 4)'
  <2> HIDE DEF observed
  <2>1. /\ c.pre = run.pre /\ c.post = run.post /\ c.impact = "NONE"
        /\ run.replans = c.replans /\ run.retries = c.retries
        /\ run'.outcome = pkg.outcome
    BY <1>2, <1>3, <1>5, <1>6 DEF Terms, Loops
  <2> QED
    BY <1>1, <1>3, <1>5, <1>6, <1>7, <1>8, <2>1, Resumes
<1>10. FirstTaken'
  BY <1>5, TakenStays DEF WaitingAtPause, Answered, Acted, vars
<1> QED
  BY <1>5, <1>6, <1>9, <1>10 DEF Keeps, RunFields, WaitingAtHuman, Counts

LEMMA FromWaitingHuman ==
  ASSUME NEW family, NEW student, BuiltAs(family, student), phase = "running", RunStep,
         ApprovalIs("PENDING"), WaitingAtHuman
  PROVE  AtEnd' /\ UNCHANGED vars
<1>1. HumanApproval /\ DOMAIN run = RunFields /\ run.requested
  BY NodeActs DEF WaitingAtHuman, Later
<1>2. /\ world.decision = "PENDING" /\ world.registered = {} /\ pkg.family = family
      /\ pkg.outcome = "PENDING_APPROVAL" /\ Impact(pkg) = "NONE"
  <2>1. pkg.family = family /\ family \in NeedsApproval /\ pkg.approval = "PENDING"
    BY BuiltRecords DEF ApprovalIs
  <2>2. world.decision = "PENDING" /\ world.registered = {}
    BY <2>1, FamiliesNeed DEF WaitingAtHuman, FirstTaken, FirstDone
  <2>3. pkg.outcome = "PENDING_APPROVAL"
    BY <2>1, BuiltOutcomes
  <2> QED
    BY <2>1, <2>2, <2>3 DEF Impact, Clarified
<1>3. /\ Goes("pause_checkpoint", run.steps + 1, {"HUMAN_APPROVAL:PENDING->PAUSE_CHECKPOINT"})
      /\ Keeps({"response"}) /\ UNCHANGED vars
  BY <1>1, <1>2, HumanWaitsAgain
<1>4. run.steps = 4 /\ run.replans = 0 /\ run.retries = 0 /\ run.effects = {}
  BY DEF WaitingAtHuman, Later, Counts
<1>5. Goes("pause_checkpoint", 5, {"HUMAN_APPROVAL:PENDING->PAUSE_CHECKPOINT"})
  BY <1>3, <1>4
<1>6. run'.replans = 0 /\ run'.retries = 0 /\ run'.effects = {}
  BY <1>3, <1>4 DEF Keeps, RunFields
<1>7. Later("pause_checkpoint", 5)'
  BY <1>3, <1>5, <1>6, GoesOn DEF WaitingAtHuman, vars
<1>8. run'.candidate = run.candidate /\ "pause_checkpoint" \in {"clarification",
                                                                "pause_checkpoint", "handoff"}
  BY <1>3 DEF Keeps, RunFields
<1>9. AtEnd'
  BY <1>2, <1>3, <1>4, <1>6, <1>7, <1>8, StopsAgain
<1> QED
  BY <1>3, <1>9

-----------------------------------------------------------------------------
(* A question whose answer changes the case *)

MaterialAtPlanner ==
  /\ Later("planner", 3) /\ Counts(0, 0) /\ Untried /\ Unasked /\ run.ready = pkg.ready
MaterialAtBuilder ==
  /\ Later("resolution_builder", 4) /\ Counts(1, 0) /\ Untried /\ run.ready = pkg.ready
MaterialAtVerifier ==
  /\ Later("verifier_pre_action", 4) /\ Counts(1, 0) /\ Untried /\ run.candidate # NoCandidate

LEMMA FromMaterialClarification ==
  ASSUME NEW family, NEW student, BuiltAs(family, student), phase = "running", RunStep,
         Material, AtClarification("MATERIAL")
  PROVE  MaterialAtPlanner' /\ UNCHANGED vars
<1>1. PICK c : c = ContractFor(pkg)
  OBVIOUS
<1>2. /\ Terms(c, "CLARIFICATION_REQUIRED", "NONE", "MATERIAL", <<"CLARIFY">>, <<>>)
      /\ Routes(c, MaterialRoute, MaterialBars)
  BY <1>1, MaterialTerms, MaterialRoutes
<1>3. pkg.outcome = "CLARIFICATION_REQUIRED" /\ ~c.memory
  BY <1>1, <1>2, BuiltFlags DEF Terms
<1>4. AnswerClarification /\ DOMAIN run = RunFields /\ run.impact = "MATERIAL"
  BY <1>3, NodeActs DEF AtClarification, Outset, Stage, Unstopped, Grade, Answerable, Clarified,
                        Stopped, OutcomeAt
<1> DEFINE answered == {"CLARIFICATION:MATERIAL_CHANGE->PLANNER"}
<1>5. /\ Goes("planner", run.steps + 1, answered) /\ Keeps({"outcome", "resumed", "questions"})
      /\ run'.outcome = First /\ run'.resumed /\ UNCHANGED vars
  BY <1>4, AnswerMaterial
<1>6. /\ run.steps = 2 /\ run.pre = <<"CLARIFY">> /\ run.post = <<>> /\ run.matched = {}
      /\ run.effects = {} /\ First = "CLARIFICATION_REQUIRED" /\ run.trace = Queried
  BY DEF AtClarification, Outset, Stage, First, Unstopped, Untried, OutcomeAt
<1>7. /\ c.required \subseteq run.trace \cup answered /\ c.forbidden \cap (run.trace \cup answered) = {}
      /\ "VERIFIER_POST_ACTION:DONE->MEMORY_UPDATER" \notin run.trace \cup answered
  BY <1>2, <1>6 DEF Routes, MaterialRoute, MaterialBars, Queried, Baseline, NeverTrace
<1>8. Goes("planner", 3, answered) /\ Keeps({"outcome", "resumed", "questions", "ready"})
  BY <1>5, <1>6 DEF Keeps
<1>9. Later("planner", 3)'
  <2> HIDE DEF answered
  <2>1. /\ c.pre = run.pre /\ c.post = run.post /\ c.impact = "MATERIAL"
        /\ run'.outcome = pkg.outcome
    BY <1>2, <1>3, <1>5, <1>6 DEF Terms
  <2> QED
    BY <1>1, <1>3, <1>4, <1>5, <1>6, <1>7, <1>8, <2>1, Resumes
<1> QED
  BY <1>5, <1>9 DEF Keeps, RunFields, AtClarification, Outset, MaterialAtPlanner, Counts, Untried,
                    Unasked, Told, vars

LEMMA FromMaterialPlanner ==
  ASSUME NEW family, NEW student, BuiltAs(family, student), phase = "running", RunStep,
         MaterialAtPlanner
  PROVE  MaterialAtBuilder' /\ UNCHANGED vars
<1>1. /\ Goes("resolution_builder", run.steps + 1, {}) /\ Keeps({"planned", "replans", "retries"})
      /\ run'.planned /\ run'.replans = 1 /\ run'.retries = 0 /\ UNCHANGED vars
  BY NodeActs, PlannerContinues DEF MaterialAtPlanner, Later, Counts, Untried, Unasked
<1>2. run.steps = 3 /\ run'.effects = {}
  BY <1>1 DEF MaterialAtPlanner, Later, Keeps, RunFields
<1>3. Goes("resolution_builder", 4, {})
  BY <1>1, <1>2
<1>4. Later("resolution_builder", 4)'
  BY <1>1, <1>2, <1>3, GoesOn DEF MaterialAtPlanner, vars
<1> QED
  BY <1>1, <1>4 DEF Keeps, RunFields, MaterialAtPlanner, MaterialAtBuilder, Counts, Untried, vars

LEMMA FromMaterialBuilder ==
  ASSUME NEW family, NEW student, BuiltAs(family, student), phase = "running", RunStep,
         MaterialAtBuilder
  PROVE  MaterialAtVerifier' /\ UNCHANGED vars
<1>1. CandidateFor(pkg) # NoCandidate
  BY FirstCandidate DEF MaterialAtBuilder, Untried, Apt, NoCandidate
<1>2. /\ Goes("verifier_pre_action", run.steps,
              {"RESOLUTION_BUILDER:CANDIDATES_BUILT->VERIFIER_PRE_ACTION"})
      /\ Keeps({"candidate"}) /\ run'.candidate = CandidateFor(pkg) /\ UNCHANGED vars
  BY <1>1, NodeActs, BuilderGoes DEF MaterialAtBuilder, Later
<1>3. run.steps = 4 /\ run'.effects = {}
  BY <1>2 DEF MaterialAtBuilder, Later, Keeps, RunFields
<1>4. Goes("verifier_pre_action", 4, {"RESOLUTION_BUILDER:CANDIDATES_BUILT->VERIFIER_PRE_ACTION"})
  BY <1>2, <1>3
<1>5. Later("verifier_pre_action", 4)'
  BY <1>2, <1>3, <1>4, GoesOn DEF MaterialAtBuilder, vars
<1> QED
  BY <1>1, <1>2, <1>5 DEF Keeps, RunFields, MaterialAtBuilder, MaterialAtVerifier, Counts, Untried,
                          vars

LEMMA FromMaterialVerifier ==
  ASSUME NEW family, NEW student, BuiltAs(family, student), phase = "running", RunStep,
         Material, MaterialAtVerifier
  PROVE  AtEnd' /\ UNCHANGED vars
<1>1. VerifierPreAction /\ DOMAIN run = RunFields /\ run.candidate # NoCandidate
  BY NodeActs DEF MaterialAtVerifier, Later
<1>2. Assessment = "CLARIFY_MATERIAL"
  <2>1. pkg.documents = TRUE
    BY BuiltRecords
  <2> QED
    BY <1>1, <2>1 DEF Assessment, Material
<1>3. /\ Goes("clarification", run.steps + 1, {"VERIFIER_PRE_ACTION:CLARIFY->CLARIFICATION"})
      /\ Keeps({"pre", "impact"}) /\ UNCHANGED vars
  BY <1>1, <1>2, PreActionMaterial
<1>4. run.steps = 4 /\ run.replans = 1 /\ run.retries = 0 /\ run.effects = {}
  BY DEF MaterialAtVerifier, Later, Counts
<1>5. Goes("clarification", 5, {"VERIFIER_PRE_ACTION:CLARIFY->CLARIFICATION"})
  BY <1>3, <1>4
<1>6. /\ run'.replans = 1 /\ run'.retries = 0 /\ run'.effects = {} /\ run'.candidate = run.candidate
  BY <1>3, <1>4 DEF Keeps, RunFields
<1>7. Later("clarification", 5)'
  BY <1>3, <1>5, <1>6, GoesOn DEF MaterialAtVerifier, vars
<1>8. world.registered = {} /\ pkg.outcome = "CLARIFICATION_REQUIRED"
  <2>1. world = FreshWorld(pkg)
    BY DEF MaterialAtVerifier, Untried
  <2>2. world.registered = {}
    BY <2>1 DEF FreshWorld
  <2>3. pkg.family = family
    BY BuiltRecords
  <2>4. pkg.outcome = "CLARIFICATION_REQUIRED"
    BY <2>3, BuiltOutcomes DEF Material
  <2> QED
    BY <2>2, <2>4
<1> QED
  BY <1>3, <1>4, <1>6, <1>7, <1>8, StopsAgain

-----------------------------------------------------------------------------
(* A question whose answer completes the case *)

IncompleteAtVerifier ==
  /\ Later("verifier_pre_action", 3) /\ Counts(0, 0) /\ Untried /\ Unasked
  /\ run.ready = "YES" /\ ~run.questions /\ Apt(run.candidate)
IncompleteAt(node, steps) ==
  Later(node, steps) /\ Counts(0, 0) /\ Untried /\ Unasked /\ Apt(run.candidate)
IncompleteAtGate == IncompleteAt("action_gate", 4)
IncompleteAtTransaction == IncompleteAt("transaction", 5)
AfterIncomplete(node, steps, replans) ==
  /\ Later(node, steps) /\ Counts(replans, 0) /\ FirstTaken /\ run.observation = "FINAL"
IncompleteAtPost == AfterIncomplete("verifier_post_action", 6, 0)
IncompleteAtPlanner == AfterIncomplete("planner", 7, 0)
IncompleteAtAdmin == AfterIncomplete("human_admin_review", 8, 1)

LEMMA FromIncompleteClarification ==
  ASSUME NEW family, NEW student, BuiltAs(family, student), phase = "running", RunStep,
         Incomplete, AtClarification("SMALL")
  PROVE  IncompleteAtVerifier' /\ UNCHANGED vars
<1>1. PICK c : c = ContractFor(pkg)
  OBVIOUS
<1>2. /\ Terms(c, "CLARIFICATION_REQUIRED", "NONE", "SMALL", <<"CLARIFY">>, <<>>)
      /\ Routes(c, IncompleteRoute, IncompleteBars) /\ Loops(c, 0, 0)
  BY <1>1, IncompleteTerms, IncompleteRoutes, BuiltLoops
<1>3. pkg.outcome = "CLARIFICATION_REQUIRED" /\ ~c.memory
  BY <1>1, <1>2, BuiltFlags DEF Terms
<1>4. AnswerClarification /\ DOMAIN run = RunFields /\ run.impact = "SMALL"
  BY <1>3, NodeActs DEF AtClarification, Outset, Stage, Unstopped, Grade, Answerable, Clarified,
                        Stopped, OutcomeAt
<1> DEFINE answered == {"CLARIFICATION:SMALL_CHANGE->VERIFIER_PRE_ACTION"}
<1>5. /\ Goes("verifier_pre_action", run.steps + 1, answered)
      /\ Keeps({"outcome", "resumed", "questions", "ready"})
      /\ run'.outcome = First /\ run'.resumed /\ ~run'.questions /\ run'.ready = "YES"
      /\ UNCHANGED vars
  BY <1>4, AnswerSmall
<1>6. /\ run.steps = 2 /\ run.pre = <<"CLARIFY">> /\ run.post = <<>> /\ run.matched = {}
      /\ run.effects = {} /\ First = "CLARIFICATION_REQUIRED" /\ run.trace = Queried
      /\ run.replans = 0 /\ run.retries = 0
  BY DEF AtClarification, Outset, Stage, First, Unstopped, Untried, Counts, OutcomeAt
<1>7. /\ c.required \subseteq run.trace \cup answered /\ c.forbidden \cap (run.trace \cup answered) = {}
      /\ "VERIFIER_POST_ACTION:DONE->MEMORY_UPDATER" \notin run.trace \cup answered
  BY <1>2, <1>6 DEF Routes, IncompleteRoute, IncompleteBars, Queried, Baseline, NeverTrace
<1>8. Goes("verifier_pre_action", 3, answered)
  BY <1>5, <1>6
<1>9. Later("verifier_pre_action", 3)'
  <2> HIDE DEF answered
  <2>1. /\ c.pre = run.pre /\ c.post = run.post /\ c.impact = "SMALL" /\ run.impact = c.impact
        /\ run.replans = c.replans /\ run.retries = c.retries /\ run'.outcome = pkg.outcome
    BY <1>2, <1>3, <1>4, <1>5, <1>6 DEF Terms, Loops
  <2> QED
    BY <1>1, <1>3, <1>5, <1>6, <1>7, <1>8, <2>1, Resumes
<1>10. Apt(run.candidate)'
  BY <1>5 DEF Keeps, RunFields, AtClarification, Apt, Expects, Direct, Incomplete, Withdrawn,
              Recovered, ApprovalIs, vars
<1> QED
  BY <1>5, <1>9, <1>10 DEF Keeps, RunFields, AtClarification, Outset, IncompleteAtVerifier, Counts,
                           Untried, Unasked, vars

LEMMA FromIncompleteVerifier ==
  ASSUME NEW family, NEW student, BuiltAs(family, student), phase = "running", RunStep,
         Incomplete, IncompleteAtVerifier
  PROVE  IncompleteAtGate' /\ UNCHANGED vars
<1>1. /\ VerifierPreAction /\ DOMAIN run = RunFields /\ run.candidate # NoCandidate
      /\ run.ready = "YES" /\ ~run.questions
  BY NodeActs DEF IncompleteAtVerifier, Later, Apt, NoCandidate
<1>2. Assessment = "VALID"
  <2>1. pkg.documents = TRUE
    BY BuiltRecords
  <2> QED
    BY <1>1, <2>1 DEF Assessment, Incomplete
<1>3. /\ Goes("action_gate", run.steps + 1, {"VERIFIER_PRE_ACTION:VALID->ACTION_GATE"})
      /\ Keeps({"pre"}) /\ UNCHANGED vars
  BY <1>1, <1>2, PreActionValid
<1>4. run.steps = 3 /\ run'.effects = {}
  BY <1>3 DEF IncompleteAtVerifier, Later, Keeps, RunFields
<1>5. Goes("action_gate", 4, {"VERIFIER_PRE_ACTION:VALID->ACTION_GATE"})
  BY <1>3, <1>4
<1>6. Later("action_gate", 4)'
  BY <1>3, <1>4, <1>5, GoesOn DEF IncompleteAtVerifier, vars
<1> QED
  BY <1>3, <1>6 DEF Keeps, RunFields, IncompleteAtVerifier, IncompleteAtGate, IncompleteAt, Counts,
                    Untried, Unasked, vars, Apt, Expects, Direct, Incomplete, Withdrawn, Recovered,
                    ApprovalIs

LEMMA FromIncompleteGate ==
  ASSUME NEW family, NEW student, BuiltAs(family, student), phase = "running", RunStep,
         Incomplete, IncompleteAtGate
  PROVE  IncompleteAtTransaction' /\ UNCHANGED vars
<1>1. ActionGate /\ DOMAIN run = RunFields /\ pkg.approval = "NONE"
  BY NodeActs, BuiltKindsOfRun, BuiltRecords, FamiliesNeed
     DEF IncompleteAtGate, IncompleteAt, Later, Incomplete
<1>2. /\ Goes("transaction", run.steps + 1, {"ACTION_GATE:NO_APPROVAL->TRANSACTION"})
      /\ Keeps({}) /\ UNCHANGED vars
  BY <1>1, GateOpens
<1>3. run.steps = 4 /\ run'.effects = {}
  BY <1>2 DEF IncompleteAtGate, IncompleteAt, Later, Keeps, RunFields
<1>4. Goes("transaction", 5, {"ACTION_GATE:NO_APPROVAL->TRANSACTION"})
  BY <1>2, <1>3
<1>5. Later("transaction", 5)'
  BY <1>2, <1>3, <1>4, GoesOn DEF IncompleteAtGate, IncompleteAt, vars
<1> QED
  BY <1>2, <1>5 DEF Keeps, RunFields, IncompleteAtGate, IncompleteAtTransaction, IncompleteAt, Counts,
                    Untried, Unasked, vars, Apt, Expects, Direct, Incomplete, Withdrawn, Recovered,
                    ApprovalIs

LEMMA FromIncompleteTransaction ==
  ASSUME NEW family, NEW student, BuiltAs(family, student), PackageInv, phase = "running", RunStep,
         Incomplete, IncompleteAtTransaction
  PROVE  IncompleteAtPost' /\ UNCHANGED <<pkg, edits, phase>>
<1>1. /\ Transaction /\ DOMAIN run = RunFields /\ world = FreshWorld(pkg) /\ Apt(run.candidate)
      /\ run.steps = 5 /\ run.effects = {}
  BY NodeActs DEF IncompleteAtTransaction, IncompleteAt, Later, Untried
<1>2. Expects(pkg.steps[1], run.candidate) /\ ~Direct /\ ~Recovered
  BY <1>1 DEF Apt, Incomplete, Direct, Recovered
<1>3. /\ Goes("verifier_post_action", run.steps + 1, ActingTrace)
      /\ Keeps({"observation", "attempted", "effects"})
      /\ run'.observation = "FINAL" /\ run'.effects = {}
      /\ FirstTaken' /\ UNCHANGED <<pkg, edits, phase>>
  BY <1>1, <1>2, FirstTransaction
<1>4. Goes("verifier_post_action", 6, ActingTrace)
  BY <1>1, <1>3
<1>5. Later("verifier_post_action", 6)'
  BY <1>3, <1>4, GoesOn DEF IncompleteAtTransaction, IncompleteAt
<1> QED
  BY <1>3, <1>5 DEF Keeps, RunFields, IncompleteAtTransaction, IncompleteAt, IncompleteAtPost,
                    AfterIncomplete, Counts

LEMMA IncompleteRegistersNothing ==
  ASSUME NEW family, NEW student, BuiltAs(family, student), Incomplete, FirstTaken
  PROVE  world.registered = {} /\ pkg.outcome = "CLARIFICATION_REQUIRED"
<1>1. pkg.family = family
  BY BuiltRecords
<1> QED
  BY <1>1, BuiltOutcomes, FamiliesNeed DEF FirstTaken, FirstDone, Incomplete

LEMMA FromIncompletePost ==
  ASSUME NEW family, NEW student, BuiltAs(family, student), phase = "running", RunStep,
         Incomplete, IncompleteAtPost
  PROVE  IncompleteAtPlanner' /\ UNCHANGED vars
<1>1. /\ VerifierPostAction /\ DOMAIN run = RunFields /\ ~GoalReached
      /\ run.steps = 6 /\ run.effects = {}
  BY NodeActs, IncompleteRegistersNothing, Unsatisfied DEF IncompleteAtPost, AfterIncomplete, Later
<1>2. /\ Goes("planner", run.steps + 1, {"VERIFIER_POST_ACTION:CONTINUE_FAILURE->PLANNER"})
      /\ Keeps({"post"}) /\ UNCHANGED vars
  BY <1>1, PostActionFails
<1>3. run'.effects = {} /\ FirstTaken'
  BY <1>1, <1>2, TakenStays DEF Keeps, RunFields, IncompleteAtPost, AfterIncomplete, vars
<1>4. Goes("planner", 7, {"VERIFIER_POST_ACTION:CONTINUE_FAILURE->PLANNER"})
  BY <1>1, <1>2
<1>5. Later("planner", 7)'
  BY <1>2, <1>3, <1>4, GoesOn DEF IncompleteAtPost, AfterIncomplete, vars
<1> QED
  BY <1>2, <1>3, <1>5 DEF Keeps, RunFields, IncompleteAtPost, IncompleteAtPlanner, AfterIncomplete,
                          Counts

LEMMA FromIncompletePlanner ==
  ASSUME NEW family, NEW student, BuiltAs(family, student), phase = "running", RunStep,
         Incomplete, IncompleteAtPlanner
  PROVE  IncompleteAtAdmin' /\ UNCHANGED vars
<1>1. Planner /\ DOMAIN run = RunFields /\ run.observation = "FINAL" /\ run.steps = 7
      /\ run.effects = {} /\ Counts(0, 0)
  BY NodeActs DEF IncompleteAtPlanner, AfterIncomplete, Later
<1>2. /\ Goes("human_admin_review", run.steps + 1, {"PLANNER:NO_SAFE_ROUTE->HUMAN_ADMIN_REVIEW"})
      /\ Keeps({"planned", "replans", "retries"})
      /\ run'.planned /\ run'.replans = 1 /\ run'.retries = 0 /\ UNCHANGED vars
  BY <1>1, PlannerGivesUp DEF Counts
<1>3. run'.effects = {} /\ run'.observation = "FINAL" /\ FirstTaken'
  BY <1>1, <1>2, TakenStays DEF Keeps, RunFields, IncompleteAtPlanner, AfterIncomplete, vars
<1>4. Goes("human_admin_review", 8, {"PLANNER:NO_SAFE_ROUTE->HUMAN_ADMIN_REVIEW"})
  BY <1>1, <1>2
<1>5. Later("human_admin_review", 8)'
  BY <1>2, <1>3, <1>4, GoesOn DEF IncompleteAtPlanner, AfterIncomplete, vars
<1> QED
  BY <1>2, <1>3, <1>5 DEF IncompleteAtAdmin, AfterIncomplete, Counts

LEMMA FromIncompleteAdmin ==
  ASSUME NEW family, NEW student, BuiltAs(family, student), phase = "running", RunStep,
         Incomplete, IncompleteAtAdmin
  PROVE  AtEnd' /\ UNCHANGED vars
<1>1. /\ HumanAdminReview /\ DOMAIN run = RunFields /\ run.steps = 8 /\ run.effects = {}
      /\ run.replans = 1 /\ run.retries = 0
  BY NodeActs DEF IncompleteAtAdmin, AfterIncomplete, Later, Counts
<1>2. /\ Goes("handoff", run.steps + 1, {"HUMAN_ADMIN_REVIEW:HANDOFF_PREPARED->FINAL_RESPONSE"})
      /\ Keeps({}) /\ UNCHANGED vars
  BY <1>1, AdminGoes
<1>3. Goes("handoff", 9, {"HUMAN_ADMIN_REVIEW:HANDOFF_PREPARED->FINAL_RESPONSE"})
  BY <1>1, <1>2
<1>4. /\ run'.replans = 1 /\ run'.retries = 0 /\ run'.effects = {} /\ run'.candidate = run.candidate
  BY <1>1, <1>2 DEF Keeps, RunFields
<1>5. Later("handoff", 9)'
  BY <1>2, <1>3, <1>4, GoesOn DEF IncompleteAtAdmin, AfterIncomplete, vars
<1>6. world.registered = {} /\ pkg.outcome = "CLARIFICATION_REQUIRED"
  BY IncompleteRegistersNothing DEF IncompleteAtAdmin, AfterIncomplete
<1> QED
  BY <1>1, <1>2, <1>4, <1>5, <1>6, StopsAgain

-----------------------------------------------------------------------------
(* The run of a built package *)

LEMMA KindsAsk ==
  ASSUME NEW family, NEW student, BuiltAs(family, student)
  PROVE  /\ Direct \/ Withdrawn \/ Recovered => pkg.approval = "NONE"
         /\ \A decision : ApprovalIs(decision) => pkg.approval # "NONE" /\ pkg.approval = decision
<1>1. pkg.family = family /\ (family \notin NeedsApproval => pkg.approval = "NONE")
  BY BuiltKindsOfRun
<1>2. pkg.approval # "NONE" <=> family \in NeedsApproval
  BY BuiltRecords
<1> QED
  BY <1>1, <1>2, FamiliesNeed DEF Direct, Withdrawn, Recovered, ApprovalIs

Beginning == AtIntake \/ AtPlanner \/ AtBuilder \/ AtVerifier

\* A run that does what it is asked to.
DirectCourse ==
  /\ Direct
  /\ AtGate \/ AtTransaction \/ DirectAtPost

\* A request refused for good.
WithdrawnCourse ==
  /\ Withdrawn
  /\ AtGate \/ AtTransaction \/ WithdrawnAtPost \/ WithdrawnAtPlanner \/ WithdrawnAtAdmin

\* A request that fails once and is made again for the other class.
RecoveredCourse ==
  /\ Recovered
  /\ AtGate \/ AtTransaction \/ RecoveredAtPost \/ RecoveredAtPlanner \/ RecoveredAtBuilder
     \/ RecoveredAtVerifier \/ RecoveredAtGate \/ RecoveredAtTransaction \/ RecoveredAtPostAgain

\* A question whose answer makes the run plan again.
MaterialCourse ==
  /\ Material
  /\ AtClarification("MATERIAL") \/ MaterialAtPlanner \/ MaterialAtBuilder \/ MaterialAtVerifier

\* A question whose answer lets the request be made; the office withdraws it.
IncompleteCourse ==
  /\ Incomplete
  /\ AtClarification("SMALL") \/ IncompleteAtVerifier \/ IncompleteAtGate \/ IncompleteAtTransaction
     \/ IncompleteAtPost \/ IncompleteAtPlanner \/ IncompleteAtAdmin

\* An approval given, refused, and still pending.
ApprovedCourse ==
  /\ ApprovalIs("APPROVED")
  /\ AtGate \/ AtHuman \/ ApprovedAtTransaction \/ ApprovedAtPost
RefusedCourse ==
  /\ ApprovalIs("REJECTED")
  /\ AtGate \/ AtHuman \/ RefusedAtPlanner \/ RefusedAtAdmin
WaitingCourse ==
  /\ ApprovalIs("PENDING")
  /\ AtGate \/ AtHuman \/ WaitingAtPause \/ WaitingAtHuman

OnCourse ==
  Beginning \/ DirectCourse \/ WithdrawnCourse \/ RecoveredCourse \/ MaterialCourse
  \/ IncompleteCourse \/ ApprovedCourse \/ RefusedCourse \/ WaitingCourse \/ AtEnd

LEMMA DirectCourseHolds ==
  ASSUME NEW family, NEW student, BuiltAs(family, student), PackageInv, phase = "running", RunStep,
         DirectCourse
  PROVE  (DirectCourse \/ AtEnd)' /\ UNCHANGED <<pkg, edits, phase>>
<1>0. UNCHANGED pkg => Direct'
  BY DEF DirectCourse, Direct
<1>1. CASE AtGate
  BY <1>0, <1>1, FromGate, KindsAsk DEF DirectCourse, vars
<1>2. CASE AtTransaction
  BY <1>0, <1>2, FromTransaction DEF DirectCourse, vars
<1>3. CASE DirectAtPost
  BY <1>0, <1>3, FromDirectPost DEF DirectCourse, vars
<1> QED
  BY <1>1, <1>2, <1>3 DEF DirectCourse

LEMMA WithdrawnCourseHolds ==
  ASSUME NEW family, NEW student, BuiltAs(family, student), PackageInv, phase = "running", RunStep,
         WithdrawnCourse
  PROVE  (WithdrawnCourse \/ AtEnd)' /\ UNCHANGED <<pkg, edits, phase>>
<1>0. UNCHANGED pkg => Withdrawn'
  BY DEF WithdrawnCourse, Withdrawn
<1>1. CASE AtGate
  BY <1>0, <1>1, FromGate, KindsAsk DEF WithdrawnCourse, vars
<1>2. CASE AtTransaction
  BY <1>0, <1>2, FromTransaction DEF WithdrawnCourse, vars
<1>3. CASE WithdrawnAtPost
  BY <1>0, <1>3, FromWithdrawnPost DEF WithdrawnCourse, vars
<1>4. CASE WithdrawnAtPlanner
  BY <1>0, <1>4, FromWithdrawnPlanner DEF WithdrawnCourse, vars
<1>5. CASE WithdrawnAtAdmin
  BY <1>0, <1>5, FromWithdrawnAdmin DEF WithdrawnCourse, vars
<1> QED
  BY <1>1, <1>2, <1>3, <1>4, <1>5 DEF WithdrawnCourse

LEMMA RecoveredCourseHolds ==
  ASSUME NEW family, NEW student, BuiltAs(family, student), PackageInv, phase = "running", RunStep,
         RecoveredCourse
  PROVE  (RecoveredCourse \/ AtEnd)' /\ UNCHANGED <<pkg, edits, phase>>
<1>0. UNCHANGED pkg => Recovered'
  BY DEF RecoveredCourse, Recovered
<1>1. CASE AtGate
  BY <1>0, <1>1, FromGate, KindsAsk DEF RecoveredCourse, vars
<1>2. CASE AtTransaction
  BY <1>0, <1>2, FromTransaction DEF RecoveredCourse, vars
<1>3. CASE RecoveredAtPost
  BY <1>0, <1>3, FromRecoveredPost DEF RecoveredCourse, vars
<1>4. CASE RecoveredAtPlanner
  BY <1>0, <1>4, FromRecoveredPlanner DEF RecoveredCourse, vars
<1>5. CASE RecoveredAtBuilder
  BY <1>0, <1>5, FromRecoveredBuilder DEF RecoveredCourse, vars
<1>6. CASE RecoveredAtVerifier
  BY <1>0, <1>6, FromRecoveredVerifier DEF RecoveredCourse, vars
<1>7. CASE RecoveredAtGate
  BY <1>0, <1>7, FromRecoveredGate DEF RecoveredCourse, vars
<1>8. CASE RecoveredAtTransaction
  BY <1>0, <1>8, FromRecoveredTransaction DEF RecoveredCourse, vars
<1>9. CASE RecoveredAtPostAgain
  BY <1>0, <1>9, FromRecoveredPostAgain DEF RecoveredCourse, vars
<1> QED
  BY <1>1, <1>2, <1>3, <1>4, <1>5, <1>6, <1>7, <1>8, <1>9 DEF RecoveredCourse

LEMMA MaterialCourseHolds ==
  ASSUME NEW family, NEW student, BuiltAs(family, student), PackageInv, phase = "running", RunStep,
         MaterialCourse
  PROVE  (MaterialCourse \/ AtEnd)' /\ UNCHANGED <<pkg, edits, phase>>
<1>0. UNCHANGED pkg => Material'
  BY DEF MaterialCourse, Material
<1>1. CASE AtClarification("MATERIAL")
  BY <1>0, <1>1, FromMaterialClarification DEF MaterialCourse, vars
<1>2. CASE MaterialAtPlanner
  BY <1>0, <1>2, FromMaterialPlanner DEF MaterialCourse, vars
<1>3. CASE MaterialAtBuilder
  BY <1>0, <1>3, FromMaterialBuilder DEF MaterialCourse, vars
<1>4. CASE MaterialAtVerifier
  BY <1>0, <1>4, FromMaterialVerifier DEF MaterialCourse, vars
<1> QED
  BY <1>1, <1>2, <1>3, <1>4 DEF MaterialCourse

LEMMA IncompleteCourseHolds ==
  ASSUME NEW family, NEW student, BuiltAs(family, student), PackageInv, phase = "running", RunStep,
         IncompleteCourse
  PROVE  (IncompleteCourse \/ AtEnd)' /\ UNCHANGED <<pkg, edits, phase>>
<1>0. UNCHANGED pkg => Incomplete'
  BY DEF IncompleteCourse, Incomplete
<1>1. CASE AtClarification("SMALL")
  BY <1>0, <1>1, FromIncompleteClarification DEF IncompleteCourse, vars
<1>2. CASE IncompleteAtVerifier
  BY <1>0, <1>2, FromIncompleteVerifier DEF IncompleteCourse, vars
<1>3. CASE IncompleteAtGate
  BY <1>0, <1>3, FromIncompleteGate DEF IncompleteCourse, vars
<1>4. CASE IncompleteAtTransaction
  BY <1>0, <1>4, FromIncompleteTransaction DEF IncompleteCourse, vars
<1>5. CASE IncompleteAtPost
  BY <1>0, <1>5, FromIncompletePost DEF IncompleteCourse, vars
<1>6. CASE IncompleteAtPlanner
  BY <1>0, <1>6, FromIncompletePlanner DEF IncompleteCourse, vars
<1>7. CASE IncompleteAtAdmin
  BY <1>0, <1>7, FromIncompleteAdmin DEF IncompleteCourse, vars
<1> QED
  BY <1>1, <1>2, <1>3, <1>4, <1>5, <1>6, <1>7 DEF IncompleteCourse

LEMMA ApprovedCourseHolds ==
  ASSUME NEW family, NEW student, BuiltAs(family, student), PackageInv, phase = "running", RunStep,
         ApprovedCourse
  PROVE  (ApprovedCourse \/ AtEnd)' /\ UNCHANGED <<pkg, edits, phase>>
<1>0. UNCHANGED pkg => ApprovalIs("APPROVED")'
  BY DEF ApprovedCourse, ApprovalIs
<1>1. CASE AtGate
  BY <1>0, <1>1, FromGate, KindsAsk DEF ApprovedCourse, vars
<1>2. CASE AtHuman
  BY <1>0, <1>2, FromHuman, KindsAsk DEF ApprovedCourse, ApprovalIs, vars
<1>3. CASE ApprovedAtTransaction
  BY <1>0, <1>3, FromApprovedTransaction DEF ApprovedCourse, vars
<1>4. CASE ApprovedAtPost
  BY <1>0, <1>4, FromApprovedPost DEF ApprovedCourse, vars
<1> QED
  BY <1>1, <1>2, <1>3, <1>4 DEF ApprovedCourse

LEMMA RefusedCourseHolds ==
  ASSUME NEW family, NEW student, BuiltAs(family, student), PackageInv, phase = "running", RunStep,
         RefusedCourse
  PROVE  (RefusedCourse \/ AtEnd)' /\ UNCHANGED <<pkg, edits, phase>>
<1>0. UNCHANGED pkg => ApprovalIs("REJECTED")'
  BY DEF RefusedCourse, ApprovalIs
<1>1. CASE AtGate
  BY <1>0, <1>1, FromGate, KindsAsk DEF RefusedCourse, vars
<1>2. CASE AtHuman
  BY <1>0, <1>2, FromHuman, KindsAsk DEF RefusedCourse, ApprovalIs, vars
<1>3. CASE RefusedAtPlanner
  BY <1>0, <1>3, FromRefusedPlanner DEF RefusedCourse, vars
<1>4. CASE RefusedAtAdmin
  BY <1>0, <1>4, FromRefusedAdmin DEF RefusedCourse, vars
<1> QED
  BY <1>1, <1>2, <1>3, <1>4 DEF RefusedCourse

LEMMA WaitingCourseHolds ==
  ASSUME NEW family, NEW student, BuiltAs(family, student), PackageInv, phase = "running", RunStep,
         WaitingCourse
  PROVE  (WaitingCourse \/ AtEnd)' /\ UNCHANGED <<pkg, edits, phase>>
<1>0. UNCHANGED pkg => ApprovalIs("PENDING")'
  BY DEF WaitingCourse, ApprovalIs
<1>1. CASE AtGate
  BY <1>0, <1>1, FromGate, KindsAsk DEF WaitingCourse, vars
<1>2. CASE AtHuman
  BY <1>0, <1>2, FromHuman, KindsAsk DEF WaitingCourse, ApprovalIs, vars
<1>3. CASE WaitingAtPause
  BY <1>0, <1>3, FromWaitingPause DEF WaitingCourse, vars
<1>4. CASE WaitingAtHuman
  BY <1>0, <1>4, FromWaitingHuman DEF WaitingCourse, vars
<1> QED
  BY <1>1, <1>2, <1>3, <1>4 DEF WaitingCourse

LEMMA BeginningHolds ==
  ASSUME NEW family, NEW student, BuiltAs(family, student), PackageInv, phase = "running", RunStep,
         Beginning
  PROVE  OnCourse' /\ UNCHANGED <<pkg, edits, phase>>
<1>1. CASE AtIntake
  BY <1>1, FromIntake DEF OnCourse, Beginning, vars
<1>2. CASE AtPlanner
  BY <1>2, FromPlanner DEF OnCourse, Beginning, vars
<1>3. CASE AtBuilder
  BY <1>3, FromBuilder DEF OnCourse, Beginning, vars
<1>4. CASE AtVerifier
  <2>1. /\ UNCHANGED vars
        /\ Material => AtClarification("MATERIAL")'
        /\ Incomplete => AtClarification("SMALL")'
        /\ ~(Material \/ Incomplete) => AtGate'
    BY <1>4, FromVerifier
  <2>2. UNCHANGED <<pkg, edits, phase>>
    BY <2>1 DEF vars
  <2>3. CASE Material
    <3>1. Material'
      BY <2>2, <2>3 DEF Material
    <3> QED
      BY <2>1, <2>2, <2>3, <3>1 DEF OnCourse, MaterialCourse
  <2>4. CASE Incomplete
    <3>1. Incomplete'
      BY <2>2, <2>4 DEF Incomplete
    <3> QED
      BY <2>1, <2>2, <2>4, <3>1 DEF OnCourse, IncompleteCourse
  <2>5. CASE ~(Material \/ Incomplete)
    <3>1. \/ Direct \/ Withdrawn \/ Recovered
          \/ ApprovalIs("APPROVED") \/ ApprovalIs("REJECTED") \/ ApprovalIs("PENDING")
      BY <2>5, BuiltKindsOfRun
    <3>2. /\ Direct => Direct'
          /\ Withdrawn => Withdrawn'
          /\ Recovered => Recovered'
          /\ ApprovalIs("APPROVED") => ApprovalIs("APPROVED")'
          /\ ApprovalIs("REJECTED") => ApprovalIs("REJECTED")'
          /\ ApprovalIs("PENDING") => ApprovalIs("PENDING")'
      BY <2>2 DEF Direct, Withdrawn, Recovered, ApprovalIs
    <3> QED
      BY <2>1, <2>2, <2>5, <3>1, <3>2
         DEF OnCourse, DirectCourse, WithdrawnCourse, RecoveredCourse, ApprovedCourse, RefusedCourse,
             WaitingCourse
  <2> QED
    BY <2>3, <2>4, <2>5
<1> QED
  BY <1>1, <1>2, <1>3, <1>4 DEF Beginning

\* Every step of a run leads along the course of its package, or to a good mark.
LEMMA RunProceeds ==
  ASSUME CapsSuffice, NEW family, NEW student, BuiltAs(family, student), PackageInv,
         phase = "running", RunStep, OnCourse
  PROVE  \/ phase' = "running" /\ OnCourse'
         \/ phase' = "graded" /\ Violations' = {}
<1>1. CASE AtEnd
  BY <1>1, FromEnd
<1>2. CASE Beginning
  BY <1>2, BeginningHolds
<1>3. CASE DirectCourse
  BY <1>3, DirectCourseHolds DEF OnCourse
<1>4. CASE WithdrawnCourse
  BY <1>4, WithdrawnCourseHolds DEF OnCourse
<1>5. CASE RecoveredCourse
  BY <1>5, RecoveredCourseHolds DEF OnCourse
<1>6. CASE MaterialCourse
  BY <1>6, MaterialCourseHolds DEF OnCourse
<1>7. CASE IncompleteCourse
  BY <1>7, IncompleteCourseHolds DEF OnCourse
<1>8. CASE ApprovedCourse
  BY <1>8, ApprovedCourseHolds DEF OnCourse
<1>9. CASE RefusedCourse
  BY <1>9, RefusedCourseHolds DEF OnCourse
<1>10. CASE WaitingCourse
  BY <1>10, WaitingCourseHolds DEF OnCourse
<1> QED
  BY <1>1, <1>2, <1>3, <1>4, <1>5, <1>6, <1>7, <1>8, <1>9, <1>10 DEF OnCourse

\* What is known of a run, as it goes.
RunInv ==
  edits = 0 => /\ phase \notin {"running", "graded"} => run = FreshRun
               /\ phase = "running" => OnCourse
               /\ phase = "graded" => Violations = {}

LEMMA RunInit == CampaignInit => RunInv
BY DEF CampaignInit, Init, RunInv

LEMMA RunStarts ==
  ASSUME run = FreshRun, StartRun
  PROVE  OnCourse'
<1>1. /\ run' = [FreshRun EXCEPT !.node = "intake"] /\ world = FreshWorld(pkg)
      /\ UNCHANGED <<pkg, world>>
  BY DEF StartRun
<1>2. /\ DOMAIN run' = RunFields /\ run'.node = "intake" /\ run'.steps = 0 /\ run'.trace = {}
      /\ run'.pre = <<>> /\ run'.post = <<>> /\ run'.matched = {} /\ run'.observation = "NONE"
      /\ run'.attempted = {} /\ run'.effects = {} /\ ~run'.requested /\ run'.response = "NONE"
      /\ run'.outcome = "NONE" /\ ~run'.resumed /\ ~run'.planned /\ run'.replans = 0
      /\ run'.retries = 0
  BY <1>1 DEF FreshRun, RunFields
<1>3. AtIntake'
  BY <1>1, <1>2 DEF AtIntake, Outset, Stage, Untried, Unasked, Unstopped
<1> QED
  BY <1>3 DEF OnCourse, Beginning

LEMMA CourseStays ==
  ASSUME UNCHANGED campaignVars, OnCourse
  PROVE  OnCourse'
<1>1. UNCHANGED <<pkg, run, world>>
  BY DEF campaignVars, vars
<1>2. /\ (Direct' <=> Direct) /\ (Withdrawn' <=> Withdrawn) /\ (Recovered' <=> Recovered)
      /\ (Material' <=> Material) /\ (Incomplete' <=> Incomplete)
      /\ \A decision \in Decisions : ApprovalIs(decision)' <=> ApprovalIs(decision)
  BY <1>1 DEF Direct, Withdrawn, Recovered, Material, Incomplete, ApprovalIs
<1>3. "APPROVED" \in Decisions /\ "REJECTED" \in Decisions /\ "PENDING" \in Decisions
  BY DEF Decisions
<1>4. Apt(run.candidate)' <=> Apt(run.candidate)
  BY <1>1, <1>2, <1>3 DEF Apt
<1>5. /\ (Untried' <=> Untried) /\ (Unasked' <=> Unasked) /\ (Unstopped' <=> Unstopped)
      /\ (Told' <=> Told) /\ (Matched' <=> Matched)
  BY <1>1 DEF Untried, Unasked, Unstopped, Told, Matched
<1>6. (FirstTaken => FirstTaken') /\ (SecondTaken => SecondTaken')
  BY <1>1, TakenStays
<1>7. Beginning => Beginning'
  BY <1>1, <1>2, <1>3, <1>4, <1>5, <1>6
     DEF Beginning, AtIntake, AtPlanner, AtBuilder, AtVerifier, Outset, Stage, Counts
<1>8. DirectCourse => DirectCourse'
  BY <1>1, <1>2, <1>3, <1>4, <1>5, <1>6
     DEF DirectCourse, AtGate, AtTransaction, DirectAtPost, Outset, Stage, Counts, Acted
<1>9. WithdrawnCourse => WithdrawnCourse'
  BY <1>1, <1>2, <1>3, <1>4, <1>5, <1>6
     DEF WithdrawnCourse, AtGate, AtTransaction, WithdrawnAtPost, WithdrawnAtPlanner,
         WithdrawnAtAdmin, Withdrawing, Outset, Stage, Counts, Acted
<1>10. RecoveredCourse => RecoveredCourse'
  BY <1>1, <1>2, <1>3, <1>4, <1>5, <1>6
     DEF RecoveredCourse, AtGate, AtTransaction, RecoveredAtPost, RecoveredAtPlanner,
         RecoveredAtBuilder, RecoveredAtVerifier, RecoveredAtGate, RecoveredAtTransaction,
         RecoveredAtPostAgain, Recovering, Outset, Stage, Counts, Acted
<1>11. MaterialCourse => MaterialCourse'
  BY <1>1, <1>2, <1>3, <1>4, <1>5, <1>6
     DEF MaterialCourse, AtClarification, MaterialAtPlanner, MaterialAtBuilder, MaterialAtVerifier,
         Outset, Stage, Counts, Later
<1>12. IncompleteCourse => IncompleteCourse'
  BY <1>1, <1>2, <1>3, <1>4, <1>5, <1>6
     DEF IncompleteCourse, AtClarification, IncompleteAt, AfterIncomplete, IncompleteAtVerifier,
         IncompleteAtGate, IncompleteAtTransaction, IncompleteAtPost, IncompleteAtPlanner,
         IncompleteAtAdmin, Outset, Stage, Counts, Later
<1>13. ApprovedCourse => ApprovedCourse'
  BY <1>1, <1>2, <1>3, <1>4, <1>5, <1>6
     DEF ApprovedCourse, AtGate, AtHuman, ApprovedAtTransaction, ApprovedAtPost, Outset, Stage,
         Counts, Acted, Answered
<1>14. RefusedCourse => RefusedCourse'
  BY <1>1, <1>2, <1>3, <1>4, <1>5, <1>6
     DEF RefusedCourse, AtGate, AtHuman, RefusedAtPlanner, RefusedAtAdmin, Outset, Stage, Counts,
         Acted, Answered
<1>15. WaitingCourse => WaitingCourse'
  BY <1>1, <1>2, <1>3, <1>4, <1>5, <1>6
     DEF WaitingCourse, AtGate, AtHuman, WaitingAtPause, WaitingAtHuman, Outset, Stage, Counts,
         Acted, Answered, Later
<1>16. AtEnd => AtEnd'
  BY <1>1, <1>5 DEF AtEnd, First, Satisfied
<1> QED
  BY <1>7, <1>8, <1>9, <1>10, <1>11, <1>12, <1>13, <1>14, <1>15, <1>16 DEF OnCourse

LEMMA RunInvStep ==
  ASSUME CapsSuffice, PackageInv, VerdictInv, RunInv, [CampaignNext]_campaignVars
  PROVE  RunInv'
<1>1. CASE Edit
  <2>1. edits' = edits + 1 /\ edits \in Nat
    BY <1>1 DEF Edit, VerdictInv, Frozen
  <2>2. edits' # 0
    BY <2>1
  <2> QED
    BY <2>2 DEF RunInv
<1>2. CASE RunStep
  <2>1. UNCHANGED edits
    BY <1>2, RunMoves
  <2> SUFFICES ASSUME edits = 0 PROVE RunInv'
    BY <2>1 DEF RunInv
  <2>2. PICK family \in AllFamilies : \E student \in Students(family) : BuiltAs(family, student)
    BY FrozenAsBuilt DEF VerdictInv
  <2>3. PICK student \in Students(family) : BuiltAs(family, student)
    BY <2>2
  <2>4. CASE StartRun
    <3>1. phase = "accepted" /\ phase' = "running"
      BY <2>4 DEF StartRun
    <3>2. run = FreshRun
      BY <3>1 DEF RunInv
    <3> QED
      BY <2>4, <3>1, <3>2, RunStarts DEF RunInv
  <2>5. CASE ~StartRun
    <3>1. phase = "running"
      BY <1>2, <2>5 DEF RunStep, Intake, Planner, ResolutionBuilder, VerifierPreAction, ActionGate,
                        HumanApproval, Transaction, VerifierPostAction, HumanAdminReview,
                        AnswerClarification, ObserveApproval, Grade, Running, Answerable, Stopped
    <3>2. OnCourse
      BY <3>1 DEF RunInv
    <3> QED
      BY <1>2, <2>3, <3>1, <3>2, RunProceeds DEF RunInv
  <2> QED
    BY <2>4, <2>5
<1>3. CASE PackageStep /\ ~Edit
  <2>1. /\ UNCHANGED <<run, edits>> /\ phase \notin {"running", "graded"}
        /\ phase' \notin {"running", "graded"}
    BY <1>3 DEF PackageStep, Next, Validate, Replay
  <2> QED
    BY <2>1 DEF RunInv
<1>4. CASE UNCHANGED campaignVars
  <2>1. UNCHANGED <<pkg, run, world, phase, edits>>
    BY <1>4 DEF campaignVars, vars
  <2>2. Violations' = Violations
    BY <2>1 DEF Violations, Flags, Satisfied
  <2> QED
    BY <1>4, <2>1, <2>2, CourseStays DEF RunInv
<1> QED
  BY <1>1, <1>2, <1>3, <1>4 DEF CampaignNext

LEMMA RunInvHolds ==
  ASSUME CapsSuffice
  PROVE  CampaignSpec => []RunInv
<1>1. PackageInv /\ VerdictInv /\ RunInv /\ [CampaignNext]_campaignVars => RunInv'
  BY RunInvStep
<1> QED
  BY <1>1, RunInit, PackageInvHolds, VerdictInvHolds, PTL DEF CampaignSpec

\* The campaign passes on everything that is built: the script replays to the outcome it
\* hides, the contract loads, and the agent, which knows neither, takes the route the
\* contract asks for, stops where it says, and leaves the session as it says (_run_one and
\* _evaluate_run, evaluation/campaign.py).
THEOREM BuiltRunsAlwaysMeetContracts ==
  ASSUME CapsSuffice
  PROVE  CampaignSpec => []BuiltRunsMeetContracts
<1>1. ReplayInv /\ RunInv /\ (edits = 0 => Contractable(pkg) /\ ContractValid(ContractFor(pkg)))
        => BuiltRunsMeetContracts
  BY DEF ReplayInv, ReplaysAsExpected, RunInv, BuiltRunsMeetContracts
<1> QED
  BY <1>1, ReplayInvHolds, RunInvHolds, BuiltContractsLoad, PTL

=============================================================================
