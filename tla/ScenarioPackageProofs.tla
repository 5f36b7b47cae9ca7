------------------------ MODULE ScenarioPackageProofs ------------------------
(***************************************************************************)
(* What the validator's verdict on a package means for the sessions built   *)
(* of it, for any number of edits and any caps of a run: whoever performs   *)
(* the steps of an accepted script, the replay or the agent, registers only *)
(* what the rules allow, and meets the versions the validator predicted.    *)
(*                                                                         *)
(* The argument is carried by the cursor: the session has performed the     *)
(* steps before it (SessionShape, VersionsAsPredicted), each of a package   *)
(* the validator has judged as a whole (Judged).                           *)
(***************************************************************************)
EXTENDS ContractCampaign, FiniteSetTheorems, SequenceTheorems, TLAPS

WorldFields == {"cursor", "decision", "seen", "version", "seats", "open", "case", "registered"}

IsScript(steps) == steps \in Seq({steps[i] : i \in DOMAIN steps})

PackageShape(p) ==
  /\ {"steps", "linked"} \subseteq DOMAIN p
  /\ p.linked \subseteq States
  /\ IsScript(p.steps)

SessionShape ==
  /\ DOMAIN world = WorldFields
  /\ world.cursor \in 1..(Len(pkg.steps) + 1)
  /\ DOMAIN world.version = Targets
  /\ world.open \subseteq pkg.linked

\* Before the verdict nothing has happened; whatever goes on after it was accepted.
Judged ==
  IF phase \in {"draft", "refused"} THEN world = FreshWorld(pkg) ELSE Accepted(pkg)

PackageInv ==
  PackageShape(pkg) /\ SessionShape /\ Judged /\ RegistrationsAreFeasible /\ VersionsAsPredicted

-----------------------------------------------------------------------------
(* Scripts and packages *)

LEMMA ScriptLength ==
  ASSUME NEW steps, IsScript(steps)
  PROVE  Len(steps) \in Nat /\ DOMAIN steps = 1..Len(steps)
BY DEF IsScript

\* A sequence of anything is a sequence of its elements.
LEMMA SequencesAreScripts ==
  ASSUME NEW S, NEW steps \in Seq(S)
  PROVE  IsScript(steps)
BY DEF IsScript

LEMMA BuiltScripts ==
  ASSUME NEW family \in {"S1", "S2", "S3", "S4", "S5", "S6", "S7"}, NEW position, NEW unresolvable
  PROVE  IsScript(BuiltSteps(family, position, unresolvable))
<1> DEFINE event == BuiltEvent(family, position)
           request == Hit("REQUEST_APPROVAL", {"approval"}, event, FALSE)
           register == Step("SUBMIT_REGISTRATION", {"alt"}, "SUCCESS", Bound("alt", 1))
<1> HIDE DEF event, request, register
<1>1. CASE family \in NeedsApproval
  <2>1. BuiltSteps(family, position, unresolvable)
          = <<request>> \o (IF event.type = "APPROVAL_GRANTED" THEN <<ApprovedFollowUp(family)>> ELSE <<>>)
    BY <1>1 DEF BuiltSteps, event, request, NeedsApproval
  <2>2. PICK S : request \in S /\ ApprovedFollowUp(family) \in S
    <3>1. request \in {request, ApprovedFollowUp(family)} /\
          ApprovedFollowUp(family) \in {request, ApprovedFollowUp(family)}
      OBVIOUS
    <3> QED
      BY <3>1
  <2>3. BuiltSteps(family, position, unresolvable) \in Seq(S)
    BY <2>1, <2>2
  <2> QED
    BY <2>3, SequencesAreScripts
<1>2. CASE family = "S7"
  <2>1. BuiltSteps(family, position, unresolvable)
          = <<Hit("SUBMIT_REGISTRATION", {"pref"}, event, TRUE), [register EXCEPT !.retry = TRUE]>>
    BY <1>2 DEF BuiltSteps, event, register, NeedsApproval
  <2>2. \A x, y : IsScript(<<x, y>>)
    BY DEF IsScript
  <2> QED
    BY <2>1, <2>2
<1>3. CASE family \in {"S1", "S3", "S6"}
  <2>1. \E step : BuiltSteps(family, position, unresolvable) = <<step>>
    BY <1>3 DEF BuiltSteps, NeedsApproval
  <2>2. \A x : IsScript(<<x>>)
    BY DEF IsScript
  <2> QED
    BY <2>1, <2>2
<1> QED
  BY <1>1, <1>2, <1>3 DEF NeedsApproval

LEMMA EditedScriptsAreScripts ==
  ASSUME NEW steps, IsScript(steps), NEW new \in EditedScripts(steps), new # <<>>
  PROVE  IsScript(new)
<1> DEFINE S == {steps[i] : i \in DOMAIN steps}
<1>1. steps \in Seq(S) /\ Len(steps) \in Nat /\ DOMAIN steps = 1..Len(steps)
  BY DEF IsScript
<1>2. CASE \E i \in DOMAIN steps : \E step : new = [steps EXCEPT ![i] = step]
  <2>1. PICK i \in DOMAIN steps : \E step : new = [steps EXCEPT ![i] = step]
    BY <1>2
  <2>2. PICK step : new = [steps EXCEPT ![i] = step]
    BY <2>1
  <2>3. new \in Seq(S \cup {step})
    BY <1>1, <2>2
  <2> QED
    BY <2>3, SequencesAreScripts
<1>3. CASE new = SubSeq(steps, 1, Len(steps) - 1)
  <2>1. new \in Seq(S)
    BY <1>1, <1>3
  <2> QED
    BY <2>1, SequencesAreScripts
<1>4. CASE new = Append(steps, steps[Len(steps)])
  <2>1. new \in Seq(S \cup {steps[Len(steps)]})
    BY <1>1, <1>4
  <2> QED
    BY <2>1, SequencesAreScripts
<1>5. CASE new = Tail(steps)
  <2>1. CASE steps # <<>>
    <3>1. new \in Seq(S)
      BY <1>1, <1>5, <2>1
    <3> QED
      BY <3>1, SequencesAreScripts
  <2>2. CASE steps = <<>>
    BY <1>5, <2>2
  <2> QED
    BY <2>1, <2>2
<1>6. CASE new = [i \in DOMAIN steps |-> steps[Len(steps) + 1 - i]]
  <2>1. \A i \in 1..Len(steps) : steps[Len(steps) + 1 - i] \in S
    BY <1>1
  <2>2. new \in [1..Len(steps) -> S]
    BY <1>1, <1>6, <2>1
  <2>3. new \in Seq(S)
    BY <1>1, <2>2, SeqDef
  <2> QED
    BY <2>3, SequencesAreScripts
<1> QED
  BY <1>2, <1>3, <1>4, <1>5, <1>6 DEF EditedScripts

-----------------------------------------------------------------------------
(* The version the validator predicts *)

\* The writers of a target before a step, and its version there.
WritersBefore(i, t) == {j \in DOMAIN pkg.steps : j < i /\ pkg.steps[j].mutation.target = t}
VersionBefore(i, t) ==
  IF WritersBefore(i, t) = {} THEN 1
  ELSE pkg.steps[Latest(WritersBefore(i, t))].mutation.from + 1

LEMMA PredictedVersion ==
  ASSUME PackageShape(pkg), NEW i \in 1..(Len(pkg.steps) + 1), NEW t \in Targets
  PROVE  Predicted(pkg)[i][t] = VersionBefore(i, t)
BY DEF Predicted, VersionBefore, WritersBefore

\* A step that does not write a target leaves its prediction alone.
LEMMA OthersKeepVersion ==
  ASSUME PackageShape(pkg), NEW i \in DOMAIN pkg.steps, NEW t \in Targets,
         pkg.steps[i].mutation.target # t
  PROVE  VersionBefore(i + 1, t) = VersionBefore(i, t)
<1>1. DOMAIN pkg.steps = 1..Len(pkg.steps) /\ Len(pkg.steps) \in Nat
  BY ScriptLength DEF PackageShape
<1>2. WritersBefore(i + 1, t) = WritersBefore(i, t)
  BY <1>1 DEF WritersBefore
<1> QED
  BY <1>2 DEF VersionBefore

\* The version after a step that writes a target is the one it leaves.
LEMMA WriterSetsVersion ==
  ASSUME PackageShape(pkg), NEW i \in DOMAIN pkg.steps, NEW t \in Targets,
         pkg.steps[i].mutation.target = t
  PROVE  VersionBefore(i + 1, t) = pkg.steps[i].mutation.from + 1
<1>1. DOMAIN pkg.steps = 1..Len(pkg.steps) /\ Len(pkg.steps) \in Nat
  BY ScriptLength DEF PackageShape
<1>2. i \in WritersBefore(i + 1, t) /\ \A k \in WritersBefore(i + 1, t) : k <= i
  BY <1>1 DEF WritersBefore
<1>3. Latest(WritersBefore(i + 1, t)) = i
  <2>1. \A j \in WritersBefore(i + 1, t) :
          (\A k \in WritersBefore(i + 1, t) : k <= j) <=> j = i
    BY <1>1, <1>2 DEF WritersBefore
  <2> QED
    BY <1>2, <2>1 DEF Latest
<1> QED
  BY <1>2, <1>3 DEF VersionBefore

-----------------------------------------------------------------------------
(* Building and editing *)

LEMMA BuiltPackageShape ==
  ASSUME NEW family \in Families, NEW p \in BuiltPackages(family)
  PROVE  PackageShape(p)
<1>1. PICK student : p = BuiltPackage(family, student)
  BY Zenon DEF BuiltPackages
<1>2. /\ p.steps = BuiltSteps(family, student.position, student.unresolvable)
      /\ p.linked = IF family \in NeedsStatePair THEN States ELSE {"pref"}
      /\ {"steps", "linked"} \subseteq DOMAIN p
  BY <1>1 DEF BuiltPackage
<1>3. IsScript(p.steps)
  BY <1>2, BuiltScripts, ScenarioPackageAssumption
<1> QED
  BY <1>2, <1>3 DEF PackageShape, States

LEMMA EditedPackageShape ==
  ASSUME NEW p, PackageShape(p), NEW new \in Edited(p)
  PROVE  PackageShape(new)
<1>1. CASE \E steps \in EditedScripts(p.steps) \ {<<>>} : new = [p EXCEPT !.steps = steps]
  BY <1>1, EditedScriptsAreScripts DEF PackageShape
<1>2. CASE new \in EditedRecords(p)
  BY <1>2 DEF EditedRecords, PackageShape
<1>3. CASE new \in EditedScenario(p)
  BY <1>3 DEF EditedScenario, PackageShape
<1>4. CASE new \in EditedIntake(p)
  <2>1. PICK intake : new = [p EXCEPT !.ready = intake[1], !.questions = intake[2]]
    BY <1>4, Zenon DEF EditedIntake
  <2> QED
    BY <2>1 DEF PackageShape
<1>5. CASE new \in EditedFacts(p)
  <2>1. PICK fact \in Facts : \E value : new = [p EXCEPT ![fact] = value]
    BY <1>5, Zenon DEF EditedFacts
  <2> QED
    BY <2>1 DEF PackageShape, Facts
<1> QED
  BY <1>1, <1>2, <1>3, <1>4, <1>5 DEF Edited

-----------------------------------------------------------------------------
(* A step performed on the session *)

LEMMA MutatedSession ==
  ASSUME SessionShape, NEW written, NEW after, after = Mutated(written)
  PROVE  /\ DOMAIN after = WorldFields /\ DOMAIN after.version = Targets
         /\ after.cursor = world.cursor /\ after.registered = world.registered
         /\ after.open \subseteq world.open
         /\ \A t \in Targets : after.version[t] = IF t = written.target THEN world.version[t] + 1
                                                  ELSE world.version[t]
<1> QED
  BY DEF SessionShape, WorldFields, Mutated, Targets, States

LEMMA MutatedVersions ==
  ASSUME SessionShape, NEW written, NEW t \in Targets
  PROVE  Mutated(written).version[t] = IF t = written.target THEN world.version[t] + 1
                                       ELSE world.version[t]
<1>1. ASSUME NEW after, after = Mutated(written)
      PROVE  after.version[t] = IF t = written.target THEN world.version[t] + 1
                                ELSE world.version[t]
  BY <1>1, MutatedSession
<1> QED
  BY <1>1

LEMMA StepKeepsShape ==
  ASSUME SessionShape, PackageShape(pkg), world.cursor \in DOMAIN pkg.steps,
         NEW step, world' = Applied(step, Mutated(step.mutation)), UNCHANGED pkg
  PROVE  /\ SessionShape'
         /\ world'.cursor = world.cursor + 1
         /\ world'.registered
              = IF Registers(step) THEN world.registered \cup {step.state} ELSE world.registered
         /\ ~Registers(step) =>
              \A t \in Targets : world'.version[t] = Mutated(step.mutation).version[t]
<1> DEFINE after == Mutated(step.mutation)
<1>1. /\ DOMAIN after = WorldFields /\ DOMAIN after.version = Targets
      /\ after.cursor = world.cursor /\ after.registered = world.registered
      /\ after.open \subseteq world.open
  BY MutatedSession
<1>2. DOMAIN pkg.steps = 1..Len(pkg.steps) /\ Len(pkg.steps) \in Nat
  BY ScriptLength DEF PackageShape
<1> HIDE DEF after
<1>3. /\ DOMAIN world' = WorldFields
      /\ world'.cursor = world.cursor + 1
      /\ DOMAIN world'.version = Targets
      /\ world'.open = after.open
      /\ world'.registered
           = IF Registers(step) THEN world.registered \cup {step.state} ELSE world.registered
      /\ ~Registers(step) => \A t \in Targets : world'.version[t] = after.version[t]
  BY <1>1 DEF Applied, WorldFields, after
<1>4. world.cursor + 1 \in 1..(Len(pkg.steps) + 1)
  BY <1>2
<1> QED
  BY <1>1, <1>3, <1>4 DEF SessionShape, after

LEMMA StepPerformed ==
  ASSUME PackageInv, Accepted(pkg), UNCHANGED pkg, NEW i \in DOMAIN pkg.steps, i = world.cursor,
         Executable(pkg, pkg.steps[i]),
         world' = Applied(pkg.steps[i], Mutated(pkg.steps[i].mutation))
  PROVE  SessionShape' /\ RegistrationsAreFeasible' /\ VersionsAsPredicted'
<1> DEFINE step == pkg.steps[i]
<1>0. PackageShape(pkg) /\ SessionShape /\ RegistrationsAreFeasible /\ VersionsAsPredicted
  BY DEF PackageInv
<1>1. /\ SessionShape'
      /\ world'.cursor = i + 1
      /\ world'.registered
           = IF Registers(step) THEN world.registered \cup {step.state} ELSE world.registered
      /\ ~Registers(step) =>
           \A t \in Targets : world'.version[t] = Mutated(step.mutation).version[t]
  BY <1>0, StepKeepsShape
<1>2. RegistrationsAreFeasible'
  <2>1. CASE ~Registers(step)
    BY <1>0, <1>1, <2>1 DEF RegistrationsAreFeasible
  <2>2. CASE Registers(step)
    <3>1. step.state \in Mutated(step.mutation).open
      BY <2>2 DEF Executable, Registrable
    <3>2. step.state \in pkg.linked
      BY <1>0, <3>1, MutatedSession DEF SessionShape
    <3>3. step.state # "none" /\ step.state \in pkg.offers
      BY <1>0, <3>2 DEF PackageShape, States, Accepted, CheckScenario, CheckContext
    <3>4. step.state \notin pkg.clashes /\ pkg.prerequisite = "PASS" /\ ~pkg.overload
      BY <2>2, <3>3 DEF Accepted, CheckScenario, CheckFamily, CheckFeasibility, Registers, IsGoalEffect
    <3>5. /\ \A s \in world.registered : s \in pkg.offers \ pkg.clashes
          /\ \A s \in world'.registered : s \in world.registered \/ s = step.state
      BY <1>0, <1>1, <2>2 DEF RegistrationsAreFeasible
    <3>6. \A s \in world'.registered : s \in pkg.offers \ pkg.clashes
      BY <3>3, <3>4, <3>5
    <3> QED
      BY <3>4, <3>6 DEF RegistrationsAreFeasible
  <2> QED
    BY <2>1, <2>2
<1>3. VersionsAsPredicted'
  <2> SUFFICES ASSUME world'.registered = {}, NEW t \in Held(pkg)
               PROVE  world'.version[t] = Predicted(pkg)[i + 1][t]
    <3>1. world'.cursor = i + 1
      BY <1>1
    <3> QED
      BY <3>1, Zenon DEF VersionsAsPredicted, Held
  <2>1. ~Registers(step) /\ world.registered = {}
    BY <1>1
  <2>2. t \in Targets
    BY <1>0 DEF Held, PackageShape, Targets
  <2>3. i \in 1..Len(pkg.steps) /\ Len(pkg.steps) \in Nat
    BY <1>0, ScriptLength DEF PackageShape
  <2>4. /\ Predicted(pkg)[i][t] = VersionBefore(i, t)
        /\ Predicted(pkg)[i + 1][t] = VersionBefore(i + 1, t)
    BY <1>0, <2>2, <2>3, PredictedVersion
  <2>5. world.version[t] = VersionBefore(i, t)
    BY <1>0, <2>1, <2>4 DEF VersionsAsPredicted
  <2>6. world'.version[t] = IF t = step.mutation.target THEN world.version[t] + 1 ELSE world.version[t]
    <3>1. world'.version[t] = Mutated(step.mutation).version[t]
      BY <1>1, <2>1, <2>2
    <3> QED
      BY <1>0, <2>2, <3>1, MutatedVersions
  <2>7. CASE step.mutation.target = t
    <3>1. step.mutation.from = world.version[t]
      BY <2>2, <2>7 DEF Executable, Applicable, Targets, States
    <3> QED
      BY <1>0, <2>2, <2>4, <2>6, <2>7, <3>1, WriterSetsVersion
  <2>8. CASE step.mutation.target # t
    BY <1>0, <2>2, <2>4, <2>5, <2>6, <2>8, OthersKeepVersion
  <2> QED
    BY <2>7, <2>8
<1> QED
  BY <1>1, <1>2, <1>3

-----------------------------------------------------------------------------
(* The specification *)

LEMMA FreshSession ==
  PackageShape(pkg) /\ world = FreshWorld(pkg)
    => SessionShape /\ RegistrationsAreFeasible /\ VersionsAsPredicted
<1> SUFFICES ASSUME PackageShape(pkg), world = FreshWorld(pkg)
             PROVE  SessionShape /\ RegistrationsAreFeasible /\ VersionsAsPredicted
  OBVIOUS
<1>1. DOMAIN pkg.steps = 1..Len(pkg.steps) /\ Len(pkg.steps) \in Nat
  BY ScriptLength DEF PackageShape
<1>2. SessionShape
  BY <1>1 DEF SessionShape, FreshWorld, WorldFields
<1>3. RegistrationsAreFeasible
  BY DEF RegistrationsAreFeasible, FreshWorld
<1>4. ASSUME NEW t \in Held(pkg)
      PROVE  world.version[t] = Predicted(pkg)[world.cursor][t]
  <2>1. t \in Targets /\ 1 \in 1..(Len(pkg.steps) + 1)
    BY <1>1 DEF Held, PackageShape, Targets
  <2>2. Predicted(pkg)[1][t] = VersionBefore(1, t)
    BY <2>1, PredictedVersion
  <2>3. WritersBefore(1, t) = {}
    BY <1>1 DEF WritersBefore
  <2> QED
    BY <2>1, <2>2, <2>3 DEF VersionBefore, FreshWorld
<1> QED
  BY <1>2, <1>3, <1>4 DEF VersionsAsPredicted

LEMMA PackageInit == CampaignInit => PackageInv
<1> SUFFICES ASSUME CampaignInit PROVE PackageInv
  OBVIOUS
<1>1. PackageShape(pkg)
  BY BuiltPackageShape DEF CampaignInit, Init
<1>2. phase = "draft" /\ world = FreshWorld(pkg)
  BY DEF CampaignInit, Init
<1> QED
  BY <1>1, <1>2, FreshSession DEF PackageInv, Judged

\* What neither touches the package nor the session, nor comes before the verdict.
LEMMA PackageKept ==
  ASSUME PackageInv, UNCHANGED <<pkg, world>>,
         phase' \in {"draft", "refused"} => phase \in {"draft", "refused"},
         phase' \notin {"draft", "refused"} => phase \notin {"draft", "refused"} \/ Accepted(pkg)
  PROVE  PackageInv'
BY DEF PackageInv, SessionShape, Judged, RegistrationsAreFeasible, VersionsAsPredicted

\* A step performed in a phase that follows the verdict.
LEMMA PackageMoved ==
  ASSUME PackageInv, phase \notin {"draft", "refused"}, phase' = phase, UNCHANGED pkg,
         NEW i \in DOMAIN pkg.steps, i = world.cursor, Executable(pkg, pkg.steps[i]),
         world' = Applied(pkg.steps[i], Mutated(pkg.steps[i].mutation))
  PROVE  PackageInv'
<1>1. Accepted(pkg)
  BY DEF PackageInv, Judged
<1>2. SessionShape' /\ RegistrationsAreFeasible' /\ VersionsAsPredicted'
  BY <1>1, StepPerformed
<1> QED
  BY <1>1, <1>2 DEF PackageInv, Judged

LEMMA EditKeeps == ASSUME PackageInv, Edit PROVE PackageInv'
<1>1. PackageShape(pkg)'
  BY EditedPackageShape DEF Edit, PackageInv
<1>2. world' = FreshWorld(pkg') /\ phase' = "draft"
  BY DEF Edit
<1>3. (PackageShape(pkg) /\ world = FreshWorld(pkg)
         => SessionShape /\ RegistrationsAreFeasible /\ VersionsAsPredicted)'
  BY FreshSession, PTL
<1> QED
  BY <1>1, <1>2, <1>3 DEF PackageInv, Judged

LEMMA ReplayKeeps == ASSUME PackageInv, Replay PROVE PackageInv'
<1>1. phase = "accepted" /\ UNCHANGED pkg
  BY DEF Replay
<1>2. DOMAIN pkg.steps = 1..Len(pkg.steps) /\ Len(pkg.steps) \in Nat /\ world.cursor \in Nat \ {0}
  BY ScriptLength DEF PackageInv, PackageShape, SessionShape
<1>3. CASE world.cursor > Len(pkg.steps) \/ ~Executable(pkg, pkg.steps[world.cursor])
  BY <1>1, <1>3, PackageKept DEF Replay
<1>4. CASE ~(world.cursor > Len(pkg.steps)) /\ Executable(pkg, pkg.steps[world.cursor])
  <2>1. world.cursor \in DOMAIN pkg.steps
    BY <1>2, <1>4
  <2>2. /\ world' = Applied(pkg.steps[world.cursor], Mutated(pkg.steps[world.cursor].mutation))
        /\ UNCHANGED phase
    BY <1>4 DEF Replay
  <2> QED
    BY <1>1, <1>4, <2>1, <2>2, PackageMoved
<1> QED
  BY <1>3, <1>4

LEMMA PackageStepKeeps == ASSUME PackageInv, PackageStep PROVE PackageInv'
<1>1. CASE Edit
  BY <1>1, EditKeeps
<1>2. CASE Validate
  BY <1>2, PackageKept DEF Validate
<1>3. CASE Replay
  BY <1>3, ReplayKeeps
<1> QED
  BY <1>1, <1>2, <1>3 DEF PackageStep, Next

\* A step the agent performs is the script's next one.
LEMMA AgentMoves ==
  ASSUME PackageInv, phase = "running", phase' = phase, UNCHANGED pkg, NEW request,
         NEW step \in {s \in StepFor(request) : Executable(pkg, s)}, Perform(step)
  PROVE  PackageInv'
<1>1. PICK i \in {world.cursor} \cap DOMAIN pkg.steps : step = pkg.steps[i]
  BY DEF StepFor
<1> QED
  BY <1>1, PackageMoved DEF Perform

LEMMA RunStepKeeps == ASSUME PackageInv, RunStep PROVE PackageInv'
<1>1. CASE StartRun
  <2>1. phase = "accepted" /\ phase' = "running" /\ UNCHANGED <<pkg, world>>
    BY <1>1 DEF StartRun
  <2> QED
    BY <2>1, PackageKept
<1>2. CASE Grade
  <2>1. phase = "running" /\ phase' = "graded" /\ UNCHANGED <<pkg, world>>
    BY <1>2 DEF Grade, Stopped
  <2> QED
    BY <2>1, PackageKept
<1>3. CASE HumanApproval
  <2>1. phase = "running" /\ phase' = phase /\ UNCHANGED pkg
    BY <1>3 DEF HumanApproval, Running, FollowDecision, Reads, Continue
  <2>2. CASE UNCHANGED world
    BY <2>1, <2>2, PackageKept
  <2>3. CASE \E step \in {s \in StepFor(ApprovalRequest) : Executable(pkg, s)} : Perform(step)
    BY <2>1, <2>3, AgentMoves
  <2> QED
    BY <1>3, <2>2, <2>3 DEF HumanApproval, Reads
<1>4. CASE Transaction
  <2>1. phase = "running" /\ phase' = phase /\ UNCHANGED pkg
    BY <1>4 DEF Transaction, Running, Reads, Continue
  <2>2. CASE UNCHANGED world
    BY <2>1, <2>2, PackageKept
  <2>3. CASE \E step \in {s \in StepFor(run.candidate) : Executable(pkg, s)} : Perform(step)
    BY <2>1, <2>3, AgentMoves
  <2> QED
    BY <1>4, <2>2, <2>3 DEF Transaction, Reads
<1>5. CASE \/ Intake \/ Planner \/ ResolutionBuilder \/ VerifierPreAction \/ ActionGate
           \/ VerifierPostAction \/ HumanAdminReview \/ AnswerClarification \/ ObserveApproval
  <2>1. UNCHANGED <<pkg, world, phase>>
    BY <1>5 DEF Intake, Planner, ResolutionBuilder, VerifierPreAction, ActionGate,
                VerifierPostAction, HumanAdminReview, AnswerClarification, ObserveApproval,
                Reads, Continue
  <2> QED
    BY <2>1, PackageKept
<1> QED
  BY <1>1, <1>2, <1>3, <1>4, <1>5 DEF RunStep

LEMMA PackageInvHolds == CampaignSpec => []PackageInv
<1>1. PackageInv /\ [CampaignNext]_campaignVars => PackageInv'
  <2> SUFFICES ASSUME PackageInv, [CampaignNext]_campaignVars PROVE PackageInv'
    OBVIOUS
  <2>1. CASE PackageStep
    BY <2>1, PackageStepKeeps
  <2>2. CASE RunStep
    BY <2>2, RunStepKeeps
  <2>3. CASE UNCHANGED campaignVars
    BY <2>3, PackageKept DEF campaignVars, vars
  <2> QED
    BY <2>1, <2>2, <2>3 DEF CampaignNext
<1> QED
  BY <1>1, PackageInit, PTL DEF CampaignSpec

\* The engine (runtime/execution.py) registers without looking at timetable or
\* prerequisite; the validator (data/simulated/validator.py) has looked for it.
THEOREM RegistrationsAreAlwaysFeasible == CampaignSpec => []RegistrationsAreFeasible
<1>1. PackageInv => RegistrationsAreFeasible
  BY DEF PackageInv
<1> QED
  BY <1>1, PackageInvHolds, PTL

\* The validator's prediction of versions (_check_mutations) is what the session holds
\* until a seat is taken, whoever performs the steps and whatever was edited.
THEOREM VersionsAreAlwaysAsPredicted == CampaignSpec => []VersionsAsPredicted
<1>1. PackageInv => VersionsAsPredicted
  BY DEF PackageInv
<1> QED
  BY <1>1, PackageInvHolds, PTL

\* Nothing an accepted script names of what the session holds is stale when its turn
\* comes, before a seat is taken: neither the versions the step asks for nor the one
\* its mutation starts from (ActionEngine._validate_versions,
\* _apply_script_mutation).
NothingGoesStale ==
  phase \notin {"draft", "refused"} /\ world.registered = {} =>
    \A i \in DOMAIN pkg.steps : i = world.cursor =>
      \A t \in Held(pkg) :
        /\ pkg.steps[i].pre[t] \in {0, world.version[t]}
        /\ pkg.steps[i].mutation.target = t => pkg.steps[i].mutation.from = world.version[t]

THEOREM AcceptedScriptsStayFresh == CampaignSpec => []NothingGoesStale
<1>1. PackageInv => NothingGoesStale
  <2> SUFFICES ASSUME PackageInv, phase \notin {"draft", "refused"}, world.registered = {},
                      NEW i \in DOMAIN pkg.steps, i = world.cursor, NEW t \in Held(pkg)
               PROVE  /\ pkg.steps[i].pre[t] \in {0, world.version[t]}
                      /\ pkg.steps[i].mutation.target = t =>
                           pkg.steps[i].mutation.from = world.version[t]
    BY DEF NothingGoesStale
  <2>1. t \in Targets /\ t # "none"
    BY DEF PackageInv, Held, PackageShape, Targets, States
  <2>2. CheckMutations(pkg, i)
    BY DEF PackageInv, Judged, Accepted, CheckScripts
  <2>3. world.version[t] = Predicted(pkg)[i][t]
    BY DEF PackageInv, VersionsAsPredicted
  <2> QED
    BY <2>1, <2>2, <2>3 DEF CheckMutations
<1> QED
  BY <1>1, PackageInvHolds, PTL

-----------------------------------------------------------------------------
(* The verdict on what was built: the scenario families and how they differ *)

AllFamilies == {"S1", "S2", "S3", "S4", "S5", "S6", "S7"}

-----------------------------------------------------------------------------
(* What the generator builds *)

\* The package a frozen one was built as.
BuiltAs(family, student) ==
  /\ family \in AllFamilies /\ student \in Students(family)
  /\ pkg = BuiltPackage(family, student)

LEMMA FamiliesNeed ==
  /\ \A family \in {"S1", "S3", "S6", "S7"} : family \notin NeedsApproval
  /\ \A family \in {"S2", "S4", "S5"} : family \in NeedsApproval
  /\ \A family \in {"S1", "S4", "S7"} : family \in NeedsStatePair
  /\ \A family \in {"S2", "S3", "S5", "S6"} : family \notin NeedsStatePair
BY DEF NeedsApproval, NeedsStatePair

LEMMA DecisionsAt ==
  ASSUME NEW position \in 0..19
  PROVE  DecisionAt(position) \in Decisions
BY DEF DecisionAt, Decisions

LEMMA GrantsOf ==
  /\ GrantOf("APPROVED") = "APPROVAL_GRANTED"
  /\ GrantOf("REJECTED") = "APPROVAL_REJECTED"
  /\ GrantOf("PENDING") = "APPROVAL_PENDING"
BY DEF GrantOf, ApprovalEvents, ChangeOf

LEMMA FailuresAt ==
  ASSUME NEW position \in 0..19
  PROVE  \E type \in DynamicEvents : FailureAt(position) = Event(type, "pref", 1)
<1> DEFINE types == <<"VACANCY_BECOMES_ZERO", "CLASS_BECOMES_UNAVAILABLE",
                      "TEMPORARY_TRANSACTION_FAILURE", "STATE_CHANGED_BEFORE_COMMIT">>
<1>1. (position % 4) + 1 \in 1..4
  OBVIOUS
<1>2. \A i \in 1..4 : types[i] \in DynamicEvents
  BY DEF DynamicEvents, OfferingEvents
<1>3. FailureAt(position) = Event(types[(position % 4) + 1], "pref", 1)
  BY DEF FailureAt
<1> HIDE DEF types
<1> QED
  BY <1>1, <1>2, <1>3

\* The records of the student and the classes.
LEMMA BuiltRecords ==
  ASSUME NEW family, NEW student, BuiltAs(family, student)
  PROVE  /\ pkg.family = family /\ pkg.documents = TRUE
         /\ pkg.approval = (IF family \in NeedsApproval THEN DecisionAt(student.position) ELSE "NONE")
         /\ pkg.approval # "NONE" <=> family \in NeedsApproval
         /\ pkg.human <=> family \in NeedsApproval
         /\ \A s \in States : pkg.seats[s] = 1
         /\ pkg.offers = States
         /\ pkg.demanding <=> family = "S2"
         /\ pkg.onPath <=> family = "S5"
         /\ pkg.primary <=> family # "S5"
         /\ pkg.linked = (IF family \in NeedsStatePair THEN States ELSE {"pref"})
         /\ \A s \in States : pkg.observed[s] = IF s \in pkg.linked THEN 1 ELSE 0
         /\ pkg.pair = (IF family \in NeedsStatePair THEN <<"pref", "alt">> ELSE <<"none", "none">>)
<1>1. student.position \in 0..19
  BY DEF BuiltAs, Students
<1>2. DecisionAt(student.position) # "NONE"
  BY <1>1, DecisionsAt DEF Decisions
<1> QED
  BY <1>2 DEF BuiltAs, BuiltPackage

LEMMA BuiltStudents ==
  ASSUME NEW family, NEW student, BuiltAs(family, student)
  PROVE  /\ pkg.indeterminate => family = "S3"
         /\ family \in NeedsStatePair =>
              /\ pkg.clashes = (IF family = "S7" THEN {} ELSE {"pref"})
              /\ pkg.prerequisite = "PASS" /\ ~pkg.overload /\ ~pkg.excluded
<1>1. /\ pkg.indeterminate = student.unresolvable /\ pkg.clashes = student.clashes
      /\ pkg.prerequisite = student.prerequisite /\ pkg.overload = student.overload
      /\ pkg.excluded = student.excluded
  BY DEF BuiltAs, BuiltPackage
<1>2. /\ student.unresolvable => family = "S3"
      /\ FeasibleTuple(family, student)
  BY DEF BuiltAs, Students
<1> QED
  BY <1>1, <1>2 DEF FeasibleTuple

\* The submission: S6 alternates between an incomplete and a complete one.
LEMMA BuiltIntake ==
  ASSUME NEW family, NEW student, BuiltAs(family, student)
  PROVE  /\ pkg.questions <=> pkg.ready = "NO"
         /\ family # "S6" => pkg.ready = "UNKNOWN"
         /\ family = "S6" => pkg.ready \in {"NO", "YES"}
         /\ family = "S6" => (pkg.ready = "NO" <=> student.position % 2 = 0)
<1>1. /\ pkg.ready = IntakeReady(family, student.position)
      /\ pkg.questions <=> IntakeReady(family, student.position) = "NO"
  BY DEF BuiltAs, BuiltPackage
<1> QED
  BY <1>1 DEF IntakeReady

\* The event a script meets first.
LEMMA BuiltEvents ==
  ASSUME NEW family, NEW student, BuiltAs(family, student)
  PROVE  /\ pkg.event = BuiltEvent(family, student.position)
         /\ family \in {"S1", "S3"} => pkg.event = NoEvent
         /\ family \in NeedsApproval =>
              /\ pkg.event = Event(pkg.event.type, "approval", 1)
              /\ pkg.approval = "APPROVED" <=> pkg.event.type = "APPROVAL_GRANTED"
              /\ pkg.approval = "REJECTED" <=> pkg.event.type = "APPROVAL_REJECTED"
              /\ pkg.approval = "PENDING" <=> pkg.event.type = "APPROVAL_PENDING"
              /\ pkg.approval \in Decisions
         /\ family = "S6" =>
              /\ pkg.ready = "NO" => pkg.event = Event("REQUIRED_INFORMATION_MISSING", "case", 0)
              /\ pkg.ready = "YES" => pkg.event = Event("CLASS_BECOMES_UNAVAILABLE", "pref", 1)
         /\ family = "S7" => \E type \in DynamicEvents : pkg.event = Event(type, "pref", 1)
<1>1. pkg.event = BuiltEvent(family, student.position)
  BY DEF BuiltAs, BuiltPackage
<1>2. student.position \in 0..19
  BY DEF BuiltAs, Students
<1>3. ASSUME family \in {"S1", "S3"} PROVE pkg.event = NoEvent
  BY <1>1, <1>3, FamiliesNeed DEF BuiltEvent
<1>4. ASSUME family \in NeedsApproval
      PROVE  /\ pkg.event = Event(GrantOf(pkg.approval), "approval", 1)
             /\ pkg.approval \in Decisions
  <2>1. pkg.approval = DecisionAt(student.position)
    BY <1>4, BuiltRecords
  <2>2. BuiltEvent(family, student.position)
          = Event(GrantOf(DecisionAt(student.position)), "approval", 1)
    BY <1>4 DEF BuiltEvent, NeedsApproval
  <2> QED
    BY <1>1, <1>2, <2>1, <2>2, DecisionsAt
<1>5. ASSUME family \in NeedsApproval
      PROVE  /\ pkg.event = Event(pkg.event.type, "approval", 1)
             /\ pkg.approval = "APPROVED" <=> pkg.event.type = "APPROVAL_GRANTED"
             /\ pkg.approval = "REJECTED" <=> pkg.event.type = "APPROVAL_REJECTED"
             /\ pkg.approval = "PENDING" <=> pkg.event.type = "APPROVAL_PENDING"
  <2>1. pkg.event.type = GrantOf(pkg.approval)
    BY <1>4, <1>5 DEF Event
  <2> QED
    BY <1>4, <1>5, <2>1, GrantsOf DEF Decisions
<1>6. ASSUME family = "S6"
      PROVE  /\ pkg.ready = "NO" => pkg.event = Event("REQUIRED_INFORMATION_MISSING", "case", 0)
             /\ pkg.ready = "YES" => pkg.event = Event("CLASS_BECOMES_UNAVAILABLE", "pref", 1)
  BY <1>1, <1>6, BuiltIntake DEF BuiltEvent, NeedsApproval
<1>7. ASSUME family = "S7" PROVE \E type \in DynamicEvents : pkg.event = Event(type, "pref", 1)
  BY <1>1, <1>2, <1>7, FailuresAt DEF BuiltEvent, NeedsApproval
<1> QED
  BY <1>1, <1>3, <1>4, <1>5, <1>6, <1>7

LEMMA BuiltOutcomes ==
  ASSUME NEW family, NEW student, BuiltAs(family, student)
  PROVE  /\ family \in {"S1", "S7"} => pkg.outcome = "RESOLVED"
         /\ family = "S3" =>
              pkg.outcome = IF pkg.indeterminate THEN "CLARIFICATION_REQUIRED" ELSE "RESOLVED"
         /\ family \in NeedsApproval =>
              /\ pkg.approval = "APPROVED" => pkg.outcome = "RESOLVED"
              /\ pkg.approval = "REJECTED" => pkg.outcome = "ESCALATED"
              /\ pkg.approval = "PENDING" => pkg.outcome = "PENDING_APPROVAL"
         /\ family = "S6" =>
              pkg.outcome = IF pkg.ready = "NO" THEN "CLARIFICATION_REQUIRED" ELSE "ESCALATED"
<1>1. /\ pkg.outcome = BuiltOutcome(family, student.position, student.unresolvable)
      /\ pkg.indeterminate = student.unresolvable
  BY DEF BuiltAs, BuiltPackage
<1>2. student.unresolvable => family = "S3"
  BY DEF BuiltAs, Students
<1>3. ASSUME family \in {"S1", "S7"} PROVE pkg.outcome = "RESOLVED"
  BY <1>1, <1>2, <1>3, FamiliesNeed DEF BuiltOutcome
<1>4. ASSUME family = "S3"
      PROVE  pkg.outcome = IF pkg.indeterminate THEN "CLARIFICATION_REQUIRED" ELSE "RESOLVED"
  BY <1>1, <1>4, FamiliesNeed DEF BuiltOutcome
<1>5. ASSUME family \in NeedsApproval
      PROVE  /\ pkg.approval = "APPROVED" => pkg.outcome = "RESOLVED"
             /\ pkg.approval = "REJECTED" => pkg.outcome = "ESCALATED"
             /\ pkg.approval = "PENDING" => pkg.outcome = "PENDING_APPROVAL"
  <2>1. family \in {"S2", "S4", "S5"} /\ pkg.approval = DecisionAt(student.position)
    BY <1>5, BuiltRecords DEF NeedsApproval
  <2> QED
    BY <1>1, <1>2, <1>5, <2>1 DEF BuiltOutcome
<1>6. ASSUME family = "S6"
      PROVE  pkg.outcome = IF pkg.ready = "NO" THEN "CLARIFICATION_REQUIRED" ELSE "ESCALATED"
  BY <1>1, <1>6, BuiltIntake, FamiliesNeed DEF BuiltOutcome
<1> QED
  BY <1>3, <1>4, <1>5, <1>6

-----------------------------------------------------------------------------
(* The scripts built *)

\* The class among what a step names.
Named(names) == IF names \cap States = {} THEN "none" ELSE CHOOSE s \in names \cap States : TRUE

LEMMA NamedClasses ==
  /\ Named({"alt"}) = "alt" /\ Named({"pref"}) = "pref"
  /\ Named({"approval", "alt"}) = "alt" /\ Named({"approval"}) = "none" /\ Named({}) = "none"
  /\ Named({"case"} \cap States) = "none" /\ Named({"pref"} \cap States) = "pref"
BY DEF States, Named

LEMMA StepFields ==
  ASSUME NEW action, NEW names, NEW result, NEW pre
  PROVE  /\ Step(action, names, result, pre).action = action
         /\ Step(action, names, result, pre).approval <=> "approval" \in names
         /\ Step(action, names, result, pre).state = Named(names)
         /\ ~Step(action, names, result, pre).retry
         /\ Step(action, names, result, pre).result = result
         /\ ~Step(action, names, result, pre).retryable
         /\ Step(action, names, result, pre).event = NoEvent
         /\ Step(action, names, result, pre).pre = pre
         /\ Step(action, names, result, pre).mutation = NoMutation
BY DEF Step, Named

LEMMA EventFields ==
  ASSUME NEW type, NEW target, NEW version
  PROVE  /\ Event(type, target, version).type = type
         /\ Event(type, target, version).target = target
         /\ Event(type, target, version).version = version
BY DEF Event

LEMMA ShortScripts ==
  /\ \A x : Len(<<x>>) = 1 /\ DOMAIN <<x>> = {1} /\ <<x>>[1] = x /\ <<x>> # <<>>
  /\ \A x, y : /\ Len(<<x, y>>) = 2 /\ DOMAIN <<x, y>> = {1, 2} /\ <<x, y>> # <<>>
               /\ <<x, y>>[1] = x /\ <<x, y>>[2] = y
OBVIOUS

LEMMA Joined ==
  ASSUME NEW x, NEW y
  PROVE  <<x>> \o <<>> = <<x>> /\ <<x>> \o <<y>> = <<x, y>>
<1>1. <<x>> \o <<y>> \in Seq({x, y}) /\ <<x, y>> \in Seq({x, y})
  OBVIOUS
<1>2. DOMAIN (<<x>> \o <<y>>) = 1..2 /\ DOMAIN <<x, y>> = 1..2
  OBVIOUS
<1>3. (<<x>> \o <<y>>)[1] = x /\ (<<x>> \o <<y>>)[2] = y
  OBVIOUS
<1>4. \A s \in Seq({x, y}), t \in Seq({x, y}) :
        DOMAIN s = 1..2 /\ DOMAIN t = 1..2 /\ s[1] = t[1] /\ s[2] = t[2] => s = t
  OBVIOUS
<1>5. <<x>> \o <<y>> = <<x, y>>
  BY <1>1, <1>2, <1>3, <1>4
<1> QED
  BY <1>5

\* What a step names, and what it does.
StepNames(step, action, state) == step.action = action /\ step.state = state
StepDoes(step, result, event, pre) ==
  /\ step.result = result /\ step.event = event /\ step.pre = pre
  /\ step.mutation = MutationOf(event)

\* A step that meets an event, and ends the script or is tried again.
LastHit(step, action, names, event) == step = Hit(action, names, event, FALSE)
RetriedHit(step, action, names, event) == step = Hit(action, names, event, TRUE)
HitShape(step, action, names, event) ==
  /\ StepNames(step, action, Named(names)) /\ (step.approval <=> "approval" \in names) /\ ~step.retry
  /\ StepDoes(step, ResultOf[event.type], event,
              IF event.version = 0 THEN Unbound ELSE Bound(event.target, event.version))

LEMMA LastHits ==
  ASSUME NEW step, NEW action, NEW names, NEW event, LastHit(step, action, names, event)
  PROVE  HitShape(step, action, names, event) /\ ~step.retryable
<1> DEFINE result == ResultOf[event.type]
           pre == IF event.version = 0 THEN Unbound ELSE Bound(event.target, event.version)
           mutation == MutationOf(event)
<1>1. step = [Step(action, names, result, pre)
                EXCEPT !.event = event, !.retryable = FALSE, !.mutation = mutation]
  BY DEF LastHit, Hit
<1> HIDE DEF result, pre, mutation
<1>2. /\ step.action = action /\ (step.approval <=> "approval" \in names)
      /\ step.state = Named(names) /\ ~step.retry
      /\ step.result = result /\ ~step.retryable
      /\ step.event = event /\ step.pre = pre /\ step.mutation = mutation
  BY <1>1 DEF Step, Named
<1> QED
  BY <1>2 DEF HitShape, StepNames, StepDoes, result, pre, mutation

LEMMA RetriedHits ==
  ASSUME NEW step, NEW action, NEW names, NEW event, RetriedHit(step, action, names, event)
  PROVE  HitShape(step, action, names, event) /\ step.retryable
<1> DEFINE result == ResultOf[event.type]
           pre == IF event.version = 0 THEN Unbound ELSE Bound(event.target, event.version)
           mutation == MutationOf(event)
<1>1. step = [Step(action, names, result, pre)
                EXCEPT !.event = event, !.retryable = TRUE, !.mutation = mutation]
  BY DEF RetriedHit, Hit
<1> HIDE DEF result, pre, mutation
<1>2. /\ step.action = action /\ (step.approval <=> "approval" \in names)
      /\ step.state = Named(names) /\ ~step.retry
      /\ step.result = result /\ step.retryable
      /\ step.event = event /\ step.pre = pre /\ step.mutation = mutation
  BY <1>1 DEF Step, Named
<1> QED
  BY <1>2 DEF HitShape, StepNames, StepDoes, result, pre, mutation

LEMMA NoEventNoMutation == MutationOf(NoEvent) = NoMutation
BY DEF MutationOf, NoEvent, ChangeOf

LEMMA RegistrationScript ==
  ASSUME NEW family, NEW student, BuiltAs(family, student), family = "S1"
  PROVE  /\ Len(pkg.steps) = 1 /\ DOMAIN pkg.steps = {1}
         /\ StepNames(pkg.steps[1], "SUBMIT_REGISTRATION", "alt")
         /\ StepDoes(pkg.steps[1], "SUCCESS", NoEvent, Bound("alt", 1))
         /\ ~pkg.steps[1].approval /\ ~pkg.steps[1].retry /\ ~pkg.steps[1].retryable
<1>1. pkg.steps = BuiltSteps(family, student.position, student.unresolvable)
  BY DEF BuiltAs, BuiltPackage
<1>2. @ = <<Step("SUBMIT_REGISTRATION", {"alt"}, "SUCCESS", Bound("alt", 1))>>
  BY FamiliesNeed DEF BuiltSteps
<1>3. /\ Len(pkg.steps) = 1 /\ DOMAIN pkg.steps = {1}
      /\ pkg.steps[1] = Step("SUBMIT_REGISTRATION", {"alt"}, "SUCCESS", Bound("alt", 1))
  BY <1>1, <1>2, ShortScripts
<1> QED
  BY <1>3, StepFields, NamedClasses, NoEventNoMutation DEF StepNames, StepDoes

LEMMA ExceptionScript ==
  ASSUME NEW family, NEW student, BuiltAs(family, student), family = "S3"
  PROVE  /\ Len(pkg.steps) = 1 /\ DOMAIN pkg.steps = {1}
         /\ StepNames(pkg.steps[1], "SUBMIT_EXCEPTION", "none")
         /\ StepDoes(pkg.steps[1], IF pkg.indeterminate THEN "REQUIRED_INFORMATION_MISSING"
                                   ELSE "SUCCESS", NoEvent, Unbound)
         /\ ~pkg.steps[1].approval /\ ~pkg.steps[1].retry /\ ~pkg.steps[1].retryable
<1> DEFINE result == IF student.unresolvable THEN "REQUIRED_INFORMATION_MISSING" ELSE "SUCCESS"
<1>1. /\ pkg.steps = BuiltSteps(family, student.position, student.unresolvable)
      /\ pkg.indeterminate = student.unresolvable
  BY DEF BuiltAs, BuiltPackage
<1>2. BuiltSteps(family, student.position, student.unresolvable)
        = <<Step("SUBMIT_EXCEPTION", {}, result, Unbound)>>
  BY FamiliesNeed DEF BuiltSteps
<1> HIDE DEF result
<1>3. /\ Len(pkg.steps) = 1 /\ DOMAIN pkg.steps = {1}
      /\ pkg.steps[1] = Step("SUBMIT_EXCEPTION", {}, result, Unbound)
  BY <1>1, <1>2, ShortScripts
<1> QED
  BY <1>1, <1>3, StepFields, NamedClasses, NoEventNoMutation DEF StepNames, StepDoes, result

LEMMA IncompleteScript ==
  ASSUME NEW family, NEW student, BuiltAs(family, student), family = "S6"
  PROVE  /\ Len(pkg.steps) = 1 /\ DOMAIN pkg.steps = {1}
         /\ StepNames(pkg.steps[1], "SUBMIT_EXCEPTION", IF pkg.ready = "NO" THEN "none" ELSE "pref")
         /\ StepDoes(pkg.steps[1], IF pkg.ready = "NO" THEN "REQUIRED_INFORMATION_MISSING"
                                   ELSE "CLASS_UNAVAILABLE", pkg.event,
                     IF pkg.ready = "NO" THEN Unbound ELSE Bound("pref", 1))
         /\ ~pkg.steps[1].approval /\ ~pkg.steps[1].retry /\ ~pkg.steps[1].retryable
<1> DEFINE event == BuiltEvent(family, student.position)
<1>1. pkg.event = event /\ pkg.steps = BuiltSteps(family, student.position, student.unresolvable)
  BY DEF BuiltAs, BuiltPackage
<1>2. BuiltSteps(family, student.position, student.unresolvable)
        = <<Hit("SUBMIT_EXCEPTION", {event.target} \cap States, event, FALSE)>>
  BY FamiliesNeed DEF BuiltSteps
<1> HIDE DEF event
<1> DEFINE hit == Hit("SUBMIT_EXCEPTION", {event.target} \cap States, event, FALSE)
<1>3. LastHit(hit, "SUBMIT_EXCEPTION", {event.target} \cap States, event)
  BY DEF LastHit
<1>4. pkg.steps = <<hit>>
  BY <1>1, <1>2
<1> HIDE DEF hit
<1>5. /\ Len(pkg.steps) = 1 /\ DOMAIN pkg.steps = {1}
      /\ LastHit(pkg.steps[1], "SUBMIT_EXCEPTION", {pkg.event.target} \cap States, pkg.event)
  <2>1. Len(pkg.steps) = 1 /\ DOMAIN pkg.steps = {1} /\ pkg.steps[1] = hit
    BY <1>4, ShortScripts
  <2> QED
    BY <1>1, <1>3, <2>1
<1>6. CASE pkg.ready = "NO"
  <2>1. /\ pkg.event.type = "REQUIRED_INFORMATION_MISSING" /\ pkg.event.version = 0
        /\ pkg.event.target = "case" /\ "approval" \notin {pkg.event.target} \cap States
    BY <1>6, BuiltEvents, EventFields DEF States
  <2> QED
    BY <1>5, <1>6, <2>1, LastHits, NamedClasses DEF HitShape, ResultOf
<1>7. CASE pkg.ready = "YES"
  <2>1. /\ pkg.event.type = "CLASS_BECOMES_UNAVAILABLE" /\ pkg.event.version = 1
        /\ pkg.event.target = "pref"
        /\ "approval" \notin {pkg.event.target} \cap States
    <3>1. pkg.event = Event("CLASS_BECOMES_UNAVAILABLE", "pref", 1)
      BY <1>7, BuiltEvents
    <3> QED
      BY <3>1, EventFields DEF States
  <2> QED
    BY <1>5, <1>7, <2>1, LastHits, NamedClasses DEF HitShape, ResultOf
<1> QED
  BY <1>6, <1>7, BuiltIntake

LEMMA RecoveryScript ==
  ASSUME NEW family, NEW student, BuiltAs(family, student), family = "S7"
  PROVE  /\ Len(pkg.steps) = 2 /\ DOMAIN pkg.steps = {1, 2}
         /\ StepNames(pkg.steps[1], "SUBMIT_REGISTRATION", "pref")
         /\ StepDoes(pkg.steps[1], ResultOf[pkg.event.type], pkg.event, Bound("pref", 1))
         /\ ~pkg.steps[1].approval /\ ~pkg.steps[1].retry /\ pkg.steps[1].retryable
         /\ StepNames(pkg.steps[2], "SUBMIT_REGISTRATION", "alt")
         /\ StepDoes(pkg.steps[2], "SUCCESS", NoEvent, Bound("alt", 1))
         /\ ~pkg.steps[2].approval /\ pkg.steps[2].retry /\ ~pkg.steps[2].retryable
<1> DEFINE event == BuiltEvent(family, student.position)
           register == Step("SUBMIT_REGISTRATION", {"alt"}, "SUCCESS", Bound("alt", 1))
           first == Hit("SUBMIT_REGISTRATION", {"pref"}, event, TRUE)
           again == [register EXCEPT !.retry = TRUE]
<1>1. pkg.event = event /\ pkg.steps = BuiltSteps(family, student.position, student.unresolvable)
  BY DEF BuiltAs, BuiltPackage
<1>2. BuiltSteps(family, student.position, student.unresolvable)
        = <<first, again>>
  BY FamiliesNeed DEF BuiltSteps
<1>3. /\ StepNames(again, "SUBMIT_REGISTRATION", "alt")
      /\ StepDoes(again, "SUCCESS", NoEvent, Bound("alt", 1))
      /\ ~again.approval /\ again.retry /\ ~again.retryable
  BY NamedClasses, NoEventNoMutation DEF Step, Named, States, StepNames, StepDoes
<1>4. pkg.event.version = 1 /\ pkg.event.target = "pref"
  <2>1. PICK type \in DynamicEvents : pkg.event = Event(type, "pref", 1)
    BY BuiltEvents
  <2> QED
    BY <2>1, EventFields
<1>5. /\ StepNames(first, "SUBMIT_REGISTRATION", "pref")
      /\ StepDoes(first, ResultOf[pkg.event.type], pkg.event, Bound("pref", 1))
      /\ ~first.approval /\ ~first.retry /\ first.retryable
  <2>1. RetriedHit(first, "SUBMIT_REGISTRATION", {"pref"}, event)
    BY DEF RetriedHit
  <2> HIDE DEF event, first
  <2>2. HitShape(first, "SUBMIT_REGISTRATION", {"pref"}, event) /\ first.retryable
    BY <2>1, RetriedHits
  <2>3. "approval" \notin {"pref"}
    OBVIOUS
  <2> QED
    BY <1>1, <1>4, <2>2, <2>3, NamedClasses DEF HitShape
<1> HIDE DEF event, first, again
<1>6. pkg.steps = <<first, again>>
  BY <1>1, <1>2
<1> QED
  BY <1>3, <1>5, <1>6, ShortScripts

\* The action an approval is asked for, the class it names and the versions it is
\* bound to.
FollowedBy(step, family) ==
  /\ StepNames(step, IF family = "S2" THEN "SUBMIT_WAIVER"
                     ELSE IF family = "S4" THEN "SUBMIT_REGISTRATION" ELSE "SUBMIT_EXCEPTION",
               IF family = "S4" THEN "alt" ELSE "none")
  /\ StepDoes(step, "SUCCESS", NoEvent,
              IF family = "S4" THEN [Bound("approval", 2) EXCEPT !["alt"] = 1]
              ELSE Bound("approval", 2))
  /\ step.approval /\ ~step.retry /\ ~step.retryable

LEMMA ApprovalScript ==
  ASSUME NEW family, NEW student, BuiltAs(family, student), family \in NeedsApproval
  PROVE  /\ pkg.approval = "APPROVED" => /\ Len(pkg.steps) = 2 /\ DOMAIN pkg.steps = {1, 2}
                                         /\ FollowedBy(pkg.steps[2], family)
         /\ pkg.approval # "APPROVED" => Len(pkg.steps) = 1 /\ DOMAIN pkg.steps = {1}
         /\ StepNames(pkg.steps[1], "REQUEST_APPROVAL", "none")
         /\ StepDoes(pkg.steps[1], ResultOf[pkg.event.type], pkg.event, Bound("approval", 1))
         /\ pkg.steps[1].approval /\ ~pkg.steps[1].retry /\ ~pkg.steps[1].retryable
<1> DEFINE event == BuiltEvent(family, student.position)
           request == Hit("REQUEST_APPROVAL", {"approval"}, event, FALSE)
<1>1. pkg.event = event /\ pkg.steps = BuiltSteps(family, student.position, student.unresolvable)
  BY DEF BuiltAs, BuiltPackage
<1>2. BuiltSteps(family, student.position, student.unresolvable)
        = <<request>> \o (IF event.type = "APPROVAL_GRANTED" THEN <<ApprovedFollowUp(family)>> ELSE <<>>)
  BY DEF BuiltSteps, NeedsApproval
<1>3. pkg.event.version = 1 /\ pkg.event.target = "approval"
      /\ (pkg.approval = "APPROVED" <=> pkg.event.type = "APPROVAL_GRANTED")
  BY BuiltEvents, EventFields
<1>4. /\ StepNames(request, "REQUEST_APPROVAL", "none")
      /\ StepDoes(request, ResultOf[pkg.event.type], pkg.event, Bound("approval", 1))
      /\ request.approval /\ ~request.retry /\ ~request.retryable
  <2>1. LastHit(request, "REQUEST_APPROVAL", {"approval"}, event)
    BY DEF LastHit
  <2> HIDE DEF event, request
  <2>2. HitShape(request, "REQUEST_APPROVAL", {"approval"}, event) /\ ~request.retryable
    BY <2>1, LastHits
  <2>3. "approval" \in {"approval"}
    OBVIOUS
  <2> QED
    BY <1>1, <1>3, <2>2, <2>3, NamedClasses DEF HitShape
<1> HIDE DEF event, request
<1>5. CASE pkg.approval = "APPROVED"
  <2>1. pkg.steps = <<request, ApprovedFollowUp(family)>>
    <3>1. pkg.steps = <<request>> \o <<ApprovedFollowUp(family)>>
      BY <1>1, <1>2, <1>3, <1>5
    <3> QED
      BY <3>1, Joined
  <2>2. FollowedBy(ApprovedFollowUp(family), family)
    BY StepFields, NamedClasses, NoEventNoMutation
       DEF ApprovedFollowUp, FollowedBy, StepNames, StepDoes, NeedsApproval
  <2> QED
    BY <1>4, <1>5, <2>1, <2>2, ShortScripts
<1>6. CASE pkg.approval # "APPROVED"
  <2>1. pkg.steps = <<request>>
    <3>1. pkg.steps = <<request>> \o <<>>
      BY <1>1, <1>2, <1>3, <1>6
    <3> QED
      BY <3>1, Joined
  <2> QED
    BY <1>4, <1>6, <2>1, ShortScripts
<1> QED
  BY <1>5, <1>6
-----------------------------------------------------------------------------
(* What was built can be constructed *)

\* What paths of a built package name.
PathsFit(paths, names, family) ==
  \A x \in paths :
    /\ x.name \in names
    /\ x.state # "none" => x.state \in States /\ family \in NeedsStatePair
    /\ x.approval => family \in NeedsApproval

InitialNames == {"request-approval", "conflict-free-alternative", "pre-event-index",
                 "grounded-resolution"}
FinalNames == {"approved-followup", "post-event-alternative", "refreshed-original-index"}
InvalidNames == {"invalid-conflicting-index", "invalidated-index"}

LEMMA InitialPaths ==
  ASSUME NEW family, NEW student, BuiltAs(family, student)
  PROVE  /\ PathsFit(pkg.initial, InitialNames, family)
         /\ pkg.outcome = "RESOLVED" => pkg.initial # {}
         /\ family = "S7" => \E x \in pkg.initial : x.state = "pref"
<1>1. pkg.initial = BuiltInitial(family, pkg.outcome = "RESOLVED") /\ family \in AllFamilies
  BY DEF BuiltAs, BuiltPackage
<1>2. CASE family \in NeedsApproval
  <2>1. pkg.initial = {Path("request-approval", "none", 0, TRUE)}
    BY <1>1, <1>2 DEF BuiltInitial, NeedsApproval
  <2> QED
    BY <1>2, <2>1 DEF Path, PathsFit, InitialNames, NeedsApproval
<1>3. CASE family = "S1"
  <2>1. pkg.initial = {Path("conflict-free-alternative", "alt", 0, FALSE)}
    BY <1>1, <1>3, FamiliesNeed DEF BuiltInitial
  <2> QED
    BY <1>3, <2>1, FamiliesNeed DEF Path, PathsFit, InitialNames, States
<1>4. CASE family = "S7"
  <2>1. pkg.initial = {Path("pre-event-index", "pref", 1, FALSE)}
    BY <1>1, <1>4, FamiliesNeed DEF BuiltInitial
  <2> QED
    BY <1>4, <2>1, FamiliesNeed DEF Path, PathsFit, InitialNames, States
<1>5. CASE family \in {"S3", "S6"}
  <2>1. pkg.initial = IF pkg.outcome = "RESOLVED"
                      THEN {Path("grounded-resolution", "none", 0, FALSE)} ELSE {}
    BY <1>1, <1>5, FamiliesNeed DEF BuiltInitial
  <2> QED
    <3>1. CASE pkg.outcome = "RESOLVED"
      <4>1. pkg.initial = {Path("grounded-resolution", "none", 0, FALSE)}
        BY <2>1, <3>1
      <4> QED
        BY <1>5, <4>1 DEF Path, PathsFit, InitialNames
    <3>2. CASE pkg.outcome # "RESOLVED"
      <4>1. pkg.initial = {}
        BY <2>1, <3>2
      <4> QED
        BY <1>5, <3>2, <4>1 DEF PathsFit
    <3> QED
      BY <3>1, <3>2
<1> QED
  BY <1>1, <1>2, <1>3, <1>4, <1>5 DEF AllFamilies, NeedsApproval

LEMMA FinalPaths ==
  ASSUME NEW family, NEW student, BuiltAs(family, student)
  PROVE  /\ PathsFit(pkg.final, FinalNames, family)
         /\ family = "S7" =>
              /\ \E x \in pkg.final : x.state = "alt"
              /\ pkg.event.type \in {"VACANCY_BECOMES_ZERO", "CLASS_BECOMES_UNAVAILABLE"} =>
                   \A x \in pkg.final : x.state # "pref"
<1>1. /\ pkg.final = BuiltFinal(family, pkg.event, pkg.outcome = "RESOLVED")
      /\ family \in AllFamilies
  BY DEF BuiltAs, BuiltPackage
<1>2. CASE family \in NeedsApproval
  <2> DEFINE followup == Path("approved-followup", IF family = "S4" THEN "alt" ELSE "none", 0, TRUE)
  <2>1. pkg.final \subseteq {followup}
    BY <1>1, <1>2 DEF BuiltFinal, NeedsApproval
  <2>2. /\ followup.name = "approved-followup"
        /\ followup.state = IF family = "S4" THEN "alt" ELSE "none"
    BY DEF Path
  <2> HIDE DEF followup
  <2> QED
    BY <1>2, <2>1, <2>2, FamiliesNeed DEF PathsFit, FinalNames, NeedsApproval, States
<1>3. CASE family = "S7"
  <2> DEFINE other == Path("post-event-alternative", "alt", 0, FALSE)
             refreshed == Path("refreshed-original-index", "pref", 1, FALSE)
             moved == Path("refreshed-original-index", "pref", 2, FALSE)
  <2>1. pkg.final = {other} \cup
                      (CASE pkg.event.type = "TEMPORARY_TRANSACTION_FAILURE" -> {refreshed}
                         [] pkg.event.type = "STATE_CHANGED_BEFORE_COMMIT" -> {moved}
                         [] OTHER -> {})
    BY <1>1, <1>3, FamiliesNeed DEF BuiltFinal
  <2>2. /\ other.name = "post-event-alternative" /\ other.state = "alt" /\ ~other.approval
        /\ refreshed.name = "refreshed-original-index" /\ refreshed.state = "pref" /\ ~refreshed.approval
        /\ moved.name = "refreshed-original-index" /\ moved.state = "pref" /\ ~moved.approval
    BY DEF Path
  <2> HIDE DEF other, refreshed, moved
  <2>3. other \in pkg.final /\ pkg.final \subseteq {other, refreshed, moved}
    BY <2>1
  <2>4. pkg.event.type \in {"VACANCY_BECOMES_ZERO", "CLASS_BECOMES_UNAVAILABLE"} =>
          pkg.final = {other}
    BY <2>1
  <2>5. PathsFit(pkg.final, FinalNames, family)
    BY <1>3, <2>2, <2>3, FamiliesNeed DEF PathsFit, FinalNames, States
  <2> QED
    BY <2>2, <2>3, <2>4, <2>5
<1>4. CASE family \in {"S1", "S3", "S6"}
  <2>1. pkg.final = {}
    BY <1>1, <1>4, FamiliesNeed DEF BuiltFinal
  <2> QED
    BY <1>4, <2>1 DEF PathsFit
<1> QED
  BY <1>1, <1>2, <1>3, <1>4 DEF AllFamilies, NeedsApproval

LEMMA InvalidPaths ==
  ASSUME NEW family, NEW student, BuiltAs(family, student)
  PROVE  PathsFit(pkg.invalid, InvalidNames, family)
<1>1. pkg.invalid = BuiltInvalid(family, pkg.event) /\ family \in AllFamilies
  BY DEF BuiltAs, BuiltPackage
<1>2. CASE family \in {"S1", "S4"}
  <2>1. pkg.invalid = {Path("invalid-conflicting-index", "pref", 0, FALSE)}
    BY <1>1, <1>2 DEF BuiltInvalid
  <2> QED
    BY <1>2, <2>1, FamiliesNeed DEF Path, PathsFit, InvalidNames, States
<1>3. CASE family = "S7"
  <2> DEFINE version == IF pkg.event.type = "STATE_CHANGED_BEFORE_COMMIT" THEN 1 ELSE 0
  <2>1. pkg.invalid \subseteq {Path("invalidated-index", "pref", version, FALSE)}
    BY <1>1, <1>3 DEF BuiltInvalid
  <2> HIDE DEF version
  <2> QED
    BY <1>3, <2>1, FamiliesNeed DEF Path, PathsFit, InvalidNames, States
<1>4. CASE family \in {"S2", "S3", "S5", "S6"}
  <2>1. pkg.invalid = {}
    BY <1>1, <1>4 DEF BuiltInvalid
  <2> QED
    BY <2>1 DEF PathsFit
<1> QED
  BY <1>1, <1>2, <1>3, <1>4 DEF AllFamilies

\* The kinds of event a package is built with.
BuiltKind(event, family) ==
  \/ event = NoEvent /\ family \in {"S1", "S3"}
  \/ event = Event("REQUIRED_INFORMATION_MISSING", "case", 0) /\ family = "S6"
  \/ event = Event("CLASS_BECOMES_UNAVAILABLE", "pref", 1) /\ family = "S6"
  \/ family = "S7" /\ \E type \in DynamicEvents : event = Event(type, "pref", 1)
  \/ family \in NeedsApproval /\ \E type \in ApprovalEvents : event = Event(type, "approval", 1)

LEMMA BuiltKinds ==
  ASSUME NEW family, NEW student, BuiltAs(family, student)
  PROVE  BuiltKind(pkg.event, family)
<1>1. family \in AllFamilies
  BY DEF BuiltAs
<1>2. CASE family \in NeedsApproval
  <2>1. pkg.event = Event(pkg.event.type, "approval", 1) /\ pkg.event.type \in ApprovalEvents
    BY <1>2, BuiltEvents DEF Decisions, ApprovalEvents
  <2> QED
    BY <1>2, <2>1 DEF BuiltKind
<1>3. CASE family = "S6"
  BY <1>3, BuiltEvents, BuiltIntake DEF BuiltKind
<1>4. CASE family \in {"S1", "S3", "S7"}
  BY <1>4, BuiltEvents DEF BuiltKind
<1> QED
  BY <1>1, <1>2, <1>3, <1>4 DEF AllFamilies, NeedsApproval

LEMMA KindFields ==
  ASSUME NEW event, NEW family, BuiltKind(event, family)
  PROVE  /\ event # NoEvent => event.type \in DOMAIN ResultOf /\ event.type # "NONE"
         /\ event.target \in {"none", "case", "pref", "approval"} /\ event.version \in {0, 1}
         /\ event.target \in {"pref", "approval"} <=> event.version = 1
         /\ event.type \in OfferingEvents => event.target = "pref"
         /\ event.type \in ApprovalEvents <=> event.target = "approval"
         /\ event.type \in DynamicEvents => event.target = "pref"
         /\ event.target = "pref" => event.type \in DynamicEvents /\ family \in {"S6", "S7"}
         /\ event.target = "approval" <=> family \in NeedsApproval
         /\ event.target = "none" <=> event = NoEvent
         /\ event = NoEvent <=> family \in {"S1", "S3"}
         /\ event.type = "REQUIRED_INFORMATION_MISSING" <=> event.target = "case"
         /\ event.type = "REQUIRED_INFORMATION_MISSING" => family = "S6"
BY DEF BuiltKind, Event, NoEvent, ResultOf, OfferingEvents, ApprovalEvents, DynamicEvents,
       NeedsApproval

LEMMA MutationFields ==
  ASSUME NEW event, NEW family, BuiltKind(event, family)
  PROVE  /\ event.type \in {"NONE", "REQUIRED_INFORMATION_MISSING", "TEMPORARY_TRANSACTION_FAILURE"}
              => MutationOf(event) = NoMutation
         /\ event.type \in OfferingEvents \cup ApprovalEvents =>
              /\ MutationOf(event).target = event.target /\ MutationOf(event).from = event.version
              /\ MutationOf(event).change = ChangeOf[event.type]
              /\ MutationOf(event).observable <=> event.target = "approval"
BY DEF MutationOf, ChangeOf, OfferingEvents, ApprovalEvents


\* What a step that meets an event, or none, needs to be a valid one.
LEMMA FreeStepsValid ==
  ASSUME NEW step, step.event = NoEvent, ~step.retryable,
         step.result \in {"SUCCESS", "REQUIRED_INFORMATION_MISSING"}
  PROVE  StepValid(step)
BY DEF StepValid, Successes

LEMMA BuiltEventValid ==
  ASSUME NEW event, NEW family, BuiltKind(event, family)
  PROVE  EventValid(event)
<1>1. \A type \in OfferingEvents : type \notin ApprovalEvents /\ type \in DynamicEvents
  BY DEF OfferingEvents, ApprovalEvents, DynamicEvents
<1> QED
  BY <1>1, KindFields DEF EventValid, States

LEMMA EventStepsValid ==
  ASSUME NEW step, NEW event, NEW family, BuiltKind(event, family), event # NoEvent,
         StepDoes(step, ResultOf[event.type], event,
                  IF event.version = 0 THEN Unbound ELSE Bound(event.target, event.version)),
         step.retryable <=> family = "S7"
  PROVE  StepValid(step)
<1>1. /\ step.result = ResultOf[event.type] /\ step.event = event
      /\ step.mutation = MutationOf(event)
      /\ step.pre = IF event.version = 0 THEN Unbound ELSE Bound(event.target, event.version)
  BY DEF StepDoes
<1>2. ASSUME event.version # 0
      PROVE  event.target \in Targets /\ step.pre[event.target] = event.version
  <2>1. event.target \in Targets
    BY <1>2, KindFields DEF Targets, States
  <2>2. step.pre = Bound(event.target, event.version)
    BY <1>1, <1>2
  <2> QED
    BY <2>1, <2>2 DEF Bound, Unbound
<1>3. Coherent(step)
  <2>1. CASE event.type \in {"REQUIRED_INFORMATION_MISSING", "TEMPORARY_TRANSACTION_FAILURE"}
    BY <1>1, <2>1, MutationFields DEF Coherent, ChangeOf
  <2>2. CASE event.type \in OfferingEvents \cup ApprovalEvents
    BY <1>1, <2>2, MutationFields DEF Coherent, ChangeOf, OfferingEvents, ApprovalEvents
  <2>3. event.type \in DOMAIN ResultOf
    BY KindFields
  <2> QED
    BY <2>1, <2>2, <2>3 DEF ResultOf, OfferingEvents, ApprovalEvents
<1>4. step.result \in Successes => ~step.retryable
  <2>1. step.result \in Successes => event.type = "APPROVAL_GRANTED"
    BY <1>1, KindFields DEF Successes, ResultOf
  <2>2. event.type = "APPROVAL_GRANTED" => family \in NeedsApproval
    BY KindFields DEF ApprovalEvents
  <2> QED
    BY <2>1, <2>2 DEF NeedsApproval
<1>5. step.result \in {"STALE_STATE", "TEMPORARY_SYSTEM_FAILURE"} => step.retryable
  <2>1. step.result \in {"STALE_STATE", "TEMPORARY_SYSTEM_FAILURE"} =>
          event.type \in {"STATE_CHANGED_BEFORE_COMMIT", "TEMPORARY_TRANSACTION_FAILURE"}
    BY <1>1, KindFields DEF ResultOf
  <2>2. event.type \in {"STATE_CHANGED_BEFORE_COMMIT", "TEMPORARY_TRANSACTION_FAILURE"} =>
          family = "S7"
    BY DEF BuiltKind, Event, NoEvent, ApprovalEvents
  <2> QED
    BY <2>1, <2>2
<1> QED
  BY <1>1, <1>2, <1>3, <1>4, <1>5, BuiltEventValid DEF StepValid

\* The first step of a built script, and the second where there is one.
LEMMA FirstSteps ==
  ASSUME NEW family, NEW student, BuiltAs(family, student)
  PROVE  /\ Len(pkg.steps) \in {1, 2} /\ DOMAIN pkg.steps = 1..Len(pkg.steps)
         /\ Len(pkg.steps) = 2 => family = "S7" \/ pkg.approval = "APPROVED"
         /\ StepValid(pkg.steps[1])
         /\ pkg.steps[1].event = pkg.event /\ pkg.steps[1].mutation = MutationOf(pkg.event)
         /\ Len(pkg.steps) = 2 => pkg.steps[1].result \in Successes \/ pkg.steps[1].retryable
<1>1. family \in AllFamilies /\ BuiltKind(pkg.event, family)
  BY BuiltKinds DEF BuiltAs
<1>2. CASE family = "S1"
  <2>1. pkg.event = NoEvent
    BY <1>2, BuiltEvents
  <2> QED
    BY <1>2, <2>1, RegistrationScript, FreeStepsValid, NoEventNoMutation DEF StepDoes
<1>3. CASE family = "S3"
  <2>1. pkg.event = NoEvent
    BY <1>3, BuiltEvents
  <2>2. pkg.steps[1].result \in {"SUCCESS", "REQUIRED_INFORMATION_MISSING"}
    BY <1>3, ExceptionScript DEF StepDoes
  <2> QED
    BY <1>3, <2>1, <2>2, ExceptionScript, FreeStepsValid, NoEventNoMutation DEF StepDoes
<1>4. CASE family = "S6"
  <2>1. /\ pkg.event.type = (IF pkg.ready = "NO" THEN "REQUIRED_INFORMATION_MISSING"
                             ELSE "CLASS_BECOMES_UNAVAILABLE")
        /\ pkg.event.target = (IF pkg.ready = "NO" THEN "case" ELSE "pref")
        /\ pkg.event.version = (IF pkg.ready = "NO" THEN 0 ELSE 1)
    BY <1>4, BuiltEvents, BuiltIntake, EventFields
  <2>2. StepDoes(pkg.steps[1], ResultOf[pkg.event.type], pkg.event,
                 IF pkg.event.version = 0 THEN Unbound
                 ELSE Bound(pkg.event.target, pkg.event.version))
    BY <1>4, <2>1, IncompleteScript DEF ResultOf
  <2>3. pkg.event # NoEvent /\ ~pkg.steps[1].retryable
    BY <1>1, <1>4, KindFields, IncompleteScript
  <2>4. StepValid(pkg.steps[1])
    BY <1>1, <1>4, <2>2, <2>3, EventStepsValid
  <2>5. Len(pkg.steps) = 1 /\ DOMAIN pkg.steps = 1..1
    BY <1>4, IncompleteScript
  <2> QED
    BY <2>2, <2>4, <2>5 DEF StepDoes
<1>5. CASE family = "S7"
  <2>1. pkg.event # NoEvent /\ pkg.event.target = "pref" /\ pkg.event.version = 1
    <3>1. PICK type \in DynamicEvents : pkg.event = Event(type, "pref", 1)
      BY <1>5, BuiltEvents
    <3>2. NoEvent.target = "none"
      BY DEF NoEvent
    <3> QED
      BY <3>1, <3>2, EventFields
  <2>2. StepValid(pkg.steps[1])
    BY <1>1, <1>5, <2>1, RecoveryScript, EventStepsValid
  <2> QED
    BY <1>5, <2>2, RecoveryScript DEF StepDoes
<1>6. CASE family \in NeedsApproval
  <2>1. pkg.event # NoEvent /\ pkg.event.target = "approval" /\ pkg.event.version = 1
    BY <1>1, <1>6, KindFields
  <2>2. StepValid(pkg.steps[1])
    BY <1>1, <1>6, <2>1, ApprovalScript, EventStepsValid DEF NeedsApproval
  <2>3. pkg.approval = "APPROVED" => pkg.steps[1].result \in Successes
    BY <1>6, ApprovalScript, BuiltEvents DEF StepDoes, ResultOf, Successes
  <2> QED
    BY <1>6, <2>2, <2>3, ApprovalScript DEF StepDoes
<1> QED
  BY <1>1, <1>2, <1>3, <1>4, <1>5, <1>6 DEF AllFamilies, NeedsApproval

LEMMA SecondSteps ==
  ASSUME NEW family, NEW student, BuiltAs(family, student), Len(pkg.steps) = 2
  PROVE  /\ StepValid(pkg.steps[2]) /\ pkg.steps[2].result = "SUCCESS"
         /\ pkg.steps[2].event = NoEvent /\ pkg.steps[2].mutation = NoMutation
<1>1. CASE family = "S7"
  BY <1>1, RecoveryScript, FreeStepsValid, NoEventNoMutation DEF StepDoes
<1>2. CASE family # "S7"
  <2>1. family \in NeedsApproval /\ pkg.approval = "APPROVED"
    BY <1>2, FirstSteps, BuiltRecords
  <2> QED
    BY <2>1, ApprovalScript, FreeStepsValid, NoEventNoMutation DEF FollowedBy, StepDoes
<1> QED
  BY <1>1, <1>2

LEMMA ShortIndices ==
  \A n \in {1, 2} : /\ \A i \in 1..n : i = 1 \/ (i = 2 /\ n = 2)
                    /\ \A i \in 1..(n - 1) : i = 1 /\ n = 2
<1>1. \A i \in 1..1 : i = 1
  OBVIOUS
<1>2. \A i \in 1..2 : i = 1 \/ i = 2
  OBVIOUS
<1>3. \A i \in 1..(1 - 1) : FALSE
  OBVIOUS
<1>4. \A i \in 1..(2 - 1) : i = 1
  OBVIOUS
<1>5. ASSUME NEW n, n = 1
      PROVE  /\ \A i \in 1..n : i = 1 \/ (i = 2 /\ n = 2)
             /\ \A i \in 1..(n - 1) : i = 1 /\ n = 2
  BY <1>1, <1>3, <1>5
<1>6. ASSUME NEW n, n = 2
      PROVE  /\ \A i \in 1..n : i = 1 \/ (i = 2 /\ n = 2)
             /\ \A i \in 1..(n - 1) : i = 1 /\ n = 2
  BY <1>2, <1>4, <1>6
<1> QED
  BY <1>5, <1>6

LEMMA BuiltConstructible ==
  ASSUME NEW family, NEW student, BuiltAs(family, student)
  PROVE  Constructible(pkg)
<1>1. family \in AllFamilies /\ BuiltKind(pkg.event, family)
  BY BuiltKinds DEF BuiltAs
<1>2. ScriptValid(pkg.steps)
  <2>1. pkg.steps # <<>>
    BY FirstSteps
  <2>2. \A i \in DOMAIN pkg.steps : StepValid(pkg.steps[i])
    <3>0. Len(pkg.steps) \in {1, 2} /\ DOMAIN pkg.steps = 1..Len(pkg.steps)
      BY FirstSteps
    <3>1. \A i \in DOMAIN pkg.steps : i = 1 \/ (i = 2 /\ Len(pkg.steps) = 2)
      BY <3>0, ShortIndices
    <3> QED
      BY <3>1, FirstSteps, SecondSteps
  <2>3. \A i \in 1..(Len(pkg.steps) - 1) :
          pkg.steps[i].result \in Successes \/ pkg.steps[i].retryable
    <3>0. Len(pkg.steps) \in {1, 2}
      BY FirstSteps
    <3>1. \A i \in 1..(Len(pkg.steps) - 1) : i = 1 /\ Len(pkg.steps) = 2
      BY <3>0, ShortIndices
    <3> QED
      BY <3>1, FirstSteps
  <2> QED
    BY <2>1, <2>2, <2>3 DEF ScriptValid
<1>3. ScenarioValid(pkg)
  <2>1. /\ \A x \in pkg.initial, y \in pkg.final : x.name # y.name
        /\ \A x \in pkg.initial \cup pkg.final, y \in pkg.invalid : x.name # y.name
    <3>1. /\ \A x \in pkg.initial : x.name \in InitialNames
          /\ \A x \in pkg.final : x.name \in FinalNames
          /\ \A x \in pkg.invalid : x.name \in InvalidNames
      BY InitialPaths, FinalPaths, InvalidPaths DEF PathsFit
    <3> QED
      BY <3>1 DEF InitialNames, FinalNames, InvalidNames
  <2>2. /\ pkg.family = family /\ (pkg.human <=> family \in NeedsApproval)
        /\ pkg.linked = IF family \in NeedsStatePair THEN States ELSE {"pref"}
    BY BuiltRecords
  <2>3. family = "S7" => pkg.event.type \in DynamicEvents
    BY BuiltEvents, EventFields
  <2>4. pkg.event.type \in ApprovalEvents => pkg.human
    BY <1>1, <2>2, KindFields
  <2>5. pkg.event.target \in States => pkg.event.target \in pkg.linked
    BY <1>1, <2>2, KindFields DEF States
  <2>6. /\ pkg.outcome = "RESOLVED" => pkg.initial # {}
        /\ family = "S7" => pkg.final # {}
    BY InitialPaths, FinalPaths
  <2> QED
    BY <2>1, <2>2, <2>3, <2>4, <2>5, <2>6 DEF ScenarioValid
<1>4. CaseValid(pkg) /\ EventValid(pkg.event)
  BY <1>1, BuiltIntake, BuiltEventValid DEF CaseValid
<1> QED
  BY <1>2, <1>3, <1>4 DEF Constructible

-----------------------------------------------------------------------------
(* What was built is accepted *)

LEMMA VersionsOfShortScripts ==
  ASSUME PackageShape(pkg), NEW t \in Targets, Len(pkg.steps) \in {1, 2}
  PROVE  /\ Predicted(pkg)[1][t] = 1
         /\ Len(pkg.steps) = 2 =>
              Predicted(pkg)[2][t] = IF pkg.steps[1].mutation.target = t
                                     THEN pkg.steps[1].mutation.from + 1 ELSE 1
<1>1. DOMAIN pkg.steps = 1..Len(pkg.steps) /\ 1 \in DOMAIN pkg.steps
  BY ScriptLength DEF PackageShape
<1>2. /\ 1 \in 1..(Len(pkg.steps) + 1)
      /\ Len(pkg.steps) = 2 => 2 \in 1..(Len(pkg.steps) + 1)
  OBVIOUS
<1>3. VersionBefore(1, t) = 1
  <2>1. WritersBefore(1, t) = {}
    BY <1>1 DEF WritersBefore
  <2> QED
    BY <2>1 DEF VersionBefore
<1>4. Predicted(pkg)[1][t] = 1
  BY <1>2, <1>3, PredictedVersion
<1>5. ASSUME Len(pkg.steps) = 2
      PROVE  Predicted(pkg)[2][t] = IF pkg.steps[1].mutation.target = t
                                    THEN pkg.steps[1].mutation.from + 1 ELSE 1
  <2>1. Predicted(pkg)[2][t] = VersionBefore(2, t)
    BY <1>2, <1>5, PredictedVersion
  <2>2. 1 + 1 = 2
    OBVIOUS
  <2>3. CASE pkg.steps[1].mutation.target = t
    <3>1. VersionBefore(1 + 1, t) = pkg.steps[1].mutation.from + 1
      BY <1>1, <2>3, WriterSetsVersion
    <3> QED
      BY <2>1, <2>2, <2>3, <3>1
  <2>4. CASE pkg.steps[1].mutation.target # t
    <3>1. VersionBefore(1 + 1, t) = VersionBefore(1, t)
      BY <1>1, <2>4, OthersKeepVersion
    <3> QED
      BY <1>3, <2>1, <2>2, <2>4, <3>1
  <2> QED
    BY <2>3, <2>4
<1> QED
  BY <1>4, <1>5

\* _check_scripts, for one step
StepChecked(i) ==
  /\ CheckEventTarget(pkg, pkg.steps[i])
  /\ pkg.steps[i].approval => Known(pkg, "approval")
  /\ pkg.steps[i].approval /\ pkg.steps[i].event = NoEvent
       /\ pkg.steps[i].action # "REQUEST_APPROVAL" /\ pkg.steps[i].result \in Successes =>
         pkg.steps[i].pre["approval"] = 2
  /\ pkg.steps[i].action = "SUBMIT_REGISTRATION" =>
       pkg.steps[i].state # "none" /\ pkg.steps[i].pre[pkg.steps[i].state] # 0
  /\ CheckMutations(pkg, i)

\* The versions a step is bound to: those of one target, or of none.
LEMMA Bindings ==
  /\ \A t \in Targets : Unbound[t] = 0
  /\ \A t, s \in Targets : \A version : Bound(t, version)[s] = IF s = t THEN version ELSE 0
BY DEF Bound, Unbound

\* What the first step is bound to, and what it names.
LEMMA FirstStepBinds ==
  ASSUME NEW family, NEW student, BuiltAs(family, student)
  PROVE  /\ \A t \in Targets : pkg.steps[1].pre[t] # 0 =>
              pkg.steps[1].pre[t] = 1 /\ (t \in States \/ family \in NeedsApproval)
         /\ pkg.steps[1].approval <=> family \in NeedsApproval
         /\ family \in NeedsApproval => pkg.steps[1].action = "REQUEST_APPROVAL"
         /\ pkg.steps[1].action = "SUBMIT_REGISTRATION" =>
              pkg.steps[1].state # "none" /\ pkg.steps[1].pre[pkg.steps[1].state] # 0
         /\ pkg.steps[1].state = "alt" => family = "S1"
         /\ pkg.steps[1].state \in {"none", "pref", "alt"}
         /\ pkg.steps[1].state = "none" \/ family \in {"S1", "S6", "S7"}
         /\ pkg.steps[1].action = "SUBMIT_REGISTRATION" => family \in {"S1", "S7"}
<1>1. family \in AllFamilies
  BY DEF BuiltAs
<1>2. "pref" \in Targets /\ "alt" \in Targets /\ "approval" \in Targets
  BY DEF Targets, States
<1>3. CASE family = "S1"
  BY <1>2, <1>3, RegistrationScript, Bindings, FamiliesNeed
     DEF StepNames, StepDoes, States
<1>4. CASE family = "S3"
  BY <1>4, ExceptionScript, Bindings, FamiliesNeed DEF StepNames, StepDoes
<1>5. CASE family = "S6"
  <2>1. pkg.steps[1].pre \in {Unbound, Bound("pref", 1)}
    BY <1>5, IncompleteScript DEF StepDoes
  <2>2. pkg.steps[1].action = "SUBMIT_EXCEPTION" /\ ~pkg.steps[1].approval
        /\ pkg.steps[1].state \in {"none", "pref"}
    BY <1>5, IncompleteScript DEF StepNames
  <2> QED
    BY <1>2, <1>5, <2>1, <2>2, Bindings, FamiliesNeed DEF States
<1>6. CASE family = "S7"
  BY <1>2, <1>6, RecoveryScript, Bindings, FamiliesNeed DEF StepNames, StepDoes, States
<1>7. CASE family \in NeedsApproval
  BY <1>2, <1>7, ApprovalScript, Bindings DEF StepNames, StepDoes
<1> QED
  BY <1>1, <1>3, <1>4, <1>5, <1>6, <1>7 DEF AllFamilies, NeedsApproval

\* The versions an event moves.
LEMMA EventWrites ==
  ASSUME NEW family, NEW student, BuiltAs(family, student), NEW written,
         written = MutationOf(pkg.event), written.target # "none"
  PROVE  /\ written.target = pkg.event.target /\ written.from = 1
         /\ written.target = "pref" \/ (written.target = "approval" /\ family \in NeedsApproval)
         /\ written.target = "approval" =>
              written.change = pkg.approval /\ pkg.approval \in Decisions
         /\ written.target = "pref" => written.change \in {"FULL", "WITHDRAWN", "WAITLIST"}
<1>1. BuiltKind(pkg.event, family)
  BY BuiltKinds
<1>2. pkg.event.type \in OfferingEvents \cup ApprovalEvents
  <2>1. pkg.event = NoEvent => pkg.event.type = "NONE"
    BY DEF NoEvent
  <2>2. pkg.event # NoEvent => pkg.event.type \in DOMAIN ResultOf
    BY <1>1, KindFields
  <2>3. pkg.event.type \notin {"NONE", "REQUIRED_INFORMATION_MISSING",
                               "TEMPORARY_TRANSACTION_FAILURE"}
    BY <1>1, MutationFields DEF NoMutation
  <2> QED
    BY <2>1, <2>2, <2>3 DEF ResultOf, OfferingEvents, ApprovalEvents
<1>3. /\ written.target = pkg.event.target /\ written.from = pkg.event.version
      /\ written.change = ChangeOf[pkg.event.type]
  BY <1>1, <1>2, MutationFields
<1>4. CASE pkg.event.type \in OfferingEvents
  <2>1. pkg.event.target = "pref" /\ pkg.event.version = 1
    BY <1>1, <1>4, KindFields
  <2> QED
    BY <1>3, <1>4, <2>1 DEF OfferingEvents, ChangeOf
<1>5. CASE pkg.event.type \in ApprovalEvents
  <2>1. pkg.event.target = "approval" /\ pkg.event.version = 1 /\ family \in NeedsApproval
    BY <1>1, <1>5, KindFields
  <2>2. pkg.approval \in Decisions /\ ChangeOf[pkg.event.type] = pkg.approval
    BY <1>5, <2>1, BuiltEvents DEF Decisions, ApprovalEvents, ChangeOf
  <2> QED
    BY <1>3, <2>1, <2>2
<1> QED
  BY <1>2, <1>4, <1>5

LEMMA FirstStepChecked ==
  ASSUME NEW family, NEW student, BuiltAs(family, student), PackageShape(pkg)
  PROVE  StepChecked(1)
<1> DEFINE step == pkg.steps[1]
<1>1. /\ BuiltKind(pkg.event, family) /\ Len(pkg.steps) \in {1, 2}
      /\ step.event = pkg.event /\ step.mutation = MutationOf(pkg.event)
  BY BuiltKinds, FirstSteps
<1>2. Known(pkg, "approval") <=> family \in NeedsApproval
  BY BuiltRecords DEF Known, States
<1>3. \A s \in States : Known(pkg, s)
  BY DEF Known
<1>4. CheckEventTarget(pkg, step)
  <2>1. pkg.event # NoEvent => pkg.event.target = "case" \/ Known(pkg, pkg.event.target)
    BY <1>1, <1>2, <1>3, KindFields DEF States
  <2>2. ASSUME pkg.event.target = "approval" PROVE step.approval /\ step.mutation.observable
    <3>1. family \in NeedsApproval /\ pkg.event.type \in ApprovalEvents
      BY <1>1, <2>2, KindFields
    <3> QED
      BY <1>1, <2>2, <3>1, FirstStepBinds, MutationFields
  <2> QED
    BY <1>1, <2>1, <2>2 DEF CheckEventTarget
<1>5. CheckMutations(pkg, 1)
  <2>1. \A t \in Targets : Predicted(pkg)[1][t] = 1
    BY <1>1, VersionsOfShortScripts
  <2>2. \A t \in Targets : step.pre[t] # 0 => Known(pkg, t) /\ step.pre[t] = Predicted(pkg)[1][t]
    BY <1>2, <1>3, <2>1, FirstStepBinds DEF Targets
  <2>3. ASSUME step.mutation.target # "none"
        PROVE  /\ Known(pkg, step.mutation.target)
               /\ step.mutation.from = Predicted(pkg)[1][step.mutation.target]
               /\ IF step.mutation.target = "approval"
                  THEN step.mutation.change \in Decisions
                       /\ DecisionFits(pkg.approval, step.mutation.change)
                  ELSE step.mutation.change \in {"FULL", "WITHDRAWN", "WAITLIST"}
    <3>1. /\ step.mutation.from = 1
          /\ step.mutation.target = "pref"
               \/ (step.mutation.target = "approval" /\ family \in NeedsApproval)
          /\ step.mutation.target = "approval" =>
               step.mutation.change = pkg.approval /\ pkg.approval \in Decisions
          /\ step.mutation.target = "pref" =>
               step.mutation.change \in {"FULL", "WITHDRAWN", "WAITLIST"}
      BY <1>1, <2>3, EventWrites
    <3> QED
      BY <1>2, <1>3, <2>1, <3>1 DEF DecisionFits, Targets, States
  <2> QED
    BY <2>2, <2>3 DEF CheckMutations
<1> QED
  BY <1>2, <1>4, <1>5, FirstStepBinds DEF StepChecked

LEMMA SecondStepChecked ==
  ASSUME NEW family, NEW student, BuiltAs(family, student), PackageShape(pkg),
         Len(pkg.steps) = 2
  PROVE  StepChecked(2)
<1> DEFINE step == pkg.steps[2]
           first == pkg.steps[1].mutation
           seen(t) == IF first.target = t THEN first.from + 1 ELSE 1
<1>1. /\ BuiltKind(pkg.event, family) /\ first = MutationOf(pkg.event)
      /\ step.event = NoEvent /\ step.mutation = NoMutation /\ step.result = "SUCCESS"
  BY BuiltKinds, FirstSteps, SecondSteps
<1>2. \A t \in Targets : Predicted(pkg)[2][t] = seen(t)
  BY VersionsOfShortScripts
<1>3. "pref" \in Targets /\ "alt" \in Targets /\ "approval" \in Targets
  BY DEF Targets, States
<1>4. CheckEventTarget(pkg, step)
  BY <1>1 DEF CheckEventTarget, NoEvent
<1>5. seen("alt") = 1
  BY <1>1, EventWrites
<1>6. CASE family = "S7"
  <2>1. /\ step.action = "SUBMIT_REGISTRATION" /\ step.state = "alt" /\ ~step.approval
        /\ step.pre = Bound("alt", 1)
    BY <1>6, RecoveryScript DEF StepNames, StepDoes
  <2>2. \A t \in Targets : step.pre[t] # 0 => t = "alt" /\ step.pre[t] = 1
    BY <1>3, <2>1, Bindings
  <2>3. step.pre["alt"] # 0
    BY <1>3, <2>1, Bindings
  <2>4. CheckMutations(pkg, 2)
    <3>1. \A t \in Targets : step.pre[t] # 0 =>
            Known(pkg, t) /\ step.pre[t] = Predicted(pkg)[2][t]
      BY <1>2, <1>3, <1>5, <2>2 DEF Known, States
    <3> QED
      BY <1>1, <3>1 DEF CheckMutations, NoMutation
  <2> QED
    BY <1>4, <2>1, <2>3, <2>4 DEF StepChecked
<1>7. CASE family # "S7"
  <2>1. family \in NeedsApproval /\ pkg.approval = "APPROVED"
    BY <1>7, FirstSteps, BuiltRecords
  <2>2. FollowedBy(step, family)
    BY <2>1, ApprovalScript
  <2>3. first.target = "approval" /\ first.from = 1
    <3>1. pkg.event.type = "APPROVAL_GRANTED"
      BY <2>1, BuiltEvents
    <3>2. first.target = pkg.event.target /\ first.from = pkg.event.version
      BY <1>1, <3>1, MutationFields DEF ApprovalEvents
    <3> QED
      BY <1>1, <2>1, <3>2, KindFields
  <2>4. seen("approval") = 2
    BY <2>3
  <2>5. Known(pkg, "approval") /\ Known(pkg, "alt")
    BY <2>1, BuiltRecords DEF Known, States
  <2>6. /\ step.pre["approval"] = 2
        /\ \A t \in Targets : step.pre[t] # 0 =>
             \/ t = "approval"
             \/ t = "alt" /\ step.pre[t] = 1
        /\ family = "S4" => step.pre["alt"] = 1
    <3>1. CASE family = "S4"
      <4>1. step.pre = [Bound("approval", 2) EXCEPT !["alt"] = 1]
        BY <2>2, <3>1 DEF FollowedBy, StepDoes
      <4>2. DOMAIN Bound("approval", 2) = Targets
        BY DEF Bound, Unbound
      <4>3. /\ step.pre["alt"] = 1
            /\ \A t \in Targets : t # "alt" => step.pre[t] = Bound("approval", 2)[t]
        BY <1>3, <4>1, <4>2
      <4> QED
        BY <1>3, <4>3, Bindings
    <3>2. CASE family # "S4"
      <4>1. step.pre = Bound("approval", 2)
        BY <2>2, <3>2 DEF FollowedBy, StepDoes
      <4> QED
        BY <1>3, <3>2, <4>1, Bindings
    <3> QED
      BY <3>1, <3>2
  <2>7. step.action = "SUBMIT_REGISTRATION" => step.state = "alt" /\ step.pre["alt"] # 0
    <3>1. step.action = "SUBMIT_REGISTRATION" => family = "S4"
      BY <2>1, <2>2 DEF FollowedBy, StepNames, NeedsApproval
    <3>2. family = "S4" => step.state = "alt"
      BY <2>2 DEF FollowedBy, StepNames
    <3> QED
      BY <2>6, <3>1, <3>2
  <2>8. CheckMutations(pkg, 2)
    <3>1. \A t \in Targets : step.pre[t] # 0 =>
            Known(pkg, t) /\ step.pre[t] = Predicted(pkg)[2][t]
      BY <1>2, <1>3, <1>5, <2>4, <2>5, <2>6
    <3> QED
      BY <1>1, <3>1 DEF CheckMutations, NoMutation
  <2> QED
    BY <1>4, <2>5, <2>6, <2>7, <2>8 DEF StepChecked
<1> QED
  BY <1>6, <1>7

LEMMA BuiltScriptsChecked ==
  ASSUME NEW family, NEW student, BuiltAs(family, student), PackageShape(pkg)
  PROVE  CheckScripts(pkg)
<1>1. Len(pkg.steps) \in {1, 2} /\ DOMAIN pkg.steps = 1..Len(pkg.steps)
  BY FirstSteps
<1>2. \A i \in DOMAIN pkg.steps : i = 1 \/ (i = 2 /\ Len(pkg.steps) = 2)
  BY <1>1, ShortIndices
<1>3. \A i \in DOMAIN pkg.steps : StepChecked(i)
  BY <1>2, FirstStepChecked, SecondStepChecked
<1> QED
  BY <1>3 DEF StepChecked, CheckScripts

\* The class the second step names.
LEMMA SecondStepNames ==
  ASSUME NEW family, NEW student, BuiltAs(family, student), Len(pkg.steps) = 2
  PROVE  /\ pkg.steps[2].state \in {"none", "alt"}
         /\ pkg.steps[2].state = "alt" => family \in {"S4", "S7"}
         /\ pkg.steps[2].action = "SUBMIT_REGISTRATION" => family \in {"S4", "S7"}
<1>1. CASE family = "S7"
  BY <1>1, RecoveryScript DEF StepNames
<1>2. CASE family # "S7"
  <2>1. family \in NeedsApproval /\ pkg.approval = "APPROVED"
    BY <1>2, FirstSteps, BuiltRecords
  <2> QED
    BY <2>1, ApprovalScript DEF FollowedBy, StepNames, NeedsApproval
<1> QED
  BY <1>1, <1>2

\* The result a built script ends in.
LEMMA Terminals ==
  ASSUME NEW family, NEW student, BuiltAs(family, student)
  PROVE  CheckOutcome(pkg)
<1> DEFINE terminal == pkg.steps[Len(pkg.steps)].result
<1>1. family \in AllFamilies
  BY DEF BuiltAs
<1>2. \A p : p \in {"S1", "S3", "S6", "S7"} => p \notin NeedsApproval
  BY DEF NeedsApproval
<1>3. CASE family \in {"S1", "S7"}
  <2>1. pkg.approval = "NONE" /\ pkg.outcome = "RESOLVED"
    BY <1>2, <1>3, BuiltRecords, BuiltOutcomes
  <2>2. terminal = "SUCCESS"
    BY <1>3, RegistrationScript, RecoveryScript DEF StepDoes
  <2> QED
    BY <2>1, <2>2 DEF CheckOutcome, OutcomeOf, Successes
<1>4. CASE family = "S3"
  <2>1. pkg.approval = "NONE"
    BY <1>2, <1>4, BuiltRecords
  <2>2. pkg.outcome = IF pkg.indeterminate THEN "CLARIFICATION_REQUIRED" ELSE "RESOLVED"
    BY <1>4, BuiltOutcomes
  <2>3. terminal = IF pkg.indeterminate THEN "REQUIRED_INFORMATION_MISSING" ELSE "SUCCESS"
    BY <1>4, ExceptionScript DEF StepDoes
  <2>4. OutcomeOf("REQUIRED_INFORMATION_MISSING", "NONE") = "CLARIFICATION_REQUIRED"
    BY DEF OutcomeOf, Successes
  <2>5. OutcomeOf("SUCCESS", "NONE") = "RESOLVED"
    BY DEF OutcomeOf, Successes
  <2>6. pkg.outcome = OutcomeOf(terminal, pkg.approval)
    BY <2>1, <2>2, <2>3, <2>4, <2>5
  <2> QED
    BY <2>1, <2>6 DEF CheckOutcome
<1>5. CASE family = "S6"
  <2>1. pkg.approval = "NONE"
    BY <1>2, <1>5, BuiltRecords
  <2>2. pkg.outcome = IF pkg.ready = "NO" THEN "CLARIFICATION_REQUIRED" ELSE "ESCALATED"
    BY <1>5, BuiltOutcomes
  <2>3. terminal = IF pkg.ready = "NO" THEN "REQUIRED_INFORMATION_MISSING" ELSE "CLASS_UNAVAILABLE"
    BY <1>5, IncompleteScript DEF StepDoes
  <2>4. OutcomeOf("REQUIRED_INFORMATION_MISSING", "NONE") = "CLARIFICATION_REQUIRED"
    BY DEF OutcomeOf, Successes
  <2>5. OutcomeOf("CLASS_UNAVAILABLE", "NONE") = "ESCALATED"
    BY DEF OutcomeOf, Successes
  <2>6. pkg.outcome = OutcomeOf(terminal, pkg.approval)
    BY <2>1, <2>2, <2>3, <2>4, <2>5
  <2> QED
    BY <2>1, <2>6 DEF CheckOutcome
<1>6. CASE family \in NeedsApproval
  <2>1. pkg.approval \in Decisions
    BY <1>6, BuiltEvents
  <2>2. CASE pkg.approval = "APPROVED"
    <3>1. terminal = "SUCCESS" /\ pkg.outcome = "RESOLVED"
      BY <1>6, <2>2, ApprovalScript, BuiltOutcomes DEF FollowedBy, StepDoes
    <3> QED
      BY <2>2, <3>1 DEF CheckOutcome, OutcomeOf, Successes
  <2>3. CASE pkg.approval = "REJECTED"
    <3>1. terminal = "APPROVAL_REJECTED" /\ pkg.outcome = "ESCALATED"
      BY <1>6, <2>3, ApprovalScript, BuiltEvents, BuiltOutcomes DEF StepDoes, ResultOf
    <3> QED
      BY <2>3, <3>1 DEF CheckOutcome, OutcomeOf
  <2>4. CASE pkg.approval = "PENDING"
    <3>1. terminal = "APPROVAL_PENDING" /\ pkg.outcome = "PENDING_APPROVAL"
      BY <1>6, <2>4, ApprovalScript, BuiltEvents, BuiltOutcomes DEF StepDoes, ResultOf
    <3> QED
      BY <2>4, <3>1 DEF CheckOutcome, OutcomeOf
  <2> QED
    BY <2>1, <2>2, <2>3, <2>4 DEF Decisions
<1> QED
  BY <1>1, <1>3, <1>4, <1>5, <1>6 DEF AllFamilies, NeedsApproval

LEMMA BuiltPathsChecked ==
  ASSUME NEW family, NEW student, BuiltAs(family, student)
  PROVE  CheckPaths(pkg) /\ CheckBindings(pkg) /\ CheckContext(pkg)
<1>1. /\ \A s \in States : pkg.seats[s] = 1
      /\ pkg.linked = IF family \in NeedsStatePair THEN States ELSE {"pref"}
      /\ pkg.offers = States
      /\ \A s \in States : pkg.observed[s] = IF s \in pkg.linked THEN 1 ELSE 0
      /\ pkg.approval # "NONE" <=> family \in NeedsApproval
  BY BuiltRecords
<1>2. CheckPaths(pkg)
  <2>1. \A x \in pkg.initial \cup pkg.final \cup pkg.invalid :
          /\ x.state # "none" => x.state \in States /\ family \in NeedsStatePair
          /\ x.approval => family \in NeedsApproval
    BY InitialPaths, FinalPaths, InvalidPaths DEF PathsFit
  <2> QED
    BY <1>1, <2>1 DEF CheckPaths, InitiallyUsable, Known
<1>3. CheckBindings(pkg)
  <2>1. Len(pkg.steps) \in {1, 2} /\ DOMAIN pkg.steps = 1..Len(pkg.steps)
    BY FirstSteps
  <2>2. \A i \in DOMAIN pkg.steps : i = 1 \/ (i = 2 /\ Len(pkg.steps) = 2)
    BY <2>1, ShortIndices
  <2>3. pkg.steps[1].state \in pkg.linked \cup {"none"}
    BY <1>1, FirstStepBinds, FamiliesNeed DEF States
  <2>4. Len(pkg.steps) = 2 => pkg.steps[2].state \in pkg.linked \cup {"none"}
    BY <1>1, SecondStepNames, FamiliesNeed DEF States
  <2> QED
    BY <2>2, <2>3, <2>4 DEF CheckBindings
<1>4. CheckContext(pkg)
  BY <1>1 DEF CheckContext, States
<1> QED
  BY <1>2, <1>3, <1>4

LEMMA BuiltPairsChecked ==
  ASSUME NEW family, NEW student, BuiltAs(family, student), family \in NeedsStatePair
  PROVE  CheckStatePair(pkg)
<1>1. /\ pkg.pair = <<"pref", "alt">> /\ pkg.linked = States /\ pkg.family = family
      /\ \A s \in States : pkg.seats[s] = 1
      /\ pkg.clashes = (IF family = "S7" THEN {} ELSE {"pref"})
      /\ pkg.prerequisite = "PASS" /\ ~pkg.overload
  BY BuiltRecords, BuiltStudents
<1>2. pkg.pair[1] = "pref" /\ pkg.pair[2] = "alt" /\ "pref" # "alt"
  BY <1>1
<1>3. \A s \in {"pref", "alt"} : s \in pkg.linked /\ InitiallyUsable(pkg, s)
  BY <1>1 DEF InitiallyUsable, States
<1>4. ("pref" \in pkg.clashes <=> pkg.family # "S7") /\ "alt" \notin pkg.clashes
  BY <1>1
<1> DEFINE first == {x.state : x \in pkg.initial} \ {"none"}
           last == {x.state : x \in pkg.final} \ {"none"}
<1>5. ASSUME family = "S7"
      PROVE  /\ "pref" \in first /\ "alt" \in last /\ last \ first # {}
             /\ pkg.event.type \in {"VACANCY_BECOMES_ZERO", "CLASS_BECOMES_UNAVAILABLE"} =>
                  "pref" \notin last
  <2>1. "pref" \in first
    BY <1>5, InitialPaths
  <2>2. "alt" \in last
    BY <1>5, FinalPaths
  <2>3. \A x \in pkg.initial : x.state = "pref"
    <3>1. pkg.initial = {Path("pre-event-index", "pref", 1, FALSE)}
      BY <1>5, FamiliesNeed DEF BuiltAs, BuiltPackage, BuiltInitial
    <3> QED
      BY <3>1 DEF Path
  <2>4. "alt" \notin first
    BY <2>3
  <2>5. pkg.event.type \in {"VACANCY_BECOMES_ZERO", "CLASS_BECOMES_UNAVAILABLE"} =>
          "pref" \notin last
    BY <1>5, FinalPaths
  <2> HIDE DEF first, last
  <2> QED
    BY <2>1, <2>2, <2>4, <2>5
<1> QED
  BY <1>1, <1>2, <1>3, <1>4, <1>5 DEF CheckStatePair

LEMMA BuiltFamilyChecked ==
  ASSUME NEW family, NEW student, BuiltAs(family, student)
  PROVE  CheckFamily(pkg)
<1>1. /\ family \in AllFamilies /\ BuiltKind(pkg.event, family)
      /\ pkg.family = family
      /\ pkg.linked = IF family \in NeedsStatePair THEN States ELSE {"pref"}
      /\ \A s \in States : pkg.seats[s] = 1
      /\ pkg.demanding <=> family = "S2"
      /\ pkg.onPath <=> family = "S5"
      /\ pkg.primary <=> family # "S5"
  BY BuiltKinds, BuiltRecords DEF BuiltAs
<1>2. CheckFeasibility(pkg)
  <2>1. Len(pkg.steps) \in {1, 2} /\ DOMAIN pkg.steps = 1..Len(pkg.steps)
    BY FirstSteps
  <2>2. \A i \in DOMAIN pkg.steps : i = 1 \/ (i = 2 /\ Len(pkg.steps) = 2)
    BY <2>1, ShortIndices
  <2>3. \A i \in DOMAIN pkg.steps :
          pkg.steps[i].action = "SUBMIT_REGISTRATION" /\ pkg.steps[i].result \in Successes =>
            /\ family \in NeedsStatePair
            /\ pkg.steps[i].state \in {"none", "alt"}
    <3>1. pkg.steps[1].action = "SUBMIT_REGISTRATION" => family \in {"S1", "S7"}
      BY FirstStepBinds
    <3>2. pkg.steps[1].result \in Successes /\ family = "S7" => FALSE
      <4>1. ASSUME family = "S7" PROVE pkg.steps[1].result \notin Successes
        <5>1. pkg.event.type \in DynamicEvents
          BY <4>1, BuiltEvents, EventFields
        <5> QED
          BY <4>1, <5>1, RecoveryScript
             DEF StepDoes, ResultOf, Successes, DynamicEvents, OfferingEvents
      <4> QED
        BY <4>1
    <3>3. family = "S1" => pkg.steps[1].state = "alt"
      BY RegistrationScript DEF StepNames
    <3> QED
      BY <2>2, <3>1, <3>2, <3>3, SecondStepNames, FamiliesNeed
  <2>4. family \in NeedsStatePair =>
          "alt" \notin pkg.clashes /\ pkg.prerequisite = "PASS" /\ ~pkg.overload
    BY BuiltStudents
  <2> QED
    BY <1>1, <2>3, <2>4 DEF CheckFeasibility, InitiallyUsable, States
<1>3. pkg.family \in NeedsStatePair => CheckStatePair(pkg)
  BY <1>1, BuiltPairsChecked
<1>4. ASSUME family = "S6"
      PROVE  \/ pkg.event.type = "REQUIRED_INFORMATION_MISSING" /\ pkg.event.target = "case"
             \/ pkg.event.type = "CLASS_BECOMES_UNAVAILABLE" /\ pkg.event.target \in pkg.linked
  <2>1. \/ pkg.event = Event("REQUIRED_INFORMATION_MISSING", "case", 0)
        \/ pkg.event = Event("CLASS_BECOMES_UNAVAILABLE", "pref", 1)
    BY <1>4, BuiltEvents, BuiltIntake
  <2> QED
    BY <1>1, <1>4, <2>1, EventFields, FamiliesNeed
<1> QED
  BY <1>1, <1>2, <1>3, <1>4 DEF CheckFamily

LEMMA BuiltEventChecked ==
  ASSUME NEW family, NEW student, BuiltAs(family, student)
  PROVE  CheckScenarioEvent(pkg)
<1>1. /\ BuiltKind(pkg.event, family) /\ Len(pkg.steps) \in {1, 2}
      /\ DOMAIN pkg.steps = 1..Len(pkg.steps)
      /\ pkg.steps[1].event = pkg.event
  BY BuiltKinds, FirstSteps
<1>2. \A i \in DOMAIN pkg.steps : i = 1 \/ (i = 2 /\ Len(pkg.steps) = 2)
  BY <1>1, ShortIndices
<1>3. \A i \in DOMAIN pkg.steps : i = 1 \/ pkg.steps[i].event = NoEvent
  BY <1>2, SecondSteps
<1>4. CASE pkg.event = NoEvent
  BY <1>1, <1>3, <1>4 DEF CheckScenarioEvent
<1>5. CASE pkg.event # NoEvent
  <2>1. pkg.event.target = "case" \/ Known(pkg, pkg.event.target)
    BY <1>1, <1>5, BuiltRecords, KindFields DEF Known, States
  <2>2. pkg.event.version \in {0, 1}
    BY <1>1, KindFields
  <2>3. ASSUME pkg.event.type \in ApprovalEvents PROVE ChangeOf[pkg.event.type] = pkg.approval
    <3>1. family \in NeedsApproval
      BY <1>1, <2>3, KindFields
    <3> QED
      BY <2>3, <3>1, BuiltEvents DEF Decisions, ApprovalEvents, ChangeOf
  <2>4. 1 \in DOMAIN pkg.steps /\ Meetings(pkg) = {1}
    BY <1>1, <1>3, <1>5 DEF Meetings
  <2> QED
    BY <1>5, <2>1, <2>2, <2>3, <2>4 DEF CheckScenarioEvent
<1> QED
  BY <1>4, <1>5

LEMMA BuiltIntakeChecked ==
  ASSUME NEW family, NEW student, BuiltAs(family, student)
  PROVE  CheckIntake(pkg)
<1>1. pkg.family = family
  BY BuiltRecords
<1>2. CASE family # "S6"
  BY <1>1, <1>2, BuiltIntake DEF CheckIntake
<1>3. CASE family = "S6"
  <2>1. pkg.ready \in {"NO", "YES"} /\ (pkg.questions <=> pkg.ready = "NO")
    BY <1>3, BuiltIntake
  <2>2. /\ pkg.ready = "NO" => pkg.event.type = "REQUIRED_INFORMATION_MISSING"
        /\ pkg.ready = "YES" => pkg.event.type = "CLASS_BECOMES_UNAVAILABLE"
    BY <1>3, BuiltEvents, EventFields
  <2> QED
    BY <1>1, <1>3, <2>1, <2>2 DEF CheckIntake
<1> QED
  BY <1>2, <1>3

LEMMA BuiltAccepted ==
  ASSUME NEW family, NEW student, BuiltAs(family, student), PackageShape(pkg)
  PROVE  Accepted(pkg)
<1>1. CheckApprovals(pkg) /\ (pkg.human <=> pkg.approval # "NONE")
  BY BuiltRecords DEF CheckApprovals
<1>2. CheckScenario(pkg)
  BY <1>1, BuiltPathsChecked, Terminals, BuiltIntakeChecked, BuiltFamilyChecked,
     BuiltEventChecked DEF CheckScenario
<1> QED
  BY <1>1, <1>2, BuiltScriptsChecked DEF Accepted

\* An untouched package is one that was built.
Frozen == edits \in Nat /\ (edits = 0 => \E family \in Families : pkg \in BuiltPackages(family))

VerdictInv ==
  /\ Frozen
  /\ edits = 0 => phase # "refused"

\* What was built is accepted: generator, model validators and cross-file validator
\* agree on every package.
LEMMA BuiltPackagesPass ==
  ASSUME PackageShape(pkg), NEW family \in Families, pkg \in BuiltPackages(family)
  PROVE  Constructible(pkg) /\ Accepted(pkg)
<1>1. PICK student \in Students(family) : pkg = BuiltPackage(family, student)
  BY DEF BuiltPackages
<1>2. BuiltAs(family, student)
  BY <1>1, ScenarioPackageAssumption DEF BuiltAs, AllFamilies
<1> QED
  BY <1>2, BuiltConstructible, BuiltAccepted

LEMMA VerdictInit == CampaignInit => VerdictInv
BY DEF CampaignInit, Init, VerdictInv, Frozen

LEMMA VerdictStep ==
  ASSUME PackageInv, VerdictInv, [CampaignNext]_campaignVars
  PROVE  VerdictInv'
<1>1. ASSUME UNCHANGED <<pkg, edits>>, phase' = "refused" => phase = "refused"
      PROVE  VerdictInv'
  BY <1>1 DEF VerdictInv, Frozen
<1>2. CASE Edit
  <2>1. edits' = edits + 1 /\ edits \in Nat
    BY <1>2 DEF Edit, VerdictInv, Frozen
  <2>2. edits' \in Nat /\ edits' # 0
    BY <2>1
  <2> QED
    BY <2>2 DEF VerdictInv, Frozen
<1>3. CASE Validate
  <2>1. UNCHANGED <<pkg, edits>> /\ phase' = IF Constructible(pkg) /\ Accepted(pkg)
                                            THEN "accepted" ELSE "refused"
    BY <1>3 DEF Validate
  <2>2. edits = 0 => Constructible(pkg) /\ Accepted(pkg)
    BY BuiltPackagesPass DEF VerdictInv, Frozen, PackageInv
  <2> QED
    BY <2>1, <2>2 DEF VerdictInv, Frozen
<1>4. CASE Replay
  <2>1. UNCHANGED <<pkg, edits>> /\ phase = "accepted" /\ phase' \in {"replayed", "accepted", "stuck"}
    BY <1>4 DEF Replay
  <2> QED
    BY <1>1, <2>1
<1>5. CASE RunStep
  <2>1. UNCHANGED <<pkg, edits>> /\ (phase' = phase \/ phase' \in {"running", "graded"})
    BY <1>5 DEF RunStep, StartRun, Intake, Planner, ResolutionBuilder, VerifierPreAction,
                ActionGate, HumanApproval, Transaction, VerifierPostAction, HumanAdminReview,
                AnswerClarification, ObserveApproval, Grade, Running, Reads, Continue, Perform,
                FollowDecision
  <2> QED
    BY <1>1, <2>1
<1>6. CASE UNCHANGED campaignVars
  BY <1>1, <1>6 DEF campaignVars, vars
<1> QED
  BY <1>2, <1>3, <1>4, <1>5, <1>6 DEF CampaignNext, PackageStep, Next

\* The generator (scripts/build_simulated_data.py), the model validators
\* (models/workflow.py) and the cross-file validator (data/simulated/validator.py) state
\* the rules of a scenario three times over; nothing the first builds is refused by the
\* others, at any position of any family, for any student it may pick.
THEOREM BuiltPackagesAreAccepted == CampaignSpec => []BuiltPackagesAccepted
<1>1. VerdictInv => BuiltPackagesAccepted
  BY DEF VerdictInv, BuiltPackagesAccepted
<1>2. PackageInv /\ VerdictInv /\ [CampaignNext]_campaignVars => VerdictInv'
  BY VerdictStep
<1> QED
  BY <1>1, <1>2, VerdictInit, PackageInvHolds, PTL DEF CampaignSpec

-----------------------------------------------------------------------------
(* The sessions of what was built *)

\* The session after the first step.
CaseAfterFirst(family) ==
  CASE family = "S1" -> "RESOLVED"
    [] family = "S3" -> IF pkg.indeterminate THEN "WAITING_FOR_STUDENT" ELSE "RESOLVED"
    [] family = "S6" -> IF pkg.ready = "NO" THEN "WAITING_FOR_STUDENT" ELSE "OPEN"
    [] family = "S7" -> "OPEN"
    [] OTHER -> IF pkg.approval = "APPROVED" THEN "READY_FOR_ACTION"
                ELSE IF pkg.approval = "PENDING" THEN "WAITING_FOR_APPROVAL" ELSE "INVESTIGATING"

FirstDone(family) ==
  /\ world.cursor = 2 /\ world.case = CaseAfterFirst(family)
  /\ world.registered = IF family = "S1" THEN {"alt"} ELSE {}
  /\ family \in {"S4", "S7"} =>
       "alt" \in world.open /\ world.seats["alt"] = 1 /\ world.version["alt"] = 1
  /\ family \in NeedsApproval =>
       world.seen /\ world.decision = pkg.approval /\ world.version["approval"] = 2

\* The session after the second.
SecondDone(family) ==
  /\ world.cursor = 3 /\ world.case = "RESOLVED"
  /\ world.registered = IF family \in {"S4", "S7"} THEN {"alt"} ELSE {}

\* What a mutation leaves alone, and what a decision writes.
LEMMA MutatedWorlds ==
  ASSUME world = FreshWorld(pkg), NEW written, NEW after, after = Mutated(written),
         written.target \in {"none", "pref", "approval"}
  PROVE  /\ DOMAIN after = WorldFields /\ DOMAIN after.version = Targets
         /\ after.cursor = 1 /\ after.case = world.case /\ after.registered = {}
         /\ after.version["alt"] = 1 /\ after.seats["alt"] = world.seats["alt"]
         /\ "alt" \in pkg.linked => "alt" \in after.open
         /\ written.target = "approval" =>
              /\ (after.seen <=> written.observable) /\ after.decision = written.change
              /\ after.version["approval"] = 2
         /\ written.target = "none" => after = world
<1>1. CASE written.target = "none"
  BY <1>1 DEF Mutated, FreshWorld, WorldFields, Targets, States
<1>2. CASE written.target = "approval"
  <2>1. after = [world EXCEPT !.decision = written.change, !.version["approval"] = @ + 1,
                              !.seen = written.observable]
    BY <1>2 DEF Mutated
  <2> QED
    BY <1>2, <2>1 DEF FreshWorld, WorldFields, Targets, States
<1>3. CASE written.target = "pref"
  <2>1. after = [world EXCEPT !.version["pref"] = @ + 1,
                   !.seats["pref"] = IF written.change = "FULL" THEN 0 ELSE @,
                   !.open = IF written.change = "WITHDRAWN" THEN @ \ {"pref"} ELSE @]
    BY <1>3 DEF Mutated
  <2> QED
    BY <1>3, <2>1 DEF FreshWorld, WorldFields, Targets, States
<1> QED
  BY <1>1, <1>2, <1>3

LEMMA FirstExecutable ==
  ASSUME NEW family, NEW student, BuiltAs(family, student), PackageShape(pkg),
         world = FreshWorld(pkg)
  PROVE  Executable(pkg, pkg.steps[1])
<1> DEFINE step == pkg.steps[1]
<1>1. /\ family \in AllFamilies /\ step.mutation = MutationOf(pkg.event)
      /\ pkg.approval # "NONE" <=> family \in NeedsApproval
      /\ pkg.linked = IF family \in NeedsStatePair THEN States ELSE {"pref"}
      /\ \A s \in States : pkg.seats[s] = 1
  BY FirstSteps, BuiltRecords DEF BuiltAs
<1>2. /\ world.cursor = 1 /\ world.registered = {} /\ world.open = pkg.linked
      /\ \A t \in Targets : world.version[t] = 1
      /\ world.seats = pkg.seats
  BY DEF FreshWorld
<1>3. /\ family \in NeedsApproval => "approval" \in Held(pkg)
      /\ pkg.linked \subseteq Held(pkg)
  BY <1>1 DEF Held
<1>4. NamesTarget(step)
  <2>1. CASE family = "S1"
    BY <2>1, RegistrationScript DEF StepNames, NamesTarget
  <2>2. CASE family = "S3"
    BY <2>2, ExceptionScript DEF StepNames, NamesTarget
  <2>3. CASE family = "S6"
    BY <2>3, IncompleteScript DEF StepNames, NamesTarget
  <2>4. CASE family = "S7"
    BY <2>4, RecoveryScript DEF StepNames, NamesTarget
  <2>5. CASE family \in NeedsApproval
    BY <2>5, ApprovalScript DEF NamesTarget
  <2> QED
    BY <1>1, <2>1, <2>2, <2>3, <2>4, <2>5 DEF AllFamilies, NeedsApproval
<1>5. GateOpen(pkg, step)
  <2>1. CASE family \in NeedsApproval
    BY <1>1, <2>1, FirstStepBinds DEF GateOpen
  <2>2. CASE family \notin NeedsApproval
    <3>1. step.action # "REQUEST_APPROVAL"
      <4>1. CASE family = "S1"
        BY <4>1, RegistrationScript DEF StepNames
      <4>2. CASE family = "S3"
        BY <4>2, ExceptionScript DEF StepNames
      <4>3. CASE family = "S6"
        BY <4>3, IncompleteScript DEF StepNames
      <4>4. CASE family = "S7"
        BY <4>4, RecoveryScript DEF StepNames
      <4> QED
        BY <1>1, <2>2, <4>1, <4>2, <4>3, <4>4 DEF AllFamilies, NeedsApproval
    <3> QED
      BY <1>1, <2>2, <3>1 DEF GateOpen
  <2> QED
    BY <2>1, <2>2
<1>6. Current(pkg, step)
  <2> SUFFICES ASSUME NEW t \in Targets, step.pre[t] # 0
               PROVE  t \in Held(pkg) /\ step.pre[t] = world.version[t]
    BY DEF Current
  <2>1. step.pre[t] = 1 /\ (t \in States \/ family \in NeedsApproval)
    BY FirstStepBinds
  <2>2. t \in Held(pkg)
    <3>1. CASE family \in NeedsApproval
      <4>1. step.pre = Bound("approval", 1)
        BY <3>1, ApprovalScript DEF StepDoes
      <4>2. t = "approval"
        BY <4>1, Bindings DEF Targets
      <4> QED
        BY <1>3, <3>1, <4>2
    <3>2. CASE family \in NeedsStatePair /\ family \notin NeedsApproval
      BY <1>1, <1>3, <2>1, <3>2
    <3>3. CASE family = "S6"
      <4>1. step.pre \in {Unbound, Bound("pref", 1)}
        BY <3>3, IncompleteScript DEF StepDoes
      <4>2. "pref" \in Targets
        BY DEF Targets, States
      <4>3. t = "pref"
        BY <4>1, <4>2, Bindings
      <4> QED
        BY <1>1, <1>3, <4>3 DEF States
    <3>4. CASE family = "S3"
      <4>1. step.pre = Unbound
        BY <3>4, ExceptionScript DEF StepDoes
      <4> QED
        BY <4>1, Bindings
    <3> QED
      BY <1>1, <3>1, <3>2, <3>3, <3>4 DEF AllFamilies, NeedsApproval, NeedsStatePair
  <2> QED
    BY <1>2, <2>1, <2>2
<1>7. Applicable(pkg, step.mutation)
  <2> SUFFICES ASSUME step.mutation.target # "none"
               PROVE  /\ step.mutation.target \in Held(pkg)
                      /\ step.mutation.from = world.version[step.mutation.target]
                      /\ step.mutation.target = "approval" =>
                           DecisionFits(pkg.approval, step.mutation.change)
    BY DEF Applicable
  <2>1. /\ step.mutation.from = 1
        /\ step.mutation.target = "pref"
             \/ (step.mutation.target = "approval" /\ family \in NeedsApproval)
        /\ step.mutation.target = "approval" => step.mutation.change = pkg.approval
    BY <1>1, EventWrites
  <2>2. "pref" \in pkg.linked /\ "pref" \in Targets /\ "approval" \in Targets
    BY <1>1 DEF States, Targets
  <2> QED
    BY <1>2, <1>3, <2>1, <2>2 DEF DecisionFits
<1>8. Registers(step) => Registrable(pkg, step, Mutated(step.mutation))
  <2> SUFFICES ASSUME Registers(step) PROVE Registrable(pkg, step, Mutated(step.mutation))
    OBVIOUS
  <2>1. family \in {"S1", "S7"}
    BY FirstStepBinds DEF Registers
  <2>2. family # "S7"
    <3>1. ASSUME family = "S7" PROVE step.result \notin Successes
      <4>1. pkg.event.type \in DynamicEvents
        BY <3>1, BuiltEvents, EventFields
      <4> QED
        BY <3>1, <4>1, RecoveryScript
           DEF StepDoes, ResultOf, Successes, DynamicEvents, OfferingEvents
    <3> QED
      BY <3>1 DEF Registers, IsGoalEffect
  <2>3. step.state = "alt" /\ step.mutation = NoMutation
    BY <2>1, <2>2, RegistrationScript, NoEventNoMutation DEF StepNames, StepDoes
  <2>4. Mutated(step.mutation) = world
    BY <2>3 DEF Mutated, NoMutation
  <2>5. "alt" \in pkg.linked /\ pkg.seats["alt"] > 0 /\ ~pkg.overload
    <3>1. family \in NeedsStatePair
      BY <2>1, FamiliesNeed
    <3> QED
      BY <1>1, <3>1, BuiltStudents DEF States
  <2> QED
    BY <1>2, <2>3, <2>4, <2>5 DEF Registrable
<1> QED
  BY <1>4, <1>5, <1>6, <1>7, <1>8 DEF Executable

\* Whether the first step of a built script takes a seat, and what it makes of the case.
LEMMA FirstEffects ==
  ASSUME NEW family, NEW student, BuiltAs(family, student)
  PROVE  /\ Registers(pkg.steps[1]) <=> family = "S1"
         /\ \A case : case = FreshWorld(pkg).case =>
              CaseAfter(pkg.steps[1], case) = CaseAfterFirst(family)
<1> DEFINE step == pkg.steps[1]
<1>1. family \in AllFamilies
  BY DEF BuiltAs
<1>2. FreshWorld(pkg).case = IF family \in NeedsApproval THEN "WAITING_FOR_APPROVAL" ELSE "OPEN"
  BY BuiltRecords DEF FreshWorld
<1>3. CASE family = "S1"
  BY <1>3, RegistrationScript
     DEF StepNames, StepDoes, Registers, IsGoalEffect, Successes, CaseAfter, CaseAfterFirst
<1>4. CASE family = "S3"
  <2>1. /\ step.action = "SUBMIT_EXCEPTION"
        /\ step.result = IF pkg.indeterminate THEN "REQUIRED_INFORMATION_MISSING" ELSE "SUCCESS"
    BY <1>4, ExceptionScript DEF StepNames, StepDoes
  <2> QED
    BY <1>4, <2>1 DEF Registers, IsGoalEffect, Successes, CaseAfter, CaseAfterFirst
<1>5. CASE family = "S6"
  <2>1. /\ step.action = "SUBMIT_EXCEPTION"
        /\ step.result = IF pkg.ready = "NO" THEN "REQUIRED_INFORMATION_MISSING"
                         ELSE "CLASS_UNAVAILABLE"
    BY <1>5, IncompleteScript DEF StepNames, StepDoes
  <2>2. FreshWorld(pkg).case = "OPEN"
    BY <1>2, <1>5 DEF NeedsApproval
  <2> QED
    BY <1>5, <2>1, <2>2 DEF Registers, IsGoalEffect, Successes, CaseAfter, CaseAfterFirst
<1>6. CASE family = "S7"
  <2>1. pkg.event.type \in DynamicEvents
    BY <1>6, BuiltEvents, EventFields
  <2>2. /\ step.action = "SUBMIT_REGISTRATION"
        /\ step.result \notin Successes /\ step.result # "REQUIRED_INFORMATION_MISSING"
    BY <1>6, <2>1, RecoveryScript
       DEF StepNames, StepDoes, ResultOf, Successes, DynamicEvents, OfferingEvents
  <2>3. FreshWorld(pkg).case = "OPEN"
    BY <1>2, <1>6 DEF NeedsApproval
  <2> QED
    BY <1>6, <2>2, <2>3 DEF Registers, IsGoalEffect, CaseAfter, CaseAfterFirst
<1>7. CASE family \in NeedsApproval
  <2>1. step.action = "REQUEST_APPROVAL" /\ step.result = ResultOf[pkg.event.type]
    BY <1>7, ApprovalScript DEF StepNames, StepDoes
  <2>2. /\ pkg.approval = "APPROVED" => step.result = "SUCCESS"
        /\ pkg.approval = "REJECTED" => step.result = "APPROVAL_REJECTED"
        /\ pkg.approval = "PENDING" => step.result = "APPROVAL_PENDING"
        /\ pkg.approval \in Decisions
    BY <1>7, <2>1, BuiltEvents DEF ResultOf
  <2> QED
    BY <1>7, <2>1, <2>2 DEF Registers, IsGoalEffect, Successes, CaseAfter, CaseAfterFirst,
                            Decisions, NeedsApproval
<1> QED
  BY <1>1, <1>3, <1>4, <1>5, <1>6, <1>7 DEF AllFamilies, NeedsApproval

LEMMA FirstPerformed ==
  ASSUME NEW family, NEW student, BuiltAs(family, student), world = FreshWorld(pkg),
         UNCHANGED pkg, world' = Applied(pkg.steps[1], Mutated(pkg.steps[1].mutation))
  PROVE  FirstDone(family)'
<1> DEFINE step == pkg.steps[1]
           after == Mutated(step.mutation)
<1>1. /\ family \in AllFamilies /\ step.mutation = MutationOf(pkg.event)
      /\ pkg.linked = IF family \in NeedsStatePair THEN States ELSE {"pref"}
      /\ \A s \in States : pkg.seats[s] = 1
  BY FirstSteps, BuiltRecords DEF BuiltAs
<1>2. step.mutation.target \in {"none", "pref", "approval"}
  BY <1>1, EventWrites
<1>3. world.seats["alt"] = 1 /\ world.case = FreshWorld(pkg).case
  BY <1>1 DEF FreshWorld, States
<1>4. /\ DOMAIN after = WorldFields /\ DOMAIN after.version = Targets
      /\ after.cursor = 1 /\ after.case = world.case /\ after.registered = {}
      /\ after.version["alt"] = 1 /\ after.seats["alt"] = 1
      /\ "alt" \in pkg.linked => "alt" \in after.open
      /\ step.mutation.target = "approval" =>
           /\ (after.seen <=> step.mutation.observable) /\ after.decision = step.mutation.change
           /\ after.version["approval"] = 2
  <2> SUFFICES ASSUME NEW w, w = after
               PROVE  /\ DOMAIN w = WorldFields /\ DOMAIN w.version = Targets
                      /\ w.cursor = 1 /\ w.case = world.case /\ w.registered = {}
                      /\ w.version["alt"] = 1 /\ w.seats["alt"] = 1
                      /\ "alt" \in pkg.linked => "alt" \in w.open
                      /\ step.mutation.target = "approval" =>
                           /\ (w.seen <=> step.mutation.observable)
                           /\ w.decision = step.mutation.change
                           /\ w.version["approval"] = 2
    BY Zenon
  <2> QED
    BY <1>2, <1>3, MutatedWorlds
<1> HIDE DEF after
<1>5. /\ world'.cursor = 2 /\ world'.case = CaseAfter(step, after.case)
      /\ (world'.seen <=> after.seen) /\ world'.decision = after.decision
      /\ world'.open = after.open
      /\ world'.registered = IF Registers(step) THEN {step.state} ELSE {}
      /\ ~Registers(step) => /\ world'.seats["alt"] = 1 /\ world'.version["alt"] = 1
                             /\ world'.version["approval"] = after.version["approval"]
  <2>1. world' = Applied(step, after)
    BY DEF after
  <2>2. "alt" \in States /\ "alt" \in Targets /\ "approval" \in Targets
    BY DEF States, Targets
  <2>3. /\ world'.cursor = after.cursor + 1 /\ world'.case = CaseAfter(step, after.case)
        /\ (world'.seen <=> after.seen) /\ world'.decision = after.decision
        /\ world'.open = after.open
        /\ world'.registered = IF Registers(step) THEN after.registered \cup {step.state}
                               ELSE after.registered
        /\ ~Registers(step) => /\ \A s \in States : world'.seats[s] = after.seats[s]
                               /\ \A t \in Targets : world'.version[t] = after.version[t]
    <3> HIDE DEF step
    <3>1. world'.cursor = after.cursor + 1
      BY <1>4, <2>1 DEF Applied, WorldFields
    <3>2. world'.case = CaseAfter(step, after.case)
      BY <1>4, <2>1 DEF Applied, WorldFields
    <3>3. world'.seen = after.seen /\ world'.decision = after.decision
      BY <1>4, <2>1 DEF Applied, WorldFields
    <3>4. world'.open = after.open
      BY <1>4, <2>1 DEF Applied, WorldFields
    <3>5. world'.registered = IF Registers(step) THEN after.registered \cup {step.state}
                               ELSE after.registered
      BY <1>4, <2>1 DEF Applied, WorldFields
    <3>6. ASSUME ~Registers(step)
          PROVE  /\ \A s \in States : world'.seats[s] = after.seats[s]
                 /\ \A t \in Targets : world'.version[t] = after.version[t]
      <4>1. world'.seats = [s \in States |-> after.seats[s]]
        <5>1. world'.seats = [s \in States |-> IF Registers(step) /\ s = step.state
                                              THEN after.seats[s] - 1 ELSE after.seats[s]]
          BY <1>4, <2>1 DEF Applied, WorldFields
        <5> QED
          BY <3>6, <5>1
      <4>2. world'.version = [t \in Targets |-> after.version[t]]
        <5>1. world'.version = [t \in Targets |-> IF Registers(step) /\ t = step.state
                                                 THEN after.version[t] + 1 ELSE after.version[t]]
          BY <1>4, <2>1 DEF Applied, WorldFields
        <5> QED
          BY <3>6, <5>1
      <4> QED
        BY <4>1, <4>2
    <3> QED
      BY <3>1, <3>2, <3>3, <3>4, <3>5, <3>6
  <2> QED
    BY <1>4, <2>2, <2>3
<1>6. /\ world'.case = CaseAfterFirst(family)
      /\ Registers(step) <=> family = "S1"
  BY <1>3, <1>4, <1>5, FirstEffects
<1>7. world'.registered = IF family = "S1" THEN {"alt"} ELSE {}
  <2>1. family = "S1" => step.state = "alt"
    BY RegistrationScript DEF StepNames
  <2> QED
    BY <1>5, <1>6, <2>1
<1>8. family \in {"S4", "S7"} =>
        "alt" \in world'.open /\ world'.seats["alt"] = 1 /\ world'.version["alt"] = 1
  BY <1>1, <1>4, <1>5, <1>6, FamiliesNeed DEF States
<1>9. ASSUME family \in NeedsApproval
      PROVE  world'.seen /\ world'.decision = pkg.approval /\ world'.version["approval"] = 2
  <2>1. BuiltKind(pkg.event, family) /\ pkg.event.target = "approval"
        /\ pkg.event.type \in ApprovalEvents
    BY <1>9, BuiltKinds, KindFields
  <2>2. step.mutation.target = "approval" /\ step.mutation.observable
    BY <1>1, <2>1, MutationFields
  <2>3. step.mutation.change = pkg.approval
    BY <1>1, <2>2, EventWrites
  <2>4. ~Registers(step)
    BY <1>6, <1>9, FamiliesNeed
  <2> QED
    BY <1>4, <1>5, <2>2, <2>3, <2>4
<1>10. CaseAfterFirst(family)' = CaseAfterFirst(family)
  BY DEF CaseAfterFirst
<1> QED
  BY <1>5, <1>6, <1>7, <1>8, <1>9, <1>10 DEF FirstDone

\* The second step of a built script takes the class left, or sends what was approved.
LEMMA SecondEffects ==
  ASSUME NEW family, NEW student, BuiltAs(family, student), Len(pkg.steps) = 2
  PROVE  /\ family \in {"S2", "S4", "S5", "S7"}
         /\ Registers(pkg.steps[2]) <=> family \in {"S4", "S7"}
         /\ family \in {"S4", "S7"} => pkg.steps[2].state = "alt"
         /\ \A case : CaseAfter(pkg.steps[2], case) = "RESOLVED"
         /\ pkg.outcome = "RESOLVED"
         /\ family \in NeedsApproval => pkg.approval = "APPROVED" /\ FollowedBy(pkg.steps[2], family)
<1>1. family \in AllFamilies
  BY DEF BuiltAs
<1>2. CASE family = "S7"
  BY <1>2, RecoveryScript, BuiltOutcomes, FamiliesNeed
     DEF StepNames, StepDoes, Registers, IsGoalEffect, Successes, CaseAfter
<1>3. CASE family # "S7"
  <2>1. family \in NeedsApproval /\ pkg.approval = "APPROVED"
    BY <1>3, FirstSteps, BuiltRecords
  <2>2. FollowedBy(pkg.steps[2], family)
    BY <2>1, ApprovalScript
  <2>3. family \in {"S2", "S4", "S5"}
    BY <2>1 DEF NeedsApproval
  <2> QED
    BY <2>1, <2>2, <2>3, BuiltOutcomes
       DEF FollowedBy, StepNames, StepDoes, Registers, IsGoalEffect, Successes, CaseAfter
<1> QED
  BY <1>2, <1>3

\* The versions it is bound to are those the first step left.
LEMMA SecondStepBinds ==
  ASSUME NEW family, NEW student, BuiltAs(family, student), Len(pkg.steps) = 2,
         NEW t \in Targets, pkg.steps[2].pre[t] # 0
  PROVE  \/ t = "alt" /\ pkg.steps[2].pre[t] = 1 /\ family \in {"S4", "S7"}
         \/ t = "approval" /\ pkg.steps[2].pre[t] = 2 /\ family \in NeedsApproval
<1>1. "alt" \in Targets /\ "approval" \in Targets
  BY DEF Targets, States
<1>2. CASE family = "S7"
  <2>1. pkg.steps[2].pre = Bound("alt", 1)
    BY <1>2, RecoveryScript DEF StepDoes
  <2> QED
    BY <1>1, <1>2, <2>1, Bindings
<1>3. CASE family = "S4"
  <2>1. pkg.steps[2].pre = [Bound("approval", 2) EXCEPT !["alt"] = 1]
    BY <1>3, SecondEffects, FamiliesNeed DEF FollowedBy, StepDoes
  <2>2. DOMAIN Bound("approval", 2) = Targets
    BY DEF Bound, Unbound
  <2>3. /\ pkg.steps[2].pre["alt"] = 1
        /\ t # "alt" => pkg.steps[2].pre[t] = Bound("approval", 2)[t]
    BY <1>1, <2>1, <2>2
  <2> QED
    BY <1>1, <1>3, <2>3, Bindings, FamiliesNeed
<1>4. CASE family \notin {"S4", "S7"}
  <2>1. family \in NeedsApproval
    BY <1>4, SecondEffects, FamiliesNeed
  <2>2. pkg.steps[2].pre = Bound("approval", 2)
    BY <1>4, <2>1, SecondEffects DEF FollowedBy, StepDoes
  <2> QED
    BY <1>1, <2>1, <2>2, Bindings
<1> QED
  BY <1>2, <1>3, <1>4

LEMMA SecondExecutable ==
  ASSUME NEW family, NEW student, BuiltAs(family, student), Len(pkg.steps) = 2,
         FirstDone(family)
  PROVE  Executable(pkg, pkg.steps[2])
<1> DEFINE step == pkg.steps[2]
<1>1. /\ step.mutation = NoMutation /\ step.result = "SUCCESS"
      /\ family \in {"S2", "S4", "S5", "S7"}
      /\ pkg.approval # "NONE" <=> family \in NeedsApproval
      /\ pkg.linked = IF family \in NeedsStatePair THEN States ELSE {"pref"}
  BY SecondSteps, SecondEffects, BuiltRecords
<1>2. family = "S7" => /\ step.action = "SUBMIT_REGISTRATION" /\ step.state = "alt"
                       /\ family \notin NeedsApproval
  BY RecoveryScript, FamiliesNeed DEF StepNames
<1>3. family # "S7" => /\ family \in NeedsApproval /\ pkg.approval = "APPROVED"
                       /\ step.approval /\ step.action # "REQUEST_APPROVAL"
  BY <1>1, SecondEffects, FamiliesNeed DEF FollowedBy, StepNames
<1>4. NamesTarget(step)
  BY <1>2, <1>3 DEF NamesTarget
<1>5. GateOpen(pkg, step)
  BY <1>1, <1>2, <1>3 DEF GateOpen, FirstDone
<1>6. Current(pkg, step)
  <2> SUFFICES ASSUME NEW t \in Targets, step.pre[t] # 0
               PROVE  t \in Held(pkg) /\ step.pre[t] = world.version[t]
    BY DEF Current
  <2>1. CASE t = "alt" /\ step.pre[t] = 1 /\ family \in {"S4", "S7"}
    BY <1>1, <2>1, FamiliesNeed DEF Held, FirstDone, States
  <2>2. CASE t = "approval" /\ step.pre[t] = 2 /\ family \in NeedsApproval
    BY <1>1, <2>2 DEF Held, FirstDone
  <2> QED
    BY <2>1, <2>2, SecondStepBinds
<1>7. Applicable(pkg, step.mutation) /\ Mutated(step.mutation) = world
  BY <1>1 DEF Applicable, Mutated, NoMutation
<1>8. ASSUME Registers(step) PROVE Registrable(pkg, step, world)
  <2>1. family \in {"S4", "S7"} /\ step.state = "alt"
    BY <1>8, SecondEffects
  <2>2. ~pkg.overload
    BY <2>1, BuiltStudents, FamiliesNeed
  <2> QED
    BY <2>1, <2>2 DEF Registrable, FirstDone
<1> QED
  BY <1>4, <1>5, <1>6, <1>7, <1>8 DEF Executable

LEMMA SecondPerformed ==
  ASSUME NEW family, NEW student, BuiltAs(family, student), Len(pkg.steps) = 2,
         FirstDone(family), DOMAIN world = WorldFields, UNCHANGED pkg,
         world' = Applied(pkg.steps[2], Mutated(pkg.steps[2].mutation))
  PROVE  SecondDone(family)'
<1> DEFINE step == pkg.steps[2]
<1>1. world' = Applied(step, world)
  <2>1. step.mutation = NoMutation
    BY SecondSteps
  <2>2. world' = Applied(step, Mutated(step.mutation))
    OBVIOUS
  <2> HIDE DEF step
  <2>3. Mutated(step.mutation) = world
    BY <2>1 DEF Mutated, NoMutation
  <2> QED
    BY <2>2, <2>3
<1>2. /\ Registers(step) <=> family \in {"S4", "S7"}
      /\ family \in {"S4", "S7"} => step.state = "alt"
      /\ \A case : CaseAfter(step, case) = "RESOLVED"
      /\ family # "S1"
  BY SecondEffects
<1>3. world.cursor = 2 /\ world.registered = {}
  BY <1>2 DEF FirstDone
<1> HIDE DEF step
<1>4. /\ world'.cursor = world.cursor + 1 /\ world'.case = CaseAfter(step, world.case)
      /\ world'.registered = IF Registers(step) THEN world.registered \cup {step.state}
                             ELSE world.registered
  BY <1>1 DEF Applied, WorldFields
<1> QED
  BY <1>2, <1>3, <1>4 DEF SecondDone

-----------------------------------------------------------------------------
(* The replay of what was built *)

\* How far the script of a built package has been performed, by the replay or by the
\* agent.
Performed ==
  \/ world = FreshWorld(pkg)
  \/ FirstDone(pkg.family)
  \/ Len(pkg.steps) = 2 /\ SecondDone(pkg.family)

LEMMA PerformedNext ==
  ASSUME NEW family, NEW student, BuiltAs(family, student), PackageInv, Performed,
         world.cursor \in DOMAIN pkg.steps
  PROVE  /\ Executable(pkg, pkg.steps[world.cursor])
         /\ UNCHANGED pkg /\ world' = Applied(pkg.steps[world.cursor],
                                              Mutated(pkg.steps[world.cursor].mutation))
              => Performed'
<1>1. /\ pkg.family = family /\ Len(pkg.steps) \in {1, 2}
      /\ DOMAIN pkg.steps = 1..Len(pkg.steps)
      /\ PackageShape(pkg) /\ DOMAIN world = WorldFields
  BY BuiltRecords, FirstSteps DEF PackageInv, SessionShape
<1>2. CASE world = FreshWorld(pkg)
  <2>1. world.cursor = 1
    BY <1>2 DEF FreshWorld
  <2>2. Executable(pkg, pkg.steps[1])
    BY <1>1, <1>2, FirstExecutable
  <2>3. ASSUME UNCHANGED pkg, world' = Applied(pkg.steps[1], Mutated(pkg.steps[1].mutation))
        PROVE  Performed'
    <3>1. FirstDone(family)'
      BY <1>2, <2>3, FirstPerformed
    <3> QED
      BY <1>1, <2>3, <3>1 DEF Performed
  <2> QED
    BY <2>1, <2>2, <2>3
<1>3. CASE FirstDone(pkg.family)
  <2>1. world.cursor = 2 /\ Len(pkg.steps) = 2 /\ FirstDone(family)
    <3>1. world.cursor = 2 /\ FirstDone(family)
      BY <1>1, <1>3 DEF FirstDone
    <3> QED
      BY <1>1, <3>1, ShortIndices
  <2>2. Executable(pkg, pkg.steps[2])
    BY <2>1, SecondExecutable
  <2>3. ASSUME UNCHANGED pkg, world' = Applied(pkg.steps[2], Mutated(pkg.steps[2].mutation))
        PROVE  Performed'
    <3>1. SecondDone(family)'
      BY <1>1, <2>1, <2>3, SecondPerformed
    <3> QED
      BY <1>1, <2>1, <2>3, <3>1 DEF Performed
  <2> QED
    BY <2>1, <2>2, <2>3
<1>4. CASE Len(pkg.steps) = 2 /\ SecondDone(pkg.family)
  BY <1>1, <1>4 DEF SecondDone
<1> QED
  BY <1>2, <1>3, <1>4 DEF Performed

\* At the end of the script the case shows the hidden outcome.
LEMMA PerformedShows ==
  ASSUME NEW family, NEW student, BuiltAs(family, student), Performed,
         world.cursor > Len(pkg.steps)
  PROVE  Shows(world.case, pkg.outcome)
<1>1. family \in AllFamilies /\ pkg.family = family /\ Len(pkg.steps) \in {1, 2}
  BY BuiltRecords, FirstSteps DEF BuiltAs
<1>0. Len(pkg.steps) = 1 \/ Len(pkg.steps) = 2
  BY <1>1
<1>2. CASE world = FreshWorld(pkg)
  <2>1. world.cursor = 1
    BY <1>2 DEF FreshWorld
  <2>2. CASE Len(pkg.steps) = 1
    BY <2>1, <2>2
  <2>3. CASE Len(pkg.steps) = 2
    BY <2>1, <2>3
  <2> QED
    BY <1>0, <2>2, <2>3
<1>3. CASE Len(pkg.steps) = 2 /\ SecondDone(pkg.family)
  BY <1>3, SecondEffects DEF SecondDone, Shows
<1>4. CASE FirstDone(pkg.family)
  <2>1. Len(pkg.steps) = 1 /\ world.case = CaseAfterFirst(family)
    <3>1. world.cursor = 2 /\ world.case = CaseAfterFirst(family)
      BY <1>1, <1>4 DEF FirstDone
    <3>2. CASE Len(pkg.steps) = 1
      BY <3>1, <3>2
    <3>3. CASE Len(pkg.steps) = 2
      BY <3>1, <3>3
    <3> QED
      BY <1>0, <3>2, <3>3
  <2>2. CASE family = "S1"
    BY <2>1, <2>2, BuiltOutcomes DEF CaseAfterFirst, Shows
  <2>3. CASE family = "S3"
    BY <2>1, <2>3, BuiltOutcomes DEF CaseAfterFirst, Shows
  <2>4. CASE family = "S6"
    BY <2>1, <2>4, BuiltOutcomes DEF CaseAfterFirst, Shows
  <2>5. family # "S7"
    BY <2>1, RecoveryScript
  <2>6. CASE family \in NeedsApproval
    <3>1. pkg.approval \in {"REJECTED", "PENDING"}
      BY <2>1, <2>6, ApprovalScript, BuiltEvents DEF Decisions
    <3>2. world.case = IF pkg.approval = "PENDING" THEN "WAITING_FOR_APPROVAL"
                       ELSE "INVESTIGATING"
      BY <2>1, <2>6, <3>1 DEF CaseAfterFirst, NeedsApproval
    <3> QED
      BY <2>6, <3>1, <3>2, BuiltOutcomes DEF Shows
  <2> QED
    BY <1>1, <2>2, <2>3, <2>4, <2>5, <2>6 DEF AllFamilies, NeedsApproval
<1> QED
  BY <1>2, <1>3, <1>4 DEF Performed

LEMMA FrozenAsBuilt ==
  ASSUME Frozen, edits = 0
  PROVE  \E family \in AllFamilies : \E student \in Students(family) : BuiltAs(family, student)
<1>1. PICK family \in Families : pkg \in BuiltPackages(family)
  BY DEF Frozen
<1>2. PICK student \in Students(family) : pkg = BuiltPackage(family, student)
  BY <1>1 DEF BuiltPackages
<1>3. family \in AllFamilies
  BY ScenarioPackageAssumption DEF AllFamilies
<1> QED
  BY <1>2, <1>3 DEF BuiltAs

\* What one step of the agent's run does to the session.
LEMMA RunMoves ==
  ASSUME RunStep
  PROVE  /\ UNCHANGED <<pkg, edits>> /\ phase' \in {phase, "running", "graded"}
         /\ \/ UNCHANGED world
            \/ /\ world.cursor \in DOMAIN pkg.steps
               /\ world' = Applied(pkg.steps[world.cursor],
                                   Mutated(pkg.steps[world.cursor].mutation))
<1>1. UNCHANGED <<pkg, edits>> /\ phase' \in {phase, "running", "graded"}
  BY DEF RunStep, StartRun, Intake, Planner, ResolutionBuilder, VerifierPreAction,
         ActionGate, HumanApproval, Transaction, VerifierPostAction, HumanAdminReview,
         AnswerClarification, ObserveApproval, Grade, Running, Reads, Continue, Perform,
         FollowDecision
<1>2. ASSUME NEW request, NEW step \in StepFor(request), Perform(step)
      PROVE  /\ world.cursor \in DOMAIN pkg.steps
             /\ world' = Applied(pkg.steps[world.cursor],
                                 Mutated(pkg.steps[world.cursor].mutation))
  <2>1. PICK i \in {world.cursor} \cap DOMAIN pkg.steps : step = pkg.steps[i]
    BY <1>2 DEF StepFor
  <2>2. i = world.cursor
    BY <2>1
  <2> QED
    BY <1>2, <2>1, <2>2 DEF Perform
<1>3. CASE HumanApproval
  <2>1. UNCHANGED world \/ \E step \in StepFor(ApprovalRequest) : Perform(step)
    BY <1>3 DEF HumanApproval, Reads
  <2> QED
    BY <1>1, <1>2, <2>1
<1>4. CASE Transaction
  <2>1. UNCHANGED world \/ \E step \in StepFor(run.candidate) : Perform(step)
    BY <1>4 DEF Transaction, Reads
  <2> QED
    BY <1>1, <1>2, <2>1
<1>5. CASE \/ StartRun \/ Intake \/ Planner \/ ResolutionBuilder \/ VerifierPreAction
           \/ ActionGate \/ VerifierPostAction \/ HumanAdminReview \/ AnswerClarification
           \/ ObserveApproval \/ Grade
  <2>1. UNCHANGED world
    BY <1>5 DEF StartRun, Intake, Planner, ResolutionBuilder, VerifierPreAction, ActionGate,
                VerifierPostAction, HumanAdminReview, AnswerClarification, ObserveApproval,
                Grade, Reads
  <2> QED
    BY <1>1, <2>1
<1> QED
  BY <1>3, <1>4, <1>5 DEF RunStep

ReplayInv ==
  edits = 0 => /\ Performed /\ phase # "stuck"
               /\ phase = "replayed" => Shows(world.case, pkg.outcome)

LEMMA ReplayInit == CampaignInit => ReplayInv
BY DEF CampaignInit, Init, ReplayInv, Performed

LEMMA ReplayStep ==
  ASSUME PackageInv, VerdictInv, ReplayInv, [CampaignNext]_campaignVars
  PROVE  ReplayInv'
<1>1. CASE Edit
  <2>1. edits' = edits + 1 /\ edits \in Nat
    BY <1>1 DEF Edit, VerdictInv, Frozen
  <2>2. edits' # 0
    BY <2>1
  <2> QED
    BY <2>2 DEF ReplayInv
<1>2. CASE ~Edit
  <2>1. UNCHANGED <<pkg, edits>>
    BY <1>2, RunMoves DEF CampaignNext, PackageStep, Next, Validate, Replay, campaignVars, vars
  <2> SUFFICES ASSUME edits = 0 PROVE ReplayInv'
    BY <2>1 DEF ReplayInv
  <2>2. PICK family \in AllFamilies : \E student \in Students(family) : BuiltAs(family, student)
    BY FrozenAsBuilt DEF VerdictInv
  <2>3. PICK student \in Students(family) : BuiltAs(family, student)
    BY <2>2
  <2>4. Performed /\ phase # "stuck" /\ (phase = "replayed" => Shows(world.case, pkg.outcome))
    BY DEF ReplayInv
  <2>5. ASSUME UNCHANGED world,
               phase' \in {"stuck", "replayed"} => phase' = phase
        PROVE  ReplayInv'
    <3>1. Performed'
      BY <2>1, <2>4, <2>5 DEF Performed, FirstDone, SecondDone, CaseAfterFirst
    <3> QED
      BY <2>1, <2>4, <2>5, <3>1 DEF ReplayInv
  <2>6. ASSUME world.cursor \in DOMAIN pkg.steps, phase' = phase \/ phase' \in {"running", "graded"},
               phase' # "replayed",
               world' = Applied(pkg.steps[world.cursor],
                                Mutated(pkg.steps[world.cursor].mutation))
        PROVE  ReplayInv'
    <3>1. Performed'
      BY <2>1, <2>3, <2>4, <2>6, PerformedNext
    <3> QED
      BY <2>1, <2>4, <2>6, <3>1 DEF ReplayInv
  <2>7. CASE Validate
    BY <2>5, <2>7 DEF Validate
  <2>8. CASE Replay
    <3>1. phase = "accepted"
      BY <2>8 DEF Replay
    <3>2. DOMAIN pkg.steps = 1..Len(pkg.steps) /\ Len(pkg.steps) \in Nat
          /\ world.cursor \in Nat \ {0}
      BY ScriptLength DEF PackageInv, PackageShape, SessionShape
    <3>3. CASE world.cursor > Len(pkg.steps)
      <4>1. Shows(world.case, pkg.outcome)
        BY <2>3, <2>4, <3>3, PerformedShows
      <4>2. UNCHANGED world /\ phase' = "replayed"
        BY <2>8, <3>3 DEF Replay
      <4>3. Performed'
        BY <2>1, <2>4, <4>2 DEF Performed, FirstDone, SecondDone, CaseAfterFirst
      <4> QED
        BY <2>1, <4>1, <4>2, <4>3 DEF ReplayInv
    <3>4. CASE ~(world.cursor > Len(pkg.steps))
      <4>1. world.cursor \in DOMAIN pkg.steps
        BY <3>2, <3>4
      <4>2. Executable(pkg, pkg.steps[world.cursor])
        BY <2>3, <2>4, <4>1, PerformedNext
      <4>3. /\ world' = Applied(pkg.steps[world.cursor],
                                Mutated(pkg.steps[world.cursor].mutation))
            /\ phase' = phase
        BY <2>8, <3>4, <4>2 DEF Replay
      <4> QED
        BY <2>6, <3>1, <4>1, <4>3
    <3> QED
      BY <3>3, <3>4
  <2>9. CASE RunStep
    <3>1. /\ phase' \in {phase, "running", "graded"}
          /\ \/ UNCHANGED world
             \/ /\ world.cursor \in DOMAIN pkg.steps
                /\ world' = Applied(pkg.steps[world.cursor],
                                    Mutated(pkg.steps[world.cursor].mutation))
      BY <2>9, RunMoves
    <3>2. phase \in {"accepted", "running"}
      BY <2>9 DEF RunStep, StartRun, Intake, Planner, ResolutionBuilder, VerifierPreAction,
                  ActionGate, HumanApproval, Transaction, VerifierPostAction,
                  HumanAdminReview, AnswerClarification, ObserveApproval, Grade, Running,
                  Answerable, Stopped
    <3> QED
      BY <2>5, <2>6, <3>1, <3>2
  <2>10. CASE UNCHANGED campaignVars
    BY <2>5, <2>10 DEF campaignVars, vars
  <2> QED
    BY <1>2, <2>7, <2>8, <2>9, <2>10 DEF CampaignNext, PackageStep, Next
<1> QED
  BY <1>1, <1>2

LEMMA VerdictInvHolds == CampaignSpec => []VerdictInv
<1>1. PackageInv /\ VerdictInv /\ [CampaignNext]_campaignVars => VerdictInv'
  BY VerdictStep
<1> QED
  BY <1>1, VerdictInit, PackageInvHolds, PTL DEF CampaignSpec

LEMMA ReplayInvHolds == CampaignSpec => []ReplayInv
<1>1. PackageInv /\ VerdictInv /\ ReplayInv /\ [CampaignNext]_campaignVars => ReplayInv'
  BY ReplayStep
<1> QED
  BY <1>1, ReplayInit, PackageInvHolds, VerdictInvHolds, PTL DEF CampaignSpec

\* Every script the generator writes goes through the engine without one refused step,
\* and leaves the case as the hidden outcome says.
THEOREM BuiltScriptsReplay == CampaignSpec => [](edits = 0 => ReplaysAsExpected)
<1>1. ReplayInv => (edits = 0 => ReplaysAsExpected)
  BY DEF ReplayInv, ReplaysAsExpected
<1> QED
  BY <1>1, ReplayInvHolds, PTL

=============================================================================
