# A verification project for the graduation exception agent

The program resolves a student's graduation or registration exception: it reads the
case, plans, gathers evidence from specialist tools, builds one candidate action,
verifies it, asks a human where a human must be asked, performs the write, observes
its result and either reports a verified success or hands the case to the
administration. The models here are about what must not go wrong on the way: a write
without its approval, a write on a stale view, a write performed twice, an answer of a
human that is lost or that poisons the run, a run that never ends, a success that is
reported but not earned.

Paths below are relative to `src/src/graduation_exception_agent/`.

## 1. Inventory

| Component | State it keeps | Operations | What is hard about it | What makes it correct |
|---|---|---|---|---|
| Write path (`runtime/execution.py`, `runtime/controller.py`, `tools/actions.py`) | cursor in the case's script | `execute` of four actions, with replay and every refusal | repeated and conflicting keys, stale versions, one script step with many effects | keys spent once, gate, current views, atomic effects |
| Runtime session (`runtime/session.py`) | offerings, approval, registration, case, version table, receipts, idempotency records, revision, lease | commits, `record_human_approval`, `evaluate_goal`, leasing | a human decides while an agent writes; versions kept twice | both copies of a version agree; decisions are final |
| Runtime factory (`runtime/factory.py`) | none | builds a session; rewrites a script for human decisions | the version shift of every later step | a decided approval leaves the next step reachable |
| Orchestration nodes (`orchestration/nodes.py`) | `WorkflowState` | 18 nodes | fields of earlier plans survive in the state, any read may fail, caps stop any node | verdict, candidate, approval and write belong together |
| Control plane (`orchestration/graph.py`) | checkpoints, owned thread | start, stream, resume | interrupts persisted in one invocation and answered in another | every interrupt is answerable; one thread per session |
| Decision providers (`orchestration/decisions.py`, `reasoning/provider.py`) | audit log | select specialists, assess | a language model that answers anything or fails | the model narrows, never broadens |
| Run service (`api/service.py`, `api/app.py`) | `RunRecord`: status, mode, pause, permits, events, `worker_active` | start, advance, resume, stream events | one worker thread, many request threads, event streams, one lock released between steps | one worker; no answer lost; streams close after the final snapshot |
| Experience memory (`memory/`) | stored records | retrieve, write | two runs store at once | a record is never replaced by another |
| Read tools (`tools/policy.py`, `academic.py`, `course.py`) | none | reads | may fail, with unknown completeness | failures end in an escalation, never in a write |
| Rules (`rules/prerequisites.py`) | none | reads a prerequisite text, evaluates it with three values | precedence, parentheses, text nobody can evaluate | the reading agrees with the meaning |
| Academic models (`models/academic.py`) | none | construct a student, audit, registration | credit is counted four times over | `READY` is backed by credit that counts every course once (two exemptions of one course break it) |
| Data generator and validator (`scripts/build_simulated_data.py`, `data/simulated/validator.py`) | the frozen files | build; accept or refuse | the validator predicts from records what the engine finds by doing | they agree with each other, with the engine and with the tools |
| Contracts and campaign (`scripts/build_execution_contracts.py`, `evaluation/`) | a contract per scenario, violations of a run | derive, load, grade | the contract comes from hidden data, the run from observable data | a faithful run of a built package is graded clean |
| Real-data repository and scripts, narration, views, language model client, frontend | static or derived | load, check, render | texts, pages and network | |

Interaction: the run service's worker pulls a stream of the control plane; the graph
runs nodes; nodes call read tools and, in `human_approval` and `transaction`, the write
path, which commits to the session. The human acts twice, through the service: an
answer resumes the graph, and for an approval the service first writes the decision
straight into the session. `PROJECT.json` lists the hazards of each with their lines.

## 2. Modules and plan

| Module | What it models |
|---|---|
| `CaseLedger` | what a case's write path promises, without scripts, versions or replies |
| `ActionEngine` | the write path and the session it commits to |
| `ActionEngineProofs` | theorems about it, and that it implements `CaseLedger` |
| `GraphStream` | what the run service relies on of a control plane: a stream that yields, pauses, goes on, ends |
| `RunService` | one run of the web service: worker, request threads, event streams |
| `RunServiceProofs` | theorems about it |
| `ControlPlane` | one run of the graph over a session that is a `CaseLedger` |
| `ControlPlaneProofs` | theorems about it |
| `ServedRun` | `RunService` driving `ControlPlane` itself, without the stream between them |
| `ServedRunProofs` | theorems about it; no run, its two halves have theirs |
| `SharedPlane` | several callers, facades and runs that share sessions, the saver and the memory |
| `SharedPlaneProofs` | theorems about it |
| `ScenarioPackage` | one scenario of the simulated data: built, edited, validated, replayed by the engine |
| `ContractCampaign` | extends it with the contract derived from it, the agent's run and the grading of the run |
| `ScenarioPackageProofs` | theorems about both: the packages, what is built, the replay |
| `ContractCampaignProofs` | extends it with theorems about the contracts and the agent's runs |
| `StudentRecord` | one student's credit, audit and registration: built, edited, validated, asked about by the tools |
| `Prerequisites` | prerequisite texts: their reading and their meaning; instanced by `MCStudentRecord` |
| `RecordLinks` | references between the files of two students; instanced by `StudentRecord` |
| `StudentRecordProofs` | theorems about both |

The write path came first because everything else rests on what it promises; then the
service, where the threads are; then the graph, which uses the ledger's actions as its
session and so composes with what is proved about the write path; then the graph behind
the service; then what several runs share; then the data, where four programs must agree about one file.

`MCActionEngine`, `MCRunService`, `MCControlPlane`, `MCSharedPlane`, `MCScenarioPackage`
and `MCStudentRecord` give the constants their values. Definitions whose comment begins
with *Deviation* are plausible bugs; no specification uses them, the properties are
tested against them.

What is left to model: the reducers that merge lists of checkpoints, with their conflict
errors.

## 3. How the modules correspond to the code

### ActionEngine

One action per call under the session's lock: `Execute(key, request)` is
`ActionEngine.execute` (`Replay`, `Rejected`, `Commit` in the order of the code's early
returns), `RecordHumanApproval` is the session's method. A request carries an action,
the parameters the guards look at, and the entity versions its caller last saw. A step
of a script carries what it expects, its result code and its injected events. `Commit`
performs the whole of `_apply_step`: injected mutations, the seat, the registration
item and workload, the approval, the case state, both copies of each version, the
receipt, the idempotency record, the revision and the cursor. Refusals leave all of it
alone; that they do is the point of `ReceiptsFollowScript`.

What a script may look like is an assumption on `Scenarios` (`WellFormed`): the rules
are those that `models/workflow.py` and the package validator enforce, and two that
every script of the data set satisfies (one approval request, first; nothing after the
goal effect). `ReplayAssumption` is separate, since only one theorem needs it: an accepted
script names the version of each class that its own mutations leave (the validator's
replay, `VersionsReplay`), and no seed approval is visible before it is decided.

### RunService

An action is one critical section of `record.lock`, or one step between two of them.
The worker's program counter follows `_execute`, `_await_step`, `_node_update` and
`_handle_interrupt`; narration outside the lock is the gap between two actions. Request
threads run `advance` and `resume` in their sections, publication and worker start
included. The control plane is a `GraphStream`: the worker's pulls are its `Yield`,
`Resume` and `Pause`, the stream is exhausted when it has `ended`, and pulling may raise
at any time (`FailStream`). The approval starts in any status a session can start with.

### ControlPlane

`state` is the part of `WorkflowState` that routing depends on, `next` the nodes the
last checkpoint would run, `interrupt` the persisted interrupt. Each node is one
action with all its exits; `Stop` is `_limit_update`, `Charged` and `Within` are the
loop counters. An interrupted node is two actions: its first run, which persists the
interrupt, and its second, in a new invocation, with the answer. Evidence is the set of
specialists heard for the current plan and whether all of it is complete; a candidate
is its plan, whether it names an approval and at which version, the class it names and
the evidence it was built from. Reads that may fail are choices. The session is
`CaseLedger`'s variables plus the approval's version; writes are `Ledger!Attempt` and
`Ledger!Effect`. The human authority decides at any time, more freely than the service
lets it. A client may claim any decision when it answers.

`AskedSpec` is the graph under a service that records a decision only while the graph
asks for one; `Stream` is what that service sees of it. A superstep is one update there:
the two nodes of the last superstep, which the real stream reports one after the other,
are one `Yield` of the graph and two of the service's stream, which allows both.

### ServedRun

The two previous modules at work on one run. A worker's pull runs a node of the graph, or
goes on from the interrupt with the answer the worker was given (`GoOn`); an update makes
the pull `TakeUpdate`, a persisted interrupt `TakePause`. The two nodes of the last
superstep report one after the other: `half` says that the first one has
(`ReportFirst`). `RecordDecision` is the answer to an approval, which decides in
the session (`HumanDecides`) and passes the same word on to the worker; "still pending" is
passed on and decides nothing. Everything else the service does leaves the graph alone
(`ServiceStep`), and the graph does nothing that no worker pulls.

### SharedPlane

A call enters by `ClaimThread` and goes on to `LeaseSession`
(`_claim_thread_for_start` under the plane's lock, the lease under the session's), or
enters by `CheckOwner` and goes on to `ReadSnapshot` and `LoadNewest` (`_require_owned_checkpoint`,
`_validate_resume`, `graph.invoke`), then through nodes, each followed by
`SaveCheckpoint` or by `Fail`. Everything between two of these may interleave. Nodes are
reduced to their effect on what is shared: the approval request and the decision it
reads, the write or the replay of a spent key, the verifier's look at the receipts, the
store. The checkpoint saver and how an invocation finds the newest checkpoint are
LangGraph's, modelled from how the facade uses them. A checkpoint's `ticks` is the
length of the trace, which is the run's clock.

### ScenarioPackage and ContractCampaign

A package `pkg` is what one scenario holds: its family, student facts, class states and
the links to them, approval, script, and the expected outcome. `Generate` builds it as
`build_simulated_data.py` does, `Edit` changes one field of any part, `Validate` is
construction and the cross-file checks, `Replay` applies the next step of the script to
a fresh session as the engine does. `Predicted` is the validator's bookkeeping of
versions along the script, which its loop computes mutation by mutation: a version is
what the latest mutation before the step leaves. The session holds only the classes the scenario links.

`ContractCampaign` adds the generator of execution contracts (`Contract`), the rules a
contract must keep to be loaded, the agent's run with the grounded provider as a sequence of
transitions, the answers the campaign gives to the run's questions, and the violations
it records.

### StudentRecord, Prerequisites, RecordLinks

A record is built from one curriculum by any of the choices the generator can make
(path, label, family, target, completed course, classes), then credit may be entered
into its ledger, with or without the totals following, and one field or reference edited. `Constructible` is what
`models/academic.py` demands, `Accepted` adds the validator's checks, each an operator
of its name. `Prerequisites` has the tokens of a text, their reading by precedence, the
three-valued evaluation, and, as a reference, the meaning of an expression tree.
`StudentRecord` takes what a text says from its constant `Judgement`, which the run
gives the value of `Prerequisites`: the reading is recursive, and kept out of the module
that is proved about. It assumes of `Judgement` that who passes a text passes it with more
courses (`JudgementAssumption`; the run shows it of `Prerequisites` as `MoreIsNeverWorse`),
and of the data the bounds that the fields of `models/academic.py` have.
`RecordLinks` has the references a validator follows and the session a factory builds
from them, for two students.

## 4. Runs

| Run | Result | What it shows |
|---|---|---|
| `EngineWritePath` | holds | write path safety, version discipline, refinement of `CaseLedger` |
| `ServiceInterleavings` | holds | one worker, one answer per checkpoint, no unreleased step, no early stream end, even when clients answer before the paused worker is done |
| `ServiceProgress` | holds | with clients that wait for the worker to end, a run always comes to rest and streams close |
| `ServiceLostAnswer` | violated | an early answer is accepted and lost |
| `ServiceRefusedAnswer` | violated | an invalid clarification fails the run |
| `ServiceReasonedApproval` | violated | an approval with a reason wedges its checkpoint |
| `ControlPlaneRuns` | holds | nine invariants of the graph, and that every run ends if its pauses are answered |
| `ControlPlaneLateCap` | violated | a resolved case is handed over as unresolved when the step cap falls between the write and its verification |
| `SharedPlanes` | holds | one facade and thread drives a session, no checkpoint tells of writes that are not its session's, no success is forgotten, with two callers, invocations that die, and two resumes side by side |
| `ScenarioPackages` | holds | what the generator builds is accepted, and its graded run is clean; a script the validator accepts registers only feasible classes, at the versions the validator predicted, whatever was edited |
| `PackageExclusions` | violated | an accepted scenario whose student has taken a course that excludes the target |
| `StudentRecords` | holds | what the generator builds is accepted; an accepted `READY` is backed by credit that counts every course once, unless it rests on a course exempted twice; the tools judge an accepted record as the validator did, and read no other student's |

The five violations are disagreements between the code and what its documents or
messages say; `PROJECT.json` quotes both sides. `ServiceLostAnswer` needs its
interleaving: with patient clients, as in `ServiceProgress`, every run comes to rest.

### Bounds

*EngineWritePath.* One script of each shape the data set has (direct registration, each
retryable failure followed by the alternative, protected cases with a visible, hidden
and interactive seed, waivers and exceptions), at most three steps long; three keys,
enough for two calls to repeat, conflict and continue; requests with views of version
0 (not supplied), current and stale; two classes of one course, the first with one
seat, and one class too heavy for the workload limit, which is otherwise met exactly.

*Service runs.* Two threads and two clients: the hazards are pairs. Two node updates and
two pauses, so that a second pause follows a resume and a run ends after one (one node
update in the violations, which need no more). Threads and clients are symmetric
in the run without liveness.

*Control plane runs.* The program's own caps: 4 replans, 2 tool retries, 20 steps, and
100 supersteps. Two classes, so a retry has one alternative and then none. Ten cases:
each problem type in the forms the data set has, one for each fact that turns the
verifier, and one with an open question, which a reviewing model may ask about. The
model review is on: without it, behaviours are a subset.

*SharedPlanes.* Two callers, two threads, three facades of which two share a runtime:
every clash is between two callers, and the third facade is what a second runtime of the same scenario
needs. One plan and one pause, so that a checkpoint is read both before and after a
write and an answer. What a second plan adds (a new key after a failed write, a memory
after an earlier one) is beyond what TLC explores here and rests on the theorems of
`SharedPlaneProofs`, which hold for any `MaxPlans`. Callers, threads and the two facades of one runtime are symmetric.

*ScenarioPackages.* All seven families, every choice of the generator, up to two edits of
any field: an inconsistency between two parts that each look right takes two. Two class
states, as the data set has. The caps of a run are the program's.

*StudentRecords.* Five courses: one without prerequisites, one with a disjunction, one
with text nobody can evaluate and an exclusion, one without coverage, one without AUs;
three curricula of the published shapes (one total; paths with their own totals;
attachments). Credit entered once, so that it may be entered twice over in
the record; one other edit. `MCStudentRecord` also assumes, and TLC evaluates, that
the texts of all expressions of two operators are read as meant (`TextsAreReadAsMeant`)
and that for texts of up to four words, also malformed ones, more completed courses
never make a result worse (`MoreIsNeverWorse`). A third assumption evaluates a student who
is accepted as `READY` with a course exempted twice (`ExemptedTwiceCanBeReady`), the case
that `ReadyIsEarned` leaves out.

*ServedRun* has no run: the invariants its theorems rest on are those of its halves, and
the runs of the halves check them.

### Fairness

`RunService`: weak fairness of each worker thread's own steps, of requests already
accepted and of readers, none of clients beginning a request. Threads are scheduled by
the operating system and every lock is released. In `ServiceProgress` a paused run may
rest forever.

`ControlPlane`: weak fairness of the graph's step (the worker runs it) and of answering
a pause. Nothing obliges the human authority to decide; the run ends at a cap.

`SharedPlane` claims no progress: an invocation may die at any step, and nobody repeats
it.

## 5. Proofs

`ActionEngineProofs` proves, for every data set, set of keys, set of scenarios
that satisfies `WellFormed` and set of requests (`EngineAssumption`): type correctness,
the inductive `Invariance`, eight safety properties (`IdempotentWrites`,
`ReceiptsMatchScript`, `VersionsConsistent`, `ApprovalGuardsEffects`,
`EffectsRestOnTheDecision`, `ResolutionIsEarned`, `RegistrationsStaySound`,
`SeatsAreConserved`), the action properties `ViewsCurrentAtCommit` and
`VersionsTellChanges`, and `WritePathImplementsLedger`.

The argument: `ScriptShape` carries the scenario assumption over to the script a run
really follows, also when it was rewritten for human decisions
(`InteractiveScriptShape`). `Inv` is the inductive invariant. `EffectOnlyWhenApproved`
is not inductive alone: that an effect in an interactive run rests on a human's
decision follows from counting (`DecisionGrounded`: every human decision raises the
revision beyond the number of receipts, and before the first step a visible decision is
either the seed's or a human's). That nothing happens after the effect follows from
`StepsTaken` (every receipt is the script step of its number, so a goal effect, which
ends the script, leaves no step). For each kind of step there is one lemma: `CommitInv`,
`DecisionInv`, `ReplyOnlyInv`. `RegistrationSound` is inductive with the types alone;
`SeatsConserved` needs it, since the seat a commit takes is the first one taken from its
class only because the student does not hold the course. `RaisesVersions` rests on the
agreement of the version copies: a mutation is written for the model's field, and readers
compare the other copy. The refinement maps `used` to the keys with an
idempotency record and `resolved` to the resolved case state; `CommitMapped` shows what
a commit does to the mapped variables, and every other call stutters.

`StepsStayReachable` rests on `ReplayAssumption` besides: until the last step no seat is
taken, so the version of a class is the one the script's own mutations leave
(`VersionsReplayed`), and the version of an approval is one more after a human decision,
which is what the rewriting for human decisions adds to the expectations.

`SharedPlaneProofs` proves, for any callers, facades, runtimes and threads
(`SharedPlaneAssumption`): type correctness (`SharedTypes`), `SessionsHaveOneDriver`,
`CheckpointsAreTrue` and `SuccessIsRemembered`. `TypeInv` adds to the types that a call
under way names a plane and a thread. `OneDriver` is inductive beside it, by way of the
lease: who finds the session leased to itself is inside, and a lease once given is never
given to another. The last two follow from `GroundedInv`, which says of every
checkpoint, saved or in an invocation's hands, that its receipts are its session's,
that it is done only with an effect to show, and that it ends as DONE only when the
store has its memory; `OwnCallOnly` and `WorkOnlyAdds` (a step leaves other calls alone;
receipts and memories are never lost) carry it through every step of another caller.

`RunServiceProofs` proves every safety invariant of `RunService` that holds, for any
threads, clients, readers and bounds (`RunServiceAssumption`). `Typed` adds to the types
that a step is awaited only when none is released ahead, without which two could be.
`SingleWorker` gives `ServiceHasOneWorker`; `AnswersDue` (a waiting run has one pause
more than answers) gives `PausesAreAnsweredOnce`; `StepsDue` (whoever works on a run
sees it running, hence takes a permit before each move) gives `StepsAreReleased`;
`StreamsTold` (a terminal status has its event on record) gives
`ClosedStreamsAreComplete`. `PatientAnswersAreTaken` assumes `Patient`, which
`ServiceLostAnswer` shows to be needed: then `Carried` is inductive, which says that
either one thread or one request carries a running run, and never both.

`ServicePullsStream` shows that a service run is a behaviour of `GraphStream`. What needs
an argument is the human's decision, which `resume` records in the session behind the
graph's back: `Displayed` (a waiting run shows the interrupt the graph holds) puts it under
the graph's own approval interrupt, lost answers and failed runs included.

Three theorems are about answers and ends. `ShownApprovalsCanBeDecided` is the other side
of the run `ServiceReasonedApproval`: if no client approves with a reason, the approval
on display can always be decided. `AnswersAreTheDecision` says that the answer a worker
takes into an approval is the session's decision: `AnswersFit` has at most one answer under
way, with a request or with a worker, and it fits the graph's interrupt.
`EndedRunsStayEnded` is the action property that a terminal status is final, although
`_start_worker` and the handlers of `_execute` assign the status without looking at it;
with `AnswersFit`, since no answer is under way once a run has ended, and `Exhausted`.

`ControlPlaneProofs` proves every safety invariant of `ControlPlane` that holds, for any
cases and classes, any loop caps, and with or without a reviewing model
(`ControlPlaneAssumption`). `Typed` adds to the types that a plan beyond the first cost a
replan, which bounds the plans, and so the keys, by the cap (`CheckpointTypes`). `Inv` has
three parts. `Standing` holds wherever the run is: the spent keys are those of the
receipts, an effect in a protected case was granted, complete evidence knows the
session's approval requirement, tried classes leave an observation. `Positional` says
what each node finds when it is next (`Expects`): the properties speak of the gate and
the write, but what they say there is established by the planner (a key not spent), the
builder (a class not tried), the verifier (a verdict about this candidate, on all of its
evidence) and the approval, and must be carried through every node, pause and answer in
between. `Interrupted` ties a pause to its node. The human authority may decide between
any two steps: `DecisionKept` shows that this disturbs none of it, since a grant already
relied on cannot be decided again. From `Inv` follow `NodesFindWhatTheyNeed`,
`VerdictsCoverCandidates`, `WritesAreApproved`, `KeysAreFresh`, `ClassesAreTriedOnce`,
`DoneMeansResolved` and `InterruptsCanBeAnswered`.

`GraphImplementsStream` is the other half: under `AskedSpec` the graph implements
`GraphStream`, with the kind of its interrupt, the session's decision and "nothing left
to run" for the stream's variables. `Askable` is what `Inv` lacks for it: a spent
approval key means a visible decision, and the graph moves to its pause with a decision
that is pending. The pause itself reads nothing, so the second part holds only
because nobody decides in between, which is what `ServicePullsStream` gives. Each theorem
thus assumes of the other party what the other one shows of it, and neither can be the
first to fail: `Decide` is the service's only action on the stream besides pulling it, and
its guard speaks of the state the graph left. `ServedRunProofs` makes this a theorem, below.

`OnlyTheCapHandsOverResolvedCases` complements the run `ControlPlaneLateCap`, which finds
a resolved case handed over as unresolved: that needs the step cap used up, and no failed
read, rejection, refused write or answer leads there. `Concluded` is the invariant: a
resolved case is between the write and its verification, or done, or out of steps.

`CapsEndInvocations` says which recursion limit is enough for which caps: six supersteps
for each plan, one for each charged step and five more, which the code's limit of 100
exceeds with caps of 4 and 20. `Pace` counts: charged nodes pay for their superstep, and
a plan pays for the router, three specialists, the builder and an observation.

`ServedRunProofs` proves of the two together, under the assumptions of both and nothing
else, that `ServedSpec` implements `RunService!Spec` with what the graph shows for the
stream (`ServedRunsAreServiceRuns`) and `ControlPlane!AskedSpec` (`ServedRunsAreGraphRuns`).
Neither module's invariant is inductive without the other's: the graph's approval is
only decided while asked for if the service shows what the graph holds, and the
service's pulls are the stream's only if the graph pauses with a decision pending.
`ServedInv` joins them, `StepOfBoth` shows that a step of the composition is one of each
half, and the halves' own lemmas do the rest. Every theorem about either half so
holds of the served run. Three more speak of both: `ShownApprovalsAreCurrent` (what a
client sees when asked is the current plan's candidate, verdict and evidence, at the
session's version), `ClaimsAreDecisions` (the graph's copy of the answer, which
`human_approval` does not trust, never differs from the session; `Responded` follows
it through the pause) and `CompletedRunsAreConcluded` (the service's COMPLETED is a run the
graph handed over or whose case it resolved, under a grant where it is protected).

`ScenarioPackageProofs` proves of the packages the validator accepts, for any number of
edits and any caps of a run, in the replay as in the agent's run (`CampaignSpec`):
`RegistrationsAreAlwaysFeasible`, `VersionsAreAlwaysAsPredicted` and, what follows from
it, `AcceptedScriptsStayFresh`: no step of an accepted script, in its turn, names a
version the session does not have. `PackageInv` is inductive: the cursor stands within
the script, what is under way was accepted as a whole (`Judged`), and until a seat is
taken the session's version of each target is the predicted one at the cursor. The step
is `StepPerformed`: a mutation was checked to start from the predicted version, so
the engine's increment and the prediction for the next step (`WriterSetsVersion`,
`OthersKeepVersion`) agree. Who performs the step does not matter: `AgentMoves` shows that
every write of the agent is the step at the cursor.

`BuiltPackagesAreAccepted` compares three programs that state a scenario's rules apart: no
package of the generator, at any position of any family and for any student it may pick,
is refused by the constructors or the validator. `VerdictInv` carries that an untouched
package is one that was built (`Frozen`). `BuiltKind` sorts the events by family,
`FirstSteps` and `SecondSteps` say what the script built for them does,
`VersionsOfShortScripts` what the validator predicts for scripts so short, and one lemma
per check of the validator compares the two.

`BuiltScriptsReplay` goes on to what a built script does: no step of it is refused, and the
case ends as the hidden outcome says. A built script has one step or two, so the session
is fresh or as `FirstDone` or `SecondDone` describe it (`Performed`), whoever performs the
steps.

`ContractCampaignProofs` proves the rest of what the run checks of built packages.
`BuiltContractsLoad`: what is built has a contract, and the contract keeps the rules of
its loader. A package goes one of eight ways (`BuiltKindsOfRun`); for each the contract's
outcome, decisions and counters (`Terms`, `Loops`) and its transitions (`Routes`) are
computed and compared with the rules.

`BuiltRunsAlwaysMeetContracts` states `BuiltRunsMeetContracts` for any families, any
student the generator may pick and any caps: when a run of the agent over a built package
is graded there is no violation. Its invariant, `RunInv`, needs all the places a run can
be at (`OnCourse`): way by way, the node, the transitions passed, the verdicts given, the
counters, the candidate and what the session shows. Three groups of lemmas carry it.
The laws of the nodes (`PlannerContinues` to `TransactionGoes`) say where each goes and
which fields it changes (`Goes`, `Keeps`). `FirstCandidate` and `SecondCandidate` say that
the builder, which reads the session and never the script, asks for what the script
expects. `Unclinched`, `Clinched` and `StaysMatched` say that no checkpoint matches the
contract before its last required transition, that the one written then does, and that
later ones do not replace it, so the run is judged where the contract means it to be. The
run's last place, `AtEnd`, leaves none of the flags (`FromEnd`).

Both theorems suppose `CapsSuffice`: room for one replan, one retry and ten steps. With
less, contracts would name more than the caps allow and would not load. The code allows
four, two and twenty (`models/orchestration.py:46-48`), the values of the run.

`StudentRecordProofs` proves four theorems for any catalogue, classes and curricula, any
reading of prerequisite texts that more courses never make worse, and any number of edits.
`ToolsAgreeWithTheValidator`: `CheckedFilesSeparate` follows the references of the checked
files, so every session built from them reads one student's; `OverlapIsConflict` compares
the two programs' judgement of two meetings, `TimetableIsJudged` lifts it to a class
against a registration.

`ReadyAuditsAreEarned` goes through what the validator allocates. `LedgerInv` keeps the
ledger finite and what was accepted accepted. In such a record the courses of the earned
entries differ, so summing over entries is summing over courses (`CoursesCountOnce`); an
entry with one allocation counts for that requirement and no other, so what is allocated
is what the courses and exemptions bring (`AllocatedIsCredit`); and the sums of the audit
are compared with the total. The theorem counts every course once, exemptions included,
and therefore speaks of students without a course exempted twice: there
`SingleExemptionsCount` shows that no exemption is a duplicate. In the run,
`ExemptedTwiceCanBeReady` shows that the condition is needed, and `CreditIsUniqueUnlessExemptedTwice` that it is the only
gap: in every other accepted record the earned AUs are those of unique courses and
exemptions, as the stage 3 notes have it.

`GeneratedRecordsAreAccepted` shows that the record of every choice the generator can make
can be constructed and passes every check. `ChoiceAddsUp` derives from the generator's own
reconciliation that what the requirements ask adds up to the total, what is left of them
to the credit earned, and what is exempted to that less the completed course;
`LedgerAddsUp` finds those sums in the ledger; one lemma per file does the rest. The
theorem supposes `SupportMeetsAlone`: the support class that the first S1 student keeps
besides does not meet the alternative offered. The generator never compares the two. The
published timetable has classes that meet the support class; the student concerned is
offered none of them.

All four rest on the laws of finite sums, proved first. The sum of the community modules
is a recursive function on the subsets of a finite set. Its laws (any element may be added last, sums of disjoint sets
add up, names do not matter) are proved by looking at a smallest set that breaks
them (`SmallestSet`), since the library's induction theorems cannot be instantiated.

Model-checked only, and why:

- `Prerequisites` is recursive, which the prover does not take.
- All liveness, `RunEnds` and the progress of the service: fairness and `ENABLED` are
  beyond the prover.

## 6. Not modelled

- Static data and its loading; the language model client (its output is arbitrary);
  narration and presentation (text; the time narration takes is modelled); read-only
  views; ranked memory retrieval (advice); the scripts that scrape and convert the
  published pages; the frontend.
- Process restarts: the checkpointer, the session and the memory live in the process, so a restart
  loses them together.
- Requests that name the wrong type for an entity they supply a version of (refused).
- Of the data checks: duplicate identifiers, manifests with their counts and digests,
  equality of scope identifiers, timestamps, wording. Of the campaign's flags: receipt
  replay, intermediate receipts and evaluator leakage.
- The reducers of checkpoint lists appear as set union.

An edited package may be accepted whose replay does not end as the expected outcome says:
a script cut after its approval request is granted is accepted with the outcome RESOLVED
while the case is left READY_FOR_ACTION. No property states more of edited packages than
feasibility and versions.

The stage 3 notes (`stage_3_simulation_data_details.md:217`) call it "enforced exactly"
that earned AUs are those of unique courses and "non-duplicated exemption AUs". The code
compares the identifiers of exemptions, and their courses with those earned
(`models/academic.py:774`), never the courses of two exemptions: both count, and a student
with credit for 8 of 10 AUs is accepted as `READY`. `ReadyIsEarned` makes the exception
explicit and `ExemptedTwiceCanBeReady` exhibits the student.

Other gaps of the code the models have, and that no property here contradicts: an
exemption of a course may award more than the course's AUs; a requirement's `required_aus` is never compared with the curriculum's
minimum; for a prerequisite outside the coverage the validator says PASS where the tool
says UNKNOWN; `SATISFIED` may list outstanding courses; the labels a scope permits are
not enforced, and a scope that permits no path permits all; feasibility is judged on the
initial state only; the validator accepts a step that names a class the scenario does
not link and that the session therefore does not hold; the validator's replay does not raise a
class's version on registration. `ToolsJudgeAsValidator`, `RegistrationsAreFeasible` and
`VersionsAsPredicted` are stated so that each of these is visible in them.
