----------------------------- MODULE RunService -----------------------------
(***************************************************************************)
(* One run of the web service (api/service.py, api/app.py): the RunRecord, *)
(* the worker thread that drives the control plane's stream, the request   *)
(* threads that advance and resume the run, and the event-stream readers.  *)
(*                                                                         *)
(* Every action is one critical section of record.lock (record.condition   *)
(* shares it) or one step between two of them, so whatever the code does   *)
(* outside the lock - narrate a node, publish an event after the lock was  *)
(* released, start a thread after the answer was accepted - interleaves    *)
(* with everybody else.                                                    *)
(*                                                                         *)
(* The control plane is a GraphStream, which ControlPlane implements: the  *)
(* worker's pulls are its actions, and pulling may raise at any time.      *)
(***************************************************************************)
EXTENDS Integers, Sequences, FiniteSets

CONSTANTS
  Threads,     \* worker threads the process may create for the run
  Clients,     \* request threads
  Readers,     \* event-stream connections
  Modes,       \* the run modes explored: a subset of {"NORMAL", "STEP"}
  Answers,     \* the answers clients give
  MaxNodes,    \* bound: node updates of the whole run
  MaxPauses,   \* bound: interrupts of the whole run
  Patient      \* clients answer only after the worker thread has ended

VARIABLES
  mode, status, pause, permits, awaiting, workerActive,  \* fields of RunRecord
  events,      \* record.events: event types in sequence order
  worker,      \* per thread: where it stands, and the payload it was given
  client,      \* per request thread: where it stands, and the payload it built
  reader,      \* per connection: last sequence delivered, and whether it ended
  interrupt,   \* the plane's persisted interrupt
  approval,    \* status of the approval in the runtime session
  ended,       \* the graph has nothing left to run
  nodes,       \* node updates yielded so far
  released,    \* accepted releases of a step: the initial one, advances, resumes
  pauses,      \* interrupts shown to the human so far
  accepted     \* answers accepted so far

record    == <<mode, status, pause, permits, awaiting, workerActive>>
plane     == <<interrupt, approval, ended, nodes>>
history   == <<released, pauses, accepted>>
vars      == <<record, events, worker, client, reader, plane, history>>

Stream == INSTANCE GraphStream

Kinds == Stream!Kinds
Terminal == {"COMPLETED", "FAILED"}
TerminalEvents == {"run.completed", "run.failed"}

\* What a request can carry.  A clarification either satisfies the plane's
\* validation or does not; an approval answer is a status with the reason the
\* status calls for, or an approval with a reason, or a rejection without one.
ClarificationAnswers == {"MEANINGFUL", "BLANK"}
ApprovalAnswers == {"PENDING", "APPROVED", "REJECTED", "APPROVED_WITH_REASON",
                    "REJECTED_WITHOUT_REASON"}

ASSUME RunServiceAssumption ==
  /\ Modes \subseteq {"NORMAL", "STEP"}
  /\ Answers \subseteq ClarificationAnswers \cup ApprovalAnswers
  /\ MaxNodes \in Nat /\ MaxPauses \in Nat /\ Patient \in BOOLEAN

Idle(what) == [at |-> "idle", payload |-> what]

\* _start_profile: the record is registered and its first event published
\* before anybody else knows the run.
Init ==
  /\ mode \in Modes
  /\ status = "QUEUED" /\ pause = "NONE"
  /\ permits = (IF mode = "STEP" THEN 1 ELSE 0)
  /\ awaiting = FALSE /\ workerActive = FALSE
  /\ events = <<"run.queued">>
  /\ worker = [t \in Threads |-> Idle("NONE")]
  /\ client = [c \in Clients |-> Idle("NONE")]
  /\ reader = [r \in Readers |-> [cursor |-> 0, ended |-> FALSE]]
  /\ Stream!Init /\ nodes = 0
  /\ released = permits /\ pauses = 0 /\ accepted = 0

Publish(event) == events' = Append(events, event)

Goto(t, at) == worker' = [worker EXCEPT ![t].at = at]

-----------------------------------------------------------------------------
(* Starting a worker *)

\* Deviation of StartWorker: a second worker may be started.
StartAnotherWorker(payload) ==
  \E t \in Threads :
    /\ worker[t].at = "idle"
    /\ worker' = [worker EXCEPT ![t] = [at |-> "begin", payload |-> payload]]
    /\ workerActive' = TRUE
    /\ status' = "RUNNING"

\* _start_worker, when no worker is active.
StartWorker(payload) ==
  \E t \in Threads :
    /\ ~workerActive
    /\ worker[t].at = "idle"
    /\ worker' = [worker EXCEPT ![t] = [at |-> "begin", payload |-> payload]]
    /\ workerActive' = TRUE
    /\ status' = "RUNNING"

\* The tail of _start_profile.
Start ==
  /\ status = "QUEUED"
  /\ StartWorker("START")
  /\ UNCHANGED <<mode, pause, permits, awaiting, events, client, reader, plane,
                 history>>

-----------------------------------------------------------------------------
(* The worker thread: _execute *)

Begin(t) ==
  /\ worker[t].at = "begin"
  /\ Publish("run.started")
  /\ Goto(t, "loop")
  /\ UNCHANGED <<record, client, reader, plane, history>>

\* _await_step, its first critical section.
AwaitStep(t) ==
  /\ worker[t].at = "loop"
  /\ IF mode # "STEP"
     THEN Goto(t, "next") /\ UNCHANGED awaiting
     ELSE IF permits <= 0 /\ status = "RUNNING"
     THEN Goto(t, "announce") /\ awaiting' = TRUE
     ELSE Goto(t, "permit") /\ UNCHANGED awaiting
  /\ UNCHANGED <<mode, status, pause, permits, workerActive, events, client, reader,
                 plane, history>>

AnnounceStep(t) ==
  /\ worker[t].at = "announce"
  /\ Publish("run.step_waiting")
  /\ Goto(t, "permit")
  /\ UNCHANGED <<record, client, reader, plane, history>>

\* _await_step, its second critical section: blocked until a permit arrives.
TakePermit(t) ==
  /\ worker[t].at = "permit"
  /\ permits > 0 \/ status # "RUNNING"
  /\ IF status = "RUNNING"
     THEN permits' = permits - 1 /\ awaiting' = FALSE
     ELSE UNCHANGED <<permits, awaiting>>
  /\ Goto(t, "next")
  /\ UNCHANGED <<mode, status, pause, workerActive, events, client, reader, plane,
                 history>>

\* next(iterator) on the first chunk of a resumed stream runs the plane's own
\* validation of the answer, which raises on an invalid one and leaves the
\* persisted interrupt alone.
ResumeRefused(t) == worker[t].payload = "BLANK" /\ interrupt # "NONE"

\* A node update: _node_update publishes twice, and narrates in between.
TakeUpdate(t) ==
  /\ worker[t].at = "next" /\ ~ResumeRefused(t)
  /\ nodes < MaxNodes
  /\ nodes' = nodes + 1
  /\ worker' = [worker EXCEPT ![t] = [at |-> "node", payload |-> "NONE"]]
  /\ Publish("node.started")
  /\ UNCHANGED <<record, client, reader, history>>

YieldNode(t) == TakeUpdate(t) /\ (Stream!Resume \/ Stream!Yield)

CompleteNode(t) ==
  /\ worker[t].at = "node"
  /\ Publish("node.completed")
  /\ Goto(t, "loop")
  /\ UNCHANGED <<record, client, reader, plane, history>>

\* Deviation of ShowPause: the permit count survives the pause.
ShowPauseKeepingPermit(t, kind) ==
  /\ pause' = kind /\ status' = "WAITING" /\ permits' = permits + 1
  /\ pauses' = pauses + 1
  /\ Goto(t, "paused")
  /\ UNCHANGED <<mode, awaiting, workerActive, events, client, reader, nodes,
                 released, accepted>>

\* _handle_interrupt up to the end of its critical section: the run shows as
\* WAITING from here on, while the worker goes on to narrate.
ShowPause(t, kind) ==
  /\ pause' = kind /\ status' = "WAITING"
  /\ pauses' = pauses + 1
  /\ Goto(t, "paused")
  /\ UNCHANGED <<mode, permits, awaiting, workerActive, events, client, reader, nodes,
                 released, accepted>>

\* The graph interrupts.
TakePause(t, kind) ==
  /\ worker[t].at = "next" /\ ~ResumeRefused(t)
  /\ pauses < MaxPauses
  /\ ShowPause(t, kind)

YieldInterrupt(t) == \E kind \in Kinds : TakePause(t, kind) /\ Stream!Pause(kind)

\* The rest of _handle_interrupt: narration, then the event.
AnnouncePause(t) ==
  /\ worker[t].at = "paused"
  /\ Publish("run.waiting")
  /\ Goto(t, "finally")
  /\ UNCHANGED <<record, client, reader, plane, history>>

\* Deviation of EndStream: the status becomes visible before its event.
EndStreamUnlocked(t) ==
  /\ worker[t].at = "next" /\ ended
  /\ pause' = "NONE" /\ status' = "COMPLETED"
  /\ Goto(t, "paused")
  /\ UNCHANGED <<mode, permits, awaiting, workerActive, events, client, reader, plane,
                 history>>

\* The stream is exhausted: status and terminal event in one critical section.
EndStream(t) ==
  /\ worker[t].at = "next" /\ ended
  /\ pause' = "NONE" /\ status' = "COMPLETED"
  /\ Publish("run.completed")
  /\ Goto(t, "finally")
  /\ UNCHANGED <<mode, permits, awaiting, workerActive, client, reader, plane, history>>

\* The stream raises, for a refused answer or for a reason of its own.
FailStream(t) ==
  /\ worker[t].at = "next"
  /\ status' = "FAILED"
  /\ Publish("run.failed")
  /\ Goto(t, "finally")
  /\ UNCHANGED <<mode, pause, permits, awaiting, workerActive, client, reader, plane,
                 history>>

Finally(t) ==
  /\ worker[t].at = "finally"
  /\ workerActive' = FALSE
  /\ worker' = [worker EXCEPT ![t] = Idle("NONE")]
  /\ UNCHANGED <<mode, status, pause, permits, awaiting, events, client, reader, plane,
                 history>>

WorkerStep(t) ==
  \/ Begin(t) \/ AwaitStep(t) \/ AnnounceStep(t) \/ TakePermit(t) \/ YieldNode(t)
  \/ CompleteNode(t) \/ YieldInterrupt(t) \/ AnnouncePause(t) \/ EndStream(t)
  \/ FailStream(t) \/ Finally(t)

-----------------------------------------------------------------------------
(* Request threads *)

\* Deviation of ReleaseStep: the flag is cleared and no permit is given.
ReleaseStepWithoutPermit == awaiting' = FALSE /\ UNCHANGED permits

ReleaseStep == awaiting' = FALSE /\ permits' = permits + 1

\* advance: release one step, then publish outside the lock.
Advance(c) ==
  /\ client[c].at = "idle"
  /\ mode = "STEP" /\ status = "RUNNING" /\ awaiting
  /\ ReleaseStep
  /\ released' = released + 1
  /\ client' = [client EXCEPT ![c].at = "advanced"]
  /\ UNCHANGED <<mode, status, pause, workerActive, events, worker, reader, plane,
                 pauses, accepted>>

AnnounceAdvance(c) ==
  /\ client[c].at = "advanced"
  /\ Publish("run.advanced")
  /\ client' = [client EXCEPT ![c] = Idle("NONE")]
  /\ UNCHANGED <<record, worker, reader, plane, history>>

\* Deviation of AcceptAnswer: the checkpoint stays on display until the worker
\* starts, which is what makes the run RUNNING.
AcceptAnswerWhileWaiting(c, payload) ==
  /\ IF mode = "STEP"
     THEN permits' = 1 /\ awaiting' = FALSE /\ released' = released + 1
     ELSE UNCHANGED <<permits, awaiting, released>>
  /\ accepted' = accepted + 1
  /\ client' = [client EXCEPT ![c] = [at |-> "accepted", payload |-> payload]]
  /\ UNCHANGED <<pause, status>>

\* The end of resume's critical section: the pause is cleared and, in STEP mode,
\* one step is released, whether or not a worker can be started afterwards.
AcceptAnswer(c, payload) ==
  /\ pause' = "NONE" /\ status' = "RUNNING"
  /\ IF mode = "STEP"
     THEN permits' = 1 /\ awaiting' = FALSE /\ released' = released + 1
     ELSE UNCHANGED <<permits, awaiting, released>>
  /\ accepted' = accepted + 1
  /\ client' = [client EXCEPT ![c] = [at |-> "accepted", payload |-> payload]]

\* The check at the head of resume, and the assumption of a patient human.
CanAnswer(c, kind) ==
  /\ client[c].at = "idle"
  /\ status = "WAITING" /\ pause = kind
  /\ Patient => ~workerActive

\* resume with a clarification: the answers are not looked at here.
ResumeClarification(c) ==
  /\ CanAnswer(c, "clarification")
  /\ \E answer \in Answers \cap ClarificationAnswers : AcceptAnswer(c, answer)
  /\ UNCHANGED <<mode, workerActive, events, worker, reader, plane, pauses>>

\* resume with an approval: the decision is recorded in the session first
\* (ActionEngine!RecordHumanApproval), then the payload is built, and building
\* it fails for an approval that carries a reason.
AnswerApproval(c, recorded) ==
  /\ CanAnswer(c, "approval")
  /\ approval = "PENDING"
  /\ \E answer \in Answers \cap ApprovalAnswers :
       \/ /\ answer = recorded /\ AcceptAnswer(c, answer)
       \/ /\ answer = "APPROVED_WITH_REASON" /\ recorded = "APPROVED"
          /\ UNCHANGED <<status, pause, permits, awaiting, client, released, accepted>>
  /\ UNCHANGED <<mode, workerActive, events, worker, reader, nodes, pauses>>

ResumeApproval(c) ==
  \E recorded \in {"PENDING", "APPROVED", "REJECTED"} :
    /\ AnswerApproval(c, recorded)
    /\ approval' = recorded
    /\ UNCHANGED <<interrupt, ended>>

AnnounceResume(c) ==
  /\ client[c].at = "accepted"
  /\ Publish("run.resumed")
  /\ client' = [client EXCEPT ![c].at = "starting"]
  /\ UNCHANGED <<record, worker, reader, plane, history>>

\* The last act of resume: start a worker, or raise because one is active.
ResumeWorker(c) ==
  /\ client[c].at = "starting"
  /\ \/ StartWorker(client[c].payload)
     \/ workerActive /\ UNCHANGED <<worker, workerActive, status>>
  /\ client' = [client EXCEPT ![c] = Idle("NONE")]
  /\ UNCHANGED <<mode, pause, permits, awaiting, events, reader, plane, history>>

ClientStep(c) ==
  \/ Advance(c) \/ AnnounceAdvance(c)
  \/ ResumeClarification(c) \/ ResumeApproval(c)
  \/ AnnounceResume(c) \/ ResumeWorker(c)

-----------------------------------------------------------------------------
(* Event-stream readers *)

\* Deviation of Deliver: the stream closes on a terminal event instead of on the
\* terminal status.
DeliverUntilTerminalEvent(r) ==
  /\ ~reader[r].ended
  /\ Len(events) > reader[r].cursor \/ status \in Terminal
  /\ reader' = [reader EXCEPT ![r] =
                  [cursor |-> Len(events),
                   ended  |-> events[Len(events)] \in TerminalEvents]]
  /\ UNCHANGED <<record, events, worker, client, plane, history>>

\* wait_for_events returns the events after the cursor and whether the status is
\* terminal, from one critical section; the stream yields them and closes when
\* it was.  An empty answer to a run still going is a heartbeat and a new wait.
Deliver(r) ==
  /\ ~reader[r].ended
  /\ Len(events) > reader[r].cursor \/ status \in Terminal
  /\ reader' = [reader EXCEPT ![r] =
                  [cursor |-> Len(events), ended |-> status \in Terminal]]
  /\ UNCHANGED <<record, events, worker, client, plane, history>>

Next ==
  \/ Start
  \/ \E t \in Threads : WorkerStep(t)
  \/ \E c \in Clients : ClientStep(c)
  \/ \E r \in Readers : Deliver(r)

Spec == Init /\ [][Next]_vars

\* Threads run, and a request that was accepted runs to its end; nobody has to
\* release a step or answer a checkpoint.
FairSpec ==
  /\ Spec
  /\ WF_vars(Start)
  /\ \A t \in Threads : WF_vars(WorkerStep(t))
  /\ \A c \in Clients :
       WF_vars(AnnounceAdvance(c) \/ AnnounceResume(c) \/ ResumeWorker(c))
  /\ \A r \in Readers : WF_vars(Deliver(r))

-----------------------------------------------------------------------------
(* Properties *)

EventTypes == {"run.queued", "run.started", "run.step_waiting", "run.advanced",
               "run.waiting", "run.resumed", "node.started", "node.completed"}
              \cup TerminalEvents

\* The record's fields, the queues and the bounds: at most one step is ever
\* released ahead of the worker (advance and resume both set step_permits).
TypeOK ==
  /\ mode \in Modes
  /\ status \in {"QUEUED", "RUNNING", "WAITING"} \cup Terminal
  /\ pause \in Kinds \cup {"NONE"} /\ interrupt \in Kinds \cup {"NONE"}
  /\ permits \in 0..1 /\ awaiting \in BOOLEAN /\ workerActive \in BOOLEAN
  /\ events \in Seq(EventTypes)
  /\ \A t \in Threads :
       worker[t].at \in {"idle", "begin", "loop", "announce", "permit", "next",
                         "node", "paused", "finally"}
  /\ \A c \in Clients : client[c].at \in {"idle", "advanced", "accepted", "starting"}
  /\ \A r \in Readers : reader[r].cursor \in 0..Len(events)
  /\ approval \in Stream!Statuses /\ ended \in BOOLEAN
  /\ nodes \in 0..MaxNodes /\ pauses \in 0..MaxPauses

\* Step by step means it: the graph never makes a move (a node, or a move to a
\* human checkpoint) that no release allowed, through pauses, answers that
\* arrive early and late announcements (_await_step, advance, resume).
StepwiseExecution ==
  mode = "STEP" => nodes + pauses + permits <= released

\* One interrupt, one answer: however many clients answer it at once, a
\* checkpoint is answered once (resume, its checks and assignments in one
\* critical section).
AnswersNeverExceedPauses == accepted <= pauses

\* One worker drives the plane: a run never has two threads in the graph, and
\* worker_active says whether it has one (_start_worker, _execute).
OneWorker ==
  LET busy == {t \in Threads : worker[t].at # "idle"} IN
  /\ Cardinality(busy) <= 1
  /\ workerActive <=> busy # {}

\* A stream that closed has delivered the run's terminal event: no reader sees
\* the terminal status before the event that carries the final snapshot.
EndedReadersSawTerminalEvent ==
  \A r \in Readers : reader[r].ended =>
    \E i \in 1..reader[r].cursor : events[i] \in TerminalEvents

\* A run that shows as RUNNING has a thread in the graph, or a request is about
\* to start one: an accepted answer is not lost.
RunningHasWorker ==
  status = "RUNNING" =>
    workerActive \/ \E c \in Clients : client[c].at \in {"accepted", "starting"}

\* An answer the plane refuses leaves the run answerable: it does not turn into
\* the failure of the run.
RefusedAnswerKeepsRun ==
  [][\A t \in Threads :
       worker[t].at = "next" /\ ResumeRefused(t) /\ worker'[t].at # "next"
         => status' # "FAILED"]_vars

\* An approval checkpoint on display can still be decided: the session has its
\* approval pending.
ShownApprovalIsPending ==
  status = "WAITING" /\ pause = "approval" => approval = "PENDING"

\* A running run comes to rest: it ends, it asks the human, or it waits for the
\* release of a step; a release that was given is used.
RunSettles ==
  status = "RUNNING" ~> (status \in Terminal \cup {"WAITING"} \/ awaiting)

\* Every event stream of a run that ended closes, whatever was published after
\* the terminal event.
ReadersFinish == \A r \in Readers : status \in Terminal ~> reader[r].ended

=============================================================================
