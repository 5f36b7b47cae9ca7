-------------------------- MODULE RunServiceProofs --------------------------
(***************************************************************************)
(* Theorems about one run of the web service, for any number of threads,   *)
(* clients and readers, patient or not, and any bounds.                    *)
(***************************************************************************)
EXTENDS RunService, FiniteSetTheorems, TLAPS

-----------------------------------------------------------------------------
(* Types *)

Payloads == Answers \cup {"START", "NONE"}

WorkerPlaces == {"idle", "begin", "loop", "announce", "permit", "next", "node", "paused",
                 "finally"}

\* A step that is awaited has not been released: that is why no two are.
RecordTyped ==
  /\ mode \in Modes
  /\ status \in {"QUEUED", "RUNNING", "WAITING"} \cup Terminal
  /\ pause \in Kinds \cup {"NONE"} /\ interrupt \in Kinds \cup {"NONE"}
  /\ permits \in 0..1 /\ awaiting \in BOOLEAN /\ workerActive \in BOOLEAN
  /\ awaiting = TRUE => permits = 0
  /\ approval \in Stream!Statuses /\ ended \in BOOLEAN
  /\ nodes \in 0..MaxNodes /\ pauses \in 0..MaxPauses
  /\ released \in Nat /\ accepted \in Nat

ThreadsTyped ==
  /\ worker \in [Threads -> [at : WorkerPlaces, payload : Payloads]]
  /\ client \in [Clients -> [at : {"idle", "advanced", "accepted", "starting"},
                             payload : Payloads]]

StreamsTyped ==
  /\ events \in Seq(EventTypes)
  /\ reader \in [Readers -> [cursor : Nat, ended : BOOLEAN]]
  /\ \A r \in Readers : reader[r].cursor <= Len(events)

Typed == RecordTyped /\ ThreadsTyped /\ StreamsTyped

LEMMA TypedIsTypeOK == Typed => TypeOK
  BY DEF Typed, RecordTyped, ThreadsTyped, StreamsTyped, TypeOK, WorkerPlaces

LEMMA InitTyped == Init => Typed
  <1> SUFFICES ASSUME Init PROVE Typed
    OBVIOUS
  <1>1. RecordTyped
    <2>1. permits \in 0..1 /\ released \in Nat
      BY DEF Init
    <2>2. awaiting \in BOOLEAN /\ workerActive \in BOOLEAN /\ (awaiting = TRUE => permits = 0)
      BY DEF Init
    <2>3. nodes \in 0..MaxNodes /\ pauses \in 0..MaxPauses /\ accepted \in Nat
      BY RunServiceAssumption DEF Init
    <2>4. interrupt = "NONE" /\ approval \in Stream!Statuses /\ ended \in BOOLEAN
      BY DEF Init, Stream!Init
    <2> QED
      BY <2>1, <2>2, <2>3, <2>4 DEF Init, RecordTyped
  <1>2. ThreadsTyped
    BY DEF Init, ThreadsTyped, Idle, Payloads, WorkerPlaces
  <1>3. StreamsTyped
    <2>1. events = <<"run.queued">> /\ reader = [r \in Readers |-> [cursor |-> 0, ended |-> FALSE]]
      BY DEF Init
    <2>2. "run.queued" \in EventTypes
      BY DEF EventTypes
    <2> QED
      BY <2>1, <2>2 DEF StreamsTyped
  <1> QED
    BY <1>1, <1>2, <1>3 DEF Typed

LEMMA WorkerKeepsTypes ==
  ASSUME Typed, NEW t \in Threads, WorkerStep(t)
  PROVE  RecordTyped' /\ ThreadsTyped'
  <1> USE DEF record, plane, history, Publish, Goto
  <1>1. CASE Begin(t)
    BY <1>1 DEF Begin, Typed, RecordTyped, ThreadsTyped, WorkerPlaces
  <1>2. CASE AwaitStep(t)
    <2>1. \/ awaiting' = awaiting
          \/ awaiting' = TRUE /\ permits <= 0
      BY <1>2 DEF AwaitStep
    <2>2. awaiting' \in BOOLEAN /\ (awaiting' = TRUE => permits = 0)
      <3>1. awaiting \in BOOLEAN /\ (awaiting = TRUE => permits = 0)
        BY DEF Typed, RecordTyped
      <3>2. permits <= 0 => permits = 0
        BY DEF Typed, RecordTyped
      <3> QED
        BY <2>1, <3>1, <3>2
    <2>3. RecordTyped'
      BY <1>2, <2>2 DEF AwaitStep, Typed, RecordTyped
    <2>4. PICK at \in WorkerPlaces : worker' = [worker EXCEPT ![t].at = at]
      BY <1>2 DEF AwaitStep, WorkerPlaces
    <2>5. ThreadsTyped'
      BY <1>2, <2>4 DEF AwaitStep, Typed, ThreadsTyped
    <2> QED
      BY <2>3, <2>5
  <1>3. CASE AnnounceStep(t)
    BY <1>3 DEF AnnounceStep, Typed, RecordTyped, ThreadsTyped, WorkerPlaces
  <1>4. CASE TakePermit(t)
    <2>1. \/ permits' = permits - 1 /\ permits > 0 /\ awaiting' = FALSE
          \/ permits' = permits /\ awaiting' = awaiting
      BY <1>4 DEF TakePermit
    <2>2. permits' \in 0..1
      BY <2>1 DEF Typed, RecordTyped
    <2>3. awaiting' \in BOOLEAN /\ (awaiting' = TRUE => permits' = 0)
      <3>1. awaiting \in BOOLEAN /\ (awaiting = TRUE => permits = 0)
        BY DEF Typed, RecordTyped
      <3> QED
        BY <2>1, <3>1
    <2>4. RecordTyped'
      BY <1>4, <2>2, <2>3 DEF TakePermit, Typed, RecordTyped
    <2>5. ThreadsTyped'
      BY <1>4 DEF TakePermit, Typed, ThreadsTyped, WorkerPlaces
    <2> QED
      BY <2>4, <2>5
  <1>5. CASE YieldNode(t)
    <2>1. interrupt' = "NONE" /\ approval' \in Stream!Statuses /\ ended' \in BOOLEAN
      BY <1>5 DEF YieldNode, TakeUpdate, Stream!Resume, Stream!Yield, Typed, RecordTyped
    <2> QED
      BY <1>5, <2>1, RunServiceAssumption
         DEF YieldNode, TakeUpdate, Typed, RecordTyped, ThreadsTyped, WorkerPlaces, Payloads
  <1>6. CASE CompleteNode(t)
    BY <1>6 DEF CompleteNode, Typed, RecordTyped, ThreadsTyped, WorkerPlaces
  <1>7. CASE YieldInterrupt(t)
    <2>1. PICK kind \in Kinds :
            /\ interrupt' = kind /\ UNCHANGED <<approval, ended>>
            /\ ShowPause(t, kind)
      BY <1>7 DEF YieldInterrupt, TakePause, Stream!Pause
    <2>2. pauses < MaxPauses
      BY <1>7 DEF YieldInterrupt, TakePause
    <2>3. RecordTyped'
      BY <2>1, <2>2, RunServiceAssumption DEF ShowPause, Typed, RecordTyped
    <2>4. ThreadsTyped'
      BY <2>1 DEF ShowPause, Typed, ThreadsTyped, WorkerPlaces
    <2> QED
      BY <2>3, <2>4
  <1>8. CASE AnnouncePause(t)
    BY <1>8 DEF AnnouncePause, Typed, RecordTyped, ThreadsTyped, WorkerPlaces
  <1>9. CASE EndStream(t)
    BY <1>9 DEF EndStream, Typed, RecordTyped, ThreadsTyped, WorkerPlaces, Terminal
  <1>10. CASE FailStream(t)
    BY <1>10 DEF FailStream, Typed, RecordTyped, ThreadsTyped, WorkerPlaces, Terminal
  <1>11. CASE Finally(t)
    BY <1>11 DEF Finally, Typed, RecordTyped, ThreadsTyped, WorkerPlaces, Idle, Payloads
  <1> QED
    BY <1>1, <1>2, <1>3, <1>4, <1>5, <1>6, <1>7, <1>8, <1>9, <1>10, <1>11 DEF WorkerStep

LEMMA StartKeepsTypes ==
  ASSUME Typed, NEW payload \in Payloads, StartWorker(payload)
  PROVE  /\ worker' \in [Threads -> [at : WorkerPlaces, payload : Payloads]]
         /\ status' = "RUNNING" /\ workerActive'
  BY DEF StartWorker, Typed, ThreadsTyped, WorkerPlaces

LEMMA AcceptKeepsTypes ==
  ASSUME Typed, NEW c \in Clients, NEW payload \in Payloads, AcceptAnswer(c, payload)
  PROVE  /\ pause' = "NONE" /\ status' = "RUNNING"
         /\ permits' \in 0..1 /\ awaiting' \in BOOLEAN /\ (awaiting' = TRUE => permits' = 0)
         /\ released' \in Nat /\ accepted' \in Nat
         /\ client' \in [Clients -> [at : {"idle", "advanced", "accepted", "starting"},
                                     payload : Payloads]]
  <1>1. pause' = "NONE" /\ status' = "RUNNING" /\ accepted' \in Nat
    BY DEF AcceptAnswer, Typed, RecordTyped
  <1>2. \/ permits' = 1 /\ awaiting' = FALSE /\ released' = released + 1
        \/ UNCHANGED <<permits, awaiting, released>>
    BY DEF AcceptAnswer
  <1>3. permits' \in 0..1 /\ released' \in Nat
    BY <1>2 DEF Typed, RecordTyped
  <1>4. awaiting' \in BOOLEAN /\ (awaiting' = TRUE => permits' = 0)
    <2>1. awaiting \in BOOLEAN /\ (awaiting = TRUE => permits = 0)
      BY DEF Typed, RecordTyped
    <2> QED
      BY <1>2, <2>1
  <1>5. client' \in [Clients -> [at : {"idle", "advanced", "accepted", "starting"},
                                payload : Payloads]]
    BY DEF AcceptAnswer, Typed, ThreadsTyped
  <1> QED
    BY <1>1, <1>3, <1>4, <1>5

LEMMA ClientKeepsTypes ==
  ASSUME Typed, NEW c \in Clients, ClientStep(c)
  PROVE  RecordTyped' /\ ThreadsTyped'
  <1> USE DEF record, plane, history, Publish
  <1>1. CASE Advance(c)
    <2>1. awaiting' = FALSE /\ permits' = permits + 1
      BY <1>1 DEF Advance, ReleaseStep
    <2>2. permits' \in 0..1
      <3>1. awaiting = TRUE
        BY <1>1 DEF Advance, Typed, RecordTyped
      <3> QED
        BY <2>1, <3>1 DEF Typed, RecordTyped
    <2>3. RecordTyped'
      <3>1. awaiting' \in BOOLEAN /\ (awaiting' = TRUE => permits' = 0)
        BY <2>1
      <3>2. released' \in Nat
        BY <1>1 DEF Advance, Typed, RecordTyped
      <3> QED
        BY <1>1, <2>2, <3>1, <3>2 DEF Advance, Typed, RecordTyped
    <2>4. ThreadsTyped'
      BY <1>1 DEF Advance, Typed, ThreadsTyped
    <2> QED
      BY <2>3, <2>4
  <1>2. CASE AnnounceAdvance(c)
    BY <1>2 DEF AnnounceAdvance, Typed, RecordTyped, ThreadsTyped, Idle, Payloads
  <1>3. CASE ResumeClarification(c)
    <2>1. PICK answer \in Answers : AcceptAnswer(c, answer)
      BY <1>3 DEF ResumeClarification
    <2> QED
      BY <1>3, <2>1, AcceptKeepsTypes
         DEF ResumeClarification, Typed, RecordTyped, ThreadsTyped, Payloads
  <1>4. CASE ResumeApproval(c)
    <2>1. CASE \E answer \in Answers :
                 /\ answer \in {"PENDING", "APPROVED", "REJECTED"}
                 /\ approval' = answer
                 /\ AcceptAnswer(c, answer)
      BY <1>4, <2>1, AcceptKeepsTypes
         DEF ResumeApproval, AnswerApproval, Typed, RecordTyped, ThreadsTyped, Payloads,
             Stream!Statuses
    <2>2. CASE /\ approval' = "APPROVED"
               /\ UNCHANGED <<status, pause, permits, awaiting, client, released, accepted>>
      BY <1>4, <2>2 DEF ResumeApproval, AnswerApproval, Typed, RecordTyped, ThreadsTyped,
                        Stream!Statuses
    <2> QED
      BY <1>4, <2>1, <2>2 DEF ResumeApproval, AnswerApproval
  <1>5. CASE AnnounceResume(c)
    BY <1>5 DEF AnnounceResume, Typed, RecordTyped, ThreadsTyped
  <1>6. CASE ResumeWorker(c)
    <2>1. client[c].payload \in Payloads
      BY DEF Typed, ThreadsTyped
    <2>2. \/ StartWorker(client[c].payload)
          \/ UNCHANGED <<worker, workerActive, status>>
      BY <1>6 DEF ResumeWorker
    <2>3. /\ worker' \in [Threads -> [at : WorkerPlaces, payload : Payloads]]
          /\ status' \in {"RUNNING", status} /\ workerActive' \in BOOLEAN
      BY <2>1, <2>2, StartKeepsTypes DEF Typed, RecordTyped, ThreadsTyped
    <2>4. client' \in [Clients -> [at : {"idle", "advanced", "accepted", "starting"},
                                   payload : Payloads]]
      BY <1>6 DEF ResumeWorker, Typed, ThreadsTyped, Idle, Payloads
    <2> QED
      BY <1>6, <2>3, <2>4 DEF ResumeWorker, Typed, RecordTyped, ThreadsTyped
  <1> QED
    BY <1>1, <1>2, <1>3, <1>4, <1>5, <1>6 DEF ClientStep

\* Events are only ever appended, and readers only move to the end.
LEMMA StreamsGrow ==
  ASSUME Typed, Next
  PROVE  /\ \/ events' = events
            \/ \E event \in EventTypes : events' = Append(events, event)
         /\ \/ reader' = reader
            \/ /\ events' = events /\ status' = status
               /\ \E r \in Readers : reader' = [reader EXCEPT ![r] =
                    [cursor |-> Len(events), ended |-> status \in Terminal]]
  <1> USE DEF Publish, record, plane, history, EventTypes
  <1>1. ASSUME NEW t \in Threads, WorkerStep(t)
        PROVE  /\ reader' = reader
               /\ \/ events' = events
                  \/ \E event \in EventTypes : events' = Append(events, event)
    BY <1>1 DEF WorkerStep, Begin, AwaitStep, AnnounceStep, TakePermit, YieldNode,
                TakeUpdate, CompleteNode,
                YieldInterrupt, TakePause, ShowPause, AnnouncePause, EndStream,
                FailStream, Finally,
                TerminalEvents
  <1>2. ASSUME NEW c \in Clients, ClientStep(c)
        PROVE  /\ reader' = reader
               /\ \/ events' = events
                  \/ \E event \in EventTypes : events' = Append(events, event)
    BY <1>2 DEF ClientStep, Advance, AnnounceAdvance, ResumeClarification,
                ResumeApproval, AnswerApproval,
                AnnounceResume, ResumeWorker
  <1>3. CASE Start
    BY <1>3 DEF Start
  <1>4. ASSUME NEW r \in Readers, Deliver(r)
        PROVE  /\ events' = events /\ status' = status
               /\ reader' = [reader EXCEPT ![r] =
                    [cursor |-> Len(events), ended |-> status \in Terminal]]
    BY <1>4 DEF Deliver
  <1> QED
    BY <1>1, <1>2, <1>3, <1>4 DEF Next

LEMMA StepKeepsTypes == Typed /\ [Next]_vars => Typed'
  <1> SUFFICES ASSUME Typed, [Next]_vars PROVE Typed'
    OBVIOUS
  <1>1. CASE UNCHANGED vars
    BY <1>1 DEF vars, record, plane, history, Typed, RecordTyped, ThreadsTyped, StreamsTyped
  <1>2. CASE Next
    <2>1. RecordTyped' /\ ThreadsTyped'
      <3>1. CASE Start
        BY <3>1, StartKeepsTypes
           DEF Start, plane, history, Payloads, Typed, RecordTyped, ThreadsTyped
      <3>2. CASE \E r \in Readers : Deliver(r)
        BY <3>2 DEF Deliver, record, plane, history, Typed, RecordTyped, ThreadsTyped
      <3> QED
        BY <1>2, <3>1, <3>2, WorkerKeepsTypes, ClientKeepsTypes DEF Next
    <2>2. StreamsTyped'
      <3>1. events' \in Seq(EventTypes) /\ Len(events') >= Len(events)
        BY <1>2, StreamsGrow DEF Typed, StreamsTyped
      <3>2. /\ reader' \in [Readers -> [cursor : Nat, ended : BOOLEAN]]
            /\ \A r \in Readers : reader'[r].cursor <= Len(events')
        <4>1. CASE reader' = reader
          BY <3>1, <4>1 DEF Typed, StreamsTyped
        <4>2. CASE reader' # reader
          <5>1. PICK r \in Readers : reader' = [reader EXCEPT ![r] =
                  [cursor |-> Len(events), ended |-> status \in Terminal]]
            BY <1>2, <4>2, StreamsGrow
          <5>2. Len(events) \in Nat /\ events' = events /\ (status \in Terminal) \in BOOLEAN
            BY <1>2, <4>2, StreamsGrow DEF Typed, StreamsTyped
          <5> QED
            BY <5>1, <5>2 DEF Typed, StreamsTyped
        <4> QED
          BY <4>1, <4>2
      <3> QED
        BY <3>1, <3>2 DEF StreamsTyped
    <2> QED
      BY <2>1, <2>2 DEF Typed
  <1> QED
    BY <1>1, <1>2

\* The record, the queues and the bounds keep their types; in particular no two
\* steps are ever released ahead of the worker (advance, resume, _await_step).
THEOREM ServiceTypes == Spec => []TypeOK
  BY InitTyped, StepKeepsTypes, TypedIsTypeOK, PTL DEF Spec

-----------------------------------------------------------------------------
(* One worker *)

Busy(t) == worker[t].at # "idle"

\* Two busy threads are one, and worker_active says whether there is one.
SingleWorker ==
  /\ \A t, u \in Threads : Busy(t) /\ Busy(u) => t = u
  /\ workerActive = TRUE <=> \E t \in Threads : Busy(t)

LEMMA SingleIsOne == Typed /\ SingleWorker => OneWorker
  <1> SUFFICES ASSUME Typed, SingleWorker PROVE OneWorker
    OBVIOUS
  <1> DEFINE busy == {t \in Threads : worker[t].at # "idle"}
  <1>1. CASE busy = {}
    <2>1. Cardinality(busy) = 0
      BY <1>1, FS_EmptySet
    <2>2. workerActive = FALSE
      BY <1>1 DEF SingleWorker, Busy, Typed, RecordTyped
    <2> QED
      BY <1>1, <2>1, <2>2 DEF OneWorker
  <1>2. CASE busy # {}
    <2>1. PICK t \in Threads : Busy(t)
      BY <1>2 DEF Busy
    <2>2. busy = {t}
      BY <2>1 DEF SingleWorker, Busy
    <2>3. Cardinality(busy) = 1
      BY <2>2, FS_Singleton
    <2>4. workerActive = TRUE
      BY <2>1 DEF SingleWorker
    <2> QED
      BY <1>2, <2>3, <2>4 DEF OneWorker
  <1> QED
    BY <1>1, <1>2

\* A busy worker that stays busy changes nothing.
LEMMA WorkerStaysBusy ==
  ASSUME Typed, SingleWorker, NEW t \in Threads, Busy(t), Busy(t)',
         \A u \in Threads : u # t => worker'[u] = worker[u],
         workerActive' = workerActive
  PROVE  SingleWorker'
  BY DEF SingleWorker, Busy

\* Every step of a worker thread but its last keeps it busy.
LEMMA WorkerMoves ==
  ASSUME Typed, NEW t \in Threads, WorkerStep(t)
  PROVE  /\ Busy(t)
         /\ \A u \in Threads : u # t => worker'[u] = worker[u]
         /\ ~Finally(t) => Busy(t)' /\ workerActive' = workerActive
  <1> USE DEF record, Goto, Busy, Typed, ThreadsTyped
  <1>1. CASE Finally(t)
    BY <1>1 DEF Finally
  <1>2. CASE Begin(t) \/ AwaitStep(t) \/ AnnounceStep(t) \/ TakePermit(t)
    BY <1>2 DEF Begin, AwaitStep, AnnounceStep, TakePermit
  <1>3. CASE YieldNode(t) \/ CompleteNode(t) \/ AnnouncePause(t)
    BY <1>3 DEF YieldNode, TakeUpdate, CompleteNode, AnnouncePause
  <1>4. CASE YieldInterrupt(t) \/ EndStream(t) \/ FailStream(t)
    BY <1>4 DEF YieldInterrupt, TakePause, ShowPause, EndStream, FailStream
  <1> QED
    BY <1>1, <1>2, <1>3, <1>4 DEF WorkerStep

LEMMA StartIsSingle ==
  ASSUME Typed, SingleWorker, NEW payload, StartWorker(payload)
  PROVE  SingleWorker'
  <1>1. PICK t \in Threads :
          /\ workerActive = FALSE
          /\ worker' = [worker EXCEPT ![t] = [at |-> "begin", payload |-> payload]]
          /\ workerActive' = TRUE
    BY DEF StartWorker, Typed, RecordTyped
  <1>2. \A u \in Threads : ~Busy(u)
    BY <1>1 DEF SingleWorker
  <1>3. worker'[t].at = "begin" /\ \A u \in Threads : u # t => worker'[u] = worker[u]
    BY <1>1 DEF Typed, ThreadsTyped
  <1> QED
    BY <1>1, <1>2, <1>3 DEF SingleWorker, Busy

LEMMA StepKeepsSingleWorker == Typed /\ SingleWorker /\ [Next]_vars => SingleWorker'
  <1> SUFFICES ASSUME Typed, SingleWorker, [Next]_vars PROVE SingleWorker'
    OBVIOUS
  <1>1. ASSUME worker' = worker, workerActive' = workerActive
        PROVE  SingleWorker'
    BY <1>1 DEF SingleWorker, Busy
  <1>2. CASE UNCHANGED vars
    BY <1>1, <1>2 DEF vars, record
  <1>3. CASE Start
    BY <1>3, StartIsSingle DEF Start
  <1>4. ASSUME NEW t \in Threads, WorkerStep(t)
        PROVE  SingleWorker'
    <2>1. CASE Finally(t)
      <3>1. /\ workerActive' = FALSE /\ worker'[t].at = "idle"
            /\ \A u \in Threads : u # t => worker'[u] = worker[u]
        BY <2>1 DEF Finally, Idle, Typed, ThreadsTyped
      <3>2. Busy(t)
        BY <1>4, WorkerMoves
      <3> QED
        BY <3>1, <3>2 DEF SingleWorker, Busy
    <2>2. CASE ~Finally(t)
      BY <1>4, <2>2, WorkerMoves, WorkerStaysBusy
    <2> QED
      BY <2>1, <2>2
  <1>5. ASSUME NEW c \in Clients, ClientStep(c)
        PROVE  SingleWorker'
    <2>1. CASE ResumeWorker(c)
      BY <1>1, <2>1, StartIsSingle DEF ResumeWorker
    <2>2. CASE ~ResumeWorker(c)
      BY <1>1, <1>5, <2>2
         DEF ClientStep, Advance, AnnounceAdvance, ResumeClarification, ResumeApproval,
             AnswerApproval,
             AnnounceResume, record
    <2> QED
      BY <2>1, <2>2
  <1>6. ASSUME NEW r \in Readers, Deliver(r)
        PROVE  SingleWorker'
    BY <1>1, <1>6 DEF Deliver, record
  <1> QED
    BY <1>2, <1>3, <1>4, <1>5, <1>6 DEF Next

LEMMA InitSingle == Init => SingleWorker
  BY DEF Init, SingleWorker, Busy, Idle

LEMMA WorkersAlways == Spec => [](Typed /\ SingleWorker)
  BY InitTyped, InitSingle, StepKeepsTypes, StepKeepsSingleWorker, PTL DEF Spec

\* A run never has two threads in the graph, however many threads the process
\* may create and however often it is answered.
THEOREM ServiceHasOneWorker == Spec => []OneWorker
  BY SingleIsOne, WorkersAlways, PTL

-----------------------------------------------------------------------------
(* Answers and steps *)

\* While the run waits there is a pause without its answer.
AnswersDue ==
  /\ accepted <= pauses
  /\ status = "WAITING" => accepted < pauses

\* Whoever works on a run sees it running, so takes a permit for every move; the
\* permit of the next move is spent already.
StepsDue ==
  /\ \A t \in Threads :
       worker[t].at \in {"begin", "loop", "announce", "permit", "next", "node"} =>
         status = "RUNNING"
  /\ mode = "STEP" => nodes + pauses + permits <= released
  /\ \A t \in Threads : mode = "STEP" /\ worker[t].at = "next" =>
       nodes + pauses + permits + 1 <= released

LEMMA StepKeepsAnswers == Typed /\ AnswersDue /\ [Next]_vars => AnswersDue'
  <1> SUFFICES ASSUME Typed, AnswersDue, [Next]_vars PROVE AnswersDue'
    OBVIOUS
  <1> USE DEF record, plane, history
  <1>1. accepted \in Nat /\ pauses \in Nat
    BY RunServiceAssumption DEF Typed, RecordTyped
  <1>2. ASSUME accepted' = accepted, pauses' = pauses,
               status' = "WAITING" => status = "WAITING"
        PROVE  AnswersDue'
    BY <1>2 DEF AnswersDue
  <1>3. CASE UNCHANGED vars
    BY <1>2, <1>3 DEF vars
  <1>4. CASE Start
    BY <1>2, <1>4 DEF Start, StartWorker
  <1>5. ASSUME NEW t \in Threads, WorkerStep(t)
        PROVE  AnswersDue'
    <2>1. CASE YieldInterrupt(t)
      <3>1. pauses' = pauses + 1 /\ accepted' = accepted
        BY <2>1 DEF YieldInterrupt, TakePause, ShowPause
      <3> QED
        BY <1>1, <3>1 DEF AnswersDue
    <2>2. CASE ~YieldInterrupt(t)
      BY <1>2, <1>5, <2>2
         DEF WorkerStep, Begin, AwaitStep, AnnounceStep, TakePermit, YieldNode,
             TakeUpdate, CompleteNode,
             AnnouncePause, EndStream, FailStream, Finally
    <2> QED
      BY <2>1, <2>2
  <1>6. ASSUME NEW c \in Clients, ClientStep(c)
        PROVE  AnswersDue'
    <2>1. ASSUME NEW payload, AcceptAnswer(c, payload), status = "WAITING", pauses' = pauses
          PROVE  AnswersDue'
      <3>1. accepted' = accepted + 1 /\ status' = "RUNNING"
        BY <2>1 DEF AcceptAnswer
      <3> QED
        BY <1>1, <2>1, <3>1 DEF AnswersDue
    <2>2. CASE ResumeClarification(c)
      BY <2>1, <2>2 DEF ResumeClarification, CanAnswer
    <2>3. CASE ResumeApproval(c)
      BY <1>2, <2>1, <2>3 DEF ResumeApproval, AnswerApproval, CanAnswer
    <2>4. CASE ~ResumeClarification(c) /\ ~ResumeApproval(c)
      BY <1>2, <1>6, <2>4
         DEF ClientStep, Advance, AnnounceAdvance, AnnounceResume, ResumeWorker, StartWorker
    <2> QED
      BY <2>2, <2>3, <2>4
  <1>7. ASSUME NEW r \in Readers, Deliver(r)
        PROVE  AnswersDue'
    BY <1>2, <1>7 DEF Deliver
  <1> QED
    BY <1>3, <1>4, <1>5, <1>6, <1>7 DEF Next

\* However many clients answer at once, a checkpoint is answered once.
THEOREM PausesAreAnsweredOnce == Spec => []AnswersNeverExceedPauses
  <1>1. Init => AnswersDue
    BY DEF Init, AnswersDue
  <1>2. AnswersDue => AnswersNeverExceedPauses
    BY DEF AnswersDue, AnswersNeverExceedPauses
  <1> QED
    BY <1>1, <1>2, InitTyped, StepKeepsTypes, StepKeepsAnswers, PTL DEF Spec

\* Moves of the worker that neither count a node nor a pause, nor touch a permit.
LEMMA QuietMove ==
  ASSUME Typed, SingleWorker, StepsDue, NEW t \in Threads, Busy(t),
         mode' = mode, nodes' = nodes, pauses' = pauses, permits' = permits,
         released' = released,
         \A u \in Threads : u # t => worker'[u] = worker[u],
         worker'[t].at \in {"begin", "loop", "announce", "permit", "next", "node"} =>
           status' = "RUNNING",
         mode = "STEP" => worker'[t].at # "next"
  PROVE  StepsDue'
  <1>1. \A u \in Threads : u # t => worker'[u].at = "idle"
    BY DEF SingleWorker, Busy
  <1> QED
    BY <1>1 DEF StepsDue

LEMMA WorkerKeepsSteps ==
  ASSUME Typed, SingleWorker, StepsDue, NEW t \in Threads, WorkerStep(t)
  PROVE  StepsDue'
  <1> USE DEF record, plane, history, Goto
  <1>1. Busy(t) /\ \A u \in Threads : u # t => worker'[u] = worker[u]
    BY WorkerMoves
  <1>2. \A u \in Threads : u # t => worker'[u].at = "idle"
    BY <1>1 DEF SingleWorker, Busy
  <1>3. nodes \in Nat /\ pauses \in Nat /\ permits \in Nat /\ released \in Nat
    BY RunServiceAssumption DEF Typed, RecordTyped
  <1>4. worker[t].at \in {"begin", "loop", "announce", "permit", "next", "node"} =>
          status = "RUNNING"
    BY DEF StepsDue
  <1>5. CASE Begin(t) \/ AnnounceStep(t) \/ CompleteNode(t)
    BY <1>1, <1>4, <1>5, QuietMove
       DEF Begin, AnnounceStep, CompleteNode, Typed, ThreadsTyped
  <1>6. CASE AwaitStep(t)
    <2>1. mode = "STEP" => worker'[t].at # "next"
      BY <1>6 DEF AwaitStep, Typed, ThreadsTyped
    <2> QED
      BY <1>1, <1>4, <1>6, <2>1, QuietMove DEF AwaitStep
  <1>7. CASE AnnouncePause(t) \/ Finally(t) \/ EndStream(t) \/ FailStream(t)
    <2>1. worker'[t].at \in {"idle", "finally"}
      BY <1>7 DEF AnnouncePause, Finally, EndStream, FailStream, Idle, Typed, ThreadsTyped
    <2>2. /\ mode' = mode /\ nodes' = nodes /\ pauses' = pauses /\ permits' = permits
          /\ released' = released
      BY <1>7 DEF AnnouncePause, Finally, EndStream, FailStream
    <2> QED
      BY <1>1, <2>1, <2>2, QuietMove
  <1>8. CASE TakePermit(t)
    <2>1. status = "RUNNING" /\ permits' = permits - 1
      BY <1>4, <1>8 DEF TakePermit
    <2>2. /\ mode' = mode /\ nodes' = nodes /\ pauses' = pauses /\ released' = released
          /\ status' = status
      BY <1>8 DEF TakePermit
    <2>3. mode = "STEP" => nodes' + pauses' + permits' + 1 <= released'
      BY <1>3, <2>1, <2>2 DEF StepsDue
    <2>4. mode = "STEP" => nodes' + pauses' + permits' <= released'
      BY <1>3, <2>1, <2>2 DEF StepsDue
    <2> QED
      BY <1>2, <2>1, <2>2, <2>3, <2>4 DEF StepsDue
  <1>9. ASSUME mode' = mode, mode = "STEP" => nodes' + pauses' + permits' <= released',
               worker'[t].at = "paused" \/ (worker'[t].at = "node" /\ status' = "RUNNING")
        PROVE  StepsDue'
    BY <1>2, <1>9 DEF StepsDue
  <1>10. CASE YieldNode(t)
    <2>1. worker'[t].at = "node" /\ status' = "RUNNING" /\ worker[t].at = "next"
      BY <1>4, <1>10 DEF YieldNode, TakeUpdate, Typed, ThreadsTyped
    <2>2. nodes' = nodes + 1 /\ pauses' = pauses /\ permits' = permits
          /\ mode' = mode /\ released' = released
      BY <1>10 DEF YieldNode, TakeUpdate
    <2>3. mode = "STEP" => nodes' + pauses' + permits' <= released'
      BY <1>3, <2>1, <2>2 DEF StepsDue
    <2> QED
      BY <1>9, <2>1, <2>2, <2>3
  <1>11. CASE YieldInterrupt(t)
    <2>1. worker'[t].at = "paused" /\ worker[t].at = "next"
      BY <1>11 DEF YieldInterrupt, TakePause, ShowPause, Typed, ThreadsTyped
    <2>2. nodes' = nodes /\ pauses' = pauses + 1 /\ permits' = permits
          /\ mode' = mode /\ released' = released
      BY <1>11 DEF YieldInterrupt, TakePause, ShowPause
    <2>3. mode = "STEP" => nodes' + pauses' + permits' <= released'
      BY <1>3, <2>1, <2>2 DEF StepsDue
    <2> QED
      BY <1>2, <2>1, <2>2, <2>3 DEF StepsDue
  <1> QED
    BY <1>5, <1>6, <1>7, <1>8, <1>10, <1>11 DEF WorkerStep

LEMMA StartKeepsSteps ==
  ASSUME Typed, SingleWorker, StepsDue, NEW payload, StartWorker(payload),
         mode' = mode, nodes' = nodes, pauses' = pauses, permits' = permits,
         released' = released
  PROVE  StepsDue'
  <1>1. PICK t \in Threads :
          /\ workerActive = FALSE /\ status' = "RUNNING"
          /\ worker' = [worker EXCEPT ![t] = [at |-> "begin", payload |-> payload]]
    BY DEF StartWorker, Typed, RecordTyped
  <1>2. \A u \in Threads : worker'[u].at \in {"idle", "begin"}
    BY <1>1 DEF SingleWorker, Busy, Typed, ThreadsTyped
  <1> QED
    BY <1>1, <1>2 DEF StepsDue

LEMMA AcceptKeepsSteps ==
  ASSUME Typed, StepsDue, NEW c \in Clients, NEW payload, AcceptAnswer(c, payload),
         status = "WAITING", mode' = mode, worker' = worker, nodes' = nodes, pauses' = pauses
  PROVE  StepsDue'
  <1>1. \A t \in Threads :
          worker[t].at \notin {"begin", "loop", "announce", "permit", "next", "node"}
    BY DEF StepsDue
  <1>2. nodes \in Nat /\ pauses \in Nat /\ permits \in Nat /\ released \in Nat
    BY RunServiceAssumption DEF Typed, RecordTyped
  <1>3. mode = "STEP" => permits' = 1 /\ released' = released + 1
    BY DEF AcceptAnswer
  <1>4. mode = "STEP" => nodes' + pauses' + permits' <= released'
    BY <1>2, <1>3 DEF StepsDue
  <1> QED
    BY <1>1, <1>4 DEF StepsDue

LEMMA ClientKeepsSteps ==
  ASSUME Typed, SingleWorker, StepsDue, NEW c \in Clients, ClientStep(c)
  PROVE  StepsDue'
  <1> USE DEF record, plane, history
  <1>1. ASSUME UNCHANGED <<mode, status, worker, nodes, pauses, permits, released>>
        PROVE  StepsDue'
    BY <1>1 DEF StepsDue
  <1>2. CASE Advance(c)
    <2>1. nodes \in Nat /\ pauses \in Nat /\ permits \in Nat /\ released \in Nat
      BY RunServiceAssumption DEF Typed, RecordTyped
    <2>2. /\ permits' = permits + 1 /\ released' = released + 1
          /\ UNCHANGED <<mode, status, worker, nodes, pauses>>
      BY <1>2 DEF Advance, ReleaseStep
    <2> QED
      BY <2>1, <2>2 DEF StepsDue
  <1>3. CASE ResumeClarification(c)
    <2>1. PICK answer : AcceptAnswer(c, answer)
      BY <1>3 DEF ResumeClarification
    <2> QED
      BY <1>3, <2>1, AcceptKeepsSteps DEF ResumeClarification, CanAnswer
  <1>4. CASE ResumeApproval(c)
    <2>1. CASE \E answer : AcceptAnswer(c, answer)
      BY <1>4, <2>1, AcceptKeepsSteps DEF ResumeApproval, AnswerApproval, CanAnswer
    <2>2. CASE UNCHANGED <<status, permits, released>>
      BY <1>1, <1>4, <2>2 DEF ResumeApproval, AnswerApproval
    <2> QED
      BY <1>4, <2>1, <2>2 DEF ResumeApproval, AnswerApproval
  <1>5. CASE AnnounceAdvance(c) \/ AnnounceResume(c)
    BY <1>1, <1>5 DEF AnnounceAdvance, AnnounceResume
  <1>6. CASE ResumeWorker(c)
    BY <1>1, <1>6, StartKeepsSteps DEF ResumeWorker
  <1> QED
    BY <1>2, <1>3, <1>4, <1>5, <1>6 DEF ClientStep

LEMMA InitSteps == Init => StepsDue
  <1> SUFFICES ASSUME Init PROVE StepsDue
    OBVIOUS
  <1>1. nodes = 0 /\ pauses = 0 /\ permits \in Nat /\ released = permits
    BY DEF Init
  <1>2. \A t \in Threads : worker[t].at = "idle"
    BY DEF Init, Idle
  <1> QED
    BY <1>1, <1>2 DEF StepsDue

LEMMA StepKeepsSteps == Typed /\ SingleWorker /\ StepsDue /\ [Next]_vars => StepsDue'
  <1> SUFFICES ASSUME Typed, SingleWorker, StepsDue, [Next]_vars PROVE StepsDue'
    OBVIOUS
  <1>1. CASE UNCHANGED vars
    BY <1>1 DEF vars, record, plane, history, StepsDue
  <1>2. CASE Start
    BY <1>2, StartKeepsSteps DEF Start, plane, history
  <1>3. ASSUME NEW r \in Readers, Deliver(r)
        PROVE  StepsDue'
    BY <1>3 DEF Deliver, record, plane, history, StepsDue
  <1> QED
    BY <1>1, <1>2, <1>3, WorkerKeepsSteps, ClientKeepsSteps DEF Next

LEMMA StepsHold == Spec => []StepsDue
  BY InitSteps, StepKeepsSteps, WorkersAlways, PTL DEF Spec

\* Step by step: no node runs and no human is asked that no release allowed,
\* however answers, advances and announcements interleave.
THEOREM StepsAreReleased == Spec => []StepwiseExecution
  <1>1. StepsDue => StepwiseExecution
    BY DEF StepsDue, StepwiseExecution
  <1> QED
    BY <1>1, StepsHold, PTL

-----------------------------------------------------------------------------
(* Answers of a patient human *)

Working(t) == worker[t].at \in {"begin", "loop", "announce", "permit", "next", "node"}

Answering(c) == client[c].at \in {"accepted", "starting"}

\* Exactly one of a thread and a request carries a running run: while an answer
\* is under way nobody else answers, and no thread is left of the pause.
Carried ==
  /\ status = "RUNNING" =>
       (\E t \in Threads : Working(t)) \/ \E c \in Clients : Answering(c)
  /\ \A c \in Clients : Answering(c) => status = "RUNNING" /\ \A t \in Threads : ~Busy(t)
  /\ \A c, d \in Clients : Answering(c) /\ Answering(d) => c = d

LEMMA WorkerKeepsCarried ==
  ASSUME Typed, SingleWorker, StepsDue, Carried, NEW t \in Threads, WorkerStep(t)
  PROVE  Carried'
  <1> USE DEF record, Goto
  <1>1. Busy(t)
    BY WorkerMoves
  <1>2. \A c \in Clients : ~Answering(c)
    BY <1>1 DEF Carried
  <1>3. client' = client
    BY DEF WorkerStep, Begin, AwaitStep, AnnounceStep, TakePermit, YieldNode, TakeUpdate,
           CompleteNode,
           YieldInterrupt, TakePause, ShowPause, AnnouncePause, EndStream, FailStream,
           Finally
  <1>4. \A c \in Clients : ~Answering(c)'
    BY <1>2, <1>3 DEF Answering
  <1>5. status' = "RUNNING" => Working(t)'
    <2>1. CASE Begin(t) \/ AwaitStep(t) \/ AnnounceStep(t) \/ TakePermit(t)
      BY <2>1 DEF Begin, AwaitStep, AnnounceStep, TakePermit, Working, Typed, ThreadsTyped
    <2>2. CASE YieldNode(t) \/ CompleteNode(t)
      BY <2>2 DEF YieldNode, TakeUpdate, CompleteNode, Working, Typed, ThreadsTyped
    <2>3. CASE YieldInterrupt(t) \/ EndStream(t) \/ FailStream(t)
      BY <2>3 DEF YieldInterrupt, TakePause, ShowPause, EndStream, FailStream
    <2>4. CASE AnnouncePause(t) \/ Finally(t)
      <3>1. ~Working(t) /\ status' = status
        BY <2>4 DEF AnnouncePause, Finally, Working
      <3>2. \A u \in Threads : ~Working(u)
        BY <1>1, <3>1 DEF SingleWorker, Busy, Working
      <3> QED
        BY <1>2, <3>1, <3>2 DEF Carried
    <2> QED
      BY <2>1, <2>2, <2>3, <2>4 DEF WorkerStep
  <1> QED
    BY <1>4, <1>5 DEF Carried

LEMMA StartIsCarried ==
  ASSUME Typed, NEW payload, StartWorker(payload), \A c \in Clients : ~Answering(c)'
  PROVE  Carried'
  <1>1. \E t \in Threads : Working(t)'
    BY DEF StartWorker, Working, Typed, ThreadsTyped
  <1> QED
    BY <1>1 DEF Carried

LEMMA AcceptIsCarried ==
  ASSUME Typed, SingleWorker, Carried, Patient, NEW c \in Clients, NEW kind, CanAnswer(c, kind),
         NEW payload, AcceptAnswer(c, payload), worker' = worker
  PROVE  Carried'
  <1>1. workerActive = FALSE
    BY DEF CanAnswer, Typed, RecordTyped
  <1>2. \A t \in Threads : ~Busy(t)
    BY <1>1 DEF SingleWorker
  <1>3. \A d \in Clients : ~Answering(d)
    BY DEF CanAnswer, Carried
  <1>4. /\ status' = "RUNNING"
        /\ client' = [client EXCEPT ![c] = [at |-> "accepted", payload |-> payload]]
    BY DEF AcceptAnswer
  <1>5. Answering(c)' /\ \A d \in Clients : Answering(d)' => d = c
    BY <1>3, <1>4 DEF Answering, Typed, ThreadsTyped
  <1>6. \A t \in Threads : ~Busy(t)'
    BY <1>2 DEF Busy
  <1> QED
    BY <1>4, <1>5, <1>6 DEF Carried

LEMMA ClientKeepsCarried ==
  ASSUME Typed, SingleWorker, Carried, Patient, NEW c \in Clients, ClientStep(c)
  PROVE  Carried'
  <1> USE DEF record
  <1>1. ASSUME status' = status, worker' = worker,
               \A d \in Clients : Answering(d)' <=> Answering(d)
        PROVE  Carried'
    BY <1>1 DEF Carried, Working, Busy
  <1>2. CASE Advance(c) \/ AnnounceAdvance(c) \/ AnnounceResume(c)
    <2>1. /\ \A d \in Clients : d # c => client'[d] = client[d]
          /\ client[c].at \in {"accepted", "starting"} <=> client'[c].at \in {"accepted", "starting"}
      <3>1. CASE Advance(c)
        BY <3>1 DEF Advance, Typed, ThreadsTyped
      <3>2. CASE AnnounceAdvance(c)
        BY <3>2 DEF AnnounceAdvance, Idle, Typed, ThreadsTyped
      <3>3. CASE AnnounceResume(c)
        BY <3>3 DEF AnnounceResume, Typed, ThreadsTyped
      <3> QED
        BY <1>2, <3>1, <3>2, <3>3
    <2>2. \A d \in Clients : Answering(d)' <=> Answering(d)
      BY <2>1 DEF Answering
    <2> QED
      BY <1>1, <1>2, <2>2 DEF Advance, AnnounceAdvance, AnnounceResume
  <1>3. CASE ResumeClarification(c)
    <2>1. PICK answer : AcceptAnswer(c, answer)
      BY <1>3 DEF ResumeClarification
    <2> QED
      BY <1>3, <2>1, AcceptIsCarried DEF ResumeClarification
  <1>4. CASE ResumeApproval(c)
    <2>1. CASE \E answer : AcceptAnswer(c, answer)
      BY <1>4, <2>1, AcceptIsCarried DEF ResumeApproval, AnswerApproval
    <2>2. CASE UNCHANGED <<status, client>>
      BY <1>1, <1>4, <2>2 DEF ResumeApproval, AnswerApproval, Answering
    <2> QED
      BY <1>4, <2>1, <2>2 DEF ResumeApproval, AnswerApproval
  <1>5. CASE ResumeWorker(c)
    <2>1. Answering(c) /\ client' = [client EXCEPT ![c] = Idle("NONE")]
      BY <1>5 DEF ResumeWorker, Answering
    <2>2. \A d \in Clients : Answering(d) => d = c
      BY <2>1 DEF Carried
    <2>3. \A d \in Clients : ~Answering(d)'
      BY <2>1, <2>2 DEF Answering, Idle, Typed, ThreadsTyped
    <2>4. workerActive = FALSE
      BY <2>1 DEF Carried, SingleWorker, Typed, RecordTyped
    <2>5. StartWorker(client[c].payload)
      BY <1>5, <2>4 DEF ResumeWorker
    <2> QED
      BY <2>3, <2>5, StartIsCarried
  <1> QED
    BY <1>2, <1>3, <1>4, <1>5 DEF ClientStep

\* When humans answer only after the thread of the pause has ended, no accepted
\* answer is lost: a run that shows as running is driven, or about to be.
THEOREM PatientAnswersAreTaken ==
  ASSUME Patient
  PROVE  Spec => []RunningHasWorker
  <1>1. Init => Carried
    BY DEF Init, Carried, Answering, Idle
  <1>2. Typed /\ SingleWorker /\ StepsDue /\ Carried /\ [Next]_vars => Carried'
    <2> SUFFICES ASSUME Typed, SingleWorker, StepsDue, Carried, [Next]_vars
                 PROVE  Carried'
      OBVIOUS
    <2>1. CASE UNCHANGED vars
      BY <2>1 DEF vars, record, Carried, Working, Busy, Answering
    <2>2. CASE Start
      <3>1. \A c \in Clients : ~Answering(c)'
        BY <2>2 DEF Start, Carried, Answering
      <3> QED
        BY <2>2, <3>1, StartIsCarried DEF Start
    <2>3. ASSUME NEW r \in Readers, Deliver(r)
          PROVE  Carried'
      BY <2>3 DEF Deliver, record, Carried, Working, Busy, Answering
    <2> QED
      BY <2>1, <2>2, <2>3, WorkerKeepsCarried, ClientKeepsCarried DEF Next
  <1>3. Typed /\ SingleWorker /\ Carried => RunningHasWorker
    <2> SUFFICES ASSUME Typed, SingleWorker, Carried, status = "RUNNING"
                 PROVE  workerActive = TRUE \/ \E c \in Clients : Answering(c)
      BY DEF RunningHasWorker, Answering
    <2>1. CASE \E t \in Threads : Working(t)
      BY <2>1 DEF SingleWorker, Busy, Working
    <2>2. CASE \E c \in Clients : Answering(c)
      BY <2>2
    <2> QED
      BY <2>1, <2>2 DEF Carried
  <1>4. Spec => []StepsDue
    BY StepsHold
  <1> QED
    BY <1>1, <1>2, <1>3, <1>4, WorkersAlways, PTL DEF Spec

-----------------------------------------------------------------------------
(* Event streams *)

Told(n) == \E i \in 1..n : events[i] \in TerminalEvents

\* The terminal event is on record whenever the terminal status is.
StreamsTold ==
  /\ status \in Terminal => Told(Len(events))
  /\ \A r \in Readers : reader[r].ended = TRUE => Told(reader[r].cursor)

\* What was published stays in its place.
LEMMA EventsStay ==
  ASSUME Typed, Next
  PROVE  /\ events' \in Seq(EventTypes) /\ Len(events') >= Len(events)
         /\ \A i \in 1..Len(events) : events'[i] = events[i]
  <1>1. events \in Seq(EventTypes)
    BY DEF Typed, StreamsTyped
  <1>2. CASE events' = events
    BY <1>1, <1>2
  <1>3. CASE \E event \in EventTypes : events' = Append(events, event)
    BY <1>1, <1>3
  <1> QED
    BY <1>2, <1>3, StreamsGrow

LEMMA StepKeepsStreams == Typed /\ StreamsTold /\ [Next]_vars => StreamsTold'
  <1> SUFFICES ASSUME Typed, StreamsTold, [Next]_vars PROVE StreamsTold'
    OBVIOUS
  <1> USE DEF record, plane, history
  <1>1. CASE UNCHANGED vars
    BY <1>1 DEF vars, StreamsTold, Told
  <1>2. CASE Next
    <2>1. ASSUME NEW n \in 0..Len(events), Told(n)
          PROVE  Told(n)'
      <3>1. PICK i \in 1..n : events[i] \in TerminalEvents
        BY <2>1 DEF Told
      <3>2. events'[i] = events[i]
        BY <1>2, <3>1, EventsStay
      <3> QED
        BY <3>1, <3>2 DEF Told
    <2>2. Len(events) \in 0..Len(events) /\ \A r \in Readers : reader[r].cursor \in 0..Len(events)
      BY DEF Typed, StreamsTyped
    <2>3. status' \in Terminal => Told(Len(events))'
      <3>1. CASE status' \in Terminal /\ status \in Terminal
        <4>1. Told(Len(events)) /\ events' \in Seq(EventTypes) /\ Len(events') >= Len(events)
          BY <1>2, <3>1, EventsStay DEF StreamsTold
        <4>2. PICK i \in 1..Len(events) : events[i] \in TerminalEvents
          BY <4>1 DEF Told
        <4>3. events'[i] = events[i] /\ i \in 1..Len(events')
          BY <1>2, <4>1, <4>2, EventsStay DEF Typed, StreamsTyped
        <4> QED
          BY <4>2, <4>3 DEF Told
      <3>2. CASE status' \in Terminal /\ status \notin Terminal
        <4>1. \E event \in TerminalEvents : events' = Append(events, event)
          <5>1. ASSUME NEW t \in Threads, WorkerStep(t)
                PROVE  \E event \in TerminalEvents : events' = Append(events, event)
            BY <3>2, <5>1
               DEF WorkerStep, Begin, AwaitStep, AnnounceStep, TakePermit, YieldNode,
                   TakeUpdate,
                   CompleteNode, YieldInterrupt, TakePause, ShowPause, AnnouncePause,
                   EndStream,
                   FailStream, Finally, Publish, Terminal, TerminalEvents
          <5>2. ~(\E c \in Clients : ClientStep(c)) /\ ~Start /\ ~(\E r \in Readers : Deliver(r))
            BY <3>2 DEF ClientStep, Advance, AnnounceAdvance, ResumeClarification,
                        ResumeApproval, AnswerApproval, AcceptAnswer, AnnounceResume,
                        ResumeWorker,
                        StartWorker, Start, Deliver, Terminal
          <5> QED
            BY <1>2, <5>1, <5>2 DEF Next
        <4>2. PICK event \in TerminalEvents : events' = Append(events, event)
          BY <4>1
        <4>3. Len(events') = Len(events) + 1 /\ events'[Len(events) + 1] = event
          BY <4>2 DEF Typed, StreamsTyped
        <4>4. Len(events) + 1 \in 1..Len(events')
          BY <4>3 DEF Typed, StreamsTyped
        <4> QED
          BY <4>3, <4>4 DEF Told
      <3> QED
        BY <3>1, <3>2
    <2>4. \A r \in Readers : reader'[r].ended = TRUE => Told(reader[r].cursor)'
      <3> SUFFICES ASSUME NEW r \in Readers, reader'[r].ended = TRUE
                   PROVE  Told(reader[r].cursor)'
        OBVIOUS
      <3>1. CASE reader'[r] = reader[r]
        <4>1. Told(reader[r].cursor) /\ reader[r].cursor \in 0..Len(events)
          BY <2>2, <3>1 DEF StreamsTold
        <4>2. PICK i \in 1..reader[r].cursor : events[i] \in TerminalEvents
          BY <4>1 DEF Told
        <4>3. events'[i] = events[i]
          BY <1>2, <2>2, <4>1, <4>2, EventsStay
        <4> QED
          BY <3>1, <4>2, <4>3 DEF Told
      <3>2. CASE reader'[r] # reader[r]
        <4>1. PICK s \in Readers : reader' = [reader EXCEPT ![s] =
                [cursor |-> Len(events), ended |-> status \in Terminal]]
          BY <1>2, <3>2, StreamsGrow
        <4>2. events' = events /\ status' = status
          BY <1>2, <3>2, StreamsGrow
        <4>3. reader'[r].cursor = Len(events) /\ reader'[r].ended = (status \in Terminal)
          BY <3>2, <4>1 DEF Typed, StreamsTyped
        <4>4. Told(Len(events))
          BY <4>3 DEF StreamsTold
        <4> QED
          BY <4>2, <4>3, <4>4 DEF Told
      <3> QED
        BY <3>1, <3>2
    <2> QED
      BY <2>3, <2>4 DEF StreamsTold
  <1> QED
    BY <1>1, <1>2

\* However late the announcements and however slow the reader, a stream closes
\* only after it delivered the event with the final snapshot.
THEOREM ClosedStreamsAreComplete == Spec => []EndedReadersSawTerminalEvent
  <1>1. Init => StreamsTold
    BY DEF Init, StreamsTold, Terminal
  <1>2. Typed /\ StreamsTold => EndedReadersSawTerminalEvent
    BY DEF Typed, StreamsTyped, StreamsTold, Told, EndedReadersSawTerminalEvent
  <1> QED
    BY <1>1, <1>2, InitTyped, StepKeepsTypes, StepKeepsStreams, PTL DEF Spec

-----------------------------------------------------------------------------
(* The service pulls a stream *)

\* A checkpoint on display is the one the plane holds.
Displayed == status = "WAITING" => pause = interrupt

LEMMA WorkerKeepsDisplay ==
  ASSUME Typed, StepsDue, Displayed, NEW t \in Threads, WorkerStep(t)
  PROVE  Displayed'
  <1> USE DEF record, plane, history
  <1>1. CASE YieldNode(t)
    <2>1. status = "RUNNING" /\ status' = status
      BY <1>1 DEF YieldNode, TakeUpdate, StepsDue
    <2> QED
      BY <2>1 DEF Displayed
  <1>2. CASE YieldInterrupt(t)
    BY <1>2 DEF YieldInterrupt, TakePause, Stream!Pause, ShowPause, Displayed
  <1>3. CASE EndStream(t) \/ FailStream(t)
    BY <1>3 DEF EndStream, FailStream, Displayed
  <1>4. CASE ~YieldNode(t) /\ ~YieldInterrupt(t) /\ ~EndStream(t) /\ ~FailStream(t)
    BY <1>4 DEF WorkerStep, Begin, AwaitStep, AnnounceStep, TakePermit, CompleteNode,
                AnnouncePause, Finally, Displayed
  <1> QED
    BY <1>1, <1>2, <1>3, <1>4

LEMMA ClientKeepsDisplay ==
  ASSUME Displayed, NEW c \in Clients, ClientStep(c)
  PROVE  Displayed'
  <1> USE DEF record, plane, history
  <1>1. ASSUME NEW payload, AcceptAnswer(c, payload)
        PROVE  Displayed'
    BY <1>1 DEF AcceptAnswer, Displayed
  <1>2. CASE ResumeClarification(c)
    BY <1>1, <1>2 DEF ResumeClarification
  <1>3. CASE ResumeApproval(c)
    BY <1>1, <1>3 DEF ResumeApproval, AnswerApproval, Displayed
  <1>4. CASE Advance(c) \/ AnnounceAdvance(c) \/ AnnounceResume(c) \/ ResumeWorker(c)
    BY <1>4 DEF Advance, AnnounceAdvance, AnnounceResume, ResumeWorker, StartWorker,
                Displayed
  <1> QED
    BY <1>2, <1>3, <1>4 DEF ClientStep

LEMMA StepKeepsDisplay == Typed /\ StepsDue /\ Displayed /\ [Next]_vars => Displayed'
  <1> SUFFICES ASSUME Typed, StepsDue, Displayed, [Next]_vars PROVE Displayed'
    OBVIOUS
  <1>1. CASE UNCHANGED vars
    BY <1>1 DEF vars, record, plane, Displayed
  <1>2. CASE Start
    BY <1>2 DEF Start, StartWorker, Displayed
  <1>3. ASSUME NEW r \in Readers, Deliver(r)
        PROVE  Displayed'
    BY <1>3 DEF Deliver, record, plane, Displayed
  <1> QED
    BY <1>1, <1>2, <1>3, WorkerKeepsDisplay, ClientKeepsDisplay DEF Next

LEMMA DisplayHolds == Spec => []Displayed
  <1>1. Init => Displayed
    BY DEF Init, Displayed
  <1> QED
    BY <1>1, StepKeepsDisplay, StepsHold, WorkersAlways, PTL DEF Spec

LEMMA WorkerPulls ==
  ASSUME NEW t \in Threads, WorkerStep(t)
  PROVE  [Stream!Next]_(Stream!vars)
  <1> USE DEF plane, Stream!vars
  <1>1. CASE YieldNode(t)
    BY <1>1 DEF YieldNode, TakeUpdate, Stream!Next
  <1>2. CASE YieldInterrupt(t)
    BY <1>2 DEF YieldInterrupt, TakePause, Kinds, Stream!Next
  <1>3. CASE ~YieldNode(t) /\ ~YieldInterrupt(t)
    BY <1>3 DEF WorkerStep, Begin, AwaitStep, AnnounceStep, TakePermit, CompleteNode,
                AnnouncePause, EndStream, FailStream, Finally
  <1> QED
    BY <1>1, <1>2, <1>3

LEMMA ClientDecides ==
  ASSUME Displayed, NEW c \in Clients, ClientStep(c)
  PROVE  [Stream!Next]_(Stream!vars)
  <1> USE DEF plane, Stream!vars
  <1>1. CASE ResumeApproval(c)
    <2>1. interrupt = "approval" /\ approval = "PENDING"
      BY <1>1 DEF ResumeApproval, AnswerApproval, CanAnswer, Displayed
    <2>2. approval' \in {"PENDING", "APPROVED", "REJECTED"} /\ UNCHANGED <<interrupt, ended>>
      BY <1>1 DEF ResumeApproval, AnswerApproval
    <2> QED
      BY <2>1, <2>2 DEF Stream!Next, Stream!Decide
  <1>2. CASE ~ResumeApproval(c)
    BY <1>2 DEF ClientStep, Advance, AnnounceAdvance, ResumeClarification, AnnounceResume,
                ResumeWorker
  <1> QED
    BY <1>1, <1>2

\* What the service does to the plane is what it may: whatever threads and
\* clients do, answers that get lost and runs that fail included, the human's
\* decision is recorded only while the plane's own approval interrupt stands.
THEOREM ServicePullsStream == Spec => Stream!Spec
  <1>1. Init => Stream!Init
    BY DEF Init
  <1>2. Displayed /\ [Next]_vars => [Stream!Next]_(Stream!vars)
    <2> SUFFICES ASSUME Displayed, [Next]_vars PROVE [Stream!Next]_(Stream!vars)
      OBVIOUS
    <2>1. CASE UNCHANGED vars \/ Start \/ \E r \in Readers : Deliver(r)
      BY <2>1 DEF vars, Start, Deliver, plane, Stream!vars
    <2> QED
      BY <2>1, WorkerPulls, ClientDecides DEF Next
  <1> QED
    BY <1>1, <1>2, DisplayHolds, PTL DEF Spec, Stream!Spec

-----------------------------------------------------------------------------
(* What is on display can be decided *)

LEMMA WorkerKeepsPending ==
  ASSUME StepsDue, ShownApprovalIsPending, NEW t \in Threads, WorkerStep(t)
  PROVE  ShownApprovalIsPending'
  <1> USE DEF record, plane, history
  <1>1. CASE YieldNode(t)
    <2>1. status = "RUNNING" /\ status' = status
      BY <1>1 DEF YieldNode, TakeUpdate, StepsDue
    <2> QED
      BY <2>1 DEF ShownApprovalIsPending
  <1>2. CASE YieldInterrupt(t)
    BY <1>2 DEF YieldInterrupt, TakePause, Stream!Pause, ShowPause, ShownApprovalIsPending
  <1>3. CASE EndStream(t) \/ FailStream(t)
    BY <1>3 DEF EndStream, FailStream, ShownApprovalIsPending
  <1>4. CASE ~YieldNode(t) /\ ~YieldInterrupt(t) /\ ~EndStream(t) /\ ~FailStream(t)
    BY <1>4 DEF WorkerStep, Begin, AwaitStep, AnnounceStep, TakePermit, CompleteNode,
                AnnouncePause, Finally, ShownApprovalIsPending
  <1> QED
    BY <1>1, <1>2, <1>3, <1>4

LEMMA ClientKeepsPending ==
  ASSUME "APPROVED_WITH_REASON" \notin Answers, ShownApprovalIsPending,
         NEW c \in Clients, ClientStep(c)
  PROVE  ShownApprovalIsPending'
  <1> USE DEF record, plane, history
  <1>1. ASSUME NEW payload, AcceptAnswer(c, payload)
        PROVE  ShownApprovalIsPending'
    BY <1>1 DEF AcceptAnswer, ShownApprovalIsPending
  <1>2. CASE ResumeClarification(c)
    BY <1>1, <1>2 DEF ResumeClarification
  <1>3. CASE ResumeApproval(c)
    BY <1>1, <1>3 DEF ResumeApproval, AnswerApproval
  <1>4. CASE Advance(c) \/ AnnounceAdvance(c) \/ AnnounceResume(c) \/ ResumeWorker(c)
    BY <1>4 DEF Advance, AnnounceAdvance, AnnounceResume, ResumeWorker, StartWorker,
                ShownApprovalIsPending
  <1> QED
    BY <1>2, <1>3, <1>4 DEF ClientStep

\* An approval checkpoint on display can still be decided as long as nobody
\* approves with a reason: that one answer, recorded in the session before the
\* payload it cannot become is built, is the only way to a display that no
\* request can answer (resume, HumanApprovalResume).
THEOREM ShownApprovalsCanBeDecided ==
  ASSUME "APPROVED_WITH_REASON" \notin Answers
  PROVE  Spec => []ShownApprovalIsPending
  <1>1. Init => ShownApprovalIsPending
    BY DEF Init, ShownApprovalIsPending
  <1>2. StepsDue /\ ShownApprovalIsPending /\ [Next]_vars => ShownApprovalIsPending'
    <2> SUFFICES ASSUME StepsDue, ShownApprovalIsPending, [Next]_vars
                 PROVE  ShownApprovalIsPending'
      OBVIOUS
    <2>1. CASE UNCHANGED vars
      BY <2>1 DEF vars, record, plane, ShownApprovalIsPending
    <2>2. CASE Start
      BY <2>2 DEF Start, StartWorker, ShownApprovalIsPending
    <2>3. ASSUME NEW r \in Readers, Deliver(r)
          PROVE  ShownApprovalIsPending'
      BY <2>3 DEF Deliver, record, plane, ShownApprovalIsPending
    <2> QED
      BY <2>1, <2>2, <2>3, WorkerKeepsPending, ClientKeepsPending DEF Next
  <1> QED
    BY <1>1, <1>2, StepsHold, PTL DEF Spec

-----------------------------------------------------------------------------
(* The answer the graph goes on with *)

\* A payload that answers the interrupt the plane holds.
Fits(payload) ==
  /\ interrupt = "clarification" => payload \in ClarificationAnswers
  /\ interrupt = "approval" => payload = approval /\ payload \in ApprovalAnswers

\* One answer at most is under way, in the hands of a request or of a worker; it
\* answers the plane's interrupt and, for an approval, repeats the session.
AnswersFit ==
  /\ status = "QUEUED" => interrupt = "NONE"
  /\ \A t \in Threads : Working(t) => Fits(worker[t].payload)
  /\ \A c \in Clients : Answering(c) =>
       /\ status = "RUNNING" /\ \A t \in Threads : ~Working(t)
       /\ Fits(client[c].payload)
  /\ \A c, d \in Clients : Answering(c) /\ Answering(d) => c = d

\* Steps of the worker that stay within its pull, or leave it.
LEMMA WorkerKeepsFit ==
  ASSUME Typed, SingleWorker, AnswersFit, NEW t \in Threads, WorkerStep(t)
  PROVE  AnswersFit'
  <1> USE DEF record, plane, history, Goto
  <1>1. /\ Busy(t) /\ \A u \in Threads : u # t => worker'[u] = worker[u]
        /\ \A u \in Threads : u # t => ~Working(u)'
        /\ client' = client /\ (status' = "QUEUED" => status = "QUEUED")
    <2>1. Busy(t) /\ \A u \in Threads : u # t => worker'[u] = worker[u]
      BY WorkerMoves
    <2>2. \A u \in Threads : u # t => ~Working(u)'
      BY <2>1 DEF SingleWorker, Busy, Working
    <2>3. client' = client /\ (status' = "QUEUED" => status = "QUEUED")
      BY DEF WorkerStep, Begin, AwaitStep, AnnounceStep, TakePermit, YieldNode, TakeUpdate,
             CompleteNode, YieldInterrupt, TakePause, ShowPause, AnnouncePause, EndStream,
             FailStream, Finally
    <2> QED
      BY <2>1, <2>2, <2>3
  <1>2. CASE YieldNode(t)
    <2>1. interrupt' = "NONE" /\ Working(t) /\ status' = status
      BY <1>2 DEF YieldNode, TakeUpdate, Stream!Resume, Stream!Yield, Working
    <2>2. \A c \in Clients : ~Answering(c)'
      BY <1>1, <2>1 DEF AnswersFit, Answering
    <2> QED
      BY <2>1, <2>2 DEF AnswersFit, Fits
  <1>3. CASE YieldInterrupt(t) \/ EndStream(t) \/ FailStream(t)
    <2>1. Working(t) /\ status' \in {"WAITING", "COMPLETED", "FAILED"}
      BY <1>3 DEF YieldInterrupt, TakePause, ShowPause, EndStream, FailStream, Working
    <2>2. ~Working(t)'
      BY <1>3 DEF YieldInterrupt, TakePause, ShowPause, EndStream, FailStream, Working,
                  Typed, ThreadsTyped
    <2>3. \A c \in Clients : ~Answering(c)'
      BY <1>1, <2>1 DEF AnswersFit, Answering
    <2> QED
      BY <1>1, <2>1, <2>2, <2>3 DEF AnswersFit
  <1>4. CASE Begin(t) \/ AwaitStep(t) \/ AnnounceStep(t) \/ TakePermit(t) \/ CompleteNode(t)
    <2>1. Working(t) /\ UNCHANGED <<interrupt, approval, status>>
      BY <1>4 DEF Begin, AwaitStep, AnnounceStep, TakePermit, CompleteNode, Working
    <2>2. worker'[t].payload = worker[t].payload
      BY <1>4 DEF Begin, AwaitStep, AnnounceStep, TakePermit, CompleteNode, Typed, ThreadsTyped
    <2>3. \A c \in Clients : ~Answering(c)'
      BY <1>1, <2>1 DEF AnswersFit, Answering
    <2>4. Fits(worker[t].payload)'
      BY <2>1, <2>2 DEF AnswersFit, Fits
    <2> QED
      BY <1>1, <2>1, <2>3, <2>4 DEF AnswersFit
  <1>5. CASE AnnouncePause(t) \/ Finally(t)
    <2>1. UNCHANGED <<interrupt, approval, status>>
      BY <1>5 DEF AnnouncePause, Finally
    <2>2. ~Working(t)'
      BY <1>5 DEF AnnouncePause, Finally, Idle, Working, Typed, ThreadsTyped
    <2> QED
      BY <1>1, <2>1, <2>2 DEF AnswersFit, Fits, Answering
  <1> QED
    BY <1>2, <1>3, <1>4, <1>5 DEF WorkerStep

\* A request that starts a worker passes its answer on.
LEMMA StartKeepsFit ==
  ASSUME Typed, SingleWorker, NEW payload, StartWorker(payload), Fits(payload),
         UNCHANGED <<interrupt, approval>>, \A c \in Clients : ~Answering(c)'
  PROVE  AnswersFit'
  <1>1. workerActive = FALSE
    BY DEF StartWorker, Typed, RecordTyped
  <1>2. PICK t \in Threads :
          worker' = [worker EXCEPT ![t] = [at |-> "begin", payload |-> payload]]
    BY DEF StartWorker
  <1>3. \A u \in Threads : u # t => ~Working(u)'
    BY <1>1, <1>2 DEF SingleWorker, Busy, Working
  <1>4. worker'[t].payload = payload
    BY <1>2 DEF Typed, ThreadsTyped
  <1>5. Fits(worker[t].payload)'
    BY <1>4 DEF Fits
  <1>6. status' = "RUNNING"
    BY DEF StartWorker
  <1> QED
    BY <1>3, <1>5, <1>6 DEF AnswersFit

\* Whoever is let through to answer finds nobody else doing so.
LEMMA AcceptKeepsFit ==
  ASSUME Typed, StepsDue, AnswersFit, NEW c \in Clients, NEW kind, CanAnswer(c, kind),
         NEW payload, AcceptAnswer(c, payload), Fits(payload)', worker' = worker
  PROVE  AnswersFit'
  <1>1. status = "WAITING" /\ status' = "RUNNING"
    BY DEF CanAnswer, AcceptAnswer
  <1>2. \A t \in Threads : ~Working(t)'
    BY <1>1 DEF StepsDue, Working
  <1>3. \A d \in Clients : ~Answering(d)
    BY <1>1 DEF AnswersFit
  <1>4. client' = [client EXCEPT ![c] = [at |-> "accepted", payload |-> payload]]
    BY DEF AcceptAnswer
  <1>5. client'[c].payload = payload /\ \A d \in Clients : Answering(d)' => d = c
    BY <1>3, <1>4 DEF Answering, Typed, ThreadsTyped
  <1>6. Fits(client[c].payload)'
    BY <1>5 DEF Fits
  <1> QED
    BY <1>1, <1>2, <1>5, <1>6 DEF AnswersFit

LEMMA ClientKeepsFit ==
  ASSUME Typed, SingleWorker, StepsDue, Displayed, AnswersFit, NEW c \in Clients,
         ClientStep(c)
  PROVE  AnswersFit'
  <1> USE DEF record, plane, history
  <1>1. CASE Advance(c) \/ AnnounceAdvance(c) \/ AnnounceResume(c)
    <2>1. /\ \A d \in Clients : d # c => client'[d] = client[d]
          /\ Answering(c)' <=> Answering(c)
          /\ Answering(c) => client'[c].payload = client[c].payload
      <3>1. CASE Advance(c)
        BY <3>1 DEF Advance, Answering, Typed, ThreadsTyped
      <3>2. CASE AnnounceAdvance(c)
        BY <3>2 DEF AnnounceAdvance, Idle, Answering, Typed, ThreadsTyped
      <3>3. CASE AnnounceResume(c)
        BY <3>3 DEF AnnounceResume, Answering, Typed, ThreadsTyped
      <3> QED
        BY <1>1, <3>1, <3>2, <3>3
    <2>2. UNCHANGED <<status, worker, interrupt, approval>>
      BY <1>1 DEF Advance, AnnounceAdvance, AnnounceResume
    <2>3. \A d \in Clients : /\ Answering(d)' <=> Answering(d)
                             /\ Answering(d) => client'[d].payload = client[d].payload
      BY <2>1 DEF Answering
    <2> QED
      BY <2>2, <2>3 DEF AnswersFit, Fits, Working
  <1>2. CASE ResumeClarification(c)
    <2>1. PICK answer \in Answers \cap ClarificationAnswers : AcceptAnswer(c, answer)
      BY <1>2 DEF ResumeClarification
    <2>2. CanAnswer(c, "clarification") /\ UNCHANGED <<interrupt, worker>>
      BY <1>2 DEF ResumeClarification
    <2>3. Fits(answer)'
      BY <2>1, <2>2 DEF CanAnswer, Displayed, Fits
    <2> QED
      BY <2>1, <2>2, <2>3, AcceptKeepsFit
  <1>3. CASE ResumeApproval(c)
    <2>1. PICK recorded \in {"PENDING", "APPROVED", "REJECTED"} :
            /\ AnswerApproval(c, recorded) /\ approval' = recorded
            /\ UNCHANGED <<interrupt, worker>>
      BY <1>3 DEF ResumeApproval, AnswerApproval
    <2>2. CanAnswer(c, "approval") /\ interrupt' = "approval"
      BY <2>1 DEF AnswerApproval, CanAnswer, Displayed
    <2>3. CASE AcceptAnswer(c, recorded)
      <3>1. Fits(recorded)'
        BY <2>1, <2>2 DEF Fits, ApprovalAnswers
      <3> QED
        BY <2>1, <2>2, <2>3, <3>1, AcceptKeepsFit
    <2>4. CASE UNCHANGED <<status, client>>
      <3>1. status = "WAITING"
        BY <2>2 DEF CanAnswer
      <3>2. (\A t \in Threads : ~Working(t)') /\ \A d \in Clients : ~Answering(d)'
        BY <2>1, <2>4, <3>1 DEF AnswersFit, StepsDue, Working, Answering
      <3> QED
        BY <2>4, <3>1, <3>2 DEF AnswersFit
    <2> QED
      BY <2>1, <2>3, <2>4 DEF AnswerApproval
  <1>4. CASE ResumeWorker(c)
    <2>1. Answering(c) /\ client' = [client EXCEPT ![c] = Idle("NONE")]
      BY <1>4 DEF ResumeWorker, Answering
    <2>2. \A d \in Clients : ~Answering(d)'
      BY <2>1 DEF AnswersFit, Answering, Idle, Typed, ThreadsTyped
    <2>3. Fits(client[c].payload) /\ UNCHANGED <<interrupt, approval>>
      BY <1>4, <2>1 DEF ResumeWorker, AnswersFit
    <2>4. CASE StartWorker(client[c].payload)
      BY <2>2, <2>3, <2>4, StartKeepsFit
    <2>5. CASE UNCHANGED <<worker, status>>
      BY <2>2, <2>3, <2>5 DEF AnswersFit, Fits, Working
    <2> QED
      BY <1>4, <2>4, <2>5 DEF ResumeWorker
  <1> QED
    BY <1>1, <1>2, <1>3, <1>4 DEF ClientStep

LEMMA StepKeepsFit ==
  Typed /\ SingleWorker /\ StepsDue /\ Displayed /\ AnswersFit /\ [Next]_vars => AnswersFit'
  <1> SUFFICES ASSUME Typed, SingleWorker, StepsDue, Displayed, AnswersFit, [Next]_vars
               PROVE  AnswersFit'
    OBVIOUS
  <1>1. CASE UNCHANGED vars \/ \E r \in Readers : Deliver(r)
    <2>1. UNCHANGED <<status, worker, client, interrupt, approval>>
      BY <1>1 DEF vars, Deliver, record, plane
    <2> QED
      BY <2>1 DEF AnswersFit, Fits, Working, Answering
  <1>2. CASE Start
    <2>1. StartWorker("START") /\ UNCHANGED <<interrupt, approval, client>>
      BY <1>2 DEF Start, plane
    <2>2. interrupt = "NONE" /\ \A c \in Clients : ~Answering(c)'
      BY <1>2, <2>1 DEF Start, AnswersFit, Answering
    <2>3. Fits("START")
      BY <2>2 DEF Fits
    <2> QED
      BY <2>1, <2>2, <2>3, StartKeepsFit
  <1> QED
    BY <1>1, <1>2, WorkerKeepsFit, ClientKeepsFit DEF Next

LEMMA InitFit == Init => AnswersFit
  <1> SUFFICES ASSUME Init PROVE AnswersFit
    OBVIOUS
  <1>1. interrupt = "NONE"
    BY DEF Init, Stream!Init
  <1>2. (\A t \in Threads : ~Working(t)) /\ \A c \in Clients : ~Answering(c)
    BY DEF Init, Idle, Working, Answering
  <1> QED
    BY <1>1, <1>2 DEF AnswersFit

LEMMA FitAlways == Spec => []AnswersFit
  BY InitFit, StepKeepsFit, WorkersAlways, StepsHold, DisplayHolds, PTL DEF Spec

\* An approval checkpoint is resumed with the session's own decision.
ResumedWithDecision ==
  \A t \in Threads :
    worker[t].at = "next" /\ interrupt = "approval" => worker[t].payload = approval

\* The answer a worker takes into an approval checkpoint is the decision the
\* session holds at that moment: whichever answers were lost, refused or given at
\* once by others, none of an earlier checkpoint and none that was overtaken
\* reaches the graph (resume, _start_worker).
THEOREM AnswersAreTheDecision == Spec => []ResumedWithDecision
  <1>1. AnswersFit => ResumedWithDecision
    BY DEF AnswersFit, Fits, Working, ResumedWithDecision
  <1> QED
    BY <1>1, FitAlways, PTL

-----------------------------------------------------------------------------
(* The end of a run *)

\* Only an exhausted stream completes the run.
Exhausted == status = "COMPLETED" => ended = TRUE

\* A status that says the run has ended is its last.
StatusIsFinal == status \in Terminal => UNCHANGED status

LEMMA WorkerKeepsExhausted ==
  ASSUME StepsDue, Exhausted, NEW t \in Threads, WorkerStep(t)
  PROVE  Exhausted' /\ StatusIsFinal
  <1> USE DEF record, plane, history
  <1>1. CASE YieldNode(t)
    BY <1>1 DEF YieldNode, TakeUpdate, StepsDue, Exhausted, StatusIsFinal
  <1>2. CASE YieldInterrupt(t) \/ FailStream(t)
    BY <1>2 DEF YieldInterrupt, TakePause, ShowPause, FailStream, StepsDue, Exhausted,
                StatusIsFinal, Terminal
  <1>3. CASE EndStream(t)
    BY <1>3 DEF EndStream, StepsDue, Exhausted, StatusIsFinal, Terminal
  <1>4. CASE ~YieldNode(t) /\ ~YieldInterrupt(t) /\ ~EndStream(t) /\ ~FailStream(t)
    BY <1>4 DEF WorkerStep, Begin, AwaitStep, AnnounceStep, TakePermit, CompleteNode,
                AnnouncePause, Finally, Exhausted, StatusIsFinal
  <1> QED
    BY <1>1, <1>2, <1>3, <1>4

LEMMA ClientKeepsExhausted ==
  ASSUME AnswersFit, Exhausted, NEW c \in Clients, ClientStep(c)
  PROVE  Exhausted' /\ StatusIsFinal
  <1> USE DEF record, plane, history
  <1>1. CASE Advance(c) \/ AnnounceAdvance(c) \/ AnnounceResume(c)
    BY <1>1 DEF Advance, AnnounceAdvance, AnnounceResume, Exhausted, StatusIsFinal
  <1>2. CASE ResumeClarification(c) \/ ResumeApproval(c)
    <2>1. status = "WAITING" /\ status' \in {"WAITING", "RUNNING"}
      BY <1>2 DEF ResumeClarification, ResumeApproval, AnswerApproval, CanAnswer, AcceptAnswer
    <2> QED
      BY <2>1 DEF Exhausted, StatusIsFinal, Terminal
  <1>3. CASE ResumeWorker(c)
    <2>1. status = "RUNNING" /\ status' = "RUNNING"
      BY <1>3 DEF ResumeWorker, StartWorker, AnswersFit, Answering
    <2> QED
      BY <2>1 DEF Exhausted, StatusIsFinal, Terminal
  <1> QED
    BY <1>1, <1>2, <1>3 DEF ClientStep

LEMMA StepKeepsExhausted ==
  StepsDue /\ AnswersFit /\ Exhausted /\ [Next]_vars => Exhausted' /\ StatusIsFinal
  <1> SUFFICES ASSUME StepsDue, AnswersFit, Exhausted, [Next]_vars
               PROVE  Exhausted' /\ StatusIsFinal
    OBVIOUS
  <1>1. CASE UNCHANGED vars \/ \E r \in Readers : Deliver(r)
    BY <1>1 DEF vars, Deliver, record, plane, Exhausted, StatusIsFinal
  <1>2. CASE Start
    BY <1>2 DEF Start, StartWorker, Exhausted, StatusIsFinal, Terminal
  <1> QED
    BY <1>1, <1>2, WorkerKeepsExhausted, ClientKeepsExhausted DEF Next

LEMMA ExhaustedAlways == Spec => []Exhausted /\ [][StatusIsFinal]_vars
  <1>1. Init => Exhausted
    BY DEF Init, Exhausted
  <1> QED
    BY <1>1, StepKeepsExhausted, StepsHold, FitAlways, PTL DEF Spec

\* A run that completed or failed stays so: no answer, advance or thread that
\* comes late starts it again or turns a failure into a completion (resume and
\* advance check the status, _execute assigns it without a check).
THEOREM EndedRunsStayEnded == Spec => [][StatusIsFinal]_vars
  BY ExhaustedAlways, PTL

-----------------------------------------------------------------------------
(* The invariant of a run, for the modules that compose one *)

RunInvariant ==
  /\ Typed /\ SingleWorker /\ StepsDue /\ Displayed /\ AnswersFit /\ Exhausted

LEMMA InitRun == Init => RunInvariant
  <1>1. Init => Displayed /\ Exhausted
    BY DEF Init, Displayed, Exhausted
  <1> QED
    BY <1>1, InitTyped, InitSingle, InitSteps, InitFit DEF RunInvariant

LEMMA StepKeepsRun == RunInvariant /\ [Next]_vars => RunInvariant'
  BY StepKeepsTypes, StepKeepsSingleWorker, StepKeepsSteps, StepKeepsDisplay,
     StepKeepsFit, StepKeepsExhausted DEF RunInvariant

=============================================================================
