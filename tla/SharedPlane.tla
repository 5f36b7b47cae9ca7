---------------------------- MODULE SharedPlane -----------------------------
(***************************************************************************)
(* Several callers drive control planes (orchestration/graph.py) that share *)
(* runtime sessions, one checkpoint saver and one experience memory.       *)
(*                                                                         *)
(* ControlPlane follows one run, one node after the other.  Here the run   *)
(* is reduced to the nodes that touch something shared, and the callers    *)
(* interleave: a plane is claimed for a thread under its own lock, the     *)
(* session is leased under the session's lock, and between reading a       *)
(* checkpoint, executing a node and saving what it returned anything else  *)
(* may happen, two resumes of one thread included.  An invocation may also *)
(* die between a node's effect and the checkpoint that would record it.    *)
(*                                                                         *)
(* The saver and the way an invocation loads the newest checkpoint are     *)
(* LangGraph's, modelled from how the facade uses them.                    *)
(***************************************************************************)
EXTENDS Integers, FiniteSets

CONSTANTS
  Callers,    \* threads of the host that call the facade
  Planes,     \* Stage5ControlPlane instances
  Runtimes,   \* runtime instances of one scenario: same case and session ids
  RuntimeOf,  \* the runtime whose tools a plane was built with
  Threads,    \* public thread ids
  NoCaller, NoPlane, NoThread, \* nobody
  MaxPlans,   \* replans end in a handoff beyond this plan
  MaxPauses   \* bound: answers the human gives to one thread

ASSUME SharedPlaneAssumption ==
  /\ RuntimeOf \in [Planes -> Runtimes]
  /\ NoCaller \notin Callers /\ NoPlane \notin Planes /\ NoThread \notin Threads
  /\ MaxPlans \in Nat \ {0} /\ MaxPauses \in Nat

VARIABLES
  lease,      \* the plane and thread each session is leased to
  owned,      \* the thread each plane has claimed
  locked,     \* who holds the ownership lock of a plane
  performed,  \* receipts of each session, by idempotency key
  decision,   \* the approval of each session
  saver,      \* newest checkpoint under each private saver key
  memory,     \* the shared store: memory id -> time of verification
  call        \* what each caller is doing

vars == <<lease, owned, locked, performed, decision, saver, memory, call>>

-----------------------------------------------------------------------------
(* Vocabulary *)

ApprovalKey == 0
WriteKeys == 1..MaxPlans
Receipts == [key : {ApprovalKey} \cup WriteKeys, effect : BOOLEAN]
FreeLease == [plane |-> NoPlane, thread |-> NoThread]

\* A checkpoint of the part of WorkflowState that matters here.  ticks stands
\* for the trace, whose length is the clock of the run (_time).
Checkpoint ==
  [node : {"planner", "pause", "approval", "transaction", "verifier", "done", "end"},
   waiting : BOOLEAN, plan : 0..MaxPlans, pauses : Nat, ticks : Nat,
   receipts : SUBSET Receipts, outcome : {"NONE", "DONE", "ADMIN_HANDOFF"}]

\* _prepare_start
Fresh == [node |-> "planner", waiting |-> FALSE, plan |-> 0, pauses |-> 0, ticks |-> 0,
          receipts |-> {}, outcome |-> "NONE"]

NoCheckpoint == [Fresh EXCEPT !.node = "none"]

\* Deviation of SaverKey: the runtime instance is left out of the key.
SaverKeyOfCase(p, t) == <<RuntimeOf[CHOOSE q \in Planes : TRUE], t>>

\* _config: session and case ids are the same for every runtime of a scenario,
\* so what tells two runs apart is the runtime instance and the public thread.
SaverKey(p, t) == <<RuntimeOf[p], t>>

Idle == [step |-> "idle", op |-> "none", plane |-> NoPlane, thread |-> NoThread,
         at |-> NoCheckpoint]

Init ==
  /\ lease = [r \in Runtimes |-> FreeLease]
  /\ owned = [p \in Planes |-> NoThread]
  /\ locked = [p \in Planes |-> NoCaller]
  /\ performed = [r \in Runtimes |-> {}]
  /\ decision = [r \in Runtimes |-> "ABSENT"]
  /\ saver = [k \in Runtimes \X Threads |-> NoCheckpoint]
  /\ memory = [s \in SUBSET WriteKeys |-> 0]
  /\ call = [c \in Callers |-> Idle]

session == <<performed, decision>>
claims == <<lease, owned, locked>>

-----------------------------------------------------------------------------
(* Entering the facade *)

Advance(c, step) == call' = [call EXCEPT ![c].step = step]

\* The call returns, or raises.
Return(c) == call' = [call EXCEPT ![c] = Idle]

\* A call on a thread takes the plane's ownership lock first.
Enter(c, op, p, t, step) ==
  /\ call[c].step = "idle"
  /\ locked[p] = NoCaller
  /\ call' = [call EXCEPT ![c] = [Idle EXCEPT !.step = step, !.op = op, !.plane = p, !.thread = t]]

\* _claim_thread_for_start, up to the claim: a plane that has started a thread or
\* finds a checkpoint refuses.
ClaimThread(c, p, t) ==
  /\ Enter(c, "start", p, t, "claiming")
  /\ owned[p] = NoThread /\ saver[SaverKey(p, t)] = NoCheckpoint
  /\ locked' = [locked EXCEPT ![p] = c]
  /\ UNCHANGED <<lease, owned, session, saver, memory>>

\* Deviation of Leasable: the lease binds the thread and not the facade.
LeasableByThread(r, p, t) == lease[r].thread \in {NoThread, t}

\* claim_stage5_control_plane: who may take the lease.
Leasable(r, p, t) == lease[r] = FreeLease \/ lease[r] = [plane |-> p, thread |-> t]

\* The rest of _claim_thread_for_start.  The lock is released on every path.
LeaseSession(c) ==
  LET p == call[c].plane
      t == call[c].thread
      r == RuntimeOf[p]
  IN
  /\ call[c].step = "claiming"
  /\ IF Leasable(r, p, t)
     THEN /\ lease' = [lease EXCEPT ![r] = [plane |-> p, thread |-> t]]
          /\ owned' = [owned EXCEPT ![p] = t]
          /\ call' = [call EXCEPT ![c].step = "save", ![c].at = Fresh]
     ELSE Return(c) /\ UNCHANGED <<lease, owned>>
  /\ locked' = [locked EXCEPT ![p] = NoCaller]
  /\ UNCHANGED <<session, saver, memory>>

\* _require_owned_checkpoint, the part under the lock: resume, state and history
\* serve only the thread this plane has claimed and leased the session for.
CheckOwner(c, op, p, t) ==
  /\ Enter(c, op, p, t, "read")
  /\ owned[p] = t /\ lease[RuntimeOf[p]] = [plane |-> p, thread |-> t]
  /\ UNCHANGED <<claims, session, saver, memory>>

\* _validate_resume: the snapshot must hold an interrupt to answer.
Answerable(snapshot) == snapshot.waiting /\ snapshot.pauses <= MaxPauses

\* The rest of _require_owned_checkpoint reads the snapshot without the lock;
\* state and history return it, resume validates the answer against it.
ReadSnapshot(c) ==
  LET snapshot == saver[SaverKey(call[c].plane, call[c].thread)] IN
  /\ call[c].step = "read"
  /\ IF call[c].op = "resume" /\ Answerable(snapshot)
     THEN call' = [call EXCEPT ![c].step = "load", ![c].at = snapshot]
     ELSE Return(c)
  /\ UNCHANGED <<claims, session, saver, memory>>

\* graph.invoke(Command(resume=...)) works on the newest checkpoint, whatever it
\* is by now.  An interrupted node runs again, with the answer in hand.
LoadNewest(c) ==
  /\ call[c].step = "load"
  /\ LET newest == saver[SaverKey(call[c].plane, call[c].thread)] IN
     IF newest.node = "end" THEN Return(c)
     ELSE call' = [call EXCEPT ![c].step = "run",
                     ![c].at = [newest EXCEPT !.waiting = FALSE,
                                  !.node = IF newest.waiting THEN "approval" ELSE @]]
  /\ UNCHANGED <<claims, session, saver, memory>>

-----------------------------------------------------------------------------
(* Nodes: the effect on what is shared, and the state the node returns *)

\* The invocation of c runs a node and will save what it returns.
Node(c, node) == call[c].step = "run" /\ call[c].at.node = node

Returns(c, after) ==
  call' = [call EXCEPT ![c].step = "save", ![c].at = [after EXCEPT !.ticks = @ + 1]]

\* A further plan, or none: the run ends in a handoff.
PlanNext(c) ==
  /\ Node(c, "planner")
  /\ LET at == call[c].at IN
     IF at.plan < MaxPlans
     THEN \E node \in {"approval", "transaction"} :
            Returns(c, [at EXCEPT !.plan = @ + 1, !.node = node])
     ELSE Returns(c, [at EXCEPT !.node = "end", !.outcome = "ADMIN_HANDOFF"])
  /\ UNCHANGED <<claims, session, saver, memory>>

\* ActionEngine.execute: a key already spent replays its receipt.
Replayed(r, key) == {x \in performed[r] : x.key = key}

\* human_approval: request once for the run, then follow the decision it reads.
FollowDecision(c) ==
  LET r  == RuntimeOf[call[c].plane]
      at == [call[c].at EXCEPT !.receipts =
               @ \cup {[key |-> ApprovalKey, effect |-> FALSE]}]
  IN
  /\ Node(c, "approval")
  /\ performed' = [performed EXCEPT ![r] =
                     @ \cup {[key |-> ApprovalKey, effect |-> FALSE]}]
  /\ decision' = [decision EXCEPT ![r] = IF @ = "ABSENT" THEN "PENDING" ELSE @]
  /\ \/ decision'[r] = "APPROVED" /\ Returns(c, [at EXCEPT !.node = "transaction"])
     \/ /\ decision'[r] = "REJECTED"
        /\ Returns(c, [at EXCEPT !.node = "end", !.outcome = "ADMIN_HANDOFF"])
     \/ /\ decision'[r] = "PENDING"
        /\ Returns(c, [at EXCEPT !.node = "pause", !.waiting = TRUE, !.pauses = @ + 1])
  /\ UNCHANGED <<claims, saver, memory>>

\* The write.  A key spent by another invocation is answered with its receipt or,
\* when the two differ in the versions they read, with a conflict.
Transaction(c) ==
  LET r  == RuntimeOf[call[c].plane]
      at == call[c].at
      Verified(receipts) == [at EXCEPT !.node = "verifier", !.receipts = @ \cup receipts]
  IN
  /\ Node(c, "transaction")
  /\ IF Replayed(r, at.plan) # {}
     THEN /\ \E receipts \in {Replayed(r, at.plan), {}} : Returns(c, Verified(receipts))
          /\ UNCHANGED performed
     ELSE \E effect \in BOOLEAN :
            LET receipt == [key |-> at.plan, effect |-> effect] IN
            /\ effect => \A x \in performed[r] : ~x.effect
            /\ performed' = [performed EXCEPT ![r] = @ \cup {receipt}]
            /\ Returns(c, Verified({receipt}))
  /\ UNCHANGED <<claims, decision, saver, memory>>

\* The post-action verifier looks for the effect in the receipts of the run.
GoalReached(at) == \E x \in at.receipts : x.key = at.plan /\ x.effect

VerifyGoal(c) ==
  /\ Node(c, "verifier")
  /\ Returns(c, [call[c].at EXCEPT !.node = IF GoalReached(call[c].at) THEN "done" ELSE "planner"])
  /\ UNCHANGED <<claims, session, saver, memory>>

-----------------------------------------------------------------------------
(* The end of a run, and the memory *)

\* memory_updater: the id is a digest of the receipts of the final writes.
MemoryId(at) == {x.key : x \in {y \in at.receipts : y.key # ApprovalKey}}

\* Deviation of Remember: a conflict drops the record it conflicts with.
RememberOrForget(id, time) ==
  [memory EXCEPT ![id] = IF @ \in {0, time} THEN time ELSE 0]

\* InMemoryExperienceMemory.write: an id already stored is kept, and the write is
\* refused unless the record, its time included, is the same.
Remember(id, time) == [memory EXCEPT ![id] = IF @ = 0 THEN time ELSE @]

\* memory_updater and final_response in one superstep: whether the store accepts
\* the record, has it, or raises, the outcome is DONE.
Finish(c) ==
  LET at == call[c].at IN
  /\ Node(c, "done")
  /\ memory' = Remember(MemoryId(at), at.ticks + 1)
  /\ Returns(c, [at EXCEPT !.node = "end", !.outcome = "DONE"])
  /\ UNCHANGED <<claims, session, saver>>

-----------------------------------------------------------------------------
(* Checkpoints and faults *)

\* The superstep is checkpointed; the invocation goes on unless it is over.
SaveCheckpoint(c) ==
  LET at == call[c].at
      over == at.waiting \/ at.node = "end"
  IN
  /\ call[c].step = "save"
  /\ saver' = [saver EXCEPT ![SaverKey(call[c].plane, call[c].thread)] = at]
  /\ IF over THEN Return(c) ELSE Advance(c, "run")
  /\ UNCHANGED <<claims, session, memory>>

\* The invocation fails after the node's effect and before its checkpoint.  The
\* claim and the lease are kept: the session may have changed.
Fail(c) ==
  /\ call[c].step = "save"
  /\ Return(c)
  /\ UNCHANGED <<claims, session, saver, memory>>

\* record_human_approval
Decide(r) ==
  /\ decision[r] = "PENDING"
  /\ \E d \in {"APPROVED", "REJECTED"} : decision' = [decision EXCEPT ![r] = d]
  /\ UNCHANGED <<claims, performed, saver, memory, call>>

-----------------------------------------------------------------------------
(* Specification *)

\* The rest of a call that was let in.
Work(c) ==
  \/ LeaseSession(c) \/ ReadSnapshot(c) \/ LoadNewest(c)
  \/ PlanNext(c) \/ FollowDecision(c) \/ Transaction(c) \/ VerifyGoal(c) \/ Finish(c)
  \/ SaveCheckpoint(c) \/ Fail(c)

Next ==
  \/ \E c \in Callers :
       \/ \E p \in Planes, t \in Threads :
            \/ ClaimThread(c, p, t)
            \/ \E op \in {"resume", "inspect"} : CheckOwner(c, op, p, t)
       \/ Work(c)
  \/ \E r \in Runtimes : Decide(r)

Spec == Init /\ [][Next]_vars

-----------------------------------------------------------------------------
(* Properties *)

TypeOK ==
  /\ lease \in [Runtimes -> [plane : Planes \cup {NoPlane}, thread : Threads \cup {NoThread}]]
  /\ owned \in [Planes -> Threads \cup {NoThread}]
  /\ locked \in [Planes -> Callers \cup {NoCaller}]
  /\ performed \in [Runtimes -> SUBSET Receipts]
  /\ decision \in [Runtimes -> {"ABSENT", "PENDING", "APPROVED", "REJECTED"}]
  /\ saver \in [Runtimes \X Threads -> Checkpoint \cup {NoCheckpoint}]
  /\ memory \in [SUBSET WriteKeys -> Nat]
  /\ call \in [Callers ->
       [step : {"idle", "claiming", "read", "load", "run", "save"},
        op : {"start", "resume", "inspect", "none"}, plane : Planes \cup {NoPlane},
        thread : Threads \cup {NoThread}, at : Checkpoint \cup {NoCheckpoint}]]

\* The call reads or drives the thread of its plane.
Inside(c) == call[c].step \in {"read", "load", "run", "save"}

\* However many facades are built over a runtime and however their callers
\* interleave, one facade and one thread drive its session: every call past the
\* claim is theirs, and no other facade believes it owns a thread of it.
OneDriver ==
  /\ \A c \in Callers : Inside(c) =>
       lease[RuntimeOf[call[c].plane]] = [plane |-> call[c].plane, thread |-> call[c].thread]
  /\ \A p \in Planes : owned[p] # NoThread =>
       lease[RuntimeOf[p]] = [plane |-> p, thread |-> owned[p]]

\* A checkpoint a plane can reach tells only of writes its own session has made,
\* and of a success only if the session has its effect: also when two runs of a
\* scenario share the saver, two resumes run side by side, or an invocation dies
\* between a write and its checkpoint.
CheckpointsRestOnSession ==
  /\ \A p \in Planes, t \in Threads :
       LET seen == saver[SaverKey(p, t)] IN
       owned[p] = t =>
         /\ seen.receipts \subseteq performed[RuntimeOf[p]]
         /\ seen.outcome = "DONE" => \E x \in performed[RuntimeOf[p]] : x.effect
  /\ \A c \in Callers : Inside(c) =>
       call[c].at.receipts \subseteq performed[RuntimeOf[call[c].plane]]

\* The experience of a successful run is in the store, whether its own write was
\* accepted or refused because an equal run with another clock came first.
DoneIsRemembered ==
  \A k \in DOMAIN saver : saver[k].outcome = "DONE" => memory[MemoryId(saver[k])] # 0

=============================================================================
