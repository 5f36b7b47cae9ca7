------------------------- MODULE SharedPlaneProofs --------------------------
(***************************************************************************)
(* Theorems about callers that share planes, sessions, the saver and the   *)
(* memory, for any number of each.                                         *)
(***************************************************************************)
EXTENDS SharedPlane, TLAPS

-----------------------------------------------------------------------------
(* Types *)

AnyCheckpoint == Checkpoint \cup {NoCheckpoint}

Call == [step : {"idle", "claiming", "read", "load", "run", "save"},
         op : {"start", "resume", "inspect", "none"}, plane : Planes \cup {NoPlane},
         thread : Threads \cup {NoThread}, at : AnyCheckpoint]

\* A call under way is for a plane and a thread.
Addressed(c) == call[c].step # "idle" => call[c].plane \in Planes /\ call[c].thread \in Threads

TypeInv == TypeOK /\ \A c \in Callers : Addressed(c)

LEMMA FreshIsCheckpoint == Fresh \in Checkpoint
  BY SharedPlaneAssumption DEF Fresh, Checkpoint, Receipts, WriteKeys

LEMMA NoneIsNoCheckpoint ==
  /\ NoCheckpoint.node = "none" /\ ~NoCheckpoint.waiting
  /\ NoCheckpoint.receipts = {} /\ NoCheckpoint.outcome = "NONE"
  BY DEF NoCheckpoint, Fresh

LEMMA IdleIsCall == Idle \in Call
  BY DEF Idle, Call, AnyCheckpoint

\* One caller's call changes; the others go on as they were.
LEMMA CallStep ==
  ASSUME TypeInv, NEW c \in Callers, NEW new \in Call,
         call' = [call EXCEPT ![c] = new],
         new.step # "idle" => new.plane \in Planes /\ new.thread \in Threads
  PROVE  call' \in [Callers -> Call] /\ \A d \in Callers : Addressed(d)'
  BY DEF TypeInv, TypeOK, Addressed, Call, AnyCheckpoint

LEMMA CallReturns ==
  ASSUME TypeInv, NEW c \in Callers, Return(c)
  PROVE  call' \in [Callers -> Call] /\ \A d \in Callers : Addressed(d)'
  <1>1. Idle.step = "idle"
    BY DEF Idle
  <1> QED
    BY <1>1, IdleIsCall, CallStep DEF Return

\* A call in progress moves on, with what it holds replaced or not.
LEMMA CallMoves ==
  ASSUME TypeInv, NEW c \in Callers, call[c].step # "idle",
         NEW step \in {"read", "load", "run", "save", "claiming"},
         NEW at \in AnyCheckpoint,
         call' = [call EXCEPT ![c].step = step, ![c].at = at]
  PROVE  call' \in [Callers -> Call] /\ \A d \in Callers : Addressed(d)'
  <1> DEFINE new == [call[c] EXCEPT !.step = step, !.at = at]
  <1>1. call \in [Callers -> Call] /\ Addressed(c)
    BY DEF TypeInv, TypeOK, Call, AnyCheckpoint
  <1>2. new \in Call /\ new.plane = call[c].plane /\ new.thread = call[c].thread
    BY <1>1 DEF Call
  <1>3. call' = [call EXCEPT ![c] = new]
    BY <1>1 DEF Call
  <1> HIDE DEF new
  <1> QED
    BY <1>1, <1>2, <1>3, CallStep DEF Addressed

LEMMA CallAdvances ==
  ASSUME TypeInv, NEW c \in Callers, call[c].step # "idle",
         NEW step \in {"read", "load", "run", "save", "claiming"},
         Advance(c, step)
  PROVE  call' \in [Callers -> Call] /\ \A d \in Callers : Addressed(d)'
  <1> DEFINE new == [call[c] EXCEPT !.step = step]
  <1>1. call \in [Callers -> Call] /\ Addressed(c)
    BY DEF TypeInv, TypeOK, Call, AnyCheckpoint
  <1>2. new \in Call /\ new.plane = call[c].plane /\ new.thread = call[c].thread
    BY <1>1 DEF Call
  <1>3. call' = [call EXCEPT ![c] = new]
    BY <1>1 DEF Call, Advance
  <1> HIDE DEF new
  <1> QED
    BY <1>1, <1>2, <1>3, CallStep DEF Addressed

LEMMA NodeReturns ==
  ASSUME TypeInv, NEW c \in Callers, call[c].step # "idle",
         NEW after \in Checkpoint, Returns(c, after)
  PROVE  call' \in [Callers -> Call] /\ \A d \in Callers : Addressed(d)'
  <1> DEFINE saved == [after EXCEPT !.ticks = @ + 1]
  <1>1. saved \in AnyCheckpoint
    BY DEF Checkpoint, AnyCheckpoint
  <1>2. call' = [call EXCEPT ![c].step = "save", ![c].at = saved]
    BY DEF Returns
  <1> HIDE DEF saved
  <1> QED
    BY <1>1, <1>2, CallMoves

\* A node that runs holds a checkpoint, and its plane has a session.
LEMMA NodeHolds ==
  ASSUME TypeInv, NEW c \in Callers, NEW node, node # "none", Node(c, node)
  PROVE  /\ call[c].at \in Checkpoint /\ call[c].at.node = node
         /\ call[c].step = "run"
         /\ call[c].plane \in Planes /\ call[c].thread \in Threads
         /\ RuntimeOf[call[c].plane] \in Runtimes
  <1>1. call[c] \in Call /\ Addressed(c)
    BY DEF TypeInv, TypeOK, Call, AnyCheckpoint
  <1> QED
    BY <1>1, NoneIsNoCheckpoint, SharedPlaneAssumption DEF Node, Call, AnyCheckpoint, Addressed

\* Every step of a call in progress keeps the types.
LEMMA WorkKeepsTypes ==
  ASSUME TypeInv, NEW c \in Callers, Work(c)
  PROVE  TypeInv'
  <1> USE DEF claims, session
  <1> DEFINE p == call[c].plane
             t == call[c].thread
             at == call[c].at
  <1>1. call[c] \in Call /\ Addressed(c)
    BY DEF TypeInv, TypeOK, Call, AnyCheckpoint
  <1>2. ASSUME call' \in [Callers -> Call], \A d \in Callers : Addressed(d)',
               <<lease', owned', locked', performed', decision', saver', memory'>> =
               <<lease, owned, locked, performed, decision, saver, memory>>
        PROVE  TypeInv'
    BY <1>2 DEF TypeInv, TypeOK, Call, AnyCheckpoint
  <1>4. CASE LeaseSession(c)
    <2>1. call[c].step # "idle" /\ p \in Planes /\ t \in Threads
      BY <1>1, <1>4 DEF LeaseSession, Addressed
    <2>2. call' \in [Callers -> Call] /\ \A d \in Callers : Addressed(d)'
      BY <1>4, <2>1, FreshIsCheckpoint, CallReturns, CallMoves DEF LeaseSession, AnyCheckpoint
    <2>3. owned' \in [Planes -> Threads \cup {NoThread}]
      BY <1>4, <2>1 DEF LeaseSession, TypeInv, TypeOK
    <2>4. locked' \in [Planes -> Callers \cup {NoCaller}]
      BY <1>4, <2>1 DEF LeaseSession, TypeInv, TypeOK
    <2>5. lease' \in [Runtimes -> [plane : Planes \cup {NoPlane}, thread : Threads \cup {NoThread}]]
      <3>1. \/ lease' = lease
            \/ lease' = [lease EXCEPT ![RuntimeOf[p]] = [plane |-> p, thread |-> t]]
        BY <1>4 DEF LeaseSession
      <3> QED
        BY <2>1, <3>1 DEF TypeInv, TypeOK
    <2> QED
      BY <1>4, <2>2, <2>3, <2>4, <2>5 DEF LeaseSession, TypeInv, TypeOK, Call, AnyCheckpoint
  <1>6. CASE ReadSnapshot(c)
    <2>1. p \in Planes /\ t \in Threads
      BY <1>1, <1>6 DEF ReadSnapshot, Addressed
    <2>2. saver[SaverKey(p, t)] \in AnyCheckpoint
      BY <2>1, SharedPlaneAssumption DEF SaverKey, TypeInv, TypeOK, AnyCheckpoint
    <2>3. call' \in [Callers -> Call] /\ \A d \in Callers : Addressed(d)'
      BY <1>6, <2>2, CallReturns, CallMoves DEF ReadSnapshot
    <2> QED
      BY <1>2, <1>6, <2>3 DEF ReadSnapshot
  <1>7. CASE LoadNewest(c)
    <2> DEFINE newest == saver[SaverKey(p, t)]
               loaded == [newest EXCEPT !.waiting = FALSE,
                            !.node = IF newest.waiting THEN "approval" ELSE @]
    <2>1. p \in Planes /\ t \in Threads
      BY <1>1, <1>7 DEF LoadNewest, Addressed
    <2>2. newest \in AnyCheckpoint
      BY <2>1, SharedPlaneAssumption DEF SaverKey, TypeInv, TypeOK, AnyCheckpoint
    <2>3. loaded \in AnyCheckpoint
      <3>1. CASE newest \in Checkpoint
        BY <3>1 DEF AnyCheckpoint, Checkpoint
      <3>2. CASE newest = NoCheckpoint
        BY <3>2 DEF AnyCheckpoint, NoCheckpoint, Fresh
      <3> QED
        BY <2>2, <3>1, <3>2 DEF AnyCheckpoint
    <2>4. call' \in [Callers -> Call] /\ \A d \in Callers : Addressed(d)'
      <3>1. CASE newest.node = "end"
        BY <1>7, <3>1, CallReturns DEF LoadNewest
      <3>2. CASE newest.node # "end"
        <4>1. call' = [call EXCEPT ![c].step = "run", ![c].at = loaded]
          BY <1>7, <3>2 DEF LoadNewest
        <4> HIDE DEF loaded
        <4> QED
          BY <1>7, <2>3, <4>1, CallMoves DEF LoadNewest
      <3> QED
        BY <3>1, <3>2
    <2> QED
      BY <1>2, <1>7, <2>4 DEF LoadNewest
  <1>8. CASE PlanNext(c)
    <2>1. at \in Checkpoint /\ call[c].step # "idle"
      BY <1>8, NodeHolds DEF PlanNext
    <2>2. call' \in [Callers -> Call] /\ \A d \in Callers : Addressed(d)'
      <3>1. CASE at.plan < MaxPlans
        <4>1. PICK node \in {"approval", "transaction"} :
                Returns(c, [at EXCEPT !.plan = @ + 1, !.node = node])
          BY <1>8, <3>1 DEF PlanNext
        <4>2. at.plan + 1 \in 0..MaxPlans
          BY <2>1, <3>1, SharedPlaneAssumption DEF Checkpoint
        <4>3. [at EXCEPT !.plan = @ + 1, !.node = node] \in Checkpoint
          BY <2>1, <4>2 DEF Checkpoint
        <4> QED
          BY <2>1, <4>1, <4>3, NodeReturns
      <3>2. CASE ~(at.plan < MaxPlans)
        <4>1. Returns(c, [at EXCEPT !.node = "end", !.outcome = "ADMIN_HANDOFF"])
          BY <1>8, <3>2 DEF PlanNext
        <4>2. [at EXCEPT !.node = "end", !.outcome = "ADMIN_HANDOFF"] \in Checkpoint
          BY <2>1 DEF Checkpoint
        <4> QED
          BY <2>1, <4>1, <4>2, NodeReturns
      <3> QED
        BY <3>1, <3>2
    <2> QED
      BY <1>2, <1>8, <2>2 DEF PlanNext
  <1>9. CASE FollowDecision(c)
    <2> DEFINE r == RuntimeOf[p]
               asked == [key |-> ApprovalKey, effect |-> FALSE]
               heard == [at EXCEPT !.receipts = @ \cup {asked}]
    <2>1. at \in Checkpoint /\ call[c].step # "idle" /\ r \in Runtimes
      BY <1>9, NodeHolds DEF FollowDecision
    <2>2. heard \in Checkpoint /\ asked \in Receipts
      <3>1. asked \in Receipts
        BY DEF Receipts
      <3> QED
        BY <2>1, <3>1 DEF Checkpoint
    <2>3. performed' \in [Runtimes -> SUBSET Receipts]
      BY <1>9, <2>1, <2>2 DEF FollowDecision, TypeInv, TypeOK
    <2>4. /\ decision' \in [Runtimes -> {"ABSENT", "PENDING", "APPROVED", "REJECTED"}]
          /\ decision'[r] \in {"PENDING", "APPROVED", "REJECTED"}
      BY <1>9, <2>1 DEF FollowDecision, TypeInv, TypeOK
    <2>5. \E after \in Checkpoint : Returns(c, after)
      <3>1. /\ [heard EXCEPT !.node = "transaction"] \in Checkpoint
            /\ [heard EXCEPT !.node = "end", !.outcome = "ADMIN_HANDOFF"] \in Checkpoint
            /\ [heard EXCEPT !.node = "pause", !.waiting = TRUE, !.pauses = @ + 1] \in Checkpoint
        <4>1. ASSUME NEW h \in Checkpoint
              PROVE  /\ [h EXCEPT !.node = "transaction"] \in Checkpoint
                     /\ [h EXCEPT !.node = "end", !.outcome = "ADMIN_HANDOFF"] \in Checkpoint
                     /\ [h EXCEPT !.node = "pause", !.waiting = TRUE, !.pauses = @ + 1] \in Checkpoint
          <5>1. h.pauses + 1 \in Nat
            BY DEF Checkpoint
          <5>2. [h EXCEPT !.node = "transaction"] \in Checkpoint
            BY DEF Checkpoint
          <5>3. [h EXCEPT !.node = "end", !.outcome = "ADMIN_HANDOFF"] \in Checkpoint
            BY DEF Checkpoint
          <5>4. [h EXCEPT !.node = "pause", !.waiting = TRUE, !.pauses = @ + 1] \in Checkpoint
            BY <5>1 DEF Checkpoint
          <5> QED
            BY <5>2, <5>3, <5>4
        <4> QED
          BY <2>2, <4>1
      <3> QED
        BY <1>9, <2>4, <3>1 DEF FollowDecision
    <2>6. call' \in [Callers -> Call] /\ \A d \in Callers : Addressed(d)'
      BY <2>1, <2>5, NodeReturns
    <2> QED
      BY <1>9, <2>3, <2>4, <2>6 DEF FollowDecision, TypeInv, TypeOK, Call, AnyCheckpoint
  <1>10. CASE Transaction(c)
    <2> DEFINE r == RuntimeOf[p]
    <2>1. at \in Checkpoint /\ call[c].step # "idle" /\ r \in Runtimes
      BY <1>10, NodeHolds DEF Transaction
    <2>2. ASSUME NEW receipts \in SUBSET Receipts
          PROVE  [at EXCEPT !.node = "verifier", !.receipts = @ \cup receipts] \in Checkpoint
      BY <2>1 DEF Checkpoint
    <2>3. performed[r] \in SUBSET Receipts
      BY <2>1 DEF TypeInv, TypeOK
    <2>4. CASE Replayed(r, at.plan) # {}
      <3>1. PICK receipts \in {Replayed(r, at.plan), {}} :
              Returns(c, [at EXCEPT !.node = "verifier", !.receipts = @ \cup receipts])
        BY <1>10, <2>4 DEF Transaction
      <3>2. receipts \in SUBSET Receipts
        BY <2>3 DEF Replayed
      <3>3. call' \in [Callers -> Call] /\ \A d \in Callers : Addressed(d)'
        BY <2>1, <2>2, <3>1, <3>2, NodeReturns
      <3>4. performed' = performed
        BY <1>10, <2>4 DEF Transaction
      <3> QED
        BY <1>2, <1>10, <3>3, <3>4 DEF Transaction
    <2>5. CASE Replayed(r, at.plan) = {}
      <3>1. PICK effect \in BOOLEAN :
              /\ performed' = [performed EXCEPT ![r] = @ \cup {[key |-> at.plan, effect |-> effect]}]
              /\ Returns(c, [at EXCEPT !.node = "verifier",
                               !.receipts = @ \cup {[key |-> at.plan, effect |-> effect]}])
        BY <1>10, <2>5 DEF Transaction
      <3>2. [key |-> at.plan, effect |-> effect] \in Receipts
        BY <2>1, SharedPlaneAssumption DEF Checkpoint, Receipts, WriteKeys, ApprovalKey
      <3>3. call' \in [Callers -> Call] /\ \A d \in Callers : Addressed(d)'
        BY <2>1, <2>2, <3>1, <3>2, NodeReturns
      <3>4. performed' \in [Runtimes -> SUBSET Receipts]
        BY <2>1, <3>1, <3>2 DEF TypeInv, TypeOK
      <3> QED
        BY <1>10, <3>3, <3>4 DEF Transaction, TypeInv, TypeOK, Call, AnyCheckpoint
    <2> QED
      BY <2>4, <2>5
  <1>11. CASE VerifyGoal(c)
    <2>1. at \in Checkpoint /\ call[c].step # "idle"
      BY <1>11, NodeHolds DEF VerifyGoal
    <2>2. PICK node \in {"done", "planner"} : Returns(c, [at EXCEPT !.node = node])
      BY <1>11 DEF VerifyGoal
    <2>3. [at EXCEPT !.node = node] \in Checkpoint
      BY <2>1 DEF Checkpoint
    <2>4. call' \in [Callers -> Call] /\ \A d \in Callers : Addressed(d)'
      BY <2>1, <2>2, <2>3, NodeReturns
    <2> QED
      BY <1>2, <1>11, <2>4 DEF VerifyGoal
  <1>12. CASE Finish(c)
    <2>1. at \in Checkpoint /\ call[c].step # "idle"
      BY <1>12, NodeHolds DEF Finish
    <2>2. [at EXCEPT !.node = "end", !.outcome = "DONE"] \in Checkpoint
      BY <2>1 DEF Checkpoint
    <2>3. call' \in [Callers -> Call] /\ \A d \in Callers : Addressed(d)'
      BY <1>12, <2>1, <2>2, NodeReturns DEF Finish
    <2>4. at.ticks + 1 \in Nat
      BY <2>1 DEF Checkpoint
    <2>5. memory' \in [SUBSET WriteKeys -> Nat]
      BY <1>12, <2>4 DEF Finish, Remember, TypeInv, TypeOK
    <2> QED
      BY <1>12, <2>3, <2>5 DEF Finish, TypeInv, TypeOK, Call, AnyCheckpoint
  <1>13. CASE SaveCheckpoint(c)
    <2>1. call' \in [Callers -> Call] /\ \A d \in Callers : Addressed(d)'
      BY <1>13, CallReturns, CallAdvances DEF SaveCheckpoint
    <2>2. saver' \in [Runtimes \X Threads -> AnyCheckpoint]
      BY <1>1, <1>13 DEF SaveCheckpoint, TypeInv, TypeOK, Call, AnyCheckpoint
    <2> QED
      BY <1>13, <2>1, <2>2 DEF SaveCheckpoint, TypeInv, TypeOK, Call, AnyCheckpoint
  <1>14. CASE Fail(c)
    BY <1>2, <1>14, CallReturns DEF Fail
  <1> QED
    BY <1>4, <1>6, <1>7, <1>8, <1>9, <1>10, <1>11, <1>12, <1>13, <1>14 DEF Work

\* A call that is let in: the two ways to enter are told apart by what they check.
LEMMA EntryKeepsTypes ==
  ASSUME TypeInv, NEW c \in Callers, NEW op \in {"start", "resume", "inspect"},
         NEW p \in Planes, NEW t \in Threads, NEW step \in {"claiming", "read"},
         Enter(c, op, p, t, step)
  PROVE  /\ call' \in [Callers -> Call] /\ \A d \in Callers : Addressed(d)'
         /\ call'[c].step = step /\ call'[c].plane = p /\ call'[c].thread = t
         /\ call'[c].at = NoCheckpoint
         /\ \A d \in Callers : d # c => call'[d] = call[d]
  <1> DEFINE new == [Idle EXCEPT !.step = step, !.op = op, !.plane = p, !.thread = t]
  <1>1. /\ new \in Call /\ new.plane = p /\ new.thread = t
        /\ new.step = step /\ new.at = NoCheckpoint
    BY IdleIsCall DEF Idle, Call
  <1>2. call' = [call EXCEPT ![c] = new] /\ call \in [Callers -> Call]
    BY DEF Enter, TypeInv, TypeOK, Call, AnyCheckpoint
  <1> HIDE DEF new
  <1>3. call' \in [Callers -> Call] /\ \A d \in Callers : Addressed(d)'
    BY <1>1, <1>2, CallStep
  <1> QED
    BY <1>1, <1>2, <1>3

LEMMA StepKeepsTypes == TypeInv /\ [Next]_vars => TypeInv'
  <1> SUFFICES ASSUME TypeInv, [Next]_vars PROVE TypeInv'
    OBVIOUS
  <1>1. CASE \E r \in Runtimes : Decide(r)
    BY <1>1 DEF Decide, claims, TypeInv, TypeOK, Addressed
  <1>2. CASE UNCHANGED vars
    BY <1>2 DEF vars, TypeInv, TypeOK, Addressed
  <1>3. ASSUME NEW c \in Callers, NEW p \in Planes, NEW t \in Threads, ClaimThread(c, p, t)
        PROVE  TypeInv'
    <2>1. call' \in [Callers -> Call] /\ \A d \in Callers : Addressed(d)'
      BY <1>3, EntryKeepsTypes DEF ClaimThread
    <2> QED
      BY <1>3, <2>1 DEF ClaimThread, session, TypeInv, TypeOK, Call, AnyCheckpoint
  <1>4. ASSUME NEW c \in Callers, NEW p \in Planes, NEW t \in Threads,
               NEW op \in {"resume", "inspect"}, CheckOwner(c, op, p, t)
        PROVE  TypeInv'
    <2>1. call' \in [Callers -> Call] /\ \A d \in Callers : Addressed(d)'
      BY <1>4, EntryKeepsTypes DEF CheckOwner
    <2> QED
      BY <1>4, <2>1 DEF CheckOwner, claims, session, TypeInv, TypeOK, Call, AnyCheckpoint
  <1> QED
    BY <1>1, <1>2, <1>3, <1>4, WorkKeepsTypes DEF Next

LEMMA InitIsTyped == Init => TypeInv
  <1> SUFFICES ASSUME Init PROVE TypeInv
    OBVIOUS
  <1>1. call \in [Callers -> Call] /\ \A c \in Callers : call[c].step = "idle"
    BY IdleIsCall DEF Init, Idle
  <1>2. 0 \in Nat
    OBVIOUS
  <1> QED
    BY <1>1, <1>2 DEF Init, FreeLease, TypeInv, TypeOK, Addressed, Call, AnyCheckpoint

\* Leases, claims, receipts, decisions, checkpoints, memory and calls keep their
\* types, for any callers, planes, runtimes and threads.
THEOREM SharedTypes == Spec => []TypeOK
  <1>1. TypeInv => TypeOK
    BY DEF TypeInv
  <1> QED
    BY <1>1, InitIsTyped, StepKeepsTypes, PTL DEF Spec

-----------------------------------------------------------------------------
(* One facade and one thread drive a session *)

\* A step of a call leaves the others alone, and its own plane and thread unless
\* it ends the call.
LEMMA OwnCallOnly ==
  ASSUME TypeInv, NEW c \in Callers, Work(c)
  PROVE  /\ \A d \in Callers : d # c => call'[d] = call[d]
         /\ \/ call'[c] = Idle
            \/ call'[c].plane = call[c].plane /\ call'[c].thread = call[c].thread
         /\ call[c].step # "idle"
  <1>1. call \in [Callers -> Call]
    BY DEF TypeInv, TypeOK, Call, AnyCheckpoint
  <1>2. ASSUME Return(c)
        PROVE  call'[c] = Idle /\ \A d \in Callers : d # c => call'[d] = call[d]
    BY <1>1, <1>2 DEF Return
  <1>3. ASSUME NEW step, NEW at,
               \/ call' = [call EXCEPT ![c].step = step]
               \/ call' = [call EXCEPT ![c].step = step, ![c].at = at]
        PROVE  /\ call'[c].plane = call[c].plane /\ call'[c].thread = call[c].thread
               /\ \A d \in Callers : d # c => call'[d] = call[d]
    BY <1>1, <1>3 DEF Call
  <1>4. ASSUME NEW after, Returns(c, after)
        PROVE  /\ call'[c].plane = call[c].plane /\ call'[c].thread = call[c].thread
               /\ \A d \in Callers : d # c => call'[d] = call[d]
    BY <1>3, <1>4 DEF Returns
  <1>6. CASE LeaseSession(c)
    BY <1>2, <1>3, <1>6 DEF LeaseSession
  <1>8. CASE ReadSnapshot(c)
    BY <1>2, <1>3, <1>8 DEF ReadSnapshot
  <1>9. CASE LoadNewest(c)
    BY <1>2, <1>3, <1>9 DEF LoadNewest
  <1>10. CASE PlanNext(c)
    BY <1>4, <1>10 DEF PlanNext, Node
  <1>11. CASE FollowDecision(c)
    BY <1>4, <1>11 DEF FollowDecision, Node
  <1>12. CASE Transaction(c)
    BY <1>4, <1>12 DEF Transaction, Node
  <1>13. CASE VerifyGoal(c)
    BY <1>4, <1>13 DEF VerifyGoal, Node
  <1>14. CASE Finish(c)
    BY <1>4, <1>14 DEF Finish, Node
  <1>15. CASE SaveCheckpoint(c)
    BY <1>2, <1>3, <1>15 DEF SaveCheckpoint, Advance
  <1>16. CASE Fail(c)
    BY <1>2, <1>16 DEF Fail
  <1> QED
    BY <1>6, <1>8, <1>9, <1>10, <1>11, <1>12, <1>13, <1>14, <1>15, <1>16 DEF Work

\* The call of c is no further inside than it was, or ends.
LEMMA ClaimsUntouched ==
  ASSUME TypeInv, OneDriver, NEW c \in Callers, Work(c),
         lease' = lease, owned' = owned, Inside(c)
  PROVE  OneDriver'
  <1>1. \/ ~Inside(c)'
        \/ call'[c].plane = call[c].plane /\ call'[c].thread = call[c].thread
    BY OwnCallOnly DEF Inside, Idle
  <1>2. \A d \in Callers : d # c => call'[d] = call[d]
    BY OwnCallOnly
  <1> QED
    BY <1>1, <1>2 DEF OneDriver, Inside

LEMMA WorkKeepsDriver ==
  ASSUME TypeInv, OneDriver, NEW c \in Callers, Work(c)
  PROVE  OneDriver'
  <1> USE DEF claims, session
  <1> DEFINE p == call[c].plane
             t == call[c].thread
  <1>1. /\ \A d \in Callers : d # c => call'[d] = call[d]
        /\ p \in Planes /\ t \in Threads
    BY OwnCallOnly DEF TypeInv, Addressed
  <1>2. call \in [Callers -> Call]
    BY DEF TypeInv, TypeOK, Call, AnyCheckpoint
  <1>3. ASSUME lease' = lease, owned' = owned, ~Inside(c)'
        PROVE  OneDriver'
    BY <1>1, <1>3 DEF OneDriver, Inside
  <1>5. CASE LeaseSession(c)
    <2> DEFINE r == RuntimeOf[p]
               ours == [plane |-> p, thread |-> t]
    <2>1. CASE Leasable(r, p, t)
      <3>1. /\ lease' = [lease EXCEPT ![r] = ours]
            /\ owned' = [owned EXCEPT ![p] = t]
            /\ call' = [call EXCEPT ![c].step = "save", ![c].at = Fresh]
        BY <1>5, <2>1 DEF LeaseSession
      <3>2. r \in Runtimes /\ lease'[r] = ours /\ owned'[p] = t
        BY <1>1, <3>1, SharedPlaneAssumption DEF TypeInv, TypeOK
      <3>3. call'[c].plane = p /\ call'[c].thread = t
        BY <1>2, <3>1 DEF Call
      <3>4. ASSUME NEW q \in Planes, NEW s \in Threads,
                   lease[RuntimeOf[q]] = [plane |-> q, thread |-> s]
            PROVE  lease'[RuntimeOf[q]] = [plane |-> q, thread |-> s]
        <4>1. CASE RuntimeOf[q] = r
          <5>1. lease[r] = ours
            BY <2>1, <3>4, <4>1, SharedPlaneAssumption DEF Leasable, FreeLease
          <5> QED
            BY <3>2, <3>4, <4>1, <5>1
        <4>2. CASE RuntimeOf[q] # r
          BY <3>1, <3>4, <4>2, SharedPlaneAssumption DEF TypeInv, TypeOK
        <4> QED
          BY <4>1, <4>2
      <3>5. ASSUME NEW d \in Callers, Inside(d)'
            PROVE  lease'[RuntimeOf[call'[d].plane]] =
                   [plane |-> call'[d].plane, thread |-> call'[d].thread]
        <4>1. CASE d = c
          BY <3>2, <3>3, <4>1
        <4>2. CASE d # c
          <5>1. call'[d] = call[d] /\ Inside(d)
            BY <1>1, <3>5, <4>2 DEF Inside
          <5>2. call[d].plane \in Planes /\ call[d].thread \in Threads
            BY <5>1 DEF TypeInv, Addressed, Inside
          <5> QED
            BY <3>4, <5>1, <5>2 DEF OneDriver
        <4> QED
          BY <4>1, <4>2
      <3>6. ASSUME NEW q \in Planes, owned'[q] # NoThread
            PROVE  lease'[RuntimeOf[q]] = [plane |-> q, thread |-> owned'[q]]
        <4>1. CASE q = p
          BY <3>2, <4>1
        <4>2. CASE q # p
          <5>1. owned'[q] = owned[q] /\ owned[q] \in Threads
            BY <3>1, <3>6, <4>2 DEF TypeInv, TypeOK
          <5> QED
            BY <3>4, <3>6, <5>1 DEF OneDriver
        <4> QED
          BY <4>1, <4>2
      <3> QED
        BY <3>5, <3>6 DEF OneDriver
    <2>2. CASE ~Leasable(r, p, t)
      <3>1. Return(c) /\ lease' = lease /\ owned' = owned
        BY <1>5, <2>2 DEF LeaseSession
      <3> QED
        BY <1>2, <1>3, <3>1 DEF Return, Inside, Idle
    <2> QED
      BY <2>1, <2>2
  <1>7. CASE ReadSnapshot(c) \/ LoadNewest(c) \/ SaveCheckpoint(c) \/ Fail(c)
    BY <1>7, ClaimsUntouched DEF ReadSnapshot, LoadNewest, SaveCheckpoint, Fail, Inside
  <1>8. CASE PlanNext(c) \/ FollowDecision(c) \/ Transaction(c) \/ VerifyGoal(c) \/ Finish(c)
    BY <1>8, ClaimsUntouched
       DEF PlanNext, FollowDecision, Transaction, VerifyGoal, Finish, Node, Inside
  <1> QED
    BY <1>5, <1>7, <1>8 DEF Work

LEMMA StepKeepsDriver == TypeInv /\ OneDriver /\ [Next]_vars => OneDriver'
  <1> SUFFICES ASSUME TypeInv, OneDriver, [Next]_vars PROVE OneDriver'
    OBVIOUS
  <1>1. ASSUME NEW c \in Callers, NEW p \in Planes, NEW t \in Threads, ClaimThread(c, p, t)
        PROVE  OneDriver'
    <2>1. /\ lease' = lease /\ owned' = owned
          /\ \A d \in Callers : d # c => call'[d] = call[d]
          /\ call'[c].step = "claiming"
      BY <1>1, EntryKeepsTypes DEF ClaimThread
    <2> QED
      BY <2>1 DEF OneDriver, Inside
  <1>4. ASSUME NEW c \in Callers, NEW p \in Planes, NEW t \in Threads,
               NEW op \in {"resume", "inspect"}, CheckOwner(c, op, p, t)
        PROVE  OneDriver'
    <2>1. /\ lease' = lease /\ owned' = owned
          /\ \A d \in Callers : d # c => call'[d] = call[d]
          /\ call'[c].plane = p /\ call'[c].thread = t
          /\ lease[RuntimeOf[p]] = [plane |-> p, thread |-> t]
      BY <1>4, EntryKeepsTypes DEF CheckOwner, claims
    <2> QED
      BY <2>1 DEF OneDriver, Inside
  <1>2. CASE \E r \in Runtimes : Decide(r)
    BY <1>2 DEF Decide, claims, OneDriver, Inside
  <1>3. CASE UNCHANGED vars
    BY <1>3 DEF vars, OneDriver, Inside
  <1> QED
    BY <1>1, <1>2, <1>3, <1>4, WorkKeepsDriver DEF Next

\* However many facades are built over a runtime and however their callers
\* interleave, one facade and one thread drive its session.
THEOREM SessionsHaveOneDriver == Spec => []OneDriver
  <1>1. Init => OneDriver
    BY DEF Init, OneDriver, Inside, Idle
  <1> QED
    BY <1>1, InitIsTyped, StepKeepsTypes, StepKeepsDriver, PTL DEF Spec

-----------------------------------------------------------------------------
(* Checkpoints rest on the session, and successes are remembered *)

\* What every checkpoint says of the receipts of its session and of the store: a
\* run that is done has an effect to show, and has stored it.
Grounded(x, done, store) ==
  /\ x.receipts \subseteq done
  /\ x.node = "done" \/ x.outcome = "DONE" => \E y \in x.receipts : y.effect
  /\ x.outcome = "DONE" => x.node = "end" /\ store[MemoryId(x)] # 0

\* Of the checkpoints in the saver, and of those invocations work on.
GroundedInv ==
  /\ \A k \in Runtimes \X Threads : Grounded(saver[k], performed[k[1]], memory)
  /\ \A c \in Callers : call[c].step # "idle" =>
       Grounded(call[c].at, performed[RuntimeOf[call[c].plane]], memory)

LEMMA BlankIsGrounded ==
  ASSUME NEW done, NEW store
  PROVE  Grounded(NoCheckpoint, done, store) /\ Grounded(Fresh, done, store)
  BY DEF Grounded, NoCheckpoint, Fresh

LEMMA MemoryIdType ==
  ASSUME NEW x \in AnyCheckpoint
  PROVE  MemoryId(x) \in SUBSET WriteKeys
  <1>1. x.receipts \in SUBSET Receipts
    BY NoneIsNoCheckpoint DEF AnyCheckpoint, Checkpoint
  <1> QED
    BY <1>1 DEF MemoryId, Receipts

\* Receipts and memories are never lost, so what is grounded stays grounded.
LEMMA GroundedStays ==
  ASSUME NEW x \in AnyCheckpoint, NEW done, NEW more, done \subseteq more,
         NEW store, NEW richer, \A s \in SUBSET WriteKeys : store[s] # 0 => richer[s] # 0,
         Grounded(x, done, store)
  PROVE  Grounded(x, more, richer)
  BY MemoryIdType DEF Grounded

LEMMA WorkOnlyAdds ==
  ASSUME TypeInv, NEW c \in Callers, Work(c)
  PROVE  /\ \A r \in Runtimes : performed[r] \subseteq performed'[r]
         /\ \A s \in SUBSET WriteKeys : memory[s] # 0 => memory'[s] # 0
  <1> USE DEF claims, session
  <1>1. CASE Finish(c)
    <2>1. call[c].at.ticks + 1 # 0
      <3>1. call[c].at.ticks \in Nat
        BY <1>1, NodeHolds DEF Finish, Checkpoint
      <3> QED
        BY <3>1
    <2> QED
      BY <1>1, <2>1 DEF Finish, Remember, TypeInv, TypeOK
  <1>2. CASE FollowDecision(c)
    BY <1>2 DEF FollowDecision, TypeInv, TypeOK
  <1>3. CASE Transaction(c)
    <2>1. /\ memory' = memory
          /\ \/ performed' = performed
             \/ \E r, receipt : performed' = [performed EXCEPT ![r] = @ \cup {receipt}]
      BY <1>3 DEF Transaction
    <2>2. ASSUME NEW r, NEW receipt, performed' = [performed EXCEPT ![r] = @ \cup {receipt}]
          PROVE  \A q \in Runtimes : performed[q] \subseteq performed'[q]
      BY <2>2 DEF TypeInv, TypeOK
    <2> QED
      BY <2>1, <2>2
  <1>4. CASE ~Finish(c) /\ ~FollowDecision(c) /\ ~Transaction(c)
    <2>1. performed' = performed /\ memory' = memory
      BY <1>4 DEF Work, LeaseSession, ReadSnapshot, LoadNewest,
                  PlanNext, VerifyGoal, SaveCheckpoint, Fail
    <2> QED
      BY <2>1
  <1> QED
    BY <1>1, <1>2, <1>3, <1>4

\* What a node returns is saved with another tick, which grounds nothing.
LEMMA ReturnsGrounded ==
  ASSUME TypeInv, NEW c \in Callers, NEW after \in Checkpoint, NEW done, NEW store,
         Returns(c, after), Grounded(after, done, store)
  PROVE  Grounded(call'[c].at, done, store)
  <1> DEFINE saved == [after EXCEPT !.ticks = @ + 1]
  <1>1. call'[c].at = saved
    BY DEF Returns, TypeInv, TypeOK
  <1>2. /\ saved.receipts = after.receipts /\ saved.node = after.node
        /\ saved.outcome = after.outcome
    BY DEF Checkpoint
  <1> HIDE DEF saved
  <1> QED
    BY <1>1, <1>2 DEF Grounded, MemoryId

\* The invocation's own checkpoint stays grounded through every step.
LEMMA WorkKeepsCallGrounded ==
  ASSUME TypeInv, GroundedInv, NEW c \in Callers, Work(c), call'[c].step # "idle"
  PROVE  Grounded(call'[c].at, performed'[RuntimeOf[call[c].plane]], memory')
  <1> USE DEF claims, session
  <1> DEFINE p == call[c].plane
             t == call[c].thread
             r == RuntimeOf[p]
             at == call[c].at
  <1>1. /\ p \in Planes /\ t \in Threads /\ r \in Runtimes
        /\ at \in AnyCheckpoint /\ call \in [Callers -> Call]
        /\ Grounded(at, performed[r], memory)
    BY OwnCallOnly, SharedPlaneAssumption
       DEF GroundedInv, TypeInv, TypeOK, Addressed, Call, AnyCheckpoint
  <1>2. Grounded(at, performed'[r], memory')
    BY <1>1, WorkOnlyAdds, GroundedStays
  <1>3. ASSUME call'[c].at = at
        PROVE  Grounded(call'[c].at, performed'[r], memory')
    BY <1>2, <1>3
  <1>4. ~Return(c)
    BY <1>1 DEF Return, Idle
  <1>5. ASSUME NEW step, Advance(c, step)
        PROVE  call'[c].at = at
    BY <1>1, <1>5 DEF Advance, Call
  <1>6. CASE SaveCheckpoint(c) \/ Fail(c)
    BY <1>3, <1>4, <1>5, <1>6 DEF SaveCheckpoint, Fail
  <1>7. CASE LeaseSession(c)
    <2>1. call'[c].at = Fresh
      BY <1>1, <1>4, <1>7 DEF LeaseSession, Call
    <2> QED
      BY <2>1, BlankIsGrounded
  <1>8. CASE ReadSnapshot(c) \/ LoadNewest(c)
    <2> DEFINE seen == saver[SaverKey(p, t)]
    <2>1. /\ seen \in AnyCheckpoint
          /\ Grounded(seen, performed[r], memory)
      BY <1>1 DEF SaverKey, TypeInv, TypeOK, AnyCheckpoint, GroundedInv
    <2>2. Grounded(seen, performed'[r], memory')
      BY <1>1, <2>1, WorkOnlyAdds, GroundedStays
    <2>3. CASE ReadSnapshot(c)
      <3>1. call'[c].at = seen
        BY <1>1, <1>4, <2>3 DEF ReadSnapshot, Call
      <3> QED
        BY <2>2, <3>1
    <2>4. CASE LoadNewest(c)
      <3> DEFINE loaded == [seen EXCEPT !.waiting = FALSE,
                              !.node = IF seen.waiting THEN "approval" ELSE @]
      <3>1. seen.node # "end" /\ call'[c].at = loaded
        BY <1>1, <1>4, <2>4 DEF LoadNewest, Call
      <3>2. /\ loaded.receipts = seen.receipts /\ loaded.outcome = seen.outcome
            /\ loaded.node \in {seen.node, "approval"}
        BY <2>1 DEF AnyCheckpoint, Checkpoint, NoCheckpoint, Fresh
      <3> HIDE DEF loaded
      <3> QED
        BY <2>2, <3>1, <3>2 DEF Grounded, MemoryId
    <2> QED
      BY <1>8, <2>3, <2>4
  <1>9. ASSUME NEW node \in {"planner", "approval", "transaction", "verifier", "done"},
               Node(c, node)
        PROVE  at \in Checkpoint /\ at.node = node /\ at.outcome # "DONE"
    BY <1>1, <1>9, NodeHolds DEF Grounded
  <1>10. CASE PlanNext(c)
    <2>1. at \in Checkpoint /\ at.outcome # "DONE"
      BY <1>9, <1>10 DEF PlanNext
    <2>2. CASE at.plan < MaxPlans
      <3>1. PICK node \in {"approval", "transaction"} :
              Returns(c, [at EXCEPT !.plan = @ + 1, !.node = node])
        BY <1>10, <2>2 DEF PlanNext
      <3> DEFINE after == [at EXCEPT !.plan = @ + 1, !.node = node]
      <3>2. at.plan + 1 \in 0..MaxPlans
        BY <2>1, <2>2, SharedPlaneAssumption DEF Checkpoint
      <3>3. after \in Checkpoint /\ after.node = node
            /\ after.receipts = at.receipts /\ after.outcome = at.outcome
        BY <2>1, <3>2 DEF Checkpoint
      <3> HIDE DEF after
      <3>4. Grounded(after, performed'[r], memory')
        BY <1>2, <2>1, <3>3 DEF Grounded
      <3> QED
        BY <3>1, <3>3, <3>4, ReturnsGrounded DEF after
    <2>3. CASE ~(at.plan < MaxPlans)
      <3> DEFINE after == [at EXCEPT !.node = "end", !.outcome = "ADMIN_HANDOFF"]
      <3>1. Returns(c, after)
        BY <1>10, <2>3 DEF PlanNext
      <3>2. after \in Checkpoint /\ after.node = "end"
            /\ after.receipts = at.receipts /\ after.outcome = "ADMIN_HANDOFF"
        BY <2>1 DEF Checkpoint
      <3> HIDE DEF after
      <3>3. Grounded(after, performed'[r], memory')
        BY <1>2, <3>2 DEF Grounded
      <3> QED
        BY <3>1, <3>2, <3>3, ReturnsGrounded
    <2> QED
      BY <2>2, <2>3
  <1>11. CASE FollowDecision(c)
    <2> DEFINE asked == [key |-> ApprovalKey, effect |-> FALSE]
               heard == [at EXCEPT !.receipts = @ \cup {asked}]
    <2>1. at \in Checkpoint /\ at.outcome # "DONE"
      BY <1>9, <1>11 DEF FollowDecision
    <2>2. performed'[r] = performed[r] \cup {asked}
      BY <1>1, <1>11 DEF FollowDecision, TypeInv, TypeOK
    <2>3. asked \in Receipts
      BY DEF Receipts
    <2>4. /\ heard \in Checkpoint /\ heard.outcome # "DONE"
          /\ heard.receipts \subseteq performed'[r]
      BY <1>1, <2>1, <2>2, <2>3 DEF Checkpoint, Grounded
    <2>5. \E after \in Checkpoint :
            /\ Returns(c, after)
            /\ after.receipts = heard.receipts
            /\ after.outcome # "DONE" /\ after.node # "done"
      <3>1. ASSUME NEW h \in Checkpoint, h.outcome # "DONE",
                   NEW after \in {[h EXCEPT !.node = "transaction"],
                                  [h EXCEPT !.node = "end", !.outcome = "ADMIN_HANDOFF"],
                                  [h EXCEPT !.node = "pause", !.waiting = TRUE, !.pauses = @ + 1]}
            PROVE  /\ after \in Checkpoint
                   /\ after.receipts = h.receipts
                   /\ after.outcome # "DONE" /\ after.node # "done"
        <4>1. h.pauses + 1 \in Nat
          BY DEF Checkpoint
        <4>2. CASE after = [h EXCEPT !.node = "transaction"]
          BY <3>1, <4>2 DEF Checkpoint
        <4>3. CASE after = [h EXCEPT !.node = "end", !.outcome = "ADMIN_HANDOFF"]
          BY <4>3 DEF Checkpoint
        <4>4. CASE after = [h EXCEPT !.node = "pause", !.waiting = TRUE, !.pauses = @ + 1]
          BY <3>1, <4>1, <4>4 DEF Checkpoint
        <4> QED
          BY <4>2, <4>3, <4>4
      <3>2. PICK after \in {[heard EXCEPT !.node = "transaction"],
                            [heard EXCEPT !.node = "end", !.outcome = "ADMIN_HANDOFF"],
                            [heard EXCEPT !.node = "pause", !.waiting = TRUE, !.pauses = @ + 1]} :
              Returns(c, after)
        BY <1>11 DEF FollowDecision
      <3> HIDE DEF heard
      <3> QED
        BY <2>4, <3>1, <3>2
    <2>6. PICK after \in Checkpoint :
            /\ Returns(c, after)
            /\ after.receipts = heard.receipts
            /\ after.outcome # "DONE" /\ after.node # "done"
      BY <2>5
    <2>7. Grounded(after, performed'[r], memory')
      BY <2>4, <2>6 DEF Grounded
    <2> QED
      BY <2>6, <2>7, ReturnsGrounded
  <1>12. CASE Transaction(c)
    <2>1. at \in Checkpoint /\ at.outcome # "DONE"
      BY <1>9, <1>12 DEF Transaction
    <2>2. PICK receipts \in SUBSET Receipts :
            /\ receipts \subseteq performed'[r]
            /\ Returns(c, [at EXCEPT !.node = "verifier", !.receipts = @ \cup receipts])
      <3>1. performed[r] \in SUBSET Receipts
        BY <1>1 DEF TypeInv, TypeOK
      <3>2. CASE Replayed(r, at.plan) # {}
        <4>1. /\ performed' = performed
              /\ \E receipts \in {Replayed(r, at.plan), {}} :
                   Returns(c, [at EXCEPT !.node = "verifier", !.receipts = @ \cup receipts])
          BY <1>12, <3>2 DEF Transaction
        <4> QED
          BY <3>1, <4>1 DEF Replayed
      <3>3. CASE Replayed(r, at.plan) = {}
        <4>1. PICK effect \in BOOLEAN :
                /\ performed' = [performed EXCEPT ![r] = @ \cup {[key |-> at.plan, effect |-> effect]}]
                /\ Returns(c, [at EXCEPT !.node = "verifier",
                                 !.receipts = @ \cup {[key |-> at.plan, effect |-> effect]}])
          BY <1>12, <3>3 DEF Transaction
        <4>2. [key |-> at.plan, effect |-> effect] \in Receipts
          BY <2>1, SharedPlaneAssumption DEF Checkpoint, Receipts, WriteKeys, ApprovalKey
        <4>3. performed'[r] = performed[r] \cup {[key |-> at.plan, effect |-> effect]}
          BY <1>1, <4>1 DEF TypeInv, TypeOK
        <4> QED
          BY <4>1, <4>2, <4>3
      <3> QED
        BY <3>2, <3>3
    <2> DEFINE after == [at EXCEPT !.node = "verifier", !.receipts = @ \cup receipts]
    <2>3. /\ after \in Checkpoint /\ after.node = "verifier" /\ after.outcome # "DONE"
          /\ after.receipts = at.receipts \cup receipts
      BY <2>1, <2>2 DEF Checkpoint
    <2>4. Returns(c, after)
      BY <2>2
    <2> HIDE DEF after
    <2>5. Grounded(after, performed'[r], memory')
      BY <1>2, <2>2, <2>3 DEF Grounded
    <2> QED
      BY <2>3, <2>4, <2>5, ReturnsGrounded
  <1>13. CASE VerifyGoal(c)
    <2> DEFINE after == [at EXCEPT !.node = IF GoalReached(at) THEN "done" ELSE "planner"]
    <2>1. at \in Checkpoint /\ at.outcome # "DONE" /\ Returns(c, after)
      BY <1>9, <1>13 DEF VerifyGoal
    <2>2. /\ after \in Checkpoint /\ after.outcome # "DONE"
          /\ after.receipts = at.receipts
          /\ after.node = "done" => GoalReached(at)
      BY <2>1 DEF Checkpoint
    <2> HIDE DEF after
    <2>3. Grounded(after, performed'[r], memory')
      BY <1>2, <2>2 DEF Grounded, GoalReached
    <2> QED
      BY <2>1, <2>2, <2>3, ReturnsGrounded
  <1>14. CASE Finish(c)
    <2> DEFINE after == [at EXCEPT !.node = "end", !.outcome = "DONE"]
    <2>1. at \in Checkpoint /\ at.node = "done" /\ Returns(c, after)
      BY <1>9, <1>14 DEF Finish
    <2>2. /\ after \in Checkpoint /\ after.node = "end"
          /\ after.receipts = at.receipts
      BY <2>1 DEF Checkpoint
    <2>3. memory'[MemoryId(at)] # 0
      <3>1. at.ticks + 1 \in Nat \ {0} /\ MemoryId(at) \in SUBSET WriteKeys
        BY <1>1, <2>1, MemoryIdType DEF Checkpoint
      <3> QED
        BY <1>14, <3>1 DEF Finish, Remember, TypeInv, TypeOK
    <2> HIDE DEF after
    <2>4. Grounded(after, performed'[r], memory')
      BY <1>2, <2>1, <2>2, <2>3 DEF Grounded, MemoryId
    <2> QED
      BY <2>1, <2>2, <2>4, ReturnsGrounded
  <1> QED
    BY <1>6, <1>7, <1>8, <1>10, <1>11, <1>12, <1>13, <1>14 DEF Work

LEMMA WorkKeepsGrounded ==
  ASSUME TypeInv, GroundedInv, NEW c \in Callers, Work(c)
  PROVE  GroundedInv'
  <1>1. ASSUME NEW x \in AnyCheckpoint, NEW r \in Runtimes, Grounded(x, performed[r], memory)
        PROVE  Grounded(x, performed'[r], memory')
    BY <1>1, WorkOnlyAdds, GroundedStays
  <1>2. ASSUME NEW d \in Callers, call[d].step # "idle"
        PROVE  /\ call[d].plane \in Planes /\ RuntimeOf[call[d].plane] \in Runtimes
               /\ call[d].thread \in Threads /\ call[d].at \in AnyCheckpoint
               /\ Grounded(call[d].at, performed[RuntimeOf[call[d].plane]], memory)
    BY <1>2, SharedPlaneAssumption
       DEF GroundedInv, TypeInv, TypeOK, Addressed, Call, AnyCheckpoint
  <1>3. ASSUME NEW d \in Callers, call'[d].step # "idle"
        PROVE  Grounded(call'[d].at, performed'[RuntimeOf[call'[d].plane]], memory')
    <2>1. CASE d = c
      <3>1. call'[c].plane = call[c].plane
        BY <1>3, <2>1, OwnCallOnly DEF Idle
      <3> QED
        BY <1>3, <2>1, <3>1, WorkKeepsCallGrounded
    <2>2. CASE d # c
      <3>1. call'[d] = call[d]
        BY <2>2, OwnCallOnly
      <3> QED
        BY <1>1, <1>2, <1>3, <3>1
    <2> QED
      BY <2>1, <2>2
  <1>4. ASSUME NEW k \in Runtimes \X Threads
        PROVE  Grounded(saver'[k], performed'[k[1]], memory')
    <2>1. /\ saver[k] \in AnyCheckpoint /\ k[1] \in Runtimes
          /\ Grounded(saver[k], performed[k[1]], memory)
      BY DEF GroundedInv, TypeInv, TypeOK, AnyCheckpoint
    <2>2. CASE saver'[k] = saver[k]
      BY <1>1, <2>1, <2>2
    <2>3. CASE saver'[k] # saver[k]
      <3>1. SaveCheckpoint(c)
        BY <2>3 DEF Work, LeaseSession, ReadSnapshot, LoadNewest,
                    PlanNext, FollowDecision, Transaction, VerifyGoal, Finish, Fail
      <3>2. /\ k = SaverKey(call[c].plane, call[c].thread)
            /\ saver'[k] = call[c].at /\ call[c].step # "idle"
        BY <2>3, <3>1 DEF SaveCheckpoint, TypeInv, TypeOK
      <3>3. k[1] = RuntimeOf[call[c].plane]
        BY <3>2 DEF SaverKey
      <3> QED
        BY <1>1, <1>2, <3>2, <3>3
    <2> QED
      BY <2>2, <2>3
  <1> QED
    BY <1>3, <1>4 DEF GroundedInv

LEMMA StepKeepsGrounded == TypeInv /\ GroundedInv /\ [Next]_vars => GroundedInv'
  <1> SUFFICES ASSUME TypeInv, GroundedInv, [Next]_vars PROVE GroundedInv'
    OBVIOUS
  <1>1. ASSUME NEW c \in Callers, NEW p \in Planes, NEW t \in Threads,
               NEW op \in {"start", "resume", "inspect"}, NEW step \in {"claiming", "read"},
               Enter(c, op, p, t, step),
               saver' = saver, performed' = performed, memory' = memory
        PROVE  GroundedInv'
    <2>1. /\ \A d \in Callers : d # c => call'[d] = call[d]
          /\ call'[c].at = NoCheckpoint
      BY <1>1, EntryKeepsTypes
    <2> QED
      BY <1>1, <2>1, BlankIsGrounded DEF GroundedInv
  <1>4. ASSUME NEW c \in Callers, NEW p \in Planes, NEW t \in Threads,
               ClaimThread(c, p, t) \/ \E op \in {"resume", "inspect"} : CheckOwner(c, op, p, t)
        PROVE  GroundedInv'
    BY <1>1, <1>4 DEF ClaimThread, CheckOwner, session
  <1>2. CASE \E r \in Runtimes : Decide(r)
    BY <1>2 DEF Decide, GroundedInv
  <1>3. CASE UNCHANGED vars
    BY <1>3 DEF vars, GroundedInv
  <1> QED
    BY <1>2, <1>3, <1>4, WorkKeepsGrounded DEF Next

LEMMA GroundedAlways == Spec => [](TypeInv /\ GroundedInv)
  <1>1. Init => GroundedInv
    BY BlankIsGrounded DEF Init, GroundedInv, Idle
  <1> QED
    BY <1>1, InitIsTyped, StepKeepsTypes, StepKeepsGrounded, PTL DEF Spec

\* A checkpoint a plane can reach tells only of writes its own session has made,
\* and of a success only if the session has its effect, whatever else shares the
\* saver and wherever an invocation dies.
THEOREM CheckpointsAreTrue == Spec => []CheckpointsRestOnSession
  <1>1. TypeInv /\ GroundedInv => CheckpointsRestOnSession
    <2> SUFFICES ASSUME TypeInv, GroundedInv PROVE CheckpointsRestOnSession
      OBVIOUS
    <2>1. ASSUME NEW p \in Planes, NEW t \in Threads
          PROVE  Grounded(saver[SaverKey(p, t)], performed[RuntimeOf[p]], memory)
      <3>1. SaverKey(p, t) \in Runtimes \X Threads /\ SaverKey(p, t)[1] = RuntimeOf[p]
        BY SharedPlaneAssumption DEF SaverKey
      <3> QED
        BY <3>1 DEF GroundedInv
    <2>2. ASSUME NEW c \in Callers, Inside(c)
          PROVE  call[c].at.receipts \subseteq performed[RuntimeOf[call[c].plane]]
      BY <2>2 DEF Inside, GroundedInv, Grounded
    <2> QED
      BY <2>1, <2>2 DEF CheckpointsRestOnSession, Grounded
  <1> QED
    BY <1>1, GroundedAlways, PTL

\* The experience of a successful run is in the store, also when the store
\* refused the run's own record in favour of an equal one with another clock.
THEOREM SuccessIsRemembered == Spec => []DoneIsRemembered
  <1>1. TypeInv /\ GroundedInv => DoneIsRemembered
    BY DEF DoneIsRemembered, GroundedInv, Grounded, TypeInv, TypeOK
  <1> QED
    BY <1>1, GroundedAlways, PTL

=============================================================================
