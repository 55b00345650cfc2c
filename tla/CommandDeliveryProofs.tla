------------------------ MODULE CommandDeliveryProofs ------------------------
(* Proofs about CommandDelivery, for all Ids, Pulls, MaxAttempts, MaxFaults. *)
EXTENDS CommandDelivery, TLAPS

(***************************************************************************)
(* The strengthening.  What bounds the runs is neither the counters nor    *)
(* the delivered flag alone: an abandoned handler moves both.  It is the   *)
(* pledge, the runs made plus the one the batch still holds, compared with *)
(* the counter at each stage of the one handler the agent waits for.       *)
(***************************************************************************)
LoopShape ==
    /\ mode = "pulling" <=> awaits # NoPull
    /\ mode \in {"idle", "pulling"} => batch = {}

HandlerShape ==
    \A h \in Pulls : stage[h] \in {"none", "requested"} => selected[h] = {}

AcksEarned == acks \subseteq succeeded

Pledge(i) == runs[i] + (IF i \in batch THEN 1 ELSE 0)

PledgeBound ==
    \A i \in Ids :
        /\ Pledge(i) <= attempts[i] + faults
        /\ Pledge(i) <= MaxAttempts + faults
        /\ i \notin delivered => Pledge(i) < MaxAttempts + faults

AwaitedBound ==
    awaits # NoPull =>
        \A i \in selected[awaits] :
            /\ runs[i] < MaxAttempts + faults
            /\ stage[awaits] \in {"counted", "done"} => runs[i] < attempts[i] + faults
            /\ stage[awaits] = "done" /\ i \notin delivered =>
                   runs[i] + 1 < MaxAttempts + faults

IInv ==
    /\ TypeOK
    /\ LoopShape
    /\ HandlerShape
    /\ AcksEarned
    /\ DeliveredAccounted
    /\ PledgeBound
    /\ AwaitedBound

-----------------------------------------------------------------------------
(* The variables keep their types.                                          *)

\* The installed state, an empty queue and an idle agent, is of the right types.
LEMMA TypeInit == Init => TypeOK
  BY IdsAssumption, BoundsAssumption DEF Init, TypeOK, Stages, Modes

\* A step of a pull handler keeps every variable in its type.
LEMMA TypeHandler ==
  ASSUME TypeOK, NEW h \in Pulls, HandlerStep(h)
  PROVE  TypeOK'
  <1> USE BoundsAssumption DEF TypeOK, Stages, Modes, rowVars, agentVars, histVars, pullVars
  <1>1. CASE Select(h)
    BY <1>1 DEF Select, Read, Pending
  <1>2. CASE SelectFails(h)
    BY <1>2 DEF SelectFails, Read, MayFault
  <1>3. CASE Count(h)
    BY <1>3 DEF Count
  <1>4. CASE ForceDeliver(h)
    BY <1>4 DEF ForceDeliver, Exhausted
  <1>5. CASE MarkFails(h)
    BY <1>5 DEF MarkFails, MayFault
  <1>6. CASE Answer(h)
    BY <1>6 DEF Answer, EndPull
  <1>7. CASE LosePull(h)
    BY <1>7 DEF LosePull, EndPull
  <1>8. CASE CrashPull(h)
    BY <1>8 DEF CrashPull, EndPull, MayFault
  <1> QED
    BY <1>1, <1>2, <1>3, <1>4, <1>5, <1>6, <1>7, <1>8 DEF HandlerStep

\* So does the run of a command, whatever its outcome.
LEMMA TypeRun ==
  ASSUME TypeOK, NEW i \in Ids, RunStep(i)
  PROVE  TypeOK'
  <1> USE BoundsAssumption DEF TypeOK, Stages, Modes, rowVars, agentVars, histVars, pullVars, Start, Continue
  <1>1. CASE Succeed(i)
    BY <1>1 DEF Succeed
  <1>2. CASE Fail(i)
    BY <1>2 DEF Fail
  <1>3. CASE ExitInside(i)
    BY <1>3 DEF ExitInside
  <1> QED
    BY <1>1, <1>2, <1>3 DEF RunStep

\* Every step of the master, the network or the agent keeps the types.
LEMMA TypeStep == TypeOK /\ [Next]_vars => TypeOK'
  <1> SUFFICES ASSUME TypeOK, [Next]_vars PROVE TypeOK'
    OBVIOUS
  <1> USE BoundsAssumption DEF TypeOK, Stages, Modes, rowVars, agentVars, histVars, pullVars
  <1>1. CASE UNCHANGED vars
    BY <1>1 DEF vars
  <1>2. ASSUME NEW i \in Ids, Enqueue(i) PROVE TypeOK'
    BY <1>2 DEF Enqueue
  <1>3. ASSUME NEW i \in Ids, RunStep(i) PROVE TypeOK'
    BY <1>3, TypeRun
  <1>4. ASSUME NEW i \in Ids, ApplyAck(i) PROVE TypeOK'
    BY <1>4 DEF ApplyAck
  <1>5. ASSUME NEW i \in Ids, LoseAck(i) PROVE TypeOK'
    BY <1>5 DEF LoseAck
  <1>6. ASSUME NEW h \in Pulls, HandlerStep(h) PROVE TypeOK'
    BY <1>6, TypeHandler
  <1>7. ASSUME NEW h \in Pulls, Pull(h) PROVE TypeOK'
    BY <1>7 DEF Pull
  <1>8. CASE PullFails
    BY <1>8 DEF PullFails
  <1>9. CASE AckReturns
    BY <1>9 DEF AckReturns, Continue
  <1>10. CASE AgentCrash
    BY <1>10 DEF AgentCrash
  <1> QED
    BY <1>1, <1>2, <1>3, <1>4, <1>5, <1>6, <1>7, <1>8, <1>9, <1>10 DEF Next

\* Every variable of the delivery protocol keeps its type.
THEOREM TypeCorrect == Spec => []TypeOK
  BY TypeInit, TypeStep, PTL DEF Spec

-----------------------------------------------------------------------------
(* The inductive invariant, one lemma per group of actions.                 *)

\* With an empty queue nothing is pledged.
LEMMA InvInit == Init => IInv
  <1> SUFFICES ASSUME Init PROVE IInv
    OBVIOUS
  <1>1. TypeOK
    BY TypeInit
  <1>2. LoopShape /\ HandlerShape /\ AcksEarned /\ DeliveredAccounted /\ AwaitedBound
    BY DEF Init, LoopShape, HandlerShape, AcksEarned, DeliveredAccounted, AwaitedBound
  <1>3. PledgeBound
    <2> SUFFICES ASSUME NEW i \in Ids
                 PROVE  /\ Pledge(i) <= attempts[i] + faults
                        /\ Pledge(i) <= MaxAttempts + faults
                        /\ Pledge(i) < MaxAttempts + faults
      BY Zenon DEF PledgeBound
    <2>1. runs[i] = 0 /\ attempts[i] = 0 /\ faults = 0 /\ i \notin batch
      BY DEF Init
    <2> QED
      BY <2>1, BoundsAssumption DEF Pledge
  <1> QED
    BY <1>1, <1>2, <1>3 DEF IInv

\* A handler raises counters, delivers exhausted rows and, when the agent
\* waits for it, turns its rows into pledges.
LEMMA InvHandler ==
  ASSUME IInv, NEW h \in Pulls, HandlerStep(h)
  PROVE  IInv'
  <1> USE BoundsAssumption, PullsAssumption
      DEF rowVars, agentVars, histVars, pullVars, Stages, Modes
  <1>1. TypeOK'
    BY TypeHandler DEF IInv
  <1>2. LoopShape'
    BY DEF IInv, TypeOK, LoopShape, HandlerStep, Select, SelectFails, Read, Count, ForceDeliver,
           MarkFails, Answer, LosePull, CrashPull, EndPull
  <1>3. HandlerShape'
    BY DEF IInv, TypeOK, HandlerShape, HandlerStep, Select, SelectFails, Read, Count, ForceDeliver,
           MarkFails, Answer, LosePull, CrashPull, EndPull
  <1>4. AcksEarned'
    BY DEF IInv, AcksEarned, HandlerStep, Select, SelectFails, Read, Count, ForceDeliver,
           MarkFails, Answer, LosePull, CrashPull, EndPull
  <1>5. DeliveredAccounted'
    BY DEF IInv, TypeOK, DeliveredAccounted, HandlerStep, Select, SelectFails, Read, Count,
           ForceDeliver, Exhausted, MarkFails, Answer, LosePull, CrashPull, EndPull
  <1>6. PledgeBound' /\ AwaitedBound'
    <2> USE DEF IInv, TypeOK, LoopShape, HandlerShape, PledgeBound, Pledge, AwaitedBound
    <2>1. CASE Select(h)
      BY <2>1 DEF Select, Read, Pending
    <2>2. CASE SelectFails(h)
      BY <2>2 DEF SelectFails, Read, MayFault
    <2>3. CASE Count(h)
      BY <2>3 DEF Count
    <2>4. CASE ForceDeliver(h)
      BY <2>4 DEF ForceDeliver, Exhausted
    <2>5. CASE MarkFails(h)
      BY <2>5 DEF MarkFails, MayFault
    <2>6. CASE Answer(h)
      BY <2>6 DEF Answer, EndPull
    <2>7. CASE LosePull(h)
      BY <2>7 DEF LosePull, EndPull
    <2>8. CASE CrashPull(h)
      BY <2>8 DEF CrashPull, EndPull, MayFault
    <2> QED
      BY <2>1, <2>2, <2>3, <2>4, <2>5, <2>6, <2>7, <2>8 DEF HandlerStep
  <1> QED
    BY <1>1, <1>2, <1>3, <1>4, <1>5, <1>6 DEF IInv

\* A run turns a pledge into a run: their sum stays.
LEMMA InvRun ==
  ASSUME IInv, NEW i \in Ids, RunStep(i)
  PROVE  IInv'
  <1> USE BoundsAssumption, PullsAssumption
      DEF rowVars, agentVars, histVars, pullVars, Stages, Modes, Start, Continue
  <1>1. TypeOK'
    BY TypeRun DEF IInv
  <1>2. LoopShape' /\ HandlerShape' /\ AcksEarned' /\ DeliveredAccounted'
    BY DEF IInv, TypeOK, LoopShape, HandlerShape, AcksEarned, DeliveredAccounted,
           RunStep, Succeed, Fail, ExitInside
  <1>3. awaits = NoPull /\ awaits' = NoPull
    BY DEF IInv, LoopShape, RunStep, Succeed, Fail, ExitInside
  <1>4. PledgeBound'
    BY DEF IInv, TypeOK, PledgeBound, Pledge, RunStep, Succeed, Fail, ExitInside
  <1>5. AwaitedBound'
    BY <1>3 DEF AwaitedBound
  <1> QED
    BY <1>1, <1>2, <1>4, <1>5 DEF IInv

\* Every step keeps the bound of the pledges: the steps outside the handlers
\* and the runs only drop pledges or deliver commands that succeeded.
LEMMA InvStep == IInv /\ [Next]_vars => IInv'
  <1> SUFFICES ASSUME IInv, [Next]_vars PROVE IInv'
    OBVIOUS
  <1> USE BoundsAssumption, PullsAssumption
      DEF IInv, LoopShape, HandlerShape, AcksEarned, DeliveredAccounted, PledgeBound, Pledge,
          AwaitedBound, rowVars, agentVars, histVars, pullVars, Stages, Modes
  <1>0. TypeOK'
    BY TypeStep
  <1>1. CASE UNCHANGED vars
    BY <1>0, <1>1 DEF vars
  <1>2. ASSUME NEW i \in Ids, Enqueue(i) PROVE IInv'
    BY <1>0, <1>2 DEF Enqueue, TypeOK
  <1>3. ASSUME NEW i \in Ids, RunStep(i) PROVE IInv'
    BY <1>3, InvRun
  <1>4. ASSUME NEW i \in Ids, ApplyAck(i) PROVE IInv'
    BY <1>0, <1>4 DEF ApplyAck, TypeOK
  <1>5. ASSUME NEW i \in Ids, LoseAck(i) PROVE IInv'
    BY <1>0, <1>5 DEF LoseAck, TypeOK
  <1>6. ASSUME NEW h \in Pulls, HandlerStep(h) PROVE IInv'
    BY <1>6, InvHandler
  <1>7. ASSUME NEW h \in Pulls, Pull(h) PROVE IInv'
    BY <1>0, <1>7 DEF Pull, TypeOK
  <1>8. CASE PullFails
    BY <1>0, <1>8 DEF PullFails, TypeOK
  <1>9. CASE AckReturns
    BY <1>0, <1>9 DEF AckReturns, Continue, TypeOK
  <1>10. CASE AgentCrash
    BY <1>0, <1>10 DEF AgentCrash, TypeOK
  <1> QED
    BY <1>1, <1>2, <1>3, <1>4, <1>5, <1>6, <1>7, <1>8, <1>9, <1>10 DEF Next

\* The strengthened invariant holds of every reachable state of the queue.
THEOREM InvCorrect == Spec => []IInv
  BY InvInit, InvStep, PTL DEF Spec

\* A row is marked delivered only on evidence.
THEOREM DeliveredOnEvidence == Spec => []DeliveredAccounted
  <1>1. IInv => DeliveredAccounted
    BY DEF IInv
  <1> QED
    BY <1>1, InvCorrect, PTL

\* No command runs more than MaxAttempts times plus the faults met.
THEOREM ExecutionsAreBounded == Spec => []BoundedExecutions
  <1>1. IInv => BoundedExecutions
    <2> SUFFICES ASSUME IInv, NEW i \in Ids PROVE runs[i] <= MaxAttempts + faults
      BY DEF BoundedExecutions
    <2> QED
      BY BoundsAssumption DEF IInv, TypeOK, PledgeBound, Pledge
  <1> QED
    BY <1>1, InvCorrect, PTL

-----------------------------------------------------------------------------
(* What holds from one state to the next.                                   *)

\* A delivered command without a copy on its way is over.
LEMMA SettledStep ==
  ASSUME IInv, [Next]_vars, NEW i \in Ids, Settled(i)
  PROVE  Settled(i)' /\ runs'[i] = runs[i]
  <1> USE PullsAssumption DEF IInv, TypeOK, LoopShape, HandlerShape, Settled, Lent,
          rowVars, agentVars, histVars, pullVars
  <1>1. CASE UNCHANGED vars
    BY <1>1 DEF vars
  <1>2. ASSUME NEW j \in Ids, Enqueue(j) \/ ApplyAck(j) \/ LoseAck(j)
        PROVE  Settled(i)' /\ runs'[i] = runs[i]
    BY <1>2 DEF Enqueue, ApplyAck, LoseAck
  <1>3. ASSUME NEW j \in Ids, RunStep(j) PROVE Settled(i)' /\ runs'[i] = runs[i]
    BY <1>3 DEF RunStep, Succeed, Fail, ExitInside, Start, Continue
  <1>4. ASSUME NEW h \in Pulls, HandlerStep(h) PROVE Settled(i)' /\ runs'[i] = runs[i]
    BY <1>4 DEF HandlerStep, Select, SelectFails, Read, Pending, Count, ForceDeliver,
        MarkFails, Answer, LosePull, CrashPull, EndPull
  <1>5. ASSUME NEW h \in Pulls, Pull(h) PROVE Settled(i)' /\ runs'[i] = runs[i]
    BY <1>5 DEF Pull
  <1>6. CASE PullFails \/ AckReturns \/ AgentCrash
    BY <1>6 DEF PullFails, AckReturns, AgentCrash, Continue
  <1> QED
    BY <1>1, <1>2, <1>3, <1>4, <1>5, <1>6 DEF Next

\* Settled commands stay settled and never run again.
THEOREM SettledForGood == Spec => SettledIsFinal
  <1>1. IInv /\ [Next]_vars =>
          [\A i \in Ids : Settled(i) => Settled(i)' /\ runs'[i] = runs[i]]_vars
    BY SettledStep
  <1> QED
    BY <1>1, InvCorrect, PTL DEF Spec, SettledIsFinal

\* The detailed queue keeps the abstract promise: each step of a handler or of
\* the agent is a step of CommandPromise or leaves its variables alone.
THEOREM DeliveryImplementsPromise == Spec => KeepsPromise
  <1> USE PullsAssumption, BoundsAssumption DEF Promise!promiseVars, rowVars, agentVars, histVars, pullVars
  <1>1. Init => Promise!Init
    BY DEF Init, Promise!Init, Lent
  <1>2. IInv /\ [Next]_vars => [Promise!Next]_Promise!promiseVars
    <2> SUFFICES ASSUME IInv, [Next]_vars PROVE [Promise!Next]_Promise!promiseVars
      OBVIOUS
    <2> USE DEF IInv, TypeOK, LoopShape, HandlerShape, Lent
    <2>1. CASE UNCHANGED vars
      BY <2>1 DEF vars
    <2>2. ASSUME NEW i \in Ids, Enqueue(i) PROVE Promise!Issue(i)
      BY <2>2 DEF Enqueue, Promise!Issue
    <2>3. ASSUME NEW i \in Ids, RunStep(i) PROVE Promise!Use(i)
      <3>1. runs[i] < MaxAttempts + MaxFaults
        BY <2>3 DEF RunStep, Succeed, Fail, ExitInside, Start, PledgeBound, Pledge
      <3>2. awaits = NoPull
        BY <2>3 DEF RunStep, Succeed, Fail, ExitInside, Start
      <3> QED
        BY <2>3, <3>1, <3>2 DEF RunStep, Succeed, Fail, ExitInside, Start, Promise!Use
    <2>4. ASSUME NEW i \in Ids, ApplyAck(i) PROVE Promise!Close
      BY <2>4 DEF ApplyAck, Promise!Close
    <2>5. ASSUME NEW i \in Ids, LoseAck(i) PROVE UNCHANGED Promise!promiseVars
      BY <2>5 DEF LoseAck
    <2>6. ASSUME NEW h \in Pulls, HandlerStep(h) PROVE [Promise!Next]_Promise!promiseVars
      <3>1. CASE Select(h) \/ SelectFails(h)
        BY <2>6, <3>1 DEF Select, SelectFails, Read, Pending, MayFault, Promise!Next, Promise!Lend
      <3>2. CASE Count(h) \/ MarkFails(h)
        BY <3>2 DEF Count, MarkFails
      <3>3. CASE ForceDeliver(h)
        <4>1. Promise!Close
          BY <3>3 DEF ForceDeliver, Exhausted, Promise!Close
        <4> QED
          BY <4>1 DEF Promise!Next
      <3>4. CASE Answer(h)
        BY <3>4 DEF Answer, EndPull
      <3>5. CASE LosePull(h) \/ CrashPull(h)
        BY <3>5 DEF LosePull, CrashPull, EndPull, Promise!Next, Promise!Lapse
      <3> QED
        BY <2>6, <3>1, <3>2, <3>3, <3>4, <3>5 DEF HandlerStep
    <2>7. ASSUME NEW h \in Pulls, Pull(h) PROVE UNCHANGED Promise!promiseVars
      BY <2>7 DEF Pull
    <2>8. CASE AckReturns
      BY <2>8 DEF AckReturns
    <2>9. CASE PullFails \/ AgentCrash
      <3>1. Promise!Lapse
        BY <2>9 DEF PullFails, AgentCrash, Promise!Lapse
      <3> QED
        BY <3>1 DEF Promise!Next
    <2> QED
      BY <2>1, <2>2, <2>3, <2>4, <2>5, <2>6, <2>7, <2>8, <2>9 DEF Next, Promise!Next
  <1> QED
    BY <1>1, <1>2, InvCorrect, PTL DEF Spec, KeepsPromise, Promise!Spec
=============================================================================
