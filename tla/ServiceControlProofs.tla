-------------------------- MODULE ServiceControlProofs --------------------------
(* Proofs about ServiceControl, for every bound.                              *)
EXTENDS ServiceControl, TLAPS

(***************************************************************************)
(* The strengthening: a refusal under way always has a cause.  The flag is *)
(* read long before the service is stopped, so it is not the flag but the  *)
(* record of who was in flight while it was down that carries the claim.   *)
(***************************************************************************)
FlightRecorded == \A t \in Threads : phase[t] \in InFlight /\ ~enabled => t \in cause

RefusalsHaveCause ==
    \A t \in Threads :
        answer[t] = "disabled" => phase[t] \in InFlight /\ t \in cause

\* What bounds the queue is what was used up of its bound.
Counted == orders <= used["orders"] /\ used["orders"] <= MaxOrders

IInv ==
    /\ TypeOK
    /\ Counted
    /\ FlightRecorded
    /\ RefusalsHaveCause

-----------------------------------------------------------------------------
(* One lemma per group of actions.                                          *)

\* A freshly installed agent has sent nothing and been refused nothing.
LEMMA InvInit == Init => IInv
  BY BoundsAssumption
     DEF Init, IInv, TypeOK, Counted, FlightRecorded, RefusalsHaveCause, Threads, Phases, InFlight, Numbers, Bounds

\* The administrator and the environment keep the types and the counts.
LEMMA TypeOutside ==
  ASSUME TypeOK, Counted,
         \/ Disable \/ Enable \/ OrderRestart \/ Delete \/ Publish
         \/ LinkChanges \/ GraceElapses \/ AgentRestart \/ Reboot
  PROVE  TypeOK' /\ Counted'
  <1> USE BoundsAssumption
      DEF TypeOK, Counted, Threads, Phases, Numbers, Bounds, masterVars, localVars, answerVars, Spend
  <1>1. CASE Disable
    BY <1>1 DEF Disable
  <1>2. CASE Enable
    BY <1>2 DEF Enable
  <1>3. CASE OrderRestart
    BY <1>3 DEF Limit, OrderRestart
  <1>4. CASE Delete
    <2>1. orders' = 0 /\ orders' \in 0..MaxOrders /\ Counted'
      BY <1>4 DEF Delete
    <2>2. TypeOK'
      BY <1>4, <2>1 DEF Delete
    <2> QED
      BY <2>1, <2>2
  <1>5. CASE Publish
    <2>1. used' \in [Bounds -> Nat] /\ latest' \in Numbers /\ Counted'
      BY <1>5 DEF Limit, Publish
    <2>2. TypeOK'
      BY <1>5, <2>1 DEF Publish
    <2> QED
      BY <2>1, <2>2
  <1>6. CASE LinkChanges
    BY <1>6 DEF LinkChanges
  <1>7. CASE GraceElapses
    BY <1>7 DEF GraceElapses
  <1>8. CASE AgentRestart
    BY <1>8 DEF Limit, AgentRestart, NewProcess, LeaveVersion, RestartService
  <1>9. CASE Reboot
    BY <1>9 DEF Limit, Reboot, NewProcess, LeaveVersion
  <1> QED
    BY <1>1, <1>2, <1>3, <1>4, <1>5, <1>6, <1>7, <1>8, <1>9

\* They keep the causes: Disable records who is in flight.
LEMMA CauseOutside ==
  ASSUME TypeOK, FlightRecorded, RefusalsHaveCause,
         \/ Disable \/ Enable \/ OrderRestart \/ Delete \/ Publish
         \/ LinkChanges \/ GraceElapses \/ AgentRestart \/ Reboot
  PROVE  FlightRecorded' /\ RefusalsHaveCause'
  <1> USE DEF TypeOK, FlightRecorded, RefusalsHaveCause, Threads, Phases, InFlight,
          masterVars, localVars, answerVars
  <1>1. CASE Disable
    BY <1>1 DEF Disable
  <1>2. CASE Enable
    BY <1>2 DEF Enable
  <1>3. CASE OrderRestart
    BY <1>3 DEF OrderRestart
  <1>4. CASE Delete
    BY <1>4 DEF Delete
  <1>5. CASE Publish
    BY <1>5 DEF Publish
  <1>6. CASE LinkChanges
    BY <1>6 DEF LinkChanges
  <1>7. CASE GraceElapses
    BY <1>7 DEF GraceElapses
  <1>8. CASE AgentRestart
    BY <1>8 DEF AgentRestart, NewProcess
  <1>9. CASE Reboot
    BY <1>9 DEF Reboot, NewProcess
  <1> QED
    BY <1>1, <1>2, <1>3, <1>4, <1>5, <1>6, <1>7, <1>8, <1>9

\* The thread that goes back to rest keeps the types of what it held.
LEMMA TypeRest ==
  ASSUME TypeOK, NEW t \in Threads, Rest(t)
  PROVE  /\ phase' \in [Threads -> Phases]
         /\ answer' \in [Threads -> {"none", "disabled", "enabled"}]
         /\ named' \in [Threads -> Numbers]
         /\ seen' \in [Threads -> Numbers]
         /\ cause' \subseteq Threads
  BY BoundsAssumption DEF Rest, Become, TypeOK, Threads, Phases, Numbers

\* Stopping the service spends at most a fault.
LEMMA TypeStop ==
  ASSUME TypeOK, Counted, StopService \/ UNCHANGED <<service, used>>, orders' = orders
  PROVE  service' \in {"running", "stopped", "failed"} /\ used' \in [Bounds -> Nat] /\ Counted'
  BY DEF TypeOK, Counted, Bounds, StopService, Spend, Limit

\* The heartbeats keep the types and the counts.
LEMMA TypeHeartbeat ==
  ASSUME TypeOK, Counted, NEW t \in Threads, Heartbeat(t)
  PROVE  TypeOK' /\ Counted'
  <1> USE BoundsAssumption DEF TypeOK, Counted, Phases, Numbers, Bounds, masterVars, localVars, answerVars
  <1>1. CASE Send(t)
    BY <1>1 DEF Send, Become
  <1>2. CASE Serve(t)
    BY <1>2 DEF Serve, Become
  <1>3. CASE Receive(t)
    BY <1>3 DEF Receive, Become
  <1>4. CASE HeartbeatFails(t)
    <2>1. used' \in [Bounds -> Nat] /\ Counted'
      BY <1>4 DEF HeartbeatFails, Spend, Limit
    <2> QED
      BY <1>4, <2>1 DEF HeartbeatFails, Become
  <1>5. CASE HandleFailure(t)
    <2>1. /\ Rest(t) /\ UNCHANGED <<masterVars, current, known, success>>
          /\ StopService \/ UNCHANGED <<service, used>>
      BY <1>5 DEF HandleFailure
    <2> QED
      BY <2>1, TypeRest, TypeStop
  <1>6. CASE HandleDisabled(t)
    <2>1. Rest(t) /\ StopService /\ UNCHANGED <<masterVars, current, known, success>>
      BY <1>6 DEF HandleDisabled
    <2> QED
      BY <2>1, TypeRest, TypeStop
  <1>7. CASE HandleEnabled(t)
    <2>1. CASE named[t] > known
      BY <1>7, <2>1 DEF HandleEnabled, Become
    <2>2. CASE ~(named[t] > known)
      <3>1. Rest(t) /\ UNCHANGED <<masterVars, localVars, success, used>>
        BY <1>7, <2>2 DEF HandleEnabled
      <3> QED
        BY <3>1, TypeRest
    <2> QED
      BY <2>1, <2>2
  <1>8. CASE SelfUpdateFails(t)
    <2>1. Rest(t) /\ UNCHANGED <<masterVars, localVars, success>>
      BY <1>8 DEF SelfUpdateFails
    <2>2. used' \in [Bounds -> Nat] /\ Counted'
      BY <1>8 DEF SelfUpdateFails, Spend, Limit
    <2> QED
      BY <2>1, <2>2, TypeRest
  <1>9. CASE FinishUpdate(t)
    <2>1. Rest(t) /\ UNCHANGED <<masterVars, success>>
      BY <1>9 DEF FinishUpdate
    <2>2. used' \in [Bounds -> Nat] /\ Counted'
      BY <1>9 DEF FinishUpdate, Spend, Limit
    <2>3. current' \in Numbers /\ known' \in Numbers /\ service' \in {"running", "stopped", "failed"}
      BY <1>9 DEF FinishUpdate, RestartService
    <2> QED
      BY <2>1, <2>2, <2>3, TypeRest
  <1> QED
    BY <1>1, <1>2, <1>3, <1>4, <1>5, <1>6, <1>7, <1>8, <1>9 DEF Heartbeat

\* They keep the causes: Send records a flag that is down, Serve refuses only then.
LEMMA CauseHeartbeat ==
  ASSUME TypeOK, FlightRecorded, RefusalsHaveCause, NEW t \in Threads, Heartbeat(t)
  PROVE  FlightRecorded' /\ RefusalsHaveCause'
  <1> USE DEF TypeOK, FlightRecorded, RefusalsHaveCause, Threads, Phases, InFlight,
          masterVars, localVars, answerVars, Become, Rest
  <1>1. CASE Send(t)
    BY <1>1 DEF Send
  <1>2. CASE Serve(t)
    BY <1>2 DEF Serve
  <1>3. CASE Receive(t)
    BY <1>3 DEF Receive
  <1>4. CASE HeartbeatFails(t)
    BY <1>4 DEF HeartbeatFails
  <1>5. CASE HandleFailure(t)
    BY <1>5 DEF HandleFailure, StopService
  <1>6. CASE HandleDisabled(t)
    BY <1>6 DEF HandleDisabled, StopService
  <1>7. CASE HandleEnabled(t)
    BY <1>7 DEF HandleEnabled
  <1>8. CASE SelfUpdateFails(t)
    BY <1>8 DEF SelfUpdateFails
  <1>9. CASE FinishUpdate(t)
    BY <1>9 DEF FinishUpdate, RestartService
  <1> QED
    BY <1>1, <1>2, <1>3, <1>4, <1>5, <1>6, <1>7, <1>8, <1>9 DEF Heartbeat

\* Every step, restart commands included, keeps the invariant.
LEMMA InvStep == IInv /\ [Next]_vars => IInv'
  <1> SUFFICES ASSUME IInv, [Next]_vars PROVE IInv'
    OBVIOUS
  <1> USE DEF IInv
  <1>1. CASE UNCHANGED vars
    BY <1>1 DEF vars, TypeOK, Counted, FlightRecorded, RefusalsHaveCause, masterVars, localVars, answerVars
  <1>2. CASE \/ Disable \/ Enable \/ OrderRestart \/ Delete \/ Publish
             \/ LinkChanges \/ GraceElapses \/ AgentRestart \/ Reboot
    BY <1>2, TypeOutside, CauseOutside
  <1>3. ASSUME NEW t \in Threads, Heartbeat(t) PROVE IInv'
    BY <1>3, TypeHeartbeat, CauseHeartbeat
  <1>4. CASE PullOrder \/ RunOrder
    <2> USE DEF PullOrder, RunOrder, RestartService, Become, TypeOK, Counted, Threads, Phases,
            masterVars, localVars, answerVars
    <2>1. TypeOK' /\ Counted'
      <3>1. orders' \in 0..MaxOrders /\ Counted'
        BY <1>4, BoundsAssumption DEF Numbers, Bounds, Limit, Spend
      <3>2. used' \in [Bounds -> Nat]
        BY <1>4 DEF Bounds, Spend
      <3>3. TypeOK'
        BY <1>4, <3>1, <3>2
      <3> QED
        BY <3>1, <3>3
    <2>2. FlightRecorded' /\ RefusalsHaveCause'
      BY <1>4 DEF PullOrder, RunOrder, Become, TypeOK, FlightRecorded, RefusalsHaveCause,
                  Threads, InFlight, masterVars, localVars, answerVars
    <2> QED
      BY <2>1, <2>2
  <1> QED
    BY <1>1, <1>2, <1>3, <1>4 DEF Next, Loop, Threads

\* The strengthened invariant holds of every reachable state.
THEOREM InvCorrect == Spec => []IInv
  BY InvInit, InvStep, PTL DEF Spec

\* Every variable of the remote control keeps its type.
THEOREM TypeCorrect == Spec => []TypeOK
  <1>1. IInv => TypeOK
    BY DEF IInv
  <1> QED
    BY <1>1, InvCorrect, PTL

-----------------------------------------------------------------------------
(* Who stops the service.                                                   *)

\* A step that stops the service is a refusal with a cause or the grace period.
LEMMA StopStep ==
  ASSUME IInv, Next, service # "stopped", service' = "stopped"
  PROVE  \E t \in Threads : \/ phase[t] = "received" /\ t \in cause
                            \/ phase[t] = "failed" /\ success = "over"
  <1> USE DEF masterVars, localVars, answerVars
  <1>1. ASSUME NEW t \in Threads, HandleFailure(t)
        PROVE  phase[t] = "failed" /\ success = "over"
    BY <1>1 DEF HandleFailure, StopService
  <1>2. ASSUME NEW t \in Threads, HandleDisabled(t)
        PROVE  phase[t] = "received" /\ t \in cause
    BY <1>2 DEF HandleDisabled, IInv, RefusalsHaveCause
  <1>3. ASSUME NEW t \in Threads, Heartbeat(t)
        PROVE  HandleFailure(t) \/ HandleDisabled(t)
    BY <1>3 DEF Heartbeat, Send, Serve, Receive, HeartbeatFails, HandleEnabled,
        SelfUpdateFails, FinishUpdate, RestartService
  <1>4. \E t \in Threads : Heartbeat(t)
    BY DEF Next, Loop, Threads, Disable, Enable, OrderRestart, Delete, Publish, LinkChanges,
        GraceElapses, AgentRestart, Reboot, NewProcess, PullOrder, RunOrder, RestartService
  <1> QED
    BY <1>1, <1>2, <1>3, <1>4

\* The service is stopped only for cause: no interleaving of the two heartbeat
\* threads, restarts, failed updates and flag changes stops it otherwise.
THEOREM ServiceStoppedForCause == Spec => StopsOnlyForCause
  <1>1. IInv /\ [Next]_vars =>
          [service # "stopped" /\ service' = "stopped" =>
             \E t \in Threads : \/ phase[t] = "received" /\ t \in cause
                                \/ phase[t] = "failed" /\ success = "over"]_vars
    BY StopStep
  <1> QED
    BY <1>1, InvCorrect, PTL DEF Spec, StopsOnlyForCause
=============================================================================
