--------------------------- MODULE CommandDelivery ---------------------------
(***************************************************************************)
(* Delivery of the remote commands of one customer: rows of the table      *)
(* notifications on the master, the handlers of GET /notifications and of  *)
(* POST /notifications/ack, and the agent's command loop.                  *)
(*                                                                         *)
(* The agent pulls every undelivered row, runs the batch in id order and   *)
(* acknowledges each row that ran.  The master counts the pull in the row  *)
(* and, after MaxAttempts of them, marks the row delivered on its own.     *)
(* The three statements of the pull handler are separate transactions; the *)
(* HTTP client gives up after 15 s while the handler goes on, so handlers  *)
(* of successive pulls overlap; requests, answers and acks get lost; the   *)
(* agent may die anywhere.                                                 *)
(***************************************************************************)
EXTENDS Naturals

CONSTANTS
    Ids,          \* ids of the rows; the agent runs a batch in their order
    Kind,         \* Kind[i]: the type of row i
    Pulls,        \* the pull handlers that may be running at a time (bound)
    NoPull,       \* the agent waits for no pull handler
    MaxAttempts,  \* maxNotificationAttempts, 3 in the code
    MaxFaults     \* failed statements of, and crashes inside, pull handlers (bound)

Kinds == {"restart_service", "force_update", "fetch_logs", "manual"}

ASSUME IdsAssumption == Ids \subseteq Nat
ASSUME KindAssumption == Kind \in [Ids -> Kinds]
ASSUME PullsAssumption == NoPull \notin Pulls
ASSUME BoundsAssumption == MaxAttempts \in Nat \ {0} /\ MaxFaults \in Nat

VARIABLES
    queued,       \* rows inserted by the bot
    attempts,     \* attempts[i]: the row's counter
    delivered,    \* rows with delivered = true
    stage,        \* stage[h]: how far pull handler h is
    selected,     \* selected[h]: the ids handler h read
    faults,       \* faults met so far
    mode,         \* what the agent's loop does
    awaits,       \* the pull handler whose answer the agent waits for
    batch,        \* commands pulled and not yet run
    acks,         \* ack requests under way
    runs,         \* runs[i]: how often command i was started
    succeeded     \* commands handleOneNotification returned true for

rowVars   == <<queued, attempts, delivered>>
pullVars  == <<stage, selected>>
agentVars == <<mode, awaits, batch>>
histVars  == <<runs, succeeded>>
vars == <<rowVars, pullVars, faults, agentVars, acks, histVars>>

Stages == {"none", "requested", "read", "counted", "done"}
Modes  == {"idle", "pulling", "running", "acking"}

TypeOK ==
    /\ queued \subseteq Ids
    /\ attempts \in [Ids -> Nat]
    /\ delivered \subseteq queued
    /\ stage \in [Pulls -> Stages]
    /\ selected \in [Pulls -> SUBSET queued]
    /\ faults \in 0..MaxFaults
    /\ mode \in Modes
    /\ awaits \in Pulls \cup {NoPull}
    /\ batch \subseteq queued
    /\ acks \subseteq queued
    /\ runs \in [Ids -> Nat]
    /\ succeeded \subseteq queued

Init ==
    /\ queued = {}
    /\ attempts = [i \in Ids |-> 0]
    /\ delivered = {}
    /\ stage = [h \in Pulls |-> "none"]
    /\ selected = [h \in Pulls |-> {}]
    /\ faults = 0
    /\ mode = "idle"
    /\ awaits = NoPull
    /\ batch = {}
    /\ acks = {}
    /\ runs = [i \in Ids |-> 0]
    /\ succeeded = {}

-----------------------------------------------------------------------------
(* The bot inserts a row: one customer's command or one row of a broadcast. *)

Enqueue(i) ==
    /\ i \notin queued
    /\ queued' = queued \cup {i}
    /\ UNCHANGED <<attempts, delivered, pullVars, faults, agentVars, acks, histVars>>

-----------------------------------------------------------------------------
(* Pull handlers of the master.  Every error they meet is discarded.        *)

\* The slips below are what the properties must catch: the query without its
\* customer, or without delivered = false.
PendingOfAnyone == Ids \ delivered
PendingDelivered == queued

Pending == queued \ delivered

MayFault == faults < MaxFaults /\ faults' = faults + 1

\* PendingNotifications; with no row MarkAttempted returns at once.
Read(h, rows) ==
    /\ stage[h] = "requested"
    /\ selected' = [selected EXCEPT ![h] = rows]
    /\ stage' = [stage EXCEPT ![h] = IF rows = {} THEN "done" ELSE "read"]
    /\ UNCHANGED <<rowVars, agentVars, acks, histVars>>

Select(h) == Read(h, Pending) /\ UNCHANGED faults

SelectFails(h) == MayFault /\ Read(h, {})

\* Slip: the counter is not written.
CountNothing(h) ==
    /\ stage[h] = "read"
    /\ stage' = [stage EXCEPT ![h] = "counted"]
    /\ UNCHANGED <<rowVars, selected, faults, agentVars, acks, histVars>>

\* First UPDATE of MarkAttempted, by id only: it also counts rows that were
\* delivered since this handler read them.
Count(h) ==
    /\ stage[h] = "read"
    /\ attempts' = [i \in Ids |-> attempts[i] + (IF i \in selected[h] THEN 1 ELSE 0)]
    /\ stage' = [stage EXCEPT ![h] = "counted"]
    /\ UNCHANGED <<queued, delivered, selected, faults, agentVars, acks, histVars>>

\* Slips: one attempt too early, one too late.
ExhaustedEarly(S) == {i \in S : attempts[i] + 1 >= MaxAttempts}
ExhaustedLate(S) == {i \in S : attempts[i] > MaxAttempts}

\* Second UPDATE of MarkAttempted, on the counters as they are now.
Exhausted(S) == {i \in S : attempts[i] >= MaxAttempts}

ForceDeliver(h) ==
    /\ stage[h] = "counted"
    /\ delivered' = delivered \cup Exhausted(selected[h])
    /\ stage' = [stage EXCEPT ![h] = "done"]
    /\ UNCHANGED <<queued, attempts, selected, faults, agentVars, acks, histVars>>

\* Either UPDATE fails: MarkAttempted returns and the rows are answered anyway.
MarkFails(h) ==
    /\ MayFault
    /\ stage[h] \in {"read", "counted"}
    /\ stage' = [stage EXCEPT ![h] = "done"]
    /\ UNCHANGED <<rowVars, selected, agentVars, acks, histVars>>

EndPull(h) ==
    /\ stage' = [stage EXCEPT ![h] = "none"]
    /\ selected' = [selected EXCEPT ![h] = {}]

\* The answer; one nobody waits for any more is dropped.
Answer(h) ==
    /\ stage[h] = "done"
    /\ EndPull(h)
    /\ IF awaits = h
       THEN /\ batch' = selected[h]
            /\ mode' = IF selected[h] = {} THEN "idle" ELSE "running"
            /\ awaits' = NoPull
       ELSE UNCHANGED <<batch, mode, awaits>>
    /\ UNCHANGED <<rowVars, faults, acks, histVars>>

\* The request (or its authentication) or the answer is lost.
LosePull(h) ==
    /\ stage[h] \in {"requested", "done"}
    /\ EndPull(h)
    /\ UNCHANGED <<rowVars, faults, agentVars, acks, histVars>>

\* The master goes down inside the handler.
CrashPull(h) ==
    /\ MayFault
    /\ stage[h] \in {"read", "counted"}
    /\ EndPull(h)
    /\ UNCHANGED <<rowVars, agentVars, acks, histVars>>

-----------------------------------------------------------------------------
(* The agent.                                                               *)

\* commandTick: pullNotifications sends GET /notifications.
Pull(h) ==
    /\ mode = "idle"
    /\ stage[h] = "none"
    /\ stage' = [stage EXCEPT ![h] = "requested"]
    /\ mode' = "pulling"
    /\ awaits' = h
    /\ UNCHANGED <<rowVars, selected, faults, batch, acks, histVars>>

\* The HTTP client times out or the connection breaks.
PullFails ==
    /\ mode = "pulling"
    /\ mode' = "idle"
    /\ awaits' = NoPull
    /\ UNCHANGED <<rowVars, pullVars, faults, batch, acks, histVars>>

\* The command at the head of the batch starts.
Start(i) ==
    /\ mode = "running"
    /\ i \in batch
    /\ \A j \in batch : i <= j
    /\ runs' = [runs EXCEPT ![i] = @ + 1]

Continue(rest) == IF rest = {} THEN "idle" ELSE "running"

\* handleOneNotification returns true and the ack is sent.
Succeed(i) ==
    /\ Start(i)
    /\ batch' = batch \ {i}
    /\ succeeded' = succeeded \cup {i}
    /\ mode' = "acking"
    /\ acks' = acks \cup {i}
    /\ UNCHANGED <<rowVars, pullVars, faults, awaits>>

\* It returns false: no ack.  The event that a failed restart reports is for the
\* alerter and changes nothing here.
Fail(i) ==
    /\ Start(i)
    /\ batch' = batch \ {i}
    /\ mode' = Continue(batch')
    /\ UNCHANGED <<rowVars, pullVars, faults, awaits, acks, succeeded>>

\* A forced update whose heartbeat answer asks for a newer agent: the process
\* exits inside the command; the rest of the batch goes with it.
ExitInside(i) ==
    /\ Kind[i] = "force_update"
    /\ Start(i)
    /\ batch' = {}
    /\ mode' = "idle"
    /\ UNCHANGED <<rowVars, pullVars, faults, awaits, acks, succeeded>>

\* The answer to the ack, or an error: it is only logged.
AckReturns ==
    /\ mode = "acking"
    /\ mode' = Continue(batch)
    /\ UNCHANGED <<rowVars, pullVars, faults, awaits, batch, acks, histVars>>

\* The agent process dies and is restarted by systemd.
AgentCrash ==
    /\ mode # "idle"
    /\ mode' = "idle"
    /\ awaits' = NoPull
    /\ batch' = {}
    /\ UNCHANGED <<rowVars, pullVars, faults, acks, histVars>>

-----------------------------------------------------------------------------
(* The ack handler of the master.                                           *)

ApplyAck(i) ==
    /\ i \in acks
    /\ delivered' = delivered \cup {i}
    /\ acks' = acks \ {i}
    /\ UNCHANGED <<queued, attempts, pullVars, faults, agentVars, histVars>>

\* Lost on the way, refused by Auth, or its UPDATE fails (500).
LoseAck(i) ==
    /\ i \in acks
    /\ acks' = acks \ {i}
    /\ UNCHANGED <<rowVars, pullVars, faults, agentVars, histVars>>

-----------------------------------------------------------------------------
HandlerStep(h) ==
    \/ Select(h) \/ SelectFails(h) \/ Count(h) \/ ForceDeliver(h) \/ MarkFails(h)
    \/ Answer(h) \/ LosePull(h) \/ CrashPull(h)

RunStep(i) == Succeed(i) \/ Fail(i) \/ ExitInside(i)

Next ==
    \/ \E i \in Ids : Enqueue(i) \/ RunStep(i) \/ ApplyAck(i) \/ LoseAck(i)
    \/ \E h \in Pulls : HandlerStep(h) \/ Pull(h)
    \/ PullFails \/ AckReturns \/ AgentCrash

HandlerGoesOn(h) == Count(h) \/ ForceDeliver(h) \/ Answer(h)

LoopGoesOn == (\E h \in Pulls : Pull(h)) \/ PullFails \/ (\E i \in Ids : RunStep(i)) \/ AckReturns

\* The ticker keeps pulling, every request times out in the end and the loop
\* leaves each command; a handler that has rows goes on; not every request is lost.
Fairness ==
    /\ \A h \in Pulls : SF_vars(Select(h)) /\ WF_vars(HandlerGoesOn(h))
    /\ WF_vars(LoopGoesOn)

Spec == Init /\ [][Next]_vars
FairSpec == Spec /\ Fairness

-----------------------------------------------------------------------------
(* Properties.                                                              *)

\* A row is marked delivered only on evidence: the agent ran it successfully,
\* or it was handed out MaxAttempts times (store.go, MarkAttempted and
\* MarkDeliveredOne, against late acks and overlapping pull handlers).
DeliveredAccounted ==
    \A i \in delivered : i \in succeeded \/ attempts[i] >= MaxAttempts

\* Without acks a command runs at most MaxAttempts times, plus one for every
\* fault of the pull handlers, whose errors agent_handler.go discards.
BoundedExecutions ==
    \A i \in Ids : runs[i] <= MaxAttempts + faults

\* Commands the agent holds or is about to receive.
Lent == batch \cup (IF awaits = NoPull THEN {} ELSE selected[awaits])

\* The queue keeps the promise of module CommandPromise: one loan at a time, of
\* open commands only, each run drawn from a loan and from a finite budget.
Promise == INSTANCE CommandPromise WITH
    Budget <- MaxAttempts + MaxFaults,
    issued <- queued, closed <- delivered, lent <- Lent, uses <- runs

KeepsPromise == Promise!Spec

\* Once a row is delivered and no copy is on its way to the agent, the command
\* is over: it never runs again, whatever abandoned handlers still answer.  The
\* promise implies it; the proofs state it by itself.
Settled(i) == i \in delivered \ Lent

SettledIsFinal ==
    [][\A i \in Ids : Settled(i) => Settled(i)' /\ runs'[i] = runs[i]]_vars

\* Again and again every queued command is delivered: no failing, crashing or
\* lost command stays in the queue for ever.
Drained == []<>(queued = delivered)

=============================================================================
