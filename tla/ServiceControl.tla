--------------------------- MODULE ServiceControl ---------------------------
(***************************************************************************)
(* Remote control of one customer's service: who starts and stops          *)
(* tgfulibot.service.                                                      *)
(*                                                                         *)
(* The agent has two threads that send heartbeats and act on the answers:  *)
(* the goroutine that sends the first one and the main loop.  The enabled  *)
(* flag of an answer is the one Auth read when the request came in, not    *)
(* the one in the table when the agent acts; the version it compares with  *)
(* the release is the one VERSION held when a heartbeat was sent.  The     *)
(* main loop also runs restart commands, whatever the flag.  A heartbeat   *)
(* that fails stops the service once the last success of this process is   *)
(* GraceDays old.  Time is abstracted to that question: a success is       *)
(* recent, then over.                                                      *)
(***************************************************************************)
EXTENDS Naturals

CONSTANTS
    MaxOrders,    \* restarts ordered by the administrator (bound)
    Offered,      \* the latest release when the agent starts; it was installed with 0
    MaxReleases,  \* releases published after that (bound)
    MaxRestarts,  \* restarts of the agent, alone or with its machine (bound)
    MaxFaults     \* calls that fail though the network is up (bound)

ASSUME BoundsAssumption ==
    /\ MaxOrders \in Nat /\ Offered \in Nat /\ MaxReleases \in Nat
    /\ MaxRestarts \in Nat /\ MaxFaults \in Nat

VARIABLES
    enabled,    \* customers.enabled
    present,    \* the customer's row exists
    link,       \* the network lets the agent reach the master
    orders,     \* restart commands waiting in the queue
    latest,     \* number of the release marked as the latest
    current,    \* number of the installed one, in the file VERSION
    known,      \* state.currentVersion, shared by the threads
    service,    \* state of the systemd unit
    success,    \* age of state.lastSuccessTime
    phase,      \* phase[t]: what thread t of the agent is doing
    answer,     \* answer[t]: the enabled flag t's heartbeat is answered with
    named,      \* named[t]: the release the answer names
    seen,       \* seen[t]: what VERSION held when t sent its heartbeat
    cause,      \* threads whose customer was disabled since their heartbeat left
    used        \* how much of each bound is used up

masterVars == <<enabled, present, link, orders, latest>>
answerVars == <<answer, named, seen, cause>>
localVars  == <<current, known, service>>
vars == <<masterVars, localVars, success, phase, answerVars, used>>

Threads == {"boot", "loop"}
Phases  == {"off", "ready", "sent", "answered", "received", "failed", "updating", "restarting"}
InFlight == {"sent", "answered", "received"}
Bounds  == {"orders", "releases", "restarts", "faults"}
Limit   == [orders |-> MaxOrders, releases |-> MaxReleases,
            restarts |-> MaxRestarts, faults |-> MaxFaults]

Numbers == 0..Offered + MaxReleases

TypeOK ==
    /\ enabled \in BOOLEAN /\ present \in BOOLEAN
    /\ link \in {"up", "down"}
    /\ orders \in 0..MaxOrders
    /\ latest \in Numbers /\ current \in Numbers /\ known \in Numbers
    /\ service \in {"running", "stopped", "failed"}
    /\ success \in {"never", "recent", "over"}
    /\ phase \in [Threads -> Phases]
    /\ answer \in [Threads -> {"none", "disabled", "enabled"}]
    /\ named \in [Threads -> Numbers]
    /\ seen \in [Threads -> Numbers]
    /\ cause \subseteq Threads
    /\ used \in [Bounds -> Nat]

\* The agent has just been installed: the service runs, no heartbeat yet.  What
\* install.sh downloaded need not be what the master names.
Init ==
    /\ enabled = TRUE /\ present = TRUE /\ link = "up"
    /\ orders = 0 /\ latest = Offered /\ current = 0 /\ known = 0
    /\ service = "running"
    /\ success = "never"
    /\ phase = [t \in Threads |-> "ready"]
    /\ answer = [t \in Threads |-> "none"]
    /\ named = [t \in Threads |-> 0]
    /\ seen = [t \in Threads |-> 0]
    /\ cause = {}
    /\ used = [b \in Bounds |-> 0]

\* systemctl restart, also of a stopped unit.
RestartService == service' \in {"running", "failed"}

Spend(b) == used[b] < Limit[b] /\ used' = [used EXCEPT ![b] = @ + 1]

-----------------------------------------------------------------------------
(* The administrator's bot.                                                 *)

Disable ==
    /\ present
    /\ enabled' = FALSE
    /\ cause' = {t \in Threads : phase[t] \in InFlight}
    /\ UNCHANGED <<present, link, orders, latest, localVars, success, phase, answer, named, seen, used>>

Enable ==
    /\ present
    /\ enabled' = TRUE
    /\ UNCHANGED <<present, link, orders, latest, localVars, success, phase, answerVars, used>>

\* cmdSendCommand refuses a disabled customer, when the command is queued.
OrderRestart ==
    /\ present /\ enabled
    /\ Spend("orders")
    /\ orders' = orders + 1
    /\ UNCHANGED <<enabled, present, link, latest, localVars, success, phase, answerVars>>

\* The rows of the queue go with the customer.
Delete ==
    /\ present
    /\ present' = FALSE
    /\ orders' = 0
    /\ UNCHANGED <<enabled, link, latest, localVars, success, phase, answerVars, used>>

\* PublishRelease takes any version, an older one as well.
Publish ==
    /\ Spend("releases")
    /\ latest' \in Numbers \ {latest}
    /\ UNCHANGED <<enabled, present, link, orders, localVars, success, phase, answerVars>>

-----------------------------------------------------------------------------
(* The environment.                                                         *)

LinkChanges ==
    /\ link' = IF link = "up" THEN "down" ELSE "up"
    /\ UNCHANGED <<enabled, present, orders, latest, localVars, success, phase, answerVars, used>>

\* GraceDays pass without a heartbeat that succeeds.
GraceElapses ==
    /\ success = "recent"
    /\ success' = "over"
    /\ UNCHANGED <<masterVars, localVars, phase, answerVars, used>>

\* lastSuccessTime and the threads live in the process.
NewProcess ==
    /\ success' = "never"
    /\ phase' = [t \in Threads |-> "ready"]
    /\ answer' = [t \in Threads |-> "none"]
    /\ named' = [t \in Threads |-> 0]
    /\ seen' = [t \in Threads |-> 0]
    /\ cause' = {}
    /\ known' = 0
    /\ UNCHANGED masterVars

\* An update cut short may have emptied VERSION, which reads as version 0.
LeaveVersion == current' \in {current} \cup {0 : t \in {u \in Threads : phase[u] = "updating"}}

\* The agent crashes, is restarted, or exits after replacing its own binary; an
\* update that this cuts short may have restarted the service.
AgentRestart ==
    /\ Spend("restarts")
    /\ NewProcess
    /\ LeaveVersion
    /\ \/ UNCHANGED service
       \/ RestartService /\ \E t \in Threads : phase[t] = "updating"

\* Both units are enabled in systemd: a stopped service comes back as well.
Reboot == Spend("restarts") /\ NewProcess /\ LeaveVersion /\ service' = "running"

-----------------------------------------------------------------------------
(* Heartbeats of the agent's threads.                                       *)

Become(t, p) == phase' = [phase EXCEPT ![t] = p]

\* The first goroutine ends after its heartbeat, the loop waits for a ticker.
Rest(t) ==
    /\ Become(t, IF t = "boot" THEN "off" ELSE "ready")
    /\ answer' = [answer EXCEPT ![t] = "none"]
    /\ named' = [named EXCEPT ![t] = 0]
    /\ seen' = [seen EXCEPT ![t] = 0]
    /\ cause' = cause \ {t}

\* At boot, at heartbeatTick, or for a force_update command.
Send(t) ==
    /\ phase[t] = "ready"
    /\ Become(t, "sent")
    /\ seen' = [seen EXCEPT ![t] = current]
    /\ cause' = IF enabled THEN cause ELSE cause \cup {t}
    /\ UNCHANGED <<masterVars, localVars, success, answer, named, used>>

\* Auth reads the customer, the handler the latest release.
Serve(t) ==
    /\ phase[t] = "sent"
    /\ present /\ link = "up"
    /\ answer' = [answer EXCEPT ![t] = IF enabled THEN "enabled" ELSE "disabled"]
    /\ named' = [named EXCEPT ![t] = latest]
    /\ Become(t, "answered")
    /\ UNCHANGED <<masterVars, localVars, success, seen, cause, used>>

\* No route to the master or 401; or else a fault: 500 or no answer in time.
HeartbeatFails(t) ==
    /\ phase[t] \in {"sent", "answered"}
    /\ IF link = "down" \/ (phase[t] = "sent" /\ ~present)
       THEN UNCHANGED used
       ELSE Spend("faults")
    /\ Become(t, "failed")
    /\ answer' = [answer EXCEPT ![t] = "none"]
    /\ named' = [named EXCEPT ![t] = 0]
    /\ seen' = [seen EXCEPT ![t] = 0]
    /\ cause' = cause \ {t}
    /\ UNCHANGED <<masterVars, localVars, success>>

\* heartbeat stores what it sent in state; then markSuccess.
Receive(t) ==
    /\ phase[t] = "answered"
    /\ link = "up"
    /\ known' = seen[t]
    /\ seen' = [seen EXCEPT ![t] = 0]
    /\ success' = "recent"
    /\ Become(t, "received")
    /\ UNCHANGED <<masterVars, current, service, answer, named, cause, used>>

\* StopService; its error is ignored.
StopService ==
    \/ service' = "stopped" /\ UNCHANGED used
    \/ Spend("faults") /\ UNCHANGED service

\* Slip: a process without any success counts as cut off.
HandleFailureAtOnce(t) ==
    /\ phase[t] = "failed"
    /\ IF success # "recent" THEN StopService ELSE UNCHANGED <<service, used>>
    /\ Rest(t)
    /\ UNCHANGED <<masterVars, current, known, success>>

\* Slip: markSuccess is called before the error is looked at.
HandleFailureForgiving(t) ==
    /\ phase[t] = "failed"
    /\ success' = "recent"
    /\ Rest(t)
    /\ UNCHANGED <<masterVars, current, known, service, used>>

\* handleHeartbeatFailure: only a success of this process that is too old stops.
HandleFailure(t) ==
    /\ phase[t] = "failed"
    /\ IF success = "over" THEN StopService ELSE UNCHANGED <<service, used>>
    /\ Rest(t)
    /\ UNCHANGED <<masterVars, current, known, success>>

\* Slip: a refusal stops the service after the grace period only.
HandleDisabledLater(t) ==
    /\ phase[t] = "received"
    /\ answer[t] = "disabled"
    /\ IF success = "over" THEN StopService ELSE UNCHANGED <<service, used>>
    /\ Rest(t)
    /\ UNCHANGED <<masterVars, current, known, success>>

\* handleHeartbeatResp on a refusal.
HandleDisabled(t) ==
    /\ phase[t] = "received"
    /\ answer[t] = "disabled"
    /\ StopService
    /\ Rest(t)
    /\ UNCHANGED <<masterVars, current, known, success>>

\* handleHeartbeatResp: an enabled answer starts nothing.
HandleEnabled(t) ==
    /\ phase[t] = "received"
    /\ answer[t] = "enabled"
    /\ IF named[t] > known
       THEN /\ Become(t, "updating")
            /\ answer' = [answer EXCEPT ![t] = "none"]
            /\ cause' = cause \ {t}
            /\ UNCHANGED <<named, seen>>
       ELSE Rest(t)
    /\ UNCHANGED <<masterVars, localVars, success, used>>

\* The answer asks for a newer agent and replacing it fails: the release is not
\* looked at.  (When it works, the process ends: AgentRestart.)
SelfUpdateFails(t) ==
    /\ phase[t] = "received"
    /\ answer[t] = "enabled"
    /\ Spend("faults")
    /\ Rest(t)
    /\ UNCHANGED <<masterVars, localVars, success>>

\* Slip: VERSION is not written.
FinishUpdateUnrecorded(t) ==
    /\ phase[t] = "updating"
    /\ known' = named[t] /\ service' = "running"
    /\ Rest(t)
    /\ UNCHANGED <<masterVars, current, success, used>>

\* performUpdate, with the heartbeat that ends it: the new version runs, or it does
\* but writing VERSION failed and left it empty, or the update was rolled back with
\* another restart, or it stopped before.
FinishUpdate(t) ==
    /\ phase[t] = "updating"
    /\ \/ current' = named[t] /\ known' = named[t] /\ service' = "running" /\ UNCHANGED used
       \/ Spend("faults") /\ current' = 0 /\ service' = "running" /\ UNCHANGED known
       \/ Spend("faults") /\ UNCHANGED <<current, known>> /\ RestartService
       \/ Spend("faults") /\ UNCHANGED localVars
    /\ Rest(t)
    /\ UNCHANGED <<masterVars, success>>

-----------------------------------------------------------------------------
(* Restart commands, run by the main loop.                                  *)

\* Slip: the answer is taken without looking whether it holds a row.
PullOrderBlindly ==
    /\ phase["loop"] = "ready"
    /\ present /\ link = "up"
    /\ orders' = orders - 1
    /\ Become("loop", "restarting")
    /\ UNCHANGED <<enabled, present, link, latest, localVars, success, answerVars, used>>

\* The row may come again: the command fails, or its ack is lost.
PullOrder ==
    /\ phase["loop"] = "ready"
    /\ present /\ link = "up" /\ orders > 0
    /\ \/ orders' = orders - 1 /\ UNCHANGED used
       \/ Spend("faults") /\ UNCHANGED orders
    /\ Become("loop", "restarting")
    /\ UNCHANGED <<enabled, present, link, latest, localVars, success, answerVars>>

\* handleOneNotification, restart_service: the flag is not looked at.
RunOrder ==
    /\ phase["loop"] = "restarting"
    /\ RestartService
    /\ Become("loop", "ready")
    /\ UNCHANGED <<masterVars, current, known, success, answerVars, used>>

-----------------------------------------------------------------------------
Heartbeat(t) ==
    \/ Send(t) \/ Serve(t) \/ Receive(t) \/ HeartbeatFails(t) \/ HandleFailure(t)
    \/ HandleDisabled(t) \/ HandleEnabled(t) \/ SelfUpdateFails(t) \/ FinishUpdate(t)

Loop == Heartbeat("loop") \/ PullOrder \/ RunOrder

Next ==
    \/ Disable \/ Enable \/ OrderRestart \/ Delete \/ Publish
    \/ LinkChanges \/ GraceElapses \/ AgentRestart \/ Reboot
    \/ Heartbeat("boot") \/ Loop

\* Both threads go on (tickers fire, requests time out) and time passes.
Fairness ==
    /\ WF_vars(Heartbeat("boot"))
    /\ WF_vars(Loop)
    /\ WF_vars(GraceElapses)

Spec == Init /\ [][Next]_vars
FairSpec == Spec /\ Fairness

-----------------------------------------------------------------------------
(* Properties.                                                              *)

\* No route to the master, or 401.
CutOff == link = "down" \/ ~present

\* The service is stopped only for cause: a thread acts on an answer and the
\* customer was disabled after the request left, or a thread's heartbeat failed
\* and no heartbeat of the process succeeded within the grace period.
StopsOnlyForCause ==
    [][service # "stopped" /\ service' = "stopped" =>
         \E t \in Threads : \/ phase[t] = "received" /\ t \in cause
                            \/ phase[t] = "failed" /\ success = "over"]_vars

\* A customer disabled for good ends with the service down for good, whatever
\* restarts were queued, updates under way or answers stale at that time.
DisabledStops ==
    <>[](~enabled /\ ~CutOff) => <>[](service # "running")

\* A machine that the network cuts off for good loses the service, if its agent
\* process has had a success and lives on.
CutOffStops == <>[](link = "down" /\ success # "never") => <>[](service # "running")

\* A customer that stays enabled and in contact ends with the latest release or
\* a newer one, although two updates may overlap and the older one finish last.
Converges ==
    <>[](enabled /\ ~CutOff) => <>[](current >= latest)

\* handleHeartbeatResp compares versions so that an update is never a downgrade.
NeverDowngrades == [][current' >= current]_vars

\* license-design.md: a customer that unplugs the network to escape revocation is
\* stopped when the grace period is over, if a heartbeat ever succeeded.
UnpluggedStops ==
    <>[](link = "down") /\ <>(success # "never") => <>[](service # "running")

\* DeleteCustomer, and the bot's page that asks for it: heartbeats of a deleted
\* customer fail with 401, but its service goes on running.  Here: one that runs, of
\* a customer that was not disabled and an agent with a recent success and no answer
\* under way, while the network is up.
DeletedKeepsRunning ==
    [](/\ ~present /\ enabled /\ service = "running" /\ success = "recent"
       /\ \A t \in Threads : phase[t] \in {"off", "ready"}
       /\ [](link = "up")
       => [](service # "stopped"))

=============================================================================
