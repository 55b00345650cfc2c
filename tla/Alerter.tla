------------------------------- MODULE Alerter -------------------------------
(***************************************************************************)
(* The alerter of the master: one goroutine that, at every tick, sends the *)
(* administrator one message for each group of new failure events, marks   *)
(* the events, and then checks the threshold rules of every customer.      *)
(*                                                                         *)
(* Time is counted in intervals of the ticker.  A span of n intervals is   *)
(* exact only up to the moment of a scan within its interval, so what      *)
(* happens at the very edge of a window is left open.  Every count of      *)
(* intervals stops where a longer one makes no difference.                 *)
(***************************************************************************)
EXTENDS Naturals

CONSTANTS
    Events,      \* failure events: update_failed, restart_failed, ...
    Group,       \* Group[e]: its customer and its type
    Owner,       \* Owner[g]: the customer of group g
    Customers,
    Resources,   \* the resources with a threshold: disk, memory
    Lookback,    \* age of the oldest event looked for, 6 intervals in the code
    Offline,     \* offlineThreshold, 8 intervals
    Cooldown,    \* ruleAlertCooldown, 12 intervals
    None,        \* no event, no heartbeat, no shortage
    MaxFaults    \* failures, crashes and delays of more than an interval (bound)

Groups == {Group[e] : e \in Events}
Keys   == Customers \X ({"offline"} \cup Resources)

ASSUME GroupAssumption == Owner \in [Groups -> Customers]
ASSUME RulesAssumption == "offline" \notin Resources /\ None \notin Nat
ASSUME BoundsAssumption ==
    /\ Lookback \in Nat \ {0} /\ Offline \in Nat \ {0} /\ Cooldown \in Nat \ {0}
    /\ MaxFaults \in Nat

VARIABLES
    status,    \* status[c]: "enabled", "disabled" or "deleted"
    age,       \* age[e]: intervals since event e was recorded
    alerted,   \* events with alerted = true
    told,      \* told[e]: messages with e that reached the administrator
    lasts,     \* lasts[k]: intervals since the last heartbeat, or since one said
               \* that the resource is short
    rested,    \* rested[k]: intervals since the time in ruleLastAlert
    watched,   \* watched[k]: intervals for which nothing changed about key k
    informed,  \* keys the administrator was told of in that time, while they were in
               \* trouble
    tick,      \* the ticker's channel holds a tick
    stage,     \* what the goroutine does
    batch,     \* events read
    todo,      \* groups, or keys, that still need their message
    ids,       \* events to mark
    faults

customerVars == <<status, lasts, watched>>
eventVars    == <<age, alerted, told>>
ruleVars     == <<rested, informed>>
scanVars     == <<stage, batch, todo, ids>>
vars == <<customerVars, eventVars, ruleVars, tick, scanVars, faults>>

\* The intervals that a key may have to wait for its message with f faults.
Patience(f) ==
    (IF Offline > Cooldown THEN Offline ELSE Cooldown) + 1 + (Cooldown + 1) * f

TypeOK ==
    /\ status \in [Customers -> {"enabled", "disabled", "deleted"}]
    /\ age \in [Events -> 0..Lookback + 1 \cup {None}]
    /\ alerted \subseteq {e \in Events : age[e] # None}
    /\ told \in [Events -> Nat]
    /\ lasts \in [Keys -> 0..Offline + 1 \cup {None}]
    /\ rested \in [Keys -> 0..Cooldown + 1]
    /\ watched \in [Keys -> 0..Patience(MaxFaults) + 1]
    /\ informed \subseteq Keys
    /\ tick \in BOOLEAN
    /\ stage \in {"idle", "query", "tell", "list", "warn"}
    /\ batch \subseteq Events /\ ids \subseteq batch
    /\ todo \subseteq (IF stage = "warn" THEN Keys ELSE Groups)
    /\ faults \in 0..MaxFaults

\* A process that has just started has sent no alert.
Init ==
    /\ status = [c \in Customers |-> "enabled"]
    /\ age = [e \in Events |-> None]
    /\ alerted = {}
    /\ told = [e \in Events |-> 0]
    /\ lasts = [k \in Keys |-> None]
    /\ rested = [k \in Keys |-> Cooldown + 1]
    /\ watched = [k \in Keys |-> 0]
    /\ informed = {}
    /\ tick = FALSE
    /\ stage = "idle"
    /\ batch = {} /\ todo = {} /\ ids = {}
    /\ faults = 0

Fault == faults < MaxFaults /\ faults' = faults + 1

-----------------------------------------------------------------------------
(* Customers and time.                                                      *)

\* POST /report, of a disabled customer as well.
Record(e) ==
    /\ age[e] = None
    /\ status[Owner[Group[e]]] # "deleted"
    /\ age' = [age EXCEPT ![e] = 0]
    /\ UNCHANGED <<customerVars, alerted, told, ruleVars, tick, scanVars, faults>>

\* What a heartbeat makes of the rules of its customer: he is online, and each
\* resource is short or is not.
Heartbeat(c, short) ==
    LET over(k)  == k[1] = c /\ k[2] \notin short
        still(k) == k[1] = c /\ k[2] \in short /\ lasts[k] # None
    IN  /\ status[c] # "deleted"
        /\ lasts' = [k \in Keys |->
               IF k[1] # c \/ still(k) THEN lasts[k]
               ELSE IF k[2] = "offline" \/ k[2] \in short THEN 0 ELSE None]
        /\ watched' = [k \in Keys |-> IF over(k) THEN 0 ELSE watched[k]]
        /\ informed' = {k \in informed : ~over(k)}
        /\ UNCHANGED <<status, eventVars, rested, tick, scanVars, faults>>

\* Enabling starts the watch over.
SetEnabled(c, s) ==
    /\ status[c] \in {"enabled", "disabled"} \ {s}
    /\ status' = [status EXCEPT ![c] = s]
    /\ watched' = [k \in Keys |-> IF k[1] = c THEN 0 ELSE watched[k]]
    /\ informed' = {k \in informed : k[1] # c}
    /\ UNCHANGED <<lasts, eventVars, rested, tick, scanVars, faults>>

\* His events go with him; messages are still sent for those already read.
DeleteCustomer(c) ==
    LET gone == {e \in Events : Owner[Group[e]] = c}
    IN  /\ status[c] # "deleted"
        /\ status' = [status EXCEPT ![c] = "deleted"]
        /\ age' = [e \in Events |-> IF e \in gone THEN None ELSE age[e]]
        /\ alerted' = alerted \ gone
        /\ watched' = [k \in Keys |-> IF k[1] = c THEN 0 ELSE watched[k]]
        /\ UNCHANGED <<told, lasts, ruleVars, tick, scanVars, faults>>

Observed(k) == status[k[1]] = "enabled" /\ lasts[k] # None

Longer(n, end) == IF n = None \/ n = end THEN n ELSE n + 1

\* An interval goes by; the cooldowns are only known to the process.
Passes ==
    /\ age' = [e \in Events |-> Longer(age[e], Lookback + 1)]
    /\ lasts' = [k \in Keys |-> Longer(lasts[k], Offline + 1)]
    /\ watched' = [k \in Keys |->
           IF Observed(k) THEN Longer(watched[k], Patience(MaxFaults) + 1) ELSE 0]

\* The ticker fires.  It drops the tick if the last one was not taken.  A scan
\* that takes longer than an interval counts as a fault.
Tick ==
    /\ IF stage = "idle" /\ ~tick THEN UNCHANGED faults ELSE Fault
    /\ tick' = TRUE
    /\ Passes
    /\ rested' = [k \in Keys |-> Longer(rested[k], Cooldown + 1)]
    /\ UNCHANGED <<status, alerted, told, informed, scanVars>>

\* The master goes down and starts again, with a new ticker: up to an interval
\* more until the next scan.
Crash ==
    /\ Fault
    /\ Passes \/ UNCHANGED <<age, lasts, watched>>
    /\ rested' = [k \in Keys |-> Cooldown + 1]
    /\ tick' = FALSE
    /\ stage' = "idle" /\ batch' = {} /\ todo' = {} /\ ids' = {}
    /\ UNCHANGED <<status, alerted, told, informed>>

-----------------------------------------------------------------------------
(* scanAndAlert: the failure events.                                        *)

Scan ==
    /\ stage = "idle" /\ tick
    /\ tick' = FALSE
    /\ stage' = "query"
    /\ UNCHANGED <<customerVars, eventVars, ruleVars, batch, todo, ids, faults>>

Fresh == {e \in Events \ alerted : age[e] # None}

\* The slips below are what the properties must catch.  Here: the interval of
\* the ticker is taken for the lookback.
InWindowOfInterval(S) == S \subseteq {e \in Fresh : age[e] <= 1}

\* PendingFailureEvents.
InWindow(S) ==
    /\ {e \in Fresh : age[e] < Lookback} \subseteq S
    /\ S \subseteq {e \in Fresh : age[e] <= Lookback}

Select(S) ==
    /\ stage = "query"
    /\ InWindow(S)
    /\ batch' = S
    /\ todo' = {Group[e] : e \in S}
    /\ stage' = IF S = {} THEN "list" ELSE "tell"
    /\ UNCHANGED <<customerVars, eventVars, ruleVars, tick, ids, faults>>

SelectFails ==
    /\ stage = "query"
    /\ Fault
    /\ stage' = "list"
    /\ UNCHANGED <<customerVars, eventVars, ruleVars, tick, batch, todo, ids>>

Members(g) == {e \in batch : Group[e] = g}

Reaches(g) == told' = [e \in Events |-> told[e] + (IF e \in Members(g) THEN 1 ELSE 0)]

\* Slip: only the last group is remembered.
TellForgetting(g) ==
    /\ stage = "tell" /\ g \in todo
    /\ todo' = todo \ {g}
    /\ \/ Reaches(g) /\ ids' = Members(g) /\ UNCHANGED faults
       \/ Fault /\ (Reaches(g) \/ UNCHANGED told) /\ UNCHANGED ids
    /\ UNCHANGED <<customerVars, age, alerted, ruleVars, tick, stage, batch>>

\* One message for a group; when it fails, the administrator may have it
\* nevertheless.
Tell(g) ==
    /\ stage = "tell" /\ g \in todo
    /\ todo' = todo \ {g}
    /\ \/ Reaches(g) /\ ids' = ids \cup Members(g) /\ UNCHANGED faults
       \/ Fault /\ (Reaches(g) \/ UNCHANGED told) /\ UNCHANGED ids
    /\ UNCHANGED <<customerVars, age, alerted, ruleVars, tick, stage, batch>>

\* Slip: the ids of this scan are kept for the next one.
EndEventsKeeping == stage' = "list" /\ batch' = {} /\ UNCHANGED ids

EndEvents == stage' = "list" /\ batch' = {} /\ ids' = {}

\* Slip: all events read are marked.
MarkAll ==
    /\ stage = "tell" /\ todo = {}
    /\ \/ alerted' = alerted \cup {e \in batch : age[e] # None} /\ UNCHANGED faults
       \/ Fault /\ UNCHANGED alerted
    /\ EndEvents
    /\ UNCHANGED <<customerVars, age, told, ruleVars, tick, todo>>

\* MarkEventsAlerted, on the rows that are still there.
Mark ==
    /\ stage = "tell" /\ todo = {}
    /\ \/ alerted' = alerted \cup {e \in ids : age[e] # None} /\ UNCHANGED faults
       \/ Fault /\ UNCHANGED alerted
    /\ EndEvents
    /\ UNCHANGED <<customerVars, age, told, ruleVars, tick, todo>>

-----------------------------------------------------------------------------
(* scanRules: the thresholds.                                               *)

Overdue(k) == Observed(k) /\ (k[2] = "offline" => lasts[k] > Offline)
AtEdge(k)  == Observed(k) /\ (k[2] = "offline" => lasts[k] = Offline)

\* The customers as they are now; their alerts are sent later.
List(S) ==
    /\ stage = "list"
    /\ {k \in Keys : Overdue(k)} \subseteq S
    /\ S \subseteq {k \in Keys : Overdue(k) \/ AtEdge(k)}
    /\ todo' = S
    /\ stage' = IF S = {} THEN "idle" ELSE "warn"
    /\ UNCHANGED <<customerVars, eventVars, ruleVars, tick, batch, ids, faults>>

ListFails ==
    /\ stage = "list"
    /\ Fault
    /\ stage' = "idle"
    /\ UNCHANGED <<customerVars, eventVars, ruleVars, tick, batch, todo, ids>>

Checked(k) ==
    /\ stage = "warn" /\ k \in todo
    /\ todo' = todo \ {k}
    /\ stage' = IF todo' = {} THEN "idle" ELSE "warn"

\* Slip: an alert that is held back starts the cooldown over.
HoldBackAgain(k) ==
    /\ Checked(k)
    /\ rested[k] <= Cooldown
    /\ rested' = [rested EXCEPT ![k] = 0]
    /\ UNCHANGED <<customerVars, eventVars, informed, tick, batch, ids, faults>>

HoldBack(k) ==
    /\ Checked(k)
    /\ rested[k] <= Cooldown
    /\ UNCHANGED <<customerVars, eventVars, ruleVars, tick, batch, ids, faults>>

\* The message is about trouble of the list; if that is over by now, later trouble
\* is not told by it.
Inform(k) == informed' = informed \cup (IF Overdue(k) \/ AtEdge(k) THEN {k} ELSE {})

\* The cooldown starts before the message is sent, whatever becomes of it.
Warn(k) ==
    /\ Checked(k)
    /\ rested[k] >= Cooldown
    /\ rested' = [rested EXCEPT ![k] = 0]
    /\ \/ Inform(k) /\ UNCHANGED faults
       \/ Fault /\ (Inform(k) \/ UNCHANGED informed)
    /\ UNCHANGED <<customerVars, eventVars, tick, batch, ids>>

-----------------------------------------------------------------------------
ScanEvents ==
    \/ Scan \/ SelectFails \/ Mark
    \/ \E S \in SUBSET Fresh : Select(S)
    \/ \E g \in Groups : Tell(g)

ScanRules ==
    \/ ListFails
    \/ \E S \in SUBSET Keys : List(S)
    \/ \E k \in Keys : HoldBack(k) \/ Warn(k)

Next ==
    \/ \E e \in Events : Record(e)
    \/ \E c \in Customers :
         \/ \E short \in SUBSET Resources : Heartbeat(c, short)
         \/ SetEnabled(c, "enabled") \/ SetEnabled(c, "disabled")
         \/ DeleteCustomer(c)
    \/ Tick \/ Crash \/ ScanEvents \/ ScanRules

Spec == Init /\ [][Next]_vars

-----------------------------------------------------------------------------
(* Properties.                                                              *)

\* An event is marked only when a message with it has reached the
\* administrator, whichever of the groups' messages failed.
MarkedWasTold == \A e \in alerted : told[e] > 0

\* The administrator gets an event once, and once more at most for every fault:
\* the mark is written after the messages, by a process that may go down or a
\* statement that may fail.
RepeatsTakeFaults == \A e \in Events : told[e] <= 1 + faults

\* An event leaves the lookback window unseen only if so many scans were lost
\* that it was not looked for: a fault costs two scans at most.
LossTakesFaults ==
    \A e \in Events :
        age[e] # None /\ age[e] > Lookback /\ told[e] = 0 => 2 * faults >= Lookback - 1

\* Trouble that lasts is told although the cooldown of an earlier alert, or of a
\* message that failed, was running when it began: without faults within the
\* longer of threshold and cooldown, and a fault delays it by one cooldown.
TroubleTold ==
    \A k \in Keys : watched[k] > Patience(faults) => k \in informed
=============================================================================
