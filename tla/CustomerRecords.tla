--------------------------- MODULE CustomerRecords ---------------------------
(***************************************************************************)
(* The rows that hang on one customer's row by a foreign key: what         *)
(* concurrent requests of the agent insert and trim, while the bot deletes *)
(* the customer with everything that belongs to it.                        *)
(*                                                                         *)
(* A request is authenticated once, by reading the customer; everything it *)
(* writes comes later, one statement at a time, without a transaction      *)
(* around.  DeleteCustomer is one transaction of five statements, and each *)
(* sees what has been committed until then.  PostgreSQL refuses a row      *)
(* without its customer, refuses to delete a customer who has rows, and    *)
(* lets an insertion wait for a deletion that is about to be committed.    *)
(*                                                                         *)
(* Rows are numbered by the time at which their insertion began: that is   *)
(* received_at and snapshot_at.  They may become visible in another order. *)
(***************************************************************************)
EXTENDS Naturals, Sequences, FiniteSets

CONSTANTS
    Requests,    \* requests of the agent the master handles at a time (bound)
    Keep,        \* logs kept of each customer, 20 in the code
    MaxRows,     \* insertions begun (bound)
    MaxFaults    \* failed statements and crashes of the master (bound)

ASSUME BoundsAssumption == Keep \in Nat \ {0} /\ MaxRows \in Nat /\ MaxFaults \in Nat
ASSUME RequestsAssumption == IsFiniteSet(Requests)

VARIABLES
    present,   \* the customer's row is there
    rows,      \* rows[t]: its committed rows in table t
    begun,     \* insertions begun so far
    fresh,     \* lastSnapshot has a marker of the last five minutes
    step,      \* step[h]: how far request h is
    table,     \* table[h]: the table it inserts into
    own,       \* own[h]: the row it inserts
    old,       \* old[h]: the logs it is about to delete
    deleting,  \* statements of DeleteCustomer that were run, Closed without a transaction
    gone,      \* gone[t]: rows these have deleted
    late,      \* history: the agent has inserted a row since the transaction began
    saved,     \* history: logs inserted so far
    faults     \* faults so far

requestVars == <<step, table, own, old>>
deletionVars == <<deleting, gone, late>>
vars == <<present, rows, begun, fresh, requestVars, deletionVars, saved, faults>>

Snapshots == "metrics_snapshots"
Events    == "agent_events"
Commands  == "notifications"
Logs      == "agent_logs"

Tables == {Snapshots, Events, Commands, Logs}
Rows   == 1..MaxRows

\* Slip: the logs, which came with a later migration, are forgotten.
OrderWithoutLogs == <<Snapshots, Events, Commands>>

\* The child tables as DeleteCustomer takes them.
Order == <<Snapshots, Events, Commands, Logs>>

Closed == 9

Steps == {"idle", "found", "begun", "inserted", "plucked"}

TypeOK ==
    /\ present \in BOOLEAN /\ fresh \in BOOLEAN /\ late \in BOOLEAN
    /\ rows \in [Tables -> SUBSET Rows] /\ gone \in [Tables -> SUBSET Rows]
    /\ begun \in 0..MaxRows
    /\ step \in [Requests -> Steps] /\ table \in [Requests -> Tables]
    /\ own \in [Requests -> Rows \cup {0}] /\ old \in [Requests -> SUBSET Rows]
    /\ deleting \in 0..5 \cup {Closed}
    /\ saved \subseteq Rows
    /\ faults \in 0..MaxFaults

Nothing == [t \in Tables |-> {}]

Init ==
    /\ present = TRUE /\ rows = Nothing /\ begun = 0 /\ fresh = FALSE
    /\ step = [h \in Requests |-> "idle"]
    /\ table = [h \in Requests |-> Events]
    /\ own = [h \in Requests |-> 0]
    /\ old = [h \in Requests |-> {}]
    /\ deleting = Closed /\ gone = Nothing /\ late = FALSE
    /\ saved = {} /\ faults = 0

Fault == faults < MaxFaults /\ faults' = faults + 1

\* The customer's row is deleted and the transaction still open.
Locked == deleting = 5

-----------------------------------------------------------------------------
(* Requests of the agent.                                                   *)

Goes(h, next) == step' = [step EXCEPT ![h] = next]

\* The answer: 200 whether a snapshot or an event was saved or not.
Ends(h) ==
    /\ Goes(h, "idle")
    /\ table' = [table EXCEPT ![h] = Events]
    /\ own' = [own EXCEPT ![h] = 0]
    /\ old' = [old EXCEPT ![h] = {}]

\* Auth finds the customer, a deletion under way or not.
Auth(h, t) ==
    /\ step[h] = "idle" /\ present
    /\ Goes(h, "found") /\ table' = [table EXCEPT ![h] = t]
    /\ UNCHANGED <<present, rows, begun, fresh, own, old, deletionVars, saved, faults>>

\* heartbeat: UpdateHeartbeat changes the customer's row, or none, and
\* maybeSaveSnapshot wants one snapshot in five minutes; its marker is set
\* before it looks whether there is anything to save.
Begins(h) ==
    /\ begun < MaxRows
    /\ begun' = begun + 1
    /\ own' = [own EXCEPT ![h] = begun + 1]
    /\ Goes(h, "begun")
    /\ UNCHANGED <<table, old>>

BeginSnapshot(h) ==
    /\ step[h] = "found" /\ table[h] = Snapshots /\ ~Locked
    /\ fresh' = TRUE
    /\ \/ ~fresh /\ Begins(h)
       \/ Ends(h) /\ UNCHANGED begun
    /\ UNCHANGED <<present, rows, deletionVars, saved, faults>>

\* report and logs: BEGIN of the INSERT, the time of received_at.
BeginInsert(h) ==
    /\ step[h] = "found" /\ table[h] # Snapshots
    /\ Begins(h)
    /\ UNCHANGED <<present, rows, fresh, deletionVars, saved, faults>>

\* The INSERT: refused without the customer, seen by everybody with it.
Insert(h) ==
    /\ step[h] = "begun" /\ ~Locked
    /\ IF present
       THEN /\ rows' = [rows EXCEPT ![table[h]] = @ \cup {own[h]}]
            /\ late' = (deleting # Closed)
            /\ saved' = IF table[h] = Logs THEN saved \cup {own[h]} ELSE saved
       ELSE UNCHANGED <<rows, late, saved>>
    /\ IF present /\ table[h] = Logs
       THEN Goes(h, "inserted") /\ UNCHANGED <<table, own, old>>
       ELSE Ends(h)
    /\ UNCHANGED <<present, begun, fresh, deleting, gone, faults>>

Newer(l, S) == {k \in S : k > l}

\* Slips: the query is not limited to the customer; DESC is forgotten; one log
\* too many stays.
SurplusOfAnyone(S) == {l \in S : Cardinality(Newer(l, S)) >= Keep} \cup {MaxRows + 1}
SurplusOfNewest(S) == {l \in S : Cardinality({k \in S : k < l}) >= Keep}
SurplusTooFew(S) == {l \in S : Cardinality(Newer(l, S)) > Keep}

\* ORDER BY received_at DESC OFFSET 20.
Surplus(S) == {l \in S : Cardinality(Newer(l, S)) >= Keep}

\* SaveAgentLog, second statement.
Pluck(h) ==
    /\ step[h] = "inserted"
    /\ old' = [old EXCEPT ![h] = Surplus(rows[Logs])]
    /\ Goes(h, "plucked")
    /\ UNCHANGED <<present, rows, begun, fresh, table, own, deletionVars, saved, faults>>

\* SaveAgentLog, third statement: by id, waiting for rows that are locked.
Trim(h) ==
    /\ step[h] = "plucked" /\ old[h] \cap gone[Logs] = {}
    /\ rows' = [rows EXCEPT ![Logs] = @ \ old[h]]
    /\ Ends(h)
    /\ UNCHANGED <<present, begun, fresh, deletionVars, saved, faults>>

\* Any statement of a request fails: the request ends.
RequestFails(h) ==
    /\ step[h] # "idle" /\ Fault
    /\ Ends(h)
    /\ UNCHANGED <<present, rows, begun, fresh, deletionVars, saved>>

-----------------------------------------------------------------------------
(* The bot, the cleaner, the master's process.                              *)

\* NotifyCustomer: the bot does one thing at a time.
Notify ==
    /\ deleting = Closed /\ present /\ begun < MaxRows
    /\ begun' = begun + 1
    /\ rows' = [rows EXCEPT ![Commands] = @ \cup {begun + 1}]
    /\ UNCHANGED <<present, fresh, requestVars, deletionVars, saved, faults>>

\* DeleteCustomer: BEGIN.
BeginDelete ==
    /\ deleting = Closed /\ present
    /\ deleting' = 0 /\ gone' = Nothing /\ late' = FALSE
    /\ UNCHANGED <<present, rows, begun, fresh, requestVars, saved, faults>>

\* One DELETE for each child table.
DeleteRows ==
    /\ deleting < Len(Order)
    /\ LET t == Order[deleting + 1] IN gone' = [gone EXCEPT ![t] = rows[t]]
    /\ deleting' = deleting + 1
    /\ UNCHANGED <<present, rows, begun, fresh, requestVars, late, saved, faults>>

Childless == \A t \in Tables : rows[t] \subseteq gone[t]

\* DELETE of the customer's row, when no other row refers to it.
DeleteRow ==
    /\ deleting = Len(Order) /\ Childless
    /\ deleting' = 5
    /\ UNCHANGED <<present, rows, begun, fresh, requestVars, gone, late, saved, faults>>

Over == deleting' = Closed /\ gone' = Nothing /\ late' = FALSE

\* The foreign key refuses it: the bot replies that the deletion failed.
DeleteRefused ==
    /\ deleting = Len(Order) /\ ~Childless
    /\ Over
    /\ UNCHANGED <<present, rows, begun, fresh, requestVars, saved, faults>>

DeleteFails ==
    /\ deleting # Closed /\ Fault
    /\ Over
    /\ UNCHANGED <<present, rows, begun, fresh, requestVars, saved>>

Commit ==
    /\ Locked
    /\ present' = FALSE
    /\ rows' = [t \in Tables |-> rows[t] \ gone[t]]
    /\ Over
    /\ UNCHANGED <<begun, fresh, requestVars, saved, faults>>

\* CleanupOldMetrics: snapshots of more than thirty days.
CleanupOldMetrics ==
    /\ gone[Snapshots] = {}
    /\ \E cutoff \in rows[Snapshots] :
           rows' = [rows EXCEPT ![Snapshots] = Newer(cutoff, @)]
    /\ UNCHANGED <<present, begun, fresh, requestVars, deletionVars, saved, faults>>

\* Five minutes pass, or CleanupStaleSnapshotMarkers runs.
MarkerAges ==
    /\ fresh /\ fresh' = FALSE
    /\ UNCHANGED <<present, rows, begun, requestVars, deletionVars, saved, faults>>

\* The master goes down: every request and the transaction end where they are.
Crash ==
    /\ Fault
    /\ step' = [h \in Requests |-> "idle"]
    /\ table' = [h \in Requests |-> Events]
    /\ own' = [h \in Requests |-> 0]
    /\ old' = [h \in Requests |-> {}]
    /\ Over /\ fresh' = FALSE
    /\ UNCHANGED <<present, rows, begun, saved>>

-----------------------------------------------------------------------------
RequestStep(h) ==
    \/ \E t \in {Snapshots, Events, Logs} : Auth(h, t)
    \/ BeginSnapshot(h) \/ BeginInsert(h) \/ Insert(h)
    \/ Pluck(h) \/ Trim(h) \/ RequestFails(h)

Next ==
    \/ \E h \in Requests : RequestStep(h)
    \/ Notify
    \/ BeginDelete \/ DeleteRows \/ DeleteRow \/ DeleteRefused \/ DeleteFails \/ Commit
    \/ CleanupOldMetrics \/ MarkerAges \/ Crash

Spec == Init /\ [][Next]_vars

-----------------------------------------------------------------------------
(* Properties.                                                              *)

\* Trimming never takes one of the newest Keep logs, though the ids a request
\* deletes were read before other requests inserted and deleted theirs, and
\* though rows become visible in another order than received_at (store.go:352).
NewestLogsKept ==
    present => \A l \in saved : Cardinality(Newer(l, saved)) < Keep => l \in rows[Logs]

\* And no more than these stay, apart from the logs of requests that are not
\* through and of those that were cut: one upload trims for all before it.
Uploading == {h \in Requests : step[h] \in {"inserted", "plucked"}}

LogsBounded ==
    Cardinality(rows[Logs])
        <= Keep + Cardinality(Uploading) + faults * Cardinality(Requests)

\* A deletion that fails has met a row of the agent that came in between, or a
\* fault: all tables that refer to customers are emptied first (store.go:139).
DeletionFailsForCause ==
    [][deleting # Closed /\ deleting' = Closed /\ present'
         => late \/ faults' > faults]_vars
=============================================================================
