------------------------ MODULE CustomerRecordsProofs ------------------------
(***************************************************************************)
(* The properties of CustomerRecords, proved for every value of the        *)
(* constants.                                                              *)
(***************************************************************************)
EXTENDS CustomerRecords, FiniteSetTheorems, WellFoundedInduction, TLAPS

\* An insertion under way has its row.
OwnRow == \A h \in Requests : step[h] = "begun" => own[h] \in Rows

\* What a request is about to delete has been old since it was looked up.
PluckedAreOld ==
    \A h \in Requests : step[h] = "plucked" =>
        \A l \in old[h] : Cardinality(Newer(l, saved)) >= Keep

\* Without a late row the tables taken so far are empty once it is committed.
Emptied ==
    deleting # Closed /\ ~late =>
        \A i \in 1..4 : i <= deleting => rows[Order[i]] \subseteq gone[Order[i]]

\* The requests that know what they are about to delete, and what some of them
\* will have deleted.
Plucked == {h \in Requests : step[h] = "plucked"}
Taken(P) == UNION {old[h] : h \in P}

\* Once any of these are through, no more than Keep logs stay, but for one of
\* every other request that is not through and of every one that was cut.
LogsPaid ==
    \A P \in SUBSET Plucked :
        Cardinality(rows[Logs] \ Taken(P))
            <= Keep + Cardinality(Uploading \ P) + faults * Cardinality(Requests)

IInv ==
    /\ TypeOK
    /\ OwnRow
    /\ rows[Logs] \subseteq saved
    /\ PluckedAreOld
    /\ NewestLogsKept
    /\ Emptied
    /\ LogsPaid

\* A set of rows is finite, and a larger one has no fewer rows newer than l.
LEMMA MoreNewer ==
  ASSUME NEW S \in SUBSET Rows, NEW T \in SUBSET Rows, S \subseteq T, NEW l
  PROVE  /\ Cardinality(Newer(l, S)) \in Nat
         /\ Cardinality(Newer(l, T)) \in Nat
         /\ Cardinality(Newer(l, S)) <= Cardinality(Newer(l, T))
<1>1. IsFiniteSet(Rows) BY FS_Interval, BoundsAssumption DEF Rows
<1>2. Newer(l, S) \subseteq Newer(l, T) /\ Newer(l, T) \subseteq Rows BY DEF Newer
<1>3. IsFiniteSet(Newer(l, T)) BY <1>1, <1>2, FS_Subset
<1>4. IsFiniteSet(Newer(l, S)) BY <1>2, <1>3, FS_Subset
<1> QED BY <1>2, <1>3, <1>4, FS_Subset, FS_CardinalityType

\* The two ways in which a request ends or goes on keep the types.
LEMMA EndsType ==
  ASSUME TypeOK, NEW h \in Requests, Ends(h)
  PROVE  /\ step' \in [Requests -> Steps] /\ table' \in [Requests -> Tables]
         /\ own' \in [Requests -> Rows \cup {0}] /\ old' \in [Requests -> SUBSET Rows]
BY DEF TypeOK, Ends, Goes, Steps, Tables

LEMMA BeginsType ==
  ASSUME TypeOK, NEW h \in Requests, Begins(h)
  PROVE  /\ step' \in [Requests -> Steps] /\ begun' \in 0..MaxRows
         /\ own' \in [Requests -> Rows \cup {0}]
         /\ UNCHANGED <<table, old>>
<1>1. begun' \in 0..MaxRows /\ begun + 1 \in Rows
  BY BoundsAssumption DEF TypeOK, Begins, Rows
<1> QED BY <1>1 DEF TypeOK, Begins, Goes, Steps

LEMMA TypeStep == TypeOK /\ OwnRow /\ [Next]_vars => TypeOK'
<1> SUFFICES ASSUME TypeOK, OwnRow, [Next]_vars PROVE TypeOK' OBVIOUS
<1>0. /\ Tables = {Snapshots, Events, Commands, Logs} /\ Nothing \in [Tables -> SUBSET Rows]
      /\ Len(Order) = 4
      /\ \A i \in 1..4 : Order[i] \in Tables
  BY DEF Tables, Nothing, Order
<1>1. ASSUME Fault PROVE faults' \in 0..MaxFaults
  BY <1>1, BoundsAssumption DEF Fault, TypeOK
<1>2. ASSUME Over PROVE deleting' \in 0..5 \cup {Closed} /\ gone' \in [Tables -> SUBSET Rows]
                        /\ late' \in BOOLEAN
  BY <1>0, <1>2 DEF Over
<1>3. CASE UNCHANGED vars BY <1>3 DEF TypeOK, vars, requestVars, deletionVars
<1>4. ASSUME NEW h \in Requests, RequestStep(h) PROVE TypeOK'
  <2>1. ASSUME NEW t \in {Snapshots, Events, Logs}, Auth(h, t) PROVE TypeOK'
    <3>1. t \in Tables BY DEF Tables
    <3> QED BY <2>1, <3>1 DEF TypeOK, Auth, Goes, Steps, deletionVars
  <2>2. CASE BeginSnapshot(h)
    <3>1. /\ UNCHANGED <<present, rows, deletionVars, saved, faults>> /\ fresh' = TRUE
          /\ Begins(h) \/ (Ends(h) /\ UNCHANGED begun)
      BY <2>2 DEF BeginSnapshot
    <3>2. CASE Begins(h) BY <3>1, <3>2, BeginsType DEF TypeOK, deletionVars
    <3>3. CASE Ends(h) /\ UNCHANGED begun BY <3>1, <3>3, EndsType DEF TypeOK, deletionVars
    <3> QED BY <3>1, <3>2, <3>3
  <2>3. CASE BeginInsert(h)
    BY <2>3, BeginsType DEF BeginInsert, TypeOK, deletionVars
  <2>4. CASE Insert(h)
    <3>1. /\ UNCHANGED <<present, begun, fresh, deleting, gone, faults>>
          /\ late' \in BOOLEAN
      BY <2>4 DEF Insert, TypeOK
    <3>2. rows' \in [Tables -> SUBSET Rows] /\ saved' \subseteq Rows
      BY <2>4 DEF Insert, TypeOK, OwnRow
    <3>3. /\ step' \in [Requests -> Steps] /\ table' \in [Requests -> Tables]
          /\ own' \in [Requests -> Rows \cup {0}] /\ old' \in [Requests -> SUBSET Rows]
      <4>1. CASE Ends(h) BY <4>1, EndsType
      <4>2. CASE Goes(h, "inserted") /\ UNCHANGED <<table, own, old>>
        BY <4>2 DEF Goes, Steps, TypeOK
      <4> QED BY <2>4, <4>1, <4>2 DEF Insert
    <3> QED BY <3>1, <3>2, <3>3 DEF TypeOK
  <2>5. CASE Pluck(h)
    <3>1. Surplus(rows[Logs]) \in SUBSET Rows BY <1>0 DEF Surplus, TypeOK
    <3> QED BY <2>5, <3>1 DEF Pluck, Goes, Steps, TypeOK, deletionVars
  <2>6. CASE Trim(h)
    <3>1. rows' \in [Tables -> SUBSET Rows] BY <2>6 DEF Trim, TypeOK
    <3> QED BY <2>6, <3>1, EndsType DEF Trim, TypeOK, deletionVars
  <2>7. CASE RequestFails(h)
    BY <1>1, <2>7, EndsType DEF RequestFails, TypeOK, deletionVars
  <2> QED BY <1>4, <2>1, <2>2, <2>3, <2>4, <2>5, <2>6, <2>7 DEF RequestStep
<1>5. CASE Notify
  <2>1. begun + 1 \in Rows /\ begun' \in 0..MaxRows
    BY <1>5, BoundsAssumption DEF Notify, TypeOK, Rows
  <2>2. rows' \in [Tables -> SUBSET Rows] BY <1>5, <2>1 DEF Notify, TypeOK
  <2> QED BY <1>5, <2>1, <2>2 DEF Notify, TypeOK, requestVars, deletionVars
<1>6. CASE BeginDelete
  <2>1. deleting' = 0 /\ gone' = Nothing /\ late' = FALSE BY <1>6 DEF BeginDelete
  <2>2. deleting' \in 0..5 \cup {Closed} BY <2>1
  <2>3. gone' \in [Tables -> SUBSET Rows] /\ late' \in BOOLEAN BY <1>0, <2>1
  <2> QED BY <1>6, <2>2, <2>3 DEF BeginDelete, TypeOK, requestVars
<1>7. CASE DeleteRows
  <2>1. deleting \in 0..3 BY <1>0, <1>7 DEF DeleteRows, TypeOK, Closed
  <2>2. Order[deleting + 1] \in Tables BY <1>0, <2>1
  <2>3. gone' \in [Tables -> SUBSET Rows] BY <1>7, <2>2 DEF DeleteRows, TypeOK
  <2>4. deleting' \in 0..5 \cup {Closed} BY <1>7, <2>1 DEF DeleteRows
  <2> QED BY <1>7, <2>3, <2>4 DEF DeleteRows, TypeOK, requestVars
<1>8. CASE DeleteRow BY <1>8 DEF DeleteRow, TypeOK, requestVars
<1>9. CASE DeleteRefused BY <1>2, <1>9 DEF DeleteRefused, TypeOK, requestVars
<1>10. CASE DeleteFails BY <1>1, <1>2, <1>10 DEF DeleteFails, TypeOK, requestVars
<1>11. CASE Commit
  <2>1. rows' \in [Tables -> SUBSET Rows] BY <1>11 DEF Commit, TypeOK
  <2> QED BY <1>2, <1>11, <2>1 DEF Commit, TypeOK, requestVars
<1>12. CASE CleanupOldMetrics
  <2>1. PICK cutoff \in rows[Snapshots] :
           rows' = [rows EXCEPT ![Snapshots] = Newer(cutoff, rows[Snapshots])]
    BY <1>12 DEF CleanupOldMetrics
  <2>2. Newer(cutoff, rows[Snapshots]) \in SUBSET Rows BY <1>0 DEF Newer, TypeOK
  <2>3. rows' \in [Tables -> SUBSET Rows] BY <2>1, <2>2 DEF TypeOK
  <2> QED BY <1>12, <2>3 DEF CleanupOldMetrics, TypeOK, requestVars, deletionVars
<1>13. CASE MarkerAges BY <1>13 DEF MarkerAges, TypeOK, requestVars, deletionVars
<1>14. CASE Crash
  <2>1. /\ step' \in [Requests -> Steps] /\ table' \in [Requests -> Tables]
        /\ own' \in [Requests -> Rows \cup {0}] /\ old' \in [Requests -> SUBSET Rows]
    BY <1>0, <1>14 DEF Crash, Steps
  <2> QED BY <1>1, <1>2, <1>14, <2>1 DEF Crash, TypeOK
<1> QED
  BY <1>3, <1>4, <1>5, <1>6, <1>7, <1>8, <1>9, <1>10, <1>11, <1>12, <1>13, <1>14 DEF Next

LEMMA OwnRowStep == TypeOK /\ OwnRow /\ [Next]_vars => OwnRow'
<1> SUFFICES ASSUME TypeOK, OwnRow, [Next]_vars PROVE OwnRow' OBVIOUS
<1> USE DEF OwnRow
<1>1. CASE UNCHANGED <<step, own>> BY <1>1
<1>2. ASSUME NEW h \in Requests, Begins(h) PROVE OwnRow'
  <2>1. begun + 1 \in Rows BY <1>2, BoundsAssumption DEF Begins, TypeOK, Rows
  <2> QED BY <1>2, <2>1 DEF Begins, Goes, TypeOK
<1>3. ASSUME NEW h \in Requests, Ends(h) PROVE OwnRow'
  BY <1>3 DEF Ends, Goes, TypeOK
<1>4. ASSUME NEW h \in Requests, NEW n \in {"found", "inserted", "plucked"}, Goes(h, n),
             UNCHANGED own
      PROVE  OwnRow'
  BY <1>4 DEF Goes, TypeOK
<1>5. CASE Crash BY <1>5 DEF Crash
<1>6. ASSUME NEW h \in Requests, RequestStep(h) PROVE OwnRow'
  BY <1>2, <1>3, <1>4, <1>6
  DEF RequestStep, Auth, BeginSnapshot, BeginInsert, Insert, Pluck, Trim, RequestFails
<1> QED
  BY <1>1, <1>5, <1>6
  DEF Next, vars, requestVars, Notify, BeginDelete, DeleteRows, DeleteRow, DeleteRefused,
      DeleteFails, Commit, CleanupOldMetrics, MarkerAges

\* What each action does to the logs and to what is known to be old.
LEMMA LogsStep ==
  TypeOK /\ OwnRow /\ rows[Logs] \subseteq saved /\ PluckedAreOld /\ NewestLogsKept /\ [Next]_vars
    => rows'[Logs] \subseteq saved' /\ PluckedAreOld' /\ NewestLogsKept'
<1> SUFFICES ASSUME TypeOK, OwnRow, rows[Logs] \subseteq saved, PluckedAreOld, NewestLogsKept,
                    [Next]_vars
             PROVE  rows'[Logs] \subseteq saved' /\ PluckedAreOld' /\ NewestLogsKept'
  OBVIOUS
<1>0. /\ saved \in SUBSET Rows /\ rows[Logs] \in SUBSET Rows /\ Keep \in Nat
      /\ Logs # Snapshots /\ Logs # Commands /\ Logs \in Tables
  BY BoundsAssumption DEF TypeOK, Tables, Logs, Snapshots, Commands
<1>1. ASSUME rows'[Logs] = rows[Logs], UNCHANGED <<present, saved, step, old>>
      PROVE  rows'[Logs] \subseteq saved' /\ PluckedAreOld' /\ NewestLogsKept'
  BY <1>1 DEF PluckedAreOld, NewestLogsKept
<1>2. ASSUME NEW h \in Requests, rows'[Logs] = rows[Logs], UNCHANGED <<present, saved>>,
             Ends(h) \/ Begins(h)
      PROVE  rows'[Logs] \subseteq saved' /\ PluckedAreOld' /\ NewestLogsKept'
  <2>1. \A k \in Requests : step'[k] = "plucked" => step[k] = "plucked" /\ old'[k] = old[k]
    BY <1>2 DEF Ends, Begins, Goes, TypeOK
  <2> QED BY <1>2, <2>1 DEF PluckedAreOld, NewestLogsKept
<1>3. ASSUME NEW h \in Requests, NEW t \in {Snapshots, Events, Logs}, Auth(h, t)
      PROVE  rows'[Logs] \subseteq saved' /\ PluckedAreOld' /\ NewestLogsKept'
  BY <1>3 DEF Auth, Goes, PluckedAreOld, NewestLogsKept, TypeOK
<1>4. ASSUME NEW h \in Requests, Insert(h)
      PROVE  rows'[Logs] \subseteq saved' /\ PluckedAreOld' /\ NewestLogsKept'
  <2>1. own[h] \in Rows /\ present' = present BY <1>4 DEF Insert, OwnRow
  <2>2. /\ saved' \in SUBSET Rows /\ saved \subseteq saved'
        /\ rows'[Logs] \subseteq saved' /\ saved' \ saved \subseteq rows'[Logs]
        /\ rows[Logs] \subseteq rows'[Logs]
    <3>1. CASE present /\ table[h] = Logs
      BY <1>0, <1>4, <2>1, <3>1 DEF Insert, TypeOK
    <3>2. CASE ~(present /\ table[h] = Logs)
      BY <1>0, <1>4, <3>2 DEF Insert, TypeOK
    <3> QED BY <3>1, <3>2
  <2>3. \A k \in Requests : step'[k] = "plucked" => step[k] = "plucked" /\ old'[k] = old[k]
    BY <1>4 DEF Insert, Ends, Goes, TypeOK
  <2>4. \A l : /\ Cardinality(Newer(l, saved)) <= Cardinality(Newer(l, saved'))
               /\ Cardinality(Newer(l, saved)) \in Nat /\ Cardinality(Newer(l, saved')) \in Nat
    BY <1>0, <2>2, MoreNewer
  <2>5. PluckedAreOld'
    <3> SUFFICES ASSUME NEW k \in Requests, step'[k] = "plucked", NEW l \in old'[k]
                 PROVE  Cardinality(Newer(l, saved')) >= Keep
      BY DEF PluckedAreOld
    <3>1. Cardinality(Newer(l, saved)) >= Keep BY <2>3 DEF PluckedAreOld
    <3> QED BY <1>0, <2>4, <3>1
  <2>6. NewestLogsKept'
    <3> SUFFICES ASSUME present, NEW l \in saved', Cardinality(Newer(l, saved')) < Keep
                 PROVE  l \in rows'[Logs]
      BY <2>1 DEF NewestLogsKept
    <3>1. CASE l \in saved
      <4>1. Cardinality(Newer(l, saved)) < Keep BY <1>0, <2>4
      <4> QED BY <2>2, <3>1, <4>1 DEF NewestLogsKept
    <3> QED BY <2>2, <3>1
  <2> QED BY <2>2, <2>5, <2>6
<1>5. ASSUME NEW h \in Requests, Pluck(h)
      PROVE  rows'[Logs] \subseteq saved' /\ PluckedAreOld' /\ NewestLogsKept'
  <2>1. /\ UNCHANGED <<present, rows, saved>>
        /\ old' = [old EXCEPT ![h] = Surplus(rows[Logs])]
        /\ \A k \in Requests \ {h} : step'[k] = step[k]
    BY <1>5 DEF Pluck, Goes, TypeOK
  <2>2. ASSUME NEW l \in Surplus(rows[Logs]) PROVE Cardinality(Newer(l, saved)) >= Keep
    <3>1. Cardinality(Newer(l, rows[Logs])) >= Keep BY DEF Surplus
    <3> QED BY <1>0, <3>1, MoreNewer
  <2>3. PluckedAreOld'
    <3> SUFFICES ASSUME NEW k \in Requests, step'[k] = "plucked", NEW l \in old'[k]
                 PROVE  Cardinality(Newer(l, saved)) >= Keep
      BY <2>1 DEF PluckedAreOld
    <3>1. CASE k = h BY <2>1, <2>2, <3>1 DEF TypeOK
    <3>2. CASE k # h BY <2>1, <3>2 DEF TypeOK, PluckedAreOld
    <3> QED BY <3>1, <3>2
  <2> QED BY <2>1, <2>3 DEF NewestLogsKept
<1>6. ASSUME NEW h \in Requests, Trim(h)
      PROVE  rows'[Logs] \subseteq saved' /\ PluckedAreOld' /\ NewestLogsKept'
  <2>1. /\ step[h] = "plucked" /\ UNCHANGED <<present, saved>>
        /\ rows'[Logs] = rows[Logs] \ old[h] /\ Ends(h)
    BY <1>0, <1>6 DEF Trim, TypeOK
  <2>2. \A k \in Requests : step'[k] = "plucked" => step[k] = "plucked" /\ old'[k] = old[k]
    BY <2>1 DEF Ends, Goes, TypeOK
  <2>3. NewestLogsKept'
    <3> SUFFICES ASSUME present, NEW l \in saved, Cardinality(Newer(l, saved)) < Keep
                 PROVE  l \in rows[Logs] \ old[h]
      BY <2>1 DEF NewestLogsKept
    <3>1. Cardinality(Newer(l, saved)) \in Nat BY <1>0, MoreNewer
    <3>2. l \notin old[h] BY <1>0, <2>1, <3>1 DEF PluckedAreOld
    <3> QED BY <3>2 DEF NewestLogsKept
  <2> QED BY <2>1, <2>2, <2>3 DEF PluckedAreOld
<1>7. ASSUME NEW h \in Requests, RequestStep(h)
      PROVE  rows'[Logs] \subseteq saved' /\ PluckedAreOld' /\ NewestLogsKept'
  <2>1. CASE BeginSnapshot(h) \/ BeginInsert(h) \/ RequestFails(h)
    BY <1>2, <2>1 DEF BeginSnapshot, BeginInsert, RequestFails
  <2> QED BY <1>3, <1>4, <1>5, <1>6, <1>7, <2>1 DEF RequestStep
<1>8. CASE Commit
  <2>1. /\ ~present' /\ UNCHANGED <<saved, step, old>>
        /\ rows' = [t \in Tables |-> rows[t] \ gone[t]]
    BY <1>8 DEF Commit, requestVars
  <2>2. rows'[Logs] \subseteq rows[Logs] BY <1>0, <2>1
  <2> QED BY <2>1, <2>2 DEF PluckedAreOld, NewestLogsKept
<1>9. CASE Crash
  BY <1>9 DEF Crash, PluckedAreOld, NewestLogsKept
<1>10. CASE Notify \/ CleanupOldMetrics
  <2>1. rows'[Logs] = rows[Logs] /\ UNCHANGED <<present, saved, step, old>>
    BY <1>0, <1>10 DEF Notify, CleanupOldMetrics, requestVars, TypeOK
  <2> QED BY <1>1, <2>1
<1>11. CASE UNCHANGED <<present, rows, saved, step, old>> BY <1>1, <1>11
<1> QED
  BY <1>7, <1>8, <1>9, <1>10, <1>11
  DEF Next, vars, requestVars, BeginDelete, DeleteRows, DeleteRow, DeleteRefused,
      DeleteFails, MarkerAges

LEMMA EmptiedStep == TypeOK /\ Emptied /\ [Next]_vars => Emptied'
<1> SUFFICES ASSUME TypeOK, Emptied, [Next]_vars PROVE Emptied' OBVIOUS
<1>0. /\ Len(Order) = 4 /\ \A i \in 1..4 : Order[i] \in Tables
      /\ deleting \in 0..5 \cup {Closed} /\ Logs \in Tables /\ Snapshots \in Tables
  BY DEF Order, Tables, TypeOK
<1>1. ASSUME \A t \in Tables : rows'[t] \subseteq rows[t], UNCHANGED <<deleting, gone, late>>
      PROVE  Emptied'
  BY <1>0, <1>1 DEF Emptied
<1>2. CASE deleting' = Closed \/ (late' /\ deleting # Closed) BY <1>2 DEF Emptied
<1>3. CASE BeginDelete
  <2>1. deleting' = 0 BY <1>3 DEF BeginDelete
  <2> QED BY <2>1 DEF Emptied
<1>4. CASE DeleteRows
  <2>1. /\ deleting < 4 /\ deleting' = deleting + 1 /\ UNCHANGED <<rows, late>>
        /\ gone' = [gone EXCEPT ![Order[deleting + 1]] = rows[Order[deleting + 1]]]
    BY <1>0, <1>4 DEF DeleteRows
  <2>2. deleting \in 0..3 /\ deleting # Closed BY <1>0, <2>1 DEF Closed
  <2>3. ASSUME NEW i \in 1..4, i <= deleting', ~late
        PROVE  rows[Order[i]] \subseteq gone'[Order[i]]
    <3>1. Order[i] \in Tables /\ Order[deleting + 1] \in Tables BY <1>0, <2>2
    <3>2. CASE Order[i] = Order[deleting + 1] BY <2>1, <3>1, <3>2 DEF TypeOK
    <3>3. CASE Order[i] # Order[deleting + 1]
      <4>1. i <= deleting BY <2>1, <2>2, <2>3, <3>3
      <4>2. gone'[Order[i]] = gone[Order[i]] BY <2>1, <3>1, <3>3 DEF TypeOK
      <4> QED BY <2>2, <2>3, <4>1, <4>2 DEF Emptied
    <3> QED BY <3>2, <3>3
  <2> QED BY <2>1, <2>3 DEF Emptied
<1>5. CASE DeleteRow BY <1>0, <1>5 DEF DeleteRow, Childless, Emptied
<1>6. ASSUME NEW h \in Requests, RequestStep(h) PROVE Emptied'
  <2>1. CASE Insert(h)
    <3>1. \/ late' = (deleting # Closed) /\ UNCHANGED deleting
          \/ UNCHANGED <<rows, deleting, gone, late>>
      BY <2>1 DEF Insert
    <3> QED BY <1>1, <1>2, <3>1
  <2>2. CASE Trim(h)
    <3>1. \A t \in Tables : rows'[t] \subseteq rows[t] BY <1>0, <2>2 DEF Trim, TypeOK
    <3> QED BY <1>1, <2>2, <3>1 DEF Trim, deletionVars
  <2>3. CASE UNCHANGED <<rows, deletionVars>> BY <1>1, <2>3 DEF deletionVars
  <2> QED
    BY <1>6, <2>1, <2>2, <2>3
    DEF RequestStep, Auth, BeginSnapshot, BeginInsert, Pluck, RequestFails
<1>7. CASE CleanupOldMetrics
  <2>1. \A t \in Tables : rows'[t] \subseteq rows[t]
    BY <1>0, <1>7 DEF CleanupOldMetrics, Newer, TypeOK
  <2> QED BY <1>1, <1>7, <2>1 DEF CleanupOldMetrics, deletionVars
<1>8. CASE UNCHANGED <<rows, deletionVars>> BY <1>1, <1>8 DEF deletionVars
<1>9. CASE Notify BY <1>2, <1>9 DEF Notify, deletionVars
<1> QED
  BY <1>2, <1>3, <1>4, <1>5, <1>6, <1>7, <1>8, <1>9
  DEF Next, vars, DeleteRefused, DeleteFails, Commit, MarkerAges, Crash, Over

-----------------------------------------------------------------------------
(* How many logs stay.                                                      *)

\* A set of natural numbers has a least one.
LEMMA LeastOf ==
  ASSUME NEW T \in SUBSET Nat, T # {}
  PROVE  \E m \in T : \A l \in T : m <= l
<1>1. \E R : IsWellFoundedOn(R, Nat) /\ \A x, y \in Nat : x < y => <<x, y>> \in R
  <2>1. IsWellFoundedOn(OpToRel(<, Nat), Nat) BY NatLessThanWellFounded
  <2>2. \A x, y \in Nat : x < y => <<x, y>> \in OpToRel(<, Nat) BY DEF OpToRel
  <2> QED BY <2>1, <2>2, Zenon
<1>2. PICK R : IsWellFoundedOn(R, Nat) /\ \A x, y \in Nat : x < y => <<x, y>> \in R BY <1>1
<1>3. \E m \in T : \A l \in T : ~(<<l, m>> \in R)
  <2>1. T \subseteq Nat /\ IsWellFoundedOn(R, Nat) BY <1>2
  <2> QED BY <2>1, WFMin, Zenon
<1>4. PICK m \in T : \A l \in T : ~(<<l, m>> \in R) BY <1>3
<1>5. ASSUME NEW l \in T PROVE m <= l
  <2>1. l \in Nat /\ m \in Nat /\ ~(l < m) BY <1>2, <1>4
  <2> QED BY <2>1
<1> QED BY <1>5

\* Rows and requests can be counted.
LEMMA Counts ==
  /\ \A S \in SUBSET Rows : IsFiniteSet(S) /\ Cardinality(S) \in Nat
  /\ \A S \in SUBSET Requests : IsFiniteSet(S) /\ Cardinality(S) \in Nat
<1>1. IsFiniteSet(Rows) BY FS_Interval, BoundsAssumption DEF Rows
<1> QED BY <1>1, RequestsAssumption, FS_Subset, FS_CardinalityType

LEMMA Smaller ==
  ASSUME NEW S \in SUBSET Rows, NEW T \in SUBSET S
  PROVE  Cardinality(T) <= Cardinality(S)
BY Counts, FS_Subset

\* What is not surplus is at most Keep logs: all but the oldest of them are
\* newer than it.
LEMMA FewStay ==
  ASSUME NEW S \in SUBSET Rows
  PROVE  Cardinality(S \ Surplus(S)) <= Keep
<1> DEFINE T == S \ Surplus(S)
<1>1. T \in SUBSET Rows /\ Keep \in Nat \ {0} BY BoundsAssumption
<1>2. \A l \in T : Newer(l, S) \in SUBSET Rows /\ Cardinality(Newer(l, S)) < Keep
  <2> SUFFICES ASSUME NEW l \in T
               PROVE  Newer(l, S) \in SUBSET Rows /\ Cardinality(Newer(l, S)) < Keep
    OBVIOUS
  <2>1. Newer(l, S) \in SUBSET Rows BY DEF Newer
  <2>2. Cardinality(Newer(l, S)) \in Nat BY <2>1, Counts
  <2>3. ~(Cardinality(Newer(l, S)) >= Keep) BY DEF Surplus
  <2> QED BY <1>1, <2>1, <2>2, <2>3
<1>3. T \in SUBSET S OBVIOUS
<1> SUFFICES Cardinality(T) <= Keep OBVIOUS
<1> HIDE DEF T
<1>4. CASE T = {} BY <1>1, <1>4, FS_EmptySet
<1>5. CASE T # {}
  <2>1. T \in SUBSET Nat BY <1>1 DEF Rows
  <2>2. PICK m \in T : \A l \in T : m <= l BY <1>5, <2>1, LeastOf
  <2>3. T \ {m} \in SUBSET Newer(m, S)
    <3>1. \A l \in T \ {m} : l \in Nat /\ m \in Nat /\ m <= l /\ l # m BY <2>1, <2>2
    <3> QED BY <1>3, <3>1 DEF Newer
  <2>4. Cardinality(T \ {m}) <= Cardinality(Newer(m, S)) BY <1>2, <2>3, Smaller
  <2>5. IsFiniteSet(T) /\ Cardinality(T) = Cardinality(T \ {m}) + 1
    <3>1. IsFiniteSet(T) /\ Cardinality(T) \in Nat BY <1>1, Counts
    <3> QED BY <3>1, FS_RemoveElement
  <2>6. Cardinality(T \ {m}) \in Nat /\ Cardinality(Newer(m, S)) \in Nat
    <3>1. T \ {m} \in SUBSET Rows BY <1>1
    <3> QED BY <1>2, <3>1, Counts
  <2> QED BY <1>1, <1>2, <2>4, <2>5, <2>6
<1> QED BY <1>4, <1>5

\* A log more is that of a request that begins to trim; what a request has
\* looked up leaves few; what it deletes was counted as taken.
LEMMA LogsPaidStep ==
  TypeOK /\ OwnRow /\ LogsPaid /\ [Next]_vars => LogsPaid'
<1> SUFFICES ASSUME TypeOK, OwnRow, LogsPaid, [Next]_vars, NEW P \in SUBSET Plucked'
             PROVE  Cardinality(rows'[Logs] \ Taken(P)')
                      <= Keep + Cardinality(Uploading' \ P) + faults' * Cardinality(Requests)
  BY DEF LogsPaid
<1>0. /\ rows[Logs] \in SUBSET Rows /\ Keep \in Nat /\ faults \in Nat
      /\ Logs # Snapshots /\ Logs # Commands /\ Logs # Events /\ Logs \in Tables
  BY BoundsAssumption DEF TypeOK, Tables, Logs, Snapshots, Commands, Events
<1>1. /\ Uploading \in SUBSET Requests /\ Uploading' \in SUBSET Requests
      /\ Plucked \in SUBSET Requests /\ P \in SUBSET Requests
  BY DEF Uploading, Plucked
<1>2. PICK N \in Nat : N = Cardinality(Requests) BY Counts
<1>3. PICK f \in Nat : f = faults * N BY <1>0
\* The counts before the step, of requests Q that know what they delete.
<1>4. ASSUME NEW Q \in SUBSET Plucked
      PROVE  \E s, b \in Nat : /\ s = Cardinality(rows[Logs] \ Taken(Q))
                               /\ b = Cardinality(Uploading \ Q)
                               /\ s <= Keep + b + f
  <2>1. rows[Logs] \ Taken(Q) \in SUBSET Rows /\ Uploading \ Q \in SUBSET Requests
    BY <1>0, <1>1
  <2>2. Cardinality(rows[Logs] \ Taken(Q)) \in Nat /\ Cardinality(Uploading \ Q) \in Nat
    BY <2>1, Counts
  <2>3. Cardinality(rows[Logs] \ Taken(Q))
          <= Keep + Cardinality(Uploading \ Q) + faults * Cardinality(Requests)
    BY DEF LogsPaid
  <2> QED BY <1>2, <1>3, <2>2, <2>3
<1>5. PICK u \in Nat : u = Cardinality(Uploading' \ P)
  <2>1. Uploading' \ P \in SUBSET Requests BY <1>1
  <2> QED BY <2>1, Counts
<1>6. ASSUME faults' = faults,
             \E x \in Nat : x = Cardinality(rows'[Logs] \ Taken(P)') /\ x <= Keep + u + f
      PROVE  Cardinality(rows'[Logs] \ Taken(P)')
               <= Keep + Cardinality(Uploading' \ P) + faults' * Cardinality(Requests)
  BY <1>2, <1>3, <1>5, <1>6
<1>7. ASSUME faults' = faults + 1,
             \E x \in Nat : x = Cardinality(rows'[Logs] \ Taken(P)') /\ x <= Keep + u + f + N
      PROVE  Cardinality(rows'[Logs] \ Taken(P)')
               <= Keep + Cardinality(Uploading' \ P) + faults' * Cardinality(Requests)
  <2>1. faults' * N = f + N BY <1>0, <1>3, <1>7
  <2> QED BY <1>0, <1>2, <1>5, <1>7, <2>1
\* A step that takes no log away from P, and brings none.
<1>8. ASSUME rows'[Logs] \subseteq rows[Logs], UNCHANGED faults, P \in SUBSET Plucked,
             \A h \in P : old'[h] = old[h], Uploading \subseteq Uploading'
      PROVE  Cardinality(rows'[Logs] \ Taken(P)')
               <= Keep + Cardinality(Uploading' \ P) + faults' * Cardinality(Requests)
  <2>1. PICK s, b \in Nat : /\ s = Cardinality(rows[Logs] \ Taken(P))
                            /\ b = Cardinality(Uploading \ P) /\ s <= Keep + b + f
    BY <1>4, <1>8
  <2>2. Taken(P)' = Taken(P) BY <1>8 DEF Taken
  <2>3. /\ rows'[Logs] \ Taken(P)' \in SUBSET (rows[Logs] \ Taken(P))
        /\ rows[Logs] \ Taken(P) \in SUBSET Rows /\ rows'[Logs] \ Taken(P)' \in SUBSET Rows
    BY <1>0, <1>8, <2>2
  <2>4. PICK x \in Nat : x = Cardinality(rows'[Logs] \ Taken(P)') /\ x <= s
    BY <2>1, <2>3, Counts, Smaller
  <2>5. b <= u
    <3>1. Uploading \ P \in SUBSET (Uploading' \ P) BY <1>8
    <3>2. Uploading' \ P \in SUBSET Requests BY <1>1
    <3>3. IsFiniteSet(Uploading' \ P) BY <3>2, Counts
    <3> QED BY <1>5, <2>1, <3>1, <3>3, FS_Subset
  <2>6. x <= Keep + u + f BY <1>0, <2>1, <2>4, <2>5
  <2> QED BY <1>6, <1>8, <2>4, <2>6
<1>9. ASSUME NEW h \in Requests, Insert(h), present, table[h] = Logs
      PROVE  Cardinality(rows'[Logs] \ Taken(P)')
               <= Keep + Cardinality(Uploading' \ P) + faults' * Cardinality(Requests)
  <2>1. /\ step[h] = "begun" /\ step' = [step EXCEPT ![h] = "inserted"]
        /\ rows'[Logs] = rows[Logs] \cup {own[h]} /\ UNCHANGED <<old, faults>>
        /\ own[h] \in Rows
    BY <1>0, <1>9 DEF Insert, Goes, TypeOK, OwnRow
  <2>2. /\ h \notin P /\ P \in SUBSET Plucked /\ h \notin Uploading
        /\ Uploading' = Uploading \cup {h}
    BY <1>9, <2>1 DEF Plucked, Uploading, TypeOK
  <2>3. Taken(P)' = Taken(P) BY <2>1 DEF Taken
  <2>4. PICK s, b \in Nat : /\ s = Cardinality(rows[Logs] \ Taken(P))
                            /\ b = Cardinality(Uploading \ P) /\ s <= Keep + b + f
    BY <1>4, <2>2
  <2>5. u = b + 1
    <3>1. Uploading' \ P = (Uploading \ P) \cup {h} /\ h \notin Uploading \ P BY <2>2
    <3>2. Uploading \ P \in SUBSET Requests BY <1>1
    <3>3. IsFiniteSet(Uploading \ P) BY <3>2, Counts
    <3> QED BY <1>5, <2>4, <3>1, <3>3, FS_AddElement
  <2>6. PICK x \in Nat : x = Cardinality(rows'[Logs] \ Taken(P)') /\ x <= s + 1
    <3>1. PICK S, T \in SUBSET Rows : S = rows[Logs] \ Taken(P) /\ T = rows'[Logs] \ Taken(P)'
      BY <1>0, <2>1
    <3>2. T \in SUBSET (S \cup {own[h]}) /\ S \cup {own[h]} \in SUBSET Rows
      BY <2>1, <2>3, <3>1
    <3>3. Cardinality(T) <= Cardinality(S \cup {own[h]}) BY <3>2, Smaller
    <3>4. Cardinality(S \cup {own[h]}) <= s + 1 /\ Cardinality(S \cup {own[h]}) \in Nat
      <4>1. IsFiniteSet(S) /\ Cardinality(S) = s BY <2>4, <3>1, Counts
      <4>2. Cardinality(S \cup {own[h]}) \in Nat BY <3>2, Counts
      <4>3. Cardinality(S \cup {own[h]}) = IF own[h] \in S THEN s ELSE s + 1
        BY <4>1, FS_AddElement
      <4> QED BY <4>2, <4>3
    <3>5. Cardinality(T) \in Nat BY Counts
    <3> QED BY <3>1, <3>3, <3>4, <3>5
  <2>7. x <= Keep + u + f BY <1>0, <2>4, <2>5, <2>6
  <2> QED BY <1>6, <2>1, <2>6, <2>7
<1>10. ASSUME NEW h \in Requests, Pluck(h)
       PROVE  Cardinality(rows'[Logs] \ Taken(P)')
                <= Keep + Cardinality(Uploading' \ P) + faults' * Cardinality(Requests)
  <2>1. /\ step[h] = "inserted" /\ step' = [step EXCEPT ![h] = "plucked"]
        /\ old' = [old EXCEPT ![h] = Surplus(rows[Logs])] /\ UNCHANGED <<rows, faults>>
    BY <1>10 DEF Pluck, Goes
  <2>2. /\ Uploading' = Uploading /\ \A k \in Requests \ {h} : old'[k] = old[k]
        /\ P \ {h} \in SUBSET Plucked
    BY <2>1 DEF Plucked, Uploading, TypeOK
  <2>3. CASE h \notin P
    <3>1. \A k \in P : old'[k] = old[k] BY <1>1, <2>2, <2>3
    <3> QED BY <1>8, <2>1, <2>2, <2>3, <3>1
  <2>4. CASE h \in P
    <3>1. old'[h] = Surplus(rows[Logs]) BY <2>1 DEF TypeOK
    <3>2. Surplus(rows[Logs]) \subseteq Taken(P)' BY <2>4, <3>1 DEF Taken
    <3>3. PICK S, T \in SUBSET Rows :
            S = rows[Logs] \ Surplus(rows[Logs]) /\ T = rows'[Logs] \ Taken(P)'
      BY <1>0, <2>1
    <3>4. T \in SUBSET S BY <2>1, <3>2, <3>3
    <3>5. Cardinality(T) <= Cardinality(S) /\ Cardinality(S) <= Keep
          /\ Cardinality(T) \in Nat /\ Cardinality(S) \in Nat
      BY <1>0, <3>3, <3>4, Smaller, FewStay, Counts
    <3>6. Cardinality(T) <= Keep + u + f BY <1>0, <3>5
    <3> QED BY <1>6, <2>1, <3>3, <3>5, <3>6
  <2> QED BY <2>3, <2>4
<1>11. ASSUME NEW h \in Requests, Trim(h)
       PROVE  Cardinality(rows'[Logs] \ Taken(P)')
                <= Keep + Cardinality(Uploading' \ P) + faults' * Cardinality(Requests)
  <2>1. /\ step[h] = "plucked" /\ step' = [step EXCEPT ![h] = "idle"]
        /\ rows'[Logs] = rows[Logs] \ old[h] /\ UNCHANGED faults
        /\ old' = [old EXCEPT ![h] = {}]
    BY <1>0, <1>11 DEF Trim, Ends, Goes, TypeOK
  <2>2. PICK Q : Q = P \cup {h} OBVIOUS
  <2>3. /\ h \notin P /\ Q \in SUBSET Plucked /\ Uploading' \ P = Uploading \ Q
    BY <1>11, <2>1, <2>2 DEF Plucked, Uploading, TypeOK
  <2>4. rows'[Logs] \ Taken(P)' = rows[Logs] \ Taken(Q)
    <3>1. \A k \in P : old'[k] = old[k] BY <1>1, <2>1, <2>3 DEF TypeOK
    <3>2. Taken(P)' = Taken(P) BY <3>1 DEF Taken
    <3>3. Taken(Q) = Taken(P) \cup old[h] BY <2>2 DEF Taken
    <3> QED BY <2>1, <3>2, <3>3
  <2>5. PICK s, b \in Nat : /\ s = Cardinality(rows[Logs] \ Taken(Q))
                            /\ b = Cardinality(Uploading \ Q) /\ s <= Keep + b + f
    BY <1>4, <2>3
  <2>6. b = u BY <1>5, <2>3, <2>5
  <2>7. s = Cardinality(rows'[Logs] \ Taken(P)') BY <2>4, <2>5
  <2> QED BY <1>6, <2>1, <2>5, <2>6, <2>7
<1>12. ASSUME NEW h \in Requests, RequestFails(h)
       PROVE  Cardinality(rows'[Logs] \ Taken(P)')
                <= Keep + Cardinality(Uploading' \ P) + faults' * Cardinality(Requests)
  <2>1. /\ step' = [step EXCEPT ![h] = "idle"] /\ UNCHANGED rows /\ faults' = faults + 1
        /\ old' = [old EXCEPT ![h] = {}]
    BY <1>12 DEF RequestFails, Fault, Ends, Goes
  <2>2. /\ h \notin P /\ P \in SUBSET Plucked
        /\ Uploading \ P \subseteq (Uploading' \ P) \cup {h}
    BY <1>12, <2>1 DEF Plucked, Uploading, TypeOK
  <2>3. Taken(P)' = Taken(P)
    <3>1. \A k \in P : old'[k] = old[k] BY <1>1, <2>1, <2>2 DEF TypeOK
    <3> QED BY <3>1 DEF Taken
  <2>4. PICK s, b \in Nat : /\ s = Cardinality(rows[Logs] \ Taken(P))
                            /\ b = Cardinality(Uploading \ P) /\ s <= Keep + b + f
    BY <1>4, <2>2
  <2>5. b <= u + 1
    <3>1. PICK S, T \in SUBSET Requests : S = Uploading \ P /\ T = Uploading' \ P BY <1>1
    <3>2. IsFiniteSet(T) /\ Cardinality(T) = u /\ Cardinality(S) = b
      BY <1>5, <2>4, <3>1, Counts
    <3>3. /\ IsFiniteSet(T \cup {h}) /\ Cardinality(T \cup {h}) <= u + 1
          /\ Cardinality(T \cup {h}) \in Nat
      <4>1. T \cup {h} \in SUBSET Requests BY <1>12
      <4> QED BY <3>2, <4>1, FS_AddElement, Counts
    <3>4. S \in SUBSET (T \cup {h}) BY <2>2, <3>1
    <3>5. Cardinality(S) <= Cardinality(T \cup {h}) BY <3>3, <3>4, FS_Subset
    <3> QED BY <3>2, <3>3, <3>5
  <2>6. 1 <= N
    <3>1. Requests # {} /\ IsFiniteSet(Requests) BY <1>12, RequestsAssumption
    <3>2. N # 0 BY <1>2, <3>1, FS_EmptySet
    <3> QED BY <3>2
  <2>7. s = Cardinality(rows'[Logs] \ Taken(P)') BY <2>1, <2>3, <2>4
  <2>8. s <= Keep + u + f + N BY <1>0, <2>4, <2>5, <2>6
  <2> QED BY <1>7, <2>1, <2>4, <2>7, <2>8
<1>13. CASE Crash
  <2>1. /\ step' = [h \in Requests |-> "idle"] /\ UNCHANGED rows /\ faults' = faults + 1
    BY <1>13 DEF Crash, Fault
  <2>2. P = {} BY <2>1 DEF Plucked
  <2>3. Taken(P)' = {} /\ Taken(P) = {} /\ P \in SUBSET Plucked BY <2>2 DEF Taken
  <2>4. PICK s, b \in Nat : /\ s = Cardinality(rows[Logs] \ Taken(P))
                            /\ b = Cardinality(Uploading \ P) /\ s <= Keep + b + f
    BY <1>4, <2>3
  <2>5. b <= N
    <3>1. Uploading \ P \in SUBSET Requests BY <1>1
    <3> QED BY <1>2, <2>4, <3>1, RequestsAssumption, FS_Subset
  <2>6. s = Cardinality(rows'[Logs] \ Taken(P)') BY <2>1, <2>3, <2>4
  <2>7. s <= Keep + u + f + N BY <1>0, <2>4, <2>5
  <2> QED BY <1>7, <2>1, <2>4, <2>6, <2>7
\* Steps without a log of a request that was inserting one.
<1>14. ASSUME NEW h \in Requests, step[h] \in {"idle", "found", "begun"},
              NEW n \in {"idle", "found", "begun"}, step' = [step EXCEPT ![h] = n],
              old' = old \/ old' = [old EXCEPT ![h] = {}],
              rows'[Logs] \subseteq rows[Logs], UNCHANGED faults
       PROVE  Cardinality(rows'[Logs] \ Taken(P)')
                <= Keep + Cardinality(Uploading' \ P) + faults' * Cardinality(Requests)
  <2>1. P \in SUBSET Plucked /\ h \notin P /\ Uploading \subseteq Uploading'
    BY <1>14 DEF Plucked, Uploading, TypeOK
  <2>2. \A k \in P : old'[k] = old[k] BY <1>1, <1>14, <2>1 DEF TypeOK
  <2> QED BY <1>8, <1>14, <2>1, <2>2
<1>15. ASSUME NEW h \in Requests, RequestStep(h)
       PROVE  Cardinality(rows'[Logs] \ Taken(P)')
                <= Keep + Cardinality(Uploading' \ P) + faults' * Cardinality(Requests)
  <2>1. CASE \E t \in {Snapshots, Events, Logs} : Auth(h, t)
    <3>1. step[h] = "idle" /\ step' = [step EXCEPT ![h] = "found"]
          /\ UNCHANGED <<old, rows, faults>>
      BY <2>1 DEF Auth, Goes
    <3> QED BY <1>14, <3>1
  <2>2. CASE BeginSnapshot(h) \/ BeginInsert(h)
    <3>1. step[h] = "found" /\ UNCHANGED <<rows, faults>> BY <2>2 DEF BeginSnapshot, BeginInsert
    <3>2. \/ step' = [step EXCEPT ![h] = "begun"] /\ UNCHANGED old
          \/ step' = [step EXCEPT ![h] = "idle"] /\ old' = [old EXCEPT ![h] = {}]
      BY <2>2 DEF BeginSnapshot, BeginInsert, Begins, Ends, Goes
    <3> QED BY <1>14, <3>1, <3>2
  <2>3. CASE Insert(h) /\ ~(present /\ table[h] = Logs)
    <3>1. /\ step[h] = "begun" /\ UNCHANGED faults
          /\ step' = [step EXCEPT ![h] = "idle"] /\ old' = [old EXCEPT ![h] = {}]
      BY <2>3 DEF Insert, Ends, Goes
    <3>2. rows'[Logs] = rows[Logs] BY <1>0, <2>3 DEF Insert, TypeOK
    <3> QED BY <1>14, <3>1, <3>2
  <2> QED BY <1>9, <1>10, <1>11, <1>12, <1>15, <2>1, <2>2, <2>3 DEF RequestStep
<1>16. ASSUME rows'[Logs] \subseteq rows[Logs], UNCHANGED <<step, old, faults>>
       PROVE  Cardinality(rows'[Logs] \ Taken(P)')
                <= Keep + Cardinality(Uploading' \ P) + faults' * Cardinality(Requests)
  <2>1. P \in SUBSET Plucked /\ Uploading \subseteq Uploading'
    BY <1>16 DEF Plucked, Uploading
  <2> QED BY <1>8, <1>16, <2>1
<1>17. CASE Notify \/ CleanupOldMetrics
  <2>1. rows'[Logs] = rows[Logs] /\ UNCHANGED <<step, old, faults>>
    BY <1>0, <1>17 DEF Notify, CleanupOldMetrics, requestVars, TypeOK
  <2> QED BY <1>16, <2>1
<1>18. CASE Commit
  <2>1. rows' = [t \in Tables |-> rows[t] \ gone[t]] /\ UNCHANGED <<step, old, faults>>
    BY <1>18 DEF Commit, requestVars
  <2> QED BY <1>0, <1>16, <2>1
<1>19. CASE DeleteFails
  <2>1. UNCHANGED <<step, old, rows>> /\ faults' = faults + 1
    BY <1>19 DEF DeleteFails, Fault, requestVars
  <2>2. P \in SUBSET Plucked /\ Uploading' = Uploading /\ Taken(P)' = Taken(P)
    BY <2>1 DEF Plucked, Uploading, Taken
  <2>3. PICK s, b \in Nat : /\ s = Cardinality(rows[Logs] \ Taken(P))
                            /\ b = Cardinality(Uploading \ P) /\ s <= Keep + b + f
    BY <1>4, <2>2
  <2>4. s = Cardinality(rows'[Logs] \ Taken(P)') /\ b = u BY <1>5, <2>1, <2>2, <2>3
  <2>5. s <= Keep + u + f + N BY <1>0, <2>3, <2>4
  <2> QED BY <1>7, <2>1, <2>3, <2>4, <2>5
<1>20. CASE UNCHANGED <<rows, step, old, faults>> BY <1>16, <1>20
<1> QED
  BY <1>13, <1>15, <1>17, <1>18, <1>19, <1>20
  DEF Next, vars, requestVars, BeginDelete, DeleteRows, DeleteRow, DeleteRefused, MarkerAges

LEMMA InitIInv == Init => IInv
<1> SUFFICES ASSUME Init PROVE IInv OBVIOUS
<1>0. Nothing \in [Tables -> SUBSET Rows] /\ Nothing[Logs] = {} /\ Events \in Tables
  BY DEF Nothing, Tables
<1>1. TypeOK
  <2>1. /\ step \in [Requests -> Steps] /\ table \in [Requests -> Tables]
        /\ own \in [Requests -> Rows \cup {0}] /\ old \in [Requests -> SUBSET Rows]
    BY <1>0 DEF Init, Steps
  <2>2. begun \in 0..MaxRows /\ faults \in 0..MaxFaults BY BoundsAssumption DEF Init
  <2> QED BY <1>0, <2>1, <2>2 DEF Init, TypeOK
<1>2. OwnRow /\ PluckedAreOld BY DEF Init, OwnRow, PluckedAreOld
<1>3. rows[Logs] \subseteq saved /\ NewestLogsKept /\ Emptied
  BY <1>0 DEF Init, NewestLogsKept, Emptied
<1>4. LogsPaid
  <2>1. Cardinality({}) = 0 /\ Cardinality(Requests) \in Nat BY FS_EmptySet, Counts
  <2>2. \A P : rows[Logs] \ Taken(P) = {} /\ Uploading \ P = {} BY <1>0 DEF Init, Uploading
  <2>3. 0 <= Keep + 0 + faults * Cardinality(Requests)
    <3>1. faults = 0 BY DEF Init
    <3> QED BY <2>1, <3>1, BoundsAssumption
  <2> QED BY <2>1, <2>2, <2>3 DEF LogsPaid
<1> QED BY <1>1, <1>2, <1>3, <1>4 DEF IInv

LEMMA InvCorrect == Spec => []IInv
<1>1. IInv /\ [Next]_vars => IInv'
  BY TypeStep, OwnRowStep, LogsStep, EmptiedStep, LogsPaidStep DEF IInv
<1> QED BY InitIInv, <1>1, PTL DEF Spec

\* The variables keep their types.
THEOREM TypeCorrect == Spec => []TypeOK
BY InvCorrect, PTL DEF IInv

\* SaveAgentLog, whatever number of uploads of one customer run at a time,
\* never trims one of the newest logs.
THEOREM TrimmingKeepsNewest == Spec => []NewestLogsKept
BY InvCorrect, PTL DEF IInv

\* No more logs stay than Keep and one of every upload that is not through or
\* was cut (store.go:352-372).
THEOREM TrimmingBounds == Spec => []LogsBounded
<1>1. IInv => LogsBounded
  <2> SUFFICES ASSUME LogsPaid PROVE LogsBounded BY DEF IInv
  <2>1. {} \in SUBSET Plucked /\ Taken({}) = {} BY DEF Taken
  <2>2. rows[Logs] \ Taken({}) = rows[Logs] /\ Uploading \ {} = Uploading BY <2>1
  <2> QED BY <2>1, <2>2 DEF LogsPaid, LogsBounded
<1> QED BY <1>1, InvCorrect, PTL

\* DeleteCustomer empties every table that refers to customers: only a row that
\* comes in between, or a fault, makes it fail.
THEOREM DeletionFailsHaveCause == Spec => DeletionFailsForCause
<1>1. IInv /\ [Next]_vars =>
        [deleting # Closed /\ deleting' = Closed /\ present' => late \/ faults' > faults]_vars
  <2> SUFFICES ASSUME IInv, Next, deleting # Closed, deleting' = Closed, present'
               PROVE  late \/ faults' > faults
    BY DEF vars, deletionVars
  <2>1. faults \in Nat /\ deleting \in 0..5 /\ Len(Order) = 4
    BY BoundsAssumption DEF IInv, TypeOK, Order
  <2>2. CASE DeleteRefused
    <3>1. PICK t \in Tables : ~(rows[t] \subseteq gone[t]) /\ deleting = 4
      BY <2>1, <2>2 DEF DeleteRefused, Childless
    <3>2. PICK i \in 1..4 : Order[i] = t BY DEF Order, Tables
    <3> QED BY <3>1, <3>2 DEF IInv, Emptied
  <2>3. CASE DeleteFails \/ Crash
    <3>1. faults' = faults + 1 BY <2>3 DEF DeleteFails, Crash, Fault
    <3> QED BY <2>1, <3>1
  <2>4. CASE DeleteRows
    <3>1. deleting' = deleting + 1 /\ deleting < 4 BY <2>1, <2>4 DEF DeleteRows
    <3> QED BY <2>1, <3>1 DEF Closed
  <2>5. ASSUME NEW h \in Requests, RequestStep(h) PROVE FALSE
    <3>1. deleting' = deleting
      BY <2>5 DEF RequestStep, Auth, BeginSnapshot, BeginInsert, Insert, Pluck, Trim,
         RequestFails, deletionVars
    <3> QED BY <3>1
  <2>6. CASE Commit BY <2>6 DEF Commit
  <2>7. CASE BeginDelete \/ DeleteRow BY <2>7 DEF BeginDelete, DeleteRow, Closed
  <2>8. CASE Notify \/ CleanupOldMetrics \/ MarkerAges
    BY <2>8 DEF Notify, CleanupOldMetrics, MarkerAges, deletionVars
  <2> QED BY <2>2, <2>3, <2>4, <2>5, <2>6, <2>7, <2>8 DEF Next
<1> QED BY InvCorrect, <1>1, PTL DEF Spec, DeletionFailsForCause
=============================================================================
