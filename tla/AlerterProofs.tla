---------------------------- MODULE AlerterProofs ----------------------------
(***************************************************************************)
(* What the alerter promises about failure events and about the rules, for *)
(* every number of events, groups, customers and rules, and all periods.    *)
(***************************************************************************)
EXTENDS Alerter, TLAPS

\* Only a scan that is telling has groups, a batch that matters, and ids.
ScanShape ==
    /\ stage # "tell" => ids = {}
    /\ stage = "tell" => \A e \in ids : Group[e] \notin todo

\* An event that is to be marked has been told.
IdsWereTold == \A e \in ids : told[e] > 0

\* An event is told for the first time, unless a fault has made up for it, when
\* it is read again or its group's turn has not come.
RepeatsArePaid ==
    \A e \in Events :
        /\ stage = "tell" /\ e \in batch /\ Group[e] \in todo => told[e] <= faults
        /\ age[e] # None /\ e \notin alerted \cup ids => told[e] <= faults
        /\ age[e] = None /\ status[Owner[Group[e]]] # "deleted" => told[e] = 0 /\ e \notin batch

\* A scan that will still tell of event e, or look for it.
Awaited(e) ==
    \/ tick
    \/ stage = "query"
    \/ stage = "tell" /\ e \in batch /\ Group[e] \in todo

\* The age of an event nobody was told of is paid for by faults, two intervals
\* each, but for the scan that is due; or the window was missed by then.
AgeIsPaid ==
    \A e \in Events :
        age[e] # None /\ told[e] = 0 =>
            \/ 2 * faults >= Lookback - 1
            \/ age[e] <= 2 * faults + (IF Awaited(e) THEN 1 ELSE 0)

\* Only trouble of an enabled customer is watched, and a customer is not watched
\* for being offline longer than he has been silent.
WatchIsTrue ==
    \A k \in Keys :
        /\ ~Observed(k) => watched[k] = 0
        /\ k[2] = "offline" /\ Observed(k) => lasts[k] = Offline + 1 \/ watched[k] <= lasts[k]

\* A scan that will still check key k.
Due(k) ==
    \/ tick
    \/ stage \in {"query", "tell", "list"}
    \/ stage = "warn" /\ k \in todo

\* The intervals that a key waits without faults, and those that f faults add.
Longest     == IF Offline > Cooldown THEN Offline ELSE Cooldown
Lateness(f) == (Cooldown + 1) * f

\* Trouble nobody was told of is paid for by the threshold, by the cooldown, as
\* far as it has gone, and by faults, but for the scan that is due.
WaitIsPaid ==
    \A k \in Keys \ informed :
        /\ watched[k] + Cooldown <= Longest + Lateness(faults) + rested[k]
        /\ watched[k] <= Longest + Lateness(faults) \/ Due(k)

\* What a scan is still to warn of was in trouble at its start; a customer who is
\* silent again since then has been watched for less than an interval, unless the
\* scan took longer, which is a fault.
ListIsPaid ==
    \A k \in todo :
        stage = "warn" /\ Observed(k) /\ k[2] = "offline" /\ lasts[k] < Offline
            => watched[k] = 0 \/ faults > 0

IInv ==
    /\ TypeOK
    /\ ScanShape
    /\ MarkedWasTold
    /\ IdsWereTold
    /\ RepeatsTakeFaults
    /\ RepeatsArePaid
    /\ AgeIsPaid
    /\ WatchIsTrue
    /\ ListIsPaid
    /\ WaitIsPaid

LEMMA PatienceIsNatural == \A f \in Nat : Patience(f) \in Nat
<1> SUFFICES ASSUME NEW f \in Nat PROVE Patience(f) \in Nat OBVIOUS
<1>1. (Cooldown + 1) * f \in Nat BY BoundsAssumption
<1> QED BY <1>1, BoundsAssumption DEF Patience

\* A fault adds one cooldown and the interval up to the next scan.
LEMMA LatenessGrows ==
  \A f \in Nat : Lateness(f) \in Nat /\ Lateness(f + 1) = Lateness(f) + Cooldown + 1
<1> SUFFICES ASSUME NEW f \in Nat
             PROVE  Lateness(f) \in Nat /\ Lateness(f + 1) = Lateness(f) + Cooldown + 1
  OBVIOUS
<1>1. (Cooldown + 1) * f \in Nat /\ (Cooldown + 1) * (f + 1) = (Cooldown + 1) * f + Cooldown + 1
  BY BoundsAssumption
<1> QED BY <1>1 DEF Lateness

LEMMA InitIInv == Init => IInv
<1> SUFFICES ASSUME Init PROVE IInv OBVIOUS
<1>1. TypeOK
  <2>1. /\ age \in [Events -> 0..Lookback + 1 \cup {None}] /\ lasts \in [Keys -> 0..Offline + 1 \cup {None}]
        /\ rested \in [Keys -> 0..Cooldown + 1] /\ faults \in 0..MaxFaults
    BY BoundsAssumption DEF Init
  <2>2. watched \in [Keys -> 0..Patience(MaxFaults) + 1]
    BY PatienceIsNatural, BoundsAssumption DEF Init
  <2>3. todo \subseteq (IF stage = "warn" THEN Keys ELSE Groups) BY DEF Init
  <2> QED BY <2>1, <2>2, <2>3 DEF Init, TypeOK
<1>2. ScanShape /\ IdsWereTold /\ MarkedWasTold BY DEF Init, ScanShape, IdsWereTold, MarkedWasTold
<1>3. RepeatsTakeFaults /\ RepeatsArePaid /\ AgeIsPaid
  BY DEF Init, RepeatsTakeFaults, RepeatsArePaid, AgeIsPaid
<1>4. WatchIsTrue /\ ListIsPaid BY DEF Init, WatchIsTrue, ListIsPaid, Observed
<1>5. WaitIsPaid
  <2>1. Longest \in Nat /\ Longest >= Cooldown /\ Lateness(0) \in Nat
    BY BoundsAssumption, LatenessGrows DEF Longest
  <2>2. \A k \in Keys : watched[k] = 0 /\ rested[k] = Cooldown + 1 BY DEF Init
  <2>3. faults = 0 BY DEF Init
  <2> QED BY <2>1, <2>2, <2>3, BoundsAssumption DEF WaitIsPaid
<1> QED BY <1>1, <1>2, <1>3, <1>4, <1>5 DEF IInv

-----------------------------------------------------------------------------
\* Time passes for what is known and for nothing else, up to its end.
LEMMA LongerType ==
  ASSUME NEW end \in Nat, NEW n \in 0..end \cup {None}
  PROVE  /\ Longer(n, end) \in 0..end \cup {None}
         /\ n \in 0..end => Longer(n, end) \in 0..end
         /\ n = None <=> Longer(n, end) = None
         /\ n # None => Longer(n, end) <= n + 1
BY RulesAssumption DEF Longer

LEMMA PassesType ==
  ASSUME TypeOK, Passes
  PROVE  /\ age' \in [Events -> 0..Lookback + 1 \cup {None}]
         /\ \A e \in Events : (age'[e] = None <=> age[e] = None)
         /\ \A e \in Events : age[e] # None => age'[e] <= age[e] + 1
         /\ lasts' \in [Keys -> 0..Offline + 1 \cup {None}]
         /\ watched' \in [Keys -> 0..Patience(MaxFaults) + 1]
<1>1. /\ Lookback + 1 \in Nat /\ Offline + 1 \in Nat /\ Patience(MaxFaults) + 1 \in Nat
  BY PatienceIsNatural, BoundsAssumption
<1>2. /\ age \in [Events -> 0..Lookback + 1 \cup {None}]
      /\ lasts \in [Keys -> 0..Offline + 1 \cup {None}]
      /\ watched \in [Keys -> 0..Patience(MaxFaults) + 1]
  BY DEF TypeOK
<1>3. /\ age' = [e \in Events |-> Longer(age[e], Lookback + 1)]
      /\ lasts' = [k \in Keys |-> Longer(lasts[k], Offline + 1)]
      /\ watched' = [k \in Keys |->
             IF Observed(k) THEN Longer(watched[k], Patience(MaxFaults) + 1) ELSE 0]
  BY DEF Passes
<1>4. \A e \in Events : /\ Longer(age[e], Lookback + 1) \in 0..Lookback + 1 \cup {None}
                        /\ age[e] = None <=> Longer(age[e], Lookback + 1) = None
                        /\ age[e] # None => Longer(age[e], Lookback + 1) <= age[e] + 1
  BY <1>1, <1>2, LongerType
<1>5. \A k \in Keys : Longer(lasts[k], Offline + 1) \in 0..Offline + 1 \cup {None}
  BY <1>1, <1>2, LongerType
<1>6. \A k \in Keys : Longer(watched[k], Patience(MaxFaults) + 1) \in 0..Patience(MaxFaults) + 1
  BY <1>1, <1>2, LongerType
<1> QED BY <1>1, <1>3, <1>4, <1>5, <1>6

\* Types, and the shape of a scan, are kept by every step.
LEMMA TypeStep == TypeOK /\ ScanShape /\ [Next]_vars => TypeOK'
<1> SUFFICES ASSUME TypeOK, ScanShape, [Next]_vars PROVE TypeOK' OBVIOUS
<1> USE BoundsAssumption DEF customerVars, eventVars, ruleVars, scanVars, Fault
<1>0. 0 \in 0..Patience(MaxFaults) + 1 BY PatienceIsNatural
<1>1. CASE UNCHANGED vars BY <1>1 DEF vars, TypeOK
<1>2. ASSUME NEW e \in Events, Record(e) PROVE TypeOK'
  BY <1>2 DEF Record, TypeOK
<1>3. ASSUME NEW c \in Customers, NEW short \in SUBSET Resources, Heartbeat(c, short)
      PROVE  TypeOK'
  <2>1. lasts' \in [Keys -> 0..Offline + 1 \cup {None}] BY <1>3 DEF Heartbeat, TypeOK
  <2>2. watched' \in [Keys -> 0..Patience(MaxFaults) + 1] BY <1>0, <1>3 DEF Heartbeat, TypeOK
  <2>3. informed' \subseteq Keys BY <1>3 DEF Heartbeat, TypeOK
  <2> QED BY <1>3, <2>1, <2>2, <2>3 DEF Heartbeat, TypeOK
<1>4. ASSUME NEW c \in Customers, NEW s \in {"enabled", "disabled"}, SetEnabled(c, s)
      PROVE  TypeOK'
  <2>1. watched' \in [Keys -> 0..Patience(MaxFaults) + 1] BY <1>0, <1>4 DEF SetEnabled, TypeOK
  <2>2. informed' \subseteq Keys BY <1>4 DEF SetEnabled, TypeOK
  <2> QED BY <1>4, <2>1, <2>2 DEF SetEnabled, TypeOK
<1>5. ASSUME NEW c \in Customers, DeleteCustomer(c) PROVE TypeOK'
  <2>1. watched' \in [Keys -> 0..Patience(MaxFaults) + 1]
    BY <1>0, <1>5 DEF DeleteCustomer, TypeOK
  <2>2. age' \in [Events -> 0..Lookback + 1 \cup {None}] BY <1>5 DEF DeleteCustomer, TypeOK
  <2>3. alerted' \subseteq {e \in Events : age'[e] # None} BY <1>5 DEF DeleteCustomer, TypeOK
  <2>4. status' \in [Customers -> {"enabled", "disabled", "deleted"}]
    BY <1>5 DEF DeleteCustomer, TypeOK
  <2> QED BY <1>5, <2>1, <2>2, <2>3, <2>4 DEF DeleteCustomer, TypeOK
<1>6. CASE Tick
  <2>1. rested' \in [Keys -> 0..Cooldown + 1]
    <3>1. \A k \in Keys : Longer(rested[k], Cooldown + 1) \in 0..Cooldown + 1
      BY LongerType DEF TypeOK
    <3> QED BY <1>6, <3>1 DEF Tick
  <2>2. faults' \in 0..MaxFaults BY <1>6 DEF Tick, TypeOK
  <2>3. Passes BY <1>6 DEF Tick
  <2>4. alerted' \subseteq {e \in Events : age'[e] # None}
    BY <1>6, <2>3, PassesType DEF Tick, TypeOK
  <2> QED BY <1>6, <2>1, <2>2, <2>3, <2>4, PassesType DEF Tick, TypeOK
<1>7. CASE Crash
  <2>1. faults' \in 0..MaxFaults /\ rested' \in [Keys -> 0..Cooldown + 1]
    BY <1>7 DEF Crash, TypeOK
  <2>2. CASE Passes
    <3>1. alerted' \subseteq {e \in Events : age'[e] # None}
      BY <1>7, <2>2, PassesType DEF Crash, TypeOK
    <3> QED BY <1>7, <2>1, <2>2, <3>1, PassesType DEF Crash, TypeOK
  <2>3. CASE UNCHANGED <<age, lasts, watched>>
    BY <1>7, <2>1, <2>3 DEF Crash, TypeOK
  <2> QED BY <1>7, <2>2, <2>3 DEF Crash
<1>8. CASE Scan \/ SelectFails \/ ListFails
  <2>1. stage \in {"idle", "query", "list"} /\ stage' \in {"query", "list", "idle"}
    BY <1>8 DEF Scan, SelectFails, ListFails
  <2>2. todo' \subseteq (IF stage' = "warn" THEN Keys ELSE Groups) /\ UNCHANGED <<batch, ids>>
    BY <1>8, <2>1 DEF Scan, SelectFails, ListFails, TypeOK
  <2>3. tick' \in BOOLEAN /\ faults' \in 0..MaxFaults
    <3>1. CASE Scan BY <3>1 DEF Scan, TypeOK
    <3>2. CASE SelectFails BY <3>2 DEF SelectFails, TypeOK
    <3>3. CASE ListFails BY <3>3 DEF ListFails, TypeOK
    <3> QED BY <1>8, <3>1, <3>2, <3>3
  <2> QED BY <1>8, <2>1, <2>2, <2>3 DEF Scan, SelectFails, ListFails, TypeOK
<1>9. ASSUME NEW S \in SUBSET Fresh, Select(S) PROVE TypeOK'
  <2>1. /\ batch' \subseteq Events /\ ids' = {} /\ todo' \subseteq Groups
        /\ stage' \in {"list", "tell"}
    BY <1>9 DEF Select, Fresh, Groups, ScanShape
  <2> QED BY <1>9, <2>1 DEF Select, TypeOK
<1>10. ASSUME NEW g \in Groups, Tell(g) PROVE TypeOK'
  <2>1. told' \in [Events -> Nat] BY <1>10 DEF Tell, Reaches, TypeOK
  <2>2. ids' \subseteq batch /\ faults' \in 0..MaxFaults
    BY <1>10 DEF Tell, Members, TypeOK
  <2>3. todo' \subseteq Groups /\ stage' = "tell" BY <1>10 DEF Tell, TypeOK
  <2> QED BY <1>10, <2>1, <2>2, <2>3 DEF Tell, TypeOK
<1>11. CASE Mark
  <2>1. alerted' \subseteq {e \in Events : age[e] # None} /\ faults' \in 0..MaxFaults
    BY <1>11 DEF Mark, TypeOK
  <2> QED BY <1>11, <2>1 DEF Mark, EndEvents, TypeOK
<1>12. ASSUME NEW S \in SUBSET Keys, List(S) PROVE TypeOK'
  BY <1>12 DEF List, TypeOK
<1>13. ASSUME NEW k \in Keys, HoldBack(k) \/ Warn(k) PROVE TypeOK'
  <2>1. Checked(k) /\ todo' \subseteq Keys /\ stage' \in {"idle", "warn"}
        /\ todo' \subseteq (IF stage' = "warn" THEN Keys ELSE Groups)
    BY <1>13 DEF HoldBack, Warn, Inform, Checked, TypeOK
  <2>2. rested' \in [Keys -> 0..Cooldown + 1] BY <1>13 DEF HoldBack, Warn, TypeOK
  <2>3. informed' \subseteq Keys /\ faults' \in 0..MaxFaults
    BY <1>13 DEF HoldBack, Warn, Inform, TypeOK
  <2> QED BY <1>13, <2>1, <2>2, <2>3 DEF HoldBack, Warn, TypeOK
<1> QED
  BY <1>1, <1>2, <1>3, <1>4, <1>5, <1>6, <1>7, <1>8, <1>9, <1>10, <1>11, <1>12, <1>13
  DEF Next, ScanEvents, ScanRules

LEMMA ShapeStep == TypeOK /\ ScanShape /\ [Next]_vars => ScanShape'
<1> SUFFICES ASSUME TypeOK, ScanShape, [Next]_vars PROVE ScanShape' OBVIOUS
<1> USE DEF customerVars, eventVars, ruleVars, scanVars, ScanShape
<1>1. CASE UNCHANGED scanVars BY <1>1
<1>2. CASE Crash \/ Scan \/ SelectFails BY <1>2 DEF Crash, Scan, SelectFails
<1>3. CASE \E S \in SUBSET Fresh : Select(S) BY <1>3 DEF Select
<1>4. ASSUME NEW g \in Groups, Tell(g) PROVE ScanShape'
  BY <1>4 DEF Tell, Members
<1>5. CASE Mark BY <1>5 DEF Mark, EndEvents
<1> QED
  BY <1>1, <1>2, <1>3, <1>4, <1>5
  DEF Next, vars, Record, Heartbeat, SetEnabled, DeleteCustomer, Tick, ScanEvents, ScanRules,
      ListFails, List, HoldBack, Warn, Checked

-----------------------------------------------------------------------------
\* What is told stays told, so that marks follow messages.
Marks == MarkedWasTold /\ IdsWereTold

LEMMA MarksStep == TypeOK /\ Marks /\ [Next]_vars => Marks'
<1> SUFFICES ASSUME TypeOK, Marks, [Next]_vars PROVE Marks' OBVIOUS
<1> USE DEF customerVars, eventVars, ruleVars, scanVars, Marks, MarkedWasTold, IdsWereTold
<1>1. CASE UNCHANGED <<alerted, told, ids>> BY <1>1
<1>2. ASSUME NEW c \in Customers, DeleteCustomer(c) PROVE Marks'
  BY <1>2 DEF DeleteCustomer
<1>3. CASE Crash BY <1>3 DEF Crash
<1>4. ASSUME NEW g \in Groups, Tell(g) PROVE Marks'
  <2>1. \A e \in Events : told'[e] >= told[e] /\ told[e] \in Nat /\ told'[e] \in Nat
    BY <1>4 DEF Tell, Reaches, TypeOK
  <2>2. alerted \subseteq Events /\ ids' \subseteq Events
    BY <1>4 DEF Tell, Members, TypeOK
  <2>3. \A e \in ids' : e \in ids \/ told'[e] > 0
    BY <1>4, <2>2 DEF Tell, Reaches, Members, TypeOK
  <2>4. alerted' = alerted BY <1>4 DEF Tell
  <2>5. ids \subseteq Events BY DEF TypeOK
  <2>6. ASSUME NEW e \in alerted' PROVE told'[e] > 0
    <3>1. e \in Events /\ told[e] > 0 BY <2>2, <2>4, <2>6
    <3> QED BY <2>1, <3>1
  <2>7. ASSUME NEW e \in ids' PROVE told'[e] > 0
    <3>1. e \in Events /\ (e \in ids => told[e] > 0) BY <2>2, <2>5, <2>7
    <3> QED BY <2>1, <2>3, <2>7, <3>1
  <2> QED BY <2>6, <2>7
<1>5. CASE Mark BY <1>5 DEF Mark, EndEvents
<1> QED
  BY <1>1, <1>2, <1>3, <1>4, <1>5
  DEF Next, vars, Record, Heartbeat, SetEnabled, Tick, ScanEvents, ScanRules, Scan, SelectFails,
      Select, ListFails, List, HoldBack, Warn, Checked

-----------------------------------------------------------------------------
\* Repeats: a message is sent for events that were not told, or a fault pays.
Repeats == RepeatsTakeFaults /\ RepeatsArePaid

LEMMA RepeatsStep ==
  TypeOK /\ ScanShape /\ Repeats /\ [Next]_vars => Repeats'
<1> SUFFICES ASSUME TypeOK, ScanShape, Repeats, [Next]_vars PROVE Repeats' OBVIOUS
<1> USE RulesAssumption, BoundsAssumption
    DEF customerVars, eventVars, ruleVars, scanVars, Fault, Repeats, RepeatsTakeFaults,
        RepeatsArePaid
<1>0. faults \in Nat /\ told \in [Events -> Nat]
      /\ (\A e \in Events : Owner[Group[e]] \in Customers)
  BY GroupAssumption DEF TypeOK, Groups
<1>1. CASE UNCHANGED <<status, age, alerted, told, batch, ids, faults>>
           /\ (stage' = "tell" => stage = "tell" /\ todo' = todo)
  BY <1>1
<1>2. ASSUME NEW e \in Events, Record(e) PROVE Repeats'
  BY <1>0, <1>2 DEF Record, TypeOK
<1>3. ASSUME NEW c \in Customers, NEW s \in {"enabled", "disabled"}, SetEnabled(c, s)
      PROVE  Repeats'
  BY <1>0, <1>3 DEF SetEnabled, TypeOK
<1>4. ASSUME NEW c \in Customers, DeleteCustomer(c) PROVE Repeats'
  BY <1>0, <1>4 DEF DeleteCustomer, TypeOK
<1>5. CASE Tick
  <2>1. Passes /\ UNCHANGED <<status, alerted, told, scanVars>> BY <1>5 DEF Tick
  <2>2. faults' \in {faults, faults + 1} BY <1>5 DEF Tick
  <2>3. \A e \in Events : age'[e] = None <=> age[e] = None BY <2>1, PassesType
  <2> QED BY <1>0, <2>1, <2>2, <2>3
<1>6. CASE Crash
  <2>1. /\ UNCHANGED <<status, alerted, told>> /\ faults' = faults + 1
        /\ stage' = "idle" /\ batch' = {}
    BY <1>6 DEF Crash
  <2>2. \A e \in Events : age'[e] = None <=> age[e] = None BY <1>6, PassesType DEF Crash
  <2> QED BY <1>0, <2>1, <2>2
<1>7. CASE SelectFails BY <1>0, <1>7 DEF SelectFails
<1>8. ASSUME NEW S \in SUBSET Fresh, Select(S) PROVE Repeats'
  BY <1>0, <1>8 DEF Select, Fresh, ScanShape
<1>9. ASSUME NEW g \in Groups, Tell(g) PROVE Repeats'
  <2>1. /\ stage = "tell" /\ stage' = "tell" /\ g \in todo /\ todo' = todo \ {g}
        /\ UNCHANGED <<status, age, alerted, batch>>
    BY <1>9 DEF Tell
  <2>2. CASE Reaches(g) /\ ids' = ids \cup Members(g) /\ UNCHANGED faults
    BY <1>0, <2>1, <2>2 DEF Reaches, Members
  <2>3. CASE faults' = faults + 1 /\ Reaches(g) /\ UNCHANGED ids
    BY <1>0, <2>1, <2>3 DEF Reaches, Members
  <2>4. CASE faults' = faults + 1 /\ UNCHANGED <<told, ids>>
    BY <1>0, <2>1, <2>4
  <2> QED BY <1>9, <2>2, <2>3, <2>4 DEF Tell
<1>10. CASE Mark
  <2>1. /\ stage' = "list" /\ batch' = {} /\ ids' = {} /\ UNCHANGED <<status, age, told>>
    BY <1>10 DEF Mark, EndEvents
  <2>2. CASE alerted' = alerted \cup {e \in ids : age[e] # None} /\ UNCHANGED faults
    BY <1>0, <2>1, <2>2
  <2>3. CASE faults' = faults + 1 /\ UNCHANGED alerted
    BY <1>0, <2>1, <2>3
  <2> QED BY <1>10, <2>2, <2>3 DEF Mark
<1>11. CASE ListFails BY <1>0, <1>11 DEF ListFails
<1>12. ASSUME NEW k \in Keys, Warn(k) PROVE Repeats'
  <2>1. /\ UNCHANGED <<status, age, alerted, told, batch, ids>> /\ faults' \in {faults, faults + 1}
        /\ stage' # "tell"
    BY <1>12 DEF Warn, Checked
  <2> QED BY <1>0, <2>1
<1> QED
  BY <1>1, <1>2, <1>3, <1>4, <1>5, <1>6, <1>7, <1>8, <1>9, <1>10, <1>11, <1>12
  DEF Next, vars, Heartbeat, ScanEvents, ScanRules, Scan, List, HoldBack, Checked

-----------------------------------------------------------------------------
\* Losses: an interval without a scan is paid for by half a fault.
LEMMA AgeStep ==
  TypeOK /\ ScanShape /\ MarkedWasTold /\ AgeIsPaid /\ [Next]_vars => AgeIsPaid'
<1> SUFFICES ASSUME TypeOK, ScanShape, MarkedWasTold, AgeIsPaid, [Next]_vars PROVE AgeIsPaid'
  OBVIOUS
<1> USE RulesAssumption, BoundsAssumption
    DEF customerVars, eventVars, ruleVars, scanVars, Fault, AgeIsPaid, Awaited
<1>0. /\ faults \in Nat /\ told \in [Events -> Nat]
      /\ \A e \in Events : age[e] # None => age[e] \in Nat
  BY DEF TypeOK
<1>1. CASE UNCHANGED <<age, told, batch, ids, faults, tick>>
           /\ (stage = "tell" => stage' = "tell" /\ todo' = todo) /\ stage # "query"
  <2>1. \A e \in Events : Awaited(e) => Awaited(e)' BY <1>1
  <2>2. ASSUME NEW e \in Events, age'[e] # None, told'[e] = 0
        PROVE  \/ 2 * faults >= Lookback - 1
               \/ age[e] <= 2 * faults + (IF Awaited(e)' THEN 1 ELSE 0)
    <3> HIDE DEF Awaited
    <3>1. \/ 2 * faults >= Lookback - 1
          \/ age[e] <= 2 * faults + (IF Awaited(e) THEN 1 ELSE 0)
      BY <1>1, <2>2
    <3>2. age[e] \in Nat BY <1>0, <1>1, <2>2
    <3> QED BY <1>0, <2>1, <3>1, <3>2
  <2> HIDE DEF Awaited
  <2> QED BY <1>1, <2>2
<1>2. ASSUME NEW e \in Events, Record(e) PROVE AgeIsPaid'
  BY <1>0, <1>2 DEF Record, TypeOK
<1>3. ASSUME NEW c \in Customers, DeleteCustomer(c) PROVE AgeIsPaid'
  BY <1>0, <1>3 DEF DeleteCustomer, TypeOK
<1>4. CASE Tick
  <2>1. Passes /\ UNCHANGED <<told, scanVars>> /\ tick' = TRUE BY <1>4 DEF Tick
  <2>2. \A e \in Events : /\ age'[e] = None <=> age[e] = None
                          /\ age[e] # None => age'[e] <= age[e] + 1 /\ age'[e] \in Nat
    BY <2>1, PassesType
  <2>3. CASE stage = "idle" /\ ~tick /\ UNCHANGED faults BY <1>0, <2>1, <2>2, <2>3
  <2>4. CASE faults' = faults + 1 BY <1>0, <2>1, <2>2, <2>4
  <2> QED BY <1>4, <2>3, <2>4 DEF Tick
<1>5. CASE Crash
  <2>1. UNCHANGED told /\ faults' = faults + 1 BY <1>5 DEF Crash
  <2>2. \A e \in Events : /\ age'[e] = None <=> age[e] = None
                          /\ age[e] # None => age'[e] <= age[e] + 1 /\ age'[e] \in Nat
    BY <1>0, <1>5, PassesType DEF Crash
  <2> QED BY <1>0, <2>1, <2>2
<1>6. CASE Scan BY <1>0, <1>6 DEF Scan
<1>7. CASE SelectFails BY <1>0, <1>7 DEF SelectFails
<1>8. ASSUME NEW S \in SUBSET Fresh, Select(S) PROVE AgeIsPaid'
  <2>1. /\ UNCHANGED <<age, told, tick, faults>> /\ batch' = S /\ todo' = {Group[e] : e \in S}
        /\ S # {} => stage' = "tell"
    BY <1>8 DEF Select
  <2>2. ASSUME NEW e \in Events, age[e] # None, told[e] = 0
        PROVE  \/ 2 * faults >= Lookback - 1
               \/ age[e] <= 2 * faults + (IF Awaited(e)' THEN 1 ELSE 0)
    <3>1. age[e] \in Nat /\ e \notin alerted BY <1>0, <2>2 DEF MarkedWasTold, TypeOK
    <3>2. 2 * faults >= Lookback - 1 \/ age[e] <= 2 * faults + 1 BY <1>0, <2>2, <3>1
    <3>3. CASE e \in S
      <4>1. Awaited(e)' BY <2>1, <3>3
      <4> HIDE DEF Awaited
      <4> QED BY <3>2, <4>1
    <3>4. CASE e \notin S
      <4>1. age[e] >= Lookback
        BY <1>8, <2>2, <3>1, <3>4 DEF Select, InWindow, Fresh
      <4> QED BY <1>0, <3>1, <3>2, <4>1
    <3> QED BY <3>3, <3>4
  <2> HIDE DEF Awaited
  <2> QED BY <2>1, <2>2
<1>9. ASSUME NEW g \in Groups, Tell(g) PROVE AgeIsPaid'
  <2>1. /\ stage = "tell" /\ stage' = "tell" /\ todo' = todo \ {g}
        /\ UNCHANGED <<age, batch, tick>>
    BY <1>9 DEF Tell
  <2>2. CASE Reaches(g) /\ UNCHANGED faults
    BY <1>0, <2>1, <2>2 DEF Reaches, Members
  <2>3. CASE faults' = faults + 1 /\ Reaches(g)
    BY <1>0, <2>1, <2>3 DEF Reaches, Members
  <2>4. CASE faults' = faults + 1 /\ UNCHANGED told
    BY <1>0, <2>1, <2>4
  <2> QED BY <1>9, <2>2, <2>3, <2>4 DEF Tell
<1>10. CASE Mark BY <1>0, <1>10 DEF Mark, EndEvents
<1>11. CASE ListFails BY <1>0, <1>11 DEF ListFails
<1>12. ASSUME NEW k \in Keys, Warn(k) PROVE AgeIsPaid'
  <2>1. UNCHANGED <<age, told, tick>> /\ faults' \in {faults, faults + 1} /\ stage = "warn"
    BY <1>12 DEF Warn, Checked
  <2> QED BY <1>0, <2>1
<1>13. CASE UNCHANGED <<eventVars, scanVars, tick, faults>> BY <1>13
<1> QED
  BY <1>1, <1>2, <1>3, <1>4, <1>5, <1>6, <1>7, <1>8, <1>9, <1>10, <1>11, <1>12, <1>13
  DEF Next, vars, Heartbeat, SetEnabled, ScanEvents, ScanRules, List, HoldBack, Checked
-----------------------------------------------------------------------------
\* Trouble is watched for as long as it lasts, at most.
LEMMA WatchStep == TypeOK /\ WatchIsTrue /\ [Next]_vars => WatchIsTrue'
<1> SUFFICES ASSUME TypeOK, WatchIsTrue, [Next]_vars PROVE WatchIsTrue' OBVIOUS
<1> USE RulesAssumption, BoundsAssumption
    DEF customerVars, eventVars, ruleVars, scanVars, WatchIsTrue, Observed
<1>0. /\ \A k \in Keys : k[1] \in Customers
      /\ status \in [Customers -> {"enabled", "disabled", "deleted"}]
      /\ \A k \in Keys : lasts[k] # None => lasts[k] \in 0..Offline + 1
      /\ \A k \in Keys : watched[k] \in Nat
  <2>1. Patience(MaxFaults) + 1 \in Nat BY PatienceIsNatural
  <2>2. watched \in [Keys -> 0..Patience(MaxFaults) + 1] BY DEF TypeOK
  <2> QED BY <2>1, <2>2 DEF Keys, TypeOK
<1>1. CASE UNCHANGED customerVars BY <1>1
<1>2. ASSUME NEW c \in Customers, NEW short \in SUBSET Resources, Heartbeat(c, short)
      PROVE  WatchIsTrue'
  <2>1. ASSUME NEW k \in Keys, k[1] # c
        PROVE  lasts'[k] = lasts[k] /\ watched'[k] = watched[k]
    BY <1>2, <2>1 DEF Heartbeat
  <2>2. ASSUME NEW k \in Keys, k[1] = c, k[2] \notin short
        PROVE  watched'[k] = 0 /\ lasts'[k] \in 0..Offline + 1 \cup {None}
    BY <1>0, <1>2, <2>2 DEF Heartbeat
  <2>3. ASSUME NEW k \in Keys, k[1] = c, k[2] \in short
        PROVE  k[2] # "offline" /\ watched'[k] = watched[k] /\ lasts'[k] # None
    BY <1>2, <2>3 DEF Heartbeat
  <2>4. status' = status BY <1>2 DEF Heartbeat
  <2>5. ASSUME NEW k \in Keys
        PROVE  \/ lasts'[k] = lasts[k] /\ watched'[k] = watched[k]
               \/ watched'[k] = 0 /\ lasts'[k] \in 0..Offline + 1 \cup {None}
               \/ k[2] # "offline" /\ watched'[k] = watched[k] /\ lasts'[k] # None
    BY <2>1, <2>2, <2>3
  <2> QED BY <1>0, <2>4, <2>5
<1>3. ASSUME NEW c \in Customers, NEW s \in {"enabled", "disabled"}, SetEnabled(c, s)
      PROVE  WatchIsTrue'
  BY <1>0, <1>3 DEF SetEnabled
<1>4. ASSUME NEW c \in Customers, DeleteCustomer(c) PROVE WatchIsTrue'
  BY <1>0, <1>4 DEF DeleteCustomer
<1>5. ASSUME Passes, UNCHANGED status PROVE WatchIsTrue'
  <2>1. \A k \in Keys :
          /\ lasts'[k] = Longer(lasts[k], Offline + 1)
          /\ watched'[k] = IF Observed(k) THEN Longer(watched[k], Patience(MaxFaults) + 1) ELSE 0
    BY <1>5 DEF Passes
  <2>2. \A k \in Keys : lasts'[k] = IF lasts[k] = None \/ lasts[k] = Offline + 1 THEN lasts[k]
                                    ELSE lasts[k] + 1
    BY <2>1 DEF Longer
  <2>3. \A k \in Keys : watched'[k] \in {0, watched[k], watched[k] + 1}
                        /\ (~Observed(k) => watched'[k] = 0)
    BY <2>1 DEF Longer
  <2> QED BY <1>0, <1>5, <2>2, <2>3
<1>6. CASE Tick BY <1>5, <1>6 DEF Tick
<1>7. CASE Crash BY <1>1, <1>5, <1>7 DEF Crash
<1> QED
  BY <1>1, <1>2, <1>3, <1>4, <1>6, <1>7
  DEF Next, vars, Record, ScanEvents, ScanRules, Scan, SelectFails, Mark, Select, Tell,
      ListFails, List, HoldBack, Warn, Checked

\* Only time passing makes a silence longer, and a scan waits for time at the price
\* of a fault.
LEMMA ListStep == TypeOK /\ ListIsPaid /\ [Next]_vars => ListIsPaid'
<1> SUFFICES ASSUME TypeOK, ListIsPaid, [Next]_vars, NEW k \in todo', stage' = "warn",
                    Observed(k)', k[2] = "offline", lasts'[k] < Offline
             PROVE  watched'[k] = 0 \/ faults' > 0
  BY DEF ListIsPaid
<1> USE RulesAssumption, BoundsAssumption
    DEF customerVars, eventVars, ruleVars, scanVars, ListIsPaid, Observed, Fault
<1>0. faults \in Nat /\ (faults' = faults + 1 => faults' > 0) BY DEF TypeOK
<1>1. CASE UNCHANGED <<customerVars, faults>> /\ stage = "warn" /\ todo' \subseteq todo
  BY <1>1
<1>2. CASE faults' = faults + 1 BY <1>0, <1>2
<1>3. ASSUME NEW c \in Customers, NEW short \in SUBSET Resources, Heartbeat(c, short)
      PROVE  watched'[k] = 0 \/ faults' > 0
  <2>1. k \in Keys /\ k \in todo /\ stage = "warn" /\ UNCHANGED <<status, faults>>
    BY <1>3 DEF Heartbeat, TypeOK
  <2>2. CASE k[1] = c BY <1>3, <2>1, <2>2 DEF Heartbeat
  <2>3. CASE k[1] # c
    <3>1. lasts'[k] = lasts[k] /\ watched'[k] = watched[k] BY <1>3, <2>1, <2>3 DEF Heartbeat
    <3> QED BY <2>1, <3>1
  <2> QED BY <2>2, <2>3
<1>4. ASSUME NEW c \in Customers,
             \/ DeleteCustomer(c)
             \/ \E s \in {"enabled", "disabled"} : SetEnabled(c, s)
      PROVE  watched'[k] = 0 \/ faults' > 0
  <2>1. k \in Keys /\ k \in todo /\ stage = "warn" /\ UNCHANGED <<lasts, faults>>
    BY <1>4 DEF DeleteCustomer, SetEnabled, TypeOK
  <2>2. watched'[k] = IF k[1] = c THEN 0 ELSE watched[k]
    BY <1>4, <2>1 DEF DeleteCustomer, SetEnabled
  <2>3. k[1] # c => status'[k[1]] = status[k[1]]
    BY <1>4, <2>1 DEF DeleteCustomer, SetEnabled, TypeOK, Keys
  <2> QED BY <2>1, <2>2, <2>3
<1>5. CASE Tick
  BY <1>2, <1>5 DEF Tick
<1>6. ASSUME NEW S \in SUBSET Keys, List(S) PROVE watched'[k] = 0 \/ faults' > 0
  <2>1. k \in Keys /\ (Overdue(k) \/ AtEdge(k)) /\ UNCHANGED lasts BY <1>6 DEF List
  <2> QED BY <2>1 DEF Overdue, AtEdge, TypeOK
<1>7. ASSUME NEW j \in Keys, HoldBack(j) \/ Warn(j) PROVE watched'[k] = 0 \/ faults' > 0
  BY <1>1, <1>2, <1>7 DEF HoldBack, Warn, Checked
<1> QED
  BY <1>1, <1>2, <1>3, <1>4, <1>5, <1>6, <1>7
  DEF Next, vars, Record, ScanEvents, ScanRules, Scan, SelectFails, Mark, EndEvents, Select,
      Tell, ListFails, Crash

\* What one interval does to the wait for a message.
LEMMA PassesWait ==
  ASSUME TypeOK, Passes, NEW k \in Keys
  PROVE  watched'[k] \in Nat /\ watched'[k] <= watched[k] + 1
<1>1. Patience(MaxFaults) + 1 \in Nat BY PatienceIsNatural, BoundsAssumption
<1>2. watched[k] \in 0..Patience(MaxFaults) + 1 BY DEF TypeOK
<1>3. watched'[k] = IF Observed(k) THEN Longer(watched[k], Patience(MaxFaults) + 1) ELSE 0
  BY DEF Passes
<1> QED BY <1>1, <1>2, <1>3, RulesAssumption DEF Longer

\* The wait for a message: a scan without fault warns of what is overdue, unless
\* the cooldown still runs.
LEMMA WaitStep ==
  TypeOK /\ WatchIsTrue /\ ListIsPaid /\ WaitIsPaid /\ [Next]_vars => WaitIsPaid'
<1> SUFFICES ASSUME TypeOK, WatchIsTrue, ListIsPaid, WaitIsPaid, [Next]_vars,
                    NEW k \in Keys, k \notin informed'
             PROVE  /\ watched'[k] + Cooldown <= Longest + Lateness(faults') + rested'[k]
                    /\ watched'[k] <= Longest + Lateness(faults') \/ Due(k)'
  BY DEF WaitIsPaid
<1> DEFINE Goal == /\ watched'[k] + Cooldown <= Longest + Lateness(faults') + rested'[k]
                   /\ watched'[k] <= Longest + Lateness(faults') \/ Due(k)'
<1> USE BoundsAssumption DEF customerVars, eventVars, ruleVars, scanVars, Fault
<1>1. PICK late \in Nat : late = Lateness(faults) /\ Lateness(faults + 1) = late + Cooldown + 1
  BY LatenessGrows DEF TypeOK
<1>2. /\ Longest \in Nat /\ Longest >= Cooldown /\ Longest >= Offline
      /\ watched[k] \in Nat /\ rested[k] \in 0..Cooldown + 1
  <2>1. Patience(MaxFaults) + 1 \in Nat BY PatienceIsNatural
  <2> QED BY <2>1 DEF Longest, TypeOK
<1>3. k \notin informed =>
        /\ watched[k] + Cooldown <= Longest + late + rested[k]
        /\ watched[k] <= Longest + late \/ Due(k)
  BY <1>1 DEF WaitIsPaid
\* Three ways in which a step keeps the balance.
<1>4. ASSUME watched'[k] = 0, rested'[k] = rested[k], UNCHANGED faults PROVE Goal
  BY <1>1, <1>2, <1>4
<1>5. ASSUME k \notin informed, watched'[k] = watched[k], rested'[k] = rested[k],
             UNCHANGED faults, watched[k] <= Longest + late \/ Due(k)'
      PROVE  Goal
  <2>1. watched'[k] + Cooldown <= Longest + Lateness(faults') + rested'[k] BY <1>1, <1>3, <1>5
  <2>2. watched'[k] <= Longest + Lateness(faults') \/ Due(k)' BY <1>1, <1>5
  <2> QED BY <2>1, <2>2
<1>6. ASSUME k \notin informed, watched'[k] \in Nat, watched'[k] <= watched[k] + 1,
             rested'[k] \in Nat, faults' = faults + 1,
             \/ rested'[k] >= rested[k]
             \/ watched'[k] = watched[k]
      PROVE  Goal
  BY <1>1, <1>2, <1>3, <1>6
<1>7. CASE UNCHANGED <<watched, rested, informed, faults>> /\ (Due(k) => Due(k)')
  BY <1>3, <1>5, <1>7
<1>8. ASSUME NEW c \in Customers, NEW short \in SUBSET Resources, Heartbeat(c, short)
      PROVE  Goal
  <2>1. UNCHANGED <<rested, faults>> /\ (Due(k) => Due(k)') BY <1>8 DEF Heartbeat, Due
  <2>2. \/ watched'[k] = 0
        \/ watched'[k] = watched[k] /\ k \notin informed
    BY <1>8 DEF Heartbeat
  <2> QED BY <1>3, <1>4, <1>5, <2>1, <2>2
<1>9. ASSUME NEW c \in Customers, NEW s \in {"enabled", "disabled"}, SetEnabled(c, s)
      PROVE  Goal
  <2>1. UNCHANGED <<rested, faults>> /\ (Due(k) => Due(k)') BY <1>9 DEF SetEnabled, Due
  <2>2. \/ watched'[k] = 0
        \/ watched'[k] = watched[k] /\ k \notin informed
    BY <1>9 DEF SetEnabled
  <2> QED BY <1>3, <1>4, <1>5, <2>1, <2>2
<1>10. ASSUME NEW c \in Customers, DeleteCustomer(c) PROVE Goal
  <2>1. UNCHANGED <<rested, informed, faults>> /\ (Due(k) => Due(k)')
    BY <1>10 DEF DeleteCustomer, Due
  <2>2. watched'[k] \in {0, watched[k]} BY <1>10 DEF DeleteCustomer
  <2> QED BY <1>3, <1>4, <1>5, <2>1, <2>2
<1>11. CASE Tick
  <2>1. k \notin informed /\ watched'[k] \in Nat /\ watched'[k] <= watched[k] + 1
    BY <1>11, PassesWait DEF Tick
  <2>2. rested'[k] = IF rested[k] = Cooldown + 1 THEN rested[k] ELSE rested[k] + 1
    BY <1>2, <1>11, RulesAssumption DEF Tick, Longer
  <2>3. CASE stage = "idle" /\ ~tick /\ UNCHANGED faults
    <3>1. ~Due(k) BY <2>3 DEF Due
    <3>2. watched[k] <= Longest + late BY <1>3, <2>1, <3>1
    <3>3. Due(k)' BY <1>11 DEF Tick, Due
    <3>4. watched'[k] + Cooldown <= Longest + Lateness(faults') + rested'[k]
      BY <1>1, <1>2, <1>3, <2>1, <2>2, <2>3, <3>2
    <3> QED BY <3>3, <3>4
  <2>4. CASE faults' = faults + 1
    BY <1>2, <1>6, <2>1, <2>2, <2>4
  <2> QED BY <1>11, <2>3, <2>4 DEF Tick
<1>12. CASE Crash
  <2>1. k \notin informed /\ faults' = faults + 1 /\ rested'[k] = Cooldown + 1
    BY <1>12 DEF Crash
  <2>2. watched'[k] \in Nat /\ watched'[k] <= watched[k] + 1
    BY <1>2, <1>12, PassesWait DEF Crash
  <2> QED BY <1>2, <1>6, <2>1, <2>2
<1>13. CASE SelectFails \/ ListFails
  <2>1. UNCHANGED <<watched, rested, informed>> /\ faults' = faults + 1
    BY <1>13 DEF SelectFails, ListFails
  <2> QED BY <1>2, <1>6, <2>1
<1>14. CASE Scan
  <2>1. UNCHANGED <<watched, rested, informed, faults>> /\ Due(k)' BY <1>14 DEF Scan, Due
  <2> QED BY <1>7, <2>1
<1>15. ASSUME NEW S \in SUBSET Fresh, Select(S) PROVE Goal
  <2>1. UNCHANGED <<watched, rested, informed, faults>> /\ Due(k)' BY <1>15 DEF Select, Due
  <2> QED BY <1>7, <2>1
<1>16. ASSUME NEW g \in Groups, Tell(g) PROVE Goal
  <2>1. /\ UNCHANGED <<watched, rested, informed>> /\ faults' \in {faults, faults + 1} /\ Due(k)'
    BY <1>16 DEF Tell, Due
  <2> QED BY <1>2, <1>6, <1>7, <2>1
<1>17. CASE Mark
  <2>1. /\ UNCHANGED <<watched, rested, informed>> /\ faults' \in {faults, faults + 1} /\ Due(k)'
    BY <1>17 DEF Mark, EndEvents, Due
  <2> QED BY <1>2, <1>6, <1>7, <2>1
<1>18. ASSUME NEW S \in SUBSET Keys, List(S) PROVE Goal
  <2>1. UNCHANGED <<watched, rested, informed, faults>> BY <1>18 DEF List
  <2>2. CASE k \in S
    <3>1. Due(k)' BY <1>18, <2>2 DEF List, Due
    <3> QED BY <1>7, <2>1, <3>1
  <2>3. CASE k \notin S
    <3>1. ~Overdue(k) BY <1>18, <2>3 DEF List
    <3>2. watched[k] <= Offline
      <4>1. CASE ~Observed(k) BY <4>1 DEF WatchIsTrue
      <4>2. CASE Observed(k)
        <5>1. k[2] = "offline" /\ ~(lasts[k] > Offline) BY <3>1, <4>2 DEF Overdue
        <5>2. lasts[k] = Offline + 1 \/ watched[k] <= lasts[k] BY <4>2, <5>1 DEF WatchIsTrue
        <5>3. lasts[k] \in 0..Offline + 1 BY <4>2 DEF Observed, TypeOK
        <5> QED BY <1>2, <5>1, <5>2, <5>3
      <4> QED BY <4>1, <4>2
    <3>3. watched[k] <= Longest + late BY <1>2, <3>2
    <3> QED BY <1>5, <2>1, <3>3
  <2> QED BY <2>2, <2>3
<1>19. ASSUME NEW j \in Keys, HoldBack(j) PROVE Goal
  <2>1. UNCHANGED <<watched, rested, informed, faults>> BY <1>19 DEF HoldBack
  <2>2. CASE j = k
    <3>1. rested[k] <= Cooldown BY <1>19, <2>2 DEF HoldBack
    <3>2. watched[k] <= Longest + late BY <1>2, <1>3, <2>1, <3>1
    <3> QED BY <1>5, <2>1, <3>2
  <2>3. CASE j # k
    <3>1. Due(k) => Due(k)' BY <1>19, <2>3 DEF HoldBack, Checked, Due
    <3> QED BY <1>7, <2>1, <3>1
  <2> QED BY <2>2, <2>3
<1>20. ASSUME NEW j \in Keys, Warn(j) PROVE Goal
  <2>1. CASE j = k
    <3>1. watched'[k] = watched[k] /\ rested'[k] = 0 /\ k \notin informed
      BY <1>20, <2>1 DEF Warn, Inform, TypeOK
    <3>2. CASE faults' = faults + 1 BY <1>2, <1>6, <3>1, <3>2
    <3>3. CASE Inform(k) /\ UNCHANGED faults
      <4>1. k \in todo /\ stage = "warn" /\ ~Overdue(k) /\ ~AtEdge(k)
        BY <1>20, <2>1, <3>3 DEF Warn, Inform, Checked
      <4>2. CASE watched[k] = 0 BY <1>1, <1>2, <3>1, <3>3, <4>2
      <4>3. CASE watched[k] # 0
        <5>1. Observed(k) /\ k[2] = "offline" BY <4>1, <4>3 DEF WatchIsTrue, Overdue
        <5>2. lasts[k] \in 0..Offline + 1 BY <5>1 DEF Observed, TypeOK
        <5>3. lasts[k] < Offline BY <4>1, <5>1, <5>2 DEF Overdue, AtEdge
        <5>4. watched[k] <= lasts[k] BY <5>1, <5>2, <5>3 DEF WatchIsTrue
        <5>5. faults \in Nat \ {0} BY <4>1, <4>3, <5>1, <5>3 DEF ListIsPaid, TypeOK
        <5>6. late >= Cooldown + 1
          <6>1. PICK f \in Nat : faults = f + 1
            <7>1. faults - 1 \in Nat /\ faults = (faults - 1) + 1 BY <5>5
            <7> QED BY <7>1
          <6>2. Lateness(f) \in Nat /\ Lateness(faults) = Lateness(f) + Cooldown + 1
            BY <6>1, LatenessGrows
          <6> QED BY <1>1, <6>2
        <5> QED BY <1>1, <1>2, <3>1, <3>3, <5>2, <5>3, <5>4, <5>6
      <4> QED BY <4>2, <4>3
    <3> QED BY <1>20, <2>1, <3>2, <3>3 DEF Warn
  <2>2. CASE j # k
    <3>1. watched'[k] = watched[k] /\ rested'[k] = rested[k] BY <1>20, <2>2 DEF Warn, TypeOK
    <3>2. k \notin informed /\ faults' \in {faults, faults + 1} BY <1>20, <2>2 DEF Warn, Inform
    <3>3. Due(k) => Due(k)' BY <1>20, <2>2 DEF Warn, Checked, Due
    <3> QED BY <1>2, <1>3, <1>5, <1>6, <3>1, <3>2, <3>3
  <2> QED BY <2>1, <2>2
<1>21. CASE UNCHANGED <<watched, ruleVars, tick, scanVars, faults>> BY <1>7, <1>21 DEF Due
<1> QED
  BY <1>8, <1>9, <1>10, <1>11, <1>12, <1>13, <1>14, <1>15, <1>16, <1>17, <1>18, <1>19, <1>20,
     <1>21
  DEF Next, vars, Record, ScanEvents, ScanRules

-----------------------------------------------------------------------------
\* Each part of the invariant is kept by every step.
THEOREM InvCorrect == Spec => []IInv
<1>1. IInv /\ [Next]_vars => IInv'
  BY TypeStep, ShapeStep, MarksStep, RepeatsStep, AgeStep, WatchStep, ListStep, WaitStep
  DEF IInv, Marks, Repeats
<1> QED BY InitIInv, <1>1, PTL DEF Spec

\* Every variable keeps to its type: scanAndAlert keeps nothing between two
\* scans but the times in ruleLastAlert.
THEOREM TypeCorrect == Spec => []TypeOK
<1>1. IInv => TypeOK BY DEF IInv
<1> QED BY InvCorrect, <1>1, PTL

\* Whatever fails in a scan, MarkEventsAlerted marks only events in a message
\* that reached the administrator.
THEOREM MarkedCorrect == Spec => []MarkedWasTold
<1>1. IInv => MarkedWasTold BY DEF IInv
<1> QED BY InvCorrect, <1>1, PTL

\* Each fault, a lost mark or a crash before it, costs one repeated message of an
\* event at most.
THEOREM RepeatsCorrect == Spec => []RepeatsTakeFaults
<1>1. IInv => RepeatsTakeFaults BY DEF IInv
<1> QED BY InvCorrect, <1>1, PTL

\* With fewer than half as many faults as the lookback has intervals no event is
\* lost to the window of PendingFailureEvents.
THEOREM LossCorrect == Spec => []LossTakesFaults
<1>1. IInv => LossTakesFaults
  <2> SUFFICES ASSUME IInv, NEW e \in Events, age[e] # None, age[e] > Lookback, told[e] = 0
               PROVE  2 * faults >= Lookback - 1
    BY DEF LossTakesFaults
  <2>1. age[e] \in Nat /\ faults \in Nat /\ Lookback \in Nat
    BY BoundsAssumption DEF IInv, TypeOK
  <2>2. \/ 2 * faults >= Lookback - 1
        \/ age[e] <= 2 * faults + (IF Awaited(e) THEN 1 ELSE 0)
    BY DEF IInv, AgeIsPaid
  <2> QED BY <2>1, <2>2
<1> QED BY InvCorrect, <1>1, PTL

\* Trouble that lasts longer than the threshold, the cooldown and one interval is
\* told, and every fault in scanRules, or crash, delays it by one cooldown and one
\* interval at most, although the cooldown starts before the message is sent.
THEOREM TroubleCorrect == Spec => []TroubleTold
<1>1. IInv => TroubleTold
  <2> SUFFICES ASSUME IInv, NEW k \in Keys, k \notin informed
               PROVE  ~(watched[k] > Patience(faults))
    BY DEF TroubleTold
  <2>1. /\ watched[k] + Cooldown <= Longest + Lateness(faults) + rested[k]
    BY DEF IInv, WaitIsPaid
  <2>2. rested[k] \in 0..Cooldown + 1 /\ faults \in Nat BY BoundsAssumption DEF IInv, TypeOK
  <2>3. watched[k] \in Nat
    <3>1. Patience(MaxFaults) + 1 \in Nat BY PatienceIsNatural, BoundsAssumption
    <3> QED BY <3>1 DEF IInv, TypeOK
  <2>4. PICK late \in Nat : late = Lateness(faults) BY <2>2, LatenessGrows
  <2>5. Longest \in Nat BY BoundsAssumption DEF Longest
  <2>6. Patience(faults) = Longest + 1 + late BY <2>4 DEF Patience, Longest, Lateness
  <2> QED BY <2>1, <2>2, <2>3, <2>4, <2>5, <2>6, BoundsAssumption
<1> QED BY InvCorrect, <1>1, PTL
=============================================================================
