---------------------------- MODULE LicenseProofs ----------------------------
(***************************************************************************)
(* The properties of License, proved for every value of the constants.     *)
(***************************************************************************)
EXTENDS License, TLAPS

\* What a master that is up, or is about to be, has in its memory.
KeyInMemory ==
    /\ master # "down" => memkey \in Keys
    /\ master = "generated" => keyfile = NoKey
    /\ master \in {"written", "up"} => memkey = keyfile

\* The check of a running service was passed, and the next one is not overdue.
CheckedInTime ==
    service = "running" =>
        /\ loaded \in 1..Len(issued)
        /\ checked <= issued[loaded].exp
        /\ now <= checked + Recheck

\* A row without a fault has a token.
FirstToken == Exists /\ faults = 0 => issued # <<>>

\* From a success to the next heartbeat passes one tick at most, and failing is
\* the time of the first heartbeat after the last success.
Counting ==
    lastOK # Never =>
        /\ agent # 0
        /\ failing = Never => now - lastOK <= IF beaten THEN 0 ELSE 1
        /\ failing # Never => failing <= lastOK + 1

IInv ==
    /\ TypeOK
    /\ KeyInMemory
    /\ OneKey
    /\ CheckedInTime
    /\ FirstToken
    /\ RecordedTakesFaults
    /\ Counting

USE DEF Never, NoKey

LEMMA MasterTypeStep == MasterTypeOK /\ [Next]_vars => MasterTypeOK'
<1> SUFFICES ASSUME MasterTypeOK, [Next]_vars PROVE MasterTypeOK' OBVIOUS
<1> USE BoundsAssumption DEF MasterTypeOK, keyVars
<1>1. CASE UNCHANGED <<master, keyVars, embedded>> BY <1>1
<1>2. CASE Start BY <1>2 DEF Start
<1>3. CASE WritePrivateKey BY <1>3 DEF WritePrivateKey
<1>4. CASE WritePublicKey BY <1>4 DEF WritePublicKey
<1>5. CASE MasterStops BY <1>5 DEF MasterStops
<1>6. CASE BuildService BY <1>6 DEF BuildService
<1> QED
  BY <1>1, <1>2, <1>3, <1>4, <1>5, <1>6
  DEF Next, vars, Add, Issue, Toggle, Delete, Install, ReplaceToken, RestartService, AgentRestart,
      LinkChanges, StartService, CheckAgain, HeartbeatSucceeds, HeartbeatFails, Tick

\* A token that is handed out is well-formed, and no token is taken back.
LEMMA SignNewTokenType ==
  ASSUME RecordTypeOK, now \in Nat, memkey \in Keys,
         NEW days \in Nat, SignNewToken(days)
  PROVE  /\ issued' \in Seq(Token) /\ Len(issued') <= MaxTokens
         /\ recorded' \in Nat \cup {Never} /\ faults' \in 0..MaxFaults
         /\ Len(issued') \in {Len(issued), Len(issued) + 1}
         /\ \A i \in 1..Len(issued) : issued'[i] = issued[i]
<1> DEFINE token == [key |-> memkey, exp |-> now + days]
<1>1. token \in Token BY DEF Token
<1> HIDE DEF token
<1>2. Append(issued, token) \in Seq(Token) /\ Len(Append(issued, token)) = Len(issued) + 1
      /\ \A i \in 1..Len(issued) : Append(issued, token)[i] = issued[i]
  BY <1>1 DEF RecordTypeOK
<1>3. issued' \in {issued, Append(issued, token)} /\ Len(issued) < MaxTokens
  BY DEF SignNewToken, Sign, token
<1>4. recorded' \in {recorded, now + days}
  BY DEF SignNewToken, Sign
<1>5. faults' \in 0..MaxFaults
  BY BoundsAssumption DEF SignNewToken, Sign, Fault, RecordTypeOK
<1> QED BY <1>2, <1>3, <1>4, <1>5, BoundsAssumption DEF RecordTypeOK

LEMMA RecordTypeStep ==
  TypeOK /\ KeyInMemory /\ [Next]_vars =>
    /\ RecordTypeOK'
    /\ Len(issued') \in {Len(issued), Len(issued) + 1}
    /\ \A i \in 1..Len(issued) : issued'[i] = issued[i]
<1> DEFINE Kept == /\ RecordTypeOK'
                   /\ Len(issued') \in {Len(issued), Len(issued) + 1}
                   /\ \A i \in 1..Len(issued) : issued'[i] = issued[i]
<1> SUFFICES ASSUME TypeOK, KeyInMemory, [Next]_vars PROVE Kept OBVIOUS
<1>0. RecordTypeOK /\ now \in Nat /\ Len(issued) \in Nat BY DEF TypeOK, Times, RecordTypeOK
<1>1. CASE UNCHANGED <<recordVars, faults>>
  BY <1>0, <1>1 DEF recordVars, RecordTypeOK
<1>2. CASE Start
  BY <1>0, <1>2, BoundsAssumption DEF Start, Backfill, RecordTypeOK
<1>3. CASE Add
  <2>1. customer' = "enabled" /\ memkey \in Keys BY <1>3 DEF Add, KeyInMemory
  <2>2. CASE SignNewToken(DefaultDays)
    BY <1>0, <2>1, <2>2, SignNewTokenType, BoundsAssumption DEF RecordTypeOK
  <2>3. CASE Fault /\ UNCHANGED <<recorded, issued>>
    BY <1>0, <2>1, <2>3, BoundsAssumption DEF Fault, RecordTypeOK
  <2> QED BY <1>3, <2>2, <2>3 DEF Add
<1>4. CASE Issue
  <2>1. PICK days \in Days \cup {DefaultDays} : SignNewToken(days) BY <1>4 DEF Issue
  <2>2. UNCHANGED customer /\ memkey \in Keys BY <1>4 DEF Issue, KeyInMemory
  <2> QED BY <1>0, <2>1, <2>2, SignNewTokenType, BoundsAssumption DEF RecordTypeOK
<1>5. CASE Toggle \/ Delete
  BY <1>0, <1>5 DEF Toggle, Delete, RecordTypeOK
<1> QED
  BY <1>1, <1>2, <1>3, <1>4, <1>5
  DEF Next, vars, WritePrivateKey, WritePublicKey, MasterStops, BuildService, Install,
      ReplaceToken, RestartService, AgentRestart, LinkChanges, StartService, CheckAgain,
      HeartbeatSucceeds, HeartbeatFails, Tick

\* What holds of the machine as long as tokens are only added.
LEMMA MachineTypeStep ==
  ASSUME TypeOK, [Next]_vars, Len(issued') \in {Len(issued), Len(issued) + 1}
  PROVE  now' \in Times /\ MachineTypeOK'
<1>0. MachineTypeOK /\ now \in Times /\ Len(issued) \in Nat
  BY DEF TypeOK, RecordTypeOK
<1> USE <1>0, BoundsAssumption DEF MachineTypeOK, Times, serviceVars, agentVars
<1>1. CASE UNCHANGED <<now, serviceVars, agentVars>> BY <1>1
<1>2. CASE Install
  <2>1. PICK i \in 1..Len(issued) : conf' = i /\ agent' = i BY <1>2 DEF Install
  <2>2. issued' = issued BY <1>2 DEF Install, recordVars
  <2>3. /\ service' = "starting" /\ loaded' = 0 /\ checked' = 0 /\ lastOK' = Never
        /\ UNCHANGED <<now, link, failing, cut>> /\ beaten' = FALSE
    BY <1>2 DEF Install
  <2>4. conf' \in 0..Len(issued') /\ loaded' \in 0..Len(issued') /\ agent' \in 0..Len(issued')
    BY <2>1, <2>2, <2>3
  <2>5. lastOK' \in Times \cup {Never} /\ failing' \in Times \cup {Never}
    BY <2>3
  <2>6. link' \in BOOLEAN /\ beaten' \in BOOLEAN /\ cut' \in BOOLEAN
    BY <2>3
  <2> QED BY <2>3, <2>4, <2>5, <2>6
<1>3. CASE ReplaceToken BY <1>3 DEF ReplaceToken, recordVars
<1>4. CASE RestartService BY <1>4 DEF RestartService, recordVars
<1>5. CASE AgentRestart
  <2>1. issued' = issued /\ agent' \in 0..Len(issued) BY <1>5 DEF AgentRestart, recordVars
  <2> QED BY <1>5, <2>1 DEF AgentRestart
<1>6. CASE LinkChanges BY <1>6 DEF LinkChanges, recordVars
<1>7. CASE StartService BY <1>7 DEF StartService, recordVars
<1>8. CASE CheckAgain BY <1>8 DEF CheckAgain, recordVars
<1>9. CASE HeartbeatSucceeds
  <2>1. issued' = issued /\ UNCHANGED <<conf, agent, link>>
    BY <1>9 DEF HeartbeatSucceeds, StopService, recordVars
  <2>2. service' \in {service, "stopped"} /\ loaded' \in {loaded, 0} /\ checked' \in {checked, 0}
    BY <1>9 DEF HeartbeatSucceeds, StopService
  <2>3. now' = now /\ lastOK' = now /\ failing' = Never /\ beaten' = TRUE /\ cut' = FALSE
    BY <1>9 DEF HeartbeatSucceeds
  <2>4. conf' \in 0..Len(issued') /\ loaded' \in 0..Len(issued') /\ agent' \in 0..Len(issued')
    BY <2>1, <2>2
  <2>5. lastOK' \in Times \cup {Never} /\ failing' \in Times \cup {Never}
    BY <2>3
  <2>6. link' \in BOOLEAN /\ beaten' \in BOOLEAN /\ cut' \in BOOLEAN
    BY <2>1, <2>3
  <2> QED BY <2>2, <2>3, <2>4, <2>5, <2>6
<1>10. CASE HeartbeatFails
  <2>1. issued' = issued /\ UNCHANGED <<conf, agent, link>>
    BY <1>10 DEF HeartbeatFails, StopService, recordVars
  <2>2. service' \in {service, "stopped"} /\ loaded' \in {loaded, 0} /\ checked' \in {checked, 0}
    BY <1>10 DEF HeartbeatFails, StopService
  <2>3. cut' \in BOOLEAN BY <1>10 DEF HeartbeatFails
  <2>4. failing' \in {failing, now} /\ UNCHANGED <<now, lastOK>> /\ beaten' = TRUE
    BY <1>10 DEF HeartbeatFails
  <2> QED BY <2>1, <2>2, <2>3, <2>4
<1>11. CASE Tick
  <2>1. /\ UNCHANGED <<issued, serviceVars, agent, link, lastOK, failing, cut>>
        /\ now' \in Times /\ beaten' = FALSE
    BY <1>11 DEF Tick, recordVars
  <2> QED BY <2>1
<1> QED
  BY <1>1, <1>2, <1>3, <1>4, <1>5, <1>6, <1>7, <1>8, <1>9, <1>10, <1>11
  DEF Next, vars, Start, WritePrivateKey, WritePublicKey, MasterStops, BuildService,
      Add, Issue, Toggle, Delete

LEMMA TypeStep == TypeOK /\ KeyInMemory /\ [Next]_vars => TypeOK'
BY MasterTypeStep, RecordTypeStep, MachineTypeStep DEF TypeOK

LEMMA KeyInMemoryStep == TypeOK /\ KeyInMemory /\ [Next]_vars => KeyInMemory'
<1> SUFFICES ASSUME TypeOK, KeyInMemory, [Next]_vars PROVE KeyInMemory' OBVIOUS
<1>0. generated \in 0..MaxKeys /\ keyfile \in 0..MaxKeys
  BY DEF TypeOK, MasterTypeOK
<1> USE DEF KeyInMemory
<1>1. CASE UNCHANGED <<master, keyVars>> BY <1>1 DEF keyVars
<1>2. CASE Start BY <1>0, <1>2, BoundsAssumption DEF Start, Keys
<1>3. CASE WritePrivateKey BY <1>3 DEF WritePrivateKey
<1>4. CASE WritePublicKey BY <1>4 DEF WritePublicKey
<1>5. CASE MasterStops BY <1>5 DEF MasterStops
<1> QED
  BY <1>1, <1>2, <1>3, <1>4, <1>5
  DEF Next, vars, BuildService, Add, Issue, Toggle, Delete, Install, ReplaceToken, RestartService,
      AgentRestart, LinkChanges, StartService, CheckAgain, HeartbeatSucceeds, HeartbeatFails, Tick

\* The key of a new token is the one in memory.
LEMMA SignNewTokenKey ==
  ASSUME issued \in Seq(Token), NEW days, SignNewToken(days),
         \A i \in 1..Len(issued) : issued[i].key = memkey
  PROVE  \A i \in 1..Len(issued') : issued'[i].key = memkey
<1> DEFINE token == [key |-> memkey, exp |-> now + days]
<1>1. token.key = memkey OBVIOUS
<1> HIDE DEF token
<1>2. issued' \in {issued, Append(issued, token)} BY DEF SignNewToken, Sign, token
<1>3. CASE issued' = issued BY <1>3
<1>4. CASE issued' = Append(issued, token) BY <1>1, <1>4
<1> QED BY <1>2, <1>3, <1>4

LEMMA OneKeyStep == TypeOK /\ KeyInMemory /\ OneKey /\ [Next]_vars => OneKey'
<1> SUFFICES ASSUME TypeOK, KeyInMemory, OneKey, [Next]_vars PROVE OneKey' OBVIOUS
<1>0. issued \in Seq(Token) /\ keyfile \in 0..MaxKeys /\ MaxKeys \in Nat
  BY BoundsAssumption DEF TypeOK, RecordTypeOK, MasterTypeOK
<1>1. CASE UNCHANGED <<master, keyVars, embedded, issued>>
  BY <1>1 DEF OneKey, keyVars
<1>2. CASE Start BY <1>2 DEF Start, OneKey
<1>3. CASE WritePrivateKey
  <2>1. issued = <<>>
    <3>1. ASSUME NEW i \in 1..Len(issued) PROVE FALSE
      <4>1. issued[i] \in Token BY <1>0, <3>1
      <4>2. issued[i].key # NoKey BY <4>1 DEF Token, Keys
      <4> QED BY <1>3, <4>2, <3>1 DEF OneKey, WritePrivateKey, KeyInMemory
    <3> QED BY <1>0, <3>1
  <2> QED BY <1>3, <2>1 DEF OneKey, WritePrivateKey, KeyInMemory, recordVars
<1>4. CASE WritePublicKey
  BY <1>4 DEF OneKey, WritePublicKey, KeyInMemory, recordVars
<1>5. CASE MasterStops BY <1>5 DEF OneKey, MasterStops, recordVars
<1>6. CASE BuildService BY <1>6 DEF OneKey, BuildService, keyVars, recordVars
<1>7. CASE Add \/ Issue
  <2>1. UNCHANGED <<master, keyVars, embedded>> /\ master = "up"
    BY <1>7 DEF Add, Issue
  <2>2. CASE issued' = issued BY <2>1, <2>2 DEF OneKey, keyVars
  <2>3. CASE \E days \in Days \cup {DefaultDays} : SignNewToken(days)
    BY <1>0, <2>1, <2>3, SignNewTokenKey DEF OneKey, keyVars
  <2> QED BY <1>7, <2>2, <2>3 DEF Add, Issue
<1> QED
  BY <1>1, <1>2, <1>3, <1>4, <1>5, <1>6, <1>7
  DEF Next, vars, recordVars, Toggle, Delete, Install, ReplaceToken, RestartService,
      AgentRestart, LinkChanges, StartService, CheckAgain, HeartbeatSucceeds, HeartbeatFails, Tick

LEMMA CheckedInTimeStep ==
  TypeOK /\ KeyInMemory /\ CheckedInTime /\ [Next]_vars => CheckedInTime'
<1> SUFFICES ASSUME TypeOK, KeyInMemory, CheckedInTime, [Next]_vars PROVE CheckedInTime'
  OBVIOUS
<1>0. /\ Len(issued') \in {Len(issued), Len(issued) + 1}
      /\ \A i \in 1..Len(issued) : issued'[i] = issued[i]
  BY RecordTypeStep
<1>01. /\ now \in Nat /\ checked \in Nat /\ Recheck \in Nat /\ Len(issued) \in Nat
       /\ conf \in 0..Len(issued)
       /\ \A i \in 1..Len(issued) : issued[i].exp \in Nat
  <2>1. issued \in Seq(Token) /\ conf \in 0..Len(issued)
    BY DEF TypeOK, RecordTypeOK, MachineTypeOK
  <2>2. \A i \in 1..Len(issued) : issued[i] \in Token BY <2>1
  <2>3. now \in Nat /\ checked \in Nat /\ Recheck \in Nat
    BY BoundsAssumption DEF TypeOK, MachineTypeOK, Times
  <2> QED BY <2>1, <2>2, <2>3 DEF Token
<1> USE DEF CheckedInTime
<1>1. CASE UNCHANGED <<now, service, loaded, checked>> BY <1>0, <1>01, <1>1
<1>2. CASE service' # "running" BY <1>2
<1>3. CASE StartService
  <2>1. /\ conf \in 1..Len(issued) /\ now <= issued[conf].exp
        /\ loaded' = conf /\ checked' = now /\ now' = now /\ issued' = issued
    BY <1>01, <1>3 DEF StartService, VerifyOffline, Verify, recordVars
  <2> QED BY <1>01, <2>1
<1>4. CASE CheckAgain
  <2>1. /\ VerifyOffline(loaded) /\ checked' = now
        /\ UNCHANGED <<now, service, loaded, issued>> /\ service = "running"
     \/ service' = "starting"
    BY <1>4 DEF CheckAgain, recordVars
  <2> QED BY <1>01, <2>1 DEF VerifyOffline, Verify
<1>5. CASE Tick
  <2>1. /\ service = "running" => now < checked + Recheck
        /\ now' = now + 1 /\ UNCHANGED <<service, loaded, checked, issued>>
    BY <1>5 DEF Tick, serviceVars, recordVars
  <2> QED BY <1>01, <2>1
<1> QED
  BY <1>1, <1>2, <1>3, <1>4, <1>5
  DEF Next, vars, serviceVars, StopService, Start, WritePrivateKey, WritePublicKey, MasterStops,
      BuildService, Add, Issue, Toggle, Delete, Install, ReplaceToken, RestartService,
      AgentRestart, LinkChanges, HeartbeatSucceeds, HeartbeatFails

\* The newest token is what a record without a fault tells.
LEMMA SignNewTokenRecord ==
  ASSUME RecordTypeOK, NEW days, SignNewToken(days), faults' = 0
  PROVE  issued' # <<>> /\ recorded' = issued'[Len(issued')].exp
<1> DEFINE token == [key |-> memkey, exp |-> now + days]
<1>1. token.exp = now + days OBVIOUS
<1> HIDE DEF token
<1>2. faults \in Nat /\ issued \in Seq(Token) BY BoundsAssumption DEF RecordTypeOK
<1>3. issued' = Append(issued, token) /\ recorded' = now + days
  BY <1>2 DEF SignNewToken, Sign, Fault, token
<1> QED BY <1>1, <1>2, <1>3

LEMMA RecordedStep ==
  TypeOK /\ FirstToken /\ RecordedTakesFaults /\ [Next]_vars
    => FirstToken' /\ RecordedTakesFaults'
<1> SUFFICES ASSUME TypeOK, FirstToken, RecordedTakesFaults, [Next]_vars
             PROVE  FirstToken' /\ RecordedTakesFaults'
  OBVIOUS
<1>0. RecordTypeOK /\ faults \in Nat BY BoundsAssumption DEF TypeOK, RecordTypeOK
<1> USE DEF FirstToken, RecordedTakesFaults, Exists
<1>1. CASE UNCHANGED <<recordVars, faults>> BY <1>1 DEF recordVars
<1>2. CASE Start
  <2>1. UNCHANGED <<customer, issued, faults>> BY <1>2 DEF Start
  <2>2. CASE recorded' = recorded BY <2>1, <2>2
  <2>3. CASE Exists /\ recorded = Never /\ faults = 0
    <3>1. issued # <<>> /\ recorded = issued[Len(issued)].exp BY <2>3
    <3>2. issued[Len(issued)] \in Token BY <1>0, <3>1 DEF RecordTypeOK
    <3> QED BY <2>3, <3>1, <3>2 DEF Token
  <2> QED BY <1>2, <2>1, <2>2, <2>3 DEF Start, Backfill
<1>3. CASE Add \/ Issue
  <2>1. CASE faults' = 0
    <3>1. PICK days : SignNewToken(days) BY <1>0, <1>3, <2>1 DEF Add, Issue, Fault
    <3> QED BY <1>0, <2>1, <3>1, SignNewTokenRecord
  <2> QED BY <2>1
<1>4. CASE Toggle BY <1>4 DEF Toggle
<1>5. CASE Delete BY <1>5 DEF Delete
<1> QED
  BY <1>1, <1>2, <1>3, <1>4, <1>5
  DEF Next, vars, WritePrivateKey, WritePublicKey, MasterStops, BuildService, Install,
      ReplaceToken, RestartService, AgentRestart, LinkChanges, StartService, CheckAgain,
      HeartbeatSucceeds, HeartbeatFails, Tick

LEMMA CountingStep == TypeOK /\ Counting /\ [Next]_vars => Counting'
<1> SUFFICES ASSUME TypeOK, Counting, [Next]_vars PROVE Counting' OBVIOUS
<1>0. /\ now \in Nat /\ lastOK \in Nat \cup {Never} /\ failing \in Nat \cup {Never}
      /\ beaten \in BOOLEAN
  BY BoundsAssumption DEF TypeOK, MachineTypeOK, Times
<1> USE DEF Counting
<1>1. CASE UNCHANGED <<now, agent, lastOK, beaten, failing>> BY <1>1
<1>2. CASE lastOK' = Never BY <1>2
<1>3. CASE HeartbeatSucceeds
  <2>1. /\ agent # 0 /\ UNCHANGED <<now, agent>>
        /\ beaten' = TRUE /\ lastOK' = now /\ failing' = Never
    BY <1>3 DEF HeartbeatSucceeds
  <2> QED BY <1>0, <2>1
<1>4. CASE HeartbeatFails
  <2>1. /\ agent # 0 /\ UNCHANGED <<now, agent, lastOK>> /\ beaten' = TRUE
        /\ failing' = IF failing = Never THEN now ELSE failing
    BY <1>4 DEF HeartbeatFails
  <2>2. CASE failing # Never BY <1>0, <2>1, <2>2
  <2>3. CASE failing = Never /\ lastOK # Never
    <3>1. now - lastOK <= 1 BY <1>0, <2>3
    <3>2. failing' = now /\ now # Never BY <1>0, <2>1, <2>3
    <3> QED BY <1>0, <2>1, <2>3, <3>1, <3>2
  <2> QED BY <2>1, <2>2, <2>3
<1>5. CASE Tick
  <2>1. /\ UNCHANGED <<agent, lastOK, failing>> /\ now' = now + 1 /\ beaten' = FALSE
        /\ agent # 0 => beaten
    BY <1>5 DEF Tick
  <2> QED BY <1>0, <2>1
<1> QED
  BY <1>1, <1>2, <1>3, <1>4, <1>5
  DEF Next, vars, agentVars, Start, WritePrivateKey, WritePublicKey, MasterStops, BuildService,
      Add, Issue, Toggle, Delete, Install, ReplaceToken, RestartService, AgentRestart,
      LinkChanges, StartService, CheckAgain

LEMMA InitIInv == Init => IInv
<1> SUFFICES ASSUME Init PROVE IInv OBVIOUS
<1>1. TypeOK
  <2>1. MasterTypeOK BY BoundsAssumption DEF Init, MasterTypeOK
  <2>2. <<>> \in Seq(Token) /\ Len(<<>>) = 0 OBVIOUS
  <2>3. issued \in Seq(Token) /\ Len(issued) = 0 BY <2>2 DEF Init
  <2>4. RecordTypeOK BY <2>3, BoundsAssumption DEF Init, RecordTypeOK
  <2>5. now \in Times /\ MachineTypeOK
    <3>1. conf = 0 /\ loaded = 0 /\ agent = 0 /\ checked = 0 /\ now = 0 BY DEF Init
    <3>2. /\ service \in {"absent", "starting", "running", "stopped"}
          /\ link \in BOOLEAN /\ beaten \in BOOLEAN /\ cut \in BOOLEAN
          /\ lastOK = Never /\ failing = Never
      BY DEF Init
    <3> QED BY <2>3, <3>1, <3>2, BoundsAssumption DEF MachineTypeOK, Times
  <2> QED BY <2>1, <2>4, <2>5 DEF TypeOK
<1>2. KeyInMemory /\ OneKey BY DEF Init, KeyInMemory, OneKey
<1>3. CheckedInTime /\ Counting BY DEF Init, CheckedInTime, Counting
<1>4. FirstToken /\ RecordedTakesFaults BY DEF Init, FirstToken, RecordedTakesFaults, Exists
<1> QED BY <1>1, <1>2, <1>3, <1>4 DEF IInv

LEMMA InvCorrect == Spec => []IInv
<1>1. IInv /\ [Next]_vars => IInv'
  BY TypeStep, KeyInMemoryStep, OneKeyStep, CheckedInTimeStep, RecordedStep, CountingStep
  DEF IInv
<1> QED BY InitIInv, <1>1, PTL DEF Spec

\* The variables keep their types.
THEOREM TypeCorrect == Spec => []TypeOK
BY InvCorrect, PTL DEF IInv

\* The service never runs longer than one Recheck after the expiry of a token
\* that was issued: verify.go at start and the goroutine every 12 hours.
THEOREM LicenseEndsService == Spec => []NoServiceWithoutLicense
<1>1. IInv => NoServiceWithoutLicense
  <2> SUFFICES ASSUME IInv, service = "running"
               PROVE  loaded # 0 /\ now <= issued[loaded].exp + Recheck
    BY DEF NoServiceWithoutLicense
  <2>1. issued \in Seq(Token) /\ now \in Nat /\ checked \in Nat /\ Recheck \in Nat
    BY BoundsAssumption DEF IInv, TypeOK, RecordTypeOK, MachineTypeOK, Times
  <2>2. /\ loaded \in 1..Len(issued)
        /\ checked <= issued[loaded].exp /\ now <= checked + Recheck
    BY DEF IInv, CheckedInTime
  <2>3. issued[loaded] \in Token BY <2>1, <2>2
  <2>4. issued[loaded].exp \in Nat BY <2>3 DEF Token
  <2> QED BY <2>1, <2>2, <2>4
<1> QED BY InvCorrect, <1>1, PTL

\* LoadOrGenerateKeypair never leaves a token behind that its own key would
\* refuse, wherever the first start is cut.
THEOREM OneKeyInUse == Spec => []OneKey
BY InvCorrect, PTL DEF IInv

\* The expiry the administrator reads is the newest token's: SetLicenseExpires,
\* the migration at every start, and no fault.
THEOREM RecordedCorrect == Spec => []RecordedTakesFaults
BY InvCorrect, PTL DEF IInv

\* handleHeartbeatFailure and handleHeartbeatResp stop the service of nobody who
\* is enabled and whose heartbeats succeed.
THEOREM StopsHaveCause == Spec => StopsForCause
<1>1. IInv /\ [Next]_vars =>
        [Stops => \/ customer = "disabled"
                  \/ failing' # Never /\ now - failing' >= Grace - 1]_vars
  <2> SUFFICES ASSUME IInv, Next, Stops, customer # "disabled"
               PROVE  failing' # Never /\ now - failing' >= Grace - 1
    BY DEF Stops, vars, serviceVars
  <2>0. /\ now \in Nat /\ lastOK \in Nat \cup {Never} /\ failing \in Nat \cup {Never}
        /\ beaten \in BOOLEAN /\ Grace \in Nat /\ Counting
    BY BoundsAssumption DEF IInv, TypeOK, MachineTypeOK, Times
  <2>1. HeartbeatFails
    BY DEF Next, Stops, serviceVars, Start, WritePrivateKey, WritePublicKey, MasterStops,
       BuildService, Add, Issue, Toggle, Delete, Install, ReplaceToken, RestartService,
       AgentRestart, LinkChanges, StartService, CheckAgain, HeartbeatSucceeds, Tick
  <2>2. /\ lastOK # Never /\ now - lastOK >= Grace
        /\ failing' = IF failing = Never THEN now ELSE failing
    BY <2>1 DEF HeartbeatFails, Stops, serviceVars
  <2>3. CASE failing # Never BY <2>0, <2>2, <2>3 DEF Counting
  <2>4. CASE failing = Never
    <3>1. now - lastOK <= 1 BY <2>0, <2>2, <2>4 DEF Counting
    <3> QED BY <2>0, <2>2, <2>4, <3>1
  <2> QED BY <2>3, <2>4
<1> QED BY InvCorrect, <1>1, PTL DEF Spec, StopsForCause
=============================================================================
