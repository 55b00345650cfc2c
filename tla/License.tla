------------------------------- MODULE License -------------------------------
(***************************************************************************)
(* The life of one customer's license: key pair of the master, tokens      *)
(* signed by the administrator's bot, the copies of a token on the         *)
(* customer's machine, and who looks at which copy.                        *)
(*                                                                         *)
(* Two programs read a token from two files.  The service verifies its     *)
(* own copy offline, at start and every 12 hours, with the public key it   *)
(* was built with.  The agent sends its copy with every request, and the   *)
(* master verifies that; a refusal counts as a failed heartbeat, and       *)
(* GraceDays of these make the agent stop the service.                     *)
(*                                                                         *)
(* There is one clock.  A heartbeat is one step here; ServiceControl opens *)
(* it, with both threads of the agent.                                     *)
(***************************************************************************)
EXTENDS Integers, Sequences

CONSTANTS
    Days,         \* validities that /issue is asked for
    DefaultDays,  \* cfg.License.DefaultDays, of /add and of the button
    Estimate,     \* the 365 days of the migration
    Recheck,      \* the service verifies its token again after so long (12 h)
    Grace,        \* the agent stops the service after so long without success
    MaxNow,       \* end of the clock (bound)
    MaxTokens,    \* tokens signed (bound)
    MaxKeys,      \* key pairs generated (bound)
    MaxFaults     \* failed writes and lost answers of the master (bound)

ASSUME BoundsAssumption ==
    /\ Days \subseteq Nat /\ DefaultDays \in Nat /\ Estimate \in Nat
    /\ Recheck \in Nat \ {0} /\ Grace \in Nat \ {0}
    /\ MaxNow \in Nat /\ MaxTokens \in Nat /\ MaxKeys \in Nat /\ MaxFaults \in Nat

VARIABLES
    now,       \* the clock; it starts when the customer is added
    master,    \* the master's process
    memkey,    \* key pair in its memory
    keyfile,   \* master.key, NoKey if missing
    pubfile,   \* master.pub, NoKey if missing
    generated, \* key pairs generated so far
    embedded,  \* public key the released service is built with
    customer,  \* the customer's row
    recorded,  \* its license_expires_at, Never if NULL
    issued,    \* tokens the administrator has received, in order
    service,   \* the service's systemd unit
    conf,      \* token in the service's config.json: an index of issued, 0 if none
    loaded,    \* token the running service has read
    checked,   \* when it has verified it last
    agent,     \* token of the running agent, 0 before the installation
    link,      \* the network lets the agent reach the master
    lastOK,    \* the agent's lastSuccessTime, Never in a new process
    beaten,    \* the agent has sent a heartbeat at this time
    failing,   \* history: since when each heartbeat has failed
    cut,       \* history: one of these did not reach the master
    faults     \* faults so far

keyVars     == <<memkey, keyfile, pubfile, generated>>
recordVars  == <<customer, recorded, issued>>
serviceVars == <<service, conf, loaded, checked>>
agentVars   == <<agent, link, lastOK, beaten, failing, cut>>
vars == <<now, master, keyVars, embedded, recordVars, serviceVars, agentVars, faults>>

Never == -1
NoKey == 0
Keys  == 1..MaxKeys
Times == 0..MaxNow

Token == [key : Keys, exp : Nat]

MasterTypeOK ==
    /\ master \in {"down", "generated", "written", "up"}
    /\ generated \in 0..MaxKeys
    /\ memkey \in 0..MaxKeys /\ keyfile \in 0..MaxKeys
    /\ pubfile \in 0..MaxKeys /\ embedded \in 0..MaxKeys

RecordTypeOK ==
    /\ customer \in {"none", "enabled", "disabled", "deleted"}
    /\ recorded \in Nat \cup {Never}
    /\ issued \in Seq(Token) /\ Len(issued) <= MaxTokens
    /\ faults \in 0..MaxFaults

MachineTypeOK ==
    /\ service \in {"absent", "starting", "running", "stopped"}
    /\ conf \in 0..Len(issued) /\ loaded \in 0..Len(issued) /\ agent \in 0..Len(issued)
    /\ checked \in Times
    /\ link \in BOOLEAN /\ beaten \in BOOLEAN /\ cut \in BOOLEAN
    /\ lastOK \in Times \cup {Never} /\ failing \in Times \cup {Never}

TypeOK == now \in Times /\ MasterTypeOK /\ RecordTypeOK /\ MachineTypeOK

Init ==
    /\ now = 0
    /\ master = "down" /\ memkey = NoKey /\ keyfile = NoKey /\ pubfile = NoKey
    /\ generated = 0 /\ embedded = NoKey
    /\ customer = "none" /\ recorded = Never /\ issued = <<>>
    /\ service = "absent" /\ conf = 0 /\ loaded = 0 /\ checked = 0
    /\ agent = 0 /\ link = TRUE /\ lastOK = Never /\ beaten = FALSE
    /\ failing = Never /\ cut = FALSE
    /\ faults = 0

Exists == customer \in {"enabled", "disabled"}

Fault == faults < MaxFaults /\ faults' = faults + 1

\* Slip: a token that ends today is good for as long as it was signed for.
VerifyAnyDay(i, key) == i # 0 /\ issued[i].key = key

\* Verify of the master: signature, then expiry.  (It also looks at IssuedAt, which
\* one clock never has ahead of now.)
Verify(i, key) == i # 0 /\ issued[i].key = key /\ now <= issued[i].exp

\* Verify of the service, a copy of it, with the embedded key.
VerifyOffline(i) == Verify(i, embedded)

-----------------------------------------------------------------------------
(* The master's process.                                                    *)

\* Slip: every start writes the estimate.
BackfillAll == recorded' = IF Exists THEN Estimate ELSE recorded

\* 007_customer_license_expires.sql runs at every start: created_at and a
\* year where there is no expiry yet.
Backfill ==
    recorded' = IF Exists /\ recorded = Never THEN Estimate ELSE recorded

\* main: migrations, then LoadOrGenerateKeypair, which asks for master.key only.
Start ==
    /\ master = "down"
    /\ Backfill
    /\ \/ /\ keyfile # NoKey
          /\ master' = "up" /\ memkey' = keyfile
          /\ UNCHANGED generated
       \/ /\ keyfile = NoKey /\ generated < MaxKeys
          /\ generated' = generated + 1
          /\ master' = "generated" /\ memkey' = generated + 1
    /\ UNCHANGED <<now, keyfile, pubfile, embedded, customer, issued, serviceVars, agentVars, faults>>

\* Slip: the error of writePrivateKey is not looked at.
WritePrivateKeyMaybe ==
    /\ master = "generated"
    /\ keyfile' \in {keyfile, memkey} /\ master' = "written"
    /\ UNCHANGED <<now, memkey, pubfile, generated, embedded, recordVars, serviceVars, agentVars, faults>>

\* A temporary file is renamed: master.key is whole or missing.
WritePrivateKey ==
    /\ master = "generated"
    /\ keyfile' = memkey /\ master' = "written"
    /\ UNCHANGED <<now, memkey, pubfile, generated, embedded, recordVars, serviceVars, agentVars, faults>>

WritePublicKey ==
    /\ master = "written"
    /\ pubfile' = memkey /\ master' = "up"
    /\ UNCHANGED <<now, memkey, keyfile, generated, embedded, recordVars, serviceVars, agentVars, faults>>

\* A crash, a stop, or a key file that cannot be written (log.Fatalf).
MasterStops ==
    /\ master # "down"
    /\ master' = "down" /\ memkey' = NoKey
    /\ UNCHANGED <<now, keyfile, pubfile, generated, embedded, recordVars, serviceVars, agentVars, faults>>

\* The service is built with what /pubkey shows or with the file master.pub.
BuildService ==
    /\ \/ master = "up" /\ embedded' = memkey
       \/ pubfile # NoKey /\ embedded' = pubfile
    /\ UNCHANGED <<now, master, keyVars, recordVars, serviceVars, agentVars, faults>>

-----------------------------------------------------------------------------
(* The administrator's bot.                                                 *)

\* Sign, with the key in memory.
Sign(days) == [key |-> memkey, exp |-> now + days]

\* Slip: the token is recorded with the default validity, whatever was asked.
SignNewTokenDefault(days) ==
    /\ Len(issued) < MaxTokens
    /\ issued' = Append(issued, [key |-> memkey, exp |-> now + days])
    /\ recorded' = now + DefaultDays
    /\ UNCHANGED faults

\* Slip: the validity is subtracted.
SignNewTokenBackwards(days) ==
    /\ Len(issued) < MaxTokens
    /\ issued' = Append(issued, [key |-> memkey, exp |-> now - days])
    /\ recorded' = now - days
    /\ UNCHANGED faults

\* signNewToken and the reply: signed, recorded, shown.  The record may fail;
\* the master may die, or the reply may be lost, after the record.
SignNewToken(days) ==
    LET token == Sign(days) IN
    /\ Len(issued) < MaxTokens
    /\ \/ recorded' = token.exp /\ issued' = Append(issued, token) /\ UNCHANGED faults
       \/ Fault /\ issued' = Append(issued, token) /\ UNCHANGED recorded
       \/ Fault /\ recorded' = token.exp /\ UNCHANGED issued

\* cmdAdd: the row, then its first token; the master may die between the two.
Add ==
    /\ master = "up" /\ customer = "none"
    /\ customer' = "enabled"
    /\ \/ SignNewToken(DefaultDays)
       \/ Fault /\ UNCHANGED <<recorded, issued>>
    /\ UNCHANGED <<now, master, keyVars, embedded, serviceVars, agentVars>>

\* cmdIssue and the button: older tokens stay good.
Issue ==
    /\ master = "up" /\ Exists
    /\ \E days \in Days \cup {DefaultDays} : SignNewToken(days)
    /\ UNCHANGED <<now, master, keyVars, embedded, customer, serviceVars, agentVars>>

\* SetEnabled.
Toggle ==
    /\ master = "up" /\ Exists
    /\ customer' = IF customer = "enabled" THEN "disabled" ELSE "enabled"
    /\ UNCHANGED <<now, master, keyVars, embedded, recorded, issued, serviceVars, agentVars, faults>>

\* DeleteCustomer: nobody tells the service.
Delete ==
    /\ master = "up" /\ Exists
    /\ customer' = "deleted"
    /\ UNCHANGED <<now, master, keyVars, embedded, recorded, issued, serviceVars, agentVars, faults>>

-----------------------------------------------------------------------------
(* The customer's machine.                                                  *)

\* install.sh --license writes both copies and restarts both units.
Install ==
    /\ embedded # NoKey
    /\ \E i \in 1..Len(issued) : conf' = i /\ agent' = i
    /\ service' = "starting" /\ loaded' = 0 /\ checked' = 0
    /\ lastOK' = Never /\ beaten' = FALSE
    /\ UNCHANGED <<now, master, keyVars, embedded, recordVars, link, failing, cut, faults>>

\* What the reply of /issue asks for: license.token in the service's config.json.
ReplaceToken ==
    /\ service # "absent"
    /\ conf' \in 1..Len(issued)
    /\ UNCHANGED <<now, master, keyVars, embedded, recordVars, service, loaded, checked, agentVars, faults>>

\* By the customer, by a command or an update of the agent, or after a crash.
RestartService ==
    /\ service # "absent"
    /\ service' = "starting" /\ loaded' = 0 /\ checked' = 0
    /\ UNCHANGED <<now, master, keyVars, embedded, recordVars, conf, agentVars, faults>>

\* license_key in the agent's config.json is replaced or not; lastSuccessTime
\* lives in the process.
AgentRestart ==
    /\ agent # 0
    /\ agent' \in {agent} \cup 1..Len(issued)
    /\ lastOK' = Never /\ beaten' = FALSE
    /\ UNCHANGED <<now, master, keyVars, embedded, recordVars, serviceVars, link, failing, cut, faults>>

LinkChanges ==
    /\ link' = ~link
    /\ UNCHANGED <<now, master, keyVars, embedded, recordVars, serviceVars, agent, lastOK, beaten, failing, cut, faults>>

\* main of the service: a start that is refused is tried again by systemd.
StartService ==
    /\ service = "starting"
    /\ VerifyOffline(conf)
    /\ service' = "running" /\ loaded' = conf /\ checked' = now
    /\ UNCHANGED <<now, master, keyVars, embedded, recordVars, conf, agentVars, faults>>

\* Every 12 hours, with the token read at start; os.Exit(2) otherwise.
CheckAgain ==
    /\ service = "running"
    /\ now = checked + Recheck
    /\ IF VerifyOffline(loaded)
       THEN checked' = now /\ UNCHANGED <<service, loaded>>
       ELSE service' = "starting" /\ loaded' = 0 /\ checked' = 0
    /\ UNCHANGED <<now, master, keyVars, embedded, recordVars, conf, agentVars, faults>>

\* systemctl stop; ServiceControl has its failures.
StopService == service' = "stopped" /\ loaded' = 0 /\ checked' = 0 /\ UNCHANGED conf

Reachable == master = "up" /\ link
Accepted  == Reachable /\ Verify(agent, memkey) /\ Exists

\* Slip: markSuccess sets the time only once.
HeartbeatSucceedsOnce ==
    /\ agent # 0 /\ Accepted
    /\ beaten' = TRUE /\ lastOK' = IF lastOK = Never THEN now ELSE lastOK
    /\ failing' = Never /\ cut' = FALSE
    /\ IF customer = "disabled" THEN StopService ELSE UNCHANGED serviceVars
    /\ UNCHANGED <<now, master, keyVars, embedded, recordVars, agent, link, faults>>

\* Auth, the heartbeat handler, markSuccess, handleHeartbeatResp.
HeartbeatSucceeds ==
    /\ agent # 0 /\ Accepted
    /\ beaten' = TRUE /\ lastOK' = now
    /\ failing' = Never /\ cut' = FALSE
    /\ IF customer = "disabled" THEN StopService ELSE UNCHANGED serviceVars
    /\ UNCHANGED <<now, master, keyVars, embedded, recordVars, agent, link, faults>>

\* A 401 is a failure like any other: handleHeartbeatFailure.
HeartbeatFails ==
    /\ agent # 0 /\ ~Accepted
    /\ beaten' = TRUE
    /\ failing' = IF failing = Never THEN now ELSE failing
    /\ cut' = (cut \/ ~Reachable)
    /\ IF lastOK # Never /\ now - lastOK >= Grace THEN StopService ELSE UNCHANGED serviceVars
    /\ UNCHANGED <<now, master, keyVars, embedded, recordVars, agent, link, lastOK, faults>>

\* Starts take seconds, heartbeats come every 20 minutes, the check when due.
Tick ==
    /\ now < MaxNow /\ customer # "none"
    /\ master \in {"down", "up"}
    /\ agent # 0 => beaten
    /\ service = "starting" => ~VerifyOffline(conf)
    /\ service = "running" => now < checked + Recheck
    /\ now' = now + 1 /\ beaten' = FALSE
    /\ UNCHANGED <<master, keyVars, embedded, recordVars, serviceVars, agent, link, lastOK, failing, cut, faults>>

Next ==
    \/ Start \/ WritePrivateKey \/ WritePublicKey \/ MasterStops \/ BuildService
    \/ Add \/ Issue \/ Toggle \/ Delete
    \/ Install \/ ReplaceToken \/ RestartService \/ AgentRestart \/ LinkChanges
    \/ StartService \/ CheckAgain \/ HeartbeatSucceeds \/ HeartbeatFails
    \/ Tick

Spec == Init /\ [][Next]_vars

-----------------------------------------------------------------------------
(* Properties.                                                              *)

\* The service runs on a token that was issued, for one Recheck at most after
\* its expiry, whatever happens to master, agent, network and both files: the
\* license is what ends a service that nobody can reach any more.
NoServiceWithoutLicense ==
    service = "running" => loaded # 0 /\ now <= issued[loaded].exp + Recheck

\* One key pair is ever in use, also when the start that generates it is cut
\* between its files: every token handed out is signed by the key on the disk,
\* and that is what the master verifies with, what master.pub holds if it
\* exists, and what the service is built with.
OneKey ==
    /\ \A i \in 1..Len(issued) : issued[i].key = keyfile
    /\ master = "up" => memkey = keyfile
    /\ {pubfile, embedded} \subseteq {NoKey, keyfile}

\* The expiry on the customer's page is that of the newest token unless a write
\* or a reply was lost, in spite of the estimate at every start of the master.
RecordedTakesFaults ==
    Exists /\ faults = 0 => recorded = issued[Len(issued)].exp

Stops == service # "stopped" /\ service' = "stopped"

\* The agent stops the service of a disabled customer, or when no heartbeat has
\* succeeded for the whole grace period, counted from one to the next.
StopsForCause ==
    [][Stops => \/ customer = "disabled"
                \/ failing' # Never /\ now - failing' >= Grace - 1]_vars

\* license-design.md:95 and the reply of /issue: to renew a license, replace the
\* token in the service's config.json and restart the service.  An enabled
\* customer who has done so is not stopped while master and network are up.
RenewedAsTold ==
    [][Stops /\ customer = "enabled" /\ VerifyOffline(conf) => cut']_vars
=============================================================================
