# bushubot in TLA+

bushubot operates copies of a program, *tgfulibot*, on customers' machines. A
**master** (one Go process with PostgreSQL and a Telegram bot for the
administrator) keeps customers, licenses, releases and a queue of commands. An
**agent** (one Go process per machine, under systemd) sends heartbeats, pulls
commands, and starts, stops and updates the service. This directory holds the
TLA+ models of that system, the TLC runs over small instances, and TLAPS proofs.
`PROJECT.json` maps each definition to the lines it models.

## 1. Inventory

| Part | State | Operations | What makes it hard |
|---|---|---|---|
| agent, heartbeat and control (`agent/cmd/main.go`) | `state` (current version, time of last success), VERSION, systemd unit | first heartbeat in a goroutine, heartbeat ticker, answers, grace period, stop, restart, update | two threads act on answers that may be stale; grace period in memory only |
| agent, command loop (`main.go` 315-407) | batch in memory | pull, run each command, ack | delivery at least once; an update may exit inside a command |
| agent, updater (`updater.go`) | binary, migrations, backups, VERSION | `Update`, `StopService`, `RestartService` | every file operation may fail or be the last one; retry starts from what is on disk |
| agent, self-update (`updater.go`, `main.go` 238-287) | the agent's own binary, its backups, marker | `shouldSelfUpdate`, `SelfUpdate`, `selfUpdateAndExit` | two threads on the same files, `os.Exit` of one under the other, names by the second |
| agent, version order (`version.go`) | none | `Compare`, `LessThan` | missing numbers count as 0 |
| agent, HTTP client (`client/master.go`) | none | heartbeat, report, notifications, ack, logs | 15 s timeout while the master's handler goes on |
| agent, customer's bot, config, system information | none | send one message, read files | input and output |
| master, agent API (`api/agent_handler.go`) | throttle of metric snapshots | Auth, heartbeat, report, notifications, ack, logs | reads and writes of one request are separate statements; errors of some are discarded |
| master, store (`store.go`) | customers, notifications, events, releases, settings, broadcasts, metrics, logs | queries and transactions | counters and flags moved by several requests; all-or-nothing of transactions; a deletion against requests under way; trimming of logs |
| master, alerter (`alerter.go`) | `ruleLastAlert` in memory, `alerted` flags | scan of events, scan of rules | tell first, mark second; lookback window; cooldown |
| master, administrator's bot (`bot/`) | one conversation per chat, in memory | conversations, broadcast preview, buttons, commands, list of customers | buttons of old messages stay pressable; conversations age, are replaced, are lost in a crash |
| master, license (`license/`) | two key files, key in memory | generate or load keys, sign, verify | a start cut between the two files; token and recorded expiry written apart |
| service's license check (`tgfulibot-integration/verify.go`) | token read at start | verify at start and every 12 h | a second copy of the token, in another file than the agent's |
| master, process (`cmd/main.go`, migrations, config, model) | wiring | start-up, cleaners | the migration that fills in expiries runs at every start |
| scripts and workflows | | install, upgrade, roll back, build | run by hand or by CI |

**Interactions.** The agent calls the master over HTTP: heartbeat (20 min) and
pull (60 s) tickers in the main loop, one first heartbeat in a goroutine. The
administrator's bot writes the tables the API reads. The alerter reads the events
that `report` writes and the heartbeats' times, and sends through the bot. The
agent controls two systemd units, the service's and its own. The service never
talks to the master: it only reads its own copy of the license token.

**What makes each part correct.** *Queue*: nothing is marked delivered without a
success or enough attempts; runs are bounded; what is over stays over; nothing
stays for ever. *Control*: the service is stopped only for cause; a lasting
disable or a lasting loss of the network does stop it; machines converge to the
latest release. *Updater*: a working binary is not lost; a rollback restores.
*Self-update*: the agent has a whole binary to be started from, does not restart
for ever, and bars only what it runs. *Alerter*: marked means told; repeats and
losses take faults; lasting trouble is told. *Bot*: a preview is sent at most once
and only while it is open; history and queue agree; there is one latest release.
*License*: no service outlives its license; one key is in use; a valid license is
not stopped. *Customer's rows*: the newest logs stay, the old ones go, and a
deletion takes everything or fails for a cause.

The hazards of this code, each at its line with the properties against it, are
listed in `PROJECT.json`.

## 2. Modules

| Module | Models | Runs | Proofs |
|---|---|---|---|
| `CommandPromise` | abstract: commands are lent, used within a budget, closed for good | (as `KeepsPromise`) | |
| `CommandDelivery` | queue, pull and ack handlers of the master, command loop of the agent | CommandDelivery | `CommandDeliveryProofs` |
| `ServiceControl` | who starts, stops and updates the service, with both heartbeat threads | ServiceControl, ServiceDowngrade, ServiceUnplugged, ServiceDeleted | `ServiceControlProofs` |
| `Updater` | `Updater.Update`, one action per file operation | Updater | `UpdaterProofs` |
| `VersionOrder` | `version.Compare`, `LessThan` | (in SelfUpdate) | `SelfUpdateProofs` |
| `SelfUpdate` (extends `VersionOrder`) | the agent replacing its own binary | SelfUpdate | `SelfUpdateProofs` |
| `Alerter` | `alerter.Run` and its two scans | Alerter | `AlerterProofs` |
| `BotConversation` | conversations, preview, buttons and commands of the administrator's bot; the store's transactions | BotConversation | `BotConversationProofs` |
| `CustomerPages` | the slice and the buttons of the list of customers | (in BotConversation) | `BotConversationProofs` |
| `License` | key pair, tokens, both copies of a token, everyone who verifies one | License, LicenseRenewal | `LicenseProofs` |
| `CustomerRecords` | the rows of one customer under concurrent requests, deletion and clean-up | CustomerRecords | `CustomerRecordsProofs` |

`MCCommandDelivery`, `MCSelfUpdate` and `MCAlerter` give function-valued
constants their values, `MCCustomerRecords` gives the symmetry of requests, and
`MCSelfUpdate` and `MCBotConversation` have TLC evaluate statements about pure
operators. Definitions with a comment that begins with *Slip* are plausible bugs
of the definition that follows; each property of a passing run fails under one of
them (`mutants` in `PROJECT.json`).

### CommandDelivery

`queued`, `attempts`, `delivered` are the rows of `notifications`. A pull handler
`h` of the master is `Select` (the SELECT), `Count` (`attempts + 1`),
`ForceDeliver` (the second UPDATE of `MarkAttempted`) and `Answer`; between any two
the client may give up (`PullFails`, 15 s) while the handler goes on, or the
statement fails with its error discarded (`SelectFails`, `MarkFails`), or the
master dies. The agent is sequential: `Pull`, then for each command of the batch
`Succeed`, `Fail` or `ExitInside` (a forced update whose heartbeat asks for a newer
agent), then `AckReturns`; `ApplyAck` and `LoseAck` are the ack at the master, which
may come late. `runs` and `succeeded` are history variables. That a command other
than a restart fails without an event for the administrator (`main.go:334` counts
on one) changes no state and is only listed as a hazard.

### ServiceControl

Threads `boot` (goroutine of the first heartbeat) and `loop` (main loop) each go
through `Send`, `Serve` (the master reads the flag and the release), `Receive`, and
one of `HandleDisabled`, `HandleEnabled`, `SelfUpdateFails`, `HandleFailure`;
`FinishUpdate` ends an update begun long before. `seen` is VERSION as sent with the
heartbeat, `answer` and `named` what the answer holds: all may be stale when used.
`success` abstracts `lastSuccessTime`: never, recent, over. The administrator's
side is `Disable`, `Enable`, `OrderRestart`, `Delete`, `Publish`; the environment
`LinkChanges`, `GraceElapses`, `AgentRestart`, `Reboot`. An update that ends in the
middle, by a failed write or by the end of the process, may leave VERSION empty, which
is version 0. `Offered` is the release the master names when the agent starts:
`install.sh` installs what GitHub has, so it need not be the installed one. `cause` is a
history variable: who was in flight when the customer was disabled.

`CutOffStops` is about the network. The same code stops the service of a customer whose
row is deleted, because 401 counts as a failed heartbeat; the comment at `store.go:136`
and the page that asks for the deletion (`callback.go:196`) say that it keeps running.
`DeletedKeepsRunning` states what they say, and the run ServiceDeleted refutes it.

### Updater

`bin`, `mig`, `verfile` and the two sequences of backups are what is on the disk;
a file holds a version, `Partial` or `Missing`. `step` is where `Update` is: backup
and copy of the binary, backup and copy of the migrations, restart, way back,
VERSION, clean-up. Every operation may fail, the agent may be killed between any
two, and `Begin` starts again from what is there. The unit is `Type=simple`, so
systemctl reports success for a binary that then crashes (`Runs`, `Reported`).

`KeepsAGoodBinary` says under how many faults no retry can push the last working
binary out of the `Keep` backups: each release that crashes may be installed once,
and once more for every fault, because a VERSION file that was cut counts as
version 0 and makes old releases installable again.

### VersionOrder and SelfUpdate

A version is the sequence of its numbers. `LessThan` is stated as the order that
the code means and `Scan` is the loop of `Compare`; `MCSelfUpdate` has TLC compare
the two for all versions of up to three numbers below 3 (`ScanComputesCompare`), and
`ScanIsCompare` proves them equal.

`SelfUpdate` gives files as inodes, because the rename of one thread may move the
file that the other thread is writing, and because two backups of one second have
one name (`over` in `MoveAway`). `MoveAway`, `Create`, `Fill`, `Truncate`, `Mark`,
`Exit` are the steps of `SelfUpdate` and `selfUpdateAndExit`; `CopyFails` and `Restore`
are the way back, in which the rename of the backup may fail as well, its error being
discarded. `os.WriteFile` empties the marker (`Truncate`) before it writes it (`Mark`): a
write that fails, or `os.Exit` of the other thread in between, leaves it empty, and two
texts of different lengths may mix to one that names no version. The model has one value
for both, `Unset`, since no version equals either. `Start` is systemd, which starts what
is at the path if it is whole. Three history variables hold what may go wrong: `cut`, the
binary was lost in one of the ways below; `crossed`, both threads were replacing the
binary, or one did not come to write the marker; `lost`, how many markers one thread
spoiled for the other.

There are three ways to lose the binary, and `BrokenOnlyIfCut` says that there is no
other: the process ends, by a kill or by the other thread's `os.Exit`, while a thread is
between the rename and the end of the copy or of the way back; the copy fails and the
rename back as well; a thread takes the other's unfinished file for its backup. In the
second the agent lives on without a file at its path, and nothing heals it: every later
self-update fails at its first rename.

`RestartsAreBounded` counts restarts against changes of the latest version, faults and
lost markers. The minimum may change at will: the marker bars a version whatever the
minimum asks for. TLC finds each term needed.

What the model shows besides its properties: the agent may be left without a binary
without any kill, when `os.Exit` of one thread comes between rename and copy of the
other (the comment at `updater.go:161` reads otherwise); after a crossing the marker may bar a version
that is not installed for good; an older version as the latest one, the rollback
that `protocol-evolution.md:141-147` describes, is refused by every agent.

### Alerter

Time is counted in ticks of the alerter. The goroutine is `Scan`, `Select`, `Tell`
(one group's message), `Mark`, then `List` and, for each rule that is due, `HoldBack`
or `Warn`. `told`, `watched` and `informed` are history variables. A warning from a list
that is no longer true does not inform of trouble that comes later (`Inform`), although
it starts the cooldown.

### BotConversation and CustomerPages

`conv` is `h.convs[chat]` of the one chat there is: flow, step, the keys collected in
`data`, and after `enterBroadcastPreview` the preview, told apart by number. `old`
says that `updatedAt` is over ten minutes ago; only texts look at it
(`InConversation`), buttons do not. Texts are `Answer`, `AnswerTemplate`,
`AnswerAll`, `AnswerOne` inside of a conversation and `Dispatch` outside. A refused
text changes nothing. Buttons are `Start`, `PressTemplate`, `Confirm`, `Edit`,
`Cancel` and those on the page of a customer. Any button may be pressed at any
time: messages stay in the chat. This also covers a press that Telegram delivers
again after a crash. Transactions run statement by statement on a copy (`job.work`)
that `Commit` makes the database; `Fail` rolls back, or finds that the commit had
happened and only its answer was lost; `Crash` loses copy and conversation.

`CustomerPages` is the arithmetic of the list in `menu.go`: number of pages, the page
that is shown for the number in a button of any age, the slice taken, and the pages
its buttons lead to.

### License

One clock, which starts when the customer is added and ticks only when everything
that is quicker than a tick has happened (`Tick`). The master's first start writes
`master.key` and then `master.pub` (`WritePrivateKey`, `WritePublicKey`) and may be cut
anywhere (`MasterStops`); later starts read the first file only. `Start` also runs
migration 007, which estimates missing expiries (`Backfill`). `SignNewToken` is
signature, record and reply, each of which may get lost; `Add` and `Issue` use it. A
signature is the number of the key that made it.

`install.sh` writes one token into two files: `conf`, which the service reads at start
and verifies every 12 hours with the key it was built with (`StartService`,
`CheckAgain`), and `agent`, which the agent sends with every request and the master
verifies (`Accepted`). `HeartbeatSucceeds` and `HeartbeatFails` are a heartbeat in one
step; ServiceControl opens it. `failing` and `cut` are history variables: since when
each heartbeat has failed, and whether one of these did not reach the master.

What the model shows besides its properties: `master.pub` stays missing for good after
a crash between the two files, and `scripts/backup-master.sh:46`, which copies it, then
fails. That the service of a deleted customer is stopped, which `StopsForCause` allows,
is the subject of ServiceDeleted.

### CustomerRecords

Rows of the four tables that refer to one customer, numbered by the time their
insertion began, which is `received_at`; they may become visible in another order. A
request `h` of the agent is `Auth`, then `BeginSnapshot` or `BeginInsert`, `Insert`, and
for logs `Pluck` and `Trim` (the second and third statement of `SaveAgentLog`), each
after any step of anybody else. `DeleteCustomer` is `BeginDelete`, four `DeleteRows`,
`DeleteRow`, `Commit`; PostgreSQL's foreign keys make `DeleteRow` impossible, hence
`DeleteRefused`, while a row refers to the customer, and make an insertion wait for a
deletion that is about to commit (`Locked`). `CleanupOldMetrics`, `MarkerAges` and `Crash`
complete it. `late` and `saved` are history variables.

## 3. Runs

All runs finish within three minutes with two workers.

| Run | Instance | States | Shows |
|---|---|---|---|
| CommandDelivery | 2 commands (restart, forced update), 2 pull handlers, 2 attempts, 1 fault, fairness | 450 k | `DeliveredAccounted`, `BoundedExecutions`; implements `CommandPromise` (`KeepsPromise`); `Drained`: every command ends delivered |
| ServiceControl | 1 order, 1 release offered at the start and 1 published later, 1 restart, 1 fault, fairness | 993 k | `StopsOnlyForCause`, `DisabledStops`, `CutOffStops`, `Converges` |
| Updater | releases 0..3 of which 1 crashes, migrations in 0, 1, 3, 3 backups kept, 2 faults, fairness | 250 k | `KeepsAGoodBinary`, `RollbackRestores`, `CatchesUp` |
| SelfUpdate | 3 texts of 2 versions, the higher one as the minimum or none, 2 changes of the latest version, 2 faults, 2 lost markers | 1.80 M | `BrokenOnlyIfCut`, `RestartsAreBounded`, `MarkerIsInstalled`; `ScanComputesCompare` |
| Alerter | 2 events in 2 groups, 1 customer, 2 rules, lookback 3, threshold 1, cooldown 1, 1 fault | 660 k | `MarkedWasTold`, `RepeatsTakeFaults`, `LossTakesFaults`, `TroubleTold` |
| BotConversation | 2 customers, one still to be added, 2 versions, 2 previews, 1 fault | 1.43 M | `StepsHaveData`, `OneFatePerPreview`, `HistoryMatchesQueue`, `LatestIsUnique`; pages of lists of 0..31 customers |
| License | validities 1 and 2, estimate 3, recheck 1, grace 2, clock to 4, 2 tokens, 2 key pairs, 1 fault | 1.69 M | `NoServiceWithoutLicense`, `OneKey`, `RecordedTakesFaults`, `StopsForCause` |
| CustomerRecords | 2 requests at a time, 1 log kept, 4 rows, 1 fault | 2.25 M | `NewestLogsKept`, `LogsBounded`, `DeletionFailsForCause` |

Four runs are expected to find a violation, of what a comment or a document says:

| Run | Claim | What the code does |
|---|---|---|
| ServiceDowngrade | comparing versions prevents downgrades (`main.go:223`) | the comparison is made long before the update; two overlapping updates may end in the wrong order |
| ServiceUnplugged | unplugging the network is answered by a stop after seven days (`license-design.md:39`) | the time of the last success is lost with the process, and without one the grace period never ends |
| ServiceDeleted | the service of a deleted customer keeps running, its license being verified offline (`store.go:136`, `callback.go:196`) | its heartbeats are refused with 401, which counts like an unreachable master, and after the grace period the agent stops it |
| LicenseRenewal | to renew a license, replace the token in the service's `config.json` and restart the service (`handler.go:333`, `license-design.md:95`) | the agent goes on with its own, expired copy, its heartbeats are refused, and after the grace period it stops the service of a customer with a valid license |

**Bounds and why they are enough.** Two handlers, threads or requests are all the code
can have in conflict at a time: the client's pulls are sequential, so a further
abandoned handler only repeats what one does; the agent has two threads that send
heartbeats. Two commands make a batch whose rest can be lost; two attempts reach the
forced delivery. `MaxAttempts` (3 in the code), `Lookback` (6), `Offline` (8) and
`Cooldown` (12), the 20 logs and the periods of the license are smaller here, and no
action depends on their value otherwise. `Keep` of the updater (5) is 3, the least for
which `KeepsAGoodBinary` speaks of an instance with a bad release and a fault. Two
releases overlap and overtake, whether both are published during the run or one was
before; one that crashes and one that does not make a rollback
with something to lose. For the agent two changes of the latest version give an old and
a new answer: the thread with the older one writes the marker last, under a minimum above
both, and the newer version is installed once more. Two faults are a copy
and a rename back that fail, two lost markers one by an exit and one by a mixture. Two
tokens are an old and a new one, and two key pairs those of a first start that was cut
and of the next. Two previews are an old and a new one. Four rows are two logs of two
requests, or one in every table. Faults are bounded because the properties count them
(`BoundedExecutions`, `RestartsAreBounded`, `RepeatsTakeFaults`, `LossTakesFaults`,
`LogsBounded`, `TroubleTold`), hold without them (`RecordedTakesFaults`), or hold below
a number of them (`KeepsAGoodBinary`).

The same modules were also checked, without an error, in larger instances that take
longer than a run should, or that differ in one bound: Alerter with 2 faults (3.5 M states), with lookback 5 (0.9 M)
and with thresholds and cooldowns of 1 and 2 in either order; CustomerRecords with 2
faults (3.5 M); SelfUpdate with 3 changes, 2 faults and 1 lost marker (7.0 M), with 3, 1
and 2 (3.7 M) and with 2, 2 and 3 (2.3 M); ServiceControl's `Converges` with 2 releases
published (834 k); Updater in five further instances of releases, backups and faults.

**Deadlock** is checked in all runs but those of `SelfUpdate` (without a binary nothing
starts), `License` (the clock ends) and `CustomerRecords` (the customer is deleted).

**Fairness and why the code justifies it.** *CommandDelivery*: the
pull ticker fires while the loop is idle, every request ends by the 15 s timeout, and
the loop leaves each command (together weak fairness of `LoopGoesOn`); a handler that
has its rows goes on by itself (weak fairness of `HandlerGoesOn`). Strong fairness of
`Select` says that not every request is lost on its way; without it the queue cannot
drain. *ServiceControl*: both threads go on, since tickers fire and
requests time out, and time passes. Nothing is assumed about the network, the
administrator or faults. *Updater*: heartbeats go on and file operations end. The other
modules have no liveness property and no fairness.

## 4. Proofs

Checked by TLAPS for all values of the constants that satisfy the named assumptions.
Every safety invariant and every action property that a passing run checks is a
theorem. The inductive invariant of a module is `IInv`; TLC has checked each of them on
a small instance. `InvCorrect` proves `[]IInv`, and the properties follow from it. The
paragraphs say which properties are proved and what must be added to them.

**CommandDelivery.** `TypeCorrect`; `DeliveredOnEvidence` and `ExecutionsAreBounded` state
`[]` of the run's properties; `SettledForGood` says that a delivered command of which
no copy is under way never runs again; `DeliveryImplementsPromise` is
`Spec => KeepsPromise`. The properties are not inductive: an abandoned handler may move
the counter and set the flag at any moment. `IInv` adds the shapes of loop and handlers
(`LoopShape`, `HandlerShape`), that an ack under way belongs to a success
(`AcksEarned`), and two bounds. `PledgeBound`: the runs made, plus the one the batch
still holds, are paid for by attempts and faults. `AwaitedBound`: so are those of the
rows the awaited handler is about to answer with, stage by stage. Under the refinement
mapping `issued` is `queued`, `closed` is `delivered`, `lent` is the batch or the rows of
the awaited handler, `uses` is `runs`, and `Budget` is `MaxAttempts + MaxFaults`.
Assumptions: `IdsAssumption`, `PullsAssumption`, `BoundsAssumption`.

**ServiceControl.** `TypeCorrect` and `ServiceStoppedForCause`. The flag cannot carry the
claim, it may have been set again before the service is stopped. `IInv` therefore adds
`FlightRecorded` (whoever is in flight while the customer is disabled is in `cause`),
`RefusalsHaveCause` (an answer "disabled" under way belongs to a thread in `cause`), and
`Counted`, the orders waiting are no more than were made. Assumption:
`BoundsAssumption`.

**Updater.** `TypeCorrect`, `GoodBinaryKept` (`KeepsAGoodBinary`) and `RollbackCorrect`
(`RollbackRestores`). That a working binary is somewhere among the backups says nothing
about how soon the clean-up deletes it. `IInv` therefore has `GoodIsNear`: a working
binary is in place or lies no deeper in the backups than `Paid`, which is one for each
fault, and the crashing releases up to the one that VERSION names, each of them again
for each fault. An `Update` puts one backup on top, and either it ends with VERSION at a
higher crashing release, or it takes the backup off again, or a fault pays. For the way
back `BinaryAsFound` and `MigrationsAsFound` say that the top backup is what this
`Update` found, and `UpdateShape` gives its local variables. Assumptions:
`ReleaseAssumption`, `ContentsAssumption`, `BoundsAssumption`.

**Version order.** `LessThanAsymmetric`, `LessThanTransitive`, `CompareAntisymmetric`, for
versions of any lengths. The key is that padding with zeros changes nothing
(`NumberBeyond`) and that a first difference may be looked for in any longer span
(`LessThanAnywhere`). `ScanIsCompare`: the loop computes this order. `Outcome`, the first
difference from a place on, satisfies the equation of the recursive function, and
nothing else does: the last place with another value would have to follow from the
next one.

**SelfUpdate.** `TypeCorrect`, `BrokenTakesCut` (`BrokenOnlyIfCut`), `MarkerCorrect`
(`MarkerIsInstalled`) and `RestartsCorrect` (`RestartsAreBounded`). The first two need to
know what a thread finds on its way back. `IInv` adds `ThreadShape`; `UncutIsWhole`, that
unless something was cut one thread at most is replacing the binary and has a whole
file to put back, or the file in place is whole; and `UncrossedAgrees`, that unless the
threads crossed that backup is the running version or unfinished, the file that follows
is the wanted one, and so is then the marker, or it is empty. The bound on restarts needs
to count those still to come. `ExitsArePaid` says that the exits so far, and one more
while a thread is about to exit, holds a stale answer, or the marker is not the latest
version, and two more while the next marker may be other than the latest, are within the
bound. A thread that has emptied the marker counts as one that will write it: an exit
before that is a loss (`Emptied`), and so is a mixture of two texts. `NewsToMarker` says
that a thread past the check finds its version in the marker only while the other is
about to exit. Neither the order of versions nor the minimum is needed: the marker alone
bounds the restarts, which is why the minimum may change at will.
Assumptions: `NamesAssumption`, `SpecialAssumption`, `BoundsAssumption`.

**Alerter.** `TypeCorrect`, `MarkedCorrect`, `RepeatsCorrect`, `LossCorrect` and
`TroubleCorrect` (`TroubleTold`). For the events `IInv` adds
`ScanShape` (ids only while messages are sent, and not of groups that still wait),
`IdsWereTold`; `RepeatsArePaid`, that an event which may be told again was told no more
often than there were faults; and `AgeIsPaid`, that an event nobody was told of is no
older than two intervals for each fault, and one for the scan that is due, unless the
faults have paid for the whole window. For the rules it adds `WatchIsTrue`, that a
customer is not watched longer than he has been silent; `ListIsPaid`, that a scan without
a fault warns only of what is still so; and `WaitIsPaid`: trouble nobody
was told of has lasted no longer than threshold or cooldown and the faults pay for, but
for the scan that is due, and the part of a cooldown still to come is always left over.
Assumptions: `GroupAssumption`, `RulesAssumption`, `BoundsAssumption`.

**BotConversation.** `TypeCorrect`, `DataCorrect` (`StepsHaveData`), `FateCorrect`
(`OneFatePerPreview`), `HistoryCorrect` (`HistoryMatchesQueue`) and `LatestCorrect`, the
action property `LatestIsUnique`. What a commit makes of the database is decided many
statements earlier, so `IInv` says of an open transaction of each kind which statements
are left and what its copy holds by then (`PublishShape`, `NotifyShape`,
`BroadcastShape`, `DeleteShape`): the rows of a broadcast written so far and those in
the statements left are together the rows of its targets. `DbOK` says that each
broadcast has one entry in the history and exactly its rows, and that there is one
latest release at most; `PreviewIsOpen`, that the preview shown was neither sent nor
dropped; `ConvOK`, that a conversation holds the answers to all questions before its
step. Assumptions: `ChatAssumption`, `TemplateAssumption`.
`SliceIsInBounds` and `EveryoneOnOnePage`, of `CustomerPages`: whatever page a button
asks for and however long the list is, the slice is in bounds, and every customer is on
exactly one page.

**License.** `TypeCorrect`, `LicenseEndsService`, `OneKeyInUse`, `RecordedCorrect`,
`StopsHaveCause`. `IInv` adds `KeyInMemory` (what a master that is starting holds),
`CheckedInTime` (the next check of a running service is not overdue), `FirstToken` (a
row without a fault has a token) and `Counting` (between the last success and the first
failure lies one tick at most). Assumption: `BoundsAssumption`.

**CustomerRecords.** `TypeCorrect`, `TrimmingKeepsNewest`, `TrimmingBounds`
(`LogsBounded`), `DeletionFailsHaveCause`. `IInv`
adds `PluckedAreOld` (what a request is about to delete has `Keep` newer logs among all
that were ever saved, which no later step can change), `OwnRow`, that logs were saved,
`Emptied` (without a late row, the tables the deletion has taken are empty once it
commits), and `LogsPaid`. Requests look up what they will delete before they delete it,
their sets overlap, and the one that looks up last sees the rows all others are about
to delete; so the bound is stated for every set of requests that have looked up: with
what these will take gone, no more logs are left than `Keep`, one for each other upload
under way, and one for each request at every fault. Assumptions: `BoundsAssumption`,
`RequestsAssumption`.

**Model-checked only.** Liveness, which is beyond the prover here: `Drained`,
`DisabledStops`, `CutOffStops`, `Converges` and `CatchesUp`.

## 5. What is not modelled

* Texts, layouts, charts, JSON, HTML escaping. A number that does not parse or a
  text that is refused is a choice.
* Cryptography and the encoding of tokens: a signature is the number of its key.
* Values of metrics and contents of logs; the limits on sizes and names of a request.
* Two `Update`s of two threads at the level of files (ServiceControl has them as
  whole steps). `cleanupBackups` of the agent's own binary: a backup beyond the newest
  three is never read again.
* The confirmation pages before dangerous buttons and the menus other than the list of
  customers; more than one update of Telegram delivered again in a row.
* Isolation between transactions of the bot and other writers of the same rows, but for
  the deletion of a customer (CustomerRecords). The bot is the only writer of customers.
* Migrations but for 007, configuration, the orderly shutdown of the master.
* Operator scripts but for what `install.sh` writes and sets up; build workflows.

## 6. Plan

Done so far, in this order: command queue, service control, updater, version order,
self-update, alerter, administrator's bot, life of a license, customer's rows, list
pages; proofs of the invariants and action properties of all of them. Next:

1. *Refinement*: an abstract specification of an `Update` (the whole step that
   ServiceControl takes for it) that `Updater` is shown to implement, as `CommandDelivery`
   implements `CommandPromise`.
2. *Overlapping updates on files*: `Updater` with two threads and backups named by
   seconds.
3. *Restored by one click* (`architecture.md:213`, against `main.go:206`): which orders
   start a service again that a disable or the grace period has stopped.
4. *Composition*: queue and control together, an order being a row of
   CommandDelivery.
