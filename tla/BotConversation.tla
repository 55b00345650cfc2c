--------------------------- MODULE BotConversation ---------------------------
(***************************************************************************)
(* The administrator's bot: one goroutine takes the updates of the chat    *)
(* one after the other.  A conversation collects answers over several      *)
(* messages and lives in memory; the buttons of every message ever sent    *)
(* stay in the chat and may be pressed at any time, also a second time,    *)
(* also after a restart of the master, also when Telegram delivers a press *)
(* again.  What a conversation ends in is written to the database, in      *)
(* transactions that may fail or be cut by a crash.                        *)
(*                                                                         *)
(* Texts are abstracted to whether the question accepts them: a refused    *)
(* text leaves everything as it was.                                       *)
(***************************************************************************)
EXTENDS Naturals, FiniteSets, SequencesExt

CONSTANTS
    Customers,
    Known,         \* customers that exist from the start
    Versions,      \* versions of the service to release
    None,          \* no customer, no template
    MaxPreviews,   \* previews made (bound)
    MaxFaults      \* failures of the database and crashes (bound)

ASSUME ChatAssumption ==
    /\ IsFiniteSet(Customers) /\ Known \subseteq Customers
    /\ None \notin Customers
    /\ MaxPreviews \in Nat /\ MaxFaults \in Nat

VARIABLES
    conv,      \* h.convs[chat]
    old,       \* its updatedAt is more than 10 minutes ago
    db,        \* customers, notifications, broadcasts, latest releases
    job,       \* the transaction the handler is in
    previews,  \* previews made so far: they are told apart by number
    dropped,   \* previews cancelled, edited, replaced or lost
    faults

vars == <<conv, old, db, job, previews, dropped, faults>>

\* The answers a flow asks for, in their order; the flow acts on the last one.
Questions == [
    add_customer          |-> <<"name", "tg_id", "bot_token", "note">>,
    release_version       |-> <<"version", "notes">>,
    set_agent             |-> <<"value">>,
    set_min_agent         |-> <<"value">>,
    notify_all            |-> <<"message">>,
    notify_one            |-> <<"message">>,
    bcast_maintenance     |-> <<"duration", "reason">>,
    bcast_version_preview |-> <<"version", "eta">>,
    bcast_upgrade_failed  |-> <<"version", "summary">>,
    bcast_custom          |-> <<"content">>]

Flows == DOMAIN Questions

\* The entries of c.data that the last step of a flow takes with a type
\* assertion: the process dies if one is missing.
Asserted == [f \in Flows |->
    CASE f = "add_customer"      -> {"name", "tg_id", "bot_token"}
      [] f = "notify_one"        -> {"customer_id", "name"}
      [] f = "bcast_maintenance" -> {"duration"}
      [] f \in {"release_version", "bcast_version_preview",
                "bcast_upgrade_failed"} -> {"version"}
      [] OTHER                   -> {}]

\* The flow that fills a template in; maintenance_done has nothing to fill in.
FlowOf == [
    maintenance     |-> "bcast_maintenance",
    version_preview |-> "bcast_version_preview",
    upgrade_failed  |-> "bcast_upgrade_failed",
    custom          |-> "bcast_custom"]

Templates == {"maintenance", "maintenance_done", "version_preview",
              "upgrade_failed", "custom"}

ASSUME TemplateAssumption == None \notin Templates

\* The flows with a button of their own, the same for every customer.
DirectFlows == Flows \ ({"notify_one"} \cup {FlowOf[t] : t \in DOMAIN FlowOf})

NoConv == [flow |-> "none", step |-> 0, data |-> {}, to |-> None,
           preview |-> 0, template |-> None]
NoJob  == [kind |-> "none", writes |-> <<>>, work |-> None]

\* Slip: a conversation begins before its first question.
NewConversationEarly(flow) == [NoConv EXCEPT !.flow = flow]

NewConversation(flow) == [NoConv EXCEPT !.flow = flow, !.step = 1]

Previewing == conv.flow = "broadcast_preview"
AtLastStep == conv.flow \in Flows /\ conv.step = Len(Questions[conv.flow])

TypeOK ==
    /\ conv.flow \in Flows \cup {"none", "broadcast_preview"}
    /\ conv.flow \in Flows => conv.step \in 1..Len(Questions[conv.flow])
    /\ Previewing <=> conv.preview \in 1..previews
    /\ Previewing <=> conv.template \in Templates
    /\ conv.to \in Customers \cup {None}
    /\ old => conv # NoConv
    /\ db.status \in [Customers -> {"absent", "enabled", "disabled", "deleted"}]
    /\ db.rows \subseteq (0..previews) \X Customers
    /\ Len(db.history) <= previews
    /\ db.latest \subseteq Versions
    /\ job.kind \in {"none", "broadcast", "publish", "notify", "delete"}
    /\ previews \in 0..MaxPreviews
    /\ dropped \subseteq 1..previews
    /\ faults \in 0..MaxFaults

Init ==
    /\ conv = NoConv
    /\ old = FALSE
    /\ db = [status  |-> [c \in Customers |->
                            IF c \in Known THEN "enabled" ELSE "absent"],
             rows    |-> {},
             history |-> <<>>,
             latest  |-> {}]
    /\ job = NoJob
    /\ previews = 0
    /\ dropped = {}
    /\ faults = 0

Idle == job = NoJob

\* isInConversation: the conversation is there and not older than 10 minutes.
InConversation == conv # NoConv /\ ~old

\* The preview that is lost with conversation c.
PreviewOf(c) == IF c.preview = 0 THEN {} ELSE {c.preview}

\* A new conversation, or none, takes the place of the one there was.
Replace(c) ==
    /\ conv' = c
    /\ old' = FALSE
    /\ dropped' = dropped \cup PreviewOf(conv)

Fault == faults < MaxFaults /\ faults' = faults + 1

-----------------------------------------------------------------------------
(* What the store writes, one statement at a time.                         *)

Exists(c, d) == d.status[c] \in {"enabled", "disabled"}
EnabledIn(d) == {c \in Customers : d.status[c] = "enabled"}

\* The rows of broadcast b, or of a plain notification for b = 0.
RowWrites(b, d) == SetToSeq({[op |-> "row", arg |-> <<b, c>>] : c \in EnabledIn(d)})

\* Notifications and the other records of a customer go before the customer.
DeleteWrites(c) == <<[op |-> "clean", arg |-> c], [op |-> "remove", arg |-> c]>>

\* Slip: the old latest release keeps its flag.
PublishWritesKeeping(v) == <<[op |-> "latest", arg |-> v]>>

PublishWrites(v) == <<[op |-> "outdate", arg |-> v], [op |-> "latest", arg |-> v]>>

RecordWrite(b, d) ==
    [op |-> "record", arg |-> [of |-> b, targets |-> EnabledIn(d)]]

Apply(w, d) ==
    CASE w.op = "row"     -> [d EXCEPT !.rows = @ \cup {w.arg}]
      [] w.op = "clean"   -> [d EXCEPT !.rows = {r \in @ : r[2] # w.arg}]
      [] w.op = "remove"  -> [d EXCEPT !.status[w.arg] = "deleted"]
      [] w.op = "record"  -> [d EXCEPT !.history = Append(@, w.arg)]
      [] w.op = "outdate" -> [d EXCEPT !.latest = {}]
      [] w.op = "latest"  -> [d EXCEPT !.latest = @ \cup {w.arg}]

Transaction(kind, writes, d) == [kind |-> kind, writes |-> writes, work |-> d]

\* BroadcastWithRecord, BroadcastNotification and PublishRelease.
BroadcastWithRecord(b, d) ==
    Transaction("broadcast", <<RecordWrite(b, d)>> \o RowWrites(b, d), d)
BroadcastNotification(d) == Transaction("notify", RowWrites(0, d), d)
PublishRelease(v, d)     == Transaction("publish", PublishWrites(v), d)

\* NotifyCustomer: one insert; the foreign key refuses an unknown customer.
NotifyCustomer(c) ==
    \/ Exists(c, db) /\ db' = Apply([op |-> "row", arg |-> <<0, c>>], db)
                     /\ UNCHANGED faults
    \/ ~Exists(c, db) /\ UNCHANGED <<db, faults>>
    \/ Fault /\ UNCHANGED db

\* CreateCustomer refuses a name in use; signing the license may fail after it.
CreateCustomer(c) ==
    \/ /\ db.status[c] = "absent"
       /\ db' = [db EXCEPT !.status[c] = "enabled"]
       /\ UNCHANGED faults
    \/ Exists(c, db) /\ UNCHANGED <<db, faults>>
    \/ Fault /\ UNCHANGED db

-----------------------------------------------------------------------------
(* Buttons.                                                                *)

\* startAddCustomer, startReleaseVersion, startSetAgentVersion, startNotifyAll
\* and the templates that ask for something.
Start(flow) ==
    /\ Idle
    /\ Replace(NewConversation(flow))
    /\ UNCHANGED <<db, job, previews, faults>>

\* startNotifyOne, from the page of customer c.
StartNotifyOne(c) ==
    /\ Idle /\ Exists(c, db)
    /\ Replace([NewConversation("notify_one")
                  EXCEPT !.data = {"customer_id", "name"}, !.to = c])
    /\ UNCHANGED <<db, job, previews, faults>>

\* enterBroadcastPreview: conversation c goes on as a preview.
Preview(c, template) ==
    /\ previews < MaxPreviews
    /\ previews' = previews + 1
    /\ conv' = [c EXCEPT !.flow = "broadcast_preview", !.step = 1,
                         !.data = @ \cup {"preview_content"},
                         !.preview = previews + 1, !.template = template]
    /\ old' = FALSE
    /\ dropped' = dropped \cup PreviewOf(conv)

\* startBroadcastTemplate.
StartTemplate(template) ==
    IF template = "maintenance_done"
    THEN Preview(NewConversation("broadcast_preview"), template)
    ELSE Replace(NewConversation(FlowOf[template])) /\ UNCHANGED previews

PressTemplate(template) ==
    Idle /\ StartTemplate(template) /\ UNCHANGED <<db, job, faults>>

\* confirmBroadcast writes whatever preview the conversation holds now.
Confirm ==
    /\ Idle /\ Previewing
    /\ job' = BroadcastWithRecord(conv.preview, db)
    /\ UNCHANGED <<conv, old, db, previews, dropped, faults>>

\* editBroadcast asks for the template anew.  Pressed in another flow it ends
\* that conversation, and without any it asks for a text to all.
Edit ==
    /\ Idle /\ previews > 0
    /\ \/ Previewing /\ StartTemplate(conv.template)
       \/ conv.flow \in Flows /\ Replace(NoConv) /\ UNCHANGED previews
       \/ conv = NoConv /\ Replace(NewConversation("notify_all"))
                        /\ UNCHANGED previews
    /\ UNCHANGED <<db, job, faults>>

\* bcast:cancel and conv:cancel.
Cancel ==
    /\ Idle /\ conv # NoConv
    /\ Replace(NoConv)
    /\ UNCHANGED <<db, job, previews, faults>>

\* disable and enable on the page of a customer.
Toggle(c) ==
    /\ Idle /\ Exists(c, db)
    /\ \E s \in {"enabled", "disabled"} : db' = [db EXCEPT !.status[c] = s]
    /\ UNCHANGED <<conv, old, job, previews, dropped, faults>>

\* restart, update and the request for logs, for an enabled customer.
SendCommand(c) ==
    /\ Idle /\ db.status[c] = "enabled"
    /\ NotifyCustomer(c)
    /\ UNCHANGED <<conv, old, job, previews, dropped>>

Delete(c) ==
    /\ Idle /\ Exists(c, db)
    /\ job' = Transaction("delete", DeleteWrites(c), db)
    /\ UNCHANGED <<conv, old, db, previews, dropped, faults>>

-----------------------------------------------------------------------------
(* Texts.                                                                  *)

\* Slip: the answer goes under the name of the next question.
StoredUnderNext == {Questions[conv.flow][conv.step + 1]}

Stored == {Questions[conv.flow][conv.step]}

\* A text that the question accepts, and another question follows.
Answer ==
    /\ Idle /\ InConversation /\ conv.flow \in Flows /\ ~AtLastStep
    /\ conv' = [conv EXCEPT !.data = @ \cup Stored,
                            !.step = @ + 1]
    /\ UNCHANGED <<old, db, job, previews, dropped, faults>>

\* The last answer of a template shows the preview.
AnswerTemplate ==
    /\ Idle /\ InConversation /\ AtLastStep
    /\ \E t \in DOMAIN FlowOf : FlowOf[t] = conv.flow /\ Preview(conv, t)
    /\ UNCHANGED <<db, job, faults>>

\* The last answer about a release, or of a text to all, opens a transaction.
AnswerAll ==
    /\ Idle /\ InConversation /\ AtLastStep
    /\ \/ /\ conv.flow = "release_version"
          /\ \E v \in Versions : job' = PublishRelease(v, db)
       \/ conv.flow = "notify_all" /\ job' = BroadcastNotification(db)
    /\ UNCHANGED <<conv, old, db, previews, dropped, faults>>

\* The last answer of the other flows: one statement, and the conversation
\* ends whether it succeeds or not.
AnswerOne ==
    /\ Idle /\ InConversation /\ AtLastStep
    /\ \/ conv.flow = "add_customer" /\ \E c \in Customers : CreateCustomer(c)
       \/ conv.flow = "notify_one" /\ NotifyCustomer(conv.to)
       \/ conv.flow \in {"set_agent", "set_min_agent"} /\ UNCHANGED <<db, faults>>
    /\ Replace(NoConv)
    /\ UNCHANGED <<job, previews>>

\* dispatch: a text outside of a conversation, or after the 10 minutes of one.
\* What is only shown (/list, /info, the main menu) changes no more than that.
\* What a button does as well (/disable, /enable, /restart, /update_now) is left
\* to Toggle and SendCommand.
Dispatch ==
    /\ Idle /\ ~InConversation
    /\ Replace(NoConv)
    /\ \/ /\ \/ \E v \in Versions : job' = PublishRelease(v, db)
             \/ job' = BroadcastNotification(db)
          /\ UNCHANGED <<db, faults>>
       \/ /\ \/ \E c \in Customers : CreateCustomer(c) \/ NotifyCustomer(c)
             \/ UNCHANGED <<db, faults>>
          /\ UNCHANGED job
    /\ UNCHANGED previews

-----------------------------------------------------------------------------
(* The transaction of the handler, time and crashes.                       *)

\* Slip: the statements run outside of a transaction.
WriteThrough ==
    /\ job.writes # <<>>
    /\ job' = [job EXCEPT !.writes = Tail(@), !.work = Apply(Head(job.writes), @)]
    /\ db' = job'.work
    /\ UNCHANGED <<conv, old, previews, dropped, faults>>

Write ==
    /\ job.writes # <<>>
    /\ job' = [job EXCEPT !.writes = Tail(@), !.work = Apply(Head(job.writes), @)]
    /\ UNCHANGED <<conv, old, db, previews, dropped, faults>>

\* Slip: nobody ends the conversation.
EndConversationLater == UNCHANGED <<conv, old>>

\* After the transaction the conversation that led to it ends.
EndConversation ==
    IF job.kind = "delete" THEN UNCHANGED <<conv, old>>
    ELSE conv' = NoConv /\ old' = FALSE

\* A published release is announced next; a failure to announce it is ignored.
Commit ==
    /\ ~Idle /\ job.writes = <<>>
    /\ db' = job.work
    /\ IF job.kind = "publish"
       THEN job' = BroadcastNotification(db') /\ UNCHANGED <<conv, old>>
       ELSE job' = NoJob /\ EndConversation
    /\ UNCHANGED <<previews, dropped, faults>>

\* An error: rolled back, or the answer to the commit was lost.
Fail ==
    /\ ~Idle /\ Fault
    /\ db' = db \/ (job.writes = <<>> /\ db' = job.work)
    /\ job' = NoJob
    /\ EndConversation
    /\ UNCHANGED <<previews, dropped>>

\* Ten minutes without a text.  Only a text looks at the time.
Age ==
    /\ Idle /\ InConversation
    /\ old' = TRUE
    /\ UNCHANGED <<conv, db, job, previews, dropped, faults>>

\* The master dies and starts again: the conversation is gone.
Crash ==
    /\ Fault
    /\ conv # NoConv \/ ~Idle
    /\ Replace(NoConv)
    /\ job' = NoJob
    /\ UNCHANGED <<db, previews>>

Next ==
    \/ \E f \in DirectFlows : Start(f)
    \/ \E t \in Templates : PressTemplate(t)
    \/ Confirm \/ Edit \/ Cancel
    \/ \E c \in Customers : StartNotifyOne(c) \/ Toggle(c) \/ SendCommand(c) \/ Delete(c)
    \/ Answer \/ AnswerTemplate \/ AnswerAll \/ AnswerOne \/ Dispatch
    \/ Write \/ Commit \/ Fail \/ Age \/ Crash

Spec == Init /\ [][Next]_vars

-----------------------------------------------------------------------------
(* Properties.                                                             *)

\* When a flow acts on its last answer, every entry of c.data that it takes
\* with a type assertion is there, whatever buttons, restarts and repeated
\* templates led to this conversation: advanceConversation never panics.
StepsHaveData == AtLastStep => Asserted[conv.flow] \subseteq conv.data

\* A preview is broadcast at most once, and never after it was cancelled,
\* edited, replaced or lost in a crash, however often and however late its
\* buttons are pressed, and whatever becomes of the transaction.
OneFatePerPreview ==
    /\ \A i, j \in DOMAIN db.history :
          db.history[i].of = db.history[j].of => i = j
    /\ \A i \in DOMAIN db.history : db.history[i].of \notin dropped

\* The history agrees with the queue: the customers for whom a broadcast has
\* a row are those it was counted for, less the ones deleted since.  A failure
\* or a crash between two statements leaves neither half behind.
HistoryMatchesQueue ==
    \A i \in DOMAIN db.history :
        {c \in Customers : <<db.history[i].of, c>> \in db.rows}
          = {c \in db.history[i].targets : db.status[c] # "deleted"}

\* Publishing replaces the latest release at once: no failure or crash leaves
\* the heartbeats without a latest release, or with two.
LatestIsUnique ==
    [][/\ Cardinality(db'.latest) <= 1
       /\ db.latest # {} => db'.latest # {}]_vars
=============================================================================
