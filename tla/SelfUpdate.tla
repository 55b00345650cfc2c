----------------------------- MODULE SelfUpdate -----------------------------
(***************************************************************************)
(* The agent replaces its own binary: settings on the master, the check of *)
(* each heartbeat answer, the file operations of SelfUpdate, the marker    *)
(* against repeated updates, and systemd that starts the agent again.      *)
(*                                                                         *)
(* The goroutine of the first heartbeat and the main loop may both be in   *)
(* SelfUpdate.  A file is an inode: a thread's rename may move the one the *)
(* other thread is writing, which goes on writing it.  Inode 0 is the one  *)
(* the process was started from.  A backup is named by the second: two     *)
(* threads may share one.                                                  *)
(***************************************************************************)
EXTENDS VersionOrder

CONSTANTS
    Names,       \* version texts
    Parse,       \* Parse[n]: the numbers of text n
    Floors,      \* texts that min_supported_agent_version is given
    First,       \* the version the agent is installed with
    Unset,       \* an empty setting or marker
    NoFile,      \* no file at a path
    Partial,     \* contents of a file that is being written
    MaxChanges,  \* changes of latest_agent_version (bound)
    MaxFaults,   \* operations that fail and kills of the process (bound)
    MaxLost      \* markers that one thread spoils for the other (bound)

ASSUME NamesAssumption == Parse \in [Names -> Versions] /\ First \in Names /\ Floors \subseteq Names
ASSUME SpecialAssumption == Unset \notin Names /\ Partial \notin Names /\ NoFile \notin Nat
ASSUME BoundsAssumption == MaxChanges \in Nat /\ MaxFaults \in Nat /\ MaxLost \in Nat

VARIABLES
    latest,   \* setting latest_agent_version
    floor,    \* setting min_supported_agent_version
    self,     \* Version of the process, or of the last one
    alive,    \* the process runs
    bin,      \* inode at the path of the binary
    data,     \* data[f]: contents of inode f
    saved,    \* saved[t]: inode at the path of t's backup
    own,      \* own[t]: inode that t writes
    marker,   \* .last-self-update; Unset: not there, empty, or the texts of both
              \* threads in a mixture, which equals no version
    phase,    \* phase[t]: what thread t does
    want,     \* want[t]: latest_agent_version of t's answer
    least,    \* least[t]: min_supported_agent_version of t's answer
    changes,  \* changes of latest so far
    faults,   \* failures so far
    exits,    \* processes that ended by os.Exit after an update
    lost,     \* history: markers lost because both threads were writing it
    cut,      \* history: a process ended while a thread was replacing the binary,
              \* a backup was not put back, or a thread took the other's unfinished
              \* file for the old binary
    crossed   \* history: both threads were replacing the binary, or one has not
              \* come to write the marker

settingVars == <<latest, floor, changes>>
fileVars    == <<bin, data, saved, own, marker>>
answerVars  == <<want, least>>
historyVars == <<exits, lost, cut, crossed>>
vars == <<settingVars, self, alive, fileVars, phase, answerVars, faults, historyVars>>

Threads == {"boot", "loop"}
Inodes  == 0..4
Phases  == {"off", "ready", "asked", "answered", "fetching", "moved", "copying", "restoring",
            "filled", "marking", "marked"}
Setting == Names \cup {Unset}

TypeOK ==
    /\ latest \in Setting /\ floor \in Setting /\ marker \in Setting
    /\ self \in Names
    /\ alive \in BOOLEAN /\ cut \in BOOLEAN /\ crossed \in BOOLEAN
    /\ bin \in Inodes \cup {NoFile}
    /\ data \in [Inodes -> Names \cup {Partial}]
    /\ saved \in [Threads -> Inodes \cup {NoFile}]
    /\ own \in [Threads -> Inodes \cup {NoFile}]
    /\ phase \in [Threads -> Phases]
    /\ want \in [Threads -> Setting]
    /\ least \in [Threads -> Setting]
    /\ changes \in 0..MaxChanges
    /\ faults \in 0..MaxFaults
    /\ exits \in Nat
    /\ lost \in 0..MaxLost

Init ==
    /\ latest = Unset /\ floor = Unset /\ marker = Unset
    /\ self = First /\ alive = TRUE /\ cut = FALSE /\ crossed = FALSE
    /\ bin = 0
    /\ data = [f \in Inodes |-> First]
    /\ saved = [t \in Threads |-> NoFile]
    /\ own = [t \in Threads |-> NoFile]
    /\ phase = [t \in Threads |-> "ready"]
    /\ want = [t \in Threads |-> Unset]
    /\ least = [t \in Threads |-> Unset]
    /\ changes = 0 /\ faults = 0 /\ exits = 0 /\ lost = 0

Fault == faults < MaxFaults /\ faults' = faults + 1
Loss  == lost < MaxLost /\ lost' = lost + 1

Become(t, p) == phase' = [phase EXCEPT ![t] = p]

\* The first goroutine ends, the loop goes on; the answer is dropped.
Rest(t) ==
    /\ Become(t, IF t = "boot" THEN "off" ELSE "ready")
    /\ want' = [want EXCEPT ![t] = Unset]
    /\ least' = [least EXCEPT ![t] = Unset]

-----------------------------------------------------------------------------
(* The administrator: /set_agent_version and /set_min_agent, any text.      *)

SetLatest(n) ==
    /\ changes < MaxChanges
    /\ changes' = changes + 1
    /\ latest' = n
    /\ UNCHANGED <<floor, self, alive, fileVars, phase, answerVars, faults, historyVars>>

SetFloor(n) ==
    /\ floor' = n
    /\ UNCHANGED <<latest, changes, self, alive, fileVars, phase, answerVars, faults, historyVars>>

-----------------------------------------------------------------------------
(* A heartbeat and its answer, for which the master reads one setting after *)
(* the other.                                                               *)

Ask(t) ==
    /\ phase[t] = "ready"
    /\ want' = [want EXCEPT ![t] = latest]
    /\ Become(t, "asked")
    /\ UNCHANGED <<settingVars, self, alive, fileVars, least, faults, historyVars>>

Answer(t) ==
    /\ phase[t] = "asked"
    /\ least' = [least EXCEPT ![t] = floor]
    /\ Become(t, "answered")
    /\ UNCHANGED <<settingVars, self, alive, fileVars, want, faults, historyVars>>

\* The slips below are what the properties must catch.  Here: the marker is not
\* looked at.
ShouldSelfUpdateAgain(t) ==
    /\ want[t] # Unset
    /\ \/ least[t] # Unset /\ LessThan(Parse[self], Parse[least[t]])
       \/ LessThan(Parse[self], Parse[want[t]])

\* shouldSelfUpdate: the download URL is empty without a latest version; the
\* marker is compared as a text, versions by their numbers.
ShouldSelfUpdate(t) ==
    /\ want[t] # Unset
    /\ want[t] # marker
    /\ \/ least[t] # Unset /\ LessThan(Parse[self], Parse[least[t]])
       \/ LessThan(Parse[self], Parse[want[t]])

Decide(t) ==
    /\ phase[t] = "answered"
    /\ IF ShouldSelfUpdate(t) THEN Become(t, "fetching") /\ UNCHANGED answerVars
                              ELSE Rest(t)
    /\ UNCHANGED <<settingVars, self, alive, fileVars, faults, historyVars>>

-----------------------------------------------------------------------------
Replacing == {t \in Threads : phase[t] \in {"moved", "copying", "restoring"}}
Changing  == Replacing \cup {t \in Threads : phase[t] \in {"filled", "marking", "marked"}}

(* SelfUpdate, one file operation at a time.                                *)

\* Download, verification, unpacking: without effect when they fail.
FetchFails(t) ==
    /\ phase[t] = "fetching"
    /\ Fault
    /\ Rest(t)
    /\ UNCHANGED <<settingVars, self, alive, fileVars, historyVars>>

\* Rename of the binary to the backup, over the other thread's if that is of the
\* same second; it fails if there is no binary, because the other thread has just
\* moved it.
MoveAway(t) ==
    /\ phase[t] = "fetching"
    /\ IF bin = NoFile
       THEN Rest(t) /\ UNCHANGED <<bin, saved, cut, crossed>>
       ELSE /\ \E over \in SUBSET {u \in Threads : saved[u] # NoFile} :
                  saved' = [u \in Threads |-> IF u \in over \cup {t} THEN bin ELSE saved[u]]
            /\ bin' = NoFile
            /\ cut' = (cut \/ data[bin] = Partial)
            /\ crossed' = (crossed \/ Changing # {})
            /\ Become(t, "moved") /\ UNCHANGED answerVars
    /\ UNCHANGED <<settingVars, self, alive, data, own, marker, faults, exits, lost>>

\* The file at the path, or else a new one, the image not being reused.
Opened(t) ==
    IF bin # NoFile THEN bin
    ELSE CHOOSE f \in Inodes \ {0} : \A u \in Threads : saved[u] # f /\ own[u] # f

\* copyFile opens the file; the image of the running process is busy.
Create(t) ==
    /\ phase[t] = "moved"
    /\ bin # 0
    /\ bin' = Opened(t)
    /\ own' = [own EXCEPT ![t] = Opened(t)]
    /\ data' = [data EXCEPT ![Opened(t)] = Partial]
    /\ Become(t, "copying")
    /\ UNCHANGED <<settingVars, self, alive, saved, marker, answerVars, faults, historyVars>>

\* It fills the file, wherever that has been renamed to by then.
Fill(t) ==
    /\ phase[t] = "copying"
    /\ data' = [data EXCEPT ![own[t]] = want[t]]
    /\ own' = [own EXCEPT ![t] = NoFile]
    /\ Become(t, "filled")
    /\ UNCHANGED <<settingVars, self, alive, bin, saved, marker, answerVars, faults, historyVars>>

\* Slip: the marker is written before the copy.
CopyFailsMarked(t) ==
    /\ phase[t] \in {"moved", "copying"}
    /\ IF phase[t] = "moved" /\ bin = 0 THEN UNCHANGED faults ELSE Fault
    /\ marker' = want[t]
    /\ own' = [own EXCEPT ![t] = NoFile]
    /\ Become(t, "restoring")
    /\ UNCHANGED <<settingVars, self, alive, bin, data, saved, answerVars, historyVars>>

\* The copy fails: certainly if the image of the process is at the path again.
CopyFails(t) ==
    /\ phase[t] \in {"moved", "copying"}
    /\ IF phase[t] = "moved" /\ bin = 0 THEN UNCHANGED faults ELSE Fault
    /\ own' = [own EXCEPT ![t] = NoFile]
    /\ Become(t, "restoring")
    /\ UNCHANGED <<settingVars, self, alive, bin, data, saved, marker, answerVars, historyVars>>

\* Slip: the backup is not put back.
RestoreForgotten(t) ==
    /\ phase[t] = "restoring"
    /\ Rest(t)
    /\ UNCHANGED <<settingVars, self, alive, fileVars, faults, historyVars>>

\* The backup is renamed to the path, over what is there.  The error is dropped:
\* that the other thread has put the backup they share back already, or any other.
Restore(t) ==
    /\ phase[t] = "restoring"
    /\ \/ saved[t] = NoFile /\ UNCHANGED <<bin, saved, faults, cut>>
       \/ /\ saved[t] # NoFile
          /\ bin' = saved[t]
          /\ saved' = [u \in Threads |-> IF saved[u] = saved[t] THEN NoFile ELSE saved[u]]
          /\ UNCHANGED <<faults, cut>>
       \/ /\ saved[t] # NoFile
          /\ Fault
          /\ saved' = [saved EXCEPT ![t] = NoFile]
          /\ cut' = TRUE
          /\ UNCHANGED bin
    /\ Rest(t)
    /\ UNCHANGED <<settingVars, self, alive, data, own, marker, exits, lost, crossed>>

\* The marker is opened, which empties it; a failure is ignored.
Truncate(t) ==
    /\ phase[t] = "filled"
    /\ \/ marker' = Unset /\ Become(t, "marking") /\ UNCHANGED <<faults, crossed>>
       \/ Fault /\ crossed' = TRUE /\ Become(t, "marked") /\ UNCHANGED marker
    /\ UNCHANGED <<settingVars, self, alive, bin, data, saved, own, answerVars, exits, lost, cut>>

\* The version is written, at the start of the file: if the other thread has
\* written a longer text there since, its rest stays behind.  A failure is ignored.
Mark(t) ==
    /\ phase[t] = "marking"
    /\ \/ marker' = want[t] /\ UNCHANGED <<faults, lost>>
       \/ marker \notin {Unset, want[t]} /\ marker' = Unset /\ Loss /\ UNCHANGED faults
       \/ Fault /\ UNCHANGED <<marker, lost>>
    /\ Become(t, "marked")
    /\ UNCHANGED <<settingVars, self, alive, bin, data, saved, own, answerVars, exits, cut, crossed>>

-----------------------------------------------------------------------------
(* The process.                                                             *)

End ==
    /\ alive' = FALSE
    /\ cut' = (cut \/ Replacing # {})
    /\ crossed' = (crossed \/ \E t \in Threads : phase[t] = "filled")
    /\ phase' = [t \in Threads |-> "off"]
    /\ want' = [t \in Threads |-> Unset]
    /\ least' = [t \in Threads |-> Unset]
    /\ saved' = [t \in Threads |-> NoFile]
    /\ own' = [t \in Threads |-> NoFile]
    /\ UNCHANGED <<settingVars, self, bin, data, marker>>

\* os.Exit ends the other thread wherever it is, and leaves the marker that one
\* has emptied as it is.
Exit(t) ==
    /\ phase[t] = "marked"
    /\ IF marker = Unset /\ \E u \in Threads : phase[u] = "marking"
       THEN Loss ELSE UNCHANGED lost
    /\ End
    /\ exits' = exits + 1
    /\ UNCHANGED faults

Kill ==
    /\ alive
    /\ Fault
    /\ End
    /\ UNCHANGED <<exits, lost>>

\* Slip: a file that was cut short is started as if it were a version.
WholeIfThere == bin # NoFile

\* systemd, Restart=always, starts what is at the path, if it is whole.
Whole == bin # NoFile /\ data[bin] # Partial

Start ==
    /\ ~alive /\ Whole
    /\ alive' = TRUE
    /\ self' = data[bin]
    /\ bin' = 0
    /\ data' = [f \in Inodes |-> data[bin]]
    /\ phase' = [t \in Threads |-> "ready"]
    /\ UNCHANGED <<settingVars, saved, own, marker, answerVars, faults, historyVars>>

-----------------------------------------------------------------------------
Step(t) ==
    \/ Ask(t) \/ Answer(t) \/ Decide(t)
    \/ FetchFails(t) \/ MoveAway(t) \/ Create(t) \/ Fill(t) \/ CopyFails(t) \/ Restore(t)
    \/ Truncate(t) \/ Mark(t) \/ Exit(t)

Next ==
    \/ \E n \in Setting : SetLatest(n)
    \/ \E n \in Floors \cup {Unset} : SetFloor(n)
    \/ \E t \in Threads : Step(t)
    \/ Kill \/ Start

Spec == Init /\ [][Next]_vars

-----------------------------------------------------------------------------
(* Properties.                                                              *)

\* The agent is left without a binary only in three ways: its process ended while
\* a thread was between the rename and the end of the copy or of the way back; the
\* copy failed and then the rename back as well, whose error is dropped; or a
\* thread had kept the unfinished file of the other as its backup.  After all
\* other failures of SelfUpdate a whole file is at the path.
BrokenOnlyIfCut == ~alive /\ ~Whole => cut

\* While latest_agent_version stays the same the agent does not restart for ever,
\* even if min_supported is above every version that can be installed, and however
\* often that changes: two restarts for each change of the latest version, one for
\* each fault, and one for each marker that is lost because one thread exits, or
\* writes, while the other is writing it.  (Two, because the thread with the older
\* answer may be the last to write the marker, over the newer one's.)
RestartsAreBounded == exits <= 2 * changes + faults + lost

\* The marker, which keeps a version from being installed, names the version
\* that runs: it bars one that is not installed only after both threads were
\* replacing the binary, or after a marker was not written.
MarkerIsInstalled ==
    alive /\ ~crossed /\ (\A t \in Threads : phase[t] # "marked")
        => marker \in {Unset, self}

=============================================================================
