------------------------------ MODULE Updater ------------------------------
(***************************************************************************)
(* Updates of the service on a customer's machine, at the level of the     *)
(* files they move: the binary, the migrations directory, their backups    *)
(* and the VERSION file.  Update() is one action per file operation; each  *)
(* may fail, the agent may be killed between any two, and the next         *)
(* heartbeat starts over from whatever is on the disk.  Backups are        *)
(* sequences, oldest first.  One Update runs at a time (ServiceControl has *)
(* the overlapping ones).                                                  *)
(***************************************************************************)
EXTENDS Naturals, Sequences, FiniteSets, SequencesExt

CONSTANTS
    MaxRelease,      \* number of the last release (bound); 0 is the installed one
    Sound,           \* versions that run; the others crash when they are started
    WithMigrations,  \* versions whose package holds a migrations directory
    Missing,         \* contents of a path that does not exist, or of an empty file
    Partial,         \* contents of a copy that was cut short
    Keep,            \* backups that cleanupBackups keeps, 5 in the code
    MaxFaults        \* file and systemctl failures, and kills of the agent (bound)

Versions == 0..MaxRelease
Contents == Versions \cup {Missing, Partial}

ASSUME ReleaseAssumption ==
    /\ MaxRelease \in Nat
    /\ 0 \in Sound /\ Sound \subseteq Versions
    /\ WithMigrations \subseteq Versions
ASSUME ContentsAssumption == Missing \notin Versions /\ Partial \notin Versions /\ Missing # Partial
ASSUME BoundsAssumption == Keep \in Nat /\ MaxFaults \in Nat

VARIABLES
    latest,     \* the release marked as the latest
    bin,        \* contents of BinaryPath
    mig,        \* contents of backend/migrations
    binBaks,    \* contents of the binary's backups
    migBaks,    \* contents of the migrations' backups
    verfile,    \* contents of VERSION
    running,    \* what the service runs, Missing when it is down
    step,       \* next step of Update, "idle" outside
    target,     \* the version Update installs
    binSaved,   \* this Update made a backup of the binary
    migSaved,   \* this Update made a backup of the migrations
    begun,      \* the disk and the service when this Update started
    outcome,    \* how the last Update ended
    faults      \* failures so far

diskVars  == <<bin, mig, binBaks, migBaks, verfile>>
localVars == <<target, binSaved, migSaved, begun>>
vars == <<latest, diskVars, running, step, localVars, outcome, faults>>

Steps == {"idle", "saveBin", "openBin", "copyBin", "saveMig", "openMig", "copyMig",
          "restart", "undoMig", "undoBin", "restartOld", "version", "cleanup"}
Outcomes == {"none", "done", "error", "rolledBack", "down"}

Snapshot == [bin |-> bin, mig |-> mig, running |-> running, faults |-> faults]

TypeOK ==
    /\ latest \in Versions /\ target \in Versions
    /\ bin \in Contents /\ mig \in Contents
    /\ binBaks \in Seq(Contents) /\ migBaks \in Seq(Contents)
    /\ verfile \in Versions \cup {Missing}
    /\ running \in Sound \cup {Missing}
    /\ step \in Steps
    /\ binSaved \in BOOLEAN /\ migSaved \in BOOLEAN
    /\ begun \in [bin : Contents, mig : Contents, running : Sound \cup {Missing}, faults : 0..MaxFaults]
    /\ outcome \in Outcomes
    /\ faults \in 0..MaxFaults

Init ==
    /\ latest = 0 /\ target = 0
    /\ bin = 0 /\ mig = 0 /\ verfile = 0 /\ running = 0
    /\ binBaks = <<>> /\ migBaks = <<>>
    /\ step = "idle" /\ binSaved = FALSE /\ migSaved = FALSE
    /\ outcome = "none"
    /\ faults = 0
    /\ begun = Snapshot

Fault == faults < MaxFaults /\ faults' = faults + 1

At(s) == step = s
Goto(s) == step' = s /\ UNCHANGED <<localVars, outcome>>

\* Update returns; its locals are gone.
Return(o) ==
    /\ step' = "idle" /\ outcome' = o
    /\ target' = 0 /\ binSaved' = FALSE /\ migSaved' = FALSE
    /\ UNCHANGED begun

\* The slip, like those below, is what the properties must catch: a crash of the
\* program is not noticed at all.
RunsAnything(b) == b

\* systemctl restart.  The unit is of Type=simple, so that a program that
\* crashes on start may still be reported as started.
Runs(b) == IF b \in Sound THEN b ELSE Missing
Reported(b) == running' = Runs(b) /\ UNCHANGED faults
Refused(b) == running' = Missing /\ (IF b \in Sound THEN Fault ELSE UNCHANGED faults)

-----------------------------------------------------------------------------
\* PublishRelease takes any version, an older one as well.
Publish ==
    /\ latest' \in Versions \ {latest}
    /\ UNCHANGED <<diskVars, running, step, localVars, outcome, faults>>

\* The restart command, a reboot, or systemd's Restart=always.
RestartService ==
    /\ At("idle")
    /\ running' = Runs(bin)
    /\ UNCHANGED <<latest, diskVars, step, localVars, outcome, faults>>

\* A heartbeat names a release newer than VERSION, an empty one counting as 0;
\* the package is fetched, verified and unpacked.  A failure so far has no effect.
Begin ==
    /\ At("idle")
    /\ latest > IF verfile = Missing THEN 0 ELSE verfile
    /\ step' = "saveBin"
    /\ target' = latest
    /\ begun' = Snapshot
    /\ UNCHANGED <<latest, diskVars, running, binSaved, migSaved, outcome, faults>>

-----------------------------------------------------------------------------
(* The binary.                                                              *)

\* Slip: one backup, which each Update overwrites.
SaveBinOver ==
    /\ At("saveBin")
    /\ IF bin = Missing THEN UNCHANGED <<bin, binBaks, binSaved>>
       ELSE binBaks' = <<bin>> /\ bin' = Missing /\ binSaved' = TRUE
    /\ step' = "openBin"
    /\ UNCHANGED <<latest, mig, migBaks, verfile, running, target, migSaved, begun, outcome, faults>>

SaveBin ==
    /\ At("saveBin")
    /\ \/ /\ bin = Missing
          /\ Goto("openBin")
          /\ UNCHANGED <<diskVars, faults>>
       \/ /\ bin # Missing
          /\ binBaks' = Append(binBaks, bin) /\ bin' = Missing /\ binSaved' = TRUE
          /\ step' = "openBin"
          /\ UNCHANGED <<mig, migBaks, verfile, target, migSaved, begun, outcome, faults>>
       \/ /\ bin # Missing /\ Fault
          /\ Return("error")
          /\ UNCHANGED diskVars
    /\ UNCHANGED <<latest, running>>

\* Rename of this Update's backup over the binary, if there is one.
UnsaveBin ==
    IF binSaved THEN bin' = Last(binBaks) /\ binBaks' = Front(binBaks)
                ELSE UNCHANGED <<bin, binBaks>>

\* copyFile creates the file, then fills it; when either fails the backup is
\* renamed over it.
OpenBin ==
    /\ At("openBin")
    /\ bin' = Partial
    /\ Goto("copyBin")
    /\ UNCHANGED <<latest, mig, binBaks, migBaks, verfile, running, faults>>

FillBin ==
    /\ At("copyBin")
    /\ bin' = target
    /\ Goto(IF target \in WithMigrations THEN "saveMig" ELSE "restart")
    /\ UNCHANGED <<latest, mig, binBaks, migBaks, verfile, running, faults>>

CopyBinFails ==
    /\ step \in {"openBin", "copyBin"}
    /\ Fault
    /\ UnsaveBin
    /\ Return("error")
    /\ UNCHANGED <<latest, mig, migBaks, verfile, running>>

-----------------------------------------------------------------------------
(* The migrations.                                                          *)

\* A failed rename returns at once: the new binary stays.
SaveMig ==
    /\ At("saveMig")
    /\ \/ /\ mig = Missing
          /\ Goto("openMig")
          /\ UNCHANGED <<diskVars, faults>>
       \/ /\ mig # Missing
          /\ migBaks' = Append(migBaks, mig) /\ mig' = Missing /\ migSaved' = TRUE
          /\ step' = "openMig"
          /\ UNCHANGED <<bin, binBaks, verfile, target, binSaved, begun, outcome, faults>>
       \/ /\ mig # Missing /\ Fault
          /\ Return("error")
          /\ UNCHANGED diskVars
    /\ UNCHANGED <<latest, running>>

\* cp -r creates the directory, then fills it.
OpenMig ==
    /\ At("openMig")
    /\ mig' = Partial
    /\ Goto("copyMig")
    /\ UNCHANGED <<latest, bin, binBaks, migBaks, verfile, running, faults>>

FillMig ==
    /\ At("copyMig")
    /\ mig' = target
    /\ Goto("restart")
    /\ UNCHANGED <<latest, bin, binBaks, migBaks, verfile, running, faults>>

\* The backup is renamed back, which works only while nothing was copied: a
\* directory is not renamed over one that is not empty, and the error is
\* ignored.  The new binary stays.
CopyMigFails ==
    /\ step \in {"openMig", "copyMig"}
    /\ Fault
    /\ IF migSaved /\ mig = Missing
       THEN mig' = Last(migBaks) /\ migBaks' = Front(migBaks)
       ELSE UNCHANGED <<mig, migBaks>>
    /\ Return("error")
    /\ UNCHANGED <<latest, bin, binBaks, verfile, running>>

-----------------------------------------------------------------------------
(* The restart and the way back.                                            *)

Restart ==
    /\ At("restart")
    /\ \/ Reported(bin) /\ Goto("version")
       \/ Refused(bin) /\ Goto(IF target \in WithMigrations THEN "undoMig" ELSE "undoBin")
    /\ UNCHANGED <<latest, diskVars>>

\* Slip: the new migrations are removed and the old ones stay in the backup.
UndoMigHalf ==
    /\ At("undoMig")
    /\ mig' = Missing
    /\ Goto("undoBin")
    /\ UNCHANGED <<latest, bin, binBaks, migBaks, verfile, running, faults>>

\* RemoveAll and Rename, both errors ignored.
UndoMig ==
    /\ At("undoMig")
    /\ \/ /\ mig' = IF migSaved THEN Last(migBaks) ELSE Missing
          /\ migBaks' = IF migSaved THEN Front(migBaks) ELSE migBaks
          /\ UNCHANGED faults
       \/ /\ Fault
          /\ mig' \in {Missing, Partial}
          /\ UNCHANGED migBaks
    /\ Goto("undoBin")
    /\ UNCHANGED <<latest, bin, binBaks, verfile, running>>

UndoBin ==
    /\ At("undoBin")
    /\ \/ /\ binSaved
          /\ UnsaveBin
          /\ Goto("restartOld")
          /\ UNCHANGED faults
       \/ /\ IF binSaved THEN Fault ELSE UNCHANGED faults
          /\ bin' = Missing
          /\ Return("down")
          /\ UNCHANGED binBaks
    /\ UNCHANGED <<latest, mig, migBaks, verfile, running>>

RestartOld ==
    /\ At("restartOld")
    /\ \/ Reported(bin) /\ Return("rolledBack")
       \/ Refused(bin) /\ Return("down")
    /\ UNCHANGED <<latest, diskVars>>

-----------------------------------------------------------------------------
(* The end.                                                                 *)

\* Slip: VERSION gets the release that is the latest by then.
WriteVersionLatest ==
    /\ At("version")
    /\ \/ verfile' = latest /\ Goto("cleanup") /\ UNCHANGED faults
       \/ Fault /\ verfile' \in {verfile, Missing} /\ Return("error")
    /\ UNCHANGED <<latest, bin, mig, binBaks, migBaks, running>>

\* WriteFile truncates and writes; a failure ends the Update before the cleanup.
WriteVersion ==
    /\ At("version")
    /\ \/ verfile' = target /\ Goto("cleanup") /\ UNCHANGED faults
       \/ Fault /\ verfile' \in {verfile, Missing} /\ Return("error")
    /\ UNCHANGED <<latest, bin, mig, binBaks, migBaks, running>>

\* cleanupBackups: the newest Keep ones stay.
Newest(s) == IF Len(s) <= Keep THEN s ELSE SubSeq(s, Len(s) - Keep + 1, Len(s))

Cleanup ==
    /\ At("cleanup")
    /\ binBaks' = Newest(binBaks)
    /\ migBaks' = Newest(migBaks)
    /\ Return("done")
    /\ UNCHANGED <<latest, bin, mig, verfile, running, faults>>

\* The agent is killed; WriteFile may have truncated VERSION.
Kill ==
    /\ ~At("idle")
    /\ Fault
    /\ Return("none")
    /\ verfile' = verfile \/ (At("version") /\ verfile' = Missing)
    /\ UNCHANGED <<latest, bin, mig, binBaks, migBaks, running>>

-----------------------------------------------------------------------------
Work ==
    \/ SaveBin \/ OpenBin \/ FillBin \/ CopyBinFails
    \/ SaveMig \/ OpenMig \/ FillMig \/ CopyMigFails
    \/ Restart \/ UndoMig \/ UndoBin \/ RestartOld
    \/ WriteVersion \/ Cleanup

Next == Publish \/ RestartService \/ Begin \/ Work \/ Kill

\* Heartbeats go on and every file operation ends.
Fairness == WF_vars(Begin) /\ WF_vars(Work)

Spec == Init /\ [][Next]_vars
FairSpec == Spec /\ Fairness

-----------------------------------------------------------------------------
(* Properties.                                                              *)

Unsound == Versions \ Sound

\* A version that runs is never lost: it is in place or among the backups, as
\* long as there are enough of these for what faults and bad releases may leave in
\* place.  A fault leaves one bad file and, if it is VERSION that is lost, every
\* bad release may be installed once more.
KeepsAGoodBinary ==
    faults + (faults + 1) * Cardinality(Unsound) <= Keep =>
        bin \in Sound \/ \E k \in 1..Len(binBaks) : binBaks[k] \in Sound

Ends(o) == ~At("idle") /\ step' = "idle" /\ outcome' = o

\* An Update that reports a rollback leaves the binary as it found it and, if
\* that binary was running, running again; the migrations are as found too
\* unless one of its own file operations failed.
RollbackRestores ==
    [][Ends("rolledBack") =>
         /\ bin' = begun.bin
         /\ begun.running = begun.bin => running' = begun.bin
         /\ faults' = begun.faults => mig' = begun.mig]_vars

\* Once the last release stays the latest, the machine ends on it: VERSION,
\* binary and migrations agree, whatever failed on the way.
Installed ==
    /\ verfile = MaxRelease /\ bin = MaxRelease
    /\ MaxRelease \in WithMigrations => mig = MaxRelease

CatchesUp == <>[](latest = MaxRelease) => <>[]Installed

=============================================================================
