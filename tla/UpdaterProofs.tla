---------------------------- MODULE UpdaterProofs ----------------------------
(***************************************************************************)
(* Updates of the service keep a version that runs, in place or among the  *)
(* backups, and a reported rollback puts back what the update found, for   *)
(* every set of releases and all bounds.                                   *)
(***************************************************************************)
EXTENDS Updater, FiniteSetTheorems, SequenceTheorems, TLAPS

\* The steps at which what is in place, if anything, is not the old binary.
Replacing == {"openBin", "copyBin", "saveMig", "openMig", "copyMig",
              "restart", "undoMig", "undoBin", "version"}

\* Those at which the new binary is in place.
NewInPlace == {"saveMig", "openMig", "copyMig",
               "restart", "undoMig", "undoBin", "version", "cleanup"}

\* The version that VERSION names, for the comparison with the latest.
Named == IF verfile = Missing THEN 0 ELSE verfile

\* How many backups may lie above the last one that runs: one for each fault, and
\* the bad releases that were installed, every one of them again for each fault.
SpentUpTo(v) == {u \in Unsound : u <= v}
Paid == faults + faults * Cardinality(Unsound) + Cardinality(SpentUpTo(Named))

\* One of the last n + 1 backups runs.
SoundWithin(baks, n) ==
    \E k \in 1..Len(baks) : baks[k] \in Sound /\ Len(baks) - k <= n

\* What is in place counts as one more, unless there is nothing.
GoodIsNear ==
    IF step \in Replacing THEN SoundWithin(binBaks, Paid)
    ELSE \/ bin \in Sound
         \/ bin = Missing /\ SoundWithin(binBaks, Paid)
         \/ SoundWithin(binBaks, Paid - 1)

Enough == faults + (faults + 1) * Cardinality(Unsound) <= Keep

\* The locals of Update, and the binary.
UpdateShape ==
    /\ step \notin {"idle", "cleanup"} => target > Named
    /\ step \in NewInPlace => bin = target
    /\ step \in {"saveMig", "openMig", "copyMig"} => target \in WithMigrations
    /\ step \in {"idle", "saveBin"} => ~binSaved
    /\ step \in {"idle", "saveBin", "openBin", "copyBin", "saveMig"} => ~migSaved
    /\ begun.faults <= faults

\* What this Update found is where the way back takes it from.
BinaryAsFound ==
    /\ step \in {"saveBin", "restartOld"} => bin = begun.bin
    /\ step \in Replacing /\ binSaved => binBaks # <<>> /\ Last(binBaks) = begun.bin

MigrationsSaved ==
    \/ step \in {"openMig", "copyMig", "undoMig"}
    \/ step = "restart" /\ target \in WithMigrations

MigrationsKept ==
    \/ step \in {"saveBin", "openBin", "copyBin", "saveMig", "undoBin", "restartOld"}
    \/ step = "restart" /\ target \notin WithMigrations

MigrationsAsFound ==
    /\ MigrationsSaved /\ migSaved => migBaks # <<>>
    /\ faults = begun.faults =>
         /\ MigrationsKept => mig = begun.mig
         /\ MigrationsSaved => begun.mig = IF migSaved THEN Last(migBaks) ELSE Missing

IInv ==
    /\ TypeOK
    /\ UpdateShape
    /\ BinaryAsFound
    /\ MigrationsAsFound
    /\ Enough => GoodIsNear

-----------------------------------------------------------------------------
(* Backups.                                                                 *)

\* The last backup taken off: what it is, and what stays.
LEMMA Pop ==
  ASSUME NEW s \in Seq(Contents), s # <<>>
  PROVE  /\ Last(s) \in Contents /\ Last(s) = s[Len(s)]
         /\ Front(s) \in Seq(Contents) /\ Len(Front(s)) = Len(s) - 1
         /\ \A k \in 1..Len(s) - 1 : Front(s)[k] = s[k]
<1> DEFINE m == Len(s) - 1
<1>1. m \in Nat /\ Len(s) = m + 1 BY EmptySeq
<1>2. s[Len(s)] \in Contents /\ \A k \in 1..m : s[k] \in Contents BY <1>1
<1>3. m \in Int /\ Front(s) = SubSeq(s, 1, m) BY <1>1 DEF Front
<1> HIDE DEF m
<1>4. /\ SubSeq(s, 1, m) \in Seq(Contents)
      /\ Len(SubSeq(s, 1, m)) = IF 1 <= m THEN m - 1 + 1 ELSE 0
      /\ \A k \in 1..m - 1 + 1 : SubSeq(s, 1, m)[k] = s[1 + k - 1]
  BY <1>2, <1>3, SubSeqProperties
<1>5. Len(Front(s)) = m BY <1>1, <1>3, <1>4
<1>6. \A k \in 1..m : Front(s)[k] = s[k] BY <1>1, <1>3, <1>4
<1> USE DEF m
<1> QED BY <1>2, <1>3, <1>4, <1>5, <1>6 DEF Last

\* A backup put on top.
LEMMA Push ==
  ASSUME NEW s \in Seq(Contents), NEW x \in Contents
  PROVE  /\ Append(s, x) \in Seq(Contents) /\ Append(s, x) # <<>>
         /\ Last(Append(s, x)) = x
         /\ Len(Append(s, x)) = Len(s) + 1 /\ Append(s, x)[Len(s) + 1] = x
         /\ \A k \in 1..Len(s) : Append(s, x)[k] = s[k]
BY AppendProperties DEF Last

\* The cleanup keeps the newest ones, in their order.
LEMMA NewestKeeps ==
  ASSUME NEW s \in Seq(Contents), Len(s) > Keep
  PROVE  /\ Newest(s) \in Seq(Contents) /\ Len(Newest(s)) = Keep
         /\ \A k \in 1..Keep : Newest(s)[k] = s[k + Len(s) - Keep]
<1> DEFINE m == Len(s) - Keep + 1
<1>1. Len(s) \in Nat /\ m \in Int /\ Newest(s) = SubSeq(s, m, Len(s))
  BY BoundsAssumption DEF Newest
<1>2. \A k \in m..Len(s) : s[k] \in Contents BY <1>1, BoundsAssumption
<1>3. /\ SubSeq(s, m, Len(s)) \in Seq(Contents)
      /\ Len(SubSeq(s, m, Len(s))) = IF m <= Len(s) THEN Len(s) - m + 1 ELSE 0
      /\ \A k \in 1..Len(s) - m + 1 : SubSeq(s, m, Len(s))[k] = s[m + k - 1]
  BY <1>1, <1>2, SubSeqProperties
<1>4. Len(s) - m + 1 = Keep BY <1>1, BoundsAssumption
<1>5. \A k \in 1..Keep : m + k - 1 = k + Len(s) - Keep BY <1>1, BoundsAssumption
<1> HIDE DEF m
<1>6. Len(Newest(s)) = Keep BY <1>1, <1>3, <1>4, BoundsAssumption
<1> QED BY <1>1, <1>3, <1>4, <1>5, <1>6

LEMMA NewestType == ASSUME NEW s \in Seq(Contents) PROVE Newest(s) \in Seq(Contents)
BY NewestKeeps, BoundsAssumption DEF Newest

\* A good backup stays near the top: one more on it, one taken off, the oldest
\* ones deleted.
LEMMA WithinMore ==
  ASSUME NEW s \in Seq(Contents), NEW m \in Int, NEW n \in Int, m <= n, SoundWithin(s, m)
  PROVE  SoundWithin(s, n)
BY DEF SoundWithin

LEMMA WithinPush ==
  ASSUME NEW s \in Seq(Contents), NEW x \in Contents, NEW n \in Int, SoundWithin(s, n)
  PROVE  SoundWithin(Append(s, x), n + 1)
<1>1. PICK k \in 1..Len(s) : s[k] \in Sound /\ Len(s) - k <= n BY DEF SoundWithin
<1>2. Len(Append(s, x)) = Len(s) + 1 /\ Append(s, x)[k] = s[k] BY Push
<1>3. k \in 1..Len(Append(s, x)) /\ Len(Append(s, x)) - k <= n + 1 BY <1>1, <1>2
<1> QED BY <1>1, <1>2, <1>3 DEF SoundWithin

LEMMA WithinPushed ==
  ASSUME NEW s \in Seq(Contents), NEW x \in Contents \cap Sound, NEW n \in Nat
  PROVE  SoundWithin(Append(s, x), n)
<1>1. Len(Append(s, x)) = Len(s) + 1 /\ Append(s, x)[Len(s) + 1] = x BY Push
<1>2. Len(s) + 1 \in 1..Len(Append(s, x)) /\ Len(Append(s, x)) - (Len(s) + 1) <= n BY <1>1
<1> QED BY <1>1, <1>2 DEF SoundWithin

LEMMA WithinPop ==
  ASSUME NEW s \in Seq(Contents), NEW n \in Int, s # <<>>, SoundWithin(s, n)
  PROVE  Last(s) \in Sound \/ SoundWithin(Front(s), n - 1)
<1>1. PICK k \in 1..Len(s) : s[k] \in Sound /\ Len(s) - k <= n BY DEF SoundWithin
<1>2. CASE k = Len(s) BY <1>1, <1>2, Pop
<1>3. CASE k # Len(s)
  <2>1. Len(s) \in Nat /\ k \in 1..Len(s) - 1 BY <1>3
  <2>2. Len(Front(s)) = Len(s) - 1 /\ Front(s)[k] = s[k] BY <2>1, Pop
  <2>3. k \in 1..Len(Front(s)) /\ Len(Front(s)) - k <= n - 1 BY <1>1, <2>1, <2>2
  <2> QED BY <1>1, <2>2, <2>3 DEF SoundWithin
<1> QED BY <1>2, <1>3

LEMMA WithinNewest ==
  ASSUME NEW s \in Seq(Contents), NEW n \in Int, n < Keep, SoundWithin(s, n)
  PROVE  SoundWithin(Newest(s), n)
<1>1. CASE Len(s) <= Keep BY <1>1 DEF Newest
<1>2. CASE Len(s) > Keep
  <2>1. PICK k \in 1..Len(s) : s[k] \in Sound /\ Len(s) - k <= n BY DEF SoundWithin
  <2> DEFINE j == k - (Len(s) - Keep)
  <2>2. j \in 1..Keep /\ j + Len(s) - Keep = k /\ Keep - j <= n
    BY <1>2, <2>1, BoundsAssumption
  <2>3. Newest(s)[j] = s[k] /\ Len(Newest(s)) = Keep BY <1>2, <2>2, NewestKeeps
  <2> QED BY <2>1, <2>2, <2>3 DEF SoundWithin
<1>3. Len(s) \in Nat OBVIOUS
<1> QED BY <1>1, <1>2, <1>3, BoundsAssumption

-----------------------------------------------------------------------------
(* What may be spent.                                                       *)

\* Each bad release can be spent once: VERSION only rises, until a fault.
LEMMA Budget ==
  /\ IsFiniteSet(Unsound) /\ Cardinality(Unsound) \in Nat
  /\ \A v \in Versions : Cardinality(SpentUpTo(v)) \in 0..Cardinality(Unsound)
  /\ \A v, w \in Versions : v < w /\ w \in Unsound =>
         Cardinality(SpentUpTo(w)) >= Cardinality(SpentUpTo(v)) + 1
<1>1. IsFiniteSet(Unsound) /\ Cardinality(Unsound) \in Nat
  <2>1. IsFiniteSet(Versions) BY FS_Interval, ReleaseAssumption DEF Versions
  <2>2. Unsound \in SUBSET Versions BY DEF Unsound
  <2> QED BY <2>1, <2>2, FS_Subset, FS_CardinalityType
<1>2. ASSUME NEW v \in Versions
      PROVE  IsFiniteSet(SpentUpTo(v)) /\ Cardinality(SpentUpTo(v)) \in 0..Cardinality(Unsound)
  <2>1. SpentUpTo(v) \in SUBSET Unsound BY DEF SpentUpTo
  <2>2. IsFiniteSet(SpentUpTo(v)) /\ Cardinality(SpentUpTo(v)) <= Cardinality(Unsound)
    BY <1>1, <2>1, FS_Subset
  <2>3. Cardinality(SpentUpTo(v)) \in Nat BY <2>2, FS_CardinalityType
  <2> QED BY <1>1, <2>2, <2>3
<1>3. ASSUME NEW v \in Versions, NEW w \in Versions, v < w, w \in Unsound
      PROVE  Cardinality(SpentUpTo(w)) >= Cardinality(SpentUpTo(v)) + 1
  <2> DEFINE S == SpentUpTo(v)
  <2>1. w \notin S BY <1>3, ReleaseAssumption DEF SpentUpTo, Versions
  <2>2. S \cup {w} \in SUBSET SpentUpTo(w)
    BY <1>3, ReleaseAssumption DEF SpentUpTo, Unsound, Versions
  <2>3. Cardinality(S \cup {w}) = Cardinality(S) + 1
    BY <1>2, <2>1, FS_AddElement
  <2>4. Cardinality(S \cup {w}) <= Cardinality(SpentUpTo(w)) BY <1>2, <2>2, FS_Subset
  <2>5. Cardinality(S) \in Nat /\ Cardinality(SpentUpTo(w)) \in Nat BY <1>2
  <2> QED BY <2>3, <2>4, <2>5
<1> QED BY <1>1, <1>2, <1>3

LEMMA PaidNat ==
  ASSUME NEW f \in Nat, NEW v \in Versions
  PROVE  f + f * Cardinality(Unsound) + Cardinality(SpentUpTo(v)) \in Nat
<1> DEFINE U == Cardinality(Unsound)
           S == Cardinality(SpentUpTo(v))
<1>1. U \in Nat /\ S \in Nat BY Budget
<1> HIDE DEF U, S
<1>2. f * U \in Nat BY <1>1
<1>3. f + f * U + S \in Nat BY <1>1, <1>2
<1> QED BY <1>3 DEF U, S

LEMMA PaidType ==
  ASSUME TypeOK
  PROVE  /\ Named \in Versions
         /\ Paid \in Nat
         /\ Paid <= faults + (faults + 1) * Cardinality(Unsound)
         /\ Enough => Paid - 1 < Keep
<1>1. Named \in Versions BY ReleaseAssumption DEF TypeOK, Named, Versions
<1> DEFINE U == Cardinality(Unsound)
           S == Cardinality(SpentUpTo(Named))
<1>2. U \in Nat /\ S \in 0..U /\ faults \in Nat BY <1>1, Budget, BoundsAssumption DEF TypeOK
<1>3. Paid = faults + faults * U + S BY DEF Paid
<1>4. Enough <=> faults + (faults + 1) * U <= Keep BY DEF Enough
<1> HIDE DEF U, S
<1>5. faults * U \in Nat /\ (faults + 1) * U = faults * U + U BY <1>2
<1> USE DEF U
<1> QED BY <1>1, <1>2, <1>3, <1>4, <1>5, BoundsAssumption

\* A fault pays for one more, whatever becomes of VERSION.
LEMMA FaultPays ==
  ASSUME TypeOK, Fault, verfile' \in Versions \cup {Missing}
  PROVE  Paid' \in Nat /\ Paid' >= Paid + 1 /\ (Enough' => Enough)
<1> DEFINE U == Cardinality(Unsound)
           S == Cardinality(SpentUpTo(Named))
           T == Cardinality(SpentUpTo(Named'))
<1>1. Named \in Versions /\ Named' \in Versions
  BY ReleaseAssumption DEF TypeOK, Named, Versions
<1>2. U \in Nat /\ S \in 0..U /\ T \in 0..U /\ faults \in Nat /\ faults' = faults + 1
  BY <1>1, Budget, BoundsAssumption DEF TypeOK, Fault
<1>3. Paid = faults + faults * U + S /\ Paid' = faults' + faults' * U + T
  BY DEF Paid, SpentUpTo, Named
<1>4. (Enough <=> faults + (faults + 1) * U <= Keep)
      /\ (Enough' <=> faults' + (faults' + 1) * U <= Keep)
  BY DEF Enough
<1> HIDE DEF U, S, T
<1>5. /\ faults * U \in Nat
      /\ (faults + 1) * U = faults * U + U
      /\ (faults + 1 + 1) * U = faults * U + U + U
  BY <1>2
<1> QED BY <1>2, <1>3, <1>4, <1>5, BoundsAssumption

\* Neither does a step that leaves VERSION alone and does not fail.
LEMMA NothingPaid ==
  ASSUME verfile' = verfile, faults' = faults
  PROVE  Paid' = Paid /\ (Enough' <=> Enough)
BY DEF Paid, Enough, Named, SpentUpTo

-----------------------------------------------------------------------------
(* The invariant.                                                           *)

LEMMA InitIInv == Init => IInv
<1> SUFFICES ASSUME Init PROVE IInv OBVIOUS
<1> USE ReleaseAssumption, ContentsAssumption, BoundsAssumption
<1>1. 0 \in Versions /\ 0 \in Contents /\ 0 # Missing BY DEF Versions, Contents
<1>2. begun = [bin |-> 0, mig |-> 0, running |-> 0, faults |-> 0] BY DEF Init, Snapshot
<1>3. TypeOK
  <2>1. <<>> \in Seq(Contents) OBVIOUS
  <2>2. begun \in [bin : Contents, mig : Contents, running : Sound \cup {Missing}, faults : 0..MaxFaults]
    BY <1>1, <1>2
  <2>3. faults \in 0..MaxFaults BY DEF Init
  <2>4. binSaved \in BOOLEAN /\ migSaved \in BOOLEAN BY DEF Init
  <2> QED BY <1>1, <2>1, <2>2, <2>3, <2>4 DEF Init, TypeOK, Steps, Outcomes
<1>4. UpdateShape BY <1>2 DEF Init, UpdateShape, NewInPlace
<1>5. BinaryAsFound BY DEF Init, BinaryAsFound, Replacing
<1>6. MigrationsAsFound BY DEF Init, MigrationsAsFound, MigrationsSaved, MigrationsKept
<1>7. GoodIsNear BY DEF Init, GoodIsNear, Replacing
<1> QED BY <1>3, <1>4, <1>5, <1>6, <1>7 DEF IInv

\* Both parts of what was found.
Saved == BinaryAsFound /\ MigrationsAsFound

LEMMA TypeStep == TypeOK /\ Saved /\ [Next]_vars => TypeOK'
<1> SUFFICES ASSUME TypeOK, Saved, [Next]_vars PROVE TypeOK' OBVIOUS
<1> USE ReleaseAssumption, ContentsAssumption, BoundsAssumption
    DEF diskVars, localVars, At, Goto, Return
<1>1. 0 \in Versions /\ Missing \in Contents /\ Partial \in Contents /\ target \in Contents
  BY DEF TypeOK, Versions, Contents
<1>2. ASSUME Fault PROVE faults' \in 0..MaxFaults BY <1>2 DEF TypeOK, Fault
<1>3. \A b : Runs(b) \in Sound \cup {Missing} BY DEF Runs
<1>4. CASE UNCHANGED vars BY <1>4 DEF vars, TypeOK
<1>5. CASE Publish BY <1>5 DEF Publish, TypeOK
<1>6. CASE RestartService BY <1>3, <1>6 DEF RestartService, TypeOK
<1>7. CASE Begin
  <2>1. begun' \in [bin : Contents, mig : Contents, running : Sound \cup {Missing}, faults : 0..MaxFaults]
    BY <1>7 DEF Begin, Snapshot, TypeOK
  <2> QED BY <1>7, <2>1 DEF Begin, TypeOK, Steps
<1>8. CASE SaveBin
  <2>1. Append(binBaks, bin) \in Seq(Contents) BY Push DEF TypeOK
  <2>2. binBaks' \in Seq(Contents) BY <1>8, <2>1 DEF SaveBin, TypeOK
  <2>3. faults' \in 0..MaxFaults BY <1>2, <1>8 DEF SaveBin, TypeOK
  <2> QED BY <1>1, <1>8, <2>2, <2>3 DEF SaveBin, TypeOK, Steps, Outcomes
<1>9. CASE OpenBin BY <1>1, <1>9 DEF OpenBin, TypeOK, Steps
<1>10. CASE FillBin BY <1>1, <1>10 DEF FillBin, TypeOK, Steps
<1>11. CASE CopyBinFails
  <2>1. binSaved => binBaks # <<>>
    BY <1>11 DEF CopyBinFails, Saved, BinaryAsFound, Replacing
  <2>2. bin' \in Contents /\ binBaks' \in Seq(Contents)
    BY <1>11, <2>1, Pop DEF CopyBinFails, UnsaveBin, TypeOK
  <2> QED BY <1>1, <1>2, <1>11, <2>2 DEF CopyBinFails, TypeOK, Steps, Outcomes
<1>12. CASE SaveMig
  <2>1. Append(migBaks, mig) \in Seq(Contents) BY Push DEF TypeOK
  <2>2. migBaks' \in Seq(Contents) BY <1>12, <2>1 DEF SaveMig, TypeOK
  <2>3. faults' \in 0..MaxFaults BY <1>2, <1>12 DEF SaveMig, TypeOK
  <2> QED BY <1>1, <1>12, <2>2, <2>3 DEF SaveMig, TypeOK, Steps, Outcomes
<1>13. CASE OpenMig BY <1>1, <1>13 DEF OpenMig, TypeOK, Steps
<1>14. CASE FillMig BY <1>1, <1>14 DEF FillMig, TypeOK, Steps
<1>15. CASE CopyMigFails
  <2>1. migSaved => migBaks # <<>>
    BY <1>15 DEF CopyMigFails, Saved, MigrationsAsFound, MigrationsSaved
  <2>2. mig' \in Contents /\ migBaks' \in Seq(Contents)
    BY <1>15, <2>1, Pop DEF CopyMigFails, TypeOK
  <2> QED BY <1>1, <1>2, <1>15, <2>2 DEF CopyMigFails, TypeOK, Steps, Outcomes
<1>16. CASE Restart
  <2>1. faults' \in 0..MaxFaults BY <1>2, <1>16 DEF Restart, Reported, Refused, TypeOK
  <2>2. running' \in Sound \cup {Missing} BY <1>3, <1>16 DEF Restart, Reported, Refused
  <2> QED BY <1>16, <2>1, <2>2 DEF Restart, TypeOK, Steps
<1>17. CASE UndoMig
  <2>1. migSaved => migBaks # <<>>
    BY <1>17 DEF UndoMig, Saved, MigrationsAsFound, MigrationsSaved
  <2>2. mig' \in Contents /\ migBaks' \in Seq(Contents)
    BY <1>1, <1>17, <2>1, Pop DEF UndoMig, TypeOK
  <2>3. faults' \in 0..MaxFaults BY <1>2, <1>17 DEF UndoMig, TypeOK
  <2> QED BY <1>17, <2>2, <2>3 DEF UndoMig, TypeOK, Steps
<1>18. CASE UndoBin
  <2>1. binSaved => binBaks # <<>>
    BY <1>18 DEF UndoBin, Saved, BinaryAsFound, Replacing
  <2>2. bin' \in Contents /\ binBaks' \in Seq(Contents)
    BY <1>1, <1>18, <2>1, Pop DEF UndoBin, UnsaveBin, TypeOK
  <2>3. faults' \in 0..MaxFaults BY <1>2, <1>18 DEF UndoBin, TypeOK
  <2> QED BY <1>1, <1>18, <2>2, <2>3 DEF UndoBin, TypeOK, Steps, Outcomes
<1>19. CASE RestartOld
  <2>1. faults' \in 0..MaxFaults BY <1>2, <1>19 DEF RestartOld, Reported, Refused, TypeOK
  <2>2. running' \in Sound \cup {Missing} BY <1>3, <1>19 DEF RestartOld, Reported, Refused
  <2> QED BY <1>1, <1>19, <2>1, <2>2 DEF RestartOld, TypeOK, Steps, Outcomes
<1>20. CASE WriteVersion
  <2>1. faults' \in 0..MaxFaults BY <1>2, <1>20 DEF WriteVersion, TypeOK
  <2> QED BY <1>1, <1>20, <2>1 DEF WriteVersion, TypeOK, Steps, Outcomes
<1>21. CASE Cleanup
  <2>1. binBaks' \in Seq(Contents) /\ migBaks' \in Seq(Contents)
    BY <1>21, NewestType DEF Cleanup, TypeOK
  <2> QED BY <1>1, <1>21, <2>1 DEF Cleanup, TypeOK, Steps, Outcomes
<1>22. CASE Kill BY <1>1, <1>2, <1>22 DEF Kill, TypeOK, Steps, Outcomes
<1> QED
  BY <1>4, <1>5, <1>6, <1>7, <1>8, <1>9, <1>10, <1>11, <1>12, <1>13, <1>14, <1>15, <1>16,
     <1>17, <1>18, <1>19, <1>20, <1>21, <1>22
  DEF Next, Work

\* A fault is told from the state in which the Update began.
LEMMA FaultTold ==
  ASSUME TypeOK, UpdateShape, Fault, begun' = begun
  PROVE  faults' # begun'.faults /\ begun'.faults <= faults'
BY BoundsAssumption DEF TypeOK, UpdateShape, Fault

LEMMA ShapeStep == TypeOK /\ UpdateShape /\ [Next]_vars => UpdateShape'
<1> SUFFICES ASSUME TypeOK, UpdateShape, [Next]_vars PROVE UpdateShape' OBVIOUS
<1> USE DEF diskVars, localVars, At, Goto, Return, UpdateShape, NewInPlace, Named
<1>1. CASE UNCHANGED vars BY <1>1 DEF vars
<1>2. CASE Publish \/ RestartService BY <1>2 DEF Publish, RestartService
<1>3. CASE Begin BY <1>3, BoundsAssumption DEF Begin, Snapshot, TypeOK
<1>4. CASE SaveBin BY <1>4, FaultTold DEF SaveBin
<1>5. CASE OpenBin \/ FillBin BY <1>5 DEF OpenBin, FillBin
<1>6. CASE CopyBinFails BY <1>6, FaultTold DEF CopyBinFails
<1>7. CASE SaveMig BY <1>7, FaultTold DEF SaveMig
<1>8. CASE OpenMig \/ FillMig BY <1>8 DEF OpenMig, FillMig
<1>9. CASE CopyMigFails BY <1>9, FaultTold DEF CopyMigFails
<1>10. CASE Restart BY <1>10, FaultTold DEF Restart, Reported, Refused
<1>11. CASE UndoMig BY <1>11, FaultTold DEF UndoMig
<1>12. CASE UndoBin BY <1>12, FaultTold DEF UndoBin
<1>13. CASE RestartOld BY <1>13, FaultTold DEF RestartOld, Reported, Refused
<1>14. CASE WriteVersion BY <1>14, FaultTold DEF WriteVersion
<1>15. CASE Cleanup BY <1>15 DEF Cleanup
<1>16. CASE Kill BY <1>16, FaultTold DEF Kill
<1> QED
  BY <1>1, <1>2, <1>3, <1>4, <1>5, <1>6, <1>7, <1>8, <1>9, <1>10, <1>11, <1>12, <1>13, <1>14,
     <1>15, <1>16
  DEF Next, Work

\* The binary: only the steps of its own part touch it or its last backup.
LEMMA BinaryStep == TypeOK /\ UpdateShape /\ BinaryAsFound /\ [Next]_vars => BinaryAsFound'
<1> SUFFICES ASSUME TypeOK, UpdateShape, BinaryAsFound, [Next]_vars PROVE BinaryAsFound' OBVIOUS
<1> USE DEF diskVars, localVars, At, Goto, Return, BinaryAsFound, Replacing
<1>1. CASE UNCHANGED vars BY <1>1 DEF vars
<1>2. CASE Publish \/ RestartService BY <1>2 DEF Publish, RestartService
<1>3. CASE Begin BY <1>3 DEF Begin, Snapshot
<1>4. CASE SaveBin
  <2>1. Append(binBaks, bin) # <<>> /\ Last(Append(binBaks, bin)) = bin BY Push DEF TypeOK
  <2>2. CASE binBaks' = Append(binBaks, bin) /\ step' = "openBin"
    <3>1. bin = begun.bin /\ begun' = begun BY <1>4, <2>2 DEF SaveBin
    <3> QED BY <2>1, <2>2, <3>1
  <2>3. CASE step' = "openBin" /\ binSaved' = binSaved
    BY <1>4, <2>3 DEF SaveBin, UpdateShape
  <2>4. CASE step' = "idle" BY <2>4
  <2> QED BY <1>4, <2>2, <2>3, <2>4 DEF SaveBin
<1>5. CASE OpenBin \/ FillBin BY <1>5 DEF OpenBin, FillBin
<1>6. CASE CopyBinFails BY <1>6 DEF CopyBinFails
<1>7. CASE SaveMig BY <1>7 DEF SaveMig
<1>8. CASE OpenMig \/ FillMig BY <1>8 DEF OpenMig, FillMig
<1>9. CASE CopyMigFails BY <1>9 DEF CopyMigFails
<1>10. CASE Restart BY <1>10 DEF Restart
<1>11. CASE UndoMig BY <1>11 DEF UndoMig
<1>12. CASE UndoBin BY <1>12 DEF UndoBin, UnsaveBin
<1>13. CASE RestartOld BY <1>13 DEF RestartOld
<1>14. CASE WriteVersion BY <1>14 DEF WriteVersion
<1>15. CASE Cleanup BY <1>15 DEF Cleanup
<1>16. CASE Kill BY <1>16 DEF Kill
<1> QED
  BY <1>1, <1>2, <1>3, <1>4, <1>5, <1>6, <1>7, <1>8, <1>9, <1>10, <1>11, <1>12, <1>13, <1>14,
     <1>15, <1>16
  DEF Next, Work

\* The migrations: as they were found, or the last backup holds them, unless
\* there were none.
LEMMA MigrationsStep ==
  TypeOK /\ UpdateShape /\ MigrationsAsFound /\ [Next]_vars => MigrationsAsFound'
<1> SUFFICES ASSUME TypeOK, UpdateShape, MigrationsAsFound, [Next]_vars
             PROVE  MigrationsAsFound'
  OBVIOUS
<1> USE DEF diskVars, localVars, At, Goto, Return, MigrationsAsFound, MigrationsSaved, MigrationsKept
<1>1. CASE UNCHANGED vars BY <1>1 DEF vars
<1>2. CASE Publish \/ RestartService BY <1>2 DEF Publish, RestartService
<1>3. CASE Begin BY <1>3 DEF Begin, Snapshot
<1>4. CASE SaveBin BY <1>4, FaultTold DEF SaveBin
<1>5. CASE OpenBin \/ FillBin BY <1>5 DEF OpenBin, FillBin
<1>6. CASE CopyBinFails BY <1>6 DEF CopyBinFails
<1>7. CASE SaveMig
  <2>1. migBaks \in Seq(Contents) /\ mig \in Contents BY DEF TypeOK
  <2>2. Append(migBaks, mig) # <<>> /\ Last(Append(migBaks, mig)) = mig BY <2>1, Push
  <2>3. CASE migBaks' = Append(migBaks, mig) /\ step' = "openMig"
    <3>1. migSaved' = TRUE /\ begun' = begun /\ faults' = faults /\ step = "saveMig"
      BY <1>7, <2>3 DEF SaveMig
    <3>2. faults' = begun'.faults => Last(migBaks') = begun'.mig BY <2>2, <2>3, <3>1
    <3>3. migBaks' # <<>> /\ ~MigrationsKept' BY <2>2, <2>3
    <3> QED BY <3>1, <3>2, <3>3
  <2>4. CASE step' = "openMig" /\ UNCHANGED <<mig, migSaved, begun, faults>>
    BY <1>7, <2>4 DEF SaveMig, UpdateShape
  <2>5. CASE step' = "idle" BY <2>5
  <2>6. \/ step' = "idle"
        \/ step' = "openMig" /\ UNCHANGED <<mig, migSaved, begun, faults>>
        \/ step' = "openMig" /\ migBaks' = Append(migBaks, mig)
    BY <1>7 DEF SaveMig
  <2> QED BY <2>3, <2>4, <2>5, <2>6
<1>8. CASE OpenMig \/ FillMig BY <1>8 DEF OpenMig, FillMig, UpdateShape
<1>9. CASE CopyMigFails BY <1>9 DEF CopyMigFails
<1>10. CASE Restart BY <1>10, FaultTold DEF Restart, Reported, Refused
<1>11. CASE UndoMig BY <1>11, FaultTold DEF UndoMig
<1>12. CASE UndoBin BY <1>12 DEF UndoBin
<1>13. CASE RestartOld BY <1>13 DEF RestartOld
<1>14. CASE WriteVersion BY <1>14 DEF WriteVersion
<1>15. CASE Cleanup BY <1>15 DEF Cleanup
<1>16. CASE Kill BY <1>16 DEF Kill
<1> QED
  BY <1>1, <1>2, <1>3, <1>4, <1>5, <1>6, <1>7, <1>8, <1>9, <1>10, <1>11, <1>12, <1>13, <1>14,
     <1>15, <1>16
  DEF Next, Work

\* A binary that is left in place by a fault is one more on the backups.
LEMMA FaultLeaves ==
  ASSUME TypeOK, GoodIsNear, Fault, verfile' \in Versions \cup {Missing},
         bin' = bin, binBaks' = binBaks, step' = "idle"
  PROVE  GoodIsNear'
<1>1. Paid \in Nat /\ Paid' \in Nat /\ Paid' >= Paid + 1 BY FaultPays, PaidType
<1>2. binBaks \in Seq(Contents) BY DEF TypeOK
<1>3. SoundWithin(binBaks, Paid) => SoundWithin(binBaks, Paid' - 1)
  BY <1>1, <1>2, WithinMore
<1>4. SoundWithin(binBaks, Paid - 1) => SoundWithin(binBaks, Paid' - 1)
  BY <1>1, <1>2, WithinMore
<1>5. GoodIsNear <=> IF step \in Replacing THEN SoundWithin(binBaks, Paid)
                    ELSE bin \in Sound \/ (bin = Missing /\ SoundWithin(binBaks, Paid))
                         \/ SoundWithin(binBaks, Paid - 1)
  BY DEF GoodIsNear
<1>6. bin' \in Sound \/ SoundWithin(binBaks', Paid' - 1) BY <1>3, <1>4, <1>5
<1> QED BY <1>6 DEF GoodIsNear, Replacing

\* One that is put back is either good or was one of the bad ones.
LEMMA PutBackIsNear ==
  ASSUME TypeOK, binBaks # <<>>, SoundWithin(binBaks, Paid), UnsaveBin, binSaved,
         Paid' \in Nat, Paid' >= Paid, step' \notin Replacing
  PROVE  GoodIsNear'
<1>1. binBaks \in Seq(Contents) /\ Paid \in Nat BY PaidType DEF TypeOK
<1>2. bin' = Last(binBaks) /\ binBaks' = Front(binBaks) BY DEF UnsaveBin
<1>3. Front(binBaks) \in Seq(Contents) BY <1>1, Pop
<1>4. Last(binBaks) \in Sound \/ SoundWithin(Front(binBaks), Paid - 1) BY <1>1, WithinPop
<1>5. bin' \in Sound \/ SoundWithin(binBaks', Paid' - 1) BY <1>1, <1>2, <1>3, <1>4, WithinMore
<1> QED BY <1>5 DEF GoodIsNear

\* A step between two that replace leaves the backups alone.
LEMMA StillNear ==
  ASSUME TypeOK, SoundWithin(binBaks, Paid), binBaks' = binBaks, verfile' = verfile,
         Fault \/ faults' = faults,
         step' \in Replacing \/ (step' \notin Replacing /\ bin' = Missing)
  PROVE  GoodIsNear'
<1>1. Paid \in Nat /\ Paid' \in Nat /\ Paid' >= Paid
  BY FaultPays, NothingPaid, PaidType DEF TypeOK
<1>2. SoundWithin(binBaks', Paid') BY <1>1, WithinMore DEF TypeOK
<1> QED BY <1>2 DEF GoodIsNear

LEMMA NearStep ==
  IInv /\ TypeOK' /\ [Next]_vars => (Enough => GoodIsNear)'
<1> SUFFICES ASSUME IInv, TypeOK', [Next]_vars, Enough' PROVE GoodIsNear' OBVIOUS
<1> USE DEF diskVars, localVars, At, Goto, Return
<1>a. TypeOK /\ binBaks \in Seq(Contents) /\ bin \in Contents /\ Paid \in Nat /\ Paid' \in Nat
  <2>1. Named' \in Versions /\ faults' \in Nat
    BY ReleaseAssumption, BoundsAssumption DEF TypeOK, Named, Versions
  <2>2. Paid' \in Nat BY <2>1, PaidNat DEF Paid, SpentUpTo
  <2> QED BY <2>2, PaidType DEF IInv, TypeOK
<1>b. verfile' \in Versions \cup {Missing} BY DEF TypeOK
<1>c. Fault => Enough BY <1>a, <1>b, FaultPays
<1>d. faults' = faults => Enough BY DEF Enough
<1>e. Missing \notin Sound BY ReleaseAssumption, ContentsAssumption
<1>1. CASE UNCHANGED vars
  BY <1>1, <1>d DEF vars, IInv, GoodIsNear, Paid, Named, SpentUpTo
<1>2. CASE Publish \/ RestartService \/ Begin
  <2>1. /\ GoodIsNear /\ bin' = bin /\ binBaks' = binBaks /\ Paid' = Paid
        /\ step' \in Replacing <=> step \in Replacing
    BY <1>2, <1>d, NothingPaid DEF Publish, RestartService, Begin, IInv, Replacing
  <2> QED BY <2>1 DEF GoodIsNear
<1>3. CASE SaveBin
  <2>1. GoodIsNear /\ step \notin Replacing
    BY <1>3, <1>c, <1>d DEF SaveBin, IInv, Replacing
  <2>2. CASE Fault /\ step' = "idle" /\ UNCHANGED diskVars
    BY <1>a, <1>b, <2>1, <2>2, FaultLeaves
  <2>3. CASE bin = Missing /\ step' = "openBin" /\ UNCHANGED <<diskVars, faults>>
    <3>1. Paid' = Paid BY <2>3, NothingPaid
    <3>2. SoundWithin(binBaks, Paid)
      BY <1>a, <1>e, <2>1, <2>3, WithinMore DEF GoodIsNear
    <3> QED BY <2>3, <3>1, <3>2 DEF GoodIsNear, Replacing
  <2>4. CASE /\ binBaks' = Append(binBaks, bin) /\ step' = "openBin"
             /\ bin # Missing /\ verfile' = verfile /\ faults' = faults
    <3>1. Paid' = Paid BY <2>4, NothingPaid
    <3>2. bin \in Sound \/ SoundWithin(binBaks, Paid - 1) BY <2>1, <2>4 DEF GoodIsNear
    <3>3. ASSUME bin \in Sound PROVE SoundWithin(Append(binBaks, bin), Paid)
      BY <1>a, <3>3, WithinPushed
    <3>4. ASSUME SoundWithin(binBaks, Paid - 1) PROVE SoundWithin(Append(binBaks, bin), Paid)
      <4>1. SoundWithin(Append(binBaks, bin), Paid - 1 + 1) BY <1>a, <3>4, WithinPush
      <4> QED BY <1>a, <4>1
    <3> QED BY <2>4, <3>1, <3>2, <3>3, <3>4 DEF GoodIsNear, Replacing
  <2> QED BY <1>3, <2>2, <2>3, <2>4 DEF SaveBin
<1>4. ASSUME step \in Replacing, Enough PROVE SoundWithin(binBaks, Paid)
  BY <1>4 DEF IInv, GoodIsNear
<1>5. CASE OpenBin \/ FillBin \/ OpenMig \/ FillMig \/ Restart \/ UndoMig
  <2>1. step \in Replacing /\ step' \in Replacing
    BY <1>5 DEF OpenBin, FillBin, OpenMig, FillMig, Restart, UndoMig, Replacing
  <2>2. binBaks' = binBaks /\ verfile' = verfile /\ (Fault \/ faults' = faults)
    BY <1>5 DEF OpenBin, FillBin, OpenMig, FillMig, Restart, Reported, Refused, UndoMig
  <2> QED BY <1>a, <1>c, <1>d, <1>4, <2>1, <2>2, StillNear
<1>6. CASE CopyBinFails
  <2>1. step \in Replacing /\ Fault /\ step' = "idle" /\ step' \notin Replacing
    BY <1>6 DEF CopyBinFails, Replacing
  <2>2. SoundWithin(binBaks, Paid) BY <1>c, <1>4, <2>1
  <2>3. CASE binSaved
    <3>1. Paid' >= Paid BY <1>a, <1>b, <2>1, FaultPays
    <3>2. UnsaveBin /\ binBaks # <<>> BY <1>6, <2>1, <2>3 DEF CopyBinFails, IInv, BinaryAsFound
    <3> QED BY <1>a, <2>1, <2>2, <2>3, <3>1, <3>2, PutBackIsNear
  <2>4. CASE ~binSaved
    <3>1. bin' = bin /\ binBaks' = binBaks BY <1>6, <2>4 DEF CopyBinFails, UnsaveBin
    <3> QED BY <1>a, <1>b, <1>c, <2>1, <3>1, FaultLeaves DEF IInv
  <2> QED BY <2>3, <2>4
<1>7. CASE SaveMig
  <2>1. CASE Fault /\ step' = "idle" /\ UNCHANGED diskVars
    BY <1>a, <1>b, <1>c, <2>1, FaultLeaves DEF IInv
  <2>2. CASE step' = "openMig" /\ binBaks' = binBaks /\ verfile' = verfile /\ faults' = faults
    <3>1. step \in Replacing /\ step' \in Replacing BY <1>7, <2>2 DEF SaveMig, Replacing
    <3> QED BY <1>a, <1>d, <1>4, <2>2, <3>1, StillNear
  <2> QED BY <1>7, <2>1, <2>2 DEF SaveMig
<1>8. CASE CopyMigFails
  BY <1>8, <1>a, <1>b, <1>c, FaultLeaves DEF CopyMigFails, IInv
<1>9. CASE UndoBin
  <2>1. step \in Replacing /\ verfile' = verfile /\ (Fault \/ faults' = faults)
    BY <1>9 DEF UndoBin, Replacing
  <2>2. SoundWithin(binBaks, Paid) BY <1>c, <1>d, <1>4, <2>1
  <2>3. CASE binSaved /\ UnsaveBin /\ step' = "restartOld"
    <3>1. binBaks # <<>> BY <2>1, <2>3 DEF IInv, BinaryAsFound
    <3>2. Paid' >= Paid BY <1>a, <1>b, <2>1, FaultPays, NothingPaid
    <3> QED BY <1>a, <2>2, <2>3, <3>1, <3>2, PutBackIsNear DEF Replacing
  <2>4. CASE bin' = Missing /\ step' = "idle" /\ binBaks' = binBaks
    BY <1>a, <2>1, <2>2, <2>4, StillNear DEF Replacing
  <2> QED BY <1>9, <2>3, <2>4 DEF UndoBin
<1>10. CASE RestartOld
  <2>1. step \notin Replacing /\ step' = "idle" /\ bin' = bin /\ binBaks' = binBaks
        /\ verfile' = verfile /\ (Fault \/ faults' = faults)
    BY <1>10 DEF RestartOld, Reported, Refused, Replacing
  <2>2. CASE Fault BY <1>a, <1>b, <1>c, <2>1, <2>2, FaultLeaves DEF IInv
  <2>3. CASE faults' = faults
    BY <1>d, <2>1, <2>3, NothingPaid DEF IInv, GoodIsNear, Replacing
  <2> QED BY <2>1, <2>2, <2>3
<1>11. CASE WriteVersion
  <2>1. step = "version" /\ step \in Replacing /\ bin' = bin /\ binBaks' = binBaks
    BY <1>11 DEF WriteVersion, Replacing
  <2>2. CASE Fault /\ step' = "idle"
    BY <1>a, <1>b, <1>c, <2>1, <2>2, FaultLeaves DEF IInv
  <2>3. CASE verfile' = target /\ step' = "cleanup" /\ faults' = faults
    <3>1. SoundWithin(binBaks, Paid) BY <1>d, <1>4, <2>1, <2>3
    <3>2. target \in Versions /\ Named \in Versions /\ target > Named /\ bin = target
      BY <1>a, <2>1, PaidType DEF IInv, UpdateShape, NewInPlace, TypeOK
    <3>3. CASE target \in Sound BY <2>1, <2>3, <3>2, <3>3 DEF GoodIsNear, Replacing
    <3>4. CASE target \in Unsound
      <4>1. Named' = target BY <2>3, <3>2, ContentsAssumption DEF Named
      <4>2. Cardinality(SpentUpTo(target)) >= Cardinality(SpentUpTo(Named)) + 1
        BY <3>2, <3>4, Budget DEF Versions
      <4>3. Paid' = faults + faults * Cardinality(Unsound) + Cardinality(SpentUpTo(target))
        BY <2>3, <4>1 DEF Paid, SpentUpTo
      <4> DEFINE F == faults + faults * Cardinality(Unsound)
      <4>4. Paid' = F + Cardinality(SpentUpTo(target)) /\ Paid = F + Cardinality(SpentUpTo(Named))
        BY <4>3 DEF Paid
      <4>5. F \in Int /\ Cardinality(SpentUpTo(target)) \in Nat /\ Cardinality(SpentUpTo(Named)) \in Nat
        BY <1>a, <3>2, Budget, BoundsAssumption DEF TypeOK
      <4> HIDE DEF F
      <4>6. Paid' >= Paid + 1 BY <4>2, <4>4, <4>5
      <4>7. SoundWithin(binBaks', Paid' - 1) BY <1>a, <2>1, <3>1, <4>6, WithinMore
      <4> QED BY <2>3, <4>7 DEF GoodIsNear, Replacing
    <3> QED BY <3>2, <3>3, <3>4 DEF Unsound
  <2> QED BY <1>11, <2>2, <2>3 DEF WriteVersion
<1>12. CASE Cleanup
  <2>1. /\ step = "cleanup" /\ step' = "idle" /\ bin' = bin /\ binBaks' = Newest(binBaks)
        /\ verfile' = verfile /\ faults' = faults
    BY <1>12 DEF Cleanup
  <2>2. Enough /\ Paid' = Paid /\ Paid - 1 < Keep BY <1>a, <1>d, <2>1, NothingPaid, PaidType
  <2>3. bin \in Versions /\ bin # Missing
    BY <2>1, ContentsAssumption DEF IInv, UpdateShape, NewInPlace, TypeOK
  <2>4. bin \in Sound \/ SoundWithin(binBaks, Paid - 1)
    BY <2>1, <2>2, <2>3 DEF IInv, GoodIsNear, Replacing
  <2>5. SoundWithin(binBaks, Paid - 1) => SoundWithin(Newest(binBaks), Paid - 1)
    BY <1>a, <2>2, WithinNewest, BoundsAssumption
  <2> QED BY <2>1, <2>2, <2>4, <2>5 DEF GoodIsNear, Replacing
<1>13. CASE Kill
  BY <1>13, <1>a, <1>b, <1>c, FaultLeaves DEF Kill, IInv
<1> QED
  BY <1>1, <1>2, <1>3, <1>5, <1>6, <1>7, <1>8, <1>9, <1>10, <1>11, <1>12, <1>13
  DEF Next, Work
-----------------------------------------------------------------------------
\* The inductive invariant: what a backup was made of is what it is put back
\* for, and a backup that runs is never deeper than what may have been installed
\* over it.
THEOREM InvCorrect == Spec => []IInv
<1>1. Init => IInv BY InitIInv
<1>2. IInv /\ [Next]_vars => IInv'
  BY TypeStep, ShapeStep, BinaryStep, MigrationsStep, NearStep DEF IInv, Saved
<1> QED BY <1>1, <1>2, PTL DEF Spec

\* Every variable keeps its type.
THEOREM TypeCorrect == Spec => []TypeOK
<1>1. IInv => TypeOK BY DEF IInv
<1> QED BY <1>1, InvCorrect, PTL

\* A version that runs is in place or among the backups, as long as the faults
\* and the bad releases are fewer than the backups that are kept.
THEOREM GoodBinaryKept == Spec => []KeepsAGoodBinary
<1>1. IInv => KeepsAGoodBinary
  BY DEF IInv, Enough, GoodIsNear, SoundWithin, KeepsAGoodBinary
<1> QED BY <1>1, InvCorrect, PTL

\* An update that reports a rollback has put back the binary it found, running if
\* it ran, and the migrations unless an operation of its own failed.
THEOREM RollbackCorrect == Spec => RollbackRestores
<1> DEFINE Restored == Ends("rolledBack") =>
              /\ bin' = begun.bin
              /\ begun.running = begun.bin => running' = begun.bin
              /\ faults' = begun.faults => mig' = begun.mig
<1>1. IInv /\ [Next]_vars => [Restored]_vars
  <2> SUFFICES ASSUME IInv, [Next]_vars, Ends("rolledBack") PROVE Restored OBVIOUS
  <2>1. RestartOld
    BY DEF Ends, At, Next, Work, Publish, RestartService, Begin, SaveBin, OpenBin, FillBin,
           CopyBinFails, SaveMig, OpenMig, FillMig, CopyMigFails, Restart, UndoMig, UndoBin,
           RestartOld, WriteVersion, Cleanup, Kill, Goto, Return, localVars, vars
  <2>2. Reported(bin) /\ step = "restartOld" /\ bin' = bin /\ mig' = mig
    BY <2>1 DEF RestartOld, Ends, Return, At, diskVars
  <2>3. bin = begun.bin BY <2>2 DEF IInv, BinaryAsFound
  <2>4. running' = Runs(bin) /\ faults' = faults BY <2>2 DEF Reported
  <2>5. begun.running \in Sound \cup {Missing} BY DEF IInv, TypeOK
  <2>6. begun.running = begun.bin => running' = begun.bin
    BY <2>3, <2>4, <2>5 DEF Runs
  <2>7. faults' = begun.faults => mig' = begun.mig
    BY <2>2, <2>4 DEF IInv, MigrationsAsFound, MigrationsKept
  <2> QED BY <2>2, <2>3, <2>6, <2>7
<1> QED BY <1>1, InvCorrect, PTL DEF Spec, RollbackRestores
=============================================================================
