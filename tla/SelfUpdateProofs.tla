--------------------------- MODULE SelfUpdateProofs ---------------------------
(***************************************************************************)
(* The agent keeps a whole binary unless it is cut, and its marker names   *)
(* what runs unless the threads cross, for every set of texts and versions *)
(* and all bounds; it does not restart for ever.  The order of versions    *)
(* that decides what to install is a strict one, for every length.         *)
(***************************************************************************)
EXTENDS SelfUpdate, WellFoundedInduction, TLAPS

-----------------------------------------------------------------------------
(* The order of versions.                                                   *)

\* The number at a place of a version is a natural number, past its end as well.
LEMMA NumberType ==
  ASSUME NEW v \in Versions, NEW i \in Nat
  PROVE  Number(v, i) \in Nat
  BY DEF Versions, Number

\* Past the end of a version every number is 0.
LEMMA NumberBeyond ==
  ASSUME NEW v \in Versions, NEW i \in Nat, i > Len(v)
  PROVE  Number(v, i) = 0
  BY DEF Versions, Number

\* What LessThan means without the span: the versions agree up to some place
\* and differ there.  Nothing can differ past the end of both.
LEMMA LessThanAnywhere ==
  ASSUME NEW a \in Versions, NEW b \in Versions
  PROVE  LessThan(a, b) <=>
           \E i \in Nat \ {0} : Agree(a, b, i - 1) /\ Number(a, i) < Number(b, i)
  <1>1. Span(a, b) \in Nat /\ Len(a) <= Span(a, b) /\ Len(b) <= Span(a, b)
    BY DEF Versions, Span
  <1>2. ASSUME LessThan(a, b)
        PROVE  \E i \in Nat \ {0} : Agree(a, b, i - 1) /\ Number(a, i) < Number(b, i)
    <2>1. PICK i \in 1..Span(a, b) : Agree(a, b, i - 1) /\ Number(a, i) < Number(b, i)
      BY <1>2 DEF LessThan, LessAt
    <2>2. i \in Nat \ {0}
      BY <1>1
    <2> QED
      BY <2>1, <2>2
  <1>3. ASSUME NEW i \in Nat \ {0}, Agree(a, b, i - 1), Number(a, i) < Number(b, i)
        PROVE  LessThan(a, b)
    <2>1. i <= Span(a, b)
      BY <1>1, <1>3, NumberBeyond
    <2>2. i \in 1..Span(a, b)
      BY <1>1, <2>1
    <2> QED
      BY <1>3, <2>2 DEF LessThan, LessAt
  <1> QED
    BY <1>2, <1>3

\* No two versions are each less than the other, which is what keeps an agent
\* from swapping two versions for ever.
THEOREM LessThanAsymmetric ==
  ASSUME NEW a \in Versions, NEW b \in Versions, LessThan(a, b)
  PROVE  ~LessThan(b, a)
  <1> SUFFICES ASSUME LessThan(b, a) PROVE FALSE
    OBVIOUS
  <1>1. PICK i \in Nat \ {0} : Agree(a, b, i - 1) /\ Number(a, i) < Number(b, i)
    BY LessThanAnywhere
  <1>2. PICK j \in Nat \ {0} : Agree(b, a, j - 1) /\ Number(b, j) < Number(a, j)
    BY LessThanAnywhere
  <1>3. Number(a, i) \in Nat /\ Number(b, i) \in Nat /\ Number(a, j) \in Nat /\ Number(b, j) \in Nat
    BY NumberType
  <1>4. CASE i < j
    BY <1>1, <1>2, <1>3, <1>4 DEF Agree
  <1>5. CASE j < i
    BY <1>1, <1>2, <1>3, <1>5 DEF Agree
  <1>6. CASE i = j
    BY <1>1, <1>2, <1>3, <1>6
  <1> QED
    BY <1>4, <1>5, <1>6

\* The order is transitive: a chain of upgrades never ends below its start.
THEOREM LessThanTransitive ==
  ASSUME NEW a \in Versions, NEW b \in Versions, NEW c \in Versions,
         LessThan(a, b), LessThan(b, c)
  PROVE  LessThan(a, c)
  <1>1. PICK i \in Nat \ {0} : Agree(a, b, i - 1) /\ Number(a, i) < Number(b, i)
    BY LessThanAnywhere
  <1>2. PICK j \in Nat \ {0} : Agree(b, c, j - 1) /\ Number(b, j) < Number(c, j)
    BY LessThanAnywhere
  <1> DEFINE k == IF i <= j THEN i ELSE j
  <1>3. k \in Nat \ {0} /\ k <= i /\ k <= j
    OBVIOUS
  <1>4. Agree(a, c, k - 1)
    BY <1>1, <1>2, <1>3 DEF Agree
  <1>5. /\ Number(a, i) \in Nat /\ Number(b, i) \in Nat /\ Number(c, i) \in Nat
        /\ Number(a, j) \in Nat /\ Number(b, j) \in Nat /\ Number(c, j) \in Nat
    BY NumberType
  <1>6. Number(a, k) < Number(c, k)
    <2>1. CASE i < j
      BY <1>1, <1>2, <1>5, <2>1 DEF Agree
    <2>2. CASE j < i
      BY <1>1, <1>2, <1>5, <2>2 DEF Agree
    <2>3. CASE i = j
      BY <1>1, <1>2, <1>5, <2>3
    <2> QED
      BY <2>1, <2>2, <2>3
  <1> QED
    BY <1>3, <1>4, <1>6, LessThanAnywhere

\* Compare is antisymmetric: both sides of a comparison see the same order.
THEOREM CompareAntisymmetric ==
  ASSUME NEW a \in Versions, NEW b \in Versions
  PROVE  Compare(a, b) = -1 <=> Compare(b, a) = 1
  <1>1. CASE LessThan(a, b)
    <2>1. Compare(a, b) = -1 /\ Compare(b, a) = 1
      BY <1>1, LessThanAsymmetric DEF Compare
    <2> QED
      BY <2>1
  <1>2. CASE LessThan(b, a)
    <2>1. Compare(a, b) = 1 /\ Compare(b, a) = -1
      BY <1>2, LessThanAsymmetric DEF Compare
    <2> QED
      BY <2>1
  <1>3. CASE ~LessThan(a, b) /\ ~LessThan(b, a)
    <2>1. Compare(a, b) = 0 /\ Compare(b, a) = 0
      BY <1>3 DEF Compare
    <2> QED
      BY <2>1
  <1> QED
    BY <1>1, <1>2, <1>3

-----------------------------------------------------------------------------
(* The loop of Compare.                                                     *)

\* The first difference from place i on has the lesser number in a.
Below(a, b, i) ==
    \E j \in Nat :
        /\ i <= j
        /\ \A m \in i..(j - 1) : Number(a, m) = Number(b, m)
        /\ Number(a, j) < Number(b, j)

\* What the loop returns from place i on.
Outcome(a, b, i) == IF Below(a, b, i) THEN -1 ELSE IF Below(b, a, i) THEN 1 ELSE 0

\* The equation by which Scan defines its function.
IsLoop(f, a, b) ==
    f = [i \in 1..Span(a, b) + 1 |->
            IF i > Span(a, b) THEN 0
            ELSE IF Number(a, i) < Number(b, i) THEN -1
            ELSE IF Number(a, i) > Number(b, i) THEN 1
            ELSE f[i + 1]]

\* One round of the loop: place i decides, or the places after it.
LEMMA BelowRound ==
  ASSUME NEW a \in Versions, NEW b \in Versions, NEW i \in Nat \ {0}
  PROVE  Below(a, b, i) <=> \/ Number(a, i) < Number(b, i)
                            \/ Number(a, i) = Number(b, i) /\ Below(a, b, i + 1)
<1>0. Number(a, i) \in Nat /\ Number(b, i) \in Nat BY NumberType
<1>1. ASSUME Below(a, b, i), ~(Number(a, i) < Number(b, i))
      PROVE  Number(a, i) = Number(b, i) /\ Below(a, b, i + 1)
  <2>1. PICK j \in Nat : /\ i <= j
                         /\ \A m \in i..(j - 1) : Number(a, m) = Number(b, m)
                         /\ Number(a, j) < Number(b, j)
    BY <1>1 DEF Below
  <2>2. i # j BY <1>1, <2>1
  <2>3. i + 1 <= j /\ i \in i..(j - 1) BY <2>1, <2>2
  <2>4. \A m \in (i + 1)..(j - 1) : Number(a, m) = Number(b, m) BY <2>1
  <2>5. Below(a, b, i + 1) BY <2>1, <2>3, <2>4 DEF Below
  <2> QED BY <2>1, <2>3, <2>5
<1>2. ASSUME Number(a, i) < Number(b, i) PROVE Below(a, b, i)
  <2>1. \A m \in i..(i - 1) : Number(a, m) = Number(b, m) OBVIOUS
  <2> QED BY <1>2, <2>1 DEF Below
<1>3. ASSUME Number(a, i) = Number(b, i), Below(a, b, i + 1) PROVE Below(a, b, i)
  <2>1. PICK j \in Nat : /\ i + 1 <= j
                         /\ \A m \in (i + 1)..(j - 1) : Number(a, m) = Number(b, m)
                         /\ Number(a, j) < Number(b, j)
    BY <1>3 DEF Below
  <2>2. \A m \in i..(j - 1) : m = i \/ m \in (i + 1)..(j - 1) BY <2>1
  <2>3. \A m \in i..(j - 1) : Number(a, m) = Number(b, m) BY <1>3, <2>1, <2>2
  <2> QED BY <2>1, <2>3 DEF Below
<1> QED BY <1>1, <1>2, <1>3

LEMMA SpanType ==
  ASSUME NEW a \in Versions, NEW b \in Versions
  PROVE  Span(a, b) \in Nat /\ Len(a) <= Span(a, b) /\ Len(b) <= Span(a, b)
BY DEF Versions, Span

\* Nothing differs past the span.
LEMMA BelowEnds ==
  ASSUME NEW a \in Versions, NEW b \in Versions, NEW i \in Nat, i > Span(a, b)
  PROVE  ~Below(a, b, i) /\ ~Below(b, a, i)
<1>1. \A j \in Nat : i <= j => Number(a, j) = 0 /\ Number(b, j) = 0
  <2> SUFFICES ASSUME NEW j \in Nat, i <= j PROVE Number(a, j) = 0 /\ Number(b, j) = 0 OBVIOUS
  <2>1. Len(a) \in Nat /\ Len(b) \in Nat BY DEF Versions
  <2>2. j > Len(a) /\ j > Len(b) BY <2>1, SpanType
  <2> QED BY <2>2, NumberBeyond
<1> QED
  BY <1>1
  DEF Below

\* The outcomes satisfy the equation.
LEMMA OutcomeRound ==
  ASSUME NEW a \in Versions, NEW b \in Versions, NEW i \in 1..Span(a, b) + 1
  PROVE  Outcome(a, b, i) = IF i > Span(a, b) THEN 0
                            ELSE IF Number(a, i) < Number(b, i) THEN -1
                            ELSE IF Number(a, i) > Number(b, i) THEN 1
                            ELSE Outcome(a, b, i + 1)
<1>1. i \in Nat \ {0} BY SpanType
<1>2. CASE i > Span(a, b) BY <1>1, <1>2, BelowEnds DEF Outcome
<1>3. CASE ~(i > Span(a, b))
  <2>1. Number(a, i) \in Nat /\ Number(b, i) \in Nat BY <1>1, NumberType
  <2>2. /\ Below(a, b, i) <=> \/ Number(a, i) < Number(b, i)
                              \/ Number(a, i) = Number(b, i) /\ Below(a, b, i + 1)
        /\ Below(b, a, i) <=> \/ Number(b, i) < Number(a, i)
                              \/ Number(b, i) = Number(a, i) /\ Below(b, a, i + 1)
    BY <1>1, BelowRound
  <2> QED BY <1>3, <2>1, <2>2 DEF Outcome
<1> QED BY <1>2, <1>3

LEMMA LoopExists ==
  ASSUME NEW a \in Versions, NEW b \in Versions
  PROVE  \E f : IsLoop(f, a, b)
<1> DEFINE f == [i \in 1..Span(a, b) + 1 |-> Outcome(a, b, i)]
<1>1. ASSUME NEW i \in 1..Span(a, b) + 1
      PROVE  f[i] = IF i > Span(a, b) THEN 0
                    ELSE IF Number(a, i) < Number(b, i) THEN -1
                    ELSE IF Number(a, i) > Number(b, i) THEN 1
                    ELSE f[i + 1]
  <2>1. ~(i > Span(a, b)) => i + 1 \in 1..Span(a, b) + 1 BY SpanType
  <2> QED BY <2>1, OutcomeRound
<1>2. IsLoop(f, a, b)
  <2>1. f = [i \in 1..Span(a, b) + 1 |-> f[i]] OBVIOUS
  <2> HIDE DEF f
  <2> QED BY <1>1, <2>1 DEF IsLoop
<1> QED BY <1>2

\* A set of numbers has a least one.
LEMMA LeastNumber ==
  ASSUME NEW T \in SUBSET Nat, T # {}
  PROVE  \E m \in T : \A l \in T : m <= l
<1>1. \E R : IsWellFoundedOn(R, Nat) /\ \A x, y \in Nat : x < y => <<x, y>> \in R
  <2>1. IsWellFoundedOn(OpToRel(<, Nat), Nat) BY NatLessThanWellFounded, Zenon
  <2>2. \A x, y \in Nat : x < y => <<x, y>> \in OpToRel(<, Nat) BY DEF OpToRel
  <2> QED BY <2>1, <2>2, Zenon
<1>2. PICK R : IsWellFoundedOn(R, Nat) /\ \A x, y \in Nat : x < y => <<x, y>> \in R BY <1>1
<1>3. \E m \in T : \A l \in T : ~(<<l, m>> \in R)
  <2>1. T \subseteq Nat /\ IsWellFoundedOn(R, Nat) BY <1>2
  <2> QED BY <2>1, WFMin, Zenon
<1>4. PICK m \in T : \A l \in T : ~(<<l, m>> \in R) BY <1>3
<1>5. ASSUME NEW l \in T PROVE m <= l
  <2>1. l \in Nat /\ m \in Nat /\ ~(l < m) BY <1>2, <1>4
  <2> QED BY <2>1
<1> QED BY <1>5

\* Nothing else satisfies it: the last place with another value would have to
\* follow from the next one.
LEMMA LoopIsOutcome ==
  ASSUME NEW a \in Versions, NEW b \in Versions, NEW f, IsLoop(f, a, b)
  PROVE  \A i \in 1..Span(a, b) + 1 : f[i] = Outcome(a, b, i)
<1> DEFINE n == Span(a, b)
           T == {d \in 0..n : f[n + 1 - d] # Outcome(a, b, n + 1 - d)}
<1>1. n \in Nat BY SpanType
<1>2. ASSUME NEW i \in 1..n + 1
      PROVE  f[i] = IF i > n THEN 0
                    ELSE IF Number(a, i) < Number(b, i) THEN -1
                    ELSE IF Number(a, i) > Number(b, i) THEN 1
                    ELSE f[i + 1]
  BY <1>1 DEF IsLoop
<1>3. ASSUME NEW i \in 1..n + 1
      PROVE  Outcome(a, b, i) = IF i > n THEN 0
                                ELSE IF Number(a, i) < Number(b, i) THEN -1
                                ELSE IF Number(a, i) > Number(b, i) THEN 1
                                ELSE Outcome(a, b, i + 1)
  BY OutcomeRound
<1> HIDE DEF n
<1>4. T = {}
  <2> SUFFICES ASSUME T # {} PROVE FALSE OBVIOUS
  <2>1. T \in SUBSET Nat BY <1>1
  <2>2. \E m \in T : \A l \in T : m <= l
    <3> HIDE DEF T
    <3> QED BY <2>1, LeastNumber
  <2>3. PICK m \in T : \A l \in T : m <= l BY <2>2
  <2>4. m \in 0..n /\ f[n + 1 - m] # Outcome(a, b, n + 1 - m) OBVIOUS
  <2>5. PICK i \in 1..n + 1 : i = n + 1 - m BY <1>1, <2>4
  <2>6. i <= n /\ f[i + 1] # Outcome(a, b, i + 1) BY <1>1, <1>2, <1>3, <2>4, <2>5
  <2>7. m - 1 \in 0..n /\ n + 1 - (m - 1) = i + 1 BY <1>1, <2>4, <2>5, <2>6
  <2>8. m - 1 \in T BY <2>6, <2>7
  <2>9. m <= m - 1
    <3> HIDE DEF T
    <3> QED BY <2>3, <2>8
  <2> QED BY <2>4, <2>9
<1>5. ASSUME NEW i \in 1..n + 1 PROVE f[i] = Outcome(a, b, i)
  <2>1. PICK d \in 0..n : n + 1 - d = i
    <3>1. n + 1 - i \in 0..n /\ n + 1 - (n + 1 - i) = i BY <1>1
    <3> QED BY <3>1
  <2> QED BY <1>4, <2>1
<1> QED
  BY <1>5
  DEF n

\* The loop of Compare returns the order that LessThan states, for versions of
\* all lengths.
THEOREM ScanIsCompare ==
  ASSUME NEW a \in Versions, NEW b \in Versions
  PROVE  Scan(a, b) = Compare(a, b)
<1> DEFINE from == CHOOSE f : IsLoop(f, a, b)
<1>1. IsLoop(from, a, b) BY LoopExists
<1>2. Scan(a, b) = from[1] BY DEF Scan, IsLoop
<1>3. from[1] = Outcome(a, b, 1)
  <2>1. 1 \in 1..Span(a, b) + 1 BY SpanType
  <2> HIDE DEF from
  <2> QED BY <1>1, <2>1, LoopIsOutcome
<1>4. ASSUME NEW v \in Versions, NEW w \in Versions
      PROVE  LessThan(v, w) <=> Below(v, w, 1)
  <2>1. ASSUME NEW i \in Nat \ {0}
        PROVE  Agree(v, w, i - 1) <=> \A m \in 1..(i - 1) : Number(v, m) = Number(w, m)
    BY DEF Agree
  <2> QED BY <2>1, LessThanAnywhere DEF Below
<1>5. Outcome(a, b, 1) = Compare(a, b) BY <1>4 DEF Outcome, Compare
<1> QED BY <1>2, <1>3, <1>5

-----------------------------------------------------------------------------
(* The invariant.                                                           *)

Installing == {"fetching", "moved", "copying", "restoring", "filled", "marking"}

\* A thread that installs has a version to install, and writes a file of its own
\* while it copies; without a process there are no threads.
ThreadShape ==
    \A t \in Threads :
        /\ phase[t] \in Installing \cup {"marked"} => want[t] \in Names
        /\ own[t] # NoFile <=> phase[t] = "copying"
        /\ ~alive => phase[t] = "off"

\* What thread t finds while it replaces the binary undisturbed, the backup
\* holding what Old says.
Undisturbed(t, Old) ==
    /\ saved[t] \in Inodes /\ data[saved[t]] \in Old
    /\ phase[t] = "moved" => bin = NoFile
    /\ phase[t] = "copying" => bin = own[t] /\ saved[t] # own[t] /\ data[own[t]] = Partial
    /\ phase[t] = "restoring" => ~Whole

\* Unless it was cut, one thread replaces the binary and has a whole file to put
\* back, or the file in place is whole.
UncutIsWhole ==
    ~cut =>
        /\ \A t, u \in Replacing : t = u
        /\ \A t \in Replacing : Undisturbed(t, Names)
        /\ Replacing = {} => Whole

\* Unless the threads crossed, the one that is replacing the binary has the
\* running version as its backup, or what a copy left that was not undone, then
\* the new version in place, then in the marker.
UncrossedAgrees ==
    ~crossed =>
        /\ \A t, u \in Changing : t = u
        /\ \A t \in Replacing : Undisturbed(t, {self, Partial})
        /\ \A t \in Changing \ Replacing : bin # NoFile /\ data[bin] = want[t]
        /\ \A t \in Threads : phase[t] = "marking" => marker = Unset
        /\ \A t \in Threads : phase[t] = "marked" => marker \in {Unset, want[t]}
        /\ alive /\ Changing = {} /\ Whole => data[bin] = self
        /\ ~alive /\ Whole => marker \in {Unset, data[bin]}

\* A thread that has come past the check of the marker finds its own version
\* there only if the other thread has written it, and that is about to exit.
Marked == \E t \in Threads : phase[t] = "marked"

NewsToMarker ==
    \A t \in Threads : phase[t] \in Installing /\ marker = want[t] => Marked

\* The answer of thread t is of an earlier setting, and t may still write it to
\* the marker.
Stale(t) ==
    phase[t] \in {"asked", "answered"} \cup Installing /\ want[t] \notin {Unset, latest}

\* The agent may exit once more, or twice, under the latest version as it is.  An
\* exit that finds the marker emptied is a loss, and paid for.
Wanted     == latest # Unset /\ marker # latest
Emptied    == marker = Unset /\ \E t \in Threads : phase[t] = "marking"
ExitsOnce  == Marked \/ Wanted \/ \E t \in Threads : Stale(t)
ExitsTwice == (Marked /\ Wanted /\ ~Emptied) \/ \E t \in Threads : Stale(t)

\* The exits there have been and those still to come are paid for by changes,
\* faults and losses.
Paid == 2 * changes + faults + lost

ExitsArePaid ==
    /\ exits <= Paid
    /\ ExitsOnce => exits + 1 <= Paid
    /\ ExitsTwice => exits + 2 <= Paid

IInv ==
    /\ TypeOK
    /\ ThreadShape
    /\ NewsToMarker
    /\ ExitsArePaid
    /\ UncutIsWhole
    /\ UncrossedAgrees
    /\ MarkerIsInstalled

LEMMA InitIInv == Init => IInv
<1> SUFFICES ASSUME Init PROVE IInv OBVIOUS
<1>1. TypeOK
  <2>1. data \in [Inodes -> Names \cup {Partial}] BY NamesAssumption DEF Init
  <2>2. changes \in 0..MaxChanges /\ faults \in 0..MaxFaults /\ exits \in Nat
        /\ lost \in 0..MaxLost
    BY BoundsAssumption DEF Init
  <2>3. bin \in Inodes BY DEF Init, Inodes
  <2>4. phase \in [Threads -> Phases] BY DEF Init, Phases
  <2>5. alive \in BOOLEAN /\ cut \in BOOLEAN /\ crossed \in BOOLEAN BY DEF Init
  <2> QED BY NamesAssumption, <2>1, <2>2, <2>3, <2>4, <2>5 DEF Init, TypeOK, Setting
<1>2. Replacing = {} /\ Changing = {} BY DEF Init, Replacing, Changing
<1>3. Whole /\ data[bin] = self
  BY NamesAssumption, SpecialAssumption DEF Init, Whole, Inodes
<1>4. ThreadShape BY DEF Init, ThreadShape, Installing
<1>5. bin # NoFile BY SpecialAssumption DEF Init
<1>6. MarkerIsInstalled BY DEF Init, MarkerIsInstalled
<1>7. UncutIsWhole BY <1>2, <1>3 DEF UncutIsWhole
<1>8. UncrossedAgrees BY <1>2, <1>3, <1>5 DEF Init, UncrossedAgrees
<1>9. NewsToMarker BY DEF Init, NewsToMarker, Installing
<1>10. ExitsArePaid
  <2>1. ~ExitsOnce /\ ~ExitsTwice
    BY DEF Init, ExitsOnce, ExitsTwice, Marked, Wanted, Stale, Installing
  <2> QED BY <2>1 DEF Init, ExitsArePaid, Paid
<1> QED
  BY <1>1, <1>4, <1>6, <1>7, <1>8, <1>9, <1>10
  DEF IInv

-----------------------------------------------------------------------------
\* There is always an inode for the new file: it is one of the four that is
\* neither a backup nor being written, when the path is free.
LEMMA OpenedInode ==
  ASSUME TypeOK, ThreadShape, NEW t \in Threads, phase[t] = "moved"
  PROVE  /\ Opened(t) \in Inodes
         /\ bin = NoFile => \A u \in Threads : saved[u] # Opened(t) /\ own[u] # Opened(t)
<1>1. CASE bin # NoFile BY <1>1 DEF Opened, TypeOK
<1>2. CASE bin = NoFile
  <2>1. \A a, b, c : \E f \in Inodes \ {0} : f # a /\ f # b /\ f # c
    BY DEF Inodes
  <2>2. PICK v \in Threads : v # t /\ Threads = {t, v} BY DEF Threads
  <2>3. PICK f \in Inodes \ {0} : f # saved[t] /\ f # saved[v] /\ f # own[v] BY <2>1
  <2>4. own[t] = NoFile BY DEF ThreadShape
  <2>5. f # NoFile BY SpecialAssumption DEF Inodes
  <2>6. \A u \in Threads : saved[u] # f /\ own[u] # f BY <2>2, <2>3, <2>4, <2>5
  <2> QED BY <1>2, <2>6 DEF Opened
<1> QED BY <1>1, <1>2

\* What the minimum may be set to is a setting.
LEMMA FloorsAreSettings == Floors \cup {Unset} \subseteq Setting
BY NamesAssumption DEF Setting

\* A thread that goes back to rest keeps the types of its answer.
LEMMA RestType ==
  ASSUME TypeOK, NEW t \in Threads, Rest(t)
  PROVE  /\ phase' \in [Threads -> Phases]
         /\ want' \in [Threads -> Setting]
         /\ least' \in [Threads -> Setting]
BY DEF TypeOK, Rest, Become, Phases, Setting

\* Types, and the shape of the threads, are kept by every step.
LEMMA TypeStep == TypeOK /\ ThreadShape /\ [Next]_vars => TypeOK'
<1> SUFFICES ASSUME TypeOK, ThreadShape, [Next]_vars PROVE TypeOK' OBVIOUS
<1> USE SpecialAssumption, BoundsAssumption
    DEF settingVars, fileVars, answerVars, historyVars, Fault, Loss, Become
<1>1. CASE UNCHANGED vars BY <1>1 DEF vars, TypeOK
<1>2. ASSUME NEW n \in Setting, SetLatest(n) \/ SetFloor(n) PROVE TypeOK'
  BY <1>2 DEF SetLatest, SetFloor, TypeOK, Setting
<1>3. ASSUME NEW t \in Threads, Ask(t) \/ Answer(t) PROVE TypeOK'
  BY <1>3 DEF Ask, Answer, TypeOK, Phases
<1>4. ASSUME NEW t \in Threads, Decide(t) PROVE TypeOK'
  BY <1>4, RestType DEF Decide, TypeOK, Phases
<1>5. ASSUME NEW t \in Threads, FetchFails(t) PROVE TypeOK'
  BY <1>5, RestType DEF FetchFails, TypeOK
<1>6. ASSUME NEW t \in Threads, MoveAway(t) PROVE TypeOK'
  <2>1. CASE bin = NoFile BY <1>6, <2>1, RestType DEF MoveAway, TypeOK
  <2>2. CASE bin # NoFile
    <3>1. cut' \in BOOLEAN /\ crossed' \in BOOLEAN BY <1>6, <2>2 DEF MoveAway
    <3>2. saved' \in [Threads -> Inodes \cup {NoFile}] /\ phase' \in [Threads -> Phases]
      BY <1>6, <2>2 DEF MoveAway, TypeOK, Phases
    <3> QED BY <1>6, <2>2, <3>1, <3>2 DEF MoveAway, TypeOK
  <2> QED BY <2>1, <2>2
<1>7. ASSUME NEW t \in Threads, Create(t) PROVE TypeOK'
  BY <1>7, OpenedInode DEF Create, TypeOK, Phases
<1>8. ASSUME NEW t \in Threads, Fill(t) PROVE TypeOK'
  BY <1>8 DEF Fill, TypeOK, ThreadShape, Installing, Phases
<1>9. ASSUME NEW t \in Threads, CopyFails(t) PROVE TypeOK'
  BY <1>9 DEF CopyFails, TypeOK, Phases
<1>10. ASSUME NEW t \in Threads, Restore(t) PROVE TypeOK'
  <2>1. cut' \in BOOLEAN BY <1>10 DEF Restore, TypeOK
  <2>4. faults' \in 0..MaxFaults BY <1>10 DEF Restore, TypeOK
  <2>2. bin' \in Inodes \cup {NoFile} BY <1>10 DEF Restore, TypeOK
  <2>3. saved' \in [Threads -> Inodes \cup {NoFile}] BY <1>10 DEF Restore, TypeOK
  <2> QED BY <1>10, <2>1, <2>2, <2>3, <2>4, RestType DEF Restore, TypeOK
<1>11. ASSUME NEW t \in Threads, Truncate(t) PROVE TypeOK'
  <2>1. marker' \in Setting /\ faults' \in 0..MaxFaults BY <1>11 DEF Truncate, TypeOK, Setting
  <2>2. crossed' \in BOOLEAN BY <1>11 DEF Truncate, TypeOK
  <2>3. phase' \in [Threads -> Phases] BY <1>11 DEF Truncate, TypeOK, Phases
  <2> QED BY <1>11, <2>1, <2>2, <2>3 DEF Truncate, TypeOK
<1>12. ASSUME NEW t \in Threads, Mark(t) PROVE TypeOK'
  <2>1. marker' \in Setting /\ faults' \in 0..MaxFaults BY <1>12 DEF Mark, TypeOK, Setting
  <2>2. lost' \in 0..MaxLost BY <1>12 DEF Mark, TypeOK
  <2>3. phase' \in [Threads -> Phases] BY <1>12 DEF Mark, TypeOK, Phases
  <2> QED BY <1>12, <2>1, <2>2, <2>3 DEF Mark, TypeOK
<1>13. ASSUME End, faults' \in 0..MaxFaults, exits' \in Nat, lost' \in 0..MaxLost PROVE TypeOK'
  BY <1>13 DEF End, TypeOK, Phases, Setting
<1>14. ASSUME NEW t \in Threads, Exit(t) PROVE TypeOK'
  BY <1>13, <1>14 DEF Exit, TypeOK
<1>15. CASE Kill
  BY <1>13, <1>15 DEF Kill, TypeOK
<1>16. CASE Start
  BY <1>16 DEF Start, Whole, TypeOK, Phases, Inodes
<1> QED
  BY <1>1, <1>2, <1>3, <1>4, <1>5, <1>6, <1>7, <1>8, <1>9, <1>10, <1>11, <1>12,
     <1>14, <1>15, <1>16, FloorsAreSettings
  DEF Next, Step

LEMMA ShapeStep == TypeOK /\ ThreadShape /\ [Next]_vars => ThreadShape'
<1> SUFFICES ASSUME TypeOK, ThreadShape, [Next]_vars PROVE ThreadShape' OBVIOUS
<1> USE SpecialAssumption DEF settingVars, fileVars, answerVars, historyVars, Become, ThreadShape, Installing
<1>1. CASE UNCHANGED vars BY <1>1 DEF vars
<1>2. ASSUME NEW n \in Setting, SetLatest(n) \/ SetFloor(n) PROVE ThreadShape'
  BY <1>2 DEF SetLatest, SetFloor
<1>3. ASSUME NEW t \in Threads, Ask(t) \/ Answer(t) PROVE ThreadShape'
  BY <1>3 DEF Ask, Answer, TypeOK, Setting
<1>4. ASSUME NEW t \in Threads, Decide(t) PROVE ThreadShape'
  BY <1>4 DEF Decide, ShouldSelfUpdate, Rest, TypeOK, Setting
<1>5. ASSUME NEW t \in Threads, FetchFails(t) PROVE ThreadShape'
  BY <1>5 DEF FetchFails, Rest, TypeOK
<1>6. ASSUME NEW t \in Threads, MoveAway(t) PROVE ThreadShape'
  BY <1>6 DEF MoveAway, Rest, TypeOK
<1>7. ASSUME NEW t \in Threads, Create(t) PROVE ThreadShape'
  <2>1. Opened(t) # NoFile BY <1>7, OpenedInode DEF Create, Inodes
  <2> QED BY <1>7, <2>1 DEF Create, TypeOK
<1>8. ASSUME NEW t \in Threads, Fill(t) PROVE ThreadShape'
  BY <1>8 DEF Fill, TypeOK
<1>9. ASSUME NEW t \in Threads, CopyFails(t) PROVE ThreadShape'
  BY <1>9 DEF CopyFails, TypeOK
<1>10. ASSUME NEW t \in Threads, Restore(t) PROVE ThreadShape'
  BY <1>10 DEF Restore, Rest, TypeOK
<1>11. ASSUME NEW t \in Threads, Truncate(t) PROVE ThreadShape'
  BY <1>11 DEF Truncate, TypeOK
<1>12. ASSUME NEW t \in Threads, Mark(t) PROVE ThreadShape'
  BY <1>12 DEF Mark, TypeOK
<1>13. ASSUME End PROVE ThreadShape' BY <1>13 DEF End
<1>14. CASE Start BY <1>14 DEF Start
<1> QED
  BY <1>1, <1>2, <1>3, <1>4, <1>5, <1>6, <1>7, <1>8, <1>9, <1>10, <1>11, <1>12,
     <1>13, <1>14, FloorsAreSettings
  DEF Next, Step, Exit, Kill

-----------------------------------------------------------------------------
\* The whole file: the answers and the master do not touch the disk.
LEMMA UncutStep ==
  TypeOK /\ ThreadShape /\ UncutIsWhole /\ [Next]_vars => UncutIsWhole'
<1> SUFFICES ASSUME TypeOK, ThreadShape, UncutIsWhole, [Next]_vars, ~cut'
             PROVE  UncutIsWhole'
  BY DEF UncutIsWhole
<1> USE SpecialAssumption
    DEF settingVars, fileVars, answerVars, historyVars, Become, Replacing, Whole
<1>1. CASE UNCHANGED vars BY <1>1 DEF vars, UncutIsWhole, Undisturbed
<1>2. ASSUME NEW n \in Setting, SetLatest(n) \/ SetFloor(n) PROVE UncutIsWhole'
  BY <1>2 DEF SetLatest, SetFloor, UncutIsWhole, Undisturbed
<1>3. ASSUME NEW t \in Threads, Ask(t) \/ Answer(t) PROVE UncutIsWhole'
  BY <1>3 DEF Ask, Answer, UncutIsWhole, Undisturbed, TypeOK
<1>4. ASSUME NEW t \in Threads, Decide(t) PROVE UncutIsWhole'
  BY <1>4 DEF Decide, Rest, UncutIsWhole, Undisturbed, TypeOK
<1>5. ASSUME NEW t \in Threads, FetchFails(t) PROVE UncutIsWhole'
  BY <1>5 DEF FetchFails, Rest, UncutIsWhole, Undisturbed, TypeOK
<1>6. ASSUME NEW t \in Threads, MoveAway(t) PROVE UncutIsWhole'
  <2>1. CASE bin = NoFile
    BY <1>6, <2>1 DEF MoveAway, Rest, UncutIsWhole, Undisturbed, TypeOK
  <2>2. CASE bin # NoFile
    <3>1. ~cut /\ data[bin] # Partial BY <1>6, <2>2 DEF MoveAway
    <3>2. Replacing = {} BY <2>2, <3>1 DEF UncutIsWhole, Undisturbed
    <3>3. Replacing' = {t} BY <1>6, <2>2, <3>2 DEF MoveAway, TypeOK
    <3>4. Undisturbed(t, Names)'
      BY <1>6, <2>2, <3>1 DEF MoveAway, Undisturbed, TypeOK
    <3> QED BY <3>3, <3>4 DEF UncutIsWhole
  <2> QED BY <2>1, <2>2
<1>7. ASSUME NEW t \in Threads, Create(t) PROVE UncutIsWhole'
  <2>1. ~cut /\ Replacing = {t} BY <1>7 DEF Create, UncutIsWhole
  <2>2. Undisturbed(t, Names) /\ bin = NoFile
    BY <1>7, <2>1 DEF Create, UncutIsWhole, Undisturbed
  <2>3. Opened(t) \in Inodes /\ saved[t] # Opened(t)
    BY <1>7, <2>2, OpenedInode DEF Create
  <2>4. Undisturbed(t, Names)'
    BY <1>7, <2>2, <2>3 DEF Create, Undisturbed, TypeOK
  <2>5. Replacing' = {t} BY <1>7, <2>1 DEF Create, TypeOK
  <2> QED BY <2>4, <2>5 DEF UncutIsWhole
<1>8. ASSUME NEW t \in Threads, Fill(t) PROVE UncutIsWhole'
  <2>1. ~cut /\ Replacing = {t} BY <1>8 DEF Fill, UncutIsWhole
  <2>2. bin = own[t] /\ own[t] \in Inodes /\ want[t] \in Names
    BY <1>8, <2>1 DEF Fill, UncutIsWhole, Undisturbed, ThreadShape, Installing, TypeOK
  <2>3. Replacing' = {} BY <1>8, <2>1 DEF Fill, TypeOK
  <2>4. Whole' BY <1>8, <2>2 DEF Fill, TypeOK, Inodes
  <2> QED BY <2>3, <2>4 DEF UncutIsWhole
<1>9. ASSUME NEW t \in Threads, CopyFails(t) PROVE UncutIsWhole'
  <2>1. ~cut /\ Replacing = {t} BY <1>9 DEF CopyFails, UncutIsWhole
  <2>2. Undisturbed(t, Names) BY <2>1 DEF UncutIsWhole
  <2>3. ~Whole BY <1>9, <2>2 DEF CopyFails, Undisturbed
  <2>4. Undisturbed(t, Names)' BY <1>9, <2>2, <2>3 DEF CopyFails, Undisturbed, TypeOK
  <2>5. Replacing' = {t} BY <1>9, <2>1 DEF CopyFails, TypeOK
  <2> QED BY <2>4, <2>5 DEF UncutIsWhole
<1>10. ASSUME NEW t \in Threads, Restore(t) PROVE UncutIsWhole'
  <2>1. ~cut /\ Replacing = {t} BY <1>10 DEF Restore, UncutIsWhole
  <2>2. saved[t] \in Inodes /\ data[saved[t]] \in Names
    BY <2>1 DEF UncutIsWhole, Undisturbed
  <2>3. Replacing' = {} BY <1>10, <2>1 DEF Restore, Rest, TypeOK
  <2>4. Whole' BY <1>10, <2>2 DEF Restore, Inodes
  <2> QED BY <2>3, <2>4 DEF UncutIsWhole
<1>11. ASSUME NEW t \in Threads, Truncate(t) PROVE UncutIsWhole'
  BY <1>11 DEF Truncate, UncutIsWhole, Undisturbed, TypeOK
<1>12. ASSUME NEW t \in Threads, Mark(t) PROVE UncutIsWhole'
  BY <1>12 DEF Mark, UncutIsWhole, Undisturbed, TypeOK
<1>13. ASSUME End PROVE UncutIsWhole'
  BY <1>13 DEF End, UncutIsWhole
<1>14. CASE Start
  <2>1. Replacing' = {} BY <1>14 DEF Start
  <2>2. Whole' BY <1>14 DEF Start, Inodes
  <2> QED BY <2>1, <2>2 DEF UncutIsWhole
<1> QED
  BY <1>1, <1>2, <1>3, <1>4, <1>5, <1>6, <1>7, <1>8, <1>9, <1>10, <1>11, <1>12,
     <1>13, <1>14, FloorsAreSettings
  DEF Next, Step, Exit, Kill

-----------------------------------------------------------------------------
\* The marker, for threads that do not cross.
Agrees == UncrossedAgrees /\ MarkerIsInstalled

LEMMA UncrossedStep ==
  TypeOK /\ ThreadShape /\ Agrees /\ [Next]_vars => Agrees'
<1> SUFFICES ASSUME TypeOK, ThreadShape, Agrees, [Next]_vars, ~crossed'
             PROVE  Agrees'
  BY DEF Agrees, UncrossedAgrees, MarkerIsInstalled
<1> USE SpecialAssumption
    DEF settingVars, fileVars, answerVars, historyVars, Become, Replacing, Changing, Whole,
        Agrees
<1>1. CASE UNCHANGED vars
  BY <1>1 DEF vars, UncrossedAgrees, MarkerIsInstalled, Undisturbed
<1>2. ASSUME NEW n \in Setting, SetLatest(n) \/ SetFloor(n) PROVE Agrees'
  BY <1>2 DEF SetLatest, SetFloor, UncrossedAgrees, MarkerIsInstalled, Undisturbed
<1>3. ASSUME NEW t \in Threads, Ask(t) \/ Answer(t) PROVE Agrees'
  BY <1>3 DEF Ask, Answer, UncrossedAgrees, MarkerIsInstalled, Undisturbed, TypeOK
<1>4. ASSUME NEW t \in Threads, Decide(t) PROVE Agrees'
  BY <1>4 DEF Decide, Rest, UncrossedAgrees, MarkerIsInstalled, Undisturbed, TypeOK
<1>5. ASSUME NEW t \in Threads, FetchFails(t) PROVE Agrees'
  BY <1>5 DEF FetchFails, Rest, UncrossedAgrees, MarkerIsInstalled, Undisturbed, TypeOK
<1>6. ASSUME NEW t \in Threads, MoveAway(t) PROVE Agrees'
  <2>1. CASE bin = NoFile
    BY <1>6, <2>1 DEF MoveAway, Rest, UncrossedAgrees, MarkerIsInstalled, Undisturbed, TypeOK
  <2>2. CASE bin # NoFile
    <3>1. ~crossed /\ Changing = {} /\ alive BY <1>6, <2>2 DEF MoveAway, ThreadShape
    <3>2. data[bin] \in {self, Partial} BY <2>2, <3>1 DEF UncrossedAgrees
    <3>3. Changing' = {t} /\ Replacing' = {t} BY <1>6, <2>2, <3>1 DEF MoveAway, TypeOK
    <3>4. Undisturbed(t, {self, Partial})' BY <1>6, <2>2, <3>2 DEF MoveAway, Undisturbed, TypeOK
    <3>5. marker \in {Unset, self} BY <3>1 DEF MarkerIsInstalled
    <3>6. UncrossedAgrees'
      BY <1>6, <3>1, <3>3, <3>4 DEF MoveAway, UncrossedAgrees
    <3>7. MarkerIsInstalled' BY <1>6, <3>5 DEF MoveAway, MarkerIsInstalled
    <3> QED BY <3>6, <3>7
  <2> QED BY <2>1, <2>2
<1>7. ASSUME NEW t \in Threads, Create(t) PROVE Agrees'
  <2>1. ~crossed /\ Changing = {t} /\ alive BY <1>7 DEF Create, UncrossedAgrees, ThreadShape
  <2>2. Undisturbed(t, {self, Partial}) /\ bin = NoFile
    BY <1>7, <2>1 DEF Create, UncrossedAgrees, Undisturbed
  <2>3. Opened(t) \in Inodes /\ saved[t] # Opened(t)
    BY <1>7, <2>2, OpenedInode DEF Create
  <2>4. Undisturbed(t, {self, Partial})'
    BY <1>7, <2>2, <2>3 DEF Create, Undisturbed, TypeOK
  <2>5. Changing' = {t} /\ Replacing' = {t} BY <1>7, <2>1 DEF Create, TypeOK
  <2>6. UncrossedAgrees' BY <1>7, <2>1, <2>4, <2>5 DEF Create, UncrossedAgrees
  <2>7. MarkerIsInstalled'
    BY <1>7, <2>1 DEF Create, MarkerIsInstalled, TypeOK
  <2> QED BY <2>6, <2>7
<1>8. ASSUME NEW t \in Threads, Fill(t) PROVE Agrees'
  <2>1. ~crossed /\ Changing = {t} /\ alive BY <1>8 DEF Fill, UncrossedAgrees, ThreadShape
  <2>2. bin = own[t] /\ own[t] \in Inodes
    BY <1>8, <2>1 DEF Fill, UncrossedAgrees, Undisturbed, ThreadShape, TypeOK
  <2>3. Changing' = {t} /\ Replacing' = {} BY <1>8, <2>1 DEF Fill, TypeOK
  <2>4. bin' # NoFile /\ data'[bin'] = want'[t]
    BY <1>8, <2>2 DEF Fill, TypeOK, Inodes
  <2>5. UncrossedAgrees' BY <1>8, <2>1, <2>3, <2>4 DEF Fill, UncrossedAgrees, TypeOK
  <2>6. MarkerIsInstalled' BY <1>8, <2>1 DEF Fill, MarkerIsInstalled, TypeOK
  <2> QED BY <2>5, <2>6
<1>9. ASSUME NEW t \in Threads, CopyFails(t) PROVE Agrees'
  <2>1. ~crossed /\ Changing = {t} /\ Replacing = {t} /\ alive
    BY <1>9 DEF CopyFails, UncrossedAgrees, ThreadShape
  <2>2. Undisturbed(t, {self, Partial}) BY <2>1 DEF UncrossedAgrees
  <2>3. ~Whole BY <1>9, <2>2 DEF CopyFails, Undisturbed
  <2>4. Undisturbed(t, {self, Partial})'
    BY <1>9, <2>2, <2>3 DEF CopyFails, Undisturbed, TypeOK
  <2>5. Changing' = {t} /\ Replacing' = {t} BY <1>9, <2>1 DEF CopyFails, TypeOK
  <2>6. UncrossedAgrees' BY <1>9, <2>1, <2>4, <2>5 DEF CopyFails, UncrossedAgrees
  <2>7. MarkerIsInstalled' BY <1>9, <2>1 DEF CopyFails, MarkerIsInstalled, TypeOK
  <2> QED BY <2>6, <2>7
<1>10. ASSUME NEW t \in Threads, Restore(t) PROVE Agrees'
  <2>1. ~crossed /\ Changing = {t} /\ Replacing = {t} /\ alive
    BY <1>10 DEF Restore, UncrossedAgrees, ThreadShape
  <2>2. saved[t] \in Inodes /\ data[saved[t]] \in {self, Partial} /\ ~Whole
    BY <1>10, <2>1 DEF Restore, UncrossedAgrees, Undisturbed
  <2>3. Changing' = {} BY <1>10, <2>1 DEF Restore, Rest, TypeOK
  <2>4. Whole' => data'[bin'] = self
    BY <1>10, <2>2 DEF Restore, Inodes
  <2>5. UncrossedAgrees'
    BY <1>10, <2>1, <2>3, <2>4 DEF Restore, UncrossedAgrees
  <2>6. MarkerIsInstalled'
    BY <1>10, <2>1 DEF Restore, Rest, MarkerIsInstalled, TypeOK
  <2> QED BY <2>5, <2>6
<1>11. ASSUME NEW t \in Threads, Truncate(t) PROVE Agrees'
  <2>1. ~crossed /\ Changing = {t} /\ alive /\ marker' = Unset
    BY <1>11 DEF Truncate, UncrossedAgrees, ThreadShape
  <2>2. bin # NoFile /\ data[bin] = want[t] BY <1>11, <2>1 DEF Truncate, UncrossedAgrees
  <2>3. Changing' = {t} /\ Replacing' = {} BY <1>11, <2>1 DEF Truncate, TypeOK
  <2>4. UncrossedAgrees'
    BY <1>11, <2>1, <2>2, <2>3 DEF Truncate, UncrossedAgrees
  <2> QED BY <2>1, <2>4 DEF MarkerIsInstalled
<1>12. ASSUME NEW t \in Threads, Mark(t) PROVE Agrees'
  <2>1. ~crossed /\ Changing = {t} /\ alive /\ marker = Unset
    BY <1>12 DEF Mark, UncrossedAgrees, ThreadShape
  <2>2. bin # NoFile /\ data[bin] = want[t] BY <1>12, <2>1 DEF Mark, UncrossedAgrees
  <2>3. Changing' = {t} /\ Replacing' = {} BY <1>12, <2>1 DEF Mark, TypeOK
  <2>4. phase'[t] = "marked" /\ marker' \in {Unset, want[t]} BY <1>12, <2>1 DEF Mark, TypeOK
  <2>5. UncrossedAgrees'
    BY <1>12, <2>1, <2>2, <2>3, <2>4 DEF Mark, UncrossedAgrees
  <2> QED BY <2>4, <2>5 DEF MarkerIsInstalled
<1>13. ASSUME End, alive PROVE Agrees'
  <2>1. ~crossed /\ Changing' = {} /\ ~alive' BY <1>13 DEF End
  <2>2. ASSUME Whole' PROVE marker' \in {Unset, data'[bin']}
    <3>1. Replacing = {} BY <1>13, <2>1, <2>2 DEF End, UncrossedAgrees, Undisturbed
    <3>2. CASE \E t \in Threads : phase[t] = "marked"
      BY <1>13, <2>1, <3>1, <3>2 DEF End, UncrossedAgrees
    <3>3. CASE \E t \in Threads : phase[t] = "marking"
      BY <1>13, <2>1, <3>3 DEF End, UncrossedAgrees
    <3>4. CASE \A t \in Threads : phase[t] \notin {"marked", "marking"}
      <4>1. Changing = {} BY <1>13, <2>1, <3>1, <3>4 DEF End
      <4>2. data[bin] = self BY <1>13, <2>1, <2>2, <4>1 DEF End, UncrossedAgrees
      <4>3. marker \in {Unset, self} BY <1>13, <2>1, <3>4 DEF End, MarkerIsInstalled
      <4> QED BY <1>13, <4>2, <4>3 DEF End
    <3> QED BY <3>2, <3>3, <3>4
  <2>3. UncrossedAgrees' BY <1>13, <2>1, <2>2 DEF End, UncrossedAgrees
  <2> QED BY <2>1, <2>3 DEF MarkerIsInstalled
<1>14. CASE Start
  <2>1. ~crossed /\ Changing' = {} /\ alive' BY <1>14 DEF Start
  <2>2. bin' # NoFile /\ data'[bin'] = self' BY <1>14 DEF Start, Inodes
  <2>3. marker' \in {Unset, self'} BY <1>14, <2>1 DEF Start, UncrossedAgrees
  <2>4. UncrossedAgrees' BY <1>14, <2>1, <2>2 DEF Start, UncrossedAgrees
  <2> QED BY <2>3, <2>4 DEF MarkerIsInstalled
<1>15. ASSUME NEW t \in Threads, Exit(t) PROVE Agrees'
  BY <1>13, <1>15 DEF Exit, ThreadShape
<1> QED
  BY <1>1, <1>2, <1>3, <1>4, <1>5, <1>6, <1>7, <1>8, <1>9, <1>10, <1>11, <1>12,
     <1>13, <1>14, <1>15, FloorsAreSettings
  DEF Next, Step, Kill

-----------------------------------------------------------------------------
\* A marker that is written bars the other thread's version only once its writer
\* is about to exit.
LEMMA NewsStep == TypeOK /\ ThreadShape /\ NewsToMarker /\ [Next]_vars => NewsToMarker'
<1> SUFFICES ASSUME TypeOK, ThreadShape, NewsToMarker, [Next]_vars PROVE NewsToMarker' OBVIOUS
<1> USE DEF settingVars, fileVars, answerVars, historyVars, Become, NewsToMarker, Marked,
            Installing
<1>1. CASE UNCHANGED <<marker, phase, want>> BY <1>1
<1>2. ASSUME NEW t \in Threads, Ask(t) \/ Answer(t) PROVE NewsToMarker'
  BY <1>2 DEF Ask, Answer, TypeOK
<1>3. ASSUME NEW t \in Threads, Rest(t), UNCHANGED marker, phase[t] # "marked"
      PROVE  NewsToMarker'
  BY <1>3 DEF Rest, TypeOK
<1>4. ASSUME NEW t \in Threads, Decide(t) PROVE NewsToMarker'
  BY <1>3, <1>4 DEF Decide, ShouldSelfUpdate, TypeOK
<1>5. ASSUME NEW t \in Threads, FetchFails(t) \/ Restore(t) PROVE NewsToMarker'
  BY <1>3, <1>5 DEF FetchFails, Restore
<1>6. ASSUME NEW t \in Threads, MoveAway(t) \/ Create(t) \/ Fill(t) \/ CopyFails(t)
      PROVE  NewsToMarker'
  BY <1>3, <1>6 DEF MoveAway, Create, Fill, CopyFails, TypeOK
<1>7. ASSUME NEW t \in Threads, Mark(t) PROVE NewsToMarker'
  BY <1>7 DEF Mark, TypeOK
<1>8. ASSUME NEW t \in Threads, Truncate(t) PROVE NewsToMarker'
  BY <1>8, SpecialAssumption DEF Truncate, TypeOK, ThreadShape
<1>9. ASSUME End PROVE NewsToMarker' BY <1>9 DEF End
<1>10. CASE Start BY <1>10 DEF Start
<1> QED
  BY <1>1, <1>2, <1>4, <1>5, <1>6, <1>7, <1>8, <1>9, <1>10
  DEF Next, Step, vars, SetLatest, SetFloor, Exit, Kill

\* The balance of exits: only a change makes answers stale, and without stale
\* answers the marker ends as the latest version.
LEMMA PaidStep ==
  TypeOK /\ ThreadShape /\ NewsToMarker /\ ExitsArePaid /\ [Next]_vars => ExitsArePaid'
<1> SUFFICES ASSUME TypeOK, ThreadShape, NewsToMarker, ExitsArePaid, [Next]_vars
             PROVE  ExitsArePaid'
  OBVIOUS
<1> USE BoundsAssumption DEF settingVars, fileVars, answerVars, historyVars, Fault, Loss, Become
<1>0. exits \in Nat /\ changes \in Nat /\ faults \in Nat /\ lost \in Nat BY DEF TypeOK
<1>1. Paid \in Nat /\ (ExitsTwice => ExitsOnce) BY <1>0 DEF Paid, ExitsOnce, ExitsTwice
\* Three ways in which a step keeps the balance.
<1>2. ASSUME UNCHANGED <<exits, changes, faults, lost>>, ExitsOnce' => ExitsOnce,
             ExitsTwice' => ExitsTwice
      PROVE  ExitsArePaid'
  BY <1>0, <1>2 DEF ExitsArePaid, Paid
<1>3. ASSUME UNCHANGED <<exits, faults, lost>>, changes' = changes + 1 PROVE ExitsArePaid'
  BY <1>0, <1>3 DEF ExitsArePaid, Paid
<1>4. ASSUME UNCHANGED <<exits, changes>>, ExitsTwice' => ExitsOnce,
             \/ faults' = faults + 1 /\ UNCHANGED lost
             \/ lost' = lost + 1 /\ UNCHANGED faults
      PROVE  ExitsArePaid'
  <2>1. Paid' = Paid + 1 /\ exits' = exits BY <1>0, <1>4 DEF Paid
  <2> HIDE DEF ExitsOnce, ExitsTwice
  <2> QED BY <1>0, <1>1, <1>4, <2>1 DEF ExitsArePaid
<1> USE DEF ExitsOnce, ExitsTwice, Marked, Wanted, Emptied, Stale, Installing
<1>5. CASE UNCHANGED vars BY <1>2, <1>5 DEF vars
<1>6. ASSUME NEW n \in Setting, SetLatest(n) PROVE ExitsArePaid'
  BY <1>3, <1>6 DEF SetLatest
<1>7. ASSUME NEW n, SetFloor(n) PROVE ExitsArePaid'
  <2>1. UNCHANGED <<exits, changes, faults, lost, latest, marker, phase, want>>
    BY <1>7 DEF SetFloor
  <2> QED BY <1>2, <2>1
\* A thread that goes back to rest exits no more.
<1>8. ASSUME NEW t \in Threads, Rest(t), phase[t] \notin {"marked", "marking"},
             UNCHANGED <<latest, marker>>
      PROVE  (ExitsOnce' => ExitsOnce) /\ (ExitsTwice' => ExitsTwice)
  BY <1>8 DEF Rest, TypeOK
\* Nor does one that goes on before it comes to the marker.
<1>9. ASSUME UNCHANGED <<exits, changes, faults, lost, latest, marker>>,
             \A u \in Threads : /\ phase'[u] = "marked" <=> phase[u] = "marked"
                                /\ phase'[u] = "marking" <=> phase[u] = "marking"
                                /\ Stale(u)' => Stale(u)
      PROVE  ExitsArePaid'
  BY <1>2, <1>9
<1>10. ASSUME NEW t \in Threads, Ask(t) \/ Answer(t) PROVE ExitsArePaid'
  <2>1. UNCHANGED <<exits, changes, faults, lost, latest, marker>> BY <1>10 DEF Ask, Answer
  <2>2. \A u \in Threads : /\ phase'[u] = "marked" <=> phase[u] = "marked"
                           /\ phase'[u] = "marking" <=> phase[u] = "marking"
                           /\ Stale(u)' => Stale(u)
    BY <1>10 DEF Ask, Answer, TypeOK
  <2> QED BY <1>9, <2>1, <2>2
<1>11. ASSUME NEW t \in Threads,
              Decide(t) \/ MoveAway(t) \/ Create(t) \/ Fill(t)
       PROVE  ExitsArePaid'
  <2>1. /\ UNCHANGED <<exits, changes, faults, lost, latest, marker>>
        /\ phase[t] \notin {"marked", "marking"}
    BY <1>11 DEF Decide, MoveAway, Create, Fill
  <2>2. CASE Rest(t) BY <1>2, <1>8, <2>1, <2>2
  <2>3. CASE ~Rest(t)
    <3>1. \A u \in Threads : /\ phase'[u] = "marked" <=> phase[u] = "marked"
                             /\ phase'[u] = "marking" <=> phase[u] = "marking"
                             /\ Stale(u)' => Stale(u)
      BY <1>11, <2>1, <2>3 DEF Decide, MoveAway, Create, Fill, TypeOK
    <3> QED BY <1>9, <2>1, <3>1
  <2> QED BY <2>2, <2>3
<1>12. ASSUME NEW t \in Threads, FetchFails(t) \/ Restore(t) PROVE ExitsArePaid'
  <2>1. /\ UNCHANGED <<exits, changes, lost, latest, marker>> /\ Rest(t)
        /\ phase[t] \notin {"marked", "marking"}
        /\ (UNCHANGED faults \/ faults' = faults + 1)
    BY <1>12 DEF FetchFails, Restore
  <2> QED BY <1>1, <1>2, <1>4, <1>8, <2>1
<1>13. ASSUME NEW t \in Threads, CopyFails(t) PROVE ExitsArePaid'
  <2>1. /\ UNCHANGED <<exits, changes, lost, latest, marker>>
        /\ (UNCHANGED faults \/ faults' = faults + 1)
    BY <1>13 DEF CopyFails
  <2>2. \A u \in Threads : /\ phase'[u] = "marked" <=> phase[u] = "marked"
                           /\ phase'[u] = "marking" <=> phase[u] = "marking"
                           /\ Stale(u)' => Stale(u)
    BY <1>13, <2>1 DEF CopyFails, TypeOK
  <2> QED BY <1>1, <1>2, <1>4, <2>1, <2>2
\* A thread that comes to write the marker would exit at least once more.
<1>14. ASSUME NEW t \in Threads, phase[t] \in {"filled", "marking"} PROVE ExitsOnce
  <2>0. want[t] \in Names BY <1>14 DEF ThreadShape
  <2>1. CASE want[t] # latest
    <3>1. Stale(t) BY <1>14, <2>0, <2>1, SpecialAssumption
    <3> QED BY <3>1
  <2>2. CASE want[t] = latest /\ marker # latest BY <2>0, <2>2, SpecialAssumption
  <2>3. CASE want[t] = latest /\ marker = latest
    <3>1. Marked BY <1>14, <2>3 DEF NewsToMarker
    <3> QED BY <3>1
  <2> QED BY <2>1, <2>2, <2>3
<1>15. ASSUME NEW t \in Threads, Truncate(t) PROVE ExitsArePaid'
  <2>1. ExitsOnce BY <1>14, <1>15 DEF Truncate
  <2>2. UNCHANGED <<exits, changes, lost, latest, want>> /\ phase[t] = "filled"
    BY <1>15 DEF Truncate
  <2>3. CASE marker' = Unset /\ Become(t, "marking") /\ UNCHANGED faults
    <3>1. phase'[t] = "marking" BY <2>3 DEF TypeOK
    <3>2. Emptied' BY <2>3, <3>1
    <3>3. \A u \in Threads : Stale(u)' => Stale(u) BY <2>2, <2>3 DEF TypeOK
    <3>4. ExitsTwice' => ExitsTwice BY <3>2, <3>3
    <3> QED BY <1>2, <2>1, <2>2, <2>3, <3>4
  <2>4. CASE faults' = faults + 1 BY <1>4, <2>1, <2>2, <2>4
  <2> QED BY <1>15, <2>3, <2>4 DEF Truncate
<1>16. ASSUME NEW t \in Threads, Mark(t) PROVE ExitsArePaid'
  <2>1. ExitsOnce BY <1>14, <1>16 DEF Mark
  <2>2. /\ UNCHANGED <<exits, changes, latest, want>> /\ phase[t] = "marking"
        /\ want[t] \in Names /\ phase' = [phase EXCEPT ![t] = "marked"]
    BY <1>16 DEF Mark, ThreadShape
  <2>3. CASE marker' = want[t] /\ UNCHANGED <<faults, lost>>
    <3>1. ASSUME ExitsTwice' PROVE ExitsTwice
      <4>1. CASE want[t] # latest
        <5>1. Stale(t) BY <2>2, <4>1, SpecialAssumption
        <5> QED BY <5>1
      <4>2. CASE want[t] = latest
        <5>1. PICK u \in Threads : Stale(u)' BY <2>2, <2>3, <3>1, <4>2
        <5>2. Stale(u) BY <2>2, <5>1 DEF TypeOK
        <5> QED BY <5>2
      <4> QED BY <4>1, <4>2
    <3> QED BY <1>2, <2>1, <2>2, <2>3, <3>1
  <2>4. CASE lost' = lost + 1 /\ UNCHANGED faults BY <1>4, <2>1, <2>2, <2>4
  <2>5. CASE faults' = faults + 1 /\ UNCHANGED lost BY <1>4, <2>1, <2>2, <2>5
  <2> QED BY <1>16, <2>3, <2>4, <2>5 DEF Mark
<1>17. ASSUME NEW t \in Threads, Exit(t) PROVE ExitsArePaid'
  <2>1. exits' = exits + 1 /\ UNCHANGED <<changes, faults, latest, marker>> /\ Marked
    BY <1>17 DEF Exit, End
  <2>2. ~ExitsTwice' /\ (ExitsOnce' => Wanted) /\ ExitsOnce
    BY <1>17, <2>1 DEF Exit, End
  <2>3. CASE Emptied
    <3>1. lost' = lost + 1 BY <1>17, <2>3 DEF Exit
    <3>2. Paid' = Paid + 1 BY <1>0, <2>1, <3>1 DEF Paid
    <3> HIDE DEF ExitsOnce, ExitsTwice
    <3> QED BY <1>0, <1>1, <2>1, <2>2, <3>2 DEF ExitsArePaid
  <2>4. CASE ~Emptied
    <3>1. lost' = lost BY <1>17, <2>4 DEF Exit
    <3>2. Paid' = Paid BY <1>0, <2>1, <3>1 DEF Paid
    <3>3. ExitsOnce' => ExitsTwice BY <2>1, <2>2, <2>4
    <3> HIDE DEF ExitsOnce, ExitsTwice
    <3> QED BY <1>0, <1>1, <2>1, <2>2, <3>2, <3>3 DEF ExitsArePaid
  <2> QED BY <2>3, <2>4
<1>18. CASE Kill
  <2>1. UNCHANGED <<exits, changes, lost>> /\ faults' = faults + 1 /\ ~ExitsTwice'
    BY <1>18 DEF Kill, End
  <2> QED BY <1>4, <2>1
<1>19. CASE Start
  <2>1. UNCHANGED <<exits, changes, faults, lost, latest, marker>> /\ ~ExitsTwice'
        /\ (ExitsOnce' => Wanted)
    BY <1>19 DEF Start
  <2> QED BY <1>2, <2>1
<1> QED
  BY <1>5, <1>6, <1>7, <1>10, <1>11, <1>12, <1>13, <1>15, <1>16, <1>17, <1>18, <1>19
  DEF Next, Step

-----------------------------------------------------------------------------
\* The inductive invariant: the threads have the right shape, and what each of
\* the two histories has not seen has not happened to the files, and the exits
\* are paid for.
THEOREM InvCorrect == Spec => []IInv
<1>1. Init => IInv BY InitIInv
<1>2. IInv /\ [Next]_vars => IInv'
  BY TypeStep, ShapeStep, UncutStep, UncrossedStep, NewsStep, PaidStep DEF IInv, Agrees
<1> QED BY <1>1, <1>2, PTL DEF Spec

\* Every variable keeps its type.
THEOREM TypeCorrect == Spec => []TypeOK
<1>1. IInv => TypeOK BY DEF IInv
<1> QED BY <1>1, InvCorrect, PTL

\* The agent is without a binary only if its process ended while it was replacing
\* it, or a backup was not put back, or an unfinished file became the backup.
THEOREM BrokenTakesCut == Spec => []BrokenOnlyIfCut
<1>1. IInv => BrokenOnlyIfCut
  BY DEF IInv, ThreadShape, UncutIsWhole, BrokenOnlyIfCut, Replacing
<1> QED BY <1>1, InvCorrect, PTL

\* The marker bars only what runs, unless the threads crossed.
THEOREM MarkerCorrect == Spec => []MarkerIsInstalled
<1>1. IInv => MarkerIsInstalled BY DEF IInv
<1> QED BY <1>1, InvCorrect, PTL

\* While the latest version stays the same the agent does not restart for ever: the
\* answers that are stale make it exit once, and the marker stops it after the
\* latest version, whatever version the binary turns out to be, unless a fault or
\* the other thread takes the marker away.
THEOREM RestartsCorrect == Spec => []RestartsAreBounded
<1>1. IInv => RestartsAreBounded BY DEF IInv, ExitsArePaid, Paid, RestartsAreBounded
<1> QED BY <1>1, InvCorrect, PTL
=============================================================================
