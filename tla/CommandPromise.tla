--------------------------- MODULE CommandPromise ---------------------------
(***************************************************************************)
(* What the command queue promises, seen from one customer: a command is   *)
(* issued once, lent to the agent only while it is open, run only while it *)
(* is lent and at most Budget times, and closed once for all.  The queue   *)
(* lends a set of commands at a time; a loan may lapse without being used. *)
(***************************************************************************)
EXTENDS Naturals

CONSTANTS
    Ids,
    Budget    \* runs of one command, a number

VARIABLES
    issued,   \* commands issued so far
    closed,   \* commands that are over
    lent,     \* commands the agent may run
    uses      \* uses[i]: how often command i was run

promiseVars == <<issued, closed, lent, uses>>

Init ==
    /\ issued = {}
    /\ closed = {}
    /\ lent = {}
    /\ uses = [i \in Ids |-> 0]

Issue(i) ==
    /\ i \in Ids \ issued
    /\ issued' = issued \cup {i}
    /\ UNCHANGED <<closed, lent, uses>>

Lend ==
    /\ lent = {}
    /\ lent' = issued \ closed
    /\ UNCHANGED <<issued, closed, uses>>

Lapse ==
    /\ lent' = {}
    /\ UNCHANGED <<issued, closed, uses>>

\* Running a command ends its loan; a run that takes the agent down ends all.
Use(i) ==
    /\ i \in lent
    /\ uses[i] < Budget
    /\ uses' = [uses EXCEPT ![i] = @ + 1]
    /\ lent' \in {lent \ {i}, {}}
    /\ UNCHANGED <<issued, closed>>

Close ==
    /\ closed' \in SUBSET issued
    /\ closed \subseteq closed'
    /\ UNCHANGED <<issued, lent, uses>>

Next ==
    \/ Lend \/ Lapse \/ Close
    \/ \E i \in Ids : Issue(i) \/ Use(i)

Spec == Init /\ [][Next]_promiseVars
=============================================================================
