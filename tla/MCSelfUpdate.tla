---------------------------- MODULE MCSelfUpdate ----------------------------
(* Three texts of two versions: n2 is n1 with a trailing zero, n3 is newer.   *)
(* With n3 as the minimum, n1 and n2 can take turns.                          *)
EXTENDS SelfUpdate, TLC

CONSTANTS n1, n2, n3

\* The loop returns the order, for versions of up to three numbers.
Short == UNION {[1..n -> 0..2] : n \in 0..3}

ASSUME ScanComputesCompare == \A a, b \in Short : Scan(a, b) = Compare(a, b)

MCParse == n1 :> <<0, 2>> @@ n2 :> <<0, 2, 0>> @@ n3 :> <<0, 10>>
=============================================================================
