---------------------------- MODULE VersionOrder ----------------------------
(***************************************************************************)
(* The order of versions of the package version: a version is the sequence *)
(* of its numbers, the empty one if the text has none; a number that is    *)
(* not there counts as 0; the first difference decides.                    *)
(***************************************************************************)
EXTENDS Integers, Sequences

Versions == Seq(Nat)

Number(v, i) == IF i \in DOMAIN v THEN v[i] ELSE 0

Agree(a, b, n) == \A i \in 1..n : Number(a, i) = Number(b, i)

LessAt(a, b, n) == \E i \in 1..n : Agree(a, b, i - 1) /\ Number(a, i) < Number(b, i)

Span(a, b) == IF Len(a) >= Len(b) THEN Len(a) ELSE Len(b)

LessThan(a, b) == LessAt(a, b, Span(a, b))

Compare(a, b) == IF LessThan(a, b) THEN -1 ELSE IF LessThan(b, a) THEN 1 ELSE 0

\* The loop by which the code computes Compare.
Scan(a, b) ==
    LET from[i \in 1..Span(a, b) + 1] ==
            IF i > Span(a, b) THEN 0
            ELSE IF Number(a, i) < Number(b, i) THEN -1
            ELSE IF Number(a, i) > Number(b, i) THEN 1
            ELSE from[i + 1]
    IN  from[1]
=============================================================================
