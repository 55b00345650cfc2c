------------------------------ MODULE MCAlerter ------------------------------
(* One customer with two failure events of different types.                 *)
EXTENDS Alerter, TLC

CONSTANTS c1, e1, e2, g1, g2

MCGroup == e1 :> g1 @@ e2 :> g2
MCOwner == g1 :> c1 @@ g2 :> c1
=============================================================================
