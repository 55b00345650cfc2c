------------------------- MODULE MCCommandDelivery -------------------------
(* Two commands of different kinds, two overlapping pulls, one fault.       *)
EXTENDS CommandDelivery, TLC

MCKind == 1 :> "restart_service" @@ 2 :> "force_update"

=============================================================================
