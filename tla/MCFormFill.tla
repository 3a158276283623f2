------------------------------ MODULE MCFormFill ------------------------------
(* A page whose dates hang together and whose return time follows the pickup *)
(* time and the other way round.                                             *)
EXTENDS FormFill

MCCoupled ==
    [f \in Fields |->
        CASE f \in Dates -> Dates \ {f}
          [] f \in Times -> Times \ {f}
          [] OTHER -> {}]
=============================================================================
