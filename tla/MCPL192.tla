------------------------------ MODULE MCPL192 ------------------------------
(* PL192 for TLC. *)
EXTENDS PL192, TLC

MCSources == 0 :> {0} @@ 1 :> {0, 1}
=============================================================================
