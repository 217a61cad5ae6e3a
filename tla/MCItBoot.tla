------------------------------ MODULE MCItBoot ------------------------------
(* ItBoot for TLC. *)
EXTENDS ItBoot, TLC

MCHooks == 1 :> {} @@ 2 :> {"gl", "fw"} @@ 3 :> {"fw"}
O(serial, good, bad, build) == [serial |-> serial, good |-> good, bad |-> bad, build |-> build]
MCOffers ==
    {O(2, {}, <<>>, TRUE), O(3, {}, <<>>, FALSE), O(0, {}, <<>>, TRUE),
     O(2, {2}, <<>>, TRUE), O(3, {}, <<2>>, TRUE), O(2, {}, <<3>>, TRUE), O(1, {}, <<1>>, TRUE),
     O(NoSerial, {}, <<>>, TRUE)}
=============================================================================
