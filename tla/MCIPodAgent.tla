----------------------------- MODULE MCIPodAgent -----------------------------
(* IPodAgent for TLC: any guest, a bounded number of requests, sessions    *)
(* and routings.                                                           *)
EXTENDS IPodAgent

CONSTANTS MaxSubs, MaxHellos, MaxCookies

Bounded == subs <= MaxSubs /\ hellos <= MaxHellos /\ cookies <= MaxCookies

MCSpec == Init /\ [][Next /\ Bounded']_agentVars
=============================================================================
