---------------------------- MODULE MCAgentSystem ----------------------------
(* AgentSystem for TLC. *)
EXTENDS AgentSystem, TLC

MCChunks == [sub: 1..MaxSubs, index: 1..RESPONSE_MAX]
DaemonSymmetry == Permutations(Daemons)
=============================================================================
