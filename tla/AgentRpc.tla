------------------------------ MODULE AgentRpc ------------------------------
(***************************************************************************)
(* What the agent channel promises a front end, without sessions, leases,  *)
(* routing or time: an accepted request waits, is handed to the guest at   *)
(* most once, is answered at most once, in order, and ends when its answer *)
(* is taken, when it is cancelled, or when the machine is reset.           *)
(***************************************************************************)
EXTENDS Integers, Sequences

VARIABLE phase   \* of each accepted request, in the order of acceptance

Waits(n) == phase[n] \in {"queued", "held"}

(* Nothing accepted before n still waits.                                  *)
Turn(n) == \A m \in 1..(n - 1) : ~Waits(m)

Init == phase = << >>

Accept == phase' = Append(phase, "queued")

Hand(n) ==
    /\ phase[n] = "queued" /\ Turn(n)
    /\ phase' = [phase EXCEPT ![n] = "held"]

Answer(n) ==
    /\ Waits(n) /\ Turn(n)
    /\ phase' = [phase EXCEPT ![n] = "answered"]

(* A poll that finds the served request overdue answers it and takes the   *)
(* next in one step.                                                       *)
AnswerAndHand(n, m) ==
    /\ Waits(n) /\ Turn(n)
    /\ n < m /\ phase[m] = "queued"
    /\ \A k \in (n + 1)..(m - 1) : ~Waits(k)
    /\ phase' = [phase EXCEPT ![n] = "answered", ![m] = "held"]

End(n) ==
    /\ phase[n] # "gone"
    /\ phase' = [phase EXCEPT ![n] = "gone"]

EndAll == phase' = [n \in DOMAIN phase |-> "gone"]

Next ==
    \/ Accept
    \/ EndAll
    \/ \E n \in DOMAIN phase :
          \/ Hand(n) \/ Answer(n) \/ End(n)
          \/ \E m \in DOMAIN phase : AnswerAndHand(n, m)

Spec == Init /\ [][Next]_phase
=============================================================================
