---------------------------- MODULE PL192Proofs ----------------------------
(***************************************************************************)
(* Theorems about PL192, for any sources, number of levels, nesting depth  *)
(* and environment.                                                        *)
(***************************************************************************)
EXTENDS PL192, FiniteSetTheorems, TLAPS

(* What a sequence is.                                                     *)
LEMMA SeqIs ==
    ASSUME NEW S, NEW s \in Seq(S)
    PROVE  /\ Len(s) \in Nat /\ DOMAIN s = 1..Len(s) /\ s \in [1..Len(s) -> S]
           /\ \A i \in 1..Len(s) : s[i] \in S
OBVIOUS

(* The empty sequence is one of any elements.                              *)
LEMMA EmptyIs ==
    ASSUME NEW S
    PROVE  /\ << >> \in Seq(S) /\ Len(<< >>) = 0
           /\ \A s \in Seq(S) : s # << >> => Len(s) \in Nat \ {0}
OBVIOUS

(* One more element at the end.                                            *)
LEMMA AppendIs ==
    ASSUME NEW S, NEW s \in Seq(S), NEW x \in S
    PROVE  /\ Append(s, x) \in Seq(S) /\ Append(s, x) # << >> /\ Len(Append(s, x)) = Len(s) + 1
           /\ Append(s, x)[Len(s) + 1] = x
           /\ \A i \in 1..Len(s) : Append(s, x)[i] = s[i]
OBVIOUS

(* A part of a sequence.                                                   *)
LEMMA SubSeqIs ==
    ASSUME NEW S, NEW s \in Seq(S), NEW m \in Nat \ {0}, NEW n \in 0..Len(s)
    PROVE  /\ SubSeq(s, m, n) \in Seq(S)
           /\ Len(SubSeq(s, m, n)) = IF m <= n THEN n - m + 1 ELSE 0
           /\ \A i \in 1..(n - m + 1) : SubSeq(s, m, n)[i] = s[m + i - 1]
OBVIOUS

(* A sequence of elements of S is one of any larger set.                   *)
LEMMA SeqWiden ==
    ASSUME NEW S, NEW T, S \subseteq T, NEW s \in Seq(S)
    PROVE  s \in Seq(T)
OBVIOUS

(* A nonempty stack without its top frame.                                 *)
LEMMA FrontIs ==
    ASSUME NEW F, NEW q \in Seq(F), q # <<>>
    PROVE  /\ Len(q) \in Nat \ {0} /\ Front(q) \in Seq(F) /\ Len(Front(q)) = Len(q) - 1
           /\ \A k \in 1..(Len(q) - 1) : Front(q)[k] = q[k]
           /\ (Front(q) = <<>> <=> Len(q) = 1)
<1> DEFINE m == Len(q) - 1
<1>1. Len(q) \in Nat \ {0} /\ m \in Nat /\ \A k \in 1..m : q[k] \in F
  <2>1. Len(q) \in Nat /\ Len(q) # 0 /\ \A k \in 1..Len(q) : q[k] \in F
    OBVIOUS
  <2>2. QED
    BY <2>1
<1>2. m <= Len(q)
  BY <1>1
<1> HIDE DEF m
<1>3. /\ SubSeq(q, 1, m) \in Seq(F) /\ Len(SubSeq(q, 1, m)) = IF 1 <= m THEN m - 1 + 1 ELSE 0
      /\ \A k \in 1..(m - 1 + 1) : SubSeq(q, 1, m)[k] = q[1 + k - 1]
  BY <1>1, <1>2, SubSeqIs
<1>4. Len(SubSeq(q, 1, m)) = m /\ \A k \in 1..m : SubSeq(q, 1, m)[k] = q[k]
  BY <1>1, <1>3
<1>5. Front(q) = SubSeq(q, 1, m)
  BY Zenon DEF Front, m
<1> DEFINE r == SubSeq(q, 1, m)
<1> HIDE DEF r
<1>6. r \in Seq(F) /\ Len(r) = m /\ \A k \in 1..m : r[k] = q[k]
  BY <1>3, <1>4 DEF r
<1>7. r = <<>> <=> m = 0
  BY <1>6
<1>8. Front(q) = r
  BY <1>5 DEF r
<1>9. Front(q) \in Seq(F) /\ Len(Front(q)) = m /\ \A k \in 1..m : Front(q)[k] = q[k]
  BY <1>6, <1>8
<1>10. Front(q) = <<>> <=> m = 0
  BY <1>7, <1>8
<1>11. QED
  BY <1>1, <1>9, <1>10 DEF m

(* What pl192_update leaves alone: the stacks and what they restore.       *)
Served(c) == <<c.stack, c.priority, c.current>>
Shape(c) == "stack" \in DOMAIN c /\ "priority" \in DOMAIN c /\ "current" \in DOMAIN c
Shaped(s) == /\ "vic" \in DOMAIN s /\ 0 \in DOMAIN s.vic /\ 1 \in DOMAIN s.vic
             /\ Shape(s.vic[0]) /\ Shape(s.vic[1])
Keeps(s, t) == /\ Shaped(t)
               /\ Served(t.vic[0]) = Served(s.vic[0]) /\ Served(t.vic[1]) = Served(s.vic[1])

(* An empty stack masks nothing, and no stack outgrows the code's arrays.  *)
IsStack(q) == \E R : q \in Seq(R)
Sound(c) ==
    /\ Shape(c) /\ IsStack(c.stack) /\ Len(c.stack) <= LEVELS
    /\ c.stack = <<>> => c.priority = LEVELS /\ c.current = NO_IRQ
Unwinding(s, d) == Shaped(s) /\ Sound(s.vic[0]) /\ Sound(s.vic[1]) /\ Len(s.vic[0].stack) <= d
Unwindable == depth \in Nat /\ Unwinding(chain, depth)

(* However deep the guest nests, past the ends of the stacks too, and      *)
(* whatever it programs, resets or restores in between: when it has        *)
(* finished all it acknowledged, vic0 masks nothing (pl192_mask_priority,  *)
(* pl192_unmask_priority).                                                 *)
THEOREM AlwaysUnwinds == Spec => []Unwinds
(* Choosing the highest source changes neither.                            *)
<1>SelectKeeps.
    ASSUME NEW c, Shape(c)
    PROVE  Shape(Select(c)) /\ Served(Select(c)) = Served(c)
  <2> USE <1>SelectKeeps
  <2> DEFINE h == pl192_priority_sorter(c)
             a == IF h \in IrqStatus(c) THEN c.vect_addr[h] ELSE c.daisy_vectaddr
  <2> HIDE DEF h, a
  <2>1. \/ Select(c) = [c EXCEPT !.current_highest = NO_IRQ]
        \/ Select(c) = [c EXCEPT !.current_highest = h, !.address = a]
    BY DEF Select, h, a
  <2>2. QED
    BY <2>1, Zenon DEF Shape, Served

(* Neither does an update of vic0 ...                                      *)
<1>Update0Keeps. ASSUME NEW s, Shaped(s) PROVE Keeps(s, Update0(s))
  <2> USE <1>Update0Keeps
  <2> DEFINE c == Select(s.vic[0])
  <2>1. Shape(c) /\ Served(c) = Served(s.vic[0])
    BY <1>SelectKeeps DEF Shaped
  <2>2. Update0(s).vic = [s.vic EXCEPT ![0] = c] /\ "vic" \in DOMAIN Update0(s)
    BY DEF Update0
  <2> HIDE DEF c
  <2>3. QED
    BY <2>1, <2>2 DEF Keeps, Shaped

(* ... nor one of vic1, which may drive vic0.                              *)
<1>Update1Keeps. ASSUME NEW s, Shaped(s) PROVE Keeps(s, Update1(s))
  <2> USE <1>Update1Keeps
  <2> DEFINE c == Select(s.vic[1])
             t == [s EXCEPT !.vic[1] = c, !.fiq = FiqStatus(c) # {}]
             up == [t EXCEPT !.vic[0].daisy_input = TRUE, !.vic[0].daisy_vectaddr = c.address]
             down == [t EXCEPT !.vic[0].daisy_input = FALSE]
  <2>1. Shape(c) /\ Served(c) = Served(s.vic[1])
    BY <1>SelectKeeps DEF Shaped
  <2> HIDE DEF c
  <2>2. Keeps(s, t)
    BY <2>1 DEF Keeps, Shaped
  <2>3. t.vic[0] = s.vic[0] /\ Shaped(t)
    BY <2>2 DEF Keeps, Shaped
  <2> HIDE DEF t
  <2>4. Keeps(t, up) /\ Keeps(t, down)
    BY <2>3 DEF Keeps, Shaped, Shape, Served
  <2>5. Update1(s) = Update0(up) \/ Update1(s) = Update0(down) \/ Update1(s) = t
    BY DEF Update1, c, t, up, down
  <2> HIDE DEF up, down
  <2>6. Keeps(up, Update0(up)) /\ Keeps(down, Update0(down))
    BY <2>4, <1>Update0Keeps DEF Keeps
  <2>7. QED
    BY <2>2, <2>4, <2>5, <2>6 DEF Keeps

(* The lengths of the stacks that a push and a pop leave.                  *)
<1>StackLengths.
    ASSUME NEW q, IsStack(q), NEW e
    PROVE  /\ Len(q) \in Nat /\ (q = <<>> <=> Len(q) = 0)
           /\ IsStack(Append(q, e)) /\ Len(Append(q, e)) = Len(q) + 1
           /\ q # <<>> => IsStack(Front(q)) /\ Len(Front(q)) = Len(q) - 1
  <2> USE <1>StackLengths
  <2>1. PICK R : q \in Seq(R)
    BY DEF IsStack
  <2> DEFINE Q == R \cup {e}
  <2>2. R \subseteq Q /\ e \in Q
    OBVIOUS
  <2> HIDE DEF Q
  <2>3. q \in Seq(Q) /\ e \in Q
    BY <2>1, <2>2, SeqWiden
  <2>4. Len(q) \in Nat /\ (q = <<>> <=> Len(q) = 0)
    BY <2>3
  <2>5. Append(q, e) \in Seq(Q) /\ Len(Append(q, e)) = Len(q) + 1
    BY <2>3
  <2>6. ASSUME q # <<>> PROVE Front(q) \in Seq(Q) /\ Len(Front(q)) = Len(q) - 1
    BY <2>3, <2>6, FrontIs
  <2>7. QED
    BY <2>4, <2>5, <2>6 DEF IsStack

(* An acknowledgment pushes one frame, or replaces the last when full.     *)
<1>AckedSound.
    ASSUME NEW c, Sound(c)
    PROVE  Sound(Acked(c)) /\ Len(Acked(c).stack) <= Len(c.stack) + 1
  <2> USE <1>AckedSound
  <2> DEFINE b == [c EXCEPT !.current = c.current_highest]
             f == [irq |-> b.current, priority |-> PriorityOf(b, b.current)]
             below == IF Len(b.stack) = LEVELS THEN Front(b.stack) ELSE b.stack
             a == [b EXCEPT !.stack = Append(below, f), !.priority = f.priority]
  <2>1. Acked(c) = a
    BY DEF Acked, pl192_mask_priority
  <2>2. Shape(b) /\ b.stack = c.stack
    BY DEF Sound, Shape
  <2> HIDE DEF b
  <2>3. Shape(a) /\ a.stack = Append(below, f)
    BY <2>2 DEF Shape
  <2>4. LEVELS \in Nat \ {0}
    BY PL192Assumption DEF PL192Assumption
  <2>5. Len(c.stack) \in Nat /\ Len(c.stack) <= LEVELS /\ (c.stack = <<>> <=> Len(c.stack) = 0)
    BY <1>StackLengths DEF Sound
  <2>6. IsStack(below) /\ Len(below) \in Nat /\ Len(below) < LEVELS /\ Len(below) <= Len(c.stack)
    <3>1. CASE Len(c.stack) = LEVELS
      BY <2>2, <2>4, <2>5, <3>1, <1>StackLengths DEF Sound
    <3>2. CASE Len(c.stack) # LEVELS
      BY <2>2, <2>4, <2>5, <3>2 DEF Sound
    <3>3. QED
      BY <3>1, <3>2
  <2> HIDE DEF below, f
  <2>7. IsStack(Append(below, f)) /\ Len(Append(below, f)) = Len(below) + 1
    BY <2>6, <1>StackLengths
  <2>8. Append(below, f) # <<>>
    <3>1. Append(below, f) = <<>> <=> Len(Append(below, f)) = 0
      BY <2>7, <1>StackLengths
    <3>2. QED
      BY <2>6, <2>7, <3>1
  <2>9. QED
    BY <2>1, <2>3, <2>4, <2>5, <2>6, <2>7, <2>8 DEF Sound

(* A finish pops one frame; the last one popped leaves nothing masked.     *)
<1>UnmaskSound.
    ASSUME NEW c, Sound(c)
    PROVE  /\ Sound(pl192_unmask_priority(c))
           /\ \A d \in Nat : Len(c.stack) <= d + 1 => Len(pl192_unmask_priority(c).stack) <= d
  <2> USE <1>UnmaskSound
  <2>1. Len(c.stack) \in Nat /\ (c.stack = <<>> <=> Len(c.stack) = 0)
    BY <1>StackLengths DEF Sound
  <2>2. CASE c.stack = <<>>
    BY <2>1, <2>2 DEF pl192_unmask_priority
  <2>3. CASE c.stack # <<>>
    <3> DEFINE below == Front(c.stack)
               f == IF below = <<>> THEN Idle ELSE Last(below)
               a == [c EXCEPT !.stack = below, !.priority = f.priority, !.current = f.irq]
    <3>1. pl192_unmask_priority(c) = a
      BY <2>3 DEF pl192_unmask_priority
    <3>2. IsStack(below) /\ Len(below) = Len(c.stack) - 1
      BY <2>3, <1>StackLengths DEF Sound
    <3>3. below = <<>> => f.priority = LEVELS /\ f.irq = NO_IRQ
      BY DEF Idle
    <3> HIDE DEF below, f
    <3>4. Shape(a) /\ a.stack = below /\ a.priority = f.priority /\ a.current = f.irq
      BY DEF Shape, Sound
    <3>5. LEVELS \in Nat /\ Len(c.stack) <= LEVELS
      BY PL192Assumption DEF PL192Assumption, Sound
    <3>6. QED
      BY <2>1, <3>1, <3>2, <3>3, <3>4, <3>5 DEF Sound
  <2>4. QED
    BY <2>2, <2>3

(* A step that leaves what is served leaves the invariant.                 *)
<1>KeepsUnwinding.
    ASSUME NEW s, NEW t, NEW d, Unwinding(s, d), Keeps(s, t)
    PROVE  Unwinding(t, d)
  BY <1>KeepsUnwinding DEF Unwinding, Keeps, Sound, Shaped, Served

(* An update of either controller does (pl192_update).                     *)
<1>UpdateUnwinding.
    ASSUME NEW s, NEW d, Unwinding(s, d)
    PROVE  /\ Unwinding(Update0(s), d) /\ Unwinding(Update1(s), d)
           /\ \A v : Unwinding(pl192_update(s, v), d)
  <2> USE <1>UpdateUnwinding
  <2>1. Unwinding(Update0(s), d) /\ Unwinding(Update1(s), d)
    BY <1>Update0Keeps, <1>Update1Keeps, <1>KeepsUnwinding DEF Unwinding
  <2>2. QED
    BY <2>1 DEF pl192_update

(* The chain that results is the next state.                               *)
<1>BecomesUnwinding.
    ASSUME NEW u, NEW d, Unwinding(u, d), Becomes(u)
    PROVE  Unwinding(chain', d)
  <2> USE <1>BecomesUnwinding
  <2>1. chain' = [vic |-> u.vic, irq |-> u.irq, fiq |-> u.fiq]
    BY DEF chain, Becomes
  <2>2. chain'.vic = u.vic /\ "vic" \in DOMAIN chain'
    BY <2>1
  <2>3. QED
    BY <2>2 DEF Unwinding, Shaped

(* Any register may change under an update but the ones that are served.   *)
<1>WriteUnwinding.
    ASSUME Unwindable, NEW t, NEW v, Keeps(chain, t),
           Becomes(pl192_update(t, v)), UNCHANGED depth
    PROVE  Unwindable'
  <2> USE <1>WriteUnwinding
  <2>1. Unwinding(pl192_update(t, v), depth)
    BY <1>KeepsUnwinding, <1>UpdateUnwinding DEF Unwindable
  <2>2. Unwinding(chain', depth)
    BY <2>1, <1>BecomesUnwinding
  <2>3. QED
    BY <2>2 DEF Unwindable

(* The writes of single registers, and a device that drives its line.      *)
<1>RegistersUnwinding.
    ASSUME Unwindable, NEW v \in 0..1, NEW i, NEW p, NEW S,
           \/ pl192_irq_handler(v, i) \/ WriteEnable(v, i) \/ WriteEnClear(v, i)
           \/ WriteSoftInt(v, i) \/ WriteSoftClear(v, i) \/ WriteVector(v, i)
           \/ WritePriority(v, i, p) \/ WriteSelect(v, S) \/ WriteMask(v, S) \/ WriteDaisy(p)
    PROVE  Unwindable'
  <2> USE <1>RegistersUnwinding
  <2>0. Shaped(chain)
    BY DEF Unwindable, Unwinding
  <2>1. ASSUME NEW x PROVE /\ Keeps(chain, [chain EXCEPT !.vic[v].rawintr = x])
                           /\ Keeps(chain, [chain EXCEPT !.vic[v].intenable = x])
                           /\ Keeps(chain, [chain EXCEPT !.vic[v].intselect = x])
    BY <2>0 DEF Keeps, Shaped, Shape, Served
  <2>2. ASSUME NEW x PROVE /\ Keeps(chain, [chain EXCEPT !.vic[v].softint = x])
                           /\ Keeps(chain, [chain EXCEPT !.vic[v].sw_priority_mask = x])
                           /\ Keeps(chain, [chain EXCEPT !.vic[0].daisy_priority = x])
    BY <2>0 DEF Keeps, Shaped, Shape, Served
  <2>3. ASSUME NEW x PROVE /\ Keeps(chain, [chain EXCEPT !.vic[v].vect_priority[i] = x])
                           /\ Keeps(chain, [chain EXCEPT !.vic[v].vect_addr[i] = x])
    BY <2>0 DEF Keeps, Shaped, Shape, Served
  <2>4. CASE pl192_irq_handler(v, i)
    BY <2>1, <2>4, <1>WriteUnwinding, Zenon DEF pl192_irq_handler, Same
  <2>5. CASE WriteEnable(v, i) \/ WriteEnClear(v, i)
    BY <2>1, <2>5, <1>WriteUnwinding, Zenon DEF WriteEnable, WriteEnClear, Same
  <2>6. CASE WriteSelect(v, S) \/ WriteMask(v, S)
    BY <2>1, <2>2, <2>6, <1>WriteUnwinding, Zenon DEF WriteSelect, WriteMask, Same
  <2>7. CASE WriteSoftInt(v, i) \/ WriteSoftClear(v, i)
    BY <2>2, <2>7, <1>WriteUnwinding, Zenon DEF WriteSoftInt, WriteSoftClear, Same
  <2>8. CASE WritePriority(v, i, p) \/ WriteDaisy(p)
    BY <2>2, <2>3, <2>8, <1>WriteUnwinding, Zenon DEF WritePriority, WriteDaisy, Same
  <2>9. CASE WriteVector(v, i)
    BY <2>3, <2>9, <1>WriteUnwinding DEF WriteVector, Same
  <2>10. QED
    BY <2>4, <2>5, <2>6, <2>7, <2>8, <2>9

(* An acknowledgment: the guest counts it unless it was spurious.          *)
<1>AckUnwinding. ASSUME Unwindable, Ack PROVE Unwindable'
  <2> USE <1>AckUnwinding
  <2> DEFINE c == vic[0]
             child == IF c.current_highest = DAISY THEN Acked(vic[1]) ELSE vic[1]
             t == [chain EXCEPT !.vic[0] = Acked(c), !.vic[1] = child]
  <2>1. depth \in Nat /\ Shaped(chain) /\ Sound(c) /\ Sound(vic[1]) /\ Len(c.stack) <= depth
    BY DEF Unwindable, Unwinding, chain
  <2>2. CASE c.current_highest = NO_IRQ
    <3>1. Becomes(chain) /\ depth' = depth
      BY <2>2 DEF Ack, pl192_irq_ack, chain
    <3>2. QED
      BY <3>1, <1>BecomesUnwinding DEF Unwindable
  <2>3. CASE c.current_highest # NO_IRQ
    <3>1. Becomes(Update0(t)) /\ depth' = depth + 1
      BY <2>3 DEF Ack, pl192_irq_ack, chain
    <3>2. Sound(Acked(c)) /\ Len(Acked(c).stack) <= Len(c.stack) + 1 /\ Sound(child)
      BY <2>1, <1>AckedSound
    <3>3. Len(c.stack) \in Nat /\ Len(Acked(c).stack) \in Nat
      BY <2>1, <3>2, <1>StackLengths DEF Sound
    <3>4. Len(Acked(c).stack) <= depth + 1
      BY <2>1, <3>2, <3>3
    <3> HIDE DEF child
    <3>5. "vic" \in DOMAIN t /\ t.vic = [vic EXCEPT ![0] = Acked(c), ![1] = child]
      BY <2>1 DEF Shaped, chain
    <3>6. 0 \in DOMAIN vic /\ 1 \in DOMAIN vic
      BY <2>1 DEF Shaped, chain
    <3> HIDE DEF t
    <3>7. t.vic[0] = Acked(c) /\ t.vic[1] = child /\ 0 \in DOMAIN t.vic /\ 1 \in DOMAIN t.vic
      BY <3>5, <3>6
    <3>8. Unwinding(t, depth + 1)
      BY <3>2, <3>4, <3>5, <3>7 DEF Unwinding, Shaped, Sound
    <3>9. Unwinding(chain', depth + 1)
      BY <3>1, <3>8, <1>UpdateUnwinding, <1>BecomesUnwinding
    <3>10. QED
      BY <2>1, <3>1, <3>9 DEF Unwindable
  <2>4. QED
    BY <2>2, <2>3

(* A finish pops what the guest acknowledged last.                         *)
<1>FinUnwinding. ASSUME Unwindable, Fin PROVE Unwindable'
  <2> USE <1>FinUnwinding
  <2> DEFINE c == vic[0]
             t == [chain EXCEPT !.vic[0] = pl192_unmask_priority(c)]
             u == [t EXCEPT !.vic[1] = pl192_unmask_priority(t.vic[1])]
             d == depth - 1
  <2>1. Shaped(chain) /\ Sound(c) /\ Sound(vic[1]) /\ Len(c.stack) <= depth
    BY DEF Unwindable, Unwinding, chain
  <2>2. d \in Nat /\ depth' = d /\ depth = d + 1
    BY DEF Fin, Unwindable
  <2>3. Becomes(Update0(Update1(u))) \/ Becomes(Update0(t))
    BY DEF Fin, pl192_irq_fin, chain
  <2> HIDE DEF d
  <2>4. /\ Sound(pl192_unmask_priority(c)) /\ Len(pl192_unmask_priority(c).stack) <= d
        /\ Sound(pl192_unmask_priority(vic[1]))
    BY <2>1, <2>2, <1>UnmaskSound
  <2>5. /\ "vic" \in DOMAIN t /\ 0 \in DOMAIN t.vic /\ 1 \in DOMAIN t.vic
        /\ t.vic[0] = pl192_unmask_priority(c) /\ t.vic[1] = vic[1]
    BY <2>1 DEF Shaped, chain
  <2> HIDE DEF t
  <2>6. /\ "vic" \in DOMAIN u /\ 0 \in DOMAIN u.vic /\ 1 \in DOMAIN u.vic
        /\ u.vic[0] = t.vic[0] /\ u.vic[1] = pl192_unmask_priority(vic[1])
    BY <2>5
  <2> HIDE DEF u
  <2>7. Unwinding(t, d) /\ Unwinding(u, d)
    BY <2>1, <2>4, <2>5, <2>6 DEF Unwinding, Shaped, Sound
  <2>8. Unwinding(chain', d)
    BY <2>3, <2>7, <1>UpdateUnwinding, <1>BecomesUnwinding
  <2>9. QED
    BY <2>2, <2>8 DEF Unwindable

(* A controller that was reset masks nothing.                              *)
<1>ResetSound.
    ASSUME NEW v, NEW c, Shape(c)
    PROVE  Sound(ResetOf(v, c)) /\ ResetOf(v, c).stack = <<>>
  <2> USE <1>ResetSound
  <2>1. /\ Shape(ResetOf(v, c)) /\ ResetOf(v, c).stack = <<>>
        /\ ResetOf(v, c).priority = LEVELS /\ ResetOf(v, c).current = NO_IRQ
    BY DEF ResetOf, Shape
  <2>2. IsStack(<<>>) /\ Len(<<>>) = 0
    BY EmptyIs DEF IsStack
  <2>3. QED
    BY <2>1, <2>2, PL192Assumption DEF Sound, PL192Assumption

(* So does one that was just made.                                         *)
<1>BlankSound.
    ASSUME NEW v
    PROVE  Sound(Blank(v)) /\ Blank(v).stack = <<>>
  <2> USE <1>BlankSound
  <2> DEFINE zero == [rawintr |-> {}, intenable |-> {}, intselect |-> {}, softint |-> {},
                  sw_priority_mask |-> {}, vect_priority |-> <<>>, vect_addr |-> <<>>, address |-> Zero,
                  current |-> NO_IRQ, current_highest |-> NO_IRQ, stack |-> <<>>, priority |-> 0,
                  daisy_input |-> FALSE, daisy_vectaddr |-> Zero, daisy_priority |-> 0]
  <2>1. Shape(zero)
    BY DEF Shape
  <2>2. Blank(v) = ResetOf(v, zero)
    BY DEF Blank
  <2> HIDE DEF zero
  <2>3. QED
    BY <2>1, <2>2, <1>ResetSound

(* A reset of either controller, with the guest it starts over.            *)
<1>OneReset.
    ASSUME NEW s, NEW v \in 0..1, NEW d, Unwinding(s, d), d \in Nat
    PROVE  /\ Unwinding(pl192_reset(s, v), d)
           /\ v = 0 => Unwinding(pl192_reset(s, v), 0)
  <2> USE <1>OneReset
  <2> DEFINE t == [s EXCEPT !.vic[v] = ResetOf(v, s.vic[v])]
  <2>1. pl192_reset(s, v) = pl192_update(t, v)
    BY DEF pl192_reset
  <2>2. Sound(ResetOf(v, s.vic[v])) /\ ResetOf(v, s.vic[v]).stack = <<>>
    BY <1>ResetSound DEF Unwinding, Shaped
  <2>3. /\ "vic" \in DOMAIN t /\ 0 \in DOMAIN t.vic /\ 1 \in DOMAIN t.vic
        /\ t.vic[v] = ResetOf(v, s.vic[v]) /\ t.vic[1 - v] = s.vic[1 - v]
    BY DEF Unwinding, Shaped
  <2> HIDE DEF t
  <2>4. Sound(t.vic[0]) /\ Sound(t.vic[1])
    BY <2>2, <2>3 DEF Unwinding
  <2>5. Len(<<>>) = 0
    OBVIOUS
  <2>6. Len(t.vic[0].stack) <= d /\ (v = 0 => Len(t.vic[0].stack) <= 0)
    BY <2>2, <2>3, <2>5 DEF Unwinding
  <2>7. Unwinding(t, d) /\ (v = 0 => Unwinding(t, 0))
    BY <2>3, <2>4, <2>6 DEF Unwinding, Shaped, Sound
  <2>8. QED
    BY <2>1, <2>7, <1>UpdateUnwinding

(* A machine reset, in either order (pl192_reset).                         *)
<1>ResetUnwinding. ASSUME Unwindable, Reset PROVE Unwindable'
  <2> USE <1>ResetUnwinding
  <2>1. PICK v \in 0..1 : Becomes(pl192_reset(pl192_reset(chain, v), 1 - v))
    BY DEF Reset
  <2> DEFINE once == pl192_reset(chain, v)
  <2>2. depth \in Nat /\ Unwinding(chain, depth) /\ 0 \in Nat /\ 1 - v \in 0..1
    BY DEF Unwindable
  <2>3. Unwinding(once, depth) /\ (v = 0 => Unwinding(once, 0))
    BY <2>2, <1>OneReset
  <2> HIDE DEF once
  <2>4. Unwinding(pl192_reset(once, 1 - v), 0)
    <3>1. CASE v = 0
      BY <2>2, <2>3, <3>1, <1>OneReset
    <3>2. CASE v = 1
      BY <2>2, <2>3, <3>2, <1>OneReset
    <3>3. QED
      BY <3>1, <3>2
  <2>5. Unwinding(chain', 0)
    BY <2>1, <2>4, <1>BecomesUnwinding DEF once
  <2>6. QED
    BY <2>5 DEF Reset, Unwindable

(* A snapshot brings back the stacks of both controllers.                  *)
<1>LoadUnwinding. ASSUME Unwindable, Load PROVE Unwindable'
  <2> USE <1>LoadUnwinding
  <2> DEFINE fresh == [vic |-> [w \in 0..1 |-> Blank(w)], irq |-> FALSE, fiq |-> FALSE]
             first(v) == [fresh EXCEPT !.vic[v] = vic[v]]
             one(v) == pl192_update(first(v), v)
             both(v) == [one(v) EXCEPT !.vic[1 - v] = vic[1 - v]]
  <2>1. PICK v \in 0..1 : Becomes(pl192_update(both(v), 1 - v))
    BY Zenon DEF Load
  <2>2. /\ depth \in Nat /\ Sound(vic[0]) /\ Sound(vic[1]) /\ Len(vic[0].stack) <= depth
        /\ Len(<<>>) = 0
    BY DEF Unwindable, Unwinding, chain
  <2>3. \A w \in 0..1 : Sound(Blank(w)) /\ Blank(w).stack = <<>>
    BY <1>BlankSound
  <2>4. /\ "vic" \in DOMAIN first(v) /\ 0 \in DOMAIN first(v).vic /\ 1 \in DOMAIN first(v).vic
        /\ first(v).vic[v] = vic[v] /\ first(v).vic[1 - v] = Blank(1 - v)
    OBVIOUS
  <2> HIDE DEF first
  <2>5. Unwinding(first(v), depth)
    BY <2>2, <2>3, <2>4 DEF Unwinding, Shaped, Sound
  <2>6. Unwinding(one(v), depth) /\ Served(one(v).vic[v]) = Served(vic[v])
    <3>1. Unwinding(one(v), depth)
      BY <2>5, <1>UpdateUnwinding
    <3>2. Keeps(first(v), one(v))
      BY <2>5, <1>Update0Keeps, <1>Update1Keeps DEF pl192_update, Unwinding
    <3>3. QED
      BY <2>4, <3>1, <3>2 DEF Keeps
  <2> HIDE DEF one
  <2>7. /\ "vic" \in DOMAIN both(v) /\ 0 \in DOMAIN both(v).vic /\ 1 \in DOMAIN both(v).vic
        /\ both(v).vic[v] = one(v).vic[v] /\ both(v).vic[1 - v] = vic[1 - v]
    BY <2>6 DEF Unwinding, Shaped
  <2> HIDE DEF both
  <2>8. Unwinding(both(v), depth)
    BY <2>2, <2>6, <2>7 DEF Unwinding, Shaped, Sound
  <2>9. Unwinding(chain', depth)
    BY <2>1, <2>8, <1>UpdateUnwinding, <1>BecomesUnwinding
  <2>10. QED
    BY <2>2, <2>9 DEF Load, Same, Unwindable

(* The guest's set-up has served nothing.                                  *)
<1>UnwindableInit. Init => Unwindable
  <2> SUFFICES ASSUME Init PROVE Unwindable
    OBVIOUS
  <2>1. PICK p0, p1, d : vic = [v \in 0..1 |-> IF v = 0 THEN SetUp(0, p0, d) ELSE SetUp(1, p1, LEVELS - 1)]
    BY DEF Init
  <2>2. ASSUME NEW v, NEW p, NEW e PROVE Sound(SetUp(v, p, e)) /\ SetUp(v, p, e).stack = <<>>
    <3>1. Served(SetUp(v, p, e)) = Served(Blank(v)) /\ Shape(SetUp(v, p, e))
      BY <1>BlankSound DEF SetUp, Served, Shape, Sound
    <3>2. QED
      BY <3>1, <1>BlankSound DEF Served, Sound
  <2>3. chain.vic = vic /\ "vic" \in DOMAIN chain
    BY DEF chain
  <2>4. /\ 0 \in DOMAIN vic /\ 1 \in DOMAIN vic
        /\ vic[0] = SetUp(0, p0, d) /\ vic[1] = SetUp(1, p1, LEVELS - 1)
    BY <2>1
  <2>5. Sound(vic[0]) /\ Sound(vic[1]) /\ vic[0].stack = <<>> /\ Len(<<>>) = 0
    BY <2>2, <2>4
  <2>6. QED
    BY <2>3, <2>4, <2>5 DEF Init, Unwindable, Unwinding, Shaped, Sound

(* Every step keeps it.                                                    *)
<1>UnwindableNext. Unwindable /\ [Next]_vars => Unwindable'
  <2> SUFFICES ASSUME Unwindable, [Next]_vars PROVE Unwindable'
    OBVIOUS
  <2>1. CASE Ack
    BY <2>1, <1>AckUnwinding
  <2>2. CASE Fin
    BY <2>2, <1>FinUnwinding
  <2>3. CASE Reset
    BY <2>3, <1>ResetUnwinding
  <2>4. CASE Load
    BY <2>4, <1>LoadUnwinding
  <2>5. ASSUME NEW p \in Levels, WriteDaisy(p) PROVE Unwindable'
    BY <2>5, <1>RegistersUnwinding, 0 \in 0..1
  <2>6. ASSUME NEW v \in 0..1, NEW S, WriteSelect(v, S) \/ WriteMask(v, S) PROVE Unwindable'
    BY <2>6, <1>RegistersUnwinding
  <2>7. ASSUME NEW v \in 0..1, NEW i \in Sources[v],
               \/ pl192_irq_handler(v, i) \/ WriteEnable(v, i) \/ WriteEnClear(v, i)
               \/ WriteSoftInt(v, i) \/ WriteSoftClear(v, i) \/ WriteVector(v, i)
        PROVE  Unwindable'
    BY <2>7, <1>RegistersUnwinding
  <2>8. ASSUME NEW v \in 0..1, NEW i \in Sources[v], NEW p \in Levels, WritePriority(v, i, p)
        PROVE  Unwindable'
    BY <2>8, <1>RegistersUnwinding
  <2>9. CASE UNCHANGED vars
    BY <2>9 DEF vars, Unwindable, chain
  <2>10. QED
    BY <2>1, <2>2, <2>3, <2>4, <2>5, <2>6, <2>7, <2>8, <2>9 DEF Next

<1>1. Init => Unwindable
  BY <1>UnwindableInit
<1>2. Unwindable /\ [Next]_vars => Unwindable'
  BY <1>UnwindableNext
<1>3. Unwindable => Unwinds
  <2> SUFFICES ASSUME Unwindable, depth = 0 PROVE vic[0].priority = LEVELS /\ vic[0].current = NO_IRQ
    BY DEF Unwinds
  <2>1. Sound(vic[0]) /\ Len(vic[0].stack) <= 0
    BY DEF Unwindable, Unwinding, chain
  <2>2. vic[0].stack = <<>>
    BY <2>1, <1>StackLengths DEF Sound
  <2>3. QED
    BY <2>1, <2>2 DEF Sound
<1>4. QED
  BY <1>1, <1>2, <1>3, PTL DEF Spec

-----------------------------------------------------------------------------
(* What holds of a controller between operations: its stack is of what it  *)
(* serves, innermost last, and nothing is served by an empty one ...       *)
Serving(c) ==
    /\ Len(c.stack) <= LEVELS
    /\ \A k \in 1..Len(c.stack) : c.stack[k].irq # NO_IRQ
    /\ c.stack = <<>> => c.current = NO_IRQ /\ c.priority = LEVELS
    /\ c.stack # <<>> => c.current = c.stack[Len(c.stack)].irq
Fits(v, c) == c \in Controller(v) /\ Serving(c)

(* ... and what it selected is what the sorter selects now.                *)
Quiet(c) == IrqStatus(c) = {} /\ ~c.daisy_input
Selects(c) ==
    LET h == pl192_priority_sorter(c)
    IN IF Quiet(c) THEN c.current_highest = NO_IRQ
       ELSE /\ c.current_highest = h
            /\ c.address = IF h \in IrqStatus(c) THEN c.vect_addr[h] ELSE c.daisy_vectaddr

(* vic0 and the CPU's line: down when nothing is pending, up when nothing  *)
(* is served and there is something to serve.                              *)
ParentFits(a, line) ==
    /\ Selects(a)
    /\ line => ~Quiet(a)
    /\ a.stack = <<>> /\ a.current_highest # NO_IRQ => line

(* vic1 and the daisy input it drives, while the guest masks none of its   *)
(* levels.                                                                 *)
Unmasked(b) == ~b.daisy_input /\ b.sw_priority_mask = Levels
ChildFits(a, b) ==
    /\ Unmasked(b) /\ Selects(b)
    /\ a.daisy_input => IrqStatus(b) # {}
    /\ b.stack = <<>> /\ IrqStatus(b) # {} => a.daisy_input /\ a.daisy_vectaddr = b.address

(* The acknowledgments the guest has not finished are the frames of vic0,  *)
(* and those of the daisy input the frames of vic1.                        *)
Daisies(q) == {k \in 1..Len(q) : q[k].irq = DAISY}
Counted(q, r, d) == Len(q) = d /\ Len(r) = Cardinality(Daisies(q))

ChainInv ==
    /\ vic \in [0..1 -> Controller(0) \cup Controller(1)] /\ Fits(0, vic[0]) /\ Fits(1, vic[1])
    /\ irq \in BOOLEAN /\ fiq \in BOOLEAN /\ depth \in 0..MaxDepth /\ deep \in BOOLEAN
    /\ acting \in Environments
    /\ ParentFits(vic[0], irq) /\ ChildFits(vic[0], vic[1])
    /\ ~deep => Counted(vic[0].stack, vic[1].stack, depth)

-----------------------------------------------------------------------------
(* The sorter *)

(* A set of numbers has a least one.                                       *)
LEMMA LeastIs ==
    ASSUME NEW S, S \subseteq Nat, S # {}
    PROVE  LeastOf(S) \in S /\ \A y \in S : LeastOf(S) <= y
<1> DEFINE R == OpToRel(<, Nat)
<1>1. IsWellFoundedOn(R, Nat)
  BY NatLessThanWellFounded, Zenon
<1>2. \A x, y \in Nat : y < x => <<y, x>> \in R
  BY DEF OpToRel
<1> HIDE DEF R
<1>3. PICK x \in S : \A y \in S : ~ (<<y, x>> \in R)
  BY <1>1, WFMin, Zenon
<1>4. ASSUME NEW y \in S PROVE x <= y
  <2>1. x \in Nat /\ y \in Nat /\ ~(y < x)
    BY <1>2, <1>3, Zenon
  <2>2. QED
    BY <2>1
<1>5. QED
  BY <1>4, Zenon DEF LeastOf

(* What the sorter may choose from.                                        *)
Open(c) == {i \in IrqStatus(c) : c.vect_priority[i] \in c.sw_priority_mask}
DaisyOpen(c) == c.daisy_input /\ c.daisy_priority \in c.sw_priority_mask

(* Sources and levels are numbers, and neither is one of the two marks.    *)
LEMMA Numbers ==
    ASSUME NEW v \in 0..1, NEW c \in Controller(v)
    PROVE  /\ IrqStatus(c) \subseteq Sources[v] /\ Sources[v] \subseteq Nat
           /\ \A i \in IrqStatus(c) : c.vect_priority[i] \in Levels
           /\ c.sw_priority_mask \subseteq Levels /\ c.daisy_priority \in Levels
           /\ Levels \subseteq Nat /\ \A p \in Levels : p < LEVELS
           /\ LEVELS \in Nat \ {0} /\ DAISY \notin Nat /\ NO_IRQ \notin Nat /\ DAISY # NO_IRQ
<1>1. Sources[v] \subseteq Nat /\ LEVELS \in Nat \ {0}
  BY PL192Assumption DEF PL192Assumption
<1>2. IrqStatus(c) \subseteq Sources[v]
  BY DEF IrqStatus, Controller
<1>3. /\ c.vect_priority \in [Sources[v] -> Levels]
      /\ c.sw_priority_mask \subseteq Levels /\ c.daisy_priority \in Levels
  BY DEF Controller
<1>4. Levels \subseteq Nat /\ \A p \in Levels : p < LEVELS
  BY <1>1 DEF Levels
<1>5. QED
  BY <1>1, <1>2, <1>3, <1>4 DEF DAISY, NO_IRQ

(* One level: its lowest source, then the daisy input.                     *)
LEMMA AtLevelIs ==
    ASSUME NEW v \in 0..1, NEW c \in Controller(v), NEW p
    PROVE  LET x == AtLevel(c, p)
           IN /\ x \in IrqStatus(c) \/ x = DAISY \/ x = NO_IRQ
              /\ x \in IrqStatus(c) =>
                    c.vect_priority[x] = p /\ \A i \in IrqStatus(c) : c.vect_priority[i] = p => x <= i
              /\ x \notin IrqStatus(c) => \A i \in IrqStatus(c) : c.vect_priority[i] # p
              /\ x = DAISY => c.daisy_input /\ c.daisy_priority = p
              /\ x = NO_IRQ => ~(c.daisy_input /\ c.daisy_priority = p)
<1> DEFINE here == {i \in IrqStatus(c) : c.vect_priority[i] = p}
<1>1. here \subseteq Nat /\ DAISY \notin IrqStatus(c) /\ NO_IRQ \notin IrqStatus(c) /\ DAISY # NO_IRQ
  BY Numbers
<1>2. CASE here # {}
  <2>1. AtLevel(c, p) = LeastOf(here)
    BY <1>2 DEF AtLevel
  <2>2. LeastOf(here) \in here /\ \A y \in here : LeastOf(here) <= y
    BY <1>1, <1>2, LeastIs
  <2>3. QED
    BY <1>1, <2>1, <2>2
<1>3. CASE here = {}
  <2>1. AtLevel(c, p) = IF c.daisy_input /\ c.daisy_priority = p THEN DAISY ELSE NO_IRQ
    BY <1>3 DEF AtLevel
  <2>2. QED
    BY <1>1, <1>3, <2>1
<1>4. QED
  BY <1>2, <1>3

(* The sorter's choice: of the open sources the first, by level and then   *)
(* by number; the daisy input when it comes before them all.               *)
LEMMA SorterIs ==
    ASSUME NEW v \in 0..1, NEW c \in Controller(v)
    PROVE  LET h == pl192_priority_sorter(c)
           IN /\ h \in Open(c) \/ (h = DAISY /\ DaisyOpen(c)) \/ h = NO_IRQ
              /\ h = NO_IRQ => Open(c) = {} /\ ~DaisyOpen(c)
              /\ h \in IrqStatus(c) =>
                    /\ h \in Open(c)
                    /\ \A i \in Open(c) : \/ c.vect_priority[h] < c.vect_priority[i]
                                          \/ c.vect_priority[h] = c.vect_priority[i] /\ h <= i
                    /\ DaisyOpen(c) => c.vect_priority[h] <= c.daisy_priority
              /\ h = DAISY => \A i \in Open(c) : c.daisy_priority < c.vect_priority[i]
<1> DEFINE vp == c.vect_priority
           I == IrqStatus(c)
           at(p) == AtLevel(c, p)
           open == {p \in c.sw_priority_mask : at(p) # NO_IRQ}
           l == LeastOf(open)
<1>1. /\ I \subseteq Nat /\ \A i \in I : vp[i] \in Nat
      /\ open \subseteq Nat /\ c.daisy_priority \in Nat
      /\ DAISY \notin I /\ NO_IRQ \notin I /\ DAISY # NO_IRQ
  BY Numbers
<1>2. \A p : /\ at(p) \in I \/ at(p) = DAISY \/ at(p) = NO_IRQ
             /\ at(p) \in I => vp[at(p)] = p /\ \A i \in I : vp[i] = p => at(p) <= i
             /\ at(p) \notin I => \A i \in I : vp[i] # p
             /\ at(p) = DAISY => c.daisy_input /\ c.daisy_priority = p
             /\ at(p) = NO_IRQ => ~(c.daisy_input /\ c.daisy_priority = p)
  BY AtLevelIs
<1>3. pl192_priority_sorter(c) = IF open = {} THEN NO_IRQ ELSE at(l)
  BY DEF pl192_priority_sorter
<1>4. open # {} => l \in open /\ \A p \in open : l <= p
  BY <1>1, LeastIs
<1> HIDE DEF at, l
<1>5. \A i \in Open(c) : i \in I /\ vp[i] \in open
  BY <1>1, <1>2 DEF Open
<1>6. DaisyOpen(c) => c.daisy_priority \in open
  BY <1>1, <1>2 DEF DaisyOpen
<1>7. CASE open = {}
  BY <1>1, <1>3, <1>5, <1>6, <1>7
<1>8. CASE open # {}
  <2>1. /\ pl192_priority_sorter(c) = at(l) /\ at(l) # NO_IRQ /\ l \in c.sw_priority_mask
        /\ l \in Nat /\ \A p \in open : l <= p
    BY <1>1, <1>3, <1>4, <1>8
  <2>2. CASE at(l) \in I
    BY <1>1, <1>2, <1>5, <1>6, <2>1, <2>2 DEF Open
  <2>3. CASE at(l) = DAISY
    BY <1>1, <1>2, <1>5, <1>6, <2>1, <2>3 DEF Open, DaisyOpen
  <2>4. QED
    BY <1>2, <2>1, <2>2, <2>3
<1>9. QED
  BY <1>7, <1>8

-----------------------------------------------------------------------------
(* Selecting, and driving the lines *)

(* What the selection is made of.                                          *)
Config(c) == <<c.rawintr, c.softint, c.intenable, c.intselect, c.sw_priority_mask, c.vect_priority,
               c.vect_addr, c.daisy_input, c.daisy_vectaddr, c.daisy_priority>>

(* What is pending and what is chosen depend on these registers alone.     *)
LEMMA ConfigDecides ==
    ASSUME NEW c, NEW d, Config(c) = Config(d)
    PROVE  /\ IrqStatus(d) = IrqStatus(c) /\ (Quiet(d) <=> Quiet(c))
           /\ pl192_priority_sorter(d) = pl192_priority_sorter(c)
           /\ d.vect_addr = c.vect_addr /\ d.daisy_vectaddr = c.daisy_vectaddr
           /\ d.daisy_input = c.daisy_input /\ d.sw_priority_mask = c.sw_priority_mask
           /\ d.vect_priority = c.vect_priority /\ d.daisy_priority = c.daisy_priority
<1>1. /\ d.vect_addr = c.vect_addr /\ d.daisy_vectaddr = c.daisy_vectaddr
      /\ d.daisy_input = c.daisy_input /\ d.sw_priority_mask = c.sw_priority_mask
      /\ d.vect_priority = c.vect_priority /\ d.daisy_priority = c.daisy_priority
      /\ d.rawintr = c.rawintr /\ d.softint = c.softint
      /\ d.intenable = c.intenable /\ d.intselect = c.intselect
  BY DEF Config
<1>2. IrqStatus(d) = IrqStatus(c)
  BY <1>1 DEF IrqStatus
<1>3. Quiet(d) <=> Quiet(c)
  BY <1>1, <1>2, Zenon DEF Quiet
<1>4. \A p : AtLevel(d, p) = AtLevel(c, p)
  BY <1>1, <1>2, Zenon DEF AtLevel
<1>5. pl192_priority_sorter(d) = pl192_priority_sorter(c)
  BY <1>1, <1>4, Zenon DEF pl192_priority_sorter
<1>6. QED
  BY <1>1, <1>2, <1>3, <1>5

(* What a controller may serve.                                            *)
LEMMA SorterType ==
    ASSUME NEW v \in 0..1, NEW c \in Controller(v)
    PROVE  pl192_priority_sorter(c) \in Interrupts(v)
BY SorterIs, Numbers DEF Open, Interrupts

(* Selecting brings the selection up to date and changes nothing else.     *)
LEMMA SelectIs ==
    ASSUME NEW v \in 0..1, NEW c \in Controller(v)
    PROVE  /\ Select(c) \in Controller(v) /\ Config(Select(c)) = Config(c)
           /\ Served(Select(c)) = Served(c) /\ Selects(Select(c))
<1> DEFINE h == pl192_priority_sorter(c)
           x == IF h \in IrqStatus(c) THEN c.vect_addr[h] ELSE c.daisy_vectaddr
           n == [c EXCEPT !.current_highest = NO_IRQ]
           y == [c EXCEPT !.current_highest = h, !.address = x]
<1>1. h \in Interrupts(v) /\ NO_IRQ \in Interrupts(v)
  BY SorterType DEF Interrupts
<1>2. x \in Vectors
  <2>1. c.vect_addr \in [Sources[v] -> Vectors] /\ c.daisy_vectaddr \in Vectors
    BY DEF Controller
  <2>2. QED
    BY <2>1, Numbers
<1>3. Select(c) = IF Quiet(c) THEN n ELSE y
  BY DEF Select, Quiet
<1> HIDE DEF h, x
<1>4. n \in Controller(v) /\ Config(n) = Config(c) /\ Served(n) = Served(c) /\ n.current_highest = NO_IRQ
  BY <1>1, Zenon DEF Controller, Config, Served
<1>5. /\ y \in Controller(v) /\ Config(y) = Config(c) /\ Served(y) = Served(c)
      /\ y.current_highest = h /\ y.address = x
  BY <1>1, <1>2, Zenon DEF Controller, Config, Served
<1> HIDE DEF n, y
<1>6. CASE Quiet(c)
  BY <1>3, <1>4, <1>6, ConfigDecides DEF Selects
<1>7. CASE ~Quiet(c)
  <2>1. Select(c) = y
    BY <1>3, <1>7
  <2>2. /\ ~Quiet(y) /\ pl192_priority_sorter(y) = h /\ IrqStatus(y) = IrqStatus(c)
        /\ y.vect_addr = c.vect_addr /\ y.daisy_vectaddr = c.daisy_vectaddr
    BY <1>5, <1>7, ConfigDecides, SMTT(30) DEF h
  <2>3. Selects(y)
    BY <1>5, <2>2 DEF Selects, x
  <2>4. QED
    BY <1>5, <2>1, <2>3
<1>8. QED
  BY <1>6, <1>7

(* A selection of nothing is of a controller with nothing open, and one of *)
(* something has a level.                                                  *)
LEMMA SelectedHas ==
    ASSUME NEW v \in 0..1, NEW c \in Controller(v), Selects(c)
    PROVE  /\ c.current_highest = NO_IRQ => Open(c) = {} /\ ~DaisyOpen(c)
           /\ c.current_highest = DAISY => ~Quiet(c) /\ DaisyOpen(c)
           /\ c.current_highest # NO_IRQ => /\ ~Quiet(c) /\ PriorityOf(c, c.current_highest) < LEVELS
                                            /\ c.current_highest \in IrqStatus(c) \cup {DAISY}
           /\ Unmasked(c) /\ IrqStatus(c) # {} => c.current_highest \in IrqStatus(c)
<1> DEFINE h == c.current_highest
<1>1. /\ IrqStatus(c) \subseteq Nat /\ \A i \in IrqStatus(c) : c.vect_priority[i] \in Levels
      /\ c.daisy_priority \in Levels /\ \A p \in Levels : p < LEVELS
      /\ DAISY \notin IrqStatus(c) /\ NO_IRQ \notin IrqStatus(c) /\ DAISY # NO_IRQ
  BY Numbers
<1>2. CASE Quiet(c)
  <2>1. h = NO_IRQ
    BY <1>2 DEF Selects
  <2>2. QED
    BY <1>1, <1>2, <2>1 DEF Quiet, Open, DaisyOpen
<1>3. CASE ~Quiet(c)
  <2>1. h = pl192_priority_sorter(c)
    BY <1>3 DEF Selects
  <2>2. /\ h \in Open(c) \/ (h = DAISY /\ DaisyOpen(c)) \/ h = NO_IRQ
        /\ h = NO_IRQ => Open(c) = {} /\ ~DaisyOpen(c)
    BY <2>1, SorterIs
  <2> HIDE DEF h
  <2>3. h \in Open(c) => h \in IrqStatus(c) /\ h # DAISY /\ h # NO_IRQ
    BY <1>1 DEF Open
  <2>4. Unmasked(c) => ~DaisyOpen(c) /\ Open(c) = IrqStatus(c)
    BY <1>1 DEF Unmasked, DaisyOpen, Open
  <2>5. h # NO_IRQ => PriorityOf(c, h) < LEVELS
    BY <1>1, <2>2, <2>3 DEF PriorityOf
  <2>6. QED
    BY <1>1, <1>3, <2>2, <2>3, <2>4, <2>5 DEF h
<1>4. QED
  BY <1>2, <1>3

(* What it does with its line: only a quiet controller must lower it, only *)
(* one that is not may raise it, and one that serves nothing and has       *)
(* something to serve does.                                                *)
LEMMA DriveIs ==
    ASSUME NEW v \in 0..1, NEW c \in Controller(v), Serving(c), Selects(c)
    PROVE  /\ Drive(c) \in {"raise", "lower", "leave"}
           /\ Quiet(c) => Drive(c) = "lower"
           /\ c.stack = <<>> /\ c.current_highest # NO_IRQ => Drive(c) = "raise"
           /\ c.current_highest # NO_IRQ => Drive(c) # "lower"
<1> DEFINE h == c.current_highest
<1>1. h # NO_IRQ => ~Quiet(c) /\ PriorityOf(c, h) < LEVELS
  BY SelectedHas
<1>2. PriorityOf(c, h) \in Nat /\ LEVELS \in Nat
  <2>1. h \in Interrupts(v) /\ c.vect_priority \in [Sources[v] -> Levels]
    BY DEF Controller
  <2>2. QED
    BY <2>1, Numbers DEF PriorityOf, Interrupts
<1>3. c.stack = <<>> => c.current = NO_IRQ /\ c.priority = LEVELS
  BY DEF Serving
<1>4. Drive(c) = IF Quiet(c) THEN "lower"
                 ELSE IF h = c.current THEN "leave"
                 ELSE IF h = NO_IRQ THEN "lower"
                 ELSE IF PriorityOf(c, h) >= c.priority THEN "leave" ELSE "raise"
  BY DEF Drive, Quiet
<1> HIDE DEF h
<1>5. QED
  BY <1>1, <1>2, <1>3, <1>4 DEF h

(* A chain of two controllers and its lines.                               *)
Chain(s) ==
    /\ s \in [vic: [0..1 -> Controller(0) \cup Controller(1)], irq: BOOLEAN, fiq: BOOLEAN]
    /\ Fits(0, s.vic[0]) /\ Fits(1, s.vic[1])

(* Selecting leaves what is served.                                        *)
LEMMA SelectFits ==
    ASSUME NEW v \in 0..1, NEW c, Fits(v, c)
    PROVE  Fits(v, Select(c)) /\ Select(c).stack = c.stack
<1>1. Select(c) \in Controller(v) /\ Served(Select(c)) = Served(c)
  BY SelectIs DEF Fits
<1>2. Select(c).stack = c.stack /\ Select(c).priority = c.priority /\ Select(c).current = c.current
  BY <1>1 DEF Served
<1>3. QED
  BY <1>1, <1>2 DEF Fits, Serving

(* pl192_update of vic0: whatever it finds, vic0 and the CPU's line fit    *)
(* after it.                                                               *)
LEMMA Update0Is ==
    ASSUME NEW s, Chain(s)
    PROVE  /\ Chain(Update0(s)) /\ Update0(s).vic[1] = s.vic[1] /\ Update0(s).vic[0] = Select(s.vic[0])
           /\ ParentFits(Update0(s).vic[0], Update0(s).irq)
<1> DEFINE c == Select(s.vic[0])
           i == CASE Drive(c) = "raise" -> TRUE [] Drive(c) = "lower" -> FALSE [] OTHER -> s.irq
           f == FiqStatus(c) # {}
           t == [vic |-> [s.vic EXCEPT ![0] = c], irq |-> i, fiq |-> f]
<1>1. Update0(s) = t
  BY DEF Update0
<1>2. Fits(0, c) /\ Selects(c)
  BY SelectFits, SelectIs DEF Chain, Fits
<1>3. /\ Drive(c) \in {"raise", "lower", "leave"} /\ (Quiet(c) => Drive(c) = "lower")
      /\ c.stack = <<>> /\ c.current_highest # NO_IRQ => Drive(c) = "raise"
  BY <1>2, DriveIs DEF Fits
<1>4. s.irq \in BOOLEAN /\ s.vic \in [0..1 -> Controller(0) \cup Controller(1)] /\ Fits(1, s.vic[1])
  BY DEF Chain
<1> HIDE DEF c
<1>5. i \in BOOLEAN /\ (Drive(c) = "lower" => ~i) /\ (Drive(c) = "raise" => i)
  BY <1>4, Zenon
<1>6. f \in BOOLEAN
  OBVIOUS
<1> HIDE DEF i, f
<1>7. /\ t.vic = [s.vic EXCEPT ![0] = c] /\ t.irq = i
      /\ t \in [vic: {[s.vic EXCEPT ![0] = c]}, irq: BOOLEAN, fiq: BOOLEAN]
  BY <1>5, <1>6
<1>8. /\ [s.vic EXCEPT ![0] = c] \in [0..1 -> Controller(0) \cup Controller(1)]
      /\ [s.vic EXCEPT ![0] = c][0] = c /\ [s.vic EXCEPT ![0] = c][1] = s.vic[1]
  BY <1>2, <1>4 DEF Fits
<1> HIDE DEF t
<1>9. ParentFits(c, i)
  BY <1>2, <1>3, <1>5 DEF ParentFits
<1>10. Chain(t)
  BY <1>2, <1>4, <1>7, <1>8 DEF Chain
<1>11. QED
  BY <1>1, <1>7, <1>8, <1>9, <1>10 DEF c

(* A chain with one of its controllers replaced by one that fits.          *)
LEMMA ChainPut ==
    ASSUME NEW s, Chain(s), NEW v \in 0..1, NEW c, Fits(v, c)
    PROVE  LET t == [s EXCEPT !.vic[v] = c]
           IN /\ Chain(t) /\ t.vic[v] = c /\ t.vic[1 - v] = s.vic[1 - v]
              /\ t.irq = s.irq /\ t.fiq = s.fiq
<1> DEFINE t == [s EXCEPT !.vic[v] = c]
<1>1. /\ s \in [vic: [0..1 -> Controller(0) \cup Controller(1)], irq: BOOLEAN, fiq: BOOLEAN]
      /\ c \in Controller(v)
  BY DEF Chain, Fits
<1>2. /\ t \in [vic: [0..1 -> Controller(0) \cup Controller(1)], irq: BOOLEAN, fiq: BOOLEAN]
      /\ t.vic[v] = c /\ t.vic[1 - v] = s.vic[1 - v] /\ t.irq = s.irq /\ t.fiq = s.fiq
  BY <1>1
<1> HIDE DEF t
<1>3. Fits(0, t.vic[0]) /\ Fits(1, t.vic[1])
  <2>1. CASE v = 0
    BY <1>2, <2>1 DEF Chain
  <2>2. CASE v = 1
    BY <1>2, <2>2 DEF Chain
  <2>3. QED
    BY <2>1, <2>2
<1>4. Chain(t)
  BY <1>2, <1>3 DEF Chain
<1>5. QED
  BY <1>2, <1>4 DEF t

(* Driving the daisy input leaves what vic0 serves.                        *)
LEMMA DaisyFits ==
    ASSUME NEW c, Fits(0, c), NEW x \in Vectors
    PROVE  LET u == [c EXCEPT !.daisy_input = TRUE, !.daisy_vectaddr = x]
               d == [c EXCEPT !.daisy_input = FALSE]
               on == [c EXCEPT !.daisy_input = TRUE]
           IN /\ Fits(0, on) /\ u = [on EXCEPT !.daisy_vectaddr = x]
              /\ Fits(0, u) /\ u.daisy_input /\ u.daisy_vectaddr = x /\ Served(u) = Served(c)
              /\ Fits(0, d) /\ ~d.daisy_input /\ Served(d) = Served(c)
<1> DEFINE u == [c EXCEPT !.daisy_input = TRUE, !.daisy_vectaddr = x]
           d == [c EXCEPT !.daisy_input = FALSE]
           on == [c EXCEPT !.daisy_input = TRUE]
<1>0. /\ on \in Controller(0) /\ u = [on EXCEPT !.daisy_vectaddr = x]
      /\ on.stack = c.stack /\ on.priority = c.priority /\ on.current = c.current
  BY Zenon DEF Controller, Fits
<1>1. /\ u \in Controller(0) /\ u.daisy_input = TRUE /\ u.daisy_vectaddr = x
      /\ u.stack = c.stack /\ u.priority = c.priority /\ u.current = c.current
  BY Zenon DEF Controller, Fits
<1>2. /\ d \in Controller(0) /\ d.daisy_input = FALSE
      /\ d.stack = c.stack /\ d.priority = c.priority /\ d.current = c.current
  BY Zenon DEF Controller, Fits
<1> HIDE DEF u, d, on
<1>3. Serving(u) /\ Serving(d) /\ Serving(on) /\ Served(u) = Served(c) /\ Served(d) = Served(c)
  BY <1>0, <1>1, <1>2 DEF Serving, Served, Fits
<1>4. QED
  BY <1>0, <1>1, <1>2, <1>3 DEF Fits, u, d, on

(* pl192_update of vic1, while the guest masks none of its levels: it is   *)
(* up to date, and so is the daisy input, which it drives unless it serves *)
(* something itself.                                                       *)
LEMMA Update1Is ==
    ASSUME NEW s, Chain(s), Unmasked(s.vic[1])
    PROVE  /\ Chain(Update1(s)) /\ Update1(s).vic[1] = Select(s.vic[1])
           /\ Served(Update1(s).vic[0]) = Served(s.vic[0])
           /\ ChildFits(Update1(s).vic[0], Update1(s).vic[1])
           /\ ParentFits(s.vic[0], s.irq) => ParentFits(Update1(s).vic[0], Update1(s).irq)
<1> DEFINE a == s.vic[0]
           c == Select(s.vic[1])
           t == [s EXCEPT !.vic[1] = c, !.fiq = FiqStatus(c) # {}]
           au == [a EXCEPT !.daisy_input = TRUE, !.daisy_vectaddr = c.address]
           ad == [a EXCEPT !.daisy_input = FALSE]
           on == [a EXCEPT !.daisy_input = TRUE]
           up == [t EXCEPT !.vic[0].daisy_input = TRUE, !.vic[0].daisy_vectaddr = c.address]
           down == [t EXCEPT !.vic[0].daisy_input = FALSE]
<1>1. /\ Fits(1, c) /\ Selects(c) /\ c.stack = s.vic[1].stack /\ Config(c) = Config(s.vic[1])
      /\ c.address \in Vectors
  <2>1. Fits(1, s.vic[1])
    BY DEF Chain
  <2>2. Fits(1, c) /\ Selects(c) /\ c.stack = s.vic[1].stack /\ Config(c) = Config(s.vic[1])
    BY <2>1, SelectFits, SelectIs DEF Fits
  <2> HIDE DEF c
  <2>3. QED
    BY <2>2, Zenon DEF Fits, Controller
<1>2. Unmasked(c)
  BY <1>1, ConfigDecides, Zenon DEF Unmasked
<1>3. /\ Drive(c) \in {"raise", "lower", "leave"} /\ (Quiet(c) => Drive(c) = "lower")
      /\ c.stack = <<>> /\ c.current_highest # NO_IRQ => Drive(c) = "raise"
      /\ c.current_highest # NO_IRQ => Drive(c) # "lower"
      /\ IrqStatus(c) # {} => c.current_highest \in IrqStatus(c) /\ c.current_highest # NO_IRQ
  <2>1. 1 \in 0..1 /\ c \in Controller(1) /\ Selects(c) /\ Serving(c)
    BY <1>1 DEF Fits
  <2> HIDE DEF c
  <2>2. /\ Drive(c) \in {"raise", "lower", "leave"} /\ (Quiet(c) => Drive(c) = "lower")
        /\ c.stack = <<>> /\ c.current_highest # NO_IRQ => Drive(c) = "raise"
        /\ c.current_highest # NO_IRQ => Drive(c) # "lower"
    BY <2>1, DriveIs, SMTT(30)
  <2>3. IrqStatus(c) # {} => c.current_highest \in IrqStatus(c)
    BY <1>2, <2>1, SelectedHas, SMTT(30)
  <2>4. NO_IRQ \notin IrqStatus(c)
    BY <2>1, Numbers, SMTT(30)
  <2>5. QED
    BY <2>2, <2>3, <2>4
<1>4. Quiet(c) <=> IrqStatus(c) = {}
  BY <1>2 DEF Unmasked, Quiet
<1>5. Update1(s) = CASE Drive(c) = "raise" -> Update0(up) [] Drive(c) = "lower" -> Update0(down) [] OTHER -> t
  BY DEF Update1
<1> HIDE DEF c
<1>6. Chain(t) /\ t.vic[0] = a /\ t.vic[1] = c /\ t.irq = s.irq
  <2> DEFINE f == FiqStatus(c) # {}
             q == [s EXCEPT !.vic[1] = c]
  <2>1. f \in BOOLEAN /\ t = [q EXCEPT !.fiq = f]
    OBVIOUS
  <2>2. Chain(q) /\ q.vic[0] = a /\ q.vic[1] = c /\ q.irq = s.irq
    BY <1>1, ChainPut
  <2> HIDE DEF q, f, t
  <2>3. QED
    BY <2>1, <2>2 DEF Chain
<1>7. /\ Fits(0, au) /\ au.daisy_input /\ au.daisy_vectaddr = c.address /\ Served(au) = Served(a)
      /\ Fits(0, on) /\ au = [on EXCEPT !.daisy_vectaddr = c.address]
      /\ Fits(0, ad) /\ ~ad.daisy_input /\ Served(ad) = Served(a)
  <2>1. Fits(0, a) /\ c.address \in Vectors
    BY <1>1 DEF Chain
  <2> HIDE DEF a
  <2>2. QED
    BY <2>1, DaisyFits, Zenon
<1> HIDE DEF t
<1>8. Chain(down) /\ down.vic[0] = ad /\ down.vic[1] = c
  <2>1. down = [t EXCEPT !.vic[0] = ad]
    BY <1>6
  <2> HIDE DEF ad, down, a
  <2>2. QED
    BY <1>6, <1>7, <2>1, ChainPut
<1>9. Chain(up) /\ up.vic[0] = au /\ up.vic[1] = c
  <2> DEFINE m == [t EXCEPT !.vic[0] = on]
  <2>1. up = [m EXCEPT !.vic[0] = [m.vic[0] EXCEPT !.daisy_vectaddr = c.address]]
    BY <1>6 DEF Chain
  <2> HIDE DEF on, up, a
  <2>2. Chain(m) /\ m.vic[0] = on /\ m.vic[1] = c
    BY <1>6, <1>7, ChainPut
  <2> HIDE DEF m
  <2>3. QED
    BY <1>7, <2>1, <2>2, ChainPut DEF on
<1> HIDE DEF au, ad, on, up, down
<1>10. CASE Drive(c) = "raise"
  <2>1. Update1(s) = Update0(up) /\ IrqStatus(c) # {}
    BY <1>3, <1>4, <1>5, <1>10
  <2>2. /\ Chain(Update0(up)) /\ Update0(up).vic[1] = c /\ Update0(up).vic[0] = Select(au)
        /\ ParentFits(Update0(up).vic[0], Update0(up).irq)
    BY <1>9, Update0Is
  <2>3. /\ Served(Select(au)) = Served(au) /\ Select(au).daisy_input = au.daisy_input
        /\ Select(au).daisy_vectaddr = au.daisy_vectaddr
    <3>1. Served(Select(au)) = Served(au) /\ Config(Select(au)) = Config(au)
      BY <1>7, SelectIs DEF Fits
    <3>2. QED
      BY <3>1, ConfigDecides
  <2>4. ChildFits(Select(au), c)
    BY <1>1, <1>2, <1>7, <2>1, <2>3 DEF ChildFits
  <2>5. QED
    BY <1>7, <2>1, <2>2, <2>3, <2>4 DEF c
<1>11. CASE Drive(c) = "lower"
  <2>1. Update1(s) = Update0(down) /\ IrqStatus(c) = {}
    BY <1>3, <1>5, <1>11
  <2>2. /\ Chain(Update0(down)) /\ Update0(down).vic[1] = c /\ Update0(down).vic[0] = Select(ad)
        /\ ParentFits(Update0(down).vic[0], Update0(down).irq)
    BY <1>8, Update0Is
  <2>3. Served(Select(ad)) = Served(ad) /\ Select(ad).daisy_input = ad.daisy_input
    BY <1>7, SelectIs, ConfigDecides DEF Fits
  <2>4. ChildFits(Select(ad), c)
    BY <1>1, <1>2, <1>7, <2>1, <2>3 DEF ChildFits
  <2>5. QED
    BY <1>7, <2>1, <2>2, <2>3, <2>4 DEF c
<1>12. CASE Drive(c) = "leave"
  <2>1. Update1(s) = t /\ IrqStatus(c) # {} /\ c.stack # <<>>
    BY <1>3, <1>4, <1>5, <1>12
  <2>2. ChildFits(a, c)
    BY <1>1, <1>2, <2>1 DEF ChildFits
  <2>3. QED
    BY <1>6, <2>1, <2>2 DEF c
<1>13. QED
  BY <1>3, <1>10, <1>11, <1>12

-----------------------------------------------------------------------------
(* The steps *)

(* The state as a chain, and a chain that fits as the next state.          *)
LEMMA ChainHas ==
    ASSUME ChainInv
    PROVE  Chain(chain) /\ chain.vic = vic /\ chain.irq = irq
<1>1. vic \in [0..1 -> Controller(0) \cup Controller(1)]
  BY DEF ChainInv
<1>2. chain.vic = vic /\ chain.irq = irq /\ chain.fiq = fiq
  BY DEF chain
<1>3. chain \in [vic: [0..1 -> Controller(0) \cup Controller(1)], irq: BOOLEAN, fiq: BOOLEAN]
  BY <1>1 DEF chain, ChainInv
<1>4. QED
  BY <1>2, <1>3 DEF Chain, ChainInv

(* A chain that fits, taken over by an operation, keeps the invariant.     *)
LEMMA BecomesFits ==
    ASSUME NEW u, Chain(u), Becomes(u), ParentFits(u.vic[0], u.irq), ChildFits(u.vic[0], u.vic[1]),
           depth' \in 0..MaxDepth, deep' \in BOOLEAN, acting' \in Environments,
           ~deep' => Counted(u.vic[0].stack, u.vic[1].stack, depth')
    PROVE  ChainInv'
<1>1. vic' = u.vic /\ irq' = u.irq /\ fiq' = u.fiq
  BY DEF Becomes
<1>2. /\ u.vic \in [0..1 -> Controller(0) \cup Controller(1)] /\ Fits(0, u.vic[0]) /\ Fits(1, u.vic[1])
      /\ u.irq \in BOOLEAN /\ u.fiq \in BOOLEAN
  BY DEF Chain
<1>3. QED
  BY <1>1, <1>2, Zenon DEF ChainInv

(* What vic1 says of vic0 it says of the daisy input.                      *)
LEMMA SameDaisy ==
    ASSUME NEW a, NEW b, NEW c, ChildFits(a, c), b.daisy_input = a.daisy_input,
           b.daisy_vectaddr = a.daisy_vectaddr
    PROVE  ChildFits(b, c)
BY Zenon DEF ChildFits

(* A write to vic0 that leaves what it serves and its daisy input ...      *)
LEMMA WriteParent ==
    ASSUME ChainInv, NEW a, Fits(0, a), a.stack = vic[0].stack,
           a.daisy_input = vic[0].daisy_input, a.daisy_vectaddr = vic[0].daisy_vectaddr,
           Becomes(Update0([chain EXCEPT !.vic[0] = a])), Same
    PROVE  ChainInv'
<1> DEFINE t == [chain EXCEPT !.vic[0] = a]
<1>1. Chain(t) /\ t.vic[0] = a /\ t.vic[1] = vic[1]
  BY ChainHas, ChainPut
<1> HIDE DEF t
<1>2. /\ Chain(Update0(t)) /\ Update0(t).vic[0] = Select(a) /\ Update0(t).vic[1] = vic[1]
      /\ ParentFits(Update0(t).vic[0], Update0(t).irq)
  BY <1>1, Update0Is
<1>3. Select(a).stack = a.stack /\ Config(Select(a)) = Config(a)
  BY SelectFits, SelectIs DEF Fits
<1>4. Select(a).daisy_input = a.daisy_input /\ Select(a).daisy_vectaddr = a.daisy_vectaddr
  BY <1>3, ConfigDecides
<1>5. ChildFits(Select(a), vic[1])
  BY <1>4, SameDaisy DEF ChainInv
<1>6. /\ depth' = depth /\ deep' = deep /\ acting' = acting /\ depth \in 0..MaxDepth /\ deep \in BOOLEAN
      /\ acting \in Environments /\ (~deep => Counted(vic[0].stack, vic[1].stack, depth))
  BY DEF Same, ChainInv
<1>7. QED
  BY <1>2, <1>3, <1>5, <1>6, BecomesFits DEF t

(* ... and one to vic1 that masks none of its levels.                      *)
LEMMA WriteChild ==
    ASSUME ChainInv, NEW b, Fits(1, b), b.stack = vic[1].stack, Unmasked(b),
           Becomes(Update1([chain EXCEPT !.vic[1] = b])), Same
    PROVE  ChainInv'
<1> DEFINE t == [chain EXCEPT !.vic[1] = b]
<1>1. Chain(t) /\ t.vic[0] = vic[0] /\ t.vic[1] = b /\ t.irq = irq
  BY ChainHas, ChainPut
<1> HIDE DEF t
<1>2. ParentFits(t.vic[0], t.irq) /\ Unmasked(t.vic[1])
  BY <1>1 DEF ChainInv
<1>3. /\ Chain(Update1(t)) /\ Update1(t).vic[1] = Select(b) /\ Served(Update1(t).vic[0]) = Served(vic[0])
      /\ ChildFits(Update1(t).vic[0], Update1(t).vic[1])
      /\ ParentFits(Update1(t).vic[0], Update1(t).irq)
  BY <1>1, <1>2, Update1Is
<1>4. Update1(t).vic[1].stack = vic[1].stack /\ Update1(t).vic[0].stack = vic[0].stack
  BY <1>3, SelectFits DEF Served
<1>5. /\ depth' = depth /\ deep' = deep /\ acting' = acting /\ depth \in 0..MaxDepth /\ deep \in BOOLEAN
      /\ acting \in Environments /\ (~deep => Counted(vic[0].stack, vic[1].stack, depth))
  BY DEF Same, ChainInv
<1>6. QED
  BY <1>3, <1>4, <1>5, BecomesFits DEF t

(* What a write of a register leaves, the mask of vic1 apart.              *)
Written(v, c, d) ==
    /\ Fits(v, d) /\ d.stack = c.stack
    /\ d.daisy_input = c.daisy_input /\ d.daisy_vectaddr = c.daisy_vectaddr
    /\ v = 1 => d.sw_priority_mask = c.sw_priority_mask

(* A write of any one register leaves what the controller serves.          *)
LEMMA RegisterFits ==
    ASSUME NEW v \in 0..1, NEW c, Fits(v, c)
    PROVE  /\ \A S \in SUBSET Sources[v] : /\ Written(v, c, [c EXCEPT !.rawintr = S])
                                           /\ Written(v, c, [c EXCEPT !.intenable = S])
                                           /\ Written(v, c, [c EXCEPT !.intselect = S])
                                           /\ Written(v, c, [c EXCEPT !.softint = S])
           /\ \A i \in Sources[v], p \in Levels : Written(v, c, [c EXCEPT !.vect_priority[i] = p])
           /\ \A i \in Sources[v], a \in Vectors : Written(v, c, [c EXCEPT !.vect_addr[i] = a])
           /\ \A p \in Levels : Written(v, c, [c EXCEPT !.daisy_priority = p])
           /\ \A S \in SUBSET Levels : v = 0 => Written(v, c, [c EXCEPT !.sw_priority_mask = S])
<1>0. c \in Controller(v) /\ Serving(c)
  BY SMTT(20) DEF Fits
<1> DEFINE Alike(d) == /\ d \in Controller(v) /\ Served(d) = Served(c)
                       /\ d.daisy_input = c.daisy_input /\ d.daisy_vectaddr = c.daisy_vectaddr
<1>1. ASSUME NEW d, Alike(d), v = 1 => d.sw_priority_mask = c.sw_priority_mask PROVE Written(v, c, d)
  <2>1. d.stack = c.stack /\ d.priority = c.priority /\ d.current = c.current
    BY <1>1 DEF Served
  <2>2. QED
    BY <1>0, <1>1, <2>1 DEF Written, Fits, Serving
<1>2. ASSUME NEW S \in SUBSET Sources[v]
      PROVE  /\ Written(v, c, [c EXCEPT !.rawintr = S]) /\ Written(v, c, [c EXCEPT !.intenable = S])
             /\ Written(v, c, [c EXCEPT !.intselect = S]) /\ Written(v, c, [c EXCEPT !.softint = S])
  <2>1. /\ Alike([c EXCEPT !.rawintr = S])
        /\ [c EXCEPT !.rawintr = S].sw_priority_mask = c.sw_priority_mask
    BY <1>0 DEF Controller, Served
  <2>2. /\ Alike([c EXCEPT !.intenable = S])
        /\ [c EXCEPT !.intenable = S].sw_priority_mask = c.sw_priority_mask
    BY <1>0 DEF Controller, Served
  <2>3. /\ Alike([c EXCEPT !.intselect = S])
        /\ [c EXCEPT !.intselect = S].sw_priority_mask = c.sw_priority_mask
    BY <1>0 DEF Controller, Served
  <2>4. /\ Alike([c EXCEPT !.softint = S])
        /\ [c EXCEPT !.softint = S].sw_priority_mask = c.sw_priority_mask
    BY <1>0, Zenon DEF Controller, Served
  <2> HIDE DEF Alike
  <2>5. QED
    BY <1>1, <2>1, <2>2, <2>3, <2>4
<1>3. ASSUME NEW i \in Sources[v], NEW p \in Levels PROVE Written(v, c, [c EXCEPT !.vect_priority[i] = p])
  <2>1. /\ Alike([c EXCEPT !.vect_priority[i] = p])
        /\ [c EXCEPT !.vect_priority[i] = p].sw_priority_mask = c.sw_priority_mask
    BY <1>0, Zenon DEF Controller, Served
  <2> HIDE DEF Alike
  <2>2. QED
    BY <1>1, <2>1, Zenon
<1>4. ASSUME NEW i \in Sources[v], NEW a \in Vectors PROVE Written(v, c, [c EXCEPT !.vect_addr[i] = a])
  <2>1. /\ Alike([c EXCEPT !.vect_addr[i] = a])
        /\ [c EXCEPT !.vect_addr[i] = a].sw_priority_mask = c.sw_priority_mask
    BY <1>0, Zenon DEF Controller, Served
  <2> HIDE DEF Alike
  <2>2. QED
    BY <1>1, <2>1, Zenon
<1>5. ASSUME NEW p \in Levels PROVE Written(v, c, [c EXCEPT !.daisy_priority = p])
  <2>1. /\ Alike([c EXCEPT !.daisy_priority = p])
        /\ [c EXCEPT !.daisy_priority = p].sw_priority_mask = c.sw_priority_mask
    BY <1>0 DEF Controller, Served
  <2> HIDE DEF Alike
  <2>2. QED
    BY <1>1, <2>1, Zenon
<1>6. ASSUME NEW S \in SUBSET Levels, v = 0 PROVE Written(v, c, [c EXCEPT !.sw_priority_mask = S])
  <2>1. Alike([c EXCEPT !.sw_priority_mask = S])
    BY <1>0 DEF Controller, Served
  <2> HIDE DEF Alike
  <2>2. QED
    BY <1>1, <1>6, <2>1
<1>7. QED
  BY <1>2, <1>3, <1>4, <1>5, <1>6

(* A write of a register, and a device that drives its line.               *)
LEMMA WriteFits ==
    ASSUME ChainInv, NEW v \in 0..1, NEW d, Written(v, vic[v], d),
           Becomes(pl192_update([chain EXCEPT !.vic[v] = d], v)), Same
    PROVE  ChainInv'
<1>1. CASE v = 0
  BY <1>1, WriteParent DEF pl192_update, Written
<1>2. CASE v = 1
  <2>1. Unmasked(d)
    BY <1>2 DEF ChainInv, ChildFits, Unmasked, Written
  <2>2. QED
    BY <1>2, <2>1, WriteChild DEF pl192_update, Written
<1>3. QED
  BY <1>1, <1>2

(* The guest masks no level of vic1: in no environment does it.            *)
LeavesMask1 == \A E \in Environments : "mask1" \notin E

(* A line that changes and the writes to one controller keep the invariant. *)
LEMMA RegistersStep ==
    ASSUME LeavesMask1, ChainInv, NEW v \in 0..1, NEW i \in Sources[v], NEW p \in Levels,
           \/ pl192_irq_handler(v, i) \/ WriteEnable(v, i) \/ WriteEnClear(v, i)
           \/ WriteSoftInt(v, i) \/ WriteSoftClear(v, i) \/ WriteVector(v, i)
           \/ WritePriority(v, i, p)
    PROVE  ChainInv'
<1> DEFINE c == vic[v]
<1>0. Fits(v, c) /\ (chain.vic)[v] = c
  BY ChainHas DEF ChainInv
<1>1. c.rawintr \subseteq Sources[v] /\ c.intenable \subseteq Sources[v] /\ c.softint \subseteq Sources[v]
  BY <1>0 DEF Fits, Controller
<1>2. ASSUME NEW d, Written(v, c, d), Becomes(pl192_update([chain EXCEPT !.vic[v] = d], v)), Same
      PROVE  ChainInv'
  BY <1>2, WriteFits
<1>3. CASE pl192_irq_handler(v, i)
  <2> DEFINE r == IF i \in c.rawintr THEN c.rawintr \ {i} ELSE c.rawintr \cup {i}
             d == [c EXCEPT !.rawintr = r]
  <2>1. Becomes(pl192_update([chain EXCEPT !.vic[v] = d], v)) /\ Same
    BY <1>0, <1>3, Zenon DEF pl192_irq_handler
  <2>2. r \subseteq Sources[v]
    BY <1>1
  <2> HIDE DEF r
  <2>3. Written(v, c, d)
    BY <1>0, <2>2, RegisterFits, Zenon
  <2> HIDE DEF d
  <2>4. QED
    BY <1>2, <2>1, <2>3
<1>4. CASE WriteEnable(v, i) \/ WriteEnClear(v, i)
  <2>1. PICK r \in {c.intenable \cup {i}, c.intenable \ {i}} :
            Becomes(pl192_update([chain EXCEPT !.vic[v] = [c EXCEPT !.intenable = r]], v)) /\ Same
    BY <1>0, <1>4, Zenon DEF WriteEnable, WriteEnClear
  <2>2. Written(v, c, [c EXCEPT !.intenable = r])
    BY <1>0, <1>1, <2>1, RegisterFits
  <2>3. QED
    BY <1>2, <2>1, <2>2
<1>5. CASE WriteSoftInt(v, i) \/ WriteSoftClear(v, i)
  <2>1. PICK r \in {c.softint \cup {i}, c.softint \ {i}} :
            Becomes(pl192_update([chain EXCEPT !.vic[v] = [c EXCEPT !.softint = r]], v)) /\ Same
    BY <1>0, <1>5, Zenon DEF WriteSoftInt, WriteSoftClear
  <2>2. Written(v, c, [c EXCEPT !.softint = r])
    BY <1>0, <1>1, <2>1, RegisterFits, Zenon
  <2>3. QED
    BY <1>2, <2>1, <2>2
<1>6. CASE WriteVector(v, i)
  <2>1. PICK a \in {Zero, <<v, i>>} :
            Becomes(pl192_update([chain EXCEPT !.vic[v] = [c EXCEPT !.vect_addr[i] = a]], v))
    BY <1>0, <1>6, Zenon DEF WriteVector
  <2>2. <<v, i>> \in Vectors /\ Zero \in Vectors
    <3>1. i \in Sources[0] \cup Sources[1]
      OBVIOUS
    <3>2. QED
      BY <3>1 DEF Vectors
  <2>3. Written(v, c, [c EXCEPT !.vect_addr[i] = a])
    BY <1>0, <2>1, <2>2, RegisterFits
  <2>4. QED
    BY <1>2, <1>6, <2>1, <2>3 DEF WriteVector
<1>7. CASE WritePriority(v, i, p)
  <2>1. /\ Becomes(pl192_update([chain EXCEPT !.vic[v] = [c EXCEPT !.vect_priority[i] = p]], v)) /\ Same
        /\ Written(v, c, [c EXCEPT !.vect_priority[i] = p])
    BY <1>0, <1>7, RegisterFits, Zenon DEF WritePriority
  <2>2. QED
    BY <1>2, <2>1
<1>8. QED
  BY <1>3, <1>4, <1>5, <1>6, <1>7

(* INTSELECT.                                                              *)
LEMMA SelectStep ==
    ASSUME ChainInv, NEW v \in 0..1, NEW S \in SUBSET Sources[v], WriteSelect(v, S)
    PROVE  ChainInv'
<1> DEFINE c == vic[v]
<1>1. Fits(v, c) /\ (chain.vic)[v] = c
  BY ChainHas DEF ChainInv
<1>2. /\ Becomes(pl192_update([chain EXCEPT !.vic[v] = [c EXCEPT !.intselect = S]], v)) /\ Same
      /\ Written(v, c, [c EXCEPT !.intselect = S])
  BY <1>1, RegisterFits, Zenon DEF WriteSelect
<1>3. QED
  BY <1>2, WriteFits

(* The writes of the daisy priority and of the mask of vic0.               *)
LEMMA OrderStep ==
    ASSUME LeavesMask1, ChainInv, NEW p \in Levels, NEW v \in 0..1, NEW S \in SUBSET Levels,
           WriteDaisy(p) \/ WriteMask(v, S)
    PROVE  ChainInv'
<1> DEFINE c == vic[0]
<1>0. Fits(0, c) /\ (chain.vic)[0] = c /\ 0 \in 0..1
  BY ChainHas DEF ChainInv
<1>1. CASE WriteDaisy(p)
  <2>1. /\ Becomes(pl192_update([chain EXCEPT !.vic[0] = [c EXCEPT !.daisy_priority = p]], 0)) /\ Same
        /\ Written(0, c, [c EXCEPT !.daisy_priority = p])
    BY <1>0, <1>1, RegisterFits, Zenon DEF WriteDaisy
  <2>2. QED
    BY <1>0, <2>1, WriteFits
<1>2. CASE WriteMask(v, S)
  <2>1. v = 0
    BY <1>2 DEF WriteMask, LeavesMask1, ChainInv
  <2>2. /\ Becomes(pl192_update([chain EXCEPT !.vic[0] = [c EXCEPT !.sw_priority_mask = S]], 0)) /\ Same
        /\ Written(0, c, [c EXCEPT !.sw_priority_mask = S])
    BY <1>0, <1>2, <2>1, RegisterFits, Zenon DEF WriteMask
  <2>3. QED
    BY <1>0, <2>2, WriteFits
<1>3. QED
  BY <1>1, <1>2

(* A frame pushed on a stack, or in place of the top one of a full stack.  *)
LEMMA PushIs ==
    ASSUME NEW F, NEW q \in Seq(F), NEW e \in F, NEW n, n \in Nat \ {0}, Len(q) <= n
    PROVE  LET r == Append(IF Len(q) = n THEN Front(q) ELSE q, e)
           IN /\ r \in Seq(F) /\ Len(r) \in 1..n /\ r # <<>> /\ r[Len(r)] = e
              /\ \A k \in 1..(Len(r) - 1) : k \in 1..Len(q) /\ r[k] = q[k]
<1> DEFINE below == IF Len(q) = n THEN Front(q) ELSE q
           r == Append(below, e)
<1>1. Len(q) \in Nat
  BY SMTT(20)
<1>2. /\ below \in Seq(F) /\ Len(below) \in 0..(n - 1) /\ Len(below) <= Len(q)
      /\ \A k \in 1..Len(below) : below[k] = q[k]
  <2>1. CASE Len(q) = n
    <3>1. q # <<>>
      BY <2>1
    <3>2. below = Front(q)
      BY <2>1
    <3>3. Front(q) \in Seq(F) /\ Len(Front(q)) = n - 1 /\ \A k \in 1..(n - 1) : Front(q)[k] = q[k]
      BY <2>1, <3>1, FrontIs
    <3>4. QED
      BY <2>1, <3>2, <3>3
  <2>2. CASE Len(q) # n
    BY <1>1, <2>2
  <2>3. QED
    BY <2>1, <2>2
<1> HIDE DEF below
<1>3. /\ r \in Seq(F) /\ Len(r) = Len(below) + 1 /\ r[Len(below) + 1] = e
      /\ \A k \in 1..Len(below) : r[k] = below[k]
  BY <1>2, AppendIs
<1> HIDE DEF r
<1>4. r # <<>> /\ r[Len(r)] = e /\ Len(r) \in 1..n
  BY <1>2, <1>3
<1>5. \A k \in 1..(Len(r) - 1) : k \in 1..Len(q) /\ r[k] = q[k]
  BY <1>1, <1>2, <1>3
<1>6. QED
  BY <1>3, <1>4, <1>5 DEF r, below

(* The frames of the daisy input, when one frame is pushed ...             *)
LEMMA PushCounts ==
    ASSUME NEW q \in Seq(Frame(0)), NEW f \in Frame(0)
    PROVE  /\ Len(Append(q, f)) = Len(q) + 1 /\ Cardinality(Daisies(q)) \in Nat
           /\ f.irq = DAISY => Cardinality(Daisies(Append(q, f))) = Cardinality(Daisies(q)) + 1
           /\ f.irq # DAISY => Cardinality(Daisies(Append(q, f))) = Cardinality(Daisies(q))
<1> DEFINE n == Len(q)
           r == Append(q, f)
<1>1. n \in Nat /\ Len(r) = n + 1 /\ r[n + 1] = f /\ \A k \in 1..n : r[k] = q[k]
  BY AppendIs
<1>2. IsFiniteSet(1..n) /\ Daisies(q) \subseteq 1..n
  BY <1>1, FS_Interval DEF Daisies
<1>3. IsFiniteSet(Daisies(q)) /\ Cardinality(Daisies(q)) \in Nat
  BY <1>2, FS_Subset, FS_CardinalityType
<1> HIDE DEF r, n
<1>4. f.irq = DAISY => Daisies(r) = Daisies(q) \cup {n + 1}
  BY <1>1 DEF Daisies, n
<1>5. f.irq # DAISY => Daisies(r) = Daisies(q)
  BY <1>1 DEF Daisies, n
<1>6. n + 1 \notin Daisies(q)
  BY <1>1, <1>2
<1>7. Cardinality(Daisies(q) \cup {n + 1}) = Cardinality(Daisies(q)) + 1
  BY <1>3, <1>6, FS_AddElement, Zenon
<1>8. QED
  BY <1>1, <1>3, <1>4, <1>5, <1>7, Zenon DEF r, n

(* ... and when the top one is popped.                                     *)
LEMMA PopCounts ==
    ASSUME NEW q \in Seq(Frame(0)), q # <<>>
    PROVE  /\ Len(Front(q)) = Len(q) - 1 /\ Cardinality(Daisies(q)) \in Nat
           /\ q[Len(q)].irq = DAISY => /\ Cardinality(Daisies(q)) # 0
                                       /\ Cardinality(Daisies(Front(q))) = Cardinality(Daisies(q)) - 1
           /\ q[Len(q)].irq # DAISY => Cardinality(Daisies(Front(q))) = Cardinality(Daisies(q))
<1> DEFINE n == Len(q)
           r == Front(q)
<1>1. n \in Nat \ {0} /\ Len(r) = n - 1 /\ \A k \in 1..(n - 1) : r[k] = q[k]
  BY FrontIs
<1>2. IsFiniteSet(1..n) /\ Daisies(q) \subseteq 1..n
  BY <1>1, FS_Interval DEF Daisies
<1>3. IsFiniteSet(Daisies(q)) /\ Cardinality(Daisies(q)) \in Nat
  BY <1>2, FS_Subset, FS_CardinalityType
<1> HIDE DEF r, n
<1>4. q[n].irq = DAISY => Daisies(r) = Daisies(q) \ {n} /\ n \in Daisies(q)
  BY <1>1 DEF Daisies, n
<1>5. q[n].irq # DAISY => Daisies(r) = Daisies(q)
  BY <1>1 DEF Daisies, n
<1>6. ASSUME n \in Daisies(q)
      PROVE  Cardinality(Daisies(q)) # 0 /\ Cardinality(Daisies(q) \ {n}) = Cardinality(Daisies(q)) - 1
  <2>1. Cardinality(Daisies(q) \ {n}) = Cardinality(Daisies(q)) - 1
    BY <1>3, <1>6, FS_RemoveElement, Zenon
  <2>2. Cardinality(Daisies(q)) # 0
    BY <1>3, <1>6, FS_EmptySet
  <2>3. QED
    BY <2>1, <2>2
<1>7. QED
  BY <1>1, <1>3, <1>4, <1>5, <1>6 DEF r, n

(* A controller whose selection and registers stay selects what it did.    *)
LEMMA SelectsKept ==
    ASSUME NEW c, NEW d, Selects(c), Config(d) = Config(c),
           d.current_highest = c.current_highest, d.address = c.address
    PROVE  Selects(d)
<1>1. /\ IrqStatus(d) = IrqStatus(c) /\ (Quiet(d) <=> Quiet(c))
      /\ pl192_priority_sorter(d) = pl192_priority_sorter(c)
      /\ d.vect_addr = c.vect_addr /\ d.daisy_vectaddr = c.daisy_vectaddr
  BY ConfigDecides
<1>2. QED
  BY <1>1, Zenon DEF Selects

(* An acknowledged controller serves what it had selected.                 *)
LEMMA AckedFits ==
    ASSUME NEW v \in 0..1, NEW c, Fits(v, c), c.current_highest # NO_IRQ
    PROVE  /\ Fits(v, Acked(c)) /\ Config(Acked(c)) = Config(c)
           /\ Acked(c).current_highest = c.current_highest /\ Acked(c).address = c.address
           /\ Acked(c).stack # <<>>
           /\ Len(c.stack) < LEVELS =>
                 \E f \in Frame(v) : f.irq = c.current_highest /\ Acked(c).stack = Append(c.stack, f)
<1> DEFINE h == c.current_highest
           b == [c EXCEPT !.current = h]
           p == PriorityOf(b, h)
           f == [irq |-> h, priority |-> p]
           r == Append(IF Len(c.stack) = LEVELS THEN Front(c.stack) ELSE c.stack, f)
           a == [b EXCEPT !.stack = r, !.priority = p]
<1>0. c \in Controller(v) /\ h \in Interrupts(v) /\ c.stack \in Seq(Frame(v)) /\ LEVELS \in Nat \ {0}
  BY PL192Assumption DEF Fits, Controller
<1>1. b \in Controller(v) /\ b.stack = c.stack /\ b.current = h
  BY <1>0, Zenon DEF Controller
<1>2. p \in 0..(LEVELS + 1)
  <2>1. b.daisy_priority \in Levels /\ \A i \in Sources[v] : b.vect_priority[i] \in Levels
    BY <1>1 DEF Controller
  <2>2. h \in Sources[v] \/ h = DAISY
    BY <1>0 DEF Interrupts
  <2>3. p \in Levels
    BY <2>1, <2>2, PL192Assumption DEF PriorityOf, NO_IRQ, DAISY, PL192Assumption
  <2>4. QED
    BY <1>0, <2>3 DEF Levels
<1>3. Acked(c) = a
  <2>1. Acked(c) = [b EXCEPT !.stack = Append(IF Len(b.stack) = LEVELS THEN Front(b.stack) ELSE b.stack,
                                              [irq |-> b.current, priority |-> PriorityOf(b, b.current)]),
                             !.priority = [irq |-> b.current, priority |-> PriorityOf(b, b.current)].priority]
    BY Zenon DEF Acked, pl192_mask_priority
  <2>2. [irq |-> b.current, priority |-> PriorityOf(b, b.current)] = f /\ f.priority = p
    BY <1>1, Zenon
  <2>3. QED
    BY <1>1, <2>1, <2>2, Zenon
<1>4. f \in Frame(v) /\ f.irq = h
  BY <1>0, <1>2, Zenon DEF Frame
<1> HIDE DEF f, p
<1>5. Len(c.stack) <= LEVELS
  BY DEF Fits, Serving
<1>6. /\ r \in Seq(Frame(v)) /\ Len(r) \in 1..LEVELS /\ r # <<>> /\ r[Len(r)] = f
      /\ \A k \in 1..(Len(r) - 1) : k \in 1..Len(c.stack) /\ r[k] = c.stack[k]
  BY <1>0, <1>4, <1>5, PushIs
<1>7. Len(c.stack) < LEVELS => r = Append(c.stack, f)
  BY <1>0
<1> HIDE DEF r
<1>8. /\ a \in Controller(v) /\ a.stack = r /\ a.current = h /\ Config(a) = Config(b)
      /\ a.current_highest = b.current_highest /\ a.address = b.address
  BY <1>1, <1>2, <1>6, Zenon DEF Controller, Config
<1>9. Config(b) = Config(c) /\ b.current_highest = h /\ b.address = c.address
  BY <1>0, Zenon DEF Controller, Config
<1>10. Serving(a)
  <2>1. \A k \in 1..Len(c.stack) : c.stack[k].irq # NO_IRQ
    BY DEF Fits, Serving
  <2>2. \A k \in 1..Len(r) : r[k].irq # NO_IRQ
    <3>1. ASSUME NEW k \in 1..Len(r) PROVE r[k].irq # NO_IRQ
      <4>1. k = Len(r) \/ k \in 1..(Len(r) - 1)
        BY <1>6
      <4>2. QED
        BY <1>4, <1>6, <2>1, <4>1
    <3>2. QED
      BY <3>1
  <2>3. Len(r) <= LEVELS
    BY <1>0, <1>6
  <2>4. QED
    BY <1>4, <1>6, <1>8, <2>2, <2>3, Zenon DEF Serving
<1> HIDE DEF a, b
<1>11. QED
  BY <1>3, <1>4, <1>6, <1>7, <1>8, <1>9, <1>10, Zenon DEF Fits

(* A controller that is done with what it serves goes back to what it      *)
(* served before.                                                          *)
LEMMA UnmaskFits ==
    ASSUME NEW v \in 0..1, NEW c, Fits(v, c)
    PROVE  LET d == pl192_unmask_priority(c)
           IN /\ Fits(v, d) /\ Config(d) = Config(c)
              /\ d.current_highest = c.current_highest /\ d.address = c.address
              /\ d.stack = IF c.stack = <<>> THEN <<>> ELSE Front(c.stack)
<1>1. CASE c.stack = <<>>
  BY <1>1, Zenon DEF pl192_unmask_priority
<1>2. CASE c.stack # <<>>
  <2> DEFINE q == c.stack
             below == Front(q)
             f == IF below = <<>> THEN Idle ELSE Last(below)
             fp == f.priority
             fi == f.irq
             d == [c EXCEPT !.stack = below, !.priority = fp, !.current = fi]
  <2>0. pl192_unmask_priority(c) = d
    BY <1>2, Zenon DEF pl192_unmask_priority
  <2>1. c \in Controller(v) /\ q \in Seq(Frame(v)) /\ LEVELS \in Nat \ {0} /\ Serving(c)
    BY PL192Assumption DEF Fits, Controller
  <2>2. /\ Len(q) \in Nat \ {0} /\ below \in Seq(Frame(v)) /\ Len(below) = Len(q) - 1
        /\ \A k \in 1..(Len(q) - 1) : below[k] = q[k]
        /\ (below = <<>> <=> Len(q) = 1)
    BY <1>2, <2>1, FrontIs
  <2>3. below = <<>> => fp = LEVELS /\ fi = NO_IRQ
    BY SMTT(20) DEF Idle
  <2>4. below # <<>> => f = below[Len(below)]
    BY DEF Last
  <2>5. fp \in 0..(LEVELS + 1) /\ fi \in Interrupts(v)
    <3>1. CASE below = <<>>
      BY <2>1, <2>3, <3>1 DEF Interrupts
    <3>2. CASE below # <<>>
      <4>1. below[Len(below)] \in Frame(v)
        BY <2>2, <3>2
      <4>2. QED
        BY <2>4, <3>2, <4>1 DEF Frame
    <3>3. QED
      BY <3>1, <3>2
  <2>6. /\ \A k \in 1..Len(below) : below[k].irq # NO_IRQ
        /\ Len(below) <= LEVELS
    <3>1. Len(q) <= LEVELS /\ \A k \in 1..Len(q) : q[k].irq # NO_IRQ
      BY <2>1 DEF Serving
    <3>2. QED
      BY <2>1, <2>2, <3>1
  <2>7. below # <<>> => fi = below[Len(below)].irq
    BY <2>4
  <2> HIDE DEF below, f, fp, fi
  <2>8. /\ d \in Controller(v) /\ d.stack = below /\ d.priority = fp /\ d.current = fi
        /\ Config(d) = Config(c) /\ d.current_highest = c.current_highest /\ d.address = c.address
    BY <2>1, <2>2, <2>5, Zenon DEF Controller, Config
  <2>9. Serving(d)
    BY <2>3, <2>6, <2>7, <2>8, Zenon DEF Serving
  <2> HIDE DEF d
  <2>10. QED
    BY <1>2, <2>0, <2>8, <2>9, Zenon DEF Fits, below
<1>3. QED
  BY <1>1, <1>2

(* No more frames are of the daisy input than there are.                   *)
LEMMA DaisiesBounded ==
    ASSUME NEW q \in Seq(Frame(0))
    PROVE  Cardinality(Daisies(q)) <= Len(q)
<1>1. Len(q) \in Nat
  OBVIOUS
<1>2. /\ IsFiniteSet(1..Len(q)) /\ Daisies(q) \subseteq 1..Len(q)
      /\ Cardinality(1..Len(q)) = Len(q)
  BY <1>1, FS_Interval DEF Daisies
<1>3. QED
  BY <1>2, FS_Subset

(* A read of VECTADDR.  vic0 selects the daisy input only while vic1 has   *)
(* something pending, so both push a frame or only vic0 does.              *)
LEMMA AckStep == ASSUME ChainInv, Ack PROVE ChainInv'
<1> DEFINE a == vic[0]
           b == vic[1]
           h == a.current_highest
           child == IF h = DAISY THEN Acked(b) ELSE b
           s == [chain EXCEPT !.vic[0] = Acked(a), !.vic[1] = child]
<1>1. /\ Chain(chain) /\ chain.vic = vic /\ chain.irq = irq /\ Fits(0, a) /\ Fits(1, b)
      /\ ParentFits(a, irq) /\ ChildFits(a, b) /\ a \in Controller(0) /\ b \in Controller(1)
  BY ChainHas DEF ChainInv, Fits
<1>2. /\ depth \in Nat /\ LEVELS \in Nat \ {0} /\ MaxDepth \in Nat /\ MaxDepth >= LEVELS
      /\ deep \in BOOLEAN /\ acting \in Environments /\ depth \in 0..MaxDepth
  BY PL192Assumption, SMTT(20) DEF ChainInv, PL192Assumption
<1>3. CASE h = NO_IRQ
  <2>1. Becomes(chain) /\ depth' = depth /\ acting' = acting /\ deep' = (deep \/ depth > LEVELS)
    BY <1>1, <1>3, Zenon DEF Ack, pl192_irq_ack
  <2>2. deep' \in BOOLEAN /\ (~deep' => ~deep)
    BY <2>1, Zenon
  <2>3. ~deep' => Counted(a.stack, b.stack, depth')
    BY <2>1, <2>2 DEF ChainInv
  <2>4. QED
    BY <1>1, <1>2, <2>1, <2>2, <2>3, BecomesFits
<1>4. CASE h # NO_IRQ
  <2>1. Becomes(Update0(s)) /\ depth' = depth + 1 /\ acting' = acting /\ deep' = (deep \/ depth' > LEVELS)
    BY <1>1, <1>4, Zenon DEF Ack, pl192_irq_ack
  <2>2. depth < MaxDepth
    BY <1>2 DEF Ack
  <2>3. depth' \in 0..MaxDepth /\ deep' \in BOOLEAN
    BY <1>2, <2>1, <2>2
  <2>4. /\ Fits(0, Acked(a)) /\ Config(Acked(a)) = Config(a)
        /\ Len(a.stack) < LEVELS =>
              \E f \in Frame(0) : f.irq = h /\ Acked(a).stack = Append(a.stack, f)
    BY <1>1, <1>4, AckedFits
  <2>5. h = DAISY => b.current_highest # NO_IRQ
    <3>1. h = DAISY => DaisyOpen(a)
      BY <1>1, SelectedHas, SMTT(20) DEF ParentFits
    <3>2. h = DAISY => IrqStatus(b) # {} /\ Unmasked(b) /\ Selects(b)
      BY <1>1, <3>1 DEF DaisyOpen, ChildFits
    <3>3. NO_IRQ \notin IrqStatus(b)
      BY <1>1, Numbers, SMTT(20)
    <3>4. QED
      BY <1>1, <3>2, <3>3, SelectedHas
  <2>6. /\ Fits(1, child) /\ ChildFits(a, child)
        /\ h # DAISY => child.stack = b.stack
        /\ h = DAISY /\ Len(b.stack) < LEVELS =>
              \E f \in Frame(1) : child.stack = Append(b.stack, f)
    <3>1. CASE h # DAISY
      BY <1>1, <3>1, SMTT(20)
    <3>2. CASE h = DAISY
      <4>1. child = Acked(b)
        BY <3>2, SMTT(20)
      <4>2. /\ Fits(1, Acked(b)) /\ Config(Acked(b)) = Config(b) /\ Acked(b).stack # <<>>
            /\ Acked(b).current_highest = b.current_highest /\ Acked(b).address = b.address
            /\ Len(b.stack) < LEVELS => \E f \in Frame(1) : Acked(b).stack = Append(b.stack, f)
        BY <1>1, <2>5, <3>2, AckedFits
      <4>3. /\ IrqStatus(Acked(b)) = IrqStatus(b) /\ Acked(b).daisy_input = b.daisy_input
            /\ Acked(b).sw_priority_mask = b.sw_priority_mask
        BY <4>2, ConfigDecides, SMTT(20)
      <4>4. Selects(Acked(b))
        BY <1>1, <4>2, SelectsKept DEF ChildFits
      <4>5. ChildFits(a, Acked(b))
        BY <1>1, <4>2, <4>3, <4>4, Zenon DEF ChildFits, Unmasked
      <4>6. QED
        BY <3>2, <4>1, <4>2, <4>5
    <3>3. QED
      BY <3>1, <3>2
  <2> DEFINE x == Acked(a)
  <2> HIDE DEF child, x
  <2>7. Chain(s) /\ s.vic[0] = x /\ s.vic[1] = child
    <3> DEFINE t == [chain EXCEPT !.vic[0] = x]
    <3>1. Chain(t) /\ t.vic[0] = x
      BY <1>1, <2>4, ChainPut DEF x
    <3> DEFINE u == [t EXCEPT !.vic[1] = child]
    <3>2. s = u
      BY Zenon DEF x
    <3> HIDE DEF t
    <3>3. Chain(u) /\ u.vic[1] = child /\ u.vic[0] = t.vic[0]
      BY <2>6, <3>1, ChainPut
    <3> HIDE DEF u, s
    <3>4. QED
      BY <3>1, <3>2, <3>3
  <2> HIDE DEF s
  <2> DEFINE u == Update0(s)
  <2>8. Chain(u) /\ u.vic[1] = child /\ u.vic[0] = Select(x) /\ ParentFits(u.vic[0], u.irq)
    BY <2>7, Update0Is
  <2>9. Config(Select(x)) = Config(x) /\ Select(x).stack = x.stack
    BY <2>4, SelectIs, SelectFits DEF x, Fits
  <2>10. ChildFits(Select(x), child)
    <3>1. Config(Select(x)) = Config(a)
      BY <2>4, <2>9 DEF x
    <3>2. Select(x).daisy_input = a.daisy_input /\ Select(x).daisy_vectaddr = a.daisy_vectaddr
      BY <3>1, ConfigDecides
    <3>3. QED
      BY <2>6, <3>2, SameDaisy
  <2>11. ASSUME ~deep' PROVE Counted(x.stack, child.stack, depth')
    <3>1. ~deep /\ depth + 1 <= LEVELS
      <4>1. ~deep /\ ~(depth' > LEVELS)
        BY <2>1, <2>11, Zenon
      <4>2. QED
        BY <1>2, <2>1, <4>1
    <3>2. Len(a.stack) = depth /\ Len(b.stack) = Cardinality(Daisies(a.stack))
      BY <3>1, SMTT(20) DEF ChainInv, Counted
    <3>3. a.stack \in Seq(Frame(0)) /\ b.stack \in Seq(Frame(1))
      BY <1>1 DEF Controller
    <3>4. PICK f \in Frame(0) : f.irq = h /\ x.stack = Append(a.stack, f)
      BY <1>2, <2>4, <3>1, <3>2 DEF x
    <3>5. /\ Len(x.stack) = depth' /\ Cardinality(Daisies(a.stack)) \in Nat
          /\ h = DAISY => Cardinality(Daisies(x.stack)) = Cardinality(Daisies(a.stack)) + 1
          /\ h # DAISY => Cardinality(Daisies(x.stack)) = Cardinality(Daisies(a.stack))
      BY <2>1, <3>2, <3>3, <3>4, PushCounts
    <3>6. CASE h # DAISY
      BY <2>6, <3>2, <3>5, <3>6 DEF Counted
    <3>7. CASE h = DAISY
      <4>1. Len(b.stack) < LEVELS
        BY <1>2, <3>1, <3>2, <3>3, DaisiesBounded
      <4>2. PICK g \in Frame(1) : child.stack = Append(b.stack, g)
        BY <2>6, <3>7, <4>1
      <4>3. Len(child.stack) = Len(b.stack) + 1
        BY <3>3, <4>2, AppendIs
      <4>4. QED
        BY <3>2, <3>5, <3>7, <4>3 DEF Counted
    <3>8. QED
      BY <3>6, <3>7
  <2> HIDE DEF u
  <2>12. ChildFits(u.vic[0], u.vic[1]) /\ (~deep' => Counted(u.vic[0].stack, u.vic[1].stack, depth'))
    BY <2>8, <2>9, <2>10, <2>11
  <2>13. QED
    BY <1>2, <2>1, <2>3, <2>8, <2>12, BecomesFits DEF u
<1>5. QED
  BY <1>3, <1>4

(* A write of VECTADDR: what vic0 serves is done, and with the daisy input *)
(* what vic1 serves, whose line is then driven afresh.                     *)
LEMMA FinStep == ASSUME ChainInv, Fin PROVE ChainInv'
<1> DEFINE a == vic[0]
           b == vic[1]
           x == pl192_unmask_priority(a)
           y == pl192_unmask_priority(b)
           t == [chain EXCEPT !.vic[0] = x]
           s == [t EXCEPT !.vic[1] = y]
           w == IF a.current = DAISY THEN Update1(s) ELSE t
<1>1. /\ Chain(chain) /\ chain.vic = vic /\ Fits(0, a) /\ Fits(1, b)
      /\ ChildFits(a, b) /\ a.stack \in Seq(Frame(0)) /\ b.stack \in Seq(Frame(1))
  BY ChainHas, Zenon DEF ChainInv, Fits, Controller
<1>2. Fits(0, x) /\ Config(x) = Config(a) /\ x.stack = IF a.stack = <<>> THEN <<>> ELSE Front(a.stack)
  BY <1>1, UnmaskFits
<1>3. Fits(1, y) /\ Config(y) = Config(b) /\ y.stack = IF b.stack = <<>> THEN <<>> ELSE Front(b.stack)
  BY <1>1, UnmaskFits
<1> HIDE DEF x, y
<1>4. Chain(t) /\ t.vic[0] = x /\ t.vic[1] = b
  <2>1. Chain(chain) /\ Fits(0, x)
    BY <1>1, <1>2
  <2>2. Chain(t) /\ t.vic[0] = x /\ t.vic[1] = chain.vic[1]
    BY <2>1, ChainPut
  <2>3. QED
    BY <1>1, <2>2
<1> HIDE DEF t
<1>5. Becomes(Update0(w)) /\ depth' = depth - 1 /\ deep' = deep /\ acting' = acting /\ depth > 0
  <2>1. s = [t EXCEPT !.vic[1] = pl192_unmask_priority(t.vic[1])]
    BY <1>4 DEF y
  <2>2. /\ Becomes(pl192_irq_fin(chain)) /\ depth' = depth - 1 /\ deep' = deep
        /\ acting' = acting /\ depth > 0
    BY DEF Fin
  <2> DEFINE p == [chain EXCEPT !.vic[0] = pl192_unmask_priority(chain.vic[0])]
  <2>3. pl192_irq_fin(chain) =
            Update0(IF chain.vic[0].current = DAISY
                    THEN Update1([p EXCEPT !.vic[1] = pl192_unmask_priority(p.vic[1])]) ELSE p)
    BY Zenon DEF pl192_irq_fin
  <2>4. p = t
    BY <1>1 DEF t, x
  <2> HIDE DEF p, s
  <2>5. pl192_irq_fin(chain) = Update0(w)
    BY <1>1, <2>1, <2>3, <2>4, Zenon
  <2>6. QED
    BY <2>2, <2>5
<1>6. depth' \in 0..MaxDepth /\ depth \in Nat \ {0} /\ deep' \in BOOLEAN /\ acting' \in Environments
  BY <1>5, PL192Assumption DEF ChainInv, PL192Assumption
<1>7. Chain(s) /\ s.vic[0] = x /\ s.vic[1] = y
  BY <1>3, <1>4, ChainPut
<1> HIDE DEF s
<1>8. /\ Chain(w) /\ w.vic[0].stack = x.stack /\ ChildFits(w.vic[0], w.vic[1])
      /\ a.current = DAISY => w.vic[1].stack = y.stack
      /\ a.current # DAISY => w.vic[1].stack = b.stack
  <2>1. CASE a.current = DAISY
    <3>1. Unmasked(y)
      BY <1>1, <1>3, ConfigDecides DEF ChildFits, Unmasked
    <3>2. /\ Chain(Update1(s)) /\ Update1(s).vic[1] = Select(y)
          /\ Served(Update1(s).vic[0]) = Served(x)
          /\ ChildFits(Update1(s).vic[0], Update1(s).vic[1])
      BY <1>7, <3>1, Update1Is
    <3>3. Select(y).stack = y.stack
      BY <1>3, SelectFits, SMTT(20)
    <3>4. QED
      BY <2>1, <3>2, <3>3 DEF Served
  <2>2. CASE a.current # DAISY
    <3>1. x.daisy_input = a.daisy_input /\ x.daisy_vectaddr = a.daisy_vectaddr
      BY <1>2, ConfigDecides
    <3>2. ChildFits(x, b)
      BY <1>1, <3>1, SameDaisy
    <3>3. QED
      BY <1>4, <2>2, <3>2
  <2>3. QED
    BY <2>1, <2>2, SMTT(20)
<1> HIDE DEF w
<1> DEFINE u == Update0(w)
<1>9. Chain(u) /\ u.vic[1] = w.vic[1] /\ u.vic[0] = Select(w.vic[0]) /\ ParentFits(u.vic[0], u.irq)
  BY <1>8, Update0Is
<1>10. Fits(0, w.vic[0])
  BY <1>8, SMTT(20) DEF Chain
<1>11. /\ Select(w.vic[0]).stack = x.stack /\ Select(w.vic[0]).daisy_input = (w.vic[0]).daisy_input
       /\ Select(w.vic[0]).daisy_vectaddr = (w.vic[0]).daisy_vectaddr
  <2>1. Config(Select(w.vic[0])) = Config(w.vic[0]) /\ Select(w.vic[0]).stack = (w.vic[0]).stack
    BY <1>10, SelectIs, SelectFits DEF Fits
  <2>2. QED
    BY <1>8, <2>1, ConfigDecides
<1>12. ChildFits(u.vic[0], u.vic[1])
  BY <1>8, <1>9, <1>11, SameDaisy
<1>13. ASSUME ~deep' PROVE Counted(x.stack, w.vic[1].stack, depth')
  <2>1. Len(a.stack) = depth /\ Len(b.stack) = Cardinality(Daisies(a.stack))
    BY <1>5, <1>13, SMTT(20) DEF ChainInv, Counted
  <2>2. a.stack # <<>>
    BY <1>1, <1>6, <2>1
  <2>3. a.current = a.stack[Len(a.stack)].irq
    BY <1>1, <2>2, SMTT(20) DEF Fits, Serving
  <2>4. /\ Len(x.stack) = depth' /\ Cardinality(Daisies(a.stack)) \in Nat
        /\ a.current = DAISY => /\ Cardinality(Daisies(a.stack)) # 0
                                /\ Cardinality(Daisies(x.stack)) = Cardinality(Daisies(a.stack)) - 1
        /\ a.current # DAISY => Cardinality(Daisies(x.stack)) = Cardinality(Daisies(a.stack))
    BY <1>1, <1>2, <1>5, <2>1, <2>2, <2>3, PopCounts
  <2>5. CASE a.current # DAISY
    BY <1>8, <2>1, <2>4, <2>5 DEF Counted
  <2>6. CASE a.current = DAISY
    <3>1. b.stack # <<>>
      BY <1>1, <2>1, <2>4, <2>6
    <3>2. Len(y.stack) = Len(b.stack) - 1
      BY <1>1, <1>3, <3>1, FrontIs
    <3>3. QED
      BY <1>8, <2>1, <2>4, <2>6, <3>2 DEF Counted
  <2>7. QED
    BY <2>5, <2>6
<1> HIDE DEF u
<1>14. ~deep' => Counted(u.vic[0].stack, u.vic[1].stack, depth')
  BY <1>9, <1>11, <1>13
<1>15. QED
  BY <1>5, <1>6, <1>9, <1>12, <1>14, BecomesFits DEF u

(* What is in the registers after a reset is of its type.                  *)
LEMMA ResetTypes ==
    ASSUME NEW v \in 0..1
    PROVE  /\ [i \in Sources[v] |-> LEVELS - 1] \in [Sources[v] -> Levels]
           /\ [i \in Sources[v] |-> Zero] \in [Sources[v] -> Vectors]
           /\ LEVELS - 1 \in Levels /\ LEVELS \in 0..(LEVELS + 1)
           /\ Zero \in Vectors /\ NO_IRQ \in Interrupts(v)
           /\ <<>> \in Seq(Frame(v)) /\ Len(<<>>) = 0
<1>1. LEVELS \in Nat \ {0}
  BY PL192Assumption DEF PL192Assumption
<1>2. LEVELS - 1 \in Levels /\ LEVELS \in 0..(LEVELS + 1)
  BY <1>1 DEF Levels
<1>3. Zero \in Vectors /\ NO_IRQ \in Interrupts(v)
  BY DEF Vectors, Interrupts
<1>4. <<>> \in Seq(Frame(v)) /\ Len(<<>>) = 0
  BY EmptyIs
<1>5. QED
  BY <1>2, <1>3, <1>4

(* A controller that serves nothing.                                       *)
LEMMA NothingServed ==
    ASSUME NEW v \in 0..1, NEW c \in Controller(v), c.stack = <<>>, c.current = NO_IRQ,
           c.priority = LEVELS
    PROVE  Fits(v, c)
<1>1. Len(<<>>) = 0 /\ LEVELS \in Nat
  BY PL192Assumption DEF PL192Assumption
<1>2. Len(c.stack) <= LEVELS /\ \A k \in 1..Len(c.stack) : c.stack[k].irq # NO_IRQ
  BY <1>1
<1>3. QED
  BY <1>2, Zenon DEF Fits, Serving

(* pl192_reset leaves the daisy input as it was driven.                    *)
LEMMA ResetFits ==
    ASSUME NEW v \in 0..1, NEW c, Fits(v, c)
    PROVE  LET r == ResetOf(v, c)
           IN /\ Fits(v, r) /\ r.stack = <<>> /\ r.sw_priority_mask = Levels
              /\ r.daisy_input = c.daisy_input /\ r.daisy_vectaddr = c.daisy_vectaddr
<1> DEFINE p == [i \in Sources[v] |-> LEVELS - 1]
           q == [i \in Sources[v] |-> Zero]
           r == [c EXCEPT !.intenable = {}, !.intselect = {}, !.softint = {}, !.sw_priority_mask = Levels,
                          !.vect_priority = p, !.vect_addr = q, !.address = Zero,
                          !.current = NO_IRQ, !.current_highest = NO_IRQ, !.stack = <<>>,
                          !.priority = LEVELS, !.daisy_priority = LEVELS - 1]
<1>1. ResetOf(v, c) = r
  BY Zenon DEF ResetOf
<1>2. p \in [Sources[v] -> Levels] /\ q \in [Sources[v] -> Vectors]
  BY ResetTypes
<1> HIDE DEF p, q
<1>3. c \in Controller(v)
  BY DEF Fits
<1>4. r \in Controller(v)
  BY <1>2, <1>3, ResetTypes DEF Controller
<1>5. /\ r.stack = <<>> /\ r.sw_priority_mask = Levels /\ r.current = NO_IRQ /\ r.priority = LEVELS
      /\ r.daisy_input = c.daisy_input /\ r.daisy_vectaddr = c.daisy_vectaddr
  BY <1>3, SMTT(20) DEF Controller
<1> HIDE DEF r
<1>6. QED
  BY <1>1, <1>4, <1>5, NothingServed

(* A controller as it is made: with all its lines down.                    *)
LEMMA BlankFits ==
    ASSUME NEW v \in 0..1
    PROVE  /\ Fits(v, Blank(v)) /\ Blank(v).stack = <<>> /\ Unmasked(Blank(v))
           /\ Blank(v).rawintr = {} /\ Blank(v).softint = {} /\ Blank(v).current_highest = NO_IRQ
<1> DEFINE p == [i \in Sources[v] |-> LEVELS - 1]
           q == [i \in Sources[v] |-> Zero]
           zero == [rawintr |-> {}, intenable |-> {}, intselect |-> {}, softint |-> {},
                sw_priority_mask |-> {}, vect_priority |-> <<>>, vect_addr |-> <<>>, address |-> Zero,
                current |-> NO_IRQ, current_highest |-> NO_IRQ, stack |-> <<>>, priority |-> 0,
                daisy_input |-> FALSE, daisy_vectaddr |-> Zero, daisy_priority |-> 0]
           r == [zero EXCEPT !.intenable = {}, !.intselect = {}, !.softint = {}, !.sw_priority_mask = Levels,
                          !.vect_priority = p, !.vect_addr = q, !.address = Zero,
                          !.current = NO_IRQ, !.current_highest = NO_IRQ, !.stack = <<>>,
                          !.priority = LEVELS, !.daisy_priority = LEVELS - 1]
<1>1. Blank(v) = r
  BY Zenon DEF Blank, ResetOf
<1>2. p \in [Sources[v] -> Levels] /\ q \in [Sources[v] -> Vectors]
  BY ResetTypes
<1> HIDE DEF p, q
<1>3. r \in Controller(v)
  BY <1>2, ResetTypes, Zenon DEF Controller
<1>4. /\ r.stack = <<>> /\ r.sw_priority_mask = Levels /\ r.current = NO_IRQ /\ r.priority = LEVELS
      /\ r.daisy_input = FALSE /\ r.rawintr = {} /\ r.softint = {} /\ r.current_highest = NO_IRQ
  OBVIOUS
<1> HIDE DEF r
<1>5. QED
  BY <1>1, <1>3, <1>4, NothingServed DEF Unmasked

(* A chain whose guest has just been started over.                         *)
LEMMA EmptyCounted == Counted(<<>>, <<>>, 0)
<1>1. Len(<<>>) = 0 /\ Daisies(<<>>) = {}
  BY DEF Daisies
<1>2. QED
  BY <1>1, FS_EmptySet DEF Counted

(* A machine reset, in either order: the second update sees the first.     *)
LEMMA ResetStep == ASSUME ChainInv, Reset PROVE ChainInv'
<1>1. /\ Chain(chain) /\ chain.vic = vic /\ Fits(0, vic[0]) /\ Fits(1, vic[1]) /\ Unmasked(vic[1])
      /\ acting' \in Environments /\ depth' = 0 /\ deep' = FALSE
  BY ChainHas DEF ChainInv, ChildFits, Reset
<1>2. depth' \in 0..MaxDepth /\ deep' \in BOOLEAN
  <2>1. 0 \in 0..MaxDepth
    BY PL192Assumption DEF PL192Assumption
  <2>2. QED
    BY <1>1, <2>1, Zenon
<1>3. ASSUME NEW u, Chain(u), Becomes(u), ParentFits(u.vic[0], u.irq), ChildFits(u.vic[0], u.vic[1]),
             u.vic[0].stack = <<>>, u.vic[1].stack = <<>>
      PROVE  ChainInv'
  BY <1>1, <1>2, <1>3, BecomesFits, EmptyCounted
<1>4. CASE Becomes(pl192_reset(pl192_reset(chain, 0), 1))
  <2> DEFINE a == ResetOf(0, vic[0])
             b == ResetOf(1, vic[1])
             s == [chain EXCEPT !.vic[0] = a]
             t == [Update0(s) EXCEPT !.vic[1] = b]
  <2>1. pl192_reset(chain, 0) = Update0(s)
    BY <1>1 DEF pl192_reset, pl192_update
  <2>2. Fits(0, a) /\ a.stack = <<>>
    BY <1>1, ResetFits
  <2>3. Fits(1, b) /\ b.stack = <<>> /\ Unmasked(b)
    BY <1>1, ResetFits DEF Unmasked
  <2> HIDE DEF a
  <2>4. Chain(s) /\ s.vic[0] = a /\ s.vic[1] = vic[1]
    BY <1>1, <2>2, ChainPut
  <2> HIDE DEF s
  <2>5. /\ Chain(Update0(s)) /\ Update0(s).vic[1] = vic[1] /\ Update0(s).vic[0] = Select(a)
        /\ ParentFits(Update0(s).vic[0], Update0(s).irq)
    BY <2>4, Update0Is
  <2>6. pl192_reset(Update0(s), 1) = Update1(t)
    BY <2>5 DEF pl192_reset, pl192_update
  <2> HIDE DEF b
  <2>7. Chain(t) /\ t.vic[1] = b /\ t.vic[0] = Update0(s).vic[0] /\ t.irq = Update0(s).irq
    BY <2>3, <2>5, ChainPut
  <2> HIDE DEF t
  <2>8. /\ Chain(Update1(t)) /\ Update1(t).vic[1] = Select(b) /\ Served(Update1(t).vic[0]) = Served(Select(a))
        /\ ChildFits(Update1(t).vic[0], Update1(t).vic[1])
        /\ ParentFits(Update1(t).vic[0], Update1(t).irq)
    BY <2>3, <2>5, <2>7, Update1Is, Zenon
  <2>9. Select(a).stack = <<>> /\ Select(b).stack = <<>>
    BY <2>2, <2>3, SelectFits
  <2>10. Update1(t).vic[0].stack = <<>> /\ Update1(t).vic[1].stack = <<>>
    BY <2>8, <2>9, SMTT(20) DEF Served
  <2>11. QED
    BY <1>3, <1>4, <2>1, <2>6, <2>8, <2>10
<1>5. CASE Becomes(pl192_reset(pl192_reset(chain, 1), 0))
  <2> DEFINE b == ResetOf(1, vic[1])
             s == [chain EXCEPT !.vic[1] = b]
             w == Update1(s)
             a == ResetOf(0, w.vic[0])
             t == [w EXCEPT !.vic[0] = a]
  <2>1. pl192_reset(chain, 1) = w
    BY <1>1 DEF pl192_reset, pl192_update
  <2>2. Fits(1, b) /\ b.stack = <<>> /\ Unmasked(b)
    BY <1>1, ResetFits DEF Unmasked
  <2> HIDE DEF b
  <2>3. Chain(s) /\ s.vic[1] = b
    BY <1>1, <2>2, ChainPut
  <2> HIDE DEF s
  <2>4. Chain(w) /\ w.vic[1] = Select(b) /\ ChildFits(w.vic[0], w.vic[1])
    BY <2>2, <2>3, Update1Is
  <2> HIDE DEF w
  <2>5. pl192_reset(w, 0) = Update0(t)
    BY SMTT(20) DEF pl192_reset, pl192_update
  <2>6. /\ Fits(0, a) /\ a.stack = <<>> /\ a.daisy_input = (w.vic[0]).daisy_input
        /\ a.daisy_vectaddr = (w.vic[0]).daisy_vectaddr
    BY <2>4, ResetFits DEF Chain
  <2> HIDE DEF a
  <2>7. Chain(t) /\ t.vic[0] = a /\ t.vic[1] = w.vic[1]
    BY <2>4, <2>6, ChainPut
  <2> HIDE DEF t
  <2>8. /\ Chain(Update0(t)) /\ Update0(t).vic[1] = w.vic[1] /\ Update0(t).vic[0] = Select(a)
        /\ ParentFits(Update0(t).vic[0], Update0(t).irq)
    BY <2>7, Update0Is, SMTT(20)
  <2>9. Config(Select(a)) = Config(a) /\ Select(a).stack = <<>> /\ Select(b).stack = <<>>
    BY <2>2, <2>6, SelectIs, SelectFits DEF Fits
  <2>10. ChildFits(Select(a), w.vic[1])
    <3>1. Select(a).daisy_input = a.daisy_input /\ Select(a).daisy_vectaddr = a.daisy_vectaddr
      BY <2>9, ConfigDecides
    <3>2. QED
      BY <2>4, <2>6, <3>1, SameDaisy
  <2>11. QED
    BY <1>3, <1>5, <2>1, <2>4, <2>5, <2>8, <2>9, <2>10
<1>6. QED
  <2>1. PICK v \in 0..1 : Becomes(pl192_reset(pl192_reset(chain, v), 1 - v))
    BY DEF Reset
  <2>2. \/ v = 0 /\ 1 - v = 1
        \/ v = 1 /\ 1 - v = 0
    BY SMTT(20)
  <2>3. QED
    BY <1>4, <1>5, <2>1, <2>2

(* A snapshot into a machine just made, in either order: the saved daisy   *)
(* input of vic0 agrees with the saved registers of vic1.                  *)
LEMMA LoadStep == ASSUME ChainInv, Load PROVE ChainInv'
<1> DEFINE a == vic[0]
           b == vic[1]
           blank == [w \in 0..1 |-> Blank(w)]
           fresh == [vic |-> blank, irq |-> FALSE, fiq |-> FALSE]
           first(v) == [fresh EXCEPT !.vic[v] = vic[v]]
           one(v) == pl192_update(first(v), v)
           both(v) == [one(v) EXCEPT !.vic[1 - v] = vic[1 - v]]
<1>1. /\ Fits(0, a) /\ Fits(1, b) /\ ChildFits(a, b) /\ Unmasked(b) /\ a \in Controller(0) /\ b \in Controller(1)
  BY DEF ChainInv, ChildFits, Fits
<1>2. /\ depth' = depth /\ deep' = deep /\ acting' = acting /\ depth \in 0..MaxDepth /\ deep \in BOOLEAN
      /\ acting \in Environments /\ (~deep => Counted(a.stack, b.stack, depth))
  BY DEF Load, Same, ChainInv
<1>3. ASSUME NEW u, Chain(u), Becomes(u), ParentFits(u.vic[0], u.irq), ChildFits(u.vic[0], u.vic[1]),
             u.vic[0].stack = a.stack, u.vic[1].stack = b.stack
      PROVE  ChainInv'
  BY <1>2, <1>3, BecomesFits
<1>4. Chain(fresh)
  <2>1. blank[0] = Blank(0) /\ blank[1] = Blank(1)
    BY SMTT(20)
  <2>2. Fits(0, Blank(0)) /\ Fits(1, Blank(1))
    BY BlankFits
  <2>3. blank \in [0..1 -> Controller(0) \cup Controller(1)]
    <3>1. ASSUME NEW w \in 0..1 PROVE Blank(w) \in Controller(0) \cup Controller(1)
      <4>1. w = 0 \/ w = 1
        OBVIOUS
      <4>2. QED
        BY <2>2, <4>1 DEF Fits
    <3>2. QED
      BY <3>1
  <2> HIDE DEF blank
  <2>4. fresh \in [vic: [0..1 -> Controller(0) \cup Controller(1)], irq: BOOLEAN, fiq: BOOLEAN] /\ fresh.vic = blank
    BY <2>3
  <2> HIDE DEF fresh
  <2>5. QED
    BY <2>1, <2>2, <2>4 DEF Chain
<1> HIDE DEF fresh
<1>5. Select(a).stack = a.stack /\ Select(b).stack = b.stack /\ Config(Select(a)) = Config(a)
  BY <1>1, SelectFits, SelectIs
<1>6. CASE Becomes(pl192_update(both(0), 1))
  <2> DEFINE s == [fresh EXCEPT !.vic[0] = a]
             t == [Update0(s) EXCEPT !.vic[1] = b]
  <2>1. Chain(s) /\ s.vic[0] = a
    BY <1>1, <1>4, ChainPut
  <2>2. one(0) = Update0(s)
    BY DEF pl192_update
  <2>3. pl192_update(both(0), 1) = Update1(t)
    BY <2>2 DEF pl192_update
  <2> HIDE DEF s, one, both
  <2>4. /\ Chain(Update0(s)) /\ Update0(s).vic[0] = Select(a)
        /\ ParentFits(Update0(s).vic[0], Update0(s).irq)
    BY <2>1, Update0Is
  <2>5. Chain(t) /\ t.vic[1] = b /\ t.vic[0] = Update0(s).vic[0] /\ t.irq = Update0(s).irq
    BY <1>1, <2>4, ChainPut
  <2> HIDE DEF t
  <2>6. /\ Chain(Update1(t)) /\ Update1(t).vic[1] = Select(b) /\ Served(Update1(t).vic[0]) = Served(Select(a))
        /\ ChildFits(Update1(t).vic[0], Update1(t).vic[1])
        /\ ParentFits(Update1(t).vic[0], Update1(t).irq)
    BY <1>1, <2>4, <2>5, Update1Is, Zenon
  <2>7. Update1(t).vic[0].stack = a.stack /\ Update1(t).vic[1].stack = b.stack
    BY <1>5, <2>6, SMTT(20) DEF Served
  <2>8. QED
    BY <1>3, <1>6, <2>3, <2>6, <2>7
<1>7. CASE Becomes(pl192_update(both(1), 0))
  <2> DEFINE s == [fresh EXCEPT !.vic[1] = b]
             w == Update1(s)
             t == [w EXCEPT !.vic[0] = a]
  <2>1. Chain(s) /\ s.vic[1] = b
    BY <1>1, <1>4, ChainPut
  <2>2. one(1) = w
    BY DEF pl192_update
  <2>3. pl192_update(both(1), 0) = Update0(t)
    BY <2>2, SMTT(20) DEF pl192_update
  <2> HIDE DEF s, one, both
  <2>4. Chain(w) /\ w.vic[1] = Select(b)
    BY <1>1, <2>1, Update1Is
  <2> HIDE DEF w
  <2>5. Chain(t) /\ t.vic[0] = a /\ t.vic[1] = Select(b)
    BY <1>1, <2>4, ChainPut
  <2> HIDE DEF t
  <2>6. /\ Chain(Update0(t)) /\ Update0(t).vic[1] = Select(b) /\ Update0(t).vic[0] = Select(a)
        /\ ParentFits(Update0(t).vic[0], Update0(t).irq)
    BY <2>5, Update0Is
  <2>7. ChildFits(a, Select(b))
    <3> DEFINE d == Select(b)
    <3>1. Selects(d) /\ Config(d) = Config(b) /\ d.stack = b.stack
      BY <1>1, <1>5, SelectIs
    <3> HIDE DEF d
    <3>2. /\ IrqStatus(d) = IrqStatus(b) /\ (Quiet(d) <=> Quiet(b))
          /\ pl192_priority_sorter(d) = pl192_priority_sorter(b)
          /\ d.vect_addr = b.vect_addr /\ d.daisy_vectaddr = b.daisy_vectaddr
          /\ d.daisy_input = b.daisy_input /\ d.sw_priority_mask = b.sw_priority_mask
      BY <3>1, ConfigDecides
    <3>3. IrqStatus(b) # {} => d.address = b.address
      BY <1>1, <3>1, <3>2, Zenon DEF ChildFits, Selects, Quiet
    <3>4. QED
      BY <1>1, <3>1, <3>2, <3>3, Zenon DEF ChildFits, Unmasked, d
  <2>8. ChildFits(Select(a), Select(b))
    <3>1. Select(a).daisy_input = a.daisy_input /\ Select(a).daisy_vectaddr = a.daisy_vectaddr
      BY <1>5, ConfigDecides, SMTT(20)
    <3>2. QED
      BY <2>7, <3>1, SameDaisy
  <2>9. QED
    BY <1>3, <1>5, <1>7, <2>3, <2>6, <2>8
<1>8. QED
  <2>1. PICK v \in 0..1 : Becomes(pl192_update(both(v), 1 - v))
    BY Zenon DEF Load, fresh
  <2>2. \/ v = 0 /\ 1 - v = 1
        \/ v = 1 /\ 1 - v = 0
    OBVIOUS
  <2>3. QED
    BY <1>6, <1>7, <2>1, <2>2

(* The guest's set-up of a controller just made: nothing is pending.       *)
LEMMA SetUpFits ==
    ASSUME NEW v \in 0..1, NEW prio \in [Sources[v] -> Levels], NEW daisy \in Levels
    PROVE  LET c == SetUp(v, prio, daisy)
           IN /\ Fits(v, c) /\ c.stack = <<>> /\ Unmasked(c) /\ Quiet(c) /\ Selects(c)
              /\ c.current_highest = NO_IRQ
<1> DEFINE z == Blank(v)
           q == [i \in Sources[v] |-> <<v, i>>]
           c == [z EXCEPT !.intenable = Sources[v], !.vect_priority = prio, !.daisy_priority = daisy,
                          !.vect_addr = q]
<1>1. SetUp(v, prio, daisy) = c
  BY Zenon DEF SetUp
<1>2. /\ z \in Controller(v) /\ z.stack = <<>> /\ z.current = NO_IRQ /\ z.priority = LEVELS /\ Unmasked(z)
      /\ z.rawintr = {} /\ z.softint = {} /\ z.current_highest = NO_IRQ
  BY BlankFits, Zenon DEF Fits, Serving
<1>3. q \in [Sources[v] -> Vectors]
  <2>1. \A i \in Sources[v] : <<v, i>> \in Vectors
    <3>1. Sources[v] \subseteq Sources[0] \cup Sources[1]
      <4>1. v = 0 \/ v = 1
        OBVIOUS
      <4>2. QED
        BY <4>1
    <3>2. QED
      BY <3>1 DEF Vectors
  <2>2. QED
    BY <2>1
<1> HIDE DEF z, q
<1>4. /\ c \in Controller(v) /\ c.stack = z.stack /\ c.current = z.current /\ c.priority = z.priority
      /\ c.daisy_input = z.daisy_input /\ c.sw_priority_mask = z.sw_priority_mask
      /\ c.rawintr = z.rawintr /\ c.softint = z.softint /\ c.current_highest = z.current_highest
  BY <1>2, <1>3, Zenon DEF Controller
<1> HIDE DEF c
<1>5. Quiet(c) /\ Unmasked(c)
  BY <1>2, <1>4 DEF Quiet, Unmasked, IrqStatus
<1>6. Selects(c)
  BY <1>2, <1>4, <1>5 DEF Selects
<1>7. QED
  BY <1>1, <1>2, <1>4, <1>5, <1>6, NothingServed

(* The machine as the guest sets it up.                                    *)
LEMMA ChainInit == Init => ChainInv
<1> SUFFICES ASSUME Init PROVE ChainInv
  OBVIOUS
<1>1. PICK p0 \in [Sources[0] -> Levels], p1 \in [Sources[1] -> Levels], d \in Levels :
         vic = [v \in 0..1 |-> IF v = 0 THEN SetUp(0, p0, d) ELSE SetUp(1, p1, LEVELS - 1)]
  BY SMTT(20) DEF Init
<1> DEFINE a == SetUp(0, p0, d)
           b == SetUp(1, p1, LEVELS - 1)
<1>2. LEVELS - 1 \in Levels
  BY ResetTypes, SMTT(20)
<1>3. Fits(0, a) /\ a.stack = <<>> /\ Quiet(a) /\ Selects(a) /\ a.current_highest = NO_IRQ
  BY SetUpFits, SMTT(20)
<1>4. Fits(1, b) /\ b.stack = <<>> /\ Quiet(b) /\ Selects(b) /\ Unmasked(b)
  BY <1>2, SetUpFits
<1> HIDE DEF a, b
<1>5. vic[0] = a /\ vic[1] = b /\ vic \in [0..1 -> {a, b}]
  BY <1>1 DEF a, b
<1>6. vic \in [0..1 -> Controller(0) \cup Controller(1)]
  BY <1>3, <1>4, <1>5 DEF Fits
<1>7. 0 \in 0..MaxDepth
  BY PL192Assumption, SMTT(20) DEF PL192Assumption
<1>8. ParentFits(a, FALSE) /\ ChildFits(a, b)
  BY <1>3, <1>4, SMTT(20) DEF ParentFits, ChildFits, Quiet
<1>9. QED
  BY <1>3, <1>4, <1>5, <1>6, <1>7, <1>8, EmptyCounted, Zenon DEF Init, ChainInv

(* Every step keeps the invariant, of a guest that leaves vic1's mask.     *)
LEMMA ChainNext == LeavesMask1 /\ ChainInv /\ [Next]_vars => ChainInv'
<1> SUFFICES ASSUME LeavesMask1, ChainInv, [Next]_vars PROVE ChainInv'
  BY SMTT(20)
<1>0. LEVELS - 1 \in Levels /\ 0 \in 0..1 /\ {} \in SUBSET Levels
  BY ResetTypes
<1>1. CASE Ack \/ Fin \/ Reset \/ Load
  BY <1>1, AckStep, FinStep, ResetStep, LoadStep
<1>2. CASE \E p \in Levels : WriteDaisy(p)
  BY <1>0, <1>2, OrderStep
<1>3. CASE \E v \in 0..1 : \E S \in SUBSET Sources[v] : WriteSelect(v, S)
  BY <1>3, SelectStep
<1>4. CASE \E v \in 0..1 : \E S \in SUBSET Levels : WriteMask(v, S)
  BY <1>0, <1>4, OrderStep
<1>5. CASE \E v \in 0..1 : \E i \in Sources[v] :
             \/ pl192_irq_handler(v, i) \/ WriteEnable(v, i) \/ WriteEnClear(v, i)
             \/ WriteSoftInt(v, i) \/ WriteSoftClear(v, i) \/ WriteVector(v, i)
             \/ \E p \in Levels : WritePriority(v, i, p)
  BY <1>0, <1>5, RegistersStep
<1>6. CASE UNCHANGED vars
  BY <1>6, Zenon DEF vars, ChainInv
<1>7. QED
  BY <1>1, <1>2, <1>3, <1>4, <1>5, <1>6 DEF Next

(* While the guest leaves vic1's software mask as reset sets it, the two   *)
(* stacks of interrupts being served match through every nesting, finish,  *)
(* reset and snapshot (pl192_irq_ack, pl192_irq_fin): vic1 has a frame for *)
(* each acknowledgment of the daisy input that is not finished, and no     *)
(* more, for any sources, levels and nesting.                              *)
THEOREM StacksAlwaysMatch == ASSUME LeavesMask1 PROVE Spec => []StacksMatch
<1>1. Init => ChainInv
  BY ChainInit
<1>2. ChainInv /\ [Next]_vars => ChainInv'
  BY ChainNext
<1>3. ChainInv => StacksMatch
  <2> SUFFICES ASSUME ChainInv PROVE StacksMatch
    BY SMTT(20)
  <2>1. /\ vic \in [0..1 -> Controller(0) \cup Controller(1)]
        /\ vic[0] \in Controller(0) /\ vic[1] \in Controller(1) /\ Serving(vic[0]) /\ Serving(vic[1])
        /\ irq \in BOOLEAN /\ fiq \in BOOLEAN /\ depth \in 0..MaxDepth
    BY DEF ChainInv, Fits
  <2>2. \A v \in 0..1 : v = 0 \/ v = 1
    OBVIOUS
  <2>3. /\ \A v \in 0..1 : vic[v] \in {vic[0], vic[1]} /\ vic[v] \in Controller(v)
        /\ \A v \in 0..1 : Serving(vic[v])
    BY <2>1, <2>2
  <2>4. vic \in [0..1 -> {vic[0], vic[1]}]
    BY <2>1, <2>3
  <2>5. \A v \in 0..1 : Len(vic[v].stack) <= LEVELS
    BY <2>3 DEF Serving
  <2>6. TypeOK
    BY <2>1, <2>3, <2>4, <2>5 DEF TypeOK
  <2>7. ASSUME NEW v \in 0..1, vic[v].stack # <<>> PROVE vic[v].current # NO_IRQ
    <3>1. vic[v].stack \in Seq(Frame(v))
      BY <2>3 DEF Controller
    <3>2. Len(vic[v].stack) \in 1..Len(vic[v].stack)
      BY <2>7, <3>1
    <3>3. QED
      BY <2>3, <2>7, <3>2 DEF Serving
  <2>8. ASSUME ~deep
        PROVE  /\ Len(vic[0].stack) = depth
               /\ Len(vic[1].stack) = Cardinality({k \in DOMAIN vic[0].stack : vic[0].stack[k].irq = DAISY})
    <3>1. vic[0].stack \in Seq(Frame(0))
      BY <2>1, Zenon DEF Controller
    <3>2. DOMAIN vic[0].stack = 1..Len(vic[0].stack)
      BY <3>1
    <3>3. QED
      BY <2>8, <3>2, Zenon DEF ChainInv, Counted, Daisies
  <2>9. QED
    BY <2>6, <2>7, <2>8 DEF StacksMatch
<1>4. QED
  BY <1>1, <1>2, <1>3, PTL DEF Spec

-----------------------------------------------------------------------------
(* The line and the vector *)

(* Four numbers come before four others at the first place they differ.    *)
LEMMA BeforeIs ==
    ASSUME NEW a \in Seq(Int), NEW b \in Seq(Int), Len(a) = 4, Len(b) = 4,
           \/ a[1] < b[1]
           \/ a[1] = b[1] /\ a[2] < b[2]
           \/ a[1] = b[1] /\ a[2] = b[2] /\ a[3] < b[3]
           \/ a[1] = b[1] /\ a[2] = b[2] /\ a[3] = b[3] /\ a[4] < b[4]
    PROVE  Before(a, b)
<1> DEFINE At(k) == a[k] < b[k] /\ \A j \in 1..(k - 1) : a[j] = b[j]
<1>1. At(1) \/ At(2) \/ At(3) \/ At(4)
  <2>1. CASE a[1] < b[1]
    BY <2>1
  <2>2. CASE a[1] = b[1] /\ a[2] < b[2]
    BY <2>2
  <2>3. CASE a[1] = b[1] /\ a[2] = b[2] /\ a[3] < b[3]
    BY <2>3
  <2>4. CASE a[1] = b[1] /\ a[2] = b[2] /\ a[3] = b[3] /\ a[4] < b[4]
    BY <2>4
  <2>5. QED
    BY <2>1, <2>2, <2>3, <2>4
<1> HIDE DEF At
<1>2. \E k \in 1..4 : At(k)
  BY <1>1
<1>3. QED
  BY <1>2 DEF At, Before

(* Of two, only one comes before the other.                                *)
LEMMA BeforeAsym ==
    ASSUME NEW a \in Seq(Int), NEW b \in Seq(Int), Len(a) = 4, Len(b) = 4, Before(a, b), Before(b, a)
    PROVE  FALSE
<1>1. PICK k \in 1..4 : a[k] < b[k] /\ \A j \in 1..(k - 1) : a[j] = b[j]
  BY DEF Before
<1>2. PICK l \in 1..4 : b[l] < a[l] /\ \A j \in 1..(l - 1) : b[j] = a[j]
  BY DEF Before
<1>3. a[k] \in Int /\ b[k] \in Int /\ a[l] \in Int /\ b[l] \in Int
  <2>1. \A m \in 1..Len(a) : a[m] \in Int
    BY SeqIs, Zenon
  <2>2. \A m \in 1..Len(b) : b[m] \in Int
    BY SeqIs, Zenon
  <2>3. k \in 1..4 /\ l \in 1..4
    OBVIOUS
  <2>4. QED
    BY <2>1, <2>2, <2>3, Zenon
<1>4. CASE k < l
  <2>1. k \in 1..(l - 1)
    BY <1>4
  <2>2. QED
    BY <1>1, <1>2, <1>3, <2>1
<1>5. CASE l < k
  <2>1. l \in 1..(k - 1)
    BY <1>5
  <2>2. QED
    BY <1>1, <1>2, <1>3, <2>1
<1>6. CASE k = l
  BY <1>1, <1>2, <1>3, <1>6
<1>7. QED
  BY <1>4, <1>5, <1>6

(* The sources that ask, and their places in the order.                    *)
LEMMA AskingIs ==
    ASSUME ChainInv, NEW x
    PROVE  /\ x \in Asking <=> \/ \E i \in Open(vic[0]) : x = <<0, i>>
                               \/ /\ vic[0].daisy_priority \in vic[0].sw_priority_mask
                                  /\ \E i \in IrqStatus(vic[1]) : x = <<1, i>>
           /\ x \in Asking => Order(x) \in Seq(Int) /\ Len(Order(x)) = 4
<1> DEFINE a == vic[0]
           b == vic[1]
<1>1. a \in Controller(0) /\ b \in Controller(1) /\ b.sw_priority_mask = Levels
  BY DEF ChainInv, Fits, ChildFits, Unmasked
<1>2. /\ IrqStatus(a) \subseteq Nat /\ \A i \in IrqStatus(a) : a.vect_priority[i] \in Nat
      /\ a.daisy_priority \in Nat
  BY <1>1, Numbers
<1>3. /\ IrqStatus(b) \subseteq Nat /\ \A i \in IrqStatus(b) : b.vect_priority[i] \in Nat
      /\ \A i \in IrqStatus(b) : b.vect_priority[i] \in Levels
  BY <1>1, Numbers
<1>4. Pending(0) = Open(a) /\ Pending(1) = IrqStatus(b)
  BY <1>1, <1>3 DEF Pending, Open
<1>5. {j \in Pending(0) : a.vect_priority[j] \in a.sw_priority_mask} = Open(a)
  BY <1>4 DEF Open
<1>6. x \in Asking <=> \/ \E i \in Open(a) : x = <<0, i>>
                       \/ a.daisy_priority \in a.sw_priority_mask /\ \E i \in IrqStatus(b) : x = <<1, i>>
  BY <1>4, <1>5 DEF Asking
<1>7. ASSUME NEW i \in Open(a), x = <<0, i>> PROVE Order(x) \in Seq(Int) /\ Len(Order(x)) = 4
  BY <1>2, <1>7 DEF Order, Open
<1>8. ASSUME NEW i \in IrqStatus(b), x = <<1, i>> PROVE Order(x) \in Seq(Int) /\ Len(Order(x)) = 4
  BY <1>2, <1>3, <1>8 DEF Order
<1>9. QED
  BY <1>6, <1>7, <1>8

(* A source that comes before all others that ask is the first.            *)
LEMMA FirstIs ==
    ASSUME ChainInv, NEW x \in Asking, \A y \in Asking \ {x} : Before(Order(x), Order(y))
    PROVE  First = x
<1>1. First \in Asking /\ \A y \in Asking \ {First} : Before(Order(First), Order(y))
  BY DEF First
<1>2. ASSUME First # x PROVE FALSE
  <2>1. Before(Order(x), Order(First)) /\ Before(Order(First), Order(x))
    BY <1>1, <1>2
  <2>2. /\ Order(x) \in Seq(Int) /\ Len(Order(x)) = 4
        /\ Order(First) \in Seq(Int) /\ Len(Order(First)) = 4
    BY <1>1, AskingIs
  <2>3. QED
    BY <2>1, <2>2, BeforeAsym
<1>3. QED
  BY <1>2

(* vic0's choice of one of its own sources comes before all that ask.      *)
LEMMA OwnFirst ==
    ASSUME ChainInv, vic[1].stack = <<>>, ~Quiet(vic[0]), vic[0].current_highest \in IrqStatus(vic[0])
    PROVE  LET h == vic[0].current_highest
           IN First = <<0, h>> /\ vic[0].address = vic[0].vect_addr[h]
<1> DEFINE a == vic[0]
           b == vic[1]
           h == a.current_highest
           vp == a.vect_priority
           dp == a.daisy_priority
<1>1. a \in Controller(0) /\ Selects(a) /\ ChildFits(a, b)
  BY DEF ChainInv, Fits, ParentFits
<1>2. h = pl192_priority_sorter(a) /\ a.address = a.vect_addr[h]
  BY <1>1 DEF Selects
<1>3. /\ h \in Open(a)
      /\ \A i \in Open(a) : vp[h] < vp[i] \/ (vp[h] = vp[i] /\ h <= i)
      /\ DaisyOpen(a) => vp[h] <= dp
  BY <1>1, <1>2, SorterIs
<1>4. /\ Open(a) \subseteq Nat /\ \A i \in Open(a) : vp[i] \in Nat
      /\ dp \in Nat
  BY <1>1, Numbers DEF Open
<1> DEFINE x == <<0, h>>
<1>5. x \in Asking /\ Order(x) = <<vp[h], 0, 0, h>>
  BY <1>3, AskingIs, Zenon DEF Order
<1>6. ASSUME NEW y \in Asking \ {x} PROVE Before(Order(x), Order(y))
  <2>0. /\ Order(x) \in Seq(Int) /\ Len(Order(x)) = 4 /\ Order(y) \in Seq(Int) /\ Len(Order(y)) = 4
    BY <1>5, <1>6, AskingIs
  <2>1. ASSUME NEW i \in Open(a), y = <<0, i>> PROVE Before(Order(x), Order(y))
    <3>1. Order(y) = <<vp[i], 0, 0, i>>
      BY <2>1 DEF Order
    <3>2. h # i
      BY <1>6, <2>1
    <3>3. vp[h] < vp[i] \/ (vp[h] = vp[i] /\ h < i)
      BY <1>3, <1>4, <3>2
    <3>4. QED
      BY <1>5, <2>0, <3>1, <3>3, BeforeIs, Zenon
  <2>2. ASSUME NEW i \in IrqStatus(b), y = <<1, i>>, dp \in a.sw_priority_mask
        PROVE  Before(Order(x), Order(y))
    <3>1. Order(y) = <<dp, 1, b.vect_priority[i], i>>
      BY <2>2 DEF Order
    <3>2. DaisyOpen(a)
      BY <1>1, <2>2 DEF ChildFits, DaisyOpen
    <3>3. vp[h] < dp \/ vp[h] = dp
      BY <1>3, <1>4, <3>2
    <3>4. \/ Order(x)[1] < Order(y)[1]
          \/ Order(x)[1] = Order(y)[1] /\ Order(x)[2] < Order(y)[2]
      BY <1>5, <3>1, <3>3
    <3>5. QED
      BY <2>0, <3>4, BeforeIs
  <2>3. QED
    BY <1>6, <2>1, <2>2, AskingIs, Zenon
<1>7. QED
  BY <1>2, <1>5, <1>6, FirstIs

(* ... and so does vic1's, when vic0 chooses the daisy input.              *)
LEMMA DaisyFirst ==
    ASSUME ChainInv, vic[1].stack = <<>>, vic[0].current_highest = DAISY
    PROVE  LET g == vic[1].current_highest
           IN First = <<1, g>> /\ vic[0].address = vic[1].vect_addr[g]
<1> DEFINE a == vic[0]
           b == vic[1]
           g == b.current_highest
           vp == b.vect_priority
           dp == a.daisy_priority
<1>1. /\ a \in Controller(0) /\ b \in Controller(1) /\ Selects(a) /\ Selects(b) /\ ChildFits(a, b)
      /\ Unmasked(b)
  BY DEF ChainInv, Fits, ParentFits, ChildFits
<1>2. ~Quiet(a) /\ DaisyOpen(a) /\ DAISY \notin IrqStatus(a)
  BY <1>1, SelectedHas, Numbers, SMTT(30)
<1>3. pl192_priority_sorter(a) = DAISY /\ a.address = a.daisy_vectaddr
  BY <1>1, <1>2 DEF Selects
<1>4. \A i \in Open(a) : dp < a.vect_priority[i]
  BY <1>1, <1>3, SorterIs, SMTT(30)
<1>5. IrqStatus(b) # {} /\ a.daisy_vectaddr = b.address /\ ~Quiet(b)
  BY <1>1, <1>2 DEF ChildFits, DaisyOpen, Quiet
<1>6. g \in IrqStatus(b) /\ g = pl192_priority_sorter(b) /\ b.address = b.vect_addr[g]
  <2>1. 1 \in 0..1 /\ b \in Controller(1) /\ Selects(b) /\ Unmasked(b) /\ ~Quiet(b)
    BY <1>1, <1>5
  <2> HIDE DEF b
  <2>2. g \in IrqStatus(b)
    BY <1>5, <2>1, SelectedHas, SMTT(30)
  <2>3. QED
    BY <2>1, <2>2, Numbers, SMTT(30) DEF Selects
<1>7. /\ IrqStatus(b) \subseteq Nat /\ \A i \in IrqStatus(b) : vp[i] \in Nat /\ vp[i] \in Levels
      /\ dp \in Nat
  BY <1>1, Numbers, SMTT(30)
<1>8. \A i \in IrqStatus(b) : vp[g] < vp[i] \/ (vp[g] = vp[i] /\ g <= i)
  <2>1. Open(b) = IrqStatus(b)
    BY <1>1, <1>7 DEF Open, Unmasked
  <2>2. b \in Controller(1) /\ g \in Open(b) /\ g = pl192_priority_sorter(b) /\ 1 \in 0..1
    BY <1>1, <1>6, <2>1
  <2> HIDE DEF b
  <2>3. QED
    BY <2>1, <2>2, SorterIs, SMTT(30)
<1> DEFINE x == <<1, g>>
<1>9. x \in Asking /\ Order(x) = <<dp, 1, vp[g], g>>
  BY <1>2, <1>6, AskingIs DEF Order, DaisyOpen
<1>10. ASSUME NEW y \in Asking \ {x} PROVE Before(Order(x), Order(y))
  <2>0. /\ Order(x) \in Seq(Int) /\ Len(Order(x)) = 4 /\ Order(y) \in Seq(Int) /\ Len(Order(y)) = 4
    BY <1>9, <1>10, AskingIs
  <2>1. ASSUME NEW i \in Open(a), y = <<0, i>> PROVE Before(Order(x), Order(y))
    <3>1. Order(y) = <<a.vect_priority[i], 0, 0, i>>
      BY <2>1 DEF Order
    <3>2. QED
      BY <1>4, <1>9, <2>0, <3>1, BeforeIs
  <2>2. ASSUME NEW i \in IrqStatus(b), y = <<1, i>> PROVE Before(Order(x), Order(y))
    <3>1. Order(y) = <<dp, 1, vp[i], i>>
      BY <2>2 DEF Order
    <3>2. g # i
      BY <1>10, <2>2
    <3>3. vp[g] < vp[i] \/ (vp[g] = vp[i] /\ g < i)
      BY <1>6, <1>7, <1>8, <3>2
    <3>4. QED
      BY <1>9, <2>0, <3>1, <3>3, BeforeIs
  <2>3. QED
    BY <1>10, <2>1, <2>2, AskingIs
<1>11. QED
  BY <1>3, <1>5, <1>6, <1>9, <1>10, FirstIs

(* With nothing being served, and while the guest leaves vic1's software   *)
(* mask as reset sets it: the CPU's line is up if a source asks and only   *)
(* while one is pending, and the vector an acknowledgment returns is that  *)
(* of the source that comes first in the chain (pl192_update), for any     *)
(* sources and levels and whatever was written, nested, reset or loaded    *)
(* before.                                                                 *)
THEOREM IrqIsTrue == ASSUME LeavesMask1 PROVE Spec => []IrqTrue
<1>1. Init => ChainInv
  BY ChainInit
<1>2. ChainInv /\ [Next]_vars => ChainInv'
  BY ChainNext
<1>3. ChainInv => IrqTrue
  <2> SUFFICES ASSUME ChainInv, ~deep, depth = 0
               PROVE  /\ Asking # {} => irq
                      /\ irq => IrqStatus(vic[0]) \cup IrqStatus(vic[1]) # {}
                      /\ irq /\ Asking # {} => vic[0].address = vic[First[1]].vect_addr[First[2]]
    BY DEF IrqTrue
  <2> DEFINE a == vic[0]
             b == vic[1]
             h == a.current_highest
  <2>1. /\ a \in Controller(0) /\ b \in Controller(1) /\ Selects(a) /\ ChildFits(a, b)
        /\ irq => ~Quiet(a)
        /\ a.stack = <<>> /\ h # NO_IRQ => irq
    BY DEF ChainInv, Fits, ParentFits
  <2>2. a.stack = <<>> /\ b.stack = <<>>
    <3>1. a.stack \in Seq(Frame(0)) /\ b.stack \in Seq(Frame(1))
      BY <2>1 DEF Controller
    <3>2. Len(a.stack) = 0 /\ Len(b.stack) = Cardinality(Daisies(a.stack))
      BY DEF ChainInv, Counted
    <3>3. a.stack = <<>>
      BY <3>1, <3>2
    <3>4. Len(b.stack) = 0
      BY <3>2, <3>3, EmptyCounted DEF Counted
    <3>5. QED
      BY <3>1, <3>3, <3>4
  <2>3. Asking # {} => h # NO_IRQ
    <3>1. ASSUME NEW x \in Asking PROVE Open(a) # {} \/ DaisyOpen(a)
      <4>1. CASE \E i \in Open(a) : x = <<0, i>>
        BY <4>1
      <4>2. CASE a.daisy_priority \in a.sw_priority_mask /\ \E i \in IrqStatus(b) : x = <<1, i>>
        BY <2>1, <2>2, <4>2 DEF ChildFits, DaisyOpen
      <4>3. QED
        BY <4>1, <4>2, AskingIs
    <3>2. QED
      BY <2>1, <3>1, SelectedHas
  <2>4. irq => IrqStatus(a) \cup IrqStatus(b) # {}
    BY <2>1 DEF Quiet, ChildFits
  <2>5. ASSUME h # NO_IRQ PROVE a.address = vic[First[1]].vect_addr[First[2]]
    <3>1. ~Quiet(a) /\ h \in IrqStatus(a) \cup {DAISY}
      BY <2>1, <2>5, SelectedHas
    <3>2. CASE h \in IrqStatus(a)
      <4>1. First = <<0, h>> /\ a.address = a.vect_addr[h]
        BY <2>2, <3>1, <3>2, OwnFirst
      <4>2. QED
        BY <4>1
    <3>3. CASE h = DAISY
      <4> DEFINE g == b.current_highest
      <4>1. First = <<1, g>> /\ a.address = b.vect_addr[g]
        BY <2>2, <3>3, DaisyFirst
      <4>2. QED
        BY <4>1
    <3>4. QED
      BY <3>1, <3>2, <3>3
  <2>6. QED
    BY <2>1, <2>2, <2>3, <2>4, <2>5
<1>4. QED
  BY <1>1, <1>2, <1>3, PTL DEF Spec
=============================================================================
