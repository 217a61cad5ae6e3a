------------------------------- MODULE PL192 -------------------------------
(***************************************************************************)
(* The vectored interrupt controllers of hw/intc/pl192.c: two in a daisy   *)
(* chain, as the iPod machines wire them (vic1->daisy = vic0), the device  *)
(* lines into them, the CPU's IRQ and FIQ lines out of vic0, and a guest   *)
(* that acknowledges while IRQ is asserted, nested or not, and finishes    *)
(* what it acknowledged.                                                   *)
(*                                                                         *)
(* A register of one bit per source is a set of sources.  A vector         *)
(* register holds Zero or the vector of its source.  Every operation runs  *)
(* under the big lock, so it is one step.                                  *)
(***************************************************************************)
EXTENDS Integers, Sequences, FiniteSets

CONSTANTS
    Sources,        \* [0..1 -> sets of source numbers]
    LEVELS,         \* PL192_PRIO_LEVELS
    MaxDepth,       \* how deep a guest nests that nests deeper than the stacks
    Environments    \* which Parts act together in a behaviour

ASSUME PL192Assumption ==
    /\ Sources \in [0..1 -> SUBSET Nat] /\ LEVELS \in Nat \ {0}
    /\ MaxDepth \in Nat /\ MaxDepth >= LEVELS

VARIABLES
    vic,            \* the registers of the two controllers
    irq, fiq,       \* the CPU's lines
    depth,          \* acknowledgments the guest has not finished
    deep,           \* they were once more than the stack holds
    acting          \* the Parts that act

vars == <<vic, irq, fiq, depth, deep, acting>>
Parts == {"enable", "select", "soft", "priority", "mask0", "mask1", "vector", "reset", "snapshot", "deep"}

DAISY == -1
NO_IRQ == -2
Zero == <<>>
Levels == 0..(LEVELS - 1)
LeastOf(S) == CHOOSE x \in S : \A y \in S : x <= y

(* A stack without its top frame, and that frame.                          *)
Front(q) == SubSeq(q, 1, Len(q) - 1)
Last(q) == q[Len(q)]

Vectors == {<<v, i>> : v \in 0..1, i \in Sources[0] \cup Sources[1]} \cup {Zero}
Interrupts(v) == Sources[v] \cup {DAISY, NO_IRQ}
Frame(v) == [irq: Interrupts(v), priority: 0..(LEVELS + 1)]
Controller(v) ==
    [rawintr: SUBSET Sources[v], intenable: SUBSET Sources[v], intselect: SUBSET Sources[v],
     softint: SUBSET Sources[v], sw_priority_mask: SUBSET Levels,
     vect_priority: [Sources[v] -> Levels], vect_addr: [Sources[v] -> Vectors],
     address: Vectors, current: Interrupts(v), current_highest: Interrupts(v),
     stack: Seq(Frame(v)), priority: 0..(LEVELS + 1),
     daisy_input: BOOLEAN, daisy_vectaddr: Vectors, daisy_priority: Levels]

-----------------------------------------------------------------------------
(* irq_status and fiq_status.                                              *)
IrqStatus(c) == ((c.rawintr \cup c.softint) \cap c.intenable) \ c.intselect
FiqStatus(c) == (c.rawintr \cup c.softint) \cap c.intenable \cap c.intselect

(* pl192_priority_sorter: per level the lowest source, then the daisy      *)
(* input; of the levels the mask lets through, the first that has one.     *)
AtLevel(c, p) ==
    LET here == {i \in IrqStatus(c) : c.vect_priority[i] = p}
    IN IF here # {} THEN LeastOf(here)
       ELSE IF c.daisy_input /\ c.daisy_priority = p THEN DAISY ELSE NO_IRQ
pl192_priority_sorter(c) ==
    LET open == {p \in c.sw_priority_mask : AtLevel(c, p) # NO_IRQ}
    IN IF open = {} THEN NO_IRQ ELSE AtLevel(c, LeastOf(open))

(* What pl192_update makes of the registers of one controller ...          *)
Select(c) ==
    IF IrqStatus(c) = {} /\ ~c.daisy_input THEN [c EXCEPT !.current_highest = NO_IRQ]
    ELSE LET h == pl192_priority_sorter(c)
         IN [c EXCEPT !.current_highest = h,
                      !.address = IF h \in IrqStatus(c) THEN c.vect_addr[h] ELSE c.daisy_vectaddr]

(* Past the end of vect_priority the code reads current itself.            *)
PriorityOf(c, i) ==
    IF i = DAISY THEN c.daisy_priority ELSE IF i = NO_IRQ THEN LEVELS + 1 ELSE c.vect_priority[i]

(* ... and what it does with the line: raise, lower, or leave it.          *)
Drive(c) ==
    LET h == c.current_highest
    IN IF IrqStatus(c) = {} /\ ~c.daisy_input THEN "lower"
       ELSE IF h = c.current THEN "leave"
       ELSE IF h = NO_IRQ THEN "lower"
       ELSE IF PriorityOf(c, h) >= c.priority THEN "leave" ELSE "raise"

(* pl192_update of vic0, whose lines are the CPU's.  A chain is a record   *)
(* of the controllers and the two lines.                                   *)
Update0(s) ==
    LET c == Select(s.vic[0])
    IN [vic |-> [s.vic EXCEPT ![0] = c],
        irq |-> CASE Drive(c) = "raise" -> TRUE [] Drive(c) = "lower" -> FALSE [] OTHER -> s.irq,
        fiq |-> FiqStatus(c) # {}]

(* pl192_update of vic1: its FIQ goes straight to the CPU's, its IRQ to    *)
(* the daisy input of vic0, which is updated when it is driven.            *)
Update1(s) ==
    LET c == Select(s.vic[1])
        t == [s EXCEPT !.vic[1] = c, !.fiq = FiqStatus(c) # {}]
    IN CASE Drive(c) = "raise" ->
              Update0([t EXCEPT !.vic[0].daisy_input = TRUE, !.vic[0].daisy_vectaddr = c.address])
         [] Drive(c) = "lower" -> Update0([t EXCEPT !.vic[0].daisy_input = FALSE])
         [] OTHER -> t

pl192_update(s, v) == IF v = 0 THEN Update0(s) ELSE Update1(s)

chain == [vic |-> vic, irq |-> irq, fiq |-> fiq]
Becomes(s) == vic' = s.vic /\ irq' = s.irq /\ fiq' = s.fiq

(* Frame 0 of the code's stacks, which is never popped.                    *)
Idle == [irq |-> NO_IRQ, priority |-> LEVELS]

(* pl192_mask_priority, which saturates at the depth of the stacks.        *)
pl192_mask_priority(c) ==
    LET f == [irq |-> c.current, priority |-> PriorityOf(c, c.current)]
        below == IF Len(c.stack) = LEVELS THEN Front(c.stack) ELSE c.stack
    IN [c EXCEPT !.stack = Append(below, f), !.priority = f.priority]

(* Mutant: the interrupt served before is not restored.                    *)
UnmaskKeepsCurrent(c) ==
    IF c.stack = <<>> THEN c
    ELSE LET below == Front(c.stack)
         IN [c EXCEPT !.stack = below,
                      !.priority = (IF below = <<>> THEN Idle ELSE Last(below)).priority]

(* pl192_unmask_priority.                                                  *)
pl192_unmask_priority(c) ==
    IF c.stack = <<>> THEN c
    ELSE LET below == Front(c.stack)
             f == IF below = <<>> THEN Idle ELSE Last(below)
         IN [c EXCEPT !.stack = below, !.priority = f.priority, !.current = f.irq]

Acked(c) == pl192_mask_priority([c EXCEPT !.current = c.current_highest])

(* Mutant: the child is not acknowledged.                                  *)
AckParentOnly(s) ==
    IF s.vic[0].current_highest = NO_IRQ THEN s
    ELSE Update0([s EXCEPT !.vic[0] = Acked(@)])

(* pl192_irq_ack, a read of VECTADDR.                                      *)
pl192_irq_ack(s) ==
    LET c == s.vic[0]
        child == IF c.current_highest = DAISY THEN Acked(s.vic[1]) ELSE s.vic[1]
    IN IF c.current_highest = NO_IRQ THEN s
       ELSE Update0([s EXCEPT !.vic[0] = Acked(c), !.vic[1] = child])

(* Mutant: the child's vector is not selected again.                       *)
FinKeepsVector(s) ==
    LET c == s.vic[0]
        t == [s EXCEPT !.vic[0] = pl192_unmask_priority(c)]
    IN Update0(IF c.current = DAISY THEN [t EXCEPT !.vic[1] = pl192_unmask_priority(@)] ELSE t)

(* pl192_irq_fin, a write of VECTADDR.                                     *)
pl192_irq_fin(s) ==
    LET c == s.vic[0]
        t == [s EXCEPT !.vic[0] = pl192_unmask_priority(c)]
    IN Update0(IF c.current = DAISY
               THEN Update1([t EXCEPT !.vic[1] = pl192_unmask_priority(@)]) ELSE t)

(* pl192_reset of one controller: rawintr stays what the devices drive,    *)
(* and the daisy input what the child last drove.                          *)
ResetOf(v, c) ==
    [c EXCEPT !.intenable = {}, !.intselect = {}, !.softint = {}, !.sw_priority_mask = Levels,
              !.vect_priority = [i \in Sources[v] |-> LEVELS - 1],
              !.vect_addr = [i \in Sources[v] |-> Zero], !.address = Zero,
              !.current = NO_IRQ, !.current_highest = NO_IRQ, !.stack = <<>>,
              !.priority = LEVELS, !.daisy_priority = LEVELS - 1]
pl192_reset(s, v) == pl192_update([s EXCEPT !.vic[v] = ResetOf(v, @)], v)

-----------------------------------------------------------------------------
(* A controller as reset leaves it, and the guest's set-up: everything     *)
(* enabled, vectors written, any priorities.                               *)
Blank(v) ==
    ResetOf(v, [rawintr |-> {}, intenable |-> {}, intselect |-> {}, softint |-> {},
                sw_priority_mask |-> {}, vect_priority |-> <<>>, vect_addr |-> <<>>, address |-> Zero,
                current |-> NO_IRQ, current_highest |-> NO_IRQ, stack |-> <<>>, priority |-> 0,
                daisy_input |-> FALSE, daisy_vectaddr |-> Zero, daisy_priority |-> 0])
SetUp(v, prio, daisy) ==
    [Blank(v) EXCEPT !.intenable = Sources[v], !.vect_priority = prio, !.daisy_priority = daisy,
                     !.vect_addr = [i \in Sources[v] |-> <<v, i>>]]

Init ==
    /\ acting \in Environments
    /\ \E p0 \in [Sources[0] -> Levels], p1 \in [Sources[1] -> Levels], d \in Levels :
         vic = [v \in 0..1 |-> IF v = 0 THEN SetUp(0, p0, d) ELSE SetUp(1, p1, LEVELS - 1)]
    /\ irq = FALSE /\ fiq = FALSE /\ depth = 0 /\ deep = FALSE

Same == UNCHANGED <<depth, deep, acting>>

(* pl192_irq_handler: a device drives its line; an unchanged level does    *)
(* nothing.                                                                *)
pl192_irq_handler(v, i) ==
    LET raw == vic[v].rawintr
    IN Becomes(pl192_update([chain EXCEPT
           !.vic[v].rawintr = IF i \in raw THEN raw \ {i} ELSE raw \cup {i}], v)) /\ Same

(* pl192_write: the registers that decide what is pending ...              *)
WriteEnable(v, i) ==
    /\ "enable" \in acting
    /\ Becomes(pl192_update([chain EXCEPT !.vic[v].intenable = @ \cup {i}], v)) /\ Same
WriteEnClear(v, i) ==
    /\ "enable" \in acting
    /\ Becomes(pl192_update([chain EXCEPT !.vic[v].intenable = @ \ {i}], v)) /\ Same
WriteSelect(v, S) ==
    /\ "select" \in acting
    /\ Becomes(pl192_update([chain EXCEPT !.vic[v].intselect = S], v)) /\ Same
WriteSoftInt(v, i) ==
    /\ "soft" \in acting
    /\ Becomes(pl192_update([chain EXCEPT !.vic[v].softint = @ \cup {i}], v)) /\ Same
WriteSoftClear(v, i) ==
    /\ "soft" \in acting
    /\ Becomes(pl192_update([chain EXCEPT !.vic[v].softint = @ \ {i}], v)) /\ Same

(* ... and in which order it is served.                                    *)
WritePriority(v, i, p) ==
    /\ "priority" \in acting
    /\ Becomes(pl192_update([chain EXCEPT !.vic[v].vect_priority[i] = p], v)) /\ Same
WriteDaisy(p) ==
    /\ "priority" \in acting
    /\ Becomes(pl192_update([chain EXCEPT !.vic[0].daisy_priority = p], 0)) /\ Same
WriteMask(v, S) ==
    /\ (IF v = 0 THEN "mask0" ELSE "mask1") \in acting
    /\ Becomes(pl192_update([chain EXCEPT !.vic[v].sw_priority_mask = S], v)) /\ Same
WriteVector(v, i) ==
    /\ "vector" \in acting
    /\ \E a \in {Zero, <<v, i>>} :
         Becomes(pl192_update([chain EXCEPT !.vic[v].vect_addr[i] = a], v))
    /\ Same

(* The CPU takes the interrupt: a read of vic0's VECTADDR.                 *)
Ack ==
    /\ irq /\ depth < IF "deep" \in acting THEN MaxDepth ELSE LEVELS
    /\ Becomes(pl192_irq_ack(chain))
    /\ depth' = IF vic[0].current_highest = NO_IRQ THEN depth ELSE depth + 1
    /\ deep' = (deep \/ depth' > LEVELS)
    /\ UNCHANGED acting

(* The guest is done with what it acknowledged last.                       *)
Fin ==
    /\ depth > 0
    /\ Becomes(pl192_irq_fin(chain))
    /\ depth' = depth - 1
    /\ UNCHANGED <<deep, acting>>

(* A machine reset reaches the controllers in either order.                *)
Reset ==
    /\ "reset" \in acting
    /\ \E v \in 0..1 : Becomes(pl192_reset(pl192_reset(chain, v), 1 - v))
    /\ depth' = 0 /\ deep' = FALSE
    /\ UNCHANGED acting

(* A snapshot is loaded, pl192_post_load in either order, into a machine   *)
(* just reset: the registers are the saved ones, the lines are not in it.  *)
(* What follows depends on the saved state alone, so saving is not a step. *)
Load ==
    /\ "snapshot" \in acting
    /\ \E v \in 0..1 :
         LET fresh == [vic |-> [w \in 0..1 |-> Blank(w)], irq |-> FALSE, fiq |-> FALSE]
             one == pl192_update([fresh EXCEPT !.vic[v] = vic[v]], v)
         IN Becomes(pl192_update([one EXCEPT !.vic[1 - v] = vic[1 - v]], 1 - v))
    /\ Same

Next ==
    \/ Ack \/ Fin \/ Reset \/ Load
    \/ \E p \in Levels : WriteDaisy(p)
    \/ \E v \in 0..1 : \/ \E S \in SUBSET Sources[v] : WriteSelect(v, S)
                       \/ \E S \in SUBSET Levels : WriteMask(v, S)
    \/ \E v \in 0..1 : \E i \in Sources[v] :
         \/ pl192_irq_handler(v, i) \/ WriteEnable(v, i) \/ WriteEnClear(v, i)
         \/ WriteSoftInt(v, i) \/ WriteSoftClear(v, i) \/ WriteVector(v, i)
         \/ \E p \in Levels : WritePriority(v, i, p)

Spec == Init /\ [][Next]_vars

-----------------------------------------------------------------------------
TypeOK ==
    /\ vic \in [0..1 -> {vic[0], vic[1]}] /\ \A v \in 0..1 : vic[v] \in Controller(v)
    /\ irq \in BOOLEAN /\ fiq \in BOOLEAN /\ depth \in 0..MaxDepth
    /\ \A v \in 0..1 : Len(vic[v].stack) <= LEVELS

(* The sources of the chain that ask for the CPU, and the order in which   *)
(* a source comes: its level at vic0, sources before the daisy input, its  *)
(* level at vic1, its number.                                              *)
Pending(v) == {i \in IrqStatus(vic[v]) : vic[v].vect_priority[i] \in vic[v].sw_priority_mask}
Asking ==
    LET open == vic[0].sw_priority_mask
    IN {<<0, i>> : i \in {j \in Pending(0) : vic[0].vect_priority[j] \in open}}
       \cup {<<1, i>> : i \in {j \in Pending(1) : vic[0].daisy_priority \in open}}
Order(x) ==
    IF x[1] = 0 THEN <<vic[0].vect_priority[x[2]], 0, 0, x[2]>>
    ELSE <<vic[0].daisy_priority, 1, vic[1].vect_priority[x[2]], x[2]>>
Before(a, b) == \E k \in 1..4 : a[k] < b[k] /\ \A j \in 1..(k - 1) : a[j] = b[j]
First == CHOOSE x \in Asking : \A y \in Asking \ {x} : Before(Order(x), Order(y))

(* With nothing being served, IRQ is asserted if a source asks for it, and *)
(* only while one is pending at all, and the vector an acknowledgment      *)
(* would return is the one of the source that comes first in the chain,    *)
(* whatever the guest programmed and nested before (as deep as the         *)
(* stacks), across resets and snapshots (pl192_update's returns that leave *)
(* the line as it was; the address vic0 caches from vic1).                 *)
IrqTrue ==
    ~deep /\ depth = 0 =>
        /\ Asking # {} => irq
        /\ irq => IrqStatus(vic[0]) \cup IrqStatus(vic[1]) # {}
        /\ irq /\ Asking # {} => vic[0].address = vic[First[1]].vect_addr[First[2]]

(* Every acknowledgment of the daisy input that the guest has not finished *)
(* is one of vic1's, and nothing else is: when the guest has finished all  *)
(* neither controller masks anything (pl192_irq_ack, pl192_irq_fin), as    *)
(* long as it nested no deeper than the stacks.  No stack outgrows its     *)
(* depth, and a controller that serves serves a source or the daisy input  *)
(* ("Leaving the child at NO_IRQ indexes vect_priority[33]").              *)
StacksMatch ==
    /\ TypeOK
    /\ \A v \in 0..1 : vic[v].stack # <<>> => vic[v].current # NO_IRQ
    /\ ~deep =>
          /\ Len(vic[0].stack) = depth
          /\ Len(vic[1].stack) = Cardinality({k \in DOMAIN vic[0].stack : vic[0].stack[k].irq = DAISY})

(* Nested deeper than the stacks, vic0 still masks nothing when the guest  *)
(* has finished all (the saturated stack_i).                               *)
Unwinds == depth = 0 => vic[0].priority = LEVELS /\ vic[0].current = NO_IRQ
=============================================================================
