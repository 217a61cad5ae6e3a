------------------------------- MODULE UsbOtg -------------------------------
(***************************************************************************)
(* The Synopsys OTG core in device mode, hw/arm/ipod_touch_usb_otg.c: its  *)
(* endpoints, its interrupt line, and the link to the host bridge.         *)
(*                                                                         *)
(* The bridge's transactions arrive through synopsys_usb_tcp_callback, in  *)
(* the main loop; the guest's driver writes registers from a vCPU; both    *)
(* hold the big lock, so a transaction and a register write are each one   *)
(* step.  The driver is not part of the repository.  It is modelled as the *)
(* code's comments describe it: it programs an endpoint's size and address *)
(* before its control register, so that arming is one step; and it arms a  *)
(* control reply before it lets the next SETUP in.                         *)
(*                                                                         *)
(* Endpoint 0 is the control pipe, endpoint 1 a bulk pair.  Sizes are in   *)
(* units of half a packet or so; a SETUP is one unit.  A buffer in guest   *)
(* memory is a number, its bytes are numbered from 0.  FIFO registers and  *)
(* the PLL and OTG registers hold no state the core acts on and are left   *)
(* out; a hello and a withheld charge request change nothing.              *)
(* The ticks of the built-in host are in UsbHost.                          *)
(***************************************************************************)
EXTENDS Integers, Sequences, FiniteSets

CONSTANTS
    MPS,        \* packet size
    MAX_IN,     \* the largest IN transfer the driver arms
    OUT_PKTS,   \* packets of the largest OUT transfer it arms
    Environments,  \* the sets of Parts that may act together
    MaxSetups   \* bound

(* The control pipe, the two bulk pipes, bus events, register writes that  *)
(* change masks, set a global NAK or stop an endpoint, the cable and the   *)
(* bridge, resets and snapshots.  A behaviour has one of Environments      *)
(* around the core from its start to its end.  "long" is for transfers up  *)
(* to the bounds; without it they have one unit and there is one SETUP.    *)
(* "builtin" is the built-in host instead of a bridge.                     *)
Parts == {"control", "in", "out", "bus", "masks", "nak", "stop", "wires", "resets", "snapshot", "long",
          "builtin"}

ASSUME UsbConstants ==
    /\ MPS \in Nat \ {0} /\ MAX_IN \in Nat \ {0} /\ OUT_PKTS \in Nat \ {0}
    /\ MaxSetups \in Nat /\ Environments \subseteq SUBSET Parts

VARIABLES
    inEp, outEp,                          \* in_eps and out_eps
    gintsts, gintmsk, gahbcfg,            \* gahbcfg: GAHBCFG_MASKINT
    diepmsk, doepmsk, daintmsk,
    irq,                                  \* the level of the interrupt line
    phy_reset, cable,                     \* cable: cable_attached
    link,                                 \* tcp_connected and tcp_usb_closed
    bridge,                               \* whether a bridge listens
    host,                                 \* the built-in host: host_phase and so on
    drv,                                  \* what the driver does next on EP0
    xin, xout,                            \* the transfers, as the driver armed them
    setups,                               \* SETUPs accepted so far
    reply,                                \* the last control IN: to and from which SETUP
    snap,                                 \* a snapshot
    acting                                \* the parts that act

core == <<inEp, outEp, gintsts, gintmsk, gahbcfg, diepmsk, doepmsk, daintmsk, irq>>
masks == <<gintmsk, gahbcfg, diepmsk, doepmsk, daintmsk>>
wires == <<phy_reset, cable, link, bridge, host>>
ghosts == <<drv, xin, xout, setups, reply>>
vars == <<core, wires, ghosts, snap, acting>>

Eps == {0, 1}
EpInts == {"compl", "setup", "nakeff", "disbld"}
GInts == {"reset", "enumdone", "conid", "ginnak", "goutnak", "iep", "oep"}
NoBuf == [buf |-> 0, off |-> 0]
Packets(n) == (n + MPS - 1) \div MPS
MinOf(a, b) == IF a <= b THEN a ELSE b
MaxOf(a, b) == IF a <= b THEN b ELSE a
Builtin == "builtin" \in acting
Limit(n) == IF "long" \in acting THEN n ELSE MinOf(n, 1)

(* One endpoint: control's EPENA, STALL and NAKSTS, tx_size's XferSize and *)
(* PktCnt, dma_address and interrupt_status.                               *)
Endpoint ==
    [ena: BOOLEAN, stall: BOOLEAN, nak: BOOLEAN, xfer: Nat, pkts: Nat,
     dma: [buf: Nat, off: Nat], int: SUBSET EpInts]
ResetEp == [ena |-> FALSE, stall |-> FALSE, nak |-> FALSE, xfer |-> 0, pkts |-> 0,
            dma |-> NoBuf, int |-> {}]

(* What an armed transfer was armed with, and what became of it: for IN    *)
(* the bytes handed to the host, for OUT what the host sent and what is in *)
(* the guest's buffer.                                                     *)
NoIn == [buf |-> 0, off |-> 0, size |-> 0, got |-> << >>, state |-> "none"]
NoOut == [size |-> 0, pkts |-> 0, txs |-> 0, sent |-> << >>, mem |-> << >>,
          full |-> FALSE, state |-> "none"]

(* The built-in host at realize: host_phase as a request and its stage,    *)
(* host_cfg, host_cfg_value, host_want, host_buf up to host_got, and       *)
(* host_greeted.                                                           *)
HostStarts ==
    [phase |-> <<"bus", IF Builtin THEN "reset" ELSE "idle">>, cfg |-> 0, value |-> 0, want |-> 0,
     got |-> << >>, greeted |-> FALSE]

TypeOK ==
    /\ inEp \in [Eps -> Endpoint] /\ outEp \in [Eps -> Endpoint]
    /\ \A e \in Eps : inEp[e].xfer <= MaxOf(MAX_IN, MPS) /\ outEp[e].xfer <= OUT_PKTS * MPS
    /\ gintsts \subseteq GInts /\ gintmsk \subseteq GInts
    /\ gahbcfg \in BOOLEAN /\ irq \in BOOLEAN
    /\ diepmsk \subseteq EpInts /\ doepmsk \subseteq EpInts
    /\ daintmsk \subseteq ({"in", "out"} \X Eps)
    /\ phy_reset \in BOOLEAN /\ cable \in BOOLEAN /\ bridge \in BOOLEAN
    /\ link \in {"none", "up", "closed"}
    /\ drv \in {"down", "arm", "wait", "reply"}
    /\ setups \in Nat /\ acting \in Environments

Init ==
    /\ acting \in Environments
    /\ inEp = [e \in Eps |-> ResetEp] /\ outEp = [e \in Eps |-> ResetEp]
    /\ gintsts = {"conid"} /\ gintmsk = {} /\ gahbcfg = FALSE
    /\ diepmsk = {} /\ doepmsk = {} /\ daintmsk = {} /\ irq = FALSE
    /\ phy_reset = FALSE /\ cable = TRUE /\ link = "none" /\ bridge = ~Builtin /\ host = HostStarts
    /\ drv = "arm"
    /\ xin = [e \in Eps |-> NoIn] /\ xout = [e \in Eps |-> NoOut]
    /\ setups = 0 /\ reply = [to |-> 0, from |-> 0]
    /\ snap = << >>

-----------------------------------------------------------------------------
(* The interrupt line *)

InPending(e) == inEp[e].int \cap diepmsk # {} /\ <<"in", e>> \in daintmsk
OutPending(e) == outEp[e].int \cap doepmsk # {} /\ <<"out", e>> \in daintmsk

EpStatus ==
    (IF \E e \in Eps : InPending(e) THEN {"iep"} ELSE {}) \cup
    (IF \E e \in Eps : OutPending(e) THEN {"oep"} ELSE {})

(* synopsys_usb_update_irq, after the endpoints and masks have changed and *)
(* with g for the other GINTSTS bits.                                      *)
UpdateIrq(g) ==
    /\ gintsts' = (g \ {"iep", "oep"}) \cup EpStatus'
    /\ irq' = (gahbcfg' /\ gintmsk' \cap gintsts' # {})

-----------------------------------------------------------------------------
(* Register writes *)

(* synopsys_usb_update_ep, for a control write of the bits w.              *)
UpdateEp(ep, w) ==
    [ep EXCEPT !.nak = @ \/ "snak" \in w,
               !.ena = @ /\ "dis" \notin w,
               !.int = @ \cup (IF "snak" \in w THEN {"nakeff"} ELSE {})
                         \cup (IF "dis" \in w THEN {"disbld"} ELSE {})]

(* DIEPCTL: NAKSTS is read-only; CNAK clears it.                           *)
InCtl(ep, w) ==
    UpdateEp([ep EXCEPT !.ena = "ena" \in w, !.stall = "stall" \in w,
                        !.nak = @ /\ "cnak" \notin w], w)

(* DOEPCTL: the NAK bits have no effect on an OUT endpoint.                *)
OutCtl(ep, w) ==
    UpdateEp([ep EXCEPT !.ena = "ena" \in w, !.stall = "stall" \in w, !.nak = FALSE], w)

(* DIEPTSIZ, DIEPDMA, then DIEPCTL, after the interrupts in ack.           *)
InArmed(ep, ack, buf, off, n) ==
    InCtl([ep EXCEPT !.int = @ \ ack, !.xfer = n, !.pkts = MaxOf(1, Packets(n)),
                     !.dma = [buf |-> buf, off |-> off]], {"ena", "cnak"})
ArmInFrom(e, ack, buf, off, n) ==
    /\ inEp' = [inEp EXCEPT ![e] = InArmed(inEp[e], ack, buf, off, n)]
    /\ xin' = [xin EXCEPT ![e] =
          [NoIn EXCEPT !.buf = buf, !.off = off, !.size = n, !.state = "armed"]]

ArmIn(e, buf, n) == ArmInFrom(e, {}, buf, 0, n)

(* DOEPTSIZ, DOEPDMA, then DOEPCTL.  There is one buffer.                  *)
OutArmed(ep, k, n) ==
    OutCtl([ep EXCEPT !.xfer = n, !.pkts = k, !.dma = [buf |-> 1, off |-> 0]], {"ena"})
ArmOut(e, k, n) ==
    /\ outEp' = [outEp EXCEPT ![e] = OutArmed(outEp[e], k, n)]
    /\ xout' = [xout EXCEPT ![e] = [NoOut EXCEPT !.size = n, !.pkts = k, !.state = "armed"]]

(* The driver's control pipe.                                              *)
DrvArmOut0 ==
    /\ "control" \in acting
    /\ drv = "arm" /\ drv' = "wait"
    /\ ArmOut(0, 1, 1)
    /\ UNCHANGED <<inEp, gintsts, masks, irq, wires, xin, setups, reply, snap, acting>>

ClearOutInt(e, bits) == outEp' = [outEp EXCEPT ![e].int = @ \ bits]
ClearInInt(e, bits) == inEp' = [inEp EXCEPT ![e].int = @ \ bits]

DrvTakeOut0 ==
    /\ drv = "wait" /\ (Builtin => "reset" \notin gintsts)
    /\ \/ /\ "setup" \in outEp[0].int
          /\ ClearOutInt(0, {"setup"}) /\ drv' = "reply"
       \/ /\ "setup" \notin outEp[0].int /\ "compl" \in outEp[0].int
          /\ ClearOutInt(0, {"compl"}) /\ drv' = "arm"
    /\ UNCHANGED <<inEp, masks>>
    /\ UpdateIrq(gintsts)
    /\ UNCHANGED <<wires, xin, xout, setups, reply, snap, acting>>

(* The reply to the SETUP taken, of any size; or STALL.                    *)
DrvReply ==
    /\ drv = "reply" /\ ~Builtin
    /\ drv' = "arm"
    /\ \/ \E n \in 0..Limit(MAX_IN) : ArmIn(0, setups, n)
       \/ /\ inEp' = [inEp EXCEPT ![0] = InCtl(inEp[0], {"stall"})]
          /\ xin' = [xin EXCEPT ![0].state = IF @ = "armed" THEN "stopped" ELSE @]
    /\ UNCHANGED <<outEp, gintsts, masks, irq, wires, xout, setups, reply, snap, acting>>

(* The bulk pair.  A buffer is not used twice in a row; 0 stands for a     *)
(* transfer armed with no address.                                         *)
Buffers == 0..2

DrvArmIn1 ==
    /\ ~inEp[1].ena /\ drv # "down"
    /\ "in" \in acting
    /\ \E n \in 0..Limit(MAX_IN), buf \in Buffers \ {xin[1].buf} : ArmIn(1, buf, n)
    /\ UNCHANGED <<outEp, gintsts, masks, irq, wires, drv, xout, setups, reply, snap, acting>>

DrvArmOut1 ==
    /\ ~outEp[1].ena /\ drv # "down"
    /\ "out" \in acting
    /\ \E k \in 1..Limit(OUT_PKTS) : ArmOut(1, k, k * MPS)
    /\ UNCHANGED <<inEp, gintsts, masks, irq, wires, drv, xin, setups, reply, snap, acting>>

(* DIEPCTL writes that stop the bulk IN endpoint or NAK it; no interrupt   *)
(* update follows one.                                                     *)
DrvStopIn1 ==
    /\ {"stop", "in"} \subseteq acting
    /\ \E w \in {{"dis", "ena", "snak"}, {"ena", "snak"}, {"ena", "cnak"}} :
          /\ w \subseteq {"ena", "snak", "cnak"} => inEp[1].ena
          /\ inEp' = [inEp EXCEPT ![1] = InCtl(inEp[1], w)]
          /\ xin' = [xin EXCEPT ![1].state =
                        IF "dis" \in w /\ @ = "armed" THEN "stopped" ELSE @]
    /\ UNCHANGED <<outEp, gintsts, masks, irq, wires, drv, xout, setups, reply, snap, acting>>

(* DOEPCTL writes that stall the bulk OUT endpoint or disable it.          *)
DrvStopOut1 ==
    /\ {"stop", "out"} \subseteq acting
    /\ \E w \in {{"stall"}, {"dis", "ena", "snak"}} :
          /\ outEp' = [outEp EXCEPT ![1] = OutCtl(outEp[1], w)]
          /\ xout' = [xout EXCEPT ![1].state = IF @ = "armed" THEN "stopped" ELSE @]
    /\ UNCHANGED <<inEp, gintsts, masks, irq, wires, drv, xin, setups, reply, snap, acting>>

(* DIEPINT and DOEPINT.                                                    *)
DrvClearInts ==
    /\ \/ \E e \in (IF Builtin THEN {1} ELSE Eps) :
             inEp[e].int # {} /\ ClearInInt(e, inEp[e].int) /\ UNCHANGED outEp
       \/ outEp[1].int # {} /\ ClearOutInt(1, outEp[1].int) /\ UNCHANGED inEp
    /\ UNCHANGED masks
    /\ UpdateIrq(gintsts)
    /\ UNCHANGED <<wires, ghosts, snap, acting>>

(* GINTSTS.                                                                *)
DrvClearGint ==
    /\ ~Builtin
    /\ \E g \in gintsts :
          UNCHANGED <<inEp, outEp, masks>> /\ UpdateIrq(gintsts \ {g})
    /\ UNCHANGED <<wires, ghosts, snap, acting>>

(* GAHBCFG, GINTMSK, DIEPMSK with DOEPMSK, and DAINTMSK.                   *)
DrvMask ==
    /\ "masks" \in acting
    /\ UNCHANGED <<inEp, outEp>>
    /\ \/ gahbcfg' = ~gahbcfg /\ UNCHANGED <<gintmsk, diepmsk, doepmsk, daintmsk>>
       \/ /\ gintmsk' \in {{"reset", "enumdone"}, GInts}
          /\ UNCHANGED <<gahbcfg, diepmsk, doepmsk, daintmsk>>
       \/ /\ diepmsk' \in {{}, EpInts} /\ doepmsk' = diepmsk'
          /\ UNCHANGED <<gahbcfg, gintmsk, daintmsk>>
       \/ /\ daintmsk' \in {{}, {"in", "out"} \X Eps}
          /\ UNCHANGED <<gahbcfg, gintmsk, diepmsk, doepmsk>>
    /\ UpdateIrq(gintsts)
    /\ UNCHANGED <<wires, ghosts, snap, acting>>

(* DCTL: setting a global NAK raises its interrupt, clearing it drops it.  *)
DrvGlobalNak ==
    /\ "nak" \in acting
    /\ \E b \in {"ginnak", "goutnak"} :
          /\ UNCHANGED <<inEp, outEp, masks>>
          /\ UpdateIrq(gintsts \cup {b}) \/ UpdateIrq(gintsts \ {b})
    /\ UNCHANGED <<wires, ghosts, snap, acting>>

-----------------------------------------------------------------------------
(* The link *)

(* Mutant: a link that was closed counts as connected.                     *)
DialOnce(attached) ==
    IF ~attached \/ link # "none" THEN link ELSE IF bridge THEN "up" ELSE "none"

(* synopsys_usb_tcp_start, the bridge's address being configured.          *)
TcpStart(attached) ==
    IF ~attached \/ link = "up" THEN link ELSE IF bridge THEN "up" ELSE "none"

(* synopsys_usb_host_rearm: enumeration starts again while the cable is in *)
(* and stops otherwise.                                                    *)
HostRearm(attached) ==
    IF ~Builtin THEN host
    ELSE [host EXCEPT !.phase = IF attached THEN <<"bus", "reset">> ELSE <<"bus", "idle">>]

(* synopsys_usb_tcp_retry_tick, every TCP_USB_RETRY_MS, and realize.       *)
RetryTick ==
    /\ link # "up"
    /\ link' = TcpStart(cable)
    /\ UNCHANGED <<core, phy_reset, cable, bridge, host, ghosts, snap, acting>>

(* synopsys_usb_set_cable.                                                 *)
SetCable(attached) ==
    /\ "wires" \in acting
    /\ cable' = attached
    /\ link' = IF attached THEN TcpStart(attached) ELSE "none"
    /\ host' = HostRearm(attached)
    /\ UNCHANGED <<core, phy_reset, bridge, ghosts, snap, acting>>

(* The bridge goes and comes; the socket it leaves is found closed.        *)
BridgeToggle ==
    /\ "wires" \in acting /\ ~Builtin
    /\ bridge' = ~bridge
    /\ link' = IF bridge /\ link = "up" THEN "closed" ELSE link
    /\ UNCHANGED <<core, phy_reset, cable, host, ghosts, snap, acting>>

SetPhyReset ==
    /\ "wires" \in acting
    /\ phy_reset' = ~phy_reset
    /\ UNCHANGED <<core, cable, link, bridge, host, ghosts, snap, acting>>

-----------------------------------------------------------------------------
(* Transactions: synopsys_usb_tcp_callback.  With the PHY in reset each is *)
(* NAKed and nothing changes.                                              *)

OnBus == link = "up" /\ ~phy_reset

BusReset ==
    /\ OnBus /\ "bus" \in acting
    /\ UNCHANGED <<inEp, outEp, masks>>
    /\ UpdateIrq(gintsts \cup {"reset"})
    /\ UNCHANGED <<wires, ghosts, snap, acting>>

(* Mutant: a transfer is over when one transaction is.                     *)
InEnds(ep, want) == TRUE

(* What one IN transaction of at most want units takes.                    *)
InAmount(ep, want) == IF ep.dma.buf = 0 THEN 0 ELSE MinOf(ep.xfer, want)

(* An IN transfer is over when XferSize is drained, or when there is no    *)
(* address to take its bytes from.                                         *)
InOver(ep, want) ==
    ep.xfer = InAmount(ep, want) \/ (MinOf(ep.xfer, want) > 0 /\ ep.dma.buf = 0)

InPktCnt(ep, amt) ==
    IF amt > 0 /\ Packets(amt) < ep.pkts THEN ep.pkts - Packets(amt)
    ELSE IF amt > 0 THEN 0 ELSE ep.pkts

InTransfer(ep, want) ==
    LET amt == InAmount(ep, want) IN
    [ep EXCEPT !.xfer = @ - amt, !.pkts = InPktCnt(ep, amt), !.dma.off = @ + amt,
               !.ena = ~InOver(ep, want),
               !.int = IF InOver(ep, want) THEN @ \cup {"compl"} ELSE @]

(* The transfer x once the host has been handed these bytes.               *)
Handed(x, ep, want) ==
    [x EXCEPT !.got = @ \o [i \in 1..InAmount(ep, want) |->
                               [buf |-> ep.dma.buf, off |-> ep.dma.off + i - 1]],
              !.state = IF InOver(ep, want) THEN "complete" ELSE @]

(* An IN transaction: a STALL is reported once; an endpoint NAKs when told *)
(* to, or with nothing armed.                                              *)
InOn(e, want) ==
    LET ep == inEp[e]
    IN \/ /\ ep.stall
          /\ inEp' = [inEp EXCEPT ![e].stall = FALSE]
          /\ UNCHANGED <<xin, reply>>
       \/ /\ ~ep.stall /\ ~ep.nak /\ ep.ena
          /\ inEp' = [inEp EXCEPT ![e] = InTransfer(ep, want)]
          /\ xin' = [xin EXCEPT ![e] = Handed(xin[e], ep, want)]
          /\ reply' = IF e = 0 THEN [to |-> setups, from |-> ep.dma.buf] ELSE reply
       \/ /\ ~ep.stall /\ (ep.nak \/ ~ep.ena)
          /\ UNCHANGED <<inEp, xin, reply>>
InPath(e, want) ==
    /\ InOn(e, want)
    /\ UNCHANGED <<outEp, masks>>
    /\ UpdateIrq(gintsts)
    /\ UNCHANGED <<drv, xout, setups, snap, acting>>

InTx(e, want) == OnBus /\ InPath(e, want) /\ UNCHANGED wires

(* The bytes of the transfer's k-th transaction, and where DMA puts them.  *)
Payload(k, amt) == [i \in 1..amt |-> [tx |-> k, off |-> i - 1]]
Stored(mem, off, bytes) == SubSeq(mem, 1, off) \o bytes

(* Mutant: the address is not advanced.                                    *)
OutContinuesHere(ep, amt) ==
    [ep EXCEPT !.xfer = @ - amt, !.pkts = @ - amt \div MPS]

(* A packet multiple short of XferSize and PktCnt: the transfer goes on.   *)
OutContinues(ep, amt) ==
    [ep EXCEPT !.xfer = @ - amt, !.pkts = @ - amt \div MPS, !.dma.off = @ + amt]

GoesOn(e, ep, amt) ==
    e # 0 /\ amt > 0 /\ amt % MPS = 0 /\ amt < ep.xfer /\ amt \div MPS < ep.pkts

OutUsed(ep, amt) == MinOf(ep.pkts, MaxOf(1, Packets(amt)))

OutEnds(e, ep, amt) ==
    [ep EXCEPT !.ena = FALSE, !.xfer = @ - amt, !.dma.off = @ + amt,
               !.pkts = IF e # 0 THEN @ - OutUsed(ep, amt) ELSE @,
               !.int = @ \cup {"compl"}]

(* The transfer x once amt more units have arrived.                        *)
Received(x, off, amt, on) ==
    [x EXCEPT !.txs = @ + 1, !.sent = @ \o Payload(x.txs, amt),
              !.mem = Stored(@, off, Payload(x.txs, amt)),
              !.full = amt > 0 /\ amt % MPS = 0,
              !.state = IF on THEN @ ELSE "complete"]

(* An OUT transaction of n units on an armed endpoint.                     *)
OutTransfer(e, n) ==
    LET ep == outEp[e]
        amt == MinOf(ep.xfer, n)
        on == GoesOn(e, ep, amt)
    IN /\ outEp' = [outEp EXCEPT ![e] = IF on THEN OutContinues(ep, amt) ELSE OutEnds(e, ep, amt)]
       /\ xout' = [xout EXCEPT ![e] = Received(xout[e], ep.dma.off, amt, on)]

(* An OUT transaction: a STALL is reported once, nothing armed is a NAK.   *)
OutOn(e, n) ==
    \/ /\ outEp[e].stall
       /\ outEp' = [outEp EXCEPT ![e].stall = FALSE]
       /\ UNCHANGED xout
    \/ ~outEp[e].stall /\ outEp[e].ena /\ OutTransfer(e, n)
    \/ ~outEp[e].stall /\ ~outEp[e].ena /\ UNCHANGED <<outEp, xout>>

(* The whole OUT path, with g for GINTSTS.                                 *)
OutPath(e, n, g) ==
    /\ OutOn(e, n)
    /\ UNCHANGED <<inEp, masks>>
    /\ UpdateIrq(g)

OutTx(e, n) ==
    /\ OnBus
    /\ OutPath(e, n, gintsts)
    /\ UNCHANGED <<wires, drv, xin, setups, reply, snap, acting>>

(* ENUMDONE falls through to an empty OUT transaction on endpoint 0.       *)
EnumDone ==
    /\ OnBus /\ "bus" \in acting
    /\ OutPath(0, 0, gintsts \cup {"enumdone"})
    /\ UNCHANGED <<wires, drv, xin, setups, reply, snap, acting>>

(* Mutant: a data stage armed for an earlier request stays ready.          *)
NakOldReply(ep) == [ep EXCEPT !.stall = FALSE]

(* A SETUP the core takes ends the control transfer before it.             *)
EndControl(ep) == [ep EXCEPT !.stall = FALSE, !.nak = TRUE]

SetupIn(ep, amt) ==
    [ep EXCEPT !.ena = FALSE, !.xfer = @ - amt, !.dma.off = @ + amt, !.int = @ \cup {"setup"}]

TakeSetup ==
    /\ outEp[0].ena /\ ~outEp[0].stall   \* otherwise it goes as OutTx(0, 0) does
    /\ LET amt == MinOf(outEp[0].xfer, 1) IN
       /\ outEp' = [outEp EXCEPT ![0] = SetupIn(outEp[0], amt)]
       /\ xout' = [xout EXCEPT ![0].sent = Payload(0, amt), ![0].mem = Payload(0, amt),
                               ![0].state = "complete"]
    /\ inEp' = [inEp EXCEPT ![0] = EndControl(inEp[0])]
    /\ setups' = setups + 1
    /\ UNCHANGED masks
    /\ UpdateIrq(gintsts)
    /\ UNCHANGED <<drv, xin, reply, snap, acting>>

Setup ==
    /\ OnBus /\ setups < Limit(MaxSetups)
    /\ TakeSetup
    /\ UNCHANGED wires

-----------------------------------------------------------------------------
(* Resets and snapshots *)

(* GRSTCTL's core soft reset: the endpoints stay as they are.              *)
SoftReset ==
    /\ "resets" \in acting
    /\ link' = TcpStart(cable)
    /\ host' = HostRearm(cable)
    /\ drv' = IF drv = "down" THEN "arm" ELSE drv
    /\ UNCHANGED <<inEp, outEp, masks>>
    /\ UpdateIrq(gintsts \cup {"reset", "conid"})
    /\ UNCHANGED <<phy_reset, cable, bridge, xin, xout, setups, reply, snap, acting>>

(* The driver starts again with the machine, and begins with a soft reset. *)
DriverStarts ==
    /\ drv' = "down"
    /\ xin' = [e \in Eps |-> NoIn] /\ xout' = [e \in Eps |-> NoOut]
    /\ reply' = [to |-> 0, from |-> 0]

(* Mutant: interrupt_status is left standing.                              *)
ResetKeepsInts ==
    /\ inEp' = [e \in Eps |-> [ResetEp EXCEPT !.int = inEp[e].int]]
    /\ outEp' = [e \in Eps |-> [ResetEp EXCEPT !.int = outEp[e].int]]

ResetEndpoints ==
    /\ inEp' = [e \in Eps |-> ResetEp]
    /\ outEp' = [e \in Eps |-> ResetEp]

(* s5l8900_usb_otg_reset: the core, and the link to the bridge.            *)
DeviceReset ==
    /\ "resets" \in acting
    /\ ResetEndpoints
    /\ gintmsk' = {} /\ gahbcfg' = FALSE
    /\ diepmsk' = {} /\ doepmsk' = {} /\ daintmsk' = {}
    /\ UpdateIrq({"conid"})
    /\ link' = "none"
    /\ DriverStarts
    /\ UNCHANGED <<phy_reset, cable, bridge, host, setups, snap, acting>>

SaveSnapshot ==
    /\ snap = << >> /\ "snapshot" \in acting
    /\ snap' = [inEp |-> inEp, outEp |-> outEp, gintsts |-> gintsts, gintmsk |-> gintmsk,
                gahbcfg |-> gahbcfg, diepmsk |-> diepmsk, doepmsk |-> doepmsk,
                daintmsk |-> daintmsk, drv |-> drv, xin |-> xin, xout |-> xout,
                setups |-> setups, reply |-> reply]
    /\ UNCHANGED <<core, wires, ghosts, acting>>

(* Mutant: post_load restores GINTSTS without driving the line, which the  *)
(* reset before the load has lowered.                                      *)
PostLoadSilent(g) == gintsts' = g /\ irq' = FALSE

PostLoadIrq(g) == UpdateIrq(g)

(* synopsys_usb_post_load, once the saved registers are back.              *)
LoadSnapshot ==
    /\ snap # << >>
    /\ inEp' = snap.inEp /\ outEp' = snap.outEp
    /\ gintmsk' = snap.gintmsk /\ gahbcfg' = snap.gahbcfg
    /\ diepmsk' = snap.diepmsk /\ doepmsk' = snap.doepmsk /\ daintmsk' = snap.daintmsk
    /\ PostLoadIrq(snap.gintsts)
    /\ link' = "none"
    /\ drv' = snap.drv /\ xin' = snap.xin /\ xout' = snap.xout
    /\ setups' = snap.setups /\ reply' = snap.reply
    /\ UNCHANGED <<phy_reset, cable, bridge, host, snap, acting>>

Driver ==
    \/ DrvArmOut0 \/ DrvTakeOut0 \/ DrvReply \/ DrvArmIn1 \/ DrvArmOut1 \/ DrvStopIn1 \/ DrvStopOut1
    \/ DrvClearInts \/ DrvClearGint \/ DrvMask \/ DrvGlobalNak

Host ==
    \/ BusReset \/ EnumDone \/ Setup
    \/ \E e \in Eps : \E n \in 0..(Limit(MAX_IN) + 1) : InTx(e, n)
    \/ \E n \in 0..(Limit(OUT_PKTS) * MPS + 1) : OutTx(1, n)
    \/ OutTx(0, 0)

Next ==
    \/ Driver \/ Host \/ RetryTick \/ BridgeToggle \/ SetPhyReset
    \/ SetCable(TRUE) \/ SetCable(FALSE)
    \/ SoftReset \/ SaveSnapshot \/ LoadSnapshot

-----------------------------------------------------------------------------
(* The line is up exactly when an unmasked GINTSTS bit is pending with     *)
(* interrupts enabled, and a transfer that completed, or a SETUP that      *)
(* arrived, unmasked at every level, has raised it: no register write,     *)
(* transaction, reset or snapshot leaves synopsys_usb_update_irq's result  *)
(* behind.                                                                 *)
LineTrue ==
    /\ irq <=> gahbcfg /\ gintsts \cap gintmsk # {}
    /\ gahbcfg /\ gintmsk = GInts =>
          \A e \in Eps :
             /\ inEp[e].int \cap diepmsk \cap {"compl"} # {} /\ <<"in", e>> \in daintmsk => irq
             /\ outEp[e].int \cap doepmsk \cap {"compl", "setup"} # {} /\ <<"out", e>> \in daintmsk => irq

(* The bytes handed to the host of an IN transfer are the armed buffer's,  *)
(* in order, without gap or repetition, as far as XferSize has drained,    *)
(* however the host splits its requests; the driver is told it is complete *)
(* only when all of it has gone ("The device must not raise XferCompl or   *)
(* clear EPENA until DIEPTSIZ.XferSize drains"); and PktCnt has counted    *)
(* down to 0 then, on endpoint 0 too, if there was a byte to send (1.x's   *)
(* driver sends the first packet again while it stays at 1).               *)
InWhole ==
    \A e \in Eps :
        xin[e].buf # 0 =>
            /\ xin[e].got = [i \in 1..(xin[e].size - inEp[e].xfer) |-> [buf |-> xin[e].buf, off |-> xin[e].off + i - 1]]
            /\ xin[e].state = "complete" => Len(xin[e].got) = xin[e].size
            /\ xin[e].state = "complete" /\ xin[e].size > 0 => inEp[e].pkts = 0

(* What is in the driver's buffer is what the host sent since it was armed,*)
(* in order, and XferSize says how much, also when the transfer went on    *)
(* over several transactions; and the driver can tell by XferSize and      *)
(* PktCnt whether a bulk transfer ended on a short packet, a ZLP included, *)
(* or on a full one (1.x compares bytes with packets times MPS).           *)
OutWhole ==
    /\ \A e \in Eps :
          xout[e].state \in {"armed", "complete"} =>
              /\ xout[e].mem = xout[e].sent
              /\ Len(xout[e].mem) = xout[e].size - outEp[e].xfer
    /\ xout[1].state = "complete" =>
          (xout[1].size - outEp[1].xfer = (xout[1].pkts - outEp[1].pkts) * MPS
              <=> xout[1].full)

(* A control IN never returns what the driver armed for an earlier SETUP:  *)
(* NAKSTS keeps a reply the host gave up on from answering the next        *)
(* request ("Without it the pipe ran one reply behind").                   *)
NoStaleReply == reply.to = reply.from

(* No completion is left over from before a reset: an endpoint that has    *)
(* one, or a SETUP, has been armed since (s5l8900_usb_otg_reset's clearing *)
(* of interrupt_status).                                                   *)
NoOldInterrupt ==
    \A e \in Eps :
        /\ "compl" \in inEp[e].int => xin[e].state # "none"
        /\ outEp[e].int \cap {"compl", "setup"} # {} => xout[e].state # "none"

(* The link follows the cable: unplugged means disconnected, whichever     *)
(* timer or reset fires next, and the bridge is dialed again whenever the  *)
(* cable is in and it listens (synopsys_usb_tcp_start and its retry).      *)
LinkFollowsCable ==
    /\ [](~cable => link = "none")
    /\ (cable /\ bridge) ~> (link = "up" \/ ~cable \/ ~bridge)
=============================================================================
