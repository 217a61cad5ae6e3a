------------------------------- MODULE UsbHost -------------------------------
(***************************************************************************)
(* The USB core of UsbOtg with either of its two hosts: a bridge on the    *)
(* TCP link, or the built-in host of hw/arm/ipod_touch_usb_otg.c           *)
(* (synopsys_host_tick), which enumerates and configures the guest by      *)
(* transactions of its own, one a tick.                                    *)
(*                                                                         *)
(* A NAK changes nothing and is tried again, so a NAKed tick is no step.   *)
(* Time is not modelled: HostLate is a tick that finds host_deadline       *)
(* passed, in any phase (a poll that a suspended process makes late too).  *)
(* The guest answers the requests it is sent as a USB device does, packet  *)
(* by packet on endpoint 0, and ends a reply shorter than asked for with a *)
(* short packet.                                                           *)
(***************************************************************************)
EXTENDS UsbOtg

CONSTANTS
    CfgLen,       \* the length of each configuration, in units
    MuxCfg,       \* which of them has the mux interface; 0 if none has
    StrLen,       \* the length of the serial number string
    StrAsk,       \* what the host asks for of a string (255 bytes)
    MaxRestarts   \* bound on enumerations started again

ASSUME HostConstants ==
    /\ CfgLen \in Seq(Nat \ {0}) /\ CfgLen # << >> /\ MuxCfg \in 0..Len(CfgLen)
    /\ StrAsk \in Nat /\ StrLen \in 1..StrAsk /\ MaxRestarts \in Nat

VARIABLES
    guest,     \* the guest's USB stack: the request, its reply, the configuration
    restarts   \* what the bound counts

allVars == <<vars, guest, restarts>>

DataRequests == {"dev", "hdr", "cfg", "str0", "ser"}
StatusRequests == {"addr", "setcfg", "charge"}
Requests == DataRequests \cup StatusRequests

(* The phases: a request and its stage, from HP_IDLE to HP_POLL.           *)
Phases ==
    ({"bus"} \X {"idle", "reset", "enumdone"}) \cup {<<"mux", "poll">>}
    \cup (Requests \X {"setup", "status"}) \cup (DataRequests \X {"in"})

NoRequest == [kind |-> "none", cfg |-> 0, len |-> 0]
NoGuest == [req |-> NoRequest, left |-> 0, off |-> 0, zlp |-> FALSE, config |-> 0]

HostTypeOK ==
    /\ TypeOK
    /\ host.phase \in Phases
    /\ host.cfg \in 0..Len(CfgLen) /\ host.value \in 0..Len(CfgLen)
    /\ Len(host.got) <= MaxOf(1, host.want)
    /\ host.greeted \in BOOLEAN
    /\ guest.req.kind \in Requests \cup {"none"}
    /\ guest.config \in 0..Len(CfgLen)
    /\ restarts \in 0..MaxRestarts

HostInit == Init /\ guest = NoGuest /\ restarts = 0

-----------------------------------------------------------------------------
(* The guest's control pipe, as the built-in host meets it *)

ReplyLen(req) ==
    CASE req.kind = "cfg" -> MinOf(req.len, CfgLen[req.cfg])
      [] req.kind = "ser" -> StrLen
      [] req.kind \in {"dev", "hdr", "str0"} -> 1
      [] OTHER -> 0

GuestArms(g, ack) ==
    LET n == MinOf(g.left, MPS) IN
    /\ ArmInFrom(0, ack, setups, g.off, n)
    /\ guest' = [g EXCEPT !.left = @ - n, !.off = @ + n, !.zlp = @ /\ g.left > 0]

(* The first packet of the reply, an old completion acknowledged; or STALL *)
(* for a string.                                                           *)
GuestReply ==
    /\ Builtin /\ drv = "reply" /\ drv' = "arm"
    /\ LET n == ReplyLen(guest.req) IN
       \/ GuestArms([guest EXCEPT !.left = n, !.off = 0, !.zlp = n < guest.req.len /\ n % MPS = 0,
                        !.config = IF guest.req.kind = "setcfg" THEN guest.req.cfg ELSE @], {"compl"})
       \/ /\ guest.req.kind \in {"str0", "ser"}
          /\ inEp' = [inEp EXCEPT ![0] = InCtl(inEp[0], {"stall"})]
          /\ xin' = [xin EXCEPT ![0].state = IF @ = "armed" THEN "stopped" ELSE @]
          /\ guest' = [guest EXCEPT !.left = 0, !.zlp = FALSE]
    /\ UNCHANGED <<outEp, gintsts, masks, irq, wires, xout, setups, reply, snap, acting>>

(* A packet has gone: the next one, unless a new SETUP is there.           *)
GuestContinues ==
    /\ Builtin /\ drv = "wait"
    /\ "compl" \in inEp[0].int /\ "setup" \notin outEp[0].int /\ "reset" \notin gintsts
    /\ IF guest.left > 0 \/ guest.zlp
       THEN GuestArms(guest, {"compl"})
       ELSE ClearInInt(0, {"compl"}) /\ UNCHANGED <<xin, guest>>
    /\ UNCHANGED <<outEp, masks>>
    /\ UpdateIrq(gintsts)
    /\ UNCHANGED <<wires, drv, xout, setups, reply, snap, acting>>

(* A bus reset: the device is unconfigured.                                *)
GuestSeesReset ==
    /\ Builtin /\ "reset" \in gintsts /\ drv # "down"
    /\ UNCHANGED <<inEp, outEp, masks>>
    /\ UpdateIrq(gintsts \ {"reset"})
    /\ guest' = [guest EXCEPT !.left = 0, !.zlp = FALSE, !.config = 0]
    /\ UNCHANGED <<wires, ghosts, snap, acting>>

-----------------------------------------------------------------------------
(* synopsys_host_tick *)

Request == host.phase[1]
Stage == host.phase[2]
Ticking == Builtin /\ cable /\ Stage # "idle"

(* synopsys_host_go to HP_RESET.                                           *)
Restart(h) == [h EXCEPT !.phase = <<"bus", "reset">>]

(* Mutant: a phase that timed out ends the enumeration.                    *)
HostLateStops ==
    /\ Ticking /\ restarts < MaxRestarts
    /\ host' = [host EXCEPT !.phase = <<"bus", "idle">>]
    /\ restarts' = restarts + 1
    /\ UNCHANGED <<core, phy_reset, cable, link, bridge, ghosts, snap, acting, guest>>

HostLate ==
    /\ Ticking /\ restarts < MaxRestarts
    /\ host' = Restart(host)
    /\ restarts' = restarts + 1
    /\ UNCHANGED <<core, phy_reset, cable, link, bridge, ghosts, snap, acting, guest>>

(* Whether the bus reset goes through or is NAKed, the next phase follows. *)
HostBusReset ==
    /\ Ticking /\ Stage = "reset"
    /\ host' = [host EXCEPT !.phase = <<"bus", "enumdone">>, !.greeted = FALSE]
    /\ UNCHANGED <<inEp, outEp, masks>>
    /\ UpdateIrq(IF phy_reset THEN gintsts ELSE gintsts \cup {"reset"})
    /\ UNCHANGED <<phy_reset, cable, link, bridge, ghosts, snap, acting, guest, restarts>>

HostEnumDone ==
    /\ Ticking /\ Stage = "enumdone"
    /\ host' = [host EXCEPT !.phase = <<"dev", "setup">>]
    /\ IF phy_reset THEN UNCHANGED <<core, xout>>
       ELSE OutPath(0, 0, gintsts \cup {"enumdone"})
    /\ UNCHANGED <<phy_reset, cable, link, bridge, drv, xin, setups, reply, snap, acting, guest, restarts>>

(* Mutant: host_got stays what the last request left it at.                *)
AskedMore(h) ==
    [h EXCEPT !.phase = <<Request, IF Request \in DataRequests THEN "in" ELSE "status">>,
              !.want = CASE Request = "cfg" -> @ [] Request \in {"str0", "ser"} -> StrAsk [] OTHER -> 1]

(* A SETUP that was accepted: host_got and host_want, and the next phase.  *)
Asked(h) ==
    [h EXCEPT !.phase = <<Request, IF Request \in DataRequests THEN "in" ELSE "status">>,
              !.got = IF Request \in DataRequests THEN << >> ELSE @,
              !.want = CASE Request \in StatusRequests \cup {"cfg"} -> @
                         [] Request \in {"str0", "ser"} -> StrAsk
                         [] OTHER -> 1]

(* A configuration is asked for by its index, from 0, and set by value.    *)
HostSetup ==
    /\ Ticking /\ Stage = "setup" /\ ~phy_reset
    /\ TakeSetup
    /\ host' = Asked(host)
    /\ guest' = [guest EXCEPT !.req =
          [kind |-> Request, cfg |-> IF Request = "setcfg" THEN host.value ELSE host.cfg + 1,
           len |-> IF Request \in DataRequests THEN host'.want ELSE 0]]
    /\ UNCHANGED <<phy_reset, cable, link, bridge, restarts>>

HasMux(h) == h.cfg + 1 = MuxCfg

(* The end of a data stage: what the host takes from the descriptor.  A    *)
(* device descriptor or a header cut short starts enumeration again.       *)
DataEnds(h) ==
    CASE Request \in {"dev", "hdr"} /\ h.got = << >> -> Restart(h)
      [] Request = "dev" /\ h.got # << >> ->
            [h EXCEPT !.cfg = 0, !.value = 0, !.phase = <<"dev", "status">>]
      [] Request = "hdr" /\ h.got # << >> ->
            [h EXCEPT !.want = CfgLen[h.cfg + 1], !.phase = <<"hdr", "status">>]
      [] Request = "cfg" ->
            [h EXCEPT !.value = IF @ = 0 \/ HasMux(h) THEN h.cfg + 1 ELSE @,
                      !.phase = <<"cfg", "status">>]
      [] OTHER -> [h EXCEPT !.phase = <<Request, "status">>]

(* An IN of a data stage: a full packet with more wanted stays in it.      *)
HostIn ==
    /\ Ticking /\ Stage = "in" /\ ~phy_reset
    /\ LET ep == inEp[0]
           want == host.want - Len(host.got)
           amt == InAmount(ep, want)
           h == [host EXCEPT !.got = @ \o [i \in 1..amt |-> [buf |-> ep.dma.buf, off |-> ep.dma.off + i - 1]]]
       IN /\ InPath(0, want)
          /\ \/ /\ ep.stall   \* strings are optional
                /\ host' = IF Request \in {"str0", "ser"} THEN DataEnds(host) ELSE Restart(host)
             \/ /\ ~ep.stall /\ ~ep.nak /\ ep.ena
                /\ host' = IF amt = MPS /\ Len(h.got) < h.want THEN h ELSE DataEnds(h)
    /\ UNCHANGED <<phy_reset, cable, link, bridge, guest, restarts>>

(* What follows a status stage.                                            *)
AfterStatus(h) ==
    CASE Request = "dev" -> {<<"addr", "setup">>}
      [] Request = "addr" -> {<<"hdr", "setup">>}
      [] Request = "hdr" -> {<<"cfg", "setup">>}
      [] Request = "cfg" -> {IF h.cfg + 1 < Len(CfgLen) /\ ~HasMux(h) THEN <<"hdr", "setup">>
                             ELSE <<"setcfg", "setup">>}
      [] Request = "setcfg" -> {<<"charge", "setup">>, <<"str0", "setup">>}   \* by host_charge
      [] Request = "charge" -> {<<"str0", "setup">>}
      [] Request = "str0" -> {<<"ser", "setup">>}
      [] Request = "ser" -> {<<"mux", "poll">>}

(* A status stage: the host's empty OUT, or the guest's empty IN.          *)
HostStatus ==
    /\ Ticking /\ Stage = "status" /\ ~phy_reset
    /\ \/ /\ Request \in DataRequests /\ outEp[0].ena
          /\ OutPath(0, 0, gintsts)
          /\ UNCHANGED <<drv, xin, setups, reply, snap, acting>>
       \/ /\ Request \in StatusRequests /\ (inEp[0].stall \/ (inEp[0].ena /\ ~inEp[0].nak))
          /\ InPath(0, 0)
    /\ IF Request \in StatusRequests /\ inEp[0].stall THEN host' = Restart(host)
       ELSE \E p \in AfterStatus(host) :
               host' = [host EXCEPT !.phase = p, !.cfg = IF Request = "cfg" THEN @ + 1 ELSE @]
    /\ UNCHANGED <<phy_reset, cable, link, bridge, guest, restarts>>

(* HP_POLL: the mux version request until it is taken, and a read of the   *)
(* bulk IN pipe, whose bytes nobody reads.                                 *)
HostPoll ==
    /\ Ticking /\ Stage = "poll" /\ ~phy_reset
    /\ IF host.greeted THEN UNCHANGED <<outEp, xout>> ELSE OutOn(1, 1)
    /\ host' = [host EXCEPT !.greeted = @ \/ (outEp[1].ena /\ ~outEp[1].stall)]
    /\ InOn(1, MAX_IN)
    /\ UNCHANGED masks
    /\ UpdateIrq(gintsts)
    /\ UNCHANGED <<phy_reset, cable, link, bridge, drv, setups, snap, acting, guest, restarts>>

HostTick == HostBusReset \/ HostEnumDone \/ HostSetup \/ HostIn \/ HostStatus \/ HostPoll

-----------------------------------------------------------------------------
GuestStep == (GuestReply \/ GuestContinues \/ GuestSeesReset) /\ UNCHANGED restarts

(* The guest's other steps, the bridge's, and the wires; each enumeration  *)
(* they start again is counted, the one after a machine reset there.  A    *)
(* guest the built-in host has not configured leaves its bulk pipes alone. *)
CoreStep ==
    /\ Next
    /\ Builtin /\ guest.config = 0 => inEp'[1] = inEp[1] /\ outEp'[1] = outEp[1]
    /\ UNCHANGED guest
    /\ restarts' = IF host' # host /\ host'.phase = <<"bus", "reset">> /\ drv # "down"
                   THEN restarts + 1 ELSE restarts
    /\ restarts' <= MaxRestarts

MachineReset ==
    /\ DeviceReset
    /\ guest' = NoGuest
    /\ restarts' = IF Builtin THEN restarts + 1 ELSE restarts
    /\ restarts' <= MaxRestarts

HostNext == CoreStep \/ MachineReset \/ GuestStep \/ HostTick \/ HostLate

HostSpec == HostInit /\ [][HostNext]_allVars

(* The retry timer and the built-in host's timer are always armed, and the *)
(* driver of the guest it meets runs.                                      *)
FairSpec ==
    /\ HostSpec
    /\ WF_allVars(RetryTick /\ UNCHANGED <<guest, restarts>>)
    /\ WF_allVars(HostTick)
    /\ WF_allVars(GuestStep)
    /\ WF_allVars(Builtin /\ (DrvArmOut0 \/ DrvTakeOut0) /\ UNCHANGED <<guest, restarts>>)
    /\ WF_allVars(Builtin /\ drv = "down" /\ SoftReset /\ UNCHANGED <<guest, restarts>>)

-----------------------------------------------------------------------------
(* What the host has read when a data stage ends is the whole reply to the *)
(* SETUP it sent for it, in order, however often a request before it timed *)
(* out half read: host_got starts again with every SETUP and no packet of  *)
(* an abandoned reply is taken.  Only a string may be missing.  And so the *)
(* guest is only ever put in the configuration with the mux interface,     *)
(* when there is one.                                                      *)
HostReadsWhole ==
    /\ HostTypeOK
    /\ Stage = "status" /\ Request \in DataRequests =>
          \/ host.got = [i \in 1..ReplyLen([kind |-> Request, cfg |-> host.cfg + 1, len |-> host.want])
                          |-> [buf |-> setups, off |-> i - 1]]
          \/ host.got = << >> /\ Request \in {"str0", "ser"}
    /\ MuxCfg # 0 => guest.config \in {0, MuxCfg}

(* With the cable in and the PHY running the built-in host comes to poll a *)
(* configured guest it has greeted, whatever timed out or was reset before *)
(* ("without one the iPad deep-sleeps").                                   *)
Attached == cable /\ ~phy_reset
HostConfigures ==
    Builtin => (Attached ~> (~Attached \/ (Stage = "poll" /\ guest.config # 0)))
=============================================================================
