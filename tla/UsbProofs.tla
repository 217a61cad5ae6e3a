----------------------------- MODULE UsbProofs -----------------------------
(***************************************************************************)
(* Theorems about the USB core of UsbOtg with either host of UsbHost, for  *)
(* any packet size, transfers of any length and any of the environments.   *)
(***************************************************************************)
EXTENDS UsbHost, TLAPS

XferStates == {"none", "armed", "stopped", "complete"}
Byte == [buf: Nat, off: Nat]
Sent == [tx: Nat, off: Nat]
InXfer == [buf: Nat, off: Nat, size: Nat, got: Seq(Byte), state: XferStates]
OutXfer ==
    [size: Nat, pkts: Nat, txs: Nat, sent: Seq(Sent), mem: Seq(Sent), full: BOOLEAN,
     state: XferStates]

(* The bytes of a buffer from one address to another.                      *)
Bytes(buf, from, to) == [i \in 1..(to - from) |-> [buf |-> buf, off |-> from + i - 1]]

(* An IN endpoint and the transfer armed on it: how far XferSize and the   *)
(* address have come, and how many packets are left.                       *)
InDrains(ep, x) ==
    /\ ep.xfer <= x.size
    /\ ep.dma.buf = x.buf /\ ep.dma.off = x.off + (x.size - ep.xfer)
    /\ x.got = Bytes(x.buf, x.off, ep.dma.off)
    /\ ep.ena /\ x.size > 0 => ep.xfer > 0 /\ ep.pkts <= Packets(ep.xfer)
    /\ x.state = "complete" => ep.xfer = 0 /\ (x.size > 0 => ep.pkts = 0)
InFits(ep, x) ==
    /\ ep \in Endpoint /\ x \in InXfer
    /\ ep.ena <=> x.state = "armed"
    /\ "compl" \in ep.int => x.state # "none"
    /\ x.buf # 0 => InDrains(ep, x)

(* An OUT endpoint and its transfer: what has arrived is in place; a bulk  *)
(* transfer that goes on has had whole packets only.                       *)
OutFills(ep, x) ==
    /\ x.mem = x.sent /\ ep.xfer <= x.size
    /\ Len(x.mem) = x.size - ep.xfer /\ ep.dma.off = Len(x.mem)
OutFits(e, ep, x) ==
    /\ ep \in Endpoint /\ x \in OutXfer
    /\ ep.ena <=> x.state = "armed"
    /\ "compl" \in ep.int \/ "setup" \in ep.int => x.state # "none"
    /\ x.state \in {"armed", "complete"} => OutFills(ep, x)
    /\ e = 0 /\ ep.ena => ep.xfer = x.size
    /\ e = 1 /\ ep.ena => /\ ep.pkts > 0 /\ ep.pkts <= x.pkts
                          /\ ep.xfer = ep.pkts * MPS /\ x.size = x.pkts * MPS
    /\ e = 1 /\ x.state = "complete" => (x.size - ep.xfer = (x.pkts - ep.pkts) * MPS <=> x.full)

(* A control reply that would be sent is for the last SETUP.               *)
ReplyFits(ep, r, n) ==
    /\ n \in Nat /\ r.to = r.from
    /\ ep.ena /\ ~ep.nak => ep.dma.buf = n

(* The endpoints with their transfers, now or in a snapshot.               *)
InAll(ins, xi) ==
    ins \in [Eps -> Endpoint] /\ xi \in [Eps -> InXfer] /\ \A e \in Eps : InFits(ins[e], xi[e])
OutAll(outs, xo) ==
    outs \in [Eps -> Endpoint] /\ xo \in [Eps -> OutXfer] /\ \A e \in Eps : OutFits(e, outs[e], xo[e])

EpInv == InAll(inEp, xin) /\ OutAll(outEp, xout) /\ ReplyFits(inEp[0], reply, setups)
SnapInv ==
    snap # << >> => /\ InAll(snap.inEp, snap.xin) /\ OutAll(snap.outEp, snap.xout)
                    /\ ReplyFits(snap.inEp[0], snap.reply, snap.setups)

(* The line, and that GINTSTS was told of a completion or a SETUP.         *)
LineInv ==
    /\ irq <=> gahbcfg /\ gintsts \cap gintmsk # {}
    /\ \A e \in Eps :
          /\ "compl" \in inEp[e].int /\ "compl" \in diepmsk /\ <<"in", e>> \in daintmsk =>
                "iep" \in gintsts
          /\ outEp[e].int \cap doepmsk \cap {"compl", "setup"} # {} /\ <<"out", e>> \in daintmsk =>
                "oep" \in gintsts

(* The built-in host: it never holds more than it asked for, it knows the  *)
(* configuration whose descriptor it reads, and it has not gone past the   *)
(* one with the mux interface, which is the one it sets.                   *)
HostState ==
    [phase: Phases, cfg: 0..Len(CfgLen), value: 0..Len(CfgLen), want: Nat, got: Seq(Byte),
     greeted: BOOLEAN]
HostKnows(request, stage, cfg, value, want, got) ==
    /\ got <= MaxOf(1, want)
    /\ stage = "in" => got <= want /\ want > 0
    /\ stage = "in" /\ request \in {"dev", "hdr"} => want = 1
    /\ stage = "in" /\ request \in {"str0", "ser"} => want = StrAsk
    /\ (request = "dev" /\ stage = "status") \/ request = "addr" => cfg = 0
    /\ request \in {"hdr", "cfg"} => cfg < Len(CfgLen) /\ (MuxCfg # 0 => cfg < MuxCfg)
    /\ (request = "hdr" /\ stage = "status") \/ request = "cfg" => want = CfgLen[cfg + 1]
    /\ request = "cfg" /\ stage = "status" /\ cfg + 1 = MuxCfg => value = MuxCfg
    /\ request = "setcfg" /\ MuxCfg # 0 => value = MuxCfg
HostFits(h) ==
    h \in HostState /\ HostKnows(h.phase[1], h.phase[2], h.cfg, h.value, h.want, Len(h.got))

(* The guest it meets has been asked for a configuration there is, and has *)
(* been set to none but the one with the mux interface.                    *)
GuestState ==
    [req: [kind: Requests \cup {"none"}, cfg: 0..(Len(CfgLen) + 1), len: Nat], left: Nat, off: Nat,
     zlp: BOOLEAN, config: 0..Len(CfgLen)]
GuestFits(g) ==
    /\ g \in GuestState
    /\ g.req.kind = "cfg" => g.req.cfg \in 1..Len(CfgLen)
    /\ g.req.kind = "setcfg" => g.req.cfg \in 0..Len(CfgLen) /\ (MuxCfg # 0 => g.req.cfg = MuxCfg)
    /\ MuxCfg # 0 => g.config \in {0, MuxCfg}

DeviceInv == EpInv /\ SnapInv /\ LineInv
CoreInv == DeviceInv /\ HostFits(host) /\ GuestFits(guest)

-----------------------------------------------------------------------------
(* Sequences and packets *)

(* One sequence after another.                                             *)
LEMMA Joined ==
    ASSUME NEW S, NEW s \in Seq(S), NEW t \in Seq(S)
    PROVE  /\ s \o t \in Seq(S) /\ Len(s \o t) = Len(s) + Len(t)
           /\ \A i \in 1..(Len(s) + Len(t)) : (s \o t)[i] = IF i <= Len(s) THEN s[i] ELSE t[i - Len(s)]
OBVIOUS

(* All of a sequence is a part of it.                                      *)
LEMMA AllOfIt ==
    ASSUME NEW S, NEW s \in Seq(S)
    PROVE  SubSeq(s, 1, Len(s)) = s
OBVIOUS

(* A packet count is the least that holds the bytes.                       *)
LEMMA PacketsProperties ==
    ASSUME NEW n, n \in Nat
    PROVE  /\ Packets(n) \in Nat
           /\ n <= Packets(n) * MPS
           /\ Packets(n) * MPS < n + MPS
<1>1. MPS \in Nat /\ MPS > 0
  BY UsbConstants
<1>2. n + MPS - 1 \in Nat
  BY <1>1
<1>3. \A a \in Nat : a \div MPS \in Nat /\ (a \div MPS) * MPS <= a /\ a < (a \div MPS) * MPS + MPS
  BY <1>1, SMT
<1>4. QED
  BY <1>1, <1>2, <1>3 DEF Packets

(* Comparing sizes of whole packets compares their counts.                 *)
LEMMA PacketOrder ==
    ASSUME NEW a \in Int, NEW b \in Int
    PROVE  /\ a * MPS < b * MPS <=> a < b
           /\ a * MPS <= b * MPS <=> a <= b
           /\ a * MPS = b * MPS <=> a = b
           /\ (a + b) * MPS = a * MPS + b * MPS /\ (a - b) * MPS = a * MPS - b * MPS
           /\ a * MPS \in Int
<1>1. MPS \in Nat /\ MPS > 0
  BY UsbConstants
<1>2. QED
  BY <1>1, SMT

(* Splitting a transfer does not take fewer packets.                       *)
LEMMA PacketsSplit ==
    ASSUME NEW n, NEW a, n \in Nat, a \in 0..n
    PROVE  Packets(n) - Packets(a) <= Packets(n - a)
<1>1. MPS \in Nat /\ MPS > 0
  BY UsbConstants
<1> DEFINE p == Packets(n)
           q == Packets(a)
           r == Packets(n - a)
<1>2. /\ p \in Nat /\ q \in Nat /\ r \in Nat
      /\ p * MPS < n + MPS /\ a <= q * MPS /\ n - a <= r * MPS
  BY PacketsProperties
<1> HIDE DEF p, q, r
<1>3. (p - 1) * MPS = p * MPS - MPS /\ (q + r) * MPS = q * MPS + r * MPS
  BY <1>1, <1>2
<1>4. (p - 1) * MPS < (q + r) * MPS
  BY <1>1, <1>2, <1>3, PacketOrder
<1>5. p - 1 < q + r
  BY <1>2, <1>4, PacketOrder
<1>6. QED
  BY <1>2, <1>5 DEF p, q, r
-----------------------------------------------------------------------------
(* One IN endpoint *)

(* What synopsys_usb_update_ep leaves behind.                               *)
LEMMA UpdateEpIs ==
    ASSUME NEW ep \in Endpoint, NEW w
    PROVE  LET r == UpdateEp(ep, w) IN
           /\ r \in Endpoint
           /\ r.ena <=> ep.ena /\ "dis" \notin w
           /\ r.stall = ep.stall
           /\ r.nak <=> ep.nak \/ "snak" \in w
           /\ r.xfer = ep.xfer /\ r.pkts = ep.pkts /\ r.dma = ep.dma
           /\ "compl" \in r.int <=> "compl" \in ep.int
           /\ "setup" \in r.int <=> "setup" \in ep.int
<1> DEFINE a == ep.ena /\ "dis" \notin w
           c == ep.nak \/ "snak" \in w
           d == ep.int \cup (IF "snak" \in w THEN {"nakeff"} ELSE {})
                       \cup (IF "dis" \in w THEN {"disbld"} ELSE {})
<1>1. a \in BOOLEAN /\ c \in BOOLEAN
  OBVIOUS
<1>2. /\ d \in SUBSET EpInts
      /\ "compl" \in d <=> "compl" \in ep.int
      /\ "setup" \in d <=> "setup" \in ep.int
  BY DEF Endpoint, EpInts
<1>3. UpdateEp(ep, w) = [ep EXCEPT !.nak = c, !.ena = a, !.int = d]
  BY DEF UpdateEp
<1> HIDE DEF a, c, d
<1>4. LET r == [ep EXCEPT !.nak = c, !.ena = a, !.int = d] IN
      /\ r \in Endpoint /\ r.ena = a /\ r.stall = ep.stall /\ r.nak = c
      /\ r.xfer = ep.xfer /\ r.pkts = ep.pkts /\ r.dma = ep.dma /\ r.int = d
  BY <1>1, <1>2, Zenon DEF Endpoint
<1>5. (a <=> ep.ena /\ "dis" \notin w) /\ (c <=> ep.nak \/ "snak" \in w)
  BY DEF a, c
<1>6. QED
  BY <1>2, <1>3, <1>4, <1>5

(* What a write of an IN endpoint's control register leaves behind.        *)
LEMMA InCtlIs ==
    ASSUME NEW ep \in Endpoint, NEW w
    PROVE  LET r == InCtl(ep, w) IN
           /\ r \in Endpoint
           /\ r.ena <=> "ena" \in w /\ "dis" \notin w
           /\ r.stall <=> "stall" \in w
           /\ r.nak <=> (ep.nak /\ "cnak" \notin w) \/ "snak" \in w
           /\ r.xfer = ep.xfer /\ r.pkts = ep.pkts /\ r.dma = ep.dma
           /\ "compl" \in r.int <=> "compl" \in ep.int
<1> DEFINE a == "ena" \in w
           b == "stall" \in w
           c == ep.nak /\ "cnak" \notin w
           f == [ep EXCEPT !.ena = a, !.stall = b, !.nak = c]
<1>1. a \in BOOLEAN /\ b \in BOOLEAN /\ c \in BOOLEAN
  OBVIOUS
<1>2. InCtl(ep, w) = UpdateEp(f, w)
  BY DEF InCtl
<1> HIDE DEF a, b, c
<1>3. /\ f \in Endpoint /\ f.ena = a /\ f.stall = b /\ f.nak = c
      /\ f.xfer = ep.xfer /\ f.pkts = ep.pkts /\ f.dma = ep.dma /\ f.int = ep.int
  BY <1>1, Zenon DEF Endpoint
<1> HIDE DEF f
<1>4. LET r == UpdateEp(f, w) IN
      /\ r \in Endpoint
      /\ (r.ena <=> f.ena /\ "dis" \notin w) /\ r.stall = f.stall /\ (r.nak <=> f.nak \/ "snak" \in w)
      /\ r.xfer = f.xfer /\ r.pkts = f.pkts /\ r.dma = f.dma
      /\ "compl" \in r.int <=> "compl" \in f.int
  BY <1>3, UpdateEpIs
<1>5. (f.ena <=> "ena" \in w) /\ (f.stall <=> "stall" \in w) /\ (f.nak <=> ep.nak /\ "cnak" \notin w)
  BY <1>3, Zenon DEF a, b, c
<1>6. QED
  BY <1>2, <1>3, <1>4, <1>5

(* An IN endpoint once a transfer of n units is armed on it.               *)
LEMMA InArmedIs ==
    ASSUME NEW ep \in Endpoint, NEW ack, NEW buf, NEW off, NEW n, {buf, off, n} \subseteq Nat
    PROVE  LET r == InArmed(ep, ack, buf, off, n) IN
           /\ r \in Endpoint
           /\ r.ena /\ ~r.stall /\ ~r.nak
           /\ r.xfer = n /\ r.pkts = MaxOf(1, Packets(n))
           /\ r.dma.buf = buf /\ r.dma.off = off
           /\ "compl" \in r.int <=> "compl" \in ep.int /\ "compl" \notin ack
<1>0. MaxOf(1, Packets(n)) \in Nat
  BY PacketsProperties DEF MaxOf
<1> DEFINE a == [ep EXCEPT !.int = ep.int \ ack, !.xfer = n, !.pkts = MaxOf(1, Packets(n)),
                           !.dma = [buf |-> buf, off |-> off]]
<1>1. /\ a \in Endpoint
      /\ a.xfer = n /\ a.pkts = MaxOf(1, Packets(n))
      /\ a.dma.buf = buf /\ a.dma.off = off /\ a.int = ep.int \ ack
  BY <1>0 DEF Endpoint, EpInts
<1>2. InArmed(ep, ack, buf, off, n) = InCtl(a, {"ena", "cnak"})
  BY DEF InArmed
<1> HIDE DEF a
<1>3. QED
  BY <1>1, <1>2, InCtlIs

(* A transfer just armed fits its endpoint.                                *)
LEMMA InArmedFits ==
    ASSUME NEW ep \in Endpoint, NEW ack, NEW buf, NEW off, NEW n, {buf, off, n} \subseteq Nat
    PROVE  InFits(InArmed(ep, ack, buf, off, n),
                  [NoIn EXCEPT !.buf = buf, !.off = off, !.size = n, !.state = "armed"])
<1> DEFINE r == InArmed(ep, ack, buf, off, n)
           x == [NoIn EXCEPT !.buf = buf, !.off = off, !.size = n, !.state = "armed"]
<1>1. /\ r \in Endpoint /\ r.ena /\ r.xfer = n /\ r.pkts = MaxOf(1, Packets(n))
      /\ r.dma.buf = buf /\ r.dma.off = off
  BY InArmedIs
<1>2. NoIn \in InXfer /\ NoIn.got = << >>
  BY DEF NoIn, InXfer, XferStates
<1>3. /\ x \in InXfer /\ x.buf = buf /\ x.off = off /\ x.size = n /\ x.got = << >>
      /\ x.state = "armed"
  BY <1>2, Zenon DEF InXfer, XferStates
<1> HIDE DEF r, x
<1>4. Bytes(buf, off, off) = << >>
  BY DEF Bytes
<1>5. n > 0 => Packets(n) >= 1
  <2>1. MPS \in Nat /\ MPS > 0 /\ Packets(n) \in Nat /\ n <= Packets(n) * MPS
    BY PacketsProperties, UsbConstants
  <2>2. Packets(n) = 0 => Packets(n) * MPS = 0
    BY <2>1
  <2>3. QED
    BY <2>1, <2>2
<1>6. InDrains(r, x)
  <2>1. x.size - r.xfer = 0 /\ x.off + (x.size - r.xfer) = off
    BY <1>1, <1>3
  <2>2. x.got = Bytes(x.buf, x.off, r.dma.off)
    BY <1>1, <1>3, <1>4
  <2>3. x.size > 0 => r.xfer > 0 /\ r.pkts <= Packets(r.xfer)
    BY <1>1, <1>3, <1>5, PacketsProperties DEF MaxOf
  <2>4. QED
    BY <1>1, <1>3, <2>1, <2>2, <2>3 DEF InDrains
<1>7. QED
  BY <1>1, <1>3, <1>6 DEF InFits, r, x

(* The fit depends on these fields only.                                   *)
LEMMA InSameFits ==
    ASSUME NEW ep, NEW x, InFits(ep, x), NEW r \in Endpoint,
           r.ena = ep.ena, r.xfer = ep.xfer, r.pkts = ep.pkts, r.dma = ep.dma,
           "compl" \in r.int => "compl" \in ep.int
    PROVE  InFits(r, x)
BY DEF InFits, InDrains

(* An endpoint that a control write stops.                                 *)
LEMMA InStopFits ==
    ASSUME NEW ep, NEW x, InFits(ep, x), NEW w, "ena" \notin w \/ "dis" \in w
    PROVE  InFits(InCtl(ep, w), [x EXCEPT !.state = IF x.state = "armed" THEN "stopped" ELSE x.state])
<1> DEFINE r == InCtl(ep, w)
           y == [x EXCEPT !.state = IF x.state = "armed" THEN "stopped" ELSE x.state]
<1>1. ep \in Endpoint /\ x \in InXfer
  BY DEF InFits
<1>2. /\ r \in Endpoint /\ ~r.ena /\ r.xfer = ep.xfer /\ r.pkts = ep.pkts /\ r.dma = ep.dma
      /\ "compl" \in r.int <=> "compl" \in ep.int
  BY <1>1, InCtlIs
<1>3. /\ y \in InXfer /\ y.buf = x.buf /\ y.off = x.off /\ y.size = x.size /\ y.got = x.got
      /\ y.state = IF x.state = "armed" THEN "stopped" ELSE x.state
  BY <1>1 DEF InXfer, XferStates
<1> HIDE DEF r, y
<1>4. InFits(r, y)
  BY <1>2, <1>3 DEF InFits, InDrains
<1>5. QED
  BY <1>4 DEF r, y

(* A part of a buffer is as many bytes.                                    *)
LEMMA BytesAre ==
    ASSUME NEW buf, NEW from, NEW to, buf \in Nat, from \in Nat, to \in Nat, from <= to
    PROVE  Bytes(buf, from, to) \in Seq(Byte) /\ Len(Bytes(buf, from, to)) = to - from
BY DEF Bytes, Byte

(* The bytes of a buffer in two pieces are the bytes of the buffer.        *)
LEMMA BytesAppend ==
    ASSUME NEW buf, NEW from, NEW mid, NEW to,
           buf \in Nat, from \in Nat, mid \in Nat, to \in Nat, from <= mid, mid <= to
    PROVE  Bytes(buf, from, mid) \o Bytes(buf, mid, to) = Bytes(buf, from, to)
<1> DEFINE s == Bytes(buf, from, mid)
           t == Bytes(buf, mid, to)
           u == Bytes(buf, from, to)
           n == mid - from
<1>0. n \in Nat /\ to - mid \in Nat /\ from <= to /\ to - from = n + (to - mid)
  OBVIOUS
<1>1. s \in Seq(Byte) /\ Len(s) = n /\ \A i \in 1..n : s[i] = [buf |-> buf, off |-> from + i - 1]
  BY DEF Bytes, Byte
<1>2. /\ t \in Seq(Byte) /\ Len(t) = to - mid
      /\ \A i \in 1..(to - mid) : t[i] = [buf |-> buf, off |-> mid + i - 1]
  BY DEF Bytes, Byte
<1>3. /\ u \in Seq(Byte) /\ Len(u) = to - from
      /\ \A i \in 1..(to - from) : u[i] = [buf |-> buf, off |-> from + i - 1]
  BY <1>0 DEF Bytes, Byte
<1> HIDE DEF s, t, u
<1>4. /\ s \o t \in Seq(Byte) /\ Len(s \o t) = Len(s) + Len(t)
      /\ \A i \in 1..(Len(s) + Len(t)) : (s \o t)[i] = IF i <= Len(s) THEN s[i] ELSE t[i - Len(s)]
  BY <1>1, <1>2, Joined, Zenon
<1>5. ASSUME NEW i \in 1..(to - from)
      PROVE  (s \o t)[i] = u[i]
  <2>1. CASE i <= n
    <3>1. s[i] = u[i]
      <4>1. i \in 1..n
        BY <1>0, <2>1
      <4>2. s[i] = [buf |-> buf, off |-> from + i - 1]
        BY <1>1, <4>1
      <4>3. u[i] = [buf |-> buf, off |-> from + i - 1]
        BY <1>3
      <4>4. QED
        BY <4>2, <4>3
    <3>2. QED
      BY <1>0, <1>1, <1>2, <1>4, <2>1, <3>1
  <2>2. CASE ~(i <= n)
    <3>1. mid + (i - n) - 1 = from + i - 1 /\ i - n \in 1..(to - mid)
      BY <1>0, <2>2
    <3>2. t[i - n] = [buf |-> buf, off |-> from + i - 1]
      BY <1>2, <3>1
    <3>3. QED
      BY <1>0, <1>1, <1>2, <1>3, <1>4, <2>2, <3>2, Zenon
  <2>3. QED
    BY <2>1, <2>2
<1>6. s \o t = u
  <2>1. Len(s \o t) = to - from
    BY <1>0, <1>1, <1>2, <1>4
  <2>2. QED
    BY <1>3, <1>4, <1>5, <2>1
<1>7. QED
  BY <1>6 DEF s, t, u

(* What one IN transaction takes, and the packets left after it.           *)
LEMMA InAmountIs ==
    ASSUME NEW ep \in Endpoint, NEW want, want \in Nat
    PROVE  /\ InAmount(ep, want) \in 0..ep.xfer /\ InAmount(ep, want) <= want
           /\ ep.dma.buf # 0 => InAmount(ep, want) = MinOf(ep.xfer, want)
           /\ InPktCnt(ep, InAmount(ep, want)) \in Nat
<1>1. ep.xfer \in Nat /\ ep.pkts \in Nat
  BY DEF Endpoint
<1>2. InAmount(ep, want) \in 0..ep.xfer /\ InAmount(ep, want) <= want
  BY <1>1 DEF InAmount, MinOf
<1>3. Packets(InAmount(ep, want)) \in Nat
  BY <1>1, <1>2, PacketsProperties
<1>4. InPktCnt(ep, InAmount(ep, want)) \in Nat
  BY <1>1, <1>2, <1>3 DEF InPktCnt
<1>5. QED
  BY <1>2, <1>4 DEF InAmount

(* An IN endpoint after a transaction.                                     *)
LEMMA InTransferIs ==
    ASSUME NEW ep \in Endpoint, NEW want, want \in Nat
    PROVE  LET r == InTransfer(ep, want)
               amt == InAmount(ep, want)
           IN /\ r \in Endpoint
              /\ r.ena <=> ~InOver(ep, want)
              /\ r.stall = ep.stall /\ r.nak = ep.nak
              /\ r.xfer = ep.xfer - amt /\ r.pkts = InPktCnt(ep, amt)
              /\ r.dma.buf = ep.dma.buf /\ r.dma.off = ep.dma.off + amt
              /\ "compl" \in r.int <=> "compl" \in ep.int \/ InOver(ep, want)
<1> DEFINE amt == InAmount(ep, want)
           k == InPktCnt(ep, amt)
           a == ~InOver(ep, want)
           d == IF InOver(ep, want) THEN ep.int \cup {"compl"} ELSE ep.int
           f == [ep EXCEPT !.xfer = ep.xfer - amt, !.pkts = k, !.dma.off = ep.dma.off + amt,
                           !.ena = a, !.int = d]
<1>1. amt \in 0..ep.xfer /\ k \in Nat
  BY InAmountIs
<1>2. a \in BOOLEAN
  BY DEF InOver
<1>3. d \in SUBSET EpInts /\ ("compl" \in d <=> "compl" \in ep.int \/ InOver(ep, want))
  BY DEF Endpoint, EpInts
<1>4. InTransfer(ep, want) = f
  BY DEF InTransfer
<1>5. a <=> ~InOver(ep, want)
  OBVIOUS
<1> HIDE DEF amt, k, a, d
<1>6. ep.xfer - amt \in Nat /\ ep.dma.off + amt \in Nat
  BY <1>1 DEF Endpoint
<1>7. /\ f \in Endpoint /\ f.ena = a /\ f.stall = ep.stall /\ f.nak = ep.nak
      /\ f.xfer = ep.xfer - amt /\ f.pkts = k /\ f.dma.buf = ep.dma.buf
      /\ f.dma.off = ep.dma.off + amt /\ f.int = d
  BY <1>1, <1>2, <1>3, <1>6 DEF Endpoint
<1> HIDE DEF f
<1>8. QED
  BY <1>3, <1>4, <1>5, <1>7 DEF amt, k

(* The transfer after a transaction fits the endpoint after it: what was   *)
(* handed over is the next part of the buffer, and the packet count is low *)
(* enough to reach 0 with the last byte.                                   *)
LEMMA InTransferFits ==
    ASSUME NEW ep, NEW x, InFits(ep, x), ep.ena, NEW want, want \in Nat
    PROVE  InFits(InTransfer(ep, want), Handed(x, ep, want))
<1> DEFINE amt == InAmount(ep, want)
           over == InOver(ep, want)
           part == [i \in 1..amt |-> [buf |-> ep.dma.buf, off |-> ep.dma.off + i - 1]]
           r == InTransfer(ep, want)
           y == Handed(x, ep, want)
           here == ep.dma.off
           there == r.dma.off
<1>1. ep \in Endpoint /\ x \in InXfer /\ x.state = "armed"
  BY DEF InFits
<1>2. /\ ep.xfer \in Nat /\ ep.pkts \in Nat /\ ep.dma.buf \in Nat /\ ep.dma.off \in Nat
      /\ x.buf \in Nat /\ x.off \in Nat /\ x.size \in Nat /\ x.got \in Seq(Byte)
  BY <1>1 DEF Endpoint, InXfer
<1>3. amt \in 0..ep.xfer /\ (ep.dma.buf # 0 => amt = MinOf(ep.xfer, want)) /\ amt \in Nat
  BY <1>1, <1>2, InAmountIs
<1>4. /\ r \in Endpoint /\ (r.ena <=> ~over)
      /\ r.xfer = ep.xfer - amt /\ r.pkts = InPktCnt(ep, amt)
      /\ r.dma.buf = ep.dma.buf /\ r.dma.off = ep.dma.off + amt
      /\ "compl" \in r.int <=> "compl" \in ep.int \/ over
  BY <1>1, InTransferIs
<1>5. here \in Nat /\ there \in Nat /\ here <= there /\ there = here + amt
  <2>1. here \in Nat /\ there = here + amt
    BY <1>2, <1>4
  <2> HIDE DEF here, there, amt
  <2>2. QED
    BY <1>3, <2>1
<1>50. part = Bytes(ep.dma.buf, here, there)
  <2>1. there - here = amt
    <3> HIDE DEF here, there, amt
    <3>1. QED
      BY <1>3, <1>5
  <2>2. QED
    BY <2>1 DEF Bytes
<1>6. x.got \o part \in Seq(Byte)
  <2>1. part \in Seq(Byte)
    <3> HIDE DEF here, there, part
    <3>1. QED
      BY <1>2, <1>5, <1>50, BytesAre
  <2>2. QED
    BY <1>2, <2>1
<1>7. /\ y \in InXfer /\ y.buf = x.buf /\ y.off = x.off /\ y.size = x.size /\ y.got = x.got \o part
      /\ y.state = IF over THEN "complete" ELSE "armed"
  <2>1. y = [x EXCEPT !.got = x.got \o part, !.state = IF over THEN "complete" ELSE x.state]
    BY DEF Handed
  <2> HIDE DEF part, over, y
  <2>2. QED
    BY <1>1, <1>6, <2>1 DEF InXfer, XferStates
<1>8. x.buf # 0 => InDrains(r, y)
  <2> SUFFICES ASSUME x.buf # 0 PROVE InDrains(r, y)
    OBVIOUS
  <2>1. InDrains(ep, x)
    BY DEF InFits
  <2>2. ep.dma.buf = x.buf /\ ep.xfer <= x.size /\ ep.dma.off = x.off + (x.size - ep.xfer)
    BY <2>1 DEF InDrains
  <2>3. over <=> ep.xfer = amt
    BY <2>2 DEF InOver
  <2>4. Packets(amt) \in Nat /\ Packets(ep.xfer) \in Nat
    BY <1>2, <1>3, PacketsProperties
  <2>5. Packets(ep.xfer) - Packets(amt) <= Packets(ep.xfer - amt) /\ Packets(ep.xfer - amt) \in Nat
    <3>1. ep.xfer - amt \in Nat
      BY <1>2, <1>3
    <3> HIDE DEF amt
    <3>2. QED
      BY <1>2, <1>3, <3>1, PacketsSplit, PacketsProperties
  <2>6. x.size > 0 => ep.xfer > 0 /\ ep.pkts <= Packets(ep.xfer)
    BY <2>1 DEF InDrains
  <2>7. there = x.off + (x.size - r.xfer) /\ x.off <= here
    <3>1. r.xfer = ep.xfer - amt /\ here = x.off + (x.size - ep.xfer)
      BY <1>4, <2>2
    <3>2. /\ x.off \in Nat /\ x.size \in Nat /\ ep.xfer \in Nat /\ amt \in Nat /\ amt <= ep.xfer
          /\ ep.xfer <= x.size /\ there = here + amt
      BY <1>2, <1>3, <1>5, <2>2
    <3> HIDE DEF r, amt, here, there
    <3>3. ASSUME NEW o \in Nat, NEW n \in Nat, NEW e \in Nat, NEW m \in Nat, m <= e, e <= n
          PROVE  o + (n - e) + m = o + (n - (e - m)) /\ o <= o + (n - e)
      BY <3>3
    <3>4. QED
      BY <3>1, <3>2, <3>3
  <2>8. y.got = Bytes(y.buf, y.off, there)
    <3>1. x.got = Bytes(x.buf, x.off, here)
      BY <2>1 DEF InDrains
    <3>2. part = Bytes(x.buf, here, there)
      BY <1>50, <2>2
    <3> HIDE DEF part, r, y, here, there
    <3>3. Bytes(x.buf, x.off, here) \o Bytes(x.buf, here, there) = Bytes(x.buf, x.off, there)
      BY <1>2, <1>5, <2>7, BytesAppend, Zenon
    <3>4. QED
      BY <1>7, <3>1, <3>2, <3>3
  <2>9. r.ena /\ x.size > 0 => r.xfer > 0 /\ r.pkts <= Packets(r.xfer)
    <3>1. /\ ep.xfer \in Nat /\ amt \in Nat /\ amt <= ep.xfer /\ ep.pkts \in Nat
          /\ r.xfer = ep.xfer - amt /\ r.pkts = InPktCnt(ep, amt)
      BY <1>2, <1>3, <1>4
    <3>2. r.ena => r.xfer # 0
      BY <1>2, <1>3, <1>4, <2>3
    <3> HIDE DEF r, amt
    <3>3. QED
      BY <2>4, <2>5, <2>6, <3>1, <3>2, SMTT(20) DEF InPktCnt
  <2>10. over => r.xfer = 0 /\ (x.size > 0 => r.pkts = 0)
    BY <1>2, <1>3, <1>4, <2>3, <2>4, <2>6 DEF InPktCnt
  <2> HIDE DEF r, y, amt, over, part
  <2>11. QED
    BY <1>2, <1>3, <1>4, <1>7, <2>2, <2>7, <2>8, <2>9, <2>10 DEF InDrains
<1> HIDE DEF r, y, amt, over, part
<1>9. QED
  BY <1>1, <1>4, <1>7, <1>8 DEF InFits, r, y

-----------------------------------------------------------------------------
(* One OUT endpoint *)

(* Whole packets are as many units as their count says.                    *)
LEMMA WholePackets ==
    ASSUME NEW n, n \in Nat
    PROVE  /\ n % MPS = 0 => n \div MPS = Packets(n)
           /\ n % MPS = 0 <=> n = Packets(n) * MPS
<1>1. MPS \in Nat /\ MPS > 0
  BY UsbConstants
<1> DEFINE q == n \div MPS
           p == Packets(n)
           r == n % MPS
<1>2. q \in Nat /\ r \in Nat /\ r < MPS /\ n = q * MPS + r
  BY <1>1, SMT
<1>3. p \in Nat /\ n <= p * MPS /\ p * MPS < n + MPS
  BY PacketsProperties
<1> HIDE DEF q, p, r
<1>4. q * MPS \in Nat /\ p * MPS \in Nat /\ (q + 1) * MPS = q * MPS + MPS
  BY <1>1, <1>2, <1>3
<1>5. r = 0 => q = p
  <2> SUFFICES ASSUME r = 0 PROVE q = p
    OBVIOUS
  <2>1. q * MPS <= p * MPS /\ p * MPS < (q + 1) * MPS
    BY <1>1, <1>2, <1>3, <1>4
  <2>2. q <= p /\ p < q + 1
    BY <1>2, <1>3, <2>1, PacketOrder
  <2>3. QED
    BY <1>2, <1>3, <2>2
<1>6. n = p * MPS => r = 0
  <2> SUFFICES ASSUME n = p * MPS PROVE r = 0
    OBVIOUS
  <2>1. q * MPS <= p * MPS /\ p * MPS < (q + 1) * MPS
    BY <1>1, <1>2, <1>3, <1>4
  <2>2. q <= p /\ p < q + 1
    BY <1>2, <1>3, <2>1, PacketOrder
  <2>3. q = p
    BY <1>2, <1>3, <2>2
  <2>4. QED
    BY <1>2, <1>4, <2>3
<1>7. r = 0 => n = p * MPS
  BY <1>2, <1>4, <1>5
<1>8. QED
  BY <1>5, <1>6, <1>7 DEF q, p, r

(* What a write of an OUT endpoint's control register leaves behind.       *)
LEMMA OutCtlIs ==
    ASSUME NEW ep \in Endpoint, NEW w
    PROVE  LET r == OutCtl(ep, w) IN
           /\ r \in Endpoint
           /\ r.ena <=> "ena" \in w /\ "dis" \notin w
           /\ r.stall <=> "stall" \in w
           /\ r.xfer = ep.xfer /\ r.pkts = ep.pkts /\ r.dma = ep.dma
           /\ "compl" \in r.int <=> "compl" \in ep.int
           /\ "setup" \in r.int <=> "setup" \in ep.int
<1> DEFINE a == "ena" \in w
           b == "stall" \in w
           f == [ep EXCEPT !.ena = a, !.stall = b, !.nak = FALSE]
<1>1. a \in BOOLEAN /\ b \in BOOLEAN
  OBVIOUS
<1>2. OutCtl(ep, w) = UpdateEp(f, w)
  BY DEF OutCtl
<1> HIDE DEF a, b
<1>3. /\ f \in Endpoint /\ f.ena = a /\ f.stall = b
      /\ f.xfer = ep.xfer /\ f.pkts = ep.pkts /\ f.dma = ep.dma /\ f.int = ep.int
  BY <1>1, Zenon DEF Endpoint
<1> HIDE DEF f
<1>4. LET r == UpdateEp(f, w) IN
      /\ r \in Endpoint
      /\ (r.ena <=> f.ena /\ "dis" \notin w) /\ r.stall = f.stall
      /\ r.xfer = f.xfer /\ r.pkts = f.pkts /\ r.dma = f.dma
      /\ "compl" \in r.int <=> "compl" \in f.int
      /\ "setup" \in r.int <=> "setup" \in f.int
  BY <1>3, UpdateEpIs
<1>5. (f.ena <=> "ena" \in w) /\ (f.stall <=> "stall" \in w)
  BY <1>3, Zenon DEF a, b
<1>6. QED
  BY <1>2, <1>3, <1>4, <1>5

(* An OUT endpoint once k packets of n units are armed on it, and its fit. *)
LEMMA OutArmedIs ==
    ASSUME NEW ep \in Endpoint, NEW k, NEW n, k \in Nat, n \in Nat
    PROVE  LET r == OutArmed(ep, k, n) IN
           /\ r \in Endpoint
           /\ r.ena /\ ~r.stall
           /\ r.xfer = n /\ r.pkts = k /\ r.dma.off = 0
           /\ "compl" \in r.int <=> "compl" \in ep.int
           /\ "setup" \in r.int <=> "setup" \in ep.int
<1> DEFINE a == [ep EXCEPT !.xfer = n, !.pkts = k, !.dma = [buf |-> 1, off |-> 0]]
<1>1. /\ a \in Endpoint
      /\ a.xfer = n /\ a.pkts = k /\ a.dma.off = 0 /\ a.int = ep.int
  BY Zenon DEF Endpoint
<1>2. OutArmed(ep, k, n) = OutCtl(a, {"ena"})
  BY DEF OutArmed
<1> HIDE DEF a
<1>3. QED
  BY <1>1, <1>2, OutCtlIs

(* An OUT endpoint just armed fits what was armed.                         *)
LEMMA OutArmedFits ==
    ASSUME NEW e \in Eps, NEW ep \in Endpoint, NEW k, NEW n, k \in Nat, n \in Nat,
           e = 1 => k > 0 /\ n = k * MPS
    PROVE  OutFits(e, OutArmed(ep, k, n), [NoOut EXCEPT !.size = n, !.pkts = k, !.state = "armed"])
<1> DEFINE r == OutArmed(ep, k, n)
           x == [NoOut EXCEPT !.size = n, !.pkts = k, !.state = "armed"]
<1>1. r \in Endpoint /\ r.ena /\ r.xfer = n /\ r.pkts = k /\ r.dma.off = 0
  BY OutArmedIs
<1>2. NoOut \in OutXfer /\ NoOut.mem = << >> /\ NoOut.sent = << >>
  BY DEF NoOut, OutXfer, XferStates
<1>3. /\ x \in OutXfer /\ x.size = n /\ x.pkts = k /\ x.mem = << >> /\ x.sent = << >>
      /\ x.state = "armed"
  BY <1>2 DEF OutXfer, XferStates
<1> HIDE DEF r, x
<1>4. OutFills(r, x)
  BY <1>1, <1>3 DEF OutFills
<1>5. QED
  BY <1>1, <1>3, <1>4 DEF OutFits, Eps, r, x

(* The fit depends on these fields only.                                   *)
LEMMA OutSameFits ==
    ASSUME NEW e, NEW ep, NEW x, OutFits(e, ep, x), NEW r \in Endpoint,
           r.ena = ep.ena, r.xfer = ep.xfer, r.pkts = ep.pkts, r.dma = ep.dma,
           "compl" \in r.int => "compl" \in ep.int, "setup" \in r.int => "setup" \in ep.int
    PROVE  OutFits(e, r, x)
BY DEF OutFits, OutFills

(* An endpoint that a control write stops.                                 *)
LEMMA OutStopFits ==
    ASSUME NEW e, NEW ep, NEW x, OutFits(e, ep, x), NEW w, "ena" \notin w \/ "dis" \in w
    PROVE  OutFits(e, OutCtl(ep, w),
                   [x EXCEPT !.state = IF x.state = "armed" THEN "stopped" ELSE x.state])
<1> DEFINE r == OutCtl(ep, w)
           y == [x EXCEPT !.state = IF x.state = "armed" THEN "stopped" ELSE x.state]
<1>1. ep \in Endpoint /\ x \in OutXfer
  BY DEF OutFits
<1>2. /\ r \in Endpoint /\ ~r.ena /\ r.xfer = ep.xfer /\ r.pkts = ep.pkts /\ r.dma = ep.dma
      /\ "compl" \in r.int <=> "compl" \in ep.int
      /\ "setup" \in r.int <=> "setup" \in ep.int
  BY <1>1, OutCtlIs
<1>3. /\ y \in OutXfer /\ y.size = x.size /\ y.pkts = x.pkts /\ y.mem = x.mem /\ y.sent = x.sent
      /\ y.full = x.full
      /\ y.state = IF x.state = "armed" THEN "stopped" ELSE x.state
  BY <1>1 DEF OutXfer, XferStates
<1> HIDE DEF r, y
<1>4. OutFits(e, r, y)
  BY <1>2, <1>3 DEF OutFits, OutFills
<1>5. QED
  BY <1>4 DEF r, y

(* A transaction of full packets, one at least.                            *)
Full(n) == n > 0 /\ n % MPS = 0

(* The bytes of a transaction, added to what has arrived.                  *)
LEMMA PayloadIs ==
    ASSUME NEW k, NEW n, k \in Nat, n \in Nat
    PROVE  Payload(k, n) \in Seq(Sent) /\ Len(Payload(k, n)) = n
BY DEF Payload, Sent

(* A transfer x whose bytes are in place up to off, and one that has taken *)
(* n more.                                                                 *)
InPlace(x, off) == x.mem = x.sent /\ off = Len(x.mem)
Takes(x, y, n) ==
    /\ y \in OutXfer /\ y.size = x.size /\ y.pkts = x.pkts
    /\ y.mem = y.sent /\ Len(y.mem) = Len(x.mem) + n
    /\ y.full <=> Full(n)

(* A transaction that is received adds its bytes in order, in its place.   *)
LEMMA ReceivedIs ==
    ASSUME NEW x \in OutXfer, NEW n, n \in Nat, NEW on, NEW off, InPlace(x, off)
    PROVE  /\ Takes(x, Received(x, off, n, on), n)
           /\ on = TRUE => Received(x, off, n, on).state = x.state
           /\ on = FALSE => Received(x, off, n, on).state = "complete"
<1> DEFINE p == Payload(x.txs, n)
           m == Stored(x.mem, off, p)
           f == Full(n)
           st == IF on THEN x.state ELSE "complete"
           y == [x EXCEPT !.txs = x.txs + 1, !.sent = x.sent \o p, !.mem = m, !.full = f, !.state = st]
<1>1. Received(x, off, n, on) = y
  BY DEF Received, Full
<1>2. x.txs \in Nat /\ x.mem \in Seq(Sent) /\ x.sent \in Seq(Sent) /\ x.state \in XferStates
  BY DEF OutXfer
<1>3. p \in Seq(Sent) /\ Len(p) = n
  BY <1>2, PayloadIs
<1>4. m = x.mem \o p /\ x.sent = x.mem
  BY <1>2, AllOfIt, Zenon DEF Stored, InPlace
<1>5. m \in Seq(Sent) /\ Len(m) = Len(x.mem) + Len(p) /\ x.sent \o p = m
  BY <1>2, <1>3, <1>4, Joined, Zenon
<1>6. f \in BOOLEAN /\ st \in XferStates /\ x.txs + 1 \in Nat
  BY <1>2 DEF XferStates, Full
<1>7. f <=> Full(n)
  OBVIOUS
<1> HIDE DEF p, m, f, st
<1>8. /\ y \in OutXfer /\ y.size = x.size /\ y.pkts = x.pkts /\ y.mem = m /\ y.sent = m
      /\ y.full = f /\ y.state = st
  BY <1>5, <1>6 DEF OutXfer
<1> HIDE DEF y
<1>9. Takes(x, y, n)
  BY <1>3, <1>4, <1>5, <1>7, <1>8 DEF Takes, InPlace
<1>10. QED
  BY <1>1, <1>8, <1>9 DEF st

(* The endpoint after an OUT transaction that goes on, and after one that  *)
(* ends its transfer.                                                      *)
LEMMA OutContinuesIs ==
    ASSUME NEW ep \in Endpoint, NEW n, n \in 0..ep.xfer, n \div MPS < ep.pkts
    PROVE  LET r == OutContinues(ep, n) IN
           /\ r \in Endpoint /\ r.ena = ep.ena /\ r.int = ep.int
           /\ r.xfer = ep.xfer - n /\ r.pkts = ep.pkts - n \div MPS /\ r.dma.off = ep.dma.off + n
<1> DEFINE q == n \div MPS
<1>1. ep.xfer \in Nat /\ ep.pkts \in Nat /\ ep.dma.off \in Nat /\ MPS \in Nat /\ MPS > 0
  BY UsbConstants DEF Endpoint
<1>2. n \in Nat
  BY <1>1
<1>3. q \in Nat
  BY <1>1, <1>2, SMT
<1> DEFINE r == [ep EXCEPT !.xfer = ep.xfer - n, !.pkts = ep.pkts - q, !.dma.off = ep.dma.off + n]
<1>4. OutContinues(ep, n) = r
  BY DEF OutContinues
<1> HIDE DEF q
<1>5. ep.xfer - n \in Nat /\ ep.pkts - q \in Nat /\ ep.dma.off + n \in Nat
  BY <1>1, <1>2, <1>3 DEF q
<1>6. /\ r \in Endpoint /\ r.ena = ep.ena /\ r.int = ep.int
      /\ r.xfer = ep.xfer - n /\ r.pkts = ep.pkts - q /\ r.dma.off = ep.dma.off + n
  BY <1>5 DEF Endpoint
<1> HIDE DEF r
<1>7. QED
  BY <1>4, <1>6 DEF q

(* The end of an OUT transfer: completion, and the registers count down.   *)
LEMMA OutEndsIs ==
    ASSUME NEW e, NEW ep \in Endpoint, NEW n, n \in 0..ep.xfer
    PROVE  LET r == OutEnds(e, ep, n) IN
           /\ r \in Endpoint /\ ~r.ena
           /\ "compl" \in r.int /\ ("setup" \in r.int <=> "setup" \in ep.int)
           /\ r.xfer = ep.xfer - n /\ r.dma.off = ep.dma.off + n
           /\ e # 0 => r.pkts = ep.pkts - OutUsed(ep, n)
<1> DEFINE k == IF e # 0 THEN ep.pkts - OutUsed(ep, n) ELSE ep.pkts
           r == [ep EXCEPT !.ena = FALSE, !.xfer = ep.xfer - n, !.dma.off = ep.dma.off + n, !.pkts = k,
                           !.int = ep.int \cup {"compl"}]
<1>1. ep.xfer \in Nat /\ ep.pkts \in Nat /\ ep.dma.off \in Nat
  BY DEF Endpoint
<1>2. Packets(n) \in Nat
  BY <1>1, PacketsProperties
<1>3. k \in Nat
  BY <1>1, <1>2 DEF OutUsed, MinOf, MaxOf
<1>4. OutEnds(e, ep, n) = r
  BY DEF OutEnds
<1>5. ep.xfer - n \in Nat /\ ep.dma.off + n \in Nat /\ ep.int \cup {"compl"} \in SUBSET EpInts
  BY <1>1 DEF Endpoint, EpInts
<1> HIDE DEF k
<1>6. /\ r \in Endpoint /\ r.ena = FALSE /\ r.int = ep.int \cup {"compl"}
      /\ r.xfer = ep.xfer - n /\ r.dma.off = ep.dma.off + n /\ r.pkts = k
  BY <1>3, <1>5, Zenon DEF Endpoint
<1> HIDE DEF r
<1>7. QED
  BY <1>4, <1>6 DEF k

(* The transfer after an OUT transaction fits the endpoint after it.       *)
LEMMA OutGoesOnFits ==
    ASSUME NEW e \in Eps, NEW ep, NEW x, OutFits(e, ep, x), ep.ena,
           NEW n, n \in 0..ep.xfer, GoesOn(e, ep, n)
    PROVE  OutFits(e, OutContinues(ep, n), Received(x, ep.dma.off, n, TRUE))
<1> DEFINE r == OutContinues(ep, n)
           y == Received(x, ep.dma.off, n, TRUE)
           q == n \div MPS
<1>1. ep \in Endpoint /\ x \in OutXfer /\ x.state = "armed" /\ OutFills(ep, x) /\ e = 1
  BY DEF OutFits, GoesOn, Eps
<1>2. /\ ep.xfer \in Nat /\ ep.pkts \in Nat /\ ep.dma.off \in Nat /\ x.size \in Nat /\ x.pkts \in Nat
      /\ MPS \in Nat /\ MPS > 0 /\ n \in Nat
  BY <1>1, UsbConstants DEF Endpoint, OutXfer
<1>3. /\ x.mem = x.sent /\ ep.xfer <= x.size /\ Len(x.mem) = x.size - ep.xfer
      /\ ep.dma.off = Len(x.mem)
  BY <1>1 DEF OutFills
<1>4. /\ r \in Endpoint /\ r.ena = ep.ena /\ r.int = ep.int
      /\ r.xfer = ep.xfer - n /\ r.pkts = ep.pkts - q /\ r.dma.off = ep.dma.off + n
  BY <1>1, OutContinuesIs, Zenon DEF GoesOn
<1>5. /\ y \in OutXfer /\ y.size = x.size /\ y.pkts = x.pkts
      /\ y.mem = y.sent /\ Len(y.mem) = Len(x.mem) + n /\ y.state = "armed"
  <2>1. InPlace(x, ep.dma.off)
    BY <1>3 DEF InPlace
  <2>2. Takes(x, y, n) /\ y.state = x.state
    BY <1>1, <1>2, <2>1, ReceivedIs, Zenon
  <2>3. QED
    BY <1>1, <2>2 DEF Takes
<1>6. ep.xfer = ep.pkts * MPS /\ x.size = x.pkts * MPS /\ ep.pkts <= x.pkts
  BY <1>1 DEF OutFits
<1>7. q \in Nat /\ q < ep.pkts /\ n = q * MPS
  <2>1. q = Packets(n) /\ n = Packets(n) * MPS
    BY <1>2, WholePackets DEF GoesOn
  <2>2. QED
    BY <1>2, <2>1, PacketsProperties DEF GoesOn
<1> HIDE DEF r, y, q
<1>8. r.xfer = r.pkts * MPS /\ r.pkts > 0 /\ r.pkts <= x.pkts
  <2>1. (ep.pkts - q) * MPS = ep.pkts * MPS - q * MPS
    BY <1>2, <1>7, PacketOrder
  <2>2. QED
    BY <1>2, <1>4, <1>6, <1>7, <2>1
<1>9. OutFills(r, y)
  BY <1>2, <1>3, <1>4, <1>5 DEF OutFills
<1>10. OutFits(1, r, y)
  BY <1>1, <1>4, <1>5, <1>6, <1>8, <1>9 DEF OutFits
<1>11. QED
  BY <1>1, <1>10, Zenon DEF r, y

(* The driver can tell how the transfer ended.                             *)
LEMMA OutUsedTells ==
    ASSUME NEW ep \in Endpoint, NEW n, n \in 0..ep.xfer, ep.pkts > 0, ep.xfer = ep.pkts * MPS
    PROVE  /\ OutUsed(ep, n) \in 0..ep.pkts
           /\ n = OutUsed(ep, n) * MPS <=> Full(n)
<1> DEFINE p == Packets(n)
<1>1. ep.xfer \in Nat /\ ep.pkts \in Nat /\ n \in Nat /\ MPS \in Nat /\ MPS > 0
  BY UsbConstants DEF Endpoint
<1>2. p \in Nat /\ n <= p * MPS /\ p * MPS < n + MPS
  BY <1>1, PacketsProperties
<1>3. Full(n) <=> n > 0 /\ n = p * MPS
  BY <1>1, WholePackets DEF Full
<1>4. OutUsed(ep, n) = MinOf(ep.pkts, MaxOf(1, p))
  BY DEF OutUsed
<1> HIDE DEF p
<1>5. p <= ep.pkts
  <2>1. (ep.pkts + 1) * MPS = ep.pkts * MPS + MPS
    BY <1>1
  <2>2. p * MPS < (ep.pkts + 1) * MPS
    BY <1>1, <1>2, <2>1, PacketOrder
  <2>3. p < ep.pkts + 1
    BY <1>1, <1>2, <2>2, PacketOrder
  <2>4. QED
    BY <1>1, <1>2, <2>3
<1>6. CASE p = 0
  <2>1. n = 0
    BY <1>1, <1>2, <1>6
  <2>2. OutUsed(ep, n) = 1
    BY <1>1, <1>4, <1>6 DEF MinOf, MaxOf
  <2>3. QED
    BY <1>1, <1>3, <2>1, <2>2
<1>7. CASE p > 0
  <2>1. OutUsed(ep, n) = p
    BY <1>1, <1>2, <1>4, <1>5, <1>7 DEF MinOf, MaxOf
  <2>2. n > 0
    <3>1. n = 0 => p * MPS < 1 * MPS
      BY <1>1, <1>2
    <3>2. QED
      BY <1>1, <1>2, <1>7, <3>1, PacketOrder
  <2>3. QED
    BY <1>2, <1>3, <1>5, <2>1, <2>2
<1>8. QED
  BY <1>2, <1>6, <1>7

(* A transaction that ends an OUT transfer fits what was received.         *)
LEMMA OutEndsFits ==
    ASSUME NEW e \in Eps, NEW ep, NEW x, OutFits(e, ep, x), ep.ena, NEW n, n \in 0..ep.xfer
    PROVE  OutFits(e, OutEnds(e, ep, n), Received(x, ep.dma.off, n, FALSE))
<1> DEFINE r == OutEnds(e, ep, n)
           y == Received(x, ep.dma.off, n, FALSE)
           used == OutUsed(ep, n)
<1>1. ep \in Endpoint /\ x \in OutXfer /\ x.state = "armed" /\ OutFills(ep, x) /\ e \in {0, 1}
  BY DEF OutFits, Eps
<1>2. /\ ep.xfer \in Nat /\ ep.pkts \in Nat /\ ep.dma.off \in Nat /\ x.size \in Nat /\ x.pkts \in Nat
      /\ MPS \in Nat /\ MPS > 0 /\ n \in Nat
  BY <1>1, UsbConstants DEF Endpoint, OutXfer
<1>3. /\ x.mem = x.sent /\ ep.xfer <= x.size /\ Len(x.mem) = x.size - ep.xfer
      /\ ep.dma.off = Len(x.mem)
  BY <1>1 DEF OutFills
<1>4. /\ r \in Endpoint /\ ~r.ena /\ r.xfer = ep.xfer - n /\ r.dma.off = ep.dma.off + n
      /\ e # 0 => r.pkts = ep.pkts - used
  BY <1>1, OutEndsIs
<1>5. Takes(x, y, n) /\ y.state = "complete"
  <2>1. InPlace(x, ep.dma.off)
    BY <1>3 DEF InPlace
  <2>2. Takes(x, y, n)
    BY <1>1, <1>2, <2>1, ReceivedIs, Zenon
  <2>3. y.state = "complete"
    BY <1>1 DEF Received, OutXfer
  <2>4. QED
    BY <2>2, <2>3, Zenon
<1>6. /\ y \in OutXfer /\ y.size = x.size /\ y.pkts = x.pkts
      /\ y.mem = y.sent /\ Len(y.mem) = Len(x.mem) + n /\ (y.full <=> Full(n))
  BY <1>5, Zenon DEF Takes
<1>7. e = 1 => /\ used \in 0..ep.pkts /\ (n = used * MPS <=> Full(n))
               /\ ep.xfer = ep.pkts * MPS /\ x.size = x.pkts * MPS /\ ep.pkts <= x.pkts
  <2>1. e = 1 => /\ ep.pkts > 0 /\ ep.pkts <= x.pkts
                 /\ ep.xfer = ep.pkts * MPS /\ x.size = x.pkts * MPS
    BY DEF OutFits
  <2>2. QED
    BY <1>1, <2>1, OutUsedTells
<1> HIDE DEF r, y, used
<1>8. e = 1 => (y.size - r.xfer = (y.pkts - r.pkts) * MPS <=> y.full)
  <2> SUFFICES ASSUME e = 1 PROVE y.size - r.xfer = (y.pkts - r.pkts) * MPS <=> n = used * MPS
    BY <1>6, <1>7
  <2>1. y.pkts - r.pkts = (x.pkts - ep.pkts) + used /\ used \in Nat /\ x.pkts - ep.pkts \in Nat
    <3>1. used \in 0..ep.pkts /\ ep.pkts <= x.pkts /\ r.pkts = ep.pkts - used /\ y.pkts = x.pkts
      BY <1>4, <1>6, <1>7
    <3>2. QED
      BY <1>2, <3>1
  <2>2. (y.pkts - r.pkts) * MPS = (x.pkts - ep.pkts) * MPS + used * MPS
    BY <2>1, PacketOrder
  <2>3. (x.pkts - ep.pkts) * MPS = x.size - ep.xfer /\ used * MPS \in Int
    BY <1>2, <1>7, <2>1, PacketOrder
  <2>4. y.size - r.xfer = (x.size - ep.xfer) + n
    BY <1>2, <1>4, <1>6
  <2>5. QED
    BY <1>2, <2>2, <2>3, <2>4
<1>9. OutFills(r, y)
  BY <1>2, <1>3, <1>4, <1>6 DEF OutFills
<1>10. OutFits(e, r, y)
  BY <1>1, <1>4, <1>5, <1>6, <1>8, <1>9 DEF OutFits
<1>11. QED
  BY <1>10, Zenon DEF r, y

(* The transfer after a SETUP fits the control endpoint after it.          *)
LEMMA SetupFits ==
    ASSUME NEW ep, NEW x, OutFits(0, ep, x), ep.ena, NEW n, n = MinOf(ep.xfer, 1)
    PROVE  OutFits(0, SetupIn(ep, n),
                   [x EXCEPT !.sent = Payload(0, n), !.mem = Payload(0, n), !.state = "complete"])
<1> DEFINE r == SetupIn(ep, n)
           y == [x EXCEPT !.sent = Payload(0, n), !.mem = Payload(0, n), !.state = "complete"]
<1>1. ep \in Endpoint /\ x \in OutXfer /\ x.state = "armed" /\ OutFills(ep, x) /\ ep.xfer = x.size
  BY DEF OutFits
<1>2. ep.xfer \in Nat /\ ep.dma.off \in Nat /\ x.size \in Nat
  BY <1>1 DEF Endpoint, OutXfer
<1>3. n \in 0..ep.xfer /\ n \in Nat
  BY <1>2 DEF MinOf
<1>4. ep.dma.off = 0
  BY <1>1, <1>2 DEF OutFills
<1>5. Payload(0, n) \in Seq(Sent) /\ Len(Payload(0, n)) = n
  BY <1>3, PayloadIs
<1>6. /\ y \in OutXfer /\ y.size = x.size /\ y.mem = Payload(0, n) /\ y.sent = y.mem
      /\ y.state = "complete"
  BY <1>1, <1>5, Zenon DEF OutXfer, XferStates
<1>7. /\ r \in Endpoint /\ ~r.ena /\ r.xfer = ep.xfer - n /\ r.dma.off = ep.dma.off + n
  <2>1. ep.xfer - n \in Nat /\ ep.dma.off + n \in Nat /\ ep.int \cup {"setup"} \in SUBSET EpInts
    BY <1>1, <1>2, <1>3 DEF Endpoint, EpInts
  <2> DEFINE g == [ep EXCEPT !.ena = FALSE, !.xfer = ep.xfer - n, !.dma.off = ep.dma.off + n,
                             !.int = ep.int \cup {"setup"}]
  <2>2. g \in Endpoint /\ g.ena = FALSE /\ g.xfer = ep.xfer - n /\ g.dma.off = ep.dma.off + n
    BY <1>1, <2>1, Zenon DEF Endpoint
  <2>3. r = g
    BY DEF SetupIn
  <2> HIDE DEF g, r
  <2>4. QED
    BY <2>2, <2>3
<1> HIDE DEF r, y
<1>8. OutFills(r, y)
  BY <1>1, <1>2, <1>3, <1>4, <1>5, <1>6, <1>7 DEF OutFills
<1>9. OutFits(0, r, y)
  BY <1>6, <1>7, <1>8 DEF OutFits
<1>10. QED
  BY <1>9 DEF r, y

-----------------------------------------------------------------------------
(* All endpoints *)

(* A change of one endpoint, of its transfer, or of both.                  *)
LEMMA InPut ==
    ASSUME NEW ins, NEW xi, InAll(ins, xi), NEW e \in Eps, NEW r, NEW y, InFits(r, y)
    PROVE  /\ InAll([ins EXCEPT ![e] = r], [xi EXCEPT ![e] = y])
           /\ y = xi[e] => InAll([ins EXCEPT ![e] = r], xi)
<1>1. r \in Endpoint /\ y \in InXfer
  BY Zenon DEF InFits
<1>2. QED
  BY <1>1, SMT DEF InAll

(* One OUT endpoint that fits, put among the others.                       *)
LEMMA OutPut ==
    ASSUME NEW outs, NEW xo, OutAll(outs, xo), NEW e \in Eps, NEW r, NEW y, OutFits(e, r, y)
    PROVE  /\ OutAll([outs EXCEPT ![e] = r], [xo EXCEPT ![e] = y])
           /\ y = xo[e] => OutAll([outs EXCEPT ![e] = r], xo)
<1>1. r \in Endpoint /\ y \in OutXfer
  BY Zenon DEF OutFits
<1>2. QED
  BY <1>1, SMT DEF OutAll

(* Nothing armed.                                                          *)
LEMMA ResetFits ==
    /\ InAll([e \in Eps |-> ResetEp], [e \in Eps |-> NoIn])
    /\ OutAll([e \in Eps |-> ResetEp], [e \in Eps |-> NoOut])
    /\ ResetEp \in Endpoint /\ ~ResetEp.ena /\ ResetEp.int = {}
<1>1. ResetEp \in Endpoint /\ ~ResetEp.ena /\ ResetEp.int = {}
  BY DEF ResetEp, Endpoint, NoBuf
<1>2. NoIn \in InXfer /\ NoIn.state = "none" /\ NoIn.buf = 0
  BY DEF NoIn, InXfer, XferStates
<1>3. NoOut \in OutXfer /\ NoOut.state = "none"
  BY DEF NoOut, OutXfer, XferStates
<1>4. InFits(ResetEp, NoIn)
  BY <1>1, <1>2 DEF InFits
<1>5. \A e \in Eps : OutFits(e, ResetEp, NoOut)
  BY <1>1, <1>3 DEF OutFits
<1>6. QED
  BY <1>1, <1>2, <1>3, <1>4, <1>5 DEF InAll, OutAll

(* An IN transaction on any endpoint, a control reply included.            *)
LEMMA InOnFits ==
    ASSUME InAll(inEp, xin), ReplyFits(inEp[0], reply, setups), NEW e \in Eps, NEW want, want \in Nat,
           InOn(e, want), setups' = setups
    PROVE  InAll(inEp', xin') /\ ReplyFits(inEp'[0], reply', setups')
<1> DEFINE ep == inEp[e]
<1>1. /\ InFits(ep, xin[e]) /\ ep \in Endpoint /\ inEp \in [Eps -> Endpoint] /\ xin \in [Eps -> InXfer]
      /\ e \in {0, 1} /\ 0 \in Eps
  BY DEF InAll, InFits, Eps
<1>2. CASE ep.stall /\ inEp' = [inEp EXCEPT ![e].stall = FALSE] /\ UNCHANGED <<xin, reply>>
  <2> DEFINE r == [ep EXCEPT !.stall = FALSE]
  <2>1. /\ r \in Endpoint /\ r.ena = ep.ena /\ r.nak = ep.nak /\ r.xfer = ep.xfer /\ r.pkts = ep.pkts
        /\ r.dma = ep.dma /\ r.int = ep.int
    BY <1>1, Zenon DEF Endpoint
  <2>2. inEp' = [inEp EXCEPT ![e] = r] /\ xin' = xin /\ reply' = reply
    BY <1>2
  <2> HIDE DEF r, ep
  <2>3. InFits(r, xin[e])
    BY <1>1, <2>1, InSameFits
  <2>4. InAll(inEp', xin')
    BY <2>2, <2>3, InPut, Zenon
  <2>5. QED
    BY <1>1, <2>1, <2>2, <2>4 DEF ReplyFits, ep
<1>3. CASE /\ ~ep.stall /\ ~ep.nak /\ ep.ena
           /\ inEp' = [inEp EXCEPT ![e] = InTransfer(ep, want)]
           /\ xin' = [xin EXCEPT ![e] = Handed(xin[e], ep, want)]
           /\ reply' = IF e = 0 THEN [to |-> setups, from |-> ep.dma.buf] ELSE reply
  <2>1. InFits(InTransfer(ep, want), Handed(xin[e], ep, want))
    BY <1>1, <1>3, InTransferFits
  <2>2. InAll(inEp', xin')
    BY <1>3, <2>1, InPut, Zenon
  <2>3. InTransfer(ep, want).nak = ep.nak /\ InTransfer(ep, want).dma.buf = ep.dma.buf
    BY <1>1, InTransferIs, SMTT(20)
  <2>4. CASE e = 0
    <3>1. ep.dma.buf = setups
      BY <1>3, <2>4 DEF ReplyFits
    <3>2. inEp'[0] = InTransfer(ep, want) /\ reply' = [to |-> setups, from |-> setups]
      BY <1>1, <1>3, <2>4, <3>1
    <3> HIDE DEF ep
    <3>3. QED
      BY <2>2, <2>3, <3>1, <3>2 DEF ReplyFits
  <2>5. CASE e # 0
    BY <1>1, <1>3, <2>2, <2>5 DEF ReplyFits
  <2>6. QED
    BY <2>4, <2>5
<1>4. CASE UNCHANGED <<inEp, xin, reply>>
  BY <1>4
<1>5. QED
  BY <1>2, <1>3, <1>4 DEF InOn

(* An OUT transaction on any endpoint.                                     *)
LEMMA OutOnFits ==
    ASSUME OutAll(outEp, xout), NEW e \in Eps, NEW n, n \in Nat, OutOn(e, n)
    PROVE  OutAll(outEp', xout')
<1> DEFINE ep == outEp[e]
<1>1. OutFits(e, ep, xout[e]) /\ ep \in Endpoint /\ outEp \in [Eps -> Endpoint]
  BY DEF OutAll, OutFits
<1>2. CASE ep.stall /\ outEp' = [outEp EXCEPT ![e].stall = FALSE] /\ UNCHANGED xout
  <2> DEFINE r == [ep EXCEPT !.stall = FALSE]
  <2>1. /\ r \in Endpoint /\ r.ena = ep.ena /\ r.xfer = ep.xfer /\ r.pkts = ep.pkts
        /\ r.dma = ep.dma /\ r.int = ep.int
    BY <1>1, Zenon DEF Endpoint
  <2>2. outEp' = [outEp EXCEPT ![e] = r] /\ xout' = xout
    BY <1>2
  <2> HIDE DEF r, ep
  <2>3. OutFits(e, r, xout[e])
    BY <1>1, <2>1, OutSameFits
  <2>4. QED
    BY <2>2, <2>3, OutPut, Zenon
<1>3. CASE ~ep.stall /\ ep.ena /\ OutTransfer(e, n)
  <2> DEFINE amt == MinOf(ep.xfer, n)
             on == GoesOn(e, ep, amt)
  <2>1. amt \in 0..ep.xfer
    BY <1>1 DEF MinOf, Endpoint
  <2>2. /\ outEp' = [outEp EXCEPT ![e] = IF on THEN OutContinues(ep, amt) ELSE OutEnds(e, ep, amt)]
        /\ xout' = [xout EXCEPT ![e] = Received(xout[e], ep.dma.off, amt, on)]
    BY <1>3 DEF OutTransfer
  <2>3. on \in BOOLEAN
    BY DEF GoesOn
  <2> HIDE DEF amt, on
  <2>4. CASE on = TRUE
    <3>1. GoesOn(e, ep, amt)
      BY <2>4 DEF on
    <3>2. OutFits(e, OutContinues(ep, amt), Received(xout[e], ep.dma.off, amt, TRUE))
      BY <1>1, <1>3, <2>1, <3>1, OutGoesOnFits, Zenon
    <3>3. /\ outEp' = [outEp EXCEPT ![e] = OutContinues(ep, amt)]
          /\ xout' = [xout EXCEPT ![e] = Received(xout[e], ep.dma.off, amt, TRUE)]
      BY <2>2, <2>4
    <3>4. QED
      BY <3>2, <3>3, OutPut, Zenon
  <2>5. CASE on = FALSE
    <3>1. OutFits(e, OutEnds(e, ep, amt), Received(xout[e], ep.dma.off, amt, FALSE))
      BY <1>1, <1>3, <2>1, OutEndsFits, Zenon
    <3>2. /\ outEp' = [outEp EXCEPT ![e] = OutEnds(e, ep, amt)]
          /\ xout' = [xout EXCEPT ![e] = Received(xout[e], ep.dma.off, amt, FALSE)]
      BY <2>2, <2>5, Zenon
    <3>3. QED
      BY <3>1, <3>2, OutPut, Zenon
  <2>6. QED
    BY <2>3, <2>4, <2>5, Zenon
<1>4. CASE UNCHANGED <<outEp, xout>>
  BY <1>4
<1>5. QED
  BY <1>2, <1>3, <1>4, SMTT(20) DEF OutOn

(* The driver arms an IN endpoint, or stalls the control endpoint.         *)
LEMMA ArmInKeeps ==
    ASSUME InAll(inEp, xin), ReplyFits(inEp[0], reply, setups), NEW e \in Eps, NEW ack, NEW buf, NEW off, NEW n,
           {buf, off, n} \subseteq Nat, e = 0 => buf = setups, ArmInFrom(e, ack, buf, off, n)
    PROVE  InAll(inEp', xin') /\ ReplyFits(inEp'[0], reply, setups)
<1> DEFINE r == InArmed(inEp[e], ack, buf, off, n)
           x == [NoIn EXCEPT !.buf = buf, !.off = off, !.size = n, !.state = "armed"]
<1>1. inEp \in [Eps -> Endpoint] /\ inEp[e] \in Endpoint /\ e \in {0, 1} /\ 0 \in Eps
  BY DEF InAll, Eps
<1>2. inEp' = [inEp EXCEPT ![e] = r] /\ xin' = [xin EXCEPT ![e] = x]
  BY DEF ArmInFrom
<1>3. InFits(r, x)
  BY <1>1, InArmedFits, Zenon
<1>4. r.dma.buf = buf
  BY <1>1, InArmedIs
<1> HIDE DEF r, x
<1>5. QED
  BY <1>1, <1>2, <1>3, <1>4, InPut, Zenon DEF ReplyFits

(* A stalled reply fits: it is stopped where it was.                       *)
LEMMA StallKeeps ==
    ASSUME InAll(inEp, xin), ReplyFits(inEp[0], reply, setups),
           inEp' = [inEp EXCEPT ![0] = InCtl(inEp[0], {"stall"})],
           xin' = [xin EXCEPT ![0].state = IF @ = "armed" THEN "stopped" ELSE @]
    PROVE  InAll(inEp', xin') /\ ReplyFits(inEp'[0], reply, setups)
<1> DEFINE r == InCtl(inEp[0], {"stall"})
           x == [xin[0] EXCEPT !.state = IF xin[0].state = "armed" THEN "stopped" ELSE xin[0].state]
<1>1. inEp \in [Eps -> Endpoint] /\ 0 \in Eps /\ InFits(inEp[0], xin[0]) /\ inEp[0] \in Endpoint
  BY DEF InAll, InFits, Eps
<1>2. inEp' = [inEp EXCEPT ![0] = r] /\ xin' = [xin EXCEPT ![0] = x]
  OBVIOUS
<1>3. InFits(r, x)
  BY <1>1, InStopFits
<1>4. ~r.ena
  BY <1>1, InCtlIs
<1>5. inEp'[0] = r
  BY <1>1
<1> HIDE DEF r, x
<1>6. InAll([inEp EXCEPT ![0] = r], [xin EXCEPT ![0] = x])
  BY <1>1, <1>3, InPut, Zenon
<1>7. InAll(inEp', xin')
  BY <1>2, <1>6, Zenon
<1>8. QED
  BY <1>4, <1>5, <1>7 DEF ReplyFits

-----------------------------------------------------------------------------
(* The line *)

(* synopsys_usb_update_irq leaves the line as the registers say.           *)
LEMMA UpdateIrqSays ==
    ASSUME NEW g, UpdateIrq(g)
    PROVE  LineInv'
<1>1. gintsts' = (g \ {"iep", "oep"}) \cup EpStatus' /\ irq' = (gahbcfg' /\ gintmsk' \cap gintsts' # {})
  BY DEF UpdateIrq
<1>2. irq' <=> gahbcfg' /\ gintsts' \cap gintmsk' # {}
  BY <1>1, Zenon
<1>3. ASSUME NEW e \in Eps, "compl" \in inEp'[e].int, "compl" \in diepmsk', <<"in", e>> \in daintmsk'
      PROVE  "iep" \in gintsts'
  <2>1. InPending(e)'
    BY <1>3 DEF InPending
  <2>2. QED
    BY <1>1, <2>1 DEF EpStatus
<1>4. ASSUME NEW e \in Eps, outEp'[e].int \cap doepmsk' \cap {"compl", "setup"} # {},
             <<"out", e>> \in daintmsk'
      PROVE  "oep" \in gintsts'
  <2>1. OutPending(e)'
    BY <1>4 DEF OutPending
  <2>2. QED
    BY <1>1, <2>1 DEF EpStatus
<1>5. QED
  BY <1>2, <1>3, <1>4 DEF LineInv

(* A write that is not followed by an update must raise no interrupt.      *)
LEMMA LineKept ==
    ASSUME LineInv, UNCHANGED <<gintsts, masks, irq>>,
           \A e \in Eps : /\ "compl" \in inEp'[e].int => "compl" \in inEp[e].int
                          /\ "compl" \in outEp'[e].int => "compl" \in outEp[e].int
                          /\ "setup" \in outEp'[e].int => "setup" \in outEp[e].int
    PROVE  LineInv'
<1>1. irq' <=> gahbcfg' /\ gintsts' \cap gintmsk' # {}
  BY DEF LineInv, masks
<1>2. ASSUME NEW e \in Eps, "compl" \in inEp'[e].int, "compl" \in diepmsk', <<"in", e>> \in daintmsk'
      PROVE  "iep" \in gintsts'
  BY <1>2, Zenon DEF LineInv, masks
<1>3. ASSUME NEW e \in Eps, outEp'[e].int \cap doepmsk' \cap {"compl", "setup"} # {},
             <<"out", e>> \in daintmsk'
      PROVE  "oep" \in gintsts'
  <2>1. outEp[e].int \cap doepmsk \cap {"compl", "setup"} # {}
    BY <1>3 DEF masks
  <2>2. QED
    BY <1>3, <2>1, Zenon DEF LineInv, masks
<1>4. QED
  BY <1>1, <1>2, <1>3 DEF LineInv

(* Arming raises none; a stall or a stop, neither.                         *)
LEMMA ArmInQuiet ==
    ASSUME InAll(inEp, xin), NEW e \in Eps, NEW ack, NEW buf, NEW off, NEW n,
           {buf, off, n} \subseteq Nat, ArmInFrom(e, ack, buf, off, n)
    PROVE  \A d \in Eps : "compl" \in inEp'[d].int => "compl" \in inEp[d].int
<1>1. inEp \in [Eps -> Endpoint]
  BY SMTT(20) DEF InAll
<1>2. "compl" \in InArmed(inEp[e], ack, buf, off, n).int => "compl" \in inEp[e].int
  BY <1>1, InArmedIs
<1>3. QED
  BY <1>1, <1>2 DEF ArmInFrom

(* Arming an OUT endpoint fits, and completes nothing.                     *)
LEMMA ArmOutKeeps ==
    ASSUME OutAll(outEp, xout), NEW e \in Eps, NEW k, NEW n, k \in Nat, n \in Nat,
           e = 1 => k > 0 /\ n = k * MPS, ArmOut(e, k, n)
    PROVE  /\ OutAll(outEp', xout')
           /\ \A d \in Eps : /\ "compl" \in outEp'[d].int => "compl" \in outEp[d].int
                             /\ "setup" \in outEp'[d].int => "setup" \in outEp[d].int
<1> DEFINE r == OutArmed(outEp[e], k, n)
           x == [NoOut EXCEPT !.size = n, !.pkts = k, !.state = "armed"]
<1>1. outEp \in [Eps -> Endpoint] /\ outEp[e] \in Endpoint
  BY DEF OutAll
<1>2. outEp' = [outEp EXCEPT ![e] = r] /\ xout' = [xout EXCEPT ![e] = x]
  BY DEF ArmOut
<1>3. OutFits(e, r, x)
  BY <1>1, OutArmedFits, Zenon
<1>4. ("compl" \in r.int => "compl" \in outEp[e].int) /\ ("setup" \in r.int => "setup" \in outEp[e].int)
  BY <1>1, OutArmedIs
<1> HIDE DEF r, x
<1>5. OutAll(outEp', xout')
  BY <1>2, <1>3, OutPut, Zenon
<1>6. QED
  BY <1>1, <1>2, <1>4, <1>5

-----------------------------------------------------------------------------
(* The device's invariant, action by action *)

(* Steps that leave the device alone, and those that touch only registers  *)
(* of the core and update the line.                                        *)
LEMMA Untouched ==
    ASSUME DeviceInv, UNCHANGED <<core, xin, xout, setups, reply, snap>>
    PROVE  DeviceInv'
BY DEF DeviceInv, EpInv, SnapInv, LineInv, core

(* An operation that touches the interrupt registers only, and updates.    *)
LEMMA RegistersOnly ==
    ASSUME DeviceInv, UNCHANGED <<inEp, outEp, xin, xout, setups, reply, snap>>, NEW g, UpdateIrq(g)
    PROVE  DeviceInv'
<1>1. LineInv'
  BY UpdateIrqSays
<1>2. QED
  BY <1>1 DEF DeviceInv, EpInv, SnapInv

(* Transactions.                                                           *)
LEMMA InPathKeeps ==
    ASSUME DeviceInv, NEW e \in Eps, NEW want, want \in Nat, InPath(e, want)
    PROVE  DeviceInv'
<1>1. InAll(inEp', xin') /\ ReplyFits(inEp'[0], reply', setups')
  BY InOnFits DEF DeviceInv, EpInv, InPath
<1>2. LineInv'
  BY UpdateIrqSays DEF InPath
<1>3. QED
  BY <1>1, <1>2 DEF DeviceInv, EpInv, SnapInv, InPath

(* The device side of an OUT transaction.                                  *)
LEMMA OutPathKeeps ==
    ASSUME DeviceInv, NEW e \in Eps, NEW n, n \in Nat, NEW g, OutPath(e, n, g),
           UNCHANGED <<xin, setups, reply, snap>>
    PROVE  DeviceInv'
<1>1. OutAll(outEp', xout')
  BY OutOnFits DEF DeviceInv, EpInv, OutPath
<1>2. LineInv'
  BY UpdateIrqSays DEF OutPath
<1>3. QED
  BY <1>1, <1>2 DEF DeviceInv, EpInv, SnapInv, OutPath

(* A SETUP taken: the reply armed before it is given up.                   *)
LEMMA TakeSetupKeeps ==
    ASSUME DeviceInv, TakeSetup
    PROVE  DeviceInv'
<1> DEFINE amt == MinOf(outEp[0].xfer, 1)
           x == [xout[0] EXCEPT !.sent = Payload(0, amt), !.mem = Payload(0, amt), !.state = "complete"]
           r == EndControl(inEp[0])
<1>1. /\ InAll(inEp, xin) /\ OutAll(outEp, xout) /\ ReplyFits(inEp[0], reply, setups) /\ 0 \in Eps
      /\ InFits(inEp[0], xin[0]) /\ OutFits(0, outEp[0], xout[0]) /\ inEp[0] \in Endpoint
      /\ inEp \in [Eps -> Endpoint]
  BY DEF DeviceInv, EpInv, InAll, OutAll, Eps
<1>2. /\ outEp[0].ena /\ outEp' = [outEp EXCEPT ![0] = SetupIn(outEp[0], amt)]
      /\ xout' = [xout EXCEPT ![0] = x]
      /\ inEp' = [inEp EXCEPT ![0] = r] /\ xin' = xin /\ setups' = setups + 1 /\ reply' = reply
      /\ snap' = snap
  BY Zenon DEF TakeSetup
<1>3. OutFits(0, SetupIn(outEp[0], amt), x)
  BY <1>1, <1>2, SetupFits, Zenon
<1>4. /\ r \in Endpoint /\ r.ena = inEp[0].ena /\ r.nak = TRUE /\ r.xfer = inEp[0].xfer
      /\ r.pkts = inEp[0].pkts /\ r.dma = inEp[0].dma /\ r.int = inEp[0].int
  BY <1>1, Zenon DEF EndControl, Endpoint
<1> HIDE DEF amt, x, r
<1>5. InFits(r, xin[0])
  BY <1>1, <1>4, InSameFits
<1>6. OutAll(outEp', xout')
  BY <1>1, <1>2, <1>3, OutPut, Zenon
<1>7. InAll(inEp', xin')
  BY <1>1, <1>2, <1>5, InPut, Zenon
<1>8. ReplyFits(inEp'[0], reply', setups')
  BY <1>1, <1>2, <1>4 DEF ReplyFits
<1>9. LineInv'
  BY UpdateIrqSays DEF TakeSetup
<1>10. QED
  BY <1>2, <1>6, <1>7, <1>8, <1>9 DEF DeviceInv, EpInv, SnapInv

(* The control pipe.                                                       *)
LEMMA DrvArmOut0Keeps ==
    ASSUME DeviceInv, DrvArmOut0
    PROVE  DeviceInv'
<1>1. OutAll(outEp, xout) /\ 0 \in Eps /\ ArmOut(0, 1, 1)
  BY DEF DeviceInv, EpInv, DrvArmOut0, Eps
<1>2. /\ OutAll(outEp', xout')
      /\ \A d \in Eps : /\ "compl" \in outEp'[d].int => "compl" \in outEp[d].int
                        /\ "setup" \in outEp'[d].int => "setup" \in outEp[d].int
  BY <1>1, ArmOutKeeps
<1>3. LineInv'
  BY <1>2, LineKept DEF DrvArmOut0, DeviceInv
<1>4. QED
  BY <1>2, <1>3 DEF DrvArmOut0, DeviceInv, EpInv, SnapInv

(* An acknowledged interrupt.                                              *)
LEMMA ClearInFits ==
    ASSUME InAll(inEp, xin), ReplyFits(inEp[0], reply, setups), NEW e \in Eps, NEW bits, ClearInInt(e, bits)
    PROVE  InAll(inEp', xin) /\ ReplyFits(inEp'[0], reply, setups)
<1> DEFINE r == [inEp[e] EXCEPT !.int = inEp[e].int \ bits]
<1>1. inEp \in [Eps -> Endpoint] /\ inEp[e] \in Endpoint /\ InFits(inEp[e], xin[e]) /\ e \in {0, 1} /\ 0 \in Eps
  BY DEF InAll, Eps
<1>2. /\ r \in Endpoint /\ r.ena = inEp[e].ena /\ r.nak = inEp[e].nak /\ r.xfer = inEp[e].xfer
      /\ r.pkts = inEp[e].pkts /\ r.dma = inEp[e].dma /\ r.int = inEp[e].int \ bits
  BY <1>1 DEF Endpoint
<1>3. inEp' = [inEp EXCEPT ![e] = r]
  BY SMTT(20) DEF ClearInInt
<1> HIDE DEF r
<1>4. InFits(r, xin[e])
  BY <1>1, <1>2, InSameFits
<1>5. InAll(inEp', xin)
  BY <1>3, <1>4, InPut, Zenon
<1>6. QED
  BY <1>1, <1>2, <1>3, <1>5 DEF ReplyFits

(* Clearing interrupts of an OUT endpoint leaves its transfer.             *)
LEMMA ClearOutFits ==
    ASSUME OutAll(outEp, xout), NEW e \in Eps, NEW bits, ClearOutInt(e, bits)
    PROVE  OutAll(outEp', xout)
<1> DEFINE r == [outEp[e] EXCEPT !.int = outEp[e].int \ bits]
<1>1. outEp[e] \in Endpoint /\ OutFits(e, outEp[e], xout[e])
  BY DEF OutAll
<1>2. /\ r \in Endpoint /\ r.ena = outEp[e].ena /\ r.xfer = outEp[e].xfer
      /\ r.pkts = outEp[e].pkts /\ r.dma = outEp[e].dma /\ r.int = outEp[e].int \ bits
  BY <1>1 DEF Endpoint
<1>3. outEp' = [outEp EXCEPT ![e] = r]
  BY DEF ClearOutInt
<1> HIDE DEF r
<1>4. OutFits(e, r, xout[e])
  BY <1>1, <1>2, OutSameFits, Zenon
<1>5. QED
  BY <1>3, <1>4, OutPut, Zenon

(* The driver takes the data of a control OUT.                             *)
LEMMA DrvTakeOut0Keeps ==
    ASSUME DeviceInv, DrvTakeOut0
    PROVE  DeviceInv'
<1>1. OutAll(outEp', xout)
  BY ClearOutFits DEF DrvTakeOut0, DeviceInv, EpInv, Eps
<1>2. LineInv'
  BY UpdateIrqSays DEF DrvTakeOut0
<1>3. QED
  BY <1>1, <1>2, SMTT(20) DEF DrvTakeOut0, DeviceInv, EpInv, SnapInv

(* What the driver arms in an environment that keeps transfers short.      *)
LEMMA LimitIs ==
    ASSUME NEW n, n \in Nat
    PROVE  Limit(n) \in Nat /\ Limit(n) <= n
BY DEF Limit, MinOf

(* The driver answers a SETUP.                                             *)
LEMMA DrvReplyKeeps ==
    ASSUME DeviceInv, DrvReply
    PROVE  DeviceInv'
<1>1. InAll(inEp, xin) /\ ReplyFits(inEp[0], reply, setups) /\ setups \in Nat /\ 0 \in Eps /\ inEp \in [Eps -> Endpoint]
  BY DEF DeviceInv, EpInv, ReplyFits, Eps, InAll
<1>2. UNCHANGED <<outEp, gintsts, masks, irq, xout, setups, reply, snap>>
  BY DEF DrvReply
<1>3. /\ InAll(inEp', xin') /\ ReplyFits(inEp'[0], reply, setups)
      /\ \A d \in Eps : "compl" \in inEp'[d].int => "compl" \in inEp[d].int
  <2>1. CASE \E n \in 0..Limit(MAX_IN) : ArmIn(0, setups, n)
    <3>1. PICK n \in 0..Limit(MAX_IN) : ArmInFrom(0, {}, setups, 0, n)
      BY <2>1 DEF ArmIn
    <3>2. {setups, 0, n} \subseteq Nat
      BY <1>1, LimitIs, UsbConstants
    <3>3. QED
      BY <1>1, <3>1, <3>2, ArmInKeeps, ArmInQuiet
  <2>2. CASE /\ inEp' = [inEp EXCEPT ![0] = InCtl(inEp[0], {"stall"})]
             /\ xin' = [xin EXCEPT ![0].state = IF @ = "armed" THEN "stopped" ELSE @]
    <3>1. "compl" \in InCtl(inEp[0], {"stall"}).int <=> "compl" \in inEp[0].int
      BY <1>1, InCtlIs
    <3>2. \A d \in Eps : "compl" \in inEp'[d].int => "compl" \in inEp[d].int
      BY <1>1, <2>2, <3>1
    <3>3. QED
      BY <1>1, <2>2, <3>2, StallKeeps
  <2>3. QED
    BY <2>1, <2>2 DEF DrvReply
<1>4. LineInv'
  BY <1>2, <1>3, LineKept DEF DeviceInv
<1>5. QED
  BY <1>2, <1>3, <1>4 DEF DeviceInv, EpInv, SnapInv

(* The bulk pair.                                                          *)
LEMMA DrvArmIn1Keeps ==
    ASSUME DeviceInv, DrvArmIn1
    PROVE  DeviceInv'
<1>1. InAll(inEp, xin) /\ ReplyFits(inEp[0], reply, setups) /\ 1 \in Eps
  BY DEF DeviceInv, EpInv, Eps
<1>2. PICK n \in 0..Limit(MAX_IN), buf \in Buffers \ {xin[1].buf} : ArmInFrom(1, {}, buf, 0, n)
  BY DEF DrvArmIn1, ArmIn
<1>3. {buf, 0, n} \subseteq Nat
  BY LimitIs, UsbConstants, SMTT(20) DEF Buffers
<1>4. /\ InAll(inEp', xin') /\ ReplyFits(inEp'[0], reply, setups)
      /\ \A d \in Eps : "compl" \in inEp'[d].int => "compl" \in inEp[d].int
  BY <1>1, <1>2, <1>3, ArmInKeeps, ArmInQuiet, SMTT(20)
<1>5. LineInv'
  BY <1>4, LineKept, SMTT(20) DEF DrvArmIn1, DeviceInv
<1>6. QED
  BY <1>4, <1>5 DEF DrvArmIn1, DeviceInv, EpInv, SnapInv

(* The driver arms the bulk OUT endpoint.                                  *)
LEMMA DrvArmOut1Keeps ==
    ASSUME DeviceInv, DrvArmOut1
    PROVE  DeviceInv'
<1>1. OutAll(outEp, xout) /\ 1 \in Eps
  BY DEF DeviceInv, EpInv, Eps
<1>2. PICK k \in 1..Limit(OUT_PKTS) : ArmOut(1, k, k * MPS)
  BY DEF DrvArmOut1
<1>3. k \in Nat /\ k > 0 /\ k * MPS \in Nat
  <2>1. k \in Nat /\ k > 0 /\ MPS \in Nat
    BY LimitIs, UsbConstants
  <2>2. QED
    BY <2>1, SMT
<1>4. /\ OutAll(outEp', xout')
      /\ \A d \in Eps : /\ "compl" \in outEp'[d].int => "compl" \in outEp[d].int
                        /\ "setup" \in outEp'[d].int => "setup" \in outEp[d].int
  <2>1. PICK n : n = k * MPS
    OBVIOUS
  <2>2. n \in Nat /\ ArmOut(1, k, n)
    BY <1>2, <1>3, <2>1
  <2>3. QED
    BY <1>1, <1>3, <2>1, <2>2, ArmOutKeeps
<1>5. LineInv'
  BY <1>4, LineKept DEF DrvArmOut1, DeviceInv
<1>6. QED
  BY <1>4, <1>5 DEF DrvArmOut1, DeviceInv, EpInv, SnapInv

(* The driver disables the bulk IN endpoint.                               *)
LEMMA DrvStopIn1Keeps ==
    ASSUME DeviceInv, DrvStopIn1
    PROVE  DeviceInv'
<1>1. /\ InAll(inEp, xin) /\ ReplyFits(inEp[0], reply, setups) /\ 1 \in Eps /\ 0 \in Eps
      /\ inEp \in [Eps -> Endpoint] /\ inEp[1] \in Endpoint /\ InFits(inEp[1], xin[1])
      /\ xin \in [Eps -> InXfer] /\ xin[1] \in InXfer
  BY DEF DeviceInv, EpInv, Eps, InAll
<1>2. PICK w \in {{"dis", "ena", "snak"}, {"ena", "snak"}, {"ena", "cnak"}} :
          /\ w \subseteq {"ena", "snak", "cnak"} => inEp[1].ena
          /\ inEp' = [inEp EXCEPT ![1] = InCtl(inEp[1], w)]
          /\ xin' = [xin EXCEPT ![1].state = IF "dis" \in w /\ @ = "armed" THEN "stopped" ELSE @]
  BY DEF DrvStopIn1
<1> DEFINE r == InCtl(inEp[1], w)
           x == [xin[1] EXCEPT !.state = IF xin[1].state = "armed" THEN "stopped" ELSE xin[1].state]
<1>3. /\ r \in Endpoint /\ (r.ena <=> "ena" \in w /\ "dis" \notin w)
      /\ r.xfer = inEp[1].xfer /\ r.pkts = inEp[1].pkts /\ r.dma = inEp[1].dma
      /\ "compl" \in r.int <=> "compl" \in inEp[1].int
  BY <1>1, InCtlIs, Zenon
<1>4. InAll(inEp', xin')
  <2>1. CASE "dis" \in w
    <3>1. inEp' = [inEp EXCEPT ![1] = r] /\ xin' = [xin EXCEPT ![1] = x]
      BY <1>2, <2>1
    <3>2. InFits(r, x)
      BY <1>1, <2>1, InStopFits
    <3> HIDE DEF r, x
    <3>3. QED
      BY <1>1, <3>1, <3>2, InPut, Zenon
  <2>2. CASE "dis" \notin w
    <3>1. inEp' = [inEp EXCEPT ![1] = r] /\ xin' = xin /\ inEp[1].ena /\ "ena" \in w
      BY <1>1, <1>2, <2>2 DEF InXfer
    <3>2. r.ena = inEp[1].ena
      <4> HIDE DEF r
      <4>1. QED
        BY <1>1, <1>3, <2>2, <3>1, Zenon DEF Endpoint
    <3> HIDE DEF r
    <3>3. InFits(r, xin[1])
      BY <1>1, <1>3, <3>2, InSameFits
    <3>4. InAll([inEp EXCEPT ![1] = r], xin)
      BY <1>1, <3>3, InPut, Zenon
    <3>5. QED
      BY <3>1, <3>4
  <2>3. QED
    BY <2>1, <2>2
<1>5. ReplyFits(inEp'[0], reply, setups)
  BY <1>1, <1>2
<1>6. \A d \in Eps : "compl" \in inEp'[d].int => "compl" \in inEp[d].int
  BY <1>1, <1>2, <1>3
<1>7. LineInv'
  BY <1>6, LineKept DEF DrvStopIn1, DeviceInv
<1>8. QED
  BY <1>4, <1>5, <1>7 DEF DrvStopIn1, DeviceInv, EpInv, SnapInv

(* The driver disables the bulk OUT endpoint.                              *)
LEMMA DrvStopOut1Keeps ==
    ASSUME DeviceInv, DrvStopOut1
    PROVE  DeviceInv'
<1>1. /\ OutAll(outEp, xout) /\ 1 \in Eps /\ outEp \in [Eps -> Endpoint]
      /\ outEp[1] \in Endpoint /\ OutFits(1, outEp[1], xout[1])
  BY DEF DeviceInv, EpInv, Eps, OutAll
<1>2. PICK w \in {{"stall"}, {"dis", "ena", "snak"}} :
          /\ outEp' = [outEp EXCEPT ![1] = OutCtl(outEp[1], w)]
          /\ xout' = [xout EXCEPT ![1].state = IF @ = "armed" THEN "stopped" ELSE @]
  BY Zenon DEF DrvStopOut1
<1> DEFINE r == OutCtl(outEp[1], w)
           x == [xout[1] EXCEPT !.state = IF xout[1].state = "armed" THEN "stopped" ELSE xout[1].state]
<1>3. ("compl" \in r.int <=> "compl" \in outEp[1].int) /\ ("setup" \in r.int <=> "setup" \in outEp[1].int)
  BY <1>1, OutCtlIs
<1>4. outEp' = [outEp EXCEPT ![1] = r] /\ xout' = [xout EXCEPT ![1] = x]
  BY <1>2
<1>5. OutFits(1, r, x)
  BY <1>1, OutStopFits
<1> HIDE DEF r, x
<1>6. OutAll(outEp', xout')
  BY <1>1, <1>4, <1>5, OutPut, Zenon
<1>7. \A d \in Eps : /\ "compl" \in outEp'[d].int => "compl" \in outEp[d].int
                     /\ "setup" \in outEp'[d].int => "setup" \in outEp[d].int
  BY <1>1, <1>3, <1>4
<1>8. LineInv'
  BY <1>7, LineKept DEF DrvStopOut1, DeviceInv
<1>9. QED
  BY <1>6, <1>8 DEF DrvStopOut1, DeviceInv, EpInv, SnapInv

(* The driver clears interrupts.                                           *)
LEMMA DrvClearIntsKeeps ==
    ASSUME DeviceInv, DrvClearInts
    PROVE  DeviceInv'
<1>1. UNCHANGED <<xin, xout, setups, reply, snap>> /\ UpdateIrq(gintsts)
  BY DEF DrvClearInts, ghosts
<1>2. LineInv'
  BY <1>1, UpdateIrqSays
<1>3. CASE \E e \in (IF Builtin THEN {1} ELSE Eps) : ClearInInt(e, inEp[e].int) /\ UNCHANGED outEp
  <2>1. PICK e \in Eps : ClearInInt(e, inEp[e].int) /\ UNCHANGED outEp
    BY <1>3 DEF Eps
  <2>2. InAll(inEp', xin) /\ ReplyFits(inEp'[0], reply, setups)
    BY <2>1, ClearInFits DEF DeviceInv, EpInv
  <2>3. QED
    BY <1>1, <1>2, <2>1, <2>2 DEF DeviceInv, EpInv, SnapInv
<1>4. CASE ClearOutInt(1, outEp[1].int) /\ UNCHANGED inEp
  <2>1. OutAll(outEp', xout)
    BY <1>4, ClearOutFits DEF DeviceInv, EpInv, Eps
  <2>2. QED
    BY <1>1, <1>2, <1>4, <2>1 DEF DeviceInv, EpInv, SnapInv
<1>5. QED
  BY <1>3, <1>4 DEF DrvClearInts

(* The guest's replies to the built-in host.                               *)
LEMMA ReplyLenIs ==
    ASSUME GuestFits(guest)
    PROVE  ReplyLen(guest.req) \in Nat
<1>1. /\ guest.req.len \in Nat /\ guest.req.cfg \in Nat /\ StrLen \in Nat /\ CfgLen \in Seq(Nat \ {0})
      /\ guest.req.kind = "cfg" => guest.req.cfg \in 1..Len(CfgLen)
  BY HostConstants DEF GuestFits, GuestState
<1>2. guest.req.kind = "cfg" => CfgLen[guest.req.cfg] \in Nat
  BY <1>1
<1>3. QED
  BY <1>1, <1>2 DEF ReplyLen, MinOf

(* The guest's USB stack arms one packet of its answer.                    *)
LEMMA GuestArmsKeeps ==
    ASSUME InAll(inEp, xin), ReplyFits(inEp[0], reply, setups), NEW g, g.left \in Nat, g.off \in Nat,
           NEW ack, GuestArms(g, ack)
    PROVE  /\ InAll(inEp', xin') /\ ReplyFits(inEp'[0], reply, setups)
           /\ \A d \in Eps : "compl" \in inEp'[d].int => "compl" \in inEp[d].int
<1>1. PICK n : n = MinOf(g.left, MPS)
  OBVIOUS
<1>2. ArmInFrom(0, ack, setups, g.off, n)
  BY <1>1 DEF GuestArms
<1>3. {setups, g.off, n} \subseteq Nat /\ 0 \in Eps
  BY <1>1, UsbConstants, Zenon DEF ReplyFits, MinOf, Eps
<1>4. QED
  BY <1>2, <1>3, ArmInKeeps, ArmInQuiet, Zenon

(* The guest's USB stack starts an answer.                                 *)
LEMMA GuestReplyKeeps ==
    ASSUME DeviceInv, GuestFits(guest), GuestReply
    PROVE  DeviceInv'
<1>1. InAll(inEp, xin) /\ ReplyFits(inEp[0], reply, setups) /\ 0 \in Eps /\ inEp \in [Eps -> Endpoint]
  BY DEF DeviceInv, EpInv, Eps, InAll
<1>2. UNCHANGED <<outEp, gintsts, masks, irq, xout, setups, reply, snap>>
  BY DEF GuestReply
<1> DEFINE n == ReplyLen(guest.req)
           g == [guest EXCEPT !.left = n, !.off = 0, !.zlp = n < guest.req.len /\ n % MPS = 0,
                   !.config = IF guest.req.kind = "setcfg" THEN guest.req.cfg ELSE guest.config]
<1>3. /\ InAll(inEp', xin') /\ ReplyFits(inEp'[0], reply, setups)
      /\ \A d \in Eps : "compl" \in inEp'[d].int => "compl" \in inEp[d].int
  <2>1. CASE GuestArms(g, {"compl"})
    <3>1. g.left = n /\ g.off = 0
      BY DEF GuestFits, GuestState
    <3>2. n \in Nat
      BY ReplyLenIs
    <3> HIDE DEF g, n
    <3>3. QED
      BY <1>1, <2>1, <3>1, <3>2, GuestArmsKeeps
  <2>2. CASE /\ inEp' = [inEp EXCEPT ![0] = InCtl(inEp[0], {"stall"})]
             /\ xin' = [xin EXCEPT ![0].state = IF @ = "armed" THEN "stopped" ELSE @]
    <3>1. "compl" \in InCtl(inEp[0], {"stall"}).int <=> "compl" \in inEp[0].int
      BY <1>1, InCtlIs
    <3>2. \A d \in Eps : "compl" \in inEp'[d].int => "compl" \in inEp[d].int
      BY <1>1, <2>2, <3>1
    <3>3. QED
      BY <1>1, <2>2, <3>2, StallKeeps
  <2>3. QED
    BY <2>1, <2>2 DEF GuestReply
<1>4. LineInv'
  BY <1>2, <1>3, LineKept DEF DeviceInv
<1>5. QED
  BY <1>2, <1>3, <1>4, Zenon DEF DeviceInv, EpInv, SnapInv

(* ... and goes on with it.                                                *)
LEMMA GuestContinuesKeeps ==
    ASSUME DeviceInv, GuestFits(guest), GuestContinues
    PROVE  DeviceInv'
<1>1. InAll(inEp, xin) /\ ReplyFits(inEp[0], reply, setups) /\ 0 \in Eps
  BY DEF DeviceInv, EpInv, Eps
<1>2. UNCHANGED <<outEp, xout, setups, reply, snap>> /\ UpdateIrq(gintsts)
  BY Zenon DEF GuestContinues
<1>3. InAll(inEp', xin') /\ ReplyFits(inEp'[0], reply, setups)
  <2>1. CASE GuestArms(guest, {"compl"})
    <3>1. guest.left \in Nat /\ guest.off \in Nat
      BY DEF GuestFits, GuestState
    <3>2. QED
      BY <1>1, <2>1, <3>1, GuestArmsKeeps, Zenon
  <2>2. CASE ClearInInt(0, {"compl"}) /\ xin' = xin
    BY <1>1, <2>2, ClearInFits
  <2>3. QED
    BY <2>1, <2>2, Zenon DEF GuestContinues
<1>4. LineInv'
  BY <1>2, UpdateIrqSays
<1>5. QED
  BY <1>2, <1>3, <1>4 DEF DeviceInv, EpInv, SnapInv

(* Polling, resets and snapshots.                                          *)
LEMMA HostPollKeeps ==
    ASSUME DeviceInv, HostPoll
    PROVE  DeviceInv'
<1>1. InAll(inEp', xin') /\ ReplyFits(inEp'[0], reply', setups')
  BY InOnFits, UsbConstants DEF DeviceInv, EpInv, HostPoll, Eps
<1>2. OutAll(outEp', xout')
  BY OutOnFits DEF DeviceInv, EpInv, HostPoll, Eps
<1>3. LineInv'
  BY UpdateIrqSays DEF HostPoll
<1>4. QED
  BY <1>1, <1>2, <1>3 DEF DeviceInv, EpInv, SnapInv, HostPoll

(* A reset of the device clears the endpoints and what was armed.          *)
LEMMA DeviceResetKeeps ==
    ASSUME DeviceInv, DeviceReset
    PROVE  DeviceInv'
<1>1. /\ inEp' = [e \in Eps |-> ResetEp] /\ outEp' = [e \in Eps |-> ResetEp]
      /\ xin' = [e \in Eps |-> NoIn] /\ xout' = [e \in Eps |-> NoOut]
      /\ reply' = [to |-> 0, from |-> 0] /\ setups' = setups /\ snap' = snap
  BY DEF DeviceReset, ResetEndpoints, DriverStarts
<1>2. InAll(inEp', xin') /\ OutAll(outEp', xout') /\ ~inEp'[0].ena
  BY <1>1, ResetFits, SMTT(20) DEF Eps
<1>3. ReplyFits(inEp'[0], reply', setups')
  BY <1>1, <1>2 DEF ReplyFits, DeviceInv, EpInv
<1>4. LineInv'
  BY UpdateIrqSays, SMTT(20) DEF DeviceReset
<1>5. QED
  BY <1>1, <1>2, <1>3, <1>4, Zenon DEF DeviceInv, EpInv, SnapInv

(* A snapshot holds what holds now.                                        *)
LEMMA SaveSnapshotKeeps ==
    ASSUME DeviceInv, SaveSnapshot
    PROVE  DeviceInv'
<1>1. /\ snap'.inEp = inEp /\ snap'.outEp = outEp /\ snap'.xin = xin /\ snap'.xout = xout
      /\ snap'.setups = setups /\ snap'.reply = reply
  BY DEF SaveSnapshot
<1>2. UNCHANGED <<core, xin, xout, setups, reply>>
  BY DEF SaveSnapshot, ghosts
<1>3. SnapInv'
  BY <1>1 DEF DeviceInv, EpInv, SnapInv
<1>4. QED
  BY <1>2, <1>3 DEF DeviceInv, EpInv, LineInv, core

(* Loading one brings it back, and the line is computed anew.              *)
LEMMA LoadSnapshotKeeps ==
    ASSUME DeviceInv, LoadSnapshot
    PROVE  DeviceInv'
<1>1. LineInv'
  BY UpdateIrqSays DEF LoadSnapshot, PostLoadIrq
<1>2. QED
  BY <1>1 DEF DeviceInv, EpInv, SnapInv, LoadSnapshot

-----------------------------------------------------------------------------
(* The built-in host's invariant *)

(* What the host knows, for one of its phases.                             *)
LEMMA HostIs ==
    ASSUME NEW y \in HostState, NEW q, NEW st, y.phase = <<q, st>>
    PROVE  HostFits(y) <=> HostKnows(q, st, y.cfg, y.value, y.want, Len(y.got))
BY DEF HostFits

(* The other way round.                                                    *)
LEMMA HostHas ==
    ASSUME HostFits(host)
    PROVE  /\ host \in HostState /\ host.phase \in Phases /\ host.phase = <<Request, Stage>>
           /\ host.cfg \in 0..Len(CfgLen) /\ host.value \in 0..Len(CfgLen) /\ host.want \in Nat
           /\ host.got \in Seq(Byte) /\ Len(host.got) \in Nat /\ host.greeted \in BOOLEAN
           /\ HostKnows(Request, Stage, host.cfg, host.value, host.want, Len(host.got))
           /\ Stage = "in" => Request \in DataRequests
           /\ Stage \in {"setup", "status"} => Request \in Requests
<1>1. /\ host \in HostState /\ host.phase \in Phases /\ host.cfg \in 0..Len(CfgLen)
      /\ host.value \in 0..Len(CfgLen) /\ host.want \in Nat /\ host.got \in Seq(Byte)
      /\ host.greeted \in BOOLEAN
  BY DEF HostFits, HostState
<1>2. host.phase = <<Request, Stage>>
  BY <1>1 DEF Phases, Request, Stage
<1>3. /\ Stage = "in" => Request \in DataRequests
      /\ Stage \in {"setup", "status"} => Request \in Requests
  BY <1>1 DEF Phases, Request, Stage
<1>4. QED
  BY <1>1, <1>2, <1>3 DEF HostFits, Request, Stage

(* A host that changes its phase only, for one of the bus.                 *)
LEMMA BusPhaseFits ==
    ASSUME NEW h, HostFits(h), NEW s \in {"idle", "reset", "enumdone"}, NEW b \in BOOLEAN
    PROVE  HostFits([h EXCEPT !.phase = <<"bus", s>>, !.greeted = b])
<1> DEFINE y == [h EXCEPT !.phase = <<"bus", s>>, !.greeted = b]
<1>1. h \in HostState /\ <<"bus", s>> \in Phases /\ Len(h.got) <= MaxOf(1, h.want)
  BY DEF HostFits, HostKnows, Phases
<1>2. y \in HostState /\ y.phase = <<"bus", s>> /\ y.want = h.want /\ y.got = h.got
  BY <1>1, Zenon DEF HostState
<1> HIDE DEF y
<1>3. HostKnows("bus", s, y.cfg, y.value, y.want, Len(y.got))
  BY <1>1, <1>2 DEF HostKnows
<1>4. QED
  BY <1>2, <1>3, HostIs, Zenon DEF y

(* The host with its enumeration started again or stopped.                 *)
LEMMA HostRearmFits ==
    ASSUME HostFits(host), NEW attached
    PROVE  HostFits(HostRearm(attached)) /\ HostFits(Restart(host))
<1>1. host \in HostState /\ host.greeted \in BOOLEAN
  BY HostHas
<1>2. \A s \in {"idle", "reset", "enumdone"} :
          [host EXCEPT !.phase = <<"bus", s>>, !.greeted = host.greeted] = [host EXCEPT !.phase = <<"bus", s>>]
  BY <1>1, Zenon DEF HostState
<1>3. \A s \in {"idle", "reset", "enumdone"} : HostFits([host EXCEPT !.phase = <<"bus", s>>])
  BY <1>1, <1>2, BusPhaseFits, Zenon
<1>4. QED
  BY <1>3 DEF HostRearm, Restart

(* An accepted SETUP.                                                      *)
LEMMA AskedFits ==
    ASSUME HostFits(host), Stage = "setup"
    PROVE  LET y == Asked(host) IN
           /\ HostFits(y)
           /\ y.phase = <<Request, IF Request \in DataRequests THEN "in" ELSE "status">>
           /\ y.cfg = host.cfg /\ y.value = host.value
           /\ Request \in DataRequests => y.got = << >>
           /\ Request \in Requests
<1> DEFINE st == IF Request \in DataRequests THEN "in" ELSE "status"
           p == <<Request, st>>
           g == IF Request \in DataRequests THEN << >> ELSE host.got
           w == CASE Request \in StatusRequests \cup {"cfg"} -> host.want
                  [] Request \in {"str0", "ser"} -> StrAsk
                  [] OTHER -> 1
           y == [host EXCEPT !.phase = p, !.got = g, !.want = w]
<1>1. Asked(host) = y
  BY DEF Asked
<1>2. /\ host \in HostState /\ host.cfg \in Nat /\ host.want \in Nat /\ host.got \in Seq(Byte)
      /\ Len(host.got) \in Nat /\ Request \in Requests
      /\ HostKnows(Request, "setup", host.cfg, host.value, host.want, Len(host.got))
  BY HostHas
<1>3. p \in Phases
  BY <1>2 DEF Phases, Requests
<1>4. CASE Request \in StatusRequests
  <2>1. /\ Request \notin {"dev", "hdr", "cfg", "str0", "ser"} /\ st = "status" /\ g = host.got
        /\ w = host.want
    BY <1>4 DEF StatusRequests, DataRequests
  <2> HIDE DEF st, g, w
  <2>2. y \in HostState /\ y.phase = p /\ y.cfg = host.cfg /\ y.value = host.value
        /\ y.want = w /\ y.got = g
    BY <1>2, <1>3, <2>1, Zenon DEF HostState
  <2> HIDE DEF y
  <2>3. HostKnows(Request, "status", y.cfg, y.value, y.want, Len(y.got))
    BY <1>2, <2>1, <2>2 DEF HostKnows
  <2>4. HostFits(y)
    BY <2>1, <2>2, <2>3, HostIs, Zenon
  <2>5. Request \notin DataRequests
    BY <2>1 DEF DataRequests
  <2>6. QED
    BY <1>1, <1>2, <2>1, <2>2, <2>4, <2>5
<1>5. CASE Request \in DataRequests
  <2>1. st = "in" /\ g = << >> /\ g \in Seq(Byte) /\ Len(g) = 0
    BY <1>5
  <2>2. Request = "cfg" => CfgLen[host.cfg + 1] \in Nat \ {0} /\ host.want = CfgLen[host.cfg + 1]
    BY <1>2, HostConstants DEF HostKnows
  <2>3. /\ Request \in {"dev", "hdr"} => w = 1
        /\ Request \in {"str0", "ser"} => w = StrAsk
        /\ Request = "cfg" => w = host.want
    BY DEF StatusRequests
  <2>4. w \in Nat /\ w > 0
    BY <1>2, <1>5, <2>2, <2>3, HostConstants DEF DataRequests
  <2> HIDE DEF st, g, w
  <2>5. y \in HostState /\ y.phase = p /\ y.cfg = host.cfg /\ y.value = host.value
        /\ y.want = w /\ y.got = g
    BY <1>2, <1>3, <2>1, <2>4, Zenon DEF HostState
  <2> HIDE DEF y
  <2>6. HostKnows(Request, "in", host.cfg, host.value, w, 0)
    BY <1>2, <2>2, <2>3, <2>4 DEF HostKnows, MaxOf
  <2>7. HostFits(y)
    BY <2>1, <2>5, <2>6, HostIs
  <2>8. QED
    BY <1>1, <1>2, <1>5, <2>1, <2>5, <2>7
<1>6. QED
  BY <1>2, <1>4, <1>5, Zenon DEF Requests

(* The end of a data stage.                                                *)
LEMMA DataEndsFits ==
    ASSUME NEW h, HostFits(h), h.phase = host.phase, Stage = "in"
    PROVE  /\ HostFits(DataEnds(h)) /\ DataEnds(h).got = h.got
           /\ \/ DataEnds(h).phase = <<"bus", "reset">>
              \/ /\ DataEnds(h).phase = <<Request, "status">>
                 /\ Request # "hdr" => DataEnds(h).want = h.want
                 /\ Request # "dev" => DataEnds(h).cfg = h.cfg
<1>1. /\ h \in HostState /\ h.cfg \in Nat /\ h.want \in Nat /\ Len(h.got) \in Nat
      /\ h.value \in 0..Len(CfgLen)
      /\ HostKnows(Request, "in", h.cfg, h.value, h.want, Len(h.got))
  BY DEF HostFits, Request, Stage, HostState
<1>2. Request \in DataRequests /\ h.phase[2] = "in" /\ h.phase[1] = Request
  BY <1>1 DEF HostState, Phases, Request, Stage
<1>3. <<Request, "status">> \in Phases
  BY <1>2 DEF Phases, Requests
<1>4. CASE Request \in {"dev", "hdr"} /\ h.got = << >>
  <2>1. DataEnds(h) = Restart(h)
    BY <1>4 DEF DataEnds
  <2>2. h.greeted \in BOOLEAN /\ [h EXCEPT !.phase = <<"bus", "reset">>, !.greeted = h.greeted] = Restart(h)
    BY <1>1, Zenon DEF HostState, Restart
  <2>3. HostFits(Restart(h))
    BY <2>2, BusPhaseFits, Zenon
  <2>4. Restart(h).phase = <<"bus", "reset">> /\ Restart(h).got = h.got
    BY <1>1 DEF Restart, HostState
  <2>5. QED
    BY <2>1, <2>3, <2>4
<1>5. CASE Request = "dev" /\ h.got # << >>
  <2> DEFINE p == <<"dev", "status">>
             y == [h EXCEPT !.cfg = 0, !.value = 0, !.phase = p]
  <2>1. DataEnds(h) = y
    BY <1>5 DEF DataEnds
  <2>2. 0 \in 0..Len(CfgLen) /\ p \in Phases
    BY <1>3, <1>5, HostConstants
  <2> HIDE DEF p
  <2>3. y \in HostState /\ y.phase = p /\ y.cfg = 0 /\ y.value = 0 /\ y.want = h.want /\ y.got = h.got
    BY <1>1, <2>2, Zenon DEF HostState
  <2> HIDE DEF y
  <2>4. HostKnows("dev", "status", 0, 0, y.want, Len(y.got))
    BY <1>1, <2>3, SMTT(20) DEF HostKnows
  <2>5. HostFits(y)
    BY <2>3, <2>4, HostIs DEF p
  <2>6. QED
    BY <1>5, <2>1, <2>3, <2>5 DEF p
<1>6. CASE Request = "hdr" /\ h.got # << >>
  <2> DEFINE p == <<"hdr", "status">>
             y == [h EXCEPT !.want = CfgLen[h.cfg + 1], !.phase = p]
  <2>1. DataEnds(h) = y
    BY <1>6 DEF DataEnds
  <2>2. CfgLen[h.cfg + 1] \in Nat \ {0}
    BY <1>1, <1>6, HostConstants DEF HostKnows
  <2>3. p \in Phases
    BY <1>3, <1>6
  <2> HIDE DEF p
  <2>4. /\ y \in HostState /\ y.phase = p /\ y.cfg = h.cfg /\ y.value = h.value
        /\ y.want = CfgLen[h.cfg + 1] /\ y.got = h.got
    BY <1>1, <2>2, <2>3, Zenon DEF HostState
  <2> HIDE DEF y
  <2>5. HostKnows("hdr", "status", h.cfg, h.value, CfgLen[h.cfg + 1], Len(h.got))
    BY <1>1, <1>6, <2>2, SMTT(20) DEF HostKnows, MaxOf
  <2>6. HostFits(y)
    BY <2>4, <2>5, HostIs DEF p
  <2>7. QED
    BY <1>6, <2>1, <2>4, <2>6 DEF p
<1>7. CASE Request = "cfg"
  <2> DEFINE p == <<"cfg", "status">>
             v == IF h.value = 0 \/ HasMux(h) THEN h.cfg + 1 ELSE h.value
             y == [h EXCEPT !.value = v, !.phase = p]
  <2>1. DataEnds(h) = y
    BY <1>7 DEF DataEnds
  <2>2. h.cfg < Len(CfgLen)
    BY <1>1, <1>7, SMTT(20) DEF HostKnows
  <2>3. v \in 0..Len(CfgLen) /\ (h.cfg + 1 = MuxCfg => v = MuxCfg)
    BY <1>1, <2>2, HostConstants DEF HasMux
  <2>4. p \in Phases
    BY <1>3, <1>7
  <2> HIDE DEF p, v
  <2>5. /\ y \in HostState /\ y.phase = p /\ y.cfg = h.cfg /\ y.value = v
        /\ y.want = h.want /\ y.got = h.got
    BY <1>1, <2>3, <2>4, Zenon DEF HostState
  <2> HIDE DEF y
  <2>6. HostKnows("cfg", "status", h.cfg, v, h.want, Len(h.got))
    BY <1>1, <1>7, <2>3, SMTT(20) DEF HostKnows
  <2>7. HostFits(y)
    BY <2>5, <2>6, HostIs DEF p
  <2>8. QED
    BY <1>7, <2>1, <2>5, <2>7 DEF p
<1>8. CASE Request \in {"str0", "ser"}
  <2> DEFINE y == [h EXCEPT !.phase = <<Request, "status">>]
  <2>1. DataEnds(h) = y
    BY <1>8 DEF DataEnds
  <2>2. /\ y \in HostState /\ y.phase = <<Request, "status">> /\ y.cfg = h.cfg /\ y.value = h.value
        /\ y.want = h.want /\ y.got = h.got
    BY <1>1, <1>3, SMTT(20) DEF HostState
  <2> HIDE DEF y
  <2>3. HostKnows(Request, "status", h.cfg, h.value, h.want, Len(h.got))
    BY <1>1, <1>8 DEF HostKnows
  <2>4. HostFits(y)
    BY <2>2, <2>3, HostIs
  <2>5. QED
    BY <2>1, <2>2, <2>4
<1>9. QED
  BY <1>2, <1>4, <1>5, <1>6, <1>7, <1>8, Zenon DEF DataRequests

(* An IN of a data stage: what the host holds after it.                    *)
LEMMA HostInIs ==
    ASSUME DeviceInv, HostFits(host), HostIn
    PROVE  LET ep == inEp[0]
               want == host.want - Len(host.got)
               amt == InAmount(ep, want)
               h == [host EXCEPT !.got = host.got \o Bytes(ep.dma.buf, ep.dma.off, ep.dma.off + amt)]
           IN /\ InPath(0, want) /\ want \in Nat /\ amt \in Nat /\ HostFits(h)
              /\ h.phase = host.phase /\ h.cfg = host.cfg /\ h.want = host.want
              /\ h.got = host.got \o Bytes(ep.dma.buf, ep.dma.off, ep.dma.off + amt)
              /\ Len(h.got) = Len(host.got) + amt
              /\ \/ ep.stall /\ host' = IF Request \in {"str0", "ser"} THEN DataEnds(host) ELSE Restart(host)
                 \/ /\ ~ep.stall /\ ~ep.nak /\ ep.ena
                    /\ host' = IF amt = MPS /\ Len(h.got) < h.want THEN h ELSE DataEnds(h)
<1> DEFINE ep == inEp[0]
           want == host.want - Len(host.got)
           amt == InAmount(ep, want)
           new == Bytes(ep.dma.buf, ep.dma.off, ep.dma.off + amt)
           got == host.got \o new
           h == [host EXCEPT !.got = got]
<1>1. /\ host \in HostState /\ Stage = "in" /\ host.want \in Nat /\ host.got \in Seq(Byte)
      /\ Len(host.got) \in Nat /\ host.phase = <<Request, "in">>
      /\ HostKnows(Request, "in", host.cfg, host.value, host.want, Len(host.got))
  BY HostHas DEF HostIn
<1>2. ep \in Endpoint /\ ep.dma.buf \in Nat /\ ep.dma.off \in Nat
  BY SMTT(20) DEF DeviceInv, EpInv, InAll, Eps, Endpoint
<1>3. want \in Nat
  BY <1>1 DEF HostKnows
<1>4. amt \in Nat /\ amt <= want
  <2> HIDE DEF want, ep
  <2>1. ep.xfer \in Nat
    BY <1>2 DEF Endpoint
  <2>2. amt \in 0..ep.xfer /\ amt <= want
    BY <1>2, <1>3, InAmountIs, Zenon
  <2>3. QED
    BY <2>1, <2>2, SMT
<1>5. new \in Seq(Byte) /\ Len(new) = amt
  <2> HIDE DEF amt, ep
  <2>1. QED
    BY <1>2, <1>4, BytesAre
<1>6. got \in Seq(Byte) /\ Len(got) = Len(host.got) + amt
  <2> HIDE DEF amt, new
  <2>1. QED
    BY <1>1, <1>5, Joined, Zenon
<1>7. new = [i \in 1..amt |-> [buf |-> ep.dma.buf, off |-> ep.dma.off + i - 1]]
  <2> HIDE DEF amt, ep
  <2>1. (ep.dma.off + amt) - ep.dma.off = amt
    BY <1>2, <1>4
  <2>2. QED
    BY <2>1, Zenon DEF Bytes
<1>8. /\ InPath(0, want)
      /\ \/ ep.stall /\ host' = IF Request \in {"str0", "ser"} THEN DataEnds(host) ELSE Restart(host)
         \/ /\ ~ep.stall /\ ~ep.nak /\ ep.ena
            /\ host' = IF amt = MPS /\ Len(h.got) < h.want THEN h ELSE DataEnds(h)
  BY <1>7, Zenon DEF HostIn
<1> HIDE DEF got
<1>9. /\ h \in HostState /\ h.phase = host.phase /\ h.cfg = host.cfg /\ h.value = host.value
      /\ h.want = host.want /\ h.got = got
  BY <1>1, <1>6, SMTT(20) DEF HostState
<1> HIDE DEF h, amt, want
<1>10. HostKnows(Request, "in", h.cfg, h.value, h.want, Len(h.got))
  BY <1>1, <1>3, <1>4, <1>6, <1>9 DEF HostKnows, MaxOf, want
<1>11. HostFits(h)
  BY <1>1, <1>9, <1>10, HostIs, Zenon
<1>12. QED
  BY <1>3, <1>4, <1>6, <1>8, <1>9, <1>11, Zenon DEF h, amt, want, got

(* A status stage.                                                         *)
LEMMA HostStatusFits ==
    ASSUME HostFits(host), HostStatus
    PROVE  HostFits(host') /\ host'.phase[2] \in {"reset", "setup", "poll"}
<1>1. /\ host \in HostState /\ Request \in Requests /\ host.cfg \in 0..Len(CfgLen) /\ host.want \in Nat
      /\ Len(host.got) \in Nat
      /\ HostKnows(Request, "status", host.cfg, host.value, host.want, Len(host.got))
  BY HostHas, Zenon DEF HostStatus
<1>2. CASE host' = Restart(host)
  <2>1. Restart(host).phase = <<"bus", "reset">>
    BY <1>1 DEF Restart, HostState
  <2>2. QED
    BY <1>2, <2>1, HostRearmFits
<1>3. ASSUME NEW p \in AfterStatus(host),
             host' = [host EXCEPT !.phase = p, !.cfg = IF Request = "cfg" THEN host.cfg + 1 ELSE host.cfg]
      PROVE  HostFits(host') /\ host'.phase[2] \in {"reset", "setup", "poll"}
  <2> DEFINE c == IF Request = "cfg" THEN host.cfg + 1 ELSE host.cfg
             y == [host EXCEPT !.phase = p, !.cfg = c]
  <2>1. p \in Phases /\ p[2] \in {"setup", "poll"} /\ p = <<p[1], p[2]>>
    BY <1>1, <1>3 DEF AfterStatus, Phases, Requests, DataRequests, StatusRequests
  <2>2. c \in 0..Len(CfgLen)
    BY <1>1 DEF HostKnows
  <2>3. /\ Request = "cfg" => c = host.cfg + 1
        /\ Request # "cfg" => c = host.cfg
        /\ host' = y
    BY <1>3
  <2> HIDE DEF c
  <2>4. /\ y \in HostState /\ y.phase = p /\ y.cfg = c /\ y.value = host.value
        /\ y.want = host.want /\ y.got = host.got
    BY <1>1, <2>1, <2>2, Zenon DEF HostState
  <2> HIDE DEF y
  <2>5. SUFFICES HostKnows(p[1], p[2], c, host.value, host.want, Len(host.got))
    BY <2>1, <2>3, <2>4, HostIs
  <2>6. Len(host.got) <= MaxOf(1, host.want)
    BY <1>1 DEF HostKnows
  <2>7. CASE Request = "dev"
    <3>1. p[1] = "addr" /\ c = 0
      BY <1>1, <2>3, <2>7, <1>3 DEF AfterStatus, HostKnows
    <3>2. QED
      BY <2>1, <2>6, <3>1 DEF HostKnows
  <2>8. CASE Request = "addr"
    <3>1. p[1] = "hdr" /\ c = 0
      BY <1>1, <2>3, <2>8, <1>3 DEF AfterStatus, HostKnows
    <3>2. Len(CfgLen) > 0 /\ (MuxCfg # 0 => 0 < MuxCfg)
      BY HostConstants
    <3>3. QED
      BY <2>1, <2>6, <3>1, <3>2 DEF HostKnows
  <2>9. CASE Request = "hdr"
    <3>1. p[1] = "cfg" /\ c = host.cfg
      BY <2>3, <2>9, <1>3 DEF AfterStatus
    <3>2. QED
      BY <1>1, <2>1, <2>6, <2>9, <3>1 DEF HostKnows
  <2>10. CASE Request = "cfg"
    <3>1. /\ host.cfg < Len(CfgLen) /\ (MuxCfg # 0 => host.cfg < MuxCfg)
          /\ host.cfg + 1 = MuxCfg => host.value = MuxCfg
      BY <1>1, <2>10 DEF HostKnows
    <3>2. CASE host.cfg + 1 < Len(CfgLen) /\ host.cfg + 1 # MuxCfg
      <4>1. p[1] = "hdr"
        BY <1>3, <2>10, <3>2 DEF AfterStatus, HasMux
      <4>2. c < Len(CfgLen) /\ (MuxCfg # 0 => c < MuxCfg)
        BY <1>1, <2>3, <2>10, <3>1, <3>2, HostConstants
      <4>3. QED
        BY <2>1, <2>6, <4>1, <4>2 DEF HostKnows
    <3>3. CASE ~(host.cfg + 1 < Len(CfgLen) /\ host.cfg + 1 # MuxCfg)
      <4>1. p[1] = "setcfg"
        BY <1>3, <2>10, <3>3 DEF AfterStatus, HasMux
      <4>2. MuxCfg # 0 => host.value = MuxCfg
        BY <1>1, <3>1, <3>3, HostConstants
      <4>3. QED
        BY <2>1, <2>6, <4>1, <4>2 DEF HostKnows
    <3>4. QED
      BY <3>2, <3>3
  <2>11. CASE Request \in {"setcfg", "charge", "str0", "ser"}
    <3>1. p[1] \in {"charge", "str0", "ser", "mux"}
      BY <1>3, <2>11 DEF AfterStatus
    <3>2. QED
      BY <2>1, <2>6, <3>1 DEF HostKnows
  <2>12. QED
    BY <1>1, <2>7, <2>8, <2>9, <2>10, <2>11 DEF Requests, DataRequests, StatusRequests
<1>4. QED
  BY <1>2, <1>3, Zenon DEF HostStatus

(* The host through every step: one that is none of its ticks leaves it as *)
(* it is or starts it again.                                               *)
LEMMA HostStepFits ==
    ASSUME CoreInv, [HostNext]_allVars
    PROVE  HostFits(host')
<1>1. HostFits(host) /\ DeviceInv /\ host \in HostState /\ host.greeted \in BOOLEAN
  BY HostHas DEF CoreInv
<1> USE <1>1
<1>2. CASE CoreStep
  <2>1. CASE Driver
    BY <2>1, Zenon DEF Driver, DrvArmOut0, DrvTakeOut0, DrvReply, DrvArmIn1, DrvArmOut1, DrvStopIn1,
          DrvStopOut1, DrvClearInts, DrvClearGint, DrvMask, DrvGlobalNak, wires
  <2>2. CASE Host
    BY <2>2 DEF Host, BusReset, EnumDone, Setup, InTx, OutTx, wires
  <2>3. CASE RetryTick \/ BridgeToggle \/ SetPhyReset \/ SaveSnapshot \/ LoadSnapshot
    BY <2>3, Zenon DEF RetryTick, BridgeToggle, SetPhyReset, SaveSnapshot, LoadSnapshot, wires
  <2>4. CASE SetCable(TRUE) \/ SetCable(FALSE) \/ SoftReset
    BY <2>4, HostRearmFits, Zenon DEF SetCable, SoftReset
  <2>5. QED
    BY <1>2, <2>1, <2>2, <2>3, <2>4, Zenon DEF CoreStep, Next
<1>3. CASE MachineReset \/ GuestStep \/ UNCHANGED allVars
  BY <1>3 DEF MachineReset, DeviceReset, GuestStep, GuestReply, GuestContinues, GuestSeesReset,
        wires, allVars, vars
<1>4. CASE HostLate
  BY <1>4, HostRearmFits DEF HostLate
<1>5. CASE HostBusReset
  BY <1>5, BusPhaseFits, Zenon DEF HostBusReset
<1>6. CASE HostEnumDone
  <2> DEFINE p == <<"dev", "setup">>
             y == [host EXCEPT !.phase = p]
  <2>1. p \in Phases /\ host' = y
    BY <1>6 DEF Phases, Requests, DataRequests, HostEnumDone
  <2> HIDE DEF p
  <2>2. /\ y \in HostState /\ y.phase = p /\ y.cfg = host.cfg /\ y.value = host.value
        /\ y.want = host.want /\ y.got = host.got
    BY <2>1 DEF HostState
  <2> HIDE DEF y
  <2>3. HostKnows("dev", "setup", y.cfg, y.value, y.want, Len(y.got))
    BY <2>2, HostHas, Zenon DEF HostKnows
  <2>4. QED
    BY <2>1, <2>2, <2>3, HostIs, Zenon DEF p
<1>7. CASE HostSetup
  BY <1>7, AskedFits, SMTT(20) DEF HostSetup
<1>8. CASE HostIn
  <2> DEFINE h == [host EXCEPT !.got = host.got \o
                     Bytes(inEp[0].dma.buf, inEp[0].dma.off,
                           inEp[0].dma.off + InAmount(inEp[0], host.want - Len(host.got)))]
  <2>1. /\ HostFits(h) /\ h.phase = host.phase
        /\ host' \in {DataEnds(host), Restart(host), h, DataEnds(h)}
    BY <1>8, HostInIs, Zenon
  <2> HIDE DEF h
  <2>2. Stage = "in"
    BY <1>8 DEF HostIn
  <2>3. QED
    BY <2>1, <2>2, DataEndsFits, HostRearmFits
<1>9. CASE HostStatus
  BY <1>9, HostStatusFits
<1>10. CASE HostPoll
  <2> DEFINE b == host.greeted \/ (outEp[1].ena /\ ~outEp[1].stall)
             y == [host EXCEPT !.greeted = b]
  <2>1. b \in BOOLEAN /\ host' = y
    BY <1>10 DEF HostPoll
  <2> HIDE DEF b
  <2>2. /\ y \in HostState /\ y.phase = host.phase /\ y.cfg = host.cfg /\ y.value = host.value
        /\ y.want = host.want /\ y.got = host.got
    BY <2>1 DEF HostState
  <2> HIDE DEF y
  <2>3. QED
    BY <2>1, <2>2 DEF HostFits
<1>11. QED
  BY <1>2, <1>3, <1>4, <1>5, <1>6, <1>7, <1>8, <1>9, <1>10, SMTT(20) DEF HostNext, HostTick

(* The guest once it has armed the next packet of its reply.               *)
LEMMA GuestArmsFits ==
    ASSUME NEW g, GuestFits(g), NEW ack, GuestArms(g, ack)
    PROVE  LET n == MinOf(g.left, MPS) IN
           /\ GuestFits(guest')
           /\ guest'.req = g.req /\ guest'.config = g.config
           /\ guest'.left = g.left - n /\ guest'.off = g.off + n
<1> DEFINE n == MinOf(g.left, MPS)
           z == g.zlp /\ g.left > 0
           y == [g EXCEPT !.left = g.left - n, !.off = g.off + n, !.zlp = z]
<1>1. g \in GuestState /\ g.left \in Nat /\ g.off \in Nat
  BY DEF GuestFits, GuestState
<1>2. n \in Nat /\ g.left - n \in Nat /\ g.off + n \in Nat
  BY <1>1, UsbConstants DEF MinOf
<1>3. z \in BOOLEAN /\ guest' = y
  BY <1>1 DEF GuestArms
<1> HIDE DEF n, z
<1>4. /\ y \in GuestState /\ y.req = g.req /\ y.config = g.config
      /\ y.left = g.left - n /\ y.off = g.off + n
  BY <1>1, <1>2, <1>3, Zenon DEF GuestState
<1> HIDE DEF y
<1>5. GuestFits(y)
  BY <1>4 DEF GuestFits
<1>6. QED
  BY <1>3, <1>4, <1>5 DEF n

(* What the guest makes of a request.                                      *)
LEMMA RepliesFits ==
    ASSUME GuestFits(guest)
    PROVE  LET n == ReplyLen(guest.req)
               g == [guest EXCEPT !.left = n, !.off = 0, !.zlp = n < guest.req.len /\ n % MPS = 0,
                       !.config = IF guest.req.kind = "setcfg" THEN guest.req.cfg ELSE guest.config]
           IN GuestFits(g) /\ g.left = n /\ g.off = 0 /\ g.req = guest.req
<1> DEFINE n == ReplyLen(guest.req)
           z == n < guest.req.len /\ n % MPS = 0
           c == IF guest.req.kind = "setcfg" THEN guest.req.cfg ELSE guest.config
           g == [guest EXCEPT !.left = n, !.off = 0, !.zlp = z, !.config = c]
<1>1. n \in Nat /\ z \in BOOLEAN /\ guest \in GuestState
  BY ReplyLenIs DEF GuestFits
<1>2. c \in 0..Len(CfgLen) /\ (MuxCfg # 0 => c \in {0, MuxCfg})
  BY <1>1 DEF GuestFits, GuestState
<1> HIDE DEF n, z, c
<1>3. g \in GuestState /\ g.left = n /\ g.off = 0 /\ g.req = guest.req /\ g.config = c
  BY <1>1, <1>2, Zenon DEF GuestState
<1> HIDE DEF g
<1>4. GuestFits(g)
  BY <1>2, <1>3 DEF GuestFits
<1>5. QED
  BY <1>3, <1>4 DEF g, n, z, c

(* The guest through every step.                                           *)
LEMMA GuestStepFits ==
    ASSUME CoreInv, [HostNext]_allVars
    PROVE  GuestFits(guest')
<1>0. guest \in GuestState /\ HostFits(host) /\ host \in HostState /\ GuestFits(guest)
  BY DEF CoreInv, GuestFits, HostFits
<1>1. ASSUME guest' = guest PROVE GuestFits(guest')
  BY <1>0, <1>1
<1>2. CASE CoreStep \/ HostLate \/ HostBusReset \/ HostEnumDone \/ HostIn \/ HostStatus \/ HostPoll
           \/ UNCHANGED allVars
  BY <1>1, <1>2, Zenon DEF CoreStep, HostLate, HostBusReset, HostEnumDone, HostIn, HostStatus, HostPoll, allVars
<1>3. CASE MachineReset
  <2>1. guest' = NoGuest
    BY <1>3 DEF MachineReset
  <2>2. 0 \in 0..Len(CfgLen) /\ 0 \in 0..(Len(CfgLen) + 1)
    BY HostConstants
  <2>3. QED
    BY <2>1, <2>2 DEF GuestFits, GuestState, NoGuest, NoRequest
<1>4. CASE GuestReply
  <2>1. CASE guest' = [guest EXCEPT !.left = 0, !.zlp = FALSE]
    <3> DEFINE y == [guest EXCEPT !.left = 0, !.zlp = FALSE]
    <3>1. y \in GuestState /\ y.req = guest.req /\ y.config = guest.config
      BY <1>0, Zenon DEF GuestState
    <3> HIDE DEF y
    <3>2. GuestFits(y)
      BY <1>0, <3>1 DEF GuestFits
    <3>3. QED
      BY <2>1, <3>2 DEF y
  <2> DEFINE n == ReplyLen(guest.req)
             g == [guest EXCEPT !.left = n, !.off = 0, !.zlp = n < guest.req.len /\ n % MPS = 0,
                     !.config = IF guest.req.kind = "setcfg" THEN guest.req.cfg ELSE guest.config]
  <2>2. CASE GuestArms(g, {"compl"})
    <3>1. GuestFits(g)
      BY <1>0, RepliesFits
    <3> HIDE DEF g
    <3>2. QED
      BY <2>2, <3>1, GuestArmsFits
  <2>3. QED
    BY <1>4, <2>1, <2>2 DEF GuestReply
<1>5. CASE GuestContinues
  <2>1. CASE GuestArms(guest, {"compl"})
    BY <1>0, <2>1, GuestArmsFits
  <2>2. QED
    BY <1>1, <1>5, <2>1 DEF GuestContinues
<1>6. CASE GuestSeesReset
  <2> DEFINE y == [guest EXCEPT !.left = 0, !.zlp = FALSE, !.config = 0]
  <2>1. 0 \in 0..Len(CfgLen)
    BY HostConstants
  <2>2. y \in GuestState /\ y.req = guest.req /\ y.config = 0
    BY <1>0, <2>1, Zenon DEF GuestState
  <2> HIDE DEF y
  <2>3. GuestFits(y)
    BY <1>0, <2>2, Zenon DEF GuestFits
  <2>4. QED
    BY <1>6, <2>3 DEF GuestSeesReset, y
<1>7. CASE HostSetup
  <2> DEFINE c == IF Request = "setcfg" THEN host.value ELSE host.cfg + 1
             w == IF Request \in DataRequests THEN host'.want ELSE 0
             q == [kind |-> Request, cfg |-> c, len |-> w]
             y == [guest EXCEPT !.req = q]
  <2>1. HostFits(host') /\ Request \in Requests
    BY <1>0, <1>7, AskedFits DEF HostSetup
  <2>2. w \in Nat
    BY <2>1 DEF HostFits, HostState
  <2>3. /\ c \in 0..(Len(CfgLen) + 1)
        /\ Request = "cfg" => c \in 1..Len(CfgLen)
        /\ Request = "setcfg" => c \in 0..Len(CfgLen) /\ (MuxCfg # 0 => c = MuxCfg)
    <3>1. host.value \in 0..Len(CfgLen) /\ host.cfg \in 0..Len(CfgLen) /\ Len(CfgLen) \in Nat
      BY <1>0, HostConstants, SMTT(20) DEF HostState
    <3>2. /\ Request = "cfg" => host.cfg < Len(CfgLen)
          /\ Request = "setcfg" /\ MuxCfg # 0 => host.value = MuxCfg
      BY <1>0, HostHas DEF HostKnows
    <3>3. QED
      BY <3>1, <3>2
  <2>4. guest' = y
    BY <1>7 DEF HostSetup
  <2> HIDE DEF c, w
  <2>5. q \in [kind: Requests \cup {"none"}, cfg: 0..(Len(CfgLen) + 1), len: Nat]
    BY <2>1, <2>2, <2>3
  <2>6. q.kind = Request /\ q.cfg = c
    OBVIOUS
  <2> HIDE DEF q
  <2>7. y \in GuestState /\ y.req = q /\ y.config = guest.config
    BY <1>0, <2>5 DEF GuestState
  <2> HIDE DEF y
  <2>8. QED
    BY <1>0, <2>3, <2>4, <2>6, <2>7, Zenon DEF GuestFits
<1>8. QED
  BY <1>2, <1>3, <1>4, <1>5, <1>6, <1>7, SMTT(20) DEF HostNext, HostTick, GuestStep

-----------------------------------------------------------------------------
(* The device's invariant through every step *)
LEMMA DeviceStep ==
    ASSUME CoreInv, [HostNext]_allVars
    PROVE  DeviceInv'
<1>0. DeviceInv /\ HostFits(host) /\ GuestFits(guest) /\ 0 \in Eps /\ 1 \in Eps
  BY DEF CoreInv, Eps
<1>1. ASSUME Driver PROVE DeviceInv'
  <2>1. CASE DrvClearGint \/ DrvMask \/ DrvGlobalNak
    <3>1. UNCHANGED <<inEp, outEp, xin, xout, setups, reply, snap>>
      BY <2>1, Zenon DEF DrvClearGint, DrvMask, DrvGlobalNak, ghosts
    <3>2. \E g : UpdateIrq(g)
      BY <2>1 DEF DrvClearGint, DrvMask, DrvGlobalNak
    <3>3. QED
      BY <1>0, <3>1, <3>2, RegistersOnly
  <2>2. QED
    BY <1>0, <1>1, <2>1, DrvArmOut0Keeps, DrvTakeOut0Keeps, DrvReplyKeeps, DrvArmIn1Keeps,
       DrvArmOut1Keeps, DrvStopIn1Keeps, DrvStopOut1Keeps, DrvClearIntsKeeps DEF Driver
<1>2. ASSUME Host PROVE DeviceInv'
  <2>1. CASE BusReset
    BY <1>0, <2>1, RegistersOnly DEF BusReset, ghosts
  <2>2. CASE EnumDone
    BY <1>0, <2>2, OutPathKeeps DEF EnumDone
  <2>3. CASE Setup
    BY <1>0, <2>3, TakeSetupKeeps DEF Setup
  <2>4. ASSUME NEW e \in Eps, NEW n \in Nat, InTx(e, n) PROVE DeviceInv'
    BY <1>0, <2>4, InPathKeeps DEF InTx
  <2>5. ASSUME NEW e \in Eps, NEW n \in Nat, OutTx(e, n) PROVE DeviceInv'
    BY <1>0, <2>5, OutPathKeeps DEF OutTx
  <2>6. Limit(MAX_IN) + 1 \in Nat /\ Limit(OUT_PKTS) * MPS + 1 \in Nat
    BY LimitIs, UsbConstants, SMTT(20)
  <2>7. QED
    <3>1. ASSUME NEW e \in Eps, NEW n \in 0..(Limit(MAX_IN) + 1), InTx(e, n) PROVE DeviceInv'
      BY <2>4, <2>6, <3>1
    <3>2. ASSUME NEW n \in 0..(Limit(OUT_PKTS) * MPS + 1), OutTx(1, n) PROVE DeviceInv'
      BY <1>0, <2>5, <2>6, <3>2
    <3>3. CASE OutTx(0, 0)
      BY <1>0, <2>5, <3>3
    <3>4. QED
      BY <1>2, <2>1, <2>2, <2>3, <3>1, <3>2, <3>3 DEF Host
<1>3. CASE CoreStep
  <2>1. CASE RetryTick \/ BridgeToggle \/ SetPhyReset \/ SetCable(TRUE) \/ SetCable(FALSE)
    BY <1>0, <2>1, Untouched, Zenon DEF RetryTick, BridgeToggle, SetPhyReset, SetCable, ghosts
  <2>2. CASE SoftReset
    BY <1>0, <2>2, RegistersOnly DEF SoftReset
  <2>3. QED
    BY <1>0, <1>1, <1>2, <1>3, <2>1, <2>2, SaveSnapshotKeeps, LoadSnapshotKeeps, Zenon DEF CoreStep, Next
<1>4. CASE MachineReset
  BY <1>0, <1>4, DeviceResetKeeps DEF MachineReset
<1>5. CASE GuestStep
  <2>1. CASE GuestSeesReset
    BY <1>0, <2>1, RegistersOnly DEF GuestSeesReset, ghosts
  <2>2. QED
    BY <1>0, <1>5, <2>1, GuestReplyKeeps, GuestContinuesKeeps DEF GuestStep
<1>6. CASE HostBusReset
  <2>1. UNCHANGED <<inEp, outEp, xin, xout, setups, reply, snap>> /\ \E g : UpdateIrq(g)
    BY <1>6 DEF HostBusReset, ghosts
  <2>2. QED
    BY <1>0, <2>1, RegistersOnly
<1>7. CASE HostEnumDone
  <2>1. CASE UNCHANGED <<core, xout>>
    BY <1>0, <1>7, <2>1, Untouched DEF HostEnumDone
  <2>2. CASE OutPath(0, 0, gintsts \cup {"enumdone"})
    BY <1>0, <1>7, <2>2, OutPathKeeps DEF HostEnumDone
  <2>3. QED
    BY <1>7, <2>1, <2>2 DEF HostEnumDone
<1>8. CASE HostSetup
  BY <1>0, <1>8, TakeSetupKeeps DEF HostSetup
<1>9. CASE HostIn
  <2>1. host.want - Len(host.got) \in Nat /\ InPath(0, host.want - Len(host.got))
    BY <1>0, <1>9, HostInIs, Zenon
  <2>2. QED
    BY <1>0, <2>1, InPathKeeps
<1>10. CASE HostStatus
  <2>1. CASE InPath(0, 0)
    BY <1>0, <2>1, InPathKeeps
  <2>2. CASE OutPath(0, 0, gintsts) /\ UNCHANGED <<drv, xin, setups, reply, snap, acting>>
    BY <1>0, <2>2, OutPathKeeps
  <2>3. QED
    BY <1>10, <2>1, <2>2, Zenon DEF HostStatus
<1>11. CASE HostPoll
  BY <1>0, <1>11, HostPollKeeps
<1>12. CASE HostLate \/ UNCHANGED allVars
  BY <1>0, <1>12, Untouched DEF HostLate, allVars, vars, ghosts
<1>13. QED
  BY <1>3, <1>4, <1>5, <1>6, <1>7, <1>8, <1>9, <1>10, <1>11, <1>12 DEF HostNext, HostTick

-----------------------------------------------------------------------------
(* The theorems *)

(* The invariant holds when the machine is created.                        *)
LEMMA CoreInit ==
    ASSUME HostInit
    PROVE  CoreInv
<1>1. /\ inEp = [e \in Eps |-> ResetEp] /\ outEp = [e \in Eps |-> ResetEp]
      /\ xin = [e \in Eps |-> NoIn] /\ xout = [e \in Eps |-> NoOut]
      /\ reply = [to |-> 0, from |-> 0] /\ setups = 0 /\ snap = << >>
      /\ host = HostStarts /\ guest = NoGuest
  BY SMTT(20) DEF HostInit, Init
<1>2. InAll(inEp, xin) /\ OutAll(outEp, xout) /\ ~inEp[0].ena
  BY <1>1, ResetFits DEF Eps
<1>3. EpInv /\ SnapInv
  BY <1>1, <1>2, Zenon DEF EpInv, SnapInv, ReplyFits
<1>4. LineInv
  BY <1>1, Zenon DEF LineInv, HostInit, Init
<1>5. 0 \in 0..Len(CfgLen) /\ 0 \in 0..(Len(CfgLen) + 1) /\ << >> \in Seq(Byte)
  BY HostConstants, SMTT(20)
<1>6. HostFits(host)
  <2> DEFINE p == <<"bus", IF Builtin THEN "reset" ELSE "idle">>
  <2>1. p \in Phases
    BY SMTT(20) DEF Phases
  <2>2. host = [phase |-> p, cfg |-> 0, value |-> 0, want |-> 0, got |-> << >>, greeted |-> FALSE]
    BY <1>1, SMTT(20) DEF HostStarts
  <2> HIDE DEF p
  <2>3. host \in HostState /\ host.phase = p /\ Len(host.got) = 0 /\ host.want = 0
    BY <1>5, <2>1, <2>2 DEF HostState
  <2>4. \A st \in {"idle", "reset"} : HostKnows("bus", st, host.cfg, host.value, host.want, 0)
    BY <2>3, SMTT(20) DEF HostKnows, MaxOf
  <2>5. QED
    BY <2>3, <2>4, HostIs DEF p
<1>7. GuestFits(guest)
  BY <1>1, <1>5 DEF GuestFits, GuestState, NoGuest, NoRequest
<1>8. QED
  BY <1>3, <1>4, <1>6, <1>7 DEF CoreInv, DeviceInv

(* The USB core and its hosts keep the invariant.                          *)
THEOREM CoreCorrect == HostSpec => []CoreInv
<1>1. HostInit => CoreInv
  BY CoreInit
<1>2. CoreInv /\ [HostNext]_allVars => CoreInv'
  BY DeviceStep, HostStepFits, GuestStepFits DEF CoreInv
<1>3. QED
  BY <1>1, <1>2, PTL DEF HostSpec

(* A control IN never returns what was armed for an earlier SETUP: a reply *)
(* that would be sent is for the last one, EndControl having NAKed the one *)
(* before it, after a snapshot is loaded too.                              *)
THEOREM NoReplyIsStale == HostSpec => []NoStaleReply
<1>1. CoreInv => NoStaleReply
  BY DEF CoreInv, DeviceInv, EpInv, ReplyFits, NoStaleReply
<1>2. QED
  BY <1>1, CoreCorrect, PTL

(* The bytes handed to the host of an IN transfer are the armed buffer's,  *)
(* in order, for transfers of any length and requests of any size; it is   *)
(* complete when all has gone, and the packet count is 0 then.             *)
THEOREM InTransfersAreWhole == HostSpec => []InWhole
<1>1. CoreInv => InWhole
  <2> SUFFICES ASSUME CoreInv, NEW e \in Eps, xin[e].buf # 0
               PROVE  /\ xin[e].got = [i \in 1..(xin[e].size - inEp[e].xfer) |->
                                          [buf |-> xin[e].buf, off |-> xin[e].off + i - 1]]
                      /\ xin[e].state = "complete" => Len(xin[e].got) = xin[e].size
                      /\ xin[e].state = "complete" /\ xin[e].size > 0 => inEp[e].pkts = 0
    BY Zenon DEF InWhole
  <2> DEFINE x == xin[e]
             ep == inEp[e]
             n == x.size - ep.xfer
  <2>1. InFits(ep, x) /\ x.buf # 0
    BY DEF CoreInv, DeviceInv, EpInv, InAll
  <2> HIDE DEF x, ep
  <2>2. /\ x.buf \in Nat /\ x.off \in Nat /\ x.size \in Nat /\ ep.xfer \in Nat
        /\ ep.xfer <= x.size /\ ep.dma.off = x.off + n
    BY <2>1, Zenon DEF InFits, InDrains, InXfer, Endpoint
  <2>3. /\ x.got = Bytes(x.buf, x.off, ep.dma.off)
        /\ x.state = "complete" => ep.xfer = 0 /\ (x.size > 0 => ep.pkts = 0)
    BY <2>1, Zenon DEF InFits, InDrains
  <2>4. /\ n \in Nat /\ ep.dma.off - x.off = n /\ ep.dma.off \in Nat /\ x.off <= ep.dma.off
        /\ ep.xfer = 0 => n = x.size
    BY <2>2
  <2>5. Bytes(x.buf, x.off, ep.dma.off) = [i \in 1..n |-> [buf |-> x.buf, off |-> x.off + i - 1]]
    BY <2>4, Zenon DEF Bytes
  <2>6. Len(Bytes(x.buf, x.off, ep.dma.off)) = n
    BY <2>2, <2>4, BytesAre, Zenon
  <2>7. x.state = "complete" => Len(x.got) = x.size /\ (x.size > 0 => ep.pkts = 0)
    BY <2>3, <2>4, <2>6, Zenon
  <2>8. QED
    BY <2>3, <2>5, <2>7, Zenon DEF x, ep
<1>2. QED
  BY <1>1, CoreCorrect, PTL

(* What is in the driver's buffer is what the host sent since it was       *)
(* armed, in order; XferSize says how much, and with PktCnt tells a short  *)
(* packet at the end from a full one.                                      *)
THEOREM OutTransfersAreWhole == HostSpec => []OutWhole
<1>1. CoreInv => OutWhole
  BY Zenon DEF CoreInv, DeviceInv, EpInv, OutAll, OutFits, OutFills, OutWhole, Eps
<1>2. QED
  BY <1>1, CoreCorrect, PTL

(* The line is up exactly when an enabled bit is pending, and a completion *)
(* or a SETUP that no mask hides has raised it.                            *)
THEOREM LineIsTrue == HostSpec => []LineTrue
<1>1. CoreInv => LineTrue
  <2> SUFFICES ASSUME CoreInv PROVE LineTrue
    OBVIOUS
  <2>1. LineInv
    BY DEF CoreInv, DeviceInv
  <2>2. "iep" \in GInts /\ "oep" \in GInts
    BY DEF GInts
  <2>3. QED
    BY <2>1, <2>2 DEF LineInv, LineTrue
<1>2. QED
  BY <1>1, CoreCorrect, PTL

(* No completion is left over from before a reset.                         *)
THEOREM NoInterruptIsOld == HostSpec => []NoOldInterrupt
<1>1. CoreInv => NoOldInterrupt
  BY Zenon DEF CoreInv, DeviceInv, EpInv, InAll, OutAll, InFits, OutFits, NoOldInterrupt
<1>2. QED
  BY <1>1, CoreCorrect, PTL

(* The built-in host puts the guest in no configuration but the one with   *)
(* the mux interface, when there is one, whatever timed out and was asked  *)
(* again (synopsys_host_tick, synopsys_host_cfg_has_mux): the last part of *)
(* HostReadsWhole.                                                         *)
THEOREM OnlyMuxIsSet == HostSpec => [](MuxCfg # 0 => guest.config \in {0, MuxCfg})
<1>1. CoreInv => (MuxCfg # 0 => guest.config \in {0, MuxCfg})
  BY DEF CoreInv, GuestFits
<1>2. QED
  BY <1>1, CoreCorrect, PTL
=============================================================================
