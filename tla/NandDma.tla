------------------------------ MODULE NandDma ------------------------------
(***************************************************************************)
(* The NAND data path of the S5L8930 boards: the flash interface of        *)
(* hw/arm/s5l8930_h2fmi.c, one bus of it with its data and its meta FIFO   *)
(* each way, the two CDMA channels of hw/arm/s5l8930_cdma.c that fill or   *)
(* empty them, and firmware that writes and reads pages through them.      *)
(*                                                                         *)
(* Everything happens inside the firmware's register writes, and calls     *)
(* back: a channel runs, its pushes complete a page, the page's completion *)
(* ends a chain (sink_done) and runs the other channel (kick).  The        *)
(* hardware is one record, and an access makes another one of it.          *)
(*                                                                         *)
(* The interface is the one of the boards with "explicit-start": every     *)
(* transfer starts with a control write of its own.                        *)
(*                                                                         *)
(* A unit stands for the bytes of one FIFO access; unit k of operation n   *)
(* is <<n, k>>.  A page has PAGE units of data and one of meta.            *)
(***************************************************************************)
EXTENDS Integers, Sequences, FiniteSets, SequencesExt

CONSTANTS
    PAGE,           \* data units of a page
    BUF,            \* sizeof(wdata), in units
    META_BUF,       \* sizeof(wmeta)
    QUEUE,          \* H2FMI_QUEUE, the pages the read FIFOs hold
    PENDING,        \* the transfers that may wait for room
    CES,            \* chips on the bus
    DataChains,     \* the descriptor chains for data: segment lengths
    MetaChains,     \* the same for meta
    Pages,          \* the most pages of an operation
    MaxOps,         \* operations
    Jobs            \* what the firmware and its surroundings do, chosen in Init

ASSUME NandDmaAssumption ==
    /\ PAGE \in Nat \ {0} /\ BUF >= PAGE /\ META_BUF \in Nat \ {0} /\ QUEUE \in Nat \ {0}
    /\ PENDING \in Nat /\ CES \in Nat \ {0} /\ Pages \in Nat \ {0} /\ MaxOps \in Nat
    /\ Jobs \subseteq SUBSET {"write", "read", "snapshot", "reset"}

VARIABLES
    hw,             \* the channels, the interface and the chips
    fw,             \* the firmware
    jobs            \* the Jobs of this behaviour

nandVars == <<hw, fw, jobs>>

Channels == {"data", "meta"}

(* CDMAChannel with its sink flags; seg is the descriptor desc points at.  *)
IdleChannel ==
    [running |-> FALSE, done |-> FALSE, to_device |-> FALSE, chain |-> << >>, op |-> 0,
     seg |-> 1, at |-> 0, in_seg |-> FALSE, remain |-> 0,
     sink_pending |-> FALSE, sink_early |-> FALSE, in_run |-> FALSE]

(* H2FMIBus: the write FIFOs, the read FIFOs, FMI_CONTROL, DONE of         *)
(* FMI_STATUS, the pages the chips latched, the transfers that wait; and   *)
(* what has come out: the pages the chips took, and the units the channels *)
(* put in memory.                                                          *)
InitHw ==
    [ch |-> [c \in Channels |-> IdleChannel],
     wfifo |-> [c \in Channels |-> << >>], rfifo |-> [c \in Channels |-> << >>],
     control |-> 0, st_done |-> FALSE, write_armed |-> FALSE, unread |-> {},
     latched |-> [c \in 0..(CES - 1) |-> << >>], pending |-> << >>,
     taken |-> << >>, memory |-> [c \in Channels |-> << >>]]

-----------------------------------------------------------------------------
(* The accesses, as they call each other.                                  *)
RECURSIVE cdma_run(_, _), Walk(_, _), Push(_, _, _), Pop(_, _, _)

(* s5l8930_cdma_sink_done for the FIFO of a channel.                       *)
sink_done(h, ch) ==
    LET c == h.ch[ch]
        early == [c EXCEPT !.sink_early = @ \/ c.in_run]
    IN [h EXCEPT !.ch[ch] =
           IF c.sink_pending /\ ~c.in_seg
           THEN [early EXCEPT !.sink_pending = FALSE, !.running = FALSE, !.done = TRUE]
           ELSE early]

(* s5l8930_cdma_kick; the code runs through the channels in order.         *)
KickOne(h, ch) == IF h.ch[ch].running /\ h.ch[ch].in_seg THEN cdma_run(h, ch) ELSE h

kick(h) == KickOne(KickOne(h, "data"), "meta")

(* h2fmi_write_check: a started write transfer completes when the FIFOs    *)
(* hold a page.                                                            *)
WriteReady(h) ==
    /\ h.control = 5 /\ h.write_armed /\ ~h.st_done
    /\ Len(h.wfifo["data"]) >= PAGE /\ Len(h.wfifo["meta"]) >= 1
SinkIfEmpty(h, ch) == IF h.wfifo[ch] = << >> THEN sink_done(h, ch) ELSE h
h2fmi_write_check(h) ==
    IF ~WriteReady(h) THEN h
    ELSE LET d == h.wfifo["data"]
             page == [data |-> SubSeq(d, 1, PAGE), meta |-> Head(h.wfifo["meta"])]
             g == [h EXCEPT !.wfifo["data"] = SubSeq(d, PAGE + 1, Len(d)), !.wfifo["meta"] = Tail(@),
                            !.taken = Append(@, page), !.write_armed = FALSE, !.st_done = TRUE]
         IN kick(SinkIfEmpty(SinkIfEmpty(g, "data"), "meta"))

(* h2fmi_room (the firmware reads a page's ECC results before ecc_q fills) *)
(* and h2fmi_transfer of what chip ce latched: the page goes into the      *)
(* FIFOs, or waits for room behind the ones that wait.                     *)
Room(h) == Len(h.rfifo["data"]) + PAGE <= QUEUE * PAGE /\ Len(h.rfifo["meta"]) + 1 <= QUEUE
h2fmi_transfer(h, ce, queued) ==
    LET g == [h EXCEPT !.unread = @ \ {ce}]
    IN IF ~queued /\ (h.pending # << >> \/ ~Room(h))
       THEN IF Len(h.pending) < PENDING THEN [g EXCEPT !.pending = Append(@, ce)] ELSE g
       ELSE LET p == h.latched[ce] IN
            kick([g EXCEPT !.rfifo["data"] = @ \o p.data, !.rfifo["meta"] = Append(@, p.meta),
                           !.st_done = TRUE])

(* h2fmi_drain.                                                            *)
RECURSIVE h2fmi_drain(_)
h2fmi_drain(h) ==
    IF h.pending = << >> \/ ~Room(h) THEN h
    ELSE h2fmi_drain(h2fmi_transfer([h EXCEPT !.pending = Tail(@)], Head(h.pending), TRUE))

(* h2fmi_fifo_avail.                                                       *)
Avail(h, ch) ==
    IF ~h.ch[ch].to_device THEN Len(h.rfifo[ch])
    ELSE (IF ch = "data" THEN BUF ELSE META_BUF) - Len(h.wfifo[ch])

(* cdma_fifo_xfer: n units of the chain of ch into its FIFO, or out of it; *)
(* every access is an access to FMI_DATA or FMI_META, and what the full    *)
(* FIFO has no room for is dropped.                                        *)
Push(h, ch, n) ==
    IF n = 0 THEN h
    ELSE LET c == h.ch[ch]
             g == [h EXCEPT !.ch[ch].at = @ + 1,
                            !.wfifo[ch] = IF Avail(h, ch) = 0 THEN @ ELSE Append(@, <<c.op, c.at + 1>>)]
         IN Push(h2fmi_write_check(g), ch, n - 1)
Pop(h, ch, n) ==
    IF n = 0 THEN h
    ELSE LET g == [h EXCEPT !.ch[ch].at = @ + 1, !.rfifo[ch] = Tail(@),
                            !.memory[ch] = Append(@, Head(h.rfifo[ch]))]
         IN Pop(h2fmi_drain(g), ch, n - 1)

(* Mutant: a chain is done when its last unit is in the FIFO.              *)
EndPushed(h, ch) == [h EXCEPT !.ch[ch].sink_early = FALSE, !.ch[ch].done = TRUE]

(* Mutant: a chain to the device always waits for the device.              *)
EndWaits(h, ch) ==
    IF h.ch[ch].to_device THEN [h EXCEPT !.ch[ch].sink_pending = TRUE, !.ch[ch].running = TRUE]
    ELSE [h EXCEPT !.ch[ch].done = TRUE]

(* The end of a chain: one to the device waits for the device, unless that *)
(* has drained the FIFO already.                                           *)
ChainEnd(h, ch) ==
    IF h.ch[ch].to_device /\ ~h.ch[ch].sink_early
    THEN [h EXCEPT !.ch[ch].sink_pending = TRUE, !.ch[ch].running = TRUE]
    ELSE [h EXCEPT !.ch[ch].sink_early = FALSE, !.ch[ch].done = TRUE]

(* cdma_run's loop: one descriptor, as far as the device allows, then the  *)
(* next.                                                                   *)
Walk(h, ch) ==
    LET c == h.ch[ch]
    IN IF c.seg > Len(c.chain) THEN ChainEnd(h, ch)
       ELSE
           LET want == IF c.in_seg THEN c.remain ELSE c.chain[c.seg]
               avail == Avail(h, ch)
               stall == avail < want
               n == IF stall THEN avail ELSE want
               g == [h EXCEPT !.ch[ch].in_seg = stall]
               moved == IF n = 0 THEN g
                        ELSE IF ~c.to_device THEN Pop(g, ch, n)
                        ELSE [Push([g EXCEPT !.ch[ch].sink_early = FALSE, !.ch[ch].in_run = TRUE],
                                   ch, n) EXCEPT !.ch[ch].in_run = FALSE]
               after == [moved EXCEPT !.ch[ch].remain = want - n]
           IN IF stall THEN [after EXCEPT !.ch[ch].running = TRUE]
              ELSE Walk([after EXCEPT !.ch[ch].seg = @ + 1], ch)
cdma_run(h, ch) == Walk([h EXCEPT !.ch[ch].running = FALSE], ch)

-----------------------------------------------------------------------------
(* The firmware: an operation on up to Pages pages, its two chains started *)
(* in any order with the transfers, a transfer started when the one before *)
(* it is done.  op is 0 between operations.                                *)
Firmware ==
    [op: 0..MaxOps, ops: 0..MaxOps, pages: 0..Pages, write: BOOLEAN, go: SUBSET Channels,
     latch: 0..Pages, started: 0..Pages, seen: 0..Pages]
InitFw ==
    [op |-> 0, ops |-> 0, pages |-> 0, write |-> FALSE, go |-> {}, latch |-> 0, started |-> 0, seen |-> 0]

PageOf(n, p) ==
    [data |-> [k \in 1..PAGE |-> <<n, (p - 1) * PAGE + k>>], meta |-> <<n, p>>]

NandInit == hw = InitHw /\ fw = InitFw /\ jobs \in Jobs

Waiting == fw.started > fw.seen

(* The firmware sets the channels up for an operation: settings, FIFO      *)
(* address, descriptor chain.  What came out of an earlier one is history. *)
Begin(write, dc, mc) ==
    /\ (IF write THEN "write" ELSE "read") \in jobs
    /\ fw.op = 0 /\ fw.ops < MaxOps /\ SumFunction(dc) = PAGE * SumFunction(mc)
    /\ fw' = [InitFw EXCEPT !.op = fw.ops + 1, !.ops = fw.ops + 1, !.write = write,
                            !.pages = SumFunction(mc)]
    /\ hw' = [hw EXCEPT !.taken = << >>, !.memory = InitHw.memory,
           !.ch = [c \in Channels |-> [hw.ch[c] EXCEPT !.to_device = write, !.op = fw.ops + 1,
                        !.chain = IF c = "data" THEN dc ELSE mc, !.seg = 1, !.at = 0]]]
    /\ UNCHANGED jobs

(* A write of GO to CH_CTRL.                                               *)
Go(ch) ==
    /\ fw.op # 0 /\ ch \notin fw.go
    /\ fw' = [fw EXCEPT !.go = @ \cup {ch}]
    /\ hw' = cdma_run(hw, ch)
    /\ UNCHANGED jobs

(* A write of 5 to FMI_CONTROL: the next page's write transfer.            *)
StartWrite ==
    /\ fw.op # 0 /\ fw.write /\ ~Waiting /\ fw.started < fw.pages
    /\ fw' = [fw EXCEPT !.started = @ + 1]
    /\ hw' = h2fmi_write_check([hw EXCEPT !.control = 5, !.st_done = FALSE, !.write_armed = TRUE])
    /\ UNCHANGED jobs

(* NAND command 0x30: a chip latches the operation's next page.  The       *)
(* firmware commands a chip again when its last page was transferred.      *)
Latch ==
    /\ fw.op # 0 /\ ~fw.write /\ fw.latch < fw.pages /\ fw.latch < fw.seen + CES
    /\ LET ce == fw.latch % CES IN
       hw' = [hw EXCEPT !.latched[ce] = PageOf(fw.op, fw.latch + 1),
                         !.unread = @ \cup {ce}]
    /\ fw' = [fw EXCEPT !.latch = @ + 1]
    /\ UNCHANGED jobs

(* A write of 3 to FMI_CONTROL with that chip selected.                    *)
StartRead ==
    /\ fw.op # 0 /\ ~fw.write /\ ~Waiting /\ fw.started < fw.latch
    /\ fw' = [fw EXCEPT !.started = @ + 1]
    /\ LET ce == fw.started % CES IN
       hw' = IF ce \in hw.unread \/ hw.control # 3
             THEN [h2fmi_transfer(hw, ce, FALSE) EXCEPT !.control = 3] ELSE hw
    /\ UNCHANGED jobs

(* The firmware sees DONE and writes it back to clear it; after a write    *)
(* transfer it programs the chip.                                          *)
SeeDone ==
    /\ Waiting /\ hw.st_done
    /\ fw' = [fw EXCEPT !.seen = @ + 1]
    /\ hw' = [hw EXCEPT !.st_done = FALSE]
    /\ UNCHANGED jobs

(* All pages and both chains are done; the firmware clears the channels'   *)
(* done bits.                                                              *)
Finish ==
    /\ fw.op # 0 /\ fw.seen = fw.pages /\ \A ch \in Channels : hw.ch[ch].done
    /\ fw' = [fw EXCEPT !.op = 0]
    /\ hw' = [hw EXCEPT !.ch = [c \in Channels |-> [hw.ch[c] EXCEPT !.done = FALSE]]]
    /\ UNCHANGED jobs

(* Mutant: the read FIFOs are not in the stream.                           *)
LoadEmptyFifos ==
    /\ "snapshot" \in jobs
    /\ hw' = [hw EXCEPT !.ch = [c \in Channels |-> [hw.ch[c] EXCEPT !.sink_early = FALSE]],
                        !.rfifo = InitHw.rfifo]
    /\ UNCHANGED <<fw, jobs>>

(* A snapshot is saved and loaded into a fresh machine: all of it is in    *)
(* the streams (in_seg through in_seg_mig) but sink_early.                 *)
LoadNand ==
    /\ "snapshot" \in jobs
    /\ hw' = [hw EXCEPT !.ch = [c \in Channels |-> [hw.ch[c] EXCEPT !.sink_early = FALSE]]]
    /\ UNCHANGED <<fw, jobs>>

(* s5l8930_cdma_reset and s5l8930_h2fmi_reset, and the firmware starts     *)
(* over.  Neither clears the sink flags, the write FIFOs or the latches.   *)
ResetNand ==
    /\ "reset" \in jobs
    /\ hw' = [InitHw EXCEPT
           !.ch = [c \in Channels |-> [IdleChannel EXCEPT
                      !.sink_pending = hw.ch[c].sink_pending, !.sink_early = hw.ch[c].sink_early]],
           !.wfifo = hw.wfifo, !.latched = hw.latched]
    /\ fw' = [InitFw EXCEPT !.ops = fw.ops]
    /\ UNCHANGED jobs

NandNext ==
    \/ \E write \in BOOLEAN, dc \in DataChains, mc \in MetaChains : Begin(write, dc, mc)
    \/ \E ch \in Channels : Go(ch)
    \/ StartWrite \/ Latch \/ StartRead \/ SeeDone \/ Finish \/ LoadNand \/ ResetNand

NandSpec == NandInit /\ [][NandNext]_nandVars

-----------------------------------------------------------------------------
Units == (0..MaxOps) \X (0..(Pages * PAGE))
NandTypeOK ==
    /\ fw \in Firmware /\ jobs \in Jobs
    /\ \A ch \in Channels :
         /\ Len(hw.wfifo[ch]) <= (IF ch = "data" THEN BUF ELSE META_BUF)
         /\ Len(hw.rfifo[ch]) <= QUEUE * (IF ch = "data" THEN PAGE ELSE 1)
         /\ Range(hw.wfifo[ch]) \cup Range(hw.rfifo[ch]) \cup Range(hw.memory[ch]) \subseteq Units
         /\ hw.ch[ch].seg \in 1..(Len(hw.ch[ch].chain) + 1)
    /\ Len(hw.pending) <= PENDING

Stream(ch) ==
    [k \in 1..(IF ch = "data" THEN fw.pages * PAGE ELSE fw.pages) |-> <<fw.op, k>>]

(* A chip takes whole pages in order, each with its own meta, and memory   *)
(* gets the pages that were read, in order, however the two chains and the *)
(* transfers interleave and wherever a chain stalls (cdma_run,             *)
(* h2fmi_write_check, h2fmi_transfer and its queue); no FIFO or queue      *)
(* outgrows its buffer.                                                    *)
PagesWhole ==
    /\ NandTypeOK
    /\ fw.op # 0 =>
          /\ hw.taken = [p \in 1..Len(hw.taken) |-> PageOf(fw.op, p)]
          /\ \A ch \in Channels : IsPrefix(hw.memory[ch], Stream(ch))

(* A chain reports done only when all of it has gone through: into memory, *)
(* or into the chip and out of the FIFO ("a to-device chain is done when   *)
(* the FIFO it fills has been drained by the chip", sink_pending and       *)
(* sink_early).                                                            *)
DoneIsDrained ==
    \A ch \in Channels :
        fw.op # 0 /\ hw.ch[ch].done =>
            IF fw.write THEN hw.ch[ch].at = Len(Stream(ch)) /\ hw.wfifo[ch] = << >>
            ELSE hw.memory[ch] = Stream(ch)

(* A chain waits only for what the device has not got ("room again: a      *)
(* stalled chain continues"), and with both chains started the firmware    *)
(* never waits in vain: a transfer it started is done, and when the last   *)
(* is done so are the chains (s5l8930_cdma_kick, and what becomes          *)
(* available while the chain itself runs).                                 *)
NothingWaits ==
    /\ \A ch \in Channels : hw.ch[ch].running /\ hw.ch[ch].in_seg => Avail(hw, ch) = 0
    /\ fw.op # 0 /\ fw.go = Channels =>
          /\ Waiting => hw.st_done
          /\ fw.started = fw.pages => \A ch \in Channels : hw.ch[ch].done
=============================================================================
