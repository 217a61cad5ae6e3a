--------------------------- MODULE GuestPasteboard ---------------------------
(***************************************************************************)
(* The host/guest clipboard: hw/arm/guest-pasteboard.c, which parks one    *)
(* text for the guest and takes texts from it, and the pump in the guest,  *)
(* contrib/it-agent/it_agent.c (pump_host_to_guest, pump_guest_to_host),   *)
(* which carries texts between it and the guest's general pasteboard in    *)
(* windows of PB_CHUNK bytes.                                              *)
(*                                                                         *)
(* Each QC_PB_* call the pump makes is one step, so the host's user, the   *)
(* guest's user and the front end's poll interleave between any two.  A    *)
(* text is the sequence of its windows; a window knows its text.           *)
(***************************************************************************)
EXTENDS Integers, Sequences

CONSTANTS
    QC_PB_MAX_LEN,  \* in windows
    PB_CAP,         \* PB_BUF - 1, in windows: what the pump can hold
    MaxSets, MaxCopies, MaxTexts, MaxCopyFailures, MaxPasteFailures, MaxRestarts   \* bounds

ASSUME PasteboardConstants ==
    /\ QC_PB_MAX_LEN \in Nat \ {0} /\ PB_CAP \in Nat \ {0}
    /\ {MaxSets, MaxCopies, MaxTexts, MaxCopyFailures, MaxPasteFailures, MaxRestarts} \subseteq Nat

VARIABLES
    out,         \* pb_out: the text waiting for the guest, << >> for NULL
    delivered,   \* pb_delivered
    in,          \* pb_in: windows staged by the guest
    guest,       \* pb_guest, and guest_text, which is set with it
    serial,      \* guest_text_serial
    seen,        \* the serial the front end last saw, and the text it got
    board,       \* the guest's general pasteboard
    pump,        \* where the pump is, and its buffers
    sets,        \* sizes of the texts the host's user has copied
    copied,      \* sizes of the texts the guest's user has copied
    collected,   \* texts the pump has read out
    copyFailures, pasteFailures, restarts   \* what the bounds count

hostVars == <<out, delivered, in, guest, serial>>
failVars == <<copyFailures, pasteFailures, restarts>>
pasteVars == <<hostVars, seen, board, pump, sets, copied, collected, failVars>>

Text(from, k, n) == [i \in 1..n |-> [from |-> from, item |-> k, index |-> i]]

(* pb_last: nothing compared yet (-1), a text too long to hold (-2), or    *)
(* the text last seen.                                                     *)
Never == [kind |-> "never", text |-> << >>]
OverCap == [kind |-> "toolong", text |-> << >>]
Seen(t) == [kind |-> "text", text |-> t]

Idle(last) == [pc |-> "poll", want |-> 0, buf |-> << >>, sent |-> 0, last |-> last]
At(pc) == pump.pc = pc
PumpGoto(pc) == pump' = [pump EXCEPT !.pc = pc]

Window == [from: {"host", "guest"}, item: Nat, index: Nat]
TextType == Seq(Window)

PasteTypeOK ==
    /\ {out, delivered, in, guest, board} \subseteq TextType
    /\ Len(out) <= QC_PB_MAX_LEN /\ Len(in) <= QC_PB_MAX_LEN
    /\ serial \in Nat /\ seen \in [serial: 0..serial, text: TextType]
    /\ pump \in [pc: {"poll", "retire", "read", "ack", "paste", "scan", "write", "commit"},
                 want: 0..QC_PB_MAX_LEN, buf: TextType, sent: 0..PB_CAP,
                 last: [kind: {"never", "toolong", "text"}, text: TextType]]
    /\ sets \in Seq(Nat) /\ copied \in Seq(Nat) /\ collected \subseteq TextType
    /\ copyFailures \in Nat /\ pasteFailures \in Nat /\ restarts \in Nat

PasteInit ==
    /\ out = << >> /\ delivered = << >> /\ in = << >> /\ guest = << >>
    /\ serial = 0 /\ seen = [serial |-> 0, text |-> << >>]
    /\ board = << >>
    /\ pump = Idle(Never)
    /\ sets = << >> /\ copied = << >> /\ collected = {}
    /\ copyFailures = 0 /\ pasteFailures = 0 /\ restarts = 0

-----------------------------------------------------------------------------
(* The host *)

(* guest_pb_set with a text of n windows: the latest copy replaces one not *)
(* collected yet, cut to QC_PB_MAX_LEN.                                    *)
Set(n) ==
    /\ Len(sets) < MaxSets /\ Len(sets) + Len(copied) < MaxTexts
    /\ sets' = Append(sets, n)
    /\ out' = Text("host", Len(sets) + 1, IF n <= QC_PB_MAX_LEN THEN n ELSE QC_PB_MAX_LEN)
    /\ UNCHANGED <<delivered, in, guest, serial, seen, board, pump, copied, collected, failVars>>

(* guest_pb_set with nothing.                                              *)
Clear ==
    /\ out # << >>
    /\ out' = << >>
    /\ UNCHANGED <<delivered, in, guest, serial, seen, board, pump, sets, copied, collected, failVars>>

(* guest_pb_guest_text, from the front end's helper thread.                *)
FrontEndPoll ==
    /\ guest # << >> /\ serial # seen.serial
    /\ seen' = [serial |-> serial, text |-> guest]
    /\ UNCHANGED <<hostVars, board, pump, sets, copied, collected, failVars>>

(* QC_PB_ACK: it names no text, and takes whatever is waiting.             *)
Ack ==
    /\ delivered' = IF out # << >> THEN out ELSE delivered
    /\ out' = << >>
    /\ UNCHANGED <<in, guest, serial>>

(* QC_PB_WRITE of one window.  Offset 0 starts afresh; any other must      *)
(* continue what is staged, or what is staged is dropped.                  *)
Write(off, w) ==
    LET staged == IF off = 0 THEN << >> ELSE in IN
    /\ in' = IF off = Len(staged) /\ off < QC_PB_MAX_LEN THEN Append(staged, w) ELSE << >>
    /\ UNCHANGED <<out, delivered, guest, serial>>

WriteOk(off) == (off = 0 \/ off = Len(in)) /\ off < QC_PB_MAX_LEN

(* Mutant: the serial stays.                                               *)
CommitQuietly ==
    /\ in # << >>
    /\ guest' = in
    /\ in' = << >>
    /\ UNCHANGED <<out, delivered, serial>>

(* QC_PB_COMMIT, with guest_pb_guest_commit.                               *)
Commit ==
    \/ /\ in # << >>
       /\ guest' = in
       /\ in' = << >>
       /\ serial' = serial + 1
       /\ UNCHANGED <<out, delivered>>
    \/ /\ in = << >>
       /\ UNCHANGED hostVars

-----------------------------------------------------------------------------
(* pump_host_to_guest *)

PumpPoll ==
    /\ At("poll")
    /\ pump' = CASE out = << >>       -> [pump EXCEPT !.pc = "scan"]
                 [] Len(out) > PB_CAP -> [pump EXCEPT !.pc = "retire"]
                 [] OTHER             -> [pump EXCEPT !.pc = "read", !.want = Len(out), !.buf = << >>]
    /\ UNCHANGED <<hostVars, seen, board, sets, copied, collected, failVars>>

(* Mutant: a text over the cap is skipped, not retired.                    *)
RetireSkips ==
    /\ At("retire")
    /\ PumpGoto("scan")
    /\ UNCHANGED <<hostVars, seen, board, sets, copied, collected, failVars>>

(* A text over the cap is retired unread.                                  *)
PumpRetire ==
    /\ At("retire")
    /\ Ack
    /\ PumpGoto("scan")
    /\ UNCHANGED <<seen, board, sets, copied, collected, failVars>>

(* One QC_PB_READ.  Nothing there, or a failed copy, ends the loop.        *)
PumpRead ==
    /\ At("read")
    /\ LET off == Len(pump.buf) IN
       \/ /\ off < Len(out)
          /\ pump' = [pump EXCEPT !.buf = Append(@, out[off + 1]),
                                  !.pc = IF off + 1 < pump.want THEN "read" ELSE "ack"]
          /\ UNCHANGED copyFailures
       \/ /\ off >= Len(out)
          /\ PumpGoto("ack")
          /\ UNCHANGED copyFailures
       \/ /\ off < Len(out) /\ copyFailures < MaxCopyFailures
          /\ copyFailures' = copyFailures + 1
          /\ PumpGoto("ack")
    /\ UNCHANGED <<hostVars, seen, board, sets, copied, collected, pasteFailures, restarts>>

(* The text is retired whether it could be read or not.                    *)
PumpAck ==
    /\ At("ack")
    /\ Ack
    /\ collected' = collected \cup {pump.buf}
    /\ PumpGoto(IF pump.buf = << >> THEN "scan" ELSE "paste")
    /\ UNCHANGED <<seen, board, sets, copied, failVars>>

(* Mutant: the pasted text is not remembered.                              *)
PasteForgets ==
    /\ At("paste")
    /\ board' = pump.buf
    /\ pump' = Idle(pump.last)
    /\ UNCHANGED <<hostVars, seen, sets, copied, collected, failVars>>

(* The text goes to the pasteboard, if it makes a string, and is           *)
(* remembered so that it is not sent back.                                 *)
PumpPaste ==
    /\ At("paste")
    /\ \/ /\ board' = pump.buf
          /\ UNCHANGED pasteFailures
       \/ /\ pasteFailures < MaxPasteFailures
          /\ pasteFailures' = pasteFailures + 1
          /\ UNCHANGED board
    /\ pump' = Idle(Seen(pump.buf))
    /\ UNCHANGED <<hostVars, seen, sets, copied, collected, copyFailures, restarts>>

-----------------------------------------------------------------------------
(* pump_guest_to_host *)

(* The first text seen is only a baseline.                                 *)
PumpScan ==
    /\ At("scan")
    /\ pump' = CASE Len(board) > PB_CAP       -> Idle(OverCap)
                 [] pump.last = Seen(board)   -> Idle(pump.last)
                 [] board = << >> \/ pump.last = Never -> Idle(Seen(board))
                 [] OTHER -> [Idle(Seen(board)) EXCEPT !.pc = "write"]
    /\ UNCHANGED <<hostVars, seen, board, sets, copied, collected, failVars>>

(* Mutant: the windows are read from the live pasteboard.                  *)
WriteLive ==
    /\ At("write")
    /\ pump.sent < Len(board)
    /\ Write(pump.sent, board[pump.sent + 1])
    /\ pump' = [pump EXCEPT !.sent = @ + 1,
                            !.pc = IF pump.sent + 1 < Len(board) THEN "write" ELSE "commit"]
    /\ UNCHANGED <<seen, board, sets, copied, collected, failVars>>

(* The windows come from the pump's own copy; a refused or failed one ends *)
(* the attempt for good.                                                   *)
PumpWrite ==
    /\ At("write")
    /\ LET text == pump.last.text IN
       \/ /\ Write(pump.sent, text[pump.sent + 1])
          /\ pump' = IF ~WriteOk(pump.sent) THEN Idle(pump.last)
                     ELSE [pump EXCEPT !.sent = @ + 1,
                              !.pc = IF pump.sent + 1 < Len(text) THEN "write" ELSE "commit"]
          /\ UNCHANGED copyFailures
       \/ /\ copyFailures < MaxCopyFailures
          /\ copyFailures' = copyFailures + 1
          /\ in' = << >>
          /\ pump' = Idle(pump.last)
          /\ UNCHANGED <<out, delivered, guest, serial>>
    /\ UNCHANGED <<seen, board, sets, copied, collected, pasteFailures, restarts>>

PumpCommit ==
    /\ At("commit")
    /\ Commit
    /\ pump' = Idle(pump.last)
    /\ UNCHANGED <<seen, board, sets, copied, collected, failVars>>

PumpStep ==
    \/ PumpPoll \/ PumpRetire \/ PumpRead \/ PumpAck \/ PumpPaste
    \/ PumpScan \/ PumpWrite \/ PumpCommit

(* launchd starts the agent again; the pasteboard and the host keep their  *)
(* state.                                                                  *)
PumpCrash ==
    /\ restarts < MaxRestarts
    /\ restarts' = restarts + 1
    /\ pump' = Idle(Never)
    /\ UNCHANGED <<hostVars, seen, board, sets, copied, collected, copyFailures, pasteFailures>>

(* The guest's user copies a text of n windows.                            *)
UserCopy(n) ==
    /\ Len(copied) < MaxCopies /\ Len(sets) + Len(copied) < MaxTexts
    /\ copied' = Append(copied, n)
    /\ board' = Text("guest", Len(copied) + 1, n)
    /\ UNCHANGED <<hostVars, seen, pump, sets, collected, failVars>>

PasteNext ==
    \/ \E n \in 1..(QC_PB_MAX_LEN + 1) : Set(n) \/ UserCopy(n)
    \/ Clear \/ FrontEndPoll \/ PumpStep \/ PumpCrash

PasteSpec == PasteInit /\ [][PasteNext]_pasteVars

(* The agent's loop runs every 250 ms, and the app polls for guest text.   *)
FairPasteSpec == PasteSpec /\ WF_pasteVars(PumpStep) /\ WF_pasteVars(FrontEndPoll)

-----------------------------------------------------------------------------
(* What the host publishes is, whole, a text the guest's user copied: the  *)
(* offset protocol of QC_PB_WRITE and the pump's private copy keep windows *)
(* of two texts, or half of one left by a dead pump, out of it.            *)
PublishedWhole ==
    /\ PasteTypeOK
    /\ guest # << >> /\ guest[1].from = "guest" =>
          guest = Text("guest", guest[1].item, copied[guest[1].item])

(* The host's own text is never sent back to it (pb_last in                *)
(* pump_host_to_guest), even across a restart of the agent, unless putting *)
(* a text on the guest's pasteboard failed.                                *)
NeverEchoed ==
    pasteFailures = 0 =>
        \A i \in DOMAIN guest : guest[i].from = "guest"

(* A text the host queued does not wait for ever: it is collected, retired *)
(* or replaced ("leaving it pending would spin this loop forever").        *)
QueuedTextEnds ==
    \A k \in 1..MaxSets :
        (out # << >> /\ out[1].item = k) ~> ~(out # << >> /\ out[1].item = k)

(* A text that fits, copied in the guest once the pump has its baseline,   *)
(* reaches the front end unless another text takes its place on the        *)
(* pasteboard, a copy out of the guest fails or the pump dies.             *)
OnBoard(k) == board # << >> /\ board[1].from = "guest" /\ board[1].item = k
Reached(k) == seen.text # << >> /\ seen.text[1].from = "guest" /\ seen.text[1].item >= k
CopyReachesFrontEnd ==
    \A k \in 1..MaxCopies :
        (OnBoard(k) /\ Len(board) <= PB_CAP /\ pump.last # Never /\ pump.last # Seen(board))
            ~> (Reached(k) \/ ~OnBoard(k) \/ copyFailures > 0 \/ restarts > 0)

(* The text "pasteboard-status" reports as delivered is one the guest has  *)
(* collected: pb_delivered is "last text the guest agent collected".       *)
DeliveredWasCollected == delivered # << >> => delivered \in collected
=============================================================================
