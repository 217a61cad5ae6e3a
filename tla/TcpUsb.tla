------------------------------- MODULE TcpUsb -------------------------------
(***************************************************************************)
(* USB over a stream socket, hw/arm/ipod_touch_tcp_usb.c: the state        *)
(* machine both ends run, the device end (read_request, write_response)    *)
(* and the host end (write_request, read_response), over a socket that     *)
(* takes and gives any number of bytes at a time and can break.            *)
(*                                                                         *)
(* A packet is HDR header bytes and a payload.  A byte is modelled by the  *)
(* packet it belongs to, its place in it, and what its header says, so     *)
(* that an end that lost the framing would read a header from the wrong    *)
(* bytes.  tcp_usb_pump makes several system calls per call where it can;  *)
(* here each system call is a step, which is what the pump does when the   *)
(* next one would block.  The fd handler decides when the pump runs.       *)
(***************************************************************************)
EXTENDS Integers, Sequences

CONSTANTS
    HDR,         \* sizeof(tcp_usb_header_t)
    MAX_LEN,     \* the largest payload
    CAP,         \* what the socket buffers in each direction
    MaxRequests, MaxConnects   \* bounds

ASSUME TcpUsbConstants ==
    /\ HDR \in Nat \ {0} /\ CAP \in Nat \ {0} /\ MAX_LEN \in Nat
    /\ MaxRequests \in Nat /\ MaxConnects \in Nat

VARIABLES
    dev, host,   \* the two ends' tcp_usb_state_t
    toDev,       \* bytes on their way to the device
    toHost,      \* bytes on their way to the host
    requests,    \* requests made so far
    connects     \* connections made so far

vars == <<dev, host, toDev, toHost, requests, connects>>

(* length is a payload size or a negative USB_RET_* code.                  *)
NAK == -2
Lengths == {NAK} \cup 0..MAX_LEN
PayloadLen(len) == IF len > 0 THEN len ELSE 0

(* The bytes of packet x: a request carries its payload when it is OUT, a  *)
(* response when it is IN.                                                 *)
Carried(kind, dir, len) ==
    IF (kind = "request") = (dir = "out") THEN PayloadLen(len) ELSE 0

Packet(kind, x, dir, len) ==
    [i \in 1..(HDR + Carried(kind, dir, len)) |->
        [kind |-> kind, x |-> x, dir |-> dir, len |-> len, at |-> i]]

Byte == [kind: {"request", "response"}, x: Nat, dir: {"in", "out"}, len: Lengths, at: Nat]
Prefix(s, k) == SubSeq(s, 1, k)
Drop(s, k) == SubSeq(s, k + 1, Len(s))

(* got: what has been read of the packet; left: what is still to write.    *)
(* handler: what the fd handler watches for.                               *)
NoSocket == [open |-> FALSE, closed |-> TRUE, state |-> "idle", got |-> << >>,
             left |-> << >>, owns |-> FALSE, handler |-> {}, request_len |-> 0]

End ==
    [open: BOOLEAN, closed: BOOLEAN, got: Seq(Byte), left: Seq(Byte), owns: BOOLEAN,
     state: {"idle", "read_request", "write_response", "write_request", "read_response"},
     handler: SUBSET {"read", "write"}, request_len: 0..MAX_LEN]

TypeOK ==
    /\ dev \in End /\ host \in End
    /\ toDev \in Seq(Byte) /\ Len(toDev) <= CAP
    /\ toHost \in Seq(Byte) /\ Len(toHost) <= CAP
    /\ requests \in 0..MaxRequests /\ connects \in 0..MaxConnects

Init ==
    /\ dev = NoSocket /\ host = NoSocket
    /\ toDev = << >> /\ toHost = << >>
    /\ requests = 0 /\ connects = 0

-----------------------------------------------------------------------------
(* Both ends *)

(* Mutant: the write side is never watched.                                *)
RearmReadOnly(e) ==
    IF e.closed \/ ~e.open THEN e ELSE [e EXCEPT !.handler = {"read"}]

(* tcp_usb_callback, after the pump.                                       *)
Rearm(e) ==
    IF e.closed \/ ~e.open THEN e
    ELSE [e EXCEPT !.handler = {"read"} \cup
             (IF e.state \in {"write_request", "write_response"} THEN {"write"} ELSE {})]

FreePacket(e) == [e EXCEPT !.owns = FALSE]

(* Mutant: the packet is kept.                                             *)
DoClosedKeeps(e) ==
    IF e.closed THEN e ELSE [e EXCEPT !.closed = TRUE, !.handler = {}]

(* tcp_usb_do_closed: the descriptor stays open and the state as it was.   *)
DoClosed(e) ==
    IF e.closed THEN e ELSE [FreePacket(e) EXCEPT !.closed = TRUE, !.handler = {}]

(* tcp_usb_cleanup.                                                        *)
Cleanup(e) ==
    [e EXCEPT !.open = FALSE, !.handler = {}, !.owns = FALSE, !.state = "idle",
              !.got = << >>, !.left = << >>]

(* tcp_usb_init, then tcp_usb_connect.                                     *)
Connected ==
    [NoSocket EXCEPT !.open = TRUE, !.closed = FALSE, !.handler = {"read"}]

(* Whether the fd handler runs the pump: bytes or an end of file to read,  *)
(* or room to write (a broken socket is both).                             *)
Readable(e, inbox, peer) == "read" \in e.handler /\ (inbox # << >> \/ ~peer.open)
Writable(e, outbox, peer) == "write" \in e.handler /\ (Len(outbox) < CAP \/ ~peer.open)

(* Bytes the next read asks for: the rest of the header, then the rest of  *)
(* the payload the header announces.                                       *)
Need(got) ==
    IF Len(got) < HDR THEN HDR - Len(got)
    ELSE HDR + Carried(got[1].kind, got[1].dir, got[1].len) - Len(got)

Whole(got) == Len(got) >= HDR /\ Need(got) <= 0

(* Bytes the next write offers: the rest of the header, then the rest of   *)
(* the payload.                                                            *)
Offer(left) == IF left[1].at <= HDR THEN HDR - left[1].at + 1 ELSE Len(left)

-----------------------------------------------------------------------------
(* The device end *)

(* What data_callback may answer: a status, or a length.  The host end     *)
(* does not count on an IN answer fitting the request.                     *)
Replies == {NAK} \cup 0..MAX_LEN

DevRead ==
    /\ Readable(dev, toDev, host) /\ dev.state \in {"idle", "read_request"} /\ toDev # << >>
    /\ LET had == IF dev.state = "idle" THEN << >> ELSE dev.got IN
       \E k \in 1..Len(toDev) :
          /\ k <= Need(had)
          /\ toDev' = Drop(toDev, k)
          /\ LET got == had \o Prefix(toDev, k)
                 reading == [dev EXCEPT !.state = "read_request", !.owns = TRUE, !.got = got]
             IN IF ~Whole(got) THEN dev' = Rearm(reading)
                ELSE \E len \in Replies :
                        dev' = Rearm([reading EXCEPT !.state = "write_response",
                                  !.left = Packet("response", got[1].x, got[1].dir, len)])
    /\ UNCHANGED <<host, toHost, requests, connects>>

DevWrite ==
    /\ Readable(dev, toDev, host) \/ Writable(dev, toHost, host)
    /\ dev.state = "write_response" /\ host.open
    /\ \E k \in 1..(CAP - Len(toHost)) :
          /\ k <= Offer(dev.left)
          /\ toHost' = toHost \o Prefix(dev.left, k)
          /\ LET left == Drop(dev.left, k) IN
             dev' = Rearm(IF left # << >> THEN [dev EXCEPT !.left = left]
                          ELSE [FreePacket(dev) EXCEPT !.state = "idle", !.left = << >>])
    /\ UNCHANGED <<host, toDev, requests, connects>>

(* A read of a closed socket once its bytes are gone, or a write to it.    *)
Broken(e, inbox, outbox, peer) ==
    /\ Readable(e, inbox, peer) \/ Writable(e, outbox, peer)
    /\ ~peer.open
    /\ inbox = << >> \/ e.state \in {"write_response", "write_request"}

DevBroken ==
    /\ Broken(dev, toDev, toHost, host)
    /\ dev' = DoClosed(IF dev.state = "idle" THEN [dev EXCEPT !.state = "read_request", !.got = << >>, !.owns = TRUE]
                       ELSE dev)
    /\ UNCHANGED <<host, toDev, toHost, requests, connects>>

-----------------------------------------------------------------------------
(* The host end *)

(* tcp_usb_request; otherwise it returns -ENOTCONN or -EBUSY.              *)
HostRequest(dir, len) ==
    /\ requests < MaxRequests
    /\ ~host.closed /\ host.state = "idle"
    /\ requests' = requests + 1
    /\ host' = Rearm([host EXCEPT !.state = "write_request", !.owns = FALSE,
                          !.left = Packet("request", requests + 1, dir, len),
                          !.request_len = PayloadLen(len), !.got = << >>])
    /\ UNCHANGED <<dev, toDev, toHost, connects>>

HostWrite ==
    /\ Readable(host, toHost, dev) \/ Writable(host, toDev, dev)
    /\ host.state = "write_request" /\ dev.open
    /\ \E k \in 1..(CAP - Len(toDev)) :
          /\ k <= Offer(host.left)
          /\ toDev' = toDev \o Prefix(host.left, k)
          /\ LET left == Drop(host.left, k) IN
             host' = Rearm([host EXCEPT !.left = left,
                                !.state = IF left = << >> THEN "read_response" ELSE @])
    /\ UNCHANGED <<dev, toHost, requests, connects>>

(* Mutant: the response is not compared with the request.                  *)
NeverTooLong(got) == FALSE

(* A response longer than what the caller's buffer holds.                  *)
TooLong(got) ==
    Len(got) = HDR /\ got[1].dir = "in" /\ PayloadLen(got[1].len) > host.request_len

HostRead ==
    /\ Readable(host, toHost, dev) /\ host.state = "read_response" /\ toHost # << >>
    /\ \E k \in 1..Len(toHost) :
          /\ k <= Need(host.got)
          /\ toHost' = Drop(toHost, k)
          /\ LET got == host.got \o Prefix(toHost, k)
                 read == [host EXCEPT !.got = got]
             IN host' = IF TooLong(got) THEN DoClosed(read)
                        ELSE Rearm([read EXCEPT !.state = IF Whole(got) THEN "idle" ELSE @])
    /\ UNCHANGED <<dev, toDev, requests, connects>>

HostBroken ==
    /\ Broken(host, toHost, toDev, dev)
    /\ host' = DoClosed(IF host.state = "idle" THEN [host EXCEPT !.state = "read_request", !.got = << >>, !.owns = TRUE]
                        ELSE host)
    /\ UNCHANGED <<dev, toDev, toHost, requests, connects>>

-----------------------------------------------------------------------------
(* Connections *)

(* Mutant: the state machine goes on where the last connection left it.    *)
ReconnectAsWas ==
    /\ connects < MaxConnects
    /\ ~dev.open \/ dev.closed
    /\ connects' = connects + 1
    /\ dev' = [dev EXCEPT !.open = TRUE, !.closed = FALSE, !.handler = {"read"}]
    /\ host' = Connected
    /\ toDev' = << >> /\ toHost' = << >>
    /\ UNCHANGED requests

(* The device dials (synopsys_usb_tcp_start: cleanup, init, connect); the  *)
(* bridge takes the new connection in place of the old one.                *)
Connect ==
    /\ connects < MaxConnects
    /\ ~dev.open \/ dev.closed
    /\ connects' = connects + 1
    /\ dev' = Connected
    /\ host' = Connected
    /\ toDev' = << >> /\ toHost' = << >>
    /\ UNCHANGED requests

(* The cable is unplugged, the device is reset or a snapshot is loaded.    *)
DevCleanup ==
    /\ dev.open
    /\ dev' = Cleanup(dev)
    /\ toDev' = << >>
    /\ UNCHANGED <<host, toHost, requests, connects>>

HostCleanup ==
    /\ host.open
    /\ host' = Cleanup(host)
    /\ toHost' = << >>
    /\ UNCHANGED <<dev, toDev, requests, connects>>

DevStep == DevRead \/ DevWrite \/ DevBroken
HostStep == HostWrite \/ HostRead \/ HostBroken

Next ==
    \/ DevStep \/ HostStep
    \/ \E dir \in {"in", "out"}, len \in 0..MAX_LEN : HostRequest(dir, len)
    \/ Connect \/ DevCleanup \/ HostCleanup

Spec == Init /\ [][Next]_vars

(* The main loop polls: an end whose handler is ready runs.                *)
FairSpec == Spec /\ WF_vars(DevStep) /\ WF_vars(HostStep)

-----------------------------------------------------------------------------
(* Framing holds in both directions, over every split of reads, break and  *)
(* reconnection (tcp_usb_pump's amount_done, tcp_usb_cleanup and           *)
(* tcp_usb_connect).  The device model is called with the bytes of a       *)
(* single request, in order; what the host gets back is, whole, the        *)
(* response to the request it made last, and fits the buffer it gave; and  *)
(* bytes never travel both ways at once on a live connection.              *)
FramingHolds ==
    /\ dev.state = "write_response" =>
          dev.got = Packet("request", dev.got[1].x, dev.got[1].dir, dev.got[1].len)
    /\ host.open /\ ~host.closed /\ host.state = "idle" /\ host.got # << >> =>
          /\ host.got = Packet("response", requests, host.got[1].dir, host.got[1].len)
          /\ host.got[1].dir = "in" => PayloadLen(host.got[1].len) <= host.request_len
    /\ dev.open /\ host.open => toDev = << >> \/ toHost = << >>

(* A packet is owned exactly while the device end is between a request's   *)
(* first byte and its response's last on a live connection: every path out *)
(* frees it once, and the host end never owns its caller's buffers.        *)
OwnedWhileServed ==
    /\ TypeOK
    /\ dev.owns <=> dev.open /\ ~dev.closed /\ dev.state \in {"read_request", "write_response"}
    /\ ~host.owns

(* A request the host makes is answered, or the connection is found        *)
(* broken or given up: no split of the bytes leaves an end unwatched (the  *)
(* handler tcp_usb_callback re-arms).                                      *)
ExchangeEnds ==
    (host.open /\ ~host.closed /\ host.state \in {"write_request", "read_response"})
        ~> (~host.open \/ host.closed \/ host.state = "idle")
=============================================================================
