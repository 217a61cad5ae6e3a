---------------------------- MODULE TransferProofs ----------------------------
(***************************************************************************)
(* Theorems about the two protocols that carry data in pieces between host *)
(* and guest: TcpUsb, for any header size, payload limit and socket        *)
(* buffer, any split of the bytes and any number of requests and           *)
(* connections; and GuestPasteboard, for texts of any length, any cap and  *)
(* window limit, and any number of copies, failures and restarts.          *)
(***************************************************************************)
EXTENDS TcpUsb, GuestPasteboard, TLAPS

(* What a sequence is.                                                     *)
LEMMA SeqIs ==
    ASSUME NEW S, NEW s \in Seq(S)
    PROVE  /\ Len(s) \in Nat /\ DOMAIN s = 1..Len(s) /\ s \in [1..Len(s) -> S]
           /\ \A i \in 1..Len(s) : s[i] \in S
OBVIOUS

(* The empty sequence is one of any elements.                              *)
LEMMA EmptyIs ==
    ASSUME NEW S
    PROVE  /\ << >> \in Seq(S) /\ Len(<< >>) = 0
           /\ \A s \in Seq(S) : s # << >> => Len(s) \in Nat \ {0}
OBVIOUS

(* Sequences with the same elements in the same places are one.            *)
LEMMA SeqSame ==
    ASSUME NEW S, NEW s \in Seq(S), NEW t \in Seq(S), Len(t) = Len(s), \A i \in 1..Len(s) : t[i] = s[i]
    PROVE  s = t
OBVIOUS

(* One more element at the end.                                            *)
LEMMA AppendIs ==
    ASSUME NEW S, NEW s \in Seq(S), NEW x \in S
    PROVE  /\ Append(s, x) \in Seq(S) /\ Append(s, x) # << >> /\ Len(Append(s, x)) = Len(s) + 1
           /\ Append(s, x)[Len(s) + 1] = x
           /\ \A i \in 1..Len(s) : Append(s, x)[i] = s[i]
OBVIOUS

(* Two sequences one after the other.                                      *)
LEMMA ConcatIs ==
    ASSUME NEW S, NEW s \in Seq(S), NEW t \in Seq(S)
    PROVE  /\ s \o t \in Seq(S) /\ Len(s \o t) = Len(s) + Len(t)
           /\ \A i \in 1..(Len(s) + Len(t)) : (s \o t)[i] = IF i <= Len(s) THEN s[i] ELSE t[i - Len(s)]
OBVIOUS

(* A part of a sequence.                                                   *)
LEMMA SubSeqIs ==
    ASSUME NEW S, NEW s \in Seq(S), NEW m \in Nat \ {0}, NEW n \in 0..Len(s)
    PROVE  /\ SubSeq(s, m, n) \in Seq(S)
           /\ Len(SubSeq(s, m, n)) = IF m <= n THEN n - m + 1 ELSE 0
           /\ \A i \in 1..(n - m + 1) : SubSeq(s, m, n)[i] = s[m + i - 1]
OBVIOUS


-----------------------------------------------------------------------------
(* TcpUsb.                                                                 *)

(* The packets a request or a response number x may be.                    *)
Dirs == {"in", "out"}
Packets(kind, x) == {Packet(kind, x, dir, len) : dir \in Dirs, len \in Lengths}

(* s stands in p after its first a bytes.                                  *)
Part(s, p, a) == a + Len(s) <= Len(p) /\ \A i \in 1..Len(s) : s[i] = p[a + i]

(* p is s, then t, then u.                                                 *)
Spans(p, s, t, u) ==
    /\ Len(p) = Len(s) + Len(t) + Len(u)
    /\ Part(s, p, 0) /\ Part(t, p, Len(s)) /\ Part(u, p, Len(s) + Len(t))

Reading == dev.state \in {"idle", "read_request"}
Had == IF dev.state = "idle" THEN << >> ELSE dev.got

(* An end is watched only while its socket is open and not given up.       *)
Watched(e) == e.handler # {} => e.open /\ ~e.closed

(* The device end, whatever became of the host: it is reading the bytes of *)
(* one request, or has one whole and is writing the rest of a response.    *)
DevInv ==
    /\ Watched(dev) /\ dev.state \in {"idle", "read_request", "write_response"}
    /\ dev.open /\ dev.closed => ~host.open
    /\ dev.state = "write_response" => \E x \in 0..requests : dev.got \in Packets("request", x)
    /\ dev.open /\ ~dev.closed /\ Reading =>
          \E x \in 0..requests : \E p \in Packets("request", x) :
              Part(Had, p, 0) /\ Part(toDev, p, Len(Had))
    /\ dev.open /\ ~dev.closed /\ dev.state = "write_response" =>
          /\ dev.left # << >>
          /\ \E x \in 0..requests : \E p \in Packets("response", x) :
                 Len(dev.left) <= Len(p) /\ Part(dev.left, p, Len(p) - Len(dev.left))

(* The response got so far fits the buffer given with the request, as far  *)
(* as its header tells.                                                    *)
Fits(got) == Len(got) >= HDR /\ got[1].dir = "in" => PayloadLen(got[1].len) <= host.request_len

(* The host end, whatever became of the device: the bytes it has and the   *)
(* ones on their way begin the response to its last request.               *)
HostInv ==
    /\ Watched(host)
    /\ ~host.open => toHost = << >>
    /\ host.open /\ ~host.closed =>
          /\ host.state \in {"idle", "write_request", "read_response"}
          /\ host.state # "read_response" => toHost = << >>
          /\ host.state = "write_request" => host.got = << >>
          /\ host.state = "read_response" =>
                /\ Fits(host.got)
                /\ \E p \in Packets("response", requests) :
                      /\ Part(host.got, p, 0) /\ Part(toHost, p, Len(host.got))
                      /\ Len(host.got) < Len(p)
          /\ host.state = "idle" /\ host.got # << >> =>
                host.got \in Packets("response", requests) /\ Fits(host.got)

(* Where the exchange stands while both sockets are open.                  *)
Asking ==
    /\ ~host.closed /\ host.state = "write_request" /\ host.left # << >>
    /\ Reading /\ toHost = << >>
    /\ \E p \in Packets("request", requests) : Spans(p, Had, toDev, host.left)

Asked ==
    /\ ~host.closed /\ host.state = "read_response" /\ host.got = << >>
    /\ Reading /\ toDev # << >> /\ toHost = << >>
    /\ \E p \in Packets("request", requests) : Spans(p, Had, toDev, << >>)

Answering ==
    /\ ~host.closed /\ host.state = "read_response"
    /\ dev.state = "write_response" /\ dev.left # << >> /\ toDev = << >>
    /\ dev.got[1].x = requests
    /\ \E p \in Packets("response", requests) : Spans(p, host.got, toHost, dev.left)

Answered ==
    /\ ~host.closed /\ host.state = "read_response"
    /\ dev.state = "idle" /\ toDev = << >> /\ toHost # << >>
    /\ \E p \in Packets("response", requests) : Spans(p, host.got, toHost, << >>)

Quiet ==
    /\ ~host.closed /\ host.state = "idle"
    /\ dev.state = "idle" /\ toDev = << >> /\ toHost = << >>

GivenUp ==
    /\ host.closed
    /\ dev.state \in {"idle", "write_response"} /\ toDev = << >>

LinkInv ==
    dev.open /\ host.open =>
        Asking \/ Asked \/ Answering \/ Answered \/ Quiet \/ GivenUp

Inv == OwnedWhileServed /\ DevInv /\ HostInv /\ LinkInv

-----------------------------------------------------------------------------
(* Sequences of bytes *)

(* What a read or a write takes from a sequence, and what it leaves.       *)
LEMMA PrefixDrop ==
    ASSUME NEW S, NEW s \in Seq(S), NEW k \in 1..Len(s)
    PROVE  /\ Prefix(s, k) \in Seq(S) /\ Len(Prefix(s, k)) = k
           /\ \A i \in 1..k : Prefix(s, k)[i] = s[i]
           /\ Drop(s, k) \in Seq(S) /\ Len(Drop(s, k)) = Len(s) - k
           /\ \A i \in 1..(Len(s) - k) : Drop(s, k)[i] = s[k + i]
<1>1. Len(s) \in Nat /\ \A i \in 1..Len(s) : s[i] \in S
  BY SeqIs
<1>2. Prefix(s, k) \in Seq(S) /\ Len(Prefix(s, k)) = k /\ \A i \in 1..k : Prefix(s, k)[i] = s[i]
  BY <1>1, SubSeqIs DEF Prefix
<1>3. /\ Drop(s, k) \in Seq(S) /\ Len(Drop(s, k)) = Len(s) - k
      /\ \A i \in 1..(Len(s) - k) : Drop(s, k)[i] = s[k + i]
  BY <1>1, SubSeqIs DEF Drop
<1>4. QED
  BY <1>2, <1>3

(* The first k bytes of a part, and the rest of it, are parts.             *)
LEMMA PartSplit ==
    ASSUME NEW S, NEW s \in Seq(S), NEW p \in Seq(S), NEW a \in Nat, Part(s, p, a),
           NEW k \in 1..Len(s)
    PROVE  Part(Prefix(s, k), p, a) /\ Part(Drop(s, k), p, a + k)
<1>1. Len(s) \in Nat /\ Len(p) \in Nat /\ a + Len(s) <= Len(p)
  BY SeqIs DEF Part
<1>2. /\ Len(Prefix(s, k)) = k /\ \A i \in 1..k : Prefix(s, k)[i] = s[i]
      /\ Len(Drop(s, k)) = Len(s) - k
      /\ \A i \in 1..(Len(s) - k) : Drop(s, k)[i] = s[k + i]
  BY PrefixDrop
<1>3. Part(Prefix(s, k), p, a)
  BY <1>1, <1>2 DEF Part
<1>4. Part(Drop(s, k), p, a + k)
  <2>1. ASSUME NEW i \in 1..(Len(s) - k) PROVE Drop(s, k)[i] = p[(a + k) + i]
    <3>1. k + i \in 1..Len(s) /\ a + (k + i) = (a + k) + i
      BY <1>1
    <3>2. s[k + i] = p[a + (k + i)]
      BY <3>1 DEF Part
    <3>3. QED
      BY <1>2, <3>1, <3>2
  <2>2. QED
    BY <1>1, <1>2, <2>1 DEF Part
<1>5. QED
  BY <1>3, <1>4

(* A part and the one that follows it make a part.                         *)
LEMMA PartJoin ==
    ASSUME NEW S, NEW s \in Seq(S), NEW t \in Seq(S), NEW p \in Seq(S), NEW a \in Nat,
           Part(s, p, a), Part(t, p, a + Len(s))
    PROVE  /\ Part(s \o t, p, a) /\ s \o t \in Seq(S) /\ Len(s \o t) = Len(s) + Len(t)
<1>1. Len(s) \in Nat /\ Len(t) \in Nat /\ Len(p) \in Nat /\ a + Len(s) + Len(t) <= Len(p)
  BY SeqIs DEF Part
<1> DEFINE st == s \o t
<1>2. /\ st \in Seq(S) /\ Len(st) = Len(s) + Len(t)
      /\ \A i \in 1..(Len(s) + Len(t)) : st[i] = IF i <= Len(s) THEN s[i] ELSE t[i - Len(s)]
  BY ConcatIs
<1> HIDE DEF st
<1>3. ASSUME NEW i \in 1..(Len(s) + Len(t)) PROVE st[i] = p[a + i]
  <2>1. CASE i <= Len(s)
    <3>1. i \in 1..Len(s)
      BY <1>1, <2>1
    <3>2. s[i] = p[a + i]
      BY <3>1 DEF Part
    <3>3. QED
      BY <1>2, <2>1, <3>2
  <2>2. CASE i > Len(s)
    <3>1. i - Len(s) \in 1..Len(t) /\ a + Len(s) + (i - Len(s)) = a + i
      BY <1>1, <2>2
    <3>2. t[i - Len(s)] = p[a + Len(s) + (i - Len(s))]
      BY <3>1 DEF Part
    <3>3. QED
      BY <1>1, <1>2, <2>2, <3>1, <3>2
  <2>3. QED
    BY <1>1, <2>1, <2>2
<1>4. Part(st, p, a)
  <2>1. a + Len(st) <= Len(p) /\ 1..Len(st) = 1..(Len(s) + Len(t))
    BY <1>1, <1>2
  <2>2. QED
    BY <1>3, <2>1 DEF Part
<1>5. QED
  BY <1>2, <1>4 DEF st

(* A sequence is empty exactly when it has no length.                      *)
LEMMA EmptyLen ==
    ASSUME NEW S, NEW s \in Seq(S)
    PROVE  Len(s) \in Nat /\ (s = << >> <=> Len(s) = 0)
BY EmptyIs, SeqIs

-----------------------------------------------------------------------------
(* Packets *)

(* Carried is a length.                                                    *)
LEMMA CarriedType ==
    ASSUME NEW kind \in {"request", "response"}, NEW dir \in Dirs, NEW len \in Lengths
    PROVE  Carried(kind, dir, len) \in Nat
BY TcpUsbConstants DEF Carried, PayloadLen, Lengths, NAK

(* A packet is a header and what it announces; every byte knows its place. *)
LEMMA PacketShape ==
    ASSUME NEW kind \in {"request", "response"}, NEW x \in Nat, NEW p \in Packets(kind, x)
    PROVE  /\ p \in Seq(Byte) /\ Len(p) \in Nat /\ Len(p) >= HDR /\ p # << >>
           /\ Len(p) = HDR + Carried(p[1].kind, p[1].dir, p[1].len)
           /\ p[1].x = x /\ p[1].kind = kind /\ p[1].dir \in Dirs /\ p[1].len \in Lengths
           /\ p = Packet(kind, x, p[1].dir, p[1].len)
           /\ \A i \in 1..Len(p) : p[i].at = i
<1>1. PICK dir \in Dirs, len \in Lengths : p = Packet(kind, x, dir, len)
  BY DEF Packets
<1> DEFINE n == HDR + Carried(kind, dir, len)
<1>2. n \in Nat /\ n >= HDR /\ n >= 1
  BY CarriedType, TcpUsbConstants
<1>3. /\ p \in [1..n -> Byte]
      /\ \A i \in 1..n : p[i] = [kind |-> kind, x |-> x, dir |-> dir, len |-> len, at |-> i]
  <2>1. p = [i \in 1..n |-> [kind |-> kind, x |-> x, dir |-> dir, len |-> len, at |-> i]]
    BY <1>1 DEF Packet
  <2> HIDE DEF n
  <2>2. \A i \in 1..n : [kind |-> kind, x |-> x, dir |-> dir, len |-> len, at |-> i] \in Byte
    BY <1>2 DEF Byte, Dirs
  <2>3. QED
    BY <2>1, <2>2
<1> HIDE DEF n
<1>4. p \in Seq(Byte) /\ Len(p) = n
  BY <1>2, <1>3
<1>5. /\ p[1].kind = kind /\ p[1].x = x /\ p[1].dir = dir /\ p[1].len = len
      /\ \A i \in 1..n : p[i].at = i
  BY <1>2, <1>3
<1>6. p # << >>
  BY <1>2, <1>4, EmptyLen
<1>7. QED
  BY <1>1, <1>2, <1>4, <1>5, <1>6 DEF n

(* An end that has the first bytes of a packet knows how many are missing, *)
(* and has the whole of it when none is.                                   *)
LEMMA StartNeeds ==
    ASSUME NEW kind \in {"request", "response"}, NEW x \in Nat, NEW p \in Packets(kind, x),
           NEW got \in Seq(Byte), Part(got, p, 0)
    PROVE  /\ Len(got) < HDR => Need(got) = HDR - Len(got)
           /\ Len(got) >= HDR => got[1] = p[1] /\ Need(got) = Len(p) - Len(got)
           /\ Whole(got) <=> Len(got) = Len(p)
           /\ Whole(got) => got = p
<1>1. /\ p \in Seq(Byte) /\ Len(p) \in Nat /\ Len(p) >= HDR /\ Len(got) \in Nat /\ Len(got) <= Len(p)
      /\ Len(p) = HDR + Carried(p[1].kind, p[1].dir, p[1].len)
  BY PacketShape, SeqIs DEF Part
<1>2. ASSUME Len(got) >= HDR PROVE got[1] = p[1] /\ Need(got) = Len(p) - Len(got)
  <2>1. got[1] = p[1]
    BY <1>1, <1>2, TcpUsbConstants DEF Part
  <2>2. QED
    <3>1. Need(got) = HDR + Carried(p[1].kind, p[1].dir, p[1].len) - Len(got)
      BY <1>1, <1>2, <2>1, TcpUsbConstants DEF Need
    <3>2. Carried(p[1].kind, p[1].dir, p[1].len) \in Nat
      BY PacketShape, CarriedType
    <3>3. QED
      BY <1>1, <2>1, <3>1, <3>2, TcpUsbConstants
<1>3. Len(got) < HDR => Need(got) = HDR - Len(got)
  BY DEF Need
<1>4. Whole(got) <=> Len(got) = Len(p)
  BY <1>1, <1>2, TcpUsbConstants DEF Whole
<1>5. Whole(got) => got = p
  BY <1>1, <1>4, SeqSame DEF Part
<1>6. QED
  BY <1>2, <1>3, <1>4, <1>5

(* A write never offers more than there is.                                *)
LEMMA OfferBound ==
    ASSUME NEW kind \in {"request", "response"}, NEW x \in Nat, NEW p \in Packets(kind, x),
           NEW left \in Seq(Byte), left # << >>,
           NEW a \in Nat, Len(p) = a + Len(left), Part(left, p, a),
           NEW k \in Nat \ {0}, k <= Offer(left)
    PROVE  k \in 1..Len(left)
<1>1. /\ Len(p) \in Nat /\ Len(p) >= HDR /\ Len(left) \in Nat /\ Len(left) > 0
      /\ \A i \in 1..Len(p) : p[i].at = i
  <2>1. Len(p) \in Nat /\ Len(p) >= HDR /\ \A i \in 1..Len(p) : p[i].at = i
    BY PacketShape, Zenon
  <2>2. Len(left) \in Nat /\ Len(left) > 0
    BY EmptyLen
  <2>3. QED
    BY <2>1, <2>2
<1>2. left[1].at = a + 1
  <2>1. left[1] = p[a + 1]
    BY <1>1 DEF Part
  <2>2. a + 1 \in 1..Len(p)
    BY <1>1
  <2>3. QED
    BY <1>1, <2>1, <2>2
<1>3. QED
  BY <1>1, <1>2, TcpUsbConstants DEF Offer

(* The empty sequence is a part anywhere in reach.                         *)
LEMMA EmptyPart ==
    ASSUME NEW p \in Seq(Byte), NEW a \in 0..Len(p)
    PROVE  Part(<< >>, p, a)
<1>1. Len(<< >>) = 0 /\ Len(p) \in Nat
  BY EmptyIs, SeqIs
<1>2. QED
  BY <1>1 DEF Part

(* A packet is all of itself.                                              *)
LEMMA SpansSelf ==
    ASSUME NEW p \in Seq(Byte)
    PROVE  /\ Spans(p, << >>, << >>, p) /\ Spans(p, p, << >>, << >>)
           /\ Part(p, p, 0)
<1>1. << >> \in Seq(Byte) /\ Len(<< >>) = 0 /\ Len(p) \in Nat
  BY EmptyIs, SeqIs
<1>2. Part(<< >>, p, 0) /\ Part(<< >>, p, Len(p))
  BY <1>1, EmptyPart
<1>3. Part(p, p, 0)
  BY <1>1 DEF Part
<1>4. QED
  BY <1>1, <1>2, <1>3 DEF Spans

(* Bytes that are read move from the socket to the reader.                 *)
LEMMA PartRead ==
    ASSUME NEW p \in Seq(Byte), NEW s \in Seq(Byte), NEW t \in Seq(Byte),
           Part(s, p, 0), Part(t, p, Len(s)), NEW k \in 1..Len(t)
    PROVE  /\ s \o Prefix(t, k) \in Seq(Byte) /\ Len(s \o Prefix(t, k)) = Len(s) + k
           /\ Drop(t, k) \in Seq(Byte) /\ Len(Drop(t, k)) = Len(t) - k
           /\ Part(s \o Prefix(t, k), p, 0)
           /\ Part(Drop(t, k), p, Len(s) + k)
<1>1. Len(s) \in Nat /\ Len(t) \in Nat /\ k \in Nat
  BY SeqIs
<1>2. /\ Prefix(t, k) \in Seq(Byte) /\ Len(Prefix(t, k)) = k
      /\ Drop(t, k) \in Seq(Byte) /\ Len(Drop(t, k)) = Len(t) - k
  BY PrefixDrop
<1>3. Part(Prefix(t, k), p, Len(s)) /\ Part(Drop(t, k), p, Len(s) + k)
  BY <1>1, PartSplit
<1> DEFINE a == Prefix(t, k)
<1>4. a \in Seq(Byte) /\ Len(a) = k /\ Part(a, p, 0 + Len(s))
  BY <1>1, <1>2, <1>3
<1> HIDE DEF a
<1>5. Part(s \o a, p, 0) /\ s \o a \in Seq(Byte) /\ Len(s \o a) = Len(s) + Len(a)
  BY <1>1, <1>4, PartJoin, Zenon
<1>6. QED
  BY <1>2, <1>3, <1>4, <1>5 DEF a

(* An end reads part of what is on the way to it.                          *)
LEMMA SpansRead ==
    ASSUME NEW p \in Seq(Byte), NEW s \in Seq(Byte), NEW t \in Seq(Byte), NEW u \in Seq(Byte),
           Spans(p, s, t, u), NEW k \in 1..Len(t)
    PROVE  Spans(p, s \o Prefix(t, k), Drop(t, k), u)
<1>1. /\ Len(s) \in Nat /\ Len(t) \in Nat /\ Len(u) \in Nat /\ k \in Nat
      /\ Len(p) = Len(s) + Len(t) + Len(u)
  BY SeqIs DEF Spans
<1>2. /\ Len(s \o Prefix(t, k)) = Len(s) + k /\ Len(Drop(t, k)) = Len(t) - k
      /\ Part(s \o Prefix(t, k), p, 0) /\ Part(Drop(t, k), p, Len(s) + k)
  BY PartRead DEF Spans
<1>3. (Len(s) + k) + (Len(t) - k) = Len(s) + Len(t)
  BY <1>1
<1>4. QED
  BY <1>1, <1>2, <1>3 DEF Spans

(* Bytes that are written move from the writer to the socket.              *)
LEMMA SpansWrite ==
    ASSUME NEW p \in Seq(Byte), NEW s \in Seq(Byte), NEW t \in Seq(Byte), NEW u \in Seq(Byte),
           Spans(p, s, t, u), NEW k \in 1..Len(u)
    PROVE  /\ Spans(p, s, t \o Prefix(u, k), Drop(u, k))
           /\ t \o Prefix(u, k) \in Seq(Byte) /\ Len(t \o Prefix(u, k)) = Len(t) + k
           /\ Drop(u, k) \in Seq(Byte) /\ Len(Drop(u, k)) = Len(u) - k
<1>1. /\ Len(s) \in Nat /\ Len(t) \in Nat /\ Len(u) \in Nat /\ k \in Nat
      /\ Len(p) = Len(s) + Len(t) + Len(u)
      /\ Part(s, p, 0) /\ Part(t, p, Len(s)) /\ Part(u, p, Len(s) + Len(t))
  BY SeqIs DEF Spans
<1> DEFINE a == Prefix(u, k)
<1>2. /\ a \in Seq(Byte) /\ Len(a) = k
      /\ Drop(u, k) \in Seq(Byte) /\ Len(Drop(u, k)) = Len(u) - k
  BY PrefixDrop
<1>3. Len(s) + Len(t) \in Nat
  BY <1>1
<1>4. Part(a, p, Len(s) + Len(t)) /\ Part(Drop(u, k), p, (Len(s) + Len(t)) + k)
  BY <1>1, <1>3, PartSplit
<1> HIDE DEF a
<1>5. Part(t \o a, p, Len(s)) /\ t \o a \in Seq(Byte) /\ Len(t \o a) = Len(t) + k
  BY <1>1, <1>2, <1>4, PartJoin, Zenon
<1>6. /\ Len(p) = Len(s) + (Len(t) + k) + (Len(u) - k)
      /\ Len(s) + (Len(t) + k) = (Len(s) + Len(t)) + k
  BY <1>1
<1>7. Spans(p, s, t \o a, Drop(u, k))
  BY <1>1, <1>2, <1>4, <1>5, <1>6 DEF Spans
<1>8. QED
  BY <1>2, <1>5, <1>7 DEF a

(* What is written without knowing the rest.                               *)
LEMMA PartWrite ==
    ASSUME NEW p \in Seq(Byte), NEW u \in Seq(Byte), Len(u) <= Len(p),
           Part(u, p, Len(p) - Len(u)), NEW k \in 1..Len(u)
    PROVE  Len(Drop(u, k)) <= Len(p) /\ Part(Drop(u, k), p, Len(p) - Len(Drop(u, k)))
<1>1. Len(u) \in Nat /\ Len(p) \in Nat /\ Len(p) - Len(u) \in Nat
  BY SeqIs
<1>2. Len(Drop(u, k)) = Len(u) - k
  BY PrefixDrop
<1>3. Part(Drop(u, k), p, (Len(p) - Len(u)) + k)
  BY <1>1, PartSplit
<1>4. (Len(p) - Len(u)) + k = Len(p) - (Len(u) - k)
  BY <1>1
<1>5. QED
  BY <1>1, <1>2, <1>3, <1>4

-----------------------------------------------------------------------------
(* The state machine of an end *)

(* f is e but for its handler.                                             *)
SameBut(e, f) ==
    /\ f.open = e.open /\ f.closed = e.closed /\ f.state = e.state /\ f.got = e.got
    /\ f.left = e.left /\ f.owns = e.owns /\ f.request_len = e.request_len

(* tcp_usb_callback changes only what is watched, on a live socket.        *)
LEMMA RearmShape ==
    ASSUME NEW e \in End, Watched(e)
    PROVE  Rearm(e) \in End /\ Watched(Rearm(e)) /\ SameBut(e, Rearm(e))
<1>1. CASE e.closed \/ ~e.open
  BY <1>1 DEF Rearm, SameBut
<1>2. CASE ~e.closed /\ e.open
  <2> DEFINE h == {"read"} \cup
             (IF e.state \in {"write_request", "write_response"} THEN {"write"} ELSE {})
  <2>1. h \in SUBSET {"read", "write"}
    OBVIOUS
  <2>2. Rearm(e) = [e EXCEPT !.handler = h]
    BY <1>2 DEF Rearm
  <2> HIDE DEF h
  <2>3. QED
    BY <1>2, <2>1, <2>2, Zenon DEF End, Watched, SameBut
<1>3. QED
  BY <1>1, <1>2

(* A ready end is live: its socket is open and it has not given up.        *)
LEMMA ReadyIsLive ==
    ASSUME NEW e, Watched(e), NEW inbox, NEW outbox, NEW peer,
           Readable(e, inbox, peer) \/ Writable(e, outbox, peer)
    PROVE  e.open /\ ~e.closed
BY DEF Readable, Writable, Watched

-----------------------------------------------------------------------------
(* No socket yet.                                                          *)
LEMMA InitInv == Init => Inv
<1> SUFFICES ASSUME Init PROVE Inv
  OBVIOUS
<1>1. << >> \in Seq(Byte) /\ Len(<< >>) = 0
  BY EmptyIs
<1>2. NoSocket \in End
  BY <1>1, TcpUsbConstants DEF NoSocket, End
<1>3. OwnedWhileServed
  BY <1>1, <1>2, TcpUsbConstants DEF Init, OwnedWhileServed, TypeOK, NoSocket
<1>4. DevInv /\ HostInv /\ LinkInv
  BY DEF Init, DevInv, HostInv, LinkInv, Watched, NoSocket
<1>5. QED
  BY <1>3, <1>4 DEF Inv

(* The types the invariant gives.                                          *)
LEMMA Types ==
    ASSUME Inv
    PROVE  /\ dev \in End /\ host \in End
           /\ {toDev, toHost, dev.got, dev.left, host.got, host.left} \subseteq Seq(Byte)
           /\ {Len(toDev), Len(toHost), Len(dev.got), Len(dev.left), Len(host.got), Len(host.left)}
                 \subseteq Nat
           /\ Len(toDev) <= CAP /\ Len(toHost) <= CAP
           /\ requests \in Nat /\ Watched(dev) /\ Watched(host)
<1>1. /\ dev \in End /\ host \in End /\ toDev \in Seq(Byte) /\ toHost \in Seq(Byte)
      /\ Len(toDev) <= CAP /\ Len(toHost) <= CAP /\ requests \in 0..MaxRequests
      /\ Watched(dev) /\ Watched(host)
  BY DEF Inv, OwnedWhileServed, TypeOK, DevInv, HostInv
<1>2. {dev.got, dev.left, host.got, host.left} \subseteq Seq(Byte)
  BY <1>1 DEF End
<1>3. QED
  BY <1>1, <1>2, SeqIs

(* What one read of the device end does to it.                             *)
LEMMA DevReadShape ==
    ASSUME Inv, DevRead
    PROVE  \E k \in 1..Len(toDev) :
             /\ toDev' = Drop(toDev, k)
             /\ dev' \in End /\ Watched(dev') /\ dev'.open /\ ~dev'.closed /\ dev'.owns
             /\ dev'.got = Had \o Prefix(toDev, k)
             /\ \/ dev'.state = "read_request" /\ ~Whole(dev'.got)
                \/ /\ dev'.state = "write_response" /\ Whole(dev'.got)
                   /\ \E len \in Lengths :
                         dev'.left = Packet("response", dev'.got[1].x, dev'.got[1].dir, len)
<1>1. /\ dev \in End /\ toDev \in Seq(Byte) /\ Watched(dev) /\ dev.open /\ ~dev.closed /\ Reading
  BY ReadyIsLive, Zenon DEF Inv, OwnedWhileServed, TypeOK, DevInv, DevRead, Reading
<1>2. PICK k \in 1..Len(toDev) :
        /\ toDev' = Drop(toDev, k)
        /\ LET got == Had \o Prefix(toDev, k)
               reading == [dev EXCEPT !.state = "read_request", !.owns = TRUE, !.got = got]
           IN IF ~Whole(got) THEN dev' = Rearm(reading)
              ELSE \E len \in Replies :
                      dev' = Rearm([reading EXCEPT !.state = "write_response",
                                !.left = Packet("response", got[1].x, got[1].dir, len)])
  BY Zenon DEF DevRead, Had
<1> DEFINE got == Had \o Prefix(toDev, k)
           reading == [dev EXCEPT !.state = "read_request", !.owns = TRUE, !.got = got]
<1>3a. PICK x \in 0..requests : \E p \in Packets("request", x) :
           Part(Had, p, 0) /\ Part(toDev, p, Len(Had))
  BY <1>1 DEF Inv, DevInv
<1>3. PICK p \in Packets("request", x) : Part(Had, p, 0) /\ Part(toDev, p, Len(Had))
  BY <1>3a
<1>4. x \in Nat /\ p \in Seq(Byte) /\ Had \in Seq(Byte)
  <2>1. x \in Nat /\ Had \in Seq(Byte)
    BY <1>1, EmptyIs DEF End, Had, Inv, OwnedWhileServed, TypeOK
  <2>2. QED
    BY <2>1, PacketShape
<1>5. got \in Seq(Byte) /\ Part(got, p, 0)
  BY <1>1, <1>3, <1>4, PartRead
<1> HIDE DEF got
<1>6. /\ reading \in End /\ Watched(reading) /\ reading.open /\ ~reading.closed
      /\ reading.owns /\ reading.got = got /\ reading.state = "read_request"
  BY <1>1, <1>5, Zenon DEF End, Watched
<1> HIDE DEF reading
<1>7. CASE ~Whole(got)
  <2>1. dev' = Rearm(reading)
    BY <1>2, <1>7 DEF got, reading
  <2>2. dev' \in End /\ Watched(dev') /\ SameBut(reading, dev')
    BY <1>6, <2>1, RearmShape
  <2>3. QED
    BY <1>2, <1>6, <1>7, <2>2 DEF SameBut, got
<1>8. CASE Whole(got)
  <2>1. PICK len \in Replies :
          dev' = Rearm([reading EXCEPT !.state = "write_response",
                            !.left = Packet("response", got[1].x, got[1].dir, len)])
    BY <1>2, <1>8, Zenon DEF got, reading
  <2> DEFINE left == Packet("response", got[1].x, got[1].dir, len)
             r == [reading EXCEPT !.state = "write_response", !.left = left]
  <2>2. len \in Lengths
    BY DEF Replies, Lengths
  <2>3. left \in Seq(Byte)
    <3>1. got = p /\ p[1].x = x /\ p[1].dir \in Dirs
      BY <1>4, <1>5, <1>8, StartNeeds, PacketShape
    <3>2. left \in Packets("response", x)
      BY <2>2, <3>1 DEF Packets
    <3>3. QED
      BY <1>4, <3>2, PacketShape
  <2> HIDE DEF left
  <2>4. /\ r \in End /\ Watched(r) /\ r.open /\ ~r.closed /\ r.owns /\ r.got = got
        /\ r.state = "write_response" /\ r.left = left
    BY <1>6, <2>3, Zenon DEF End, Watched
  <2>5. dev' = Rearm(r)
    BY <2>1 DEF left
  <2> HIDE DEF r
  <2>6. dev' \in End /\ Watched(dev') /\ SameBut(r, dev')
    BY <2>4, <2>5, RearmShape
  <2>7. QED
    BY <1>2, <1>8, <2>2, <2>4, <2>6, Zenon DEF SameBut, got, left
<1>9. QED
  BY <1>7, <1>8, Zenon

(* One read of the device end.                                             *)
LEMMA DevReadInv ==
    ASSUME Inv, DevRead
    PROVE  Inv'
<1>1. PICK k \in 1..Len(toDev) :
        /\ toDev' = Drop(toDev, k)
        /\ dev' \in End /\ Watched(dev') /\ dev'.open /\ ~dev'.closed /\ dev'.owns
        /\ dev'.got = Had \o Prefix(toDev, k)
        /\ \/ dev'.state = "read_request" /\ ~Whole(dev'.got)
           \/ /\ dev'.state = "write_response" /\ Whole(dev'.got)
              /\ \E len \in Lengths :
                    dev'.left = Packet("response", dev'.got[1].x, dev'.got[1].dir, len)
  BY DevReadShape
<1>2. UNCHANGED <<host, toHost, requests, connects>>
  BY Zenon DEF DevRead
<1>3. /\ dev \in End /\ toDev \in Seq(Byte) /\ Len(toDev) \in Nat /\ Len(toDev) <= CAP
      /\ toDev # << >> /\ dev.open /\ ~dev.closed /\ Reading /\ Had \in Seq(Byte)
  BY ReadyIsLive, SeqIs, EmptyIs, Zenon
     DEF Inv, OwnedWhileServed, TypeOK, DevInv, DevRead, Reading, Had, End
<1>4. toDev' \in Seq(Byte) /\ Len(toDev') = Len(toDev) - k
  BY <1>1, <1>3, PrefixDrop
<1>5. OwnedWhileServed'
  <2>1. Len(toDev') <= CAP
    BY <1>3, <1>4, TcpUsbConstants
  <2>2. TypeOK'
    BY <1>1, <1>2, <1>4, <2>1 DEF Inv, OwnedWhileServed, TypeOK
  <2>3. QED
    BY <1>1, <1>2, <2>2 DEF Inv, OwnedWhileServed
<1>6. requests \in Nat /\ 0..requests' = 0..requests
  BY <1>2 DEF Inv, OwnedWhileServed, TypeOK
<1>7. ASSUME NEW x \in Nat, NEW p \in Packets("request", x), Part(Had, p, 0), Part(toDev, p, Len(Had))
      PROVE  /\ p \in Seq(Byte) /\ Len(p) \in Nat /\ dev'.got \in Seq(Byte)
             /\ Part(dev'.got, p, 0) /\ Part(toDev', p, Len(dev'.got))
             /\ Len(dev'.got) = Len(Had) + k
             /\ dev'.state = "read_request" => Len(dev'.got) < Len(p)
             /\ dev'.state = "write_response" =>
                   dev'.got = p /\ dev'.left \in Packets("response", x)
  <2>1. p \in Seq(Byte) /\ Len(p) \in Nat /\ p[1].x = x /\ p[1].dir \in Dirs
    BY <1>7, PacketShape
  <2>2. /\ dev'.got \in Seq(Byte) /\ Part(dev'.got, p, 0) /\ Part(toDev', p, Len(dev'.got))
        /\ Len(dev'.got) = Len(Had) + k
    BY <1>1, <1>3, <1>7, <2>1, PartRead
  <2>3. (Whole(dev'.got) <=> Len(dev'.got) = Len(p)) /\ (Whole(dev'.got) => dev'.got = p)
    BY <1>7, <2>2, StartNeeds
  <2>4. dev'.state = "read_request" => Len(dev'.got) < Len(p)
    BY <1>1, <2>1, <2>2, <2>3, SeqIs DEF Part
  <2>5. ASSUME dev'.state = "write_response"
        PROVE  dev'.got = p /\ dev'.left \in Packets("response", x)
    <3>1. PICK len \in Lengths : dev'.left = Packet("response", dev'.got[1].x, dev'.got[1].dir, len)
      BY <1>1, <2>5, Zenon
    <3>2. dev'.got = p
      BY <1>1, <2>3, <2>5
    <3>3. dev'.left = Packet("response", x, p[1].dir, len)
      BY <2>1, <3>1, <3>2
    <3>4. QED
      BY <2>1, <3>2, <3>3 DEF Packets
  <2>6. QED
    BY <2>1, <2>2, <2>4, <2>5
<1>8. dev'.state = "read_request" => Had' = dev'.got
  BY DEF Had
<1>9. DevInv'
  <2>1a. PICK x \in 0..requests : \E p \in Packets("request", x) :
             Part(Had, p, 0) /\ Part(toDev, p, Len(Had))
    BY <1>3 DEF Inv, DevInv
  <2>1. PICK p \in Packets("request", x) : Part(Had, p, 0) /\ Part(toDev, p, Len(Had))
    BY <2>1a
  <2>2. x \in Nat
    BY <1>6
  <2>3. CASE dev'.state = "read_request"
    BY <1>1, <1>2, <1>6, <1>7, <1>8, <2>1, <2>2, <2>3, Zenon DEF DevInv, Reading
  <2>4. CASE dev'.state = "write_response"
    <3>1. dev'.got = p /\ dev'.left \in Packets("response", x) /\ p[1].x = x
      BY <1>7, <2>1, <2>2, <2>4, PacketShape
    <3>2. dev'.left \in Seq(Byte) /\ dev'.left # << >> /\ Len(dev'.left) \in Nat
      BY <2>2, <3>1, PacketShape
    <3>3. Part(dev'.left, dev'.left, Len(dev'.left) - Len(dev'.left))
      BY <3>2, SpansSelf
    <3>4. QED
      BY <1>1, <1>2, <1>6, <2>1, <2>4, <3>1, <3>2, <3>3 DEF DevInv, Reading
  <2>5. QED
    BY <1>1, <2>3, <2>4
<1>10. HostInv'
  BY <1>2, SMTT(20) DEF Inv, HostInv, Fits
<1>11. LinkInv'
  <2> SUFFICES ASSUME host.open
               PROVE  Asking' \/ Asked' \/ Answering' \/ Answered' \/ Quiet' \/ GivenUp'
    BY <1>2, SMTT(20) DEF LinkInv
  <2>1. Asking \/ Asked
    BY <1>3 DEF Inv, LinkInv, Asking, Asked, Answering, Answered, Quiet, GivenUp, Reading
  <2> DEFINE rest == IF Asking THEN host.left ELSE << >>
  <2>2. rest \in Seq(Byte) /\ (Asking => rest # << >>)
    BY EmptyIs DEF Inv, OwnedWhileServed, TypeOK, End, Asking
  <2>3. PICK p \in Packets("request", requests) : Spans(p, Had, toDev, rest)
    BY <2>1, SMTT(20) DEF Asking, Asked
  <2>4. Spans(p, dev'.got, toDev', rest)
    <3>1. p \in Seq(Byte)
      BY <1>6, <2>3, PacketShape
    <3>2. Spans(p, Had \o Prefix(toDev, k), Drop(toDev, k), rest)
      BY <1>3, <2>2, <2>3, <3>1, SpansRead, Zenon
    <3>3. QED
      BY <1>1, <3>2
  <2>5. /\ Len(p) = Len(dev'.got) + Len(toDev') + Len(rest) /\ Len(rest) \in Nat
        /\ Len(toDev') \in Nat /\ Len(dev'.got) \in Nat
    BY <1>1, <1>4, <2>2, <2>4, SeqIs DEF Spans, End
  <2>6. /\ dev'.state = "read_request" => Len(dev'.got) < Len(p)
        /\ dev'.state = "write_response" => dev'.got = p /\ dev'.left \in Packets("response", requests)
    BY <1>6, <1>7, <2>3, Zenon DEF Spans
  <2> HIDE DEF rest
  <2>7. CASE dev'.state = "read_request"
    <3>1. CASE Asking
      <4>1. rest = host.left
        BY <3>1 DEF rest
      <4>2. Asking'
        BY <1>2, <1>8, <2>3, <2>4, <2>7, <3>1, <4>1 DEF Asking, Reading
      <4>3. QED
        BY <4>2
    <3>2. CASE ~Asking
      <4>1. rest = << >> /\ Len(rest) = 0
        BY <3>2, EmptyIs DEF rest
      <4>2. toDev' # << >>
        BY <1>4, <2>5, <2>6, <2>7, <4>1, EmptyLen
      <4>3. Asked'
        BY <1>2, <1>8, <2>1, <2>3, <2>4, <2>7, <3>2, <4>1, <4>2 DEF Asked, Reading
      <4>4. QED
        BY <4>3
    <3>3. QED
      BY <3>1, <3>2
  <2>8. CASE dev'.state = "write_response"
    <3>1. Len(toDev') = 0 /\ Len(rest) = 0 /\ dev'.got = p /\ dev'.left \in Packets("response", requests)
      BY <2>5, <2>6, <2>8
    <3>2. toDev' = << >> /\ Asked
      BY <1>4, <2>1, <2>2, <3>1, EmptyLen
    <3>3. /\ dev'.left \in Seq(Byte) /\ dev'.left # << >> /\ p[1].x = requests
      BY <1>6, <3>1, <2>3, PacketShape
    <3>4. Spans(dev'.left, host.got, toHost, dev'.left)
      BY <3>2, <3>3, SpansSelf DEF Asked
    <3>5. Answering'
      BY <1>2, <2>8, <3>1, <3>2, <3>3, <3>4 DEF Asked, Answering
    <3>6. QED
      BY <3>5
  <2>9. QED
    BY <1>1, <2>7, <2>8
<1>12. QED
  BY <1>5, <1>9, <1>10, <1>11 DEF Inv

-----------------------------------------------------------------------------
(* With nothing read and nothing on its way, any packet may follow.        *)
LEMMA NothingYet ==
    ASSUME requests \in Nat, NEW kind \in {"request", "response"}, NEW x \in Nat
    PROVE  \E p \in Packets(kind, x) : Part(<< >>, p, 0) /\ Part(<< >>, p, Len(<< >>)) /\ Len(<< >>) < Len(p)
<1> DEFINE p == Packet(kind, x, "in", 0)
<1>1. p \in Packets(kind, x)
  BY TcpUsbConstants DEF Packets, Dirs, Lengths
<1> HIDE DEF p
<1>2. p \in Seq(Byte) /\ Len(p) \in Nat /\ Len(p) > 0 /\ Len(<< >>) = 0
  BY <1>1, PacketShape, EmptyLen, EmptyIs
<1>3. Part(<< >>, p, 0)
  BY <1>2, EmptyPart
<1>4. QED
  BY <1>1, <1>2, <1>3

(* What one write of the device end does to it.                            *)
LEMMA DevWriteShape ==
    ASSUME Inv, DevWrite
    PROVE  \E k \in 1..Len(dev.left) :
             /\ k <= CAP - Len(toHost)
             /\ toHost' = toHost \o Prefix(dev.left, k)
             /\ dev' \in End /\ Watched(dev') /\ dev'.open /\ ~dev'.closed /\ dev'.got = dev.got
             /\ dev'.left = Drop(dev.left, k)
             /\ dev'.state = IF dev'.left = << >> THEN "idle" ELSE "write_response"
             /\ dev'.owns = (dev'.left # << >>)
<1>1. /\ dev \in End /\ toHost \in Seq(Byte) /\ Watched(dev) /\ dev.open /\ ~dev.closed /\ dev.owns
      /\ dev.left \in Seq(Byte) /\ requests \in Nat /\ Len(toHost) \in Nat
  <2>1. dev.open /\ ~dev.closed
    BY Types, ReadyIsLive, Zenon DEF DevWrite
  <2>2. dev.owns
    BY <2>1 DEF Inv, OwnedWhileServed, DevWrite
  <2>3. QED
    BY <2>1, <2>2, Types
<1>2. PICK k \in 1..(CAP - Len(toHost)) :
        /\ k <= Offer(dev.left)
        /\ toHost' = toHost \o Prefix(dev.left, k)
        /\ dev' = Rearm(IF Drop(dev.left, k) # << >> THEN [dev EXCEPT !.left = Drop(dev.left, k)]
                        ELSE [FreePacket(dev) EXCEPT !.state = "idle", !.left = << >>])
  BY DEF DevWrite
<1>3. k \in 1..Len(dev.left)
  <2>1. dev.left # << >>
    BY <1>1 DEF Inv, DevInv, DevWrite
  <2>2. PICK x \in 0..requests : \E p \in Packets("response", x) :
            Len(dev.left) <= Len(p) /\ Part(dev.left, p, Len(p) - Len(dev.left))
    BY <1>1 DEF Inv, DevInv, DevWrite
  <2>3. PICK p \in Packets("response", x) :
            Len(dev.left) <= Len(p) /\ Part(dev.left, p, Len(p) - Len(dev.left))
    BY <2>2
  <2>4. x \in Nat /\ k \in Nat \ {0}
    BY <1>1, TcpUsbConstants
  <2>5. Len(p) \in Nat /\ Len(dev.left) \in Nat
    BY <2>3, <2>4, PacketShape, Types
  <2>6. Len(p) - Len(dev.left) \in Nat /\ Len(p) = (Len(p) - Len(dev.left)) + Len(dev.left)
    BY <2>3, <2>5
  <2>7. QED
    BY <1>1, <1>2, <2>1, <2>3, <2>4, <2>6, OfferBound
<1>4. Drop(dev.left, k) \in Seq(Byte) /\ k <= CAP - Len(toHost)
  BY <1>1, <1>2, <1>3, PrefixDrop, TcpUsbConstants
<1> DEFINE left == Drop(dev.left, k)
           r == IF left # << >> THEN [dev EXCEPT !.left = left]
                ELSE [FreePacket(dev) EXCEPT !.state = "idle", !.left = << >>]
<1>5. dev' = Rearm(r) /\ left \in Seq(Byte) /\ << >> \in Seq(Byte)
  BY <1>2, <1>4, EmptyIs
<1> HIDE DEF left
<1>6. /\ r \in End /\ Watched(r) /\ r.open /\ ~r.closed /\ r.got = dev.got /\ r.left = left
      /\ r.state = (IF left = << >> THEN "idle" ELSE "write_response")
      /\ r.owns = (left # << >>)
  <2>1. CASE left # << >>
    BY <1>1, <1>5, <2>1, Zenon DEF End, Watched, DevWrite
  <2>2. CASE left = << >>
    BY <1>1, <1>5, <2>2, Zenon DEF End, Watched, FreePacket
  <2>3. QED
    BY <2>1, <2>2
<1> HIDE DEF r
<1>7. dev' \in End /\ Watched(dev') /\ SameBut(r, dev')
  BY <1>5, <1>6, RearmShape
<1>8. QED
  BY <1>2, <1>3, <1>4, <1>6, <1>7, Zenon DEF SameBut, left

(* One write of the device end.                                            *)
LEMMA DevWriteInv ==
    ASSUME Inv, DevWrite
    PROVE  Inv'
<1>1. PICK k \in 1..Len(dev.left) :
        /\ k <= CAP - Len(toHost)
        /\ toHost' = toHost \o Prefix(dev.left, k)
        /\ dev' \in End /\ Watched(dev') /\ dev'.open /\ ~dev'.closed /\ dev'.got = dev.got
        /\ dev'.left = Drop(dev.left, k)
        /\ dev'.state = IF dev'.left = << >> THEN "idle" ELSE "write_response"
        /\ dev'.owns = (dev'.left # << >>)
  BY DevWriteShape, Zenon
<1>2. UNCHANGED <<host, toDev, requests, connects>>
  BY DEF DevWrite
<1>3. /\ dev.open /\ ~dev.closed /\ dev.state = "write_response" /\ host.open
      /\ dev.left \in Seq(Byte) /\ dev.left # << >> /\ Len(dev.left) \in Nat
      /\ host.got \in Seq(Byte) /\ toHost \in Seq(Byte) /\ Len(toHost) \in Nat /\ requests \in Nat
      /\ Len(host.got) \in Nat
  <2>1. dev.open /\ ~dev.closed /\ dev.state = "write_response" /\ host.open
    BY Types, ReadyIsLive, Zenon DEF DevWrite
  <2>2. dev.left # << >>
    BY <2>1 DEF Inv, DevInv
  <2>3. QED
    BY <2>1, <2>2, Types
<1>4. Answering \/ GivenUp
  BY <1>3 DEF Inv, LinkInv, Asking, Asked, Answered, Quiet, Reading
<1>5. /\ toHost' \in Seq(Byte) /\ Len(toHost') = Len(toHost) + k /\ Len(toHost') <= CAP
  <2>1. Prefix(dev.left, k) \in Seq(Byte) /\ Len(Prefix(dev.left, k)) = k
    BY <1>3, PrefixDrop
  <2>2. toHost' \in Seq(Byte) /\ Len(toHost') = Len(toHost) + Len(Prefix(dev.left, k))
    BY <1>1, <1>3, <2>1, ConcatIs, Zenon
  <2>3. QED
    BY <1>1, <1>3, <2>1, <2>2, TcpUsbConstants
<1>6. toHost' # << >>
  BY <1>3, <1>5, EmptyLen
<1>7. OwnedWhileServed'
  <2>1. TypeOK'
    BY <1>1, <1>2, <1>5 DEF Inv, OwnedWhileServed, TypeOK
  <2>2. QED
    BY <1>1, <1>2, <2>1, Zenon DEF Inv, OwnedWhileServed
<1>8. DevInv'
  <2>1. CASE dev'.left = << >>
    <3>1. Had' = << >> /\ toDev' = << >> /\ dev'.state = "idle"
      BY <1>1, <1>2, <1>4, <2>1 DEF Had, Answering, GivenUp
    <3>2. 0 \in 0..requests' /\ requests \in Nat
      BY <1>2, <1>3
    <3>3. \E p \in Packets("request", 0) : Part(Had', p, 0) /\ Part(toDev', p, Len(Had'))
      BY <3>1, <3>2, NothingYet
    <3>4. QED
      BY <1>1, <3>1, <3>2, <3>3 DEF DevInv
  <2>2. CASE dev'.left # << >>
    <3>1. PICK x \in 0..requests : \E p \in Packets("response", x) :
              Len(dev.left) <= Len(p) /\ Part(dev.left, p, Len(p) - Len(dev.left))
      BY <1>3 DEF Inv, DevInv
    <3>2. PICK p \in Packets("response", x) :
              Len(dev.left) <= Len(p) /\ Part(dev.left, p, Len(p) - Len(dev.left))
      BY <3>1
    <3>3. p \in Seq(Byte)
      BY <1>3, <3>2, PacketShape
    <3>4. Len(dev'.left) <= Len(p) /\ Part(dev'.left, p, Len(p) - Len(dev'.left))
      BY <1>1, <1>3, <3>2, <3>3, PartWrite, Zenon
    <3>5. \E y \in 0..requests : dev.got \in Packets("request", y)
      BY <1>3 DEF Inv, DevInv
    <3>6. QED
      BY <1>1, <1>2, <2>2, <3>1, <3>2, <3>4, <3>5, SMTT(20) DEF DevInv, Reading
  <2>3. QED
    BY <2>1, <2>2
<1>9. ASSUME Answering
      PROVE  \E p \in Packets("response", requests) :
                Spans(p, host.got, toHost', dev'.left) /\ Len(host.got) < Len(p)
  <2>1. PICK p \in Packets("response", requests) : Spans(p, host.got, toHost, dev.left)
    BY <1>9 DEF Answering
  <2>2. p \in Seq(Byte)
    BY <1>3, <2>1, PacketShape
  <2>3. Spans(p, host.got, toHost \o Prefix(dev.left, k), Drop(dev.left, k))
    BY <1>3, <2>1, <2>2, SpansWrite
  <2>4. Len(host.got) < Len(p)
    <3>1. Len(p) = Len(host.got) + Len(toHost) + Len(dev.left) /\ Len(dev.left) > 0
      BY <1>3, <2>1, EmptyLen DEF Spans
    <3>2. \A a, b, c \in Nat : c > 0 => a < a + b + c
      OBVIOUS
    <3>3. Len(host.got) \in Nat /\ Len(toHost) \in Nat /\ Len(dev.left) \in Nat
      BY <1>3
    <3>4. QED
      BY <3>1, <3>2, <3>3, Zenon
  <2>5. QED
    BY <1>1, <2>1, <2>3, <2>4
<1>10. HostInv'
  <2>1. CASE host.closed
    BY <1>2, <1>3, <2>1, SMTT(20) DEF Inv, HostInv
  <2>2. CASE ~host.closed
    <3>1. Answering
      BY <1>4, <2>2 DEF GivenUp
    <3>2. \E p \in Packets("response", requests) :
             Part(host.got, p, 0) /\ Part(toHost', p, Len(host.got)) /\ Len(host.got) < Len(p)
      BY <1>9, <3>1, Zenon DEF Spans
    <3>3. Watched(host) /\ Fits(host.got) /\ host.state = "read_response"
      BY <1>3, <2>2, <3>1 DEF Inv, HostInv, Answering
    <3>4. QED
      BY <1>2, <1>3, <3>2, <3>3 DEF HostInv, Fits
  <2>3. QED
    BY <2>1, <2>2
<1>11. LinkInv'
  <2>1. CASE GivenUp
    <3>1. GivenUp'
      BY <1>1, <1>2, <2>1 DEF GivenUp
    <3>2. QED
      BY <3>1, SMTT(20) DEF LinkInv
  <2>2. CASE Answering /\ dev'.left # << >>
    <3>1. Answering'
      BY <1>1, <1>2, <1>9, <2>2 DEF Answering
    <3>2. QED
      BY <3>1, SMTT(20) DEF LinkInv
  <2>3. CASE Answering /\ dev'.left = << >>
    <3>1. Answered'
      BY <1>1, <1>2, <1>6, <1>9, <2>3 DEF Answering, Answered
    <3>2. QED
      BY <3>1, SMTT(20) DEF LinkInv
  <2>4. QED
    BY <1>4, <2>1, <2>2, <2>3
<1>12. QED
  BY <1>7, <1>8, <1>10, <1>11 DEF Inv

(* The device end finds the host gone.                                     *)
LEMMA DevBrokenInv ==
    ASSUME Inv, DevBroken
    PROVE  Inv'
<1>1. dev \in End /\ dev.open /\ ~dev.closed /\ ~host.open /\ << >> \in Seq(Byte)
  BY ReadyIsLive, EmptyIs DEF Inv, OwnedWhileServed, TypeOK, DevInv, DevBroken, Broken
<1>2. UNCHANGED <<host, toDev, toHost, requests, connects>>
  BY DEF DevBroken
<1>3. /\ dev' \in End /\ dev'.open /\ dev'.closed /\ ~dev'.owns /\ dev'.handler = {}
      /\ dev'.state \in {"read_request", dev.state}
      /\ dev'.state = "write_response" => dev.state = "write_response" /\ dev'.got = dev.got
  <2>1. CASE dev.state = "idle"
    <3> DEFINE r == [dev EXCEPT !.state = "read_request", !.got = << >>, !.owns = TRUE]
    <3>1. r \in End /\ r.open /\ ~r.closed /\ r.state = "read_request"
      BY <1>1, Zenon DEF End
    <3>2. dev' = DoClosed(r)
      BY <2>1 DEF DevBroken
    <3> HIDE DEF r
    <3>3. QED
      BY <3>1, <3>2, Zenon DEF DoClosed, FreePacket, End
  <2>2. CASE dev.state # "idle"
    BY <1>1, <2>2, Zenon DEF DevBroken, DoClosed, FreePacket, End
  <2>3. QED
    BY <2>1, <2>2
<1>4. OwnedWhileServed'
  BY <1>1, <1>2, <1>3, SMTT(20) DEF Inv, OwnedWhileServed, TypeOK
<1>5. DevInv'
  BY <1>1, <1>2, <1>3 DEF Inv, DevInv, Watched
<1>6. HostInv' /\ LinkInv'
  BY <1>1, <1>2, Zenon DEF Inv, HostInv, Fits, LinkInv
<1>7. QED
  BY <1>4, <1>5, <1>6 DEF Inv

-----------------------------------------------------------------------------
(* tcp_usb_request.                                                        *)
LEMMA HostRequestInv ==
    ASSUME Inv, NEW dir \in Dirs, NEW len \in 0..MAX_LEN, HostRequest(dir, len)
    PROVE  Inv'
<1> DEFINE left == Packet("request", requests + 1, dir, len)
           n == PayloadLen(len)
           r == [host EXCEPT !.state = "write_request", !.owns = FALSE, !.left = left,
                             !.request_len = n, !.got = << >>]
<1>1. /\ host \in End /\ Watched(host) /\ requests \in Nat /\ requests' = requests + 1
      /\ requests' \in 0..MaxRequests /\ << >> \in Seq(Byte) /\ ~host.closed /\ host.state = "idle"
  BY Types, TcpUsbConstants, EmptyIs DEF HostRequest
<1>2. n \in 0..MAX_LEN /\ len \in Lengths
  BY TcpUsbConstants DEF PayloadLen, Lengths
<1>3. left \in Packets("request", requests') /\ left \in Seq(Byte) /\ left # << >>
  <2>1. left \in Packets("request", requests')
    BY <1>1, <1>2 DEF Packets
  <2>2. QED
    BY <1>1, <2>1, PacketShape
<1>4. host' = Rearm(r) /\ UNCHANGED <<dev, toDev, toHost, connects>>
  BY DEF HostRequest
<1> HIDE DEF left, n
<1>5. /\ r \in End /\ Watched(r) /\ r.open = host.open /\ ~r.closed /\ r.state = "write_request"
      /\ r.got = << >> /\ r.left = left /\ ~r.owns
  BY <1>1, <1>2, <1>3, Zenon DEF End, Watched
<1> HIDE DEF r
<1>6. /\ host' \in End /\ Watched(host') /\ host'.open = host.open /\ ~host'.closed
      /\ host'.state = "write_request" /\ host'.got = << >> /\ host'.left = left /\ ~host'.owns
  BY <1>4, <1>5, RearmShape DEF SameBut
<1>7. OwnedWhileServed'
  BY <1>1, <1>4, <1>6, SMTT(20) DEF Inv, OwnedWhileServed, TypeOK
<1>8. DevInv'
  <2>1. 0..requests \subseteq 0..requests'
    BY <1>1, SMTT(20)
  <2>2. QED
    BY <1>4, <1>6, <2>1 DEF Inv, DevInv, Reading, Had
<1>9. HostInv'
  BY <1>1, <1>4, <1>6 DEF Inv, HostInv
<1>10. LinkInv'
  <2> SUFFICES ASSUME dev.open, host.open PROVE Asking'
    BY <1>4, <1>6, SMTT(20) DEF LinkInv
  <2>1. Quiet
    BY <1>1 DEF Inv, LinkInv, Asking, Asked, Answering, Answered, GivenUp
  <2>2. Spans(left, Had', toDev', host'.left)
    BY <1>3, <1>4, <1>6, <2>1, SpansSelf DEF Quiet, Had
  <2>3. QED
    BY <1>3, <1>4, <1>6, <2>1, <2>2, SMTT(20) DEF Quiet, Asking, Reading
<1>11. QED
  BY <1>7, <1>8, <1>9, <1>10 DEF Inv

(* A write of the host end finds the exchange where the request is being   *)
(* written.                                                                *)
LEMMA HostWriteShape ==
    ASSUME Inv, HostWrite
    PROVE  /\ host.open /\ ~host.closed /\ dev.open /\ ~dev.closed /\ Asking
           /\ \E k \in 1..Len(host.left) :
                /\ k <= CAP - Len(toDev)
                /\ toDev' = toDev \o Prefix(host.left, k)
                /\ host' \in End /\ Watched(host') /\ host'.open /\ ~host'.closed
                /\ host'.left = Drop(host.left, k) /\ host'.got = host.got /\ host'.owns = host.owns
                /\ host'.state = IF host'.left = << >> THEN "read_response" ELSE "write_request"
<1>1. host.open /\ ~host.closed /\ host.state = "write_request" /\ dev.open /\ ~dev.closed
  <2>1. host.open /\ ~host.closed
    BY Types, ReadyIsLive, Zenon DEF HostWrite
  <2>2. QED
    BY <2>1 DEF HostWrite, Inv, DevInv
<1>2. Asking
  BY <1>1 DEF Inv, LinkInv, Asked, Answering, Answered, Quiet, GivenUp
<1>3. PICK k \in 1..(CAP - Len(toDev)) :
        /\ k <= Offer(host.left)
        /\ toDev' = toDev \o Prefix(host.left, k)
        /\ host' = Rearm([host EXCEPT !.left = Drop(host.left, k),
                             !.state = IF Drop(host.left, k) = << >> THEN "read_response" ELSE @])
  BY Zenon DEF HostWrite
<1>4. k \in 1..Len(host.left) /\ k <= CAP - Len(toDev)
  <2>1. PICK p \in Packets("request", requests) : Spans(p, Had, toDev, host.left)
    BY <1>2 DEF Asking
  <2>2. Had \in Seq(Byte) /\ Len(Had) \in Nat
    BY Types, EmptyIs DEF Had
  <2>3. /\ Len(p) = Len(Had) + Len(toDev) + Len(host.left)
        /\ Part(host.left, p, Len(Had) + Len(toDev)) /\ Len(p) \in Nat
    BY <2>1, Types, PacketShape, Zenon DEF Spans
  <2>4. Len(Had) + Len(toDev) \in Nat
    BY <2>2, Types
  <2>5. k \in Nat \ {0} /\ k <= CAP - Len(toDev)
    BY Types, TcpUsbConstants
  <2>6. QED
    BY <1>2, <1>3, <2>1, <2>3, <2>4, <2>5, Types, OfferBound, Zenon DEF Asking
<1> DEFINE left == Drop(host.left, k)
           r == [host EXCEPT !.left = left,
                             !.state = IF left = << >> THEN "read_response" ELSE @]
<1>5. host' = Rearm(r) /\ left \in Seq(Byte) /\ host \in End /\ Watched(host)
  BY <1>3, <1>4, Types, PrefixDrop
<1> HIDE DEF left
<1>6. /\ r \in End /\ Watched(r) /\ r.open /\ ~r.closed /\ r.left = left /\ r.got = host.got
      /\ r.owns = host.owns
      /\ r.state = IF left = << >> THEN "read_response" ELSE "write_request"
  BY <1>1, <1>5, Zenon DEF End, Watched
<1> HIDE DEF r
<1>7. host' \in End /\ Watched(host') /\ SameBut(r, host')
  BY <1>5, <1>6, RearmShape
<1>8. QED
  BY <1>1, <1>2, <1>3, <1>4, <1>6, <1>7, Zenon DEF SameBut, left

(* One write of the host end.                                              *)
LEMMA HostWriteInv ==
    ASSUME Inv, HostWrite
    PROVE  Inv'
<1>1. host.open /\ ~host.closed /\ dev.open /\ ~dev.closed /\ Asking
  BY HostWriteShape
<1>2. PICK k \in 1..Len(host.left) :
        /\ k <= CAP - Len(toDev)
        /\ toDev' = toDev \o Prefix(host.left, k)
        /\ host' \in End /\ Watched(host') /\ host'.open /\ ~host'.closed
        /\ host'.left = Drop(host.left, k) /\ host'.got = host.got /\ host'.owns = host.owns
        /\ host'.state = IF host'.left = << >> THEN "read_response" ELSE "write_request"
  BY HostWriteShape, SMTT(20)
<1>3. UNCHANGED <<dev, toHost, requests, connects>>
  BY DEF HostWrite
<1>4. PICK p \in Packets("request", requests) : Spans(p, Had, toDev, host.left)
  BY <1>1 DEF Asking
<1>5. /\ Spans(p, Had', toDev', host'.left) /\ toDev' \in Seq(Byte) /\ Len(toDev') = Len(toDev) + k
  <2>1. p \in Seq(Byte) /\ Had \in Seq(Byte) /\ Had' = Had
    BY <1>3, <1>4, Types, PacketShape, EmptyIs DEF Had
  <2>2. /\ Spans(p, Had, toDev \o Prefix(host.left, k), Drop(host.left, k))
        /\ toDev \o Prefix(host.left, k) \in Seq(Byte)
        /\ Len(toDev \o Prefix(host.left, k)) = Len(toDev) + k
    BY <1>4, <2>1, Types, SpansWrite, SMTT(20)
  <2>3. QED
    BY <1>2, <2>1, <2>2
<1>6. Len(toDev') <= CAP /\ toDev' # << >>
  <2>1. Len(toDev) \in Nat /\ k \in Nat \ {0}
    BY Types
  <2>2. QED
    BY <1>2, <1>5, <2>1, EmptyLen, TcpUsbConstants
<1>7. OwnedWhileServed'
  <2>1. TypeOK'
    BY <1>2, <1>3, <1>5, <1>6 DEF Inv, OwnedWhileServed, TypeOK
  <2>2. QED
    BY <1>2, <1>3, <2>1, SMTT(20) DEF Inv, OwnedWhileServed
<1>8. DevInv'
  <2>1. Part(Had', p, 0) /\ Part(toDev', p, Len(Had'))
    BY <1>5, SMTT(20) DEF Spans
  <2>2. requests' \in 0..requests' /\ p \in Packets("request", requests')
    BY <1>3, <1>4, Types, SMTT(20)
  <2>3. dev'.state \in {"idle", "read_request"} /\ Watched(dev') /\ ~dev'.closed
    BY <1>1, <1>3, Types, SMTT(20) DEF Asking, Reading
  <2>4. QED
    BY <2>1, <2>2, <2>3 DEF DevInv
<1>9. host.got = << >> /\ toHost = << >>
  BY <1>1, SMTT(20) DEF Inv, HostInv, Asking
<1>10. HostInv'
  <2>1. \E q \in Packets("response", requests') :
           Part(host'.got, q, 0) /\ Part(toHost', q, Len(host'.got)) /\ Len(host'.got) < Len(q)
    BY <1>2, <1>3, <1>9, Types, NothingYet, Zenon
  <2>2. Fits(host.got)'
    BY <1>2, <1>9, EmptyIs, TcpUsbConstants DEF Fits
  <2>3. QED
    BY <1>2, <1>3, <1>9, <2>1, <2>2 DEF HostInv
<1>11. LinkInv'
  <2>1. CASE host'.left = << >>
    <3>1. Asked'
      BY <1>1, <1>2, <1>3, <1>4, <1>5, <1>6, <1>9, <2>1, Zenon DEF Asking, Asked, Reading
    <3>2. QED
      BY <3>1 DEF LinkInv
  <2>2. CASE host'.left # << >>
    <3>1. Asking'
      BY <1>1, <1>2, <1>3, <1>4, <1>5, <2>2, SMTT(20) DEF Asking, Reading
    <3>2. QED
      BY <3>1, SMTT(20) DEF LinkInv
  <2>3. QED
    BY <2>1, <2>2
<1>12. QED
  BY <1>7, <1>8, <1>10, <1>11 DEF Inv

-----------------------------------------------------------------------------
(* What one read of the host end does to it.                               *)
LEMMA HostReadShape ==
    ASSUME Inv, HostRead
    PROVE  /\ host.open /\ ~host.closed /\ host.state = "read_response" /\ toHost # << >>
           /\ \E k \in 1..Len(toHost) :
                /\ k <= Need(host.got)
                /\ toHost' = Drop(toHost, k)
                /\ host' \in End /\ Watched(host') /\ host'.open /\ ~host'.owns
                /\ host'.request_len = host.request_len
                /\ host'.got = host.got \o Prefix(toHost, k)
                /\ host'.closed <=> TooLong(host'.got)
                /\ ~TooLong(host'.got) =>
                      host'.state = IF Whole(host'.got) THEN "idle" ELSE "read_response"
<1>1. /\ host.open /\ ~host.closed /\ ~host.owns /\ host \in End /\ Watched(host)
      /\ toHost \in Seq(Byte) /\ host.got \in Seq(Byte)
  <2>1. host.open /\ ~host.closed
    BY Types, ReadyIsLive, Zenon DEF HostRead
  <2>2. QED
    BY <2>1, Types DEF Inv, OwnedWhileServed
<1>2. PICK k \in 1..Len(toHost) :
        /\ k <= Need(host.got)
        /\ toHost' = Drop(toHost, k)
        /\ LET got == host.got \o Prefix(toHost, k)
               read == [host EXCEPT !.got = got]
           IN host' = IF TooLong(got) THEN DoClosed(read)
                      ELSE Rearm([read EXCEPT !.state = IF Whole(got) THEN "idle" ELSE @])
  BY Zenon DEF HostRead
<1> DEFINE got == host.got \o Prefix(toHost, k)
           read == [host EXCEPT !.got = got]
           r == [read EXCEPT !.state = IF Whole(got) THEN "idle" ELSE @]
<1>3. got \in Seq(Byte)
  <2>1. Prefix(toHost, k) \in Seq(Byte)
    BY <1>1, PrefixDrop
  <2>2. QED
    BY <1>1, <2>1, ConcatIs
<1>4. host' = IF TooLong(got) THEN DoClosed(read) ELSE Rearm(r)
  BY <1>2
<1> HIDE DEF got
<1>5. /\ read \in End /\ Watched(read) /\ read.open /\ ~read.closed /\ ~read.owns /\ read.got = got
      /\ read.request_len = host.request_len /\ read.state = "read_response"
  BY <1>1, <1>3, Zenon DEF End, Watched, HostRead
<1> HIDE DEF read
<1>6. /\ r \in End /\ Watched(r) /\ r.open /\ ~r.closed /\ ~r.owns /\ r.got = got
      /\ r.request_len = host.request_len
      /\ r.state = IF Whole(got) THEN "idle" ELSE "read_response"
  BY <1>5 DEF End, Watched
<1> HIDE DEF r
<1>7. CASE TooLong(got)
  <2>1. host' = DoClosed(read)
    BY <1>4, <1>7
  <2>2. /\ host' \in End /\ Watched(host') /\ host'.open /\ host'.closed = TRUE /\ ~host'.owns
        /\ host'.got = got /\ host'.request_len = host.request_len
    BY <1>5, <2>1, Zenon DEF DoClosed, FreePacket, End, Watched
  <2>3. QED
    BY <1>1, <1>2, <1>7, <2>2, Zenon DEF HostRead, got
<1>8. CASE ~TooLong(got)
  <2>1. host' \in End /\ Watched(host') /\ SameBut(r, host')
    BY <1>4, <1>6, <1>8, RearmShape, SMTT(20)
  <2>2. host'.closed = FALSE
    BY <1>6, <2>1 DEF SameBut, End
  <2>3. QED
    BY <1>1, <1>2, <1>6, <1>8, <2>1, <2>2, Zenon DEF HostRead, SameBut, got
<1>9. QED
  BY <1>7, <1>8

(* One read of the host end.                                               *)
LEMMA HostReadInv ==
    ASSUME Inv, HostRead
    PROVE  Inv'
<1>1. host.open /\ ~host.closed /\ host.state = "read_response" /\ toHost # << >>
  BY HostReadShape, SMTT(20)
<1>2. PICK k \in 1..Len(toHost) :
        /\ k <= Need(host.got)
        /\ toHost' = Drop(toHost, k)
        /\ host' \in End /\ Watched(host') /\ host'.open /\ ~host'.owns
        /\ host'.request_len = host.request_len
        /\ host'.got = host.got \o Prefix(toHost, k)
        /\ host'.closed <=> TooLong(host'.got)
        /\ ~TooLong(host'.got) =>
              host'.state = IF Whole(host'.got) THEN "idle" ELSE "read_response"
  BY HostReadShape, SMTT(20)
<1>3. UNCHANGED <<dev, toDev, requests, connects>>
  BY DEF HostRead
<1>4. PICK p \in Packets("response", requests) :
        Part(host.got, p, 0) /\ Part(toHost, p, Len(host.got)) /\ Len(host.got) < Len(p)
  BY <1>1 DEF Inv, HostInv
<1>5. /\ p \in Seq(Byte) /\ Len(p) \in Nat /\ p[1].len \in Lengths
      /\ toHost \in Seq(Byte) /\ host.got \in Seq(Byte)
      /\ Len(toHost) \in Nat /\ Len(host.got) \in Nat /\ requests \in Nat /\ Len(toHost) <= CAP
  BY <1>4, Types, PacketShape
<1>6. /\ host'.got \in Seq(Byte) /\ Len(host'.got) = Len(host.got) + k
      /\ toHost' \in Seq(Byte) /\ Len(toHost') = Len(toHost) - k
      /\ Part(host'.got, p, 0) /\ Part(toHost', p, Len(host'.got))
  <2> DEFINE s == host.got \o Prefix(toHost, k)
  <2>1. /\ s \in Seq(Byte) /\ Len(s) = Len(host.got) + k
        /\ Drop(toHost, k) \in Seq(Byte) /\ Len(Drop(toHost, k)) = Len(toHost) - k
        /\ Part(s, p, 0) /\ Part(Drop(toHost, k), p, Len(host.got) + k)
    BY <1>4, <1>5, PartRead, Zenon
  <2>2. host'.got = s /\ toHost' = Drop(toHost, k)
    BY <1>2
  <2> HIDE DEF s
  <2>3. QED
    BY <2>1, <2>2
<1>7. OwnedWhileServed'
  <2>1. Len(toHost') <= CAP
    BY <1>5, <1>6, TcpUsbConstants
  <2>2. TypeOK'
    BY <1>2, <1>3, <1>6, <2>1 DEF Inv, OwnedWhileServed, TypeOK
  <2>3. QED
    BY <1>2, <1>3, <2>2 DEF Inv, OwnedWhileServed
<1>8. DevInv'
  BY <1>1, <1>2, <1>3, Zenon DEF Inv, DevInv, Reading, Had
<1>9. ASSUME ~TooLong(host'.got) PROVE Fits(host.got)'
  <2> SUFFICES ASSUME Len(host'.got) >= HDR, host'.got[1].dir = "in"
               PROVE  PayloadLen(host'.got[1].len) <= host.request_len
    BY <1>2, Zenon DEF Fits
  <2>1. host'.got[1] = p[1]
    BY <1>4, <1>5, <1>6, StartNeeds
  <2>2. CASE Len(host.got) >= HDR
    <3>1. host.got[1] = p[1]
      BY <1>4, <1>5, <2>2, StartNeeds
    <3>2. QED
      BY <1>1, <2>1, <2>2, <3>1, Zenon DEF Inv, HostInv, Fits
  <2>3. CASE Len(host.got) < HDR
    <3>1. k <= HDR - Len(host.got)
      BY <1>2, <1>4, <1>5, <2>3, StartNeeds, SMTT(20)
    <3>2. Len(host'.got) = HDR
      BY <1>5, <1>6, <3>1, TcpUsbConstants, SMTT(20)
    <3>3. host.request_len \in Int /\ PayloadLen(p[1].len) \in Int
      BY <1>5, Types, TcpUsbConstants DEF End, PayloadLen, Lengths, NAK
    <3>4. QED
      BY <1>9, <2>1, <3>2, <3>3 DEF TooLong
  <2>4. QED
    BY <1>5, <2>2, <2>3, TcpUsbConstants
<1>10. ASSUME NEW q \in Packets("response", requests), Part(host'.got, q, 0), Part(toHost', q, Len(host'.got))
       PROVE  /\ Whole(host'.got) => host'.got = q /\ toHost' = << >>
              /\ ~Whole(host'.got) => Len(host'.got) < Len(q)
  <2>1. Len(q) \in Nat /\ (Whole(host'.got) <=> Len(host'.got) = Len(q)) /\ (Whole(host'.got) => host'.got = q)
    BY <1>5, <1>6, <1>10, StartNeeds, PacketShape, SMTT(20)
  <2>2. Len(host'.got) \in Nat /\ Len(toHost') \in Nat /\ Len(host'.got) <= Len(q)
        /\ Len(host'.got) + Len(toHost') <= Len(q)
    <3>1. Len(host'.got) \in Nat /\ Len(toHost') \in Nat
      BY <1>6, SeqIs
    <3>2. Len(host'.got) + Len(toHost') <= Len(q)
      BY <1>10, Zenon DEF Part
    <3>3. QED
      BY <2>1, <3>1, <3>2
  <2>3. QED
    BY <1>6, <2>1, <2>2, EmptyLen
<1>11. HostInv'
  <2>1. CASE TooLong(host'.got)
    BY <1>2, <2>1 DEF HostInv
  <2>2. CASE ~TooLong(host'.got) /\ Whole(host'.got)
    <3>1. host'.got \in Packets("response", requests) /\ toHost' = << >> /\ host'.state = "idle"
      BY <1>2, <1>4, <1>6, <1>10, <2>2, Zenon
    <3>2. QED
      BY <1>2, <1>3, <1>9, <2>2, <3>1, Zenon DEF HostInv
  <2>3. CASE ~TooLong(host'.got) /\ ~Whole(host'.got)
    <3>1. Len(host'.got) < Len(p) /\ host'.state = "read_response"
      BY <1>2, <1>4, <1>6, <1>10, <2>3, Zenon
    <3>2. QED
      BY <1>2, <1>3, <1>4, <1>6, <1>9, <2>3, <3>1, Zenon DEF HostInv
  <2>4. QED
    BY <2>1, <2>2, <2>3
<1>12. LinkInv'
  <2> SUFFICES ASSUME dev.open
               PROVE  Asking' \/ Asked' \/ Answering' \/ Answered' \/ Quiet' \/ GivenUp'
    BY <1>3 DEF LinkInv
  <2>1. Answering \/ Answered
    BY <1>1 DEF Inv, LinkInv, Asking, Asked, Quiet, GivenUp
  <2>2. CASE TooLong(host'.got)
    <3>1. GivenUp'
      BY <1>2, <1>3, <2>1, <2>2 DEF Answering, Answered, GivenUp
    <3>2. QED
      BY <3>1, SMTT(20)
  <2>3. CASE ~TooLong(host'.got)
    <3> DEFINE rest == IF Answering THEN dev.left ELSE << >>
    <3>1. rest \in Seq(Byte) /\ Len(rest) \in Nat /\ (Answering => rest # << >>)
      BY Types, EmptyIs, SMTT(20) DEF Answering
    <3>2. PICK q \in Packets("response", requests) : Spans(q, host.got, toHost, rest)
      BY <2>1 DEF Answering, Answered
    <3>3. q \in Seq(Byte)
      BY <1>5, PacketShape
    <3>4. Spans(q, host'.got, toHost', rest)
      BY <1>2, <1>5, <3>1, <3>2, <3>3, SpansRead, Zenon
    <3>5. /\ Whole(host'.got) => host'.got = q /\ toHost' = << >>
          /\ ~Whole(host'.got) => Len(host'.got) < Len(q)
      BY <1>10, <3>4, Zenon DEF Spans
    <3>6. Len(q) = Len(host'.got) + Len(toHost') + Len(rest)
      BY <3>4 DEF Spans
    <3>7. Len(host'.got) \in Nat /\ Len(toHost') \in Nat
      BY <1>6, SeqIs
    <3> HIDE DEF rest
    <3>8. CASE Answering
      <4>1. rest = dev.left /\ Len(rest) > 0
        BY <3>1, <3>8, EmptyLen DEF rest
      <4>2. ~Whole(host'.got)
        <5>1. \A a, b, c \in Nat : c > 0 => a # a + b + c
          OBVIOUS
        <5>2. Len(host'.got) # Len(q)
          BY <3>1, <3>6, <3>7, <4>1, <5>1, Zenon
        <5>3. QED
          BY <3>5, <5>2
      <4>3. Answering'
        BY <1>2, <1>3, <2>3, <3>2, <3>4, <3>8, <4>1, <4>2, Zenon DEF Answering
      <4>4. QED
        BY <4>3
    <3>9. CASE ~Answering /\ ~Whole(host'.got)
      <4>1. rest = << >> /\ Len(rest) = 0
        BY <3>9, EmptyIs DEF rest
      <4>2. toHost' # << >>
        BY <1>6, <3>5, <3>6, <3>7, <3>9, <4>1, EmptyLen, SMTT(20)
      <4>3. Answered'
        BY <1>2, <1>3, <2>1, <2>3, <3>2, <3>4, <3>9, <4>1, <4>2 DEF Answered
      <4>4. QED
        BY <4>3
    <3>10. CASE ~Answering /\ Whole(host'.got)
      <4>1. Quiet'
        BY <1>2, <1>3, <2>1, <2>3, <3>5, <3>10, Zenon DEF Answered, Quiet
      <4>2. QED
        BY <4>1
    <3>11. QED
      BY <3>8, <3>9, <3>10, SMTT(20)
  <2>4. QED
    BY <2>2, <2>3
<1>13. QED
  BY <1>7, <1>8, <1>11, <1>12, SMTT(20) DEF Inv

(* The host end finds the device gone.                                     *)
LEMMA HostBrokenInv ==
    ASSUME Inv, HostBroken
    PROVE  Inv'
<1>1. host \in End /\ host.open /\ ~host.closed /\ ~dev.open /\ << >> \in Seq(Byte)
  BY Types, ReadyIsLive, EmptyIs, Zenon DEF HostBroken, Broken
<1>2. UNCHANGED <<dev, toDev, toHost, requests, connects>>
  BY DEF HostBroken
<1>3. host' \in End /\ host'.open /\ host'.closed /\ ~host'.owns /\ host'.handler = {}
  <2>1. CASE host.state = "idle"
    <3> DEFINE r == [host EXCEPT !.state = "read_request", !.got = << >>, !.owns = TRUE]
    <3>1. r \in End /\ r.open /\ ~r.closed
      BY <1>1, Zenon DEF End
    <3>2. host' = DoClosed(r)
      BY <2>1 DEF HostBroken
    <3> HIDE DEF r
    <3>3. QED
      BY <3>1, <3>2, Zenon DEF DoClosed, FreePacket, End
  <2>2. CASE host.state # "idle"
    BY <1>1, <2>2, Zenon DEF HostBroken, DoClosed, FreePacket, End
  <2>3. QED
    BY <2>1, <2>2
<1>4. OwnedWhileServed'
  BY <1>2, <1>3, SMTT(20) DEF Inv, OwnedWhileServed, TypeOK
<1>5. DevInv'
  BY <1>1, <1>2, SMTT(20) DEF Inv, DevInv, Reading, Had
<1>6. HostInv' /\ LinkInv'
  BY <1>1, <1>2, <1>3 DEF HostInv, Watched, LinkInv
<1>7. QED
  BY <1>4, <1>5, <1>6 DEF Inv

(* tcp_usb_init and tcp_usb_connect forget the last connection.            *)
LEMMA ConnectInv ==
    ASSUME Inv, Connect
    PROVE  Inv'
<1>1. /\ << >> \in Seq(Byte) /\ Len(<< >>) = 0 /\ requests' = requests /\ requests \in Nat
      /\ connects' \in 0..MaxConnects
  BY Types, EmptyIs, TcpUsbConstants DEF Connect, Inv, OwnedWhileServed, TypeOK
<1>2. /\ Connected \in End /\ Connected.open /\ ~Connected.closed /\ Connected.state = "idle"
      /\ Connected.got = << >> /\ ~Connected.owns
  <2>1. NoSocket \in End /\ NoSocket.state = "idle" /\ NoSocket.got = << >> /\ ~NoSocket.owns
    BY <1>1, TcpUsbConstants DEF NoSocket, End
  <2>2. {"read"} \in SUBSET {"read", "write"}
    OBVIOUS
  <2>3. QED
    BY <2>1, <2>2, Zenon DEF Connected, End
<1>3. dev' = Connected /\ host' = Connected /\ toDev' = << >> /\ toHost' = << >>
  BY DEF Connect
<1>4. OwnedWhileServed'
  BY <1>1, <1>2, <1>3, TcpUsbConstants DEF Inv, OwnedWhileServed, TypeOK
<1>5. DevInv'
  <2>1. Had' = << >>
    BY <1>2, <1>3 DEF Had
  <2>2. \E p \in Packets("request", 0) : Part(Had', p, 0) /\ Part(toDev', p, Len(Had'))
    BY <1>1, <1>3, <2>1, NothingYet
  <2>3. 0 \in 0..requests'
    BY <1>1, SMTT(20)
  <2>4. QED
    BY <1>2, <1>3, <2>2, <2>3 DEF DevInv, Watched
<1>6. HostInv'
  BY <1>2, <1>3 DEF HostInv, Watched
<1>7. LinkInv'
  BY <1>2, <1>3 DEF LinkInv, Quiet
<1>8. QED
  BY <1>4, <1>5, <1>6, <1>7 DEF Inv

(* Either end closes its socket: what was on its way to it is lost.        *)
LEMMA CleanupInv ==
    ASSUME Inv, DevCleanup \/ HostCleanup
    PROVE  Inv'
<1>1. << >> \in Seq(Byte) /\ Len(<< >>) = 0 /\ 0 <= CAP
  BY EmptyIs, TcpUsbConstants
<1>2. ASSUME NEW e \in End
      PROVE  /\ Cleanup(e) \in End /\ ~Cleanup(e).open /\ ~Cleanup(e).owns
             /\ Cleanup(e).state = "idle" /\ Cleanup(e).handler = {}
  BY <1>1, Zenon DEF Cleanup, End
<1>3. CASE DevCleanup
  <2>1. /\ dev' \in End /\ ~dev'.open /\ ~dev'.owns /\ dev'.state = "idle" /\ dev'.handler = {}
        /\ toDev' = << >> /\ UNCHANGED <<host, toHost, requests, connects>>
    BY <1>2, <1>3, Types DEF DevCleanup
  <2>2. OwnedWhileServed'
    BY <1>1, <2>1 DEF Inv, OwnedWhileServed, TypeOK
  <2>3. DevInv' /\ LinkInv'
    BY <2>1 DEF DevInv, LinkInv, Watched
  <2>4. HostInv'
    BY <2>1, Zenon DEF Inv, HostInv, Fits
  <2>5. QED
    BY <2>2, <2>3, <2>4 DEF Inv
<1>4. CASE HostCleanup
  <2>1. /\ host' \in End /\ ~host'.open /\ ~host'.owns /\ host'.handler = {}
        /\ toHost' = << >> /\ UNCHANGED <<dev, toDev, requests, connects>>
    BY <1>2, <1>4, Types DEF HostCleanup
  <2>2. OwnedWhileServed'
    BY <1>1, <2>1, SMTT(20) DEF Inv, OwnedWhileServed, TypeOK
  <2>3. DevInv'
    BY <2>1, SMTT(20) DEF Inv, DevInv, Reading, Had
  <2>4. HostInv' /\ LinkInv'
    BY <2>1 DEF HostInv, LinkInv, Watched
  <2>5. QED
    BY <2>2, <2>3, <2>4, SMTT(20) DEF Inv
<1>5. QED
  BY <1>3, <1>4

(* Every step keeps the invariant.                                         *)
LEMMA NextInv == Inv /\ [Next]_vars => Inv'
<1> SUFFICES ASSUME Inv, [Next]_vars PROVE Inv'
  OBVIOUS
<1>1. CASE UNCHANGED vars
  BY <1>1, Zenon DEF vars, Inv, OwnedWhileServed, TypeOK, DevInv, HostInv, LinkInv, Asking, Asked, Answering,
              Answered, Quiet, GivenUp, Fits, Reading, Had
<1>2. CASE DevStep
  BY <1>2, DevReadInv, DevWriteInv, DevBrokenInv DEF DevStep
<1>3. CASE HostStep
  BY <1>3, HostWriteInv, HostReadInv, HostBrokenInv DEF HostStep
<1>4. ASSUME NEW dir \in {"in", "out"}, NEW len \in 0..MAX_LEN, HostRequest(dir, len) PROVE Inv'
  BY <1>4, HostRequestInv DEF Dirs
<1>5. CASE Connect
  BY <1>5, ConnectInv
<1>6. CASE DevCleanup \/ HostCleanup
  BY <1>6, CleanupInv
<1>7. QED
  BY <1>1, <1>2, <1>3, <1>4, <1>5, <1>6 DEF Next

(* The invariant gives the framing.                                        *)
LEMMA InvFraming == Inv => FramingHolds
<1> SUFFICES ASSUME Inv PROVE FramingHolds
  OBVIOUS
<1>1. ASSUME dev.state = "write_response"
      PROVE  dev.got = Packet("request", dev.got[1].x, dev.got[1].dir, dev.got[1].len)
  <2>1. PICK x \in 0..requests : dev.got \in Packets("request", x)
    BY <1>1 DEF Inv, DevInv
  <2>2. x \in Nat
    BY Types
  <2>3. QED
    BY <2>1, <2>2, PacketShape
<1>2. ASSUME host.open, ~host.closed, host.state = "idle", host.got # << >>
      PROVE  /\ host.got = Packet("response", requests, host.got[1].dir, host.got[1].len)
             /\ host.got[1].dir = "in" => PayloadLen(host.got[1].len) <= host.request_len
  <2>1. host.got \in Packets("response", requests) /\ Fits(host.got)
    BY <1>2, SMTT(20) DEF Inv, HostInv
  <2>2. /\ host.got = Packet("response", requests, host.got[1].dir, host.got[1].len)
        /\ Len(host.got) >= HDR
    BY <2>1, Types, PacketShape, SMTT(20)
  <2>3. QED
    BY <2>1, <2>2, SMTT(20) DEF Fits
<1>3. dev.open /\ host.open => toDev = << >> \/ toHost = << >>
  BY DEF Inv, LinkInv, Asking, Asked, Answering, Answered, Quiet, GivenUp
<1>4. QED
  BY <1>1, <1>2, <1>3 DEF FramingHolds

(* tcp_usb_pump never loses the framing: for every header and payload      *)
(* size, however reads and writes are split, and across lost sockets and   *)
(* reconnections, a request reaches the device whole and the host gets     *)
(* back, whole and no longer than its buffer, the response to it.          *)
THEOREM FramingAlwaysHolds == Spec => []FramingHolds
<1>1. Init => Inv
  BY InitInv
<1>2. Inv /\ [Next]_vars => Inv'
  BY NextInv
<1>3. Inv => FramingHolds
  BY InvFraming
<1>4. QED
  BY <1>1, <1>2, <1>3, PTL DEF Spec

(* Every path out of a served request, a broken socket and a closed one    *)
(* included, frees its packet once (tcp_usb_do_closed, tcp_usb_cleanup).   *)
THEOREM PacketsOwned == Spec => []OwnedWhileServed
<1>1. Init => Inv
  BY InitInv
<1>2. Inv /\ [Next]_vars => Inv'
  BY NextInv
<1>3. Inv => OwnedWhileServed
  BY DEF Inv
<1>4. QED
  BY <1>1, <1>2, <1>3, PTL DEF Spec

-----------------------------------------------------------------------------
(* GuestPasteboard.                                                        *)

(* Where the windows of a text come from.                                  *)
FromHost(t) == \A i \in DOMAIN t : t[i].from = "host"
FromGuest(t) == \A i \in DOMAIN t : t[i].from = "guest"

(* A text the guest's user copied, whole.                                  *)
WholeText(t) == \E k \in DOMAIN copied : t = Text("guest", k, copied[k])

(* What is staged is the first n windows of the text the pump is sending.  *)
SentWindows(n) == Len(in) = n /\ \A i \in 1..n : in[i] = pump.last.text[i]

Sending == At("write") \/ At("commit")

(* The way in: only the host's windows are waiting or in the pump's        *)
(* buffer, and the buffer never exceeds what was announced.                *)
InboundInv ==
    /\ FromHost(out) /\ FromHost(pump.buf)
    /\ pump.want <= PB_CAP /\ Len(pump.buf) <= pump.want
    /\ At("read") => Len(pump.buf) < pump.want

(* The way out: the pump sends the text it remembers, window by window; at *)
(* offset 0 anything may be staged, for a dead pump may have left it.      *)
OutboundInv ==
    /\ Sending => pump.last.kind = "text" /\ Len(pump.last.text) <= PB_CAP
    /\ At("write") => /\ pump.sent < Len(pump.last.text)
                      /\ pump.sent > 0 => SentWindows(pump.sent)
    /\ At("commit") => SentWindows(Len(pump.last.text))

(* Every text on the guest's side is the host's or a whole one.            *)
Good(t) == FromHost(t) \/ WholeText(t)
GoodInv == Good(board) /\ Good(pump.last.text) /\ Good(guest)

(* While no paste has failed, a host text on the pasteboard is the one the *)
(* pump remembers, or the pump has just started.                           *)
EchoInv ==
    pasteFailures = 0 =>
        /\ FromHost(board) => Len(board) <= PB_CAP /\ pump.last \in {Never, Seen(board)}
        /\ Sending => FromGuest(pump.last.text)
        /\ FromGuest(guest)

PasteInv == PasteTypeOK /\ InboundInv /\ OutboundInv /\ GoodInv /\ EchoInv

-----------------------------------------------------------------------------
(* The text of n windows that is copied as number k.                       *)
LEMMA TextProperties ==
    ASSUME NEW from \in {"host", "guest"}, NEW k \in Nat, NEW n \in Nat
    PROVE  /\ Text(from, k, n) \in TextType /\ Len(Text(from, k, n)) = n
           /\ DOMAIN Text(from, k, n) = 1..n
           /\ \A i \in 1..n : Text(from, k, n)[i].from = from /\ Text(from, k, n)[i].item = k
<1> DEFINE t == Text(from, k, n)
<1>1. t \in [1..n -> Window]
  BY DEF Text, Window
<1>2. t \in Seq(Window) /\ Len(t) = n
  BY <1>1
<1>3. QED
  BY <1>1, <1>2 DEF Text, TextType

(* The empty text: a text, and of the host or the guest as one likes.      *)
LEMMA EmptyText ==
    << >> \in TextType /\ Len(<< >>) = 0 /\ FromHost(<< >>) /\ FromGuest(<< >>)
BY EmptyIs, SMTT(20) DEF TextType, FromHost, FromGuest

(* One more window.                                                        *)
LEMMA AppendText ==
    ASSUME NEW t \in TextType, NEW w \in Window
    PROVE  /\ Append(t, w) \in TextType /\ Len(Append(t, w)) = Len(t) + 1
           /\ \A i \in 1..Len(t) : Append(t, w)[i] = t[i]
           /\ Append(t, w)[Len(t) + 1] = w
           /\ FromHost(t) /\ w.from = "host" => FromHost(Append(t, w))
<1>1. /\ Append(t, w) \in TextType /\ Len(Append(t, w)) = Len(t) + 1
      /\ \A i \in 1..Len(t) : Append(t, w)[i] = t[i]
      /\ Append(t, w)[Len(t) + 1] = w
  BY AppendIs DEF TextType
<1>2. Len(t) \in Nat /\ DOMAIN t = 1..Len(t) /\ DOMAIN Append(t, w) = 1..(Len(t) + 1)
  BY <1>1, SeqIs DEF TextType
<1>3. ASSUME FromHost(t), w.from = "host" PROVE FromHost(Append(t, w))
  <2>1. ASSUME NEW i \in 1..(Len(t) + 1) PROVE Append(t, w)[i].from = "host"
    <3>1. CASE i = Len(t) + 1
      BY <3>1, <1>1, <1>3
    <3>2. CASE i \in 1..Len(t)
      BY <3>2, <1>1, <1>2, <1>3 DEF FromHost
    <3>3. QED
      BY <3>1, <3>2, <1>2
  <2>2. QED
    BY <2>1, <1>2 DEF FromHost
<1>4. QED
  BY <1>1, <1>3

(* A text that holds the windows of another, in order, is that text.       *)
LEMMA SameText ==
    ASSUME NEW s \in TextType, NEW t \in TextType, Len(s) = Len(t),
           \A i \in 1..Len(t) : s[i] = t[i]
    PROVE  s = t
BY SeqSame DEF TextType

(* A text's length and its windows.                                        *)
LEMMA TextShape ==
    ASSUME NEW t \in TextType
    PROVE  /\ Len(t) \in Nat /\ DOMAIN t = 1..Len(t)
           /\ \A i \in 1..Len(t) : t[i] \in Window
           /\ t # << >> <=> Len(t) > 0
<1>1. Len(t) \in Nat /\ DOMAIN t = 1..Len(t)
  BY SeqIs DEF TextType
<1>2. \A i \in 1..Len(t) : t[i] \in Window
  BY SeqIs DEF TextType
<1>3. t # << >> <=> Len(t) > 0
  BY <1>1, EmptyIs DEF TextType
<1>4. QED
  BY <1>1, <1>2, <1>3

(* A whole text has its number in every window, and comes from the guest.  *)
LEMMA WholeShape ==
    ASSUME copied \in Seq(Nat), NEW t, WholeText(t)
    PROVE  /\ t \in TextType /\ FromGuest(t)
           /\ t # << >> => t = Text("guest", t[1].item, copied[t[1].item])
<1>1. PICK k \in DOMAIN copied : t = Text("guest", k, copied[k])
  BY DEF WholeText
<1>2. k \in Nat /\ copied[k] \in Nat
  BY SeqIs, SMTT(20)
<1>3. /\ t \in TextType /\ Len(t) = copied[k] /\ DOMAIN t = 1..copied[k]
      /\ \A i \in 1..copied[k] : t[i].from = "guest" /\ t[i].item = k
  BY <1>1, <1>2, TextProperties
<1>4. t # << >> => 1 \in 1..copied[k]
  BY <1>2, <1>3, TextShape
<1>5. QED
  BY <1>1, <1>3, <1>4 DEF FromGuest

(* Copying another text leaves the whole ones whole.                       *)
LEMMA WholeStays ==
    ASSUME copied \in Seq(Nat), NEW n \in Nat, copied' = Append(copied, n), NEW t, WholeText(t)
    PROVE  WholeText(t)'
<1>1. /\ copied' \in Seq(Nat) /\ Len(copied') = Len(copied) + 1
      /\ \A i \in 1..Len(copied) : copied'[i] = copied[i]
  BY AppendIs
<1>2. DOMAIN copied = 1..Len(copied) /\ DOMAIN copied' = 1..(Len(copied) + 1) /\ Len(copied) \in Nat
  BY <1>1, SeqIs
<1>3. PICK k \in DOMAIN copied : t = Text("guest", k, copied[k])
  BY DEF WholeText
<1>4. k \in DOMAIN copied' /\ copied'[k] = copied[k]
  BY <1>1, <1>2
<1>5. QED
  BY <1>3, <1>4 DEF WholeText, Text

-----------------------------------------------------------------------------
(* The pump's state, as PasteTypeOK types it.                                   *)
Pcs == {"poll", "retire", "read", "ack", "paste", "scan", "write", "commit"}
LastSeen == [kind: {"never", "toolong", "text"}, text: TextType]
Pump == [pc: Pcs, want: 0..QC_PB_MAX_LEN, buf: TextType, sent: 0..PB_CAP, last: LastSeen]

(* What the pump may remember.                                             *)
LEMMA LastType ==
    Never \in LastSeen /\ OverCap \in LastSeen /\ \A t \in TextType : Seen(t) \in LastSeen
BY EmptyText DEF Never, OverCap, Seen, LastSeen

(* An idle pump holds nothing and sends nothing.                           *)
LEMMA IdlePump ==
    ASSUME NEW l \in LastSeen, pump' = Idle(l)
    PROVE  /\ pump' \in Pump /\ pump'.last = l
           /\ ~Sending' /\ OutboundInv'
           /\ FromHost(out') => InboundInv'
<1>1. pump' \in Pump /\ pump'.pc = "poll" /\ pump'.last = l /\ pump'.buf = << >> /\ pump'.want = 0
  BY PasteboardConstants, EmptyText DEF Idle, Pump, Pcs
<1>2. ~At("write")' /\ ~At("commit")' /\ ~At("read")'
  BY <1>1 DEF At
<1>3. ~Sending' /\ OutboundInv'
  BY <1>2, SMTT(20) DEF Sending, OutboundInv
<1>4. ASSUME FromHost(out') PROVE InboundInv'
  BY <1>1, <1>2, <1>4, EmptyText, PasteboardConstants DEF InboundInv
<1>5. QED
  BY <1>1, <1>3, <1>4

(* A new pasteboard, and a pump that has compared nothing.                 *)
LEMMA PasteInitInv == PasteInit => PasteInv
<1> SUFFICES ASSUME PasteInit PROVE PasteInv
  OBVIOUS
<1>1. /\ pump \in Pump /\ pump.pc = "poll" /\ pump.last = Never /\ pump.buf = << >> /\ pump.want = 0
      /\ pump.last.text = << >>
  BY PasteboardConstants, EmptyText, LastType DEF PasteInit, Idle, Pump, Pcs, Never
<1>2. PasteTypeOK
  <2>1. sets \in Seq(Nat) /\ copied \in Seq(Nat)
    BY EmptyIs DEF PasteInit
  <2>2. seen \in [serial: 0..serial, text: TextType]
    BY EmptyText DEF PasteInit
  <2>3. QED
    BY <1>1, <2>1, <2>2, EmptyText, PasteboardConstants DEF PasteInit, PasteTypeOK, Pump, Pcs, LastSeen
<1>3. ~Sending /\ ~At("read") /\ ~At("write") /\ ~At("commit")
  BY <1>1, SMTT(20) DEF At, Sending
<1>4. InboundInv /\ OutboundInv
  BY <1>1, <1>3, EmptyText, PasteboardConstants DEF PasteInit, InboundInv, OutboundInv
<1>5. GoodInv
  BY <1>1, EmptyText DEF PasteInit, GoodInv, Good
<1>6. EchoInv
  BY <1>1, <1>3, EmptyText, PasteboardConstants DEF PasteInit, EchoInv
<1>7. QED
  BY <1>2, <1>4, <1>5, <1>6, SMTT(20) DEF PasteInv

(* guest_pb_set, with a text or with nothing, changes only what waits.     *)
LEMMA SetInv ==
    ASSUME PasteInv, NEW n \in 1..(QC_PB_MAX_LEN + 1), Set(n) \/ Clear
    PROVE  PasteInv'
<1>1. /\ out' \in TextType /\ Len(out') <= QC_PB_MAX_LEN /\ FromHost(out')
      /\ sets' \in Seq(Nat)
  <2>1. CASE Set(n)
    <3>1. Len(sets) + 1 \in Nat /\ sets' \in Seq(Nat)
      BY <2>1, PasteboardConstants, AppendIs, SeqIs DEF PasteInv, PasteTypeOK, Set
    <3>2. PICK m \in 0..QC_PB_MAX_LEN : out' = Text("host", Len(sets) + 1, m)
      BY <2>1, PasteboardConstants DEF Set
    <3>3. m \in Nat
      BY PasteboardConstants
    <3>4. /\ out' \in TextType /\ Len(out') = m /\ DOMAIN out' = 1..m
          /\ \A i \in 1..m : out'[i].from = "host"
      <4>1. \A k \in Nat : /\ Text("host", k, m) \in TextType /\ Len(Text("host", k, m)) = m
                            /\ DOMAIN Text("host", k, m) = 1..m
                            /\ \A i \in 1..m : Text("host", k, m)[i].from = "host"
        BY <3>3, TextProperties
      <4>2. QED
        BY <3>1, <3>2, <4>1, Zenon
    <3>5. QED
      BY <3>1, <3>3, <3>4, PasteboardConstants, SMTT(20) DEF FromHost
  <2>2. CASE Clear
    BY <2>2, EmptyText, PasteboardConstants DEF Clear, PasteInv, PasteTypeOK
  <2>3. QED
    BY <2>1, <2>2
<1>2. UNCHANGED <<delivered, in, guest, serial, seen, board, pump, copied, collected, failVars>>
  BY DEF Set, Clear
<1>3. PasteTypeOK'
  BY <1>1, <1>2 DEF PasteInv, PasteTypeOK, failVars
<1>4. InboundInv'
  BY <1>1, <1>2 DEF PasteInv, InboundInv, At
<1>5. OutboundInv' /\ GoodInv' /\ EchoInv'
  BY <1>2, Zenon DEF PasteInv, OutboundInv, SentWindows, Sending, At, GoodInv, Good, WholeText, EchoInv, failVars
<1>6. QED
  BY <1>3, <1>4, <1>5 DEF PasteInv

(* The front end's poll changes only what it has seen.                     *)
LEMMA FrontEndPollInv ==
    ASSUME PasteInv, FrontEndPoll
    PROVE  PasteInv'
<1>1. UNCHANGED <<out, delivered, in, guest, serial, board, pump, sets, copied, collected, failVars>>
  BY DEF FrontEndPoll, hostVars
<1>2. PasteTypeOK'
  <2>1. seen' \in [serial: 0..serial', text: TextType]
    BY DEF FrontEndPoll, hostVars, PasteInv, PasteTypeOK
  <2>2. QED
    BY <1>1, <2>1 DEF PasteInv, PasteTypeOK, failVars
<1>3. InboundInv' /\ OutboundInv' /\ GoodInv' /\ EchoInv'
  BY <1>1, Zenon DEF PasteInv, InboundInv, OutboundInv, SentWindows, Sending, At, GoodInv, Good, WholeText, EchoInv, failVars
<1>4. QED
  BY <1>2, <1>3 DEF PasteInv

(* The guest's user puts a new text on the pasteboard.                     *)
LEMMA UserCopyInv ==
    ASSUME PasteInv, NEW n \in 1..(QC_PB_MAX_LEN + 1), UserCopy(n)
    PROVE  PasteInv'
<1>1. n \in Nat \ {0} /\ copied \in Seq(Nat)
  <2>1. n \in Nat \ {0}
    BY PasteboardConstants
  <2>2. QED
    BY <2>1 DEF PasteInv, PasteTypeOK
<1>2. /\ copied' \in Seq(Nat) /\ Len(copied') = Len(copied) + 1
      /\ copied'[Len(copied) + 1] = n
  BY <1>1, AppendIs DEF UserCopy
<1>3. Len(copied) \in Nat /\ Len(copied) + 1 \in DOMAIN copied'
  BY <1>1, <1>2, SeqIs
<1>4. /\ board' = Text("guest", Len(copied) + 1, n) /\ board' \in TextType
      /\ DOMAIN board' = 1..n /\ \A i \in 1..n : board'[i].from = "guest"
  BY <1>1, <1>3, TextProperties DEF UserCopy
<1>5. Good(board)' /\ ~FromHost(board')
  <2>1. WholeText(board)'
    BY <1>2, <1>3, <1>4 DEF WholeText, Text
  <2>2. 1 \in DOMAIN board' /\ board'[1].from # "host"
    BY <1>1, <1>4
  <2>3. QED
    BY <2>1, <2>2 DEF Good, FromHost
<1>6. UNCHANGED <<out, delivered, in, guest, serial, seen, pump, sets, collected, failVars>>
  BY DEF UserCopy, hostVars
<1>7. PasteTypeOK'
  BY <1>2, <1>4, <1>6 DEF PasteInv, PasteTypeOK, failVars
<1>8. InboundInv' /\ OutboundInv'
  BY <1>6, Zenon DEF PasteInv, InboundInv, OutboundInv, SentWindows, Sending, At
<1>9. GoodInv'
  <2>1. \A t : Good(t) => Good(t)'
    BY <1>1, WholeStays DEF Good, UserCopy
  <2>2. QED
    BY <1>5, <1>6, <2>1 DEF PasteInv, GoodInv
<1>10. EchoInv'
  BY <1>5, <1>6 DEF PasteInv, EchoInv, Sending, At, failVars
<1>11. QED
  BY <1>7, <1>8, <1>9, <1>10 DEF PasteInv

-----------------------------------------------------------------------------
(* The pump moves on the way in without sending: its new state need only   *)
(* be typed and respect the announced length.                              *)
LEMMA InboundMove ==
    ASSUME PasteInv, pump' \in Pump, pump'.last = pump.last, ~Sending', InboundInv',
           UNCHANGED <<board, guest, copied, pasteFailures>>
    PROVE  OutboundInv' /\ GoodInv' /\ EchoInv'
<1>1. OutboundInv'
  BY SMTT(20) DEF OutboundInv, Sending
<1>2. GoodInv'
  BY DEF PasteInv, GoodInv, Good, WholeText
<1>3. EchoInv'
  BY Zenon DEF PasteInv, EchoInv
<1>4. QED
  BY <1>1, <1>2, <1>3

(* QC_PB_ACK leaves nothing waiting.                                       *)
LEMMA AckType ==
    ASSUME PasteTypeOK, Ack
    PROVE  /\ {out', delivered', in', guest'} \subseteq TextType
           /\ Len(out') <= QC_PB_MAX_LEN /\ FromHost(out')
           /\ UNCHANGED <<in, guest, serial>>
BY EmptyText, PasteboardConstants DEF Ack, PasteTypeOK

(* Looking for a text: none, one over the cap, or one to read.             *)
LEMMA PumpPollInv ==
    ASSUME PasteInv, PumpPoll
    PROVE  PasteInv'
<1>1. pump \in Pump /\ out \in TextType /\ Len(out) \in 0..QC_PB_MAX_LEN
  BY TextShape, PasteboardConstants DEF PasteInv, PasteTypeOK, Pump, Pcs, LastSeen
<1>2. UNCHANGED <<out, delivered, in, guest, serial, seen, board, sets, copied, collected, failVars>>
  BY DEF PumpPoll, hostVars
<1>3. \/ pump' = [pump EXCEPT !.pc = "scan"]
      \/ pump' = [pump EXCEPT !.pc = "retire"]
      \/ /\ pump' = [pump EXCEPT !.pc = "read", !.want = Len(out), !.buf = << >>]
         /\ out # << >> /\ Len(out) <= PB_CAP
  BY <1>1, PasteboardConstants, SMTT(20) DEF PumpPoll
<1>4. pump' \in Pump /\ pump'.last = pump.last /\ ~Sending' /\ InboundInv'
  <2>1. CASE pump' = [pump EXCEPT !.pc = "scan"] \/ pump' = [pump EXCEPT !.pc = "retire"]
    <3>1. pump' \in Pump /\ pump'.pc \in {"scan", "retire"} /\ pump'.last = pump.last
          /\ pump'.want = pump.want /\ pump'.buf = pump.buf
      BY <1>1, <2>1 DEF Pump, Pcs
    <3>2. QED
      BY <3>1, <1>2 DEF PasteInv, InboundInv, Sending, At
  <2>2. CASE /\ pump' = [pump EXCEPT !.pc = "read", !.want = Len(out), !.buf = << >>]
             /\ out # << >> /\ Len(out) <= PB_CAP
    <3>1. pump' \in Pump /\ pump'.pc = "read" /\ pump'.last = pump.last
          /\ pump'.want = Len(out) /\ pump'.buf = << >>
      BY <1>1, <2>2, EmptyText, Zenon DEF Pump, Pcs
    <3>2. Len(out) > 0
      BY <1>1, <2>2, TextShape
    <3>3. QED
      BY <3>1, <3>2, <2>2, <1>1, <1>2, EmptyText DEF PasteInv, InboundInv, Sending, At
  <2>3. QED
    BY <1>3, <2>1, <2>2
<1>5. PasteTypeOK'
  BY <1>2, <1>4, SMTT(20) DEF PasteInv, PasteTypeOK, failVars, Pump, Pcs, LastSeen
<1>6. QED
  BY <1>2, <1>4, <1>5, InboundMove DEF PasteInv, failVars

(* A text over the cap is retired.                                         *)
LEMMA PumpRetireInv ==
    ASSUME PasteInv, PumpRetire
    PROVE  PasteInv'
<1>1. pump \in Pump
  BY DEF PasteInv, PasteTypeOK, Pump, Pcs, LastSeen
<1>2. /\ {out', delivered', in', guest'} \subseteq TextType
      /\ Len(out') <= QC_PB_MAX_LEN /\ FromHost(out')
      /\ UNCHANGED <<in, guest, serial, seen, board, sets, copied, collected, failVars>>
  BY AckType DEF PumpRetire, PasteInv
<1>3. /\ pump' \in Pump /\ pump'.pc = "scan" /\ pump'.last = pump.last
      /\ pump'.want = pump.want /\ pump'.buf = pump.buf
  BY <1>1, SMTT(20) DEF PumpRetire, PumpGoto, Pump, Pcs
<1>4. ~Sending' /\ InboundInv'
  BY <1>2, <1>3 DEF PasteInv, InboundInv, Sending, At
<1>5. PasteTypeOK'
  BY <1>2, <1>3, SMTT(20) DEF PasteInv, PasteTypeOK, failVars, Pump, Pcs, LastSeen
<1>6. QED
  BY <1>2, <1>3, <1>4, <1>5, InboundMove DEF PasteInv, failVars

(* One window is read, or the reading ends.                                *)
LEMMA PumpReadInv ==
    ASSUME PasteInv, PumpRead
    PROVE  PasteInv'
<1>1. /\ pump \in Pump /\ pump.buf \in TextType /\ out \in TextType
      /\ Len(pump.buf) \in Nat /\ Len(out) \in Nat
      /\ pump.want \in Nat /\ Len(pump.buf) < pump.want
  BY TextShape, PasteboardConstants DEF PasteInv, PasteTypeOK, Pump, Pcs, LastSeen, InboundInv, PumpRead
<1>2. /\ UNCHANGED <<out, delivered, in, guest, serial, seen, board, sets, copied, collected>>
      /\ UNCHANGED <<pasteFailures, restarts>>
  BY DEF PumpRead, hostVars
<1>3. copyFailures' \in Nat
  BY SMTT(20) DEF PumpRead, PasteInv, PasteTypeOK
<1>4. pump' \in Pump /\ pump'.last = pump.last /\ ~Sending' /\ InboundInv'
  <2>1. CASE PumpGoto("ack")
    <3>1. pump' \in Pump /\ pump'.pc = "ack" /\ pump'.last = pump.last
          /\ pump'.want = pump.want /\ pump'.buf = pump.buf
      BY <1>1, <2>1 DEF Pump, Pcs, PumpGoto
    <3>2. QED
      BY <3>1, <1>2 DEF PasteInv, InboundInv, Sending, At
  <2>2. CASE /\ Len(pump.buf) < Len(out)
             /\ pump' = [pump EXCEPT !.buf = Append(@, out[Len(pump.buf) + 1]),
                                     !.pc = IF Len(pump.buf) + 1 < pump.want THEN "read" ELSE "ack"]
    <3> DEFINE w == out[Len(pump.buf) + 1]
               b == Append(pump.buf, w)
    <3>1. w \in Window /\ w.from = "host"
      BY <1>1, <2>2, TextShape DEF PasteInv, InboundInv, FromHost
    <3>2. b \in TextType /\ Len(b) = Len(pump.buf) + 1 /\ FromHost(b)
      BY <1>1, <3>1, AppendText DEF PasteInv, InboundInv
    <3>3. pump' = [pump EXCEPT !.buf = b,
                               !.pc = IF Len(pump.buf) + 1 < pump.want THEN "read" ELSE "ack"]
      BY <2>2
    <3> HIDE DEF w, b
    <3>4. pump' \in Pump /\ pump'.last = pump.last /\ pump'.want = pump.want /\ pump'.buf = b
          /\ pump'.pc = IF Len(pump.buf) + 1 < pump.want THEN "read" ELSE "ack"
      BY <1>1, <3>2, <3>3, Zenon DEF Pump, Pcs
    <3>5. QED
      BY <1>1, <1>2, <3>2, <3>4 DEF PasteInv, InboundInv, Sending, At
  <2>3. QED
    BY <2>1, <2>2 DEF PumpRead
<1>5. PasteTypeOK'
  BY <1>2, <1>3, <1>4 DEF PasteInv, PasteTypeOK, Pump, Pcs, LastSeen
<1>6. QED
  BY <1>2, <1>4, <1>5, InboundMove DEF PasteInv

(* What could be read is retired and kept for the paste.                   *)
LEMMA PumpAckInv ==
    ASSUME PasteInv, PumpAck
    PROVE  PasteInv'
<1>1. pump \in Pump /\ pump.buf \in TextType
  BY SMTT(20) DEF PasteInv, PasteTypeOK, Pump, Pcs, LastSeen
<1>2. /\ {out', delivered', in', guest'} \subseteq TextType
      /\ Len(out') <= QC_PB_MAX_LEN /\ FromHost(out')
      /\ UNCHANGED <<in, guest, serial, seen, board, sets, copied, failVars>>
      /\ collected' \subseteq TextType
  BY <1>1, AckType DEF PumpAck, PasteInv, PasteTypeOK
<1>3. /\ pump' \in Pump /\ pump'.pc \in {"scan", "paste"} /\ pump'.last = pump.last
      /\ pump'.want = pump.want /\ pump'.buf = pump.buf
  BY <1>1 DEF PumpAck, PumpGoto, Pump, Pcs
<1>4. ~Sending' /\ InboundInv'
  BY <1>2, <1>3, Zenon DEF PasteInv, InboundInv, Sending, At
<1>5. PasteTypeOK'
  BY <1>2, <1>3 DEF PasteInv, PasteTypeOK, failVars, Pump, Pcs, LastSeen
<1>6. QED
  BY <1>2, <1>3, <1>4, <1>5, InboundMove, Zenon DEF PasteInv, failVars

(* The host's text goes to the pasteboard, or fails to, and is remembered. *)
LEMMA PumpPasteInv ==
    ASSUME PasteInv, PumpPaste
    PROVE  PasteInv'
<1>1. /\ pump.buf \in TextType /\ FromHost(pump.buf) /\ Len(pump.buf) <= PB_CAP
      /\ Seen(pump.buf) \in LastSeen /\ Seen(pump.buf).text = pump.buf
  <2>1. pump.buf \in TextType /\ pump.want \in Nat
    BY PasteboardConstants DEF PasteInv, PasteTypeOK
  <2>2. Len(pump.buf) <= PB_CAP
    BY <2>1, PasteboardConstants, TextShape DEF PasteInv, InboundInv
  <2>3. QED
    BY <2>1, <2>2, LastType DEF PasteInv, InboundInv, Seen
<1>2. UNCHANGED <<out, delivered, in, guest, serial, seen, sets, copied, collected, copyFailures, restarts>>
  BY DEF PumpPaste, hostVars
<1>3. /\ pump' \in Pump /\ pump'.last = Seen(pump.buf) /\ ~Sending' /\ OutboundInv' /\ InboundInv'
  BY <1>1, <1>2, IdlePump, Zenon DEF PumpPaste, PasteInv, InboundInv
<1>4. \/ board' = pump.buf /\ pasteFailures' = pasteFailures
      \/ board' = board /\ pasteFailures' = pasteFailures + 1
  BY DEF PumpPaste
<1>5. PasteTypeOK'
  <2>1. board' \in TextType /\ pasteFailures' \in Nat
    BY <1>1, <1>4 DEF PasteInv, PasteTypeOK
  <2>2. QED
    BY <1>2, <1>3, <2>1, SMTT(20) DEF PasteInv, PasteTypeOK, Pump, Pcs, LastSeen
<1>6. GoodInv'
  BY <1>1, <1>2, <1>3, <1>4, Zenon DEF PasteInv, GoodInv, Good, WholeText
<1>7. EchoInv'
  <2>1. CASE board' = pump.buf /\ pasteFailures' = pasteFailures
    BY <2>1, <1>1, <1>2, <1>3, Zenon DEF PasteInv, EchoInv
  <2>2. CASE pasteFailures' = pasteFailures + 1
    BY <2>2 DEF PasteInv, PasteTypeOK, EchoInv
  <2>3. QED
    BY <1>4, <2>1, <2>2
<1>8. QED
  BY <1>3, <1>5, <1>6, <1>7 DEF PasteInv

(* Comparing the pasteboard with what is remembered: only a text that is   *)
(* neither the remembered one nor the baseline is sent.                    *)
LEMMA PumpScanInv ==
    ASSUME PasteInv, PumpScan
    PROVE  PasteInv'
<1>1. /\ board \in TextType /\ Len(board) \in Nat /\ pump.last \in LastSeen
      /\ Seen(board) \in LastSeen /\ Seen(board).text = board /\ Seen(board).kind = "text"
      /\ OverCap.text = << >>
  BY TextShape, LastType DEF PasteInv, PasteTypeOK, LastSeen, Seen, OverCap
<1>2. UNCHANGED <<out, delivered, in, guest, serial, seen, board, sets, copied, collected, failVars>>
  BY DEF PumpScan, hostVars
<1>3. \/ pump' = Idle(OverCap) /\ Len(board) > PB_CAP
      \/ pump' = Idle(pump.last)
      \/ pump' = Idle(Seen(board))
      \/ /\ pump' = [Idle(Seen(board)) EXCEPT !.pc = "write"]
         /\ Len(board) <= PB_CAP /\ board # << >> /\ pump.last \notin {Never, Seen(board)}
  BY <1>1, PasteboardConstants DEF PumpScan
<1>4. ASSUME NEW l \in LastSeen, pump' = Idle(l), Good(l.text),
             EchoInv /\ pasteFailures = 0 /\ FromHost(board) => l \in {pump.last, Seen(board)}
      PROVE  PasteInv'
  <2>1. pump' \in Pump /\ pump'.last = l /\ ~Sending' /\ OutboundInv' /\ InboundInv'
    BY <1>2, <1>4, IdlePump, Zenon DEF PasteInv, InboundInv
  <2>2. PasteTypeOK'
    BY <1>2, <2>1 DEF PasteInv, PasteTypeOK, failVars, Pump, Pcs, LastSeen
  <2>3. GoodInv'
    BY <1>2, <1>4, <2>1, Zenon DEF PasteInv, GoodInv, Good, WholeText
  <2>4. EchoInv'
    BY <1>2, <1>4, <2>1, Zenon DEF PasteInv, EchoInv, failVars
  <2>5. QED
    BY <2>1, <2>2, <2>3, <2>4 DEF PasteInv
<1>5. CASE pump' = Idle(OverCap) /\ Len(board) > PB_CAP
  <2>1. OverCap \in LastSeen /\ Good(OverCap.text)
    BY <1>1, LastType, EmptyText, Zenon DEF Good
  <2>2. EchoInv /\ pasteFailures = 0 /\ FromHost(board) => Len(board) <= PB_CAP
    BY Zenon DEF EchoInv
  <2>3. ~(Len(board) <= PB_CAP)
    BY <1>1, <1>5, PasteboardConstants
  <2>4. QED
    BY <1>4, <1>5, <2>1, <2>2, <2>3, Zenon
<1>6. CASE pump' = Idle(pump.last)
  BY <1>1, <1>4, <1>6, Zenon DEF PasteInv, GoodInv
<1>7. CASE pump' = Idle(Seen(board))
  BY <1>1, <1>4, <1>7, Zenon DEF PasteInv, GoodInv
<1>8. CASE /\ pump' = [Idle(Seen(board)) EXCEPT !.pc = "write"]
           /\ Len(board) <= PB_CAP /\ board # << >> /\ pump.last \notin {Never, Seen(board)}
  <2>1. /\ pump' \in Pump /\ pump'.pc = "write" /\ pump'.last = Seen(board)
        /\ pump'.want = 0 /\ pump'.buf = << >> /\ pump'.sent = 0
    BY <1>1, <1>8, EmptyText, PasteboardConstants, SMTT(20) DEF Idle, Pump, Pcs
  <2>2. PasteTypeOK'
    BY <1>2, <2>1, Zenon DEF PasteInv, PasteTypeOK, failVars, Pump, Pcs, LastSeen
  <2>3. InboundInv'
    <3>1. FromHost(out') /\ FromHost(pump'.buf)
      BY <1>2, <2>1, EmptyText, Zenon DEF PasteInv, InboundInv
    <3>2. pump'.want <= PB_CAP /\ Len(pump'.buf) <= pump'.want /\ pump'.pc # "read"
      BY <2>1, EmptyText, PasteboardConstants
    <3>3. QED
      BY <3>1, <3>2, Zenon DEF InboundInv, At
  <2>4. OutboundInv'
    <3>1. Len(board) > 0
      BY <1>1, <1>8, TextShape
    <3>2. QED
      BY <1>1, <1>8, <2>1, <3>1 DEF OutboundInv, At
  <2>5. GoodInv'
    BY <1>1, <1>2, <2>1, Zenon DEF PasteInv, GoodInv, Good, WholeText
  <2>6. EchoInv'
    <3>1. ASSUME pasteFailures = 0 PROVE ~FromHost(board) /\ FromGuest(board)
      <4>1. ~FromHost(board)
        BY <1>8, <3>1 DEF PasteInv, EchoInv
      <4>2. QED
        BY <4>1, WholeShape DEF PasteInv, PasteTypeOK, GoodInv, Good
    <3>2. QED
      BY <1>1, <1>2, <2>1, <3>1, Zenon DEF PasteInv, EchoInv, failVars
  <2>7. QED
    BY <2>2, <2>3, <2>4, <2>5, <2>6 DEF PasteInv
<1>9. QED
  BY <1>3, <1>5, <1>6, <1>7, <1>8, SMTT(20)

(* A pump that goes idle without forgetting keeps everything but what it   *)
(* staged.                                                                 *)
LEMMA IdleInv ==
    ASSUME PasteInv, pump' = Idle(pump.last), in' \in TextType, Len(in') <= QC_PB_MAX_LEN,
           copyFailures' \in Nat,
           UNCHANGED <<out, delivered, guest, serial, seen, board, sets, copied, collected>>,
           UNCHANGED <<pasteFailures, restarts>>
    PROVE  PasteInv'
<1>1. pump' \in Pump /\ pump'.last = pump.last /\ ~Sending' /\ InboundInv'
  BY IdlePump, Zenon DEF PasteInv, PasteTypeOK, LastSeen, InboundInv
<1>2. PasteTypeOK'
  BY <1>1 DEF PasteInv, PasteTypeOK, Pump, Pcs, LastSeen
<1>3. QED
  BY <1>1, <1>2, InboundMove DEF PasteInv

(* One QC_PB_WRITE: what is staged stays a prefix of the remembered text.  *)
LEMMA PumpWriteInv ==
    ASSUME PasteInv, PumpWrite
    PROVE  PasteInv'
<1> DEFINE text == pump.last.text
           n == pump.sent
           w == text[n + 1]
           staged == IF n = 0 THEN << >> ELSE in
<1>1. /\ pump \in Pump /\ text \in TextType /\ in \in TextType /\ n \in Nat
      /\ Len(text) \in Nat /\ n < Len(text) /\ Len(text) <= PB_CAP
      /\ Len(in) \in Nat
      /\ n > 0 => SentWindows(n)
  <2>1. pump \in Pump /\ text \in TextType /\ in \in TextType /\ n \in 0..PB_CAP
    BY DEF PasteInv, PasteTypeOK, Pump, Pcs, LastSeen
  <2>2. Len(text) \in Nat /\ Len(in) \in Nat
    BY <2>1, TextShape
  <2>3. n < Len(text) /\ Len(text) <= PB_CAP /\ (n > 0 => SentWindows(n))
    BY DEF PasteInv, OutboundInv, PumpWrite, Sending
  <2>4. QED
    BY <2>1, <2>2, <2>3, PasteboardConstants
<1>2. w \in Window
  BY <1>1, TextShape
<1>3. /\ staged \in TextType /\ Len(staged) = n /\ \A i \in 1..n : staged[i] = text[i]
  <2>1. CASE n = 0
    BY <2>1, EmptyText
  <2>2. CASE n # 0
    BY <2>2, <1>1, SMTT(20) DEF SentWindows
  <2>3. QED
    BY <2>1, <2>2
<1>4. /\ Append(staged, w) \in TextType /\ Len(Append(staged, w)) = n + 1
      /\ \A i \in 1..(n + 1) : Append(staged, w)[i] = text[i]
  <2>1. /\ Append(staged, w) \in TextType /\ Len(Append(staged, w)) = n + 1
        /\ \A i \in 1..n : Append(staged, w)[i] = text[i] /\ Append(staged, w)[n + 1] = w
    BY <1>2, <1>3, AppendText
  <2>2. Append(staged, w)[n + 1] = w
    BY <1>2, <1>3, AppendText
  <2>3. QED
    BY <1>1, <2>1, <2>2
<1>5. UNCHANGED <<out, delivered, guest, serial, seen, board, sets, copied, collected, pasteFailures, restarts>>
  BY DEF PumpWrite, Write
<1>6. copyFailures' \in Nat
  BY DEF PumpWrite, PasteInv, PasteTypeOK
<1>7. \/ /\ pump' = Idle(pump.last) /\ in' \in {<< >>, Append(staged, w)}
         /\ in' # << >> => n < QC_PB_MAX_LEN
      \/ /\ in' = Append(staged, w) /\ n < QC_PB_MAX_LEN
         /\ pump' = [pump EXCEPT !.sent = n + 1,
                                 !.pc = IF n + 1 < Len(text) THEN "write" ELSE "commit"]
  <2>1. WriteOk(n) <=> n < QC_PB_MAX_LEN
    BY <1>1 DEF WriteOk, SentWindows
  <2>2. ASSUME Write(n, w)
        PROVE  in' = IF n < QC_PB_MAX_LEN THEN Append(staged, w) ELSE << >>
    BY <2>2, <1>1, <1>3 DEF Write
  <2>3. QED
    BY <2>1, <2>2 DEF PumpWrite
<1> HIDE DEF text, n, w, staged
<1>8. CASE pump' = Idle(pump.last) /\ in' \in {<< >>, Append(staged, w)} /\ (in' # << >> => n < QC_PB_MAX_LEN)
  <2>1. in' \in TextType /\ Len(in') <= QC_PB_MAX_LEN
    <3>1. CASE in' = << >>
      BY <3>1, EmptyText, PasteboardConstants, SMTT(20)
    <3>2. CASE in' # << >>
      <4>1. in' = Append(staged, w) /\ n < QC_PB_MAX_LEN
        BY <3>2, <1>8
      <4>2. QED
        BY <4>1, <1>1, <1>4, PasteboardConstants
    <3>3. QED
      BY <3>1, <3>2
  <2>2. QED
    BY <1>5, <1>6, <1>8, <2>1, IdleInv
<1>9. CASE /\ in' = Append(staged, w) /\ n < QC_PB_MAX_LEN
           /\ pump' = [pump EXCEPT !.sent = n + 1,
                                   !.pc = IF n + 1 < Len(text) THEN "write" ELSE "commit"]
  <2>1. in' \in TextType /\ Len(in') <= QC_PB_MAX_LEN
    BY <1>1, <1>4, <1>9, PasteboardConstants
  <2>2. /\ pump' \in Pump /\ pump'.last = pump.last /\ pump'.sent = n + 1
        /\ pump'.want = pump.want /\ pump'.buf = pump.buf
        /\ pump'.pc = IF n + 1 < Len(text) THEN "write" ELSE "commit"
    <3>1. n + 1 \in 0..PB_CAP
      BY <1>1, PasteboardConstants, SMTT(20)
    <3>2. QED
      BY <1>1, <1>9, <3>1, Zenon DEF Pump, Pcs
  <2>3. PasteTypeOK'
    BY <1>5, <1>6, <2>1, <2>2, SMTT(20) DEF PasteInv, PasteTypeOK, Pump, Pcs, LastSeen
  <2>4. InboundInv'
    BY <1>5, <2>2, SMTT(20) DEF PasteInv, InboundInv, At
  <2>5. OutboundInv'
    <3>1. Len(in') = n + 1 /\ \A i \in 1..(n + 1) : in'[i] = text[i]
      BY <1>4, <1>9
    <3>2. n + 1 = Len(text) \/ n + 1 < Len(text)
      BY <1>1
    <3>3. pump'.last.text = text /\ pump'.last.kind = "text"
      BY <2>2 DEF text, PasteInv, OutboundInv, Sending, PumpWrite
    <3>4. QED
      BY <1>1, <2>2, <3>1, <3>2, <3>3 DEF OutboundInv, At, SentWindows
  <2>6. GoodInv' /\ EchoInv'
    BY <1>5, <2>2, SMTT(20) DEF PasteInv, GoodInv, Good, WholeText, EchoInv, Sending, PumpWrite
  <2>7. QED
    BY <2>3, <2>4, <2>5, <2>6 DEF PasteInv
<1>10. QED
  BY <1>7, <1>8, <1>9, SMTT(20)

(* QC_PB_COMMIT publishes the remembered text, whole.                      *)
LEMMA PumpCommitInv ==
    ASSUME PasteInv, PumpCommit
    PROVE  PasteInv' /\ (in # << >> => guest' = pump.last.text /\ serial' = serial + 1)
<1>1. in \in TextType /\ pump.last.text \in TextType /\ SentWindows(Len(pump.last.text)) /\ Sending
  BY DEF PasteInv, PasteTypeOK, OutboundInv, PumpCommit, Sending
<1>2. in = pump.last.text
  BY <1>1, SameText DEF SentWindows
<1>3. UNCHANGED <<out, delivered, seen, board, sets, copied, collected, failVars>>
  BY DEF PumpCommit, Commit, hostVars
<1>4. CASE in = << >> /\ UNCHANGED hostVars
  BY <1>3, <1>4, IdleInv, Zenon DEF PumpCommit, hostVars, failVars, PasteInv, PasteTypeOK
<1>5. CASE in # << >> /\ guest' = in /\ in' = << >> /\ serial' = serial + 1
  <2>1. pump' \in Pump /\ pump'.last = pump.last /\ ~Sending' /\ InboundInv' /\ OutboundInv'
    BY <1>3, IdlePump, Zenon DEF PasteInv, PasteTypeOK, LastSeen, InboundInv, PumpCommit
  <2>2. seen' \in [serial: 0..serial', text: TextType] /\ serial' \in Nat
    <3>1. serial \in Nat /\ seen \in [serial: 0..serial, text: TextType]
      BY DEF PasteInv, PasteTypeOK
    <3>2. serial' \in Nat /\ 0..serial \subseteq 0..serial'
      BY <1>5, <3>1, SMTT(20)
    <3>3. QED
      BY <1>3, <3>1, <3>2
  <2>3. PasteTypeOK'
    BY <1>1, <1>3, <1>5, <2>1, <2>2, EmptyText, PasteboardConstants, SMTT(30)
       DEF PasteInv, PasteTypeOK, failVars, Pump, Pcs, LastSeen
  <2>4. GoodInv'
    BY <1>2, <1>3, <1>5, <2>1, Zenon DEF PasteInv, GoodInv, Good, WholeText
  <2>5. EchoInv'
    BY <1>1, <1>2, <1>3, <1>5, <2>1, Zenon DEF PasteInv, EchoInv, failVars
  <2>6. PasteInv'
    BY <2>1, <2>3, <2>4, <2>5 DEF PasteInv
  <2>7. QED
    BY <1>2, <1>5, <2>6
<1>6. QED
  BY <1>4, <1>5 DEF PumpCommit, Commit

(* A pump that starts again has compared nothing and staged what it left.  *)
LEMMA PumpCrashInv ==
    ASSUME PasteInv, PumpCrash
    PROVE  PasteInv'
<1>1. /\ UNCHANGED <<out, delivered, in, guest, serial, seen, board, sets, copied, collected>>
      /\ UNCHANGED <<copyFailures, pasteFailures>>
  BY DEF PumpCrash, hostVars
<1>2. pump' \in Pump /\ pump'.last = Never /\ ~Sending' /\ InboundInv' /\ OutboundInv'
  BY <1>1, LastType, IdlePump, Zenon DEF PumpCrash, PasteInv, InboundInv
<1>3. PasteTypeOK'
  BY <1>1, <1>2 DEF PumpCrash, PasteInv, PasteTypeOK, Pump, Pcs, LastSeen
<1>4. GoodInv'
  <2>1. Never.text = << >>
    BY DEF Never
  <2>2. Good(pump.last.text)'
    BY <1>2, <2>1, EmptyText, Zenon DEF Good
  <2>3. QED
    BY <1>1, <2>2, Zenon DEF PasteInv, GoodInv, Good, WholeText
<1>5. EchoInv'
  BY <1>1, <1>2, Zenon DEF PasteInv, EchoInv
<1>6. QED
  BY <1>2, <1>3, <1>4, <1>5 DEF PasteInv

(* Every step keeps the invariant.                                         *)
LEMMA PasteNextInv == PasteInv /\ [PasteNext]_pasteVars => PasteInv'
<1> SUFFICES ASSUME PasteInv, [PasteNext]_pasteVars PROVE PasteInv'
  OBVIOUS
<1>1. CASE UNCHANGED pasteVars
  <2>1. /\ UNCHANGED <<out, delivered, in, guest, serial, seen, board, pump>>
        /\ UNCHANGED <<sets, copied, collected, copyFailures, pasteFailures, restarts>>
    BY <1>1 DEF pasteVars, hostVars, failVars
  <2>2. PasteTypeOK'
    BY <2>1, Zenon DEF PasteInv, PasteTypeOK
  <2>3. InboundInv' /\ OutboundInv'
    BY <2>1, Zenon DEF PasteInv, InboundInv, OutboundInv, SentWindows, Sending, At
  <2>4. GoodInv' /\ EchoInv'
    BY <2>1, Zenon DEF PasteInv, GoodInv, EchoInv, Good, WholeText, Sending, At
  <2>5. QED
    BY <2>2, <2>3, <2>4 DEF PasteInv
<1>2. ASSUME NEW n \in 1..(QC_PB_MAX_LEN + 1), Set(n) \/ UserCopy(n) PROVE PasteInv'
  BY <1>2, SetInv, UserCopyInv
<1>3. CASE Clear
  <2>1. 1 \in 1..(QC_PB_MAX_LEN + 1)
    BY PasteboardConstants
  <2>2. QED
    BY <1>3, <2>1, SetInv
<1>4. CASE FrontEndPoll
  BY <1>4, FrontEndPollInv
<1>5. CASE PumpStep
  BY <1>5, PumpPollInv, PumpRetireInv, PumpReadInv, PumpAckInv, PumpPasteInv, PumpScanInv,
     PumpWriteInv, PumpCommitInv DEF PumpStep
<1>6. CASE PumpCrash
  BY <1>6, PumpCrashInv
<1>7. QED
  BY <1>1, <1>2, <1>3, <1>4, <1>5, <1>6 DEF PasteNext

(* The invariant gives both properties.                                    *)
LEMMA InvImplies == PasteInv => PublishedWhole /\ NeverEchoed
<1> SUFFICES ASSUME PasteInv PROVE PublishedWhole /\ NeverEchoed
  OBVIOUS
<1>1. ASSUME guest # << >>, guest[1].from = "guest"
      PROVE  guest = Text("guest", guest[1].item, copied[guest[1].item])
  <2>1. 1 \in DOMAIN guest
    BY <1>1, TextShape DEF PasteInv, PasteTypeOK
  <2>2. WholeText(guest)
    BY <1>1, <2>1 DEF PasteInv, GoodInv, Good, FromHost
  <2>3. QED
    BY <1>1, <2>2, WholeShape, Zenon DEF PasteInv, PasteTypeOK
<1>2. PublishedWhole
  BY <1>1 DEF PublishedWhole, PasteInv
<1>3. NeverEchoed
  BY DEF NeverEchoed, PasteInv, EchoInv, FromGuest
<1>4. QED
  BY <1>2, <1>3

(* QC_PB_WRITE and QC_PB_COMMIT publish only whole texts: whatever the     *)
(* guest's user copies meanwhile, wherever a window is lost or the agent   *)
(* dies, what guest_pb_guest_text returns is the host's own text or, from  *)
(* its first window to its last, one the guest's user copied.              *)
THEOREM PublishesWhole == PasteSpec => []PublishedWhole
<1>1. PasteInit => PasteInv
  BY PasteInitInv
<1>2. PasteInv /\ [PasteNext]_pasteVars => PasteInv'
  BY PasteNextInv
<1>3. PasteInv => PublishedWhole
  BY InvImplies
<1>4. QED
  BY <1>1, <1>2, <1>3, PTL DEF PasteSpec

(* pb_last keeps the host's text from coming back to it, for any number of *)
(* copies, interleavings and agent restarts, while no paste fails.         *)
THEOREM EchoesNothing == PasteSpec => []NeverEchoed
<1>1. PasteInit => PasteInv
  BY PasteInitInv
<1>2. PasteInv /\ [PasteNext]_pasteVars => PasteInv'
  BY PasteNextInv
<1>3. PasteInv => NeverEchoed
  BY InvImplies
<1>4. QED
  BY <1>1, <1>2, <1>3, PTL DEF PasteSpec

=============================================================================
