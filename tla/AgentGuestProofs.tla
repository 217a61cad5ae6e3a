-------------------------- MODULE AgentGuestProofs --------------------------
(***************************************************************************)
(* What holds of the agent channel together with its daemons, applications *)
(* and snapshots, for any number of each: the invariant, that the front    *)
(* end and the machine keep it, that every step is one the channel allows, *)
(* and the facts that the steps of daemons and applications rest on.       *)
(***************************************************************************)
EXTENDS AgentSystem, IPodAgentProofs

(* Where a process has a request, and where it may yet carry it out or     *)
(* pass it on.                                                             *)
Busy == {"read", "dispatch", "child", "route", "send", "finish"}
Serves(w, n) == w.pc \in Busy /\ w.req = n
MayRun(w, n) == w.pc \in {"read", "dispatch", "route"} /\ w.req = n

(* The first k windows of the answer to request n.                         *)
Answer(n, k) == [i \in 1..k |-> Window(n, i)]

(* What a process in each place of its loop has read and has to send, with *)
(* z the sizes of the answers, and s requests, h tokens and c cookies      *)
(* issued so far.                                                          *)
Sends(w, z, s) ==
    /\ w.st \in {"ok", "eio"}
    /\ w.pc \in {"read", "dispatch", "child", "route"} => w.out = 0 /\ w.sent = 0 /\ w.st = "ok"
    /\ w.pc \in {"send", "finish"} =>
          /\ w.sent < w.out \/ (w.sent = 0 /\ w.out = 0)
          /\ w.st = "ok" \/ w.out > 0 => w.req \in 1..s
          /\ w.st = "ok" => w.out = z[w.req]

DaemonFits(w, z, s, h) ==
    /\ w.pc \in {"hello", "down"} => w.key = 0
    /\ w.pc \notin {"hello", "down"} => w.key \in 1..h
    /\ w.pc = "poll" => w = [Idle("poll") EXCEPT !.key = w.key]
    /\ w.pc \in Busy => w.req \in 1..s
    /\ w.pc = "read" => w.read < REQ_WINDOWS /\ w.shown \subseteq {w.req}
    /\ w.pc \in {"dispatch", "child", "route"} => w.shown = {w.req}
    /\ Sends(w, z, s)

AppFits(w, z, s, c) ==
    /\ w.pc \in {"poll", "read", "dispatch", "send", "finish"}
    /\ w.pc = "poll" => w = Idle("poll")
    /\ w.pc # "poll" => w.key \in 1..c
    /\ w.req \in 0..s
    /\ w.pc = "read" => w.read < REQ_WINDOWS /\ w.shown = {w.req} \ {0}
    /\ w.pc = "dispatch" => w.req # 0 /\ w.shown = {w.req}
    /\ Sends(w, z, s)

(* A request is served by one process, and once carried out by none that   *)
(* could do it again.                                                      *)
Exclusive(D, A) ==
    /\ \A d, e \in Daemons, n \in Subs : Serves(D[d], n) /\ Serves(D[e], n) => d = e
    /\ \A p, q \in Pids, n \in Subs : Serves(A[p], n) /\ Serves(A[q], n) => p = q
    /\ \A d \in Daemons, p \in Pids, n \in Subs : ~(Serves(D[d], n) /\ Serves(A[p], n))
RanOnce(D, A, R, s) ==
    \A n \in Subs :
        /\ R[n] <= 1
        /\ R[n] # 0 => /\ n <= s
                       /\ \A d \in Daemons : ~MayRun(D[d], n)
                       /\ \A p \in Pids : ~MayRun(A[p], n)
KeysDiffer(D) == \A d, e \in Daemons : d # e /\ D[d].key = D[e].key => D[d].key = 0

(* The guest, now or in a snapshot.                                        *)
Guest(D, A, R, Z, s, h, c) ==
    /\ D \in [Daemons -> ProcessState] /\ A \in [Pids -> ProcessState]
    /\ R \in [Subs -> Nat] /\ Z \in [Subs -> 0..RESPONSE_MAX]
    /\ \A d \in Daemons : DaemonFits(D[d], Z, s, h)
    /\ \A p \in Pids : AppFits(A[p], Z, s, c)
    /\ KeysDiffer(D)
    /\ Exclusive(D, A)
    /\ RanOnce(D, A, R, s)

GuestInv == Guest(daemon, app, runs, sizes, subs, hellos, cookies)
SnapInv ==
    \/ snap = NoSnapshot
    \/ /\ snap.taken = TRUE
       /\ Guest(snap.daemon, snap.app, snap.runs, snap.sizes, subs, hellos, cookies)

-----------------------------------------------------------------------------
(* The channel and the guest *)

Unserved(n) ==
    /\ \A d \in Daemons : ~Serves(daemon[d], n)
    /\ \A p \in Pids : ~Serves(app[p], n)
HoldsCookie(p) == app[p].pc # "poll" /\ app[p].key = HeadItem.uiCookie

(* A request still free has not been touched.                              *)
FreeInv == \A n \in Subs : HasFree(pending, n) => runs[n] = 0 /\ Unserved(n)

(* The daemon whose session is open has the held request, unless it has    *)
(* routed it, and nobody else has.                                         *)
SessionInv ==
    \A d \in Daemons : OwnsSession(daemon[d].key) =>
        /\ daemon[d].pc \in Busy => Held /\ ~Routed /\ HeadItem.sub = daemon[d].req
        /\ daemon[d].pc = "poll" /\ Held => Routed
HeldInv ==
    Held /\ ~Routed =>
        /\ \A d \in Daemons : Serves(daemon[d], HeadItem.sub) => OwnsSession(daemon[d].key)
        /\ \A p \in Pids : ~Serves(app[p], HeadItem.sub)

(* A routed request is with the process it names, under its cookie; once   *)
(* carried out, that process can only be on its way to say so.             *)
RoutedInv ==
    Routed =>
        /\ \A d \in Daemons : ~Serves(daemon[d], HeadItem.sub)
        /\ \A p \in Pids : HoldsCookie(p) => p = HeadItem.uiPid /\ app[p].req \in {0, HeadItem.sub}
        /\ \A p \in Pids : Serves(app[p], HeadItem.sub) => HoldsCookie(p)
        /\ runs[HeadItem.sub] # 0 /\ ~Expired =>
              \E p \in Pids : /\ p = HeadItem.uiPid /\ HoldsCookie(p)
                              /\ app[p].pc \in {"send", "finish"} /\ app[p].out = 0

(* What the head's response holds, for whoever is sending it.              *)
StagedFor(w, resp) ==
    /\ w.pc = "send" /\ w.sent > 0 => resp = Answer(w.req, w.sent)
    /\ w.pc = "finish" => resp = Answer(w.req, w.out)
StagedInv ==
    /\ \A d \in Daemons : OwnsSession(daemon[d].key) => StagedFor(daemon[d], HeadItem.response)
    /\ \A p \in Pids : Routed /\ HoldsCookie(p) => StagedFor(app[p], HeadItem.response)
(* A request answered by the guest is whole and served by nobody.          *)
AnswerInv == \A n \in Subs : \A resp : IsAnswer(n, resp) => resp = Answer(n, sizes[n]) /\ Unserved(n)

BoundInv ==
    /\ subs <= MaxSubs
    /\ crashes \in 0..MaxCrashes /\ resets \in 0..MaxResets /\ copyFailures \in 0..MaxCopyFailures

LinkInv ==
    /\ FreeInv /\ RoutedIsHeld /\ SessionInv /\ HeldInv /\ RoutedInv /\ StagedInv /\ AnswerInv

SystemInv == Inv /\ Ordered /\ BoundInv /\ GuestInv /\ SnapInv /\ LinkInv

Kept == GuestInv' /\ LinkInv'

-----------------------------------------------------------------------------
(* The guest's moves *)

(* Issuing requests, tokens and cookies takes nothing from the guest.      *)
LEMMA GuestGrows ==
    ASSUME NEW D, NEW A, NEW R, NEW Z, NEW s \in Nat, NEW h \in Nat, NEW c \in Nat,
           NEW s2 \in Nat, NEW h2 \in Nat, NEW c2 \in Nat, s <= s2, h <= h2, c <= c2,
           Guest(D, A, R, Z, s, h, c)
    PROVE  Guest(D, A, R, Z, s2, h2, c2)
<1>0. 1..s \subseteq 1..s2 /\ 0..s \subseteq 0..s2 /\ 1..h \subseteq 1..h2 /\ 1..c \subseteq 1..c2
  OBVIOUS
<1>1. ASSUME NEW w, Sends(w, Z, s) PROVE Sends(w, Z, s2)
  BY <1>0, <1>1 DEF Sends
<1>2. ASSUME NEW d \in Daemons PROVE DaemonFits(D[d], Z, s2, h2)
  BY <1>0, <1>1 DEF Guest, DaemonFits
<1>3. ASSUME NEW p \in Pids PROVE AppFits(A[p], Z, s2, c2)
  BY <1>0, <1>1 DEF Guest, AppFits
<1>4. RanOnce(D, A, R, s2)
  BY DEF Guest, RanOnce, Subs
<1>5. QED
  BY <1>2, <1>3, <1>4 DEF Guest

(* The answer to n gets its size while nobody is sending one.              *)
LEMMA SizeSet ==
    ASSUME NEW D, NEW A, NEW R, NEW Z, NEW s \in Nat, NEW h \in Nat, NEW c \in Nat,
           Guest(D, A, R, Z, s, h, c), NEW n \in Subs, NEW k \in 0..RESPONSE_MAX,
           \A d \in Daemons : D[d].pc \in {"send", "finish"} => D[d].req # n,
           \A p \in Pids : A[p].pc \in {"send", "finish"} => A[p].req # n
    PROVE  Guest(D, A, R, [Z EXCEPT ![n] = k], s, h, c)
<1> DEFINE Y == [Z EXCEPT ![n] = k]
<1>1. Y \in [Subs -> 0..RESPONSE_MAX] /\ \A m : m # n => Y[m] = Z[m]
  BY DEF Guest
<1> HIDE DEF Y
<1>2. \A d \in Daemons : DaemonFits(D[d], Y, s, h)
  BY <1>1 DEF Guest, DaemonFits, Sends
<1>3. \A p \in Pids : AppFits(A[p], Y, s, c)
  BY <1>1 DEF Guest, AppFits, Sends
<1>4. Guest(D, A, R, Y, s, h, c)
  BY <1>1, <1>2, <1>3 DEF Guest
<1>5. QED
  BY <1>4 DEF Y

(* Request n is carried out, for the first time and by nobody again.       *)
LEMMA RunCounted ==
    ASSUME NEW D, NEW A, NEW R, NEW Z, NEW s \in Nat, NEW h \in Nat, NEW c \in Nat,
           Guest(D, A, R, Z, s, h, c), NEW n \in Subs, n <= s, R[n] = 0,
           \A d \in Daemons : ~MayRun(D[d], n), \A p \in Pids : ~MayRun(A[p], n)
    PROVE  Guest(D, A, [R EXCEPT ![n] = @ + 1], Z, s, h, c)
<1> DEFINE Q == [R EXCEPT ![n] = @ + 1]
<1>1. Q \in [Subs -> Nat] /\ Q[n] = 1 /\ \A m \in Subs : m # n => Q[m] = R[m]
  BY DEF Guest
<1> HIDE DEF Q
<1>2. RanOnce(D, A, Q, s)
  BY <1>1 DEF Guest, RanOnce
<1>3. Guest(D, A, Q, Z, s, h, c)
  BY <1>1, <1>2 DEF Guest
<1>4. QED
  BY <1>3 DEF Q

(* The fields of a process that serves nothing.                             *)
LEMMA IdleType ==
    ASSUME NEW pc \in {"hello", "down", "poll", "read"}, NEW k \in Nat
    PROVE  /\ Idle(pc) \in ProcessState /\ [Idle(pc) EXCEPT !.key = k] \in ProcessState
           /\ Idle(pc).pc = pc /\ Idle(pc).key = 0 /\ Idle(pc).req = 0 /\ Idle(pc).st = "ok"
           /\ [Idle(pc) EXCEPT !.key = k].pc = pc /\ [Idle(pc) EXCEPT !.key = k].key = k
           /\ [Idle(pc) EXCEPT !.key = k].req = 0 /\ [Idle(pc) EXCEPT !.key = k].st = "ok"
           /\ [Idle(pc) EXCEPT !.key = k].read = 0 /\ [Idle(pc) EXCEPT !.key = k].shown = {}
           /\ [Idle(pc) EXCEPT !.key = k].out = 0 /\ [Idle(pc) EXCEPT !.key = k].sent = 0
BY AgentConstants, SystemConstants DEF Idle, ProcessState, Statuses, Subs

(* An idle daemon fits, with the token of its session or with none.        *)
LEMMA IdleFits ==
    ASSUME NEW z, NEW s \in Nat, NEW h \in Nat
    PROVE  /\ DaemonFits(Idle("hello"), z, s, h) /\ DaemonFits(Idle("down"), z, s, h)
           /\ \A k \in 1..h : DaemonFits([Idle("poll") EXCEPT !.key = k], z, s, h)
<1>1. DaemonFits(Idle("hello"), z, s, h) /\ DaemonFits(Idle("down"), z, s, h)
  BY IdleType, Zenon DEF DaemonFits, Sends, Busy
<1>2. ASSUME NEW k \in 1..h PROVE DaemonFits([Idle("poll") EXCEPT !.key = k], z, s, h)
  <2>1. k \in Nat
    OBVIOUS
  <2>2. QED
    BY <2>1, IdleType, Zenon DEF DaemonFits, Sends, Busy
<1>3. QED
  BY <1>1, <1>2

(* Nobody else serves what a process serves.                               *)
LEMMA OnlyServer ==
    ASSUME GuestInv, NEW n \in Subs
    PROVE  /\ \A d \in Daemons : Serves(daemon[d], n) =>
                 /\ \A e \in Daemons : e # d => ~Serves(daemon[e], n)
                 /\ \A p \in Pids : ~Serves(app[p], n)
           /\ \A p \in Pids : Serves(app[p], n) =>
                 /\ \A d \in Daemons : ~Serves(daemon[d], n)
                 /\ \A q \in Pids : q # p => ~Serves(app[q], n)
           /\ \A d \in Daemons : MayRun(daemon[d], n) => runs[n] = 0
           /\ \A p \in Pids : MayRun(app[p], n) => runs[n] = 0
BY DEF GuestInv, Guest, Exclusive, RanOnce

(* Who may run a request serves it.                                        *)
LEMMA RunnersServe ==
    ASSUME NEW w, NEW n, MayRun(w, n)
    PROVE  Serves(w, n)
BY DEF MayRun, Serves, Busy

-----------------------------------------------------------------------------
(* The channel and the guest stay linked *)

(* What the guest's invariant says of one daemon, and of one application.  *)
LEMMA DaemonHas ==
    ASSUME GuestInv, NEW d \in Daemons
    PROVE  /\ daemon \in [Daemons -> ProcessState] /\ daemon[d] \in ProcessState
           /\ DaemonFits(daemon[d], sizes, subs, hellos)
           /\ \A e \in Daemons : e # d /\ daemon[e].key = daemon[d].key => daemon[d].key = 0
           /\ daemon[d].pc \in Busy => daemon[d].key \in 1..hellos /\ daemon[d].req \in 1..subs
BY DEF GuestInv, Guest, KeysDiffer, DaemonFits, Busy

(* What the invariant says of one application.                              *)
LEMMA AppHas ==
    ASSUME GuestInv, NEW p \in Pids
    PROVE  /\ app \in [Pids -> ProcessState] /\ app[p] \in ProcessState
           /\ AppFits(app[p], sizes, subs, cookies)
BY DEF GuestInv, Guest

(* A request not submitted yet is nobody's.                                *)
LEMMA NewIsUntouched ==
    ASSUME Inv, GuestInv, NEW n \in Subs, n = subs + 1
    PROVE  runs[n] = 0 /\ Unserved(n)
<1>1. subs \in Nat /\ n \notin 0..subs /\ n \notin 1..subs /\ ~(n <= subs)
  BY DEF Inv, TypeOK
<1>2. runs[n] = 0
  BY <1>1 DEF GuestInv, Guest, RanOnce
<1>3. ASSUME NEW d \in Daemons PROVE ~Serves(daemon[d], n)
  BY <1>1, DaemonHas DEF Serves
<1>4. ASSUME NEW p \in Pids PROVE ~Serves(app[p], n)
  BY <1>1, AppHas DEF Serves, AppFits
<1>5. QED
  BY <1>2, <1>3, <1>4 DEF Unserved

(* The guest knows the number of the head.                                 *)
LEMMA HeadInSubs ==
    ASSUME Inv, Ordered, BoundInv, Serving
    PROVE  HeadItem.sub \in Subs
<1>1. HeadItem.sub \in 1..subs /\ subs \in Nat /\ subs <= MaxSubs /\ MaxSubs \in Nat
  BY HeadKnown, SystemConstants DEF Inv, TypeOK, BoundInv
<1>2. QED
  BY <1>1 DEF Subs

(* Steps that leave the guest alone.                                       *)
LEMMA QuietLinks ==
    ASSUME SystemInv, Quiet, UNCHANGED guestVars
    PROVE  LinkInv'
<1> USE DEF SystemInv, LinkInv
<1>0. UNCHANGED <<daemon, app, runs, sizes>>
  BY DEF guestVars
<1>1. FreeInv'
  BY <1>0, NewIsUntouched DEF FreeInv, Quiet, Unserved
<1>2. RoutedIsHeld'
  BY DEF Quiet
<1>3. AnswerInv'
  BY <1>0 DEF AnswerInv, Quiet, Unserved
<1>4. CASE /\ Held /\ Held' /\ UNCHANGED <<token, claimed>>
           /\ HeadItem'.sub = HeadItem.sub
           /\ HeadItem'.uiPid = HeadItem.uiPid
           /\ HeadItem'.uiCookie = HeadItem.uiCookie
           /\ HeadItem'.response = HeadItem.response
           /\ Expired => Expired'
  <2>1. /\ Routed' <=> Routed
        /\ \A p \in Pids : HoldsCookie(p)' <=> HoldsCookie(p)
        /\ \A d \in Daemons : OwnsSession(daemon[d].key)' <=> OwnsSession(daemon[d].key)
    BY <1>0, <1>4 DEF Held, Routed, HeadItem, HoldsCookie, OwnsSession
  <2>2. SessionInv' /\ HeldInv'
    BY <1>0, <1>4, <2>1 DEF SessionInv, HeldInv
  <2>3. RoutedInv'
    BY <1>0, <1>4, <2>1 DEF RoutedInv
  <2>4. StagedInv'
    BY <1>0, <1>4, <2>1 DEF StagedInv
  <2>5. QED
    BY <1>1, <1>2, <1>3, <2>2, <2>3, <2>4
<1>5. CASE ~Held' /\ (~claimed' \/ ((Held => Routed) /\ UNCHANGED <<token, claimed>>))
  <2>1. ~Routed'
    <3>1. CASE Serving'
      <4>1. HeadItem' = pending'[1] /\ 1 \in DOMAIN pending'
        BY <3>1, FirstProperties DEF Serving, HeadItem, Inv, TypeOK
      <4>2. QED
        BY <1>2, <1>5, <4>1, <3>1 DEF RoutedIsHeld, Held, Routed, HeadItem
    <3>2. QED
      BY <3>1 DEF Routed
  <2>2. \A d \in Daemons : OwnsSession(daemon[d].key)' => daemon[d].pc \notin Busy
    BY <1>0, <1>5, Zenon DEF OwnsSession, SessionInv
  <2>3. SessionInv' /\ HeldInv' /\ RoutedInv'
    BY <1>0, <1>5, <2>1, <2>2 DEF SessionInv, HeldInv, RoutedInv
  <2>4. StagedInv'
    BY <1>0, <2>1, <2>2 DEF StagedInv, StagedFor, Busy
  <2>5. QED
    BY <1>1, <1>2, <1>3, <2>3, <2>4
<1>6. QED
  BY <1>4, <1>5 DEF Quiet

(* Steps after which no request is held.                                   *)
LEMMA NothingHeldLinks ==
    ASSUME ~Held', ~Routed', RoutedIsHeld', FreeInv', AnswerInv',
           \A d \in Daemons : OwnsSession(daemon[d].key)' => daemon'[d].pc \notin Busy
    PROVE  LinkInv'
<1>1. SessionInv' /\ HeldInv' /\ RoutedInv'
  BY DEF SessionInv, HeldInv, RoutedInv
<1>2. StagedInv'
  BY DEF StagedInv, StagedFor, Busy
<1>3. QED
  BY <1>1, <1>2 DEF LinkInv

(* A step that changes neither the channel nor the guest.                   *)
LEMMA NothingMoves ==
    ASSUME SystemInv, UNCHANGED <<pending, done, token, claimed, subs, hellos, cookies>>,
           UNCHANGED guestVars
    PROVE  Kept
<1>1. Quiet
  BY DoneShrinksQuiet DEF SystemInv, LinkInv
<1>2. QED
  BY <1>1, QuietLinks DEF Kept, SystemInv, GuestInv, guestVars

-----------------------------------------------------------------------------
(* Sending an answer *)

(* A window a process sends is one of its answer's.                        *)
LEMMA WindowFits ==
    ASSUME NEW w \in ProcessState, NEW z, NEW s \in Nat, s <= MaxSubs, Sends(w, z, s),
           w.pc = "send", w.out # 0
    PROVE  /\ w.req \in Subs /\ w.sent \in Nat /\ w.sent < w.out /\ w.out <= RESPONSE_MAX
           /\ w.sent \in 0..RESPONSE_MAX /\ Window(w.req, w.sent + 1) \in Chunks
<1>1. w.out \in 0..RESPONSE_MAX /\ w.sent \in 0..RESPONSE_MAX
  BY DEF ProcessState
<1>2. w.sent < w.out /\ w.req \in 1..s
  BY <1>1, AgentConstants DEF Sends
<1>3. w.req \in Subs /\ w.sent + 1 \in 1..RESPONSE_MAX
  BY <1>1, <1>2, AgentConstants, SystemConstants DEF Subs
<1>4. Window(w.req, w.sent + 1) \in Windows
  BY <1>3 DEF Window, Windows
<1>5. QED
  BY <1>1, <1>2, <1>3, <1>4, SystemConstants

(* The windows of an answer, one by one.                                   *)
LEMMA AnswerGrows ==
    ASSUME NEW n, NEW k \in Nat
    PROVE  /\ Answer(n, 0) = << >> /\ Answer(n, 1) = <<Window(n, 1)>>
           /\ Answer(n, k) \in Seq({Window(n, i) : i \in Nat}) /\ Len(Answer(n, k)) = k
           /\ Append(Answer(n, k), Window(n, k + 1)) = Answer(n, k + 1)
<1> DEFINE S == {Window(n, i) : i \in Nat}
<1>1. ASSUME NEW m \in Nat
      PROVE  /\ Answer(n, m) \in Seq(S) /\ Len(Answer(n, m)) = m
             /\ \A i \in 1..m : Answer(n, m)[i] = Window(n, i)
  BY DEF Answer
<1>2. Answer(n, 0) = << >>
  <2>1. Answer(n, 0) \in Seq(S) /\ Len(Answer(n, 0)) = 0
    BY <1>1
  <2> HIDE DEF S
  <2>2. QED
    BY <2>1, EmptyIs
<1>3. Append(Answer(n, k), Window(n, k + 1)) = Answer(n, k + 1)
  <2> DEFINE q == Answer(n, k)  x == Window(n, k + 1)
  <2>1. q \in Seq(S) /\ x \in S /\ Len(q) = k
    BY <1>1
  <2> HIDE DEF S, q, x
  <2>2. /\ Append(q, x) \in Seq(S) /\ Len(Append(q, x)) = k + 1
        /\ \A i \in 1..(k + 1) : Append(q, x)[i] = IF i <= k THEN q[i] ELSE x
    BY <2>1, AppendIs
  <2>3. \A i \in 1..(k + 1) : Append(q, x)[i] = Window(n, i)
    <3>1. \A i \in 1..k : q[i] = Window(n, i)
      BY <1>1 DEF q
    <3>2. QED
      BY <2>2, <3>1 DEF x
  <2>4. Answer(n, k + 1) \in Seq(S) /\ Len(Answer(n, k + 1)) = k + 1
        /\ \A i \in 1..(k + 1) : Answer(n, k + 1)[i] = Window(n, i)
    <3>1. k + 1 \in Nat
      OBVIOUS
    <3>2. QED
      BY <1>1, <3>1
  <2>5. QED
    BY <2>2, <2>3, <2>4, SeqSame DEF q, x
<1>4. Answer(n, 1) = <<Window(n, 1)>>
  BY DEF Answer
<1>5. QED
  BY <1>1, <1>2, <1>3, <1>4, Zenon

(* After a window a process still has what it had, one window further.     *)
LEMMA AfterSendFits ==
    ASSUME NEW w \in ProcessState, w.pc = "send", NEW z, NEW s, Sends(w, z, s)
    PROVE  /\ AfterSend(w) \in ProcessState /\ AfterSend(w).pc \in {"send", "finish"}
           /\ AfterSend(w).key = w.key /\ AfterSend(w).req = w.req /\ AfterSend(w).out = w.out
           /\ IF w.sent + 1 >= w.out THEN AfterSend(w).pc = "finish" /\ AfterSend(w).sent = w.sent
              ELSE AfterSend(w).pc = "send" /\ AfterSend(w).sent = w.sent + 1
           /\ Sends(AfterSend(w), z, s)
<1>1. w.out \in Nat /\ w.sent \in Nat /\ RESPONSE_MAX \in Nat /\ w.out <= RESPONSE_MAX
  BY AgentConstants DEF ProcessState
<1>2. /\ w.st \in {"ok", "eio"}
      /\ w.sent < w.out \/ (w.sent = 0 /\ w.out = 0)
      /\ w.st = "ok" \/ w.out > 0 => w.req \in 1..s
      /\ w.st = "ok" => w.out = z[w.req]
  BY DEF Sends
<1>3. CASE w.sent + 1 >= w.out
  <2>1. AfterSend(w) = [w EXCEPT !.pc = "finish"]
    BY <1>3 DEF AfterSend
  <2> DEFINE v == [w EXCEPT !.pc = "finish"]
  <2>2. /\ v \in ProcessState /\ v.pc = "finish" /\ v.key = w.key /\ v.req = w.req
        /\ v.out = w.out /\ v.sent = w.sent /\ v.st = w.st
    BY DEF ProcessState
  <2> HIDE DEF v
  <2>3. Sends(v, z, s)
    BY <1>2, <2>2 DEF Sends
  <2>4. QED
    BY <1>3, <2>1, <2>2, <2>3 DEF v
<1>4. CASE ~(w.sent + 1 >= w.out)
  <2>1. AfterSend(w) = [w EXCEPT !.sent = @ + 1]
    BY <1>4 DEF AfterSend
  <2> DEFINE v == [w EXCEPT !.sent = @ + 1]
  <2>2. w.sent + 1 \in 0..RESPONSE_MAX /\ w.sent + 1 < w.out
    BY <1>1, <1>4
  <2>3. /\ v \in ProcessState /\ v.pc = "send" /\ v.key = w.key /\ v.req = w.req
        /\ v.out = w.out /\ v.sent = w.sent + 1 /\ v.st = w.st
    BY <2>2 DEF ProcessState
  <2> HIDE DEF v
  <2>4. Sends(v, z, s)
    BY <1>2, <2>2, <2>3 DEF Sends
  <2>5. QED
    BY <1>4, <2>1, <2>3, <2>4 DEF v
<1>5. QED
  BY <1>3, <1>4

(* A window accepted is the next one of the answer being staged.           *)
LEMMA SendDoes ==
    ASSUME SystemInv, NEW w \in ProcessState, w.pc = "send", NEW z, Sends(w, z, subs),
           NEW may, SendWindow(may, w, 0), may => StagedFor(w, HeadItem.response)
    PROVE  /\ may /\ Serving /\ HeadStays /\ StagedFor(AfterSend(w), HeadItem'.response)
           /\ UNCHANGED <<subs, hellos, cookies>>
<1> USE DEF SystemInv
<1>1. /\ subs \in Nat /\ subs <= MaxSubs /\ w.out \in Nat /\ w.sent \in Nat
      /\ w.sent < w.out \/ (w.sent = 0 /\ w.out = 0)
  BY AgentConstants DEF Inv, TypeOK, BoundInv, ProcessState, Sends
<1>2. CASE w.out = 0
  <2>1. /\ may /\ Serving /\ pending' = [pending EXCEPT ![1].response = << >>]
        /\ UNCHANGED <<done, token, claimed, lease, hellos, cookies, subs>>
    BY <1>2 DEF SendWindow, WriteEmpty
  <2>2. << >> \in Responses
    BY ResponseProperties
  <2>3. HeadStays /\ HeadItem'.response = << >>
    BY <2>1, <2>2, WriteStays, Zenon DEF LinkInv
  <2>4. AfterSend(w).pc = "finish" /\ AfterSend(w).out = 0
    BY <1>1, <1>2, AfterSendFits
  <2>5. Answer(AfterSend(w).req, 0) = << >>
    BY AnswerGrows, Zenon
  <2>6. QED
    BY <2>1, <2>3, <2>4, <2>5 DEF StagedFor
<1>3. CASE w.out # 0
  <2> DEFINE c == Window(w.req, w.sent + 1)
             resp == IF w.sent = 0 THEN <<c>> ELSE Append(pending[1].response, c)
  <2>1. c \in Chunks /\ w.sent < w.out /\ w.sent \in 0..RESPONSE_MAX
    BY <1>1, <1>3, WindowFits
  <2>2. WriteWindow(may, w.sent, c, 0)
    BY <1>3 DEF SendWindow
  <2> HIDE DEF c
  <2>3. /\ may /\ MayWrite(w.sent) /\ Serving /\ pending' = [pending EXCEPT ![1].response = resp]
        /\ UNCHANGED <<done, token, claimed, lease, hellos, cookies, subs>>
    BY <2>2 DEF WriteWindow, MayWrite
  <2>4. HeadItem = pending[1] /\ HeadItem.response \in Responses
    BY <2>3, HeadTypes
  <2>5. resp = Answer(w.req, w.sent + 1)
    <3>1. CASE w.sent = 0
      <4>1. 0 \in Nat /\ w.sent + 1 = 1
        BY <3>1
      <4>2. QED
        BY <3>1, <4>1, AnswerGrows, Zenon DEF c
    <3>2. CASE w.sent # 0
      <4>1. pending[1].response = Answer(w.req, w.sent)
        BY <1>1, <2>3, <2>4, <3>2 DEF StagedFor
      <4>2. QED
        BY <1>1, <3>2, <4>1, AnswerGrows, Zenon DEF c
    <3>3. QED
      BY <3>1, <3>2
  <2>6. resp \in Responses
    BY <2>1, <2>3, <2>4, ResponseProperties DEF MayWrite, HeadItem
  <2> HIDE DEF resp
  <2>7. HeadStays /\ HeadItem'.response = resp
    BY <2>3, <2>6, WriteStays, Zenon DEF LinkInv
  <2>8. StagedFor(AfterSend(w), resp)
    <3>1. w.sent + 1 >= w.out => w.sent + 1 = w.out
      BY <1>1, <2>1
    <3>2. QED
      BY <2>5, <3>1, AfterSendFits DEF StagedFor
  <2>9. QED
    BY <2>3, <2>7, <2>8
<1>4. QED
  BY <1>2, <1>3

-----------------------------------------------------------------------------
(* The system's steps are steps of the channel *)

(* What is issued is never taken back.                                     *)
LEMMA Issued ==
    ASSUME Inv, Inv', [Next]_agentVars
    PROVE  /\ subs \in Nat /\ subs' \in Nat /\ subs <= subs'
           /\ hellos \in Nat /\ hellos' \in Nat /\ hellos <= hellos'
           /\ cookies \in Nat /\ cookies' \in Nat /\ cookies <= cookies'
<1>1. /\ subs \in Nat /\ subs' \in Nat /\ hellos \in Nat /\ hellos' \in Nat
      /\ cookies \in Nat /\ cookies' \in Nat
  BY DEF Inv, TypeOK
<1>2. /\ subs' \in {subs, subs + 1} /\ hellos' \in {hellos, hellos + 1}
      /\ cookies' \in {cookies, cookies + 1}
  BY Zenon DEF Next, agentVars, Submit, Cancel, CancelPending, CancelDone, TakeResult, Reset, Hello,
         Poll, WriteWindow, WriteEmpty, Done, UiRoute, Tick
<1>3. QED
  BY <1>1, <1>2

(* Every call a daemon makes is a call the channel allows.                  *)
LEMMA DaemonChannel ==
    ASSUME SystemInv, NEW d \in Daemons, DaemonStep(d)
    PROVE  [Next]_agentVars
<1> USE DEF SystemInv
<1>0. /\ daemon[d] \in ProcessState /\ DaemonFits(daemon[d], sizes, subs, hellos)
      /\ subs \in Nat /\ subs <= MaxSubs
  BY DaemonHas DEF Inv, TypeOK, BoundInv
<1>1. daemon[d].pc \notin {"hello", "down"} => daemon[d].key \in 1..hellos
  BY <1>0 DEF DaemonFits
<1>2. CASE DaemonHello(d)
  BY <1>2 DEF DaemonHello, Next
<1>3. CASE DaemonPoll(d)
  BY <1>1, <1>3 DEF DaemonPoll, Next
<1>4. CASE DaemonChild(d)
  BY <1>1, <1>4 DEF DaemonChild, Next
<1>5. CASE DaemonRead(d) \/ DaemonDispatch(d)
  BY <1>5 DEF DaemonRead, DaemonDispatch, ReadWindow
<1>6. CASE DaemonRoute(d)
  BY <1>1, <1>6 DEF DaemonRoute, Next
<1>7. CASE DaemonSend(d)
  <2>1. PICK r \in {0, -1} : SendWindow(RootMay(daemon[d].key), daemon[d], r)
    BY <1>7 DEF DaemonSend
  <2>2. daemon[d].pc = "send" /\ daemon[d].key \in 1..hellos
    BY <1>1, <1>7 DEF DaemonSend
  <2>3. CASE daemon[d].out = 0
    BY <2>1, <2>2, <2>3 DEF SendWindow, Next
  <2>4. CASE daemon[d].out # 0
    <3>1. daemon[d].sent \in 0..RESPONSE_MAX /\ Window(daemon[d].req, daemon[d].sent + 1) \in Chunks
      BY <1>0, <2>2, <2>4, WindowFits DEF DaemonFits
    <3>2. WriteWindow(RootMay(daemon[d].key), daemon[d].sent, Window(daemon[d].req, daemon[d].sent + 1), r)
      BY <2>1, <2>4 DEF SendWindow
    <3>3. QED
      BY <2>2, <3>1, <3>2 DEF Next
  <2>5. QED
    BY <2>3, <2>4
<1>8. CASE DaemonDone(d)
  BY <1>0, <1>1, <1>8 DEF DaemonDone, DaemonFits, Sends, Next
<1>9. QED
  BY <1>2, <1>3, <1>4, <1>5, <1>6, <1>7, <1>8 DEF DaemonStep

(* Every call an application makes is a call the channel allows.            *)
LEMMA AppChannel ==
    ASSUME SystemInv, NEW p \in Pids, AppStep(p)
    PROVE  [Next]_agentVars
<1> USE DEF SystemInv
<1>0. /\ app[p] \in ProcessState /\ AppFits(app[p], sizes, subs, cookies)
      /\ subs \in Nat /\ subs <= MaxSubs
  BY AppHas DEF Inv, TypeOK, BoundInv
<1>1. app[p].pc # "poll" => app[p].key \in 1..cookies
  BY <1>0 DEF AppFits
<1>2. CASE AppPoll(p) \/ AppRead(p) \/ AppAct(p)
  BY <1>2 DEF AppPoll, UiPoll, AppRead, ReadWindow, AppAct
<1>3. CASE AppSend(p)
  <2>1. PICK r \in {0, -1} : SendWindow(UiMay(app[p].key), app[p], r)
    BY <1>3 DEF AppSend
  <2>2. app[p].pc = "send" /\ app[p].key \in 1..cookies
    BY <1>1, <1>3, SMTT(20) DEF AppSend
  <2>3. CASE app[p].out = 0
    BY <2>1, <2>2, <2>3 DEF SendWindow, Next
  <2>4. CASE app[p].out # 0
    <3>1. app[p].sent \in 0..RESPONSE_MAX /\ Window(app[p].req, app[p].sent + 1) \in Chunks
      BY <1>0, <2>2, <2>4, WindowFits DEF AppFits
    <3>2. WriteWindow(UiMay(app[p].key), app[p].sent, Window(app[p].req, app[p].sent + 1), r)
      BY <2>1, <2>4 DEF SendWindow
    <3>3. QED
      BY <2>2, <3>1, <3>2 DEF Next
  <2>5. QED
    BY <2>3, <2>4
<1>4. CASE AppDone(p)
  BY <1>0, <1>1, <1>4, Zenon DEF AppDone, AppFits, Sends, Next
<1>5. QED
  BY <1>2, <1>3, <1>4 DEF AppStep

(* Every step of the system is one the channel allows any guest.           *)
LEMMA ChannelStep ==
    ASSUME SystemInv, [SystemNext]_vars
    PROVE  [Next]_agentVars
<1>1. CASE UNCHANGED vars
  BY <1>1 DEF vars
<1>2. CASE FrontEnd
  BY <1>2 DEF FrontEnd, Next
<1>3. ASSUME NEW d \in Daemons, DaemonStep(d) \/ DaemonCrash(d) \/ DaemonStart(d)
      PROVE  [Next]_agentVars
  BY <1>3, DaemonChannel DEF DaemonCrash, DaemonStart
<1>4. CASE MachineReset \/ SaveSnapshot \/ LoadSnapshot \/ Clock
  BY <1>4 DEF MachineReset, SaveSnapshot, LoadSnapshot, Clock, Next
<1>5. QED
  BY <1>1, <1>2, <1>3, <1>4, AppChannel DEF SystemNext

(* What follows at once for the channel and for the snapshot.              *)
LEMMA ChannelKeeps ==
    ASSUME SystemInv, [SystemNext]_vars
    PROVE  /\ Inv' /\ Ordered'
           /\ subs \in Nat /\ subs' \in Nat /\ subs <= subs'
           /\ hellos \in Nat /\ hellos' \in Nat /\ hellos <= hellos'
           /\ cookies \in Nat /\ cookies' \in Nat /\ cookies <= cookies'
<1>1. [Next]_agentVars /\ Inv /\ Ordered
  BY ChannelStep DEF SystemInv
<1>2. Inv' /\ Ordered'
  BY <1>1, NextInv, NextStep
<1>3. QED
  BY <1>1, <1>2, Issued

-----------------------------------------------------------------------------
(* The machine and the front end *)

(* Every step of a front end, or of the clock, is quiet.                   *)
LEMMA FrontEndQuiet ==
    ASSUME Inv, Ordered, RoutedIsHeld, FrontEnd \/ Clock
    PROVE  Quiet
<1>1. ASSUME UNCHANGED agentVars PROVE Quiet
  BY <1>1, DoneShrinksQuiet DEF agentVars
<1>2. ASSUME NEW id \in Ids, NEW r, Submit(id, r) PROVE Quiet
  BY <1>1, <1>2, SubmitQuiet DEF Submit
<1>3. ASSUME NEW i \in DOMAIN done, CancelDone(i) PROVE Quiet
  <2>1. done \in Seq(Item) /\ i \in 1..Len(done) /\ Len(done) \in Nat /\ DOMAIN done = 1..Len(done)
    BY SeqIs DEF Inv, TypeOK
  <2>2. /\ DOMAIN done' = 1..(Len(done) - 1)
        /\ \A k \in 1..(Len(done) - 1) : done'[k] = IF k < i THEN done[k] ELSE done[k + 1]
    <3>1. done' = DeleteLink(done, i)
      BY <1>3 DEF CancelDone
    <3>2. /\ DeleteLink(done, i) \in Seq(Item) /\ Len(DeleteLink(done, i)) = Len(done) - 1
          /\ \A k \in 1..(Len(done) - 1) :
                DeleteLink(done, i)[k] = IF k < i THEN done[k] ELSE done[k + 1]
      BY <2>1, DeleteLinkProperties, Zenon
    <3>3. QED
      BY <3>1, <3>2, SeqIs, Zenon
  <2>3. \A k \in DOMAIN done' : \E j \in DOMAIN done : done'[k] = done[j]
    BY <2>1, <2>2
  <2>4. QED
    BY <1>3, <2>3, DoneShrinksQuiet DEF CancelDone
<1>4. CASE TakeResult
  <2>1. \A k \in DOMAIN done' : \E j \in DOMAIN done : done'[k] = done[j]
    <3>1. done \in Seq(Item) /\ done # << >> /\ done' = Tail(done)
      BY <1>4 DEF TakeResult, Inv, TypeOK
    <3>2. /\ done' \in Seq(Item) /\ Len(done') = Len(done) - 1
          /\ \A k \in 1..(Len(done) - 1) : done'[k] = done[k + 1]
      BY <3>1, HeadTailIs
    <3>3. QED
      BY <3>1, <3>2, SeqIs
  <2>2. QED
    BY <1>4, <2>1, DoneShrinksQuiet DEF TakeResult
<1>5. QED
  BY <1>2, <1>3, <1>4, CancelPendingQuiet, TickQuiet DEF FrontEnd, Clock, Cancel

(* Machine resets and loaded snapshots leave the channel empty.            *)
LEMMA EmptyLinks ==
    ASSUME Reset
    PROVE  LinkInv'
<1>1. FreeInv' /\ AnswerInv'
  BY ResetGone DEF FreeInv, AnswerInv
<1>2. \A d \in Daemons : ~OwnsSession(daemon[d].key)'
  BY ResetGone DEF OwnsSession
<1>3. QED
  BY <1>1, <1>2, ResetGone, NothingHeldLinks

(* A guest with nothing running.                                           *)
LEMMA NoGuestFits ==
    ASSUME NEW D, NEW A, NEW R, NEW Z, NEW s \in Nat, NEW h \in Nat, NEW c \in Nat,
           Guest(D, A, R, Z, s, h, c)
    PROVE  Guest([d \in Daemons |-> Idle("down")], [p \in Pids |-> Idle("poll")], R, Z, s, h, c)
<1> DEFINE E == [d \in Daemons |-> Idle("down")]  B == [p \in Pids |-> Idle("poll")]
<1>1. /\ Idle("down") \in ProcessState /\ Idle("down").pc = "down" /\ Idle("down").key = 0
      /\ Idle("poll") \in ProcessState /\ Idle("poll").pc = "poll" /\ Idle("poll").key = 0
      /\ Idle("poll").req = 0 /\ Idle("poll").st = "ok"
  <2>1. 0 \in Nat
    OBVIOUS
  <2>2. QED
    BY <2>1, IdleType, Zenon
<1>2. DaemonFits(Idle("down"), Z, s, h) /\ AppFits(Idle("poll"), Z, s, c)
  BY <1>1, IdleFits DEF AppFits, Sends
<1>3. \A n : ~Serves(Idle("down"), n) /\ ~Serves(Idle("poll"), n)
             /\ ~MayRun(Idle("down"), n) /\ ~MayRun(Idle("poll"), n)
  BY <1>1 DEF Serves, MayRun, Busy
<1>4. /\ E \in [Daemons -> ProcessState] /\ \A d \in Daemons : E[d] = Idle("down")
      /\ B \in [Pids -> ProcessState] /\ \A p \in Pids : B[p] = Idle("poll")
  BY <1>1
<1> HIDE DEF E, B
<1>5. KeysDiffer(E) /\ Exclusive(E, B)
  BY <1>1, <1>3, <1>4 DEF KeysDiffer, Exclusive
<1>6. RanOnce(E, B, R, s)
  BY <1>3, <1>4 DEF Guest, RanOnce
<1>7. Guest(E, B, R, Z, s, h, c)
  BY <1>2, <1>4, <1>5, <1>6 DEF Guest
<1>8. QED
  BY <1>7 DEF E, B

(* Resets, snapshots, the front end and the clock.                         *)
LEMMA MachineStep ==
    ASSUME SystemInv, MachineReset \/ SaveSnapshot \/ LoadSnapshot \/ FrontEnd \/ Clock
    PROVE  Kept
<1>0. /\ subs \in Nat /\ subs' \in Nat /\ subs <= subs'
      /\ hellos \in Nat /\ hellos' \in Nat /\ hellos <= hellos'
      /\ cookies \in Nat /\ cookies' \in Nat /\ cookies <= cookies'
  <2>1. [SystemNext]_vars
    BY DEF SystemNext
  <2>2. QED
    BY <2>1, ChannelKeeps
<1> USE DEF SystemInv
<1>1. CASE MachineReset
  <2>1. Reset /\ NoGuest /\ UNCHANGED <<runs, sizes>>
    BY <1>1 DEF MachineReset
  <2>2. Guest([d \in Daemons |-> Idle("down")], [p \in Pids |-> Idle("poll")], runs, sizes,
              subs, hellos, cookies)
    BY <1>0, NoGuestFits DEF GuestInv
  <2>3. Guest(daemon', app', runs', sizes', subs, hellos, cookies)
    BY <2>1, <2>2 DEF NoGuest
  <2>4. GuestInv'
    BY <1>0, <2>3, GuestGrows DEF GuestInv
  <2>5. QED
    BY <2>1, <2>4, EmptyLinks DEF Kept
<1>2. CASE LoadSnapshot
  <2>1. /\ Reset /\ snap.taken /\ daemon' = snap.daemon /\ app' = snap.app
        /\ runs' = snap.runs /\ sizes' = snap.sizes
    BY <1>2 DEF LoadSnapshot
  <2>2. Guest(snap.daemon, snap.app, snap.runs, snap.sizes, subs, hellos, cookies)
    BY <2>1 DEF SnapInv, NoSnapshot
  <2>3. Guest(daemon', app', runs', sizes', subs, hellos, cookies)
    BY <2>1, <2>2
  <2>4. GuestInv'
    BY <1>0, <2>3, GuestGrows DEF GuestInv
  <2>5. QED
    BY <2>1, <2>4, EmptyLinks DEF Kept
<1>3. CASE SaveSnapshot
  BY <1>3, NothingMoves DEF SaveSnapshot, agentVars
<1>4. CASE FrontEnd \/ Clock
  <2>1. Quiet /\ UNCHANGED guestVars
    BY <1>4, FrontEndQuiet DEF FrontEnd, Clock, LinkInv
  <2>2. LinkInv'
    BY <2>1, QuietLinks
  <2>3. Guest(daemon', app', runs', sizes', subs, hellos, cookies)
    BY <2>1 DEF GuestInv, guestVars
  <2>4. GuestInv'
    BY <1>0, <2>3, GuestGrows DEF GuestInv
  <2>5. QED
    BY <2>2, <2>4 DEF Kept
<1>5. QED
  BY <1>1, <1>2, <1>3, <1>4

-----------------------------------------------------------------------------
(* The start, the bounds and the snapshots *)

(* The invariant holds at the start.                                       *)
LEMMA SystemInitInv == SystemInit => SystemInv
<1> SUFFICES ASSUME SystemInit PROVE SystemInv
  OBVIOUS
<1>1. Inv /\ Ordered
  BY InitInv, InitOrdered DEF SystemInit
<1>2. subs \in Nat /\ hellos \in Nat /\ cookies \in Nat /\ subs = 0
  BY DEF SystemInit, Init
<1>3. BoundInv
  BY <1>2, SystemConstants DEF BoundInv, SystemInit
<1>4. /\ Idle("hello") \in ProcessState /\ Idle("hello").pc = "hello" /\ Idle("hello").key = 0
      /\ Idle("poll") \in ProcessState /\ Idle("poll").pc = "poll" /\ Idle("poll").key = 0
      /\ Idle("poll").req = 0 /\ Idle("poll").st = "ok"
  <2>1. 0 \in Nat
    OBVIOUS
  <2>2. QED
    BY <2>1, IdleType, Zenon
<1>5. DaemonFits(Idle("hello"), sizes, subs, hellos) /\ AppFits(Idle("poll"), sizes, subs, cookies)
  BY <1>2, <1>4, IdleFits DEF AppFits, Sends
<1>6. /\ daemon \in [Daemons -> ProcessState] /\ \A d \in Daemons : daemon[d] = Idle("hello")
      /\ app \in [Pids -> ProcessState] /\ \A p \in Pids : app[p] = Idle("poll")
      /\ runs \in [Subs -> Nat] /\ \A n \in Subs : runs[n] = 0
      /\ sizes \in [Subs -> 0..RESPONSE_MAX]
  BY <1>4, AgentConstants DEF SystemInit
<1>7. \A n : ~Serves(Idle("hello"), n) /\ ~Serves(Idle("poll"), n)
  BY <1>4 DEF Serves, Busy
<1>8. GuestInv
  <2>1. KeysDiffer(daemon) /\ Exclusive(daemon, app) /\ RanOnce(daemon, app, runs, subs)
    BY <1>4, <1>6, <1>7 DEF KeysDiffer, Exclusive, RanOnce
  <2>2. QED
    BY <1>5, <1>6, <2>1 DEF GuestInv, Guest
<1>9. SnapInv
  BY DEF SnapInv, SystemInit
<1>10. LinkInv
  <2>1. ~Serving /\ ~claimed /\ DOMAIN pending = {} /\ DOMAIN done = {}
    BY EmptyProperties DEF SystemInit, Init, Serving
  <2>2. FreeInv /\ AnswerInv /\ RoutedIsHeld
    BY <2>1 DEF FreeInv, AnswerInv, RoutedIsHeld, HasFree, IsAnswer
  <2>3. SessionInv /\ HeldInv /\ RoutedInv /\ StagedInv
    BY <2>1 DEF SessionInv, HeldInv, RoutedInv, StagedInv, Held, Routed, OwnsSession
  <2>4. QED
    BY <2>2, <2>3 DEF LinkInv
<1>11. QED
  BY <1>1, <1>3, <1>8, <1>9, <1>10 DEF SystemInv

(* The bounds the environment keeps to.                                    *)
LEMMA BoundStep ==
    ASSUME SystemInv, [SystemNext]_vars
    PROVE  BoundInv'
<1> USE SystemConstants DEF SystemInv, BoundInv, boundVars
<1>0. subs \in Nat
  BY DEF Inv, TypeOK
<1>1. CASE UNCHANGED vars
  BY <1>1 DEF vars, agentVars
<1>2. CASE FrontEnd
  <2>1. UNCHANGED subs \/ (subs < MaxSubs /\ subs' = subs + 1)
    <3>1. ASSUME NEW id \in Ids, NEW r, Submit(id, r) PROVE UNCHANGED subs \/ subs' = subs + 1
      BY <3>1 DEF Submit, agentVars
    <3>2. ASSUME NEW id \in Ids, Cancel(id) PROVE UNCHANGED subs
      BY <3>2 DEF Cancel, CancelPending, CancelDone, agentVars
    <3>3. ASSUME TakeResult PROVE UNCHANGED subs
      BY <3>3 DEF TakeResult, agentVars
    <3>4. QED
      BY <1>2, <3>1, <3>2, <3>3 DEF FrontEnd
  <2>2. QED
    BY <1>0, <1>2, <2>1 DEF FrontEnd
<1>3. ASSUME NEW may, NEW r, CountCopyFailure(may, r), copyFailures' <= MaxCopyFailures
      PROVE  copyFailures' \in 0..MaxCopyFailures
  BY <1>3, SMTT(20) DEF CountCopyFailure
<1>4. ASSUME NEW d \in Daemons, DaemonStep(d) PROVE BoundInv'
  <2>1. CASE DaemonHello(d) \/ DaemonPoll(d) \/ DaemonChild(d) \/ DaemonDispatch(d)
             \/ DaemonRoute(d) \/ DaemonDone(d)
    BY <2>1, Zenon DEF DaemonHello, DaemonPoll, DaemonChild, DaemonDispatch, DaemonRoute, DaemonDone,
                Hello, Poll, UiRoute, Done, agentVars
  <2>2. CASE DaemonRead(d) \/ DaemonSend(d)
    BY <1>3, <2>2 DEF DaemonRead, DaemonSend, ReadWindow, SendWindow, WriteWindow, WriteEmpty, agentVars
  <2>3. QED
    BY <1>4, <2>1, <2>2 DEF DaemonStep
<1>5. ASSUME NEW d \in Daemons, DaemonCrash(d) \/ DaemonStart(d) PROVE BoundInv'
  BY <1>5 DEF DaemonCrash, DaemonStart, agentVars
<1>6. ASSUME NEW p \in Pids, AppStep(p) PROVE BoundInv'
  <2>1. CASE AppPoll(p) \/ AppAct(p) \/ AppDone(p)
    BY <2>1 DEF AppPoll, AppAct, AppDone, UiPoll, Done, agentVars
  <2>2. CASE AppRead(p) \/ AppSend(p)
    BY <1>3, <2>2, SMTT(20) DEF AppRead, AppSend, ReadWindow, SendWindow, WriteWindow, WriteEmpty, agentVars
  <2>3. QED
    BY <1>6, <2>1, <2>2 DEF AppStep
<1>7. CASE MachineReset \/ SaveSnapshot \/ LoadSnapshot \/ Clock
  BY <1>7 DEF MachineReset, SaveSnapshot, LoadSnapshot, Clock, Reset, Tick, agentVars
<1>8. QED
  BY <1>1, <1>2, <1>4, <1>5, <1>6, <1>7 DEF SystemNext

(* A snapshot is of a guest that was, and is not changed.                  *)
LEMMA SnapStep ==
    ASSUME SystemInv, [SystemNext]_vars
    PROVE  SnapInv'
<1>0. /\ subs \in Nat /\ subs' \in Nat /\ subs <= subs'
      /\ hellos \in Nat /\ hellos' \in Nat /\ hellos <= hellos'
      /\ cookies \in Nat /\ cookies' \in Nat /\ cookies <= cookies'
  BY ChannelKeeps
<1>1. CASE UNCHANGED snap
  BY <1>0, <1>1, GuestGrows, SMTT(20) DEF SystemInv, SnapInv
<1>2. CASE SaveSnapshot
  <2>1. /\ snap' = [taken |-> TRUE, daemon |-> daemon, app |-> app, runs |-> runs, sizes |-> sizes]
        /\ UNCHANGED <<subs, hellos, cookies>>
    BY <1>2 DEF SaveSnapshot, agentVars
  <2>2. /\ snap'.taken = TRUE /\ snap'.daemon = daemon /\ snap'.app = app
        /\ snap'.runs = runs /\ snap'.sizes = sizes
    BY <2>1
  <2>3. QED
    BY <2>1, <2>2 DEF SystemInv, SnapInv, GuestInv
<1>3. UNCHANGED snap \/ SaveSnapshot
  BY Zenon DEF SystemNext, vars, FrontEnd, DaemonStep, DaemonHello, DaemonPoll, DaemonChild, DaemonRead,
         DaemonDispatch, DaemonRoute, DaemonSend, DaemonDone, DaemonCrash, DaemonStart, AppStep,
         AppPoll, AppRead, AppAct, AppSend, AppDone, MachineReset, LoadSnapshot, Clock
<1>4. QED
  BY <1>1, <1>2, <1>3
=============================================================================
