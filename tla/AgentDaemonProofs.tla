------------------------- MODULE AgentDaemonProofs --------------------------
(***************************************************************************)
(* The daemon's steps keep the invariant of the agent system.              *)
(***************************************************************************)
EXTENDS AgentGuestProofs

(* A daemon moves: it keeps its request, drops it, or takes one nobody     *)
(* serves, and its token is its own.                                       *)
LEMMA DaemonMoves ==
    ASSUME NEW D, NEW A, NEW R, NEW Z, NEW s \in Nat, NEW h \in Nat, NEW c \in Nat,
           Guest(D, A, R, Z, s, h, c),
           NEW d \in Daemons, NEW w \in ProcessState, DaemonFits(w, Z, s, h),
           \A e \in Daemons : e # d /\ D[e].key = w.key => w.key = 0,
           \A n \in Subs : Serves(w, n) =>
               \/ Serves(D[d], n)
               \/ /\ \A e \in Daemons : ~Serves(D[e], n)
                  /\ \A p \in Pids : ~Serves(A[p], n),
           \A n \in Subs : MayRun(w, n) => MayRun(D[d], n) \/ R[n] = 0
    PROVE  Guest([D EXCEPT ![d] = w], A, R, Z, s, h, c)
<1> DEFINE E == [D EXCEPT ![d] = w]
<1>1. E \in [Daemons -> ProcessState] /\ E[d] = w /\ \A e \in Daemons : e # d => E[e] = D[e]
  BY DEF Guest
<1> HIDE DEF E
<1>2. \A e \in Daemons : DaemonFits(E[e], Z, s, h)
  BY <1>1 DEF Guest
<1>3. KeysDiffer(E)
  BY <1>1 DEF Guest, KeysDiffer
<1>4. Exclusive(E, A)
  BY <1>1 DEF Guest, Exclusive
<1>5. RanOnce(E, A, R, s)
  BY <1>1 DEF Guest, RanOnce
<1>6. Guest(E, A, R, Z, s, h, c)
  BY <1>1, <1>2, <1>3, <1>4, <1>5 DEF Guest
<1>7. QED
  BY <1>6 DEF E

(* A daemon goes on with its request, or gives it up.                      *)
LEMMA DaemonLinks ==
    ASSUME SystemInv, HeadStays, NEW d \in Daemons, NEW w, daemon' = [daemon EXCEPT ![d] = w],
           app' = app,
           \A n \in Subs : Serves(w, n) => Serves(daemon[d], n),
           w.pc \in Busy => daemon[d].pc \in Busy /\ w.key = daemon[d].key /\ w.req = daemon[d].req,
           OwnsSession(w.key) => w.pc # "poll" /\ StagedFor(w, HeadItem'.response),
           \/ HeadItem'.response = HeadItem.response
           \/ OwnsSession(daemon[d].key) /\ daemon[d].pc \in Busy,
           \A n \in Subs : runs'[n] = runs[n] \/ Serves(daemon[d], n),
           \A n \in Subs : sizes'[n] = sizes[n] \/ Serves(daemon[d], n)
    PROVE  LinkInv'
<1> USE DEF SystemInv, LinkInv
<1>1. daemon'[d] = w /\ \A e \in Daemons : e # d => daemon'[e] = daemon[e]
  BY DaemonHas
<1>2. \A n \in Subs : Unserved(n) => Unserved(n)'
  BY <1>1 DEF Unserved
<1>3. FreeInv'
  BY <1>2 DEF FreeInv, HeadStays, Unserved
<1>4. RoutedIsHeld'
  BY DEF HeadStays
<1>5. AnswerInv'
  BY <1>2 DEF AnswerInv, HeadStays, Unserved
<1>6. /\ Held' <=> Held
      /\ Routed' <=> Routed
      /\ Expired' <=> Expired
      /\ Serving => HeadItem'.sub = HeadItem.sub /\ HeadItem'.uiPid = HeadItem.uiPid
      /\ Routed => \A p \in Pids : HoldsCookie(p)' <=> HoldsCookie(p)
      /\ \A k : OwnsSession(k)' <=> OwnsSession(k)
  BY DEF HeadStays, Held, Routed, Expired, HeadItem, HoldsCookie, OwnsSession
<1>7. Serving => HeadItem.sub \in Subs
  BY HeadInSubs
<1>8. SessionInv'
  BY <1>1, <1>6 DEF SessionInv, Held
<1>9. HeldInv'
  <2>1. ASSUME Held', ~Routed', NEW e \in Daemons, Serves(daemon'[e], HeadItem'.sub)
        PROVE  OwnsSession(daemon[e].key)'
    <3>1. Serves(daemon[e], HeadItem.sub)
      BY <1>1, <1>6, <1>7, <2>1 DEF Held
    <3>2. OwnsSession(daemon[e].key)
      BY <1>6, <2>1, <3>1 DEF HeldInv
    <3>3. QED
      BY <1>1, <1>6, <2>1, <3>1, <3>2 DEF Serves
  <2>2. QED
    BY <1>6, <2>1 DEF HeldInv, Held
<1>10. RoutedInv'
  <2>1. ASSUME Routed
        PROVE  /\ \A e \in Daemons : ~Serves(daemon'[e], HeadItem'.sub)
               /\ runs'[HeadItem.sub] = runs[HeadItem.sub] /\ HeadItem'.sub = HeadItem.sub
               /\ HeadItem'.uiPid = HeadItem.uiPid
    BY <1>1, <1>6, <1>7, <2>1 DEF RoutedInv, Routed
  <2>2. QED
    BY <1>6, <2>1 DEF RoutedInv
<1>11. StagedInv'
  <2>1. ASSUME NEW e \in Daemons, OwnsSession(daemon[e].key)'
        PROVE  StagedFor(daemon'[e], HeadItem'.response)
    <3>1. CASE e = d
      BY <1>1, <1>6, <2>1, <3>1
    <3>2. CASE e # d
      <4>1. daemon'[e] = daemon[e] /\ OwnsSession(daemon[e].key)
        BY <1>1, <1>6, <2>1, <3>2
      <4>2. ~(OwnsSession(daemon[d].key) /\ daemon[d].pc \in Busy)
        <5>1. OwnsSession(daemon[d].key) => daemon[d].key = daemon[e].key
          BY <4>1 DEF OwnsSession
        <5>2. daemon[d].pc \in Busy => daemon[d].key # 0
          BY DaemonHas DEF Inv, TypeOK
        <5>3. QED
          BY <3>2, <5>1, <5>2, DaemonHas
      <4>3. QED
        BY <4>1, <4>2 DEF StagedInv
    <3>3. QED
      BY <3>1, <3>2
  <2>2. ASSUME NEW p \in Pids, Routed', HoldsCookie(p)'
        PROVE  StagedFor(app'[p], HeadItem'.response)
    BY <1>6, <2>2 DEF StagedInv, SessionInv
  <2>3. QED
    BY <2>1, <2>2 DEF StagedInv
<1>12. QED
  BY <1>3, <1>4, <1>5, <1>8, <1>9, <1>10, <1>11

-----------------------------------------------------------------------------
(* Sessions *)

(* A daemon drops what it had: its session is lost, or it crashes.         *)
LEMMA DaemonDrops ==
    ASSUME SystemInv, NEW d \in Daemons, NEW pc \in {"hello", "down"},
           daemon' = [daemon EXCEPT ![d] = Idle(pc)],
           UNCHANGED <<pending, done, token, claimed, subs, hellos, cookies, app, runs, sizes>>
    PROVE  Kept
<1> DEFINE w == Idle(pc)
<1> USE DEF SystemInv
<1>1. w \in ProcessState /\ w.pc = pc /\ w.key = 0 /\ w.pc \notin Busy
  <2>1. 0 \in Nat /\ pc \in {"hello", "down", "poll", "read"} /\ pc \notin Busy
    BY DEF Busy
  <2>2. QED
    BY <2>1, IdleType, Zenon
<1>2. DaemonFits(w, sizes, subs, hellos)
  BY IdleFits DEF Inv, TypeOK
<1>3. HeadStays /\ HeadItem'.response = HeadItem.response
  BY ChannelStays DEF LinkInv
<1> HIDE DEF w
<1>4. \A n : ~Serves(w, n) /\ ~MayRun(w, n)
  BY <1>1 DEF Serves, MayRun
<1>5. GuestInv'
  BY <1>1, <1>2, <1>4, DaemonMoves, Zenon DEF GuestInv, Inv, TypeOK, w
<1>6. LinkInv'
  <2>1. StagedFor(w, HeadItem'.response) /\ w.pc # "poll"
    BY <1>1 DEF StagedFor
  <2>2. daemon' = [daemon EXCEPT ![d] = w]
    BY DEF w
  <2>3. QED
    BY <1>1, <1>3, <1>4, <2>1, <2>2, DaemonLinks, Zenon
<1>7. QED
  BY <1>5, <1>6 DEF Kept

(* HELLO opens a session with a token of its own, or is refused.            *)
LEMMA HelloStep ==
    ASSUME SystemInv, NEW d \in Daemons, DaemonHello(d)
    PROVE  Kept
<1> USE DEF SystemInv
<1>0. /\ hellos \in Nat /\ hellos + 1 \in Nat /\ hellos + 1 > 0 /\ subs \in Nat /\ cookies \in Nat
      /\ hellos + 1 \in 1..(hellos + 1) /\ hellos + 1 \notin 1..hellos /\ hellos + 1 # 0
  BY DEF Inv, TypeOK
<1>1. daemon \in [Daemons -> ProcessState]
  BY DaemonHas
<1>2. PICK r \in {0, hellos + 1} :
        /\ Hello(r)
        /\ daemon' = [daemon EXCEPT ![d] =
                          IF r > 0 THEN [Idle("poll") EXCEPT !.key = r] ELSE @]
  BY Zenon DEF DaemonHello
<1>3. UNCHANGED <<app, runs, sizes>>
  BY DEF DaemonHello
<1>4. CASE ~HelloTakes
  <2>1. UNCHANGED agentVars /\ r = 0
    BY <1>2, <1>4 DEF Hello
  <2>2. daemon' = daemon
    BY <1>1, <1>2, <2>1
  <2>3. QED
    BY <1>3, <2>1, <2>2, NothingMoves DEF agentVars, guestVars
<1>5. CASE HelloTakes
  <2> DEFINE w == [Idle("poll") EXCEPT !.key = hellos + 1]
  <2>1. /\ r = hellos + 1 /\ AbandonLost /\ token' = hellos + 1 /\ hellos' = hellos + 1
        /\ UNCHANGED <<cookies, subs>>
    BY <1>2, <1>5 DEF Hello
  <2>2. daemon' = [daemon EXCEPT ![d] = w]
    BY <1>0, <1>2, <2>1
  <2>3. w \in ProcessState /\ w.pc = "poll" /\ w.key = hellos + 1 /\ DaemonFits(w, sizes, subs, hellos + 1)
    BY <1>0, IdleType, IdleFits
  <2> HIDE DEF w
  <2>4. \A n : ~Serves(w, n) /\ ~MayRun(w, n)
    BY <2>3 DEF Serves, MayRun, Busy
  <2>5. ASSUME NEW e \in Daemons PROVE daemon[e].key # hellos + 1
    BY <1>0, DaemonHas, Zenon DEF DaemonFits
  <2>6. GuestInv'
    <3>1. Guest(daemon, app, runs, sizes, subs, hellos + 1, cookies)
      BY <1>0, GuestGrows DEF GuestInv
    <3>2. Guest([daemon EXCEPT ![d] = w], app, runs, sizes, subs, hellos + 1, cookies)
      BY <1>0, <2>3, <2>4, <2>5, <3>1, DaemonMoves
    <3>3. QED
      BY <1>3, <2>1, <2>2, <3>2 DEF GuestInv
  <2>7. /\ ~Held' /\ ~Routed' /\ RoutedIsHeld'
        /\ \A n : HasFree(pending', n) => HasFree(pending, n)
        /\ \A n, resp : IsAnswer(n, resp)' => IsAnswer(n, resp)
    <3>1. CASE claimed /\ Serving /\ Head(pending).dispatched
      <4>1. Retire(pending, done, ECONNRESET, << >>) /\ Serving
        BY <2>1, <3>1 DEF AbandonLost
      <4>2. ECONNRESET \in Statuses /\ ECONNRESET # "ok" /\ << >> \in Responses
        BY ResponseProperties DEF Statuses, ECONNRESET
      <4>3. QED
        BY <4>1, <4>2, RetireGone DEF HeadGone, LinkInv
    <3>2. CASE ~(claimed /\ Serving /\ Head(pending).dispatched)
      <4>1. UNCHANGED <<pending, done>>
        BY <2>1, <3>2 DEF AbandonLost
      <4>2. Held => claimed
        BY HeadTypes DEF Inv, HeldIsHead, Held
      <4>3. ~Held /\ ~Routed
        BY <3>2, <4>2, RoutedHeld DEF Held, HeadItem, LinkInv
      <4>4. QED
        BY <4>1, <4>3 DEF Held, Routed, Serving, HeadItem, RoutedIsHeld, IsAnswer, LinkInv
    <3>3. QED
      BY <3>1, <3>2
  <2>8. daemon'[d] = w /\ \A e \in Daemons : e # d => daemon'[e] = daemon[e]
    BY <1>1, <2>2
  <2>9. \A n : Unserved(n) => Unserved(n)'
    BY <1>3, <2>4, <2>8 DEF Unserved
  <2>10. FreeInv' /\ AnswerInv'
    BY <1>3, <2>7, <2>9 DEF FreeInv, AnswerInv, LinkInv
  <2>11. \A e \in Daemons : OwnsSession(daemon[e].key)' => daemon'[e].pc \notin Busy
    BY <2>1, <2>3, <2>5, <2>8 DEF OwnsSession, Busy
  <2>12. QED
    BY <2>6, <2>7, <2>10, <2>11, NothingHeldLinks DEF Kept
<1>6. QED
  BY <1>4, <1>5

(* A daemon that owns the session goes on with the head.                   *)
LEMMA DaemonPollStep ==
    ASSUME SystemInv, NEW d \in Daemons, DaemonPoll(d)
    PROVE  Kept
<1> USE DEF SystemInv
<1>0. /\ daemon \in [Daemons -> ProcessState] /\ daemon[d] \in ProcessState /\ daemon[d].pc = "poll"
      /\ DaemonFits(daemon[d], sizes, subs, hellos)
      /\ subs \in Nat /\ hellos \in Nat /\ cookies \in Nat
  BY DaemonHas DEF DaemonPoll, Inv, TypeOK
<1>1. PICK r \in -1..subs :
        /\ Poll(daemon[d].key, r)
        /\ CASE r = -1 -> LoseSession(d)
             [] r = 0  -> UNCHANGED daemon
             [] r > 0  -> daemon' = [daemon EXCEPT ![d].pc = "read", ![d].req = r]
  BY Zenon DEF DaemonPoll
<1>2. UNCHANGED <<app, runs, sizes>>
  BY DEF DaemonPoll
<1>3. CASE ~OwnsSession(daemon[d].key)
  <2>1. r = -1 /\ UNCHANGED agentVars
    BY <1>1, <1>3 DEF Poll
  <2>2. daemon' = [daemon EXCEPT ![d] = Idle("hello")]
    BY <1>1, <2>1 DEF LoseSession
  <2>3. QED
    BY <1>2, <2>1, <2>2, DaemonDrops, Zenon DEF agentVars
<1>4. CASE OwnsSession(daemon[d].key)
  <2>1. /\ PollSame(r) \/ PollHands(r) \/ PollEnds(r)
        /\ UNCHANGED <<token, claimed, hellos, cookies, subs>>
    BY <1>1, <1>4, PollDoes DEF LinkInv
  <2>2. CASE PollSame(r)
    <3>1. r = 0
      BY <1>0, <1>4, <2>2 DEF PollSame, LinkInv, SessionInv
    <3>2. UNCHANGED daemon
      BY <1>1, <3>1
    <3>3. QED
      BY <1>2, <2>1, <2>2, <3>2, NothingMoves DEF PollSame, guestVars
  <2>3. CASE PollEnds(r)
    <3>1. UNCHANGED daemon
      BY <1>1, <2>3 DEF PollEnds
    <3>2. Held => Routed
      BY <1>0, <1>4 DEF LinkInv, SessionInv
    <3>3. Quiet
      BY <2>1, <2>3, <3>2 DEF Quiet, PollEnds
    <3>4. QED
      BY <1>2, <2>1, <3>1, <3>3, QuietLinks DEF Kept, guestVars, GuestInv
  <2>4. CASE PollHands(r)
    <3> DEFINE w == [daemon[d] EXCEPT !.pc = "read", !.req = r]
    <3>1. r \in 1..subs /\ r > 0 /\ r \in Subs /\ r \in 0..MaxSubs /\ \A resp : ~IsAnswer(r, resp)
      <4>1. r \in 1..subs /\ \A resp : ~IsAnswer(r, resp)
        BY <2>4, FreeKnown DEF PollHands
      <4>2. QED
        BY <1>0, <4>1, SystemConstants DEF Subs, BoundInv
    <3>2. daemon' = [daemon EXCEPT ![d] = w]
      <4>1. daemon' = [daemon EXCEPT ![d].pc = "read", ![d].req = r]
        BY <1>1, <3>1
      <4>2. [daemon EXCEPT ![d].pc = "read", ![d].req = r] = [daemon EXCEPT ![d] = w]
        BY <1>0, Zenon
      <4>3. QED
        BY <4>1, <4>2
    <3>3. runs[r] = 0 /\ Unserved(r)
      BY <2>4, <3>1 DEF PollHands, LinkInv, FreeInv
    <3>4. /\ daemon[d] = [Idle("poll") EXCEPT !.key = daemon[d].key] /\ daemon[d].key \in 1..hellos
          /\ daemon[d].key \in Nat
      BY <1>0 DEF DaemonFits
    <3>5. /\ w \in ProcessState /\ w.pc = "read" /\ w.req = r /\ w.key = daemon[d].key
          /\ w.read = 0 /\ w.shown = {} /\ w.out = 0 /\ w.sent = 0 /\ w.st = "ok"
      <4>1. /\ daemon[d].read = 0 /\ daemon[d].shown = {} /\ daemon[d].out = 0 /\ daemon[d].sent = 0
            /\ daemon[d].st = "ok"
        <5>1. PICK k \in Nat : daemon[d] = [Idle("poll") EXCEPT !.key = k]
          BY <3>4
        <5>2. QED
          BY <5>1, IdleType
      <4>2. QED
        BY <1>0, <3>1, <4>1, Zenon DEF ProcessState
    <3> HIDE DEF w
    <3>6. DaemonFits(w, sizes, subs, hellos)
      BY <3>1, <3>4, <3>5, SystemConstants DEF DaemonFits, Sends, Busy
    <3>7. \A n : (Serves(w, n) <=> n = r) /\ (MayRun(w, n) => n = r)
      BY <3>5 DEF Serves, MayRun, Busy
    <3>8. GuestInv'
      <4>1. \A e \in Daemons : e # d /\ daemon[e].key = w.key => w.key = 0
        BY <3>5, DaemonHas
      <4>2. Guest([daemon EXCEPT ![d] = w], app, runs, sizes, subs, hellos, cookies)
        BY <1>0, <3>3, <3>5, <3>6, <3>7, <4>1, DaemonMoves, Zenon DEF GuestInv, Unserved
      <4>3. QED
        BY <1>2, <2>1, <3>2, <4>2 DEF GuestInv
    <3>9. daemon'[d] = w /\ \A e \in Daemons : e # d => daemon'[e] = daemon[e]
      BY <1>0, <3>2
    <3>10. \A n : Unserved(n) /\ n # r => Unserved(n)'
      BY <1>2, <3>7, <3>9 DEF Unserved
    <3>11. FreeInv' /\ RoutedIsHeld'
      BY <1>2, <2>4, <3>10 DEF FreeInv, PollHands, LinkInv
    <3>12. AnswerInv'
      BY <1>2, <2>4, <3>1, <3>10 DEF AnswerInv, PollHands, LinkInv
    <3>13. \A e \in Daemons : OwnsSession(daemon[e].key)' => e = d
      <4>1. daemon[d].key = token
        BY <1>4 DEF OwnsSession
      <4>2. QED
        BY <2>1, <3>4, <3>9, <4>1, DaemonHas DEF OwnsSession
    <3>14. SessionInv'
      BY <2>4, <3>5, <3>9, <3>13 DEF SessionInv, PollHands
    <3>15. HeldInv'
      <4>1. ASSUME NEW e \in Daemons, Serves(daemon'[e], r) PROVE OwnsSession(daemon[e].key)'
        BY <1>4, <2>1, <3>3, <3>5, <3>9, <4>1 DEF Unserved, OwnsSession
      <4>2. QED
        BY <1>2, <2>4, <3>3, <4>1 DEF HeldInv, PollHands, Unserved
    <3>16. RoutedInv' /\ StagedInv'
      BY <2>4, <3>5, <3>9, <3>13 DEF RoutedInv, StagedInv, StagedFor, PollHands
    <3>17. QED
      BY <3>8, <3>11, <3>12, <3>14, <3>15, <3>16 DEF Kept, LinkInv
  <2>5. QED
    BY <2>1, <2>2, <2>3, <2>4
<1>5. QED
  BY <1>3, <1>4

-----------------------------------------------------------------------------
(* Requests *)

(* A daemon reads a window of its request, fails to, or fails to route it. *)
LEMMA DaemonReadStep ==
    ASSUME SystemInv, NEW d \in Daemons, DaemonRead(d)
    PROVE  Kept
<1> USE DEF SystemInv
<1>0. /\ daemon \in [Daemons -> ProcessState] /\ daemon[d] \in ProcessState /\ daemon[d].pc = "read"
      /\ DaemonFits(daemon[d], sizes, subs, hellos) /\ daemon[d].pc \in Busy
      /\ subs \in Nat /\ hellos \in Nat /\ cookies \in Nat
  BY DaemonHas DEF DaemonRead, Inv, TypeOK, Busy
<1>1. PICK r \in {-1} \cup Subs :
        /\ ReadWindow(RootMay(daemon[d].key), r)
        /\ daemon' = [daemon EXCEPT ![d] = AfterRead(daemon[d], daemon[d].req, r)]
  BY Zenon DEF DaemonRead
<1>2. UNCHANGED <<app, runs, sizes>> /\ UNCHANGED agentVars
  BY <1>1 DEF DaemonRead, ReadWindow
<1>3. HeadStays /\ HeadItem'.response = HeadItem.response
  BY <1>2, ChannelStays DEF LinkInv, agentVars
<1>4. r # -1 => r = daemon[d].req
  BY <1>0, <1>1 DEF ReadWindow, RootMay, LinkInv, SessionInv, HeadItem
<1>5. /\ daemon[d].read \in Nat /\ daemon[d].read < REQ_WINDOWS /\ daemon[d].shown \subseteq {daemon[d].req}
      /\ daemon[d].req \in 1..subs /\ daemon[d].req \in Subs /\ daemon[d].shown \in SUBSET Subs
      /\ REQ_WINDOWS \in Nat
  <2>1. daemon[d].req \in 1..subs /\ subs <= MaxSubs /\ MaxSubs \in Nat
    BY <1>0, SystemConstants DEF DaemonFits, BoundInv
  <2>2. QED
    BY <1>0, <2>1, SystemConstants DEF DaemonFits, ProcessState, Subs
<1> DEFINE w == AfterRead(daemon[d], daemon[d].req, r)
<1>6. /\ w \in ProcessState /\ w.key = daemon[d].key /\ w.req = daemon[d].req
      /\ w.out = daemon[d].out /\ w.sent = daemon[d].sent
  <2>1. CASE r = -1
    BY <1>0, <2>1, Zenon DEF AfterRead, ProcessState, Statuses
  <2>2. CASE r # -1
    <3>1. r \in Subs /\ daemon[d].shown \cup {r} \in SUBSET Subs /\ daemon[d].read + 1 \in 0..REQ_WINDOWS
      BY <1>1, <1>5, <2>2
    <3>2. QED
      BY <1>0, <1>5, <2>2, <3>1, Zenon DEF AfterRead, ProcessState, Subs
  <2>3. QED
    BY <2>1, <2>2
<1>7. \/ w.pc = "send" /\ w.st = "eio"
      \/ w.pc = "read" /\ w.st = daemon[d].st /\ w.read < REQ_WINDOWS /\ w.shown \subseteq {w.req}
      \/ w.pc = "dispatch" /\ w.st = daemon[d].st /\ w.shown = {w.req}
  <2>1. CASE r = -1
    BY <1>0, <2>1, SMTT(20) DEF AfterRead, ProcessState
  <2>2. CASE r # -1
    <3>1. w.shown = {daemon[d].req} /\ w.read = daemon[d].read + 1 /\ w.st = daemon[d].st
          /\ w.pc = IF daemon[d].read + 1 = REQ_WINDOWS THEN "dispatch" ELSE "read"
      BY <1>0, <1>4, <1>5, <2>2 DEF AfterRead, ProcessState
    <3>2. w.req = daemon[d].req
      BY <1>6
    <3>3. daemon[d].read + 1 = REQ_WINDOWS \/ w.read < REQ_WINDOWS
      BY <1>5, <3>1
    <3>4. QED
      BY <3>1, <3>2, <3>3, Zenon
  <2>3. QED
    BY <2>1, <2>2, Zenon
<1>8. daemon' = [daemon EXCEPT ![d] = w]
  BY <1>1
<1> HIDE DEF w
<1>9. DaemonFits(w, sizes, subs, hellos)
  <2>1. daemon[d].key \in 1..hellos /\ daemon[d].out = 0 /\ daemon[d].sent = 0 /\ daemon[d].st = "ok"
    BY <1>0, SMTT(20) DEF DaemonFits, Sends
  <2>2. QED
    BY <1>5, <1>6, <1>7, <2>1 DEF DaemonFits, Sends, Busy
<1>10. /\ w.pc \in Busy /\ \A n : (Serves(w, n) => Serves(daemon[d], n))
       /\ \A n : MayRun(w, n) => MayRun(daemon[d], n)
  BY <1>0, <1>6, <1>7 DEF Serves, MayRun, Busy
<1>11. GuestInv'
  <2>1. \A e \in Daemons : e # d /\ daemon[e].key = w.key => w.key = 0
    BY <1>6, DaemonHas
  <2>2. Guest([daemon EXCEPT ![d] = w], app, runs, sizes, subs, hellos, cookies)
    BY <1>0, <1>6, <1>9, <1>10, <2>1, DaemonMoves, Zenon DEF GuestInv
  <2>3. QED
    BY <1>2, <1>8, <2>2 DEF GuestInv, agentVars
<1>12. LinkInv'
  <2>1. StagedFor(w, HeadItem'.response) /\ w.pc # "poll"
    <3>1. w.sent = 0
      BY <1>0, <1>6, SMTT(20) DEF DaemonFits, Sends
    <3>2. QED
      BY <1>7, <3>1 DEF StagedFor
  <2>2. QED
    BY <1>0, <1>2, <1>3, <1>6, <1>8, <1>10, <2>1, DaemonLinks, Zenon
<1>13. QED
  BY <1>11, <1>12 DEF Kept

(* A daemon goes on with the request it has.                               *)
LEMMA DaemonGoesOn ==
    ASSUME SystemInv, NEW d \in Daemons, daemon[d].pc \in Busy, NEW w, w.pc \in Busy,
           w.key = daemon[d].key, w.req = daemon[d].req,
           HeadStays, daemon' = [daemon EXCEPT ![d] = w], app' = app,
           UNCHANGED <<subs, hellos, cookies>>,
           OwnsSession(w.key) => StagedFor(w, HeadItem'.response),
           HeadItem'.response = HeadItem.response \/ OwnsSession(daemon[d].key),
           Guest([daemon EXCEPT ![d] = w], app, runs', sizes', subs, hellos, cookies),
           \A n \in Subs : n # daemon[d].req => runs'[n] = runs[n] /\ sizes'[n] = sizes[n]
    PROVE  Kept
<1>1. \A n : (Serves(w, n) <=> n = daemon[d].req) /\ (Serves(daemon[d], n) <=> n = daemon[d].req)
  BY DEF Serves
<1>2. LinkInv'
  BY <1>1, DaemonLinks, Zenon DEF Busy
<1>3. QED
  BY <1>2 DEF Kept, GuestInv

(* The request of a daemon is finished, with k windows to send.            *)
LEMMA DaemonFinishes ==
    ASSUME SystemInv, NEW d \in Daemons, daemon[d].pc \in {"dispatch", "child"},
           NEW k \in 0..RESPONSE_MAX
    PROVE  LET w == [daemon[d] EXCEPT !.pc = "send", !.out = k] IN
           /\ w \in ProcessState /\ w.pc = "send" /\ w.key = daemon[d].key /\ w.req = daemon[d].req
           /\ w.sent = 0 /\ daemon[d].req \in Subs /\ daemon[d].req <= subs
           /\ Guest([daemon EXCEPT ![d] = w], app, runs, [sizes EXCEPT ![daemon[d].req] = k],
                    subs, hellos, cookies)
<1> USE DEF SystemInv
<1> DEFINE w == [daemon[d] EXCEPT !.pc = "send", !.out = k]
           n == daemon[d].req  Z == [sizes EXCEPT ![n] = k]
<1>0. /\ daemon \in [Daemons -> ProcessState] /\ daemon[d] \in ProcessState
      /\ DaemonFits(daemon[d], sizes, subs, hellos) /\ daemon[d].pc \in Busy
      /\ subs \in Nat /\ hellos \in Nat /\ cookies \in Nat
  BY DaemonHas DEF Inv, TypeOK, Busy
<1>1. n \in 1..subs /\ daemon[d].key \in 1..hellos /\ daemon[d].sent = 0 /\ daemon[d].st = "ok"
  BY <1>0 DEF DaemonFits, Sends, Busy
<1>2. n \in Subs /\ n <= subs
  BY <1>0, <1>1, SystemConstants DEF BoundInv, Subs
<1>3. /\ w \in ProcessState /\ w.pc = "send" /\ w.key = daemon[d].key /\ w.req = n /\ w.out = k
      /\ w.sent = 0 /\ w.st = "ok" /\ w.shown = daemon[d].shown
  BY <1>0, <1>1, Zenon DEF ProcessState
<1> HIDE DEF w
<1>4. Z[n] = k
  BY <1>2 DEF GuestInv, Guest
<1>5. Guest(daemon, app, runs, Z, subs, hellos, cookies)
  <2>1. Serves(daemon[d], n)
    BY <1>0 DEF Serves
  <2>2. \A e \in Daemons : daemon[e].pc \in {"send", "finish"} => daemon[e].req # n
    BY <1>2, <2>1, OnlyServer DEF Serves, Busy
  <2>3. \A p \in Pids : app[p].pc \in {"send", "finish"} => app[p].req # n
    BY <1>2, <2>1, OnlyServer DEF Serves, Busy
  <2>4. QED
    BY <1>0, <1>2, <2>2, <2>3, SizeSet, Zenon DEF GuestInv
<1> HIDE DEF Z
<1>6. DaemonFits(w, Z, subs, hellos)
  <2>1. Sends(w, Z, subs)
    <3>1. 0 < k \/ k = 0
      BY AgentConstants
    <3>2. QED
      BY <1>1, <1>3, <1>4, <3>1 DEF Sends
  <2>2. QED
    BY <1>1, <1>3, <2>1 DEF DaemonFits, Busy
<1>7. \A m : (Serves(w, m) => Serves(daemon[d], m)) /\ ~MayRun(w, m)
  BY <1>0, <1>3 DEF Serves, MayRun
<1>8. \A e \in Daemons : e # d /\ daemon[e].key = w.key => w.key = 0
  BY <1>3, DaemonHas
<1>9. Guest([daemon EXCEPT ![d] = w], app, runs, Z, subs, hellos, cookies)
  BY <1>0, <1>3, <1>5, <1>6, <1>7, <1>8, DaemonMoves, Zenon
<1>10. QED
  BY <1>2, <1>3, <1>9 DEF Z, w

(* A daemon looks after a child process.                                   *)
LEMMA DaemonChildStep ==
    ASSUME SystemInv, NEW d \in Daemons, DaemonChild(d)
    PROVE  Kept
<1> USE DEF SystemInv
<1>0. /\ daemon \in [Daemons -> ProcessState] /\ daemon[d] \in ProcessState /\ daemon[d].pc = "child"
      /\ DaemonFits(daemon[d], sizes, subs, hellos) /\ daemon[d].pc \in Busy
      /\ subs \in Nat /\ hellos \in Nat /\ cookies \in Nat
  BY DaemonHas DEF DaemonChild, Inv, TypeOK, Busy
<1>1. PICK r \in -1..subs :
        /\ Poll(daemon[d].key, r)
        /\ \/ r = -1 /\ LoseSession(d) /\ UNCHANGED sizes
           \/ /\ r >= 0 /\ daemon[d].ticks + 1 < CHILD_TICKS
              /\ daemon' = [daemon EXCEPT ![d].ticks = @ + 1]
              /\ UNCHANGED sizes
           \/ \E k \in 0..RESPONSE_MAX :
                 /\ r >= 0
                 /\ daemon' = [daemon EXCEPT ![d].pc = "send", ![d].out = k]
                 /\ sizes' = [sizes EXCEPT ![daemon[d].req] = k]
  BY DEF DaemonChild
<1>2. UNCHANGED <<app, runs>>
  BY DEF DaemonChild
<1>3. UNCHANGED <<pending, done, token, claimed, subs, hellos, cookies>>
  <2>1. CASE ~OwnsSession(daemon[d].key)
    BY <1>1, <2>1 DEF Poll, agentVars
  <2>2. CASE OwnsSession(daemon[d].key)
    <3>1. Held /\ ~Routed
      BY <1>0, <2>2 DEF LinkInv, SessionInv
    <3>2. QED
      BY <1>1, <2>2, <3>1, PollDoes DEF LinkInv, PollSame, PollHands, PollEnds
  <2>3. QED
    BY <2>1, <2>2
<1>4. HeadStays /\ HeadItem'.response = HeadItem.response
  BY <1>3, ChannelStays DEF LinkInv
<1>5. CASE LoseSession(d) /\ UNCHANGED sizes
  BY <1>2, <1>3, <1>5, DaemonDrops, Zenon DEF LoseSession
<1>6. CASE /\ daemon[d].ticks + 1 < CHILD_TICKS
           /\ daemon' = [daemon EXCEPT ![d].ticks = @ + 1]
           /\ UNCHANGED sizes
  <2> DEFINE w == [daemon[d] EXCEPT !.ticks = @ + 1]
  <2>1. w \in ProcessState
    <3>1. daemon[d].ticks + 1 \in 0..CHILD_TICKS
      BY <1>0, <1>6, SystemConstants DEF ProcessState
    <3>2. QED
      BY <1>0, <3>1 DEF ProcessState
  <2>2. /\ w.pc = "child" /\ w.key = daemon[d].key /\ w.req = daemon[d].req /\ w.out = daemon[d].out
        /\ w.sent = daemon[d].sent /\ w.st = daemon[d].st /\ w.shown = daemon[d].shown
    BY <1>0 DEF ProcessState
  <2>3. daemon' = [daemon EXCEPT ![d] = w]
    BY <1>0, <1>6
  <2> HIDE DEF w
  <2>4. DaemonFits(w, sizes, subs, hellos)
    BY <1>0, <2>2 DEF DaemonFits, Sends, Busy
  <2>5. \A n : (Serves(w, n) => Serves(daemon[d], n)) /\ ~MayRun(w, n)
    BY <1>0, <2>2 DEF Serves, MayRun
  <2>6. \A e \in Daemons : e # d /\ daemon[e].key = w.key => w.key = 0
    BY <2>2, DaemonHas
  <2>7. Guest([daemon EXCEPT ![d] = w], app, runs, sizes, subs, hellos, cookies)
    BY <1>0, <2>1, <2>4, <2>5, <2>6, DaemonMoves, Zenon DEF GuestInv
  <2>8. QED
    BY <1>0, <1>2, <1>3, <1>4, <1>6, <2>2, <2>3, <2>7, DaemonGoesOn, Zenon DEF StagedFor
<1>7. ASSUME NEW k \in 0..RESPONSE_MAX,
             daemon' = [daemon EXCEPT ![d].pc = "send", ![d].out = k],
             sizes' = [sizes EXCEPT ![daemon[d].req] = k]
      PROVE  Kept
  <2> DEFINE w == [daemon[d] EXCEPT !.pc = "send", !.out = k]
  <2>1. daemon' = [daemon EXCEPT ![d] = w]
    BY <1>0, <1>7, Zenon
  <2>2. /\ w \in ProcessState /\ w.pc = "send" /\ w.key = daemon[d].key /\ w.req = daemon[d].req
        /\ w.sent = 0
        /\ Guest([daemon EXCEPT ![d] = w], app, runs, sizes', subs, hellos, cookies)
    BY <1>0, <1>7, DaemonFinishes, Zenon
  <2> HIDE DEF w
  <2>3. \A n \in Subs : n # daemon[d].req => sizes'[n] = sizes[n]
    BY <1>7 DEF GuestInv, Guest
  <2>4. StagedFor(w, HeadItem'.response) /\ w.pc \in Busy
    BY <2>2 DEF StagedFor, Busy
  <2>5. QED
    BY <1>0, <1>2, <1>3, <1>4, <2>1, <2>2, <2>3, <2>4, DaemonGoesOn, Zenon
<1>8. QED
  BY <1>1, <1>5, <1>6, <1>7

(* A daemon carries its request out, starts a child, or means to route it. *)
LEMMA DaemonDispatchStep ==
    ASSUME SystemInv, NEW d \in Daemons, DaemonDispatch(d)
    PROVE  Kept
<1> USE DEF SystemInv
<1> DEFINE n == daemon[d].req  R == [runs EXCEPT ![n] = @ + 1]
<1>0. /\ daemon \in [Daemons -> ProcessState] /\ daemon[d] \in ProcessState
      /\ daemon[d].pc = "dispatch" /\ daemon[d].pc \in Busy
      /\ DaemonFits(daemon[d], sizes, subs, hellos)
      /\ subs \in Nat /\ hellos \in Nat /\ cookies \in Nat
  BY DaemonHas DEF DaemonDispatch, Inv, TypeOK, Busy
<1>1. UNCHANGED agentVars /\ app' = app
  BY DEF DaemonDispatch
<1>2. HeadStays /\ HeadItem'.response = HeadItem.response /\ UNCHANGED <<subs, hellos, cookies>>
  BY <1>1, ChannelStays DEF LinkInv, agentVars
<1>3. n \in Subs /\ n <= subs
  BY <1>0, SystemConstants DEF BoundInv, Subs, DaemonFits
<1>4. /\ \A m \in Subs : m # n => R[m] = runs[m]
      /\ \A k : \A m \in Subs : m # n => [sizes EXCEPT ![n] = k][m] = sizes[m]
  BY DEF GuestInv, Guest
<1>5. ASSUME NEW w \in ProcessState, NEW Z, w.req = n, ~MayRun(w, n),
             Guest([daemon EXCEPT ![d] = w], app, runs, Z, subs, hellos, cookies)
      PROVE  Guest([daemon EXCEPT ![d] = w], app, R, Z, subs, hellos, cookies)
  <2> DEFINE D == [daemon EXCEPT ![d] = w]
  <2>1. D[d] = w /\ \A e \in Daemons : e # d => D[e] = daemon[e]
    BY <1>0
  <2>2. MayRun(daemon[d], n) /\ Serves(daemon[d], n)
    BY <1>0 DEF MayRun, Serves
  <2>3. runs[n] = 0 /\ (\A e \in Daemons : e # d => ~MayRun(daemon[e], n))
        /\ \A p \in Pids : ~MayRun(app[p], n)
    BY <1>3, <2>2, OnlyServer, RunnersServe, SMTT(20)
  <2>4. \A e \in Daemons : ~MayRun(D[e], n)
    BY <1>5, <2>1, <2>3
  <2>5. Guest(D, app, runs, Z, subs, hellos, cookies)
    BY <1>5
  <2> HIDE DEF D
  <2>6. Guest(D, app, R, Z, subs, hellos, cookies)
    BY <1>0, <1>3, <2>3, <2>4, <2>5, RunCounted, Zenon
  <2>7. QED
    BY <2>6 DEF D
<1>6. ASSUME NEW k \in 0..RESPONSE_MAX, runs' = R, sizes' = [sizes EXCEPT ![n] = k],
             daemon' = [daemon EXCEPT ![d].pc = "send", ![d].out = k]
      PROVE  Kept
  <2> DEFINE w == [daemon[d] EXCEPT !.pc = "send", !.out = k]
  <2>1. daemon' = [daemon EXCEPT ![d] = w]
    BY <1>0, <1>6, Zenon
  <2>2. /\ w \in ProcessState /\ w.pc = "send" /\ w.key = daemon[d].key /\ w.req = n
        /\ w.sent = 0
        /\ Guest([daemon EXCEPT ![d] = w], app, runs, sizes', subs, hellos, cookies)
    BY <1>0, <1>6, DaemonFinishes, Zenon
  <2> HIDE DEF w
  <2>3. StagedFor(w, HeadItem'.response) /\ w.pc \in Busy /\ ~MayRun(w, n)
    BY <2>2 DEF StagedFor, Busy, MayRun
  <2>4. Guest([daemon EXCEPT ![d] = w], app, runs', sizes', subs, hellos, cookies)
    BY <1>5, <1>6, <2>2, <2>3, Zenon
  <2>5. \A m \in Subs : m # n => runs'[m] = runs[m] /\ sizes'[m] = sizes[m]
    BY <1>4, <1>6
  <2>6. QED
    BY <1>0, <1>1, <1>2, <2>1, <2>2, <2>3, <2>4, <2>5, DaemonGoesOn, Zenon
<1>7. ASSUME NEW to \in {"child", "route"}, daemon' = [daemon EXCEPT ![d].pc = to],
             UNCHANGED sizes, runs' = IF to = "child" THEN R ELSE runs
      PROVE  Kept
  <2> DEFINE w == [daemon[d] EXCEPT !.pc = to]
  <2>1. daemon' = [daemon EXCEPT ![d] = w]
    BY <1>0, <1>7
  <2>2. /\ w \in ProcessState /\ w.pc = to /\ w.key = daemon[d].key /\ w.req = n
        /\ w.out = daemon[d].out /\ w.sent = daemon[d].sent /\ w.st = daemon[d].st
        /\ w.shown = daemon[d].shown
    BY <1>0 DEF ProcessState
  <2> HIDE DEF w
  <2>3. DaemonFits(w, sizes, subs, hellos)
    BY <1>0, <2>2 DEF DaemonFits, Sends, Busy
  <2>4. /\ \A m : (Serves(w, m) => Serves(daemon[d], m)) /\ (MayRun(w, m) => MayRun(daemon[d], m))
        /\ StagedFor(w, HeadItem'.response) /\ w.pc \in Busy
        /\ to = "child" => ~MayRun(w, n)
    BY <1>0, <2>2 DEF Serves, MayRun, StagedFor, Busy
  <2>5. \A e \in Daemons : e # d /\ daemon[e].key = w.key => w.key = 0
    BY <2>2, DaemonHas
  <2>6. Guest([daemon EXCEPT ![d] = w], app, runs, sizes, subs, hellos, cookies)
    BY <1>0, <2>2, <2>3, <2>4, <2>5, DaemonMoves, Zenon DEF GuestInv
  <2>7. Guest([daemon EXCEPT ![d] = w], app, runs', sizes', subs, hellos, cookies)
    BY <1>5, <1>7, <2>2, <2>4, <2>6, Zenon
  <2>8. \A m \in Subs : m # n => runs'[m] = runs[m] /\ sizes'[m] = sizes[m]
    BY <1>4, <1>7
  <2>9. QED
    BY <1>0, <1>1, <1>2, <2>1, <2>2, <2>4, <2>7, <2>8, DaemonGoesOn, Zenon
<1>8. QED
  <2> HIDE DEF R
  <2>1. \/ \E k \in 0..RESPONSE_MAX :
             /\ runs' = R /\ sizes' = [sizes EXCEPT ![n] = k]
             /\ daemon' = [daemon EXCEPT ![d].pc = "send", ![d].out = k]
        \/ runs' = R /\ daemon' = [daemon EXCEPT ![d].pc = "child"] /\ UNCHANGED sizes
        \/ daemon' = [daemon EXCEPT ![d].pc = "route"] /\ UNCHANGED <<runs, sizes>>
    BY DEF DaemonDispatch, R
  <2>2. QED
    BY <1>6, <1>7, <2>1

-----------------------------------------------------------------------------
(* Answers *)

(* A daemon sends a window, or loses its session.                          *)
LEMMA DaemonSendStep ==
    ASSUME SystemInv, NEW d \in Daemons, DaemonSend(d)
    PROVE  Kept
<1> USE DEF SystemInv
<1>0. /\ daemon \in [Daemons -> ProcessState] /\ daemon[d] \in ProcessState /\ daemon[d].pc = "send"
      /\ DaemonFits(daemon[d], sizes, subs, hellos) /\ daemon[d].pc \in Busy
      /\ subs \in Nat /\ hellos \in Nat /\ cookies \in Nat
  BY DaemonHas DEF DaemonSend, Inv, TypeOK, Busy
<1>1. PICK r \in {0, -1} :
        /\ SendWindow(RootMay(daemon[d].key), daemon[d], r)
        /\ IF r = -1 THEN LoseSession(d) ELSE daemon' = [daemon EXCEPT ![d] = AfterSend(daemon[d])]
  BY DEF DaemonSend
<1>2. UNCHANGED <<app, runs, sizes>>
  BY DEF DaemonSend
<1>3. CASE r = -1
  BY <1>1, <1>2, <1>3, DaemonDrops
     DEF LoseSession, SendWindow, WriteEmpty, WriteWindow, agentVars
<1>4. CASE r = 0
  <2> DEFINE w == AfterSend(daemon[d])
  <2>1. /\ RootMay(daemon[d].key) /\ HeadStays /\ StagedFor(w, HeadItem'.response)
        /\ UNCHANGED <<subs, hellos, cookies>>
    <3>1. Sends(daemon[d], sizes, subs)
      BY <1>0 DEF DaemonFits
    <3>2. RootMay(daemon[d].key) => StagedFor(daemon[d], HeadItem.response)
      BY DEF RootMay, LinkInv, StagedInv
    <3>3. SendWindow(RootMay(daemon[d].key), daemon[d], 0)
      BY <1>1, <1>4
    <3>4. daemon[d] \in ProcessState /\ daemon[d].pc = "send"
      BY <1>0
    <3> HIDE DEF SystemInv, w
    <3>5. /\ RootMay(daemon[d].key) /\ HeadStays
          /\ StagedFor(AfterSend(daemon[d]), HeadItem'.response)
          /\ UNCHANGED <<subs, hellos, cookies>>
      BY <3>1, <3>2, <3>3, <3>4, SendDoes
    <3>6. QED
      BY <3>5 DEF w
  <2>2. /\ w \in ProcessState /\ w.pc \in {"send", "finish"} /\ w.key = daemon[d].key
        /\ w.req = daemon[d].req /\ Sends(w, sizes, subs)
    BY <1>0, AfterSendFits DEF DaemonFits
  <2>3. daemon' = [daemon EXCEPT ![d] = w]
    BY <1>1, <1>4
  <2> HIDE DEF w
  <2>4. DaemonFits(w, sizes, subs, hellos)
    BY <1>0, <2>2 DEF DaemonFits, Busy
  <2>5. \A n : (Serves(w, n) => Serves(daemon[d], n)) /\ ~MayRun(w, n)
    BY <1>0, <2>2 DEF Serves, MayRun
  <2>6. \A e \in Daemons : e # d /\ daemon[e].key = w.key => w.key = 0
    BY <2>2, DaemonHas
  <2>7. Guest([daemon EXCEPT ![d] = w], app, runs, sizes, subs, hellos, cookies)
    BY <1>0, <2>2, <2>4, <2>5, <2>6, DaemonMoves, Zenon DEF GuestInv
  <2>8. w.pc \in Busy /\ OwnsSession(daemon[d].key)
    BY <2>1, <2>2 DEF Busy, RootMay
  <2>9. QED
    BY <1>0, <1>2, <2>1, <2>2, <2>3, <2>7, <2>8, DaemonGoesOn, Zenon
<1>5. QED
  BY <1>3, <1>4

(* A daemon reports its request done, or loses its session.                *)
LEMMA DaemonDoneStep ==
    ASSUME SystemInv, NEW d \in Daemons, DaemonDone(d)
    PROVE  Kept
<1> USE DEF SystemInv
<1>0. /\ daemon \in [Daemons -> ProcessState] /\ daemon[d] \in ProcessState /\ daemon[d].pc = "finish"
      /\ DaemonFits(daemon[d], sizes, subs, hellos) /\ daemon[d].pc \in Busy
      /\ subs \in Nat /\ hellos \in Nat /\ cookies \in Nat
  BY DaemonHas DEF DaemonDone, Inv, TypeOK, Busy
<1> DEFINE w == [Idle("poll") EXCEPT !.key = daemon[d].key]
<1>1. PICK r \in {0, -1} :
        /\ Done(RootMay(daemon[d].key), daemon[d].st, r)
        /\ IF r = -1 THEN LoseSession(d) ELSE daemon' = [daemon EXCEPT ![d] = w]
  BY DEF DaemonDone
<1>2. UNCHANGED <<app, runs, sizes>>
  BY DEF DaemonDone
<1>3. CASE r = -1
  BY <1>1, <1>2, <1>3, DaemonDrops DEF LoseSession, Done, agentVars
<1>4. CASE r = 0
  <2>0. PICK n : n = daemon[d].req
    OBVIOUS
  <2>1. /\ OwnsSession(daemon[d].key) /\ ~Routed /\ Serving
        /\ Retire(pending, done, daemon[d].st, HeadItem.response)
        /\ UNCHANGED <<token, claimed, hellos, cookies, subs>>
        /\ daemon' = [daemon EXCEPT ![d] = w]
    BY <1>1, <1>4 DEF Done, RootMay, HeadItem
  <2>2. HeadItem.sub = n /\ n \in Subs /\ HeadItem.response = Answer(n, daemon[d].out)
    BY <1>0, <2>0, <2>1, HeadInSubs DEF LinkInv, SessionInv, StagedInv, StagedFor
  <2>3. /\ HeadGone(n, HeadItem.response)
        /\ daemon[d].st # "ok" => \A m, a : IsAnswer(m, a)' => IsAnswer(m, a)
    <3>1. daemon[d].st \in Statuses /\ HeadItem.response \in Responses
      BY <1>0, <2>1, HeadTypes DEF ProcessState
    <3>2. QED
      BY <2>1, <2>2, <3>1, RetireGone DEF LinkInv
  <2>4. daemon[d].st = "ok" => HeadItem.response = Answer(n, sizes[n])
    BY <1>0, <2>0, <2>2 DEF DaemonFits, Sends
  <2>5. /\ w \in ProcessState /\ w.pc = "poll" /\ w.key = daemon[d].key
        /\ DaemonFits(w, sizes, subs, hellos)
    <3>1. daemon[d].key \in 1..hellos /\ daemon[d].key \in Nat
      BY <1>0 DEF DaemonFits, Busy
    <3>2. QED
      BY <1>0, <3>1, IdleType, IdleFits
  <2> HIDE DEF w
  <2>6. \A m : ~Serves(w, m) /\ ~MayRun(w, m)
    BY <2>5 DEF Serves, MayRun, Busy
  <2>7. daemon'[d] = w /\ \A e \in Daemons : e # d => daemon'[e] = daemon[e]
    BY <1>0, <2>1
  <2>8. GuestInv'
    <3>1. \A e \in Daemons : e # d /\ daemon[e].key = w.key => w.key = 0
      BY <2>5, DaemonHas
    <3>2. Guest([daemon EXCEPT ![d] = w], app, runs, sizes, subs, hellos, cookies)
      BY <1>0, <2>5, <2>6, <3>1, DaemonMoves, Zenon DEF GuestInv
    <3>3. QED
      BY <1>2, <2>1, <3>2 DEF GuestInv
  <2>9. Unserved(n)' /\ \A m : Unserved(m) => Unserved(m)'
    <3>1. Serves(daemon[d], n)
      BY <1>0, <2>0, SMTT(20) DEF Serves
    <3>2. QED
      BY <1>2, <2>2, <2>6, <2>7, <3>1, OnlyServer DEF Unserved
  <2>10. FreeInv'
    BY <1>2, <2>3, <2>9, SMTT(20) DEF LinkInv, FreeInv, HeadGone
  <2>11. AnswerInv'
    BY <1>2, <2>3, <2>4, <2>9, SMTT(20) DEF LinkInv, AnswerInv, HeadGone
  <2>12. \A e \in Daemons : OwnsSession(daemon[e].key)' => daemon'[e].pc \notin Busy
    <3>1. ASSUME NEW e \in Daemons, e # d, OwnsSession(daemon[e].key)' PROVE FALSE
      BY <1>0, <2>1, <2>7, <3>1, DaemonHas DEF OwnsSession, Inv, TypeOK
    <3>2. QED
      BY <2>5, <2>7, <3>1 DEF Busy
  <2>13. QED
    BY <2>3, <2>8, <2>10, <2>11, <2>12, NothingHeldLinks DEF Kept, HeadGone
<1>5. QED
  BY <1>3, <1>4

(* A daemon hands its request to an application and is idle again.         *)
LEMMA DaemonRouteStep ==
    ASSUME SystemInv, NEW d \in Daemons, DaemonRoute(d)
    PROVE  Kept
<1> USE DEF SystemInv
<1>0. /\ daemon \in [Daemons -> ProcessState] /\ daemon[d] \in ProcessState /\ daemon[d].pc = "route"
      /\ DaemonFits(daemon[d], sizes, subs, hellos) /\ daemon[d].pc \in Busy
      /\ subs \in Nat /\ hellos \in Nat /\ cookies \in Nat
  BY DaemonHas DEF DaemonRoute, Inv, TypeOK, Busy
<1>1. PICK pid \in Pids, r \in {0, -1} :
        /\ UiRoute(daemon[d].key, pid, r)
        /\ daemon' = [daemon EXCEPT ![d] =
              IF r = -1 THEN [@ EXCEPT !.pc = "send", !.st = "eio"]
              ELSE [Idle("poll") EXCEPT !.key = daemon[d].key]]
  BY Zenon DEF DaemonRoute
<1>2. UNCHANGED <<app, runs, sizes>>
  BY DEF DaemonRoute
<1>3. /\ daemon[d].req \in 1..subs /\ daemon[d].req \in Subs /\ daemon[d].key \in 1..hellos
      /\ daemon[d].out = 0 /\ daemon[d].sent = 0
  BY <1>0, SystemConstants DEF DaemonFits, Sends, Busy, BoundInv, Subs
<1>4. CASE r = -1
  <2> DEFINE w == [daemon[d] EXCEPT !.pc = "send", !.st = "eio"]
  <2>1. UNCHANGED agentVars /\ daemon' = [daemon EXCEPT ![d] = w]
    BY <1>0, <1>1, <1>4 DEF UiRoute
  <2>2. /\ w \in ProcessState /\ w.pc = "send" /\ w.st = "eio" /\ w.key = daemon[d].key
        /\ w.req = daemon[d].req /\ w.out = 0 /\ w.sent = 0
    BY <1>0, <1>3, Zenon DEF ProcessState, Statuses
  <2> HIDE DEF w
  <2>3. DaemonFits(w, sizes, subs, hellos)
    BY <1>3, <2>2 DEF DaemonFits, Sends, Busy
  <2>4. /\ \A n : (Serves(w, n) => Serves(daemon[d], n)) /\ ~MayRun(w, n)
        /\ w.pc \in Busy /\ StagedFor(w, HeadItem'.response)
    BY <1>0, <2>2 DEF Serves, MayRun, Busy, StagedFor
  <2>5. \A e \in Daemons : e # d /\ daemon[e].key = w.key => w.key = 0
    BY <2>2, DaemonHas
  <2>6. Guest([daemon EXCEPT ![d] = w], app, runs, sizes, subs, hellos, cookies)
    BY <1>0, <2>2, <2>3, <2>4, <2>5, DaemonMoves, Zenon DEF GuestInv
  <2>7. HeadStays /\ HeadItem'.response = HeadItem.response
    BY <2>1, ChannelStays DEF LinkInv, agentVars
  <2>8. QED
    BY <1>0, <1>2, <2>1, <2>2, <2>4, <2>6, <2>7, DaemonGoesOn, Zenon DEF agentVars
<1>5. CASE r = 0
  <2> DEFINE w == [Idle("poll") EXCEPT !.key = daemon[d].key]
  <2>0. PICK n \in Subs : n = daemon[d].req
    BY <1>3
  <2>1. /\ OwnsSession(daemon[d].key) /\ ~Routed /\ Serving
        /\ pending' = [pending EXCEPT ![1] =
                           [@ EXCEPT !.uiPid = pid, !.uiCookie = cookies + 1, !.uiAge = 0]]
        /\ cookies' = cookies + 1
        /\ UNCHANGED <<done, token, claimed, hellos, subs>>
    BY <1>1, <1>5 DEF UiRoute, RootMay
  <2>2. daemon' = [daemon EXCEPT ![d] = w]
    BY <1>1, <1>5
  <2>3. Held /\ HeadItem.sub = n
    BY <1>0, <2>0, <2>1 DEF LinkInv, SessionInv
  <2>4. /\ Held' /\ Routed' /\ RoutedIsHeld' /\ HeadItem'.sub = n /\ HeadItem'.uiCookie = cookies + 1
        /\ \A m : HasFree(pending', m) => HasFree(pending, m)
    BY <2>1, <2>3, RouteDoes, Zenon DEF LinkInv
  <2>5. /\ w \in ProcessState /\ w.pc = "poll" /\ w.key = daemon[d].key
        /\ DaemonFits(w, sizes, subs, hellos)
    <3>1. daemon[d].key \in Nat
      BY <1>3
    <3>2. QED
      BY <1>0, <1>3, <3>1, IdleType, IdleFits
  <2> HIDE DEF w
  <2>6. \A m : ~Serves(w, m) /\ ~MayRun(w, m)
    BY <2>5 DEF Serves, MayRun, Busy
  <2>7. daemon'[d] = w /\ \A e \in Daemons : e # d => daemon'[e] = daemon[e]
    BY <1>0, <2>2
  <2>8. GuestInv'
    <3>1. \A e \in Daemons : e # d /\ daemon[e].key = w.key => w.key = 0
      BY <2>5, DaemonHas
    <3>2. Guest([daemon EXCEPT ![d] = w], app, runs, sizes, subs, hellos, cookies)
      BY <1>0, <2>5, <2>6, <3>1, DaemonMoves, Zenon DEF GuestInv
    <3>3. cookies + 1 \in Nat /\ cookies <= cookies + 1 /\ subs <= subs /\ hellos <= hellos
      BY <1>0
    <3>4. Guest([daemon EXCEPT ![d] = w], app, runs, sizes, subs, hellos, cookies + 1)
      BY <1>0, <3>2, <3>3, GuestGrows
    <3>5. QED
      BY <1>2, <2>1, <2>2, <3>4 DEF GuestInv
  <2>9. Serves(daemon[d], n) /\ MayRun(daemon[d], n)
    BY <1>0, <2>0, SMTT(20) DEF Serves, MayRun
  <2>10. Unserved(n)' /\ runs'[n] = 0 /\ \A m : Unserved(m) => Unserved(m)'
    BY <1>2, <2>6, <2>7, <2>9, OnlyServer DEF Unserved
  <2>11. FreeInv' /\ AnswerInv'
    BY <1>2, <2>1, <2>4, <2>10, Zenon DEF LinkInv, FreeInv, AnswerInv, IsAnswer
  <2>12. \A e \in Daemons : OwnsSession(daemon[e].key)' => e = d
    BY <1>3, <2>1, <2>7, DaemonHas DEF OwnsSession
  <2>13. SessionInv' /\ HeldInv'
    BY <2>4, <2>5, <2>7, <2>12, Zenon DEF SessionInv, HeldInv, Busy
  <2>14. \A p \in Pids : ~HoldsCookie(p)'
    <3>1. \A p \in Pids : app[p].pc # "poll" => app[p].key \in 1..cookies
      BY AppHas DEF AppFits
    <3>2. cookies + 1 \notin 1..cookies
      BY <1>0
    <3>3. QED
      BY <1>2, <2>4, <3>1, <3>2 DEF HoldsCookie
  <2>15. RoutedInv'
    BY <2>4, <2>10, <2>14, Zenon DEF RoutedInv, Unserved
  <2>16. StagedInv'
    BY <2>5, <2>7, <2>12, <2>14 DEF StagedInv, StagedFor
  <2>17. QED
    BY <2>4, <2>8, <2>11, <2>13, <2>15, <2>16 DEF Kept, LinkInv
<1>6. QED
  BY <1>4, <1>5
=============================================================================
