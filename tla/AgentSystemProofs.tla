------------------------- MODULE AgentSystemProofs --------------------------
(***************************************************************************)
(* Theorems about AgentSystem: the channel with its daemons, applications, *)
(* crashes, resets and snapshots, for any number of each.                  *)
(***************************************************************************)
EXTENDS AgentDaemonProofs

(* The same for an application process.                                    *)
LEMMA AppMoves ==
    ASSUME NEW D, NEW A, NEW R, NEW Z, NEW s \in Nat, NEW h \in Nat, NEW c \in Nat,
           Guest(D, A, R, Z, s, h, c),
           NEW p \in Pids, NEW w \in ProcessState, AppFits(w, Z, s, c),
           \A n \in Subs : Serves(w, n) =>
               \/ Serves(A[p], n)
               \/ /\ \A d \in Daemons : ~Serves(D[d], n)
                  /\ \A q \in Pids : ~Serves(A[q], n),
           \A n \in Subs : MayRun(w, n) => MayRun(A[p], n) \/ R[n] = 0
    PROVE  Guest(D, [A EXCEPT ![p] = w], R, Z, s, h, c)
<1> DEFINE E == [A EXCEPT ![p] = w]
<1>1. E \in [Pids -> ProcessState] /\ E[p] = w /\ \A q \in Pids : q # p => E[q] = A[q]
  BY DEF Guest
<1> HIDE DEF E
<1>2. \A q \in Pids : AppFits(E[q], Z, s, c)
  BY <1>1 DEF Guest
<1>3. Exclusive(D, E)
  BY <1>1 DEF Guest, Exclusive
<1>4. RanOnce(D, E, R, s)
  BY <1>1 DEF Guest, RanOnce
<1>5. Guest(D, E, R, Z, s, h, c)
  BY <1>1, <1>2, <1>3, <1>4 DEF Guest
<1>6. QED
  BY <1>5 DEF E

(* An application goes on with the request it has a cookie for, or gives   *)
(* it up.                                                                  *)
LEMMA AppLinks ==
    ASSUME SystemInv, HeadStays, NEW p \in Pids, NEW w, app' = [app EXCEPT ![p] = w],
           daemon' = daemon,
           \A n \in Subs : Serves(w, n) =>
               \/ Serves(app[p], n)
               \/ Routed /\ n = HeadItem.sub /\ w.key = HeadItem.uiCookie,
           Routed /\ w.pc # "poll" /\ w.key = HeadItem.uiCookie =>
               /\ p = HeadItem.uiPid /\ w.req \in {0, HeadItem.sub}
               /\ StagedFor(w, HeadItem'.response),
           Routed /\ Serves(w, HeadItem.sub) => w.key = HeadItem.uiCookie,
           Routed /\ ~Expired /\ p = HeadItem.uiPid /\ runs'[HeadItem.sub] # 0 =>
               w.key = HeadItem.uiCookie /\ w.pc \in {"send", "finish"} /\ w.out = 0,
           \/ HeadItem'.response = HeadItem.response
           \/ Routed /\ HoldsCookie(p),
           \A n \in Subs : runs'[n] = runs[n] \/ Serves(app[p], n),
           \A n \in Subs : sizes'[n] = sizes[n] \/ Serves(app[p], n)
    PROVE  LinkInv'
<1> USE DEF SystemInv, LinkInv
<1>1. app'[p] = w /\ \A q \in Pids : q # p => app'[q] = app[q]
  BY AppHas
<1>2. \A n \in Subs : Unserved(n) /\ ~(Routed /\ n = HeadItem.sub) => Unserved(n)'
  BY <1>1 DEF Unserved
<1>3. Routed => Held /\ HeadItem.dispatched /\ Serving
  <2>1. Serving => HeadItem = pending[1] /\ 1 \in DOMAIN pending
    BY HeadTypes
  <2>2. QED
    BY <2>1 DEF Routed, RoutedIsHeld, Held, HeadItem
<1>4. FreeInv'
  <2>1. ASSUME NEW n \in Subs, HasFree(pending', n) PROVE runs'[n] = 0 /\ Unserved(n)'
    <3>1. HasFree(pending, n) /\ ~(Routed /\ n = HeadItem.sub)
      BY <1>3, <2>1, HeadKnown DEF HeadStays
    <3>2. QED
      BY <1>2, <3>1 DEF FreeInv, Unserved
  <2>2. QED
    BY <2>1 DEF FreeInv
<1>5. AnswerInv'
  <2>1. ASSUME NEW n \in Subs, NEW resp, IsAnswer(n, resp)'
        PROVE  resp = Answer(n, sizes'[n]) /\ Unserved(n)'
    <3>1. IsAnswer(n, resp) /\ ~(Routed /\ n = HeadItem.sub)
      BY <1>3, <2>1, HeadKnown DEF HeadStays
    <3>2. QED
      BY <1>2, <3>1 DEF AnswerInv, Unserved
  <2>2. QED
    BY <2>1 DEF AnswerInv
<1>6. /\ Held' <=> Held
      /\ Routed' <=> Routed
      /\ Expired' <=> Expired
      /\ Serving => HeadItem'.sub = HeadItem.sub /\ HeadItem'.uiPid = HeadItem.uiPid
      /\ Routed => HeadItem'.uiCookie = HeadItem.uiCookie
      /\ \A k : OwnsSession(k)' <=> OwnsSession(k)
  BY DEF HeadStays, Held, Routed, Expired, HeadItem, OwnsSession
<1>7. Serving => HeadItem.sub \in Subs
  BY HeadInSubs
<1>8. Routed => /\ \A q \in Pids : q # p => (HoldsCookie(q)' <=> HoldsCookie(q))
                /\ HoldsCookie(p)' <=> w.pc # "poll" /\ w.key = HeadItem.uiCookie
  BY <1>1, <1>6 DEF HoldsCookie
<1>9. SessionInv'
  BY <1>6 DEF SessionInv, Held
<1>10. HeldInv'
  BY <1>1, <1>6, <1>7 DEF HeldInv, Held
<1>11. RoutedInv'
  <2> SUFFICES ASSUME Routed'
               PROVE  /\ \A d \in Daemons : ~Serves(daemon'[d], HeadItem'.sub)
                      /\ \A q \in Pids : HoldsCookie(q)' => q = HeadItem'.uiPid
                                                            /\ app'[q].req \in {0, HeadItem'.sub}
                      /\ \A q \in Pids : Serves(app'[q], HeadItem'.sub) => HoldsCookie(q)'
                      /\ runs'[HeadItem'.sub] # 0 /\ ~Expired' =>
                            \E q \in Pids : /\ q = HeadItem'.uiPid /\ HoldsCookie(q)'
                                            /\ app'[q].pc \in {"send", "finish"} /\ app'[q].out = 0
    BY SMTT(20) DEF RoutedInv
  <2>1. Routed /\ Serving /\ HeadItem'.sub = HeadItem.sub /\ HeadItem'.uiPid = HeadItem.uiPid
    BY <1>3, <1>6
  <2>2. \A d \in Daemons : ~Serves(daemon'[d], HeadItem'.sub)
    BY <2>1, SMTT(20) DEF RoutedInv
  <2>3. \A q \in Pids : HoldsCookie(q)' => q = HeadItem'.uiPid /\ app'[q].req \in {0, HeadItem'.sub}
    BY <1>1, <1>8, <2>1, SMTT(20) DEF RoutedInv
  <2>4. \A q \in Pids : Serves(app'[q], HeadItem'.sub) => HoldsCookie(q)'
    BY <1>1, <1>8, <2>1 DEF RoutedInv, Serves, Busy
  <2>5. ASSUME runs'[HeadItem'.sub] # 0, ~Expired'
        PROVE  \E q \in Pids : /\ q = HeadItem'.uiPid /\ HoldsCookie(q)'
                               /\ app'[q].pc \in {"send", "finish"} /\ app'[q].out = 0
    <3>1. CASE p = HeadItem.uiPid
      BY <1>1, <1>6, <1>8, <2>1, <2>5, <3>1
    <3>2. CASE p # HeadItem.uiPid
      <4>1. runs[HeadItem.sub] # 0
        BY <1>7, <2>1, <2>5, <3>2, SMTT(20) DEF RoutedInv
      <4>2. QED
        BY <1>1, <1>6, <1>8, <2>1, <2>5, <3>2, <4>1 DEF RoutedInv
    <3>3. QED
      BY <3>1, <3>2, SMTT(20)
  <2>6. QED
    BY <2>2, <2>3, <2>4, <2>5, SMTT(20)
<1>12. StagedInv'
  <2>1. ASSUME NEW d \in Daemons, OwnsSession(daemon[d].key)'
        PROVE  StagedFor(daemon'[d], HeadItem'.response)
    BY <1>6, <2>1 DEF StagedInv, SessionInv, StagedFor, Busy
  <2>2. ASSUME NEW q \in Pids, Routed', HoldsCookie(q)'
        PROVE  StagedFor(app'[q], HeadItem'.response)
    <3>1. CASE q = p
      BY <1>1, <1>6, <1>8, <2>2, <3>1
    <3>2. CASE q # p
      <4>1. HoldsCookie(q) /\ app'[q] = app[q] /\ ~HoldsCookie(p)
        BY <1>1, <1>6, <1>8, <2>2, <3>2 DEF RoutedInv
      <4>2. QED
        BY <1>6, <2>2, <4>1, SMTT(20) DEF StagedInv
    <3>3. QED
      BY <3>1, <3>2, SMTT(20)
  <2>3. QED
    BY <2>1, <2>2, SMTT(20) DEF StagedInv
<1>13. QED
  BY <1>4, <1>5, <1>9, <1>10, <1>11, <1>12 DEF HeadStays

-----------------------------------------------------------------------------
(* The application processes *)

(* Once a routed request has been carried out, the process it names is on  *)
(* its way to say so, with nothing to send.                                *)
LEMMA RunHeld ==
    ASSUME LinkInv, Routed, ~Expired, runs[HeadItem.sub] # 0, NEW p \in Pids, p = HeadItem.uiPid
    PROVE  HoldsCookie(p) /\ app[p].pc \in {"send", "finish"} /\ app[p].out = 0
BY SMTT(20) DEF LinkInv, RoutedInv

(* A process goes on with the request it has.                              *)
LEMMA AppGoesOn ==
    ASSUME SystemInv, HeadStays, UNCHANGED <<subs, hellos, cookies>>, daemon' = daemon,
           NEW p \in Pids, app[p].pc \in Busy, NEW w, w.pc \in Busy,
           w.key = app[p].key, w.req = app[p].req, app' = [app EXCEPT ![p] = w],
           Routed /\ HoldsCookie(p) => StagedFor(w, HeadItem'.response),
           HeadItem'.response = HeadItem.response \/ (Routed /\ HoldsCookie(p)),
           Guest(daemon, [app EXCEPT ![p] = w], runs', sizes', subs, hellos, cookies),
           \A n \in Subs : n # app[p].req => runs'[n] = runs[n] /\ sizes'[n] = sizes[n],
           Routed /\ ~Expired /\ HoldsCookie(p) /\ runs'[HeadItem.sub] # 0 =>
               w.pc \in {"send", "finish"} /\ w.out = 0
    PROVE  Kept
<1> USE DEF SystemInv
<1>1. \A n : (Serves(w, n) <=> n = app[p].req) /\ (Serves(app[p], n) <=> n = app[p].req)
  BY SMTT(20) DEF Serves
<1>2. w.pc # "poll" /\ (HoldsCookie(p) <=> w.key = HeadItem.uiCookie)
  BY DEF HoldsCookie, Busy
<1>3. Routed => Serving /\ HeadItem.sub \in Subs
  BY HeadInSubs, SMTT(20) DEF Routed
<1>4. /\ Routed /\ w.key = HeadItem.uiCookie =>
            p = HeadItem.uiPid /\ w.req \in {0, HeadItem.sub} /\ StagedFor(w, HeadItem'.response)
      /\ Routed /\ Serves(w, HeadItem.sub) => w.key = HeadItem.uiCookie
  BY <1>1, <1>2, SMTT(20) DEF LinkInv, RoutedInv
<1>5. ASSUME Routed, ~Expired, p = HeadItem.uiPid, runs'[HeadItem.sub] # 0
      PROVE  w.key = HeadItem.uiCookie /\ w.pc \in {"send", "finish"} /\ w.out = 0
  <2>1. HoldsCookie(p)
    <3>1. CASE HeadItem.sub = app[p].req
      BY <1>1, <1>2, <1>4, <1>5, <3>1, SMTT(20)
    <3>2. CASE HeadItem.sub # app[p].req
      BY <1>3, <1>5, <3>2, RunHeld
    <3>3. QED
      BY <3>1, <3>2, SMTT(20)
  <2>2. QED
    BY <1>2, <1>5, <2>1
<1>6. LinkInv'
  BY <1>1, <1>4, <1>5, AppLinks, Zenon
<1>7. QED
  BY <1>6, SMTT(20) DEF Kept, GuestInv

(* A process looks for a request routed to it.                             *)
LEMMA AppPollStep ==
    ASSUME SystemInv, NEW p \in Pids, AppPoll(p)
    PROVE  Kept
<1> USE DEF SystemInv
<1>0. /\ app \in [Pids -> ProcessState] /\ app[p] \in ProcessState /\ app[p].pc = "poll"
      /\ subs \in Nat /\ hellos \in Nat /\ cookies \in Nat
  BY AppHas DEF AppPoll, Inv, TypeOK
<1>1. PICK r \in 1..cookies :
        UiPoll(p, r) /\ app' = [app EXCEPT ![p] = [Idle("read") EXCEPT !.key = r]]
  BY Zenon DEF AppPoll
<1>2. UNCHANGED agentVars /\ UNCHANGED <<daemon, runs, sizes>>
  BY <1>1 DEF AppPoll, UiPoll
<1>3. Routed /\ ~Expired /\ HeadItem.uiPid = p /\ r = HeadItem.uiCookie
  BY <1>1 DEF UiPoll, HeadItem
<1> DEFINE w == [Idle("read") EXCEPT !.key = r]
<1>4. /\ w \in ProcessState /\ w.pc = "read" /\ w.key = r /\ w.req = 0 /\ w.st = "ok"
      /\ w.read = 0 /\ w.shown = {} /\ w.out = 0 /\ w.sent = 0
  BY <1>1, IdleType
<1>5. app' = [app EXCEPT ![p] = w]
  BY <1>1
<1> HIDE DEF w
<1>6. AppFits(w, sizes, subs, cookies)
  BY <1>0, <1>1, <1>4, SystemConstants DEF AppFits, Sends
<1>7. \A n \in Subs : ~Serves(w, n) /\ ~MayRun(w, n)
  BY <1>4 DEF Serves, MayRun, Subs
<1>8. GuestInv'
  <2>1. Guest(daemon, [app EXCEPT ![p] = w], runs, sizes, subs, hellos, cookies)
    BY <1>0, <1>4, <1>6, <1>7, AppMoves, Zenon DEF GuestInv
  <2>2. QED
    BY <1>2, <1>5, <2>1 DEF GuestInv, agentVars
<1>9. HeadStays /\ HeadItem'.response = HeadItem.response
  BY <1>2, ChannelStays DEF LinkInv, agentVars
<1>10. runs[HeadItem.sub] = 0 /\ HeadItem.sub \in Subs
  BY <1>0, <1>3, RunHeld, HeadInSubs DEF Routed
<1>11. LinkInv'
  <2>1. StagedFor(w, HeadItem'.response)
    BY <1>4 DEF StagedFor
  <2>2. QED
    BY <1>2, <1>3, <1>4, <1>5, <1>7, <1>9, <1>10, <2>1, AppLinks, Zenon
<1>12. QED
  BY <1>8, <1>11 DEF Kept

(* A process gives up a request it may no longer answer, or whose answer   *)
(* has something in it.                                                    *)
LEMMA AppDrops ==
    ASSUME SystemInv, NEW p \in Pids, app' = [app EXCEPT ![p] = Idle("poll")],
           UNCHANGED <<pending, done, token, claimed, subs, hellos, cookies, daemon, runs, sizes>>,
           app[p].out # 0 \/ ~(UiMay(app[p].key) /\ Serving)
    PROVE  Kept
<1> USE DEF SystemInv
<1> DEFINE w == Idle("poll")
<1>1. w \in ProcessState /\ w.pc = "poll" /\ w.key = 0 /\ w.req = 0 /\ w.st = "ok"
  <2>1. 0 \in Nat
    BY SMTT(20)
  <2>2. QED
    BY <2>1, IdleType, Zenon
<1>2. AppFits(w, sizes, subs, cookies)
  BY <1>1 DEF AppFits, Sends, Inv, TypeOK
<1>3. app' = [app EXCEPT ![p] = w]
  OBVIOUS
<1> HIDE DEF w
<1>4. \A n : ~Serves(w, n) /\ ~MayRun(w, n)
  BY <1>1 DEF Serves, MayRun, Busy
<1>5. GuestInv'
  <2>1. subs \in Nat /\ hellos \in Nat /\ cookies \in Nat
    BY DEF Inv, TypeOK
  <2>2. Guest(daemon, [app EXCEPT ![p] = w], runs, sizes, subs, hellos, cookies)
    BY <1>1, <1>2, <1>4, <2>1, AppMoves, Zenon DEF GuestInv
  <2>3. QED
    BY <1>3, <2>2, Zenon DEF GuestInv
<1>6. HeadStays /\ HeadItem'.response = HeadItem.response
  BY ChannelStays DEF LinkInv
<1>7. ~(Routed /\ ~Expired /\ p = HeadItem.uiPid /\ runs[HeadItem.sub] # 0)
  BY RunHeld DEF UiMay, HoldsCookie, HeadItem, Routed
<1>8. LinkInv'
  BY <1>1, <1>3, <1>4, <1>6, <1>7, AppLinks, Zenon
<1>9. QED
  BY <1>5, <1>8 DEF Kept

(* A process reads a window of the request its cookie shows it.            *)
LEMMA AppReadStep ==
    ASSUME SystemInv, NEW p \in Pids, AppRead(p)
    PROVE  Kept
<1> USE DEF SystemInv
<1>0. /\ app \in [Pids -> ProcessState] /\ app[p] \in ProcessState /\ app[p].pc = "read"
      /\ AppFits(app[p], sizes, subs, cookies) /\ app[p].pc \in Busy
      /\ subs \in Nat /\ hellos \in Nat /\ cookies \in Nat
  BY AppHas DEF AppRead, Inv, TypeOK, Busy
<1>1. PICK r \in {-1} \cup Subs :
        ReadWindow(UiMay(app[p].key), r) /\ app' = [app EXCEPT ![p] = AfterRead(app[p], r, r)]
  BY Zenon DEF AppRead
<1>2. UNCHANGED agentVars /\ UNCHANGED <<daemon, runs, sizes>>
  BY <1>1, SMTT(20) DEF AppRead, ReadWindow
<1>3. HeadStays /\ HeadItem'.response = HeadItem.response /\ UNCHANGED <<subs, hellos, cookies>>
  BY <1>2, ChannelStays, SMTT(20) DEF LinkInv, agentVars
<1>4. /\ app[p].key \in 1..cookies /\ app[p].req \in 0..subs /\ app[p].shown = {app[p].req} \ {0}
      /\ app[p].read \in Nat /\ app[p].read < REQ_WINDOWS /\ REQ_WINDOWS \in Nat
      /\ app[p].out = 0 /\ app[p].sent = 0 /\ app[p].st = "ok"
  BY <1>0, SystemConstants DEF AppFits, Sends, ProcessState
<1> DEFINE w == AfterRead(app[p], r, r)
<1>5. CASE r = -1
  <2>1. /\ w \in ProcessState /\ w.pc = "send" /\ w.st = "eio" /\ w.key = app[p].key
        /\ w.req = app[p].req /\ w.out = 0 /\ w.sent = 0
    BY <1>0, <1>4, <1>5, Zenon DEF AfterRead, ProcessState, Statuses
  <2>2. app' = [app EXCEPT ![p] = w]
    BY <1>1, SMTT(20)
  <2> HIDE DEF w
  <2>3. AppFits(w, sizes, subs, cookies)
    BY <1>4, <2>1 DEF AppFits, Sends
  <2>4. /\ \A n : (Serves(w, n) => Serves(app[p], n)) /\ ~MayRun(w, n)
        /\ w.pc \in Busy /\ StagedFor(w, HeadItem'.response)
    BY <1>0, <2>1 DEF Serves, MayRun, Busy, StagedFor
  <2>5. Guest(daemon, [app EXCEPT ![p] = w], runs, sizes, subs, hellos, cookies)
    BY <1>0, <2>1, <2>3, <2>4, AppMoves, Zenon DEF GuestInv
  <2>6. Guest(daemon, [app EXCEPT ![p] = w], runs', sizes', subs, hellos, cookies)
    BY <1>2, <2>5
  <2>7. QED
    BY <1>0, <1>2, <1>3, <2>1, <2>2, <2>4, <2>6, AppGoesOn, Zenon
<1>6. CASE r # -1
  <2>1. /\ Routed /\ ~Expired /\ app[p].key = HeadItem.uiCookie /\ r = HeadItem.sub /\ r \in Subs
        /\ HoldsCookie(p) /\ Serving
    BY <1>0, <1>1, <1>6, SMTT(20) DEF ReadWindow, UiMay, HeadItem, HoldsCookie, Routed
  <2>2. p = HeadItem.uiPid /\ app[p].req \in {0, r} /\ runs[r] = 0
    BY <1>0, <2>1, RunHeld, SMTT(20) DEF LinkInv, RoutedInv
  <2>3. r \in 1..subs /\ r \in 0..MaxSubs
    BY <2>1, HeadKnown, SystemConstants DEF Subs
  <2>4. /\ w \in ProcessState /\ w.key = app[p].key /\ w.req = r /\ w.shown = {r}
        /\ w.out = 0 /\ w.sent = 0 /\ w.st = "ok"
        /\ w.read = app[p].read + 1
        /\ w.pc = IF app[p].read + 1 = REQ_WINDOWS THEN "dispatch" ELSE "read"
    <3>1. /\ app[p].shown \cup {r} = {r} /\ app[p].shown \cup {r} \in SUBSET Subs
          /\ app[p].read + 1 \in 0..REQ_WINDOWS
      BY <1>4, <2>1, <2>2
    <3>2. QED
      BY <1>0, <1>4, <1>6, <2>3, <3>1, Zenon DEF AfterRead, ProcessState
  <2>5. app' = [app EXCEPT ![p] = w]
    BY <1>1
  <2> HIDE DEF w
  <2>6. w.pc \in {"read", "dispatch"} /\ (w.pc = "read" => w.read < REQ_WINDOWS)
    BY <1>4, <2>4, SMTT(20)
  <2>7. AppFits(w, sizes, subs, cookies)
    <3>1. r # 0 /\ r \in 0..subs /\ {r} = {r} \ {0}
      BY <2>3
    <3>2. QED
      BY <1>4, <2>4, <2>6, <3>1 DEF AppFits, Sends
  <2>8. \A n : (Serves(w, n) => n = r) /\ (MayRun(w, n) => n = r)
    BY <2>4 DEF Serves, MayRun
  <2>9. \/ Serves(app[p], r)
        \/ /\ \A d \in Daemons : ~Serves(daemon[d], r)
           /\ \A q \in Pids : ~Serves(app[q], r)
    <3>1. /\ \A d \in Daemons : ~Serves(daemon[d], r)
          /\ \A q \in Pids : Serves(app[q], r) => q = p
      BY <2>1, <2>2, SMTT(20) DEF LinkInv, RoutedInv
    <3>2. QED
      BY <3>1, SMTT(20)
  <2>10. GuestInv'
    <3>1. \A n \in Subs : Serves(w, n) =>
              \/ Serves(app[p], n)
              \/ /\ \A d \in Daemons : ~Serves(daemon[d], n)
                 /\ \A q \in Pids : ~Serves(app[q], n)
      BY <2>8, <2>9
    <3>2. \A n \in Subs : MayRun(w, n) => MayRun(app[p], n) \/ runs[n] = 0
      BY <2>2, <2>8
    <3>3. Guest(daemon, [app EXCEPT ![p] = w], runs, sizes, subs, hellos, cookies)
      BY <1>0, <2>4, <2>7, <3>1, <3>2, AppMoves, Zenon DEF GuestInv
    <3>4. QED
      BY <1>2, <1>3, <2>5, <3>3 DEF GuestInv
  <2>11. LinkInv'
    <3>1. StagedFor(w, HeadItem'.response)
      BY <2>6, SMTT(20) DEF StagedFor
    <3>2. /\ \A n \in Subs : Serves(w, n) =>
              \/ Serves(app[p], n)
              \/ Routed /\ n = HeadItem.sub /\ w.key = HeadItem.uiCookie
          /\ w.req \in {0, HeadItem.sub} /\ w.key = HeadItem.uiCookie
          /\ runs'[HeadItem.sub] = 0 /\ runs' = runs /\ sizes' = sizes
      BY <1>2, <2>1, <2>2, <2>4, <2>8
    <3>3. QED
      BY <1>2, <1>3, <2>2, <2>5, <3>1, <3>2, AppLinks, Zenon
  <2>12. QED
    BY <2>10, <2>11 DEF Kept
<1>7. QED
  BY <1>5, <1>6, SMTT(20)

(* A process carries its request out, or answers that it cannot.           *)
LEMMA AppActStep ==
    ASSUME SystemInv, NEW p \in Pids, AppAct(p)
    PROVE  Kept
<1> USE DEF SystemInv
<1> DEFINE n == app[p].req  R == [runs EXCEPT ![n] = @ + 1]
<1>0. /\ app \in [Pids -> ProcessState] /\ app[p] \in ProcessState /\ app[p].pc = "dispatch"
      /\ AppFits(app[p], sizes, subs, cookies) /\ app[p].pc \in Busy
      /\ subs \in Nat /\ hellos \in Nat /\ cookies \in Nat
  BY AppHas DEF AppAct, Inv, TypeOK, Busy
<1>1. UNCHANGED agentVars /\ daemon' = daemon
  BY DEF AppAct
<1>2. HeadStays /\ HeadItem'.response = HeadItem.response /\ UNCHANGED <<subs, hellos, cookies>>
  BY <1>1, ChannelStays, SMTT(20) DEF LinkInv, agentVars
<1>3. /\ n \in 1..subs /\ n \in Subs /\ n <= subs /\ app[p].key \in 1..cookies
      /\ app[p].out = 0 /\ app[p].sent = 0 /\ app[p].st = "ok"
  BY <1>0, SystemConstants DEF BoundInv, Subs, AppFits, Sends
<1>4. /\ \A m \in Subs : m # n => R[m] = runs[m]
      /\ \A k : \A m \in Subs : m # n => [sizes EXCEPT ![n] = k][m] = sizes[m]
      /\ \A k : [sizes EXCEPT ![n] = k][n] = k
  BY <1>3 DEF GuestInv, Guest
<1>5. MayRun(app[p], n) /\ Serves(app[p], n)
  BY <1>0, SMTT(20) DEF MayRun, Serves
<1>6. /\ runs[n] = 0 /\ \A d \in Daemons : ~Serves(daemon[d], n)
      /\ \A q \in Pids : q # p => ~Serves(app[q], n)
  BY <1>3, <1>5, OnlyServer, SMTT(20)
<1>7. ~(Routed /\ ~Expired /\ HoldsCookie(p) /\ runs[HeadItem.sub] # 0)
  BY <1>0, RunHeld DEF LinkInv, RoutedInv
<1>8. ASSUME NEW k \in 0..RESPONSE_MAX
      PROVE  Guest(daemon, app, runs, [sizes EXCEPT ![n] = k], subs, hellos, cookies)
  <2>1. /\ \A d \in Daemons : daemon[d].pc \in {"send", "finish"} => daemon[d].req # n
        /\ \A q \in Pids : app[q].pc \in {"send", "finish"} => app[q].req # n
    BY <1>0, <1>6 DEF Serves, Busy
  <2>2. QED
    BY <1>0, <1>3, <2>1, SizeSet, Zenon DEF GuestInv
<1>9. ASSUME NEW k \in 0..RESPONSE_MAX, NEW s \in {"ok", "eio"}, NEW w,
             w = [app[p] EXCEPT !.pc = "send", !.out = k, !.st = s], s = "eio" => k = 0,
             app' = [app EXCEPT ![p] = w],
             sizes' = IF s = "ok" THEN [sizes EXCEPT ![n] = k] ELSE sizes,
             runs' = runs \/ (k = 0 /\ runs' = R)
      PROVE  Kept
  <2>1. /\ w \in ProcessState /\ w.pc = "send" /\ w.key = app[p].key /\ w.req = n /\ w.out = k
        /\ w.sent = 0 /\ w.st = s
    BY <1>0, <1>3, <1>9, Zenon DEF ProcessState, Statuses
  <2>2. /\ Guest(daemon, app, runs, sizes', subs, hellos, cookies)
        /\ s = "ok" => sizes'[n] = k
    BY <1>4, <1>8, <1>9, Zenon DEF GuestInv
  <2>3. AppFits(w, sizes', subs, cookies)
    <3>1. 0 < k \/ k = 0
      BY AgentConstants
    <3>2. n \in 0..subs
      BY <1>0, <1>3
    <3>3. QED
      BY <1>3, <1>9, <2>1, <2>2, <3>1, <3>2 DEF AppFits, Sends
  <2>4. /\ \A m : (Serves(w, m) => Serves(app[p], m)) /\ ~MayRun(w, m)
        /\ w.pc \in Busy /\ StagedFor(w, HeadItem'.response)
    BY <1>0, <2>1 DEF Serves, MayRun, Busy, StagedFor
  <2>5. Guest(daemon, [app EXCEPT ![p] = w], runs, sizes', subs, hellos, cookies)
    BY <1>0, <2>1, <2>2, <2>3, <2>4, AppMoves, Zenon
  <2>6. Guest(daemon, [app EXCEPT ![p] = w], R, sizes', subs, hellos, cookies)
    <3> DEFINE A == [app EXCEPT ![p] = w]
    <3>1. A[p] = w /\ \A q \in Pids : q # p => A[q] = app[q]
      BY <1>0, SMTT(20)
    <3>2. /\ \A d \in Daemons : ~MayRun(daemon[d], n)
          /\ \A q \in Pids : ~MayRun(A[q], n)
      BY <1>6, <2>4, <3>1, RunnersServe
    <3>3. Guest(daemon, A, runs, sizes', subs, hellos, cookies)
      BY <2>5
    <3> HIDE DEF A
    <3>4. Guest(daemon, A, R, sizes', subs, hellos, cookies)
      BY <1>0, <1>3, <1>6, <3>2, <3>3, RunCounted, Zenon
    <3>5. QED
      BY <3>4 DEF A
  <2>7. Guest(daemon, [app EXCEPT ![p] = w], runs', sizes', subs, hellos, cookies)
    BY <1>9, <2>5, <2>6
  <2>8. \A m \in Subs : m # n => runs'[m] = runs[m] /\ sizes'[m] = sizes[m]
    BY <1>4, <1>9, Zenon
  <2>9. Routed /\ ~Expired /\ HoldsCookie(p) /\ runs'[HeadItem.sub] # 0 =>
            w.pc \in {"send", "finish"} /\ w.out = 0
    BY <1>7, <1>9, <2>1
  <2>10. QED
    BY <1>0, <1>1, <1>2, <1>9, <2>1, <2>4, <2>7, <2>8, <2>9, AppGoesOn, Zenon
<1>10. QED
  <2> HIDE DEF R
  <2>1. [app EXCEPT ![p].pc = "send"] =
            [app EXCEPT ![p] = [app[p] EXCEPT !.pc = "send", !.out = 0, !.st = "ok"]]
    BY <1>0, <1>3, Zenon DEF ProcessState
  <2>2. ASSUME runs' = R, sizes' = [sizes EXCEPT ![n] = 0], app' = [app EXCEPT ![p].pc = "send"]
        PROVE  Kept
    <3>1. 0 \in 0..RESPONSE_MAX /\ sizes' = IF "ok" = "ok" THEN [sizes EXCEPT ![n] = 0] ELSE sizes
      BY <2>2, AgentConstants
    <3>2. app' = [app EXCEPT ![p] = [app[p] EXCEPT !.pc = "send", !.out = 0, !.st = "ok"]]
      BY <2>1, <2>2
    <3>3. QED
      BY <1>9, <2>2, <3>1, <3>2, Zenon
  <2>3. ASSUME NEW k \in 0..RESPONSE_MAX, runs' = runs, sizes' = [sizes EXCEPT ![n] = k],
               app' = [app EXCEPT ![p].pc = "send", ![p].out = k]
        PROVE  Kept
    BY <1>0, <1>3, <1>9, <2>3, Zenon DEF ProcessState
  <2>4. ASSUME runs' = runs, sizes' = sizes, app' = [app EXCEPT ![p].pc = "send", ![p].st = "eio"]
        PROVE  Kept
    BY <1>0, <1>3, <1>9, <2>4, AgentConstants, Zenon DEF ProcessState
  <2>5. QED
    BY <2>2, <2>3, <2>4 DEF AppAct, R

(* A process sends a window, or is refused and gives up.                   *)
LEMMA AppSendStep ==
    ASSUME SystemInv, NEW p \in Pids, AppSend(p)
    PROVE  Kept
<1> USE DEF SystemInv
<1>0. /\ app \in [Pids -> ProcessState] /\ app[p] \in ProcessState /\ app[p].pc = "send"
      /\ AppFits(app[p], sizes, subs, cookies) /\ app[p].pc \in Busy
      /\ subs \in Nat /\ hellos \in Nat /\ cookies \in Nat
  BY AppHas DEF AppSend, Inv, TypeOK, Busy
<1>1. PICK r \in {0, -1} :
        /\ SendWindow(UiMay(app[p].key), app[p], r)
        /\ app' = [app EXCEPT ![p] = IF r = -1 THEN Idle("poll") ELSE AfterSend(app[p])]
  BY Zenon DEF AppSend
<1>2. UNCHANGED <<daemon, runs, sizes>>
  BY DEF AppSend
<1>3. CASE r = -1
  <2>1. UNCHANGED agentVars /\ app' = [app EXCEPT ![p] = Idle("poll")]
    BY <1>1, <1>3 DEF SendWindow, WriteEmpty, WriteWindow
  <2>2. app[p].out # 0 \/ ~(UiMay(app[p].key) /\ Serving)
    BY <1>1, <1>3 DEF SendWindow, WriteEmpty
  <2>3. QED
    BY <1>2, <2>1, <2>2, AppDrops, Zenon DEF agentVars
<1>4. CASE r = 0
  <2> DEFINE w == AfterSend(app[p])
  <2>1. Routed /\ HoldsCookie(p) => StagedFor(app[p], HeadItem.response)
    BY SMTT(20) DEF LinkInv, StagedInv
  <2>2. UiMay(app[p].key) => Routed /\ HoldsCookie(p)
    BY <1>0 DEF UiMay, HoldsCookie, HeadItem
  <2>3. /\ UiMay(app[p].key) /\ HeadStays /\ StagedFor(w, HeadItem'.response)
        /\ UNCHANGED <<subs, hellos, cookies>>
    <3>1. Sends(app[p], sizes, subs)
      BY <1>0 DEF AppFits
    <3>2. SendWindow(UiMay(app[p].key), app[p], 0)
      BY <1>1, <1>4
    <3>3. QED
      BY <1>0, <2>1, <2>2, <3>1, <3>2, SendDoes, SMTT(30)
  <2>4. /\ w \in ProcessState /\ w.pc \in {"send", "finish"} /\ w.key = app[p].key
        /\ w.req = app[p].req /\ w.out = app[p].out /\ Sends(w, sizes, subs)
    BY <1>0, AfterSendFits, Zenon DEF AppFits
  <2>5. app' = [app EXCEPT ![p] = w]
    BY <1>1, <1>4, SMTT(20)
  <2> HIDE DEF w
  <2>6. AppFits(w, sizes, subs, cookies)
    BY <1>0, <2>4 DEF AppFits
  <2>7. \A n : (Serves(w, n) => Serves(app[p], n)) /\ ~MayRun(w, n)
    BY <1>0, <2>4 DEF Serves, MayRun
  <2>8. Guest(daemon, [app EXCEPT ![p] = w], runs, sizes, subs, hellos, cookies)
    BY <1>0, <2>4, <2>6, <2>7, AppMoves, Zenon DEF GuestInv
  <2>9. Routed /\ ~Expired /\ HoldsCookie(p) /\ runs'[HeadItem.sub] # 0 => w.out = 0
    BY <1>2, <2>4, RunHeld, Zenon DEF LinkInv, RoutedInv
  <2>10. w.pc \in Busy
    BY <2>4, Zenon DEF Busy
  <2>11. Guest(daemon, [app EXCEPT ![p] = w], runs', sizes', subs, hellos, cookies)
    BY <1>2, <2>8
  <2>12. QED
    BY <1>0, <1>2, <2>2, <2>3, <2>4, <2>5, <2>9, <2>10, <2>11, AppGoesOn, Zenon
<1>5. QED
  BY <1>3, <1>4

(* A process reports its request done, or is refused; either way it is     *)
(* idle again.                                                             *)
LEMMA AppDoneStep ==
    ASSUME SystemInv, NEW p \in Pids, AppDone(p)
    PROVE  Kept
<1> USE DEF SystemInv
<1>0. /\ app \in [Pids -> ProcessState] /\ app[p] \in ProcessState /\ app[p].pc = "finish"
      /\ AppFits(app[p], sizes, subs, cookies) /\ app[p].pc \in Busy
      /\ subs \in Nat /\ hellos \in Nat /\ cookies \in Nat
  BY AppHas DEF AppDone, Inv, TypeOK, Busy
<1>1. PICK r \in {0, -1} : Done(UiMay(app[p].key), app[p].st, r)
  BY DEF AppDone
<1>2. UNCHANGED <<daemon, runs, sizes>> /\ app' = [app EXCEPT ![p] = Idle("poll")]
  BY DEF AppDone
<1>3. CASE r = -1
  <2>1. UNCHANGED agentVars /\ ~(UiMay(app[p].key) /\ Serving)
    BY <1>1, <1>3, SMTT(20) DEF Done
  <2>2. QED
    BY <1>2, <2>1, AppDrops, Zenon DEF agentVars
<1>4. CASE r = 0
  <2> DEFINE w == Idle("poll")
  <2>1. /\ Routed /\ Serving /\ HoldsCookie(p)
        /\ Retire(pending, done, app[p].st, HeadItem.response)
        /\ UNCHANGED <<token, claimed, hellos, cookies, subs>>
    BY <1>0, <1>1, <1>4 DEF Done, UiMay, HeadItem, HoldsCookie
  <2>2. PICK n \in Subs : n = HeadItem.sub
    BY <2>1, HeadInSubs
  <2>3. app[p].req \in {0, n} /\ HeadItem.response = Answer(app[p].req, app[p].out)
    BY <1>0, <2>1, <2>2, Zenon DEF LinkInv, RoutedInv, StagedInv, StagedFor
  <2>4. app[p].st = "ok" => HeadItem.response = Answer(n, sizes[n])
    <3>1. app[p].st = "ok" => app[p].req \in 1..subs /\ app[p].out = sizes[app[p].req]
      BY <1>0 DEF AppFits, Sends
    <3>2. 0 \notin 1..subs
      BY <1>0, SMTT(20)
    <3>3. QED
      BY <2>3, <3>1, <3>2, SMTT(20)
  <2>5. /\ HeadGone(n, HeadItem.response)
        /\ app[p].st # "ok" => \A m, a : IsAnswer(m, a)' => IsAnswer(m, a)
    <3>1. app[p].st \in Statuses /\ HeadItem.response \in Responses
      BY <1>0, <2>1, HeadTypes, Zenon DEF ProcessState
    <3>2. QED
      BY <2>1, <2>2, <3>1, RetireGone DEF LinkInv
  <2>6. w \in ProcessState /\ w.pc = "poll" /\ w.key = 0 /\ w.req = 0 /\ w.st = "ok"
    <3>1. 0 \in Nat
      OBVIOUS
    <3>2. QED
      BY <3>1, IdleType, Zenon
  <2>7. AppFits(w, sizes, subs, cookies)
    BY <1>0, <2>6, SMTT(30) DEF AppFits, Sends
  <2>8. app' = [app EXCEPT ![p] = w]
    BY <1>2
  <2> HIDE DEF w
  <2>9. \A m : ~Serves(w, m) /\ ~MayRun(w, m)
    BY <2>6 DEF Serves, MayRun, Busy
  <2>10. app'[p] = w /\ \A q \in Pids : q # p => app'[q] = app[q]
    BY <1>0, <2>8
  <2>11. GuestInv'
    <3>1. Guest(daemon, [app EXCEPT ![p] = w], runs, sizes, subs, hellos, cookies)
      BY <1>0, <2>6, <2>7, <2>9, AppMoves, Zenon DEF GuestInv
    <3>2. QED
      BY <1>2, <2>1, <2>8, <3>1, Zenon DEF GuestInv
  <2>12. Unserved(n)' /\ \A m : Unserved(m) => Unserved(m)'
    <3>1. /\ \A d \in Daemons : ~Serves(daemon[d], n)
          /\ \A q \in Pids : Serves(app[q], n) => q = p
      BY <2>1, <2>2, Zenon DEF LinkInv, RoutedInv
    <3>2. QED
      BY <1>2, <2>9, <2>10, <3>1 DEF Unserved
  <2>13. FreeInv'
    BY <1>2, <2>5, <2>12, SMTT(20) DEF LinkInv, FreeInv, HeadGone
  <2>14. AnswerInv'
    BY <1>2, <2>4, <2>5, <2>12 DEF LinkInv, AnswerInv, HeadGone
  <2>15. \A d \in Daemons : OwnsSession(daemon[d].key)' => daemon'[d].pc \notin Busy
    BY <1>2, <2>1, Zenon DEF LinkInv, SessionInv, OwnsSession
  <2>16. QED
    BY <2>5, <2>11, <2>13, <2>14, <2>15, NothingHeldLinks DEF Kept, HeadGone
<1>5. QED
  BY <1>3, <1>4

-----------------------------------------------------------------------------
(* The invariant and what follows from it *)

(* Every step keeps the guest sound and matched with the channel.          *)
LEMMA KeptStep ==
    ASSUME SystemInv, [SystemNext]_vars
    PROVE  Kept
<1>1. CASE UNCHANGED vars
  BY <1>1, NothingMoves DEF vars, agentVars
<1>2. ASSUME NEW d \in Daemons, DaemonStep(d) \/ DaemonCrash(d) \/ DaemonStart(d)
      PROVE  Kept
  <2>1. CASE DaemonStep(d)
    BY <2>1, HelloStep, DaemonPollStep, DaemonChildStep, DaemonReadStep, DaemonDispatchStep,
       DaemonRouteStep, DaemonSendStep, DaemonDoneStep DEF DaemonStep
  <2>2. CASE DaemonCrash(d)
    BY <2>2, DaemonDrops, Zenon DEF DaemonCrash, agentVars
  <2>3. CASE DaemonStart(d)
    BY <2>3, DaemonDrops, Zenon DEF DaemonStart, agentVars
  <2>4. QED
    BY <1>2, <2>1, <2>2, <2>3
<1>3. ASSUME NEW p \in Pids, AppStep(p) PROVE Kept
  BY <1>3, AppPollStep, AppReadStep, AppActStep, AppSendStep, AppDoneStep DEF AppStep
<1>4. QED
  BY <1>1, <1>2, <1>3, MachineStep DEF SystemNext

(* Every step keeps the invariant.                                         *)
LEMMA SystemNextInv == SystemInv /\ [SystemNext]_vars => SystemInv'
BY ChannelKeeps, BoundStep, SnapStep, KeptStep DEF SystemInv, Kept

(* A request carried out has been carried out once, by whichever daemon or *)
(* application had it, for any number of daemons, processes, requests,     *)
(* crashes, resets and snapshots (ipod_agent_call's tokens and cookies).   *)
THEOREM RunsAtMostOnce == SystemSpec => []AtMostOnce
<1>1. SystemInv => AtMostOnce
  BY SMTT(20) DEF SystemInv, GuestInv, Guest, RanOnce, AtMostOnce
<1>2. QED
  BY <1>1, SystemInitInv, SystemNextInv, PTL DEF SystemSpec

(* What the front end takes as a request's answer is that answer, whole    *)
(* (the offset check of ipod_agent_response and the revoked tokens).       *)
THEOREM AnswersWhole == SystemSpec => []AnswerIsWhole
<1>1. SystemInv => AnswerIsWhole
  <2> SUFFICES ASSUME SystemInv PROVE AnswerIsWhole
    OBVIOUS
  <2> USE DEF SystemInv
  <2>1. SystemTypeOK
    BY DEF Inv, BoundInv, GuestInv, Guest, SystemTypeOK
  <2>2. ASSUME NEW i \in DOMAIN done, done[i].status = "ok"
        PROVE  done[i].response = [k \in 1..sizes[done[i].sub] |-> Window(done[i].sub, k)]
    <3>1. IsAnswer(done[i].sub, done[i].response)
      BY <2>2 DEF IsAnswer
    <3>2. done[i].sub \in Subs
      <4>1. done[i].sub \in 1..subs
        BY <2>2 DEF Ordered, Has
      <4>2. QED
        BY <4>1, SystemConstants DEF Subs, BoundInv, Inv, TypeOK
    <3>3. QED
      BY <3>1, <3>2, Zenon DEF LinkInv, AnswerInv, Answer
  <2>3. QED
    BY <2>1, <2>2 DEF AnswerIsWhole
<1>2. QED
  BY <1>1, SystemInitInv, SystemNextInv, PTL DEF SystemSpec

(* No daemon and no application acts on a request put together from        *)
(* windows of two (QC_AGENT_READ names no request: agent_tick's loop and   *)
(* it_typein's read whatever is at the head).                              *)
THEOREM RequestsWhole == SystemSpec => []NoTornRequest
<1>1. SystemInv => NoTornRequest
  BY DEF SystemInv, GuestInv, Guest, DaemonFits, AppFits, NoTornRequest
<1>2. QED
  BY <1>1, SystemInitInv, SystemNextInv, PTL DEF SystemSpec

(* The daemons and applications of it-agent and it-typein call the channel *)
(* only in the ways it allows any guest, so that what is proved of the     *)
(* channel alone holds in the whole system.                                *)
THEOREM SystemImplementsChannel == SystemSpec => Spec
<1>1. SystemInit => Init
  BY DEF SystemInit
<1>2. SystemInv /\ [SystemNext]_vars => [Next]_agentVars
  BY ChannelStep
<1>3. QED
  BY <1>1, <1>2, SystemInitInv, SystemNextInv, PTL DEF SystemSpec, Spec
=============================================================================
