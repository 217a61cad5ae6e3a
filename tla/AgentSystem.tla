----------------------------- MODULE AgentSystem -----------------------------
(***************************************************************************)
(* IPodAgent composed with the guest processes that use it:                *)
(*   - the root daemons, contrib/it-agent/agent-ops.h (agent_tick,         *)
(*     agent_dispatch, agent_child_tick, agent_done), which launchd keeps  *)
(*     alive;                                                              *)
(*   - the application processes, contrib/it-agent/it_typein.c (tick,      *)
(*     finish);                                                            *)
(* with the daemon crashing, the machine resetting, and a snapshot being   *)
(* saved and loaded.  Loading one resets the machine, the agent included,  *)
(* and then rolls the guest processes back.                                *)
(*                                                                         *)
(* Each guest call into the host is one step, so the front end and the     *)
(* other processes interleave between any two calls.  A response window    *)
(* carries the request its writer is answering and its index, and a        *)
(* request window shows the request it belongs to.                         *)
(***************************************************************************)
EXTENDS IPodAgent

CONSTANTS
    Daemons,      \* root daemon processes
    REQ_WINDOWS,  \* windows a request is read in
    CHILD_TICKS,  \* ticks a child may run before it is killed (240)
    MaxSubs, MaxHellos, MaxCrashes, MaxResets, MaxCopyFailures   \* bounds

VARIABLES
    daemon,   \* per daemon: where it is in agent_tick and what it holds
    app,      \* per application process: the same for tick
    runs,     \* how often each request was carried out, reading aside
    sizes,    \* windows in the answer of each request, once it has one
    snap,     \* the guest processes a snapshot holds, and runs and sizes
    crashes, resets, copyFailures   \* what the bounds count

guestVars == <<daemon, app, runs, sizes>>
boundVars == <<crashes, resets, copyFailures>>
vars == <<agentVars, guestVars, snap, boundVars>>

Subs == 1..MaxSubs
Window(n, i) == [sub |-> n, index |-> i]
Windows == [sub: Subs, index: 1..RESPONSE_MAX]

ASSUME SystemConstants ==
    /\ REQ_WINDOWS \in Nat \ {0} /\ CHILD_TICKS \in Nat \ {0}
    /\ {MaxSubs, MaxHellos, MaxCrashes, MaxResets, MaxCopyFailures} \subseteq Nat
    /\ Windows \subseteq Chunks

NoSnapshot == [taken |-> FALSE]

(* agent_token, the request being handled, windows read and shown, and the *)
(* windows of the answer sent so far.                                      *)
Idle(pc) ==
    [pc |-> pc, key |-> 0, req |-> 0, shown |-> {}, read |-> 0, out |-> 0, sent |-> 0,
     ticks |-> 0, st |-> "ok"]

ProcessState ==
    [pc: {"down", "hello", "poll", "read", "dispatch", "child", "route", "send", "finish"},
     key: Nat, req: 0..MaxSubs, shown: SUBSET Subs, read: 0..REQ_WINDOWS,
     out: 0..RESPONSE_MAX, sent: 0..RESPONSE_MAX, ticks: 0..CHILD_TICKS, st: Statuses]

SystemTypeOK ==
    /\ TypeOK
    /\ daemon \in [Daemons -> ProcessState]
    /\ app \in [Pids -> ProcessState]
    /\ runs \in [Subs -> Nat]
    /\ sizes \in [Subs -> 0..RESPONSE_MAX]
    /\ crashes \in 0..MaxCrashes
    /\ resets \in 0..MaxResets
    /\ copyFailures \in 0..MaxCopyFailures

SystemInit ==
    /\ Init
    /\ daemon = [d \in Daemons |-> Idle("hello")]
    /\ app = [p \in Pids |-> Idle("poll")]
    /\ runs = [n \in Subs |-> 0]
    /\ sizes = [n \in Subs |-> 0]
    /\ snap = NoSnapshot
    /\ crashes = 0 /\ resets = 0 /\ copyFailures = 0

-----------------------------------------------------------------------------
(* The root daemon *)

(* agent_token = 0; the child, if any, is killed on the next tick.         *)
LoseSession(d) == daemon' = [daemon EXCEPT ![d] = Idle("hello")]

DaemonHello(d) ==
    /\ daemon[d].pc = "hello"
    /\ \E r \in {0, hellos + 1} :
          /\ r > 0 => hellos < MaxHellos
          /\ Hello(r)
          /\ daemon' = [daemon EXCEPT ![d] =
                            IF r > 0 THEN [Idle("poll") EXCEPT !.key = r] ELSE @]
    /\ UNCHANGED <<app, runs, sizes, snap, boundVars>>

DaemonPoll(d) ==
    /\ daemon[d].pc = "poll"
    /\ \E r \in -1..subs :
          /\ Poll(daemon[d].key, r)
          /\ CASE r = -1 -> LoseSession(d)
               [] r = 0  -> UNCHANGED daemon
               [] r > 0  -> daemon' = [daemon EXCEPT ![d].pc = "read", ![d].req = r]
    /\ UNCHANGED <<app, runs, sizes, snap, boundVars>>

(* With a child running the tick polls to keep the lease, then looks       *)
(* whether the child has finished, or has run for CHILD_TICKS.             *)
DaemonChild(d) ==
    /\ daemon[d].pc = "child"
    /\ \E r \in -1..subs :
          /\ Poll(daemon[d].key, r)
          /\ \/ r = -1 /\ LoseSession(d) /\ UNCHANGED sizes
             \/ /\ r >= 0 /\ daemon[d].ticks + 1 < CHILD_TICKS
                /\ daemon' = [daemon EXCEPT ![d].ticks = @ + 1]
                /\ UNCHANGED sizes
             \/ \E k \in 0..RESPONSE_MAX :
                   /\ r >= 0
                   /\ daemon' = [daemon EXCEPT ![d].pc = "send", ![d].out = k]
                   /\ sizes' = [sizes EXCEPT ![daemon[d].req] = k]
    /\ UNCHANGED <<app, runs, snap, boundVars>>

(* copy can only fail where the call was otherwise allowed.                *)
CountCopyFailure(may, r) ==
    copyFailures' = IF may /\ r = -1 THEN copyFailures + 1 ELSE copyFailures

(* A window of request n, of which r is what was read, or -1.              *)
AfterRead(proc, n, r) ==
    IF r = -1 THEN [proc EXCEPT !.pc = "send", !.st = "eio"]
    ELSE [proc EXCEPT !.req = n, !.shown = @ \cup {r}, !.read = @ + 1,
                      !.pc = IF proc.read + 1 = REQ_WINDOWS THEN "dispatch" ELSE "read"]

DaemonRead(d) ==
    /\ daemon[d].pc = "read"
    /\ \E r \in {-1} \cup Subs :
          /\ ReadWindow(RootMay(daemon[d].key), r)
          /\ CountCopyFailure(RootMay(daemon[d].key) /\ Serving, r)
          /\ copyFailures' <= MaxCopyFailures
          /\ daemon' = [daemon EXCEPT ![d] = AfterRead(daemon[d], daemon[d].req, r)]
    /\ UNCHANGED <<app, runs, sizes, snap, crashes, resets>>

(* agent_dispatch: an operation done on the spot, a child process, or one  *)
(* an application must do.                                                 *)
DaemonDispatch(d) ==
    /\ daemon[d].pc = "dispatch"
    /\ \/ /\ runs' = [runs EXCEPT ![daemon[d].req] = @ + 1]
          /\ \E k \in 0..RESPONSE_MAX :
                /\ sizes' = [sizes EXCEPT ![daemon[d].req] = k]
                /\ daemon' = [daemon EXCEPT ![d].pc = "send", ![d].out = k]
       \/ /\ runs' = [runs EXCEPT ![daemon[d].req] = @ + 1]
          /\ daemon' = [daemon EXCEPT ![d].pc = "child"]
          /\ UNCHANGED sizes
       \/ /\ daemon' = [daemon EXCEPT ![d].pc = "route"]
          /\ UNCHANGED <<runs, sizes>>
    /\ UNCHANGED <<agentVars, app, snap, boundVars>>

DaemonRoute(d) ==
    /\ daemon[d].pc = "route"
    /\ \E p \in Pids, r \in {0, -1} :
          /\ UiRoute(daemon[d].key, p, r)
          /\ daemon' = [daemon EXCEPT ![d] =
                IF r = -1 THEN [@ EXCEPT !.pc = "send", !.st = "eio"]
                ELSE [Idle("poll") EXCEPT !.key = daemon[d].key]]
    /\ UNCHANGED <<app, runs, sizes, snap, boundVars>>

(* agent_done's loop: the windows, or one empty window.                    *)
SendWindow(may, proc, r) ==
    IF proc.out = 0 THEN WriteEmpty(may, r)
    ELSE WriteWindow(may, proc.sent, Window(proc.req, proc.sent + 1), r)

AfterSend(proc) ==
    IF proc.sent + 1 >= proc.out THEN [proc EXCEPT !.pc = "finish"]
    ELSE [proc EXCEPT !.sent = @ + 1]

DaemonSend(d) ==
    /\ daemon[d].pc = "send"
    /\ \E r \in {0, -1} :
          /\ SendWindow(RootMay(daemon[d].key), daemon[d], r)
          /\ CountCopyFailure(RootMay(daemon[d].key) /\ Serving, r)
          /\ copyFailures' <= MaxCopyFailures
          /\ IF r = -1 THEN LoseSession(d)
             ELSE daemon' = [daemon EXCEPT ![d] = AfterSend(@)]
    /\ UNCHANGED <<app, runs, sizes, snap, crashes, resets>>

DaemonDone(d) ==
    /\ daemon[d].pc = "finish"
    /\ \E r \in {0, -1} :
          /\ Done(RootMay(daemon[d].key), daemon[d].st, r)
          /\ IF r = -1 THEN LoseSession(d)
             ELSE daemon' = [daemon EXCEPT ![d] = [Idle("poll") EXCEPT !.key = daemon[d].key]]
    /\ UNCHANGED <<app, runs, sizes, snap, boundVars>>

DaemonStep(d) ==
    \/ DaemonHello(d) \/ DaemonPoll(d) \/ DaemonChild(d) \/ DaemonRead(d)
    \/ DaemonDispatch(d) \/ DaemonRoute(d) \/ DaemonSend(d) \/ DaemonDone(d)

DaemonCrash(d) ==
    /\ daemon[d].pc # "down"
    /\ crashes < MaxCrashes
    /\ crashes' = crashes + 1
    /\ daemon' = [daemon EXCEPT ![d] = Idle("down")]
    /\ UNCHANGED <<agentVars, app, runs, sizes, snap, resets, copyFailures>>

(* KeepAlive in com.qemu.it-agent.plist; also how the daemon starts after  *)
(* a reset.                                                                *)
DaemonStart(d) ==
    /\ daemon[d].pc = "down"
    /\ daemon' = [daemon EXCEPT ![d] = Idle("hello")]
    /\ UNCHANGED <<agentVars, app, runs, sizes, snap, boundVars>>

-----------------------------------------------------------------------------
(* An application process: it_typein's 50 ms timer.  It acts only while it *)
(* is in the foreground, which is for the user to decide.                  *)

AppPoll(p) ==
    /\ app[p].pc = "poll"
    /\ \E r \in 1..cookies :
          /\ UiPoll(p, r)
          /\ app' = [app EXCEPT ![p] = [Idle("read") EXCEPT !.key = r]]
    /\ UNCHANGED <<daemon, runs, sizes, snap, boundVars>>

(* A failed read is still answered, with -EIO; so is a request read whole  *)
(* when the process has lost the foreground (-EAGAIN).                     *)
AppRead(p) ==
    /\ app[p].pc = "read"
    /\ \E r \in {-1} \cup Subs :
          /\ ReadWindow(UiMay(app[p].key), r)
          /\ CountCopyFailure(UiMay(app[p].key), r)
          /\ copyFailures' <= MaxCopyFailures
          /\ app' = [app EXCEPT ![p] = AfterRead(app[p], r, r)]
    /\ UNCHANGED <<daemon, runs, sizes, snap, crashes, resets>>

(* Typing changes the guest and answers with nothing; a dump of the views  *)
(* only reads, and may be made again after a failed answer.                *)
AppAct(p) ==
    /\ app[p].pc = "dispatch"
    /\ \/ /\ runs' = [runs EXCEPT ![app[p].req] = @ + 1]
          /\ sizes' = [sizes EXCEPT ![app[p].req] = 0]
          /\ app' = [app EXCEPT ![p].pc = "send"]
       \/ \E k \in 0..RESPONSE_MAX :
             /\ sizes' = [sizes EXCEPT ![app[p].req] = k]
             /\ app' = [app EXCEPT ![p].pc = "send", ![p].out = k]
             /\ UNCHANGED runs
       \/ /\ app' = [app EXCEPT ![p].pc = "send", ![p].st = "eio"]
          /\ UNCHANGED <<runs, sizes>>
    /\ UNCHANGED <<agentVars, daemon, snap, boundVars>>

(* finish: a window the host refuses ends it; the next tick polls again.   *)
AppSend(p) ==
    /\ app[p].pc = "send"
    /\ \E r \in {0, -1} :
          /\ SendWindow(UiMay(app[p].key), app[p], r)
          /\ CountCopyFailure(UiMay(app[p].key), r)
          /\ copyFailures' <= MaxCopyFailures
          /\ app' = [app EXCEPT ![p] = IF r = -1 THEN Idle("poll") ELSE AfterSend(@)]
    /\ UNCHANGED <<daemon, runs, sizes, snap, crashes, resets>>

AppDone(p) ==
    /\ app[p].pc = "finish"
    /\ \E r \in {0, -1} : Done(UiMay(app[p].key), app[p].st, r)
    /\ app' = [app EXCEPT ![p] = Idle("poll")]
    /\ UNCHANGED <<daemon, runs, sizes, snap, boundVars>>

AppStep(p) == AppPoll(p) \/ AppRead(p) \/ AppAct(p) \/ AppSend(p) \/ AppDone(p)

-----------------------------------------------------------------------------
(* The machine *)

NoGuest ==
    /\ daemon' = [d \in Daemons |-> Idle("down")]
    /\ app' = [p \in Pids |-> Idle("poll")]

MachineReset ==
    /\ resets < MaxResets
    /\ resets' = resets + 1
    /\ Reset
    /\ NoGuest
    /\ UNCHANGED <<runs, sizes, snap, crashes, copyFailures>>

(* What the guest did is part of what a snapshot holds: a command run      *)
(* after it was taken has not been run once it is loaded.                  *)
SaveSnapshot ==
    /\ ~snap.taken /\ MaxResets > 0
    /\ snap' = [taken |-> TRUE, daemon |-> daemon, app |-> app, runs |-> runs, sizes |-> sizes]
    /\ UNCHANGED <<agentVars, guestVars, boundVars>>

LoadSnapshot ==
    /\ snap.taken /\ resets < MaxResets
    /\ resets' = resets + 1
    /\ Reset
    /\ daemon' = snap.daemon /\ app' = snap.app
    /\ runs' = snap.runs /\ sizes' = snap.sizes
    /\ UNCHANGED <<snap, crashes, copyFailures>>

FrontEnd ==
    /\ \/ \E id \in Ids : subs < MaxSubs /\ \E r \in {0, -1} : Submit(id, r)
       \/ \E id \in Ids : Cancel(id)
       \/ TakeResult
    /\ UNCHANGED <<guestVars, snap, boundVars>>

Clock == Tick /\ UNCHANGED <<guestVars, snap, boundVars>>

SystemNext ==
    \/ FrontEnd
    \/ \E d \in Daemons : DaemonStep(d) \/ DaemonCrash(d) \/ DaemonStart(d)
    \/ \E p \in Pids : AppStep(p)
    \/ MachineReset \/ SaveSnapshot \/ LoadSnapshot
    \/ Clock

SystemSpec == SystemInit /\ [][SystemNext]_vars

(* The daemon's loop runs, launchd restarts it, and time passes.  Nothing  *)
(* is assumed of the front end or of the application, which may never come *)
(* to the foreground.                                                      *)
FairSpec ==
    /\ SystemSpec
    /\ \A d \in Daemons : WF_vars(DaemonStep(d)) /\ WF_vars(DaemonStart(d))
    /\ WF_vars(Clock)

-----------------------------------------------------------------------------
(* A command is carried out at most once, by one daemon or one             *)
(* application, across crashes, lost leases, failed copies, timeouts,      *)
(* cancellations and snapshots (README of it-agent: "never automatic       *)
(* replay"; HELLO's abandoning, the revoked session and the cookie).       *)
AtMostOnce == \A n \in Subs : runs[n] <= 1

(* An answer taken as the guest's is the whole answer to that very         *)
(* request: every window, in order, all written for it.  Windows and DONE  *)
(* name no request, so this rests on the session token and the cookie      *)
(* being revoked whenever the head of the queue changes under its holder.  *)
AnswerIsWhole ==
    /\ SystemTypeOK
    /\ \A i \in DOMAIN done :
          done[i].status = "ok" =>
              done[i].response = [k \in 1..sizes[done[i].sub] |-> Window(done[i].sub, k)]

(* A request acted on was read whole: windows of two requests never mix,   *)
(* though the head can change between two reads.                           *)
NoTornRequest ==
    /\ \A d \in Daemons : daemon[d].pc \in {"dispatch", "child", "route"} =>
            daemon[d].shown = {daemon[d].req}
    /\ \A p \in Pids : app[p].pc = "dispatch" => app[p].shown = {app[p].req}

(* Every accepted request is eventually answered, cancelled or dropped by  *)
(* a reset: a lost daemon, a lost lease or an application that never       *)
(* answers only delays it.                                                 *)
Waiting(n) == \E i \in DOMAIN pending : pending[i].sub = n
EveryRequestEnds == \A n \in Subs : Waiting(n) ~> ~Waiting(n)
=============================================================================
