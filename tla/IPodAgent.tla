------------------------------ MODULE IPodAgent ------------------------------
(***************************************************************************)
(* The host side of the guest agent's request channel, hw/arm/ipod-agent.c.*)
(*                                                                         *)
(* A front end submits requests and takes results, on any thread.  Guest   *)
(* processes reach the same object through ipod_agent_call: a root daemon  *)
(* that says HELLO, gets a session token, and polls, reads, answers; and   *)
(* application processes that answer the requests the daemon routes to     *)
(* them, identified by a cookie.  Every operation runs under a->lock, so   *)
(* each is one action here.                                                *)
(*                                                                         *)
(* An operation a guest calls takes the value the call returns as its last *)
(* parameter, r: the action is enabled for exactly the r the code returns. *)
(* Next lets guest processes make any call, with any token or cookie ever  *)
(* issued, in any order; AgentSystem restricts them to what contrib's      *)
(* daemon and application client really do.                                *)
(*                                                                         *)
(* Time is kept as ages: lease is now_ms - last_poll and uiAge is the time *)
(* since the item was routed, both saturating just past the bound the code *)
(* compares them with.  A token or cookie is drawn from 63 random bits; it *)
(* is modelled as one never issued before.                                 *)
(***************************************************************************)
EXTENDS Integers, Sequences

CONSTANTS
    Ids,          \* request ids front ends use
    Pids,         \* guest processes a request can be routed to
    Chunks,       \* response windows' contents
    QUEUE_MAX,    \* IT_AGENT_QUEUE_MAX
    LEASE,        \* IT_AGENT_LEASE_MS, in ticks
    UI_LIMIT,     \* the 5000 ms a routed request has, in ticks
    RESPONSE_MAX  \* IT_AGENT_RESPONSE_MAX, in windows

ASSUME AgentConstants ==
    /\ QUEUE_MAX \in Nat \ {0}
    /\ LEASE \in Nat
    /\ UI_LIMIT \in Nat \ {0}
    /\ RESPONSE_MAX \in Nat

VARIABLES
    pending,   \* a->pending: items not answered yet, the head is being served
    done,      \* a->done: answered items no front end has taken yet
    token,     \* a->token
    claimed,   \* a->claimed
    lease,     \* now_ms - a->last_poll, saturating at LEASE + 1
    hellos,    \* tokens issued so far: the next one is hellos + 1
    cookies,   \* cookies issued so far (a->ui_sequence)
    subs       \* requests accepted so far; numbers the items

agentVars == <<pending, done, token, claimed, lease, hellos, cookies, subs>>

(* The outcomes an answered item carries.  "ok" stands for every status    *)
(* word a guest passes to DONE; the host makes the other two itself.       *)
ECONNRESET == "connreset"
ETIMEDOUT == "timedout"
Statuses == {"none", "ok", "eio", ECONNRESET, ETIMEDOUT}
NoPid == "nopid"

(* A response never outgrows IT_AGENT_RESPONSE_MAX.                        *)
Responses == {s \in Seq(Chunks) : Len(s) <= RESPONSE_MAX}

Item ==
    [id: Ids, sub: Nat \ {0}, dispatched: BOOLEAN, uiPid: Pids \cup {NoPid},
     uiCookie: Nat, uiAge: 0..UI_LIMIT, response: Responses, status: Statuses]

NewItem(id) ==
    [id |-> id, sub |-> subs + 1, dispatched |-> FALSE, uiPid |-> NoPid,
     uiCookie |-> 0, uiAge |-> 0, response |-> << >>, status |-> "none"]

TypeOK ==
    /\ pending \in Seq(Item)
    /\ done \in Seq(Item)
    /\ token \in Nat
    /\ claimed \in BOOLEAN
    /\ lease \in 0..(LEASE + 1)
    /\ hellos \in Nat
    /\ cookies \in Nat
    /\ subs \in Nat

Init ==
    /\ pending = << >>
    /\ done = << >>
    /\ token = 0
    /\ claimed = FALSE
    /\ lease = 0
    /\ hellos = 0
    /\ cookies = 0
    /\ subs = 0

-----------------------------------------------------------------------------
(* The front end *)

IdInUse(id) ==
    \/ \E i \in DOMAIN pending : pending[i].id = id
    \/ \E i \in DOMAIN done : done[i].id = id

(* Mutant: answered requests are not counted.                              *)
MayQueueIgnoresDone(id) ==
    Len(pending) < QUEUE_MAX /\ \A i \in DOMAIN pending : pending[i].id # id

MayQueue(id) == Len(pending) + Len(done) < QUEUE_MAX /\ ~IdInUse(id)

(* A malformed or oversized request is refused before the lock is taken    *)
(* and changes nothing, like the refusal below.                            *)
Submit(id, r) ==
    \/ /\ MayQueue(id)
       /\ r = 0
       /\ pending' = Append(pending, NewItem(id))
       /\ subs' = subs + 1
       /\ UNCHANGED <<done, token, claimed, lease, hellos, cookies>>
    \/ /\ ~MayQueue(id)
       /\ r = -1
       /\ UNCHANGED agentVars

(* g_queue_delete_link: the i-th item of a queue is taken out.             *)
DeleteLink(q, i) == SubSeq(q, 1, i - 1) \o SubSeq(q, i + 1, Len(q))

(* Mutant: the daemon keeps its session.                                   *)
CancelKeepsSession(i) ==
    /\ i \in DOMAIN pending
    /\ pending' = DeleteLink(pending, i)
    /\ UNCHANGED <<done, token, claimed, lease, hellos, cookies, subs>>

(* Cancelling the request the daemon holds ends the daemon's session too.  *)
CancelPending(i) ==
    /\ i \in DOMAIN pending
    /\ pending' = DeleteLink(pending, i)
    /\ claimed' = (claimed /\ ~pending[i].dispatched)
    /\ token' = IF pending[i].dispatched THEN 0 ELSE token
    /\ UNCHANGED <<done, lease, hellos, cookies, subs>>

CancelDone(i) ==
    /\ i \in DOMAIN done
    /\ done' = DeleteLink(done, i)
    /\ UNCHANGED <<pending, token, claimed, lease, hellos, cookies, subs>>

(* The code walks pending, then done, and drops the first match.           *)
Cancel(id) ==
    \/ \E i \in DOMAIN pending :
          /\ pending[i].id = id
          /\ \A j \in 1..(i - 1) : pending[j].id # id
          /\ CancelPending(i)
    \/ /\ \A i \in DOMAIN pending : pending[i].id # id
       /\ \E i \in DOMAIN done :
             /\ done[i].id = id
             /\ \A j \in 1..(i - 1) : done[j].id # id
             /\ CancelDone(i)

TakeResult ==
    /\ done # << >>
    /\ done' = Tail(done)
    /\ UNCHANGED <<pending, token, claimed, lease, hellos, cookies, subs>>

(* Mutant: the session survives.                                           *)
ResetKeepsSession ==
    /\ pending' = << >>
    /\ done' = << >>
    /\ UNCHANGED <<token, claimed, lease, hellos, cookies, subs>>

(* Mutant: what is queued survives.                                        *)
ResetKeepsQueue ==
    /\ done' = << >>
    /\ token' = 0
    /\ claimed' = FALSE
    /\ UNCHANGED <<pending, lease, hellos, cookies, subs>>

(* ipod_agent_reset, called from the machine's reset.                      *)
Reset ==
    /\ pending' = << >>
    /\ done' = << >>
    /\ token' = 0
    /\ claimed' = FALSE
    /\ UNCHANGED <<lease, hellos, cookies, subs>>

(* ipod_agent_status: what the app shows.                                  *)
Status ==
    IF ~claimed THEN "absent" ELSE IF lease > LEASE THEN "stale" ELSE "alive"

-----------------------------------------------------------------------------
(* The guest's calls *)

Serving == pending # << >>
Routed == Serving /\ Head(pending).uiCookie # 0
Expired == Routed /\ Head(pending).uiAge >= UI_LIMIT

(* Mutant: results are pushed on the wrong end.                            *)
RetireAtHead(q, d, s, resp) ==
    /\ pending' = Tail(q)
    /\ done' = <<[Head(q) EXCEPT !.status = s, !.response = resp]>> \o d

(* The head moves to done with the outcome s and the response resp.        *)
Retire(q, d, s, resp) ==
    /\ pending' = Tail(q)
    /\ done' = Append(d, [Head(q) EXCEPT !.status = s, !.response = resp])

(* Mutant: a session ends only when it is given up.                        *)
HelloNeverTakesOver == ~claimed

HelloTakes == ~claimed \/ lease > LEASE

(* Mutant: the held request stays at the head, marked.                     *)
AbandonNothing == UNCHANGED <<pending, done>>

(* Mutant: the held request goes back to the queue.                        *)
AbandonRequeues ==
    /\ pending' = [i \in DOMAIN pending |-> [pending[i] EXCEPT !.dispatched = FALSE]]
    /\ UNCHANGED done

(* A command a lost daemon may have executed is never handed out again.    *)
AbandonLost ==
    \/ /\ claimed /\ Serving /\ Head(pending).dispatched
       /\ Retire(pending, done, ECONNRESET, << >>)
    \/ /\ ~(claimed /\ Serving /\ Head(pending).dispatched)
       /\ UNCHANGED <<pending, done>>

Hello(r) ==
    \/ /\ HelloTakes
       /\ AbandonLost
       /\ token' = hellos + 1
       /\ hellos' = hellos + 1
       /\ claimed' = TRUE
       /\ lease' = 0
       /\ r = hellos + 1
       /\ UNCHANGED <<cookies, subs>>
    \/ /\ ~HelloTakes
       /\ r = 0
       /\ UNCHANGED agentVars

MarkDispatched(q) ==
    IF q = << >> THEN q ELSE [q EXCEPT ![1].dispatched = TRUE]

(* What POLL answers: the request it hands out, 0 when there is none the   *)
(* daemon should read.                                                     *)
PollAnswer(q) ==
    IF q # << >> /\ Head(q).uiCookie = 0 THEN Head(q).sub ELSE 0

OwnsSession(tok) == claimed /\ tok = token

Poll(tok, r) ==
    \/ /\ ~OwnsSession(tok)
       /\ r = -1
       /\ UNCHANGED agentVars
    \/ /\ OwnsSession(tok)
       /\ Expired
       /\ lease' = 0
       /\ pending' = MarkDispatched(Tail(pending))
       /\ done' = Append(done, [Head(pending) EXCEPT !.status = ETIMEDOUT, !.response = << >>])
       /\ r = PollAnswer(Tail(pending))
       /\ UNCHANGED <<token, claimed, hellos, cookies, subs>>
    \/ /\ OwnsSession(tok)
       /\ ~Expired
       /\ lease' = 0
       /\ pending' = MarkDispatched(pending)
       /\ r = PollAnswer(pending)
       /\ UNCHANGED <<done, token, claimed, hellos, cookies, subs>>

(* Who may use the window operations on the head: the session, unless the  *)
(* head is routed; the process that knows its cookie, until the deadline.  *)
RootMay(tok) == OwnsSession(tok) /\ ~Routed
UiMay(ck) == Routed /\ ~Expired /\ ck = Head(pending).uiCookie

(* A window of the request.  r is the number of the request it shows.      *)
ReadWindow(may, r) ==
    /\ \/ may /\ Serving /\ r = Head(pending).sub
       \/ r = -1                        \* refused, or the guest copy failed
    /\ UNCHANGED agentVars

(* Mutant: the offset alone is held to the limit, not the window's end.    *)
MayWriteOneMore(off) ==
    /\ Serving
    /\ off <= RESPONSE_MAX
    /\ off = 0 \/ off = Len(Head(pending).response)

MayWrite(off) ==
    /\ Serving
    /\ off <= RESPONSE_MAX - 1
    /\ off = 0 \/ off = Len(Head(pending).response)

(* A window of the response; offset 0 starts it over.  A failed copy       *)
(* leaves what was staged.                                                 *)
WriteWindow(may, off, c, r) ==
    \/ /\ may /\ MayWrite(off)
       /\ pending' = [pending EXCEPT ![1].response =
                          IF off = 0 THEN <<c>> ELSE Append(@, c)]
       /\ r = 0
       /\ UNCHANGED <<done, token, claimed, lease, hellos, cookies, subs>>
    \/ /\ r = -1
       /\ UNCHANGED agentVars

(* The zero-length window at offset 0 an empty response is sent as.        *)
WriteEmpty(may, r) ==
    \/ /\ may /\ Serving
       /\ pending' = [pending EXCEPT ![1].response = << >>]
       /\ r = 0
       /\ UNCHANGED <<done, token, claimed, lease, hellos, cookies, subs>>
    \/ /\ ~(may /\ Serving)
       /\ r = -1
       /\ UNCHANGED agentVars

Done(may, s, r) ==
    \/ /\ may /\ Serving
       /\ Retire(pending, done, s, Head(pending).response)
       /\ r = 0
       /\ UNCHANGED <<token, claimed, lease, hellos, cookies, subs>>
    \/ /\ ~(may /\ Serving)
       /\ r = -1
       /\ UNCHANGED agentVars

(* Mutant: ui_sequence is not advanced.                                    *)
UiRouteSameCookie(tok, pid, r) ==
    \/ /\ RootMay(tok) /\ Serving
       /\ pending' = [pending EXCEPT ![1] =
                          [@ EXCEPT !.uiPid = pid, !.uiCookie = 1, !.uiAge = 0]]
       /\ cookies' = 1
       /\ r = 0
       /\ UNCHANGED <<done, token, claimed, lease, hellos, subs>>
    \/ /\ ~(RootMay(tok) /\ Serving)
       /\ r = -1
       /\ UNCHANGED agentVars

(* The daemon hands the head to an application process.  Process 1 is      *)
(* never a target.                                                         *)
UiRoute(tok, pid, r) ==
    \/ /\ RootMay(tok) /\ Serving
       /\ pending' = [pending EXCEPT ![1] =
                          [@ EXCEPT !.uiPid = pid, !.uiCookie = cookies + 1, !.uiAge = 0]]
       /\ cookies' = cookies + 1
       /\ r = 0
       /\ UNCHANGED <<done, token, claimed, lease, hellos, subs>>
    \/ /\ ~(RootMay(tok) /\ Serving)
       /\ r = -1
       /\ UNCHANGED agentVars

UiPoll(pid, r) ==
    /\ r = IF Routed /\ ~Expired /\ Head(pending).uiPid = pid
           THEN Head(pending).uiCookie ELSE 0
    /\ UNCHANGED agentVars

-----------------------------------------------------------------------------
(* The clock: both ages grow together.                                     *)
AgeOf(item) ==
    IF item.uiCookie # 0 /\ item.uiAge < UI_LIMIT
    THEN [item EXCEPT !.uiAge = @ + 1] ELSE item

Tick ==
    /\ lease' = IF lease <= LEASE THEN lease + 1 ELSE lease
    /\ pending' = [i \in DOMAIN pending |-> AgeOf(pending[i])]
    /\ UNCHANGED <<done, token, claimed, hellos, cookies, subs>>

Next ==
    \/ \E id \in Ids : \E r \in {0, -1} : Submit(id, r)
    \/ \E id \in Ids : Cancel(id)
    \/ TakeResult
    \/ Reset
    \/ \E r \in {0, hellos + 1} : Hello(r)
    \/ \E tok \in 1..hellos :
          \/ \E r \in -1..subs : Poll(tok, r)
          \/ \E off \in 0..RESPONSE_MAX, c \in Chunks, r \in {0, -1} :
                WriteWindow(RootMay(tok), off, c, r)
          \/ \E r \in {0, -1} : WriteEmpty(RootMay(tok), r)
          \/ \E s \in {"ok", "eio"}, r \in {0, -1} : Done(RootMay(tok), s, r)
          \/ \E pid \in Pids, r \in {0, -1} : UiRoute(tok, pid, r)
    \/ \E ck \in 1..cookies :
          \/ \E off \in 0..RESPONSE_MAX, c \in Chunks, r \in {0, -1} :
                WriteWindow(UiMay(ck), off, c, r)
          \/ \E r \in {0, -1} : WriteEmpty(UiMay(ck), r)
          \/ \E s \in {"ok", "eio"}, r \in {0, -1} : Done(UiMay(ck), s, r)
    \/ Tick

Spec == Init /\ [][Next]_agentVars

-----------------------------------------------------------------------------
(* Only the head is ever held by a daemon, and only while a session is     *)
(* open (ipod_agent_call's dispatched flag, set by POLL): this is what     *)
(* lets HELLO and cancel find a held request by looking at one item.       *)
HeldIsHead ==
    \A i \in DOMAIN pending : pending[i].dispatched => i = 1 /\ claimed

(* "A lost daemon may have executed a command. Never replay it": when a    *)
(* new session opens, no request an earlier session was handed is left to  *)
(* be handed out (HELLO's abandoning of the held item, cancel's closing of *)
(* the session, reset's clearing of the queue).                            *)
NewSessionStartsClean ==
    claimed' /\ token' # token => \A i \in DOMAIN pending' : ~pending'[i].dispatched

NeverReplayed == [][NewSessionStartsClean]_agentVars

(* Requests are answered in the order they were submitted, and none is     *)
(* both answered and still waiting, whatever mix of answers, timeouts,     *)
(* lost sessions and cancellations moves items between the two queues.     *)
Items == done \o pending
AnsweredInOrder ==
    /\ \A i, j \in DOMAIN Items : i < j => Items[i].sub < Items[j].sub
    /\ \A i \in DOMAIN Items : Items[i].sub <= subs

(* The two queues together hold at most QUEUE_MAX items with distinct ids: *)
(* submit checks both under the lock, and nothing else adds an item.       *)
QueuesSound ==
    /\ Len(Items) <= QUEUE_MAX
    /\ \A i, j \in DOMAIN Items : i # j => Items[i].id # Items[j].id

(* Only the request being served waits on a cookie, and no two requests    *)
(* ever carried the same one, so a process that answers late cannot reach  *)
(* another request (the cookie check of the QC_UI_* calls).                *)
CookiesDistinct ==
    \A i \in DOMAIN Items :
        Items[i].uiCookie # 0 =>
            /\ i <= Len(done) + 1
            /\ Items[i].uiCookie <= cookies
            /\ \A j \in DOMAIN Items : i # j => Items[i].uiCookie # Items[j].uiCookie

-----------------------------------------------------------------------------
(* The channel implements AgentRpc: a request is queued until POLL marks   *)
(* it, held until it moves to done, answered until it is taken.            *)
PhaseOf(n) ==
    IF \E i \in DOMAIN pending : pending[i].sub = n /\ ~pending[i].dispatched THEN "queued"
    ELSE IF \E i \in DOMAIN pending : pending[i].sub = n THEN "held"
    ELSE IF \E i \in DOMAIN done : done[i].sub = n THEN "answered"
    ELSE "gone"

Phases == [n \in 1..subs |-> PhaseOf(n)]

Rpc == INSTANCE AgentRpc WITH phase <- Phases

(* The queues behave as a request channel that hands out each request at   *)
(* most once and answers in order (all of ipod-agent.c's entry points).    *)
ImplementsRpc == Rpc!Spec
=============================================================================
