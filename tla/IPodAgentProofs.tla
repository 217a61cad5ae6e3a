-------------------------- MODULE IPodAgentProofs ---------------------------
(***************************************************************************)
(* Theorems about IPodAgent, for any sets of ids, processes and windows,   *)
(* any queue size, lease and deadline, and any guest: the channel answers  *)
(* in order and implements AgentRpc, its two queues together stay within   *)
(* their limit and hold no id twice, no two requests carry one cookie; and *)
(* what each of its operations does to the head, for AgentGuestProofs.     *)
(***************************************************************************)
EXTENDS IPodAgent, TLAPS

(* What a sequence is.                                                     *)
LEMMA SeqIs ==
    ASSUME NEW S, NEW s \in Seq(S)
    PROVE  /\ Len(s) \in Nat /\ DOMAIN s = 1..Len(s) /\ s \in [1..Len(s) -> S]
           /\ \A i \in 1..Len(s) : s[i] \in S
OBVIOUS

(* The empty sequence is one of any elements.                              *)
LEMMA EmptyIs ==
    ASSUME NEW S
    PROVE  /\ << >> \in Seq(S) /\ Len(<< >>) = 0
           /\ \A s \in Seq(S) : s # << >> => Len(s) \in Nat \ {0}
OBVIOUS

(* Sequences with the same elements in the same places are one.            *)
LEMMA SeqSame ==
    ASSUME NEW S, NEW s \in Seq(S), NEW t \in Seq(S), Len(t) = Len(s), \A i \in 1..Len(s) : t[i] = s[i]
    PROVE  s = t
OBVIOUS

(* One more element at the end.                                            *)
LEMMA AppendIs ==
    ASSUME NEW S, NEW s \in Seq(S), NEW x \in S
    PROVE  /\ Append(s, x) \in Seq(S) /\ Append(s, x) # << >> /\ Len(Append(s, x)) = Len(s) + 1
           /\ Append(s, x)[Len(s) + 1] = x
           /\ \A i \in 1..Len(s) : Append(s, x)[i] = s[i]
OBVIOUS

(* The first element, and the rest.                                        *)
LEMMA HeadTailIs ==
    ASSUME NEW S, NEW s \in Seq(S), s # << >>
    PROVE  /\ Head(s) \in S /\ Tail(s) \in Seq(S) /\ Len(Tail(s)) = Len(s) - 1
           /\ \A i \in 1..Len(Tail(s)) : Tail(s)[i] = s[i + 1]
OBVIOUS

(* Two sequences one after the other.                                      *)
LEMMA ConcatIs ==
    ASSUME NEW S, NEW s \in Seq(S), NEW t \in Seq(S)
    PROVE  /\ s \o t \in Seq(S) /\ Len(s \o t) = Len(s) + Len(t)
           /\ \A i \in 1..(Len(s) + Len(t)) : (s \o t)[i] = IF i <= Len(s) THEN s[i] ELSE t[i - Len(s)]
OBVIOUS

(* One element replaced.                                                   *)
LEMMA ExceptIs ==
    ASSUME NEW S, NEW s \in Seq(S), NEW k \in 1..Len(s), NEW x \in S
    PROVE  /\ [s EXCEPT ![k] = x] \in Seq(S) /\ Len([s EXCEPT ![k] = x]) = Len(s)
           /\ \A i \in 1..Len(s) : [s EXCEPT ![k] = x][i] = IF i = k THEN x ELSE s[i]
OBVIOUS

(* Removing the i-th element shifts the later ones down by one.            *)
LEMMA DeleteLinkProperties ==
    ASSUME NEW S, NEW s \in Seq(S), NEW i \in 1..Len(s)
    PROVE  /\ DeleteLink(s, i) \in Seq(S)
           /\ Len(DeleteLink(s, i)) = Len(s) - 1
           /\ \A k \in 1..(Len(s) - 1) :
                 DeleteLink(s, i)[k] = IF k < i THEN s[k] ELSE s[k + 1]
<1> DEFINE a == SubSeq(s, 1, i - 1)
           b == SubSeq(s, i + 1, Len(s))
<1>1. a \in Seq(S) /\ Len(a) = i - 1 /\ \A k \in 1..(i - 1) : a[k] = s[k]
  OBVIOUS
<1>2. b \in Seq(S) /\ Len(b) = Len(s) - i /\ \A k \in 1..(Len(s) - i) : b[k] = s[k + i]
  <2>1. \A k \in 1..(Len(s) - i) : i + 1 + k - 1 = k + i /\ k + i \in 1..Len(s)
    OBVIOUS
  <2>2. b \in Seq(S) /\ Len(b) = Len(s) - i
    OBVIOUS
  <2>3. \A k \in 1..(Len(s) - i) : b[k] = s[i + 1 + k - 1]
    OBVIOUS
  <2>4. QED
    BY <2>1, <2>2, <2>3
<1>3. a \o b \in Seq(S) /\ Len(a \o b) = Len(a) + Len(b)
      /\ \A k \in 1..(Len(a) + Len(b)) : (a \o b)[k] = IF k <= Len(a) THEN a[k] ELSE b[k - Len(a)]
  <2> HIDE DEF a, b
  <2>1. a \in Seq(S) /\ b \in Seq(S)
    BY <1>1, <1>2
  <2>2. QED
    BY <2>1, ConcatIs
<1>4. DeleteLink(s, i) = a \o b
  BY DEF DeleteLink
<1> HIDE DEF a, b
<1>5. Len(s) \in Nat /\ Len(a) + Len(b) = Len(s) - 1
  BY <1>1, <1>2
<1>6. ASSUME NEW k \in 1..(Len(s) - 1)
      PROVE  (a \o b)[k] = IF k < i THEN s[k] ELSE s[k + 1]
  <2>1. CASE k < i
    BY <2>1, <1>1, <1>3, <1>5
  <2>2. CASE ~(k < i)
    <3>1. k - (i - 1) \in 1..(Len(s) - i) /\ (k - (i - 1)) + i = k + 1
      BY <2>2, <1>5
    <3>2. (a \o b)[k] = b[k - (i - 1)]
      BY <2>2, <1>1, <1>3, <1>5
    <3>3. QED
      BY <2>2, <3>1, <3>2, <1>2
  <2>3. QED
    BY <2>1, <2>2, Zenon
<1>7. QED
  BY <1>3, <1>4, <1>5, <1>6

-----------------------------------------------------------------------------
(* The inductive invariant: the types, and a held request is the head of   *)
(* pending under an open session.                                          *)
Inv == TypeOK /\ HeldIsHead

(* The empty sequence is a sequence over any set and has no element.       *)
LEMMA EmptyProperties ==
    ASSUME NEW S
    PROVE  << >> \in Seq(S) /\ Len(<< >>) = 0 /\ DOMAIN << >> = {}
<1>1. << >> \in Seq(S) /\ Len(<< >>) = 0
  BY EmptyIs
<1>2. DOMAIN << >> = 1..Len(<< >>)
  BY <1>1, SeqIs
<1>3. QED
  BY <1>1, <1>2

(* A nonempty sequence has a first element, its head.                      *)
LEMMA FirstProperties ==
    ASSUME NEW S, NEW s \in Seq(S), s # << >>
    PROVE  /\ Len(s) \in Nat \ {0} /\ DOMAIN s = 1..Len(s) /\ 1 \in DOMAIN s
           /\ s[1] \in S /\ Head(s) = s[1]
<1>1. Len(s) \in Nat \ {0}
  BY EmptyIs
<1>2. QED
  BY <1>1, SeqIs

(* The windows a write may leave staged: none, one, or one more while      *)
(* there is room.                                                          *)
LEMMA ResponseProperties ==
    /\ << >> \in Responses
    /\ \A c \in Chunks : 0 <= RESPONSE_MAX - 1 => <<c>> \in Responses
    /\ \A s \in Responses, c \in Chunks : Len(s) <= RESPONSE_MAX - 1 => Append(s, c) \in Responses
<1> USE AgentConstants
<1>1. << >> \in Responses
  BY EmptyProperties DEF Responses
<1>2. ASSUME NEW c \in Chunks, 0 <= RESPONSE_MAX - 1 PROVE <<c>> \in Responses
  BY <1>2 DEF Responses
<1>3. ASSUME NEW s \in Responses, NEW c \in Chunks, Len(s) <= RESPONSE_MAX - 1
      PROVE  Append(s, c) \in Responses
  BY <1>3, AppendIs DEF Responses
<1>4. QED
  BY <1>1, <1>2, <1>3

(* A new channel has empty queues and no session.                          *)
LEMMA InitInv == Init => Inv
<1> SUFFICES ASSUME Init PROVE Inv
  OBVIOUS
<1>1. pending \in Seq(Item) /\ done \in Seq(Item) /\ DOMAIN pending = {}
  BY EmptyProperties DEF Init
<1>2. claimed \in BOOLEAN
  BY Zenon DEF Init
<1>3. TypeOK
  <2>1. 0 \in Nat /\ 0 \in 0..(LEASE + 1)
    BY AgentConstants
  <2>2. QED
    BY <1>1, <1>2, <2>1 DEF Init, TypeOK
<1>4. HeldIsHead
  BY <1>1 DEF HeldIsHead
<1>5. QED
  BY <1>3, <1>4 DEF Inv

(* The item submit makes is held by nobody and routed nowhere.             *)
LEMMA NewItemType ==
    ASSUME TypeOK, NEW id \in Ids
    PROVE  NewItem(id) \in Item
BY AgentConstants, ResponseProperties DEF TypeOK, NewItem, Item, Statuses

(* Moving the head to done with outcome s and response resp.               *)
LEMMA RetireInv ==
    ASSUME Inv, Serving, NEW s \in Statuses, NEW resp \in Responses,
           Retire(pending, done, s, resp)
    PROVE  /\ pending' \in Seq(Item) /\ done' \in Seq(Item)
           /\ \A i \in DOMAIN pending' : ~pending'[i].dispatched
<1>1. Head(pending) \in Item /\ Tail(pending) \in Seq(Item)
      /\ Len(Tail(pending)) = Len(pending) - 1
      /\ \A i \in 1..(Len(pending) - 1) : Tail(pending)[i] = pending[i + 1]
  BY HeadTailIs DEF Inv, TypeOK, Serving
<1>2. [Head(pending) EXCEPT !.status = s, !.response = resp] \in Item
  BY <1>1 DEF Item
<1>3. \A i \in DOMAIN Tail(pending) : ~Tail(pending)[i].dispatched
  BY <1>1 DEF Inv, HeldIsHead, TypeOK
<1>4. QED
  BY <1>1, <1>2, <1>3 DEF Retire, Inv, TypeOK

(* A step that replaces the head by an item held or not as it was.         *)
LEMMA NewHeadInv ==
    ASSUME Inv, Serving, NEW h \in Item, h.dispatched = pending[1].dispatched,
           pending' = [pending EXCEPT ![1] = h], cookies' \in Nat,
           UNCHANGED <<done, token, claimed, lease, hellos, subs>>
    PROVE  Inv'
<1>1. pending \in Seq(Item) /\ 1 \in DOMAIN pending
  BY FirstProperties DEF Inv, TypeOK, Serving
<1>2. /\ pending' \in Seq(Item) /\ DOMAIN pending' = DOMAIN pending
      /\ \A i \in DOMAIN pending : pending'[i] = IF i = 1 THEN h ELSE pending[i]
  BY <1>1, ExceptIs, SeqIs
<1>3. ASSUME NEW i \in DOMAIN pending', pending'[i].dispatched PROVE i = 1 /\ claimed'
  <2>1. pending[i].dispatched /\ i \in DOMAIN pending
    <3>1. CASE i = 1
      BY <3>1, <1>2, <1>3
    <3>2. CASE i # 1
      BY <3>2, <1>2, <1>3
    <3>3. QED
      BY <3>1, <3>2
  <2>2. QED
    BY <2>1 DEF Inv, HeldIsHead
<1>4. QED
  BY <1>2, <1>3 DEF Inv, TypeOK, HeldIsHead

(* A step that only rewrites the head's response.                          *)
LEMMA HeadItemInv ==
    ASSUME Inv, Serving, NEW resp \in Responses,
           pending' = [pending EXCEPT ![1].response = resp],
           UNCHANGED <<done, token, claimed, lease, hellos, cookies, subs>>
    PROVE  Inv'
<1>1. pending \in Seq(Item) /\ pending[1] \in Item /\ 1 \in DOMAIN pending
  BY FirstProperties DEF Inv, TypeOK, Serving
<1> DEFINE h == [pending[1] EXCEPT !.response = resp]
<1>2. h \in Item /\ h.dispatched = pending[1].dispatched
  BY <1>1 DEF Item
<1>3. pending' = [pending EXCEPT ![1] = h]
  OBVIOUS
<1> HIDE DEF h
<1>4. QED
  <2>1. cookies' \in Nat
    BY DEF Inv, TypeOK
  <2>2. QED
    BY <2>1, <1>2, <1>3, NewHeadInv

(* Every operation keeps the invariant: one step per operation.            *)
LEMMA NextInv == Inv /\ [Next]_agentVars => Inv'
<1> SUFFICES ASSUME Inv, [Next]_agentVars PROVE Inv'
  OBVIOUS
<1> USE AgentConstants
<1>0. /\ pending \in Seq(Item) /\ done \in Seq(Item) /\ token \in Nat /\ claimed \in BOOLEAN
      /\ lease \in 0..(LEASE + 1) /\ hellos \in Nat /\ cookies \in Nat /\ subs \in Nat
      /\ \A i \in DOMAIN pending : pending[i].dispatched => i = 1 /\ claimed
  BY DEF Inv, TypeOK, HeldIsHead
<1>1. ASSUME NEW id \in Ids, NEW r \in {0, -1}, Submit(id, r) PROVE Inv'
  <2>1. CASE MayQueue(id)
    <3>1. NewItem(id) \in Item /\ ~NewItem(id).dispatched
      BY NewItemType DEF Inv, NewItem
    <3>2. pending' = Append(pending, NewItem(id)) /\ subs' = subs + 1
          /\ UNCHANGED <<done, token, claimed, lease, hellos, cookies>>
      BY <1>1, <2>1 DEF Submit
    <3>3. QED
      BY <1>0, <3>1, <3>2, AppendIs DEF Inv, TypeOK, HeldIsHead
  <2>2. CASE UNCHANGED agentVars
    BY <2>2 DEF Inv, TypeOK, HeldIsHead, agentVars
  <2>3. QED
    BY <1>1, <2>1, <2>2 DEF Submit
<1>2. ASSUME NEW i \in DOMAIN pending, CancelPending(i) PROVE Inv'
  <2>1. i \in 1..Len(pending) /\ pending' = DeleteLink(pending, i)
    BY <1>0, <1>2 DEF CancelPending
  <2>2. pending' \in Seq(Item) /\ Len(pending') = Len(pending) - 1
        /\ \A k \in 1..(Len(pending) - 1) :
              pending'[k] = IF k < i THEN pending[k] ELSE pending[k + 1]
    BY <1>0, <2>1, DeleteLinkProperties
  <2>3. claimed' \in BOOLEAN /\ token' \in Nat
    BY <1>0, <1>2 DEF CancelPending
  <2>4. ASSUME NEW k \in DOMAIN pending', pending'[k].dispatched PROVE k = 1 /\ claimed'
    <3>1. k \in 1..(Len(pending) - 1) /\ Len(pending) \in Nat
      BY <1>0, <2>2
    <3>2. CASE k < i
      <4>1. pending[k].dispatched /\ k \in DOMAIN pending
        BY <1>0, <2>2, <2>4, <3>1, <3>2
      <4>2. k = 1 /\ claimed /\ i # 1
        BY <1>0, <4>1, <3>2, <2>1
      <4>3. ~pending[i].dispatched
        BY <1>0, <4>2
      <4>4. QED
        BY <4>2, <4>3, <1>2, <1>0 DEF CancelPending
    <3>3. CASE ~(k < i)
      <4>1. pending[k + 1].dispatched /\ k + 1 \in DOMAIN pending
        BY <1>0, <2>2, <2>4, <3>1, <3>3
      <4>2. k + 1 = 1
        BY <1>0, <4>1
      <4>3. QED
        BY <4>2, <3>1
    <3>4. QED
      BY <3>2, <3>3
  <2>5. UNCHANGED <<done, lease, hellos, cookies, subs>>
    BY <1>2 DEF CancelPending
  <2>6. QED
    BY <1>0, <2>2, <2>3, <2>4, <2>5 DEF Inv, TypeOK, HeldIsHead
<1>3. ASSUME NEW i \in DOMAIN done, CancelDone(i) PROVE Inv'
  <2>1. done' \in Seq(Item)
    BY <1>0, <1>3, DeleteLinkProperties DEF CancelDone
  <2>2. QED
    BY <1>0, <2>1, <1>3 DEF CancelDone, Inv, TypeOK, HeldIsHead
<1>4. CASE TakeResult
  BY <1>0, <1>4, HeadTailIs DEF TakeResult, Inv, TypeOK, HeldIsHead
<1>5. CASE Reset
  BY <1>0, <1>5, EmptyProperties DEF Reset, Inv, TypeOK, HeldIsHead
<1>6. ASSUME NEW r \in {0, hellos + 1}, Hello(r) PROVE Inv'
  <2>1. CASE HelloTakes /\ Serving /\ claimed /\ Head(pending).dispatched
    <3>1. Retire(pending, done, ECONNRESET, << >>)
      BY <1>6, <2>1 DEF Hello, AbandonLost
    <3>2. /\ pending' \in Seq(Item) /\ done' \in Seq(Item)
          /\ \A i \in DOMAIN pending' : ~pending'[i].dispatched
      <4>1. ECONNRESET \in Statuses /\ << >> \in Responses
        BY ResponseProperties DEF Statuses
      <4>2. QED
        BY <4>1, <2>1, <3>1, RetireInv
    <3>3. QED
      BY <1>0, <1>6, <2>1, <3>2 DEF Hello, Inv, TypeOK, HeldIsHead
  <2>2. CASE HelloTakes /\ ~(Serving /\ claimed /\ Head(pending).dispatched)
    BY <1>0, <1>6, <2>2 DEF Hello, AbandonLost, Inv, TypeOK, HeldIsHead
  <2>3. CASE ~HelloTakes
    BY <1>0, <1>6, <2>3 DEF Hello, agentVars, Inv, TypeOK, HeldIsHead
  <2>4. QED
    BY <2>1, <2>2, <2>3
<1>7. ASSUME NEW tok, NEW r, Poll(tok, r) PROVE Inv'
  <2>1. ASSUME NEW q \in Seq(Item), \A i \in DOMAIN q : q[i].dispatched => i = 1
        PROVE  /\ MarkDispatched(q) \in Seq(Item)
               /\ \A i \in DOMAIN MarkDispatched(q) : MarkDispatched(q)[i].dispatched => i = 1
    <3>1. CASE q = << >>
      BY <2>1, <3>1 DEF MarkDispatched
    <3>2. CASE q # << >>
      <4>1. q[1] \in Item /\ 1 \in DOMAIN q
        BY <3>2, FirstProperties
      <4> DEFINE h == [q[1] EXCEPT !.dispatched = TRUE]
      <4>2. h \in Item /\ MarkDispatched(q) = [q EXCEPT ![1] = h]
        BY <4>1, <3>2, Zenon DEF Item, MarkDispatched
      <4> HIDE DEF h
      <4>3. /\ [q EXCEPT ![1] = h] \in Seq(Item) /\ DOMAIN [q EXCEPT ![1] = h] = DOMAIN q
            /\ \A i \in DOMAIN q : i # 1 => [q EXCEPT ![1] = h][i] = q[i]
        BY <4>1, <4>2, ExceptIs, SeqIs
      <4>4. QED
        BY <2>1, <4>2, <4>3
    <3>3. QED
      BY <3>1, <3>2
  <2>2. CASE ~OwnsSession(tok)
    BY <1>0, <1>7, <2>2 DEF Poll, agentVars, Inv, TypeOK, HeldIsHead
  <2>3. CASE OwnsSession(tok) /\ Expired
    <3>1. Serving /\ Retire(pending, done, ETIMEDOUT, << >>) = (pending' = Tail(pending) /\ done' = Append(done, [Head(pending) EXCEPT !.status = ETIMEDOUT, !.response = << >>]))
      BY <2>3, Zenon DEF Expired, Routed, Retire
    <3>2. Tail(pending) \in Seq(Item) /\ Len(Tail(pending)) = Len(pending) - 1 /\ Head(pending) \in Item
          /\ \A i \in 1..(Len(pending) - 1) : Tail(pending)[i] = pending[i + 1]
      BY <1>0, <3>1, HeadTailIs DEF Serving
    <3>3. \A i \in DOMAIN Tail(pending) : Tail(pending)[i].dispatched => i = 1
      <4>1. DOMAIN Tail(pending) = 1..(Len(pending) - 1) /\ Len(pending) \in Nat
            /\ DOMAIN pending = 1..Len(pending)
        BY <1>0, <3>2, SeqIs
      <4>2. ASSUME NEW i \in 1..(Len(pending) - 1) PROVE ~pending[i + 1].dispatched
        BY <1>0, <4>1
      <4>3. QED
        BY <3>2, <4>1, <4>2
    <3>4. [Head(pending) EXCEPT !.status = ETIMEDOUT, !.response = << >>] \in Item
      <4>1. ETIMEDOUT \in Statuses /\ << >> \in Responses
        BY ResponseProperties DEF Statuses
      <4>2. QED
        BY <4>1, <3>2, Zenon DEF Item
    <3>5. QED
      <4> DEFINE q == MarkDispatched(Tail(pending))
      <4>1. q \in Seq(Item) /\ \A i \in DOMAIN q : q[i].dispatched => i = 1
        BY <2>1, <3>2, <3>3
      <4> HIDE DEF q
      <4>2. /\ pending' = q /\ done' \in Seq(Item) /\ lease' = 0 /\ claimed' /\ claimed
            /\ UNCHANGED <<token, claimed, hellos, cookies, subs>>
        <5> DEFINE h == [Head(pending) EXCEPT !.status = ETIMEDOUT, !.response = << >>]
        <5>1. /\ pending' = q /\ done' = Append(done, h) /\ lease' = 0 /\ claimed' /\ claimed
              /\ UNCHANGED <<token, claimed, hellos, cookies, subs>>
          BY <1>7, <2>3 DEF Poll, OwnsSession, q
        <5>2. Append(done, h) \in Seq(Item)
          BY <1>0, <3>4, AppendIs
        <5>3. QED
          BY <5>1, <5>2
      <4>3. QED
        BY <1>0, <4>1, <4>2 DEF Inv, TypeOK, HeldIsHead
  <2>4. CASE OwnsSession(tok) /\ ~Expired
    <3> DEFINE q == MarkDispatched(pending)
    <3>1. q \in Seq(Item) /\ \A i \in DOMAIN q : q[i].dispatched => i = 1
      BY <1>0, <2>1
    <3> HIDE DEF q
    <3>2. /\ pending' = q /\ lease' = 0 /\ claimed' /\ claimed
          /\ UNCHANGED <<done, token, claimed, hellos, cookies, subs>>
      BY <1>7, <2>4 DEF Poll, OwnsSession, q
    <3>3. QED
      BY <1>0, <3>1, <3>2 DEF Inv, TypeOK, HeldIsHead
  <2>5. QED
    BY <2>2, <2>3, <2>4
<1>8. ASSUME NEW may, NEW off \in 0..RESPONSE_MAX, NEW c \in Chunks, NEW r, WriteWindow(may, off, c, r)
      PROVE Inv'
  <2>1. CASE UNCHANGED agentVars
    BY <2>1, <1>0 DEF agentVars, Inv, TypeOK, HeldIsHead
  <2>2. CASE Serving /\ MayWrite(off) /\ pending' = [pending EXCEPT ![1].response =
                          IF off = 0 THEN <<c>> ELSE Append(@, c)]
             /\ UNCHANGED <<done, token, claimed, lease, hellos, cookies, subs>>
    <3>1. pending[1] \in Item /\ 1 \in DOMAIN pending
      BY <1>0, <2>2, EmptyIs DEF Serving
    <3>2. (IF off = 0 THEN <<c>> ELSE Append(pending[1].response, c)) \in Responses
      <4>1. pending[1].response \in Responses /\ Head(pending) = pending[1]
        BY <1>0, <2>2, <3>1, FirstProperties DEF Item, Serving
      <4>2. off <= RESPONSE_MAX - 1 /\ (off = 0 \/ off = Len(pending[1].response))
        BY <2>2, <4>1 DEF MayWrite
      <4>3. QED
        BY <4>1, <4>2, ResponseProperties
    <3>3. QED
      BY <1>0, <2>2, <3>1, <3>2, HeadItemInv
  <2>3. QED
    BY <1>8, <2>1, <2>2 DEF WriteWindow, MayWrite
<1>9. ASSUME NEW may, NEW r, WriteEmpty(may, r) PROVE Inv'
  <2>1. CASE UNCHANGED agentVars
    BY <2>1, <1>0 DEF agentVars, Inv, TypeOK, HeldIsHead
  <2>2. CASE Serving /\ pending' = [pending EXCEPT ![1].response = << >>]
             /\ UNCHANGED <<done, token, claimed, lease, hellos, cookies, subs>>
    BY <1>0, <2>2, HeadItemInv, ResponseProperties
  <2>3. QED
    BY <1>9, <2>1, <2>2 DEF WriteEmpty
<1>10. ASSUME NEW may, NEW s \in {"ok", "eio"}, NEW r, Done(may, s, r) PROVE Inv'
  <2>1. CASE may /\ Serving
    <3>1. Head(pending) \in Item
      BY <1>0, <2>1, HeadTailIs DEF Serving
    <3>2. Head(pending).response \in Responses
      BY <3>1 DEF Item
    <3>3. /\ pending' \in Seq(Item) /\ done' \in Seq(Item)
          /\ \A i \in DOMAIN pending' : ~pending'[i].dispatched
      BY <1>10, <2>1, <3>2, RetireInv DEF Statuses, Done
    <3>4. QED
      BY <1>0, <1>10, <2>1, <3>3 DEF Done, Inv, TypeOK, HeldIsHead
  <2>2. CASE UNCHANGED agentVars
    BY <2>2, <1>0 DEF agentVars, Inv, TypeOK, HeldIsHead
  <2>3. QED
    BY <1>10, <2>1, <2>2 DEF Done
<1>11. ASSUME NEW tok, NEW pid \in Pids, NEW r, UiRoute(tok, pid, r) PROVE Inv'
  <2>1. CASE UNCHANGED agentVars
    BY <2>1, <1>0 DEF agentVars, Inv, TypeOK, HeldIsHead
  <2>2. CASE Serving /\ ~(UNCHANGED agentVars)
    <3>1. pending[1] \in Item
      BY <1>0, <2>2, FirstProperties DEF Serving
    <3> DEFINE h == [pending[1] EXCEPT !.uiPid = pid, !.uiCookie = cookies + 1, !.uiAge = 0]
    <3>2. h \in Item /\ h.dispatched = pending[1].dispatched
      <4>1. cookies + 1 \in Nat /\ 0 \in 0..UI_LIMIT
        BY <1>0
      <4>2. QED
        BY <4>1, <3>1, Zenon DEF Item
    <3>3. pending' = [pending EXCEPT ![1] = h] /\ cookies' = cookies + 1
          /\ UNCHANGED <<done, token, claimed, lease, hellos, subs>>
      BY <1>11, <2>2 DEF UiRoute
    <3> HIDE DEF h
    <3>4. QED
      <4>1. cookies' \in Nat
        BY <1>0, <3>3
      <4>2. QED
        BY <2>2, <3>2, <3>3, <4>1, NewHeadInv
  <2>3. QED
    BY <1>11, <2>1, <2>2 DEF UiRoute
<1>12. CASE Tick
  <2>1. ASSUME NEW item \in Item PROVE AgeOf(item) \in Item /\ AgeOf(item).dispatched = item.dispatched
    BY DEF AgeOf, Item
  <2>2. pending' = [i \in DOMAIN pending |-> AgeOf(pending[i])]
    BY <1>12 DEF Tick
  <2>3. /\ pending' \in Seq(Item) /\ DOMAIN pending' = DOMAIN pending
        /\ \A i \in DOMAIN pending : pending'[i].dispatched = pending[i].dispatched
    BY <1>0, <2>1, <2>2
  <2>4. lease' \in 0..(LEASE + 1) /\ UNCHANGED <<done, token, claimed, hellos, cookies, subs>>
    BY <1>0, <1>12 DEF Tick
  <2>5. QED
    BY <1>0, <2>3, <2>4 DEF Inv, TypeOK, HeldIsHead
<1>13. CASE UNCHANGED agentVars
  BY <1>13, <1>0 DEF agentVars, Inv, TypeOK, HeldIsHead
<1>14. QED
  BY <1>1, <1>2, <1>3, <1>4, <1>5, <1>6, <1>7, <1>8, <1>9, <1>10, <1>11, <1>12, <1>13
  DEF Next, Cancel

-----------------------------------------------------------------------------
(* The channel's state keeps its types, whatever the guest calls.          *)
THEOREM TypeCorrect == Spec => []TypeOK
<1>1. Inv => TypeOK
  BY DEF Inv
<1>2. QED
  BY InitInv, NextInv, <1>1, PTL DEF Spec

(* A request a daemon holds is the head of pending, and a session is open: *)
(* POLL marks only the head, and whatever ends the session or retires the  *)
(* head (HELLO, cancel, DONE, reset, a routing timeout) keeps it so.       *)
THEOREM HeldIsHeadAlways == Spec => []HeldIsHead
<1>1. Inv => HeldIsHead
  BY DEF Inv
<1>2. QED
  BY InitInv, NextInv, <1>1, PTL DEF Spec

(* A request handed to one session is never left for the next one.         *)
THEOREM NoReplay == Spec => NeverReplayed
<1>1. ASSUME Inv, Next PROVE NewSessionStartsClean
  <2> USE AgentConstants
  <2>1. ASSUME NEW r, Hello(r), HelloTakes PROVE NewSessionStartsClean
    <3>1. CASE claimed /\ Serving /\ Head(pending).dispatched
      <4>1. ECONNRESET \in Statuses /\ << >> \in Responses
        BY ResponseProperties DEF Statuses
      <4>2. QED
        BY <1>1, <2>1, <3>1, <4>1, RetireInv DEF Hello, AbandonLost, NewSessionStartsClean
    <3>2. CASE ~(claimed /\ Serving /\ Head(pending).dispatched)
      <4>1. pending' = pending
        BY <2>1, <3>2 DEF Hello, AbandonLost
      <4>2. ASSUME NEW i \in DOMAIN pending, pending[i].dispatched PROVE FALSE
        <5>1. i = 1 /\ claimed /\ pending \in Seq(Item)
          BY <1>1, <4>2 DEF Inv, HeldIsHead, TypeOK
        <5>2. Serving /\ Head(pending) = pending[1]
          BY <5>1, <4>2, EmptyIs DEF Serving
        <5>3. QED
          BY <5>1, <5>2, <4>2, <3>2
      <4>3. QED
        BY <4>1, <4>2 DEF NewSessionStartsClean
    <3>3. QED
      BY <3>1, <3>2
  <2>2. ASSUME token' = token \/ ~claimed' PROVE NewSessionStartsClean
    BY <2>2 DEF NewSessionStartsClean
  <2>3. ASSUME NEW i \in DOMAIN pending, CancelPending(i) PROVE token' = token \/ ~claimed'
    BY <2>3, <1>1, Zenon DEF CancelPending, Inv, TypeOK
  <2>4. QED
    BY <1>1, <2>1, <2>2, <2>3, Zenon
    DEF Next, Cancel, Submit, CancelDone, TakeResult, Reset, Hello, Poll, WriteWindow,
        WriteEmpty, Done, UiRoute, Tick, agentVars
<1>2. QED
  BY InitInv, NextInv, <1>1, PTL DEF Spec, NeverReplayed

-----------------------------------------------------------------------------
(* The order of the queues *)

(* The requests in a queue, and those of them no daemon holds.             *)
Has(q, n) == \E i \in DOMAIN q : q[i].sub = n
HasFree(q, n) == \E i \in DOMAIN q : q[i].sub = n /\ ~q[i].dispatched
Rising(q) == \A i, j \in DOMAIN q : i < j => q[i].sub < q[j].sub

Ordered ==
    /\ Rising(done) /\ Rising(pending)
    /\ \A d, p : Has(done, d) /\ Has(pending, p) => d < p
    /\ \A n : Has(done, n) \/ Has(pending, n) => n \in 1..subs

(* In a queue in order an item is known by its number.                     *)
LEMMA OnePlace ==
    ASSUME NEW q \in Seq(Item), Rising(q), NEW i \in DOMAIN q, NEW j \in DOMAIN q,
           q[i].sub = q[j].sub
    PROVE  i = j
<1>1. DOMAIN q = 1..Len(q) /\ Len(q) \in Nat
  BY SeqIs
<1>2. q[i] \in Item /\ q[j] \in Item
  BY <1>1, SeqIs
<1>3. i \in Nat /\ j \in Nat /\ q[i].sub \in Nat /\ q[j].sub \in Nat
  BY <1>1, <1>2 DEF Item
<1>4. QED
  BY <1>3 DEF Rising

(* Taking an item out takes out its number and nothing else.               *)
LEMMA RemoveView ==
    ASSUME NEW q \in Seq(Item), Rising(q), NEW i \in DOMAIN q
    PROVE  /\ Rising(DeleteLink(q, i))
           /\ \A n : Has(DeleteLink(q, i), n) <=> Has(q, n) /\ n # q[i].sub
           /\ \A n : HasFree(DeleteLink(q, i), n) <=> HasFree(q, n) /\ n # q[i].sub
<1> DEFINE w == DeleteLink(q, i)
           At(k) == IF k < i THEN k ELSE k + 1
<1>1. /\ Len(q) \in Nat /\ DOMAIN q = 1..Len(q) /\ i \in 1..Len(q)
  BY SeqIs
<1>2. /\ w \in Seq(Item) /\ Len(w) = Len(q) - 1
      /\ \A k \in 1..(Len(q) - 1) : w[k] = IF k < i THEN q[k] ELSE q[k + 1]
  BY <1>1, DeleteLinkProperties, Zenon
<1> HIDE DEF w
<1>3. DOMAIN w = 1..(Len(q) - 1)
  BY <1>2, SeqIs
<1>4. ASSUME NEW k \in DOMAIN w PROVE At(k) \in DOMAIN q /\ At(k) # i /\ w[k] = q[At(k)]
  BY <1>1, <1>2, <1>3
<1>5. ASSUME NEW j \in DOMAIN q, j # i PROVE \E k \in DOMAIN w : At(k) = j
  <2>1. CASE j < i
    BY <1>1, <1>3, <1>5, <2>1
  <2>2. CASE j > i
    <3>1. j - 1 \in DOMAIN w /\ At(j - 1) = j
      BY <1>1, <1>3, <2>2
    <3>2. QED
      BY <3>1
  <2>3. QED
    BY <1>1, <1>5, <2>1, <2>2
<1>6. \A j, k \in DOMAIN w : j < k => At(j) < At(k)
  BY <1>1, <1>3
<1> HIDE DEF At
<1>7. \A j \in DOMAIN q : q[j].sub = q[i].sub => j = i
  BY OnePlace
<1>8. Rising(w)
  BY <1>4, <1>6 DEF Rising
<1>9. ASSUME NEW n PROVE Has(w, n) <=> Has(q, n) /\ n # q[i].sub
  BY <1>4, <1>5, <1>7 DEF Has
<1>10. ASSUME NEW n PROVE HasFree(w, n) <=> HasFree(q, n) /\ n # q[i].sub
  BY <1>4, <1>5, <1>7 DEF HasFree
<1>11. QED
  BY <1>8, <1>9, <1>10 DEF w

(* Taking the head, which has the least number.                            *)
LEMMA TailView ==
    ASSUME NEW q \in Seq(Item), Rising(q), q # << >>
    PROVE  /\ Rising(Tail(q))
           /\ \A n : Has(Tail(q), n) <=> Has(q, n) /\ n # Head(q).sub
           /\ \A n : HasFree(Tail(q), n) <=> HasFree(q, n) /\ n # Head(q).sub
           /\ Has(q, Head(q).sub) /\ \A n : Has(q, n) => Head(q).sub <= n
<1>1. 1 \in DOMAIN q /\ Head(q) = q[1] /\ Len(q) \in Nat \ {0} /\ DOMAIN q = 1..Len(q)
  BY FirstProperties
<1>2. Tail(q) = DeleteLink(q, 1)
  <2>1. /\ Tail(q) \in Seq(Item) /\ Len(Tail(q)) = Len(q) - 1
        /\ \A i \in 1..Len(Tail(q)) : Tail(q)[i] = q[i + 1]
    BY HeadTailIs
  <2>2. /\ DeleteLink(q, 1) \in Seq(Item) /\ Len(DeleteLink(q, 1)) = Len(q) - 1
        /\ \A k \in 1..(Len(q) - 1) : DeleteLink(q, 1)[k] = IF k < 1 THEN q[k] ELSE q[k + 1]
    BY <1>1, DeleteLinkProperties, Zenon
  <2>3. \A k \in 1..(Len(q) - 1) : Tail(q)[k] = DeleteLink(q, 1)[k]
    BY <1>1, <2>1, <2>2
  <2>4. QED
    BY <2>1, <2>2, <2>3, SeqSame
<1>3. \A j \in DOMAIN q : q[j] \in Item
  BY <1>1, SeqIs
<1>4. \A j \in DOMAIN q : q[j].sub \in Nat
  BY <1>3 DEF Item
<1>5. \A j \in DOMAIN q : q[1].sub <= q[j].sub
  BY <1>1, <1>4 DEF Rising
<1>6. Has(q, Head(q).sub) /\ \A n : Has(q, n) => Head(q).sub <= n
  BY <1>1, <1>5 DEF Has
<1>7. /\ Rising(DeleteLink(q, 1))
      /\ \A n : Has(DeleteLink(q, 1), n) <=> Has(q, n) /\ n # q[1].sub
      /\ \A n : HasFree(DeleteLink(q, 1), n) <=> HasFree(q, n) /\ n # q[1].sub
  BY <1>1, RemoveView
<1>8. QED
  BY <1>1, <1>2, <1>6, <1>7, Zenon

(* A new item goes last and has the greatest number.                       *)
LEMMA AppendView ==
    ASSUME NEW q \in Seq(Item), Rising(q), NEW e \in Item, \A n : Has(q, n) => n < e.sub
    PROVE  /\ Rising(Append(q, e))
           /\ \A n : Has(Append(q, e), n) <=> Has(q, n) \/ n = e.sub
           /\ ~e.dispatched => \A n : HasFree(Append(q, e), n) <=> HasFree(q, n) \/ n = e.sub
<1> DEFINE w == Append(q, e)
           k == Len(q) + 1
<1>1. /\ w \in Seq(Item) /\ Len(w) = k /\ w[k] = e
      /\ \A i \in 1..Len(q) : w[i] = q[i]
  BY AppendIs
<1>2. DOMAIN q = 1..Len(q) /\ DOMAIN w = 1..k /\ Len(q) \in Nat
  BY <1>1, SeqIs
<1> HIDE DEF w
<1>3. /\ k \in Nat /\ k \in DOMAIN w /\ k \notin DOMAIN q /\ DOMAIN w = DOMAIN q \cup {k}
      /\ \A i \in DOMAIN q : i < k /\ i \in Nat
  BY <1>2
<1> HIDE DEF k
<1>4. \A i \in DOMAIN q : q[i].sub < e.sub
  BY DEF Has
<1>5. \A i, j \in DOMAIN w : i < j => w[i].sub < w[j].sub
  <2> SUFFICES ASSUME NEW i \in DOMAIN w, NEW j \in DOMAIN w, i < j PROVE w[i].sub < w[j].sub
    OBVIOUS
  <2>1. CASE j = k
    <3>1. i # k
      BY <1>3, <2>1
    <3>2. i \in DOMAIN q
      BY <1>3, <3>1
    <3>3. w[i] = q[i] /\ w[j] = e
      BY <1>1, <1>2, <2>1, <3>2
    <3>4. QED
      BY <1>4, <3>2, <3>3
  <2>2. CASE j # k
    BY <1>1, <1>2, <1>3, <2>2 DEF Rising, k
  <2>3. QED
    BY <2>1, <2>2
<1>6. ASSUME NEW n PROVE Has(w, n) <=> Has(q, n) \/ n = e.sub
  BY <1>1, <1>2, <1>3 DEF Has
<1>7. ASSUME NEW n, ~e.dispatched PROVE HasFree(w, n) <=> HasFree(q, n) \/ n = e.sub
  BY <1>1, <1>2, <1>3, <1>7 DEF HasFree
<1>8. QED
  BY <1>5, <1>6, <1>7 DEF w, Rising

(* Items that keep their numbers keep the order.                           *)
LEMMA SameView ==
    ASSUME NEW q, NEW w, Rising(q), DOMAIN w = DOMAIN q, \A i \in DOMAIN q : w[i].sub = q[i].sub
    PROVE  /\ Rising(w) /\ \A n : Has(w, n) <=> Has(q, n)
           /\ (\A i \in DOMAIN q : w[i].dispatched = q[i].dispatched)
                => \A n : HasFree(w, n) <=> HasFree(q, n)
BY DEF Rising, Has, HasFree

(* POLL's mark changes no number and takes the head from the free ones.    *)
LEMMA MarkView ==
    ASSUME NEW q \in Seq(Item), Rising(q), q # << >>
    PROVE  /\ Rising(MarkDispatched(q))
           /\ \A n : Has(MarkDispatched(q), n) <=> Has(q, n)
           /\ \A n : HasFree(MarkDispatched(q), n) <=> HasFree(q, n) /\ n # Head(q).sub
<1> DEFINE h == [q[1] EXCEPT !.dispatched = TRUE]
           w == [q EXCEPT ![1] = h]
<1>1. 1 \in DOMAIN q /\ q[1] \in Item /\ Head(q) = q[1]
  BY FirstProperties
<1>2. MarkDispatched(q) = w
  BY <1>1 DEF MarkDispatched
<1>3. h.sub = q[1].sub /\ h.dispatched
  BY <1>1 DEF Item
<1> HIDE DEF h
<1>4. /\ DOMAIN w = DOMAIN q /\ w[1] = h
      /\ \A i \in DOMAIN q : i # 1 => w[i] = q[i]
  BY <1>1
<1> HIDE DEF w
<1>5. \A i \in DOMAIN q : w[i].sub = q[i].sub
  BY <1>3, <1>4
<1>6. Rising(w) /\ \A n : Has(w, n) <=> Has(q, n)
  BY <1>4, <1>5, SameView
<1>7. \A i \in DOMAIN q : q[i].sub = q[1].sub => i = 1
  BY <1>1, OnePlace
<1>8. ASSUME NEW n PROVE HasFree(w, n) <=> HasFree(q, n) /\ n # q[1].sub
  BY <1>1, <1>3, <1>4, <1>7 DEF HasFree
<1>9. QED
  BY <1>1, <1>2, <1>6, <1>8

-----------------------------------------------------------------------------
(* The steps of the channel, as front ends see them: which numbers leave   *)
(* pending, stop being free, enter done and leave done.                    *)
Change(out, held, in, taken) ==
    /\ subs' = subs
    /\ \A n : Has(pending', n) <=> Has(pending, n) /\ n \notin out
    /\ \A n : HasFree(pending', n) <=> HasFree(pending, n) /\ n \notin held
    /\ \A n : Has(done', n) <=> (Has(done, n) /\ n \notin taken) \/ n \in in
First(h) == Has(pending, h) /\ \A n : Has(pending, n) => h <= n
Second(h, m) == Has(pending, m) /\ m # h /\ \A n : Has(pending, n) /\ n # h => m <= n

Stays == Change({}, {}, {}, {})
Ends(n) == \/ Has(pending, n) /\ Change({n}, {n}, {}, {})
           \/ Has(done, n) /\ Change({}, {}, {}, {n})
Answers(h) == First(h) /\ Change({h}, {h}, {h}, {})
Hands(h) == First(h) /\ HasFree(pending, h) /\ Change({}, {h}, {}, {})
AnswersAndHands(h, m) ==
    First(h) /\ Second(h, m) /\ HasFree(pending, m) /\ Change({h}, {h, m}, {h}, {})
Accepts ==
    /\ subs' = subs + 1
    /\ \A n : Has(pending', n) <=> Has(pending, n) \/ n = subs + 1
    /\ \A n : HasFree(pending', n) <=> HasFree(pending, n) \/ n = subs + 1
    /\ \A n : Has(done', n) <=> Has(done, n)
Clears == subs' = subs /\ \A n : ~Has(pending', n) /\ ~HasFree(pending', n) /\ ~Has(done', n)

Step ==
    \/ Stays \/ Accepts \/ Clears
    \/ \E n : Ends(n) \/ Answers(n) \/ Hands(n)
    \/ \E h, m : AnswersAndHands(h, m)

(* What enters done comes from the front of pending, so the queues stay in *)
(* order.                                                                  *)
LEMMA ChangeOrdered ==
    ASSUME Inv, Ordered, NEW out, NEW held, NEW in, NEW taken, Change(out, held, in, taken),
           Rising(pending'), Rising(done'), \A h \in in : First(h) /\ h \in out
    PROVE  Ordered'
<1>1. ASSUME NEW n, Has(done', n) \/ Has(pending', n) PROVE n \in 1..subs'
  BY <1>1 DEF Change, Ordered, First
<1>2. ASSUME NEW d, NEW p, Has(done', d), Has(pending', p) PROVE d < p
  <2>1. Has(pending, p) /\ p \notin out /\ p \in 1..subs
    BY <1>2 DEF Change, Ordered
  <2>2. CASE Has(done, d)
    BY <2>1, <2>2 DEF Ordered
  <2>3. CASE d \in in
    <3>1. d \in 1..subs /\ d <= p /\ d # p /\ subs \in Nat
      BY <2>1, <2>3 DEF First, Ordered, Inv, TypeOK
    <3>2. QED
      BY <2>1, <3>1
  <2>4. QED
    BY <1>2, <2>2, <2>3 DEF Change
<1>3. QED
  BY <1>1, <1>2 DEF Ordered

(* A step that leaves the numbers, the marks and the results alone.        *)
LEMMA StaysOrdered ==
    ASSUME Inv, Ordered, UNCHANGED <<done, subs>>, DOMAIN pending' = DOMAIN pending,
           \A i \in DOMAIN pending : /\ pending'[i].sub = pending[i].sub
                                     /\ pending'[i].dispatched = pending[i].dispatched
    PROVE  Ordered' /\ Step
<1>1. /\ Rising(pending') /\ \A n : Has(pending', n) <=> Has(pending, n)
      /\ \A n : HasFree(pending', n) <=> HasFree(pending, n)
  BY SameView DEF Ordered
<1>2. Stays /\ Rising(done')
  BY <1>1 DEF Stays, Change, Ordered
<1>3. QED
  BY <1>1, <1>2, ChangeOrdered DEF Stays, Step

(* The head of pending comes first.                                        *)
LEMMA HeadFirst ==
    ASSUME Inv, Ordered, Serving
    PROVE  /\ First(Head(pending).sub)
           /\ Rising(Tail(pending))
           /\ \A n : Has(Tail(pending), n) <=> Has(pending, n) /\ n # Head(pending).sub
           /\ \A n : HasFree(Tail(pending), n) <=> HasFree(pending, n) /\ n # Head(pending).sub
BY TailView DEF First, Inv, TypeOK, Ordered, Serving

(* Appending to done the head of pending, whatever outcome and response it *)
(* is given.                                                               *)
LEMMA AnswerView ==
    ASSUME Inv, Ordered, Serving, NEW e \in Item, e.sub = Head(pending).sub
    PROVE  /\ Rising(Append(done, e))
           /\ \A n : Has(Append(done, e), n) <=> Has(done, n) \/ n = Head(pending).sub
<1>1. \A n : Has(done, n) => n < e.sub
  BY HeadFirst DEF First, Ordered
<1>2. done \in Seq(Item) /\ Rising(done)
  BY DEF Inv, TypeOK, Ordered
<1>3. QED
  BY <1>1, <1>2, AppendView

(* DONE, and HELLO's abandoning of a lost daemon's request.                *)
LEMMA RetireStep ==
    ASSUME Inv, Ordered, Serving, NEW s \in Statuses, NEW resp \in Responses,
           Retire(pending, done, s, resp), subs' = subs
    PROVE  Ordered' /\ Step
<1> DEFINE h == Head(pending).sub
           e == [Head(pending) EXCEPT !.status = s, !.response = resp]
<1>1. e \in Item /\ e.sub = h
  <2>1. Head(pending) \in Item
    BY HeadTailIs DEF Inv, TypeOK, Serving
  <2>2. QED
    BY <2>1 DEF Item
<1>2. pending' = Tail(pending) /\ done' = Append(done, e)
  BY DEF Retire
<1> HIDE DEF e
<1>3. /\ First(h) /\ Rising(pending')
      /\ \A n : Has(pending', n) <=> Has(pending, n) /\ n # h
      /\ \A n : HasFree(pending', n) <=> HasFree(pending, n) /\ n # h
  BY <1>2, HeadFirst
<1>4. /\ Rising(done')
      /\ \A n : Has(done', n) <=> Has(done, n) \/ n = h
  BY <1>1, <1>2, AnswerView
<1> HIDE DEF h
<1>5. Change({h}, {h}, {h}, {})
  BY <1>3, <1>4 DEF Change
<1>6. Ordered'
  BY <1>3, <1>4, <1>5, ChangeOrdered
<1>7. QED
  BY <1>3, <1>5, <1>6 DEF Answers, Step

(* POLL marks the head.                                                    *)
LEMMA PollStep ==
    ASSUME Inv, Ordered, pending' = MarkDispatched(pending), UNCHANGED <<done, subs>>
    PROVE  Ordered' /\ Step
<1>1. CASE ~Serving
  <2>1. pending' = pending
    BY <1>1 DEF Serving, MarkDispatched
  <2>2. QED
    BY <2>1, StaysOrdered
<1>2. CASE Serving
  <2> DEFINE h == Head(pending).sub
  <2>1. /\ Rising(pending')
        /\ \A n : Has(pending', n) <=> Has(pending, n)
        /\ \A n : HasFree(pending', n) <=> HasFree(pending, n) /\ n # h
    BY <1>2, MarkView DEF Inv, TypeOK, Ordered, Serving
  <2>2. First(h)
    BY <1>2, HeadFirst
  <2> HIDE DEF h
  <2>3. Change({}, {h}, {}, {}) /\ Rising(done')
    BY <2>1 DEF Change, Ordered
  <2>4. Ordered'
    BY <2>1, <2>3, ChangeOrdered
  <2>5. CASE HasFree(pending, h)
    BY <2>2, <2>3, <2>4, <2>5 DEF Hands, Step
  <2>6. CASE ~HasFree(pending, h)
    <3>1. Stays
      BY <2>3, <2>6 DEF Stays, Change
    <3>2. QED
      BY <2>4, <3>1 DEF Step
  <2>7. QED
    BY <2>5, <2>6
<1>3. QED
  BY <1>1, <1>2

(* POLL retires an overdue head and marks the request behind it.           *)
LEMMA PollExpiredStep ==
    ASSUME Inv, Ordered, Serving, pending' = MarkDispatched(Tail(pending)), subs' = subs,
           done' = Append(done, [Head(pending) EXCEPT !.status = ETIMEDOUT, !.response = << >>])
    PROVE  Ordered' /\ Step
<1> DEFINE h == Head(pending).sub
           e == [Head(pending) EXCEPT !.status = ETIMEDOUT, !.response = << >>]
           T == Tail(pending)
<1>1. ETIMEDOUT \in Statuses /\ << >> \in Responses
  BY ResponseProperties DEF Statuses
<1>2. CASE T = << >>
  <2>1. Retire(pending, done, ETIMEDOUT, << >>)
    BY <1>2 DEF Retire, MarkDispatched
  <2>2. QED
    BY <1>1, <2>1, RetireStep
<1>3. CASE T # << >>
  <2> DEFINE m == Head(T).sub
  <2>1. e \in Item /\ e.sub = h
    <3>1. Head(pending) \in Item
      BY HeadTailIs DEF Inv, TypeOK, Serving
    <3>2. QED
      BY <3>1, <1>1 DEF Item
  <2>2. /\ Rising(done')
        /\ \A n : Has(done', n) <=> Has(done, n) \/ n = h
    <3> HIDE DEF e
    <3>1. done' = Append(done, e)
      BY DEF e
    <3>2. QED
      BY <2>1, <3>1, AnswerView
  <2>3. /\ First(h) /\ Rising(T)
        /\ \A n : Has(T, n) <=> Has(pending, n) /\ n # h
        /\ \A n : HasFree(T, n) <=> HasFree(pending, n) /\ n # h
    BY HeadFirst
  <2>4. T \in Seq(Item)
    BY HeadTailIs DEF Inv, TypeOK, Serving
  <2>5. /\ Rising(pending')
        /\ \A n : Has(pending', n) <=> Has(T, n)
        /\ \A n : HasFree(pending', n) <=> HasFree(T, n) /\ n # m
    BY <1>3, <2>3, <2>4, MarkView, Zenon
  <2>6. Has(T, m) /\ \A n : Has(T, n) => m <= n
    BY <1>3, <2>3, <2>4, TailView
  <2>7. HasFree(T, m)
    <3>1. 1 \in DOMAIN T /\ Head(T) = T[1] /\ Len(T) \in Nat \ {0}
      BY <1>3, <2>4, FirstProperties
    <3>2. pending \in Seq(Item) /\ Len(T) = Len(pending) - 1 /\ T[1] = pending[2]
          /\ DOMAIN pending = 1..Len(pending) /\ Len(pending) \in Nat
      BY <3>1, HeadTailIs, SeqIs DEF Inv, TypeOK, Serving
    <3>3. ~pending[2].dispatched
      BY <3>1, <3>2 DEF Inv, HeldIsHead
    <3>4. QED
      BY <3>1, <3>2, <3>3 DEF HasFree
  <2> HIDE DEF h, m, T, e
  <2>8. Second(h, m) /\ HasFree(pending, m)
    BY <2>3, <2>6, <2>7 DEF Second
  <2>9. Change({h}, {h, m}, {h}, {})
    BY <2>2, <2>3, <2>5 DEF Change
  <2>10. Ordered'
    BY <2>2, <2>3, <2>5, <2>9, ChangeOrdered
  <2>11. QED
    BY <2>3, <2>8, <2>9, <2>10, Zenon DEF AnswersAndHands, Step
<1>4. QED
  BY <1>2, <1>3

(* A step that changes the head without changing its number or its mark.   *)
LEMMA HeadStep ==
    ASSUME Inv, Ordered, Serving, NEW h, h.sub = pending[1].sub,
           h.dispatched = pending[1].dispatched,
           pending' = [pending EXCEPT ![1] = h], UNCHANGED <<done, subs>>
    PROVE  Ordered' /\ Step
<1>1. 1 \in DOMAIN pending
  BY FirstProperties DEF Inv, TypeOK, Serving
<1>2. /\ DOMAIN pending' = DOMAIN pending
      /\ \A i \in DOMAIN pending : pending'[i] = IF i = 1 THEN h ELSE pending[i]
  BY <1>1
<1>3. QED
  BY <1>2, StaysOrdered

(* A step that changes the head's response.                                *)
LEMMA ResponseStep ==
    ASSUME Inv, Ordered, Serving, NEW resp,
           pending' = [pending EXCEPT ![1].response = resp], UNCHANGED <<done, subs>>
    PROVE  Ordered' /\ Step
<1> DEFINE h == [pending[1] EXCEPT !.response = resp]
<1>1. pending[1] \in Item
  BY FirstProperties DEF Inv, TypeOK, Serving
<1>2. h.sub = pending[1].sub /\ h.dispatched = pending[1].dispatched
  BY <1>1 DEF Item
<1>3. pending' = [pending EXCEPT ![1] = h]
  OBVIOUS
<1> HIDE DEF h
<1>4. QED
  BY <1>2, <1>3, HeadStep

(* Every operation keeps the order and is a step front ends may see.       *)
LEMMA NextStep ==
    ASSUME Inv, Ordered, [Next]_agentVars
    PROVE  Ordered' /\ Step
<1> USE AgentConstants
<1>0. /\ pending \in Seq(Item) /\ done \in Seq(Item) /\ subs \in Nat
      /\ Rising(pending) /\ Rising(done)
      /\ \A n : Has(done, n) \/ Has(pending, n) => n \in 1..subs
  BY DEF Inv, TypeOK, Ordered
<1>1. CASE UNCHANGED agentVars
  BY <1>1, StaysOrdered DEF agentVars
<1>2. ASSUME NEW id \in Ids, NEW r \in {0, -1}, Submit(id, r) PROVE Ordered' /\ Step
  <2>1. CASE MayQueue(id)
    <3> DEFINE e == NewItem(id)
    <3>1. e \in Item /\ e.sub = subs + 1 /\ ~e.dispatched
      BY NewItemType DEF Inv, NewItem
    <3>2. pending' = Append(pending, e) /\ done' = done /\ subs' = subs + 1
      BY <1>2, <2>1 DEF Submit
    <3> HIDE DEF e
    <3>3. \A n : Has(pending, n) => n < e.sub
      BY <1>0, <3>1
    <3>4. /\ Rising(pending')
          /\ \A n : Has(pending', n) <=> Has(pending, n) \/ n = subs + 1
          /\ \A n : HasFree(pending', n) <=> HasFree(pending, n) \/ n = subs + 1
      BY <1>0, <3>1, <3>2, <3>3, AppendView
    <3>5. \A d, p : Has(done', d) /\ Has(pending', p) => d < p
      <4> SUFFICES ASSUME NEW d, NEW p, Has(done, d), Has(pending, p) \/ p = subs + 1 PROVE d < p
        BY <3>2, <3>4
      <4>1. CASE Has(pending, p)
        BY <4>1 DEF Ordered
      <4>2. CASE p = subs + 1
        BY <1>0, <4>2
      <4>3. QED
        BY <4>1, <4>2
    <3>6. \A n : Has(done', n) \/ Has(pending', n) => n \in 1..subs'
      BY <1>0, <3>2, <3>4
    <3>7. Ordered'
      BY <1>0, <3>2, <3>4, <3>5, <3>6 DEF Ordered
    <3>8. QED
      BY <3>2, <3>4, <3>7 DEF Accepts, Step
  <2>2. QED
    BY <1>1, <1>2, <2>1 DEF Submit
<1>3. ASSUME NEW i \in DOMAIN pending, CancelPending(i) PROVE Ordered' /\ Step
  <2> DEFINE n == pending[i].sub
  <2>1. pending' = DeleteLink(pending, i) /\ done' = done /\ subs' = subs
    BY <1>3 DEF CancelPending
  <2>2. /\ Rising(pending') /\ Has(pending, n)
        /\ \A k : Has(pending', k) <=> Has(pending, k) /\ k # n
        /\ \A k : HasFree(pending', k) <=> HasFree(pending, k) /\ k # n
    <3>1. Has(pending, n)
      BY DEF Has
    <3>2. QED
      BY <1>0, <2>1, <3>1, RemoveView
  <2> HIDE DEF n
  <2>3. Change({n}, {n}, {}, {}) /\ Rising(done')
    BY <1>0, <2>1, <2>2 DEF Change
  <2>4. QED
    BY <2>2, <2>3, ChangeOrdered DEF Ends, Step
<1>4. ASSUME NEW i \in DOMAIN done, CancelDone(i) PROVE Ordered' /\ Step
  <2> DEFINE n == done[i].sub
  <2>1. done' = DeleteLink(done, i) /\ pending' = pending /\ subs' = subs
    BY <1>4 DEF CancelDone
  <2>2. /\ Rising(done') /\ Has(done, n)
        /\ \A k : Has(done', k) <=> Has(done, k) /\ k # n
    <3>1. Has(done, n)
      BY DEF Has
    <3>2. QED
      BY <1>0, <2>1, <3>1, RemoveView
  <2> HIDE DEF n
  <2>3. Change({}, {}, {}, {n}) /\ Rising(pending')
    BY <1>0, <2>1, <2>2 DEF Change
  <2>4. QED
    BY <2>2, <2>3, ChangeOrdered DEF Ends, Step
<1>5. CASE TakeResult
  <2> DEFINE n == Head(done).sub
  <2>1. done' = Tail(done) /\ pending' = pending /\ subs' = subs /\ done # << >>
    BY <1>5 DEF TakeResult
  <2>2. /\ Rising(done') /\ Has(done, n)
        /\ \A k : Has(done', k) <=> Has(done, k) /\ k # n
    BY <1>0, <2>1, TailView
  <2> HIDE DEF n
  <2>3. Change({}, {}, {}, {n}) /\ Rising(pending')
    BY <1>0, <2>1, <2>2 DEF Change
  <2>4. QED
    BY <2>2, <2>3, ChangeOrdered DEF Ends, Step
<1>6. CASE Reset
  <2>1. pending' = << >> /\ done' = << >> /\ subs' = subs
    BY <1>6 DEF Reset
  <2>2. \A n : ~Has(<< >>, n) /\ ~HasFree(<< >>, n)
    BY EmptyProperties DEF Has, HasFree
  <2>3. Rising(<< >>)
    BY EmptyProperties DEF Rising
  <2>4. QED
    BY <2>1, <2>2, <2>3 DEF Ordered, Clears, Step
<1>7. ASSUME NEW r, Hello(r) PROVE Ordered' /\ Step
  <2>1. CASE Retire(pending, done, ECONNRESET, << >>) /\ Serving /\ subs' = subs
    <3>1. ECONNRESET \in Statuses /\ << >> \in Responses
      BY ResponseProperties DEF Statuses
    <3>2. QED
      BY <2>1, <3>1, RetireStep
  <2>2. CASE UNCHANGED <<pending, done, subs>>
    BY <2>2, StaysOrdered
  <2>3. QED
    BY <1>7, <2>1, <2>2 DEF Hello, AbandonLost, agentVars
<1>8. ASSUME NEW tok, NEW r, Poll(tok, r) PROVE Ordered' /\ Step
  <2>1. CASE OwnsSession(tok) /\ Expired
    BY <1>8, <2>1, PollExpiredStep DEF Poll, Expired, Routed
  <2>2. CASE OwnsSession(tok) /\ ~Expired
    BY <1>8, <2>2, PollStep DEF Poll
  <2>3. CASE ~OwnsSession(tok)
    BY <1>1, <1>8, <2>3 DEF Poll
  <2>4. QED
    BY <2>1, <2>2, <2>3
<1>9. ASSUME NEW may, NEW off, NEW c, NEW r, WriteWindow(may, off, c, r) PROVE Ordered' /\ Step
  <2>1. CASE Serving /\ UNCHANGED <<done, subs>>
             /\ pending' = [pending EXCEPT ![1].response = IF off = 0 THEN <<c>> ELSE Append(@, c)]
    BY <2>1, ResponseStep, Zenon
  <2>2. QED
    BY <1>1, <1>9, <2>1 DEF WriteWindow, MayWrite
<1>10. ASSUME NEW may, NEW r, WriteEmpty(may, r) PROVE Ordered' /\ Step
  BY <1>1, <1>10, ResponseStep DEF WriteEmpty
<1>11. ASSUME NEW may, NEW s \in {"ok", "eio"}, NEW r, Done(may, s, r) PROVE Ordered' /\ Step
  <2>1. CASE may /\ Serving
    <3>1. Head(pending) \in Item
      BY <1>0, <2>1, HeadTailIs DEF Serving
    <3>2. Head(pending).response \in Responses /\ s \in Statuses
      BY <3>1 DEF Item, Statuses
    <3>3. QED
      BY <1>11, <2>1, <3>2, RetireStep DEF Done
  <2>2. QED
    BY <1>1, <1>11, <2>1 DEF Done
<1>12. ASSUME NEW tok, NEW pid \in Pids, NEW r, UiRoute(tok, pid, r) PROVE Ordered' /\ Step
  <2>1. CASE RootMay(tok) /\ Serving
    <3> DEFINE h == [pending[1] EXCEPT !.uiPid = pid, !.uiCookie = cookies + 1, !.uiAge = 0]
    <3>1. pending[1] \in Item
      BY <1>0, <2>1, FirstProperties DEF Serving
    <3>2. h.sub = pending[1].sub /\ h.dispatched = pending[1].dispatched
      BY <3>1 DEF Item
    <3>3. pending' = [pending EXCEPT ![1] = h] /\ UNCHANGED <<done, subs>>
      BY <1>12, <2>1 DEF UiRoute
    <3> HIDE DEF h
    <3>4. QED
      BY <2>1, <3>2, <3>3, HeadStep
  <2>2. QED
    BY <1>1, <1>12, <2>1 DEF UiRoute
<1>13. CASE Tick
  <2>1. ASSUME NEW item \in Item
        PROVE  AgeOf(item).sub = item.sub /\ AgeOf(item).dispatched = item.dispatched
    BY DEF AgeOf, Item
  <2>2. \A i \in DOMAIN pending : pending[i] \in Item
    BY <1>0, SeqIs
  <2>3. pending' = [i \in DOMAIN pending |-> AgeOf(pending[i])] /\ UNCHANGED <<done, subs>>
    BY <1>13 DEF Tick
  <2>4. QED
    BY <2>1, <2>2, <2>3, StaysOrdered
<1>14. QED
  BY <1>1, <1>2, <1>3, <1>4, <1>5, <1>6, <1>7, <1>8, <1>9, <1>10, <1>11, <1>12, <1>13
  DEF Next, Cancel

(* At first both queues are empty.                                         *)
LEMMA InitOrdered == Init => Ordered
BY EmptyProperties DEF Init, Ordered, Rising, Has

-----------------------------------------------------------------------------
(* What front ends see, in order *)

(* The two queues in order, end to end.                                    *)
LEMMA OrderedItems ==
    ASSUME Inv, Ordered
    PROVE  AnsweredInOrder
<1> DEFINE w == done \o pending
           At(i) == IF i <= Len(done) THEN done[i].sub ELSE pending[i - Len(done)].sub
<1>1. /\ Len(done) \in Nat /\ DOMAIN done = 1..Len(done)
      /\ Len(pending) \in Nat /\ DOMAIN pending = 1..Len(pending)
  BY SeqIs DEF Inv, TypeOK
<1>2. /\ DOMAIN w = 1..(Len(done) + Len(pending))
      /\ \A i \in DOMAIN w : w[i] = IF i <= Len(done) THEN done[i] ELSE pending[i - Len(done)]
  BY ConcatIs, SeqIs DEF Inv, TypeOK
<1>3. \A i \in DOMAIN w : w[i].sub = At(i)
  BY <1>2
<1> HIDE DEF w
<1>4. ASSUME NEW i \in DOMAIN w
      PROVE  /\ i <= Len(done) => i \in DOMAIN done
             /\ ~(i <= Len(done)) => i - Len(done) \in DOMAIN pending
  BY <1>1, <1>2
<1>5. ASSUME NEW i \in DOMAIN w PROVE At(i) <= subs
  <2>1. At(i) \in 1..subs
    BY <1>4 DEF Ordered, Has
  <2>2. QED
    BY <2>1 DEF Inv, TypeOK
<1>6. ASSUME NEW i \in DOMAIN w, NEW j \in DOMAIN w, i < j PROVE At(i) < At(j)
  <2>1. CASE j <= Len(done)
    BY <1>1, <1>2, <1>6, <2>1 DEF Ordered, Rising
  <2>2. CASE ~(i <= Len(done))
    <3>1. /\ ~(j <= Len(done)) /\ i - Len(done) < j - Len(done)
      BY <1>1, <1>2, <1>6, <2>2
    <3>2. QED
      BY <1>4, <2>2, <3>1 DEF Ordered, Rising
  <2>3. CASE i <= Len(done) /\ ~(j <= Len(done))
    <3>1. Has(done, At(i)) /\ Has(pending, At(j))
      BY <1>4, <2>3 DEF Has
    <3>2. QED
      BY <3>1 DEF Ordered
  <2>4. QED
    BY <2>1, <2>2, <2>3
<1> HIDE DEF At
<1>7. Items = w
  BY DEF Items, w
<1>8. QED
  BY <1>3, <1>5, <1>6, <1>7 DEF AnsweredInOrder

(* Requests are answered in the order they were submitted and none is both *)
(* answered and waiting, whatever mix of DONE, routing timeouts, lost      *)
(* sessions, cancellations and resets moves items between the queues.      *)
THEOREM InOrder == Spec => []AnsweredInOrder
<1>1. Inv /\ Ordered => AnsweredInOrder
  BY OrderedItems
<1>2. Inv /\ Ordered /\ [Next]_agentVars => Ordered'
  BY NextStep
<1>3. QED
  BY InitInv, NextInv, InitOrdered, <1>1, <1>2, PTL DEF Spec

-----------------------------------------------------------------------------
(* Where front ends see request n, now and after a step.                   *)
LEMMA PhaseView ==
    ASSUME NEW n
    PROVE  /\ PhaseOf(n) = IF HasFree(pending, n) THEN "queued"
                           ELSE IF Has(pending, n) THEN "held"
                           ELSE IF Has(done, n) THEN "answered" ELSE "gone"
           /\ PhaseOf(n)' = IF HasFree(pending', n) THEN "queued"
                            ELSE IF Has(pending', n) THEN "held"
                            ELSE IF Has(done', n) THEN "answered" ELSE "gone"
           /\ HasFree(pending, n) => Has(pending, n)
           /\ HasFree(pending', n) => Has(pending', n)
BY DEF PhaseOf, HasFree, Has

(* A request waits, in the abstract channel, while it is in pending, and   *)
(* the first one in pending has its turn.                                  *)
LEMMA WaitsView ==
    ASSUME Inv, Ordered
    PROVE  /\ DOMAIN Phases = 1..subs
           /\ \A n \in 1..subs : Phases[n] = PhaseOf(n)
           /\ \A n \in 1..subs : Rpc!Waits(n) <=> Has(pending, n)
           /\ \A h : First(h) => h \in 1..subs /\ Rpc!Turn(h)
<1>1. DOMAIN Phases = 1..subs /\ \A n \in 1..subs : Phases[n] = PhaseOf(n)
  BY DEF Phases
<1>2. ASSUME NEW n \in 1..subs PROVE Rpc!Waits(n) <=> Has(pending, n)
  <2>1. PhaseOf(n) \in {"queued", "held"} <=> Has(pending, n)
    BY PhaseView
  <2>2. QED
    BY <1>1, <2>1 DEF Rpc!Waits
<1>3. ASSUME NEW h, First(h) PROVE h \in 1..subs /\ Rpc!Turn(h)
  <2>1. h \in 1..subs /\ subs \in Nat
    BY <1>3 DEF First, Ordered, Inv, TypeOK
  <2>2. ASSUME NEW m \in 1..(h - 1) PROVE ~Rpc!Waits(m)
    <3>1. m \in 1..subs /\ ~(h <= m)
      BY <2>1
    <3>2. QED
      BY <1>2, <1>3, <3>1 DEF First
  <2>3. QED
    BY <2>1, <2>2 DEF Rpc!Turn
<1>4. QED
  BY <1>1, <1>2, <1>3

(* Each of the steps front ends see is one of the abstract channel.        *)
LEMMA StepImplements ==
    ASSUME Inv, Ordered, Ordered', Step
    PROVE  [Rpc!Next]_Phases
<1>0. subs \in Nat
  BY DEF Inv, TypeOK
<1>1. /\ DOMAIN Phases = 1..subs
      /\ \A n \in 1..subs : Phases[n] = PhaseOf(n)
      /\ Phases' = [n \in 1..subs' |-> PhaseOf(n)']
  BY DEF Phases
<1>2. \A n \in 1..subs : Rpc!Waits(n) <=> Has(pending, n)
  BY WaitsView
<1>3. \A h : First(h) => h \in 1..subs /\ Rpc!Turn(h)
  BY WaitsView
<1>4. \A n : ~(Has(done, n) /\ Has(pending, n))
  <2> SUFFICES ASSUME NEW n, Has(done, n), Has(pending, n) PROVE FALSE
    OBVIOUS
  <2>1. n < n /\ n \in 1..subs
    BY DEF Ordered
  <2>2. QED
    BY <1>0, <2>1
<1>5. CASE Stays
  <2>1. subs' = subs /\ \A n \in 1..subs : PhaseOf(n)' = PhaseOf(n)
    BY <1>5, PhaseView DEF Stays, Change
  <2>2. Phases' = Phases
    BY <2>1 DEF Phases
  <2>3. QED
    BY <2>2
<1>6. CASE Accepts
  <2>1. /\ subs' = subs + 1
        /\ \A n \in 1..subs : PhaseOf(n)' = PhaseOf(n)
        /\ \A n : n = subs + 1 => PhaseOf(n)' = "queued"
    <3>1. \A n \in 1..subs : n # subs + 1
      BY <1>0
    <3>2. QED
      BY <1>6, <3>1, PhaseView DEF Accepts
  <2>2. Phases \in Seq({"queued", "held", "answered", "gone"}) /\ Len(Phases) = subs
    BY <1>0 DEF Phases, PhaseOf
  <2>3. Phases' = Append(Phases, "queued")
    <3> DEFINE w == Append(Phases, "queued")
    <3>1. Phases' = [n \in 1..(subs + 1) |-> PhaseOf(n)']
      BY <1>1, <2>1
    <3>2. /\ DOMAIN w = 1..(subs + 1) /\ w[subs + 1] = "queued"
          /\ \A n \in 1..subs : w[n] = PhaseOf(n)
          /\ w = [n \in 1..(subs + 1) |-> w[n]]
      <4>1. /\ w \in Seq({"queued", "held", "answered", "gone"})
            /\ Len(w) = subs + 1 /\ w[subs + 1] = "queued"
            /\ \A n \in 1..subs : w[n] = Phases[n]
        BY <2>2, AppendIs
      <4> HIDE DEF w
      <4>2. DOMAIN w = 1..(subs + 1) /\ w = [n \in 1..(subs + 1) |-> w[n]]
        BY <4>1
      <4>3. QED
        BY <1>1, <4>1, <4>2
    <3> HIDE DEF w
    <3>3. ASSUME NEW n \in 1..(subs + 1) PROVE PhaseOf(n)' = w[n]
      <4>1. n \in 1..subs \/ n = subs + 1
        BY <1>0
      <4>2. CASE n \in 1..subs
        BY <2>1, <3>2, <4>2
      <4>3. CASE n = subs + 1
        BY <2>1, <3>2, <4>3
      <4>4. QED
        BY <4>1, <4>2, <4>3
    <3>4. Phases' = w
      BY <3>1, <3>2, <3>3
    <3>5. QED
      BY <3>4 DEF w
  <2>4. QED
    BY <2>3 DEF Rpc!Accept, Rpc!Next
<1>7. CASE Clears
  <2>1. subs' = subs /\ \A n \in 1..subs : PhaseOf(n)' = "gone"
    BY <1>7, PhaseView DEF Clears
  <2>2. Phases' = [n \in DOMAIN Phases |-> "gone"]
    BY <1>1, <2>1
  <2>3. QED
    BY <2>2 DEF Rpc!EndAll, Rpc!Next
<1>8. ASSUME NEW n, Ends(n) PROVE [Rpc!Next]_Phases
  <2>1. n \in 1..subs /\ subs' = subs
    BY <1>8 DEF Ends, Ordered, Change
  <2>2. PhaseOf(n) # "gone"
    BY <1>8, PhaseView DEF Ends
  <2>3. \A k \in 1..subs : PhaseOf(k)' = IF k = n THEN "gone" ELSE PhaseOf(k)
    BY <1>4, <1>8, PhaseView DEF Ends, Change
  <2>4. Phases' = [Phases EXCEPT ![n] = "gone"]
    BY <1>1, <2>1, <2>3, Zenon
  <2>5. QED
    BY <1>1, <2>1, <2>2, <2>4, Zenon DEF Rpc!End, Rpc!Next
<1>9. ASSUME NEW h, Answers(h) PROVE [Rpc!Next]_Phases
  <2>1. h \in 1..subs /\ subs' = subs /\ Rpc!Waits(h) /\ Rpc!Turn(h)
    BY <1>2, <1>3, <1>9 DEF Answers, Change, First
  <2>2. \A k \in 1..subs : PhaseOf(k)' = IF k = h THEN "answered" ELSE PhaseOf(k)
    BY <1>9, PhaseView DEF Answers, Change
  <2>3. Phases' = [Phases EXCEPT ![h] = "answered"]
    BY <1>1, <2>1, <2>2, Zenon
  <2>4. QED
    BY <1>1, <2>1, <2>3, Zenon DEF Rpc!Answer, Rpc!Next
<1>10. ASSUME NEW h, Hands(h) PROVE [Rpc!Next]_Phases
  <2>1. h \in 1..subs /\ subs' = subs /\ Rpc!Turn(h) /\ PhaseOf(h) = "queued"
    BY <1>3, <1>10, PhaseView DEF Hands, Change
  <2>2. \A k \in 1..subs : PhaseOf(k)' = IF k = h THEN "held" ELSE PhaseOf(k)
    BY <1>10, PhaseView DEF Hands, Change, First
  <2>3. Phases' = [Phases EXCEPT ![h] = "held"]
    BY <1>1, <2>1, <2>2
  <2>4. QED
    BY <1>1, <2>1, <2>3, Zenon DEF Rpc!Hand, Rpc!Next
<1>11. ASSUME NEW h, NEW m, AnswersAndHands(h, m) PROVE [Rpc!Next]_Phases
  <2>1. h \in 1..subs /\ subs' = subs /\ Rpc!Waits(h) /\ Rpc!Turn(h)
    BY <1>2, <1>3, <1>11 DEF AnswersAndHands, Change, First
  <2>2. m \in 1..subs /\ h <= m /\ m # h /\ PhaseOf(m) = "queued"
    BY <1>11, PhaseView DEF AnswersAndHands, First, Second, Ordered
  <2>3. h < m
    BY <1>0, <2>1, <2>2
  <2>4. ASSUME NEW k \in (h + 1)..(m - 1) PROVE ~Rpc!Waits(k)
    <3>1. k \in 1..subs /\ k # h /\ ~(m <= k)
      BY <1>0, <2>1, <2>2
    <3>2. QED
      BY <1>2, <1>11, <3>1 DEF AnswersAndHands, Second
  <2>5. \A k \in 1..subs : PhaseOf(k)' = IF k = m THEN "held"
                                         ELSE IF k = h THEN "answered" ELSE PhaseOf(k)
    BY <1>11, PhaseView DEF AnswersAndHands, Change, First, Second
  <2>6. Phases' = [Phases EXCEPT ![h] = "answered", ![m] = "held"]
    BY <1>1, <2>1, <2>2, <2>5
  <2>7. QED
    BY <1>1, <2>1, <2>2, <2>3, <2>4, <2>6 DEF Rpc!AnswerAndHand, Rpc!Next
<1>12. QED
  BY <1>5, <1>6, <1>7, <1>8, <1>9, <1>10, <1>11 DEF Step

(* The channel implements AgentRpc: a request is handed to the guest at    *)
(* most once and answered at most once, in order, by every entry point of  *)
(* ipod-agent.c.                                                           *)
THEOREM Implements == Spec => ImplementsRpc
<1>1. Init => Rpc!Init
  BY DEF Init, Rpc!Init, Phases
<1>2. Inv /\ Ordered /\ [Next]_agentVars => Ordered' /\ [Rpc!Next]_Phases
  BY NextStep, StepImplements
<1>3. QED
  BY InitInv, NextInv, InitOrdered, <1>1, <1>2, PTL DEF Spec, ImplementsRpc, Rpc!Spec

-----------------------------------------------------------------------------
(* The two queues together *)

Elems(q) == {q[i] : i \in DOMAIN q}
All == Elems(done) \cup Elems(pending)
HeadRouted(q) == \A i \in DOMAIN q : q[i].uiCookie # 0 => i = 1

(* What the properties compare, of items rather than of places: an item    *)
(* keeps its number when it moves from one queue to the other.             *)
Sound ==
    /\ Len(done) + Len(pending) <= QUEUE_MAX
    /\ \A e, f \in All : e.id = f.id => e.sub = f.sub
    /\ \A e \in All : e.uiCookie <= cookies
    /\ \A e, f \in All : e.uiCookie = f.uiCookie /\ e.uiCookie # 0 => e.sub = f.sub
    /\ HeadRouted(pending)

(* Two views of one request.                                               *)
Same(e, f) == e.id = f.id /\ e.sub = f.sub /\ e.uiCookie = f.uiCookie

(* Queues with the same places have the same length.                       *)
LEMMA SameLength ==
    ASSUME NEW q \in Seq(Item), NEW w \in Seq(Item), DOMAIN w = DOMAIN q
    PROVE  Len(w) = Len(q) /\ Len(q) \in Nat
<1>1. Len(q) \in Nat /\ DOMAIN q = 1..Len(q) /\ Len(w) \in Nat /\ DOMAIN w = 1..Len(w)
  BY SeqIs
<1>2. ASSUME NEW a \in Nat, NEW b \in Nat, 1..a = 1..b PROVE a <= b
  <2>1. a = 0 \/ a \in 1..b
    BY <1>2
  <2>2. QED
    BY <2>1
<1>3. Len(w) <= Len(q) /\ Len(q) <= Len(w)
  BY <1>1, <1>2
<1>4. QED
  BY <1>1, <1>3

(* A step that only drops, moves or rewrites items.                        *)
LEMMA KeptSound ==
    ASSUME Sound, Len(done') + Len(pending') <= Len(done) + Len(pending), Inv, Inv',
           cookies' = cookies, \A e \in All' : \E f \in All : Same(e, f), HeadRouted(pending')
    PROVE  Sound'
<1>1. Len(done') + Len(pending') <= QUEUE_MAX
  <2>1. /\ Len(done) \in Nat /\ Len(pending) \in Nat /\ Len(done') \in Nat /\ Len(pending') \in Nat
    BY SeqIs DEF Inv, TypeOK
  <2>2. QED
    BY <2>1, AgentConstants DEF Sound
<1>2. ASSUME NEW e \in All', NEW f \in All', e.id = f.id PROVE e.sub = f.sub
  BY <1>2 DEF Sound, Same
<1>3. ASSUME NEW e \in All' PROVE e.uiCookie <= cookies'
  BY DEF Sound, Same
<1>4. ASSUME NEW e \in All', NEW f \in All', e.uiCookie = f.uiCookie, e.uiCookie # 0
      PROVE  e.sub = f.sub
  BY <1>4 DEF Sound, Same
<1>5. QED
  BY <1>1, <1>2, <1>3, <1>4 DEF Sound

(* The tail of a queue whose head alone may be routed.                     *)
LEMMA TailKeeps ==
    ASSUME NEW q \in Seq(Item), q # << >>, HeadRouted(q)
    PROVE  /\ Tail(q) \in Seq(Item) /\ Len(Tail(q)) = Len(q) - 1 /\ Len(q) \in Nat \ {0}
           /\ Head(q) \in Elems(q) /\ Elems(Tail(q)) \subseteq Elems(q)
           /\ \A i \in DOMAIN Tail(q) : Tail(q)[i].uiCookie = 0
<1>1. /\ Len(q) \in Nat \ {0} /\ DOMAIN q = 1..Len(q) /\ 1 \in DOMAIN q /\ Head(q) = q[1]
  BY FirstProperties
<1>2. /\ Tail(q) \in Seq(Item) /\ Len(Tail(q)) = Len(q) - 1
      /\ \A i \in 1..Len(Tail(q)) : Tail(q)[i] = q[i + 1]
  BY HeadTailIs
<1>3. DOMAIN Tail(q) = 1..(Len(q) - 1)
  BY <1>2, SeqIs
<1>4. ASSUME NEW i \in DOMAIN Tail(q)
      PROVE  i + 1 \in DOMAIN q /\ Tail(q)[i] = q[i + 1] /\ i + 1 # 1
  BY <1>1, <1>2, <1>3
<1>5. Elems(Tail(q)) \subseteq Elems(q)
  BY <1>4 DEF Elems
<1>6. Head(q) \in Elems(q)
  BY <1>1 DEF Elems
<1>7. \A i \in DOMAIN Tail(q) : Tail(q)[i].uiCookie = 0
  BY <1>4 DEF HeadRouted
<1>8. QED
  BY <1>1, <1>2, <1>5, <1>6, <1>7

(* A queue with one item more at the end.                                  *)
LEMMA AppendKeeps ==
    ASSUME NEW q \in Seq(Item), NEW e \in Item
    PROVE  /\ Append(q, e) \in Seq(Item) /\ Len(Append(q, e)) = Len(q) + 1
           /\ Elems(Append(q, e)) = Elems(q) \cup {e}
           /\ HeadRouted(q) /\ e.uiCookie = 0 => HeadRouted(Append(q, e))
<1> DEFINE w == Append(q, e)
           k == Len(q) + 1
<1>1. /\ w \in Seq(Item) /\ Len(w) = k /\ w[k] = e
      /\ \A i \in 1..Len(q) : w[i] = q[i]
  BY AppendIs
<1>2. DOMAIN q = 1..Len(q) /\ DOMAIN w = 1..k /\ Len(q) \in Nat
  BY <1>1, SeqIs
<1> HIDE DEF w
<1>3. k \in DOMAIN w /\ DOMAIN w = DOMAIN q \cup {k}
  BY <1>2
<1> HIDE DEF k
<1>4. \A i \in DOMAIN q : w[i] = q[i]
  BY <1>1, <1>2
<1>5. Elems(w) = Elems(q) \cup {e}
  BY <1>1, <1>3, <1>4 DEF Elems
<1>6. HeadRouted(q) /\ e.uiCookie = 0 => HeadRouted(w)
  BY <1>1, <1>3, <1>4 DEF HeadRouted
<1>7. QED
  BY <1>1, <1>5, <1>6 DEF w, k

(* A queue with one item less.                                             *)
LEMMA RemoveKeeps ==
    ASSUME NEW q \in Seq(Item), NEW i \in DOMAIN q
    PROVE  /\ Len(DeleteLink(q, i)) = Len(q) - 1 /\ Len(q) \in Nat
           /\ Elems(DeleteLink(q, i)) \subseteq Elems(q)
           /\ HeadRouted(q) => HeadRouted(DeleteLink(q, i))
<1> DEFINE w == DeleteLink(q, i)
<1>1. /\ Len(q) \in Nat /\ DOMAIN q = 1..Len(q) /\ i \in 1..Len(q)
  BY SeqIs
<1>2. /\ w \in Seq(Item) /\ Len(w) = Len(q) - 1
      /\ \A k \in 1..(Len(q) - 1) : w[k] = IF k < i THEN q[k] ELSE q[k + 1]
  BY <1>1, DeleteLinkProperties, Zenon
<1> HIDE DEF w
<1>3. DOMAIN w = 1..(Len(q) - 1)
  BY <1>2, SeqIs
<1>4. ASSUME NEW k \in DOMAIN w
      PROVE  \/ k \in DOMAIN q /\ w[k] = q[k]
             \/ k + 1 \in DOMAIN q /\ w[k] = q[k + 1] /\ k + 1 # 1
  BY <1>1, <1>2, <1>3
<1>5. Elems(w) \subseteq Elems(q)
  BY <1>4 DEF Elems
<1>6. HeadRouted(q) => HeadRouted(w)
  BY <1>4 DEF HeadRouted
<1>7. QED
  BY <1>1, <1>2, <1>5, <1>6 DEF w

(* A queue whose items are rewritten in place.                             *)
LEMMA RewriteKeeps ==
    ASSUME NEW q, NEW w, DOMAIN w = DOMAIN q, \A i \in DOMAIN q : Same(w[i], q[i])
    PROVE  /\ \A e \in Elems(w) : \E f \in Elems(q) : Same(e, f)
           /\ HeadRouted(q) => HeadRouted(w)
BY DEF Elems, HeadRouted, Same

(* The head moved to done, with any outcome, and the rest of pending       *)
(* marked or not.                                                          *)
LEMMA RetireSound ==
    ASSUME Inv, Inv', Sound, Serving, NEW s, NEW resp, cookies' = cookies,
           done' = Append(done, [Head(pending) EXCEPT !.status = s, !.response = resp]),
           s \in Statuses, resp \in Responses,
           DOMAIN pending' = DOMAIN Tail(pending),
           \A i \in DOMAIN Tail(pending) : Same(pending'[i], Tail(pending)[i])
    PROVE  Sound'
<1> DEFINE e == [Head(pending) EXCEPT !.status = s, !.response = resp]
           T == Tail(pending)
<1>1. /\ T \in Seq(Item) /\ Len(T) = Len(pending) - 1 /\ Len(pending) \in Nat \ {0}
      /\ Head(pending) \in Elems(pending) /\ Elems(T) \subseteq Elems(pending)
      /\ \A i \in DOMAIN T : T[i].uiCookie = 0
  BY TailKeeps DEF Inv, TypeOK, Serving, Sound
<1>2. e \in Item /\ Same(e, Head(pending))
  <2>1. Head(pending) \in Item
    BY HeadTailIs DEF Inv, TypeOK, Serving
  <2>2. QED
    BY <2>1, Zenon DEF Item, Same
<1>3. done \in Seq(Item) /\ Len(done) \in Nat /\ done' = Append(done, e)
  BY SeqIs DEF Inv, TypeOK
<1> HIDE DEF e, T
<1>4. Len(done') = Len(done) + 1 /\ Elems(done') = Elems(done) \cup {e}
  BY <1>2, <1>3, AppendKeeps
<1>5. DOMAIN pending' = DOMAIN T /\ \A i \in DOMAIN T : Same(pending'[i], T[i])
  BY DEF T
<1>6. Len(pending') = Len(T)
  <2>1. pending' \in Seq(Item)
    BY DEF Inv, TypeOK
  <2>2. QED
    BY <1>1, <1>5, <2>1, SameLength
<1>7. HeadRouted(pending') /\ \A f \in Elems(pending') : \E g \in Elems(T) : Same(f, g)
  <2>1. HeadRouted(T)
    BY <1>1 DEF HeadRouted
  <2>2. QED
    BY <1>5, <2>1, RewriteKeeps
<1>8. \A f \in Elems(done) : Same(f, f)
  BY DEF Same
<1>9. \A f \in All' : \E g \in All : Same(f, g)
  BY <1>1, <1>2, <1>4, <1>7, <1>8 DEF All
<1>10. Len(done') + Len(pending') <= Len(done) + Len(pending)
  BY <1>1, <1>3, <1>4, <1>6
<1>11. QED
  BY <1>7, <1>9, <1>10, KeptSound

(* A step that rewrites pending in place.                                  *)
LEMMA RewriteSound ==
    ASSUME Inv, Inv', Sound, UNCHANGED <<done, cookies>>, DOMAIN pending' = DOMAIN pending,
           \A i \in DOMAIN pending : Same(pending'[i], pending[i])
    PROVE  Sound'
<1>1. HeadRouted(pending') /\ \A f \in Elems(pending') : \E g \in Elems(pending) : Same(f, g)
  BY RewriteKeeps DEF Sound
<1>2. \A f \in Elems(done) : Same(f, f)
  BY DEF Same
<1>3. \A f \in All' : \E g \in All : Same(f, g)
  BY <1>1, <1>2 DEF All
<1>4. Len(done') + Len(pending') <= Len(done) + Len(pending)
  <2>1. pending \in Seq(Item) /\ pending' \in Seq(Item) /\ done \in Seq(Item)
    BY DEF Inv, TypeOK
  <2>2. Len(pending') = Len(pending) /\ Len(pending) \in Nat /\ Len(done) \in Nat
    BY <2>1, SameLength, SeqIs
  <2>3. QED
    BY <2>2
<1>5. QED
  BY <1>1, <1>3, <1>4, KeptSound

(* A step that drops an item from one of the queues.                       *)
LEMMA DropSound ==
    ASSUME Inv, Inv', Sound, cookies' = cookies, HeadRouted(pending'),
           Elems(done') \subseteq Elems(done), Elems(pending') \subseteq Elems(pending),
           Len(done') <= Len(done), Len(pending') <= Len(pending)
    PROVE  Sound'
<1>1. \A f \in All : Same(f, f)
  BY DEF Same
<1>2. \A f \in All' : \E g \in All : Same(f, g)
  BY <1>1 DEF All
<1>3. Len(done') + Len(pending') <= Len(done) + Len(pending)
  <2>1. Len(pending') \in Nat /\ Len(pending) \in Nat /\ Len(done) \in Nat /\ Len(done') \in Nat
    BY SeqIs DEF Inv, TypeOK
  <2>2. QED
    BY <2>1
<1>4. QED
  BY <1>2, <1>3, KeptSound

(* A routed head gets a cookie no item has carried.                        *)
LEMMA RouteSound ==
    ASSUME Inv, Inv', Sound, Ordered, Serving, ~Routed, NEW h, h.id = pending[1].id,
           h.sub = pending[1].sub, h.uiCookie = cookies + 1,
           pending' = [pending EXCEPT ![1] = h], done' = done, cookies' = cookies + 1
    PROVE  Sound'
<1>1. /\ 1 \in DOMAIN pending /\ pending \in Seq(Item) /\ Head(pending) = pending[1]
      /\ cookies \in Nat /\ pending[1] \in All
  <2>1. pending \in Seq(Item) /\ cookies \in Nat
    BY DEF Inv, TypeOK
  <2>2. 1 \in DOMAIN pending /\ Head(pending) = pending[1]
    BY <2>1, FirstProperties DEF Serving
  <2>3. QED
    BY <2>1, <2>2 DEF All, Elems
<1>2. /\ DOMAIN pending' = DOMAIN pending
      /\ \A i \in DOMAIN pending : pending'[i] = IF i = 1 THEN h ELSE pending[i]
  BY <1>1
<1>3. Len(pending') = Len(pending)
  <2>1. pending' \in Seq(Item)
    BY DEF Inv, TypeOK
  <2>2. QED
    BY <1>1, <1>2, <2>1, SameLength
<1>4. \A f \in All' : f = h \/ f \in All
  BY <1>2 DEF All, Elems
<1>5. \A f \in All : f.uiCookie <= cookies /\ f.uiCookie \in Nat
  <2>1. \A f \in All : f \in Item
    <3>1. pending \in Seq(Item) /\ done \in Seq(Item)
      BY DEF Inv, TypeOK
    <3>2. QED
      BY <3>1, SeqIs DEF All, Elems
  <2>2. QED
    BY <2>1 DEF Sound, Item
<1>6. \A f \in All : f.uiCookie # cookies + 1 /\ f.uiCookie <= cookies + 1
  BY <1>1, <1>5
<1>7. ASSUME NEW e \in All', NEW f \in All', e.id = f.id PROVE e.sub = f.sub
  BY <1>1, <1>4, <1>7 DEF Sound
<1>8. ASSUME NEW e \in All', NEW f \in All', e.uiCookie = f.uiCookie, e.uiCookie # 0
      PROVE  e.sub = f.sub
  BY <1>4, <1>6, <1>8 DEF Sound
<1>9. ASSUME NEW e \in All' PROVE e.uiCookie <= cookies'
  <2>1. CASE e = h
    BY <1>1, <2>1
  <2>2. CASE e \in All
    BY <1>6, <2>2
  <2>3. QED
    BY <1>4, <2>1, <2>2
<1>10. HeadRouted(pending')
  BY <1>2 DEF Sound, HeadRouted
<1>11. QED
  BY <1>3, <1>7, <1>8, <1>9, <1>10 DEF Sound

(* A new request has an id neither queue holds, and room was left for it.  *)
LEMMA SubmitSound ==
    ASSUME Inv, Sound, NEW id \in Ids, MayQueue(id), pending' = Append(pending, NewItem(id)),
           UNCHANGED <<done, cookies>>
    PROVE  Sound'
<1> DEFINE e == NewItem(id)
<1>1. e \in Item /\ e.id = id /\ e.uiCookie = 0
  BY NewItemType DEF Inv, NewItem
<1>2. pending' = Append(pending, e) /\ pending \in Seq(Item) /\ done \in Seq(Item) /\ cookies \in Nat
  BY DEF Inv, TypeOK
<1> HIDE DEF e
<1>3. Len(pending') = Len(pending) + 1 /\ Elems(pending') = Elems(pending) \cup {e} /\ HeadRouted(pending')
  BY <1>1, <1>2, AppendKeeps DEF Sound
<1>4. Len(done') + Len(pending') <= QUEUE_MAX
  <2>1. Len(done) \in Nat /\ Len(pending) \in Nat /\ QUEUE_MAX \in Nat
    BY <1>2, SeqIs, AgentConstants
  <2>2. Len(pending) + Len(done) < QUEUE_MAX
    BY DEF MayQueue
  <2>3. QED
    BY <1>3, <2>1, <2>2
<1>5. \A f \in All : f.id # id
  BY DEF MayQueue, IdInUse, All, Elems
<1>6. \A f \in All' : f = e \/ f \in All
  BY <1>3 DEF All
<1>7. ASSUME NEW f \in All', NEW g \in All', f.id = g.id PROVE f.sub = g.sub
  BY <1>1, <1>5, <1>6, <1>7 DEF Sound
<1>8. ASSUME NEW f \in All' PROVE f.uiCookie <= cookies'
  BY <1>1, <1>2, <1>6 DEF Sound
<1>9. ASSUME NEW f \in All', NEW g \in All', f.uiCookie = g.uiCookie, f.uiCookie # 0
      PROVE  f.sub = g.sub
  BY <1>1, <1>6, <1>9 DEF Sound
<1>10. QED
  BY <1>3, <1>4, <1>7, <1>8, <1>9 DEF Sound

(* POLL's mark changes nothing the properties compare.                     *)
LEMMA MarkSame ==
    ASSUME NEW q \in Seq(Item)
    PROVE  /\ DOMAIN MarkDispatched(q) = DOMAIN q
           /\ \A i \in DOMAIN q : Same(MarkDispatched(q)[i], q[i])
<1>1. CASE q = << >>
  BY <1>1 DEF MarkDispatched, Same
<1>2. CASE q # << >>
  <2> DEFINE h == [q[1] EXCEPT !.dispatched = TRUE]
  <2>1. 1 \in DOMAIN q /\ q[1] \in Item
    BY <1>2, FirstProperties
  <2>2. Same(h, q[1]) /\ MarkDispatched(q) = [q EXCEPT ![1] = h]
    BY <1>2, <2>1 DEF Item, Same, MarkDispatched
  <2> HIDE DEF h
  <2>3. /\ DOMAIN [q EXCEPT ![1] = h] = DOMAIN q
        /\ \A i \in DOMAIN q : [q EXCEPT ![1] = h][i] = IF i = 1 THEN h ELSE q[i]
    BY <2>1
  <2>4. \A i \in DOMAIN q : Same(q[i], q[i])
    BY DEF Same
  <2>5. QED
    BY <2>2, <2>3, <2>4
<1>3. QED
  BY <1>1, <1>2

(* Every operation keeps the queues sound: one step per operation.         *)
LEMMA NextSound ==
    ASSUME Inv, Inv', Ordered, Sound, [Next]_agentVars
    PROVE  Sound'
<1> USE AgentConstants
<1>0. pending \in Seq(Item) /\ done \in Seq(Item) /\ pending' \in Seq(Item) /\ HeadRouted(pending)
      /\ Len(pending) \in Nat /\ Len(done) \in Nat
  BY SeqIs DEF Inv, TypeOK, Sound
<1>1. CASE UNCHANGED <<pending, done, cookies>>
  BY <1>1, RewriteSound DEF Same
<1>2. ASSUME NEW id \in Ids, NEW r \in {0, -1}, Submit(id, r) PROVE Sound'
  <2>1. CASE MayQueue(id)
    BY <1>2, <2>1, SubmitSound DEF Submit
  <2>2. QED
    BY <1>1, <1>2, <2>1 DEF Submit, agentVars
<1>3. ASSUME NEW i \in DOMAIN pending, CancelPending(i) PROVE Sound'
  <2>1. pending' = DeleteLink(pending, i) /\ done' = done /\ cookies' = cookies
    BY <1>3 DEF CancelPending
  <2>2. Len(pending') = Len(pending) - 1 /\ Elems(pending') \subseteq Elems(pending) /\ HeadRouted(pending')
    BY <1>0, <2>1, RemoveKeeps
  <2>3. Len(pending') <= Len(pending) /\ Len(done') <= Len(done) /\ Elems(done') \subseteq Elems(done)
    BY <1>0, <2>1, <2>2
  <2>4. QED
    BY <2>1, <2>2, <2>3, DropSound
<1>4. ASSUME NEW i \in DOMAIN done, CancelDone(i) PROVE Sound'
  <2>1. done' = DeleteLink(done, i) /\ pending' = pending /\ cookies' = cookies
    BY <1>4 DEF CancelDone
  <2>2. Len(done') = Len(done) - 1 /\ Elems(done') \subseteq Elems(done)
    BY <1>0, <2>1, RemoveKeeps
  <2>3. Len(pending') <= Len(pending) /\ Len(done') <= Len(done) /\ Elems(pending') \subseteq Elems(pending)
    BY <1>0, <2>1, <2>2
  <2>4. QED
    BY <1>0, <2>1, <2>2, <2>3, DropSound
<1>5. CASE TakeResult
  <2>1. done' = Tail(done) /\ pending' = pending /\ cookies' = cookies /\ done # << >>
    BY <1>5 DEF TakeResult
  <2>2. Len(done') = Len(done) - 1 /\ Elems(done') \subseteq Elems(done)
    <3>1. /\ Len(Tail(done)) = Len(done) - 1
          /\ \A k \in 1..Len(Tail(done)) : Tail(done)[k] = done[k + 1]
          /\ DOMAIN Tail(done) = 1..Len(Tail(done)) /\ DOMAIN done = 1..Len(done)
      BY <1>0, <2>1, HeadTailIs, SeqIs
    <3>2. \A k \in DOMAIN Tail(done) : k + 1 \in DOMAIN done /\ Tail(done)[k] = done[k + 1]
      BY <1>0, <3>1
    <3>3. QED
      BY <2>1, <3>1, <3>2 DEF Elems
  <2>3. Len(pending') <= Len(pending) /\ Len(done') <= Len(done) /\ Elems(pending') \subseteq Elems(pending)
    BY <1>0, <2>1, <2>2
  <2>4. QED
    BY <1>0, <2>1, <2>2, <2>3, DropSound
<1>6. CASE Reset
  <2>1. pending' = << >> /\ done' = << >> /\ cookies' = cookies
    BY <1>6 DEF Reset
  <2>2. Elems(<< >>) = {} /\ HeadRouted(<< >>) /\ Len(<< >>) = 0
    BY EmptyProperties DEF Elems, HeadRouted
  <2>3. QED
    BY <1>0, <2>1, <2>2, DropSound
<1>7. ASSUME Serving, NEW s \in Statuses, NEW resp \in Responses, Retire(pending, done, s, resp),
             cookies' = cookies
      PROVE  Sound'
  <2>1. \A i \in DOMAIN Tail(pending) : Same(Tail(pending)[i], Tail(pending)[i])
    BY DEF Same
  <2>2. QED
    BY <1>7, <2>1, RetireSound, Zenon DEF Retire
<1>8. ASSUME NEW r, Hello(r) PROVE Sound'
  <2>1. CASE Retire(pending, done, ECONNRESET, << >>) /\ Serving /\ cookies' = cookies
    <3>1. ECONNRESET \in Statuses /\ << >> \in Responses
      BY ResponseProperties DEF Statuses
    <3>2. QED
      BY <1>7, <2>1, <3>1
  <2>2. QED
    BY <1>1, <1>8, <2>1 DEF Hello, AbandonLost, agentVars
<1>9. ASSUME NEW tok, NEW r, Poll(tok, r) PROVE Sound'
  <2>1. CASE OwnsSession(tok) /\ Expired
    <3>1. ETIMEDOUT \in Statuses /\ << >> \in Responses /\ Serving
      BY <2>1, ResponseProperties DEF Statuses, Expired, Routed
    <3>2. Tail(pending) \in Seq(Item)
      BY <1>0, <3>1, HeadTailIs DEF Serving
    <3>3. /\ pending' = MarkDispatched(Tail(pending)) /\ cookies' = cookies
          /\ done' = Append(done, [Head(pending) EXCEPT !.status = ETIMEDOUT, !.response = << >>])
      BY <1>9, <2>1 DEF Poll
    <3>4. /\ DOMAIN pending' = DOMAIN Tail(pending)
          /\ \A i \in DOMAIN Tail(pending) : Same(pending'[i], Tail(pending)[i])
      BY <3>2, <3>3, MarkSame
    <3>5. QED
      BY <3>1, <3>3, <3>4, RetireSound, Zenon
  <2>2. CASE OwnsSession(tok) /\ ~Expired
    <3>1. pending' = MarkDispatched(pending) /\ UNCHANGED <<done, cookies>>
      BY <1>9, <2>2 DEF Poll
    <3>2. QED
      BY <1>0, <3>1, MarkSame, RewriteSound
  <2>3. CASE ~OwnsSession(tok)
    BY <1>1, <1>9, <2>3 DEF Poll, agentVars
  <2>4. QED
    BY <2>1, <2>2, <2>3
<1>10. ASSUME Serving, NEW resp, pending' = [pending EXCEPT ![1].response = resp],
              UNCHANGED <<done, cookies>>
       PROVE  Sound'
  <2> DEFINE h == [pending[1] EXCEPT !.response = resp]
  <2>1. 1 \in DOMAIN pending /\ pending[1] \in Item
    BY <1>0, <1>10, FirstProperties DEF Serving
  <2>2. Same(h, pending[1]) /\ pending' = [pending EXCEPT ![1] = h]
    BY <1>10, <2>1 DEF Item, Same
  <2> HIDE DEF h
  <2>3. /\ DOMAIN pending' = DOMAIN pending
        /\ \A i \in DOMAIN pending : pending'[i] = IF i = 1 THEN h ELSE pending[i]
    BY <2>1, <2>2
  <2>4. \A i \in DOMAIN pending : Same(pending[i], pending[i])
    BY DEF Same
  <2>5. QED
    BY <1>10, <2>2, <2>3, <2>4, RewriteSound
<1>11. ASSUME NEW may, NEW off, NEW c, NEW r, WriteWindow(may, off, c, r) PROVE Sound'
  <2>1. CASE Serving /\ UNCHANGED <<done, cookies>>
             /\ pending' = [pending EXCEPT ![1].response = IF off = 0 THEN <<c>> ELSE Append(@, c)]
    BY <1>10, <2>1
  <2>2. QED
    BY <1>1, <1>11, <2>1 DEF WriteWindow, MayWrite, agentVars
<1>12. ASSUME NEW may, NEW r, WriteEmpty(may, r) PROVE Sound'
  BY <1>1, <1>10, <1>12 DEF WriteEmpty, agentVars
<1>13. ASSUME NEW may, NEW s \in {"ok", "eio"}, NEW r, Done(may, s, r) PROVE Sound'
  <2>1. CASE may /\ Serving
    <3>1. Head(pending) \in Item
      BY <1>0, <2>1, HeadTailIs DEF Serving
    <3>2. Head(pending).response \in Responses /\ s \in Statuses
      BY <3>1 DEF Item, Statuses
    <3>3. QED
      BY <1>7, <1>13, <2>1, <3>2 DEF Done
  <2>2. QED
    BY <1>1, <1>13, <2>1 DEF Done, agentVars
<1>14. ASSUME NEW tok, NEW pid \in Pids, NEW r, UiRoute(tok, pid, r) PROVE Sound'
  <2>1. CASE RootMay(tok) /\ Serving
    <3> DEFINE h == [pending[1] EXCEPT !.uiPid = pid, !.uiCookie = cookies + 1, !.uiAge = 0]
    <3>1. pending[1] \in Item
      BY <1>0, <2>1, FirstProperties DEF Serving
    <3>2. h.id = pending[1].id /\ h.sub = pending[1].sub /\ h.uiCookie = cookies + 1
      BY <3>1 DEF Item
    <3>3. pending' = [pending EXCEPT ![1] = h] /\ done' = done /\ cookies' = cookies + 1
      BY <1>14, <2>1 DEF UiRoute
    <3> HIDE DEF h
    <3>4. QED
      BY <2>1, <3>2, <3>3, RouteSound DEF RootMay
  <2>2. QED
    BY <1>1, <1>14, <2>1 DEF UiRoute, agentVars
<1>15. CASE Tick
  <2>1. ASSUME NEW item \in Item PROVE Same(AgeOf(item), item)
    BY DEF AgeOf, Item, Same
  <2>2. \A i \in DOMAIN pending : pending[i] \in Item
    BY <1>0, SeqIs
  <2>3. pending' = [i \in DOMAIN pending |-> AgeOf(pending[i])] /\ UNCHANGED <<done, cookies>>
    BY <1>15 DEF Tick
  <2>4. QED
    BY <2>1, <2>2, <2>3, RewriteSound
<1>16. QED
  BY <1>1, <1>2, <1>3, <1>4, <1>5, <1>6, <1>8, <1>9, <1>11, <1>12, <1>13, <1>14, <1>15
  DEF Next, Cancel, agentVars

(* At first both queues are empty.                                         *)
LEMMA InitSound == Init => Sound
<1> SUFFICES ASSUME Init PROVE Sound
  OBVIOUS
<1>1. Elems(<< >>) = {} /\ HeadRouted(<< >>) /\ Len(<< >>) = 0
  BY EmptyProperties DEF Elems, HeadRouted
<1>2. All = {} /\ Len(done) = 0 /\ Len(pending) = 0 /\ HeadRouted(pending)
  BY <1>1 DEF Init, All
<1>3. QED
  BY <1>2, AgentConstants DEF Sound

(* A place of done \o pending shows an item of one of the queues, the head *)
(* of pending or an earlier one if it is routed.                           *)
LEMMA ItemsView ==
    ASSUME Inv, Sound
    PROVE  /\ Len(Items) = Len(done) + Len(pending)
           /\ \A i \in DOMAIN Items : /\ i \in Nat /\ Items[i] \in All /\ Items[i].sub \in Nat
                                      /\ Items[i].uiCookie # 0 => i <= Len(done) + 1
<1>1. /\ Len(done) \in Nat /\ DOMAIN done = 1..Len(done)
      /\ Len(pending) \in Nat /\ DOMAIN pending = 1..Len(pending)
      /\ pending \in Seq(Item) /\ done \in Seq(Item)
  BY SeqIs DEF Inv, TypeOK
<1>2. /\ Items \in Seq(Item) /\ Len(Items) = Len(done) + Len(pending)
      /\ \A i \in 1..(Len(done) + Len(pending)) :
            Items[i] = IF i <= Len(done) THEN done[i] ELSE pending[i - Len(done)]
  BY <1>1, ConcatIs DEF Items
<1>3. DOMAIN Items = 1..(Len(done) + Len(pending))
  BY <1>2, SeqIs
<1>4. ASSUME NEW i \in DOMAIN Items
      PROVE  /\ i \in Nat /\ Items[i] \in All /\ Items[i].sub \in Nat
             /\ Items[i].uiCookie # 0 => i <= Len(done) + 1
  <2>1. i \in Nat /\ Items[i] \in Item
    BY <1>1, <1>2, <1>3, SeqIs
  <2>2. CASE i <= Len(done)
    <3>1. i \in DOMAIN done /\ Items[i] = done[i] /\ i <= Len(done) + 1
      BY <1>1, <1>2, <1>3, <2>2
    <3>2. QED
      BY <2>1, <3>1 DEF All, Elems, Item
  <2>3. CASE ~(i <= Len(done))
    <3>1. i - Len(done) \in DOMAIN pending /\ Items[i] = pending[i - Len(done)]
      BY <1>1, <1>2, <1>3, <2>3
    <3>2. Items[i] \in All /\ Items[i].sub \in Nat
      BY <2>1, <3>1 DEF All, Elems, Item
    <3>3. Items[i].uiCookie # 0 => i - Len(done) = 1
      BY <3>1 DEF Sound, HeadRouted
    <3>4. QED
      BY <1>1, <2>1, <3>2, <3>3
  <2>4. QED
    BY <2>2, <2>3
<1>5. QED
  BY <1>2, <1>4

(* Two places show two requests.                                           *)
LEMMA TwoPlaces ==
    ASSUME Inv, Ordered, Sound, NEW i \in DOMAIN Items, NEW j \in DOMAIN Items, i # j
    PROVE  Items[i].sub # Items[j].sub
<1>1. i \in Nat /\ j \in Nat /\ Items[i].sub \in Nat /\ Items[j].sub \in Nat
  BY ItemsView
<1>2. /\ i < j => Items[i].sub < Items[j].sub
      /\ j < i => Items[j].sub < Items[i].sub
  BY OrderedItems DEF AnsweredInOrder
<1>3. QED
  BY <1>1, <1>2

-----------------------------------------------------------------------------
(* The queues together never outgrow IT_AGENT_QUEUE_MAX and no id is in    *)
(* them twice, though submit alone checks and items move from one to the   *)
(* other by DONE, HELLO and POLL.                                          *)
THEOREM QueuesAlwaysSound == Spec => []QueuesSound
<1>1. ASSUME Inv, Ordered, Sound PROVE QueuesSound
  <2>1. Len(Items) <= QUEUE_MAX
    BY <1>1, ItemsView DEF Sound
  <2>2. ASSUME NEW i \in DOMAIN Items, NEW j \in DOMAIN Items, i # j PROVE Items[i].id # Items[j].id
    <3>1. Items[i].sub # Items[j].sub /\ Items[i] \in All /\ Items[j] \in All
      BY <1>1, <2>2, TwoPlaces, ItemsView
    <3>2. QED
      BY <1>1, <3>1 DEF Sound
  <2>3. QED
    BY <2>1, <2>2 DEF QueuesSound
<1>2. Inv /\ Ordered /\ [Next]_agentVars => Ordered'
  BY NextStep
<1>3. Inv /\ Inv' /\ Ordered /\ Sound /\ [Next]_agentVars => Sound'
  BY NextSound
<1>4. QED
  BY InitInv, NextInv, InitOrdered, InitSound, <1>1, <1>2, <1>3, PTL DEF Spec

(* A cookie names one request for ever: only the request being served, or  *)
(* one already answered, carries one, and no two carry the same, so a late *)
(* answer under a cookie reaches no other request (QC_UI_ROUTE and the     *)
(* cookie check of the other QC_UI_ calls).                                *)
THEOREM CookiesAlwaysDistinct == Spec => []CookiesDistinct
<1>1. ASSUME Inv, Ordered, Sound PROVE CookiesDistinct
  <2> SUFFICES ASSUME NEW i \in DOMAIN Items, Items[i].uiCookie # 0
               PROVE  /\ i <= Len(done) + 1 /\ Items[i].uiCookie <= cookies
                      /\ \A j \in DOMAIN Items : i # j => Items[i].uiCookie # Items[j].uiCookie
    BY DEF CookiesDistinct
  <2>1. i <= Len(done) + 1 /\ Items[i].uiCookie <= cookies
    BY <1>1, ItemsView DEF Sound
  <2>2. ASSUME NEW j \in DOMAIN Items, i # j PROVE Items[i].uiCookie # Items[j].uiCookie
    <3>1. Items[i].sub # Items[j].sub /\ Items[i] \in All /\ Items[j] \in All
      BY <1>1, <2>2, TwoPlaces, ItemsView
    <3>2. QED
      BY <1>1, <3>1 DEF Sound
  <2>3. QED
    BY <2>1, <2>2
<1>2. Inv /\ Ordered /\ [Next]_agentVars => Ordered'
  BY NextStep
<1>3. Inv /\ Inv' /\ Ordered /\ Sound /\ [Next]_agentVars => Sound'
  BY NextSound
<1>4. QED
  BY InitInv, NextInv, InitOrdered, InitSound, <1>1, <1>2, <1>3, PTL DEF Spec

-----------------------------------------------------------------------------
(* What the channel's operations do, as the guest sees it *)

HeadItem == Head(pending)
Held == Serving /\ HeadItem.dispatched

(* Only a held request is routed.                                          *)
RoutedIsHeld == \A i \in DOMAIN pending : pending[i].uiCookie # 0 => pending[i].dispatched

(* What a front end may take as the guest's answer to request n.           *)
IsAnswer(n, resp) ==
    \E i \in DOMAIN done : done[i].status = "ok" /\ done[i].sub = n /\ done[i].response = resp

(* The head and its fields.                                                *)
LEMMA HeadTypes ==
    ASSUME Inv, Serving
    PROVE  /\ HeadItem \in Item /\ HeadItem = pending[1] /\ 1 \in DOMAIN pending
           /\ HeadItem.sub \in Nat \ {0} /\ HeadItem.uiCookie \in Nat
           /\ HeadItem.response \in Responses /\ HeadItem.dispatched \in BOOLEAN
<1>1. HeadItem \in Item /\ HeadItem = pending[1] /\ 1 \in DOMAIN pending
  BY FirstProperties DEF Inv, TypeOK, Serving, HeadItem
<1>2. QED
  BY <1>1 DEF Item

(* The queue knows the head, which is not free once it is held.            *)
LEMMA HeadKnown ==
    ASSUME Inv, Ordered, Serving
    PROVE  /\ Has(pending, HeadItem.sub) /\ HeadItem.sub \in 1..subs
           /\ HeadItem.dispatched => ~HasFree(pending, HeadItem.sub)
           /\ ~HeadItem.dispatched => HasFree(pending, HeadItem.sub)
           /\ \A resp : ~IsAnswer(HeadItem.sub, resp)
<1>1. HeadItem = pending[1] /\ 1 \in DOMAIN pending /\ HeadItem.sub \in Nat
  BY HeadTypes
<1>2. Has(pending, HeadItem.sub) /\ (~HeadItem.dispatched => HasFree(pending, HeadItem.sub))
  BY <1>1 DEF Has, HasFree
<1>3. HeadItem.dispatched => ~HasFree(pending, HeadItem.sub)
  BY <1>1, OnePlace DEF HasFree, Ordered, Inv, TypeOK
<1>4. \A resp : ~IsAnswer(HeadItem.sub, resp)
  BY <1>1, <1>2 DEF IsAnswer, Ordered, Has
<1>5. QED
  BY <1>2, <1>3, <1>4 DEF Ordered

(* A request that is free is in no answer.                                 *)
LEMMA FreeKnown ==
    ASSUME Inv, Ordered, NEW n, HasFree(pending, n)
    PROVE  n \in 1..subs /\ \A resp : ~IsAnswer(n, resp)
<1>1. Has(pending, n)
  BY DEF HasFree, Has
<1>2. n \in 1..subs
  BY <1>1 DEF Ordered
<1>3. QED
  BY <1>1, <1>2 DEF IsAnswer, Ordered, Has, Inv, TypeOK

(* A routed request is one a daemon was handed.                             *)
LEMMA RoutedHeld ==
    ASSUME Inv, RoutedIsHeld, Routed
    PROVE  Held
BY HeadTypes DEF Routed, RoutedIsHeld, Held, HeadItem

(* The head stays, its response aside.                                     *)
HeadStays ==
    /\ Serving' <=> Serving
    /\ Serving => /\ HeadItem'.sub = HeadItem.sub
                  /\ HeadItem'.dispatched = HeadItem.dispatched
                  /\ HeadItem'.uiPid = HeadItem.uiPid
                  /\ HeadItem'.uiCookie = HeadItem.uiCookie
                  /\ HeadItem'.uiAge = HeadItem.uiAge
    /\ \A n : HasFree(pending', n) => HasFree(pending, n)
    /\ RoutedIsHeld'
    /\ \A n, resp : IsAnswer(n, resp)' <=> IsAnswer(n, resp)
    /\ UNCHANGED <<token, claimed>>

(* A step that leaves the queues and the session alone.                     *)
LEMMA ChannelStays ==
    ASSUME RoutedIsHeld, UNCHANGED <<pending, done, token, claimed>>
    PROVE  HeadStays /\ HeadItem'.response = HeadItem.response
BY DEF HeadStays, Serving, HeadItem, RoutedIsHeld, IsAnswer

(* A window written to the head.                                           *)
LEMMA WriteStays ==
    ASSUME Inv, Serving, RoutedIsHeld, NEW resp \in Responses,
           pending' = [pending EXCEPT ![1].response = resp],
           UNCHANGED <<done, token, claimed>>
    PROVE  HeadStays /\ HeadItem'.response = resp
<1>1. pending \in Seq(Item) /\ HeadItem \in Item /\ HeadItem = pending[1] /\ 1 \in DOMAIN pending
  BY HeadTypes DEF Inv, TypeOK
<1> DEFINE h == [pending[1] EXCEPT !.response = resp]
<1>2. /\ h \in Item /\ h.response = resp /\ h.sub = HeadItem.sub
      /\ h.dispatched = HeadItem.dispatched /\ h.uiPid = HeadItem.uiPid
      /\ h.uiCookie = HeadItem.uiCookie /\ h.uiAge = HeadItem.uiAge
  BY <1>1, Zenon DEF Item
<1>3. pending' = [pending EXCEPT ![1] = h]
  OBVIOUS
<1> HIDE DEF h
<1>4. /\ pending' \in Seq(Item) /\ DOMAIN pending' = DOMAIN pending
      /\ \A i \in DOMAIN pending : pending'[i] = IF i = 1 THEN h ELSE pending[i]
  BY <1>1, <1>2, <1>3, ExceptIs, SeqIs
<1>5. pending' # << >> /\ Head(pending') = h
  BY <1>1, <1>4, EmptyProperties, FirstProperties
<1>6. \A i \in DOMAIN pending : /\ pending'[i].sub = pending[i].sub
                                /\ pending'[i].dispatched = pending[i].dispatched
                                /\ pending'[i].uiCookie = pending[i].uiCookie
  BY <1>1, <1>2, <1>4
<1>7. (\A n : HasFree(pending', n) => HasFree(pending, n)) /\ RoutedIsHeld'
  BY <1>4, <1>6 DEF HasFree, RoutedIsHeld
<1>8. QED
  BY <1>2, <1>5, <1>7, Zenon DEF HeadStays, Serving, HeadItem, IsAnswer

(* Polling again for a request already held.                               *)
LEMMA MarkHeld ==
    ASSUME Inv, Held
    PROVE  MarkDispatched(pending) = pending
<1>1. pending \in Seq(Item) /\ pending[1] \in Item /\ pending[1].dispatched = TRUE /\ 1 \in DOMAIN pending
  BY HeadTypes DEF Inv, TypeOK, Held
<1>2. [pending[1] EXCEPT !.dispatched = TRUE] = pending[1]
  BY <1>1 DEF Item
<1>3. [pending EXCEPT ![1] = pending[1]] = pending
  BY <1>1
<1>4. QED
  BY <1>2, <1>3 DEF MarkDispatched, Held, Serving

-----------------------------------------------------------------------------
(* The head leaves the queue *)

(* No request is held, and none has become free or been answered but x,    *)
(* with answer a.                                                          *)
HeadGone(x, a) ==
    /\ ~Held' /\ ~Routed' /\ RoutedIsHeld'
    /\ \A n : HasFree(pending', n) => HasFree(pending, n)
    /\ \A n, resp : IsAnswer(n, resp)' => IsAnswer(n, resp) \/ (n = x /\ resp = a)

(* What is in done with one more item.                                     *)
LEMMA AnswerAdded ==
    ASSUME Inv, NEW e \in Item, done' = Append(done, e), NEW n, NEW resp, IsAnswer(n, resp)'
    PROVE  IsAnswer(n, resp) \/ (e.status = "ok" /\ n = e.sub /\ resp = e.response)
<1>1. done \in Seq(Item) /\ Len(done) \in Nat
  BY SeqIs DEF Inv, TypeOK
<1>2. PICK i \in DOMAIN done' :
        done'[i].status = "ok" /\ done'[i].sub = n /\ done'[i].response = resp
  BY DEF IsAnswer
<1>3. /\ i \in 1..(Len(done) + 1) /\ DOMAIN done = 1..Len(done)
      /\ i <= Len(done) => done'[i] = done[i]
      /\ i = Len(done) + 1 => done'[i] = e
  BY <1>1, AppendIs, SeqIs
<1>4. CASE i <= Len(done)
  BY <1>1, <1>2, <1>3, <1>4 DEF IsAnswer
<1>5. CASE i = Len(done) + 1
  BY <1>2, <1>3, <1>5, SMTT(20)
<1>6. QED
  BY <1>1, <1>3, <1>4, <1>5

(* A queue without its head.                                               *)
LEMMA TailFree ==
    ASSUME Inv, Ordered, RoutedIsHeld, Serving
    PROVE  /\ Tail(pending) \in Seq(Item)
           /\ \A i \in DOMAIN Tail(pending) : /\ ~Tail(pending)[i].dispatched
                                              /\ Tail(pending)[i].uiCookie = 0
           /\ \A n : HasFree(Tail(pending), n) => HasFree(pending, n)
<1>1. /\ Tail(pending) \in Seq(Item) /\ Len(Tail(pending)) = Len(pending) - 1
      /\ \A i \in 1..(Len(pending) - 1) : Tail(pending)[i] = pending[i + 1]
      /\ Len(pending) \in Nat /\ DOMAIN pending = 1..Len(pending)
  BY HeadTailIs, SeqIs DEF Inv, TypeOK, Serving
<1>2. ASSUME NEW i \in DOMAIN Tail(pending)
      PROVE  ~Tail(pending)[i].dispatched /\ Tail(pending)[i].uiCookie = 0
  <2>1. i + 1 \in DOMAIN pending /\ i + 1 # 1 /\ Tail(pending)[i] = pending[i + 1]
    BY <1>1
  <2>2. QED
    BY <2>1 DEF Inv, HeldIsHead, RoutedIsHeld
<1>3. QED
  BY <1>1, <1>2, HeadFirst

(* The head is retired: nobody holds it, and only an OK makes an answer.    *)
LEMMA RetireGone ==
    ASSUME Inv, Ordered, RoutedIsHeld, Serving, NEW s \in Statuses, NEW resp \in Responses,
           Retire(pending, done, s, resp)
    PROVE  /\ HeadGone(HeadItem.sub, resp)
           /\ s # "ok" => \A n, a : IsAnswer(n, a)' => IsAnswer(n, a)
<1> DEFINE e == [Head(pending) EXCEPT !.status = s, !.response = resp]
<1>1. e \in Item /\ e.status = s /\ e.sub = HeadItem.sub /\ e.response = resp
  BY HeadTypes, Zenon DEF HeadItem, Item
<1>2. pending' = Tail(pending) /\ done' = Append(done, e)
  BY DEF Retire
<1> HIDE DEF e
<1>3. RoutedIsHeld' /\ \A n : HasFree(pending', n) => HasFree(pending, n)
  BY <1>2, TailFree DEF RoutedIsHeld
<1>4. ~Held' /\ ~Routed'
  <2>1. CASE pending' = << >>
    BY <2>1 DEF Held, Routed, Serving
  <2>2. CASE pending' # << >>
    <3>1. 1 \in DOMAIN pending' /\ Head(pending') = pending'[1]
      BY <1>2, <2>2, TailFree, FirstProperties
    <3>2. QED
      BY <3>1, <1>2, TailFree DEF Held, Routed, HeadItem
  <2>3. QED
    BY <2>1, <2>2
<1>5. QED
  BY <1>1, <1>2, <1>3, <1>4, AnswerAdded DEF HeadGone

(* RESET leaves nothing.                                                   *)
LEMMA ResetGone ==
    ASSUME Reset
    PROVE  /\ ~Held' /\ ~Routed' /\ RoutedIsHeld' /\ ~claimed'
           /\ \A n : ~HasFree(pending', n)
           /\ \A n, resp : ~IsAnswer(n, resp)'
BY EmptyProperties DEF Reset, Held, Routed, Serving, RoutedIsHeld, HasFree, IsAnswer

-----------------------------------------------------------------------------
(* POLL and UI_ROUTE *)

(* A queue nobody has touched, once its head is marked.                    *)
LEMMA HandOut ==
    ASSUME NEW q \in Seq(Item), Rising(q), q # << >>,
           \A i \in DOMAIN q : ~q[i].dispatched /\ q[i].uiCookie = 0,
           pending' = MarkDispatched(q)
    PROVE  /\ RoutedIsHeld' /\ Held' /\ ~Routed'
           /\ HeadItem'.sub = Head(q).sub /\ PollAnswer(q) = Head(q).sub /\ HasFree(q, Head(q).sub)
           /\ \A n : HasFree(pending', n) => HasFree(q, n) /\ n # Head(q).sub
<1>1. 1 \in DOMAIN q /\ q[1] \in Item /\ Head(q) = q[1]
  BY FirstProperties
<1> DEFINE h == [q[1] EXCEPT !.dispatched = TRUE]
<1>2. h \in Item /\ h.dispatched /\ h.sub = q[1].sub /\ h.uiCookie = 0
  BY <1>1, Zenon DEF Item
<1>3. pending' = [q EXCEPT ![1] = h]
  BY DEF MarkDispatched
<1> HIDE DEF h
<1>4. /\ pending' \in Seq(Item) /\ DOMAIN pending' = DOMAIN q
      /\ \A i \in DOMAIN q : pending'[i] = IF i = 1 THEN h ELSE q[i]
  BY <1>1, <1>2, <1>3, ExceptIs, SeqIs
<1>5. pending' # << >> /\ Head(pending') = h
  BY <1>1, <1>4, EmptyProperties, FirstProperties
<1>6. RoutedIsHeld'
  BY <1>2, <1>4 DEF RoutedIsHeld
<1>7. PollAnswer(q) = Head(q).sub /\ HasFree(q, Head(q).sub)
  BY <1>1 DEF PollAnswer, HasFree
<1>8. Held' /\ ~Routed' /\ HeadItem'.sub = Head(q).sub
  BY <1>1, <1>2, <1>5 DEF Held, Routed, Serving, HeadItem
<1>9. QED
  BY <1>6, <1>7, <1>8, MarkView

(* The three things POLL does for the session's owner: nothing new, a      *)
(* request handed out, or an overdue one retired with none behind it.      *)
PollSame(r) ==
    /\ UNCHANGED <<pending, done>>
    /\ (Serving => Held) /\ r = IF Held /\ ~Routed THEN HeadItem.sub ELSE 0

PollHands(r) ==
    /\ ~Held \/ Routed
    /\ RoutedIsHeld' /\ Held' /\ ~Routed' /\ HeadItem'.sub = r /\ HasFree(pending, r)
    /\ \A n : HasFree(pending', n) => HasFree(pending, n) /\ n # r
    /\ \A n, resp : IsAnswer(n, resp)' => IsAnswer(n, resp)

PollEnds(r) ==
    /\ r = 0 /\ Routed /\ ~Held' /\ ~Routed' /\ RoutedIsHeld'
    /\ \A n : HasFree(pending', n) => HasFree(pending, n)
    /\ \A n, resp : IsAnswer(n, resp)' => IsAnswer(n, resp)

(* What a poll of the session's owner does is one of the three above.       *)
LEMMA PollDoes ==
    ASSUME Inv, Ordered, RoutedIsHeld, NEW tok, NEW r, OwnsSession(tok), Poll(tok, r)
    PROVE  /\ PollSame(r) \/ PollHands(r) \/ PollEnds(r)
           /\ UNCHANGED <<token, claimed, hellos, cookies, subs>>
<1>0. UNCHANGED <<token, claimed, hellos, cookies, subs>>
  BY DEF Poll
<1>1. CASE Expired
  <2> DEFINE T == Tail(pending)
             e == [Head(pending) EXCEPT !.status = ETIMEDOUT, !.response = << >>]
  <2>1. /\ Serving /\ Routed /\ pending' = MarkDispatched(T) /\ done' = Append(done, e)
        /\ r = PollAnswer(T)
    BY <1>1 DEF Poll, Expired, Routed
  <2>2. ETIMEDOUT \in Statuses /\ ETIMEDOUT # "ok" /\ << >> \in Responses
    BY ResponseProperties DEF Statuses, ETIMEDOUT
  <2>3. e \in Item /\ e.status = ETIMEDOUT
    BY <2>1, <2>2, HeadTypes, Zenon DEF HeadItem, Item
  <2>4. /\ T \in Seq(Item) /\ Rising(T)
        /\ \A i \in DOMAIN T : ~T[i].dispatched /\ T[i].uiCookie = 0
        /\ \A n : HasFree(T, n) => HasFree(pending, n)
    BY <2>1, TailFree, HeadFirst
  <2>5. CASE T = << >>
    <3>1. Retire(pending, done, ETIMEDOUT, << >>) /\ r = 0
      BY <2>1, <2>5 DEF Retire, MarkDispatched, PollAnswer
    <3>2. QED
      BY <1>0, <2>1, <2>2, <3>1, RetireGone DEF HeadGone, PollEnds
  <2>6. CASE T # << >>
    <3> HIDE DEF T, e
    <3>1. \A n, resp : IsAnswer(n, resp)' => IsAnswer(n, resp)
      BY <2>1, <2>2, <2>3, AnswerAdded
    <3>2. /\ RoutedIsHeld' /\ Held' /\ ~Routed' /\ HeadItem'.sub = r /\ HasFree(T, r)
          /\ \A n : HasFree(pending', n) => HasFree(T, n) /\ n # r
      BY <2>1, <2>4, <2>6, HandOut
    <3>3. QED
      BY <1>0, <2>1, <2>4, <3>1, <3>2, Zenon DEF PollHands
  <2>7. QED
    BY <2>5, <2>6
<1>2. CASE ~Expired
  <2>1. pending' = MarkDispatched(pending) /\ done' = done /\ r = PollAnswer(pending)
    BY <1>2 DEF Poll
  <2>2. CASE ~Serving
    BY <1>0, <2>1, <2>2 DEF Serving, Held, MarkDispatched, PollAnswer, PollSame
  <2>3. CASE Held
    BY <1>0, <2>1, <2>3, MarkHeld, SMTT(20) DEF PollSame, PollAnswer, Held, Routed, Serving, HeadItem
  <2>4. CASE Serving /\ ~Held
    <3>1. pending \in Seq(Item) /\ Rising(pending) /\ pending # << >>
          /\ HeadItem = pending[1] /\ 1 \in DOMAIN pending
      BY <2>4, HeadTypes DEF Inv, TypeOK, Ordered, Serving
    <3>2. \A i \in DOMAIN pending : ~pending[i].dispatched /\ pending[i].uiCookie = 0
      BY <2>4, <3>1, SMTT(20) DEF Inv, HeldIsHead, RoutedIsHeld, Held
    <3>3. /\ RoutedIsHeld' /\ Held' /\ ~Routed' /\ HeadItem'.sub = r /\ HasFree(pending, r)
          /\ \A n : HasFree(pending', n) => HasFree(pending, n) /\ n # r
      BY <2>1, <3>1, <3>2, HandOut
    <3>4. \A n, resp : IsAnswer(n, resp)' => IsAnswer(n, resp)
      BY <2>1 DEF IsAnswer
    <3>5. QED
      BY <1>0, <2>4, <3>3, <3>4 DEF PollHands
  <2>5. QED
    BY <2>2, <2>3, <2>4
<1>3. QED
  BY <1>1, <1>2

(* UI_ROUTE changes the head's process, cookie and age.                    *)
LEMMA RouteDoes ==
    ASSUME Inv, Held, ~Routed, RoutedIsHeld, NEW pid \in Pids,
           pending' = [pending EXCEPT ![1] =
                           [@ EXCEPT !.uiPid = pid, !.uiCookie = cookies + 1, !.uiAge = 0]]
    PROVE  /\ Held' /\ Routed' /\ RoutedIsHeld'
           /\ HeadItem'.sub = HeadItem.sub /\ HeadItem'.uiCookie = cookies + 1
           /\ \A n : HasFree(pending', n) => HasFree(pending, n)
<1>1. /\ pending \in Seq(Item) /\ HeadItem \in Item /\ HeadItem = pending[1] /\ 1 \in DOMAIN pending
      /\ HeadItem.dispatched = TRUE /\ cookies \in Nat
  BY HeadTypes DEF Inv, TypeOK, Held
<1> DEFINE h == [pending[1] EXCEPT !.uiPid = pid, !.uiCookie = cookies + 1, !.uiAge = 0]
<1>2. /\ h \in Item /\ h.sub = HeadItem.sub /\ h.dispatched = TRUE
      /\ h.uiCookie = cookies + 1 /\ cookies + 1 # 0
  <2>1. cookies + 1 \in Nat /\ cookies + 1 # 0 /\ 0 \in 0..UI_LIMIT
    BY <1>1, AgentConstants
  <2>2. QED
    BY <1>1, <2>1, Zenon DEF Item
<1>3. pending' = [pending EXCEPT ![1] = h]
  OBVIOUS
<1> HIDE DEF h
<1>4. /\ pending' \in Seq(Item) /\ DOMAIN pending' = DOMAIN pending
      /\ \A i \in DOMAIN pending : pending'[i] = IF i = 1 THEN h ELSE pending[i]
  BY <1>1, <1>2, <1>3, ExceptIs, SeqIs
<1>5. pending' # << >> /\ Head(pending') = h
  BY <1>1, <1>4, EmptyProperties, FirstProperties
<1>6. (\A n : HasFree(pending', n) => HasFree(pending, n)) /\ RoutedIsHeld'
  BY <1>1, <1>2, <1>4 DEF HasFree, RoutedIsHeld
<1>7. QED
  BY <1>2, <1>5, <1>6, Zenon DEF Held, Routed, Serving, HeadItem

-----------------------------------------------------------------------------
(* The front end and the clock *)

(* The head stays, nobody has it, or its session has ended.                *)
Quiet ==
    /\ RoutedIsHeld'
    /\ \A n : HasFree(pending', n) => HasFree(pending, n) \/ n = subs + 1
    /\ \A n, resp : IsAnswer(n, resp)' => IsAnswer(n, resp)
    /\ \/ /\ Held /\ Held' /\ UNCHANGED <<token, claimed>>
          /\ HeadItem'.sub = HeadItem.sub
          /\ HeadItem'.uiPid = HeadItem.uiPid
          /\ HeadItem'.uiCookie = HeadItem.uiCookie
          /\ HeadItem'.response = HeadItem.response
          /\ Expired => Expired'
       \/ ~Held' /\ ~claimed'
       \/ ~Held' /\ (Held => Routed) /\ UNCHANGED <<token, claimed>>

(* Whether a queue's head is held, by its first place.                     *)
LEMMA HeldFirst ==
    ASSUME NEW q \in Seq(Item)
    PROVE  (q # << >> /\ Head(q).dispatched) <=> (1 \in DOMAIN q /\ q[1].dispatched)
BY FirstProperties, EmptyProperties

(* An accepted request goes behind what is served.                          *)
LEMMA SubmitQuiet ==
    ASSUME Inv, Ordered, RoutedIsHeld, NEW id \in Ids, pending' = Append(pending, NewItem(id)),
           UNCHANGED <<done, token, claimed>>
    PROVE  Quiet
<1> DEFINE e == NewItem(id)
<1>1. e \in Item /\ e.dispatched = FALSE /\ e.uiCookie = 0 /\ e.sub = subs + 1
  BY NewItemType DEF Inv, NewItem
<1>2. /\ pending \in Seq(Item) /\ Len(pending) \in Nat /\ DOMAIN pending = 1..Len(pending)
      /\ Rising(pending) /\ subs \in Nat
  BY SeqIs DEF Inv, TypeOK, Ordered
<1>3. pending' = Append(pending, e)
  OBVIOUS
<1> HIDE DEF e
<1>4. /\ pending' \in Seq(Item) /\ DOMAIN pending' = 1..(Len(pending) + 1)
      /\ \A i \in 1..Len(pending) : pending'[i] = pending[i]
      /\ pending'[Len(pending) + 1] = e
  BY <1>1, <1>2, <1>3, AppendIs, SeqIs
<1>5. \A n : HasFree(pending', n) => HasFree(pending, n) \/ n = subs + 1
  <2>1. \A n : Has(pending, n) => n < e.sub
    BY <1>1, <1>2 DEF Ordered
  <2>2. QED
    BY <1>1, <1>2, <1>3, <2>1, AppendView
<1>6. RoutedIsHeld'
  <2>1. ASSUME NEW i \in DOMAIN pending', pending'[i].uiCookie # 0 PROVE pending'[i].dispatched
    <3>1. i \in DOMAIN pending /\ pending'[i] = pending[i]
      BY <1>1, <1>2, <1>4, <2>1
    <3>2. QED
      BY <2>1, <3>1 DEF RoutedIsHeld
  <2>2. QED
    BY <2>1 DEF RoutedIsHeld
<1>7. CASE Serving
  <2>1. pending # << >> /\ 1 \in 1..Len(pending) /\ Head(pending) = pending[1]
    BY <1>2, <1>7, FirstProperties DEF Serving
  <2>2. pending' # << >> /\ Head(pending') = pending'[1]
    BY <1>2, <1>4, <2>1, FirstProperties, EmptyProperties
  <2>3. Serving' /\ HeadItem' = HeadItem
    BY <1>4, <2>1, <2>2 DEF Serving, HeadItem
  <2>4. QED
    BY <1>5, <1>6, <1>7, <2>3 DEF Quiet, Held, Expired, Routed, HeadItem, IsAnswer
<1>8. CASE ~Serving
  <2>1. ~Held'
    BY <1>1, <1>2, <1>4, <1>8, HeldFirst DEF Serving, Held, HeadItem
  <2>2. QED
    BY <1>5, <1>6, <1>8, <2>1 DEF Quiet, Held, IsAnswer
<1>9. QED
  BY <1>7, <1>8

(* A cancelled request is not being served, or its session ends with it.    *)
LEMMA CancelPendingQuiet ==
    ASSUME Inv, Ordered, RoutedIsHeld, NEW i \in DOMAIN pending, CancelPending(i)
    PROVE  Quiet
<1>1. /\ pending \in Seq(Item) /\ Len(pending) \in Nat /\ DOMAIN pending = 1..Len(pending)
      /\ Rising(pending) /\ claimed \in BOOLEAN
  BY SeqIs DEF Inv, TypeOK, Ordered
<1>2. pending' = DeleteLink(pending, i) /\ done' = done
  BY DEF CancelPending
<1>3. /\ pending' \in Seq(Item) /\ DOMAIN pending' = 1..(Len(pending) - 1)
      /\ \A k \in 1..(Len(pending) - 1) :
            pending'[k] = IF k < i THEN pending[k] ELSE pending[k + 1]
  <2>1. /\ DeleteLink(pending, i) \in Seq(Item) /\ Len(DeleteLink(pending, i)) = Len(pending) - 1
        /\ \A k \in 1..(Len(pending) - 1) :
              DeleteLink(pending, i)[k] = IF k < i THEN pending[k] ELSE pending[k + 1]
    BY <1>1, DeleteLinkProperties, Zenon
  <2>2. QED
    BY <1>2, <2>1, SeqIs, Zenon
<1>4. \A n : HasFree(pending', n) => HasFree(pending, n)
  BY <1>1, <1>2, RemoveView
<1>5. RoutedIsHeld'
  <2>1. ASSUME NEW k \in DOMAIN pending' PROVE \E j \in DOMAIN pending : pending'[k] = pending[j]
    BY <1>1, <1>3
  <2>2. QED
    BY <2>1 DEF RoutedIsHeld
<1>6. \A n, resp : IsAnswer(n, resp)' => IsAnswer(n, resp)
  BY <1>2 DEF IsAnswer
<1>7. CASE i = 1
  <2>1. ~Held'
    <3>1. ASSUME 1 \in DOMAIN pending' PROVE ~pending'[1].dispatched
      <4>1. pending'[1] = pending[2] /\ 2 \in DOMAIN pending
        BY <1>1, <1>3, <1>7, <3>1, SMTT(20)
      <4>2. QED
        BY <4>1 DEF Inv, HeldIsHead
    <3>2. QED
      BY <1>3, <3>1, HeldFirst DEF Held, Serving, HeadItem
  <2>2. CASE pending[1].dispatched
    <3>1. ~claimed'
      BY <1>7, <2>2, Zenon DEF CancelPending
    <3>2. QED
      BY <1>4, <1>5, <1>6, <2>1, <3>1 DEF Quiet
  <2>3. CASE ~pending[1].dispatched
    <3>1. ~Held
      BY <1>1, <2>3, HeldFirst DEF Held, Serving, HeadItem
    <3>2. UNCHANGED <<token, claimed>>
      BY <1>1, <1>7, <2>3 DEF CancelPending
    <3>3. QED
      BY <1>4, <1>5, <1>6, <2>1, <3>1, <3>2 DEF Quiet
  <2>4. QED
    BY <2>2, <2>3
<1>8. CASE i # 1
  <2>1. ~pending[i].dispatched
    BY <1>8 DEF Inv, HeldIsHead
  <2>2. UNCHANGED <<token, claimed>>
    BY <1>1, <2>1 DEF CancelPending
  <2>3. 1 \in DOMAIN pending /\ 1 \in DOMAIN pending' /\ pending'[1] = pending[1]
    BY <1>1, <1>3, <1>8
  <2>4. Serving /\ Serving' /\ HeadItem' = HeadItem
    BY <1>1, <1>3, <2>3, FirstProperties, EmptyProperties DEF Serving, HeadItem
  <2>5. QED
    BY <1>4, <1>5, <1>6, <2>2, <2>4 DEF Quiet, Held, Expired, Routed, HeadItem
<1>9. QED
  BY <1>7, <1>8

(* Results are collected, cancelled or cleared.                             *)
LEMMA DoneShrinksQuiet ==
    ASSUME Inv, RoutedIsHeld, UNCHANGED <<pending, token, claimed>>,
           \A i \in DOMAIN done' : \E j \in DOMAIN done : done'[i] = done[j]
    PROVE  Quiet
<1>1. \A n, resp : IsAnswer(n, resp)' => IsAnswer(n, resp)
  BY DEF IsAnswer
<1>2. QED
  BY <1>1 DEF Quiet, RoutedIsHeld, Held, Serving, HeadItem, Expired, Routed

(* Time only ages what is queued.                                           *)
LEMMA TickQuiet ==
    ASSUME Inv, Ordered, RoutedIsHeld, Tick
    PROVE  Quiet
<1> USE AgentConstants
<1>1. ASSUME NEW e \in Item
      PROVE  /\ AgeOf(e) \in Item /\ AgeOf(e).sub = e.sub /\ AgeOf(e).dispatched = e.dispatched
             /\ AgeOf(e).uiPid = e.uiPid /\ AgeOf(e).uiCookie = e.uiCookie
             /\ AgeOf(e).response = e.response
             /\ e.uiAge >= UI_LIMIT => AgeOf(e).uiAge >= UI_LIMIT
  BY DEF AgeOf, Item
<1>2. /\ pending' = [i \in DOMAIN pending |-> AgeOf(pending[i])]
      /\ UNCHANGED <<done, token, claimed>>
  BY DEF Tick
<1>3. pending \in Seq(Item) /\ \A i \in DOMAIN pending : pending[i] \in Item
  BY SeqIs DEF Inv, TypeOK
<1>4. /\ DOMAIN pending' = DOMAIN pending /\ \A i \in DOMAIN pending : pending'[i] = AgeOf(pending[i])
      /\ pending' \in Seq(Item)
  BY <1>1, <1>2, <1>3
<1>5. \A n : HasFree(pending', n) => HasFree(pending, n)
  BY <1>1, <1>3, <1>4 DEF HasFree
<1>6. RoutedIsHeld'
  BY <1>1, <1>3, <1>4 DEF RoutedIsHeld
<1>7. CASE Serving
  <2>1. 1 \in DOMAIN pending /\ HeadItem = pending[1] /\ HeadItem \in Item
    BY <1>7, HeadTypes
  <2>2. Serving' /\ HeadItem' = AgeOf(HeadItem)
    BY <1>4, <2>1, FirstProperties, EmptyProperties DEF Serving, HeadItem
  <2>3. /\ HeadItem'.sub = HeadItem.sub /\ HeadItem'.dispatched = HeadItem.dispatched
        /\ HeadItem'.uiPid = HeadItem.uiPid /\ HeadItem'.uiCookie = HeadItem.uiCookie
        /\ HeadItem'.response = HeadItem.response
        /\ HeadItem.uiAge >= UI_LIMIT => HeadItem'.uiAge >= UI_LIMIT
    BY <1>1, <2>1, <2>2
  <2>4. (Held' <=> Held) /\ (Expired => Expired')
    BY <1>7, <2>2, <2>3 DEF Held, Expired, Routed, HeadItem
  <2>5. QED
    BY <1>2, <1>5, <1>6, <2>3, <2>4 DEF Quiet, IsAnswer
<1>8. CASE ~Serving
  <2>1. ~Held /\ ~Held'
    BY <1>3, <1>4, <1>8, HeldFirst, EmptyProperties DEF Serving, Held, HeadItem
  <2>2. QED
    BY <1>2, <1>5, <1>6, <2>1 DEF Quiet, IsAnswer
<1>9. QED
  BY <1>7, <1>8
=============================================================================
