----------------------------- MODULE RedisProofs ----------------------------
(***************************************************************************)
(* Proofs about RedisClient, for any number of calls and of sessions and   *)
(* any limit.  The queue is what the reader's session has on the wire, or  *)
(* it was failed as a whole and that session takes nothing any more        *)
(* (WireInv): so the head of the queue is the command a reply answers.  A  *)
(* State is used by the poll thread only through the queue or through one  *)
(* batch, each with a reference of its own (HoldInv).                      *)
(*                                                                         *)
(* Proofs about the Redis proxy (P, of MCRedisServer), for any number of  *)
(* sessions, any commands and any limits that RedisServer::Init accepts.   *)
(* A paused session is in the queue (QueueInv), and a round that has given *)
(* nobody anything has yet to see the whole queue, or has met the limit:   *)
(* then commands are outstanding, whose replies arm the next (RoundInv).   *)
(***************************************************************************)
EXTENDS RedisClient, MCRedisServer, SequenceTheorems, WellFoundedInduction, TLAPS

Holders == {"caller", "queue", "submit"}
Statuses == {"Disconnected", "error", "timeout", "reply"}
Items == [call : Calls, status : Statuses, reply : Calls \cup {None}, release : SUBSET Holders]

\* The state is well-typed, and the poll thread is in the middle of a call only while it has
\* a batch to settle.
TypeOK ==
  /\ caller \in [Calls -> {"new", "posted", "suspended", "resumed", "waiting", "done"}]
  /\ posted \subseteq Calls
  /\ iGate \in [Calls -> {"Idle", "Waiting", "Ready"}]
  /\ iStatus \in [Calls -> Statuses]
  /\ pReply \in [Calls -> Calls \cup {None}]
  /\ bReady \in [Calls -> BOOLEAN] /\ iWon \in [Calls -> BOOLEAN]
  /\ iReferences \in [Calls -> SUBSET Holders]
  /\ m_vWait \in Seq(Calls) /\ m_iSwept \in Nat
  /\ m_iReaderSessionId \in Sids \cup {INVALID_SID}
  /\ left \in Seq(Items)
  /\ step \in {"settle", "schedule", "release"} /\ (step # "settle" => left # <<>>)
  /\ sess \in [Sids -> {"none", "open", "closed", "deleted"}]
  /\ wire \in [Sids -> Seq(Calls)]

\* The queue is what the reader's session has on the wire.
WireInv ==
  /\ m_iReaderSessionId = INVALID_SID => m_vWait = <<>>
  /\ \A s \in Sids : m_iReaderSessionId = s =>
       m_vWait = wire[s] \/ (m_vWait = <<>> /\ sess[s] # "open")
  /\ \A s \in Sids : sess[s] = "none" => wire[s] = <<>>

\* A batch gives a call the reply to its own command.
ReplyInv ==
  /\ \A i \in DOMAIN left : left[i].status = "reply" => left[i].reply = left[i].call
  /\ ReplyMatches

\* Who is in the queue and in the batch, and which references they are.  A call that timed
\* out is in both, and its batch holds no reference of its own.
InWait(c) == \E i \in DOMAIN m_vWait : m_vWait[i] = c
InLeft(c) == \E i \in DOMAIN left : left[i].call = c
HoldInv ==
  /\ \A c \in Calls : c \in posted \/ caller[c] = "new" => ~InWait(c) /\ ~InLeft(c)
  /\ \A c \in posted : caller[c] # "new"
  /\ \A i, j \in DOMAIN m_vWait : m_vWait[i] = m_vWait[j] => i = j
  /\ \A i, j \in DOMAIN left : left[i].call = left[j].call => i = j
  /\ \A i \in DOMAIN m_vWait : "queue" \in iReferences[m_vWait[i]]
  /\ \A i \in DOMAIN left :
       IF left[i].release = {}
       THEN InWait(left[i].call)
       ELSE /\ ~InWait(left[i].call)
            /\ left[i].release \subseteq iReferences[left[i].call] \ {"caller"}

IInv == TypeOK /\ WireInv /\ ReplyInv /\ HoldInv
-----------------------------------------------------------------------------
\* What Append, Tail and SubSeq do to a queue of calls.
LEMMA AppendCall ==
  ASSUME NEW q \in Seq(Calls), NEW c \in Calls
  PROVE  /\ Append(q, c) \in Seq(Calls)
         /\ DOMAIN Append(q, c) = 1..(Len(q) + 1) /\ DOMAIN q = 1..Len(q) /\ Len(q) \in Nat
         /\ \A i \in 1..Len(q) : Append(q, c)[i] = q[i]
         /\ Append(q, c)[Len(q) + 1] = c
OBVIOUS

LEMMA SettlesOne ==
  ASSUME NEW c, NEW status, NEW reply, NEW h, Settles(<<c>>, status, reply, h)
  PROVE  DOMAIN left' = {1} /\ left'[1].call = c /\ left'[1].release = h
BY DEF Settles

\* What follows the head has no doubles if the queue has none.
LEMMA TailDistinct ==
  ASSUME NEW f, NEW g, \A i, j \in DOMAIN f : f[i] = f[j] => i = j,
         \A i \in DOMAIN g : i + 1 \in DOMAIN f /\ g[i] = f[i + 1] /\ i \in Nat
  PROVE  \A i, j \in DOMAIN g : g[i] = g[j] => i = j
OBVIOUS

LEMMA TailCall ==
  ASSUME NEW S, NEW q \in Seq(S), q # <<>>
  PROVE  /\ Tail(q) \in Seq(S) /\ Head(q) = q[1] /\ Head(q) \in S /\ 1 \in DOMAIN q
         /\ DOMAIN q = 1..Len(q) /\ DOMAIN Tail(q) = 1..(Len(q) - 1) /\ Len(q) \in Nat
         /\ \A i \in DOMAIN Tail(q) : i + 1 \in DOMAIN q /\ i + 1 # 1 /\ Tail(q)[i] = q[i + 1]
OBVIOUS

LEMMA SubSeqCall ==
  ASSUME NEW q \in Seq(Calls), NEW m \in Nat, NEW k \in (m + 1)..Len(q)
  PROVE  /\ SubSeq(q, m + 1, k) \in Seq(Calls)
         /\ DOMAIN SubSeq(q, m + 1, k) = 1..(k - m)
         /\ \A i \in 1..(k - m) : m + i \in DOMAIN q /\ SubSeq(q, m + 1, k)[i] = q[m + i]
BY SMTT(30)

\* A batch has one item per call of v, in its order.
LEMMA Batch ==
  ASSUME TypeOK, NEW v \in Seq(Calls), NEW t \in Statuses, NEW r \in Calls \cup {None},
         NEW h \in SUBSET Holders, Settles(v, t, r, h)
  PROVE  /\ left' \in Seq(Items) /\ DOMAIN left' = DOMAIN v /\ step' = step
         /\ \A i \in DOMAIN v : /\ left'[i].call = v[i] /\ left'[i].status = t
                                /\ left'[i].reply = r /\ left'[i].release = h
<1> DEFINE items == [i \in 1..Len(v) |->
                  [call |-> v[i], status |-> t, reply |-> r, release |-> h]]
<1>1. DOMAIN v = 1..Len(v) /\ Len(v) \in Nat /\ \A i \in 1..Len(v) : v[i] \in Calls
  OBVIOUS
<1>2. left' = items /\ step' = step
  BY <1>1 DEF Settles
<1>3. \A i \in 1..Len(v) : items[i] \in Items
  BY <1>1 DEF Items
<1>4. items \in Seq(Items)
  BY <1>1, <1>3
<1> QED
  BY <1>1, <1>2, <1>4

-----------------------------------------------------------------------------
\* Every step keeps the types.
LEMMA TypeStep ==
  ASSUME TypeOK, [Next]_vars
  PROVE  TypeOK'
<1> USE DEF callerVars, stateVars, queueVars, leftVars, netVars, stopVars
<1>0. ASSUME NEW t \in {"error"}, FailAll(t)
      PROVE  /\ left' \in Seq(Items) /\ m_vWait' \in Seq(Calls) /\ m_iSwept' \in Nat
             /\ step' = step
  <2>1. m_vWait \in Seq(Calls) /\ t \in Statuses /\ {"queue"} \in SUBSET Holders
    BY DEF TypeOK, Statuses, Holders
  <2>2. Settles(m_vWait, t, None, {"queue"})
    BY <1>0 DEF FailAll
  <2>3. left' \in Seq(Items) /\ step' = step
    BY SMTT(30), <2>1, <2>2, Batch
  <2> QED
    BY <1>0, <2>3 DEF FailAll
<1>1. ASSUME NEW c \in Calls, Suspend(c) \/ CallSync(c) \/ CallerStep(c)
      PROVE  TypeOK'
  <2>1. CASE Suspend(c) \/ CallSync(c)
    BY Zenon, <2>1 DEF Suspend, CallSync, Goto, TypeOK
  <2>2. CASE ExchangeWaiting(c)
    BY <2>2 DEF ExchangeWaiting, Goto, TypeOK
  <2>3. CASE Return(c)
    BY <2>3 DEF Return, Goto, TypeOK
  <2> QED
    BY <1>1, <2>1, <2>2, <2>3 DEF CallerStep
<1>2. CASE Settle
  <2>1. Head(left) \in Items
    BY <1>2, TailCall DEF Settle, Idle, TypeOK
  <2>2. /\ Head(left).call \in Calls /\ Head(left).status \in Statuses
        /\ Head(left).reply \in Calls \cup {None}
    BY <2>1 DEF Items
  <2>3. CASE iWon[Head(left).call]
    BY <1>2, <2>3 DEF Settle, Idle, TypeOK, stateVars, callerVars, queueVars, netVars, stopVars
  <2>4. CASE ~iWon[Head(left).call]
    <3>1. /\ Publish(Head(left).call, Head(left).status, Head(left).reply)
          /\ step' \in {"schedule", "release"} /\ left # <<>>
          /\ UNCHANGED <<callerVars, iReferences, queueVars, left, netVars, stopVars>>
      BY <1>2, <2>4 DEF Settle, Idle
    <3>2. /\ iWon' \in [Calls -> BOOLEAN] /\ bReady' \in [Calls -> BOOLEAN]
          /\ iStatus' \in [Calls -> Statuses] /\ pReply' \in [Calls -> Calls \cup {None}]
          /\ iGate' \in [Calls -> {"Idle", "Waiting", "Ready"}]
      BY <2>2, <3>1 DEF Publish, TypeOK
    <3> QED
      BY <3>1, <3>2 DEF TypeOK, callerVars, queueVars, netVars, stopVars
  <2> QED
    BY <2>3, <2>4
<1>3. CASE Settled
  <2>1. Head(left) \in Items /\ Tail(left) \in Seq(Items)
    BY <1>3, TailCall DEF Settled, TypeOK
  <2> QED
    BY <1>3, <2>1 DEF Settled, TypeOK, Items
<1>4. ASSUME NEW c \in Calls, Submit(c)
      PROVE  TypeOK'
  <2>1. CASE EnqueueSent(c)
    <3>1. m_vWait' \in Seq(Calls) /\ m_iReaderSessionId \in Sids
      BY <2>1, AppendCall DEF EnqueueSent, CanEnqueue, TypeOK
    <3>2. wire' \in [Sids -> Seq(Calls)]
      BY <2>1, <3>1, AppendCall DEF EnqueueSent, TypeOK
    <3> QED
      BY <1>4, <2>1, <3>1, <3>2 DEF Submit, EnqueueSent, TypeOK, Holders
  <2>2. CASE EnqueueRefused(c) \/ EnqueueFailed(c)
    <3>1. <<c>> \in Seq(Calls)
      OBVIOUS
    <3>2. left' \in Seq(Items) /\ step' = step
      BY Zenon, <2>2, <3>1, Batch DEF EnqueueRefused, EnqueueFailed, Statuses, Holders
    <3>3. step = "settle"
      BY <1>4 DEF Submit, Idle, TypeOK
    <3>4. iReferences' \in [Calls -> SUBSET Holders]
      <4>1. {"submit"} \in SUBSET Holders /\ {"queue", "submit"} \in SUBSET Holders
        BY DEF Holders
      <4>2. PICK h \in SUBSET Holders : iReferences' = [iReferences EXCEPT ![c] = @ \cup h]
        BY <2>2, <4>1 DEF EnqueueRefused, EnqueueFailed
      <4> QED
        BY <4>2 DEF TypeOK
    <3>5. UNCHANGED <<m_vWait, m_iSwept, m_iReaderSessionId, wire>>
      BY <2>2 DEF EnqueueRefused, EnqueueFailed
    <3> QED
      BY <1>4, <3>2, <3>3, <3>4, <3>5 DEF Submit, TypeOK
  <2> QED
    BY <1>4, <2>1, <2>2 DEF Submit
<1>5. CASE SweepTimeout
  <2>1. PICK k \in (m_iSwept + 1)..Len(m_vWait) :
          m_iSwept' = k /\ Settles(SubSeq(m_vWait, m_iSwept + 1, k), "timeout", None, {})
    BY <1>5 DEF SweepTimeout
  <2>2. SubSeq(m_vWait, m_iSwept + 1, k) \in Seq(Calls) /\ k \in Nat
    BY SubSeqCall DEF TypeOK
  <2>3. left' \in Seq(Items) /\ step' = step
    <3> DEFINE v == SubSeq(m_vWait, m_iSwept + 1, k)
    <3>1. v \in Seq(Calls) /\ Settles(v, "timeout", None, {})
      BY <2>1, <2>2
    <3>2. "timeout" \in Statuses /\ {} \in SUBSET Holders
      BY DEF Statuses
    <3> HIDE DEF v
    <3> QED
      BY Zenon, <3>1, <3>2, Batch
  <2> QED
    BY <1>5, <2>1, <2>2, <2>3 DEF SweepTimeout, Idle, TypeOK
<1>6. CASE FeedBroken \/ StopHandler
  BY Zenon, <1>0, <1>6 DEF FeedBroken, StopHandler, Closed, Idle, TypeOK
<1>7. ASSUME NEW s \in Sids, FeedReply(s)
      PROVE  TypeOK'
  <2>1. Tail(wire[s]) \in Seq(Calls) /\ Head(wire[s]) \in Calls
    BY <1>7, TailCall DEF FeedReply, TypeOK
  <2>2. wire' \in [Sids -> Seq(Calls)]
    BY <1>7, <2>1 DEF FeedReply, TypeOK
  <2>3. CASE s # m_iReaderSessionId \/ m_vWait = <<>>
    BY <1>7, <2>2, <2>3 DEF FeedReply, TypeOK
  <2>4. CASE s = m_iReaderSessionId /\ m_vWait # <<>>
    <3>1. Tail(m_vWait) \in Seq(Calls) /\ <<Head(m_vWait)>> \in Seq(Calls)
      BY <2>4, TailCall DEF TypeOK
    <3>2. left' \in Seq(Items) /\ step' = step
      BY Zenon, <1>7, <2>1, <2>4, <3>1, Batch DEF FeedReply, Statuses, Holders
    <3>3. m_iSwept' \in Nat
      BY <1>7, <2>4 DEF FeedReply, TypeOK
    <3> QED
      BY Zenon, <1>7, <2>2, <2>4, <3>1, <3>2, <3>3 DEF FeedReply, Idle, TypeOK
  <2> QED
    BY <2>3, <2>4
<1>8. ASSUME NEW s \in Sids, OnClientConnect(s) \/ OnClientDisconnect(s)
      PROVE  TypeOK'
  BY Zenon, <1>0, <1>8 DEF OnClientConnect, OnClientDisconnect, Idle, TypeOK
<1>9. ASSUME NEW s \in Sids, CloseSession(s)
      PROVE  TypeOK'
  BY <1>9 DEF CloseSession, Closed, TypeOK
<1>10. CASE RequestStop \/ UNCHANGED vars
  BY <1>10 DEF RequestStop, vars, TypeOK
<1> QED
  BY <1>1, <1>2, <1>3, <1>4, <1>5, <1>6, <1>7, <1>8, <1>9, <1>10 DEF Next, PollStep

\* The steps that leave the queue, the wire and the sessions alone.
LEMMA QuietStep ==
  ASSUME NEW c \in Calls,
         \/ Suspend(c) \/ CallSync(c) \/ CallerStep(c) \/ Settle \/ Settled \/ SweepTimeout
         \/ RequestStop \/ UNCHANGED vars
         \/ Submit(c) /\ (EnqueueRefused(c) \/ EnqueueFailed(c))
  PROVE  UNCHANGED <<m_vWait, wire, m_iReaderSessionId, sess>>
<1> USE DEF callerVars, stateVars, queueVars, leftVars, netVars, stopVars
<1>1. CASE Suspend(c) \/ CallSync(c) \/ CallerStep(c)
  BY <1>1 DEF Suspend, CallSync, CallerStep, ExchangeWaiting, Return
<1>2. CASE Settle \/ Settled \/ SweepTimeout \/ RequestStop \/ UNCHANGED vars
  BY Zenon, <1>2 DEF Settle, Settled, SweepTimeout, RequestStop, vars
<1>3. CASE Submit(c) /\ (EnqueueRefused(c) \/ EnqueueFailed(c))
  BY <1>3 DEF Submit, EnqueueRefused, EnqueueFailed
<1> QED
  BY <1>1, <1>2, <1>3

\* The queue stays what is on the wire of the reader's session.
LEMMA WireStep ==
  ASSUME TypeOK, WireInv, [Next]_vars
  PROVE  WireInv'
<1> USE DEF callerVars, stateVars, queueVars, leftVars, netVars, stopVars
<1>1. ASSUME UNCHANGED <<m_vWait, wire, m_iReaderSessionId, sess>>
      PROVE  WireInv'
  BY <1>1 DEF WireInv
<1>2. ASSUME NEW c \in Calls, Submit(c), EnqueueSent(c)
      PROVE  WireInv'
  <2>1. m_iReaderSessionId \in Sids /\ m_vWait = wire[m_iReaderSessionId] /\ UNCHANGED sess
    BY <1>2 DEF Submit, EnqueueSent, CanEnqueue, WireInv, TypeOK
  <2> QED
    BY <1>2, <2>1 DEF EnqueueSent, WireInv, TypeOK, Sids, INVALID_SID
<1>3. ASSUME NEW s \in Sids, FeedReply(s)
      PROVE  WireInv'
  <2>1. UNCHANGED <<sess, m_iReaderSessionId>> /\ sess[s] # "none"
    BY <1>3 DEF FeedReply
  <2>2. CASE s # m_iReaderSessionId \/ m_vWait = <<>>
    BY <1>3, <2>1, <2>2 DEF FeedReply, WireInv, TypeOK
  <2>3. CASE s = m_iReaderSessionId /\ m_vWait # <<>>
    BY <1>3, <2>1, <2>3 DEF FeedReply, WireInv, TypeOK, Sids, INVALID_SID
  <2> QED
    BY <2>2, <2>3
<1>4. CASE FeedBroken
  BY <1>4 DEF FeedBroken, FailAll, Closed, WireInv, TypeOK
<1>5. CASE StopHandler
  BY <1>5 DEF StopHandler, FailAll, WireInv, TypeOK, Sids, INVALID_SID
<1>6. ASSUME NEW s \in Sids, OnClientConnect(s)
      PROVE  WireInv'
  <2>1. sess[s] = "none" /\ m_vWait' = <<>> /\ m_iReaderSessionId' = s /\ UNCHANGED wire
    BY <1>6 DEF OnClientConnect, FailAll, Sids
  <2> QED
    BY <1>6, <2>1 DEF OnClientConnect, WireInv, TypeOK, Sids, INVALID_SID
<1>7. ASSUME NEW s \in Sids, CloseSession(s)
      PROVE  WireInv'
  BY <1>7 DEF CloseSession, Closed, WireInv, TypeOK
<1>8. ASSUME NEW s \in Sids, OnClientDisconnect(s)
      PROVE  WireInv'
  <2>1. CASE m_iReaderSessionId = s
    BY <1>8, <2>1 DEF OnClientDisconnect, FailAll, WireInv, TypeOK, Sids, INVALID_SID
  <2>2. CASE m_iReaderSessionId # s
    BY <1>8, <2>2 DEF OnClientDisconnect, WireInv, TypeOK
  <2> QED
    BY <2>1, <2>2
<1>9. CASE Settle \/ Settled \/ SweepTimeout \/ RequestStop \/ UNCHANGED vars
  BY <1>9, <1>1 DEF Settle, Settled, SweepTimeout, RequestStop, vars
<1> QED
  BY <1>1, <1>2, <1>3, <1>4, <1>5, <1>6, <1>7, <1>8, <1>9, QuietStep
     DEF Next, PollStep, Submit

\* A batch of failures holds no reply, and one made by Feed holds the right one.
LEMMA ReplyStep ==
  ASSUME TypeOK, WireInv, ReplyInv, [Next]_vars
  PROVE  ReplyInv'
<1> USE DEF callerVars, stateVars, queueVars, leftVars, netVars, stopVars
<1>1. ASSUME UNCHANGED <<left, iStatus, pReply>>
      PROVE  ReplyInv'
  BY <1>1 DEF ReplyInv, ReplyMatches
<1>2. ASSUME NEW v \in Seq(Calls), NEW t \in Statuses \ {"reply"}, NEW h \in SUBSET Holders,
             Settles(v, t, None, h), UNCHANGED <<iStatus, pReply>>
      PROVE  ReplyInv'
  <2>0. t \in Statuses /\ t # "reply" /\ None \in Calls \cup {None}
    OBVIOUS
  <2>1. DOMAIN left' = DOMAIN v /\ \A i \in DOMAIN v : left'[i].status = t
    BY <1>2 DEF Settles
  <2> QED
    BY <1>2, <2>0, <2>1 DEF ReplyInv, ReplyMatches
<1>3. ASSUME FailAll("error"), UNCHANGED <<iStatus, pReply>>
      PROVE  ReplyInv'
  <2>1. /\ m_vWait \in Seq(Calls)
        /\ "error" \in Statuses \ {"reply"} /\ {"queue"} \in SUBSET Holders
    BY DEF TypeOK, Statuses, Holders
  <2> QED
    BY <1>2, <1>3, <2>1 DEF FailAll
<1>4. ASSUME NEW c \in Calls, Submit(c)
      PROVE  ReplyInv'
  <2>1. CASE EnqueueSent(c)
    BY <1>1, <1>4, <2>1 DEF Submit, EnqueueSent
  <2>2. CASE EnqueueRefused(c) \/ EnqueueFailed(c)
    <3>1. <<c>> \in Seq(Calls) /\ "error" \in Statuses \ {"reply"}
      BY DEF Statuses
    <3>2. {"submit"} \in SUBSET Holders /\ {"queue", "submit"} \in SUBSET Holders
      BY DEF Holders
    <3>3. PICK h \in SUBSET Holders : Settles(<<c>>, "error", None, h)
      BY <2>2, <3>2 DEF EnqueueRefused, EnqueueFailed
    <3> QED
      BY Zenon, <1>2, <1>4, <3>1, <3>3 DEF Submit
  <2> QED
    BY <1>4, <2>1, <2>2 DEF Submit
<1>5. CASE SweepTimeout
  <2>1. PICK k \in (m_iSwept + 1)..Len(m_vWait) :
          Settles(SubSeq(m_vWait, m_iSwept + 1, k), "timeout", None, {})
    BY <1>5 DEF SweepTimeout
  <2>2. SubSeq(m_vWait, m_iSwept + 1, k) \in Seq(Calls)
    BY SubSeqCall DEF TypeOK
  <2>3. "timeout" \in Statuses \ {"reply"} /\ {} \in SUBSET Holders
    BY DEF Statuses
  <2> QED
    BY Zenon, <1>2, <1>5, <2>1, <2>2, <2>3 DEF SweepTimeout
<1>6. ASSUME NEW s \in Sids, FeedReply(s)
      PROVE  ReplyInv'
  <2>1. CASE s # m_iReaderSessionId \/ m_vWait = <<>>
    BY <1>1, <1>6, <2>1 DEF FeedReply
  <2>2. CASE s = m_iReaderSessionId /\ m_vWait # <<>>
    <3>1. m_vWait = wire[s] /\ Head(m_vWait) \in Calls
      BY <2>2, TailCall DEF WireInv, TypeOK
    <3>2. Settles(<<Head(m_vWait)>>, "reply", Head(m_vWait), {"queue"})
      BY <1>6, <2>2, <3>1 DEF FeedReply
    <3>4. \A i \in DOMAIN left' : left'[i].reply = left'[i].call
      BY <3>2 DEF Settles
    <3> QED
      BY <1>6, <3>4 DEF FeedReply, ReplyInv, ReplyMatches
  <2> QED
    BY <2>1, <2>2
<1>7. CASE Settle
  <2>1. Head(left) = left[1] /\ 1 \in DOMAIN left /\ Head(left) \in Items
    BY <1>7, TailCall DEF Settle, Idle, TypeOK
  <2>2. UNCHANGED left
    BY <1>7 DEF Settle
  <2>3. ReplyMatches'
    BY <1>7, <2>1 DEF Settle, Publish, ReplyInv, ReplyMatches, TypeOK, Items
  <2> QED
    BY <2>2, <2>3 DEF ReplyInv
<1>8. CASE Settled
  <2>1. left # <<>> /\ left' = Tail(left) /\ UNCHANGED <<iStatus, pReply>>
    BY <1>8 DEF Settled, TypeOK
  <2>2. \A i \in DOMAIN left' : i + 1 \in DOMAIN left /\ left'[i] = left[i + 1]
    BY <2>1, TailCall DEF TypeOK
  <2> QED
    BY <2>1, <2>2 DEF ReplyInv, ReplyMatches
<1>9. CASE FeedBroken \/ StopHandler
  BY <1>3, <1>9 DEF FeedBroken, StopHandler
<1>10. ASSUME NEW s \in Sids, OnClientConnect(s) \/ OnClientDisconnect(s) \/ CloseSession(s)
       PROVE  ReplyInv'
  BY <1>1, <1>3, <1>10 DEF OnClientConnect, OnClientDisconnect, CloseSession
<1>11. ASSUME NEW c \in Calls, Suspend(c) \/ CallSync(c) \/ CallerStep(c)
       PROVE  ReplyInv'
  BY <1>1, <1>11 DEF Suspend, CallSync, CallerStep, ExchangeWaiting, Return
<1>12. CASE RequestStop \/ UNCHANGED vars
  BY <1>1, <1>12 DEF RequestStop, vars
<1> QED
  BY <1>4, <1>5, <1>6, <1>7, <1>8, <1>9, <1>10, <1>11, <1>12 DEF Next, PollStep

-----------------------------------------------------------------------------
\* The steps of the callers, and the ones that touch neither the queue nor the batch.
LEMMA HoldFrame ==
  ASSUME TypeOK, HoldInv, UNCHANGED <<m_vWait, left>>,
         \A d \in Calls : d \in posted' \/ caller'[d] = "new" => d \in posted \/ caller[d] = "new",
         \A d \in posted' : caller'[d] # "new",
         \A d \in Calls : iReferences[d] \ {"caller"} \subseteq iReferences'[d]
  PROVE  HoldInv'
<1>1. /\ \A d : InWait(d)' <=> InWait(d)
      /\ \A d : InLeft(d)' <=> InLeft(d)
  BY DEF InWait, InLeft
<1>2. \A i \in DOMAIN m_vWait : m_vWait[i] \in Calls
  BY DEF TypeOK
<1>3. \A i \in DOMAIN left : left[i].call \in Calls
  <2>1. \A i \in DOMAIN left : left[i] \in Items
    BY DEF TypeOK
  <2> QED
    BY <2>1 DEF Items
<1>4. \A i \in DOMAIN m_vWait' : "queue" \in iReferences'[m_vWait'[i]]
  BY <1>2 DEF HoldInv
<1>5. \A i \in DOMAIN left' : left'[i].release # {} =>
        left'[i].release \subseteq iReferences'[left'[i].call] \ {"caller"}
  BY <1>3 DEF HoldInv
<1> QED
  BY <1>1, <1>4, <1>5 DEF HoldInv

\* The queue as a whole becomes the batch.
LEMMA HoldFailAll ==
  ASSUME TypeOK, HoldInv, FailAll("error"), UNCHANGED <<posted, caller, iReferences>>
  PROVE  HoldInv'
<1>1. /\ DOMAIN left' = DOMAIN m_vWait /\ m_vWait' = <<>>
      /\ \A i \in DOMAIN left' : left'[i].call = m_vWait[i] /\ left'[i].release = {"queue"}
  BY DEF FailAll, Settles
<1>2. \A d : ~InWait(d)'
  BY <1>1 DEF InWait
<1>3. \A d : InLeft(d)' => InWait(d)
  BY <1>1 DEF InWait, InLeft
<1>4. DOMAIN m_vWait' = {}
  BY <1>1
<1>5. {"queue"} # {} /\ "queue" # "caller"
  OBVIOUS
<1>6. \A i \in DOMAIN left' : left'[i].release \subseteq iReferences'[left'[i].call] \ {"caller"}
  BY <1>1, <1>5 DEF HoldInv
<1>7. \A i, j \in DOMAIN left' : left'[i].call = left'[j].call => i = j
  BY <1>1 DEF HoldInv
<1> QED
  BY <1>1, <1>2, <1>3, <1>4, <1>5, <1>6, <1>7 DEF HoldInv

\* Who is in the queue and in the batch keeps its references.
LEMMA HoldStep ==
  ASSUME TypeOK, HoldInv, TypeOK', [Next]_vars
  PROVE  HoldInv'
<1> USE DEF callerVars, stateVars, queueVars, leftVars, netVars, stopVars
<1>1. ASSUME NEW c \in Calls, Suspend(c) \/ CallSync(c) \/ CallerStep(c)
      PROVE  HoldInv'
  <2>1. UNCHANGED <<m_vWait, left>>
    BY <1>1 DEF Suspend, CallSync, CallerStep, ExchangeWaiting, Return
  <2>2. CASE Suspend(c) \/ CallSync(c)
    <3>1. /\ caller[c] = "new" /\ UNCHANGED iReferences /\ caller'[c] # "new"
          /\ \A d \in Calls \ {c} : caller'[d] = caller[d]
          /\ posted' \subseteq posted \cup {c}
      BY <2>2 DEF Suspend, CallSync, Goto, TypeOK
    <3> QED
      BY Zenon, <2>1, <3>1, HoldFrame DEF HoldInv, TypeOK
  <2>3. CASE ExchangeWaiting(c)
    <3>1. /\ UNCHANGED <<posted, iReferences>> /\ caller'[c] # "new"
          /\ \A d \in Calls \ {c} : caller'[d] = caller[d]
      BY <2>3 DEF ExchangeWaiting, Goto, TypeOK
    <3> QED
      BY Zenon, <2>1, <3>1, HoldFrame DEF HoldInv, TypeOK
  <2>4. CASE Return(c)
    <3>1. /\ UNCHANGED posted /\ caller'[c] # "new"
          /\ \A d \in Calls \ {c} : caller'[d] = caller[d]
          /\ \A d \in Calls : iReferences[d] \ {"caller"} \subseteq iReferences'[d]
      BY <2>4 DEF Return, Goto, TypeOK
    <3> QED
      BY Zenon, <2>1, <3>1, HoldFrame DEF HoldInv, TypeOK
  <2> QED
    BY <1>1, <2>2, <2>3, <2>4 DEF CallerStep
<1>2. ASSUME UNCHANGED <<m_vWait, left, caller, posted, iReferences>>
      PROVE  HoldInv'
  BY <1>2, HoldFrame DEF HoldInv
<1>3. CASE Settled
  <2> DEFINE c == Head(left).call
             h == Head(left).release
  <2>1. left # <<>> /\ left' = Tail(left) /\ UNCHANGED <<posted, m_vWait>>
    BY <1>3 DEF Settled, TypeOK
  <2>2. /\ Head(left) = left[1] /\ 1 \in DOMAIN left /\ Head(left) \in Items
        /\ \A i \in DOMAIN left' :
             i + 1 \in DOMAIN left /\ i + 1 # 1 /\ left'[i] = left[i + 1] /\ i \in Nat
    BY <2>1, TailCall DEF TypeOK
  <2>3. /\ iReferences'[c] = iReferences[c] \ h
        /\ \A d \in Calls \ {c} : iReferences'[d] = iReferences[d]
        /\ \A d \in Calls : caller'[d] = "new" => caller[d] = "new"
        /\ \A d \in posted : caller'[d] # "new"
    <3>1. /\ caller' = IF step = "schedule" THEN [caller EXCEPT ![c] = "resumed"] ELSE caller
          /\ iReferences' = [iReferences EXCEPT ![c] = @ \ h]
      BY Zenon, <1>3 DEF Settled
    <3>2. c \in Calls
      BY <2>2 DEF Items
    <3>3. DOMAIN caller = Calls /\ DOMAIN iReferences = Calls /\ posted \subseteq Calls
      BY DEF TypeOK
    <3>4. \A d \in posted : caller[d] # "new"
      BY Zenon DEF HoldInv
    <3> HIDE DEF c, h
    <3>5. /\ iReferences'[c] = iReferences[c] \ h
          /\ \A d \in Calls \ {c} : iReferences'[d] = iReferences[d]
      BY <3>1, <3>2, <3>3
    <3>6. \A d \in Calls : caller'[d] = "new" => caller[d] = "new"
      BY <3>1, <3>2, <3>3
    <3> QED
      BY Zenon, <3>3, <3>4, <3>5, <3>6
  <2>4. /\ \A d : InWait(d)' <=> InWait(d)
        /\ \A d : InLeft(d)' => InLeft(d)
    BY <2>1, <2>2 DEF InWait, InLeft
  <2>5. \A i \in DOMAIN left' : left'[i].call # c /\ left'[i].call \in Calls
    <3>1. \A i \in DOMAIN left' : left'[i] \in Items
      BY DEF TypeOK
    <3> QED
      BY Zenon, <2>2, <3>1 DEF HoldInv, Items
  <2>6. \A i \in DOMAIN m_vWait : "queue" \in iReferences'[m_vWait[i]]
    <3>1. h = {} \/ ~InWait(c)
      BY <2>2 DEF HoldInv
    <3>2. \A i \in DOMAIN m_vWait : m_vWait[i] \in Calls /\ InWait(m_vWait[i])
      BY DEF TypeOK, InWait
    <3>3. \A i \in DOMAIN m_vWait : iReferences'[m_vWait[i]] = iReferences[m_vWait[i]]
      <4> SUFFICES ASSUME NEW i \in DOMAIN m_vWait
                   PROVE  iReferences'[m_vWait[i]] = iReferences[m_vWait[i]]
        OBVIOUS
      <4>1. CASE m_vWait[i] = c
        BY Zenon, <2>3, <3>1, <3>2, <4>1
      <4>2. CASE m_vWait[i] # c
        BY <2>3, <3>2, <4>2
      <4> QED
        BY <4>1, <4>2
    <3> QED
      BY Zenon, <3>3 DEF HoldInv
  <2>7. \A i \in DOMAIN left' :
          IF left'[i].release = {}
          THEN InWait(left[i].call)'
          ELSE /\ ~InWait(left[i].call)'
               /\ left'[i].release \subseteq iReferences'[left'[i].call] \ {"caller"}
    <3> SUFFICES ASSUME NEW i \in DOMAIN left'
                 PROVE  IF left'[i].release = {}
                        THEN InWait(left[i].call)'
                        ELSE /\ ~InWait(left[i].call)'
                             /\ left'[i].release
                                  \subseteq iReferences'[left'[i].call] \ {"caller"}
      BY Zenon
    <3>1. i + 1 \in DOMAIN left /\ left'[i] = left[i + 1]
      BY Zenon, <2>2
    <3>2. IF left'[i].release = {}
          THEN InWait(left'[i].call)
          ELSE /\ ~InWait(left'[i].call)
               /\ left'[i].release \subseteq iReferences[left'[i].call] \ {"caller"}
      BY Zenon, <3>1 DEF HoldInv
    <3>3. iReferences'[left'[i].call] = iReferences[left'[i].call]
      BY Zenon, <2>3, <2>5
    <3>4. InWait(left[i].call)' <=> InWait(left'[i].call)
      BY Zenon, <2>1 DEF InWait
    <3> QED
      BY Zenon, <3>2, <3>3, <3>4
  <2>8. \A i, j \in DOMAIN left' : left'[i].call = left'[j].call => i = j
    <3> SUFFICES ASSUME NEW i \in DOMAIN left', NEW j \in DOMAIN left',
                        left'[i].call = left'[j].call
                 PROVE  i = j
      OBVIOUS
    <3>1. \A m, n \in DOMAIN left : left[m].call = left[n].call => m = n
      BY Zenon DEF HoldInv
    <3>2. i + 1 = j + 1
      <4>1. /\ i + 1 \in DOMAIN left /\ left'[i] = left[i + 1]
            /\ j + 1 \in DOMAIN left /\ left'[j] = left[j + 1]
        BY Zenon, <2>2
      <4>2. left[i + 1].call = left[j + 1].call
        BY Zenon, <4>1
      <4> QED
        BY Zenon, <3>1, <4>1, <4>2
    <3>3. i \in Nat /\ j \in Nat
      BY Zenon, <2>2
    <3> QED
      BY <3>2, <3>3
  <2> QED
    BY <2>1, <2>3, <2>4, <2>6, <2>7, <2>8 DEF HoldInv
<1>4. ASSUME NEW c \in Calls, Submit(c), EnqueueSent(c)
      PROVE  HoldInv'
  <2>1. /\ c \in posted /\ posted' = posted \ {c} /\ UNCHANGED <<caller, left>> /\ left = <<>>
        /\ m_vWait' = Append(m_vWait, c) /\ m_vWait \in Seq(Calls)
    BY <1>4 DEF Submit, EnqueueSent, Idle, TypeOK
  <2>2. \A d \in Calls : iReferences[d] \subseteq iReferences'[d]
    BY <1>4 DEF EnqueueSent, TypeOK
  <2>3. "queue" \in iReferences'[c]
    BY <1>4 DEF EnqueueSent, TypeOK
  <2>4. /\ DOMAIN m_vWait' = 1..(Len(m_vWait) + 1) /\ DOMAIN m_vWait = 1..Len(m_vWait)
        /\ Len(m_vWait) \in Nat /\ m_vWait'[Len(m_vWait) + 1] = c
        /\ \A i \in DOMAIN m_vWait : m_vWait'[i] = m_vWait[i] /\ m_vWait[i] \in Calls
    <3>1. \A i \in DOMAIN m_vWait : m_vWait[i] \in Calls
      BY <2>1
    <3>2. m_vWait \in Seq(Calls)
      BY Zenon, <2>1
    <3>3. /\ DOMAIN Append(m_vWait, c) = 1..(Len(m_vWait) + 1)
          /\ DOMAIN m_vWait = 1..Len(m_vWait) /\ Len(m_vWait) \in Nat
          /\ \A i \in 1..Len(m_vWait) : Append(m_vWait, c)[i] = m_vWait[i]
          /\ Append(m_vWait, c)[Len(m_vWait) + 1] = c
      BY Zenon, <3>2, AppendCall
    <3>4. m_vWait' = Append(m_vWait, c)
      BY Zenon, <2>1
    <3> QED
      BY Zenon, <3>1, <3>3, <3>4
  <2>5. DOMAIN left = {} /\ \A d : ~InLeft(d)'
    BY <2>1 DEF InLeft
  <2>6. \A i \in DOMAIN m_vWait : m_vWait[i] # c
    BY <2>1 DEF HoldInv, InWait
  <2>7. \A d \in Calls : InWait(d)' => d = c \/ InWait(d)
    BY SMTT(20), <2>4 DEF InWait
  <2>8. \A i, j \in DOMAIN m_vWait' : m_vWait'[i] = m_vWait'[j] => i = j
    BY <2>4, <2>6 DEF HoldInv
  <2>9. \A i \in DOMAIN m_vWait' : "queue" \in iReferences'[m_vWait'[i]]
    BY <2>2, <2>3, <2>4 DEF HoldInv
  <2>10. caller[c] # "new"
    BY <2>1 DEF HoldInv
  <2> QED
    BY <2>1, <2>5, <2>7, <2>8, <2>9, <2>10 DEF HoldInv
<1>5. ASSUME NEW c \in Calls, Submit(c), EnqueueRefused(c) \/ EnqueueFailed(c)
      PROVE  HoldInv'
  <2>1. c \in posted /\ posted' = posted \ {c} /\ UNCHANGED <<caller, m_vWait>>
    BY <1>5 DEF Submit, EnqueueRefused, EnqueueFailed
  <2>2. PICK h \in {{"submit"}, {"queue", "submit"}} :
          /\ iReferences' = [iReferences EXCEPT ![c] = @ \cup h]
          /\ Settles(<<c>>, "error", None, h)
    BY <1>5 DEF EnqueueRefused, EnqueueFailed
  <2>3. h # {} /\ "caller" \notin h
    BY <2>2
  <2>4. DOMAIN left' = {1} /\ left'[1].call = c /\ left'[1].release = h
    BY Zenon, <2>2, SettlesOne
  <2>5. h \subseteq iReferences'[c] /\ \A d \in Calls : iReferences[d] \subseteq iReferences'[d]
    BY <2>2 DEF TypeOK
  <2>6. /\ \A d : InWait(d)' <=> InWait(d)
        /\ \A d : InLeft(d)' <=> d = c
    BY <2>1, <2>4 DEF InWait, InLeft
  <2>7. ~InWait(c) /\ caller[c] # "new"
    BY <2>1 DEF HoldInv
  <2>8. \A i \in DOMAIN m_vWait' : "queue" \in iReferences'[m_vWait'[i]]
    <3>1. \A i \in DOMAIN m_vWait : m_vWait[i] \in Calls
      BY DEF TypeOK
    <3>2. \A i \in DOMAIN m_vWait : "queue" \in iReferences[m_vWait[i]]
      BY Zenon DEF HoldInv
    <3> QED
      BY Zenon, <2>1, <2>5, <3>1, <3>2
  <2>9. \A i \in DOMAIN left' :
          /\ left'[i].release # {} /\ ~InWait(left[i].call)'
          /\ left'[i].release \subseteq iReferences'[left'[i].call] \ {"caller"}
    BY Zenon, <2>3, <2>4, <2>5, <2>6, <2>7
  <2>10. \A i, j \in DOMAIN left' : i = j
    BY <2>4
  <2> QED
    BY <2>1, <2>6, <2>7, <2>8, <2>9, <2>10 DEF HoldInv
<1>6. CASE SweepTimeout
  <2>1. PICK k \in (m_iSwept + 1)..Len(m_vWait) :
          Settles(SubSeq(m_vWait, m_iSwept + 1, k), "timeout", None, {})
    BY <1>6 DEF SweepTimeout
  <2>2. UNCHANGED <<caller, posted, iReferences, m_vWait>>
    BY <1>6 DEF SweepTimeout
  <2>3. /\ DOMAIN SubSeq(m_vWait, m_iSwept + 1, k) = 1..(k - m_iSwept)
        /\ \A i \in 1..(k - m_iSwept) :
             /\ m_iSwept + i \in DOMAIN m_vWait
             /\ SubSeq(m_vWait, m_iSwept + 1, k)[i] = m_vWait[m_iSwept + i]
    <3>1. m_vWait \in Seq(Calls) /\ m_iSwept \in Nat
      BY Zenon DEF TypeOK
    <3>2. k \in (m_iSwept + 1)..Len(m_vWait)
      BY Zenon, <2>1
    <3> QED
      BY Zenon, <3>1, <3>2, SubSeqCall
  <2>4. /\ DOMAIN left' = 1..(k - m_iSwept)
        /\ \A i \in DOMAIN left' : /\ left'[i].release = {} /\ m_iSwept + i \in DOMAIN m_vWait
                                   /\ left'[i].call = m_vWait[m_iSwept + i]
    BY Zenon, <2>1, <2>3 DEF Settles
  <2>5. /\ \A d : InWait(d)' <=> InWait(d)
        /\ \A d : InLeft(d)' => InWait(d)
    BY <2>2, <2>4 DEF InWait, InLeft
  <2>6. \A i \in DOMAIN left' : left'[i].release = {} /\ InWait(left[i].call)'
    BY <2>2, <2>4 DEF InWait
  <2>7. \A i, j \in DOMAIN left' : left'[i].call = left'[j].call => i = j
    <3>1. m_iSwept \in Nat /\ \A i \in DOMAIN left' : i \in Int
      BY SMTT(20), <2>4 DEF TypeOK
    <3> QED
      BY <2>4, <3>1 DEF HoldInv
  <2> QED
    BY Zenon, <2>2, <2>5, <2>6, <2>7 DEF HoldInv
<1>7. ASSUME NEW s \in Sids, FeedReply(s)
      PROVE  HoldInv'
  <2>1. UNCHANGED <<caller, posted, iReferences>>
    BY <1>7 DEF FeedReply
  <2>2. CASE s # m_iReaderSessionId \/ m_vWait = <<>>
    BY <1>2, <1>7, <2>1, <2>2 DEF FeedReply
  <2>3. CASE s = m_iReaderSessionId /\ m_vWait # <<>>
    <3>1. /\ m_vWait' = Tail(m_vWait)
          /\ Settles(<<Head(m_vWait)>>, "reply", Head(wire[s]), {"queue"})
      BY <1>7, <2>3 DEF FeedReply
    <3>2. /\ Head(m_vWait) = m_vWait[1] /\ 1 \in DOMAIN m_vWait /\ Head(m_vWait) \in Calls
          /\ \A i \in DOMAIN m_vWait' :
               i + 1 \in DOMAIN m_vWait /\ i + 1 # 1 /\ m_vWait'[i] = m_vWait[i + 1] /\ i \in Nat
      BY <2>3, <3>1, TailCall DEF TypeOK
    <3>3. DOMAIN left' = {1} /\ left'[1].call = m_vWait[1] /\ left'[1].release = {"queue"}
      BY Zenon, <3>1, <3>2, SettlesOne
    <3>4. /\ \A d : InWait(d)' => InWait(d)
          /\ \A d : InLeft(d)' => InWait(d)
      BY <3>2, <3>3 DEF InWait, InLeft
    <3>5. \A d : d = m_vWait[1] => ~InWait(d)'
      BY <3>2 DEF HoldInv, InWait
    <3>6. \A i, j \in DOMAIN m_vWait' : m_vWait'[i] = m_vWait'[j] => i = j
      <4>1. \A i, j \in DOMAIN m_vWait : m_vWait[i] = m_vWait[j] => i = j
        BY Zenon DEF HoldInv
      <4> QED
        BY Zenon, <3>2, <4>1, TailDistinct
    <3>7. \A i \in DOMAIN m_vWait' : "queue" \in iReferences'[m_vWait'[i]]
      BY <2>1, <3>2 DEF HoldInv
    <3>8. \A i \in DOMAIN left' :
            /\ left'[i].release # {} /\ ~InWait(left[i].call)'
            /\ left'[i].release \subseteq iReferences'[left'[i].call] \ {"caller"}
      <4>1. "queue" \in iReferences'[m_vWait[1]] /\ "queue" # "caller" /\ {"queue"} # {}
        BY <2>1, <3>2 DEF HoldInv
      <4> QED
        BY <3>3, <3>5, <4>1
    <3>9. \A i, j \in DOMAIN left' : i = j
      BY <3>3
    <3> QED
      BY <2>1, <3>4, <3>6, <3>7, <3>8, <3>9 DEF HoldInv
  <2> QED
    BY <2>2, <2>3
<1>8. CASE FeedBroken \/ StopHandler
  BY <1>8, HoldFailAll DEF FeedBroken, StopHandler
<1>9. ASSUME NEW s \in Sids, OnClientConnect(s) \/ OnClientDisconnect(s) \/ CloseSession(s)
      PROVE  HoldInv'
  BY <1>2, <1>9, HoldFailAll DEF OnClientConnect, OnClientDisconnect, CloseSession
<1>10. CASE Settle \/ RequestStop \/ UNCHANGED vars
  BY <1>2, <1>10 DEF Settle, RequestStop, vars
<1> QED
  BY <1>1, <1>3, <1>4, <1>5, <1>6, <1>7, <1>8, <1>9, <1>10 DEF Next, PollStep, Submit

-----------------------------------------------------------------------------
\* What the client keeps at every step of Submit, Feed, SweepTimeout, Settle, the callers,
\* the sessions and the stop: the queue is the wire, and everybody in it is held.
THEOREM RedisInvariant == Spec => []IInv
<1>1. Init => IInv
  <2> SUFFICES ASSUME Init PROVE IInv
    OBVIOUS
  <2>1. TypeOK
    BY RedisAssumption DEF Init, TypeOK, Holders, Statuses
  <2>2. WireInv /\ ReplyInv
    BY DEF Init, WireInv, ReplyInv, ReplyMatches
  <2>3. HoldInv
    BY DEF Init, HoldInv, InWait, InLeft
  <2> QED
    BY <2>1, <2>2, <2>3 DEF IInv
<1>2. IInv /\ [Next]_vars => IInv'
  BY TypeStep, WireStep, ReplyStep, HoldStep DEF IInv
<1> QED
  BY <1>1, <1>2, PTL DEF Spec

\* A reply reaches the call whose command it answers (Feed, oi_redis.cpp:541), and a State
\* is not freed while the queue or a batch leads to it (Release, oi_redis.cpp:215), for any
\* number of calls, sessions and pending commands.
THEOREM RedisReplySound == Spec => []ReplySound
<1>1. ASSUME IInv
      PROVE  ReplySound
  <2>1. \A i \in DOMAIN left : left[i].release = {} => "queue" \in iReferences[left[i].call]
    BY <1>1 DEF IInv, HoldInv, InWait
  <2>2. \A i \in DOMAIN left : left[i].release # {} =>
          left[i].release \subseteq iReferences[left[i].call] \ {"caller"}
    BY <1>1 DEF IInv, HoldInv
  <2>3. \A i \in DOMAIN left : iReferences[left[i].call] \ {"caller"} # {}
    BY <2>1, <2>2
  <2> QED
    BY <1>1, <2>3 DEF IInv, ReplyInv, HoldInv, ReplySound, StateAlive
<1> QED
  BY <1>1, RedisInvariant, PTL
-----------------------------------------------------------------------------

LEMMA AppendFacts ==
  ASSUME NEW S, NEW q \in Seq(S), NEW e \in S
  PROVE  /\ Append(q, e) \in Seq(S) /\ Append(q, e) # <<>>
         /\ Len(q) \in Nat /\ DOMAIN q = 1..Len(q) /\ Len(Append(q, e)) = Len(q) + 1
         /\ DOMAIN Append(q, e) = 1..(Len(q) + 1)
         /\ Append(q, e)[Len(q) + 1] = e
         /\ \A i \in 1..Len(q) : Append(q, e)[i] = q[i]
OBVIOUS

LEMMA TailFacts ==
  ASSUME NEW S, NEW q \in Seq(S), q # <<>>
  PROVE  /\ Len(q) \in Nat /\ DOMAIN q = 1..Len(q) /\ Len(q) > 0 /\ 1 \in DOMAIN q
         /\ Head(q) = q[1] /\ Head(q) \in S /\ Tail(q) \in Seq(S)
         /\ Len(Tail(q)) = Len(q) - 1 /\ DOMAIN Tail(q) = 1..(Len(q) - 1)
         /\ \A i \in DOMAIN Tail(q) : i + 1 \in DOMAIN q /\ Tail(q)[i] = q[i + 1]
OBVIOUS

\* A set of naturals that is not empty has a least element.
LEMMA LeastNat ==
  ASSUME NEW T, T \subseteq Nat, T # {}
  PROVE  \E x \in T : \A y \in T : x <= y
<1> DEFINE Less == OpToRel(<, Nat)
<1>1. IsWellFoundedOn(Less, Nat)
  BY NatLessThanWellFounded
<1>2. \A x, y \in Nat : y < x => <<y, x>> \in Less
  BY DEF OpToRel
<1> HIDE DEF Less
<1>3. PICK x \in T : \A y \in T : ~(<<y, x>> \in Less)
  BY Zenon, <1>1, WFMin
<1>4. \A y \in T : ~(y < x)
  BY Zenon, <1>2, <1>3
<1>5. \A y \in T : x <= y
  BY <1>4
<1> QED
  BY <1>5

-----------------------------------------------------------------------------
(* The bytes of a queue of commands or logs *)

\* What SumBytes of the service computes.
Bytes(q) ==
  LET sum[n \in 0..Len(q)] == IF n = 0 THEN 0 ELSE sum[n - 1] + q[n].bytes
  IN sum[Len(q)]

\* p[i] is the sum of the first i elements of q, up to n of them.
PrefixSum(p, q, n) ==
  /\ p \in [0..n -> Int] /\ p[0] = 0
  /\ \A i \in 1..n : p[i] = p[i - 1] + q[i].bytes

PrefixSums(p, q) == PrefixSum(p, q, Len(q))

\* There are prefix sums: the recursive definition of SumBytes defines some.
LEMMA PrefixSumsExist ==
  ASSUME NEW S, \A e \in S : e.bytes \in Nat, NEW q \in Seq(S)
  PROVE  \E p : PrefixSums(p, q)
<1> DEFINE Bad == {n \in 0..Len(q) : ~\E p : PrefixSum(p, q, n)}
<1>0. Len(q) \in Nat /\ Bad \subseteq Nat /\ \A i \in 1..Len(q) : q[i].bytes \in Nat
  OBVIOUS
<1>1. ASSUME Bad # {} PROVE FALSE
  <2>1. PICK n \in Bad : \A m \in Bad : n <= m
    BY Zenon, <1>0, <1>1, LeastNat
  <2>2. n # 0
    <3> DEFINE p == [i \in 0..0 |-> 0]
    <3>1. p \in [0..0 -> Int] /\ p[0] = 0 /\ 1..0 = {}
      OBVIOUS
    <3> HIDE DEF p
    <3>2. PrefixSum(p, q, 0)
      BY <3>1 DEF PrefixSum
    <3> QED
      BY Zenon, <2>1, <3>2
  <2>3. n \in 1..Len(q) /\ n - 1 \in 0..Len(q) /\ n - 1 \notin Bad
    <3>1. n \in 0..Len(q)
      BY Zenon, <2>1
    <3>2. n \in 1..Len(q) /\ n - 1 \in 0..Len(q) /\ ~(n <= n - 1)
      BY <1>0, <2>2, <3>1
    <3> QED
      BY Zenon, <2>1, <3>2
  <2>4. PICK p : PrefixSum(p, q, n - 1)
    BY Zenon, <2>3
  <2>5. /\ p \in [0..(n - 1) -> Int] /\ p[0] = 0
        /\ \A i \in 1..(n - 1) : p[i] = p[i - 1] + q[i].bytes
    BY Zenon, <2>4 DEF PrefixSum
  <2> DEFINE g == [i \in 0..n |-> IF i = n THEN p[n - 1] + q[n].bytes ELSE p[i]]
  <2>6. p[n - 1] + q[n].bytes \in Int
    BY <1>0, <2>3, <2>5
  <2>7. \A i \in 0..n : i # n => i \in 0..(n - 1)
    BY <2>3
  <2>8. g \in [0..n -> Int]
    BY <2>5, <2>6, <2>7
  <2>9. g[0] = 0
    BY <2>3, <2>5
  <2>10. ASSUME NEW i \in 1..n
         PROVE  g[i] = g[i - 1] + q[i].bytes
    <3>1. i - 1 \in 0..n /\ i - 1 # n /\ i \in 0..n /\ (i # n => i \in 1..(n - 1))
      BY <2>3
    <3>2. g[i - 1] = p[i - 1]
      BY Zenon, <3>1
    <3>3. g[i] = p[i - 1] + q[i].bytes
      BY Zenon, <2>5, <3>1
    <3> QED
      BY Zenon, <3>2, <3>3
  <2> HIDE DEF g
  <2>11. PrefixSum(g, q, n)
    BY Zenon, <2>8, <2>9, <2>10 DEF PrefixSum
  <2> QED
    BY Zenon, <2>1, <2>11
<1>2. Len(q) \in 0..Len(q)
  BY <1>0
<1> QED
  BY Zenon, <1>1, <1>2 DEF PrefixSums

\* Two functions on 0..n that agree at 0 and step alike agree.
LEMMA StepAlike ==
  ASSUME NEW n \in Nat, NEW f, NEW h, f[0] = h[0],
         \A i \in 1..n : f[i - 1] = h[i - 1] => f[i] = h[i]
  PROVE  f[n] = h[n]
<1> DEFINE Bad == {i \in 0..n : f[i] # h[i]}
<1> SUFFICES ASSUME Bad # {} PROVE FALSE
  OBVIOUS
<1>0. Bad \subseteq Nat
  OBVIOUS
<1>1. PICK i \in Bad : \A j \in Bad : i <= j
  BY Zenon, <1>0, LeastNat
<1>2. i \in 1..n /\ i - 1 \in 0..n /\ i - 1 \notin Bad
  BY <1>1
<1> QED
  BY <1>1, <1>2

\* SumBytes is the last of the prefix sums.
LEMMA BytesPrefix ==
  ASSUME NEW S, \A e \in S : e.bytes \in Nat, NEW q \in Seq(S)
  PROVE  \E p : PrefixSums(p, q) /\ Bytes(q) = p[Len(q)]
<1> DEFINE N == 0..Len(q)
           Eq(p) == p = [n \in N |-> IF n = 0 THEN 0 ELSE p[n - 1] + q[n].bytes]
           H == CHOOSE p : Eq(p)
<1>0. Len(q) \in Nat /\ 0 \in N /\ \A i \in 1..Len(q) : i \in N /\ i # 0
  OBVIOUS
<1>1. Bytes(q) = H[Len(q)]
  BY Zenon DEF Bytes
<1>2. PICK p : PrefixSums(p, q)
  BY Zenon, PrefixSumsExist
<1>3. /\ p \in [N -> Int] /\ p[0] = 0
      /\ \A i \in 1..Len(q) : p[i] = p[i - 1] + q[i].bytes
  BY Zenon, <1>2 DEF PrefixSums, PrefixSum
<1>4. \A n \in N : p[n] = IF n = 0 THEN 0 ELSE p[n - 1] + q[n].bytes
  <2>1. \A n \in N : n # 0 => n \in 1..Len(q)
    BY <1>0
  <2> QED
    BY Zenon, <1>3, <2>1
<1> HIDE DEF N
<1>5. Eq(p)
  BY Zenon, <1>3, <1>4
<1> HIDE DEF Eq
<1>6. Eq(H)
  BY Zenon, <1>5
<1> HIDE DEF H
<1>7. H[0] = 0 /\ \A i \in 1..Len(q) : H[i] = H[i - 1] + q[i].bytes
  BY Zenon, <1>0, <1>6 DEF Eq
<1>8. H[0] = p[0] /\ \A i \in 1..Len(q) : H[i - 1] = p[i - 1] => H[i] = p[i]
  BY Zenon, <1>3, <1>7
<1>9. H[Len(q)] = p[Len(q)]
  BY Zenon, <1>0, <1>8, StepAlike
<1> QED
  BY Zenon, <1>1, <1>2, <1>9

\* SumBytes is a natural number.
LEMMA BytesNat ==
  ASSUME NEW S, \A e \in S : e.bytes \in Nat, NEW q \in Seq(S)
  PROVE  Bytes(q) \in Nat
<1>1. PICK p : PrefixSums(p, q) /\ Bytes(q) = p[Len(q)]
  BY Zenon, BytesPrefix
<1>2. Len(q) \in Nat /\ p \in [0..Len(q) -> Int]
  BY <1>1 DEF PrefixSums, PrefixSum
<1> DEFINE Bad == {i \in 0..Len(q) : ~(p[i] >= 0)}
<1>3. ASSUME Bad # {} PROVE FALSE
  <2>0. Bad \subseteq Nat
    BY <1>2
  <2>1. PICK i \in Bad : \A j \in Bad : i <= j
    BY Zenon, <1>3, <2>0, LeastNat
  <2>2. i # 0
    BY <1>1, <2>1 DEF PrefixSums, PrefixSum
  <2>3. i \in 1..Len(q) /\ i - 1 \in 0..Len(q) /\ i - 1 \notin Bad
    BY <1>2, <2>1, <2>2
  <2>4. p[i] = p[i - 1] + q[i].bytes /\ q[i].bytes \in Nat
    BY <1>1, <2>3 DEF PrefixSums, PrefixSum
  <2>5. p[i - 1] \in Int /\ p[i - 1] >= 0
    BY <1>2, <2>3
  <2>6. ~(p[i] >= 0)
    BY <2>1
  <2> QED
    BY <2>4, <2>5, <2>6
<1> QED
  BY <1>1, <1>2, <1>3

LEMMA BytesEmpty == Bytes(<<>>) = 0
<1>1. <<>> \in Seq({}) /\ Len(<<>>) = 0
  OBVIOUS
<1>2. PICK p : PrefixSums(p, <<>>) /\ Bytes(<<>>) = p[Len(<<>>)]
  BY <1>1, BytesPrefix
<1> QED
  BY <1>1, <1>2 DEF PrefixSums, PrefixSum

\* One element more adds its bytes.
LEMMA BytesAppend ==
  ASSUME NEW S, \A e \in S : e.bytes \in Nat, NEW q \in Seq(S), NEW x \in S
  PROVE  Bytes(Append(q, x)) = Bytes(q) + x.bytes
<1> DEFINE r == Append(q, x)
<1>1. r \in Seq(S) /\ Len(q) \in Nat /\ Len(r) = Len(q) + 1 /\ r[Len(q) + 1] = x
      /\ \A i \in 1..Len(q) : r[i] = q[i]
  BY AppendFacts
<1> HIDE DEF r
<1>2. PICK p : PrefixSums(p, q) /\ Bytes(q) = p[Len(q)]
  BY Zenon, BytesPrefix
<1>3. PICK t : PrefixSums(t, r) /\ Bytes(r) = t[Len(r)]
  BY Zenon, <1>1, BytesPrefix
<1>4. t[0] = p[0]
  BY <1>2, <1>3 DEF PrefixSums, PrefixSum
<1>5. \A i \in 1..Len(q) : t[i - 1] = p[i - 1] => t[i] = p[i]
  <2> SUFFICES ASSUME NEW i \in 1..Len(q), t[i - 1] = p[i - 1] PROVE t[i] = p[i]
    OBVIOUS
  <2>1. p[i] = p[i - 1] + q[i].bytes
    BY <1>2 DEF PrefixSums, PrefixSum
  <2>2. i \in 1..Len(r) /\ r[i] = q[i]
    BY <1>1
  <2>3. t[i] = t[i - 1] + r[i].bytes
    BY <1>3, <2>2 DEF PrefixSums, PrefixSum
  <2> QED
    BY <2>1, <2>2, <2>3
<1>6. t[Len(q)] = p[Len(q)]
  BY Zenon, <1>1, <1>4, <1>5, StepAlike
<1>7. Len(q) + 1 \in 1..Len(r) /\ (Len(q) + 1) - 1 = Len(q)
  BY <1>1
<1>8. t[Len(q) + 1] = t[(Len(q) + 1) - 1] + r[Len(q) + 1].bytes
  BY <1>3, <1>7 DEF PrefixSums, PrefixSum
<1> QED
  BY <1>1, <1>2, <1>3, <1>6, <1>7, <1>8 DEF r

\* What is taken from the head is taken from the sum.
LEMMA BytesTail ==
  ASSUME NEW S, \A e \in S : e.bytes \in Nat, NEW q \in Seq(S), q # <<>>
  PROVE  Bytes(Tail(q)) = Bytes(q) - Head(q).bytes
<1> DEFINE r == Tail(q)
           n == Len(q) - 1
<1>1. /\ r \in Seq(S) /\ n \in Nat /\ Len(r) = n /\ Len(q) = n + 1 /\ Head(q) = q[1]
      /\ Head(q) \in S
      /\ \A i \in 1..n : r[i] = q[i + 1]
  BY TailFacts
<1> HIDE DEF r, n
<1>2. PICK p : PrefixSums(p, q) /\ Bytes(q) = p[Len(q)]
  BY Zenon, BytesPrefix
<1>3. PICK t : PrefixSums(t, r) /\ Bytes(r) = t[Len(r)]
  BY Zenon, <1>1, BytesPrefix
<1>0. /\ p \in [0..Len(q) -> Int] /\ p[0] = 0
      /\ \A i \in 1..Len(q) : p[i] = p[i - 1] + q[i].bytes
      /\ t \in [0..n -> Int] /\ t[0] = 0
      /\ \A i \in 1..n : t[i] = t[i - 1] + r[i].bytes
  BY <1>1, <1>2, <1>3 DEF PrefixSums, PrefixSum
<1> DEFINE f == [i \in 0..n |-> p[i + 1] - q[1].bytes]
<1>4. \A i \in 0..n : f[i] = p[i + 1] - q[1].bytes /\ p[i + 1] \in Int
  BY <1>0, <1>1
<1> HIDE DEF f
<1>5. q[1].bytes \in Nat
  BY <1>1
<1>6. t[0] = f[0]
  <2>1. 1 \in 1..Len(q) /\ 0 \in 0..n
    BY <1>1
  <2>2. p[1] = p[0] + q[1].bytes
    BY <1>0, <2>1
  <2>3. f[0] = p[0 + 1] - q[1].bytes
    BY <1>4, <2>1
  <2>4. t[0] = 0 /\ p[0] = 0
    BY Zenon, <1>0
  <2> QED
    BY <1>5, <2>2, <2>3, <2>4
<1>7. \A i \in 1..n : t[i - 1] = f[i - 1] => t[i] = f[i]
  <2> SUFFICES ASSUME NEW i \in 1..n, t[i - 1] = f[i - 1] PROVE t[i] = f[i]
    OBVIOUS
  <2>1. i \in 0..n /\ i - 1 \in 0..n /\ (i - 1) + 1 = i /\ i + 1 \in 1..Len(q)
        /\ (i + 1) - 1 = i
    BY <1>1
  <2>2. t[i] = f[i - 1] + r[i].bytes
    BY <1>0
  <2>3. r[i] = q[i + 1] /\ q[i + 1] \in S
    BY <1>1, <2>1
  <2>4. p[i + 1] = p[i] + q[i + 1].bytes
    BY <1>0, <2>1
  <2>5. f[i - 1] = p[i] - q[1].bytes /\ f[i] = p[i + 1] - q[1].bytes /\ p[i] \in Int
    BY <1>0, <1>1, <1>4, <2>1
  <2>6. r[i].bytes \in Nat
    BY <2>3
  <2> QED
    BY <1>5, <2>2, <2>3, <2>4, <2>5, <2>6
<1>8. t[n] = f[n]
  BY Zenon, <1>1, <1>6, <1>7, StepAlike
<1>9. f[n] = p[Len(q)] - q[1].bytes
  BY <1>1, <1>4
<1> QED
  BY <1>1, <1>2, <1>3, <1>8, <1>9 DEF r

\* What a queue has after each operation on it.
LEMMA RangeAppend ==
  ASSUME NEW S, NEW q \in Seq(S), NEW e \in S
  PROVE  Append(q, e) \in Seq(S) /\ Range(Append(q, e)) = Range(q) \cup {e}
<1>1. /\ Append(q, e) \in Seq(S) /\ Len(q) \in Nat /\ DOMAIN q = 1..Len(q)
      /\ DOMAIN Append(q, e) = 1..(Len(q) + 1) /\ Append(q, e)[Len(q) + 1] = e
      /\ \A i \in 1..Len(q) : Append(q, e)[i] = q[i]
  BY AppendFacts
<1> DEFINE r == Append(q, e)
<1>2. 1..(Len(q) + 1) = 1..Len(q) \cup {Len(q) + 1}
  BY <1>1
<1> HIDE DEF r
<1>3. Range(r) = {r[i] : i \in DOMAIN q \cup {Len(q) + 1}}
  BY Zenon, <1>1, <1>2 DEF Range, r
<1>4. r[Len(q) + 1] = e /\ \A i \in DOMAIN q : r[i] = q[i]
  BY Zenon, <1>1 DEF r
<1>5. Range(r) = Range(q) \cup {e}
  BY <1>3, <1>4 DEF Range
<1> QED
  BY Zenon, <1>1, <1>5 DEF r

LEMMA RangeTail ==
  ASSUME NEW S, NEW q \in Seq(S), q # <<>>
  PROVE  /\ Tail(q) \in Seq(S) /\ Head(q) \in S /\ Range(q) \ {Head(q)} \subseteq Range(Tail(q))
         /\ Len(Tail(q)) = Len(q) - 1 /\ Len(q) \in Nat
<1>1. /\ Len(q) \in Nat /\ DOMAIN q = 1..Len(q) /\ Head(q) = q[1] /\ Head(q) \in S
      /\ Tail(q) \in Seq(S) /\ Len(Tail(q)) = Len(q) - 1 /\ DOMAIN Tail(q) = 1..(Len(q) - 1)
      /\ \A i \in DOMAIN Tail(q) : Tail(q)[i] = q[i + 1]
  BY TailFacts
<1>2. ASSUME NEW i \in 1..Len(q), q[i] # q[1]
      PROVE  \E j \in DOMAIN Tail(q) : Tail(q)[j] = q[i]
  <2>1. i - 1 \in 1..(Len(q) - 1) /\ (i - 1) + 1 = i
    BY <1>1, <1>2
  <2> QED
    BY Zenon, <1>1, <2>1
<1>3. ASSUME NEW x \in Range(q), x # Head(q) PROVE x \in Range(Tail(q))
  <2>1. PICK i \in DOMAIN q : x = q[i]
    BY Zenon DEF Range
  <2>2. \E j \in DOMAIN Tail(q) : Tail(q)[j] = q[i]
    BY Zenon, <1>1, <1>2, <1>3, <2>1
  <2> QED
    BY Zenon, <2>1, <2>2 DEF Range
<1> QED
  BY Zenon, <1>1, <1>3

LEMMA RangeCons ==
  ASSUME NEW S, NEW q \in Seq(S), NEW e \in S
  PROVE  <<e>> \o q \in Seq(S) /\ Range(<<e>> \o q) = Range(q) \cup {e}
<1> DEFINE r == <<e>> \o q
<1>1. /\ r \in Seq(S) /\ Len(q) \in Nat /\ DOMAIN q = 1..Len(q) /\ DOMAIN r = 1..(Len(q) + 1)
      /\ r[1] = e /\ \A i \in 1..Len(q) : r[i + 1] = q[i]
  OBVIOUS
<1> HIDE DEF r
<1>2. ASSUME NEW i \in DOMAIN r PROVE i = 1 \/ \E j \in DOMAIN q : q[j] = r[i]
  <2>1. CASE i # 1
    <3>1. i - 1 \in 1..Len(q) /\ (i - 1) + 1 = i
      BY <1>1, <2>1
    <3> QED
      BY Zenon, <1>1, <3>1
  <2> QED
    BY <2>1
<1>3. 1 \in DOMAIN r /\ \A i \in DOMAIN q : i + 1 \in DOMAIN r /\ r[i + 1] = q[i]
  BY <1>1
<1>4. Range(r) = Range(q) \cup {e}
  <2>1. ASSUME NEW x \in Range(r) PROVE x \in Range(q) \cup {e}
    <3>1. PICK i \in DOMAIN r : x = r[i]
      BY Zenon DEF Range
    <3> QED
      BY Zenon, <1>1, <1>2, <3>1 DEF Range
  <2>2. ASSUME NEW x \in Range(q) PROVE x \in Range(r)
    <3>1. PICK i \in DOMAIN q : x = q[i]
      BY Zenon DEF Range
    <3> QED
      BY Zenon, <1>3, <3>1 DEF Range
  <2>3. e \in Range(r)
    BY Zenon, <1>1, <1>3 DEF Range
  <2> QED
    BY Zenon, <2>1, <2>2, <2>3
<1> QED
  BY Zenon, <1>1, <1>4 DEF r

-----------------------------------------------------------------------------
(* RedisServer *)

\* The queue without a session, by its prefixes.
IsKept(f, q, s, n) ==
  /\ f[0] = <<>>
  /\ \A i \in 1..n : f[i] = IF q[i] = s THEN f[i - 1] ELSE Append(f[i - 1], q[i])

\* There is a table of the prefixes: the recursive definition of Erase defines one.
LEMMA KeptExists ==
  ASSUME NEW S, NEW q \in Seq(S), NEW s
  PROVE  \E f \in [0..Len(q) -> Seq(S)] : IsKept(f, q, s, Len(q))
<1> DEFINE Bad == {n \in 0..Len(q) : ~\E f \in [0..n -> Seq(S)] : IsKept(f, q, s, n)}
<1>0. Len(q) \in Nat /\ Bad \subseteq Nat /\ \A i \in 1..Len(q) : q[i] \in S
  OBVIOUS
<1>1. ASSUME Bad # {} PROVE FALSE
  <2>1. PICK n \in Bad : \A m \in Bad : n <= m
    BY Zenon, <1>0, <1>1, LeastNat
  <2>2. n # 0
    <3> DEFINE f == [i \in 0..0 |-> <<>>]
    <3>1. f \in [0..0 -> Seq(S)] /\ f[0] = <<>> /\ 1..0 = {}
      OBVIOUS
    <3>2. IsKept(f, q, s, 0)
      BY <3>1 DEF IsKept
    <3> QED
      BY <2>1, <3>1, <3>2
  <2>3. /\ n \in 1..Len(q) /\ n - 1 \in 0..Len(q) /\ n - 1 \notin Bad
        /\ n - 1 \in 0..(n - 1) /\ n - 1 \in Nat
    <3>1. n \in 0..Len(q) /\ n \in Nat
      BY <1>0, <2>1
    <3>2. /\ n \in 1..Len(q) /\ n - 1 \in 0..Len(q) /\ ~(n <= n - 1)
          /\ n - 1 \in 0..(n - 1) /\ n - 1 \in Nat /\ 1..n = (1..(n - 1)) \cup {n}
      BY <1>0, <2>2, <3>1
    <3> QED
      BY Zenon, <2>1, <3>2
  <2>4. PICK f \in [0..(n - 1) -> Seq(S)] : IsKept(f, q, s, n - 1)
    BY Zenon, <2>3
  <2> DEFINE x == IF q[n] = s THEN f[n - 1] ELSE Append(f[n - 1], q[n])
             g == [i \in 0..n |-> IF i = n THEN x ELSE f[i]]
  <2>5. x \in Seq(S)
    <3>1. f[n - 1] \in Seq(S) /\ q[n] \in S
      BY <1>0, <2>3, <2>4
    <3>2. Append(f[n - 1], q[n]) \in Seq(S)
      BY <3>1, AppendFacts
    <3> QED
      BY Zenon, <3>1, <3>2
  <2> HIDE DEF x
  <2>6. \A i \in 0..n : i # n => i \in 0..(n - 1)
    BY <2>3
  <2>7. g \in [0..n -> Seq(S)]
    BY Zenon, <2>4, <2>5, <2>6
  <2>8. 0 \in 0..n /\ 0 # n /\ n \in 0..n
    BY <2>2, <2>3
  <2>9. g[0] = <<>> /\ g[n] = x
    BY Zenon, <2>4, <2>8 DEF IsKept
  <2>10. \A i \in 1..n : /\ i - 1 \in 0..n /\ i - 1 # n /\ i \in 0..n
                         /\ (i # n => i \in 1..(n - 1))
    BY <2>3
  <2>11. ASSUME NEW i \in 1..n
         PROVE  g[i] = IF q[i] = s THEN g[i - 1] ELSE Append(g[i - 1], q[i])
    <3>1. g[i - 1] = f[i - 1]
      BY Zenon, <2>10
    <3>2. CASE i = n
      BY Zenon, <2>9, <3>1, <3>2 DEF x
    <3>3. CASE i # n
      <4>1. g[i] = f[i] /\ i \in 1..(n - 1)
        BY Zenon, <2>10, <3>3
      <4> QED
        BY Zenon, <2>4, <3>1, <4>1 DEF IsKept
    <3> QED
      BY <3>2, <3>3
  <2> HIDE DEF g
  <2>12. IsKept(g, q, s, n)
    BY Zenon, <2>9, <2>11 DEF IsKept
  <2> QED
    BY Zenon, <2>1, <2>7, <2>12
<1> QED
  BY <1>0, <1>1

\* Erase is the last entry of a table.
LEMMA EraseIs ==
  ASSUME NEW S, NEW q \in Seq(S), NEW s
  PROVE  \E f : IsKept(f, q, s, Len(q)) /\ P!Erase(q, s) = f[Len(q)]
<1> DEFINE N == 0..Len(q)
           Eq(f) == f = [n \in N |-> IF n = 0 THEN <<>>
                                     ELSE IF q[n] = s THEN f[n - 1] ELSE Append(f[n - 1], q[n])]
           H == CHOOSE f : Eq(f)
<1>0. Len(q) \in Nat /\ 0 \in N /\ \A i \in 1..Len(q) : i \in N /\ i # 0
  OBVIOUS
<1>1. P!Erase(q, s) = H[Len(q)]
  BY Zenon DEF P!Erase
<1>2. PICK f \in [N -> Seq(S)] : IsKept(f, q, s, Len(q))
  BY Zenon, KeptExists
<1>3. \A n \in N : f[n] = IF n = 0 THEN <<>>
                          ELSE IF q[n] = s THEN f[n - 1] ELSE Append(f[n - 1], q[n])
  <2>1. \A n \in N : n # 0 => n \in 1..Len(q)
    BY <1>0
  <2> QED
    BY Zenon, <1>2, <2>1 DEF IsKept
<1> HIDE DEF N
<1>4. Eq(f)
  BY Zenon, <1>2, <1>3
<1> HIDE DEF Eq
<1>5. Eq(H)
  BY Zenon, <1>4
<1> HIDE DEF H
<1>6. IsKept(H, q, s, Len(q))
  BY Zenon, <1>0, <1>5 DEF Eq, IsKept
<1> QED
  BY Zenon, <1>1, <1>6

\* Erase keeps the other sessions, and only them.
LEMMA EraseFacts ==
  ASSUME NEW S, NEW q \in Seq(S), NEW s
  PROVE  P!Erase(q, s) \in Seq(S) /\ Range(P!Erase(q, s)) = Range(q) \ {s}
<1>1. PICK f : IsKept(f, q, s, Len(q)) /\ P!Erase(q, s) = f[Len(q)]
  BY Zenon, EraseIs
<1>0. Len(q) \in Nat /\ DOMAIN q = 1..Len(q) /\ \A i \in 1..Len(q) : q[i] \in S
  OBVIOUS
<1> DEFINE Upto(n) == {q[i] : i \in 1..n}
           Ok(n) == f[n] \in Seq(S) /\ Range(f[n]) = Upto(n) \ {s}
           Bad == {n \in 0..Len(q) : ~Ok(n)}
<1>2. ASSUME Bad # {} PROVE FALSE
  <2>0. Bad \subseteq Nat
    BY <1>0
  <2>1. PICK n \in Bad : \A m \in Bad : n <= m
    BY Zenon, <1>2, <2>0, LeastNat
  <2>2. n # 0
    <3>1. f[0] = <<>>
      BY <1>1 DEF IsKept
    <3>2. Range(<<>>) = {} /\ <<>> \in Seq(S) /\ 1..0 = {}
      BY DEF Range
    <3>3. Ok(0)
      BY <3>1, <3>2
    <3> QED
      BY Zenon, <2>1, <3>3
  <2>3. n \in 1..Len(q) /\ n - 1 \in 0..Len(q) /\ n - 1 \notin Bad /\ 1..n = (1..(n - 1)) \cup {n}
    <3>1. n \in 0..Len(q) /\ n \in Nat
      BY <1>0, <2>1
    <3>2. /\ n \in 1..Len(q) /\ n - 1 \in 0..Len(q) /\ ~(n <= n - 1)
          /\ n - 1 \in 0..(n - 1) /\ n - 1 \in Nat /\ 1..n = (1..(n - 1)) \cup {n}
      BY <1>0, <2>2, <3>1
    <3> QED
      BY Zenon, <2>1, <3>2
  <2>4. Ok(n - 1)
    BY Zenon, <2>3
  <2>5. f[n] = IF q[n] = s THEN f[n - 1] ELSE Append(f[n - 1], q[n])
    BY Zenon, <1>1, <2>3 DEF IsKept
  <2>6. Upto(n) = Upto(n - 1) \cup {q[n]}
    BY <2>3
  <2>7. CASE q[n] = s
    <3>1. f[n] = f[n - 1]
      BY Zenon, <2>5, <2>7
    <3>2. Upto(n) \ {s} = Upto(n - 1) \ {s}
      <4> HIDE DEF Upto
      <4> QED
        BY <2>6, <2>7
    <3> QED
      BY Zenon, <2>1, <2>4, <3>1, <3>2
  <2>8. CASE q[n] # s
    <3>1. f[n] = Append(f[n - 1], q[n]) /\ q[n] \in S
      BY Zenon, <1>0, <2>3, <2>5, <2>8
    <3>2. Append(f[n - 1], q[n]) \in Seq(S)
          /\ Range(Append(f[n - 1], q[n])) = Range(f[n - 1]) \cup {q[n]}
      <4>1. f[n - 1] \in Seq(S)
        BY Zenon, <2>4
      <4> QED
        BY SMTT(20), <3>1, <4>1, RangeAppend
    <3>3. Upto(n) \ {s} = (Upto(n - 1) \ {s}) \cup {q[n]}
      <4> HIDE DEF Upto
      <4> QED
        BY <2>6, <2>8
    <3> QED
      BY Zenon, <2>1, <2>4, <3>1, <3>2, <3>3
  <2> QED
    BY <2>7, <2>8
<1>3. Upto(Len(q)) = Range(q)
  BY <1>0 DEF Range
<1>4. Len(q) \in 0..Len(q)
  BY <1>0
<1> QED
  BY Zenon, <1>1, <1>2, <1>3, <1>4

-----------------------------------------------------------------------------
Commands == [sid : Clients, bytes : Nat]
Positions ==
  [at : {"idle", "input", "resume", "resumed"}, sid : Clients \cup {P!NoOne}, budget : Int,
   consumed : BOOLEAN, remaining : Int, progress : BOOLEAN]

\* The commands, and where the loops of the thread are.
CommandType == vCommands \in [Clients -> Seq(Nat)] /\ vPending \in Seq(Commands)

PlaceType ==
  /\ redisPoll \in Positions /\ (redisPoll.at = "idle" => redisPoll = P!Idle)
  /\ redisPoll.at \in {"input", "resumed"} => redisPoll.sid \in Clients

\* An open session that is paused is among the paused ones, and those are in the queue.
QueueInv ==
  /\ session \in [Clients -> {"open", "closed", "deleted"}]
  /\ m_bReadPaused \in [Clients -> BOOLEAN]
  /\ vPaused \subseteq Clients /\ vReady \in Seq(Clients)
  /\ \A s \in Clients : session[s] = "open" /\ m_bReadPaused[s] => s \in vPaused
  /\ vPaused \subseteq Range(vReady)

\* Nobody is paused, or somebody will resume them.
Attended == vPaused = {} \/ bResumeArmed \/ vPending # <<>>

\* A round that has given nobody anything has yet to see the whole queue, or has met the limit:
\* then commands are outstanding, whose replies arm the next round.
RoundInv ==
  /\ bResuming \in BOOLEAN
  /\ redisPoll.at = "idle" => ~bResuming
  /\ redisPoll.at \in {"resume", "resumed"} => bResuming
  /\ redisPoll.at = "input" /\ bResuming => redisPoll.sid \notin vPaused
  /\ redisPoll.at = "resumed" /\ ~redisPoll.consumed /\ redisPoll.sid \in vPaused
       => vPending # <<>>
  /\ bResuming /\ ~redisPoll.progress /\ (redisPoll.at # "resume" => ~redisPoll.consumed)
       => redisPoll.remaining = Len(vReady) \/ vPending # <<>>
  /\ ~bResuming => Attended

ProxyInv == CommandType /\ PlaceType /\ QueueInv /\ RoundInv /\ P!CreditExact

-----------------------------------------------------------------------------
\* The places the loops go to.
LEMMA IdlePlace ==
  /\ P!Idle \in Positions /\ P!Idle.at = "idle" /\ P!Idle.consumed = FALSE
  /\ P!Idle.progress = FALSE
  BY DEF P!Idle, Positions

LEMMA InputPlace ==
  ASSUME NEW s \in Clients, NEW p,
         p = [P!Idle EXCEPT !.at = "input", !.sid = s, !.budget = iBudget]
  PROVE  p \in Positions /\ p.at = "input" /\ p.sid = s
<1>1. iBudget \in Int
  BY ProxyAssumption
<1> DEFINE r == [at |-> "input", sid |-> s, budget |-> iBudget, consumed |-> FALSE,
                 remaining |-> 0, progress |-> FALSE]
<1>2. p = r
  BY DEF P!Idle
<1>3. r \in Positions /\ r.at = "input" /\ r.sid = s
  BY <1>1 DEF Positions
<1> QED
  BY Zenon, <1>2, <1>3

LEMMA ResumePlace ==
  ASSUME NEW n \in Nat, NEW p, p = [P!Idle EXCEPT !.at = "resume", !.remaining = n]
  PROVE  /\ p \in Positions /\ p.at = "resume" /\ p.remaining = n /\ p.progress = FALSE
<1> DEFINE r == [at |-> "resume", sid |-> P!NoOne, budget |-> 0, consumed |-> FALSE,
                 remaining |-> n, progress |-> FALSE]
<1>1. p = r
  BY DEF P!Idle
<1>2. r \in Positions /\ r.at = "resume" /\ r.remaining = n /\ r.progress = FALSE
  BY DEF Positions
<1> QED
  BY Zenon, <1>1, <1>2

LEMMA BackPlace ==
  ASSUME NEW o \in Positions, NEW p, p = [o EXCEPT !.at = "resumed"]
  PROVE  /\ p \in Positions /\ p.at = "resumed" /\ p.sid = o.sid /\ p.consumed = o.consumed
         /\ p.remaining = o.remaining /\ p.progress = o.progress
  BY DEF Positions

\* Where the loops are once a command was read, c: its session is still open.
AfterRead(c) == [redisPoll EXCEPT !.consumed = @ \/ c, !.budget = @ - 1]

LEMMA AfterPlace ==
  ASSUME redisPoll \in Positions, NEW c \in BOOLEAN
  PROVE  /\ AfterRead(c) \in Positions /\ AfterRead(c).at = redisPoll.at
         /\ AfterRead(c).sid = redisPoll.sid /\ AfterRead(c).remaining = redisPoll.remaining
         /\ AfterRead(c).progress = redisPoll.progress
         /\ AfterRead(c).consumed = (redisPoll.consumed \/ c)
<1> DEFINE p == AfterRead(c)
<1>1. /\ redisPoll.consumed \in BOOLEAN /\ (redisPoll.consumed \/ c) \in BOOLEAN
      /\ redisPoll.budget - 1 \in Int
  BY DEF Positions
<1> DEFINE d == redisPoll.consumed \/ c
<1>2. d \in BOOLEAN /\ p = [redisPoll EXCEPT !.consumed = d, !.budget = redisPoll.budget - 1]
  BY Zenon, <1>1 DEF AfterRead
<1> HIDE DEF p
<1>3. p.consumed = d
  BY Zenon, <1>2 DEF Positions
<1> HIDE DEF d
<1>4. /\ p \in Positions /\ p.at = redisPoll.at /\ p.sid = redisPoll.sid
      /\ p.remaining = redisPoll.remaining /\ p.progress = redisPoll.progress
  BY <1>1, <1>2 DEF Positions
<1> QED
  BY Zenon, <1>3, <1>4 DEF d, p

LEMMA NextPlace ==
  ASSUME redisPoll \in Positions, NEW s \in Clients, NEW a \in {"input", "resume"},
         redisPoll' = [redisPoll EXCEPT !.remaining = @ - 1, !.sid = s, !.budget = 1,
                                        !.consumed = FALSE, !.at = a]
  PROVE  /\ redisPoll' \in Positions /\ redisPoll'.at = a /\ redisPoll'.sid = s
         /\ redisPoll'.consumed = FALSE /\ redisPoll'.remaining = redisPoll.remaining - 1
         /\ redisPoll'.progress = redisPoll.progress
<1> DEFINE n == redisPoll.remaining - 1
<1>1. n \in Int /\ redisPoll.progress \in BOOLEAN
  BY DEF Positions
<1> DEFINE r == [at |-> a, sid |-> s, budget |-> 1, consumed |-> FALSE, remaining |-> n,
                 progress |-> redisPoll.progress]
<1>2. redisPoll' = r
  BY DEF Positions
<1> HIDE DEF n
<1>3. /\ r \in Positions /\ r.at = a /\ r.sid = s /\ r.consumed = FALSE
      /\ r.remaining = n /\ r.progress = redisPoll.progress
  BY <1>1 DEF Positions
<1> QED
  BY Zenon, <1>2, <1>3 DEF n

LEMMA ResumedPlace ==
  ASSUME redisPoll \in Positions, NEW n \in Int, NEW b \in BOOLEAN,
         redisPoll' = [redisPoll EXCEPT !.at = "resume", !.remaining = n, !.progress = b]
  PROVE  /\ redisPoll' \in Positions /\ redisPoll'.at = "resume" /\ redisPoll'.sid = redisPoll.sid
         /\ redisPoll'.consumed = redisPoll.consumed
         /\ redisPoll'.remaining = n /\ redisPoll'.progress = b
  BY DEF Positions

\* The command that the loop of ProcessInput is at.
LEMMA HeadCommand ==
  ASSUME CommandType, NEW s \in Clients, vCommands[s] # <<>>
  PROVE  Head(vCommands[s]) \in Nat /\ Tail(vCommands[s]) \in Seq(Nat)
<1>1. vCommands[s] \in Seq(Nat)
  BY DEF CommandType
<1> QED
  BY <1>1, TailFacts

\* SumBytes of the proxy, and the account of a link with nothing outstanding.
LEMMA ProxyBytesIs == ASSUME NEW q PROVE P!SumBytes(q) = Bytes(q)
  BY Zenon DEF P!SumBytes, Bytes

LEMMA CreditNumbers ==
  ASSUME CommandType, P!CreditExact
  PROVE  /\ iPendingBytes \in Nat /\ Len(vPending) \in Nat /\ iPendingBytes = Bytes(vPending)
         /\ (vPending = <<>> => iPendingBytes = 0 /\ Len(vPending) = 0)
<1>1. vPending \in Seq(Commands) /\ \A e \in Commands : e.bytes \in Nat
  BY DEF CommandType, Commands
<1>2. iPendingBytes = Bytes(vPending)
  BY Zenon, ProxyBytesIs DEF P!CreditExact
<1>3. Bytes(vPending) \in Nat
  BY Zenon, <1>1, BytesNat
<1>4. Len(vPending) \in Nat /\ Len(<<>>) = 0
  BY <1>1
<1> QED
  BY Zenon, <1>2, <1>3, <1>4, BytesEmpty

\* A command that is refused during a round finds commands outstanding.
LEMMA RefusedPending ==
  ASSUME CommandType, P!CreditExact, NEW length \in Nat, length <= m_iMaxPendingBytes,
         P!Refused(length), bResuming
  PROVE  vPending # <<>>
<1>1. Len(vPending) >= m_iMaxPendingCommands \/ length > m_iMaxPendingBytes - iPendingBytes
  BY Zenon DEF P!Refused
<1> SUFFICES ASSUME vPending = <<>> PROVE FALSE
  OBVIOUS
<1>2. iPendingBytes = 0 /\ Len(vPending) = 0
  BY Zenon, CreditNumbers
<1>3. m_iMaxPendingBytes \in Nat /\ m_iMaxPendingCommands \in Nat /\ m_iMaxPendingCommands > 0
  BY ProxyAssumption
<1> QED
  BY <1>1, <1>2, <1>3

\* A command that is taken fits.
LEMMA TakenFits ==
  ASSUME CommandType, P!CreditExact, NEW length \in Nat, up, ~P!Refused(length)
  PROVE  /\ Len(vPending) + 1 <= m_iMaxPendingCommands
         /\ iPendingBytes + length <= m_iMaxPendingBytes
<1>1. ~(Len(vPending) >= m_iMaxPendingCommands) /\ ~(length > m_iMaxPendingBytes - iPendingBytes)
  BY Zenon DEF P!Refused
<1>2. iPendingBytes \in Nat /\ Len(vPending) \in Nat
  BY Zenon, CreditNumbers
<1>3. m_iMaxPendingBytes \in Nat /\ m_iMaxPendingCommands \in Nat
  BY ProxyAssumption
<1> QED
  BY <1>1, <1>2, <1>3

\* ArmResume with nothing outstanding arms the round.
LEMMA ArmedOrPending ==
  ASSUME NEW paused, NEW pending, NEW bytes, pending = <<>> => bytes = 0,
         P!ArmResume(paused, pending, bytes)
  PROVE  paused = {} \/ bResumeArmed' \/ pending # <<>>
<1> SUFFICES ASSUME paused # {}, pending = <<>> PROVE bResumeArmed'
  OBVIOUS
<1>1. m_iMaxPendingBytes \div 2 \in Nat /\ m_iMaxPendingCommands \div 2 \in Nat
  BY ProxyAssumption
<1>2. bytes <= m_iMaxPendingBytes \div 2 /\ Len(pending) <= m_iMaxPendingCommands \div 2
  BY <1>1
<1> QED
  BY Zenon, <1>2 DEF P!ArmResume

-----------------------------------------------------------------------------
linkVars == <<vPending, iPendingBytes, hiredis>>

\* Only Issue, OnReply and OnDisconnect touch the accounts of the link.
LEMMA LinkStays ==
  ASSUME \/ P!InputEnds \/ P!InputRejected \/ P!IssueRefused \/ P!ResumeNext \/ P!Resumed
         \/ P!ResumeEnds \/ P!Resume \/ (\E ok \in BOOLEAN : P!Open(ok))
         \/ (\E s \in Clients : P!CloseSession(s) \/ P!OnDelSession(s)) \/ UNCHANGED P!vars
  PROVE  UNCHANGED linkVars /\ (vCommands' = vCommands \/ \E s \in Clients : P!OnDelSession(s))
<1> USE DEF P!linkVars, linkVars
<1>1. CASE P!InputEnds \/ P!InputRejected \/ P!IssueRefused
  BY Zenon, <1>1 DEF P!InputEnds, P!InputRejected, P!IssueRefused
<1>2. CASE P!ResumeNext \/ P!Resumed \/ P!ResumeEnds \/ P!Resume
  BY Zenon, <1>2 DEF P!ResumeNext, P!Resumed, P!ResumeEnds, P!Resume
<1>3. CASE \E ok \in BOOLEAN : P!Open(ok)
  BY Zenon, <1>3 DEF P!Open
<1>4. CASE \E s \in Clients : P!CloseSession(s) \/ P!OnDelSession(s)
  BY Zenon, <1>4 DEF P!CloseSession, P!OnDelSession
<1>5. CASE UNCHANGED P!vars
  BY Zenon, <1>5 DEF P!vars
<1> QED
  BY Zenon, <1>1, <1>2, <1>3, <1>4, <1>5

\* What a read brings is commands.
LEMMA ReadCommands ==
  ASSUME NEW more \in P!Reads
  PROVE  more \in Seq(Nat)
<1>1. PICK n \in 0..MaxInput : more \in [1..n -> Lengths]
  BY DEF P!Reads
<1>2. n \in Nat /\ Lengths \subseteq Nat
  BY ProxyAssumption
<1>3. more \in [1..n -> Nat]
  BY Zenon, <1>1, <1>2
<1> QED
  BY <1>2, <1>3

\* Every step keeps the accounts of the link those of hiredis, exact and within the limits.
LEMMA CreditStep ==
  ASSUME CommandType, PlaceType, P!CreditExact, [P!Next]_P!vars
  PROVE  CommandType' /\ P!CreditExact'
<1> DEFINE Goal == CommandType' /\ P!CreditExact'
<1>0. /\ vPending \in Seq(Commands) /\ \A e \in Commands : e.bytes \in Nat
      /\ vCommands \in [Clients -> Seq(Nat)]
  BY DEF CommandType, Commands
<1>n. /\ iPendingBytes \in Nat /\ Len(vPending) \in Nat /\ iPendingBytes = Bytes(vPending)
      /\ vPending = hiredis
      /\ iPendingBytes <= m_iMaxPendingBytes /\ Len(vPending) <= m_iMaxPendingCommands
      /\ m_iMaxPendingBytes \in Nat /\ m_iMaxPendingCommands \in Nat
  <2>1. m_iMaxPendingBytes \in Nat /\ m_iMaxPendingCommands \in Nat
    BY ProxyAssumption
  <2> QED
    BY Zenon, <2>1, CreditNumbers DEF P!CreditExact
<1>u. ASSUME UNCHANGED linkVars, vCommands' \in [Clients -> Seq(Nat)]
      PROVE  Goal
  BY Zenon, <1>u DEF linkVars, CommandType, P!CreditExact
<1>c. ASSUME vPending' \in Seq(Commands), vPending' = hiredis', iPendingBytes' = Bytes(vPending'),
             iPendingBytes' <= m_iMaxPendingBytes, Len(vPending') <= m_iMaxPendingCommands,
             vCommands' \in [Clients -> Seq(Nat)]
      PROVE  Goal
  BY Zenon, <1>c, ProxyBytesIs DEF CommandType, P!CreditExact
<1> HIDE DEF Goal
<1>1. ASSUME NEW s \in Clients, NEW more \in P!Reads, NEW rest \in BOOLEAN,
             P!OnDataIn(s, more, rest)
      PROVE  Goal
  <2>1. UNCHANGED linkVars /\ vCommands' = [vCommands EXCEPT ![s] = @ \o more]
    BY Zenon, <1>1 DEF P!OnDataIn, P!linkVars, linkVars
  <2>2. vCommands[s] \o more \in Seq(Nat)
    BY <1>0, ReadCommands
  <2>3. vCommands' \in [Clients -> Seq(Nat)]
    BY Zenon, <1>0, <2>1, <2>2
  <2> QED
    BY Zenon, <1>u, <2>1, <2>3
<1>2. ASSUME NEW taken \in BOOLEAN, NEW sent \in BOOLEAN, P!Issue(taken, sent)
      PROVE  Goal
  <2> DEFINE s == redisPoll.sid
             length == Head(vCommands[s])
             x == [sid |-> s, bytes |-> length]
  <2>1. /\ redisPoll.at = "input" /\ vCommands[s] # <<>> /\ ~P!Refused(length)
        /\ vCommands' = [vCommands EXCEPT ![s] = Tail(vCommands[s])]
        /\ \/ UNCHANGED linkVars
           \/ /\ up /\ vPending' = Append(vPending, x) /\ hiredis' = Append(hiredis, x)
              /\ iPendingBytes' = iPendingBytes + length
    BY Zenon, <1>2 DEF P!Issue, P!Rollback, P!linkVars, linkVars
  <2>2. s \in Clients
    BY <2>1 DEF PlaceType
  <2>3. length \in Nat /\ Tail(vCommands[s]) \in Seq(Nat)
    BY Zenon, <2>1, <2>2, HeadCommand
  <2>4. x \in Commands /\ x.bytes = length
    <3> HIDE DEF s, length
    <3> QED
      BY <2>2, <2>3 DEF Commands
  <2>5. vCommands' \in [Clients -> Seq(Nat)]
    BY Zenon, <1>0, <2>1, <2>2, <2>3
  <2> HIDE DEF s, length, x
  <2>6. CASE UNCHANGED linkVars
    BY Zenon, <1>u, <2>5, <2>6
  <2>7. CASE /\ up /\ vPending' = Append(vPending, x) /\ hiredis' = Append(hiredis, x)
             /\ iPendingBytes' = iPendingBytes + length
    <3>1. Append(vPending, x) \in Seq(Commands) /\ Len(Append(vPending, x)) = Len(vPending) + 1
      BY <1>0, <2>4, AppendFacts
    <3>2. /\ Len(vPending) + 1 <= m_iMaxPendingCommands
          /\ iPendingBytes + length <= m_iMaxPendingBytes
      BY Zenon, <2>1, <2>3, <2>7, TakenFits
    <3>3. Bytes(Append(vPending, x)) = Bytes(vPending) + x.bytes
      BY Zenon, <1>0, <2>4, BytesAppend
    <3>4. iPendingBytes' = Bytes(vPending')
      BY Zenon, <1>n, <2>4, <2>7, <3>3
    <3>5. iPendingBytes' <= m_iMaxPendingBytes /\ Len(vPending') <= m_iMaxPendingCommands
      BY Zenon, <2>7, <3>1, <3>2
    <3> QED
      BY Zenon, <1>c, <1>n, <2>5, <2>7, <3>1, <3>4, <3>5
  <2> QED
    BY Zenon, <2>1, <2>6, <2>7
<1>3. ASSUME NEW sent \in BOOLEAN, P!OnReply(sent)
      PROVE  Goal
  <2>1. /\ hiredis # <<>> /\ hiredis' = Tail(hiredis) /\ vPending' = Tail(vPending)
        /\ iPendingBytes' = iPendingBytes - Head(vPending).bytes /\ vCommands' = vCommands
    BY Zenon, <1>3 DEF P!OnReply
  <2>2. vPending # <<>>
    BY Zenon, <1>n, <2>1
  <2>3. /\ Tail(vPending) \in Seq(Commands) /\ Head(vPending) \in Commands
        /\ Len(Tail(vPending)) = Len(vPending) - 1
    BY <1>0, <2>2, TailFacts
  <2>4. Bytes(Tail(vPending)) = Bytes(vPending) - Head(vPending).bytes
    BY Zenon, <1>0, <2>2, BytesTail
  <2>5. iPendingBytes' = Bytes(vPending')
    BY Zenon, <1>n, <2>1, <2>4
  <2>6. /\ iPendingBytes - Head(vPending).bytes <= m_iMaxPendingBytes
        /\ Len(vPending) - 1 <= m_iMaxPendingCommands
    <3>1. Head(vPending).bytes \in Nat
      BY Zenon, <1>0, <2>3
    <3> QED
      BY <1>n, <3>1
  <2> QED
    BY Zenon, <1>0, <1>c, <1>n, <2>1, <2>3, <2>5, <2>6
<1>4. ASSUME P!OnDisconnect
      PROVE  Goal
  <2>1. /\ hiredis' = <<>> /\ vCommands' = vCommands
        /\ vPending' = SubSeq(vPending, Len(vPending) + 1, Len(vPending))
        /\ iPendingBytes' = iPendingBytes - P!SumBytes(SubSeq(vPending, 1, Len(vPending)))
    BY Zenon, <1>4, <1>n DEF P!OnDisconnect
  <2>2. /\ SubSeq(vPending, Len(vPending) + 1, Len(vPending)) = <<>>
        /\ SubSeq(vPending, 1, Len(vPending)) = vPending
    BY <1>0
  <2>3. iPendingBytes' = iPendingBytes - iPendingBytes
    BY Zenon, <1>n, <2>1, <2>2, ProxyBytesIs
  <2>4. iPendingBytes' = 0
    BY <1>n, <2>3
  <2>5. <<>> \in Seq(Commands) /\ Len(<<>>) = 0 /\ 0 <= m_iMaxPendingCommands
        /\ 0 <= m_iMaxPendingBytes
    BY <1>n
  <2> QED
    BY Zenon, <1>0, <1>c, <2>1, <2>2, <2>4, <2>5, BytesEmpty
<1>5. ASSUME NEW s \in Clients, P!OnDelSession(s)
      PROVE  Goal
  <2>1. UNCHANGED linkVars /\ vCommands' = [vCommands EXCEPT ![s] = <<>>]
    BY Zenon, <1>5 DEF P!OnDelSession, P!linkVars, linkVars
  <2>2. <<>> \in Seq(Nat)
    OBVIOUS
  <2>3. vCommands' \in [Clients -> Seq(Nat)]
    BY Zenon, <1>0, <2>1, <2>2
  <2> QED
    BY Zenon, <1>u, <2>1, <2>3
<1>6. ASSUME UNCHANGED linkVars, vCommands' = vCommands
      PROVE  Goal
  BY Zenon, <1>0, <1>6, <1>u
<1> QED
  BY Zenon, <1>1, <1>2, <1>3, <1>4, <1>5, <1>6, LinkStays DEF Goal, P!Next, P!Loops

-----------------------------------------------------------------------------
pausedVars == <<m_bReadPaused, vPaused, vReady>>

\* What QueueInv says of the session s.
QueuedOf(s) == session[s] = "open" /\ m_bReadPaused[s] => s \in vPaused

\* A session that closes is no longer one that has to be resumed.
Closes == \A t \in Clients : session'[t] = "open" => session[t] = "open"

\* Pause puts the session into the queue, once.
LEMMA PauseQueues ==
  ASSUME QueueInv, NEW s \in Clients, P!Pause(s), Closes,
         session' \in [Clients -> {"open", "closed", "deleted"}]
  PROVE  QueueInv'
<1>1. /\ m_bReadPaused' = [m_bReadPaused EXCEPT ![s] = TRUE] /\ vPaused' = vPaused \cup {s}
      /\ vReady' = IF s \in vPaused THEN vReady ELSE Append(vReady, s)
  BY Zenon DEF P!Pause
<1>2. /\ m_bReadPaused \in [Clients -> BOOLEAN]
      /\ vPaused \subseteq Clients /\ vReady \in Seq(Clients)
      /\ vPaused \subseteq Range(vReady) /\ \A t \in Clients : QueuedOf(t)
  BY Zenon DEF QueueInv, QueuedOf
<1>3. m_bReadPaused' \in [Clients -> BOOLEAN] /\ vPaused' \subseteq Clients
  BY Zenon, <1>1, <1>2
<1>4. Append(vReady, s) \in Seq(Clients) /\ Range(Append(vReady, s)) = Range(vReady) \cup {s}
  BY <1>2, RangeAppend
<1>5. vReady' \in Seq(Clients) /\ vPaused' \subseteq Range(vReady')
  <2>1. CASE s \in vPaused
    BY Zenon, <1>1, <1>2, <2>1
  <2>2. CASE s \notin vPaused
    BY Zenon, <1>1, <1>2, <1>4, <2>2
  <2> QED
    BY <2>1, <2>2
<1>6. ASSUME NEW t \in Clients, session'[t] = "open", m_bReadPaused'[t]
      PROVE  t \in vPaused'
  <2>1. t = s \/ m_bReadPaused[t]
    BY Zenon, <1>1, <1>2, <1>6
  <2>2. t = s \/ t \in vPaused
    BY Zenon, <1>2, <1>6, <2>1 DEF QueuedOf, Closes
  <2> QED
    BY Zenon, <1>1, <2>2
<1> QED
  BY Zenon, <1>3, <1>5, <1>6 DEF QueueInv

\* A step that leaves the queue alone, and may close sessions.
LEMMA QueueStays ==
  ASSUME QueueInv, UNCHANGED pausedVars, Closes,
         session' \in [Clients -> {"open", "closed", "deleted"}]
  PROVE  QueueInv'
  BY Zenon DEF QueueInv, pausedVars, Closes

\* Closing a session, or not.
LEMMA CloseOne ==
  ASSUME session \in [Clients -> {"open", "closed", "deleted"}], NEW s \in Clients,
         NEW x \in {"open", "closed", "deleted"}, x = "open" => session[s] = "open",
         session' = [session EXCEPT ![s] = x]
  PROVE  Closes /\ session' \in [Clients -> {"open", "closed", "deleted"}]
  BY Zenon DEF Closes

\* Every step keeps QueueInv.
LEMMA QueueStep ==
  ASSUME CommandType, PlaceType, QueueInv, P!CreditExact, [P!Next]_P!vars
  PROVE  QueueInv'
<1> DEFINE States == {"open", "closed", "deleted"}
<1>0. /\ session \in [Clients -> States] /\ m_bReadPaused \in [Clients -> BOOLEAN]
      /\ vPaused \subseteq Clients /\ vReady \in Seq(Clients) /\ vPaused \subseteq Range(vReady)
      /\ \A t \in Clients : QueuedOf(t)
  BY Zenon DEF QueueInv, QueuedOf
<1>s. ASSUME session' = session PROVE Closes /\ session' \in [Clients -> States]
  BY Zenon, <1>0, <1>s DEF Closes
<1>x. "closed" \in States /\ "deleted" \in States /\ "closed" # "open" /\ "deleted" # "open"
  OBVIOUS
<1>c. ASSUME NEW s \in Clients, session' = [session EXCEPT ![s] = "closed"]
      PROVE  Closes /\ session' \in [Clients -> States]
  BY Zenon, <1>0, <1>c, <1>x, CloseOne
<1>1. ASSUME NEW s \in Clients, P!CloseSession(s)
      PROVE  QueueInv'
  BY Zenon, <1>1, <1>c, QueueStays DEF P!CloseSession, P!pauseVars, pausedVars
<1>p. ASSUME redisPoll.at = "input" \/ redisPoll.at = "resumed" PROVE redisPoll.sid \in Clients
  BY <1>p DEF PlaceType
<1>2. ASSUME P!InputRejected
      PROVE  QueueInv'
  <2>1. /\ redisPoll.at = "input" /\ session' = [session EXCEPT ![redisPoll.sid] = "closed"]
        /\ UNCHANGED pausedVars
    BY Zenon, <1>2 DEF P!InputRejected, P!pauseVars, pausedVars
  <2> QED
    BY Zenon, <1>c, <1>p, <2>1, QueueStays
<1>3. ASSUME P!IssueRefused
      PROVE  QueueInv'
  <2>1. redisPoll.at = "input" /\ P!Pause(redisPoll.sid) /\ session' = session
    BY Zenon, <1>3 DEF P!IssueRefused
  <2> QED
    BY Zenon, <1>p, <1>s, <2>1, PauseQueues
<1>4. ASSUME NEW taken \in BOOLEAN, NEW sent \in BOOLEAN, P!Issue(taken, sent)
      PROVE  QueueInv'
  <2>1. /\ redisPoll.at = "input" /\ (P!Pause(redisPoll.sid) \/ UNCHANGED pausedVars)
        /\ session' = session \/ session' = [session EXCEPT ![redisPoll.sid] = "closed"]
    BY Zenon, <1>4 DEF P!Issue, P!pauseVars, pausedVars
  <2>2. redisPoll.sid \in Clients
    BY Zenon, <1>p, <2>1
  <2>3. Closes /\ session' \in [Clients -> States]
    BY Zenon, <1>c, <1>s, <2>1, <2>2
  <2> QED
    BY Zenon, <2>1, <2>2, <2>3, PauseQueues, QueueStays
<1>5. ASSUME P!ResumeNext
      PROVE  QueueInv'
  <2> DEFINE s == Head(vReady)
  <2>1. /\ vReady # <<>> /\ vReady' = Tail(vReady) /\ vPaused' = vPaused \ {s}
        /\ m_bReadPaused' = [m_bReadPaused EXCEPT ![s] =
                               IF session[s] = "open" THEN FALSE ELSE m_bReadPaused[s]]
        /\ session' = session
    BY Zenon, <1>5 DEF P!ResumeNext, P!ResumeOver
  <2>2. /\ Tail(vReady) \in Seq(Clients) /\ s \in Clients
        /\ Range(vReady) \ {s} \subseteq Range(Tail(vReady))
    BY <1>0, <2>1, RangeTail
  <2> HIDE DEF s
  <2>3. vReady' \in Seq(Clients) /\ vPaused' \subseteq Clients /\ vPaused' \subseteq Range(vReady')
    BY Zenon, <1>0, <2>1, <2>2
  <2>4. (IF session[s] = "open" THEN FALSE ELSE m_bReadPaused[s]) \in BOOLEAN
    BY Zenon, <1>0, <2>2
  <2>5. m_bReadPaused' \in [Clients -> BOOLEAN]
    BY Zenon, <1>0, <2>1, <2>4
  <2>6. ASSUME NEW t \in Clients, session[t] = "open", m_bReadPaused'[t]
        PROVE  t # s /\ m_bReadPaused[t]
    <3>1. CASE t = s
      <4>1. m_bReadPaused'[t] = FALSE
        BY Zenon, <1>0, <2>1, <2>6, <3>1
      <4> QED
        BY Zenon, <2>6, <4>1
    <3>2. CASE t # s
      BY Zenon, <1>0, <2>1, <2>6, <3>2
    <3> QED
      BY <3>1, <3>2
  <2>7. ASSUME NEW t \in Clients, session'[t] = "open", m_bReadPaused'[t]
        PROVE  t \in vPaused'
    <3>1. session[t] = "open"
      BY Zenon, <2>1, <2>7
    <3>2. t # s /\ m_bReadPaused[t]
      BY Zenon, <2>6, <2>7, <3>1
    <3>3. t \in vPaused
      BY Zenon, <1>0, <3>1, <3>2 DEF QueuedOf
    <3> QED
      BY Zenon, <2>1, <3>2, <3>3
  <2> QED
    BY Zenon, <1>0, <2>1, <2>3, <2>5, <2>7 DEF QueueInv
<1>6. ASSUME P!Resumed
      PROVE  QueueInv'
  <2> DEFINE s == redisPoll.sid
  <2>1. /\ redisPoll.at = "resumed" /\ UNCHANGED <<session, m_bReadPaused, vPaused>>
        /\ vReady' = vReady \/ vReady' = <<s>> \o P!Erase(vReady, s)
    BY Zenon, <1>6 DEF P!Resumed, P!KeepTurn
  <2>2. s \in Clients
    BY Zenon, <1>p, <2>1
  <2>3. P!Erase(vReady, s) \in Seq(Clients) /\ Range(P!Erase(vReady, s)) = Range(vReady) \ {s}
    BY Zenon, <1>0, EraseFacts
  <2>4. /\ <<s>> \o P!Erase(vReady, s) \in Seq(Clients)
        /\ Range(<<s>> \o P!Erase(vReady, s)) = Range(P!Erase(vReady, s)) \cup {s}
    BY <2>2, <2>3, RangeCons
  <2> HIDE DEF s
  <2>5. vReady' \in Seq(Clients) /\ vPaused' \subseteq Range(vReady')
    <3>1. CASE vReady' = vReady
      BY Zenon, <1>0, <2>1, <3>1
    <3>2. CASE vReady' = <<s>> \o P!Erase(vReady, s)
      BY Zenon, <1>0, <2>1, <2>3, <2>4, <3>2
    <3> QED
      BY Zenon, <2>1, <3>1, <3>2
  <2> QED
    BY Zenon, <1>0, <2>1, <2>5 DEF QueueInv, QueuedOf
<1>7. ASSUME NEW sent \in BOOLEAN, P!OnReply(sent)
      PROVE  QueueInv'
  <2> DEFINE s == Head(vPending).sid
  <2>1. /\ hiredis # <<>> /\ UNCHANGED pausedVars
        /\ session' = [session EXCEPT ![s] =
                         IF sent \/ session[s] # "open" THEN session[s] ELSE "closed"]
    BY Zenon, <1>7 DEF P!OnReply, pausedVars
  <2>2. s \in Clients
    <3>1. vPending \in Seq(Commands) /\ vPending # <<>>
      BY Zenon, <2>1 DEF CommandType, P!CreditExact
    <3>2. Head(vPending) \in Commands
      BY <3>1, TailFacts
    <3> QED
      BY <3>2 DEF Commands
  <2> HIDE DEF s
  <2> DEFINE x == IF sent \/ session[s] # "open" THEN session[s] ELSE "closed"
  <2>3. x \in States /\ (x = "open" => session[s] = "open")
    BY Zenon, <1>0, <1>x, <2>2
  <2> HIDE DEF x
  <2>4. session' = [session EXCEPT ![s] = x]
    BY Zenon, <2>1 DEF x
  <2>5. Closes /\ session' \in [Clients -> States]
    BY Zenon, <1>0, <2>2, <2>3, <2>4, CloseOne
  <2> QED
    BY Zenon, <2>1, <2>5, QueueStays
<1>8. ASSUME NEW s \in Clients, P!OnDelSession(s)
      PROVE  QueueInv'
  <2>1. /\ session' = [session EXCEPT ![s] = "deleted"] /\ vPaused' = vPaused \ {s}
        /\ vReady' = P!Erase(vReady, s) /\ m_bReadPaused' = [m_bReadPaused EXCEPT ![s] = FALSE]
    BY Zenon, <1>8 DEF P!OnDelSession
  <2>2. P!Erase(vReady, s) \in Seq(Clients) /\ Range(P!Erase(vReady, s)) = Range(vReady) \ {s}
    BY Zenon, <1>0, EraseFacts
  <2>3. Closes /\ session' \in [Clients -> States]
    BY Zenon, <1>0, <1>x, <2>1, CloseOne
  <2>4. /\ vReady' \in Seq(Clients)
        /\ vPaused' \subseteq Clients /\ vPaused' \subseteq Range(vReady')
        /\ m_bReadPaused' \in [Clients -> BOOLEAN]
    BY Zenon, <1>0, <2>1, <2>2
  <2>5. ASSUME NEW t \in Clients, session'[t] = "open", m_bReadPaused'[t]
        PROVE  t \in vPaused'
    <3>1. t # s
      BY Zenon, <1>0, <1>x, <2>1, <2>5
    <3>2. m_bReadPaused[t] /\ session[t] = "open"
      BY Zenon, <1>0, <2>1, <2>3, <2>5, <3>1 DEF Closes
    <3> QED
      BY Zenon, <1>0, <2>1, <3>1, <3>2 DEF QueuedOf
  <2> QED
    BY Zenon, <2>3, <2>4, <2>5 DEF QueueInv
<1>9. ASSUME \/ \E s \in Clients, more \in P!Reads, rest \in BOOLEAN : P!OnDataIn(s, more, rest)
             \/ P!InputEnds \/ P!Resume \/ P!ResumeEnds \/ P!OnDisconnect
             \/ (\E ok \in BOOLEAN : P!Open(ok)) \/ UNCHANGED P!vars
      PROVE  QueueInv'
  <2>1. UNCHANGED <<pausedVars, session>>
    BY Zenon, <1>9 DEF P!OnDataIn, P!InputEnds, P!Resume, P!ResumeEnds, P!OnDisconnect, P!Open,
       P!vars, P!pauseVars, pausedVars
  <2> QED
    BY Zenon, <1>s, <2>1, QueueStays
<1> QED
  BY Zenon, <1>1, <1>2, <1>3, <1>4, <1>5, <1>6, <1>7, <1>8, <1>9 DEF P!Next, P!Loops

-----------------------------------------------------------------------------
\* What the conjuncts of RoundInv say, of the state after a step.
RoundNext ==
  /\ bResuming' \in BOOLEAN
  /\ redisPoll'.at = "idle" => ~bResuming'
  /\ redisPoll'.at \in {"resume", "resumed"} => bResuming'
  /\ redisPoll'.at = "input" /\ bResuming' => redisPoll'.sid \notin vPaused'
  /\ redisPoll'.at = "resumed" /\ ~redisPoll'.consumed /\ redisPoll'.sid \in vPaused'
       => vPending' # <<>>
  /\ bResuming' /\ ~redisPoll'.progress /\ (redisPoll'.at # "resume" => ~redisPoll'.consumed)
       => redisPoll'.remaining = Len(vReady') \/ vPending' # <<>>
  /\ ~bResuming' => Attended'

\* The same of the place.
PlaceNext ==
  /\ redisPoll' \in Positions /\ (redisPoll'.at = "idle" => redisPoll' = P!Idle)
  /\ redisPoll'.at \in {"input", "resumed"} => redisPoll'.sid \in Clients

\* The names of the places differ.
LEMMA PlaceNames ==
  /\ "idle" # "input" /\ "idle" # "resume" /\ "idle" # "resumed"
  /\ "input" # "resume" /\ "input" # "resumed" /\ "resume" # "resumed"
  /\ "idle" \notin {"resume", "resumed"} /\ "input" \notin {"resume", "resumed"}
  /\ "idle" \notin {"input", "resumed"} /\ "resume" \notin {"input", "resumed"}
OBVIOUS

\* Back to Idle: no round is under way, and the paused sessions are attended.
LEMMA ToIdle ==
  ASSUME redisPoll' = P!Idle, bResuming' = FALSE, Attended'
  PROVE  PlaceNext /\ RoundNext
<1>1. redisPoll' \in Positions /\ redisPoll'.at = "idle"
  BY Zenon, IdlePlace
<1> QED
  BY Zenon, <1>1, PlaceNames DEF PlaceNext, RoundNext

\* Out of the loop of ProcessInput, in a round.
LEMMA ToResumed ==
  ASSUME redisPoll' \in Positions, redisPoll'.at = "resumed", redisPoll'.sid \in Clients,
         bResuming' = TRUE,
         ~redisPoll'.consumed /\ redisPoll'.sid \in vPaused' => vPending' # <<>>,
         ~redisPoll'.progress /\ ~redisPoll'.consumed
           => redisPoll'.remaining = Len(vReady') \/ vPending' # <<>>
  PROVE  PlaceNext /\ RoundNext
  BY Zenon, PlaceNames DEF PlaceNext, RoundNext

\* Into the loop of ProcessInput, or on in it.
LEMMA ToInput ==
  ASSUME redisPoll' \in Positions, redisPoll'.at = "input", redisPoll'.sid \in Clients,
         bResuming' \in BOOLEAN, bResuming' => redisPoll'.sid \notin vPaused',
         bResuming' /\ ~redisPoll'.progress /\ ~redisPoll'.consumed
           => redisPoll'.remaining = Len(vReady') \/ vPending' # <<>>,
         ~bResuming' => Attended'
  PROVE  PlaceNext /\ RoundNext
  BY Zenon, PlaceNames DEF PlaceNext, RoundNext

\* On with the round.
LEMMA ToResume ==
  ASSUME redisPoll' \in Positions, redisPoll'.at = "resume", bResuming' = TRUE,
         ~redisPoll'.progress => redisPoll'.remaining = Len(vReady') \/ vPending' # <<>>
  PROVE  PlaceNext /\ RoundNext
  BY Zenon, PlaceNames DEF PlaceNext, RoundNext

\* Between two events nothing of a round is left.
LEMMA IdleIs ==
  ASSUME RoundInv, redisPoll = P!Idle
  PROVE  bResuming = FALSE /\ Attended
  BY Zenon, IdlePlace DEF RoundInv

\* Pause outside a round arms one, or commands are outstanding.
LEMMA PauseAttended ==
  ASSUME P!CreditExact', NEW s, P!Pause(s), ~bResuming
  PROVE  Attended'
<1>1. P!ArmResume(vPaused', vPending', iPendingBytes')
  BY Zenon DEF P!Pause
<1>2. vPending' = <<>> => iPendingBytes' = 0
  BY Zenon, BytesEmpty, ProxyBytesIs DEF P!CreditExact
<1>3. vPaused' = {} \/ bResumeArmed' \/ vPending' # <<>>
  BY Zenon, <1>1, <1>2, ArmedOrPending
<1> QED
  BY Zenon, <1>3 DEF Attended

\* Every step keeps RoundInv.
LEMMA RoundStep ==
  ASSUME CommandType, PlaceType, QueueInv, RoundInv, P!CreditExact, P!CreditExact',
         [P!Next]_P!vars
  PROVE  PlaceNext /\ RoundNext
<1> DEFINE Goal == PlaceNext /\ RoundNext
<1>0. /\ redisPoll \in Positions /\ (redisPoll.at = "idle" => redisPoll = P!Idle)
      /\ (redisPoll.at = "input" \/ redisPoll.at = "resumed" => redisPoll.sid \in Clients)
      /\ vReady \in Seq(Clients) /\ vPaused \subseteq Range(vReady)
  <2>1. redisPoll.at = "input" \/ redisPoll.at = "resumed" => redisPoll.sid \in Clients
    BY DEF PlaceType
  <2> QED
    BY Zenon, <2>1 DEF PlaceType, QueueInv
<1>r. /\ bResuming \in BOOLEAN
      /\ (redisPoll.at = "resume" \/ redisPoll.at = "resumed" => bResuming)
      /\ (redisPoll.at = "input" /\ bResuming => redisPoll.sid \notin vPaused)
      /\ (redisPoll.at = "resumed" /\ ~redisPoll.consumed /\ redisPoll.sid \in vPaused
            => vPending # <<>>)
      /\ (bResuming /\ ~redisPoll.progress /\ (redisPoll.at # "resume" => ~redisPoll.consumed)
            => redisPoll.remaining = Len(vReady) \/ vPending # <<>>)
      /\ (~bResuming => Attended)
  <2>1. redisPoll.at = "resume" \/ redisPoll.at = "resumed" => bResuming
    BY DEF RoundInv
  <2> QED
    BY Zenon, <2>1 DEF RoundInv
<1>z. vPending' = <<>> => iPendingBytes' = 0
  BY Zenon, BytesEmpty, ProxyBytesIs DEF P!CreditExact
<1> HIDE DEF Goal
<1>1. ASSUME NEW s \in Clients, NEW more \in P!Reads, NEW rest \in BOOLEAN,
             P!OnDataIn(s, more, rest)
      PROVE  Goal
  <2>1. /\ redisPoll = P!Idle /\ UNCHANGED <<bResuming, vPaused, bResumeArmed, vPending>>
        /\ \/ redisPoll' = P!Idle
           \/ redisPoll' = [P!Idle EXCEPT !.at = "input", !.sid = s, !.budget = iBudget]
    BY Zenon, <1>1 DEF P!OnDataIn, P!linkVars, P!pauseVars
  <2>2. bResuming = FALSE /\ Attended
    BY Zenon, <2>1, IdleIs
  <2>3. bResuming' = FALSE /\ Attended'
    BY Zenon, <2>1, <2>2 DEF Attended
  <2>4. CASE redisPoll' = P!Idle
    BY Zenon, <2>3, <2>4, ToIdle DEF Goal
  <2>5. CASE redisPoll' = [P!Idle EXCEPT !.at = "input", !.sid = s, !.budget = iBudget]
    <3>1. redisPoll' \in Positions /\ redisPoll'.at = "input" /\ redisPoll'.sid = s
      BY Zenon, <2>5, InputPlace
    <3> QED
      BY Zenon, <2>3, <3>1, ToInput DEF Goal
  <2> QED
    BY Zenon, <2>1, <2>4, <2>5
<1>2. ASSUME P!InputEnds
      PROVE  Goal
  <2>1. /\ redisPoll.at = "input"
        /\ redisPoll' = IF bResuming THEN [redisPoll EXCEPT !.at = "resumed"] ELSE P!Idle
        /\ UNCHANGED <<bResuming, vPaused, vReady, bResumeArmed, vPending>>
    BY Zenon, <1>2 DEF P!InputEnds, P!linkVars, P!pauseVars
  <2>2. CASE bResuming
    <3>1. /\ redisPoll' \in Positions /\ redisPoll'.at = "resumed"
          /\ redisPoll'.sid = redisPoll.sid /\ redisPoll'.consumed = redisPoll.consumed
          /\ redisPoll'.remaining = redisPoll.remaining
          /\ redisPoll'.progress = redisPoll.progress
      BY Zenon, <1>0, <2>1, <2>2, BackPlace
    <3>2. redisPoll.sid \in Clients /\ redisPoll.sid \notin vPaused
      BY Zenon, <1>0, <1>r, <2>1, <2>2
    <3>3. ~redisPoll.progress /\ ~redisPoll.consumed
            => redisPoll.remaining = Len(vReady) \/ vPending # <<>>
      BY Zenon, <1>r, <2>2
    <3>4. bResuming' = TRUE
      BY Zenon, <2>1, <2>2, <1>r
    <3>5. vPaused' = vPaused /\ Len(vReady') = Len(vReady) /\ vPending' = vPending
      BY Zenon, <2>1
    <3>6. redisPoll'.sid \in Clients /\ redisPoll'.sid \notin vPaused'
      BY Zenon, <3>1, <3>2, <3>5
    <3>7. ~redisPoll'.progress /\ ~redisPoll'.consumed
            => redisPoll'.remaining = Len(vReady') \/ vPending' # <<>>
      BY Zenon, <3>1, <3>3, <3>5
    <3> QED
      BY Zenon, <3>1, <3>4, <3>6, <3>7, ToResumed DEF Goal
  <2>3. CASE ~bResuming
    <3>1. bResuming' = FALSE /\ Attended' /\ redisPoll' = P!Idle
      BY Zenon, <1>r, <2>1, <2>3 DEF Attended
    <3> QED
      BY Zenon, <3>1, ToIdle DEF Goal
  <2> QED
    BY <2>2, <2>3
<1>3. ASSUME P!IssueRefused
      PROVE  Goal
  <2> DEFINE s == redisPoll.sid
             length == Head(vCommands[s])
  <2>1. /\ redisPoll.at = "input" /\ vCommands[s] # <<>> /\ length <= m_iMaxPendingBytes
        /\ P!Refused(length) /\ P!Pause(s) /\ bResuming' = bResuming /\ vPending' = vPending
        /\ redisPoll' = IF bResuming THEN [redisPoll EXCEPT !.at = "resumed"] ELSE P!Idle
    BY Zenon, <1>3 DEF P!IssueRefused, P!linkVars
  <2>2. s \in Clients
    BY Zenon, <1>0, <2>1
  <2>3. length \in Nat
    BY Zenon, <2>1, <2>2, HeadCommand
  <2> HIDE DEF length
  <2>4. CASE bResuming
    <3>1. vPending' # <<>>
      BY Zenon, <2>1, <2>3, <2>4, RefusedPending
    <3>2. redisPoll' \in Positions /\ redisPoll'.at = "resumed" /\ redisPoll'.sid = s
      BY Zenon, <1>0, <2>1, <2>4, BackPlace
    <3>3. bResuming' = TRUE
      BY Zenon, <2>1, <2>4, <1>r
    <3> QED
      BY Zenon, <2>2, <3>1, <3>2, <3>3, ToResumed DEF Goal
  <2>5. CASE ~bResuming
    <3>1. bResuming' = FALSE /\ redisPoll' = P!Idle
      BY Zenon, <1>r, <2>1, <2>5
    <3>2. Attended'
      BY Zenon, <2>1, <2>5, PauseAttended
    <3> QED
      BY Zenon, <3>1, <3>2, ToIdle DEF Goal
  <2> QED
    BY <2>4, <2>5
<1>4. ASSUME NEW taken \in BOOLEAN, NEW sent \in BOOLEAN, P!Issue(taken, sent)
      PROVE  Goal
  <2> DEFINE s == redisPoll.sid
             c == session'[s] = "open"
             after == AfterRead(c)
  <2>1. /\ redisPoll.at = "input" /\ bResuming' = bResuming
        /\ \/ /\ P!Pause(s) /\ c
              /\ redisPoll' = IF bResuming THEN [after EXCEPT !.at = "resumed"] ELSE P!Idle
           \/ redisPoll' = after /\ UNCHANGED <<vPaused, vReady, bResumeArmed>>
    BY Zenon, <1>4 DEF P!Issue, P!pauseVars, AfterRead
  <2>2. s \in Clients
    BY Zenon, <1>0, <2>1
  <2>3. vPending # <<>> => vPending' # <<>>
    <3>1. vPending' = vPending \/ \E x : vPending' = Append(vPending, x)
      BY Zenon, <1>4 DEF P!Issue, P!Rollback, P!linkVars
    <3>2. \A x : Append(vPending, x) # <<>>
      <4>1. vPending \in Seq(Commands)
        BY Zenon DEF CommandType
      <4> QED
        BY <4>1
    <3> QED
      BY Zenon, <3>1, <3>2
  <2>4. c \in BOOLEAN
    BY Zenon
  <2> HIDE DEF c
  <2>5. /\ after \in Positions /\ after.at = redisPoll.at /\ after.sid = s
        /\ after.remaining = redisPoll.remaining /\ after.progress = redisPoll.progress
        /\ after.consumed = (redisPoll.consumed \/ c)
    <3>1. redisPoll \in Positions
      BY Zenon, <1>0
    <3> QED
      BY Zenon, <2>4, <3>1, AfterPlace
  <2> HIDE DEF after
  <2>6. CASE /\ P!Pause(s) /\ c /\ bResuming
             /\ redisPoll' = [after EXCEPT !.at = "resumed"]
    <3>1. /\ redisPoll' \in Positions /\ redisPoll'.at = "resumed" /\ redisPoll'.sid = after.sid
          /\ redisPoll'.consumed = after.consumed
      BY Zenon, <2>5, <2>6, BackPlace
    <3>2. redisPoll'.consumed /\ redisPoll'.sid = s /\ bResuming' = TRUE
      BY Zenon, <1>r, <2>1, <2>5, <2>6, <3>1
    <3> QED
      BY Zenon, <2>2, <3>1, <3>2, ToResumed DEF Goal
  <2>7. CASE P!Pause(s) /\ ~bResuming /\ redisPoll' = P!Idle
    <3>1. bResuming' = FALSE /\ Attended'
      BY Zenon, <1>r, <2>1, <2>7, PauseAttended
    <3> QED
      BY Zenon, <2>7, <3>1, ToIdle DEF Goal
  <2>8. CASE redisPoll' = after /\ UNCHANGED <<vPaused, vReady, bResumeArmed>>
    <3>1. /\ redisPoll' \in Positions /\ redisPoll'.at = "input" /\ redisPoll'.sid \in Clients
          /\ bResuming' \in BOOLEAN
      BY Zenon, <1>r, <2>1, <2>2, <2>5, <2>8
    <3>2. bResuming' => redisPoll'.sid \notin vPaused'
      BY Zenon, <1>r, <2>1, <2>5, <2>8
    <3>3. ~bResuming' => Attended'
      BY Zenon, <1>r, <2>1, <2>3, <2>8 DEF Attended
    <3>4. ASSUME bResuming', ~redisPoll'.progress, ~redisPoll'.consumed
          PROVE  redisPoll'.remaining = Len(vReady') \/ vPending' # <<>>
      <4>1. bResuming /\ ~redisPoll.progress /\ ~redisPoll.consumed
        BY Zenon, <2>1, <2>5, <2>8, <3>4
      <4>2. redisPoll.remaining = Len(vReady) \/ vPending # <<>>
        BY Zenon, <1>r, <4>1
      <4> QED
        BY Zenon, <2>3, <2>5, <2>8, <4>2
    <3> QED
      BY Zenon, <3>1, <3>2, <3>3, <3>4, ToInput DEF Goal
  <2> QED
    BY Zenon, <2>1, <2>6, <2>7, <2>8
<1>5. ASSUME P!Resume
      PROVE  Goal
  <2>1. /\ bResuming' = TRUE /\ vReady' = vReady
        /\ redisPoll' = [P!Idle EXCEPT !.at = "resume", !.remaining = Len(vReady)]
    BY Zenon, <1>5 DEF P!Resume
  <2>2. Len(vReady) \in Nat
    BY <1>0
  <2>3. redisPoll' \in Positions /\ redisPoll'.at = "resume" /\ redisPoll'.remaining = Len(vReady)
    BY Zenon, <2>1, <2>2, ResumePlace
  <2> QED
    BY Zenon, <2>1, <2>3, ToResume DEF Goal
<1>6. ASSUME P!ResumeNext
      PROVE  Goal
  <2> DEFINE s == Head(vReady)
             a == IF session[s] = "open" THEN "input" ELSE "resume"
  <2>1. /\ redisPoll.at = "resume" /\ vReady # <<>> /\ vReady' = Tail(vReady)
        /\ vPaused' = vPaused \ {s} /\ vPending' = vPending /\ bResuming' = bResuming
        /\ redisPoll' = [redisPoll EXCEPT !.remaining = @ - 1, !.sid = s, !.budget = 1,
                                          !.consumed = FALSE, !.at = a]
    BY Zenon, <1>6 DEF P!ResumeNext, P!ResumeOver, P!linkVars
  <2>2. s \in Clients /\ Len(vReady') = Len(vReady) - 1 /\ a \in {"input", "resume"}
    <3>1. s \in Clients /\ Len(vReady') = Len(vReady) - 1
      BY Zenon, <1>0, <2>1, RangeTail
    <3> QED
      BY Zenon, <3>1
  <2> HIDE DEF s, a
  <2>3. /\ redisPoll' \in Positions /\ redisPoll'.at = a /\ redisPoll'.sid = s
        /\ redisPoll'.consumed = FALSE /\ redisPoll'.remaining = redisPoll.remaining - 1
        /\ redisPoll'.progress = redisPoll.progress
    BY Zenon, <1>0, <2>1, <2>2, NextPlace
  <2>4. bResuming' = TRUE /\ redisPoll'.sid \notin vPaused'
    <3>1. bResuming' = TRUE
      BY Zenon, <1>r, <2>1
    <3>2. s \notin vPaused'
      BY Zenon, <2>1
    <3> QED
      BY Zenon, <2>3, <3>1, <3>2
  <2>5. ~redisPoll'.progress => redisPoll'.remaining = Len(vReady') \/ vPending' # <<>>
    BY Zenon, <1>r, <2>1, <2>2, <2>3
  <2>6. a = "input" \/ a = "resume"
    BY Zenon, <2>2
  <2>7. CASE a = "input"
    BY Zenon, <2>2, <2>3, <2>4, <2>5, <2>7, ToInput DEF Goal
  <2>8. CASE a = "resume"
    BY Zenon, <2>3, <2>4, <2>5, <2>8, ToResume DEF Goal
  <2> QED
    BY Zenon, <2>6, <2>7, <2>8
<1>7. ASSUME P!Resumed
      PROVE  Goal
  <2> DEFINE s == redisPoll.sid
             stuck == ~redisPoll.consumed /\ s \in vPaused
             n == IF stuck THEN 0 ELSE redisPoll.remaining
             b == redisPoll.progress \/ redisPoll.consumed
  <2>1. /\ redisPoll.at = "resumed" /\ bResuming' = bResuming /\ vPending' = vPending
        /\ (~stuck => vReady' = vReady)
        /\ redisPoll' = [redisPoll EXCEPT !.at = "resume", !.remaining = n, !.progress = b]
    BY Zenon, <1>7 DEF P!Resumed, P!linkVars
  <2>2. redisPoll.remaining \in Int /\ 0 \in Int
    BY <1>0 DEF Positions
  <2>3. n \in Int /\ b \in BOOLEAN
    BY Zenon, <2>2
  <2>4. stuck => vPending # <<>>
    BY Zenon, <1>r, <2>1
  <2>5. ~b /\ ~stuck => redisPoll.remaining = Len(vReady) \/ vPending # <<>>
    BY Zenon, <1>r, <2>1
  <2>6. ~stuck => n = redisPoll.remaining
    BY Zenon
  <2> HIDE DEF n, b, stuck
  <2>7. /\ redisPoll' \in Positions /\ redisPoll'.at = "resume"
        /\ redisPoll'.remaining = n /\ redisPoll'.progress = b
    BY Zenon, <1>0, <2>1, <2>3, ResumedPlace
  <2>8. ~redisPoll'.progress => redisPoll'.remaining = Len(vReady') \/ vPending' # <<>>
    BY Zenon, <2>1, <2>4, <2>5, <2>6, <2>7
  <2>9. bResuming' = TRUE
    BY Zenon, <1>r, <2>1
  <2> QED
    BY Zenon, <2>7, <2>8, <2>9, ToResume DEF Goal
<1>8. ASSUME P!ResumeEnds
      PROVE  Goal
  <2>1. /\ redisPoll.at = "resume" /\ P!ResumeOver /\ redisPoll' = P!Idle /\ bResuming' = FALSE
        /\ UNCHANGED <<vPending, iPendingBytes, vPaused>>
        /\ IF redisPoll.progress THEN P!ArmResume(vPaused, vPending, iPendingBytes)
           ELSE bResumeArmed' = bResumeArmed
    BY Zenon, <1>8 DEF P!ResumeEnds, P!RearmAfter, P!linkVars
  <2>2. CASE redisPoll.progress
    <3>1. vPaused = {} \/ bResumeArmed' \/ vPending # <<>>
      BY Zenon, <1>z, <2>1, <2>2, ArmedOrPending
    <3> QED
      BY Zenon, <2>1, <3>1, ToIdle DEF Goal, Attended
  <2>3. CASE ~redisPoll.progress
    <3>1. redisPoll.remaining = Len(vReady) \/ vPending # <<>>
      BY Zenon, <1>r, <2>1, <2>3
    <3>2. vReady = <<>> => vPaused = {}
      <4>1. Range(<<>>) = {}
        BY DEF Range
      <4> QED
        BY Zenon, <1>0, <4>1
    <3>3. Len(vReady) = 0 => vReady = <<>>
      BY <1>0
    <3>4. /\ ~(0 >= m_iMaxPendingCommands) /\ ~(0 >= m_iMaxPendingBytes)
      BY ProxyAssumption
    <3>5. vPending = <<>> => iPendingBytes = 0 /\ Len(vPending) = 0
      BY Zenon, CreditNumbers
    <3>6. vPaused = {} \/ vPending # <<>>
      BY Zenon, <2>1, <3>1, <3>2, <3>3, <3>4, <3>5 DEF P!ResumeOver
    <3> QED
      BY Zenon, <2>1, <3>6, ToIdle DEF Goal, Attended
  <2> QED
    BY <2>2, <2>3
<1>9. ASSUME (\E sent \in BOOLEAN : P!OnReply(sent)) \/ P!OnDisconnect
      PROVE  Goal
  <2>1. /\ redisPoll = P!Idle /\ UNCHANGED <<vPaused, bResuming, redisPoll>>
        /\ \/ P!ArmResume(vPaused, vPending', iPendingBytes')
           \/ /\ hiredis = <<>> /\ bResumeArmed' = bResumeArmed
              /\ vPending' = SubSeq(vPending, Len(hiredis) + 1, Len(vPending))
    BY Zenon, <1>9 DEF P!OnReply, P!OnDisconnect
  <2>2. bResuming = FALSE /\ Attended
    BY Zenon, <2>1, IdleIs
  <2>3. CASE P!ArmResume(vPaused, vPending', iPendingBytes')
    <3>1. vPaused = {} \/ bResumeArmed' \/ vPending' # <<>>
      BY Zenon, <1>z, <2>3, ArmedOrPending
    <3> QED
      BY Zenon, <2>1, <2>2, <3>1, ToIdle DEF Goal, Attended
  <2>4. CASE /\ hiredis = <<>> /\ bResumeArmed' = bResumeArmed
             /\ vPending' = SubSeq(vPending, Len(hiredis) + 1, Len(vPending))
    <3>1. vPending = <<>>
      BY Zenon, <2>4 DEF P!CreditExact
    <3>2. SubSeq(vPending, Len(hiredis) + 1, Len(vPending)) = <<>>
      BY <2>4, <3>1
    <3> QED
      BY Zenon, <2>1, <2>2, <2>4, <3>1, <3>2, ToIdle DEF Goal, Attended
  <2> QED
    BY Zenon, <2>1, <2>3, <2>4
<1>10. ASSUME NEW s \in Clients, P!OnDelSession(s)
       PROVE  Goal
  <2>1. /\ redisPoll = P!Idle /\ UNCHANGED <<bResuming, redisPoll, bResumeArmed, vPending>>
        /\ vPaused' = vPaused \ {s}
    BY Zenon, <1>10 DEF P!OnDelSession, P!linkVars
  <2>2. bResuming = FALSE /\ Attended
    BY Zenon, <2>1, IdleIs
  <2>3. Attended'
    BY Zenon, <2>1, <2>2 DEF Attended
  <2> QED
    BY Zenon, <2>1, <2>2, <2>3, ToIdle DEF Goal
<1>11. ASSUME \/ P!InputRejected \/ (\E ok \in BOOLEAN : P!Open(ok))
              \/ (\E s \in Clients : P!CloseSession(s)) \/ UNCHANGED P!vars
       PROVE  Goal
  <2>1. UNCHANGED <<redisPoll, bResuming, vPaused, vReady, bResumeArmed, vPending>>
    BY Zenon, <1>11
       DEF P!InputRejected, P!Open, P!CloseSession, P!vars, P!linkVars, P!pauseVars
  <2>2. PlaceNext
    BY Zenon, <2>1 DEF PlaceType, PlaceNext
  <2>3. RoundNext
    BY Zenon, <2>1 DEF RoundInv, RoundNext, Attended
  <2> QED
    BY Zenon, <2>2, <2>3 DEF Goal
<1> QED
  BY Zenon, <1>1, <1>2, <1>3, <1>4, <1>5, <1>6, <1>7, <1>8, <1>9, <1>10, <1>11
     DEF P!Next, P!Loops, Goal

\* At the start nothing is open, queued or outstanding.
LEMMA ProxyInit == P!Init => ProxyInv
<1> SUFFICES ASSUME P!Init PROVE ProxyInv
  OBVIOUS
<1>1. CommandType
  BY DEF P!Init, CommandType
<1>2. redisPoll = P!Idle /\ bResuming = FALSE /\ vPaused = {} /\ vPending = <<>>
  BY Zenon DEF P!Init
<1>3. PlaceType
  BY Zenon, <1>2, IdlePlace, PlaceNames DEF PlaceType
<1>4. RoundInv
  BY Zenon, <1>2, IdlePlace, PlaceNames DEF RoundInv, Attended
<1>5. QueueInv
  <2>1. /\ session \in [Clients -> {"open", "closed", "deleted"}]
        /\ m_bReadPaused \in [Clients -> BOOLEAN] /\ vReady \in Seq(Clients)
        /\ \A s \in Clients : m_bReadPaused[s] = FALSE
    BY DEF P!Init
  <2> QED
    BY Zenon, <1>2, <2>1 DEF QueueInv
<1>6. P!CreditExact
  <2>1. P!SumBytes(<<>>) = 0
    BY Zenon, ProxyBytesIs, BytesEmpty
  <2>2. 0 <= m_iMaxPendingBytes /\ Len(<<>>) <= m_iMaxPendingCommands
    BY ProxyAssumption
  <2> QED
    BY Zenon, <2>1, <2>2 DEF P!Init, P!CreditExact
<1> QED
  BY Zenon, <1>1, <1>3, <1>4, <1>5, <1>6 DEF ProxyInv

\* One step of the proxy keeps the invariant.
LEMMA ProxyStep == ProxyInv /\ [P!Next]_P!vars => ProxyInv'
<1> SUFFICES ASSUME ProxyInv, [P!Next]_P!vars PROVE ProxyInv'
  OBVIOUS
<1>1. CommandType /\ PlaceType /\ QueueInv /\ RoundInv /\ P!CreditExact
  BY Zenon DEF ProxyInv
<1>2. CommandType' /\ P!CreditExact'
  BY Zenon, <1>1, CreditStep
<1>3. QueueInv'
  BY Zenon, <1>1, QueueStep
<1>4. PlaceNext /\ RoundNext
  BY Zenon, <1>1, <1>2, RoundStep
<1>5. PlaceType' /\ RoundInv'
  BY Zenon, <1>4 DEF PlaceNext, RoundNext, PlaceType, RoundInv
<1> QED
  BY Zenon, <1>2, <1>3, <1>5 DEF ProxyInv

\* The loops of ProcessInput and Resume, the queue of paused sessions and the accounts of the
\* link fit together at every step of the thread (redis_server.cpp).
THEOREM ProxyInvariant == P!Spec => []ProxyInv
  BY ProxyInit, ProxyStep, PTL DEF P!Spec

\* Whatever the limits and however many sessions: the accounts of the link are those of
\* hiredis and within the limits, and no open session stays paused without a round that is
\* posted or a reply that will post one (redis_server.cpp:210, 407, 429, 483, 515).
THEOREM ProxyAttends == P!Spec => []ProxySound
<1>1. ProxyInv => ProxySound
  <2> SUFFICES ASSUME ProxyInv PROVE ProxySound
    OBVIOUS
  <2>1. QueueInv /\ RoundInv /\ P!CreditExact
    BY Zenon DEF ProxyInv
  <2>2. ASSUME redisPoll = P!Idle, NEW s \in Clients, session[s] = "open", m_bReadPaused[s]
        PROVE  s \in vPaused /\ s \in Range(vReady) /\ (bResumeArmed \/ vPending # <<>>)
    BY Zenon, <2>1, <2>2, IdleIs DEF QueueInv, Attended
  <2>3. \A q : P!Range(q) = Range(q)
    BY Zenon DEF P!Range, Range
  <2> QED
    BY Zenon, <2>1, <2>2, <2>3 DEF ProxySound, P!PausedIsAttended
<1> QED
  BY <1>1, ProxyInvariant, PTL
=============================================================================
