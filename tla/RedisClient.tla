---------------------------- MODULE RedisClient -----------------------------
(***************************************************************************)
(* Commands to Redis over one connection (oi_redis.cpp).  A reply carries  *)
(* no number: the n-th reply of a session belongs to the n-th command that *)
(* was sent on it, so m_vWait must keep exactly the commands on the wire,  *)
(* the ones that timed out included.                                       *)
(*                                                                         *)
(* Callers are coroutines or blocked threads; everything else runs on the  *)
(* poll thread, whose handlers settle a batch of calls one after the other *)
(* (left) while the callers go on and free their State.  Settling is two   *)
(* steps: the result is published, then the coroutine is scheduled through *)
(* the State.  A reference is known by its holder instead of by a count.   *)
(* A second await of one call throws and changes nothing, so it is no step.*)
(***************************************************************************)
EXTENDS Integers, Sequences

CONSTANTS
  Calls,
  Synchronous,     \* the calls made with CallSync
  MaxSid,          \* bound: sessions of the client
  m_iMaxPending

INVALID_SID == 0
Sids == 1..MaxSid
None == "none"

ASSUME RedisAssumption ==
  /\ Synchronous \subseteq Calls
  /\ None \notin Calls
  /\ MaxSid \in Nat /\ m_iMaxPending \in Nat \ {0}

VARIABLES
  caller,              \* where the caller of a call is
  iGate, iStatus, pReply, bReady, iWon, iReferences,   \* RedisCall::State
  posted,              \* calls whose Submit waits for the poll thread
  m_vWait, m_iSwept, m_iReaderSessionId,
  bArmed,              \* the sweep timer is active
  left,                \* what the poll thread has still to settle (vLeft, vExpired)
  step,                \* where it is with the head of left
  connected,           \* ProtoClientManager::ConnectedSid
  sess,                \* the life of a session: open means in the map of the manager
  wire,                \* per session: the commands sent and not answered yet, in order
  bStopRequested, bStopped

callerVars == <<caller, posted>>
stateVars == <<iGate, iStatus, pReply, bReady, iWon>>
queueVars == <<m_vWait, m_iSwept, m_iReaderSessionId, bArmed>>
leftVars == <<left, step>>
netVars == <<connected, sess, wire>>
stopVars == <<bStopRequested, bStopped>>
vars == <<callerVars, stateVars, iReferences, queueVars, leftVars, netVars, stopVars>>

Init ==
  /\ caller = [c \in Calls |-> "new"] /\ posted = {}
  /\ iGate = [c \in Calls |-> "Idle"]
  /\ iStatus = [c \in Calls |-> "Disconnected"]
  /\ pReply = [c \in Calls |-> None]
  /\ bReady = [c \in Calls |-> FALSE]
  /\ iWon = [c \in Calls |-> FALSE]
  /\ iReferences = [c \in Calls |-> {"caller"}]
  /\ m_vWait = <<>> /\ m_iSwept = 0 /\ m_iReaderSessionId = INVALID_SID /\ bArmed = FALSE
  /\ left = <<>> /\ step = "settle"
  /\ connected = INVALID_SID /\ sess = [s \in Sids |-> "none"]
  /\ wire = [s \in Sids |-> <<>>]
  /\ bStopRequested = FALSE /\ bStopped = FALSE

Goto(c, pc) == caller' = [caller EXCEPT ![c] = pc]

-----------------------------------------------------------------------------
(***************************************************************************)
(* The caller.  CallOnLoop queues Submit, or runs it at once on the poll    *)
(* thread itself, so the order of Submits is open.                         *)
(***************************************************************************)
Suspend(c) ==
  /\ c \notin Synchronous /\ caller[c] = "new"
  /\ \/ bStopRequested /\ Goto(c, "resumed") /\ UNCHANGED posted
     \/ ~bStopRequested /\ Goto(c, "posted") /\ posted' = posted \cup {c}
  /\ UNCHANGED <<stateVars, iReferences, queueVars, leftVars, netVars, stopVars>>

\* Mutant: the caller suspends though the result is there.
ExchangeWaiting_Always(c) ==
  /\ c \notin Synchronous /\ caller[c] = "posted"
  /\ iGate' = [iGate EXCEPT ![c] = "Waiting"]
  /\ Goto(c, "suspended")
  /\ UNCHANGED <<posted, iStatus, pReply, bReady, iWon, iReferences, queueVars, leftVars,
                 netVars, stopVars>>

\* The end of Suspend: go on at once when the result is there already.
ExchangeWaiting(c) ==
  /\ c \notin Synchronous /\ caller[c] = "posted"
  /\ iGate' = [iGate EXCEPT ![c] = "Waiting"]
  /\ Goto(c, IF iGate[c] = "Ready" THEN "resumed" ELSE "suspended")
  /\ UNCHANGED <<posted, iStatus, pReply, bReady, iWon, iReferences, queueVars, leftVars,
                 netVars, stopVars>>

CallSync(c) ==
  /\ c \in Synchronous /\ caller[c] = "new"
  /\ \/ bStopRequested /\ Goto(c, "done") /\ UNCHANGED posted
     \/ ~bStopRequested /\ Goto(c, "waiting") /\ posted' = posted \cup {c}
  /\ UNCHANGED <<stateVars, iReferences, queueVars, leftVars, netVars, stopVars>>

\* await_resume and the destructor, or the end of CallSync: read the result, release.
Return(c) ==
  /\ \/ caller[c] = "resumed"
     \/ caller[c] = "waiting" /\ bReady[c]
  /\ Goto(c, "done")
  /\ iReferences' = [iReferences EXCEPT ![c] = @ \ {"caller"}]
  /\ UNCHANGED <<posted, stateVars, queueVars, leftVars, netVars, stopVars>>

-----------------------------------------------------------------------------
(***************************************************************************)
(* Settling, on the poll thread.                                           *)
(***************************************************************************)
\* Settle every call of v with this status and reply, and drop these references to it.
Settles(v, iStatusLocal, reply, release) ==
  /\ left' = [i \in DOMAIN v |->
               [call |-> v[i], status |-> iStatusLocal, reply |-> reply, release |-> release]]
  /\ UNCHANGED step

Idle == left = <<>>

\* The result is written and the gate exchanged, or the condition variable signalled.
Publish(c, iStatusLocal, reply) ==
  /\ iWon' = [iWon EXCEPT ![c] = TRUE]
  /\ iStatus' = [iStatus EXCEPT ![c] = iStatusLocal]
  /\ pReply' = [pReply EXCEPT ![c] = reply]
  /\ bReady' = [bReady EXCEPT ![c] = TRUE]
  /\ iGate' = [iGate EXCEPT ![c] = IF c \in Synchronous THEN @ ELSE "Ready"]

\* Settle up to the exchange of the gate: only the first one writes the result.
Settle ==
  LET c == Head(left).call IN
  /\ ~Idle /\ step = "settle"
  /\ IF iWon[c]
     THEN step' = "release" /\ UNCHANGED stateVars
     ELSE /\ Publish(c, Head(left).status, Head(left).reply)
          /\ step' = IF c \notin Synchronous /\ iGate[c] = "Waiting" THEN "schedule" ELSE "release"
  /\ UNCHANGED <<callerVars, iReferences, queueVars, left,
                 netVars, stopVars>>

\* Schedule the coroutine the exchange has found waiting, then Release.
Settled ==
  LET c == Head(left).call IN
  /\ step # "settle" /\ step' = "settle"
  /\ caller' = IF step = "schedule" THEN [caller EXCEPT ![c] = "resumed"] ELSE caller
  /\ iReferences' = [iReferences EXCEPT ![c] = @ \ Head(left).release]
  /\ left' = Tail(left)
  /\ UNCHANGED <<posted, stateVars, queueVars, netVars, stopVars>>

-----------------------------------------------------------------------------
(***************************************************************************)
(* Sending.                                                                *)
(***************************************************************************)
\* Enqueue up to SendBytesResult refuses: no arguments, a command that cannot be formatted,
\* a stop, no session or not the reader's, no timer, a full queue.
EnqueueRefused(c) ==
  /\ iReferences' = [iReferences EXCEPT ![c] = @ \cup {"submit"}]
  /\ Settles(<<c>>, "error", None, {"submit"})
  /\ UNCHANGED <<queueVars, wire>>

CanEnqueue ==
  /\ ~bStopRequested
  /\ m_iReaderSessionId # INVALID_SID /\ connected = m_iReaderSessionId
  /\ Len(m_vWait) < m_iMaxPending

\* The command is in the queue and accepted by the session.
EnqueueSent(c) ==
  /\ CanEnqueue /\ sess[m_iReaderSessionId] = "open"
  /\ m_vWait' = Append(m_vWait, c)
  /\ wire' = [wire EXCEPT ![m_iReaderSessionId] = Append(@, c)]
  /\ bArmed' = TRUE
  /\ iReferences' = [iReferences EXCEPT ![c] = @ \cup {"queue"}]
  /\ UNCHANGED <<m_iSwept, m_iReaderSessionId, leftVars>>

\* SendBytesResult fails (the session is closed, or its send queue is full): the command
\* leaves the queue again, where it is the last.
EnqueueFailed(c) ==
  /\ CanEnqueue
  /\ bArmed' = TRUE
  /\ iReferences' = [iReferences EXCEPT ![c] = @ \cup {"queue", "submit"}]
  /\ Settles(<<c>>, "error", None, {"queue", "submit"})
  /\ UNCHANGED <<m_vWait, m_iSwept, m_iReaderSessionId, wire>>

Submit(c) ==
  /\ Idle /\ c \in posted
  /\ posted' = posted \ {c}
  /\ EnqueueRefused(c) \/ EnqueueSent(c) \/ EnqueueFailed(c)
  /\ UNCHANGED <<caller, stateVars, connected, sess, stopVars>>

-----------------------------------------------------------------------------
(***************************************************************************)
(* Replies, timeouts, connections, the stop handler.                       *)
(***************************************************************************)
\* FailAll: the queue becomes the batch.
FailAll(iStatusLocal) ==
  /\ Settles(m_vWait, iStatusLocal, None, {"queue"})
  /\ m_vWait' = <<>> /\ m_iSwept' = 0

\* Feed: the next reply of session s, for the oldest command in the queue.
FeedReply(s) ==
  /\ Idle /\ sess[s] \in {"open", "closed"} /\ wire[s] # <<>>
  /\ wire' = [wire EXCEPT ![s] = Tail(@)]
  /\ IF s # m_iReaderSessionId \/ m_vWait = <<>>
     THEN UNCHANGED <<leftVars, m_vWait, m_iSwept>>
     ELSE /\ m_vWait' = Tail(m_vWait)
          /\ m_iSwept' = IF m_iSwept > 0 THEN m_iSwept - 1 ELSE 0
          /\ Settles(<<Head(m_vWait)>>, "reply", Head(wire[s]), {"queue"})
  /\ UNCHANGED <<callerVars, stateVars, iReferences, m_iReaderSessionId, bArmed, connected,
                 sess, stopVars>>

Closed(s) == IF s \in Sids /\ sess[s] = "open" THEN [sess EXCEPT ![s] = "closed"] ELSE sess

\* Feed: what arrives on the reader's session is not RESP.
FeedBroken ==
  /\ Idle /\ m_iReaderSessionId # INVALID_SID
  /\ FailAll("error")
  /\ sess' = Closed(m_iReaderSessionId)
  /\ UNCHANGED <<callerVars, stateVars, iReferences, m_iReaderSessionId, bArmed, connected,
                 wire, stopVars>>

\* Mutant: a command that timed out leaves the queue.
SweepTimeout_Removes ==
  /\ Idle /\ bArmed /\ m_vWait # <<>>
  /\ m_vWait' = Tail(m_vWait)
  /\ Settles(<<Head(m_vWait)>>, "timeout", None, {"queue"})
  /\ UNCHANGED <<callerVars, stateVars, iReferences, m_iSwept, m_iReaderSessionId, bArmed,
                 netVars, stopVars>>

\* The deadlines of a prefix of the queue have passed; its calls end and keep their places.
SweepTimeout ==
  /\ Idle /\ bArmed
  /\ \E k \in (m_iSwept + 1)..Len(m_vWait) :
       /\ m_iSwept' = k
       /\ Settles(SubSeq(m_vWait, m_iSwept + 1, k), "timeout", None, {})
  /\ UNCHANGED <<callerVars, stateVars, iReferences, m_vWait, m_iReaderSessionId, bArmed,
                 netVars, stopVars>>

\* OnAddSession and OnClientConnect of the next session, once none is in the map.
OnClientConnect(s) ==
  /\ Idle
  /\ \A t \in Sids : IF t < s THEN sess[t] \in {"closed", "deleted"} ELSE sess[t] = "none"
  /\ sess' = [sess EXCEPT ![s] = "open"]
  /\ connected' = s
  /\ FailAll("error")
  /\ m_iReaderSessionId' = s
  /\ UNCHANGED <<callerVars, stateVars, iReferences, bArmed, wire, stopVars>>

\* CloseSession by the peer's end of the connection or by any thread.
CloseSession(s) ==
  /\ sess[s] = "open" /\ sess' = Closed(s)
  /\ UNCHANGED <<callerVars, stateVars, iReferences, queueVars, leftVars, connected, wire,
                 stopVars>>

\* OnDelSession and OnClientDisconnect: FailSid finds the commands of this session only,
\* and the queue has no others than the reader's.
OnClientDisconnect(s) ==
  /\ Idle /\ sess[s] = "closed"
  /\ sess' = [sess EXCEPT ![s] = "deleted"]
  /\ connected' = IF connected = s THEN INVALID_SID ELSE connected
  /\ IF m_iReaderSessionId = s
     THEN m_iReaderSessionId' = INVALID_SID /\ FailAll("error")
     ELSE UNCHANGED <<m_iReaderSessionId, leftVars, m_vWait, m_iSwept>>
  /\ UNCHANGED <<callerVars, stateVars, iReferences, bArmed, wire, stopVars>>

RequestStop ==
  /\ ~bStopRequested /\ bStopRequested' = TRUE
  /\ UNCHANGED <<callerVars, stateVars, iReferences, queueVars, leftVars, netVars, bStopped>>

\* The stop handler Init registers.
StopHandler ==
  /\ Idle /\ bStopRequested /\ ~bStopped /\ bStopped' = TRUE
  /\ FailAll("error")
  /\ bArmed' = FALSE
  /\ m_iReaderSessionId' = INVALID_SID
  /\ sess' = [s \in Sids |-> IF sess[s] = "open" THEN "closed" ELSE sess[s]]
  /\ UNCHANGED <<callerVars, stateVars, iReferences, connected, wire, bStopRequested>>

CallerStep(c) == ExchangeWaiting(c) \/ Return(c)
PollStep == Settle \/ Settled \/ (\E c \in Calls : Submit(c))

Next ==
  \/ \E c \in Calls : Suspend(c) \/ CallSync(c) \/ CallerStep(c)
  \/ PollStep \/ SweepTimeout \/ FeedBroken \/ RequestStop \/ StopHandler
  \/ \E s \in Sids : FeedReply(s) \/ OnClientConnect(s) \/ CloseSession(s) \/ OnClientDisconnect(s)

Spec == Init /\ [][Next]_vars

\* Workers and the poll thread keep running (the workers are joined before the poll thread
\* stops), and the sweep timer fires again and again.
FairSpec ==
  /\ Spec
  /\ \A c \in Calls : WF_vars(CallerStep(c))
  /\ WF_vars(PollStep) /\ WF_vars(SweepTimeout) /\ WF_vars(StopHandler)

-----------------------------------------------------------------------------
\* A call that gets a reply gets the one to its own command, whatever timed out, failed or
\* was closed before (oi_redis.cpp:521, Feed pops in the order of sending).
ReplyMatches == \A c \in Calls : iStatus[c] = "reply" => pReply[c] = c

\* Every State the poll thread will still touch, in the queue or in a batch it settles, is
\* held by someone other than a caller that can leave (oi_redis.cpp:215, Release).
StateAlive ==
  /\ \A i \in DOMAIN m_vWait : "queue" \in iReferences[m_vWait[i]]
  /\ \A i \in DOMAIN left : iReferences[left[i].call] \ {"caller"} # {}

\* What Feed, SweepTimeout and Settle owe the callers at once: the right reply, and a State
\* that is there as long as the poll thread uses it.
ReplySound == ReplyMatches /\ StateAlive

\* A command that was given to the client ends: by its reply, the sweep, the loss of the
\* session or the stop, and also a thread blocked in CallSync gets away.
EveryCallEnds == \A c \in Calls : (caller[c] # "new") ~> (caller[c] = "done")
=============================================================================
