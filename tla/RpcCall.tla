------------------------------ MODULE RpcCall -------------------------------
(***************************************************************************)
(* An outgoing RPC (oi_rpc_coro.h: RpcCallAwaiter; oi_rpc_call.cpp: the    *)
(* table of waiting calls; oi_rpc_session_manager: the client that holds    *)
(* calls until its first connection; oi_session_manager: the sessions).    *)
(*                                                                         *)
(* A call's slot is taken from the table by exactly one of: a reply, the    *)
(* sweep of expired calls, the close of its session, a failed send, the     *)
(* client that gives up held calls, or the awaiter that is destroyed.  The  *)
(* taker then works on the awaiter without a lock, while the caller is      *)
(* still submitting, arming, running on or destroying it.                   *)
(*                                                                         *)
(* Steps are the sections under a shard's lock, under the client's spin     *)
(* lock m_stClientLocker (held across two steps where it is held across a   *)
(* section of the shard), and the accesses to atomics.  Threads: the caller *)
(* of each call, the poll thread (replies, sweep, connections), and one     *)
(* thread per session that closes it.  Each call has a shard of its own:    *)
(* call numbers are consecutive and there are 64 shards.                    *)
(***************************************************************************)
EXTENDS Integers, FiniteSets

CONSTANTS
  Calls,           \* RPCs
  ClientCalls,     \* those sent through a ProtoClientManager; the others name a sid
  Timed,           \* those with iTimeoutMilliseconds > 0
  MaxSid,          \* bound: connections the client makes
  m_iHeldMaxCount

INVALID_SID == -1
Sids == 1..MaxSid

ASSUME RpcCallAssumption ==
  /\ ClientCalls \subseteq Calls /\ Timed \subseteq Calls
  /\ MaxSid \in Nat \ {0}
  /\ m_iHeldMaxCount \in Nat
  /\ IsFiniteSet(Calls)

VARIABLES
  caller,            \* where the caller of a call is
  iGate,             \* RpcCallAwaiter::iGate
  iResult,           \* RpcCallAwaiter::iResult / bReplied
  iScheduled,        \* how often the caller has been scheduled
  mSlots,            \* calls with a slot in their shard
  mSessions,         \* the session index of the shards
  mExpire,           \* calls in a bucket of expiries
  iSessionId,        \* the slot's session
  bAwaitingConnect,
  pGuard,
  fin,               \* where FinishRpcSlot is for a taken call
  taker,             \* who runs it: the caller, the poll thread, a closed sid
  code,              \* the code, or "reply", that it was given
  source,            \* the session a reply came from
  sess,              \* the life of a session
  failing,           \* shards FailRpcCalls of a closed session has to visit
  m_iSessionId,      \* the client; INVALID_SID means not m_bConnected
  m_bEverConnected,
  m_vHeldCalls,
  m_iHeldBytes,      \* in frames
  clientLock,        \* the call whose SubmitCall holds m_stClientLocker, if any
  poll, pollCall, vHeld   \* OnAddSession and FailHeldCalls on the poll thread

callerVars == <<caller, iGate, iResult, iScheduled>>
tableVars == <<mSlots, mSessions, mExpire, iSessionId, bAwaitingConnect>>
finVars == <<pGuard, fin, taker, code, source>>
sessVars == <<sess, failing>>
clientVars == <<m_iSessionId, m_bEverConnected, m_vHeldCalls, m_iHeldBytes, clientLock>>
pollVars == <<poll, pollCall, vHeld>>
vars == <<callerVars, tableVars, finVars, sessVars, clientVars, pollVars>>

\* Who runs FinishRpcSlot: nobody yet, the caller, the poll thread, or the thread that
\* closes a session, for which its sid stands.
Nobody == -1
TheCaller == -2
ThePoll == -3


\* OI_ERR_FAIL as the awaiter has it from the start, an error code some taker passes
\* (CONNECT, TIMEOUT, BUSY: the properties do not tell them apart), or a reply.
Codes == {"FAIL", "error", "reply"}
CallerPc == {"new", "bound", "push", "send", "fail", "waking", "dispatched",
             "suspended", "resumed", "drop", "guard", "gone"}
FinPc == {"none", "drop", "write", "gate", "schedule", "release", "done"}

Init ==
  /\ caller = [c \in Calls |-> "new"]
  /\ iGate = [c \in Calls |-> "Idle"]
  /\ iResult = [c \in Calls |-> "FAIL"]
  /\ iScheduled = [c \in Calls |-> 0]
  /\ mSlots = {} /\ mExpire = {}
  /\ mSessions = [s \in Sids \cup {INVALID_SID} |-> {}]
  /\ iSessionId = [c \in Calls |-> INVALID_SID]
  /\ bAwaitingConnect = [c \in Calls |-> FALSE]
  /\ pGuard = [c \in Calls |-> 0]
  /\ fin = [c \in Calls |-> "none"]
  /\ taker = [c \in Calls |-> Nobody]
  /\ code = [c \in Calls |-> "FAIL"]
  /\ source = [c \in Calls |-> INVALID_SID]
  /\ sess = [s \in Sids |-> "none"]
  /\ failing = [s \in Sids |-> {}]
  /\ m_iSessionId = INVALID_SID /\ m_bEverConnected = FALSE
  /\ m_vHeldCalls = {} /\ m_iHeldBytes = 0
  /\ clientLock = {}
  /\ poll = "idle" /\ pollCall = {} /\ vHeld = {}

-----------------------------------------------------------------------------
(***************************************************************************)
(* The table.  Every operator is a section under the lock of c's shard.    *)
(***************************************************************************)
RemoveSessionIndex(c) == [mSessions EXCEPT ![iSessionId[c]] = @ \ {c}]

\* The slot leaves the table; the guard is armed for the one who took it.
TakeRpcSlot(c, who, iCode, iFrom) ==
  /\ c \in mSlots
  /\ mSlots' = mSlots \ {c}
  /\ mExpire' = mExpire \ {c}
  /\ mSessions' = RemoveSessionIndex(c)
  /\ pGuard' = [pGuard EXCEPT ![c] = @ + 1]
  /\ taker' = [taker EXCEPT ![c] = who]
  /\ code' = [code EXCEPT ![c] = iCode]
  /\ source' = [source EXCEPT ![c] = iFrom]
  /\ fin' = [fin EXCEPT ![c] = IF bAwaitingConnect[c] THEN "drop" ELSE "write"]
  /\ UNCHANGED <<iSessionId, bAwaitingConnect>>

\* A call still in the table is bound to session s, in the slot and in the index.
ClaimRpcSend(c, s) ==
  /\ c \in mSlots
  /\ mSessions' = [t \in DOMAIN mSessions |->
                     IF t = s THEN mSessions[t] \cup {c} ELSE mSessions[t] \ {c}]
  /\ iSessionId' = [iSessionId EXCEPT ![c] = s]
  /\ bAwaitingConnect' = [bAwaitingConnect EXCEPT ![c] = FALSE]
  /\ UNCHANGED <<mSlots, mExpire>>

-----------------------------------------------------------------------------
(***************************************************************************)
(* The caller: Dispatch, Arm, await_resume and the destructor.             *)
(***************************************************************************)
Goto(c, pc) == caller' = [caller EXCEPT ![c] = pc]

\* Mutant: the deadline is not registered.
BindRpcCall_NoExpiry(c, s) ==
  /\ caller[c] = "new"
  /\ c \in ClientCalls => s = INVALID_SID
  /\ mSlots' = mSlots \cup {c}
  /\ iSessionId' = [iSessionId EXCEPT ![c] = s]
  /\ mSessions' = [mSessions EXCEPT ![s] = @ \cup {c}]
  /\ Goto(c, "bound")
  /\ UNCHANGED <<iGate, iResult, iScheduled, mExpire, bAwaitingConnect,
                 finVars, sessVars, clientVars, pollVars>>

\* Dispatch: BindRpcCall inserts the slot, its index entry and its expiry.
BindRpcCall(c, s) ==
  /\ caller[c] = "new"
  /\ c \in ClientCalls => s = INVALID_SID
  /\ mSlots' = mSlots \cup {c}
  /\ mExpire' = IF c \in Timed THEN mExpire \cup {c} ELSE mExpire
  /\ iSessionId' = [iSessionId EXCEPT ![c] = s]
  /\ mSessions' = [mSessions EXCEPT ![s] = @ \cup {c}]
  /\ Goto(c, "bound")
  /\ UNCHANGED <<iGate, iResult, iScheduled, bAwaitingConnect,
                 finVars, sessVars, clientVars, pollVars>>

\* The request cannot be encoded: the error is kept for await_resume.
EncodeThrows(c) ==
  /\ caller[c] = "bound"
  /\ Goto(c, "fail")
  /\ UNCHANGED <<iGate, iResult, iScheduled, tableVars, finVars, sessVars, clientVars, pollVars>>

\* SubmitCall on a connected client: claim for its session, then send.
SubmitConnected(c) ==
  /\ c \in ClientCalls /\ caller[c] = "bound"
  /\ clientLock = {} /\ m_iSessionId # INVALID_SID
  /\ \/ ClaimRpcSend(c, m_iSessionId) /\ Goto(c, "send")
     \/ c \notin mSlots /\ Goto(c, "dispatched") /\ UNCHANGED tableVars
  /\ UNCHANGED <<iGate, iResult, iScheduled, finVars, sessVars, clientVars, pollVars>>

\* SubmitCall before the first connection: HoldCallLocked marks the slot while it
\* holds the client's lock; Push below queues the frame and lets the lock go.
SubmitHeld(c) ==
  /\ c \in ClientCalls /\ caller[c] = "bound"
  /\ clientLock = {} /\ m_iSessionId = INVALID_SID /\ ~m_bEverConnected
  /\ \/ /\ Cardinality(m_vHeldCalls) >= m_iHeldMaxCount
        /\ Goto(c, "fail")
        /\ UNCHANGED <<bAwaitingConnect, clientLock>>
     \/ /\ Cardinality(m_vHeldCalls) < m_iHeldMaxCount
        /\ c \notin mSlots
        /\ Goto(c, "dispatched")
        /\ UNCHANGED <<bAwaitingConnect, clientLock>>
     \/ /\ Cardinality(m_vHeldCalls) < m_iHeldMaxCount
        /\ c \in mSlots
        /\ bAwaitingConnect' = [bAwaitingConnect EXCEPT ![c] = TRUE]
        /\ clientLock' = {c}
        /\ Goto(c, "push")
  /\ UNCHANGED <<iGate, iResult, iScheduled, mSlots, mSessions, mExpire, iSessionId,
                 finVars, sessVars, m_iSessionId, m_bEverConnected, m_vHeldCalls,
                 m_iHeldBytes, pollVars>>

Push(c) ==
  /\ caller[c] = "push"
  /\ m_vHeldCalls' = m_vHeldCalls \cup {c}
  /\ m_iHeldBytes' = m_iHeldBytes + 1
  /\ clientLock' = {}
  /\ Goto(c, "dispatched")
  /\ UNCHANGED <<iGate, iResult, iScheduled, tableVars, finVars, sessVars,
                 m_iSessionId, m_bEverConnected, pollVars>>

\* SubmitCall on a client that has lost its connection.
SubmitLost(c) ==
  /\ c \in ClientCalls /\ caller[c] = "bound"
  /\ clientLock = {} /\ m_iSessionId = INVALID_SID /\ m_bEverConnected
  /\ Goto(c, "fail")
  /\ UNCHANGED <<iGate, iResult, iScheduled, tableVars, finVars, sessVars, clientVars, pollVars>>

\* Mutant: a session that is closing still takes the frame.
SendBytesResult_WhileClosing(s, bOk) == bOk => s \in Sids /\ sess[s] \in {"open", "closed"}

\* SendBytesResult: the session takes the frame, is full, or is not there any more.
\* A send to a session that is not open fails.
SendBytesResult(s, bOk) == bOk => s \in Sids /\ sess[s] = "open"

Send(c) ==
  /\ \/ caller[c] = "send"
     \/ caller[c] = "bound" /\ c \notin ClientCalls
  /\ \E bOk \in BOOLEAN :
       /\ SendBytesResult(iSessionId[c], bOk)
       /\ Goto(c, IF bOk THEN "dispatched" ELSE "fail")
  /\ UNCHANGED <<iGate, iResult, iScheduled, tableVars, finVars, sessVars, clientVars, pollVars>>

\* WakeRpcCall on the caller's thread; it comes back when FinishRpcSlot is done.
WakeRpcCall(c) ==
  /\ caller[c] = "fail"
  /\ \/ TakeRpcSlot(c, TheCaller, "error", INVALID_SID) /\ Goto(c, "waking")
     \/ c \notin mSlots /\ Goto(c, "dispatched") /\ UNCHANGED <<tableVars, finVars>>
  /\ UNCHANGED <<iGate, iResult, iScheduled, sessVars, clientVars, pollVars>>

WakeReturns(c) ==
  /\ caller[c] = "waking" /\ fin[c] = "done"
  /\ Goto(c, "dispatched")
  /\ UNCHANGED <<iGate, iResult, iScheduled, tableVars, finVars, sessVars, clientVars, pollVars>>

\* Mutant: the previous value of the gate is ignored.
Arm_AlwaysSuspends(c) ==
  /\ caller[c] = "dispatched"
  /\ iGate' = [iGate EXCEPT ![c] = "Waiting"]
  /\ Goto(c, "suspended")
  /\ UNCHANGED <<iResult, iScheduled, tableVars, finVars, sessVars, clientVars, pollVars>>

\* Arm: iGate.exchange(Waiting); suspend unless it was Ready.
Arm(c) ==
  /\ caller[c] = "dispatched"
  /\ iGate' = [iGate EXCEPT ![c] = "Waiting"]
  /\ Goto(c, IF iGate[c] = "Ready" THEN "resumed" ELSE "suspended")
  /\ UNCHANGED <<iResult, iScheduled, tableVars, finVars, sessVars, clientVars, pollVars>>

\* ~RpcCallAwaiter, after await_resume or without an await: AbandonRpcCall takes a
\* slot that is still there without completing it, then WaitRpcGuard.
AbandonRpcCall(c) ==
  /\ caller[c] \in {"dispatched", "resumed"}
  /\ mSlots' = mSlots \ {c}
  /\ mExpire' = mExpire \ {c}
  /\ mSessions' = RemoveSessionIndex(c)
  /\ Goto(c, IF c \in mSlots /\ bAwaitingConnect[c] THEN "drop" ELSE "guard")
  /\ UNCHANGED <<iGate, iResult, iScheduled, iSessionId, bAwaitingConnect,
                 finVars, sessVars, clientVars, pollVars>>

\* DropPendingCall: the held frame, if it is still in the list.
DropPendingCall(c) ==
  /\ clientLock = {}
  /\ m_vHeldCalls' = m_vHeldCalls \ {c}
  /\ m_iHeldBytes' = IF c \in m_vHeldCalls THEN m_iHeldBytes - 1 ELSE m_iHeldBytes
  /\ UNCHANGED <<m_iSessionId, m_bEverConnected, clientLock>>

AbandonDrop(c) ==
  /\ caller[c] = "drop"
  /\ DropPendingCall(c)
  /\ Goto(c, "guard")
  /\ UNCHANGED <<iGate, iResult, iScheduled, tableVars, finVars, sessVars, pollVars>>

\* Mutant: the destructor does not wait for the guard.
WaitRpcGuard_NoWait(c) ==
  /\ caller[c] = "guard"
  /\ Goto(c, "gone")
  /\ UNCHANGED <<iGate, iResult, iScheduled, tableVars, finVars, sessVars, clientVars, pollVars>>

WaitRpcGuard(c) ==
  /\ caller[c] = "guard" /\ pGuard[c] = 0
  /\ Goto(c, "gone")
  /\ UNCHANGED <<iGate, iResult, iScheduled, tableVars, finVars, sessVars, clientVars, pollVars>>

-----------------------------------------------------------------------------
(***************************************************************************)
(* FinishRpcSlot, by whoever took the slot.                                *)
(***************************************************************************)
FinishDrop(c) ==
  /\ fin[c] = "drop"
  /\ DropPendingCall(c)
  /\ fin' = [fin EXCEPT ![c] = "write"]
  /\ UNCHANGED <<callerVars, tableVars, pGuard, taker, code, source, sessVars, pollVars>>

\* fnDecode keeps the reply, or the code goes to *pResult.
FinishWrite(c) ==
  /\ fin[c] = "write"
  /\ iResult' = [iResult EXCEPT ![c] = code[c]]
  /\ fin' = [fin EXCEPT ![c] = "gate"]
  /\ UNCHANGED <<caller, iGate, iScheduled, tableVars, pGuard, taker, code,
                 source, sessVars, clientVars, pollVars>>

\* fnResume: iGate.exchange(Ready); schedule a caller that was Waiting.
FinishGate(c) ==
  /\ fin[c] = "gate"
  /\ iGate' = [iGate EXCEPT ![c] = "Ready"]
  /\ fin' = [fin EXCEPT ![c] = IF iGate[c] = "Waiting" THEN "schedule" ELSE "release"]
  /\ UNCHANGED <<caller, iResult, iScheduled, tableVars, pGuard, taker, code,
                 source, sessVars, clientVars, pollVars>>

FinishSchedule(c) ==
  /\ fin[c] = "schedule"
  /\ iScheduled' = [iScheduled EXCEPT ![c] = @ + 1]
  /\ Goto(c, IF caller[c] = "suspended" THEN "resumed" ELSE caller[c])
  /\ fin' = [fin EXCEPT ![c] = "release"]
  /\ UNCHANGED <<iGate, iResult, tableVars, pGuard, taker, code, source,
                 sessVars, clientVars, pollVars>>

\* ~GuardRelease.
FinishRelease(c) ==
  /\ fin[c] = "release"
  /\ pGuard' = [pGuard EXCEPT ![c] = @ - 1]
  /\ fin' = [fin EXCEPT ![c] = "done"]
  /\ taker' = [taker EXCEPT ![c] = Nobody]
  /\ UNCHANGED <<callerVars, tableVars, code, source, sessVars, clientVars, pollVars>>

FinishRpcSlot(c) ==
  FinishDrop(c) \/ FinishWrite(c) \/ FinishGate(c) \/ FinishSchedule(c) \/ FinishRelease(c)

-----------------------------------------------------------------------------
(***************************************************************************)
(* Sessions and the poll thread.  A reply, an expiry or a wake-up on the    *)
(* poll thread is finished before it does anything else; the sweep's calls  *)
(* are taken one at a time, which their independence allows.                *)
(***************************************************************************)
Busy(who) == \E c \in Calls : taker[c] = who
PollIdle == poll = "idle" /\ ~Busy(ThePoll)

\* SweepRpcCalls: an expired call; which ones have expired is left open.
Sweep(c) ==
  /\ PollIdle /\ c \in mExpire
  /\ TakeRpcSlot(c, ThePoll, "error", INVALID_SID)
  /\ UNCHANGED <<callerVars, sessVars, clientVars, pollVars>>

\* DeliverRpc: a reply with c's number comes in on session s.  It may be late, a
\* duplicate or meant for a call of another session: then no slot is taken.
DeliverRpc(c, s) ==
  /\ PollIdle /\ sess[s] \in {"open", "closed"}
  /\ iSessionId[c] = s
  /\ TakeRpcSlot(c, ThePoll, "reply", s)
  /\ UNCHANGED <<callerVars, sessVars, clientVars, pollVars>>

\* CompleteConnect and AddSession: the client connects when it has no connection.
AddSession(s) ==
  /\ PollIdle
  /\ sess[s] = "none" /\ \A t \in Sids : sess[t] = "none" => s <= t
  /\ \A t \in Sids : sess[t] # "open"
  /\ sess' = [sess EXCEPT ![s] = "open"]
  /\ poll' = "added"
  /\ UNCHANGED <<callerVars, tableVars, finVars, failing, clientVars, pollCall, vHeld>>

\* The session OnAddSession works for: the one added last.
NewestSid == CHOOSE s \in Sids : sess[s] # "none" /\ \A t \in Sids : sess[t] # "none" => t <= s

\* ProtoClientManager::OnAddSession, its section under the client's lock.
OnAddSession ==
  /\ poll = "added" /\ clientLock = {}
  /\ m_iSessionId' = NewestSid
  /\ m_bEverConnected' = TRUE
  /\ poll' = "flush"
  /\ UNCHANGED <<callerVars, tableVars, finVars, sessVars, m_vHeldCalls, m_iHeldBytes,
                 clientLock, pollCall, vHeld>>

\* FlushHeldCalls and FailHeldCalls swap the list out under the client's lock.
SwapHeld ==
  /\ clientLock = {}
  /\ vHeld' = m_vHeldCalls
  /\ m_vHeldCalls' = {} /\ m_iHeldBytes' = 0
  /\ UNCHANGED <<m_iSessionId, m_bEverConnected, clientLock, pollCall>>

FlushHeldCalls ==
  /\ poll = "flush"
  /\ SwapHeld
  /\ poll' = "flushing"
  /\ UNCHANGED <<callerVars, tableVars, finVars, sessVars>>

FlushClaim(c) ==
  /\ poll = "flushing" /\ ~Busy(ThePoll) /\ c \in vHeld
  /\ vHeld' = vHeld \ {c}
  /\ \/ ClaimRpcSend(c, NewestSid) /\ poll' = "send" /\ pollCall' = {c}
     \/ c \notin mSlots /\ UNCHANGED <<tableVars, poll, pollCall>>
  /\ UNCHANGED <<callerVars, finVars, sessVars, clientVars>>

\* The send, and WakeRpcCall if it fails: someone who takes the slot in between
\* might as well have taken it before the send.
FlushSend(c) ==
  /\ poll = "send" /\ c \in pollCall
  /\ \E bOk \in BOOLEAN :
       /\ SendBytesResult(NewestSid, bOk)
       /\ IF bOk \/ c \notin mSlots
          THEN UNCHANGED <<tableVars, finVars>>
          ELSE TakeRpcSlot(c, ThePoll, "error", INVALID_SID)
  /\ poll' = "flushing" /\ pollCall' = {}
  /\ UNCHANGED <<callerVars, sessVars, clientVars, vHeld>>

\* OnConnectFailed without a reconnect, and OnServiceDown.
FailHeldCalls ==
  /\ PollIdle /\ \A s \in Sids : sess[s] # "open"
  /\ SwapHeld
  /\ poll' = "failHeld"
  /\ UNCHANGED <<callerVars, tableVars, finVars, sessVars>>

FailHeld(c) ==
  /\ poll = "failHeld" /\ ~Busy(ThePoll) /\ c \in vHeld
  /\ vHeld' = vHeld \ {c}
  /\ \/ TakeRpcSlot(c, ThePoll, "error", INVALID_SID)
     \/ c \notin mSlots /\ UNCHANGED <<tableVars, finVars>>
  /\ UNCHANGED <<callerVars, sessVars, clientVars, poll, pollCall>>

\* FlushHeldCalls or FailHeldCalls is through.
HeldDone ==
  /\ poll \in {"flushing", "failHeld"} /\ vHeld = {} /\ ~Busy(ThePoll)
  /\ poll' = "idle"
  /\ UNCHANGED <<callerVars, tableVars, finVars, sessVars, clientVars, pollCall, vHeld>>

\* CloseSession, by any thread: out of the map and closed for sending in one step,
\* then OnSessionClosed visits the shards one by one.
CloseSession(s) ==
  /\ sess[s] = "open"
  /\ sess' = [sess EXCEPT ![s] = "closed"]
  /\ failing' = [failing EXCEPT ![s] = Calls]
  /\ UNCHANGED <<callerVars, tableVars, finVars, clientVars, pollVars>>

\* Mutant: it stops after the first batch.
FailRpcCalls_OneBatch(s, c) ==
  /\ c \in failing[s] /\ ~Busy(s)
  /\ failing' = [failing EXCEPT ![s] = IF c \in mSessions[s] THEN {} ELSE @ \ {c}]
  /\ IF c \in mSessions[s] THEN TakeRpcSlot(c, s, "error", INVALID_SID)
                           ELSE UNCHANGED <<tableVars, finVars>>
  /\ UNCHANGED <<callerVars, sess, clientVars, pollVars>>

\* FailRpcCalls, one shard: it takes what the session's index has there.
FailRpcCalls(s, c) ==
  /\ c \in failing[s] /\ ~Busy(s)
  /\ failing' = [failing EXCEPT ![s] = @ \ {c}]
  /\ IF c \in mSessions[s] THEN TakeRpcSlot(c, s, "error", INVALID_SID)
                           ELSE UNCHANGED <<tableVars, finVars>>
  /\ UNCHANGED <<callerVars, sess, clientVars, pollVars>>

\* DelSession, later on the poll thread: the client forgets this session only.
OnDelSession(s) ==
  /\ PollIdle /\ clientLock = {}
  /\ sess[s] = "closed"
  /\ sess' = [sess EXCEPT ![s] = "gone"]
  /\ m_iSessionId' = IF m_iSessionId = s THEN INVALID_SID ELSE m_iSessionId
  /\ UNCHANGED <<callerVars, tableVars, finVars, failing, m_bEverConnected, m_vHeldCalls,
                 m_iHeldBytes, clientLock, pollVars>>

-----------------------------------------------------------------------------
Caller(c) ==
  \/ \E s \in Sids \cup {INVALID_SID} : BindRpcCall(c, s)
  \/ EncodeThrows(c) \/ SubmitConnected(c) \/ SubmitHeld(c) \/ Push(c) \/ SubmitLost(c)
  \/ Send(c) \/ WakeRpcCall(c) \/ WakeReturns(c)
  \/ Arm(c) \/ AbandonRpcCall(c) \/ AbandonDrop(c) \/ WaitRpcGuard(c)

PollThread ==
  \/ OnAddSession \/ FlushHeldCalls \/ HeldDone
  \/ \E c \in Calls : FlushClaim(c) \/ FlushSend(c) \/ FailHeld(c)

Next ==
  \/ \E c \in Calls : Caller(c) \/ FinishRpcSlot(c) \/ Sweep(c)
  \/ PollThread
  \/ FailHeldCalls
  \/ \E s \in Sids :
       \/ AddSession(s) \/ CloseSession(s) \/ OnDelSession(s)
       \/ \E c \in Calls : DeliverRpc(c, s) \/ FailRpcCalls(s, c)

Spec == Init /\ [][Next]_vars

\* Every thread goes on with what it has begun, and the sweep comes round.  Nothing
\* is promised of the peer, of connecting, or of an application that starts a call.
FairSpec ==
  /\ Spec
  /\ \A c \in Calls :
       /\ WF_vars(caller[c] # "new" /\ Caller(c))
       /\ WF_vars(FinishRpcSlot(c))
       /\ SF_vars(Sweep(c))
  /\ WF_vars(PollThread)
  /\ \A s \in Sids : WF_vars(\E c \in Calls : FailRpcCalls(s, c))

-----------------------------------------------------------------------------
\* The state is well-typed.
TypeOK ==
  /\ caller \in [Calls -> CallerPc]
  /\ iResult \in [Calls -> Codes] /\ code \in [Calls -> Codes]
  /\ iGate \in [Calls -> {"Idle", "Waiting", "Ready"}]
  /\ iScheduled \in [Calls -> Nat]
  /\ mSlots \subseteq Calls /\ mExpire \subseteq Calls
  /\ mSessions \in [Sids \cup {INVALID_SID} -> SUBSET Calls]
  /\ iSessionId \in [Calls -> Sids \cup {INVALID_SID}]
  /\ source \in [Calls -> Sids \cup {INVALID_SID}]
  /\ bAwaitingConnect \in [Calls -> BOOLEAN]
  /\ pGuard \in [Calls -> 0..1]
  /\ fin \in [Calls -> FinPc]
  /\ taker \in [Calls -> {Nobody, TheCaller, ThePoll} \cup Sids]
  /\ sess \in [Sids -> {"none", "open", "closed", "gone"}]
  /\ failing \in [Sids -> SUBSET Calls]
  /\ m_iSessionId \in Sids \cup {INVALID_SID} /\ m_bEverConnected \in BOOLEAN
  /\ m_vHeldCalls \subseteq Calls /\ m_iHeldBytes \in Nat
  /\ clientLock \subseteq Calls
  /\ poll \in {"idle", "added", "flush", "flushing", "send", "failHeld"}
  /\ pollCall \subseteq Calls /\ vHeld \subseteq Calls

\* The indexes of the table agree with its slots: FailRpcCalls dereferences what the
\* session index names without looking, and a slot it misses would wait for ever.
IndexExact ==
  /\ \A s \in Sids \cup {INVALID_SID} : mSessions[s] = {c \in mSlots : iSessionId[c] = s}
  /\ mExpire = mSlots \cap Timed

\* FinishRpcSlot writes to the awaiter, reads its gate and its handle; the awaiter is
\* not destroyed under it ("避免写进释放后的等待器").
AwaiterAlive ==
  \A c \in Calls : fin[c] \in {"drop", "write", "gate", "schedule"} => caller[c] # "gone"

\* A caller that goes on after its await sees the result its completion was given.
ResultVisible ==
  \A c \in Calls : caller[c] = "resumed" => c \notin mSlots /\ iResult[c] = code[c]
                                            /\ fin[c] \in {"schedule", "release", "done"}

\* The caller is scheduled at most once, and only while it is suspended.
ScheduledOnce ==
  \A c \in Calls : /\ iScheduled[c] <= 1
                   /\ fin[c] = "schedule" => caller[c] = "suspended"

\* The client's queue and the marks in the table agree: a frame belongs to a waiting
\* call that is marked, or its taker is about to drop it; a marked call is where
\* OnAddSession or FailHeldCalls will find it, or has found it; m_iHeldBytes is what
\* the queue holds, also when a call is dropped that a flush has already swapped out.
HeldExact ==
  /\ \A c \in m_vHeldCalls : \/ c \in mSlots /\ bAwaitingConnect[c]
                             \/ fin[c] = "drop"
                             \/ caller[c] = "drop"
  /\ \A c \in mSlots : bAwaitingConnect[c] => c \in m_vHeldCalls \cup vHeld \cup clientLock
  /\ m_iHeldBytes = Cardinality(m_vHeldCalls)

\* No frame stays in the queue of a client that is connected, or has been.
NothingHeldAfterFlush ==
  m_bEverConnected /\ poll # "flush" => m_vHeldCalls = {} /\ clientLock = {}

\* A call bound to a session that is closed will be completed: FailRpcCalls has still
\* to visit it, or the one who bound it has still to send, which will fail.
NotStranded ==
  \A c \in mSlots, s \in Sids :
    iSessionId[c] = s /\ sess[s] \in {"closed", "gone"} =>
      \/ c \in failing[s]
      \/ caller[c] \in {"bound", "send", "fail"}
      \/ c \in pollCall

\* A call takes a reply only from the session it is bound to ("来源或协议错误不能消费
\* 其他连接的等待项").
ReplySource ==
  \A c \in Calls : code[c] = "reply" => source[c] = iSessionId[c] /\ source[c] # INVALID_SID

\* What FinishRpcSlot and the caller owe each other: the awaiter outlives its
\* completion, the result is there when the caller goes on, the caller is scheduled
\* once, and the reply came in on the session the call is bound to.
CallSound == AwaiterAlive /\ ResultVisible /\ ScheduledOnce /\ ReplySource

\* What the call table and the client's queue owe each other: the indexes and the
\* held frames are exact, a flush leaves none behind, and no call bound to a closed
\* session is left without somebody who will complete it.
HeldSound == IndexExact /\ HeldExact /\ NothingHeldAfterFlush /\ NotStranded

\* A completed call keeps its result: nobody completes it a second time
\* ("回包、超时或 WakeRpcCall 三者只有一个会触发 decode/resume").
CompletedOnce == [][\A c \in Calls : fin[c] # "none" =>
                      code'[c] = code[c] /\ source'[c] = source[c] /\ fin'[c] # "none"]_vars

-----------------------------------------------------------------------------
(***************************************************************************)
(* Each call is a Completion with its caller as the only waiter.           *)
(***************************************************************************)
Through(c) == caller[c] # "suspended" /\ (iGate[c] = "Waiting" \/ iScheduled[c] > 0)
bDoneBar(c) == iGate[c] = "Ready" \/ Through(c)
waiterBar(c) ==
  [p \in {c} |-> CASE caller[c] = "suspended" -> "parked"
                   [] Through(c) -> "through"
                   [] OTHER -> "before"]
\* An awaited call with a timeout comes to an end, and so does the destructor.
TimedCallEnds ==
  \A c \in Timed : (caller[c] # "new") ~> (caller[c] = "gone")

\* With or without a timeout, a call does not outlive the session it is bound to.
ClosedReleases ==
  \A c \in Calls, s \in Sids :
    (iSessionId[c] = s /\ sess[s] \in {"closed", "gone"}) ~> (c \notin mSlots)
=============================================================================
