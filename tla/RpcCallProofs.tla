--------------------------- MODULE RpcCallProofs ----------------------------
(***************************************************************************)
(* Proofs about RpcCall, for every number of calls and of sessions.        *)
(*                                                                         *)
(* Most of the invariant is about one call at a time (CallInv): the slot   *)
(* is in the table exactly while nobody has taken it, the guard counts its *)
(* taker, and gate, result and caller fit the taker's place.  HeldInv      *)
(* follows a frame from the client's lock through the queue to the list    *)
(* the poll thread has swapped out.  SessInv says that sessions come in    *)
(* the order of their numbers, so that the newest one is well defined, and *)
(* BoundInv which one a call is bound to.                                  *)
(***************************************************************************)
EXTENDS RpcCall, FiniteSetTheorems, TLAPS

\* The taker has yet to pass the gate.
BeforeGate == {"none", "drop", "write", "gate"}

CallInv ==
  \A c \in Calls :
    /\ c \in mSlots => /\ fin[c] = "none"
                       /\ caller[c] \in {"bound", "push", "send", "fail",
                                         "dispatched", "suspended"}
    /\ caller[c] = "new" => fin[c] = "none"
    /\ fin[c] = "none" => code[c] = "FAIL"
    /\ pGuard[c] = IF fin[c] \in {"none", "done"} THEN 0 ELSE 1
    /\ caller[c] = "gone" => fin[c] \in {"none", "done"}
    /\ caller[c] = "resumed" => fin[c] \in {"release", "done"}
    /\ fin[c] \in BeforeGate =>
         iGate[c] = IF caller[c] = "suspended" THEN "Waiting" ELSE "Idle"
    /\ fin[c] = "schedule" => caller[c] = "suspended"
    /\ fin[c] \in {"release", "done"} => caller[c] # "suspended"
    /\ fin[c] \notin {"none", "drop", "write"} => iResult[c] = code[c]
    /\ fin[c] \notin BeforeGate /\ caller[c] \notin {"resumed", "drop", "guard", "gone"} =>
         iGate[c] = "Ready"
    /\ fin[c] \notin {"release", "done"} => iScheduled[c] = 0
    /\ iScheduled[c] \in {0, 1}

\* Where a held frame can be, and how far its caller is by then.
HeldInv ==
  /\ \A c \in Calls : caller[c] = "push" <=> c \in clientLock
  /\ \A c, d \in clientLock : c = d
  /\ \A c \in clientLock : (c \in mSlots /\ bAwaitingConnect[c]) \/ fin[c] = "drop"
  /\ \A c \in m_vHeldCalls \cup vHeld \cup pollCall :
       caller[c] \notin {"new", "bound", "push", "send", "fail", "waking"}
  /\ m_vHeldCalls \cap vHeld = {}
  /\ poll \notin {"flushing", "send", "failHeld"} => vHeld = {}
  /\ poll # "send" => pollCall = {}
  /\ \A c \in Calls : caller[c] \in {"new", "bound"} => ~bAwaitingConnect[c]
  /\ clientLock # {} => ~m_bEverConnected

\* Sessions 1..n have been added, in this order.
Opened(n) == \A s \in Sids : sess[s] # "none" <=> s <= n

\* There is one while the poll thread works for it.
SessInv ==
  /\ \E n \in 0..MaxSid : Opened(n)
  /\ poll \notin {"idle", "failHeld"} => sess[1] # "none"

\* The one call a flush has claimed is bound to the newest session; a client's call is
\* bound to none before SubmitCall.
BoundInv ==
  /\ \A c, d \in pollCall : c = d
  /\ \A c \in pollCall \cap mSlots, n \in Sids : Opened(n) => iSessionId[c] = n
  /\ \A c \in ClientCalls :
       caller[c] \in {"new", "bound", "push"} => iSessionId[c] = INVALID_SID

IInv == TypeOK /\ IndexExact /\ CallInv /\ ReplySource /\ HeldInv /\ HeldExact
          /\ NothingHeldAfterFlush /\ SessInv /\ BoundInv /\ NotStranded

-----------------------------------------------------------------------------
\* The newest session is the last of those that have been added.
LEMMA NewestOf ==
  ASSUME NEW f, NEW n \in Sids, \A s \in Sids : f[s] # "none" <=> s <= n
  PROVE  (CHOOSE s \in Sids : f[s] # "none" /\ \A t \in Sids : f[t] # "none" => t <= s) = n
<1> DEFINE Newest(s) == f[s] # "none" /\ \A t \in Sids : f[t] # "none" => t <= s
<1>1. Newest(n)
  BY DEF Sids
<1>2. \A s \in Sids : Newest(s) => s = n
  BY RpcCallAssumption DEF Sids, RpcCallAssumption
<1> HIDE DEF Newest
<1>3. (CHOOSE s \in Sids : Newest(s)) = n
  BY <1>1, <1>2
<1> QED
  BY <1>3 DEF Newest

\* During a flush there is a newest session.
LEMMA NewestExists ==
  ASSUME TypeOK, SessInv, sess[1] # "none"
  PROVE  NewestSid \in Sids /\ Opened(NewestSid)
<1>1. PICK n \in 0..MaxSid : Opened(n)
  BY DEF SessInv
<1>2. n \in Sids
  BY <1>1, RpcCallAssumption DEF Opened, Sids, RpcCallAssumption
<1>3. NewestSid = n
  BY <1>1, <1>2, NewestOf DEF NewestSid, Opened
<1> QED
  BY <1>1, <1>2, <1>3

\* Taking a slot keeps the types it touches: nobody has armed the guard before.
LEMMA TakeTypes ==
  ASSUME IInv, NEW c \in Calls, NEW who \in {TheCaller, ThePoll} \cup Sids,
         NEW iCode \in Codes, NEW iFrom \in Sids \cup {INVALID_SID},
         TakeRpcSlot(c, who, iCode, iFrom)
  PROVE  /\ mSlots' \subseteq Calls /\ mExpire' \subseteq Calls
         /\ mSessions' \in [Sids \cup {INVALID_SID} -> SUBSET Calls]
         /\ pGuard' \in [Calls -> 0..1]
         /\ taker' \in [Calls -> {Nobody, TheCaller, ThePoll} \cup Sids]
         /\ code' \in [Calls -> Codes]
         /\ source' \in [Calls -> Sids \cup {INVALID_SID}]
         /\ fin' \in [Calls -> FinPc]
         /\ UNCHANGED <<iSessionId, bAwaitingConnect>>
<1>1. pGuard[c] = 0
  BY DEF IInv, CallInv, TakeRpcSlot
<1> QED
  BY <1>1 DEF IInv, TypeOK, TakeRpcSlot, RemoveSessionIndex, FinPc

\* So does claiming it.
LEMMA ClaimTypes ==
  ASSUME TypeOK, NEW c \in Calls, NEW s \in Sids, ClaimRpcSend(c, s)
  PROVE  /\ mSessions' \in [Sids \cup {INVALID_SID} -> SUBSET Calls]
         /\ iSessionId' \in [Calls -> Sids \cup {INVALID_SID}]
         /\ bAwaitingConnect' \in [Calls -> BOOLEAN]
         /\ UNCHANGED <<mSlots, mExpire>>
BY DEF TypeOK, ClaimRpcSend

-----------------------------------------------------------------------------
(***************************************************************************)
(* One lemma per part of the invariant, one step per action or per kind of *)
(* change.                                                                 *)
(***************************************************************************)
\* Every step keeps the types; the count of the queue is left to the held calls.
LEMMA TypeStep ==
  ASSUME IInv, [Next]_vars, m_iHeldBytes' \in Nat
  PROVE  TypeOK'
<1>1. ASSUME NEW c \in Calls, SubmitConnected(c) PROVE TypeOK'
  <2>1. CASE ClaimRpcSend(c, m_iSessionId)
    <3>1. m_iSessionId \in Sids
      BY <1>1 DEF SubmitConnected, IInv, TypeOK
    <3> QED
      BY <1>1, <2>1, <3>1, ClaimTypes DEF SubmitConnected, Goto, IInv, TypeOK, CallerPc,
         finVars, sessVars, clientVars, pollVars, ClaimRpcSend
  <2>2. CASE c \notin mSlots
    BY <1>1, <2>2 DEF SubmitConnected, ClaimRpcSend, Goto, IInv, TypeOK,
       CallerPc, callerVars,
       tableVars, finVars, sessVars, clientVars, pollVars
  <2> QED
    BY <1>1, <2>1, <2>2 DEF SubmitConnected
<1>2. ASSUME NEW c \in Calls, SubmitHeld(c) PROVE TypeOK'
  <2>1. caller' \in [Calls -> CallerPc]
    BY <1>2 DEF SubmitHeld, Goto, IInv, TypeOK, CallerPc
  <2>2. bAwaitingConnect' \in [Calls -> BOOLEAN]
    BY Zenon, <1>2 DEF SubmitHeld, IInv, TypeOK
  <2>3. clientLock' \subseteq Calls
    BY <1>2 DEF SubmitHeld, IInv, TypeOK
  <2> QED
    BY <1>2, <2>1, <2>2, <2>3 DEF SubmitHeld, IInv, TypeOK, callerVars,
       tableVars, finVars, sessVars, clientVars, pollVars
<1>3. ASSUME NEW c \in Calls, WakeRpcCall(c) PROVE TypeOK'
  <2>1. CASE TakeRpcSlot(c, TheCaller, "error", INVALID_SID)
    <3>1. caller' \in [Calls -> CallerPc]
      BY <1>3 DEF WakeRpcCall, Goto, IInv, TypeOK, CallerPc
    <3> QED
      BY Zenon, <1>3, <2>1, <3>1, TakeTypes DEF WakeRpcCall, Codes, IInv, TypeOK, sessVars,
         clientVars, pollVars
  <2>2. CASE c \notin mSlots
    BY <1>3, <2>2 DEF WakeRpcCall, TakeRpcSlot, Goto, IInv, TypeOK, CallerPc, callerVars,
       tableVars, finVars, sessVars, clientVars, pollVars
  <2> QED
    BY <1>3, <2>1, <2>2 DEF WakeRpcCall
<1>4. ASSUME NEW c \in Calls, AbandonDrop(c) PROVE TypeOK'
  <2>1. m_vHeldCalls' \subseteq Calls /\ m_iHeldBytes' \in Nat
    BY <1>4 DEF AbandonDrop, DropPendingCall, IInv, TypeOK
  <2> QED
    BY <1>4, <2>1 DEF AbandonDrop, DropPendingCall, Goto, CallerPc, IInv,
       TypeOK, callerVars,
       tableVars, finVars, sessVars, clientVars, pollVars
<1>5. ASSUME NEW c \in Calls, FinishDrop(c) PROVE TypeOK'
  <2>1. m_vHeldCalls' \subseteq Calls /\ m_iHeldBytes' \in Nat
    BY <1>5 DEF FinishDrop, DropPendingCall, IInv, TypeOK
  <2> QED
    BY <1>5, <2>1 DEF FinishDrop, DropPendingCall, FinPc, IInv,
       TypeOK, callerVars,
       tableVars, finVars, sessVars, clientVars, pollVars
<1>6. ASSUME OnAddSession PROVE TypeOK'
  <2>1. NewestSid \in Sids
    BY <1>6, NewestExists DEF OnAddSession, IInv, SessInv
  <2> QED
    BY <1>6, <2>1 DEF OnAddSession, IInv, TypeOK, callerVars,
       tableVars, finVars, sessVars, clientVars, pollVars
<1>7. ASSUME NEW c \in Calls, FlushClaim(c) PROVE TypeOK'
  <2>1. NewestSid \in Sids
    BY <1>7, NewestExists DEF FlushClaim, IInv, SessInv
  <2>2. CASE ClaimRpcSend(c, NewestSid)
    BY <1>7, <2>1, <2>2, ClaimTypes DEF FlushClaim, IInv, TypeOK, callerVars, finVars,
       sessVars, clientVars, ClaimRpcSend
  <2>3. CASE c \notin mSlots
    BY <1>7, <2>3 DEF FlushClaim, ClaimRpcSend, IInv, TypeOK, callerVars,
       tableVars, finVars, sessVars, clientVars, pollVars
  <2> QED
    BY <1>7, <2>2, <2>3 DEF FlushClaim
<1>8. ASSUME NEW c \in Calls, FlushSend(c) PROVE TypeOK'
  <2>1. CASE TakeRpcSlot(c, ThePoll, "error", INVALID_SID)
    BY Zenon, <1>8, <2>1, TakeTypes DEF FlushSend, Codes, IInv, TypeOK, callerVars, sessVars,
       clientVars
  <2>2. CASE UNCHANGED <<tableVars, finVars>>
    BY <1>8, <2>2 DEF FlushSend, IInv, TypeOK, callerVars,
       tableVars, finVars, sessVars, clientVars, pollVars
  <2> QED
    BY <1>8, <2>1, <2>2 DEF FlushSend
<1>9. ASSUME NEW c \in Calls, FailHeld(c) PROVE TypeOK'
  <2>1. CASE TakeRpcSlot(c, ThePoll, "error", INVALID_SID)
    BY Zenon, <1>9, <2>1, TakeTypes DEF FailHeld, Codes, IInv, TypeOK, callerVars, sessVars,
       clientVars
  <2>2. CASE c \notin mSlots
    BY <1>9, <2>2 DEF FailHeld, TakeRpcSlot, IInv, TypeOK, callerVars,
       tableVars, finVars, sessVars, clientVars, pollVars
  <2> QED
    BY <1>9, <2>1, <2>2 DEF FailHeld
<1>10. ASSUME NEW c \in Calls, NEW s \in Sids, FailRpcCalls(s, c) PROVE TypeOK'
  <2>1. CASE TakeRpcSlot(c, s, "error", INVALID_SID)
    BY <1>10, <2>1, TakeTypes DEF FailRpcCalls, Codes, IInv, TypeOK, callerVars, clientVars,
       pollVars
  <2>2. CASE UNCHANGED <<tableVars, finVars>>
    BY <1>10, <2>2 DEF FailRpcCalls, IInv, TypeOK, callerVars,
       tableVars, finVars, sessVars, clientVars, pollVars
  <2> QED
    BY <1>10, <2>1, <2>2 DEF FailRpcCalls
<1> USE DEF callerVars, tableVars, finVars, sessVars, clientVars, pollVars, IInv,
            TypeOK, CallInv, Codes, CallerPc, FinPc, Nobody, TheCaller, ThePoll,
            INVALID_SID
<1>11. ASSUME NEW c \in Calls, NEW s \in Sids \cup {INVALID_SID}, BindRpcCall(c, s)
       PROVE  TypeOK'
  BY <1>11 DEF BindRpcCall, Goto
<1>12. ASSUME NEW c \in Calls, EncodeThrows(c) PROVE TypeOK'
  BY <1>12 DEF EncodeThrows, Goto
<1>13. ASSUME NEW c \in Calls, Push(c) PROVE TypeOK'
  BY <1>13 DEF Push, Goto
<1>14. ASSUME NEW c \in Calls, SubmitLost(c) PROVE TypeOK'
  BY <1>14 DEF SubmitLost, Goto
<1>15. ASSUME NEW c \in Calls, Send(c) PROVE TypeOK'
  BY <1>15 DEF Send, SendBytesResult, Goto
<1>16. ASSUME NEW c \in Calls, WakeReturns(c) PROVE TypeOK'
  BY <1>16 DEF WakeReturns, Goto
<1>17. ASSUME NEW c \in Calls, Arm(c) PROVE TypeOK'
  BY <1>17 DEF Arm, Goto
<1>18. ASSUME NEW c \in Calls, AbandonRpcCall(c) PROVE TypeOK'
  BY <1>18 DEF AbandonRpcCall, RemoveSessionIndex, Goto
<1>19. ASSUME NEW c \in Calls, WaitRpcGuard(c) PROVE TypeOK'
  BY <1>19 DEF WaitRpcGuard, Goto
<1>20. ASSUME NEW c \in Calls, FinishWrite(c) PROVE TypeOK'
  BY <1>20 DEF FinishWrite
<1>21. ASSUME NEW c \in Calls, FinishGate(c) PROVE TypeOK'
  BY <1>21 DEF FinishGate
<1>22. ASSUME NEW c \in Calls, FinishSchedule(c) PROVE TypeOK'
  BY <1>22 DEF FinishSchedule, Goto
<1>23. ASSUME NEW c \in Calls, FinishRelease(c) PROVE TypeOK'
  BY <1>23 DEF FinishRelease
<1>24. ASSUME NEW c \in Calls, Sweep(c) PROVE TypeOK'
  BY <1>24 DEF Sweep, TakeRpcSlot, RemoveSessionIndex
<1>25. ASSUME NEW c \in Calls, NEW s \in Sids, DeliverRpc(c, s) PROVE TypeOK'
  BY <1>25 DEF DeliverRpc, TakeRpcSlot, RemoveSessionIndex
<1>26. ASSUME NEW s \in Sids, AddSession(s) PROVE TypeOK'
  BY <1>26 DEF AddSession, PollIdle
<1>27. ASSUME FlushHeldCalls PROVE TypeOK'
  BY <1>27 DEF FlushHeldCalls, SwapHeld
<1>28. ASSUME FailHeldCalls PROVE TypeOK'
  BY <1>28 DEF FailHeldCalls, SwapHeld, PollIdle
<1>29. ASSUME HeldDone PROVE TypeOK'
  BY <1>29 DEF HeldDone
<1>30. ASSUME NEW s \in Sids, CloseSession(s) PROVE TypeOK'
  BY <1>30 DEF CloseSession
<1>31. ASSUME NEW s \in Sids, OnDelSession(s) PROVE TypeOK'
  BY <1>31 DEF OnDelSession
<1>32. ASSUME UNCHANGED vars PROVE TypeOK'
  BY <1>32 DEF vars
<1> QED
  BY Zenon, <1>1, <1>2, <1>3, <1>4, <1>5, <1>6, <1>7, <1>8, <1>9, <1>10, <1>11, <1>12,
     <1>13, <1>14, <1>15, <1>16, <1>17, <1>18, <1>19, <1>20, <1>21, <1>22, <1>23,
     <1>24, <1>25, <1>26, <1>27, <1>28, <1>29, <1>30, <1>31, <1>32
     DEF Next, Caller, FinishRpcSlot, PollThread

\* Every step keeps what is known of each call.
LEMMA CallStep ==
  ASSUME IInv, [Next]_vars
  PROVE  CallInv'
<1> USE DEF callerVars, tableVars, finVars, sessVars, clientVars, pollVars, IInv,
            CallInv, BeforeGate, TypeOK, Codes, CallerPc, FinPc
<1>1. ASSUME NEW c \in Calls, NEW s \in Sids \cup {INVALID_SID}, BindRpcCall(c, s)
      PROVE  CallInv'
  BY <1>1 DEF BindRpcCall, Goto
<1>2. ASSUME NEW c \in Calls, EncodeThrows(c) PROVE CallInv'
  BY <1>2 DEF EncodeThrows, Goto
<1>3. ASSUME NEW c \in Calls, SubmitConnected(c) PROVE CallInv'
  BY <1>3 DEF SubmitConnected, ClaimRpcSend, Goto
<1>4. ASSUME NEW c \in Calls, SubmitHeld(c) PROVE CallInv'
  BY <1>4 DEF SubmitHeld, Goto
<1>5. ASSUME NEW c \in Calls, Push(c) PROVE CallInv'
  BY <1>5 DEF Push, Goto
<1>6. ASSUME NEW c \in Calls, SubmitLost(c) PROVE CallInv'
  BY <1>6 DEF SubmitLost, Goto
<1>7. ASSUME NEW c \in Calls, Send(c) PROVE CallInv'
  BY <1>7 DEF Send, SendBytesResult, Goto
<1>8. ASSUME NEW c \in Calls, WakeRpcCall(c) PROVE CallInv'
  BY <1>8 DEF WakeRpcCall, TakeRpcSlot, RemoveSessionIndex, Goto
<1>9. ASSUME NEW c \in Calls, WakeReturns(c) PROVE CallInv'
  BY <1>9 DEF WakeReturns, Goto
<1>10. ASSUME NEW c \in Calls, Arm(c) PROVE CallInv'
  BY <1>10 DEF Arm, Goto
<1>11. ASSUME NEW c \in Calls, AbandonRpcCall(c) PROVE CallInv'
  BY <1>11 DEF AbandonRpcCall, RemoveSessionIndex, Goto
<1>12. ASSUME NEW c \in Calls, AbandonDrop(c) PROVE CallInv'
  BY <1>12 DEF AbandonDrop, DropPendingCall, Goto
<1>13. ASSUME NEW c \in Calls, WaitRpcGuard(c) PROVE CallInv'
  BY <1>13 DEF WaitRpcGuard, Goto
<1>14. ASSUME NEW c \in Calls, FinishDrop(c) PROVE CallInv'
  BY SMTT(20), <1>14 DEF FinishDrop, DropPendingCall
<1>15. ASSUME NEW c \in Calls, FinishWrite(c) PROVE CallInv'
  BY <1>15 DEF FinishWrite
<1>16. ASSUME NEW c \in Calls, FinishGate(c) PROVE CallInv'
  BY <1>16 DEF FinishGate
<1>17. ASSUME NEW c \in Calls, FinishSchedule(c) PROVE CallInv'
  BY <1>17 DEF FinishSchedule, Goto
<1>18. ASSUME NEW c \in Calls, FinishRelease(c) PROVE CallInv'
  BY SMTT(20), <1>18 DEF FinishRelease
<1>19. ASSUME NEW c \in Calls, Sweep(c) PROVE CallInv'
  BY SMTT(20), <1>19 DEF Sweep, TakeRpcSlot, RemoveSessionIndex
<1>20. ASSUME NEW c \in Calls, NEW s \in Sids, DeliverRpc(c, s) PROVE CallInv'
  BY SMTT(60), <1>20 DEF DeliverRpc, TakeRpcSlot, RemoveSessionIndex
<1>21. ASSUME NEW s \in Sids, AddSession(s) PROVE CallInv'
  BY <1>21 DEF AddSession, PollIdle
<1>22. ASSUME OnAddSession PROVE CallInv'
  BY <1>22 DEF OnAddSession
<1>23. ASSUME FlushHeldCalls PROVE CallInv'
  BY <1>23 DEF FlushHeldCalls, SwapHeld
<1>24. ASSUME NEW c \in Calls, FlushClaim(c) PROVE CallInv'
  BY <1>24 DEF FlushClaim, ClaimRpcSend
<1>25. ASSUME NEW c \in Calls, FlushSend(c) PROVE CallInv'
  BY SMTT(60), <1>25 DEF FlushSend, SendBytesResult, TakeRpcSlot, RemoveSessionIndex
<1>26. ASSUME FailHeldCalls PROVE CallInv'
  BY <1>26 DEF FailHeldCalls, SwapHeld, PollIdle
<1>27. ASSUME NEW c \in Calls, FailHeld(c) PROVE CallInv'
  BY SMTT(60), <1>27 DEF FailHeld, TakeRpcSlot, RemoveSessionIndex
<1>28. ASSUME HeldDone PROVE CallInv'
  BY <1>28 DEF HeldDone
<1>29. ASSUME NEW s \in Sids, CloseSession(s) PROVE CallInv'
  BY <1>29 DEF CloseSession
<1>30. ASSUME NEW c \in Calls, NEW s \in Sids, FailRpcCalls(s, c) PROVE CallInv'
  BY <1>30 DEF FailRpcCalls, TakeRpcSlot, RemoveSessionIndex
<1>31. ASSUME NEW s \in Sids, OnDelSession(s) PROVE CallInv'
  BY <1>31 DEF OnDelSession
<1>32. ASSUME UNCHANGED vars PROVE CallInv'
  BY Zenon, <1>32 DEF vars
<1> QED
  BY Zenon, <1>1, <1>2, <1>3, <1>4, <1>5, <1>6, <1>7, <1>8, <1>9, <1>10, <1>11, <1>12,
     <1>13, <1>14, <1>15, <1>16, <1>17, <1>18, <1>19, <1>20, <1>21, <1>22, <1>23,
     <1>24, <1>25, <1>26, <1>27, <1>28, <1>29, <1>30, <1>31, <1>32
     DEF Next, Caller, FinishRpcSlot, PollThread

\* What a step does to the table: it inserts a slot, binds one to a session, takes one,
\* or abandons one.
LEMMA TableMoves ==
  ASSUME IInv, [Next]_vars
  PROVE  \/ \E c \in Calls, s \in Sids \cup {INVALID_SID} : BindRpcCall(c, s)
         \/ \E c \in Calls : AbandonRpcCall(c)
         \/ \E c \in Calls, s \in Sids : ClaimRpcSend(c, s) /\ UNCHANGED finVars
         \/ \E c \in Calls, who \in {TheCaller, ThePoll} \cup Sids,
               iCode \in Codes, iFrom \in Sids \cup {INVALID_SID} :
              /\ TakeRpcSlot(c, who, iCode, iFrom)
              /\ iCode = "reply" => iFrom = iSessionId[c] /\ iFrom \in Sids
         \/ /\ UNCHANGED <<mSlots, mSessions, mExpire, iSessionId, code, source>>
            /\ \A c \in Calls : fin[c] # "none" => fin'[c] # "none"
<1> DEFINE Took == \E c \in Calls, who \in {TheCaller, ThePoll} \cup Sids,
                      iCode \in Codes, iFrom \in Sids \cup {INVALID_SID} :
                     /\ TakeRpcSlot(c, who, iCode, iFrom)
                     /\ iCode = "reply" => iFrom = iSessionId[c] /\ iFrom \in Sids
           Same == /\ UNCHANGED <<mSlots, mSessions, mExpire, iSessionId, code, source>>
                   /\ \A c \in Calls : fin[c] # "none" => fin'[c] # "none"
<1>1. ASSUME NEW c \in Calls, NEW who \in {TheCaller, ThePoll} \cup Sids,
             TakeRpcSlot(c, who, "error", INVALID_SID)
      PROVE  Took
  BY <1>1 DEF Codes
<1>2. ASSUME NEW c \in Calls, NEW s \in Sids, DeliverRpc(c, s) PROVE Took
  BY <1>2 DEF DeliverRpc, Codes
<1>3. ASSUME NEW c \in Calls, FinishRpcSlot(c) PROVE Same
  BY <1>3 DEF FinishRpcSlot, FinishDrop, FinishWrite, FinishGate, FinishSchedule,
     FinishRelease, tableVars, IInv, TypeOK
<1>4. UNCHANGED <<tableVars, finVars>> => Same
  BY DEF tableVars, finVars
<1>5. ASSUME NEW c \in Calls, SubmitHeld(c) PROVE Same
  BY Zenon, <1>5 DEF SubmitHeld, finVars
<1>6. ASSUME NEW c \in Calls, SubmitConnected(c)
      PROVE  Same \/ \E s \in Sids : ClaimRpcSend(c, s) /\ UNCHANGED finVars
  <2>1. m_iSessionId \in Sids
    BY <1>6 DEF SubmitConnected, IInv, TypeOK
  <2> QED
    BY Zenon, <1>4, <1>6, <2>1 DEF SubmitConnected
<1>7. ASSUME NEW c \in Calls, FlushClaim(c)
      PROVE  Same \/ \E s \in Sids : ClaimRpcSend(c, s) /\ UNCHANGED finVars
  <2>1. NewestSid \in Sids
    BY <1>7, NewestExists DEF FlushClaim, IInv, SessInv
  <2> QED
    BY Zenon, <1>4, <1>7, <2>1 DEF FlushClaim
<1>8. ASSUME NEW c \in Calls, WakeRpcCall(c) \/ Sweep(c) \/ FlushSend(c) \/ FailHeld(c)
      PROVE  Took \/ Same
  BY <1>1, <1>4, <1>8 DEF WakeRpcCall, Sweep, FlushSend, FailHeld
<1>9. ASSUME NEW c \in Calls, NEW s \in Sids, FailRpcCalls(s, c) PROVE Took \/ Same
  BY Zenon, <1>1, <1>4, <1>9 DEF FailRpcCalls
<1> HIDE DEF Took, Same
<1>10. \/ \E c \in Calls, s \in Sids \cup {INVALID_SID} : BindRpcCall(c, s)
       \/ \E c \in Calls : AbandonRpcCall(c)
       \/ \E c \in Calls, s \in Sids : ClaimRpcSend(c, s) /\ UNCHANGED finVars
       \/ Took \/ Same
  BY Zenon, <1>2, <1>3, <1>4, <1>5, <1>6, <1>7, <1>8, <1>9
     DEF Next, Caller, PollThread, EncodeThrows, Push, SubmitLost, Send, WakeReturns,
     Arm, AbandonDrop, WaitRpcGuard, AddSession, OnAddSession, FlushHeldCalls,
     FailHeldCalls, HeldDone, CloseSession, OnDelSession, vars
<1> QED
  BY Zenon, <1>10 DEF Took, Same

\* Every step keeps the indexes exact.
LEMMA IndexStep ==
  ASSUME IInv, [Next]_vars
  PROVE  IndexExact'
<1> USE DEF IInv, IndexExact, CallInv, TypeOK
<1>1. ASSUME NEW c \in Calls, NEW s \in Sids \cup {INVALID_SID}, BindRpcCall(c, s)
      PROVE  IndexExact'
  BY SMTT(30), <1>1 DEF BindRpcCall, finVars
<1>2. ASSUME NEW c \in Calls, AbandonRpcCall(c) PROVE IndexExact'
  BY <1>2 DEF AbandonRpcCall, RemoveSessionIndex, finVars
<1>3. ASSUME NEW c \in Calls, NEW s \in Sids, ClaimRpcSend(c, s), UNCHANGED finVars
      PROVE  IndexExact'
  BY <1>3 DEF ClaimRpcSend, finVars
<1>4. ASSUME NEW c \in Calls, NEW who \in {TheCaller, ThePoll} \cup Sids,
             NEW iCode \in Codes, NEW iFrom \in Sids \cup {INVALID_SID},
             TakeRpcSlot(c, who, iCode, iFrom),
             iCode = "reply" => iFrom = iSessionId[c] /\ iFrom \in Sids
      PROVE  IndexExact'
  BY <1>4 DEF TakeRpcSlot, RemoveSessionIndex
<1>5. ASSUME UNCHANGED <<mSlots, mSessions, mExpire, iSessionId, code, source>>,
             \A c \in Calls : fin[c] # "none" => fin'[c] # "none"
      PROVE  IndexExact'
  BY <1>5
<1> HIDE DEF IInv, IndexExact, CallInv, TypeOK
<1> QED
  BY Zenon, <1>1, <1>2, <1>3, <1>4, <1>5, TableMoves

\* Every step keeps the sources of replies.
LEMMA SourceStep ==
  ASSUME IInv, [Next]_vars
  PROVE  ReplySource'
<1> USE DEF IInv, ReplySource, CallInv, TypeOK, INVALID_SID, Sids
<1>1. ASSUME NEW c \in Calls, NEW s \in Sids \cup {INVALID_SID}, BindRpcCall(c, s)
      PROVE  ReplySource'
  BY <1>1 DEF BindRpcCall, finVars
<1>2. ASSUME NEW c \in Calls, AbandonRpcCall(c) PROVE ReplySource'
  BY <1>2 DEF AbandonRpcCall, RemoveSessionIndex, finVars
<1>3. ASSUME NEW c \in Calls, NEW s \in Sids, ClaimRpcSend(c, s), UNCHANGED finVars
      PROVE  ReplySource'
  BY <1>3 DEF ClaimRpcSend, finVars
<1>4. ASSUME NEW c \in Calls, NEW who \in {TheCaller, ThePoll} \cup Sids,
             NEW iCode \in Codes, NEW iFrom \in Sids \cup {INVALID_SID},
             TakeRpcSlot(c, who, iCode, iFrom),
             iCode = "reply" => iFrom = iSessionId[c] /\ iFrom \in Sids
      PROVE  ReplySource'
  BY <1>4 DEF TakeRpcSlot, RemoveSessionIndex
<1>5. ASSUME UNCHANGED <<mSlots, mSessions, mExpire, iSessionId, code, source>>,
             \A c \in Calls : fin[c] # "none" => fin'[c] # "none"
      PROVE  ReplySource'
  BY <1>5
<1> HIDE DEF IInv, ReplySource, CallInv, TypeOK, INVALID_SID, Sids
<1> QED
  BY Zenon, <1>1, <1>2, <1>3, <1>4, <1>5, TableMoves

\* What one completion settles.
Settled(c) == fin[c] # "none" =>
                code'[c] = code[c] /\ source'[c] = source[c] /\ fin'[c] # "none"

\* No step completes a call again.
LEMMA OnceStep ==
  ASSUME IInv, [Next]_vars
  PROVE  \A d \in Calls : Settled(d)
<1> USE DEF IInv, Settled, CallInv, TypeOK
<1>1. ASSUME NEW c \in Calls, NEW s \in Sids \cup {INVALID_SID}, BindRpcCall(c, s)
      PROVE  \A d \in Calls : Settled(d)
  BY <1>1 DEF BindRpcCall, finVars
<1>2. ASSUME NEW c \in Calls, AbandonRpcCall(c) PROVE \A d \in Calls : Settled(d)
  BY <1>2 DEF AbandonRpcCall, RemoveSessionIndex, finVars
<1>3. ASSUME NEW c \in Calls, NEW s \in Sids, ClaimRpcSend(c, s), UNCHANGED finVars
      PROVE  \A d \in Calls : Settled(d)
  BY <1>3 DEF ClaimRpcSend, finVars
<1>4. ASSUME NEW c \in Calls, NEW who \in {TheCaller, ThePoll} \cup Sids,
             NEW iCode \in Codes, NEW iFrom \in Sids \cup {INVALID_SID},
             TakeRpcSlot(c, who, iCode, iFrom),
             iCode = "reply" => iFrom = iSessionId[c] /\ iFrom \in Sids
      PROVE  \A d \in Calls : Settled(d)
  BY <1>4 DEF TakeRpcSlot, RemoveSessionIndex
<1>5. ASSUME UNCHANGED <<mSlots, mSessions, mExpire, iSessionId, code, source>>,
             \A c \in Calls : fin[c] # "none" => fin'[c] # "none"
      PROVE  \A d \in Calls : Settled(d)
  BY <1>5
<1> HIDE DEF IInv, Settled, CallInv, TypeOK
<1> QED
  BY Zenon, <1>1, <1>2, <1>3, <1>4, <1>5, TableMoves

\* Every step keeps the order of the sessions.
LEMMA SessionStep ==
  ASSUME IInv, [Next]_vars
  PROVE  SessInv'
<1>1. PICK n \in 0..MaxSid : Opened(n)
  BY DEF IInv, SessInv
<1>2. ASSUME NEW s \in Sids, AddSession(s) PROVE SessInv'
  <2>1. s = n + 1
    BY <1>1, <1>2, RpcCallAssumption DEF AddSession, Opened, Sids, RpcCallAssumption
  <2>2. Opened(s)'
    BY <1>1, <1>2, <2>1, RpcCallAssumption
       DEF AddSession, Opened, Sids, RpcCallAssumption, IInv, TypeOK
  <2>3. sess'[1] # "none"
    BY <1>2, <2>2, RpcCallAssumption DEF Opened, Sids, RpcCallAssumption
  <2> QED
    BY <2>2, <2>3, RpcCallAssumption DEF SessInv, Sids, RpcCallAssumption
<1>3. ASSUME \A s \in Sids : ~AddSession(s)
      PROVE  \A s \in Sids : sess'[s] # "none" <=> sess[s] # "none"
  <2>1. ASSUME NEW t \in Sids, CloseSession(t) \/ OnDelSession(t)
        PROVE  \A s \in Sids : sess'[s] # "none" <=> sess[s] # "none"
    BY <2>1 DEF CloseSession, OnDelSession, IInv, TypeOK
  <2>2. (\E t \in Sids : CloseSession(t) \/ OnDelSession(t)) \/ UNCHANGED sess
    BY Zenon, <1>3 DEF Next, Caller, FinishRpcSlot, PollThread, BindRpcCall, EncodeThrows,
       SubmitConnected, SubmitHeld, Push, SubmitLost, Send, WakeRpcCall,
       WakeReturns, Arm, AbandonRpcCall, AbandonDrop, WaitRpcGuard, FinishDrop,
       FinishWrite, FinishGate, FinishSchedule, FinishRelease, Sweep, DeliverRpc,
       OnAddSession, FlushHeldCalls, FlushClaim, FlushSend, FailHeldCalls, FailHeld,
       HeldDone, FailRpcCalls, vars, sessVars
  <2> QED
    BY <2>1, <2>2
<1>4. ASSUME \A s \in Sids : ~AddSession(s)
      PROVE  poll' \notin {"idle", "failHeld"} => poll \notin {"idle", "failHeld"}
  <2> DEFINE Kept == poll' \notin {"idle", "failHeld"} => poll \notin {"idle", "failHeld"}
  <2>1. ASSUME NEW c \in Calls, Caller(c)
        PROVE  Kept
    BY <2>1 DEF Caller, BindRpcCall, EncodeThrows, SubmitConnected, SubmitHeld, Push, SubmitLost,
       Send, WakeRpcCall, WakeReturns, Arm, AbandonRpcCall, AbandonDrop, WaitRpcGuard, pollVars
  <2>2. ASSUME NEW c \in Calls, FinishRpcSlot(c) \/ Sweep(c)
        PROVE  Kept
    BY <2>2 DEF FinishRpcSlot, FinishDrop, FinishWrite, FinishGate, FinishSchedule,
       FinishRelease, Sweep, pollVars
  <2>3. ASSUME PollThread \/ FailHeldCalls
        PROVE  Kept
    BY <2>3 DEF PollThread, OnAddSession, FlushHeldCalls, FlushClaim, FlushSend,
       FailHeldCalls, FailHeld, HeldDone, pollVars
  <2>4. ASSUME NEW s \in Sids,
               \/ CloseSession(s) \/ OnDelSession(s)
               \/ \E c \in Calls : DeliverRpc(c, s) \/ FailRpcCalls(s, c)
        PROVE  Kept
    BY <2>4 DEF CloseSession, OnDelSession, DeliverRpc, FailRpcCalls, pollVars
  <2>5. ASSUME UNCHANGED vars PROVE Kept
    BY <2>5 DEF vars, pollVars
  <2> QED
    BY Zenon, <1>4, <2>1, <2>2, <2>3, <2>4, <2>5 DEF Next
<1>5. 1 \in Sids
  BY RpcCallAssumption DEF Sids, RpcCallAssumption
<1>6. ASSUME \A s \in Sids : ~AddSession(s) PROVE SessInv'
  BY <1>1, <1>3, <1>4, <1>5, <1>6 DEF IInv, SessInv, Opened
<1> QED
  BY <1>2, <1>6

-----------------------------------------------------------------------------
(***************************************************************************)
(* What the client holds back, and which session a call is bound to.       *)
(***************************************************************************)
\* What taking a slot does to the table and to the finish of the call.
LEMMA SlotTaken ==
  ASSUME fin \in [Calls -> FinPc], NEW c \in Calls, NEW who, NEW iCode, NEW iFrom,
         TakeRpcSlot(c, who, iCode, iFrom)
  PROVE  /\ c \in mSlots /\ mSlots' = mSlots \ {c}
         /\ bAwaitingConnect' = bAwaitingConnect /\ iSessionId' = iSessionId
         /\ fin'[c] = IF bAwaitingConnect[c] THEN "drop" ELSE "write"
         /\ \A x \in Calls : x # c => fin'[x] = fin[x]
  BY DEF TakeRpcSlot

\* Every step keeps the places of held frames.
LEMMA HeldStep ==
  ASSUME IInv, [Next]_vars
  PROVE  HeldInv'
<1> USE DEF callerVars, tableVars, finVars, sessVars, clientVars, pollVars,
            HeldInv, NothingHeldAfterFlush
<1>0. /\ HeldInv /\ NothingHeldAfterFlush
      /\ \A c \in mSlots : fin[c] = "none"
      /\ caller \in [Calls -> CallerPc] /\ fin \in [Calls -> FinPc] /\ mSlots \subseteq Calls
      /\ bAwaitingConnect \in [Calls -> BOOLEAN] /\ m_vHeldCalls \subseteq Calls
      /\ vHeld \subseteq Calls /\ pollCall \subseteq Calls /\ clientLock \subseteq Calls
  BY DEF IInv, CallInv, TypeOK
<1>1. ASSUME NEW c \in Calls, NEW s \in Sids \cup {INVALID_SID}, BindRpcCall(c, s)
      PROVE  HeldInv'
  BY <1>0, <1>1 DEF BindRpcCall, Goto
<1>2. ASSUME NEW c \in Calls, EncodeThrows(c) \/ SubmitLost(c) \/ Send(c)
             \/ WakeReturns(c) \/ Arm(c) \/ WaitRpcGuard(c)
      PROVE  HeldInv'
  <2>1. CASE EncodeThrows(c)
    BY <1>0, <2>1 DEF EncodeThrows, Goto
  <2>2. CASE SubmitLost(c)
    BY <1>0, <2>2 DEF SubmitLost, Goto
  <2>3. CASE Send(c)
    BY SMTT(30), <1>0, <2>3 DEF Send, SendBytesResult, Goto
  <2>4. CASE WakeReturns(c)
    BY <1>0, <2>4 DEF WakeReturns, Goto
  <2>5. CASE Arm(c)
    BY <1>0, <2>5 DEF Arm, Goto
  <2>6. CASE WaitRpcGuard(c)
    BY <1>0, <2>6 DEF WaitRpcGuard, Goto
  <2> QED
    BY Zenon, <1>2, <2>1, <2>2, <2>3, <2>4, <2>5, <2>6
<1>3. ASSUME NEW c \in Calls, SubmitConnected(c) PROVE HeldInv'
  BY <1>0, <1>3 DEF SubmitConnected, ClaimRpcSend, Goto
<1>4. ASSUME NEW c \in Calls, SubmitHeld(c) PROVE HeldInv'
  BY SMTT(30), <1>0, <1>4 DEF SubmitHeld, Goto
<1>5. ASSUME NEW c \in Calls, Push(c) PROVE HeldInv'
  BY <1>0, <1>5 DEF Push, Goto
<1>6. ASSUME NEW c \in Calls, AbandonRpcCall(c) PROVE HeldInv'
  BY <1>0, <1>6 DEF AbandonRpcCall, RemoveSessionIndex, Goto
<1>7. ASSUME NEW c \in Calls, AbandonDrop(c) \/ FinishDrop(c) PROVE HeldInv'
  BY <1>0, <1>7 DEF AbandonDrop, DropPendingCall, Goto, FinishDrop
<1>8. ASSUME NEW c \in Calls, FinishWrite(c) \/ FinishGate(c) \/ FinishSchedule(c)
             \/ FinishRelease(c)
      PROVE  HeldInv'
  <2>1. CASE FinishWrite(c)
    BY <1>0, <2>1 DEF FinishWrite
  <2>2. CASE FinishGate(c)
    BY <1>0, <2>2 DEF FinishGate
  <2>3. CASE FinishSchedule(c)
    BY <1>0, <2>3 DEF FinishSchedule, Goto
  <2>4. CASE FinishRelease(c)
    BY <1>0, <2>4 DEF FinishRelease
  <2> QED
    BY Zenon, <1>8, <2>1, <2>2, <2>3, <2>4
<1>t. ASSUME NEW c \in Calls, NEW who, NEW iCode, NEW iFrom, TakeRpcSlot(c, who, iCode, iFrom),
             UNCHANGED <<callerVars, clientVars, pollVars>>
      PROVE  HeldInv'
  <2>1. /\ c \in mSlots /\ mSlots' = mSlots \ {c} /\ bAwaitingConnect' = bAwaitingConnect
        /\ fin'[c] = IF bAwaitingConnect[c] THEN "drop" ELSE "write"
        /\ \A x \in Calls : x # c => fin'[x] = fin[x]
    BY Zenon, <1>0, <1>t, SlotTaken
  <2>2. /\ caller' = caller /\ clientLock' = clientLock /\ m_vHeldCalls' = m_vHeldCalls
        /\ vHeld' = vHeld /\ pollCall' = pollCall /\ poll' = poll
        /\ m_bEverConnected' = m_bEverConnected
    BY Zenon, <1>t
  <2> QED
    BY <1>0, <2>1, <2>2
<1>9. ASSUME NEW c \in Calls, WakeRpcCall(c) PROVE HeldInv'
  BY SMTT(30), <1>0, <1>9, SlotTaken DEF WakeRpcCall, Goto
<1>10. ASSUME NEW c \in Calls, Sweep(c) \/ FailHeld(c) PROVE HeldInv'
  <2>1. CASE Sweep(c)
    BY SMTT(30), <1>0, <2>1, SlotTaken DEF Sweep
  <2>2. CASE FailHeld(c)
    BY SMTT(30), <1>0, <2>2, SlotTaken DEF FailHeld
  <2> QED
    BY Zenon, <1>10, <2>1, <2>2
<1>11. ASSUME NEW c \in Calls, NEW s \in Sids, DeliverRpc(c, s) \/ FailRpcCalls(s, c)
       PROVE  HeldInv'
  <2>1. CASE DeliverRpc(c, s)
    BY Zenon, <1>t, <2>1 DEF DeliverRpc
  <2>2. CASE FailRpcCalls(s, c)
    <3>1. CASE c \in mSessions[s]
      BY Zenon, <1>t, <2>2, <3>1 DEF FailRpcCalls
    <3>2. CASE c \notin mSessions[s]
      <4>1. UNCHANGED <<callerVars, tableVars, finVars, clientVars, pollVars>>
        BY Zenon, <2>2, <3>2 DEF FailRpcCalls
      <4> QED
        BY <1>0, <4>1
    <3> QED
      BY Zenon, <3>1, <3>2
  <2> QED
    BY Zenon, <1>11, <2>1, <2>2
<1>12. ASSUME OnAddSession \/ HeldDone PROVE HeldInv'
  BY SMTT(30), <1>0, <1>12 DEF OnAddSession, HeldDone
<1>13. ASSUME FlushHeldCalls \/ FailHeldCalls PROVE HeldInv'
  BY <1>0, <1>13 DEF FlushHeldCalls, SwapHeld, FailHeldCalls, PollIdle
<1>14. ASSUME NEW c \in Calls, FlushClaim(c) PROVE HeldInv'
  BY SMTT(60), <1>0, <1>14 DEF FlushClaim, ClaimRpcSend
<1>15. ASSUME NEW c \in Calls, FlushSend(c) PROVE HeldInv'
  BY SMTT(20), <1>0, <1>15, SlotTaken DEF FlushSend
<1>16. ASSUME NEW s \in Sids, AddSession(s) PROVE HeldInv'
  BY <1>0, <1>16 DEF AddSession, PollIdle
<1>17. ASSUME NEW s \in Sids, CloseSession(s) \/ OnDelSession(s) PROVE HeldInv'
  BY <1>0, <1>17 DEF CloseSession, OnDelSession
<1>18. ASSUME UNCHANGED vars PROVE HeldInv'
  BY <1>0, <1>18 DEF vars
<1> HIDE DEF callerVars, tableVars, finVars, sessVars, clientVars, pollVars,
             HeldInv, NothingHeldAfterFlush
<1> QED
  BY <1>1, <1>2, <1>3, <1>4, <1>5, <1>6, <1>7, <1>8, <1>9, <1>10, <1>11, <1>12,
     <1>13, <1>14, <1>15, <1>16, <1>17, <1>18
     DEF Next, Caller, FinishRpcSlot, PollThread

\* Which steps change the queue.
LEMMA QueueMoves ==
  ASSUME [Next]_vars
  PROVE  \/ \E c \in Calls : Push(c) \/ DropPendingCall(c)
         \/ SwapHeld
         \/ UNCHANGED <<m_vHeldCalls, m_iHeldBytes>>
<1> DEFINE Moves == \/ \E c \in Calls : Push(c) \/ DropPendingCall(c)
                    \/ SwapHeld
                    \/ UNCHANGED <<m_vHeldCalls, m_iHeldBytes>>
<1>1. ASSUME NEW c \in Calls, Caller(c)
      PROVE  Moves
  BY Zenon, <1>1 DEF Caller, BindRpcCall, EncodeThrows, SubmitConnected, SubmitHeld, SubmitLost,
     Send, WakeRpcCall, WakeReturns, Arm, AbandonRpcCall, AbandonDrop, WaitRpcGuard, clientVars
<1>2. ASSUME NEW c \in Calls, FinishRpcSlot(c) \/ Sweep(c)
      PROVE  Moves
  BY Zenon, <1>2 DEF FinishRpcSlot, FinishDrop, FinishWrite, FinishGate, FinishSchedule,
     FinishRelease, Sweep, clientVars
<1>3. ASSUME PollThread \/ FailHeldCalls
      PROVE  Moves
  BY Zenon, <1>3 DEF PollThread, OnAddSession, FlushHeldCalls, FlushClaim, FlushSend,
     FailHeldCalls, FailHeld, HeldDone, clientVars
<1>4. ASSUME NEW s \in Sids,
             \/ AddSession(s) \/ CloseSession(s) \/ OnDelSession(s)
             \/ \E c \in Calls : DeliverRpc(c, s) \/ FailRpcCalls(s, c)
      PROVE  Moves
  BY Zenon, <1>4 DEF AddSession, CloseSession, OnDelSession, DeliverRpc, FailRpcCalls, clientVars
<1>5. ASSUME UNCHANGED vars PROVE Moves
  BY Zenon, <1>5 DEF vars, clientVars
<1> QED
  BY Zenon, <1>1, <1>2, <1>3, <1>4, <1>5 DEF Next

\* Every step keeps the count of the queue.
LEMMA CountStep ==
  ASSUME IInv, [Next]_vars
  PROVE  m_iHeldBytes' = Cardinality(m_vHeldCalls')
<1>1. IsFiniteSet(m_vHeldCalls)
  BY RpcCallAssumption, FS_Subset, FS_CardinalityType DEF IInv, TypeOK, RpcCallAssumption
<1>2. m_iHeldBytes = Cardinality(m_vHeldCalls)
  BY DEF IInv, HeldExact
<1>3. ASSUME NEW c \in Calls, Push(c) PROVE m_iHeldBytes' = Cardinality(m_vHeldCalls')
  <2>1. c \notin m_vHeldCalls
    BY <1>3 DEF Push, IInv, HeldInv
  <2> QED
    BY <1>1, <1>2, <1>3, <2>1, FS_AddElement, FS_RemoveElement, FS_CardinalityType, FS_EmptySet
       DEF Push
<1>4. ASSUME NEW c \in Calls, DropPendingCall(c)
      PROVE  m_iHeldBytes' = Cardinality(m_vHeldCalls')
  <2>1. CASE c \in m_vHeldCalls
    BY <1>1, <1>2, <1>4, <2>1, FS_AddElement, FS_RemoveElement, FS_CardinalityType, FS_EmptySet
       DEF DropPendingCall
  <2>2. CASE c \notin m_vHeldCalls
    <3>1. m_vHeldCalls' = m_vHeldCalls
      BY <1>4, <2>2 DEF DropPendingCall
    <3> QED
      BY <1>2, <1>4, <2>2, <3>1 DEF DropPendingCall
  <2> QED
    BY <2>1, <2>2
<1>5. ASSUME SwapHeld PROVE m_iHeldBytes' = Cardinality(m_vHeldCalls')
  BY <1>5, FS_EmptySet DEF SwapHeld
<1> QED
  BY <1>2, <1>3, <1>4, <1>5, QueueMoves

\* So the count stays a natural number, also when frames are dropped.
LEMMA CountTypeStep ==
  ASSUME IInv, [Next]_vars
  PROVE  m_iHeldBytes' \in Nat
<1>1. m_vHeldCalls' \subseteq Calls
  BY QueueMoves DEF Push, DropPendingCall, SwapHeld, IInv, TypeOK
<1> QED
  BY <1>1, CountStep, RpcCallAssumption, FS_Subset, FS_CardinalityType DEF RpcCallAssumption

\* The part of HeldExact about the marks in the table.
Marks ==
  /\ \A c \in m_vHeldCalls : \/ c \in mSlots /\ bAwaitingConnect[c]
                             \/ fin[c] = "drop"
                             \/ caller[c] = "drop"
  /\ \A c \in mSlots : bAwaitingConnect[c] => c \in m_vHeldCalls \cup vHeld \cup clientLock

\* Every step keeps queue and marks in agreement.
LEMMA MarkStep ==
  ASSUME IInv, [Next]_vars
  PROVE  Marks'
<1> USE DEF callerVars, tableVars, finVars, sessVars, clientVars, pollVars,
            Marks, HeldInv
<1>0. /\ HeldInv /\ Marks
      /\ \A c \in mSlots : fin[c] = "none" /\ caller[c] \notin {"new", "drop"}
      /\ \A c \in Calls : caller[c] = "new" => fin[c] = "none"
      /\ caller \in [Calls -> CallerPc] /\ fin \in [Calls -> FinPc] /\ mSlots \subseteq Calls
      /\ bAwaitingConnect \in [Calls -> BOOLEAN] /\ m_vHeldCalls \subseteq Calls
      /\ vHeld \subseteq Calls /\ pollCall \subseteq Calls /\ clientLock \subseteq Calls
  BY Zenon DEF IInv, CallInv, TypeOK, HeldExact
<1>1. ASSUME NEW c \in Calls, NEW s \in Sids \cup {INVALID_SID}, BindRpcCall(c, s)
      PROVE  Marks'
  BY SMTT(30), <1>0, <1>1 DEF BindRpcCall, Goto
<1>2. ASSUME NEW c \in Calls, EncodeThrows(c) \/ SubmitLost(c) \/ Send(c)
             \/ WakeReturns(c) \/ Arm(c) \/ WaitRpcGuard(c)
      PROVE  Marks'
  <2>1. CASE EncodeThrows(c)
    BY <1>0, <2>1 DEF EncodeThrows, Goto
  <2>2. CASE SubmitLost(c)
    BY <1>0, <2>2 DEF SubmitLost, Goto
  <2>3. CASE Send(c)
    BY <1>0, <2>3 DEF Send, SendBytesResult, Goto
  <2>4. CASE WakeReturns(c)
    BY <1>0, <2>4 DEF WakeReturns, Goto
  <2>5. CASE Arm(c)
    BY <1>0, <2>5 DEF Arm, Goto
  <2>6. CASE WaitRpcGuard(c)
    BY <1>0, <2>6 DEF WaitRpcGuard, Goto
  <2> QED
    BY Zenon, <1>2, <2>1, <2>2, <2>3, <2>4, <2>5, <2>6
<1>3. ASSUME NEW c \in Calls, SubmitConnected(c) PROVE Marks'
  BY SMTT(20), <1>0, <1>3 DEF SubmitConnected, ClaimRpcSend, Goto
<1>4. ASSUME NEW c \in Calls, SubmitHeld(c) PROVE Marks'
  BY SMTT(20), <1>0, <1>4 DEF SubmitHeld, Goto
<1>5. ASSUME NEW c \in Calls, Push(c) PROVE Marks'
  BY SMTT(20), <1>0, <1>5 DEF Push, Goto
<1>6. ASSUME NEW c \in Calls, AbandonRpcCall(c) PROVE Marks'
  BY SMTT(30), <1>0, <1>6 DEF AbandonRpcCall, RemoveSessionIndex, Goto
<1>7. ASSUME NEW c \in Calls, AbandonDrop(c) \/ FinishDrop(c) PROVE Marks'
  BY SMTT(60), <1>0, <1>7 DEF AbandonDrop, DropPendingCall, Goto, FinishDrop
<1>8. ASSUME NEW c \in Calls, FinishWrite(c) \/ FinishGate(c) \/ FinishSchedule(c)
             \/ FinishRelease(c)
      PROVE  Marks'
  <2>1. CASE FinishWrite(c)
    BY <1>0, <2>1 DEF FinishWrite
  <2>2. CASE FinishGate(c)
    BY <1>0, <2>2 DEF FinishGate
  <2>3. CASE FinishSchedule(c)
    BY <1>0, <2>3 DEF FinishSchedule, Goto
  <2>4. CASE FinishRelease(c)
    BY <1>0, <2>4 DEF FinishRelease
  <2> QED
    BY Zenon, <1>8, <2>1, <2>2, <2>3, <2>4
<1>t. ASSUME NEW c \in Calls, NEW who, NEW iCode, NEW iFrom, TakeRpcSlot(c, who, iCode, iFrom),
             UNCHANGED <<caller, m_vHeldCalls, clientLock>>, vHeld \ {c} \subseteq vHeld'
      PROVE  Marks'
  <2>1. /\ c \in mSlots /\ mSlots' = mSlots \ {c} /\ bAwaitingConnect' = bAwaitingConnect
        /\ fin'[c] = IF bAwaitingConnect[c] THEN "drop" ELSE "write"
        /\ \A x \in Calls : x # c => fin'[x] = fin[x]
    BY Zenon, <1>0, <1>t, SlotTaken
  <2> QED
    BY <1>0, <1>t, <2>1
<1>u. ASSUME NEW c \in Calls, c \notin mSlots \/ vHeld' = vHeld, vHeld \ {c} \subseteq vHeld',
             UNCHANGED <<mSlots, bAwaitingConnect, fin, caller, m_vHeldCalls, clientLock>>
      PROVE  Marks'
  BY <1>0, <1>u
<1>9. ASSUME NEW c \in Calls, WakeRpcCall(c) PROVE Marks'
  BY SMTT(60), <1>0, <1>9, SlotTaken DEF WakeRpcCall, Goto
<1>10. ASSUME NEW c \in Calls, Sweep(c) \/ FailHeld(c) PROVE Marks'
  <2>1. CASE Sweep(c)
    BY Zenon, <1>t, <2>1 DEF Sweep
  <2>2. CASE FailHeld(c)
    BY Zenon, <1>t, <1>u, <2>2 DEF FailHeld
  <2> QED
    BY Zenon, <1>10, <2>1, <2>2
<1>11. ASSUME NEW c \in Calls, NEW s \in Sids, DeliverRpc(c, s) \/ FailRpcCalls(s, c)
       PROVE  Marks'
  <2>1. CASE DeliverRpc(c, s)
    BY Zenon, <1>t, <2>1 DEF DeliverRpc
  <2>2. CASE FailRpcCalls(s, c)
    <3>1. CASE c \in mSessions[s]
      BY Zenon, <1>t, <2>2, <3>1 DEF FailRpcCalls
    <3>2. CASE c \notin mSessions[s]
      <4>1. UNCHANGED <<callerVars, tableVars, finVars, clientVars, pollVars>>
        BY Zenon, <2>2, <3>2 DEF FailRpcCalls
      <4> QED
        BY <1>0, <4>1
    <3> QED
      BY Zenon, <3>1, <3>2
  <2> QED
    BY Zenon, <1>11, <2>1, <2>2
<1>12. ASSUME OnAddSession \/ HeldDone PROVE Marks'
  BY SMTT(60), <1>0, <1>12 DEF OnAddSession, HeldDone
<1>13. ASSUME FlushHeldCalls \/ FailHeldCalls PROVE Marks'
  BY Zenon, <1>0, <1>13 DEF FlushHeldCalls, SwapHeld, FailHeldCalls, PollIdle
<1>14. ASSUME NEW c \in Calls, FlushClaim(c) PROVE Marks'
  BY <1>0, <1>14 DEF FlushClaim, ClaimRpcSend
<1>15. ASSUME NEW c \in Calls, FlushSend(c) PROVE Marks'
  BY Zenon, <1>t, <1>u, <1>15 DEF FlushSend
<1>16. ASSUME NEW s \in Sids, AddSession(s) PROVE Marks'
  BY <1>0, <1>16 DEF AddSession, PollIdle
<1>17. ASSUME NEW s \in Sids, CloseSession(s) \/ OnDelSession(s) PROVE Marks'
  BY <1>0, <1>17 DEF CloseSession, OnDelSession
<1>18. ASSUME UNCHANGED vars PROVE Marks'
  BY <1>0, <1>18 DEF vars
<1> HIDE DEF callerVars, tableVars, finVars, sessVars, clientVars, pollVars,
             Marks, HeldInv
<1> QED
  BY <1>1, <1>2, <1>3, <1>4, <1>5, <1>6, <1>7, <1>8, <1>9, <1>10, <1>11, <1>12,
     <1>13, <1>14, <1>15, <1>16, <1>17, <1>18
     DEF Next, Caller, FinishRpcSlot, PollThread

\* Every step keeps the queue of a connected client empty.
LEMMA FlushStep ==
  ASSUME IInv, [Next]_vars
  PROVE  NothingHeldAfterFlush'
<1> USE DEF IInv, HeldInv, NothingHeldAfterFlush, TypeOK, clientVars, pollVars
<1>1. ASSUME NEW c \in Calls, SubmitHeld(c) \/ Push(c) \/ AbandonDrop(c) \/ FinishDrop(c)
      PROVE  NothingHeldAfterFlush'
  BY Zenon, <1>1 DEF SubmitHeld, Push, AbandonDrop, FinishDrop, DropPendingCall
<1>2. ASSUME FlushHeldCalls \/ FailHeldCalls \/ OnAddSession \/ HeldDone
      PROVE  NothingHeldAfterFlush'
  BY Zenon, <1>2 DEF FlushHeldCalls, FailHeldCalls, SwapHeld, PollIdle, OnAddSession, HeldDone
<1>3. ASSUME NEW c \in Calls, FlushClaim(c) \/ FlushSend(c) \/ FailHeld(c)
      PROVE  NothingHeldAfterFlush'
  BY Zenon, <1>3 DEF FlushClaim, FlushSend, FailHeld
<1>4. ASSUME NEW s \in Sids, AddSession(s) \/ OnDelSession(s) PROVE NothingHeldAfterFlush'
  BY Zenon, <1>4 DEF AddSession, OnDelSession, PollIdle
<1>5. ASSUME UNCHANGED <<clientVars, pollVars>> PROVE NothingHeldAfterFlush'
  BY <1>5
<1> HIDE DEF IInv, HeldInv, NothingHeldAfterFlush, TypeOK, clientVars, pollVars
<1> QED
  BY Zenon, <1>1, <1>2, <1>3, <1>4, <1>5 DEF Next, Caller, FinishRpcSlot, PollThread,
     BindRpcCall, EncodeThrows, SubmitConnected, SubmitLost, Send, WakeRpcCall,
     WakeReturns, Arm, AbandonRpcCall, WaitRpcGuard, FinishWrite, FinishGate,
     FinishSchedule, FinishRelease, Sweep, DeliverRpc, CloseSession, FailRpcCalls,
     vars

\* A caller that has not submitted its call; one that has still to send it or to wake it.
Early == {"new", "bound", "push"}
Sending == {"bound", "send", "fail"}

\* A step that binds no call, opens or closes no session and lets no sender go whose
\* call is still in the table.
Quiet ==
  /\ mSlots' \subseteq mSlots
  /\ UNCHANGED <<iSessionId, sess, failing, pollCall>>
  /\ \A d \in Calls : caller'[d] \in Early => caller[d] \in Early
  /\ \A d \in mSlots' : caller[d] \in Sending => caller'[d] \in Sending

\* All steps are quiet but those that bind, submit or send, and those of sessions.
LEMMA QuietMoves ==
  ASSUME IInv, [Next]_vars
  PROVE  \/ Quiet
         \/ \E c \in Calls, s \in Sids \cup {INVALID_SID} : BindRpcCall(c, s)
         \/ \E c \in Calls : SubmitConnected(c) \/ SubmitHeld(c) \/ Send(c)
         \/ \E c \in Calls : FlushClaim(c) \/ FlushSend(c)
         \/ \E s \in Sids : AddSession(s) \/ CloseSession(s) \/ OnDelSession(s)
         \/ \E c \in Calls, s \in Sids : FailRpcCalls(s, c)
<1>1. TypeOK
  BY DEF IInv
<1> USE DEF Quiet, tableVars, sessVars, pollVars
<1>2. UNCHANGED callerVars /\ UNCHANGED <<tableVars, sessVars, pollCall>> => Quiet
  BY DEF callerVars
<1>3. ASSUME NEW c \in Calls,
             EncodeThrows(c) \/ SubmitLost(c) \/ WakeReturns(c) \/ Push(c)
      PROVE  Quiet
  BY <1>1, <1>3 DEF EncodeThrows, SubmitLost, WakeReturns, Push, Goto, Early, Sending,
     TypeOK
<1>4. ASSUME NEW c \in Calls, Arm(c) \/ AbandonDrop(c) \/ WaitRpcGuard(c) PROVE Quiet
  BY <1>1, <1>4 DEF Arm, AbandonDrop, WaitRpcGuard, Goto, Early, Sending, TypeOK
<1>5. ASSUME NEW c \in Calls, AbandonRpcCall(c) PROVE Quiet
  BY <1>1, <1>5 DEF AbandonRpcCall, Goto, Early, Sending, TypeOK
<1>6. ASSUME NEW c \in Calls, WakeRpcCall(c) PROVE Quiet
  <2>1. c \notin mSlots' /\ mSlots' \subseteq mSlots
    BY Zenon, <1>6 DEF WakeRpcCall, TakeRpcSlot
  <2>2. UNCHANGED <<iSessionId, sess, failing, pollCall>>
    BY <1>6 DEF WakeRpcCall, TakeRpcSlot
  <2>3. caller' \in {[caller EXCEPT ![c] = "waking"], [caller EXCEPT ![c] = "dispatched"]}
    BY <1>6 DEF WakeRpcCall, Goto
  <2> QED
    BY <1>1, <2>1, <2>2, <2>3 DEF Early, Sending, TypeOK
<1>7. ASSUME NEW c \in Calls, FinishSchedule(c) PROVE Quiet
  BY <1>1, <1>7 DEF FinishSchedule, Goto, Early, Sending, TypeOK
<1>8. ASSUME NEW c \in Calls,
             FinishDrop(c) \/ FinishWrite(c) \/ FinishGate(c) \/ FinishRelease(c)
      PROVE  Quiet
  BY Zenon, <1>8 DEF FinishDrop, FinishWrite, FinishGate, FinishRelease, callerVars
<1>9. ASSUME NEW c \in Calls, Sweep(c) \/ FailHeld(c) PROVE Quiet
  BY Zenon, <1>9 DEF Sweep, FailHeld, TakeRpcSlot, callerVars
<1>10. ASSUME NEW c \in Calls, NEW s \in Sids, DeliverRpc(c, s) PROVE Quiet
  BY Zenon, <1>10 DEF DeliverRpc, TakeRpcSlot, callerVars
<1>11. ASSUME OnAddSession \/ HeldDone \/ FlushHeldCalls \/ FailHeldCalls PROVE Quiet
  BY Zenon, <1>2, <1>11 DEF OnAddSession, HeldDone, FlushHeldCalls, FailHeldCalls, SwapHeld
<1>12. ASSUME UNCHANGED vars PROVE Quiet
  BY Zenon, <1>2, <1>12 DEF vars
<1> HIDE DEF Quiet, tableVars, sessVars, pollVars
<1> QED
  BY <1>3, <1>4, <1>5, <1>6, <1>7, <1>8, <1>9, <1>10, <1>11, <1>12
     DEF Next, Caller, FinishRpcSlot, PollThread

\* Every step keeps which session a call is bound to.
LEMMA BoundStep ==
  ASSUME IInv, [Next]_vars
  PROVE  BoundInv'
<1>1. TypeOK /\ BoundInv /\ ClientCalls \subseteq Calls
  BY RpcCallAssumption DEF IInv, RpcCallAssumption
<1>2. CASE Quiet
  BY <1>1, <1>2 DEF Quiet, Early, BoundInv, Opened
<1>3. ASSUME NEW c \in Calls, NEW s \in Sids \cup {INVALID_SID}, BindRpcCall(c, s)
      PROVE  BoundInv'
  <2>1. c \notin pollCall
    BY Zenon, <1>3 DEF BindRpcCall, IInv, HeldInv
  <2> QED
    BY <1>1, <1>3, <2>1 DEF BindRpcCall, Goto, BoundInv, Opened, TypeOK, sessVars, pollVars
<1>4. ASSUME NEW c \in Calls, SubmitConnected(c) PROVE BoundInv'
  <2>1. c \notin pollCall
    BY <1>4 DEF SubmitConnected, IInv, HeldInv
  <2>2. CASE ClaimRpcSend(c, m_iSessionId) /\ Goto(c, "send")
    BY Zenon, <1>1, <1>4, <2>1, <2>2
       DEF SubmitConnected, ClaimRpcSend, Goto, BoundInv, Opened, TypeOK, sessVars, pollVars
  <2>3. CASE Goto(c, "dispatched") /\ UNCHANGED tableVars
    BY <1>1, <1>4, <2>3
       DEF SubmitConnected, Goto, BoundInv, Opened, TypeOK, tableVars, sessVars, pollVars
  <2> QED
    BY <1>4, <2>2, <2>3 DEF SubmitConnected
<1>5. ASSUME NEW c \in Calls, SubmitHeld(c) PROVE BoundInv'
  <2>1. UNCHANGED <<pollCall, mSlots, iSessionId, sess>> /\ iSessionId[c] = INVALID_SID
    BY Zenon, <1>1, <1>5 DEF SubmitHeld, BoundInv, sessVars, pollVars
  <2>2. \A d \in Calls \ {c} : caller'[d] = caller[d]
    BY <1>1, <1>5 DEF SubmitHeld, Goto, TypeOK
  <2> QED
    BY Zenon, <1>1, <2>1, <2>2 DEF BoundInv, Opened
<1>6. ASSUME NEW c \in Calls, Send(c) PROVE BoundInv'
  BY <1>1, <1>6 DEF Send, Goto, BoundInv, Opened, TypeOK, tableVars, sessVars, pollVars
<1>7. ASSUME NEW c \in Calls, FlushClaim(c) PROVE BoundInv'
  <2>1. NewestSid \in Sids /\ Opened(NewestSid)
    BY <1>7, NewestExists DEF FlushClaim, IInv, SessInv
  <2>2. \A n \in Sids : Opened(n) => n = NewestSid
    BY <2>1 DEF Opened, Sids
  <2>3. c \notin ClientCalls \/ caller[c] \notin {"new", "bound", "push"}
    BY Zenon, <1>7 DEF FlushClaim, IInv, HeldInv
  <2>4. UNCHANGED <<caller, sess>>
    BY <1>7 DEF FlushClaim, callerVars, sessVars
  <2>5. CASE ClaimRpcSend(c, NewestSid) /\ pollCall' = {c}
    <3>1. \A n \in Sids : Opened(n)' => n = NewestSid
      BY <2>2, <2>4 DEF Opened
    <3>2. iSessionId' = [iSessionId EXCEPT ![c] = NewestSid]
      BY <2>5 DEF ClaimRpcSend
    <3> QED
      BY <1>1, <2>3, <2>4, <2>5, <3>1, <3>2 DEF BoundInv, TypeOK
  <2>6. CASE UNCHANGED <<tableVars, pollCall>>
    BY Zenon, <1>1, <2>4, <2>6 DEF BoundInv, Opened, tableVars
  <2> QED
    BY <1>7, <2>5, <2>6 DEF FlushClaim
<1>8. ASSUME NEW c \in Calls, FlushSend(c) PROVE BoundInv'
  <2>1. UNCHANGED <<caller, iSessionId>> /\ pollCall' = {}
    BY <1>8 DEF FlushSend, TakeRpcSlot, callerVars, tableVars
  <2> QED
    BY <1>1, <2>1 DEF BoundInv
<1>9. ASSUME NEW s \in Sids, AddSession(s) PROVE BoundInv'
  BY Zenon, <1>9 DEF AddSession, PollIdle, IInv, BoundInv, HeldInv, callerVars, tableVars
<1>10. ASSUME NEW s \in Sids, CloseSession(s) \/ OnDelSession(s) PROVE BoundInv'
  <2>1. UNCHANGED <<caller, mSlots, iSessionId, pollCall>>
    BY <1>10 DEF CloseSession, OnDelSession, callerVars, tableVars, pollVars
  <2>2. \A t \in Sids : sess'[t] # "none" <=> sess[t] # "none"
    BY <1>1, <1>10 DEF CloseSession, OnDelSession, TypeOK
  <2> QED
    BY <1>1, <2>1, <2>2 DEF BoundInv, Opened
<1>11. ASSUME NEW c \in Calls, NEW s \in Sids, FailRpcCalls(s, c) PROVE BoundInv'
  <2>1. UNCHANGED <<caller, iSessionId, sess, pollCall>> /\ mSlots' \subseteq mSlots
    BY Zenon, <1>11 DEF FailRpcCalls, TakeRpcSlot, callerVars, tableVars, pollVars
  <2> QED
    BY Zenon, <1>1, <2>1 DEF BoundInv, Opened
<1> QED
  BY <1>2, <1>3, <1>4, <1>5, <1>6, <1>7, <1>8, <1>9, <1>10, <1>11, QuietMoves

\* Every step keeps a call of a closed session in somebody's care.
LEMMA StrandStep ==
  ASSUME IInv, [Next]_vars
  PROVE  NotStranded'
<1>1. TypeOK /\ NotStranded
  BY DEF IInv
<1>2. CASE Quiet
  BY <1>1, <1>2 DEF Quiet, Sending, NotStranded, TypeOK
<1>3. ASSUME NEW c \in Calls, NEW s \in Sids \cup {INVALID_SID}, BindRpcCall(c, s)
      PROVE  NotStranded'
  <2>1. /\ mSlots \subseteq Calls /\ mSlots' = mSlots \cup {c}
        /\ UNCHANGED <<sess, failing, pollCall>>
    BY Zenon, <1>1, <1>3 DEF BindRpcCall, TypeOK, sessVars, pollVars
  <2>2. /\ caller'[c] \in {"bound", "send", "fail"}
        /\ \A d \in Calls \ {c} : caller'[d] = caller[d] /\ iSessionId'[d] = iSessionId[d]
    BY <1>1, <1>3 DEF BindRpcCall, Goto, TypeOK
  <2> QED
    BY Zenon, <1>1, <2>1, <2>2 DEF NotStranded
<1>4. ASSUME NEW c \in Calls, SubmitConnected(c) PROVE NotStranded'
  <2>1. CASE ClaimRpcSend(c, m_iSessionId) /\ Goto(c, "send")
    BY Zenon, <1>1, <1>4, <2>1
       DEF SubmitConnected, ClaimRpcSend, Goto, NotStranded, TypeOK, sessVars, pollVars
  <2>2. CASE c \notin mSlots /\ Goto(c, "dispatched") /\ UNCHANGED tableVars
    BY Zenon, <1>1, <1>4, <2>2
       DEF SubmitConnected, Goto, NotStranded, TypeOK, tableVars, sessVars, pollVars
  <2> QED
    BY <1>4, <2>1, <2>2 DEF SubmitConnected
<1>5. ASSUME NEW c \in Calls, SubmitHeld(c) PROVE NotStranded'
  <2>1. UNCHANGED <<pollCall, mSlots, iSessionId, sess, failing>>
    BY <1>5 DEF SubmitHeld, sessVars, pollVars
  <2>2. iSessionId[c] \notin Sids
    <3>1. c \in ClientCalls /\ caller[c] = "bound"
      BY Zenon, <1>5 DEF SubmitHeld
    <3>2. iSessionId[c] = INVALID_SID
      BY Zenon, <3>1 DEF IInv, BoundInv
    <3>3. INVALID_SID \notin Sids
      BY RpcCallAssumption DEF RpcCallAssumption, INVALID_SID, Sids
    <3> QED
      BY Zenon, <3>2, <3>3
  <2>3. \A d \in Calls \ {c} : caller'[d] = caller[d]
    BY <1>1, <1>5 DEF SubmitHeld, Goto, TypeOK
  <2> QED
    BY <1>1, <2>1, <2>2, <2>3 DEF NotStranded, TypeOK
<1>6. ASSUME NEW c \in Calls, Send(c) PROVE NotStranded'
  <2>1. UNCHANGED <<pollCall, mSlots, iSessionId, sess, failing>>
    BY Zenon, <1>6 DEF Send, tableVars, sessVars, pollVars
  <2>2. \A d \in Calls \ {c} : caller'[d] = caller[d]
    BY <1>1, <1>6 DEF Send, Goto, TypeOK
  <2>3. caller'[c] = "fail" \/ sess[iSessionId[c]] = "open"
    BY <1>1, <1>6 DEF Send, SendBytesResult, Goto, TypeOK
  <2> QED
    BY <1>1, <2>1, <2>2, <2>3 DEF NotStranded, TypeOK
<1>7. ASSUME NEW c \in Calls, FlushClaim(c) PROVE NotStranded'
  <2>1. UNCHANGED <<caller, sess, failing>> /\ pollCall = {}
    BY Zenon, <1>7 DEF FlushClaim, callerVars, sessVars, IInv, HeldInv
  <2>2. CASE ClaimRpcSend(c, NewestSid) /\ pollCall' = {c}
    <3>1. mSlots' = mSlots /\ \A d \in Calls \ {c} : iSessionId'[d] = iSessionId[d]
      BY <1>1, <2>2 DEF ClaimRpcSend, TypeOK
    <3> QED
      BY <1>1, <2>1, <2>2, <3>1 DEF NotStranded, TypeOK
  <2>3. CASE UNCHANGED <<tableVars, pollCall>>
    BY Zenon, <1>1, <2>1, <2>3 DEF NotStranded, tableVars
  <2> QED
    BY <1>7, <2>2, <2>3 DEF FlushClaim
<1>8. ASSUME NEW c \in Calls, FlushSend(c) PROVE NotStranded'
  <2>1. NewestSid \in Sids /\ Opened(NewestSid)
    BY <1>8, NewestExists DEF FlushSend, IInv, SessInv
  <2>2. c \in mSlots => iSessionId[c] = NewestSid
    BY Zenon, <1>8, <2>1 DEF FlushSend, IInv, BoundInv
  <2>3. pollCall = {c} /\ UNCHANGED <<caller, sess, failing>>
    BY <1>8 DEF FlushSend, IInv, BoundInv, callerVars, sessVars
  <2>4. CASE TakeRpcSlot(c, ThePoll, "error", INVALID_SID)
    BY Zenon, <1>1, <2>3, <2>4 DEF TakeRpcSlot, NotStranded
  <2>5. CASE (sess[NewestSid] = "open" \/ c \notin mSlots) /\ UNCHANGED tableVars
    <3>1. \A s \in Sids : c \in mSlots /\ iSessionId[c] = s => sess[s] = "open"
      BY <2>2, <2>5
    <3> QED
      BY <1>1, <2>3, <2>5, <3>1 DEF NotStranded, tableVars
  <2> QED
    BY <1>8, <2>4, <2>5 DEF FlushSend, SendBytesResult, tableVars
<1>9. ASSUME NEW s \in Sids, AddSession(s) PROVE NotStranded'
  BY Zenon, <1>1, <1>9 DEF AddSession, NotStranded, TypeOK, callerVars, tableVars
<1>10. ASSUME NEW s \in Sids, CloseSession(s) \/ OnDelSession(s) PROVE NotStranded'
  <2>1. UNCHANGED <<caller, mSlots, iSessionId, pollCall>>
    BY <1>10 DEF CloseSession, OnDelSession, callerVars, tableVars, pollVars
  <2>2. CASE CloseSession(s)
    BY <1>1, <2>1, <2>2 DEF CloseSession, NotStranded, TypeOK
  <2>3. CASE OnDelSession(s)
    BY Zenon, <1>1, <2>1, <2>3 DEF OnDelSession, NotStranded, TypeOK
  <2> QED
    BY <1>10, <2>2, <2>3
<1>11. ASSUME NEW c \in Calls, NEW s \in Sids, FailRpcCalls(s, c) PROVE NotStranded'
  <2>1. UNCHANGED <<caller, iSessionId, sess, pollCall>> /\ mSlots' \subseteq mSlots
    BY Zenon, <1>11 DEF FailRpcCalls, TakeRpcSlot, callerVars, tableVars, pollVars
  <2>2. \A t \in Sids : /\ failing[t] \ failing'[t] \subseteq {c}
                        /\ t # s => failing'[t] = failing[t]
    BY <1>1, <1>11 DEF FailRpcCalls, TypeOK
  <2>3. c \in mSlots' => iSessionId[c] # s
    BY Zenon, <1>11 DEF FailRpcCalls, TakeRpcSlot, IInv, IndexExact, tableVars
  <2> QED
    BY Zenon, <1>1, <2>1, <2>2, <2>3 DEF NotStranded, TypeOK
<1> QED
  BY <1>2, <1>3, <1>4, <1>5, <1>6, <1>7, <1>8, <1>9, <1>10, <1>11, QuietMoves

-----------------------------------------------------------------------------
\* The initial state satisfies the invariant.
LEMMA InitIInv ==
  ASSUME Init
  PROVE  IInv
<1> USE RpcCallAssumption DEF Init, RpcCallAssumption
<1>1. TypeOK
  <2>1. /\ caller \in [Calls -> CallerPc] /\ fin \in [Calls -> FinPc]
        /\ iResult \in [Calls -> Codes] /\ code \in [Calls -> Codes]
        /\ iGate \in [Calls -> {"Idle", "Waiting", "Ready"}]
    BY DEF CallerPc, FinPc, Codes
  <2>2. /\ iScheduled \in [Calls -> Nat] /\ pGuard \in [Calls -> 0..1]
        /\ m_iHeldBytes \in Nat
    OBVIOUS
  <2>3. bAwaitingConnect \in [Calls -> BOOLEAN] /\ m_bEverConnected \in BOOLEAN
    BY Zenon
  <2>4. /\ mSessions \in [Sids \cup {INVALID_SID} -> SUBSET Calls]
        /\ failing \in [Sids -> SUBSET Calls]
        /\ sess \in [Sids -> {"none", "open", "closed", "gone"}]
    OBVIOUS
  <2>5. /\ iSessionId \in [Calls -> Sids \cup {INVALID_SID}]
        /\ source \in [Calls -> Sids \cup {INVALID_SID}]
        /\ taker \in [Calls -> {Nobody, TheCaller, ThePoll} \cup Sids]
        /\ m_iSessionId \in Sids \cup {INVALID_SID}
    OBVIOUS
  <2> QED
    BY Zenon, <2>1, <2>2, <2>3, <2>4, <2>5 DEF TypeOK
<1>2. IndexExact /\ CallInv
  BY Zenon DEF IndexExact, CallInv, BeforeGate
<1>3. ReplySource /\ NothingHeldAfterFlush /\ NotStranded
  BY DEF ReplySource, NothingHeldAfterFlush, NotStranded
<1>4. HeldInv /\ HeldExact
  BY Zenon, FS_EmptySet DEF HeldInv, HeldExact
<1>5. Opened(0)
  BY DEF Opened, Sids
<1>6. SessInv /\ BoundInv
  BY <1>5 DEF SessInv, BoundInv, Sids
<1> QED
  BY <1>1, <1>2, <1>3, <1>4, <1>6 DEF IInv

\* The invariant holds of every behaviour of the table, its callers and the client.
THEOREM RpcInvariant == Spec => []IInv
<1>1. IInv /\ [Next]_vars => IInv'
  <2> SUFFICES ASSUME IInv, [Next]_vars PROVE IInv'
    OBVIOUS
  <2>1. TypeOK'
    BY CountTypeStep, TypeStep
  <2>2. HeldExact'
    BY Zenon, CountStep, MarkStep DEF Marks, HeldExact
  <2> QED
    BY <2>1, <2>2, CallStep, IndexStep, SourceStep, HeldStep, FlushStep, SessionStep,
       BoundStep, StrandStep DEF IInv
<1> QED
  BY InitIInv, <1>1, PTL DEF Spec

\* Every variable of the table, the awaiters and the client keeps its type.
THEOREM RpcTypeCorrect == Spec => []TypeOK
<1>1. IInv => TypeOK
  BY DEF IInv
<1> QED
  BY RpcInvariant, <1>1, PTL

\* The session index and the expiries of the shards name exactly the waiting slots.
THEOREM RpcIndexExact == Spec => []IndexExact
<1>1. IInv => IndexExact
  BY DEF IInv
<1> QED
  BY RpcInvariant, <1>1, PTL

\* FinishRpcSlot never works on an awaiter whose destructor has returned: WaitRpcGuard
\* waits for the guard the taker armed under the shard's lock.
THEOREM RpcAwaiterAlive == Spec => []AwaiterAlive
<1>1. IInv => AwaiterAlive
  BY Zenon DEF IInv, CallInv, AwaiterAlive
<1> QED
  BY RpcInvariant, <1>1, PTL

\* A caller past its await reads the result its only completion was given.
THEOREM RpcResultVisible == Spec => []ResultVisible
<1>1. IInv => ResultVisible
  BY DEF IInv, CallInv, ResultVisible
<1> QED
  BY RpcInvariant, <1>1, PTL

\* The two exchanges of iGate schedule the caller at most once, and only a suspended one.
THEOREM RpcScheduledOnce == Spec => []ScheduledOnce
<1>1. IInv => ScheduledOnce
  BY SMTT(30) DEF IInv, CallInv, ScheduledOnce
<1> QED
  BY RpcInvariant, <1>1, PTL

\* A reply completes only a call bound to the session it came in on.
THEOREM RpcReplySource == Spec => []ReplySource
<1>1. IInv => ReplySource
  BY DEF IInv
<1> QED
  BY RpcInvariant, <1>1, PTL

\* The client's queue, its byte count and the marks in the table agree.
THEOREM RpcHeldExact == Spec => []HeldExact
<1>1. IInv => HeldExact
  BY DEF IInv
<1> QED
  BY RpcInvariant, <1>1, PTL

\* Nothing stays in the queue once the client has been connected and has flushed.
THEOREM RpcNothingHeldAfterFlush == Spec => []NothingHeldAfterFlush
<1>1. IInv => NothingHeldAfterFlush
  BY DEF IInv
<1> QED
  BY RpcInvariant, <1>1, PTL

\* A call bound to a closed session still has someone who will complete it.
THEOREM RpcNotStranded == Spec => []NotStranded
<1>1. IInv => NotStranded
  BY DEF IInv
<1> QED
  BY RpcInvariant, <1>1, PTL

\* Nobody completes a call a second time: only TakeRpcSlot sets a code, and only of a
\* call that is still in the table.
THEOREM RpcCompletedOnce == Spec => CompletedOnce
<1>1. IInv /\ [Next]_vars =>
        [\A c \in Calls : fin[c] # "none" =>
           code'[c] = code[c] /\ source'[c] = source[c] /\ fin'[c] # "none"]_vars
  BY OnceStep DEF Settled
<1> QED
  BY RpcInvariant, <1>1, PTL DEF Spec, CompletedOnce

\* What a completion and its caller owe each other, together.
THEOREM RpcCallSoundness == Spec => []CallSound
<1>1. AwaiterAlive /\ ResultVisible /\ ScheduledOnce /\ ReplySource => CallSound
  BY DEF CallSound
<1> QED
  BY <1>1, RpcAwaiterAlive, RpcResultVisible, RpcScheduledOnce, RpcReplySource, PTL

\* What the call table and the client's queue owe each other, together.
THEOREM RpcHeldSoundness == Spec => []HeldSound
<1>1. IndexExact /\ HeldExact /\ NothingHeldAfterFlush /\ NotStranded => HeldSound
  BY DEF HeldSound
<1> QED
  BY <1>1, RpcIndexExact, RpcHeldExact, RpcNothingHeldAfterFlush, RpcNotStranded, PTL
=============================================================================
