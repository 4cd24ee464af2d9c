------------------------- MODULE PoolAndLogProofs --------------------------
(***************************************************************************)
(* Proofs about ThreadPool, for every number of workers, other threads,    *)
(* coroutines and stop handlers; and about the log daemon (L, of           *)
(* MCLogServer), for any peers, frames and limits that LogManager::Init    *)
(* accepts.                                                                *)
(*                                                                         *)
(* None of the pool's properties is inductive alone: the type of           *)
(* iIdleThreadCount needs IdleCounted, the pop needs PopNonEmpty, and      *)
(* NoUnattendedWork needs IdleCounted (a sleeper makes the counter         *)
(* positive, so the post notifies) and WaitInv (a worker goes to sleep     *)
(* only with an empty queue).  IInv collects them.                         *)
(*                                                                         *)
(* That Stop leaves nothing behind needs to know why a frame may still be  *)
(* in a buffer: OnDataIn is at it, or its session waits (BufferInv).       *)
(***************************************************************************)
EXTENDS ThreadPool, MCLogServer, FiniteSetTheorems, TLAPS

\* The holder of stMutex is the worker between lock and unlock.
MutexInv ==
  \A w \in Workers : pc[w] \in {"check", "wait", "leave"} <=> stMutex = w

\* Between its check and its Wait a worker holds the mutex, so the queue is as
\* empty as it was when the worker looked.
WaitInv == \A w \in Workers : pc[w] = "wait" => vCoroutines = <<>>

\* The workers exist once StartWork has been entered.
StartInv ==
  pc[Main] = "out" => \A w \in Workers : pc[w] = "none"

\* How far FinishStop is, and what is settled by then.
StopInv ==
  /\ bStop <=> pc[Poll] \in {"signalStop", "handshake", "broadcast", "after", "exited"}
  /\ bFinishPosted \/ pc[Poll] # "out" => m_bStopRequested
  /\ iHandler <= Len(m_vStopHandlers)
  /\ pc[Poll] = "setStop" \/ bStop => iHandler = Len(m_vStopHandlers)
  /\ pc[Main] \in {"handshake", "broadcast", "join", "joined"} => bStop
  /\ pc[Poll] \in {"broadcast", "after", "exited"} =>
       \A w \in Workers : pc[w] # "wait"

\* The conjuncts about where the threads are, and all of them.
Control == MutexInv /\ WaitInv /\ StartInv /\ StopInv /\ PopNonEmpty
             /\ NoSleeperAfterBroadcast

IInv == TypeOK /\ Control /\ IdleCounted /\ NoUnattendedWork

-----------------------------------------------------------------------------
\* The thread sets are finite, so the sets of threads the counters talk about
\* have a cardinality.
LEMMA FiniteThreads ==
  /\ IsFiniteSet(Threads)
  /\ IsFiniteSet(Idle) /\ Cardinality(Idle) \in Nat
  /\ IsFiniteSet(Awake) /\ Cardinality(Awake) \in Nat
  /\ IsFiniteSet(Signalling) /\ Cardinality(Signalling) \in Nat
<1>1. IsFiniteSet(Threads)
  <2>1. IsFiniteSet({Poll}) /\ IsFiniteSet({Main})
    BY FS_Singleton
  <2> QED
    <3>1. IsFiniteSet({Poll} \cup {Main})
      BY <2>1, FS_Union
    <3>2. Threads = (Workers \cup Others) \cup ({Poll} \cup {Main})
      BY DEF Threads
    <3> QED
      BY <3>1, <3>2, FS_Union, PoolAssumption
<1>2. Idle \subseteq Workers /\ Awake \subseteq Workers /\ Signalling \subseteq Threads
  BY DEF Idle, Awake, Signalling
<1> QED
  BY <1>1, <1>2, FS_Subset, FS_CardinalityType, PoolAssumption

\* A worker between iIdleThreadCount++ and -- makes the counter positive.
LEMMA IdlePositive ==
  ASSUME IInv, NEW w \in Idle
  PROVE  iIdleThreadCount \in Nat /\ iIdleThreadCount > 0
BY FiniteThreads, FS_AddElement, FS_RemoveElement, FS_CardinalityType, FS_EmptySet DEF IInv,
   IdleCounted

\* Every step keeps the types.
LEMMA TypeStep == IInv /\ [Next]_vars => TypeOK'
<1> SUFFICES ASSUME IInv, [Next]_vars PROVE TypeOK'
  OBVIOUS
<1> USE PoolAssumption DEF IInv, Threads, queueVars, coroVars, stopVars
<1>1. ASSUME NEW w \in Workers, Enter(w) PROVE TypeOK'
  BY <1>1 DEF Enter, TypeOK, WorkerPc, PollPc, MainPc
<1>2. ASSUME NEW w \in Workers, Check(w) PROVE TypeOK'
  BY <1>2 DEF Check, TypeOK, WorkerPc, PollPc, MainPc
<1>3. ASSUME NEW w \in Workers, Wait(w) PROVE TypeOK'
  BY <1>3 DEF Wait, TypeOK, WorkerPc, PollPc, MainPc
<1>4. ASSUME NEW w \in Workers, WakeSpuriously(w) PROVE TypeOK'
  BY <1>4 DEF WakeSpuriously, TypeOK, WorkerPc, PollPc, MainPc
<1>5. ASSUME NEW w \in Workers, Reacquire(w) PROVE TypeOK'
  BY <1>5 DEF Reacquire, TypeOK, WorkerPc, PollPc, MainPc
<1>6. ASSUME NEW w \in Workers, LeaveStopping(w) PROVE TypeOK'
  BY <1>6, IdlePositive DEF LeaveStopping, Idle, TypeOK, WorkerPc, PollPc, MainPc
<1>7. ASSUME NEW w \in Workers, LeaveWithCoroutine(w) PROVE TypeOK'
  BY <1>7, IdlePositive DEF LeaveWithCoroutine, Idle, Control, PopNonEmpty, TypeOK, WorkerPc,
     PollPc, MainPc
<1>8. ASSUME NEW w \in Workers, Suspend(w) PROVE TypeOK'
  BY <1>8 DEF Suspend, TypeOK, WorkerPc, PollPc, MainPc
<1>9. ASSUME NEW w \in Workers, ResumeReturns(w) PROVE TypeOK'
  BY <1>9 DEF ResumeReturns, TypeOK, WorkerPc, PollPc, MainPc
<1>10. ASSUME NEW t \in Threads, NEW c \in Coroutines, PostCoroutine(t, c) PROVE TypeOK'
  BY <1>10 DEF PostCoroutine, MayCall, TypeOK, WorkerPc, PollPc, MainPc
<1>11. ASSUME NEW t \in Threads, Signal(t) PROVE TypeOK'
  BY SMTT(20), <1>11 DEF Signal, Sleepers, TypeOK, WorkerPc, PollPc, MainPc
<1>12. ASSUME NEW t \in Threads, NEW h \in Handlers, AddStopHandler(t, h) PROVE TypeOK'
  BY <1>12 DEF AddStopHandler, MayCall, TypeOK, WorkerPc, PollPc, MainPc
<1>13. ASSUME NEW t \in Threads, NEW code \in Codes, RequestStop(t, code) PROVE TypeOK'
  <2>1. CASE t = Poll
    BY <1>13, <2>1 DEF RequestStop, TypeOK, WorkerPc, PollPc, MainPc
  <2>2. CASE t # Poll
    BY <1>13, <2>2 DEF RequestStop, TypeOK, WorkerPc, PollPc, MainPc
  <2> QED
    BY <2>1, <2>2
<1>14. CASE BeginFinishStop
  BY <1>14 DEF BeginFinishStop, TypeOK, WorkerPc, PollPc, MainPc
<1>15. CASE RunStopHandler
  BY <1>15 DEF RunStopHandler, TypeOK, WorkerPc, PollPc, MainPc
<1>16. CASE HandlersDone
  BY <1>16 DEF HandlersDone, TypeOK, WorkerPc, PollPc, MainPc
<1>17. CASE SetStop
  BY <1>17 DEF SetStop, TypeOK, WorkerPc, PollPc, MainPc
<1>18. CASE SignalStop
  BY <1>18 DEF SignalStop, TypeOK, WorkerPc, PollPc, MainPc
<1>19. CASE PollHandshake
  BY <1>19 DEF PollHandshake, Handshake, TypeOK, WorkerPc, PollPc, MainPc
<1>20. CASE PollBroadcast
  BY <1>20 DEF PollBroadcast, Broadcast, Sleepers, TypeOK, WorkerPc, PollPc, MainPc
<1>21. CASE StartWork
  BY <1>21 DEF StartWork, TypeOK, WorkerPc, PollPc, MainPc
<1>22. CASE MainCheck
  BY <1>22 DEF MainCheck, TypeOK, WorkerPc, PollPc, MainPc
<1>23. CASE MainHandshake
  BY <1>23 DEF MainHandshake, Handshake, TypeOK, WorkerPc, PollPc, MainPc
<1>24. CASE MainBroadcast
  BY <1>24 DEF MainBroadcast, Broadcast, Sleepers, TypeOK, WorkerPc, PollPc, MainPc
<1>25. CASE MainWakesSpuriously
  BY <1>25 DEF MainWakesSpuriously, TypeOK, WorkerPc, PollPc, MainPc
<1>26. CASE Join
  BY <1>26 DEF Join, TypeOK, WorkerPc, PollPc, MainPc
<1>27. CASE UNCHANGED vars
  BY <1>27 DEF vars, TypeOK, WorkerPc, PollPc, MainPc
<1> QED
  BY <1>1, <1>2, <1>3, <1>4, <1>5, <1>6, <1>7, <1>8, <1>9, <1>10, <1>11, <1>12, <1>13,
     <1>14, <1>15, <1>16, <1>17, <1>18, <1>19, <1>20, <1>21, <1>22, <1>23, <1>24, <1>25, <1>26,
        <1>27
     DEF Next, WorkerStep, Call, FinishStop, MainStep

\* Every step keeps the control conjuncts.
LEMMA ControlStep == IInv /\ [Next]_vars => Control'
<1> SUFFICES ASSUME IInv, [Next]_vars PROVE Control'
  OBVIOUS
<1> USE PoolAssumption DEF IInv, Threads, queueVars, coroVars, stopVars
<1>1. ASSUME NEW w \in Workers, Enter(w) PROVE Control'
  BY <1>1 DEF Enter, TypeOK, Control, MutexInv, WaitInv,
         StartInv, StopInv, PopNonEmpty, NoSleeperAfterBroadcast
<1>2. ASSUME NEW w \in Workers, Check(w) PROVE Control'
  BY <1>2 DEF Check, TypeOK, Control, MutexInv, WaitInv,
         StartInv, StopInv, PopNonEmpty, NoSleeperAfterBroadcast
<1>3. ASSUME NEW w \in Workers, Wait(w) PROVE Control'
  BY <1>3 DEF Wait, TypeOK, Control, MutexInv, WaitInv,
         StartInv, StopInv, PopNonEmpty, NoSleeperAfterBroadcast
<1>4. ASSUME NEW w \in Workers, WakeSpuriously(w) PROVE Control'
  BY <1>4 DEF WakeSpuriously, TypeOK, Control, MutexInv, WaitInv,
         StartInv, StopInv, PopNonEmpty, NoSleeperAfterBroadcast
<1>5. ASSUME NEW w \in Workers, Reacquire(w) PROVE Control'
  BY <1>5 DEF Reacquire, TypeOK, Control, MutexInv, WaitInv,
         StartInv, StopInv, PopNonEmpty, NoSleeperAfterBroadcast
<1>6. ASSUME NEW w \in Workers, LeaveStopping(w) PROVE Control'
  BY <1>6 DEF LeaveStopping, TypeOK, Control, MutexInv, WaitInv,
         StartInv, StopInv, PopNonEmpty, NoSleeperAfterBroadcast
<1>7. ASSUME NEW w \in Workers, LeaveWithCoroutine(w) PROVE Control'
  BY <1>7 DEF LeaveWithCoroutine, TypeOK, Control, MutexInv, WaitInv,
         StartInv, StopInv, PopNonEmpty, NoSleeperAfterBroadcast
<1>8. ASSUME NEW w \in Workers, Suspend(w) PROVE Control'
  BY <1>8 DEF Suspend, TypeOK, Control, MutexInv, WaitInv,
         StartInv, StopInv, PopNonEmpty, NoSleeperAfterBroadcast
<1>9. ASSUME NEW w \in Workers, ResumeReturns(w) PROVE Control'
  BY <1>9 DEF ResumeReturns, TypeOK, Control, MutexInv, WaitInv,
         StartInv, StopInv, PopNonEmpty, NoSleeperAfterBroadcast
<1>10. ASSUME NEW t \in Threads, NEW c \in Coroutines, PostCoroutine(t, c) PROVE Control'
  BY <1>10 DEF PostCoroutine, MayCall, TypeOK, Control, MutexInv, WaitInv,
         StartInv, StopInv, PopNonEmpty, NoSleeperAfterBroadcast
<1>11. ASSUME NEW t \in Threads, Signal(t) PROVE Control'
  BY <1>11 DEF Signal, Sleepers, TypeOK, Control, MutexInv, WaitInv,
         StartInv, StopInv, PopNonEmpty, NoSleeperAfterBroadcast
<1>12. ASSUME NEW t \in Threads, NEW h \in Handlers, AddStopHandler(t, h) PROVE Control'
  BY <1>12 DEF AddStopHandler, MayCall, TypeOK, Control, MutexInv, WaitInv,
         StartInv, StopInv, PopNonEmpty, NoSleeperAfterBroadcast
<1>13. ASSUME NEW t \in Threads, NEW code \in Codes, RequestStop(t, code) PROVE Control'
  BY <1>13 DEF RequestStop, MayCall, TypeOK, Control, MutexInv, WaitInv,
         StartInv, StopInv, PopNonEmpty, NoSleeperAfterBroadcast
<1>14. CASE BeginFinishStop
  BY <1>14 DEF BeginFinishStop, TypeOK, Control, MutexInv, WaitInv,
         StartInv, StopInv, PopNonEmpty, NoSleeperAfterBroadcast
<1>15. CASE RunStopHandler
  BY <1>15 DEF RunStopHandler, TypeOK, Control, MutexInv, WaitInv,
         StartInv, StopInv, PopNonEmpty, NoSleeperAfterBroadcast
<1>16. CASE HandlersDone
  BY <1>16 DEF HandlersDone, TypeOK, Control, MutexInv, WaitInv,
         StartInv, StopInv, PopNonEmpty, NoSleeperAfterBroadcast
<1>17. CASE SetStop
  BY <1>17 DEF SetStop, TypeOK, Control, MutexInv, WaitInv,
         StartInv, StopInv, PopNonEmpty, NoSleeperAfterBroadcast
<1>18. CASE SignalStop
  BY <1>18 DEF SignalStop, TypeOK, Control, MutexInv, WaitInv,
         StartInv, StopInv, PopNonEmpty, NoSleeperAfterBroadcast
<1>19. CASE PollHandshake
  BY <1>19 DEF PollHandshake, Handshake, TypeOK, Control, MutexInv, WaitInv,
         StartInv, StopInv, PopNonEmpty, NoSleeperAfterBroadcast
<1>20. CASE PollBroadcast
  BY <1>20 DEF PollBroadcast, Broadcast, Sleepers, TypeOK, Control, MutexInv, WaitInv,
         StartInv, StopInv, PopNonEmpty, NoSleeperAfterBroadcast
<1>21. CASE StartWork
  BY <1>21 DEF StartWork, TypeOK, Control, MutexInv, WaitInv,
         StartInv, StopInv, PopNonEmpty, NoSleeperAfterBroadcast
<1>22. CASE MainCheck
  BY <1>22 DEF MainCheck, TypeOK, Control, MutexInv, WaitInv,
         StartInv, StopInv, PopNonEmpty, NoSleeperAfterBroadcast
<1>23. CASE MainHandshake
  BY <1>23 DEF MainHandshake, Handshake, TypeOK, Control, MutexInv, WaitInv,
         StartInv, StopInv, PopNonEmpty, NoSleeperAfterBroadcast
<1>24. CASE MainBroadcast
  BY <1>24 DEF MainBroadcast, Broadcast, Sleepers, TypeOK, Control, MutexInv, WaitInv,
         StartInv, StopInv, PopNonEmpty, NoSleeperAfterBroadcast
<1>25. CASE MainWakesSpuriously
  BY <1>25 DEF MainWakesSpuriously, TypeOK, Control, MutexInv, WaitInv,
         StartInv, StopInv, PopNonEmpty, NoSleeperAfterBroadcast
<1>26. CASE Join
  BY <1>26 DEF Join, TypeOK, Control, MutexInv, WaitInv,
         StartInv, StopInv, PopNonEmpty, NoSleeperAfterBroadcast
<1>27. CASE UNCHANGED vars
  BY <1>27 DEF vars, TypeOK, Control, MutexInv, WaitInv,
         StartInv, StopInv, PopNonEmpty, NoSleeperAfterBroadcast
<1> QED
  BY <1>1, <1>2, <1>3, <1>4, <1>5, <1>6, <1>7, <1>8, <1>9, <1>10, <1>11, <1>12, <1>13,
     <1>14, <1>15, <1>16, <1>17, <1>18, <1>19, <1>20, <1>21, <1>22, <1>23, <1>24, <1>25, <1>26,
        <1>27
     DEF Next, WorkerStep, Call, FinishStop, MainStep

\* The two counting conjuncts.
Counts == IdleCounted /\ NoUnattendedWork

\* A step that moves no worker in or out of the counted places, posts nothing
\* and signals nothing keeps the counting conjuncts.
LEMMA CountsUntouched ==
  ASSUME IInv,
         UNCHANGED <<vCoroutines, iIdleThreadCount>>,
         Idle' = Idle, Awake' = Awake, Signalling' = Signalling,
         Sleepers' = Sleepers, bStop => bStop'
  PROVE  Counts'
BY DEF IInv, Counts, IdleCounted, NoUnattendedWork

\* Every step keeps the counting conjuncts.  The cases that matter: a post adds
\* a handle and, if anyone sleeps, a Signal; a Signal becomes an awake worker; an
\* awake worker takes a handle with it.
LEMMA CountsStep == IInv /\ [Next]_vars => Counts'
<1> SUFFICES ASSUME IInv, [Next]_vars PROVE Counts'
  OBVIOUS
<1> USE PoolAssumption DEF Threads, queueVars, coroVars, stopVars
<1>t. TypeOK /\ Control
  BY DEF IInv
<1>f. /\ IsFiniteSet(Idle) /\ IsFiniteSet(Awake) /\ IsFiniteSet(Signalling)
      /\ Cardinality(Idle) \in Nat /\ Cardinality(Awake) \in Nat
      /\ Cardinality(Signalling) \in Nat
  BY FiniteThreads
<1>g. Cardinality(Awake') \in Nat /\ Cardinality(Signalling') \in Nat
  <2>1. Awake' \subseteq Workers /\ Signalling' \subseteq Threads
    BY DEF Awake, Signalling
  <2> QED
    BY <2>1, FiniteThreads, FS_Subset, FS_CardinalityType
<1>1. ASSUME NEW w \in Workers, Enter(w) PROVE Counts'
  <2>1. Idle' = Idle \cup {w} /\ w \notin Idle
    BY <1>1, <1>t DEF Enter, TypeOK,
       Idle, Awake, Sleepers, Signalling
  <2>2. Awake' = Awake \cup {w} /\ w \notin Awake
    BY <1>1, <1>t DEF Enter, TypeOK,
       Idle, Awake, Sleepers, Signalling
  <2>3. Sleepers' = Sleepers /\ Signalling' = Signalling
    BY <1>1, <1>t DEF Enter, TypeOK,
       Idle, Awake, Sleepers, Signalling
  <2>4. Cardinality(Idle') = Cardinality(Idle) + 1
        /\ Cardinality(Awake') = Cardinality(Awake) + 1
    BY <2>1, <2>2, <1>f, FS_AddElement, FS_RemoveElement, FS_CardinalityType, FS_EmptySet
  <2> QED
    BY <1>1, <1>t, <1>f, <2>3, <2>4
       DEF Enter, TypeOK, IInv, Counts, IdleCounted, NoUnattendedWork
<1>2. ASSUME NEW w \in Workers, Check(w) PROVE Counts'
  <2>1. Idle' = Idle
    BY <1>2, <1>t DEF Check, TypeOK,
       Idle, Awake, Sleepers, Signalling
  <2>2. CASE vCoroutines = <<>>
    BY <1>2, <2>1, <2>2, <1>g
       DEF Check, IInv, Counts, IdleCounted, NoUnattendedWork
  <2>3. CASE vCoroutines # <<>>
    <3>1. Awake' = Awake /\ Sleepers' = Sleepers /\ Signalling' = Signalling
      BY <1>2, <2>3, <1>t DEF Check, TypeOK,
         Idle, Awake, Sleepers, Signalling
    <3> QED
      BY <1>2, <2>1, <3>1, CountsUntouched DEF Check
  <2> QED
    BY <2>2, <2>3
<1>3. ASSUME NEW w \in Workers, Wait(w) PROVE Counts'
  <2>1. Idle' = Idle
    BY <1>3, <1>t DEF Wait, TypeOK,
       Idle, Awake, Sleepers, Signalling
  <2>2. vCoroutines' = <<>>
    BY <1>3, <1>t DEF Wait, Control, WaitInv
  <2> QED
    BY <1>3, <2>1, <2>2, <1>g DEF Wait, IInv, Counts, IdleCounted, NoUnattendedWork
<1>4. ASSUME NEW w \in Workers, WakeSpuriously(w) PROVE Counts'
  <2>1. Idle' = Idle /\ Signalling' = Signalling
    BY <1>4, <1>t DEF WakeSpuriously, TypeOK,
       Idle, Awake, Sleepers, Signalling
  <2>2. Awake' = Awake \cup {w} /\ w \notin Awake /\ Sleepers # {}
    BY <1>4, <1>t DEF WakeSpuriously, TypeOK,
       Idle, Awake, Sleepers, Signalling
  <2>3. Cardinality(Awake') = Cardinality(Awake) + 1
    BY <2>2, <1>f, FS_AddElement, FS_RemoveElement, FS_CardinalityType, FS_EmptySet
  <2> QED
    BY SMTT(30), <1>4, <1>t, <1>f, <2>1, <2>2, <2>3
       DEF WakeSpuriously, TypeOK, IInv, Counts, IdleCounted, NoUnattendedWork
<1>5. ASSUME NEW w \in Workers, Reacquire(w) PROVE Counts'
  <2>1. Idle' = Idle /\ Awake' = Awake /\ Sleepers' = Sleepers
        /\ Signalling' = Signalling
    BY <1>5, <1>t DEF Reacquire, TypeOK,
       Idle, Awake, Sleepers, Signalling
  <2> QED
    BY <1>5, <2>1, CountsUntouched DEF Reacquire
<1>6. ASSUME NEW w \in Workers, LeaveStopping(w) PROVE Counts'
  <2>1. Idle' = Idle \ {w} /\ w \in Idle
    BY <1>6, <1>t DEF LeaveStopping, TypeOK,
       Idle, Awake, Sleepers, Signalling
  <2>2. Cardinality(Idle') = Cardinality(Idle) - 1
    BY <2>1, <1>f, FS_AddElement, FS_RemoveElement, FS_CardinalityType, FS_EmptySet
  <2> QED
    BY <1>6, <1>f, <2>2
       DEF LeaveStopping, IInv, Counts, IdleCounted, NoUnattendedWork
<1>7. ASSUME NEW w \in Workers, LeaveWithCoroutine(w) PROVE Counts'
  <2>1. Idle' = Idle \ {w} /\ w \in Idle
    BY <1>7, <1>t DEF LeaveWithCoroutine, TypeOK,
       Idle, Awake, Sleepers, Signalling
  <2>2. Awake' = Awake \ {w} /\ w \in Awake
    BY <1>7, <1>t DEF LeaveWithCoroutine, TypeOK,
       Idle, Awake, Sleepers, Signalling
  <2>3. Sleepers' = Sleepers /\ Signalling' = Signalling
    BY <1>7, <1>t DEF LeaveWithCoroutine, TypeOK,
       Idle, Awake, Sleepers, Signalling
  <2>4. Cardinality(Idle') = Cardinality(Idle) - 1
        /\ Cardinality(Awake') = Cardinality(Awake) - 1
    BY <2>1, <2>2, <1>f, FS_AddElement, FS_RemoveElement, FS_CardinalityType, FS_EmptySet
  <2>5. Len(vCoroutines') = Len(vCoroutines) - 1 /\ Len(vCoroutines) \in Nat
    BY <1>7, <1>t DEF LeaveWithCoroutine, TypeOK, Control, PopNonEmpty
  <2> QED
    BY SMTT(60), <1>7, <1>t, <1>f, <2>3, <2>4, <2>5
       DEF LeaveWithCoroutine, TypeOK, IInv, Counts, IdleCounted, NoUnattendedWork
<1>8. ASSUME NEW w \in Workers, Suspend(w) \/ ResumeReturns(w) PROVE Counts'
  <2>1. Idle' = Idle /\ Awake' = Awake /\ Sleepers' = Sleepers
        /\ Signalling' = Signalling
    BY <1>8, <1>t DEF Suspend, ResumeReturns, TypeOK,
       Idle, Awake, Sleepers, Signalling
  <2> QED
    BY <1>8, <2>1, CountsUntouched DEF Suspend, ResumeReturns
<1>9. ASSUME NEW t \in Threads, NEW c \in Coroutines, PostCoroutine(t, c)
      PROVE  Counts'
  <2>1. Idle' = Idle /\ Awake' = Awake /\ Sleepers' = Sleepers
    BY <1>9 DEF PostCoroutine,
       Idle, Awake, Sleepers, Signalling
  <2>2. Len(vCoroutines') = Len(vCoroutines) + 1 /\ Len(vCoroutines) \in Nat
    BY <1>9, <1>t DEF PostCoroutine, TypeOK
  <2>3. ASSUME Sleepers # {} PROVE Cardinality(Signalling') = Cardinality(Signalling) + 1
    <3>1. iIdleThreadCount > 0
      BY <2>3, IdlePositive DEF Idle, Sleepers
    <3>2. bWake' = [bWake EXCEPT ![t] = TRUE] /\ ~bWake[t]
      BY <3>1, <1>9 DEF PostCoroutine, MayCall
    <3>3. Signalling' = Signalling \cup {t} /\ t \notin Signalling
      BY <3>2, <1>t DEF TypeOK, Signalling
    <3> QED
      BY <3>3, <1>f, FS_AddElement, FS_RemoveElement, FS_CardinalityType, FS_EmptySet
  <2>4. UNCHANGED <<iIdleThreadCount, bStop>>
    BY Zenon, <1>9 DEF PostCoroutine, stopVars
  <2>5. IdleCounted'
    BY Zenon, <2>1, <2>4 DEF IInv, IdleCounted
  <2>6. NoUnattendedWork'
    <3> SUFFICES ASSUME ~bStop, Sleepers # {}
                 PROVE  Len(vCoroutines') <= Cardinality(Awake') + Cardinality(Signalling')
      BY Zenon, <2>1, <2>4 DEF NoUnattendedWork
    <3>1. Len(vCoroutines) <= Cardinality(Awake) + Cardinality(Signalling)
      BY Zenon DEF IInv, NoUnattendedWork
    <3>2. Cardinality(Awake') = Cardinality(Awake)
          /\ Cardinality(Signalling') = Cardinality(Signalling) + 1
      BY Zenon, <2>1, <2>3
    <3> QED
      BY <1>f, <2>2, <3>1, <3>2
  <2> QED
    BY Zenon, <2>5, <2>6 DEF Counts
<1>10. ASSUME NEW t \in Threads, Signal(t) PROVE Counts'
  <2>1. CASE Sleepers = {}
    <3>1. Idle' = Idle /\ Sleepers' = {}
      BY <1>10, <2>1 DEF Signal, Idle, Sleepers
    <3> QED
      BY <1>10, <2>1, <3>1 DEF Signal, IInv, Counts, IdleCounted, NoUnattendedWork
  <2>2. CASE Sleepers # {}
    <3>1. PICK w \in Sleepers : pc' = [pc EXCEPT ![w] = "woken"]
      BY <1>10, <2>2 DEF Signal
    <3>2. Idle' = Idle
      BY <3>1, <1>t DEF TypeOK,
         Idle, Awake, Sleepers, Signalling
    <3>3. Awake' = Awake \cup {w} /\ w \notin Awake
      BY <3>1, <1>t DEF TypeOK,
         Idle, Awake, Sleepers, Signalling
    <3>4. Signalling' = Signalling \ {t} /\ t \in Signalling
      BY <1>10, <1>t DEF Signal, TypeOK,
         Idle, Awake, Sleepers, Signalling
    <3>5. Cardinality(Awake') = Cardinality(Awake) + 1
          /\ Cardinality(Signalling') = Cardinality(Signalling) - 1
      BY <3>3, <3>4, <1>f, FS_AddElement, FS_RemoveElement, FS_CardinalityType, FS_EmptySet
    <3> QED
      BY SMTT(60), <1>10, <2>2, <1>t, <1>f, <3>2, <3>5
         DEF Signal, TypeOK, IInv, Counts, IdleCounted, NoUnattendedWork
  <2> QED
    BY <2>1, <2>2
<1>11. ASSUME NEW t \in Threads,
              \/ \E h \in Handlers : AddStopHandler(t, h)
              \/ \E code \in Codes : RequestStop(t, code)
       PROVE  Counts'
  <2>1. Idle' = Idle /\ Awake' = Awake /\ Sleepers' = Sleepers
        /\ Signalling' = Signalling
    BY <1>11, <1>t DEF AddStopHandler, RequestStop, TypeOK,
       Idle, Awake, Sleepers, Signalling
  <2> QED
    BY <1>11, <2>1, CountsUntouched DEF AddStopHandler, RequestStop
<1>12. CASE \/ BeginFinishStop \/ RunStopHandler \/ HandlersDone \/ SetStop
            \/ SignalStop \/ PollHandshake \/ MainCheck \/ MainHandshake
            \/ MainWakesSpuriously \/ Join
  <2>1. /\ Poll \notin Workers /\ Main \notin Workers /\ DOMAIN pc = Threads
        /\ Workers \subseteq Threads
    BY <1>t, PoolAssumption DEF TypeOK, Threads
  <2>2. /\ UNCHANGED <<queueVars, bWake>> /\ (bStop => bStop')
        /\ \A w \in Workers : pc'[w] = pc[w]
    <3>1. CASE BeginFinishStop \/ RunStopHandler
      BY <2>1, <3>1 DEF BeginFinishStop, RunStopHandler
    <3>2. CASE HandlersDone \/ SetStop
      BY <2>1, <3>2 DEF HandlersDone, SetStop, stopVars
    <3>3. CASE SignalStop
      BY <2>1, <3>3 DEF SignalStop, stopVars
    <3>4. CASE Join
      BY <2>1, <3>4 DEF Join, stopVars
    <3>5. CASE PollHandshake \/ MainHandshake
      BY <2>1, <3>5 DEF PollHandshake, MainHandshake, Handshake, stopVars
    <3>6. CASE MainCheck \/ MainWakesSpuriously
      BY <2>1, <3>6 DEF MainCheck, MainWakesSpuriously, stopVars
    <3> QED
      BY Zenon, <1>12, <3>1, <3>2, <3>3, <3>4, <3>5, <3>6
  <2>3. /\ Idle' = Idle /\ Awake' = Awake /\ Sleepers' = Sleepers /\ Signalling' = Signalling
        /\ UNCHANGED <<vCoroutines, iIdleThreadCount>>
    BY Zenon, <2>2 DEF Idle, Awake, Sleepers, Signalling, queueVars
  <2> QED
    BY Zenon, <2>2, <2>3, CountsUntouched
<1>13. CASE PollBroadcast \/ MainBroadcast
  <2>1. bStop' /\ Idle' = Idle
    BY <1>13, <1>t DEF PollBroadcast, MainBroadcast, Broadcast, TypeOK, Control, StopInv,
       Idle, Awake, Sleepers, Signalling
  <2> QED
    BY <1>13, <2>1 DEF PollBroadcast, MainBroadcast, Broadcast, IInv, Counts,
                       IdleCounted, NoUnattendedWork
<1>14. CASE StartWork
  <2>1. Idle' = Idle /\ Sleepers' = {}
    BY <1>14, <1>t DEF StartWork, TypeOK, Control, StartInv,
       Idle, Awake, Sleepers, Signalling
  <2> QED
    BY <1>14, <2>1 DEF StartWork, IInv, Counts, IdleCounted, NoUnattendedWork
<1>15. CASE UNCHANGED vars
  BY <1>15, CountsUntouched DEF vars, Idle, Awake, Sleepers, Signalling
<1> QED
  BY <1>1, <1>2, <1>3, <1>4, <1>5, <1>6, <1>7, <1>8, <1>9, <1>10, <1>11, <1>12,
     <1>13,
     <1>14, <1>15
     DEF Next, WorkerStep, Call, FinishStop, MainStep

-----------------------------------------------------------------------------
\* A pool that has not started satisfies IInv.
LEMMA InitIInv == Init => IInv
<1> SUFFICES ASSUME Init PROVE IInv
  OBVIOUS
<1> USE PoolAssumption DEF Init, Threads
<1>1. TypeOK
  <2>1. pc \in [Threads -> WorkerPc \cup PollPc \cup MainPc]
    BY DEF WorkerPc, PollPc, MainPc
  <2>2. /\ \A w \in Workers : pc[w] \in WorkerPc
        /\ pc[Poll] \in PollPc /\ pc[Main] \in MainPc
        /\ \A t \in Others : pc[t] = "out"
    BY DEF WorkerPc, PollPc, MainPc
  <2>3. bWake \in [Threads -> BOOLEAN] /\ running \in [Workers -> Coroutines \cup {None}]
    OBVIOUS
  <2>4. vCoroutines \in Seq(Coroutines) /\ m_vStopHandlers \in Seq(Handlers)
    OBVIOUS
  <2> QED
    BY <2>1, <2>2, <2>3, <2>4 DEF TypeOK
<1>2. Control
  BY DEF Control, MutexInv, WaitInv, StartInv, StopInv, PopNonEmpty,
         NoSleeperAfterBroadcast
<1>3. Idle = {} /\ Sleepers = {}
  BY DEF Idle, Sleepers
<1> QED
  BY <1>1, <1>2, <1>3, FS_EmptySet DEF IInv, IdleCounted, NoUnattendedWork

\* IInv is an invariant of the pool.
THEOREM PoolInvariant == Spec => []IInv
<1>1. IInv /\ [Next]_vars => IInv'
  BY TypeStep, ControlStep, CountsStep DEF IInv, Counts
<1> QED
  BY <1>1, InitIInv, PTL DEF Spec

\* The pool's state is well-typed: in particular iIdleThreadCount never goes
\* below zero and a pop always finds a handle of the queue.
THEOREM PoolTypeCorrect == Spec => []TypeOK
BY PoolInvariant, PTL DEF IInv

\* PostCoroutine's conditional notify after the unlock misses no wakeup: while a
\* worker sleeps each queued handle has a wakeup of its own on the way.
THEOREM PoolNoUnattendedWork == Spec => []NoUnattendedWork
BY PoolInvariant, PTL DEF IInv

\* front() and pop_front() in WorkerMain never meet an empty deque.
THEOREM PoolPopNonEmpty == Spec => []PopNonEmpty
<1>1. IInv => PopNonEmpty
  BY DEF IInv, Control
<1> QED
  BY <1>1, PoolInvariant, PTL

\* iIdleThreadCount is the number of workers between ++ and --.
THEOREM PoolIdleCounted == Spec => []IdleCounted
BY PoolInvariant, PTL DEF IInv

\* The lock handshake before Broadcast in FinishStop leaves no worker asleep.
THEOREM PoolNoSleeperAfterBroadcast == Spec => []NoSleeperAfterBroadcast
<1>1. IInv => NoSleeperAfterBroadcast
  BY DEF IInv, Control
<1> QED
  BY <1>1, PoolInvariant, PTL

\* Every accepted stop handler has run when bStop is set.
THEOREM PoolHandlersRunBeforeStop == Spec => []HandlersRunBeforeStop
<1>1. IInv => HandlersRunBeforeStop
  BY DEF IInv, Control, StopInv, HandlersRunBeforeStop
<1> QED
  BY <1>1, PoolInvariant, PTL

\* No step changes the handler list after RequestStop.
THEOREM PoolHandlersFrozen == Spec => HandlersFrozenOnceRequested
<1>1. [Next]_vars => [m_bStopRequested => m_vStopHandlers' = m_vStopHandlers]_vars
  <2> SUFFICES ASSUME [Next]_vars, m_bStopRequested
               PROVE  m_vStopHandlers' = m_vStopHandlers
    OBVIOUS
  <2> USE DEF stopVars, queueVars, coroVars
  <2>1. ASSUME NEW w \in Workers, WorkerStep(w) \/ WakeSpuriously(w)
        PROVE  m_vStopHandlers' = m_vStopHandlers
    BY <2>1 DEF WorkerStep, WakeSpuriously, Enter, Check, Wait, Reacquire,
                LeaveStopping, LeaveWithCoroutine, Suspend, ResumeReturns
  <2>2. ASSUME NEW t \in Threads, Call(t) \/ Signal(t)
        PROVE  m_vStopHandlers' = m_vStopHandlers
    BY <2>2 DEF Call, PostCoroutine, AddStopHandler, RequestStop, Signal
  <2>3. CASE FinishStop
    BY <2>3 DEF FinishStop, BeginFinishStop, RunStopHandler, HandlersDone, SetStop,
                SignalStop, PollHandshake, PollBroadcast, Handshake, Broadcast
  <2>4. CASE StartWork \/ MainStep \/ MainWakesSpuriously
    BY <2>4 DEF StartWork, MainStep, MainWakesSpuriously, MainCheck, MainHandshake,
                MainBroadcast, Join, Handshake, Broadcast
  <2>5. CASE UNCHANGED vars
    BY <2>5 DEF vars
  <2> QED
    BY <2>1, <2>2, <2>3, <2>4, <2>5 DEF Next
<1> QED
  BY <1>1, PTL DEF Spec, HandlersFrozenOnceRequested

\* The three things WorkerMain and FinishStop rely on, together.
THEOREM PoolSoundness == Spec => []PoolSound
<1>1. NoUnattendedWork /\ PopNonEmpty /\ HandlersRunBeforeStop => PoolSound
  BY DEF PoolSound
<1> QED
  BY <1>1, PoolNoUnattendedWork, PoolPopNonEmpty, PoolHandlersRunBeforeStop, PTL

-----------------------------------------------------------------------------
LEMMA AppendFacts ==
  ASSUME NEW S, NEW q \in Seq(S), NEW e \in S
  PROVE  /\ Append(q, e) \in Seq(S) /\ Append(q, e) # <<>>
         /\ Len(q) \in Nat /\ DOMAIN q = 1..Len(q) /\ Len(Append(q, e)) = Len(q) + 1
         /\ DOMAIN Append(q, e) = 1..(Len(q) + 1)
         /\ Append(q, e)[Len(q) + 1] = e
         /\ \A i \in 1..Len(q) : Append(q, e)[i] = q[i]
OBVIOUS

LEMMA AppendIn ==
  ASSUME NEW S, NEW q \in Seq(S), NEW e \in S
  PROVE  Append(q, e) \in Seq(S) /\ Append(q, e) # <<>>
BY AppendFacts

LEMMA TailFacts ==
  ASSUME NEW S, NEW q \in Seq(S), q # <<>>
  PROVE  /\ Len(q) \in Nat /\ DOMAIN q = 1..Len(q) /\ Len(q) > 0 /\ 1 \in DOMAIN q
         /\ Head(q) = q[1] /\ Head(q) \in S /\ Tail(q) \in Seq(S)
         /\ Len(Tail(q)) = Len(q) - 1 /\ DOMAIN Tail(q) = 1..(Len(q) - 1)
         /\ \A i \in DOMAIN Tail(q) : i + 1 \in DOMAIN q /\ Tail(q)[i] = q[i + 1]
OBVIOUS

\* A set of naturals that is not empty has a least element.
LEMMA LeastNat ==
  ASSUME NEW T, T \subseteq Nat, T # {}
  PROVE  \E x \in T : \A y \in T : x <= y
<1> DEFINE Less == OpToRel(<, Nat)
<1>1. IsWellFoundedOn(Less, Nat)
  BY NatLessThanWellFounded
<1>2. \A x, y \in Nat : y < x => <<y, x>> \in Less
  BY DEF OpToRel
<1> HIDE DEF Less
<1>3. PICK x \in T : \A y \in T : ~(<<y, x>> \in Less)
  BY Zenon, <1>1, WFMin
<1>4. \A y \in T : ~(y < x)
  BY Zenon, <1>2, <1>3
<1>5. \A y \in T : x <= y
  BY <1>4
<1> QED
  BY <1>5

-----------------------------------------------------------------------------
(* The bytes of a queue of commands or logs *)

\* What SumBytes of the service computes.
Bytes(q) ==
  LET sum[n \in 0..Len(q)] == IF n = 0 THEN 0 ELSE sum[n - 1] + q[n].bytes
  IN sum[Len(q)]

\* p[i] is the sum of the first i elements of q, up to n of them.
PrefixSum(p, q, n) ==
  /\ p \in [0..n -> Int] /\ p[0] = 0
  /\ \A i \in 1..n : p[i] = p[i - 1] + q[i].bytes

PrefixSums(p, q) == PrefixSum(p, q, Len(q))

\* There are prefix sums: the recursive definition of SumBytes defines some.
LEMMA PrefixSumsExist ==
  ASSUME NEW S, \A e \in S : e.bytes \in Nat, NEW q \in Seq(S)
  PROVE  \E p : PrefixSums(p, q)
<1> DEFINE Bad == {n \in 0..Len(q) : ~\E p : PrefixSum(p, q, n)}
<1>0. Len(q) \in Nat /\ Bad \subseteq Nat /\ \A i \in 1..Len(q) : q[i].bytes \in Nat
  OBVIOUS
<1>1. ASSUME Bad # {} PROVE FALSE
  <2>1. PICK n \in Bad : \A m \in Bad : n <= m
    BY Zenon, <1>0, <1>1, LeastNat
  <2>2. n # 0
    <3> DEFINE p == [i \in 0..0 |-> 0]
    <3>1. p \in [0..0 -> Int] /\ p[0] = 0 /\ 1..0 = {}
      OBVIOUS
    <3> HIDE DEF p
    <3>2. PrefixSum(p, q, 0)
      BY <3>1 DEF PrefixSum
    <3> QED
      BY Zenon, <2>1, <3>2
  <2>3. n \in 1..Len(q) /\ n - 1 \in 0..Len(q) /\ n - 1 \notin Bad
    <3>1. n \in 0..Len(q)
      BY Zenon, <2>1
    <3>2. n \in 1..Len(q) /\ n - 1 \in 0..Len(q) /\ ~(n <= n - 1)
      BY <1>0, <2>2, <3>1
    <3> QED
      BY Zenon, <2>1, <3>2
  <2>4. PICK p : PrefixSum(p, q, n - 1)
    BY Zenon, <2>3
  <2>5. /\ p \in [0..(n - 1) -> Int] /\ p[0] = 0
        /\ \A i \in 1..(n - 1) : p[i] = p[i - 1] + q[i].bytes
    BY Zenon, <2>4 DEF PrefixSum
  <2> DEFINE g == [i \in 0..n |-> IF i = n THEN p[n - 1] + q[n].bytes ELSE p[i]]
  <2>6. p[n - 1] + q[n].bytes \in Int
    BY <1>0, <2>3, <2>5
  <2>7. \A i \in 0..n : i # n => i \in 0..(n - 1)
    BY <2>3
  <2>8. g \in [0..n -> Int]
    BY <2>5, <2>6, <2>7
  <2>9. g[0] = 0
    BY <2>3, <2>5
  <2>10. ASSUME NEW i \in 1..n
         PROVE  g[i] = g[i - 1] + q[i].bytes
    <3>1. i - 1 \in 0..n /\ i - 1 # n /\ i \in 0..n /\ (i # n => i \in 1..(n - 1))
      BY <2>3
    <3>2. g[i - 1] = p[i - 1]
      BY Zenon, <3>1
    <3>3. g[i] = p[i - 1] + q[i].bytes
      BY Zenon, <2>5, <3>1
    <3> QED
      BY Zenon, <3>2, <3>3
  <2> HIDE DEF g
  <2>11. PrefixSum(g, q, n)
    BY Zenon, <2>8, <2>9, <2>10 DEF PrefixSum
  <2> QED
    BY Zenon, <2>1, <2>11
<1>2. Len(q) \in 0..Len(q)
  BY <1>0
<1> QED
  BY Zenon, <1>1, <1>2 DEF PrefixSums

\* Two functions on 0..n that agree at 0 and step alike agree.
LEMMA StepAlike ==
  ASSUME NEW n \in Nat, NEW f, NEW h, f[0] = h[0],
         \A i \in 1..n : f[i - 1] = h[i - 1] => f[i] = h[i]
  PROVE  f[n] = h[n]
<1> DEFINE Bad == {i \in 0..n : f[i] # h[i]}
<1> SUFFICES ASSUME Bad # {} PROVE FALSE
  OBVIOUS
<1>0. Bad \subseteq Nat
  OBVIOUS
<1>1. PICK i \in Bad : \A j \in Bad : i <= j
  BY Zenon, <1>0, LeastNat
<1>2. i \in 1..n /\ i - 1 \in 0..n /\ i - 1 \notin Bad
  BY <1>1
<1> QED
  BY <1>1, <1>2

\* SumBytes is the last of the prefix sums.
LEMMA BytesPrefix ==
  ASSUME NEW S, \A e \in S : e.bytes \in Nat, NEW q \in Seq(S)
  PROVE  \E p : PrefixSums(p, q) /\ Bytes(q) = p[Len(q)]
<1> DEFINE N == 0..Len(q)
           Eq(p) == p = [n \in N |-> IF n = 0 THEN 0 ELSE p[n - 1] + q[n].bytes]
           H == CHOOSE p : Eq(p)
<1>0. Len(q) \in Nat /\ 0 \in N /\ \A i \in 1..Len(q) : i \in N /\ i # 0
  OBVIOUS
<1>1. Bytes(q) = H[Len(q)]
  BY Zenon DEF Bytes
<1>2. PICK p : PrefixSums(p, q)
  BY Zenon, PrefixSumsExist
<1>3. /\ p \in [N -> Int] /\ p[0] = 0
      /\ \A i \in 1..Len(q) : p[i] = p[i - 1] + q[i].bytes
  BY Zenon, <1>2 DEF PrefixSums, PrefixSum
<1>4. \A n \in N : p[n] = IF n = 0 THEN 0 ELSE p[n - 1] + q[n].bytes
  <2>1. \A n \in N : n # 0 => n \in 1..Len(q)
    BY <1>0
  <2> QED
    BY Zenon, <1>3, <2>1
<1> HIDE DEF N
<1>5. Eq(p)
  BY Zenon, <1>3, <1>4
<1> HIDE DEF Eq
<1>6. Eq(H)
  BY Zenon, <1>5
<1> HIDE DEF H
<1>7. H[0] = 0 /\ \A i \in 1..Len(q) : H[i] = H[i - 1] + q[i].bytes
  BY Zenon, <1>0, <1>6 DEF Eq
<1>8. H[0] = p[0] /\ \A i \in 1..Len(q) : H[i - 1] = p[i - 1] => H[i] = p[i]
  BY Zenon, <1>3, <1>7
<1>9. H[Len(q)] = p[Len(q)]
  BY Zenon, <1>0, <1>8, StepAlike
<1> QED
  BY Zenon, <1>1, <1>2, <1>9

\* SumBytes is a natural number.
LEMMA BytesNat ==
  ASSUME NEW S, \A e \in S : e.bytes \in Nat, NEW q \in Seq(S)
  PROVE  Bytes(q) \in Nat
<1>1. PICK p : PrefixSums(p, q) /\ Bytes(q) = p[Len(q)]
  BY Zenon, BytesPrefix
<1>2. Len(q) \in Nat /\ p \in [0..Len(q) -> Int]
  BY <1>1 DEF PrefixSums, PrefixSum
<1> DEFINE Bad == {i \in 0..Len(q) : ~(p[i] >= 0)}
<1>3. ASSUME Bad # {} PROVE FALSE
  <2>0. Bad \subseteq Nat
    BY <1>2
  <2>1. PICK i \in Bad : \A j \in Bad : i <= j
    BY Zenon, <1>3, <2>0, LeastNat
  <2>2. i # 0
    BY <1>1, <2>1 DEF PrefixSums, PrefixSum
  <2>3. i \in 1..Len(q) /\ i - 1 \in 0..Len(q) /\ i - 1 \notin Bad
    BY <1>2, <2>1, <2>2
  <2>4. p[i] = p[i - 1] + q[i].bytes /\ q[i].bytes \in Nat
    BY <1>1, <2>3 DEF PrefixSums, PrefixSum
  <2>5. p[i - 1] \in Int /\ p[i - 1] >= 0
    BY <1>2, <2>3
  <2>6. ~(p[i] >= 0)
    BY <2>1
  <2> QED
    BY <2>4, <2>5, <2>6
<1> QED
  BY <1>1, <1>2, <1>3

LEMMA BytesEmpty == Bytes(<<>>) = 0
<1>1. <<>> \in Seq({}) /\ Len(<<>>) = 0
  OBVIOUS
<1>2. PICK p : PrefixSums(p, <<>>) /\ Bytes(<<>>) = p[Len(<<>>)]
  BY <1>1, BytesPrefix
<1> QED
  BY <1>1, <1>2 DEF PrefixSums, PrefixSum

\* One element more adds its bytes.
LEMMA BytesAppend ==
  ASSUME NEW S, \A e \in S : e.bytes \in Nat, NEW q \in Seq(S), NEW x \in S
  PROVE  Bytes(Append(q, x)) = Bytes(q) + x.bytes
<1> DEFINE r == Append(q, x)
<1>1. r \in Seq(S) /\ Len(q) \in Nat /\ Len(r) = Len(q) + 1 /\ r[Len(q) + 1] = x
      /\ \A i \in 1..Len(q) : r[i] = q[i]
  BY AppendFacts
<1> HIDE DEF r
<1>2. PICK p : PrefixSums(p, q) /\ Bytes(q) = p[Len(q)]
  BY Zenon, BytesPrefix
<1>3. PICK t : PrefixSums(t, r) /\ Bytes(r) = t[Len(r)]
  BY Zenon, <1>1, BytesPrefix
<1>4. t[0] = p[0]
  BY <1>2, <1>3 DEF PrefixSums, PrefixSum
<1>5. \A i \in 1..Len(q) : t[i - 1] = p[i - 1] => t[i] = p[i]
  <2> SUFFICES ASSUME NEW i \in 1..Len(q), t[i - 1] = p[i - 1] PROVE t[i] = p[i]
    OBVIOUS
  <2>1. p[i] = p[i - 1] + q[i].bytes
    BY <1>2 DEF PrefixSums, PrefixSum
  <2>2. i \in 1..Len(r) /\ r[i] = q[i]
    BY <1>1
  <2>3. t[i] = t[i - 1] + r[i].bytes
    BY <1>3, <2>2 DEF PrefixSums, PrefixSum
  <2> QED
    BY <2>1, <2>2, <2>3
<1>6. t[Len(q)] = p[Len(q)]
  BY Zenon, <1>1, <1>4, <1>5, StepAlike
<1>7. Len(q) + 1 \in 1..Len(r) /\ (Len(q) + 1) - 1 = Len(q)
  BY <1>1
<1>8. t[Len(q) + 1] = t[(Len(q) + 1) - 1] + r[Len(q) + 1].bytes
  BY <1>3, <1>7 DEF PrefixSums, PrefixSum
<1> QED
  BY <1>1, <1>2, <1>3, <1>6, <1>7, <1>8 DEF r

-----------------------------------------------------------------------------
(* LogServer *)

\* The logs of a session among some.
OfSession(q, s) == {i \in DOMAIN q : q[i].who = s}

LEMMA CountIs == ASSUME NEW q, NEW s PROVE L!Count(q, s) = Cardinality(OfSession(q, s))
  BY Zenon DEF L!Count, L!Cardinality, Cardinality, OfSession

LEMMA SumBytesIs == ASSUME NEW q PROVE L!SumBytes(q) = Bytes(q)
  BY Zenon DEF L!SumBytes, Bytes

LEMMA CountFacts ==
  ASSUME NEW S, NEW q \in Seq(S), NEW s
  PROVE  IsFiniteSet(OfSession(q, s)) /\ L!Count(q, s) \in Nat
<1>1. OfSession(q, s) \subseteq 1..Len(q) /\ IsFiniteSet(1..Len(q))
  BY FS_Interval DEF OfSession
<1>2. IsFiniteSet(OfSession(q, s))
  BY Zenon, <1>1, FS_Subset
<1> QED
  BY Zenon, <1>2, FS_CardinalityType, CountIs

LEMMA CountEmpty == ASSUME NEW s PROVE L!Count(<<>>, s) = 0
<1>1. OfSession(<<>>, s) = {}
  BY DEF OfSession
<1> QED
  BY Zenon, <1>1, FS_EmptySet, CountIs

\* A log more is one more of its session.
LEMMA CountAppend ==
  ASSUME NEW S, NEW q \in Seq(S), NEW x \in S, NEW s
  PROVE  L!Count(Append(q, x), s) = L!Count(q, s) + IF x.who = s THEN 1 ELSE 0
<1> DEFINE n == Len(q) + 1
           r == Append(q, x)
<1>1. /\ n \notin DOMAIN q /\ DOMAIN r = DOMAIN q \cup {n} /\ r[n] = x
      /\ \A i \in DOMAIN q : r[i] = q[i]
  BY AppendFacts
<1> HIDE DEF n, r
<1>2. IsFiniteSet(OfSession(q, s)) /\ L!Count(q, s) \in Nat
  BY Zenon, CountFacts
<1>3. n \notin OfSession(q, s)
  BY Zenon, <1>1 DEF OfSession
<1>4. CASE x.who = s
  <2>1. OfSession(r, s) = OfSession(q, s) \cup {n}
    BY <1>1, <1>4 DEF OfSession
  <2>2. Cardinality(OfSession(r, s)) = Cardinality(OfSession(q, s)) + 1
    BY Zenon, <1>2, <1>3, <2>1, FS_AddElement
  <2> QED
    BY Zenon, <1>4, <2>2, CountIs DEF r
<1>5. CASE x.who # s
  <2>1. OfSession(r, s) = OfSession(q, s)
    BY <1>1, <1>5 DEF OfSession
  <2>2. L!Count(r, s) = L!Count(q, s)
    BY Zenon, <2>1, CountIs
  <2>3. L!Count(q, s) + 0 = L!Count(q, s)
    BY <1>2
  <2> QED
    BY Zenon, <1>5, <2>2, <2>3 DEF r
<1> QED
  BY <1>4, <1>5

Logs == [who : Peers \cup {L!Local}, bytes : Nat]
Waits == [sid : Peers, bytes : Nat]
Inputs == [at : {"idle", "input", "ended"}, sid : Peers \cup {L!NoOne}, frames : Nat]

FrameType ==
  /\ received \in [Peers -> Nat] /\ written \in [Peers -> Nat]
  /\ stInputBuffer \in [Peers -> Seq(L!FrameLengths)]
  /\ m_vLogs \in Seq(Logs) /\ vWriting \in Seq(Logs) /\ m_iPendingBytes \in Int

WaitType ==
  /\ m_bWaiting \in [Peers -> BOOLEAN] /\ m_vWaitingSessions \in Seq(Waits)
  /\ logPoll \in Inputs /\ (logPoll.at = "idle" => logPoll = L!Idle)
  /\ (logPoll.at # "idle" => logPoll.sid \in Peers)

\* A frame in a buffer is one that OnDataIn is at, or its session waits; and a session that
\* waits is in the queue.
BufferInv ==
  \A s \in Peers :
    /\ stInputBuffer[s] # <<>> => m_bWaiting[s] \/ (logPoll.at = "input" /\ logPoll.sid = s)
    /\ m_bWaiting[s] => \E i \in DOMAIN m_vWaitingSessions : m_vWaitingSessions[i].sid = s

\* Where the writer and Stop are.
PhaseInv ==
  /\ writer # "writing" => vWriting = <<>>
  /\ m_bQuit <=> stop \in {"join", "returned"}
  /\ m_bQuit => m_vWaitingSessions = <<>> /\ logPoll = L!Idle
  /\ writer = "ended" => m_bQuit /\ m_vLogs = <<>>
  /\ stop = "returned" => writer = "ended"

LogInv == FrameType /\ WaitType /\ BufferInv /\ PhaseInv /\ L!NothingLost

-----------------------------------------------------------------------------
\* The next frame of a session always fits an empty account: LogManager::Init has seen to it.
LEMMA NextFrame ==
  ASSUME FrameType, NEW s \in Peers, stInputBuffer[s] # <<>>
  PROVE  /\ Head(stInputBuffer[s]) \in Nat /\ ~L!TooLong(Head(stInputBuffer[s]))
         /\ Tail(stInputBuffer[s]) \in Seq(L!FrameLengths)
         /\ Len(Tail(stInputBuffer[s])) = Len(stInputBuffer[s]) - 1
         /\ Len(stInputBuffer[s]) \in Nat
<1>1. stInputBuffer[s] \in Seq(L!FrameLengths)
  BY DEF FrameType
<1>2. /\ Head(stInputBuffer[s]) \in L!FrameLengths
      /\ Tail(stInputBuffer[s]) \in Seq(L!FrameLengths)
      /\ Len(Tail(stInputBuffer[s])) = Len(stInputBuffer[s]) - 1 /\ Len(stInputBuffer[s]) \in Nat
  BY <1>1, TailFacts
<1> DEFINE h == Head(stInputBuffer[s])
<1>3. h \in Nat /\ h <= m_iMaxLogBytes - Title
  <2>1. h = 0 \/ h = LOG_FRAME_MAX - 1
    BY <1>2 DEF L!FrameLengths
  <2> HIDE DEF h
  <2> QED
    BY <2>1, LogAssumption
<1>4. ~L!TooLong(h)
  <2> HIDE DEF h
  <2> QED
    BY <1>3, LogAssumption DEF L!TooLong
<1> QED
  BY Zenon, <1>2, <1>3, <1>4

\* What the actions of the log daemon do to its queues.
Queued(who, bytes) ==
  /\ m_vLogs' = Append(m_vLogs, [who |-> who, bytes |-> bytes])
  /\ m_iPendingBytes' = m_iPendingBytes + bytes
  /\ m_iPendingBytes' <= m_iMaxLogBytes /\ vWriting' = vWriting /\ written' = written

frameVars ==
  <<received, stInputBuffer, m_vLogs, vWriting, written, m_iPendingBytes>>

\* What the account of a step that queues a log becomes.
LEMMA QueuedIs ==
  ASSUME FrameType, NEW who, NEW bytes \in Nat, ~L!MustWait(who, bytes), L!AddLog(who, bytes),
         UNCHANGED <<vWriting, written>>
  PROVE  Queued(who, bytes)
<1>1. ~L!Full(bytes)
  BY Zenon DEF L!MustWait
<1>2. m_iPendingBytes \in Int /\ m_iMaxLogBytes \in Nat
  BY LogAssumption DEF FrameType
<1>3. m_iPendingBytes + bytes <= m_iMaxLogBytes
  BY <1>1, <1>2 DEF L!Full
<1> QED
  BY Zenon, <1>3 DEF Queued, L!AddLog

\* Every other action leaves the frames where they are.
LEMMA FramesStay ==
  ASSUME \/ L!DeferWrite \/ L!WriteRefused \/ L!InputEnds \/ L!ResumeOnLoop
         \/ L!StopResumes \/ L!StopChecks \/ L!StopReturns \/ L!StopBegins \/ L!WriterSleeps
         \/ UNCHANGED L!vars
  PROVE  UNCHANGED frameVars
<1> USE DEF frameVars, L!inputVars, L!writerVars, L!managerVars
<1>1. CASE L!DeferWrite
  BY Zenon, <1>1 DEF L!DeferWrite, L!QueueWaiter
<1>2. CASE L!WriteRefused
  BY Zenon, <1>2 DEF L!WriteRefused, L!QueueWaiter, L!KeepRefused
<1>3. CASE L!InputEnds
  BY Zenon, <1>3 DEF L!InputEnds
<1>4. CASE L!ResumeOnLoop \/ L!StopResumes
  BY Zenon, <1>4 DEF L!ResumeOnLoop, L!StopResumes, L!ResumeWaiting
<1>5. CASE L!StopChecks \/ L!StopReturns \/ L!StopBegins
  BY Zenon, <1>5 DEF L!StopChecks, L!StopReturns, L!StopBegins
<1>6. CASE L!WriterSleeps \/ UNCHANGED L!vars
  BY Zenon, <1>6 DEF L!WriterSleeps, L!vars
<1> QED
  BY <1>1, <1>2, <1>3, <1>4, <1>5, <1>6

\* A queued log is of the right type, and the sums and counts move by it.
LEMMA QueuedFacts ==
  ASSUME FrameType, NEW who \in Peers \cup {L!Local}, NEW bytes \in Nat, Queued(who, bytes)
  PROVE  /\ m_vLogs' \in Seq(Logs) /\ m_vLogs' # <<>> /\ m_iPendingBytes' \in Int
         /\ L!SumBytes(m_vLogs') = L!SumBytes(m_vLogs) + bytes
         /\ \A s : L!Count(m_vLogs', s) = L!Count(m_vLogs, s) + IF who = s THEN 1 ELSE 0
<1> DEFINE x == [who |-> who, bytes |-> bytes]
<1>1. x \in Logs /\ x.who = who /\ x.bytes = bytes /\ \A e \in Logs : e.bytes \in Nat
  BY DEF Logs
<1>2. m_vLogs \in Seq(Logs) /\ m_iPendingBytes \in Int
  BY DEF FrameType
<1>3. m_vLogs' = Append(m_vLogs, x) /\ m_iPendingBytes' = m_iPendingBytes + bytes
  BY DEF Queued
<1> HIDE DEF x
<1>a. Append(m_vLogs, x) \in Seq(Logs) /\ Append(m_vLogs, x) # <<>>
  BY Zenon, <1>1, <1>2, AppendIn
<1>4. m_vLogs' \in Seq(Logs) /\ m_vLogs' # <<>>
  BY Zenon, <1>3, <1>a
<1>5. m_iPendingBytes' \in Int
  BY <1>2, <1>3
<1>6. L!SumBytes(m_vLogs') = L!SumBytes(m_vLogs) + bytes
  <2>1. Bytes(Append(m_vLogs, x)) = Bytes(m_vLogs) + x.bytes
    BY Zenon, <1>1, <1>2, BytesAppend
  <2> QED
    BY Zenon, <1>1, <1>3, <2>1, SumBytesIs
<1>7. ASSUME NEW s
      PROVE  L!Count(m_vLogs', s) = L!Count(m_vLogs, s) + IF who = s THEN 1 ELSE 0
  <2>1. L!Count(Append(m_vLogs, x), s) = L!Count(m_vLogs, s) + IF x.who = s THEN 1 ELSE 0
    BY Zenon, <1>1, <1>2, CountAppend
  <2> QED
    BY Zenon, <1>1, <1>3, <2>1
<1> QED
  BY Zenon, <1>4, <1>5, <1>6, <1>7

LEMMA LenNat == ASSUME NEW S, NEW q \in Seq(S) PROVE Len(q) \in Nat
OBVIOUS

\* The frames of a session, and the account, as NothingLost says.
FramesOf(s) ==
  received[s] = written[s] + L!Count(vWriting, s) + L!Count(m_vLogs, s) + Len(stInputBuffer[s])

AccountInv ==
  /\ m_iPendingBytes = L!SumBytes(vWriting) + L!SumBytes(m_vLogs)
  /\ m_iPendingBytes <= m_iMaxLogBytes

LEMMA LogNumbers ==
  ASSUME FrameType
  PROVE  /\ m_iPendingBytes \in Int /\ m_iMaxLogBytes \in Nat
         /\ L!SumBytes(vWriting) \in Nat /\ L!SumBytes(m_vLogs) \in Nat
         /\ \A s \in Peers : /\ received[s] \in Nat /\ written[s] \in Nat
                             /\ L!Count(vWriting, s) \in Nat /\ L!Count(m_vLogs, s) \in Nat
                             /\ Len(stInputBuffer[s]) \in Nat
<1>1. m_vLogs \in Seq(Logs) /\ vWriting \in Seq(Logs) /\ \A e \in Logs : e.bytes \in Nat
  BY DEF FrameType, Logs
<1>2. L!SumBytes(vWriting) \in Nat /\ L!SumBytes(m_vLogs) \in Nat
  BY Zenon, <1>1, BytesNat, SumBytesIs
<1>3. \A s \in Peers : L!Count(vWriting, s) \in Nat /\ L!Count(m_vLogs, s) \in Nat
  BY Zenon, <1>1, CountFacts
<1>4. \A s \in Peers : stInputBuffer[s] \in Seq(L!FrameLengths)
  BY DEF FrameType
<1>5. \A s \in Peers : Len(stInputBuffer[s]) \in Nat
  BY Zenon, <1>4, LenNat
<1>6. /\ m_iPendingBytes \in Int /\ m_iMaxLogBytes \in Nat
      /\ \A s \in Peers : received[s] \in Nat /\ written[s] \in Nat
  BY LogAssumption DEF FrameType
<1> QED
  BY Zenon, <1>2, <1>3, <1>5, <1>6

LEMMA EmptyLogs == L!SumBytes(<<>>) = 0 /\ \A s : L!Count(<<>>, s) = 0
  BY Zenon, BytesEmpty, SumBytesIs, CountEmpty

\* Every step keeps every frame in one place, and the account exact and within the limit.
LEMMA LostStep ==
  ASSUME FrameType, WaitType, PhaseInv, L!NothingLost, [L!Next]_L!vars
  PROVE  L!NothingLost'
<1>0. AccountInv /\ \A t \in Peers : FramesOf(t)
  BY Zenon DEF L!NothingLost, AccountInv, FramesOf
<1>q. SUFFICES AccountInv' /\ \A t \in Peers : FramesOf(t)'
  BY Zenon DEF L!NothingLost, AccountInv, FramesOf
<1>n. /\ m_iPendingBytes \in Int /\ m_iMaxLogBytes \in Nat
      /\ L!SumBytes(vWriting) \in Nat /\ L!SumBytes(m_vLogs) \in Nat
      /\ \A s \in Peers : /\ received[s] \in Nat /\ written[s] \in Nat
                          /\ L!Count(vWriting, s) \in Nat /\ L!Count(m_vLogs, s) \in Nat
                          /\ Len(stInputBuffer[s]) \in Nat
  BY Zenon, LogNumbers
<1>1. ASSUME NEW s \in Peers, NEW length \in L!FrameLengths, L!Receive(s, length)
      PROVE  AccountInv' /\ \A t \in Peers : FramesOf(t)'
  <2>1. /\ received' = [received EXCEPT ![s] = @ + 1]
        /\ stInputBuffer' = [stInputBuffer EXCEPT ![s] = Append(@, length)]
        /\ UNCHANGED <<m_vLogs, vWriting, written, m_iPendingBytes>>
    BY Zenon, <1>1 DEF L!Receive, L!writerVars, L!managerVars
  <2>2. AccountInv'
    BY Zenon, <1>0, <2>1 DEF AccountInv
  <2>3. ASSUME NEW t \in Peers PROVE FramesOf(t)'
    <3>1. CASE t = s
      <4>1. received'[t] = received[t] + 1 /\ stInputBuffer'[t] = Append(stInputBuffer[t], length)
        BY <2>1, <3>1 DEF FrameType
      <4>2. stInputBuffer[t] \in Seq(L!FrameLengths)
        BY DEF FrameType
      <4>3. Len(stInputBuffer'[t]) = Len(stInputBuffer[t]) + 1
        BY <4>1, <4>2, AppendFacts
      <4>4. received[t] = written[t] + L!Count(vWriting, t) + L!Count(m_vLogs, t)
                          + Len(stInputBuffer[t])
        BY <1>0 DEF FramesOf
      <4>5. received'[t] = written[t] + L!Count(vWriting, t) + L!Count(m_vLogs, t)
                           + Len(stInputBuffer'[t])
        <5>1. /\ received[t] \in Nat /\ written[t] \in Nat /\ L!Count(vWriting, t) \in Nat
            /\ L!Count(m_vLogs, t) \in Nat /\ Len(stInputBuffer[t]) \in Nat
          BY Zenon, <1>n
        <5>2. received[t] + 1 = written[t] + L!Count(vWriting, t) + L!Count(m_vLogs, t)
                                + (Len(stInputBuffer[t]) + 1)
          <6> DEFINE w == written[t] + L!Count(vWriting, t) + L!Count(m_vLogs, t)
                     r == received[t]
                     l == Len(stInputBuffer[t])
          <6>1. r \in Nat /\ w \in Nat /\ l \in Nat /\ r = w + l
            BY <4>4, <5>1
          <6> HIDE DEF r, w, l
          <6>2. r + 1 = w + (l + 1)
            BY <6>1
          <6> QED
            BY Zenon, <6>2 DEF r, w, l
        <5> QED
          BY Zenon, <4>1, <4>3, <5>2
      <4> QED
        BY Zenon, <2>1, <4>5 DEF FramesOf
    <3>2. CASE t # s
      <4>1. received'[t] = received[t] /\ stInputBuffer'[t] = stInputBuffer[t]
        BY <2>1, <3>2 DEF FrameType
      <4> QED
        BY Zenon, <1>0, <2>1, <4>1 DEF FramesOf
    <3> QED
      BY <3>1, <3>2
  <2> QED
    BY <2>2, <2>3
<1>a. ASSUME NEW who \in Peers \cup {L!Local}, NEW bytes \in Nat, Queued(who, bytes)
      PROVE  AccountInv'
  <2>1. /\ L!SumBytes(m_vLogs') = L!SumBytes(m_vLogs) + bytes
        /\ m_iPendingBytes' = m_iPendingBytes + bytes /\ m_iPendingBytes' <= m_iMaxLogBytes
        /\ vWriting' = vWriting
    BY Zenon, <1>a, QueuedFacts DEF Queued
  <2>2. m_iPendingBytes = L!SumBytes(vWriting) + L!SumBytes(m_vLogs)
    BY <1>0 DEF AccountInv
  <2>3. m_iPendingBytes' = L!SumBytes(vWriting) + L!SumBytes(m_vLogs')
    BY <1>n, <2>1, <2>2
  <2> QED
    BY Zenon, <2>1, <2>3 DEF AccountInv
<1>2. ASSUME L!WriteFrame
      PROVE  AccountInv' /\ \A t \in Peers : FramesOf(t)'
  <2> DEFINE s == logPoll.sid
             bytes == Head(stInputBuffer[s]) + Title
  <2>1. /\ logPoll.at = "input" /\ stInputBuffer[s] # <<>> /\ ~L!MustWait(s, bytes)
        /\ L!AddLog(s, bytes) /\ stInputBuffer' = [stInputBuffer EXCEPT ![s] = Tail(@)]
        /\ UNCHANGED <<received, vWriting, written>>
    BY Zenon, <1>2 DEF L!WriteFrame
  <2>2. s \in Peers /\ s \in Peers \cup {L!Local}
    BY <2>1 DEF WaitType
  <2>3. /\ bytes \in Nat /\ Len(Tail(stInputBuffer[s])) = Len(stInputBuffer[s]) - 1
    BY <2>1, <2>2, NextFrame, LogAssumption
  <2> HIDE DEF s, bytes
  <2>4. Queued(s, bytes)
    BY Zenon, <2>1, <2>3, QueuedIs
  <2>5. \A t : L!Count(m_vLogs', t) = L!Count(m_vLogs, t) + IF s = t THEN 1 ELSE 0
    BY Zenon, <2>2, <2>3, <2>4, QueuedFacts
  <2>6. ASSUME NEW t \in Peers PROVE FramesOf(t)'
    <3>1. received[t] = written[t] + L!Count(vWriting, t) + L!Count(m_vLogs, t)
                        + Len(stInputBuffer[t])
      BY <1>0 DEF FramesOf
    <3>2. CASE t = s
      <4>1. L!Count(m_vLogs', t) = L!Count(m_vLogs, t) + 1
        BY Zenon, <2>5, <3>2
      <4>2. stInputBuffer'[t] = Tail(stInputBuffer[t])
        BY <2>1, <3>2 DEF FrameType
      <4>3. Len(stInputBuffer'[t]) = Len(stInputBuffer[t]) - 1
        BY Zenon, <2>3, <3>2, <4>2
      <4>4. received[t] = written[t] + L!Count(vWriting, t) + L!Count(m_vLogs', t)
                          + Len(stInputBuffer'[t])
        <5>1. /\ received[t] \in Nat /\ written[t] \in Nat /\ L!Count(vWriting, t) \in Nat
            /\ L!Count(m_vLogs, t) \in Nat /\ Len(stInputBuffer[t]) \in Nat
          BY Zenon, <1>n
        <5>2. received[t] = written[t] + L!Count(vWriting, t) + (L!Count(m_vLogs, t) + 1)
                            + (Len(stInputBuffer[t]) - 1)
          <6> DEFINE r == received[t]
                     w == written[t] + L!Count(vWriting, t)
                     b == L!Count(m_vLogs, t)
                     l == Len(stInputBuffer[t])
          <6>1. r \in Nat /\ w \in Nat /\ b \in Nat /\ l \in Nat /\ r = w + b + l
            BY <3>1, <5>1
          <6> HIDE DEF r, w, b, l
          <6>2. r = w + (b + 1) + (l - 1)
            BY <6>1
          <6> QED
            BY Zenon, <6>2 DEF r, w, b, l
        <5> QED
          BY Zenon, <4>1, <4>3, <5>2
      <4> QED
        BY Zenon, <2>1, <4>4 DEF FramesOf
    <3>3. CASE t # s
      <4>1. stInputBuffer'[t] = stInputBuffer[t]
        BY <2>1, <3>3 DEF FrameType
      <4>2. L!Count(m_vLogs', t) = L!Count(m_vLogs, t) + 0
        BY Zenon, <2>5, <3>3
      <4>3. L!Count(m_vLogs', t) = L!Count(m_vLogs, t)
        BY <1>n, <4>2
      <4> QED
        BY Zenon, <2>1, <3>1, <4>1, <4>3 DEF FramesOf
    <3> QED
      BY <3>2, <3>3
  <2> QED
    BY Zenon, <1>a, <2>2, <2>3, <2>4, <2>6
<1>3. ASSUME NEW length \in L!FrameLengths, L!WriteSelfLog(length)
      PROVE  AccountInv' /\ \A t \in Peers : FramesOf(t)'
  <2> DEFINE bytes == length + Title
  <2>1. /\ ~L!MustWait(L!Local, bytes) /\ L!AddLog(L!Local, bytes)
        /\ UNCHANGED <<received, stInputBuffer, vWriting, written>>
    BY Zenon, <1>3 DEF L!WriteSelfLog, L!inputVars
  <2>2. bytes \in Nat
    <3>1. length = 0 \/ length = LOG_FRAME_MAX - 1
      BY DEF L!FrameLengths
    <3> QED
      BY <3>1, LogAssumption
  <2> HIDE DEF bytes
  <2>3. Queued(L!Local, bytes) /\ L!Local \in Peers \cup {L!Local}
    BY Zenon, <2>1, <2>2, QueuedIs
  <2>4. \A t : L!Count(m_vLogs', t) = L!Count(m_vLogs, t) + IF L!Local = t THEN 1 ELSE 0
    BY Zenon, <2>2, <2>3, QueuedFacts
  <2>5. ASSUME NEW t \in Peers PROVE FramesOf(t)'
    <3>1. L!Local # t
      BY LogAssumption
    <3>2. L!Count(m_vLogs', t) = L!Count(m_vLogs, t) + 0
      BY Zenon, <2>4, <3>1
    <3>3. L!Count(m_vLogs', t) = L!Count(m_vLogs, t)
      BY <1>n, <3>2
    <3> QED
      BY Zenon, <1>0, <2>1, <3>3 DEF FramesOf
  <2> QED
    BY Zenon, <1>a, <2>2, <2>3, <2>5
<1>4. ASSUME L!WriterTakes
      PROVE  AccountInv' /\ \A t \in Peers : FramesOf(t)'
  <2>1. /\ vWriting = <<>> /\ vWriting' = m_vLogs /\ m_vLogs' = <<>>
        /\ UNCHANGED <<received, stInputBuffer, written, m_iPendingBytes>>
    BY Zenon, <1>4 DEF L!WriterTakes, PhaseInv, L!inputVars, L!managerVars
  <2>2. AccountInv'
    <3>1. L!SumBytes(vWriting) = 0 /\ L!SumBytes(m_vLogs') = 0
      BY Zenon, <2>1, EmptyLogs
    <3>2. m_iPendingBytes = L!SumBytes(vWriting) + L!SumBytes(m_vLogs)
      BY <1>0 DEF AccountInv
    <3>3. m_iPendingBytes = L!SumBytes(m_vLogs) + L!SumBytes(m_vLogs')
      BY <1>n, <3>1, <3>2
    <3> QED
      BY Zenon, <1>0, <2>1, <3>3 DEF AccountInv
  <2>3. ASSUME NEW t \in Peers PROVE FramesOf(t)'
    <3>1. L!Count(vWriting, t) = 0 /\ L!Count(m_vLogs', t) = 0
      BY Zenon, <2>1, EmptyLogs
    <3>2. received[t] = written[t] + L!Count(vWriting, t) + L!Count(m_vLogs, t)
                        + Len(stInputBuffer[t])
      BY <1>0 DEF FramesOf
    <3>3. received[t] = written[t] + L!Count(m_vLogs, t) + L!Count(m_vLogs', t)
                        + Len(stInputBuffer[t])
      BY SMTT(20), <1>n, <3>1, <3>2
    <3> QED
      BY Zenon, <2>1, <3>3 DEF FramesOf
  <2> QED
    BY <2>2, <2>3
<1>5. ASSUME L!CompleteWrite
      PROVE  AccountInv' /\ \A t \in Peers : FramesOf(t)'
  <2>1. /\ vWriting' = <<>> /\ m_vLogs' = m_vLogs
        /\ written' = [s \in Peers |-> written[s] + L!Count(vWriting, s)]
        /\ m_iPendingBytes' = m_iPendingBytes - L!SumBytes(vWriting)
        /\ UNCHANGED <<received, stInputBuffer>>
    BY Zenon, <1>5 DEF L!CompleteWrite, L!inputVars
  <2>2. AccountInv'
    <3>1. L!SumBytes(vWriting') = 0
      BY Zenon, <2>1, EmptyLogs
    <3>2. /\ m_iPendingBytes = L!SumBytes(vWriting) + L!SumBytes(m_vLogs)
          /\ m_iPendingBytes <= m_iMaxLogBytes
      BY <1>0 DEF AccountInv
    <3>3. /\ m_iPendingBytes' = L!SumBytes(vWriting') + L!SumBytes(m_vLogs)
          /\ m_iPendingBytes' <= m_iMaxLogBytes
      BY <1>n, <2>1, <3>1, <3>2
    <3> QED
      BY Zenon, <2>1, <3>3 DEF AccountInv
  <2>3. ASSUME NEW t \in Peers PROVE FramesOf(t)'
    <3>1. L!Count(vWriting', t) = 0
      BY Zenon, <2>1, EmptyLogs
    <3>2. received[t] = written[t] + L!Count(vWriting, t) + L!Count(m_vLogs, t)
                        + Len(stInputBuffer[t])
      BY <1>0 DEF FramesOf
    <3>3. written'[t] = written[t] + L!Count(vWriting, t)
      BY Zenon, <2>1
    <3>4. received[t] = written'[t] + L!Count(vWriting', t) + L!Count(m_vLogs, t)
                        + Len(stInputBuffer[t])
      BY <1>n, <3>1, <3>2, <3>3
    <3> QED
      BY Zenon, <2>1, <3>4 DEF FramesOf
  <2> QED
    BY <2>2, <2>3
<1>6. ASSUME UNCHANGED frameVars
      PROVE  AccountInv' /\ \A t \in Peers : FramesOf(t)'
  BY Zenon, <1>0, <1>6 DEF frameVars, AccountInv, FramesOf
<1> QED
  BY Zenon, <1>1, <1>2, <1>3, <1>4, <1>5, <1>6, FramesStay DEF L!Next, L!Threads, L!Writer

\* Every step leaves the frames, the logs and the account well-typed.
LEMMA FrameTypeStep ==
  ASSUME FrameType, WaitType, [L!Next]_L!vars
  PROVE  FrameType'
<1>1. ASSUME NEW s \in Peers, NEW length \in L!FrameLengths, L!Receive(s, length)
      PROVE  FrameType'
  <2>1. /\ received' = [received EXCEPT ![s] = @ + 1]
        /\ stInputBuffer' = [stInputBuffer EXCEPT ![s] = Append(@, length)]
        /\ UNCHANGED <<m_vLogs, vWriting, written, m_iPendingBytes>>
    BY Zenon, <1>1 DEF L!Receive, L!writerVars, L!managerVars
  <2>2. received[s] + 1 \in Nat /\ Append(stInputBuffer[s], length) \in Seq(L!FrameLengths)
    BY DEF FrameType
  <2> QED
    BY Zenon, <2>1, <2>2 DEF FrameType
<1>2. ASSUME L!WriteFrame
      PROVE  FrameType'
  <2> DEFINE s == logPoll.sid
             bytes == Head(stInputBuffer[s]) + Title
  <2>1. /\ logPoll.at = "input" /\ stInputBuffer[s] # <<>> /\ ~L!MustWait(s, bytes)
        /\ L!AddLog(s, bytes) /\ stInputBuffer' = [stInputBuffer EXCEPT ![s] = Tail(@)]
        /\ UNCHANGED <<received, vWriting, written>>
    BY Zenon, <1>2 DEF L!WriteFrame
  <2>2. s \in Peers /\ s \in Peers \cup {L!Local}
    BY <2>1 DEF WaitType
  <2>3. bytes \in Nat /\ Tail(stInputBuffer[s]) \in Seq(L!FrameLengths)
    BY <2>1, <2>2, NextFrame, LogAssumption
  <2> HIDE DEF s, bytes
  <2>4. m_vLogs' \in Seq(Logs) /\ m_iPendingBytes' \in Int
    BY Zenon, <2>1, <2>2, <2>3, QueuedIs, QueuedFacts
  <2> QED
    BY Zenon, <2>1, <2>3, <2>4 DEF FrameType
<1>3. ASSUME NEW length \in L!FrameLengths, L!WriteSelfLog(length)
      PROVE  FrameType'
  <2> DEFINE bytes == length + Title
  <2>1. /\ ~L!MustWait(L!Local, bytes) /\ L!AddLog(L!Local, bytes)
        /\ UNCHANGED <<received, stInputBuffer, vWriting, written>>
    BY Zenon, <1>3 DEF L!WriteSelfLog, L!inputVars
  <2>2. bytes \in Nat
    <3>1. length = 0 \/ length = LOG_FRAME_MAX - 1
      BY DEF L!FrameLengths
    <3> QED
      BY <3>1, LogAssumption
  <2> HIDE DEF bytes
  <2>3. m_vLogs' \in Seq(Logs) /\ m_iPendingBytes' \in Int
    BY Zenon, <2>1, <2>2, QueuedIs, QueuedFacts
  <2> QED
    BY Zenon, <2>1, <2>3 DEF FrameType
<1>4. ASSUME L!WriterTakes
      PROVE  FrameType'
  <2>1. <<>> \in Seq(Logs)
    OBVIOUS
  <2> QED
    BY Zenon, <1>4, <2>1 DEF L!WriterTakes, FrameType, L!inputVars, L!managerVars
<1>5. ASSUME L!CompleteWrite
      PROVE  FrameType'
  <2>1. /\ vWriting' = <<>> /\ m_vLogs' = m_vLogs
        /\ written' = [s \in Peers |-> written[s] + L!Count(vWriting, s)]
        /\ m_iPendingBytes' = m_iPendingBytes - L!SumBytes(vWriting)
        /\ UNCHANGED <<received, stInputBuffer>>
    BY Zenon, <1>5 DEF L!CompleteWrite, L!inputVars
  <2>2. <<>> \in Seq(Logs)
    OBVIOUS
  <2>3. m_iPendingBytes - L!SumBytes(vWriting) \in Int
    BY LogNumbers
  <2>4. \A s \in Peers : written[s] + L!Count(vWriting, s) \in Nat
    BY LogNumbers
  <2> QED
    BY Zenon, <2>1, <2>2, <2>3, <2>4 DEF FrameType
<1>6. ASSUME UNCHANGED frameVars
      PROVE  FrameType'
  BY Zenon, <1>6 DEF frameVars, FrameType
<1> QED
  BY Zenon, <1>1, <1>2, <1>3, <1>4, <1>5, <1>6, FramesStay DEF L!Next, L!Threads, L!Writer

-----------------------------------------------------------------------------
\* The places OnDataIn goes to.
LEMMA InputPlaces ==
  /\ L!Idle \in Inputs /\ L!Idle.at = "idle" /\ L!Idle.sid = L!NoOne
  /\ \A s \in Peers : /\ [L!Idle EXCEPT !.at = "input", !.sid = s] \in Inputs
                      /\ [L!Idle EXCEPT !.at = "input", !.sid = s].at = "input"
                      /\ [L!Idle EXCEPT !.at = "input", !.sid = s].sid = s
  /\ \A p \in Inputs : /\ [p EXCEPT !.at = "ended"] \in Inputs
                       /\ [p EXCEPT !.at = "ended"].at = "ended"
                       /\ [p EXCEPT !.at = "ended"].sid = p.sid
                       /\ [p EXCEPT !.frames = @ + 1] \in Inputs
                       /\ [p EXCEPT !.frames = @ + 1].at = p.at
                       /\ [p EXCEPT !.frames = @ + 1].sid = p.sid
<1>1. L!Idle \in Inputs /\ L!Idle.at = "idle" /\ L!Idle.sid = L!NoOne
  BY DEF Inputs, L!Idle
<1>2. ASSUME NEW s \in Peers
      PROVE  /\ [L!Idle EXCEPT !.at = "input", !.sid = s] \in Inputs
             /\ [L!Idle EXCEPT !.at = "input", !.sid = s].at = "input"
             /\ [L!Idle EXCEPT !.at = "input", !.sid = s].sid = s
  BY DEF Inputs, L!Idle
<1>3. ASSUME NEW p \in Inputs
      PROVE  /\ [p EXCEPT !.at = "ended"] \in Inputs /\ [p EXCEPT !.at = "ended"].at = "ended"
             /\ [p EXCEPT !.at = "ended"].sid = p.sid
  BY DEF Inputs
<1>4. ASSUME NEW p \in Inputs
      PROVE  /\ [p EXCEPT !.frames = @ + 1] \in Inputs
             /\ [p EXCEPT !.frames = @ + 1].at = p.at
             /\ [p EXCEPT !.frames = @ + 1].sid = p.sid
  BY DEF Inputs
<1> QED
  BY Zenon, <1>1, <1>2, <1>3, <1>4

PlaceType ==
  /\ logPoll \in Inputs /\ (logPoll.at = "idle" => logPoll = L!Idle)
  /\ (logPoll.at # "idle" => logPoll.sid \in Peers)

\* What BufferInv says of one session.
BufferOf(s) ==
  /\ stInputBuffer[s] # <<>> => m_bWaiting[s] \/ (logPoll.at = "input" /\ logPoll.sid = s)
  /\ m_bWaiting[s] => \E i \in DOMAIN m_vWaitingSessions : m_vWaitingSessions[i].sid = s

waitingVars == <<stInputBuffer, m_bWaiting, m_vWaitingSessions, logPoll>>

\* The others leave those who wait alone.
LEMMA WaitersStay ==
  ASSUME \/ \E length \in L!FrameLengths : L!WriteSelfLog(length)
         \/ L!WriterSleeps \/ L!WriterTakes \/ L!CompleteWrite
         \/ L!StopBegins \/ L!StopChecks \/ L!StopReturns \/ UNCHANGED L!vars
  PROVE  UNCHANGED waitingVars
  BY Zenon DEF waitingVars, L!inputVars, L!waitVars, L!WriteSelfLog, L!WriterSleeps,
     L!WriterTakes, L!CompleteWrite, L!StopBegins, L!StopChecks, L!StopReturns, L!vars

\* The session that QueueWaiter puts at the end waits and is in the queue; the others are
\* where they were.
LEMMA QueueWaiterFacts ==
  ASSUME FrameType, WaitType, NEW s \in Peers, NEW bytes \in Nat, L!QueueWaiter(s, bytes)
  PROVE  /\ m_bWaiting' \in [Peers -> BOOLEAN] /\ m_vWaitingSessions' \in Seq(Waits)
         /\ m_bWaiting'[s] /\ \A t \in Peers : t # s => m_bWaiting'[t] = m_bWaiting[t]
         /\ \E i \in DOMAIN m_vWaitingSessions' : m_vWaitingSessions'[i].sid = s
         /\ \A i \in DOMAIN m_vWaitingSessions :
              i \in DOMAIN m_vWaitingSessions' /\ m_vWaitingSessions'[i] = m_vWaitingSessions[i]
<1> DEFINE e == [sid |-> s, bytes |-> bytes]
<1>1. e \in Waits /\ e.sid = s
  BY DEF Waits
<1>2. /\ m_vWaitingSessions' = Append(m_vWaitingSessions, e)
      /\ m_bWaiting' = [m_bWaiting EXCEPT ![s] = TRUE]
  BY Zenon DEF L!QueueWaiter
<1> HIDE DEF e
<1>3. m_bWaiting \in [Peers -> BOOLEAN] /\ m_vWaitingSessions \in Seq(Waits)
  BY Zenon DEF WaitType
<1>4. /\ m_bWaiting' \in [Peers -> BOOLEAN]
      /\ m_bWaiting'[s] /\ \A t \in Peers : t # s => m_bWaiting'[t] = m_bWaiting[t]
  BY Zenon, <1>2, <1>3
<1> DEFINE n == Len(m_vWaitingSessions)
<1>5. /\ m_vWaitingSessions' \in Seq(Waits) /\ n \in Nat
      /\ DOMAIN m_vWaitingSessions = 1..n /\ DOMAIN m_vWaitingSessions' = 1..(n + 1)
      /\ m_vWaitingSessions'[n + 1] = e
      /\ \A i \in 1..n : m_vWaitingSessions'[i] = m_vWaitingSessions[i]
  <2> DEFINE q == m_vWaitingSessions
  <2>1. /\ Append(q, e) \in Seq(Waits) /\ Len(q) \in Nat /\ DOMAIN q = 1..Len(q)
        /\ DOMAIN Append(q, e) = 1..(Len(q) + 1) /\ Append(q, e)[Len(q) + 1] = e
        /\ \A i \in 1..Len(q) : Append(q, e)[i] = q[i]
    BY <1>1, <1>3, AppendFacts
  <2> QED
    BY Zenon, <1>2, <2>1
<1>6. n + 1 \in 1..(n + 1) /\ \A i \in 1..n : i \in 1..(n + 1)
  BY <1>5
<1> QED
  BY Zenon, <1>1, <1>4, <1>5, <1>6

\* Every step keeps a frame with a session that is being read or that waits in the queue.
LEMMA BufferStep ==
  ASSUME FrameType, WaitType, BufferInv, [L!Next]_L!vars
  PROVE  WaitType' /\ BufferInv'
<1>0. /\ m_bWaiting \in [Peers -> BOOLEAN] /\ m_vWaitingSessions \in Seq(Waits) /\ PlaceType
      /\ \A t \in Peers : BufferOf(t)
  BY Zenon DEF WaitType, PlaceType, BufferInv, BufferOf
<1> DEFINE Goal == /\ m_bWaiting' \in [Peers -> BOOLEAN] /\ m_vWaitingSessions' \in Seq(Waits)
                   /\ PlaceType' /\ \A t \in Peers : BufferOf(t)'
<1>q. SUFFICES Goal
  BY Zenon DEF WaitType, PlaceType, BufferInv, BufferOf
<1>1. ASSUME NEW s \in Peers, NEW length \in L!FrameLengths, L!Receive(s, length)
      PROVE  Goal
  <2>1. /\ logPoll = L!Idle
        /\ stInputBuffer' = [stInputBuffer EXCEPT ![s] = Append(@, length)]
        /\ logPoll' = IF m_bWaiting[s] THEN L!Idle ELSE [L!Idle EXCEPT !.at = "input", !.sid = s]
        /\ m_bWaiting' = m_bWaiting /\ m_vWaitingSessions' = m_vWaitingSessions
    BY Zenon, <1>1 DEF L!Receive, L!waitVars
  <2>2. \A t \in Peers : t # s => stInputBuffer'[t] = stInputBuffer[t]
    BY Zenon, <2>1 DEF FrameType
  <2>3. logPoll.at = "idle"
    BY Zenon, <2>1, InputPlaces
  <2>4. PlaceType' /\ (m_bWaiting[s] \/ (logPoll'.at = "input" /\ logPoll'.sid = s))
    <3>1. CASE m_bWaiting[s]
      BY Zenon, <2>1, <3>1, InputPlaces DEF PlaceType
    <3>2. CASE ~m_bWaiting[s]
      <4>1. logPoll' = [L!Idle EXCEPT !.at = "input", !.sid = s]
        BY Zenon, <2>1, <3>2
      <4>2. logPoll' \in Inputs /\ logPoll'.at = "input" /\ logPoll'.sid = s
        BY Zenon, <4>1, InputPlaces
      <4>3. "input" # "idle"
        OBVIOUS
      <4> QED
        BY Zenon, <4>2, <4>3 DEF PlaceType
    <3> QED
      BY <3>1, <3>2
  <2>5. "idle" # "input"
    OBVIOUS
  <2>6. ASSUME NEW t \in Peers PROVE BufferOf(t)'
    BY Zenon, <1>0, <2>1, <2>2, <2>3, <2>4, <2>5 DEF BufferOf
  <2> QED
    BY Zenon, <1>0, <2>1, <2>4, <2>6
<1>2. ASSUME NEW s \in Peers, NEW bytes \in Nat, L!QueueWaiter(s, bytes), logPoll.sid = s,
             logPoll' = [logPoll EXCEPT !.at = "ended"], stInputBuffer' = stInputBuffer
      PROVE  Goal
  <2>1. /\ m_bWaiting' \in [Peers -> BOOLEAN] /\ m_vWaitingSessions' \in Seq(Waits)
        /\ m_bWaiting'[s] /\ \A t \in Peers : t # s => m_bWaiting'[t] = m_bWaiting[t]
        /\ \E i \in DOMAIN m_vWaitingSessions' : m_vWaitingSessions'[i].sid = s
        /\ \A i \in DOMAIN m_vWaitingSessions :
             i \in DOMAIN m_vWaitingSessions' /\ m_vWaitingSessions'[i] = m_vWaitingSessions[i]
    BY Zenon, <1>2, QueueWaiterFacts
  <2>2. logPoll' \in Inputs /\ logPoll'.at = "ended" /\ logPoll'.sid = s
    BY Zenon, <1>0, <1>2, InputPlaces DEF PlaceType
  <2>3. "ended" # "idle"
    OBVIOUS
  <2>4. PlaceType'
    BY Zenon, <2>2, <2>3 DEF PlaceType
  <2>5. ASSUME NEW t \in Peers, t # s PROVE BufferOf(t)'
    <3>1. /\ stInputBuffer[t] # <<>> => m_bWaiting[t]
          /\ m_bWaiting[t] => \E i \in DOMAIN m_vWaitingSessions : m_vWaitingSessions[i].sid = t
      BY Zenon, <1>0, <1>2, <2>5 DEF BufferOf
    <3>2. stInputBuffer'[t] # <<>> => m_bWaiting'[t]
      BY Zenon, <1>2, <2>1, <2>5, <3>1
    <3>3. m_bWaiting'[t] => \E i \in DOMAIN m_vWaitingSessions' : m_vWaitingSessions'[i].sid = t
      BY Zenon, <2>1, <2>5, <3>1
    <3> QED
      BY Zenon, <3>2, <3>3 DEF BufferOf
  <2>6. BufferOf(s)'
    BY Zenon, <2>1 DEF BufferOf
  <2> QED
    BY Zenon, <2>1, <2>4, <2>5, <2>6
<1>3. ASSUME L!DeferWrite \/ L!WriteRefused
      PROVE  Goal
  <2> DEFINE s == logPoll.sid
  <2>1. /\ logPoll.at = "input" /\ stInputBuffer[s] # <<>>
        /\ logPoll' = [logPoll EXCEPT !.at = "ended"] /\ stInputBuffer' = stInputBuffer
        /\ L!TooLong(Head(stInputBuffer[s])) \/ L!QueueWaiter(s, Head(stInputBuffer[s]) + Title)
    BY Zenon, <1>3 DEF L!DeferWrite, L!WriteRefused, L!inputVars, L!KeepRefused
  <2>2. s \in Peers
    <3>1. "input" # "idle"
      OBVIOUS
    <3> QED
      BY Zenon, <1>0, <2>1, <3>1 DEF PlaceType
  <2>3. Head(stInputBuffer[s]) \in Nat /\ ~L!TooLong(Head(stInputBuffer[s]))
    BY Zenon, <2>1, <2>2, NextFrame
  <2>4. Head(stInputBuffer[s]) + Title \in Nat
    BY <2>3, LogAssumption
  <2> QED
    BY Zenon, <1>2, <2>1, <2>2, <2>3, <2>4
<1>4. ASSUME L!WriteFrame
      PROVE  Goal
  <2> DEFINE s == logPoll.sid
  <2>1. /\ stInputBuffer' = [stInputBuffer EXCEPT ![s] = Tail(@)]
        /\ logPoll' = [logPoll EXCEPT !.frames = @ + 1] /\ logPoll.at = "input"
        /\ m_bWaiting' = m_bWaiting /\ m_vWaitingSessions' = m_vWaitingSessions
    BY Zenon, <1>4 DEF L!WriteFrame, L!waitVars
  <2>2. logPoll' \in Inputs /\ logPoll'.at = "input" /\ logPoll'.sid = s
    BY Zenon, <1>0, <2>1, InputPlaces DEF PlaceType
  <2>3. "input" # "idle"
    OBVIOUS
  <2>4. PlaceType'
    BY Zenon, <1>0, <2>1, <2>2, <2>3 DEF PlaceType
  <2>5. \A t \in Peers : t # s => stInputBuffer'[t] = stInputBuffer[t]
    BY Zenon, <2>1 DEF FrameType
  <2>6. ASSUME NEW t \in Peers PROVE BufferOf(t)'
    BY Zenon, <1>0, <2>1, <2>2, <2>5 DEF BufferOf
  <2> QED
    BY Zenon, <1>0, <2>1, <2>4, <2>6
<1>5. ASSUME L!InputEnds
      PROVE  Goal
  <2>1. /\ logPoll.at = "ended" \/ (logPoll.at = "input" /\ stInputBuffer[logPoll.sid] = <<>>)
        /\ logPoll' = L!Idle /\ stInputBuffer' = stInputBuffer
        /\ m_bWaiting' = m_bWaiting /\ m_vWaitingSessions' = m_vWaitingSessions
    BY Zenon, <1>5 DEF L!InputEnds, L!inputVars, L!waitVars
  <2>2. "ended" # "input"
    OBVIOUS
  <2>3. PlaceType'
    BY Zenon, <2>1, InputPlaces DEF PlaceType
  <2>4. ASSUME NEW t \in Peers PROVE BufferOf(t)'
    BY Zenon, <1>0, <2>1, <2>2 DEF BufferOf
  <2> QED
    BY Zenon, <1>0, <2>1, <2>3, <2>4
<1>6. ASSUME L!ResumeOnLoop \/ L!StopResumes
      PROVE  Goal
  <2>1. L!ResumeWaiting /\ logPoll = L!Idle /\ stInputBuffer' = stInputBuffer
    BY Zenon, <1>6 DEF L!ResumeOnLoop, L!StopResumes, L!ResumeWaiting, L!inputVars
  <2>2. CASE UNCHANGED <<m_bWaiting, m_vWaitingSessions, logPoll>>
    BY Zenon, <1>0, <2>1, <2>2 DEF PlaceType, BufferOf
  <2>3. CASE /\ m_vWaitingSessions # <<>>
             /\ m_vWaitingSessions' = Tail(m_vWaitingSessions)
             /\ m_bWaiting' = [m_bWaiting EXCEPT ![Head(m_vWaitingSessions).sid] = FALSE]
             /\ logPoll' = [L!Idle EXCEPT !.at = "input", !.sid = Head(m_vWaitingSessions).sid]
    <3> DEFINE q == m_vWaitingSessions
               s == Head(q).sid
    <3>1. /\ Head(q) = q[1] /\ Head(q) \in Waits /\ Tail(q) \in Seq(Waits) /\ Len(q) \in Nat
          /\ DOMAIN q = 1..Len(q) /\ DOMAIN Tail(q) = 1..(Len(q) - 1)
          /\ \A i \in DOMAIN Tail(q) : Tail(q)[i] = q[i + 1]
      BY <1>0, <2>3, TailFacts
    <3>2. s \in Peers
      BY <3>1 DEF Waits
    <3>3. ASSUME NEW t \in Peers, t # s, \E i \in DOMAIN q : q[i].sid = t
          PROVE  \E i \in DOMAIN Tail(q) : Tail(q)[i].sid = t
      <4>1. PICK i \in DOMAIN q : q[i].sid = t
        BY <3>3
      <4>2. i # 1
        BY Zenon, <3>1, <3>3, <4>1
      <4>3. i - 1 \in 1..(Len(q) - 1) /\ (i - 1) + 1 = i
        BY <3>1, <4>1, <4>2
      <4> QED
        BY Zenon, <3>1, <4>1, <4>3
    <3> HIDE DEF q, s
    <3>4. /\ m_vWaitingSessions = q /\ m_vWaitingSessions' = Tail(q)
          /\ m_bWaiting' = [m_bWaiting EXCEPT ![s] = FALSE]
          /\ logPoll' = [L!Idle EXCEPT !.at = "input", !.sid = s]
      BY Zenon, <2>3 DEF q, s
    <3>5. logPoll' \in Inputs /\ logPoll'.at = "input" /\ logPoll'.sid = s
      BY Zenon, <3>2, <3>4, InputPlaces
    <3>6. "input" # "idle" /\ logPoll.at = "idle"
      BY <2>1, InputPlaces
    <3>7. PlaceType'
      BY Zenon, <3>2, <3>5, <3>6 DEF PlaceType
    <3>8. /\ m_bWaiting' \in [Peers -> BOOLEAN] /\ ~m_bWaiting'[s]
          /\ \A t \in Peers : t # s => m_bWaiting'[t] = m_bWaiting[t]
      BY Zenon, <1>0, <3>2, <3>4
    <3>9. ASSUME NEW t \in Peers, t # s PROVE BufferOf(t)'
      BY Zenon, <1>0, <2>1, <3>3, <3>4, <3>6, <3>8, <3>9 DEF BufferOf
    <3>10. ASSUME NEW t \in Peers, t = s PROVE BufferOf(t)'
      <4>1. ~m_bWaiting'[t] /\ logPoll'.at = "input" /\ logPoll'.sid = t
        BY Zenon, <3>5, <3>8, <3>10
      <4> QED
        BY Zenon, <4>1 DEF BufferOf
    <3>11. \A t \in Peers : BufferOf(t)'
      BY Zenon, <3>9, <3>10
    <3>12. m_bWaiting' \in [Peers -> BOOLEAN] /\ m_vWaitingSessions' \in Seq(Waits)
      BY Zenon, <3>1, <3>4, <3>8
    <3> QED
      BY Zenon, <3>7, <3>11, <3>12
  <2> QED
    BY Zenon, <2>1, <2>2, <2>3 DEF L!ResumeWaiting, L!waitVars
<1>7. ASSUME UNCHANGED waitingVars
      PROVE  Goal
  BY Zenon, <1>0, <1>7 DEF waitingVars, PlaceType, BufferOf
<1> HIDE DEF Goal
<1> QED
  BY Zenon, <1>1, <1>3, <1>4, <1>5, <1>6, <1>7, WaitersStay DEF L!Next, L!Threads, L!Writer

\* Every step keeps the order of the shutdown: Stop tells the writer to quit only when nobody
\* waits, and the writer ends only when it has nothing left.
LEMMA PhaseStep ==
  ASSUME FrameType, WaitType, PhaseInv, [L!Next]_L!vars
  PROVE  PhaseInv'
<1>0. logPoll # L!Idle => logPoll.at # "idle"
  BY Zenon DEF WaitType
<1>1. ASSUME \/ \E s \in Peers, length \in L!FrameLengths : L!Receive(s, length)
             \/ \E length \in L!FrameLengths : L!WriteSelfLog(length)
      PROVE  PhaseInv'
  <2>1. /\ stop = "running" /\ stop' = stop /\ m_bQuit' = m_bQuit /\ vWriting' = vWriting
        /\ writer' = writer \/ (writer' = "check" /\ writer = "sleep")
    BY Zenon, <1>1 DEF L!Receive, L!WriteSelfLog, L!AddLog, L!writerVars
  <2>2. ~m_bQuit
    BY <2>1 DEF PhaseInv
  <2> QED
    BY <2>1, <2>2 DEF PhaseInv
<1>2. ASSUME L!DeferWrite \/ L!WriteRefused \/ L!InputEnds \/ L!WriteFrame
      PROVE  PhaseInv'
  <2>1. logPoll.at \in {"input", "ended"}
    BY <1>2 DEF L!DeferWrite, L!WriteRefused, L!InputEnds, L!WriteFrame
  <2>2. ~m_bQuit
    BY <2>1, InputPlaces DEF PhaseInv
  <2>3. /\ stop' = stop /\ m_bQuit' = m_bQuit /\ vWriting' = vWriting
        /\ writer' = writer \/ (writer' = "check" /\ writer = "sleep")
    BY Zenon, <1>2 DEF L!DeferWrite, L!WriteRefused, L!InputEnds, L!WriteFrame, L!AddLog,
                       L!writerVars
  <2> QED
    BY <2>2, <2>3 DEF PhaseInv
<1>3. ASSUME L!ResumeOnLoop \/ L!StopResumes
      PROVE  PhaseInv'
  <2>1. stop \in {"running", "resume"} /\ stop' \in {"running", "check"}
    BY Zenon, <1>3 DEF L!ResumeOnLoop, L!StopResumes
  <2>2. m_bQuit' = m_bQuit /\ vWriting' = vWriting /\ writer' = writer /\ m_vLogs' = m_vLogs
    BY Zenon, <1>3 DEF L!ResumeOnLoop, L!StopResumes, L!ResumeWaiting, L!writerVars
  <2> QED
    BY <2>1, <2>2 DEF PhaseInv
<1>4. ASSUME L!StopBegins
      PROVE  PhaseInv'
  <2>1. /\ stop = "running" /\ stop' = "resume" /\ UNCHANGED <<m_bQuit, vWriting, writer, m_vLogs>>
    BY Zenon, <1>4 DEF L!StopBegins, L!writerVars
  <2> QED
    BY <2>1 DEF PhaseInv
<1>5. ASSUME L!StopChecks
      PROVE  PhaseInv'
  <2>1. /\ stop = "check" /\ logPoll = L!Idle /\ stop' \in {"join", "wait", "resume"}
        /\ (stop' = "join" => m_vWaitingSessions = <<>>)
        /\ m_bQuit' = (stop' = "join")
        /\ writer' = (IF stop' = "join" /\ writer = "sleep" THEN "check" ELSE writer)
        /\ UNCHANGED <<vWriting, m_vLogs, logPoll, m_vWaitingSessions>>
    BY <1>5 DEF L!StopChecks, L!waitVars, L!Drained
  <2>2. ~m_bQuit
    BY <2>1 DEF PhaseInv
  <2>3. writer # "ended"
    BY <2>2 DEF PhaseInv
  <2> QED
    BY <2>1, <2>2, <2>3 DEF PhaseInv
<1>6. ASSUME L!StopReturns
      PROVE  PhaseInv'
  <2>1. /\ stop = "join" /\ writer = "ended" /\ stop' = "returned"
        /\ UNCHANGED <<m_bQuit, vWriting, writer, m_vLogs, logPoll, m_vWaitingSessions>>
    BY Zenon, <1>6 DEF L!StopReturns, L!waitVars, L!writerVars
  <2> QED
    BY <2>1 DEF PhaseInv
<1>7. ASSUME L!WriterSleeps
      PROVE  PhaseInv'
  <2>1. /\ writer = "check" /\ writer' = "sleep"
        /\ UNCHANGED <<m_bQuit, vWriting, stop, m_vLogs, logPoll, m_vWaitingSessions>>
    BY Zenon, <1>7 DEF L!WriterSleeps, L!waitVars
  <2> QED
    BY <2>1 DEF PhaseInv
<1>8. ASSUME L!WriterTakes
      PROVE  PhaseInv'
  <2>1. /\ writer = "check" /\ (m_vLogs # <<>> \/ m_bQuit)
        /\ writer' = (IF m_vLogs = <<>> THEN "ended" ELSE "writing")
        /\ vWriting' = m_vLogs /\ m_vLogs' = <<>>
        /\ UNCHANGED <<m_bQuit, stop, logPoll, m_vWaitingSessions>>
    BY Zenon, <1>8 DEF L!WriterTakes, L!waitVars
  <2> QED
    BY <2>1 DEF PhaseInv
<1>9. ASSUME L!CompleteWrite
      PROVE  PhaseInv'
  <2>1. /\ writer = "writing" /\ writer' = "check" /\ vWriting' = <<>>
        /\ stop' = (IF stop = "wait" THEN "resume" ELSE stop)
        /\ UNCHANGED <<m_bQuit, logPoll, m_vWaitingSessions>>
    BY Zenon, <1>9 DEF L!CompleteWrite, L!waitVars
  <2> QED
    BY <2>1 DEF PhaseInv
<1>10. CASE UNCHANGED L!vars
  BY Zenon, <1>10 DEF PhaseInv, L!vars, L!waitVars, L!writerVars
<1> QED
  BY Zenon, <1>1, <1>2, <1>3, <1>4, <1>5, <1>6, <1>7, <1>8, <1>9, <1>10
     DEF L!Next, L!Threads, L!Writer

LEMMA LogInit == L!Init => LogInv
<1> SUFFICES ASSUME L!Init PROVE LogInv
  OBVIOUS
<1>0. <<>> \in Seq(Logs) /\ <<>> \in Seq(Waits) /\ <<>> \in Seq(L!FrameLengths) /\ Len(<<>>) = 0
  OBVIOUS
<1>1. FrameType
  BY <1>0 DEF L!Init, FrameType
<1>2. WaitType
  BY Zenon, <1>0, InputPlaces DEF L!Init, WaitType
<1>3. BufferInv
  BY Zenon DEF L!Init, BufferInv
<1>4. PhaseInv
  BY DEF L!Init, PhaseInv
<1>5. L!NothingLost
  <2>1. /\ L!SumBytes(vWriting) = 0 /\ L!SumBytes(m_vLogs) = 0
        /\ \A s : L!Count(vWriting, s) = 0 /\ L!Count(m_vLogs, s) = 0
    BY Zenon, EmptyLogs DEF L!Init
  <2>2. \A s \in Peers : received[s] = 0 /\ written[s] = 0 /\ Len(stInputBuffer[s]) = 0
    BY <1>0 DEF L!Init
  <2>3. m_iPendingBytes = 0
    BY DEF L!Init
  <2> QED
    BY <2>1, <2>2, <2>3, LogAssumption DEF L!NothingLost
<1> QED
  BY <1>1, <1>2, <1>3, <1>4, <1>5 DEF LogInv

\* A frame is in one place, whoever waits is queued, and Stop and the writer end in order.
THEOREM LogInvariant == L!Spec => []LogInv
<1>1. LogInv /\ [L!Next]_L!vars => LogInv'
  BY Zenon, FrameTypeStep, BufferStep, PhaseStep, LostStep DEF LogInv
<1> QED
  BY <1>1, LogInit, PTL DEF L!Spec

\* No frame is lost, doubled or counted wrong, and Stop returns only when every frame that was
\* read is in the file (LogManager::WriteLog, CompleteWrite, Stop).
THEOREM LogKeepsFrames == L!Spec => []LogSound
<1>1. LogInv => LogSound
  <2> SUFFICES ASSUME LogInv, stop = "returned" PROVE written = received
    BY Zenon DEF LogInv, LogSound, L!StopDrains
  <2>0. FrameType /\ WaitType /\ BufferInv /\ PhaseInv /\ L!NothingLost
    BY Zenon DEF LogInv
  <2>1. /\ m_bQuit /\ writer = "ended" /\ m_vLogs = <<>> /\ vWriting = <<>>
        /\ m_vWaitingSessions = <<>> /\ logPoll = L!Idle
    BY <2>0 DEF PhaseInv
  <2>2. logPoll.at # "input" /\ DOMAIN m_vWaitingSessions = {}
    <3>1. logPoll.at = "idle" /\ "idle" # "input"
      BY Zenon, <2>1, InputPlaces
    <3>2. DOMAIN m_vWaitingSessions = {}
      BY <2>1
    <3> QED
      BY Zenon, <3>1, <3>2
  <2>3. \A s \in Peers : stInputBuffer[s] = <<>>
    BY Zenon, <2>0, <2>2 DEF BufferInv
  <2>4. ASSUME NEW s \in Peers PROVE written[s] = received[s]
    <3>1. L!Count(vWriting, s) = 0 /\ L!Count(m_vLogs, s) = 0
      BY Zenon, <2>1, EmptyLogs
    <3>2. Len(stInputBuffer[s]) = 0
      <4>1. Len(<<>>) = 0
        OBVIOUS
      <4> QED
        BY Zenon, <2>3, <4>1
    <3>3. received[s] = written[s] + L!Count(vWriting, s) + L!Count(m_vLogs, s)
                        + Len(stInputBuffer[s])
      BY Zenon, <2>0 DEF L!NothingLost
    <3> QED
      BY <2>0, <3>1, <3>2, <3>3 DEF FrameType
  <2> QED
    BY <2>0, <2>4 DEF FrameType
<1> QED
  BY <1>1, LogInvariant, PTL
=============================================================================
