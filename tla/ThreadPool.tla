----------------------------- MODULE ThreadPool -----------------------------
(***************************************************************************)
(* The worker pool of the multi-thread build (oi_thread.cpp): the run      *)
(* queue of coroutine handles, the workers that resume them, the idle      *)
(* counter that saves a notify, and the shutdown that starts in any        *)
(* thread, runs the stop handlers on the poll thread and ends in the       *)
(* thread that called StartWork.                                           *)
(*                                                                         *)
(* A section of code that holds stThreadData.stMutex from end to end is    *)
(* one step, except in WorkerMain: there the worker also reads bStop,      *)
(* which FinishStop sets without that mutex, so its steps are the reads of *)
(* bStop and stMutex records the worker that holds it in between.          *)
(* A condition variable is the set of threads that sleep on it; a sleeper  *)
(* may wake spuriously, a Signal with no sleeper is lost.                  *)
(***************************************************************************)
EXTENDS Naturals, Sequences, FiniteSets

CONSTANTS
  Workers,        \* the threads MultiThreadStartWork spawns
  Others,         \* further threads that use the pool (writers, tests, ...)
  Poll, Main,     \* the poll thread and the thread that calls StartWork
  Coroutines,     \* coroutine handles
  Handlers,       \* stop handlers
  Codes,          \* exit codes
  None,
  MaxPosts        \* bound: how many times PostCoroutine is called in all

Threads == Workers \cup Others \cup {Poll, Main}

ASSUME PoolAssumption ==
  /\ IsFiniteSet(Workers) /\ Workers # {}
  /\ IsFiniteSet(Others)
  /\ Poll # Main
  /\ Workers \cap (Others \cup {Poll, Main}) = {}
  /\ Others \cap {Poll, Main} = {}
  /\ None \notin Threads \cup Coroutines \cup Codes
  /\ MaxPosts \in Nat

VARIABLES
  vCoroutines,       \* stThreadData.vCoroutines, the run queue
  iIdleThreadCount,  \* stThreadData.iIdleThreadCount
  stMutex,           \* the worker that holds stThreadData.stMutex, or None
  pc,                \* where each thread is
  bWake,             \* bWake[t]: t has posted and still has to Signal
  running,           \* running[w]: the coroutine worker w is resuming
  suspended,         \* handles some awaiter holds and may post
  iPosted,           \* calls of PostCoroutine so far
  m_bStopRequested,
  m_vStopHandlers,
  iExitCode,
  bFinishPosted,     \* FinishStop is in the operation queue of the poll loop
  iHandler,          \* stop handlers that FinishStop has run
  bStop

queueVars == <<vCoroutines, iIdleThreadCount, stMutex>>
coroVars  == <<running, suspended, iPosted>>
stopVars  == <<m_bStopRequested, m_vStopHandlers, iExitCode, bFinishPosted,
               iHandler, bStop>>
vars == <<queueVars, coroVars, stopVars, pc, bWake>>

-----------------------------------------------------------------------------
\* Where a worker, the poll thread and the main thread can be.
WorkerPc == {"none", "enter", "check", "wait", "asleep", "woken", "leave",
             "run", "exited"}
PollPc   == {"out", "handlers", "setStop", "signalStop", "handshake",
             "broadcast", "after", "exited"}
MainPc   == {"out", "checkStop", "sleepStop", "handshake", "broadcast",
             "join", "joined"}

Init ==
  /\ vCoroutines = <<>>
  /\ iIdleThreadCount = 0
  /\ stMutex = None
  /\ pc = [t \in Threads |-> IF t \in Workers THEN "none" ELSE "out"]
  /\ bWake = [t \in Threads |-> FALSE]
  /\ running = [w \in Workers |-> None]
  /\ suspended = Coroutines
  /\ iPosted = 0
  /\ m_bStopRequested = FALSE
  /\ m_vStopHandlers = <<>>
  /\ iExitCode = None
  /\ bFinishPosted = FALSE
  /\ iHandler = 0
  /\ bStop = FALSE

-----------------------------------------------------------------------------
\* Mutant of Enter: the counter is not incremented.
Enter_NotCounted(w) ==
  /\ pc[w] = "enter"
  /\ stMutex = None
  /\ stMutex' = w
  /\ pc' = [pc EXCEPT ![w] = "check"]
  /\ UNCHANGED <<vCoroutines, iIdleThreadCount, coroVars, stopVars, bWake>>

\* WorkerMain up to the lock, the lock and iIdleThreadCount++.
Enter(w) ==
  /\ pc[w] = "enter"
  /\ stMutex = None
  /\ stMutex' = w
  /\ iIdleThreadCount' = iIdleThreadCount + 1
  /\ pc' = [pc EXCEPT ![w] = "check"]
  /\ UNCHANGED <<vCoroutines, coroVars, stopVars, bWake>>

\* The condition of the while: empty() && !Stopping().
Check(w) ==
  /\ pc[w] = "check"
  /\ pc' = [pc EXCEPT ![w] = IF vCoroutines = <<>> /\ ~bStop
                             THEN "wait" ELSE "leave"]
  /\ UNCHANGED <<queueVars, coroVars, stopVars, bWake>>

\* stCondition.Wait: falls asleep and releases the mutex in one step.
Wait(w) ==
  /\ pc[w] = "wait"
  /\ stMutex' = None
  /\ pc' = [pc EXCEPT ![w] = "asleep"]
  /\ UNCHANGED <<vCoroutines, iIdleThreadCount, coroVars, stopVars, bWake>>

\* A wakeup nobody signalled.
WakeSpuriously(w) ==
  /\ pc[w] = "asleep"
  /\ pc' = [pc EXCEPT ![w] = "woken"]
  /\ UNCHANGED <<queueVars, coroVars, stopVars, bWake>>

\* Wait returns once the worker has the mutex again.
Reacquire(w) ==
  /\ pc[w] = "woken"
  /\ stMutex = None
  /\ stMutex' = w
  /\ pc' = [pc EXCEPT ![w] = "check"]
  /\ UNCHANGED <<vCoroutines, iIdleThreadCount, coroVars, stopVars, bWake>>

\* After the loop: iIdleThreadCount--, then return if stopping.
LeaveStopping(w) ==
  /\ pc[w] = "leave"
  /\ bStop
  /\ iIdleThreadCount' = iIdleThreadCount - 1
  /\ stMutex' = None
  /\ pc' = [pc EXCEPT ![w] = "exited"]
  /\ UNCHANGED <<vCoroutines, coroVars, stopVars, bWake>>

\* After the loop: iIdleThreadCount--, take the front handle, unlock, resume.
LeaveWithCoroutine(w) ==
  /\ pc[w] = "leave"
  /\ ~bStop
  /\ iIdleThreadCount' = iIdleThreadCount - 1
  /\ running' = [running EXCEPT ![w] = Head(vCoroutines)]
  /\ vCoroutines' = Tail(vCoroutines)
  /\ stMutex' = None
  /\ pc' = [pc EXCEPT ![w] = "run"]
  /\ UNCHANGED <<suspended, iPosted, stopVars, bWake>>

\* The resumed coroutine reaches a co_await: from here on an awaiter holds
\* its handle and any thread may post it, although w is still in resume().
Suspend(w) ==
  /\ pc[w] = "run" /\ running[w] # None /\ ~bWake[w]
  /\ suspended' = suspended \cup {running[w]}
  /\ running' = [running EXCEPT ![w] = None]
  /\ UNCHANGED <<queueVars, iPosted, stopVars, pc, bWake>>

\* resume() returns to WorkerMain.
ResumeReturns(w) ==
  /\ pc[w] = "run" /\ running[w] = None /\ ~bWake[w]
  /\ pc' = [pc EXCEPT ![w] = "enter"]
  /\ UNCHANGED <<queueVars, coroVars, stopVars, bWake>>

-----------------------------------------------------------------------------
\* A thread that runs user or framework code that may call the pool: a worker
\* inside a coroutine, the poll thread in a callback or a stop handler, the
\* main thread before StartWork, any other thread.
MayCall(t) ==
  /\ ~bWake[t]
  /\ \/ t \in Workers /\ pc[t] = "run"
     \/ t = Poll /\ pc[t] \in {"out", "handlers", "after"}
     \/ t \in Others \cup {Main} /\ pc[t] = "out"

\* Mutant of PostCoroutine: notifies only when the queue was empty.
PostCoroutine_NotifyIfEmpty(t, c) ==
  /\ MayCall(t)
  /\ c \in suspended
  /\ iPosted < MaxPosts
  /\ stMutex = None
  /\ vCoroutines' = Append(vCoroutines, c)
  /\ bWake' = [bWake EXCEPT ![t] = iIdleThreadCount > 0 /\ vCoroutines = <<>>]
  /\ suspended' = suspended \ {c}
  /\ iPosted' = iPosted + 1
  /\ UNCHANGED <<iIdleThreadCount, stMutex, running, stopVars, pc>>

\* PostCoroutine under the mutex: push_back and bWake = iIdleThreadCount > 0.
PostCoroutine(t, c) ==
  /\ MayCall(t)
  /\ c \in suspended
  /\ iPosted < MaxPosts
  /\ stMutex = None
  /\ vCoroutines' = Append(vCoroutines, c)
  /\ bWake' = [bWake EXCEPT ![t] = iIdleThreadCount > 0]
  /\ suspended' = suspended \ {c}
  /\ iPosted' = iPosted + 1
  /\ UNCHANGED <<iIdleThreadCount, stMutex, running, stopVars, pc>>

\* PostCoroutine after the unlock: stCondition.Signal() wakes one sleeper, if
\* there is one.
Sleepers == {w \in Workers : pc[w] = "asleep"}

Signal(t) ==
  /\ bWake[t]
  /\ bWake' = [bWake EXCEPT ![t] = FALSE]
  /\ \/ \E w \in Sleepers : pc' = [pc EXCEPT ![w] = "woken"]
     \/ Sleepers = {} /\ pc' = pc
  /\ UNCHANGED <<queueVars, coroVars, stopVars>>

\* AddStopHandler: refuses after RequestStop, registers a handler once.
AddStopHandler(t, h) ==
  /\ MayCall(t)
  /\ ~m_bStopRequested
  /\ \A i \in 1..Len(m_vStopHandlers) : m_vStopHandlers[i] # h
  /\ m_vStopHandlers' = Append(m_vStopHandlers, h)
  /\ UNCHANGED <<queueVars, coroVars, m_bStopRequested, iExitCode,
                 bFinishPosted, iHandler, bStop, pc, bWake>>

\* RequestStop: only the first request counts; FinishStop is called at once on
\* the poll thread and posted to it from every other thread.
RequestStop(t, code) ==
  /\ MayCall(t)
  /\ ~m_bStopRequested
  /\ m_bStopRequested' = TRUE
  /\ iExitCode' = code
  /\ IF t = Poll
     THEN pc' = [pc EXCEPT ![Poll] = "handlers"] /\ UNCHANGED bFinishPosted
     ELSE bFinishPosted' = TRUE /\ UNCHANGED pc
  /\ UNCHANGED <<queueVars, coroVars, m_vStopHandlers, iHandler, bStop, bWake>>

-----------------------------------------------------------------------------
\* The poll loop drains the posted call.
BeginFinishStop ==
  /\ pc[Poll] = "out" /\ ~bWake[Poll]
  /\ bFinishPosted
  /\ bFinishPosted' = FALSE
  /\ pc' = [pc EXCEPT ![Poll] = "handlers"]
  /\ UNCHANGED <<queueVars, coroVars, m_bStopRequested, m_vStopHandlers,
                 iExitCode, iHandler, bStop, bWake>>

\* One iteration of the loop over m_vStopHandlers; a handler that throws is
\* reported and the loop goes on. What a handler posts is PostCoroutine(Poll).
RunStopHandler ==
  /\ pc[Poll] = "handlers" /\ ~bWake[Poll]
  /\ iHandler < Len(m_vStopHandlers)
  /\ iHandler' = iHandler + 1
  /\ UNCHANGED <<queueVars, coroVars, m_bStopRequested, m_vStopHandlers,
                 iExitCode, bFinishPosted, bStop, pc, bWake>>

\* The loop over m_vStopHandlers has run every handler.
HandlersDone ==
  /\ pc[Poll] = "handlers" /\ ~bWake[Poll]
  /\ iHandler = Len(m_vStopHandlers)
  /\ pc' = [pc EXCEPT ![Poll] = "setStop"]
  /\ UNCHANGED <<queueVars, coroVars, stopVars, bWake>>

\* bStop.store(true) under stStopMutex, which Main holds only inside MainCheck.
SetStop ==
  /\ pc[Poll] = "setStop"
  /\ bStop' = TRUE
  /\ pc' = [pc EXCEPT ![Poll] = "signalStop"]
  /\ UNCHANGED <<queueVars, coroVars, m_bStopRequested, m_vStopHandlers,
                 iExitCode, bFinishPosted, iHandler, bWake>>

\* stStopCondition.Signal(): wakes Main if it sleeps.
SignalStop ==
  /\ pc[Poll] = "signalStop"
  /\ pc' = [pc EXCEPT ![Poll] = "handshake",
                      ![Main] = IF @ = "sleepStop" THEN "checkStop" ELSE @]
  /\ UNCHANGED <<queueVars, coroVars, stopVars, bWake>>

\* Mutant of Handshake: Broadcast without taking stMutex first.
Handshake_NoLock(t, next) ==
  /\ pc[t] = "handshake"
  /\ pc' = [pc EXCEPT ![t] = next]
  /\ UNCHANGED <<queueVars, coroVars, stopVars, bWake>>

\* Lock and unlock stThreadData.stMutex: passes only when no worker is between
\* its check of bStop and its Wait.
Handshake(t, next) ==
  /\ pc[t] = "handshake"
  /\ stMutex = None
  /\ pc' = [pc EXCEPT ![t] = next]
  /\ UNCHANGED <<queueVars, coroVars, stopVars, bWake>>

PollHandshake == Handshake(Poll, "broadcast")
MainHandshake == Handshake(Main, "broadcast")

\* stThreadData.stCondition.Broadcast(): wakes every sleeping worker.
Broadcast(t, next) ==
  /\ pc[t] = "broadcast"
  /\ pc' = [u \in Threads |-> IF u = t THEN next
                              ELSE IF u \in Sleepers THEN "woken" ELSE pc[u]]
  /\ UNCHANGED <<queueVars, coroVars, stopVars, bWake>>

PollBroadcast == Broadcast(Poll, "after")
MainBroadcast == Broadcast(Main, "join")

-----------------------------------------------------------------------------
\* MultiThreadStartWork spawns the workers; a spawned worker that has not run
\* yet is at "enter".
StartWork ==
  /\ pc[Main] = "out" /\ ~bWake[Main]
  /\ pc' = [t \in Threads |-> IF t \in Workers THEN "enter"
                              ELSE IF t = Main THEN "checkStop" ELSE pc[t]]
  /\ UNCHANGED <<queueVars, coroVars, stopVars, bWake>>

\* while (!bStop) stStopCondition.Wait(stStopMutex), with stStopMutex held.
MainCheck ==
  /\ pc[Main] = "checkStop"
  /\ pc' = [pc EXCEPT ![Main] = IF bStop THEN "handshake" ELSE "sleepStop"]
  /\ UNCHANGED <<queueVars, coroVars, stopVars, bWake>>

MainWakesSpuriously ==
  /\ pc[Main] = "sleepStop"
  /\ pc' = [pc EXCEPT ![Main] = "checkStop"]
  /\ UNCHANGED <<queueVars, coroVars, stopVars, bWake>>

\* join() of every worker, then Poll.StopAndJoin(), which returns when the
\* poll thread is back in its loop and sees g_poll_stop.
Join ==
  /\ pc[Main] = "join"
  /\ \A w \in Workers : pc[w] = "exited"
  /\ pc[Poll] = "after" /\ ~bWake[Poll]
  /\ pc' = [pc EXCEPT ![Main] = "joined", ![Poll] = "exited"]
  /\ UNCHANGED <<queueVars, coroVars, stopVars, bWake>>

-----------------------------------------------------------------------------
WorkerStep(w) ==
  \/ Enter(w) \/ Check(w) \/ Wait(w) \/ Reacquire(w)
  \/ LeaveStopping(w) \/ LeaveWithCoroutine(w) \/ Suspend(w) \/ ResumeReturns(w)

FinishStop ==
  \/ BeginFinishStop \/ RunStopHandler \/ HandlersDone \/ SetStop \/ SignalStop
  \/ PollHandshake \/ PollBroadcast

MainStep == MainCheck \/ MainHandshake \/ MainBroadcast \/ Join

Call(t) ==
  \/ \E c \in Coroutines : PostCoroutine(t, c)
  \/ \E h \in Handlers : AddStopHandler(t, h)
  \/ \E code \in Codes : RequestStop(t, code)

Next ==
  \/ \E w \in Workers : WorkerStep(w) \/ WakeSpuriously(w)
  \/ \E t \in Threads : Call(t) \/ Signal(t)
  \/ FinishStop
  \/ StartWork \/ MainStep \/ MainWakesSpuriously

Spec == Init /\ [][Next]_vars

\* Threads are scheduled, a lock that becomes free again and again is acquired
\* some day, and a coroutine that is resumed suspends or ends some day.
Fairness ==
  /\ \A w \in Workers : WF_vars(Check(w) \/ Wait(w) \/ LeaveStopping(w)
                                \/ LeaveWithCoroutine(w) \/ Suspend(w)
                                \/ ResumeReturns(w))
  /\ \A w \in Workers : SF_vars(Enter(w)) /\ SF_vars(Reacquire(w))
  /\ \A t \in Threads : WF_vars(Signal(t))
  /\ WF_vars(StartWork)
  /\ WF_vars(FinishStop) /\ SF_vars(PollHandshake)
  /\ WF_vars(MainStep) /\ SF_vars(MainHandshake)

FairSpec == Spec /\ Fairness

-----------------------------------------------------------------------------
\* The state is well-typed, and each thread is at a point of its own code.
TypeOK ==
  /\ vCoroutines \in Seq(Coroutines)
  /\ iIdleThreadCount \in Nat
  /\ stMutex \in Workers \cup {None}
  /\ pc \in [Threads -> WorkerPc \cup PollPc \cup MainPc]
  /\ \A w \in Workers : pc[w] \in WorkerPc
  /\ pc[Poll] \in PollPc /\ pc[Main] \in MainPc
  /\ \A t \in Others : pc[t] = "out"
  /\ bWake \in [Threads -> BOOLEAN]
  /\ running \in [Workers -> Coroutines \cup {None}]
  /\ suspended \subseteq Coroutines
  /\ iPosted \in Nat
  /\ m_bStopRequested \in BOOLEAN
  /\ m_vStopHandlers \in Seq(Handlers)
  /\ iExitCode \in Codes \cup {None}
  /\ bFinishPosted \in BOOLEAN
  /\ iHandler \in Nat
  /\ bStop \in BOOLEAN

\* Workers that are past their last Wait and will look at the queue, and
\* threads that are about to Signal: the wakeups that are on their way.
Awake      == {w \in Workers : pc[w] \in {"woken", "check", "leave"}}
Signalling == {t \in Threads : bWake[t]}

\* PostCoroutine notifies only when iIdleThreadCount > 0 and after it has
\* unlocked. Still no wakeup is ever missing: while some worker sleeps, every
\* handle in the run queue has a worker or a Signal of its own on the way to it,
\* so a handle never waits behind a busy worker while another worker sleeps.
NoUnattendedWork ==
  ~bStop /\ Sleepers # {} =>
    Len(vCoroutines) <= Cardinality(Awake) + Cardinality(Signalling)

\* A worker that left the while loop and does not see Stopping() finds a handle
\* to pop: front() and pop_front() never run on an empty deque.
PopNonEmpty ==
  \A w \in Workers : pc[w] = "leave" /\ ~bStop => vCoroutines # <<>>

\* iIdleThreadCount counts the workers between iIdleThreadCount++ and --, awake
\* or asleep.
Idle == {w \in Workers : pc[w] \in {"check", "wait", "asleep", "woken", "leave"}}
IdleCounted == iIdleThreadCount = Cardinality(Idle)

\* The handshake on stMutex before Broadcast: after FinishStop no worker sleeps
\* on stCondition or is about to, so no worker misses the stop.
NoSleeperAfterBroadcast ==
  pc[Poll] \in {"after", "exited"} /\ bStop =>
    \A w \in Workers : pc[w] \notin {"wait", "asleep"}

\* Every handler whose registration AddStopHandler accepted, from whatever
\* thread and however late, has run when the workers are told to stop.
HandlersRunBeforeStop ==
  bStop => iHandler = Len(m_vStopHandlers)

\* What WorkerMain and FinishStop rely on at once: no wakeup is missing, front()
\* never meets an empty deque, and no accepted stop handler is skipped.
PoolSound == NoUnattendedWork /\ PopNonEmpty /\ HandlersRunBeforeStop

\* FinishStop walks m_vStopHandlers without m_stStopHandlerMutex: nobody may
\* change the list once the walk can have begun.
HandlersFrozenOnceRequested ==
  [][m_bStopRequested => m_vStopHandlers' = m_vStopHandlers]_vars

\* A posted coroutine is resumed, unless the pool stops first.
PostedIsResumed ==
  \A c \in Coroutines :
    (\E i \in 1..Len(vCoroutines) : vCoroutines[i] = c)
      ~> (bStop \/ \E w \in Workers : running[w] = c)

\* Once anyone has called RequestStop, StartWork returns: the stop handlers run,
\* every worker exits whatever the queue holds, and the poll thread is joined.
StopTerminates == m_bStopRequested ~> pc[Main] = "joined"
=============================================================================
