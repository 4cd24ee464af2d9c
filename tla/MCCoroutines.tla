--------------------------- MODULE MCCoroutines -----------------------------
(***************************************************************************)
(* TLC instance of three parts of the coroutine library: WhenAll over five *)
(* elements and four tasks (the first task stands in vTasks twice, with    *)
(* another one in between), a TaskScope with three jobs and two joiners,   *)
(* and the scheduler of a single-threaded program.  A behaviour is one of  *)
(* one of them, and system says which.                                     *)
(***************************************************************************)
EXTENDS WhenAll, ScopeConstants

CONSTANTS a, b, c, d, c1, c2, c3

VARIABLES
  system,
  \* TaskScope
  starting, job, waking, iActive, vWaiters, bClosed, stError, pStop, joiner, thrown,
  \* StScheduler
  pc, g_st_queue, vBatch, running, suspended, done, bStop

scopeVars ==
  <<starting, job, waking, iActive, vWaiters, bClosed, stError, pStop, joiner, thrown>>
schedulerVars == <<pc, g_st_queue, vBatch, running, suspended, done, bStop>>

FourTasks == {a, b, c, d}
FirstTwice == <<a, b, a, c, d>>

T == INSTANCE TaskScope
S == INSTANCE StScheduler WITH Coroutines <- {c1, c2, c3}

InitAll == system \in {"all", "scope", "scheduler"} /\ Init /\ T!Init /\ S!Init

WhenAllNext == system = "all" /\ Next /\ UNCHANGED <<system, scopeVars, schedulerVars>>
ScopeNext == system = "scope" /\ T!Next /\ UNCHANGED <<system, vars, schedulerVars>>
SchedulerNext == system = "scheduler" /\ S!Next /\ UNCHANGED <<system, vars, scopeVars>>
NextAll == WhenAllNext \/ ScopeNext \/ SchedulerNext

\* The fairness of FairSpec, of T!FairSpec and of S!FairSpec, each in its own behaviours.
Fairness ==
  /\ WF_vars(system = "all" /\ Parent)
  /\ \A t \in Tasks : WF_vars(system = "all" /\ End(t))
  /\ \A j \in Jobs : /\ WF_scopeVars(system = "scope" /\ T!StartCount(j))
                     /\ SF_scopeVars(system = "scope" /\ T!Run(j))
  /\ \A p \in Joiners : SF_scopeVars(system = "scope" /\ T!AwaitResume(p))
  /\ WF_schedulerVars(system = "scheduler" /\ (S!Loop \/ S!Poll \/ S!Resume \/ S!PumpOnce
                                                 \/ S!PollWaitReturns))
  /\ WF_schedulerVars(system = "scheduler" /\ (S!RunYields \/ S!RunSuspends \/ S!RunEnds))

SpecAll == InitAll /\ [][NextAll]_<<system, vars, scopeVars, schedulerVars>> /\ Fairness

-----------------------------------------------------------------------------
\* TaskScope: a Join that goes on leaves no accepted job behind, and hears of an exception
\* (oi_coro.cpp:255).
ScopeSound == T!ScopeSound

\* TaskScope: a suspended Join comes back (oi_coro.h:642).
JoinReturns == T!JoinReturns

\* StScheduler: a queued coroutine is resumed, and the network has its turn although
\* coroutines yield for ever (oi_coro.cpp:215, oi_thread.cpp:251).
EveryoneGetsATurn == system = "scheduler" => S!EveryoneGetsATurn
=============================================================================
