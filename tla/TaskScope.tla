----------------------------- MODULE TaskScope ------------------------------
(***************************************************************************)
(* TaskScope (oi_coro.h, oi_coro.cpp): coroutines start jobs in a scope,   *)
(* others Join it, and the scope may be stopped or destroyed at any time.  *)
(*                                                                         *)
(* Steps are the sections under State::stMutex.  Start is two steps that   *)
(* hold the mutex throughout: the job is in the run queue after the first  *)
(* one, and may run, before iActive counts it.                             *)
(***************************************************************************)
EXTENDS Integers, ScopeConstants

VARIABLES
  starting,   \* the job whose Start holds stMutex, or None
  job,        \* job[j]: where the coroutine Run of j is
  waking,     \* waking[j]: waiters Run still has to schedule (vWaitersLocal)
  iActive, vWaiters, bClosed, stError, pStop,
  joiner,     \* joiner[p]: where the co_await of Join is
  thrown      \* jobs whose function threw

vars == <<starting, job, waking, iActive, vWaiters, bClosed, stError, pStop,
          joiner, thrown>>
joinVars == <<vWaiters, bClosed, joiner>>

Unlocked == starting = None

Init ==
  /\ starting = None
  /\ job = [j \in Jobs |-> "new"]
  /\ waking = [j \in Jobs |-> {}]
  /\ iActive = 0
  /\ vWaiters = {}
  /\ bClosed = FALSE
  /\ stError = None
  /\ pStop = FALSE
  /\ joiner = [p \in Joiners |-> "before"]
  /\ thrown = {}

-----------------------------------------------------------------------------
\* Start: lock; a closed scope throws logic_error, otherwise InvokeTask posts Run.
StartPost(j) ==
  /\ Unlocked /\ job[j] = "new"
  /\ ~bClosed
  /\ starting' = j
  /\ job' = [job EXCEPT ![j] = "running"]
  /\ UNCHANGED <<waking, iActive, stError, pStop, thrown, joinVars>>

StartRefused(j) ==
  /\ Unlocked /\ job[j] = "new"
  /\ bClosed
  /\ job' = [job EXCEPT ![j] = "refused"]
  /\ UNCHANGED <<starting, waking, iActive, stError, pStop, thrown, joinVars>>

\* Start: ++iActive; unlock.
StartCount(j) ==
  /\ starting = j
  /\ iActive' = iActive + 1
  /\ starting' = None
  /\ UNCHANGED <<job, waking, stError, pStop, thrown, joinVars>>

-----------------------------------------------------------------------------
\* Run: fnFunction ends, or throws.
Return(j) ==
  /\ job[j] = "running"
  /\ job' = [job EXCEPT ![j] = "ended"]
  /\ UNCHANGED <<starting, waking, iActive, stError, pStop, thrown, joinVars>>

Throw(j) ==
  /\ job[j] = "running"
  /\ job' = [job EXCEPT ![j] = "failed"]
  /\ thrown' = thrown \cup {j}
  /\ UNCHANGED <<starting, waking, iActive, stError, pStop, joinVars>>

\* Run: the catch block keeps the first exception and requests the stop.
Catch(j) ==
  /\ Unlocked /\ job[j] = "failed"
  /\ stError' = IF stError = None THEN j ELSE stError
  /\ pStop' = TRUE
  /\ job' = [job EXCEPT ![j] = "ended"]
  /\ UNCHANGED <<starting, waking, iActive, thrown, joinVars>>

\* Mutant: Run counts down before it has kept the exception.
Finish_BeforeCatch(j) ==
  /\ Unlocked /\ job[j] \in {"failed", "ended"}
  /\ iActive' = iActive - 1
  /\ waking' = [waking EXCEPT ![j] = IF iActive = 1 THEN vWaiters ELSE {}]
  /\ vWaiters' = IF iActive = 1 THEN {} ELSE vWaiters
  /\ job' = [job EXCEPT ![j] = "wake"]
  /\ UNCHANGED <<starting, bClosed, stError, pStop, joiner, thrown>>

\* Run: --iActive; the one who reaches zero takes the waiters.
Finish(j) ==
  /\ Unlocked /\ job[j] = "ended"
  /\ iActive' = iActive - 1
  /\ waking' = [waking EXCEPT ![j] = IF iActive = 1 THEN vWaiters ELSE {}]
  /\ vWaiters' = IF iActive = 1 THEN {} ELSE vWaiters
  /\ job' = [job EXCEPT ![j] = "wake"]
  /\ UNCHANGED <<starting, bClosed, stError, pStop, joiner, thrown>>

\* Run: Schedule one of them.
Wake(j, p) ==
  /\ job[j] = "wake" /\ p \in waking[j]
  /\ waking' = [waking EXCEPT ![j] = @ \ {p}]
  /\ joiner' = [joiner EXCEPT ![p] = "scheduled"]
  /\ UNCHANGED <<starting, job, iActive, vWaiters, bClosed, stError, pStop, thrown>>

-----------------------------------------------------------------------------
\* Mutant: Join parks whatever the count is.
AwaitSuspend_NoZeroCheck(p) ==
  /\ Unlocked /\ joiner[p] = "before"
  /\ bClosed' = TRUE
  /\ vWaiters' = vWaiters \cup {p}
  /\ joiner' = [joiner EXCEPT ![p] = "suspended"]
  /\ UNCHANGED <<starting, job, waking, iActive, stError, pStop, thrown>>

\* JoinAwaiter::await_suspend closes the scope, and parks unless nothing is active.
AwaitSuspend(p) ==
  /\ Unlocked /\ joiner[p] = "before"
  /\ bClosed' = TRUE
  /\ vWaiters' = IF iActive = 0 THEN vWaiters ELSE vWaiters \cup {p}
  /\ joiner' = [joiner EXCEPT ![p] = IF iActive = 0 THEN "scheduled" ELSE "suspended"]
  /\ UNCHANGED <<starting, job, waking, iActive, stError, pStop, thrown>>

\* JoinAwaiter::await_resume rethrows the first exception, if any.
AwaitResume(p) ==
  /\ Unlocked /\ joiner[p] = "scheduled"
  /\ joiner' = [joiner EXCEPT ![p] = IF stError = None THEN "returned" ELSE "threw"]
  /\ UNCHANGED <<starting, job, waking, iActive, vWaiters, bClosed, stError, pStop, thrown>>

\* RequestStop, also called by the destructor.
RequestStop ==
  /\ Unlocked
  /\ bClosed' = TRUE
  /\ pStop' = TRUE
  /\ UNCHANGED <<starting, job, waking, iActive, vWaiters, stError, joiner, thrown>>

-----------------------------------------------------------------------------
Start(j) == StartPost(j) \/ StartRefused(j) \/ StartCount(j)
Run(j) == Return(j) \/ Throw(j) \/ Catch(j) \/ Finish(j) \/ \E p \in Joiners : Wake(j, p)
Join(p) == AwaitSuspend(p) \/ AwaitResume(p)

Next ==
  \/ \E j \in Jobs : Start(j) \/ Run(j)
  \/ \E p \in Joiners : Join(p)
  \/ RequestStop

Spec == Init /\ [][Next]_vars

(***************************************************************************)
(* A thread inside Start goes on.  A job ends (an obligation of its        *)
(* function) and, like a joiner, gets the mutex some day although Start    *)
(* may take it in between: strong fairness.  Nobody has to start a job,    *)
(* join, or stop.                                                          *)
(***************************************************************************)
FairSpec ==
  /\ Spec
  /\ \A j \in Jobs : WF_vars(StartCount(j)) /\ SF_vars(Run(j))
  /\ \A p \in Joiners : SF_vars(AwaitResume(p))

-----------------------------------------------------------------------------
\* Jobs that Start accepted and that have not counted down.
Working == {j \in Jobs : job[j] \in {"running", "failed", "ended"}}

\* The state is well-typed; size_t iActive never goes below zero.
TypeOK ==
  /\ starting \in Jobs \cup {None}
  /\ job \in [Jobs -> {"new", "refused", "running", "failed", "ended", "wake"}]
  /\ waking \in [Jobs -> SUBSET Joiners]
  /\ iActive \in Nat
  /\ vWaiters \subseteq Joiners
  /\ bClosed \in BOOLEAN
  /\ stError \in Jobs \cup {None}
  /\ pStop \in BOOLEAN
  /\ joiner \in [Joiners -> {"before", "suspended", "scheduled", "returned", "threw"}]
  /\ thrown \subseteq Jobs

\* A Join that goes on leaves no accepted job behind, now or later
\* ("等到已启动的任务都结束").
JoinSound ==
  \A p \in Joiners : joiner[p] \in {"scheduled", "returned", "threw"} => Working = {}

\* A Join returns normally only if no job of the scope threw.
ErrorSeen == \A p \in Joiners : joiner[p] = "returned" => thrown = {}

\* iActive is the number of accepted jobs that have not counted down, but for the one
\* whose Start still holds the mutex: size_t does not underflow when that job is fast.
ActiveExact == iActive = Cardinality(Working \ {starting})

\* What Join promises, and the count it relies on: every accepted job has ended, and if one
\* threw the caller gets to see it.
ScopeSound == JoinSound /\ ErrorSeen /\ ActiveExact

\* A suspended Join comes back.
JoinReturns ==
  \A p \in Joiners : joiner[p] = "suspended" ~> joiner[p] \in {"returned", "threw"}
=============================================================================
