------------------------------ MODULE CoroTask ------------------------------
(***************************************************************************)
(* One coroutine task (oi_coro.h: TaskState, TaskFinalSuspend, BasicTask,  *)
(* Awaiter): it runs once on some thread while Task objects that share its *)
(* frame are copied, started and dropped and coroutines await it on other  *)
(* threads.  What is at stake: the life of the frame (iReferences), the    *)
(* life of the waiter nodes that final_suspend walks after it has unlocked, *)
(* a wakeup for every waiter, and the fate of the task's exception.        *)
(*                                                                         *)
(* Steps are the sections under the promise's stMutex and the accesses to  *)
(* its atomics.  The fetch_sub of Release that reaches zero is one step    *)
(* with what follows it: nobody else holds a reference by then.            *)
(***************************************************************************)
EXTENDS Naturals, Sequences, FiniteSets

CONSTANTS
  Handles,    \* BasicTask objects that may share the frame
  First,      \* the one that get_return_object creates
  Parents     \* coroutines that co_await the task, each once

ASSUME TaskAssumption ==
  /\ IsFiniteSet(Handles) /\ First \in Handles
  /\ IsFiniteSet(Parents)

VARIABLES
  iReferences, bDestroyed,
  bReady, stError, pWaiters,          \* pWaiters: the list, newest first
  bDetached, bObserved, bErrorReported,
  iReports,                           \* calls of ReportTaskError
  body,                               \* where the task's own execution is
  vWalk,                              \* what final_suspend has still to wake
  handle,                             \* handle[h]: "new", "live", "dropped"
  awaiter                             \* awaiter[p]: where parent p is

frameVars == <<iReferences, bDestroyed>>
flagVars  == <<bDetached, bObserved, bErrorReported, iReports>>
vars == <<frameVars, bReady, stError, pWaiters, flagVars, body, vWalk, handle,
          awaiter>>

Body == {"run", "threw", "final", "walk", "finished", "gone"}
AwaiterStates == {"before", "created", "checked", "suspended", "scheduled",
                  "resumed", "gone"}

Live == {h \in Handles : handle[h] = "live"}

\* initial_suspend has posted the task or runs it inline: two references, one of
\* the Task object and one of the execution. bDetached comes from TaskLaunch.
Init ==
  /\ iReferences = 2 /\ bDestroyed = FALSE
  /\ bReady = FALSE /\ stError = FALSE /\ pWaiters = <<>>
  /\ bDetached \in BOOLEAN
  /\ bObserved = FALSE /\ bErrorReported = FALSE /\ iReports = 0
  /\ body = "run"
  /\ vWalk = <<>>
  /\ handle = [h \in Handles |-> IF h = First THEN "live" ELSE "new"]
  /\ awaiter = [p \in Parents |-> "before"]

-----------------------------------------------------------------------------
\* TaskState::ReportError: bErrorReported lets one caller through.
ReportError ==
  /\ bErrorReported' = TRUE
  /\ iReports' = IF bErrorReported THEN iReports ELSE iReports + 1

\* promise_type::Release. The last reference reports an exception nobody has
\* seen and destroys the frame.
Release ==
  /\ iReferences' = iReferences - 1
  /\ IF iReferences = 1
     THEN /\ bDestroyed' = TRUE
          /\ IF stError /\ ~bObserved
             THEN ReportError
             ELSE UNCHANGED <<bErrorReported, iReports>>
     ELSE UNCHANGED <<bDestroyed, bErrorReported, iReports>>

-----------------------------------------------------------------------------
\* The task body returns.
Return ==
  /\ body = "run"
  /\ body' = "final"
  /\ UNCHANGED <<frameVars, bReady, stError, pWaiters, flagVars, vWalk, handle,
                 awaiter>>

\* unhandled_exception stores the exception ...
Throw ==
  /\ body = "run"
  /\ stError' = TRUE
  /\ body' = "threw"
  /\ UNCHANGED <<frameVars, bReady, pWaiters, flagVars, vWalk, handle, awaiter>>

\* ... and then reads bDetached.
UnhandledException ==
  /\ body = "threw"
  /\ IF bDetached THEN ReportError ELSE UNCHANGED <<bErrorReported, iReports>>
  /\ body' = "final"
  /\ UNCHANGED <<frameVars, bReady, stError, pWaiters, bDetached, bObserved,
                 vWalk, handle, awaiter>>

\* TaskFinalSuspend::await_suspend under the lock: bReady and the whole list.
FinalSuspend ==
  /\ body = "final"
  /\ bReady' = TRUE
  /\ vWalk' = pWaiters
  /\ pWaiters' = <<>>
  /\ body' = "walk"
  /\ UNCHANGED <<frameVars, stError, flagVars, handle, awaiter>>

\* Mutant of WakeWaiter: Schedule first, then read pNext from the node.
WakeWaiter_NextAfterSchedule ==
  /\ body = "walk" /\ vWalk # <<>>
  /\ IF awaiter[Head(vWalk)] = "suspended"
     THEN /\ awaiter' = [awaiter EXCEPT ![Head(vWalk)] = "scheduled"]
          /\ UNCHANGED vWalk
     ELSE /\ vWalk' = Tail(vWalk)
          /\ UNCHANGED awaiter
  /\ UNCHANGED <<frameVars, bReady, stError, pWaiters, flagVars, body, handle>>

\* One iteration of its loop: read pNext, Schedule the parent. From here on the
\* parent may run on another worker and destroy its node.
WakeWaiter ==
  /\ body = "walk" /\ vWalk # <<>>
  /\ awaiter' = [awaiter EXCEPT ![Head(vWalk)] = "scheduled"]
  /\ vWalk' = Tail(vWalk)
  /\ UNCHANGED <<frameVars, bReady, stError, pWaiters, flagVars, body, handle>>

\* DetachFinished: the execution's reference is kept for DrainDetached.
DetachFinished ==
  /\ body = "walk" /\ vWalk = <<>>
  /\ body' = "finished"
  /\ UNCHANGED <<frameVars, bReady, stError, pWaiters, flagVars, vWalk, handle,
                 awaiter>>

\* Mutant of DrainDetached: the execution's reference is never released.
DrainDetached_Leak ==
  /\ body = "finished"
  /\ body' = "gone"
  /\ UNCHANGED <<frameVars, bReady, stError, pWaiters, flagVars, vWalk, handle,
                 awaiter>>

\* resume() has returned, or an await_ready of the same thread has come first.
DrainDetached ==
  /\ body = "finished"
  /\ Release
  /\ body' = "gone"
  /\ UNCHANGED <<bReady, stError, pWaiters, bDetached, bObserved, vWalk, handle,
                 awaiter>>

-----------------------------------------------------------------------------
\* Copying a BasicTask.
Copy(h) ==
  /\ handle[h] = "new" /\ Live # {}
  /\ handle' = [handle EXCEPT ![h] = "live"]
  /\ iReferences' = iReferences + 1
  /\ UNCHANGED <<bDestroyed, bReady, stError, pWaiters, flagVars, body, vWalk,
                 awaiter>>

\* ~BasicTask.
Drop(h) ==
  /\ h \in Live
  /\ Release
  /\ handle' = [handle EXCEPT ![h] = "dropped"]
  /\ UNCHANGED <<bReady, stError, pWaiters, bDetached, bObserved, body, vWalk,
                 awaiter>>

\* BasicTask::Start: marks the task detached; an exception that is already
\* there when the task has ended is reported here.
Start ==
  /\ Live # {}
  /\ bDetached' = TRUE
  /\ IF ~bDetached /\ bReady /\ stError
     THEN ReportError
     ELSE UNCHANGED <<bErrorReported, iReports>>
  /\ UNCHANGED <<frameVars, bReady, stError, pWaiters, bObserved, body, vWalk,
                 handle, awaiter>>

-----------------------------------------------------------------------------
\* operator co_await: the awaiter takes a reference.
CreateAwaiter(p) ==
  /\ awaiter[p] = "before" /\ Live # {}
  /\ iReferences' = iReferences + 1
  /\ awaiter' = [awaiter EXCEPT ![p] = "created"]
  /\ UNCHANGED <<bDestroyed, bReady, stError, pWaiters, flagVars, body, vWalk,
                 handle>>

\* await_ready reads bReady under the lock.
AwaitReady(p) ==
  /\ awaiter[p] = "created"
  /\ awaiter' = [awaiter EXCEPT ![p] = IF bReady THEN "scheduled" ELSE "checked"]
  /\ UNCHANGED <<frameVars, bReady, stError, pWaiters, flagVars, body, vWalk,
                 handle>>

\* Mutant of AwaitSuspend: trusts what await_ready saw.
AwaitSuspend_NoRecheck(p) ==
  /\ awaiter[p] = "checked"
  /\ awaiter' = [awaiter EXCEPT ![p] = "suspended"]
  /\ pWaiters' = <<p>> \o pWaiters
  /\ UNCHANGED <<frameVars, bReady, stError, flagVars, body, vWalk, handle>>

\* await_suspend looks again under the lock before it links its node.
AwaitSuspend(p) ==
  /\ awaiter[p] = "checked"
  /\ IF bReady
     THEN /\ awaiter' = [awaiter EXCEPT ![p] = "scheduled"]
          /\ UNCHANGED pWaiters
     ELSE /\ awaiter' = [awaiter EXCEPT ![p] = "suspended"]
          /\ pWaiters' = <<p>> \o pWaiters
  /\ UNCHANGED <<frameVars, bReady, stError, flagVars, body, vWalk, handle>>

\* await_resume: rethrows the task's exception, or copies the result.
AwaitResume(p) ==
  /\ awaiter[p] = "scheduled"
  /\ bObserved' = (bObserved \/ stError)
  /\ awaiter' = [awaiter EXCEPT ![p] = "resumed"]
  /\ UNCHANGED <<frameVars, bReady, stError, pWaiters, bDetached, bErrorReported,
                 iReports, body, vWalk, handle>>

\* ~Awaiter at the end of the full expression: the node's memory is gone.
DestroyAwaiter(p) ==
  /\ awaiter[p] = "resumed"
  /\ Release
  /\ awaiter' = [awaiter EXCEPT ![p] = "gone"]
  /\ UNCHANGED <<bReady, stError, pWaiters, bDetached, bObserved, body, vWalk,
                 handle>>

-----------------------------------------------------------------------------
Execute ==
  \/ Return \/ Throw \/ UnhandledException \/ FinalSuspend \/ WakeWaiter
  \/ DetachFinished \/ DrainDetached

Await(p) ==
  \/ AwaitReady(p) \/ AwaitSuspend(p) \/ AwaitResume(p) \/ DestroyAwaiter(p)

Next ==
  \/ Execute
  \/ \E h \in Handles : Copy(h) \/ Drop(h)
  \/ Start
  \/ \E p \in Parents : CreateAwaiter(p) \/ Await(p)

Spec == Init /\ [][Next]_vars

\* The task ends some day, the pool resumes what is scheduled (ThreadPool), and
\* every Task object goes out of scope.
Fairness ==
  /\ WF_vars(Execute)
  /\ \A p \in Parents : WF_vars(Await(p))
  /\ \A h \in Handles : WF_vars(Drop(h))

FairSpec == Spec /\ Fairness

-----------------------------------------------------------------------------
\* The state is well-typed.
TypeOK ==
  /\ iReferences \in Nat
  /\ bDestroyed \in BOOLEAN /\ bReady \in BOOLEAN /\ stError \in BOOLEAN
  /\ pWaiters \in Seq(Parents) /\ vWalk \in Seq(Parents)
  /\ bDetached \in BOOLEAN /\ bObserved \in BOOLEAN /\ bErrorReported \in BOOLEAN
  /\ iReports \in Nat
  /\ body \in Body
  /\ handle \in [Handles -> {"new", "live", "dropped"}]
  /\ awaiter \in [Parents -> AwaiterStates]

\* The awaiters that hold a reference and whose node is in memory.
Holding == {p \in Parents : awaiter[p] \notin {"before", "gone"}}

\* iReferences counts the Task objects, the awaiters and the execution, and the
\* frame is destroyed exactly when nobody is left: whoever may still touch the
\* promise finds it alive, and the frame is not leaked.
ReferencesExact ==
  /\ iReferences = Cardinality(Live) + Cardinality(Holding)
                     + (IF body = "gone" THEN 0 ELSE 1)
  /\ bDestroyed <=> iReferences = 0

\* final_suspend walks the list after it has unlocked. Every node it has still to
\* read belongs to a parent that is parked, so its memory is there; and a parked
\* parent is linked exactly once, so it is neither forgotten nor woken twice.
Members(s) == {s[i] : i \in 1..Len(s)}
NoDuplicates(s) == \A i, j \in 1..Len(s) : s[i] = s[j] => i = j
WaitersLinked ==
  /\ Members(pWaiters) \cup Members(vWalk) = {p \in Parents : awaiter[p] = "suspended"}
  /\ Members(pWaiters) \cap Members(vWalk) = {}
  /\ NoDuplicates(pWaiters) /\ NoDuplicates(vWalk)

\* Nobody parks on a task that has completed: await_suspend and final_suspend
\* share the lock.
NoParkAfterReady == bReady => pWaiters = <<>>

\* An exception is not lost: when the frame goes, a waiter has rethrown it or it
\* has been reported. It is reported at most once.
ErrorNotLost ==
  /\ bDestroyed /\ stError => bObserved \/ bErrorReported
  /\ iReports = IF bErrorReported THEN 1 ELSE 0

\* What TaskPromiseBase owes its holders at once: an exact count of references, a
\* list of waiters nobody falls out of, and an exception somebody gets to see.
TaskSound == ReferencesExact /\ WaitersLinked /\ ErrorNotLost

\* A task that is detached reports its exception itself, whoever else waits.
DetachedErrorReported ==
  bDestroyed /\ stError /\ bDetached => bErrorReported

\* The frame is destroyed in the end, whatever order the task, its waiters and
\* the Task objects come to their end in.
FrameDestroyed == <>[]bDestroyed

\* The task is a Completion: the refinement mapping.
waiterBar ==
  [p \in Parents |-> CASE awaiter[p] \in {"before", "created", "checked"} -> "before"
                       [] awaiter[p] = "suspended" -> "parked"
                       [] OTHER -> "through"]
Abstract == INSTANCE Completion WITH Waiters <- Parents, bDone <- bReady,
                                     waiter <- waiterBar
\* CoroTask implements Completion: a parent gets through once, after bReady, does
\* not park on a finished task, and does not stay parked (with its fairness).
ImplementsCompletion == Abstract!Spec
=============================================================================
