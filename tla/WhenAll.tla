------------------------------ MODULE WhenAll -------------------------------
(***************************************************************************)
(* WhenAll (oi_coro.h: WhenAllState, WhenAllAwaiter).  The parent links    *)
(* one slot per element of vTasks into the tasks that are still running;   *)
(* a task that ends walks its list, and each slot counts iLeft down.  The  *)
(* one who reaches zero and the parent that wants to suspend meet at       *)
(* iGate.  Slots, iLeft and iGate live in one heap object, which the parent *)
(* frees when it goes on, while other threads may still be in OnReady.     *)
(*                                                                         *)
(* Steps are the sections under a task's stMutex and the accesses to the   *)
(* atomics iLeft and iGate.  The same task may stand in vTasks more than   *)
(* once (copies of a Task share one frame).                                *)
(***************************************************************************)
EXTENDS Naturals, FiniteSets

CONSTANTS
  N,         \* vTasks.size()
  Tasks,     \* the distinct tasks
  TaskOf     \* the task an element of vTasks refers to

Slots == 1..N

ASSUME WhenAllAssumption ==
  /\ N \in Nat \ {0}
  /\ TaskOf \in [Slots -> Tasks]

VARIABLES
  task,      \* task[t]: where the final_suspend of t is
  linked,    \* slots that hang in a pWaiters list, or in the rest of the list
             \* a final_suspend still has to walk
  iLeft,
  iGate,
  parent,    \* where the parent's await_suspend is
  iIndex,    \* the loop variable of await_suspend
  bFreed,    \* the WhenAllState has been freed
  iScheduled \* how often OnReady has scheduled the parent

vars == <<task, linked, iLeft, iGate, parent, iIndex, bFreed, iScheduled>>

TaskPc == {"run", "walk", "last", "wake"}
ParentPc == {"before", "loop", "ready", "lastCounted", "suspended",
             "scheduled", "through"}

Init ==
  /\ task = [t \in Tasks |-> "run"]
  /\ linked = {}
  /\ iLeft = 0
  /\ iGate = "Idle"
  /\ parent = "before"
  /\ iIndex = 1
  /\ bFreed = FALSE
  /\ iScheduled = 0

-----------------------------------------------------------------------------
\* await_suspend: iLeft.store(iCount); no slot is linked yet.
StoreLeft ==
  /\ parent = "before"
  /\ iLeft' = N
  /\ parent' = "loop"
  /\ UNCHANGED <<task, linked, iGate, iIndex, bFreed, iScheduled>>

\* One element of the loop, under the task's lock: link its slot, or see bReady.
LinkSlot ==
  /\ parent = "loop" /\ iIndex <= N
  /\ task[TaskOf[iIndex]] = "run"
  /\ linked' = linked \cup {iIndex}
  /\ iIndex' = iIndex + 1
  /\ UNCHANGED <<task, iLeft, iGate, parent, bFreed, iScheduled>>

SeeReady ==
  /\ parent = "loop" /\ iIndex <= N
  /\ task[TaskOf[iIndex]] # "run"
  /\ parent' = "ready"
  /\ UNCHANGED <<task, linked, iLeft, iGate, iIndex, bFreed, iScheduled>>

\* Mutant: the parent takes any ready task for the last one.
CountReady_AlwaysLast ==
  /\ parent = "ready"
  /\ iLeft' = iLeft - 1
  /\ iIndex' = iIndex + 1
  /\ parent' = "lastCounted"
  /\ UNCHANGED <<task, linked, iGate, bFreed, iScheduled>>

\* iLeft.fetch_sub(1) for a task that was ready; the last one also sets the gate.
CountReady ==
  /\ parent = "ready"
  /\ iLeft' = iLeft - 1
  /\ iIndex' = iIndex + 1
  /\ parent' = IF iLeft = 1 THEN "lastCounted" ELSE "loop"
  /\ UNCHANGED <<task, linked, iGate, bFreed, iScheduled>>

ParentReady ==
  /\ parent = "lastCounted"
  /\ iGate' = "Ready"
  /\ parent' = "loop"
  /\ UNCHANGED <<task, linked, iLeft, iIndex, bFreed, iScheduled>>

\* Mutant: the previous value of the gate is ignored.
ExchangeWaiting_AlwaysSuspend ==
  /\ parent = "loop" /\ iIndex > N
  /\ iGate' = "Waiting"
  /\ parent' = "suspended"
  /\ UNCHANGED <<task, linked, iLeft, iIndex, bFreed, iScheduled>>

\* iGate.exchange(Waiting): suspend unless it was Ready.
ExchangeWaiting ==
  /\ parent = "loop" /\ iIndex > N
  /\ iGate' = "Waiting"
  /\ parent' = IF iGate = "Ready" THEN "scheduled" ELSE "suspended"
  /\ UNCHANGED <<task, linked, iLeft, iIndex, bFreed, iScheduled>>

\* The parent goes on; the awaiter, and the state with it, is destroyed.
Continue ==
  /\ parent = "scheduled"
  /\ parent' = "through"
  /\ bFreed' = TRUE
  /\ UNCHANGED <<task, linked, iLeft, iGate, iIndex, iScheduled>>

-----------------------------------------------------------------------------
\* final_suspend of t: bReady and the whole list, under the lock.
FinalSuspend(t) ==
  /\ task[t] = "run"
  /\ task' = [task EXCEPT ![t] = "walk"]
  /\ UNCHANGED <<linked, iLeft, iGate, parent, iIndex, bFreed, iScheduled>>

\* The walk takes the next slot (pNext has been read) and OnReady counts it.
OnReady(t, s) ==
  /\ task[t] = "walk"
  /\ s \in linked /\ TaskOf[s] = t
  /\ linked' = linked \ {s}
  /\ iLeft' = iLeft - 1
  /\ task' = [task EXCEPT ![t] = IF iLeft = 1 THEN "last" ELSE "walk"]
  /\ UNCHANGED <<iGate, parent, iIndex, bFreed, iScheduled>>

\* OnReady: iGate.exchange(Ready); true only if the parent was Waiting.
ExchangeReady(t) ==
  /\ task[t] = "last"
  /\ iGate' = "Ready"
  /\ task' = [task EXCEPT ![t] = IF iGate = "Waiting" THEN "wake" ELSE "walk"]
  /\ UNCHANGED <<linked, iLeft, parent, iIndex, bFreed, iScheduled>>

\* final_suspend: Schedule(pWaiter->stParent).
WakeParent(t) ==
  /\ task[t] = "wake"
  /\ iScheduled' = iScheduled + 1
  /\ parent' = IF parent = "suspended" THEN "scheduled" ELSE parent
  /\ task' = [task EXCEPT ![t] = "walk"]
  /\ UNCHANGED <<linked, iLeft, iGate, iIndex, bFreed>>

-----------------------------------------------------------------------------
Parent ==
  StoreLeft \/ LinkSlot \/ SeeReady \/ CountReady \/ ParentReady
    \/ ExchangeWaiting \/ Continue

End(t) ==
  FinalSuspend(t) \/ (\E s \in Slots : OnReady(t, s)) \/ ExchangeReady(t) \/ WakeParent(t)

Next == Parent \/ \E t \in Tasks : End(t)

Spec == Init /\ [][Next]_vars

\* Every thread goes on, and every task ends.
FairSpec == Spec /\ WF_vars(Parent) /\ \A t \in Tasks : WF_vars(End(t))

-----------------------------------------------------------------------------
\* The state is well-typed.
TypeOK ==
  /\ task \in [Tasks -> TaskPc]
  /\ linked \subseteq Slots
  /\ iLeft \in 0..N
  /\ iGate \in {"Idle", "Ready", "Waiting"}
  /\ parent \in ParentPc
  /\ iIndex \in 1..(N + 1)
  /\ bFreed \in BOOLEAN
  /\ iScheduled \in Nat

\* A thread that follows a slot finds it there: when the parent frees the state, no
\* slot is linked and no final_suspend is inside OnReady or about to read stParent.
StateAlive == bFreed => /\ linked = {}
                        /\ \A t \in Tasks : task[t] \notin {"last", "wake"}

\* The parent goes on only when every task has ended ("等到全部结束再返回").
AllEnded == parent \in {"scheduled", "through"} => \A s \in Slots : task[TaskOf[s]] # "run"

\* The parent is scheduled at most once and only while it is suspended: a parent
\* that did not suspend is never resumed by someone else.
ScheduledOnce ==
  /\ iScheduled <= 1
  /\ \A t \in Tasks : task[t] = "wake" => parent = "suspended" /\ iScheduled = 0

\* What the parent and the slots in its frame owe each other: nobody reads a freed
\* slot, the parent does not go on early, and nobody wakes it twice.
WhenAllSound == StateAlive /\ AllEnded /\ ScheduledOnce

\* iLeft is the number of slots nobody has counted yet: those that are linked and
\* those the loop has still to reach.  It cannot underflow or strand the parent.
Outstanding == linked \cup {s \in Slots : s >= iIndex}
LeftExact == parent # "before" => iLeft = Cardinality(Outstanding)

-----------------------------------------------------------------------------
(***************************************************************************)
(* WhenAll is a Completion with the parent as its only waiter; it completes *)
(* when Ready is put into the gate.                                        *)
(***************************************************************************)
bDoneBar == iGate = "Ready" \/ parent \in {"scheduled", "through"}
waiterBar ==
  [p \in {"parent"} |-> CASE parent = "suspended" -> "parked"
                          [] parent \in {"scheduled", "through"} -> "through"
                          [] OTHER -> "before"]
Abstract == INSTANCE Completion
              WITH Waiters <- {"parent"}, bDone <- bDoneBar, waiter <- waiterBar

\* The parent parks only before the completion, gets through once and only after
\* it, and is not left parked.
ImplementsCompletion == Abstract!Spec
=============================================================================
