-------------------------- MODULE CoroutinesProofs --------------------------
(***************************************************************************)
(* Proofs about WhenAll, for every number of elements and every way tasks  *)
(* repeat among them, and about TaskScope (the instance T of               *)
(* MCCoroutines), for every number of jobs and joiners.                    *)
(***************************************************************************)
EXTENDS MCCoroutines, FiniteSetTheorems, TLAPS

(***************************************************************************)
(* WhenAll.  Two facts carry the argument: iLeft is exactly the number of  *)
(* slots nobody has counted (LeftExact), and whoever counts the last one   *)
(* is alone with the gate from then on (GateInv).                          *)
(***************************************************************************)
\* The threads that hold, or are about to hand over, the completion.
Closing(t) == task[t] \in {"last", "wake"}

\* What the loop of await_suspend has done so far.
LoopInv ==
  /\ \A s \in linked : s < iIndex
  /\ parent = "before" => iIndex = 1 /\ linked = {} /\ iGate = "Idle"
  /\ parent = "ready" => iIndex <= N /\ task[TaskOf[iIndex]] # "run"
  /\ parent \in {"suspended", "scheduled", "through"} => iIndex = N + 1
  /\ parent \in {"loop", "ready", "lastCounted"} => iGate # "Waiting"
  /\ \A s \in Slots : s \notin Outstanding => task[TaskOf[s]] # "run"

\* While a slot is outstanding nobody completes; afterwards there is one closer at
\* most, and its position, the gate and the parent's position fit together.
GateInv ==
  /\ parent = "before" \/ iLeft > 0 =>
       /\ \A t \in Tasks : ~Closing(t)
       /\ iGate # "Ready"
       /\ parent \notin {"lastCounted", "scheduled", "through"}
  /\ \A t, u \in Tasks : Closing(t) /\ Closing(u) => t = u
  /\ parent = "lastCounted" => iGate = "Idle" /\ \A t \in Tasks : ~Closing(t)
  /\ \A t \in Tasks : task[t] = "last" => iGate # "Ready" /\ parent \in {"loop", "suspended"}
  /\ \A t \in Tasks : task[t] = "wake" => iGate = "Ready" /\ parent = "suspended"
  /\ parent \in {"scheduled", "through"} => \A t \in Tasks : ~Closing(t)
  /\ parent = "suspended" /\ iGate = "Ready" => \E t \in Tasks : task[t] = "wake"
  /\ parent = "suspended" => iGate # "Idle"

\* When the parent was scheduled from outside, and when its state goes.
OnceInv ==
  /\ iScheduled \in {0, 1}
  /\ iScheduled = 1 => parent \in {"scheduled", "through"}
  /\ bFreed <=> parent = "through"

IInv == TypeOK /\ LeftExact /\ LoopInv /\ GateInv /\ OnceInv

-----------------------------------------------------------------------------
\* Outstanding is a finite set; once it is empty no slot is linked or to come.
LEMMA OutstandingFinite ==
  ASSUME TypeOK
  PROVE  /\ IsFiniteSet(Outstanding)
         /\ Cardinality(Outstanding) \in Nat
         /\ Cardinality(Outstanding) = 0 <=> Outstanding = {}
<1>1. Outstanding \subseteq 1..N
  BY DEF TypeOK, Outstanding, Slots
<1>2. IsFiniteSet(1..N)
  BY WhenAllAssumption, FS_Interval
<1> QED
  BY <1>1, <1>2, FS_Subset, FS_CardinalityType, FS_EmptySet

\* The count and the set of outstanding slots move together.
LEMMA LeftStep ==
  ASSUME IInv, Next
  PROVE  LeftExact' /\ iLeft' \in 0..N
<1> USE WhenAllAssumption
<1>f. /\ IsFiniteSet(Outstanding) /\ Cardinality(Outstanding) \in Nat
      /\ parent # "before" => iLeft = Cardinality(Outstanding)
      /\ iLeft \in 0..N /\ N \in Nat /\ linked \subseteq Slots /\ iIndex \in 1..(N + 1)
  BY OutstandingFinite DEF IInv, LeftExact, TypeOK
<1>1. CASE StoreLeft
  <2>1. Outstanding' = 1..N
    BY <1>1 DEF StoreLeft, IInv, LoopInv, Outstanding, Slots
  <2>2. Cardinality(1..N) = N
    BY FS_Interval
  <2> QED
    BY <2>1, <2>2, <1>1 DEF StoreLeft, LeftExact
<1>2. CASE LinkSlot
  <2>1. Outstanding' = Outstanding
    BY <1>2, <1>f DEF LinkSlot, Outstanding, Slots
  <2> QED
    BY <2>1, <1>2, <1>f DEF LinkSlot, LeftExact
<1>3. CASE CountReady
  <2>1. Outstanding' = Outstanding \ {iIndex} /\ iIndex \in Outstanding
    BY <1>3, <1>f DEF CountReady, IInv, LoopInv, Outstanding, Slots
  <2>2. Cardinality(Outstanding') = iLeft - 1 /\ iLeft > 0
    BY <2>1, <1>3, <1>f, FS_RemoveElement, FS_EmptySet DEF CountReady
  <2> QED
    BY <2>2, <1>3, <1>f DEF CountReady, LeftExact
<1>4. ASSUME NEW t \in Tasks, NEW s \in Slots, OnReady(t, s)
      PROVE  LeftExact' /\ iLeft' \in 0..N
  <2>1. Outstanding' = Outstanding \ {s} /\ s \in Outstanding /\ parent # "before"
    BY <1>4, <1>f DEF OnReady, IInv, LoopInv, Outstanding, Slots
  <2>2. Cardinality(Outstanding') = iLeft - 1 /\ iLeft > 0
    BY <2>1, <1>f, FS_RemoveElement, FS_EmptySet
  <2> QED
    BY <2>1, <2>2, <1>4, <1>f DEF OnReady, LeftExact
<1>5. CASE \/ SeeReady \/ ParentReady \/ ExchangeWaiting \/ Continue
           \/ \E t \in Tasks : FinalSuspend(t) \/ ExchangeReady(t) \/ WakeParent(t)
  <2>1. /\ UNCHANGED <<linked, iIndex, iLeft>>
        /\ parent # "before" \/ parent' = parent
    BY <1>5 DEF SeeReady, ParentReady, ExchangeWaiting, Continue, FinalSuspend,
                ExchangeReady, WakeParent
  <2>2. Outstanding' = Outstanding
    BY <2>1 DEF Outstanding
  <2> QED
    BY <2>1, <2>2, <1>f DEF LeftExact
<1> QED
  BY <1>1, <1>2, <1>3, <1>4, <1>5 DEF Next, Parent, End

\* Every step keeps the types.
LEMMA TypeStep ==
  ASSUME IInv, Next
  PROVE  TypeOK'
<1> USE WhenAllAssumption
<1>f. /\ TypeOK /\ LoopInv /\ GateInv /\ OnceInv /\ LeftExact
      /\ iLeft' \in 0..N /\ LeftExact'
  BY LeftStep DEF IInv
<1>1. CASE StoreLeft
  BY <1>1, <1>f DEF StoreLeft, TypeOK, TaskPc, ParentPc, LoopInv, OnceInv, Slots
<1>2. CASE LinkSlot
  BY <1>2, <1>f DEF LinkSlot, TypeOK, TaskPc, ParentPc, LoopInv, OnceInv, Slots
<1>3. CASE SeeReady
  BY <1>3, <1>f DEF SeeReady, TypeOK, TaskPc, ParentPc, LoopInv, OnceInv, Slots
<1>4. CASE CountReady
  BY <1>4, <1>f DEF CountReady, TypeOK, TaskPc, ParentPc, LoopInv, OnceInv, Slots
<1>5. CASE ParentReady
  BY <1>5, <1>f DEF ParentReady, TypeOK, TaskPc, ParentPc, LoopInv, OnceInv, Slots
<1>6. CASE ExchangeWaiting
  BY <1>6, <1>f DEF ExchangeWaiting, TypeOK, TaskPc, ParentPc, LoopInv, OnceInv, Slots
<1>7. CASE Continue
  BY <1>7, <1>f DEF Continue, TypeOK, TaskPc, ParentPc, LoopInv, OnceInv, Slots
<1>8. ASSUME NEW t \in Tasks, FinalSuspend(t)
      PROVE  TypeOK'
  BY <1>8, <1>f DEF FinalSuspend, TypeOK, TaskPc, ParentPc, LoopInv, OnceInv, Slots
<1>9. ASSUME NEW t \in Tasks, NEW s \in Slots, OnReady(t, s)
      PROVE  TypeOK'
  BY <1>9, <1>f DEF OnReady, TypeOK, TaskPc, ParentPc, LoopInv, OnceInv, Slots
<1>10. ASSUME NEW t \in Tasks, ExchangeReady(t)
      PROVE  TypeOK'
  BY <1>10, <1>f DEF ExchangeReady, TypeOK, TaskPc, ParentPc, LoopInv, OnceInv, Slots
<1>11. ASSUME NEW t \in Tasks, WakeParent(t)
      PROVE  TypeOK'
  BY <1>11, <1>f DEF WakeParent, TypeOK, TaskPc, ParentPc, LoopInv, OnceInv, Slots
<1> QED
  BY <1>1, <1>2, <1>3, <1>4, <1>5, <1>6, <1>7, <1>8, <1>9, <1>10, <1>11 DEF Next, Parent, End

\* Every step keeps the facts about the loop.
LEMMA LoopStep ==
  ASSUME IInv, Next
  PROVE  LoopInv'
<1> USE WhenAllAssumption
<1>f. /\ TypeOK /\ LoopInv /\ GateInv /\ OnceInv /\ LeftExact
      /\ iLeft' \in 0..N /\ LeftExact'
  BY LeftStep DEF IInv
<1>1. CASE StoreLeft
  BY <1>1, <1>f DEF StoreLeft, TypeOK, LoopInv, GateInv, Closing, Outstanding, Slots
<1>2. CASE LinkSlot
  BY <1>2, <1>f DEF LinkSlot, TypeOK, LoopInv, GateInv, Closing, Outstanding, Slots
<1>3. CASE SeeReady
  BY <1>3, <1>f DEF SeeReady, TypeOK, LoopInv, GateInv, Closing, Outstanding, Slots
<1>4. CASE CountReady
  BY <1>4, <1>f DEF CountReady, TypeOK, LoopInv, GateInv, Closing, Outstanding, Slots
<1>5. CASE ParentReady
  BY <1>5, <1>f DEF ParentReady, TypeOK, LoopInv, GateInv, Closing, Outstanding, Slots
<1>6. CASE ExchangeWaiting
  BY <1>6, <1>f DEF ExchangeWaiting, TypeOK, LoopInv, GateInv, Closing, Outstanding, Slots
<1>7. CASE Continue
  BY <1>7, <1>f DEF Continue, TypeOK, LoopInv, GateInv, Closing, Outstanding, Slots
<1>8. ASSUME NEW t \in Tasks, FinalSuspend(t)
      PROVE  LoopInv'
  BY <1>8, <1>f DEF FinalSuspend, TypeOK, LoopInv, GateInv, Closing, Outstanding, Slots
<1>9. ASSUME NEW t \in Tasks, NEW s \in Slots, OnReady(t, s)
      PROVE  LoopInv'
  BY <1>9, <1>f DEF OnReady, TypeOK, LoopInv, GateInv, Closing, Outstanding, Slots
<1>10. ASSUME NEW t \in Tasks, ExchangeReady(t)
      PROVE  LoopInv'
  BY <1>10, <1>f DEF ExchangeReady, TypeOK, LoopInv, GateInv, Closing, Outstanding, Slots
<1>11. ASSUME NEW t \in Tasks, WakeParent(t)
      PROVE  LoopInv'
  BY <1>11, <1>f DEF WakeParent, TypeOK, LoopInv, GateInv, Closing, Outstanding, Slots
<1> QED
  BY <1>1, <1>2, <1>3, <1>4, <1>5, <1>6, <1>7, <1>8, <1>9, <1>10, <1>11 DEF Next, Parent, End

\* Every step keeps the facts about the gate.
LEMMA GateStep ==
  ASSUME IInv, Next
  PROVE  GateInv'
<1> USE WhenAllAssumption
<1>f. /\ TypeOK /\ LoopInv /\ GateInv /\ OnceInv
      /\ Outstanding = {} <=> parent # "before" /\ iLeft = 0
  <2>1. parent = "before" => 1 \in Outstanding
    BY DEF IInv, LoopInv, Outstanding, Slots
  <2>2. /\ TypeOK /\ LoopInv /\ GateInv /\ OnceInv
        /\ parent # "before" => iLeft = Cardinality(Outstanding)
    BY DEF IInv, LeftExact
  <2> QED
    BY <2>1, <2>2, OutstandingFinite
<1>1. CASE StoreLeft
  BY <1>1, <1>f DEF StoreLeft, TypeOK, LoopInv, GateInv, Closing, Outstanding, Slots, ParentPc,
     TaskPc
<1>2. CASE LinkSlot
  BY <1>2, <1>f DEF LinkSlot, TypeOK, LoopInv, GateInv, Closing, Outstanding, Slots, ParentPc,
     TaskPc
<1>3. CASE SeeReady
  BY <1>3, <1>f DEF SeeReady, TypeOK, LoopInv, GateInv, Closing, Outstanding, Slots, ParentPc,
     TaskPc
<1>4. CASE CountReady
  BY <1>4, <1>f DEF CountReady, TypeOK, LoopInv, GateInv, Closing, Outstanding, Slots, ParentPc,
     TaskPc
<1>5. CASE ParentReady
  BY <1>5, <1>f DEF ParentReady, TypeOK, LoopInv, GateInv, Closing, Outstanding, Slots, ParentPc,
     TaskPc
<1>6. CASE ExchangeWaiting
  BY <1>6, <1>f DEF ExchangeWaiting, TypeOK, LoopInv, GateInv, Closing, Outstanding, Slots,
     ParentPc, TaskPc
<1>7. CASE Continue
  BY <1>7, <1>f DEF Continue, TypeOK, LoopInv, GateInv, Closing, Outstanding, Slots, ParentPc,
     TaskPc
<1>8. ASSUME NEW t \in Tasks, FinalSuspend(t)
      PROVE  GateInv'
  BY <1>8, <1>f DEF FinalSuspend, TypeOK, LoopInv, GateInv, Closing, Outstanding, Slots, ParentPc,
     TaskPc
<1>9. ASSUME NEW t \in Tasks, NEW s \in Slots, OnReady(t, s)
      PROVE  GateInv'
  <2>1. s \in Outstanding /\ iLeft > 0 /\ parent # "before"
    BY <1>9, <1>f DEF OnReady, LoopInv, TypeOK, Outstanding
  <2>2. iLeft = 1 => iIndex > N
    <3> SUFFICES ASSUME iLeft = 1, iIndex <= N PROVE FALSE
      BY <1>f DEF TypeOK
    <3>1. IsFiniteSet(Outstanding) /\ Cardinality(Outstanding) = 1
      BY <2>1, <1>f, OutstandingFinite DEF IInv, LeftExact
    <3>2. IsFiniteSet(Outstanding \ {s}) /\ Cardinality(Outstanding \ {s}) = 0
      BY <3>1, <2>1, FS_AddElement, FS_RemoveElement, FS_CardinalityType, FS_EmptySet, FS_Subset
    <3>3. iIndex \in Outstanding \ {s}
      BY <1>9, <1>f DEF OnReady, LoopInv, TypeOK, Outstanding, Slots
    <3> QED
      BY <3>2, <3>3, FS_EmptySet
  <2>3. iLeft = 1 => parent \in {"loop", "suspended"}
    BY <2>1, <2>2, <1>f DEF GateInv, LoopInv, TypeOK, ParentPc
  <2> QED
    BY <1>9, <1>f, <2>1, <2>3 DEF OnReady, TypeOK, GateInv, Closing
<1>10. ASSUME NEW t \in Tasks, ExchangeReady(t)
      PROVE  GateInv'
  BY <1>10, <1>f DEF ExchangeReady, TypeOK, LoopInv, GateInv, Closing, Outstanding, Slots,
     ParentPc, TaskPc
<1>11. ASSUME NEW t \in Tasks, WakeParent(t)
      PROVE  GateInv'
  BY <1>11, <1>f DEF WakeParent, TypeOK, LoopInv, GateInv, Closing, Outstanding, Slots, ParentPc,
     TaskPc
<1> QED
  BY <1>1, <1>2, <1>3, <1>4, <1>5, <1>6, <1>7, <1>8, <1>9, <1>10, <1>11 DEF Next, Parent, End

\* Every step keeps the facts about the schedule and the freeing.
LEMMA OnceStep ==
  ASSUME IInv, Next
  PROVE  OnceInv'
<1> USE WhenAllAssumption
<1>f. /\ TypeOK /\ LoopInv /\ GateInv /\ OnceInv /\ LeftExact
      /\ iLeft' \in 0..N /\ LeftExact'
  BY LeftStep DEF IInv
<1>1. CASE StoreLeft
  BY <1>1, <1>f DEF StoreLeft, TypeOK, LoopInv, GateInv, OnceInv, Closing
<1>2. CASE LinkSlot
  BY <1>2, <1>f DEF LinkSlot, TypeOK, LoopInv, GateInv, OnceInv, Closing
<1>3. CASE SeeReady
  BY <1>3, <1>f DEF SeeReady, TypeOK, LoopInv, GateInv, OnceInv, Closing
<1>4. CASE CountReady
  BY <1>4, <1>f DEF CountReady, TypeOK, LoopInv, GateInv, OnceInv, Closing
<1>5. CASE ParentReady
  BY <1>5, <1>f DEF ParentReady, TypeOK, LoopInv, GateInv, OnceInv, Closing
<1>6. CASE ExchangeWaiting
  BY <1>6, <1>f DEF ExchangeWaiting, TypeOK, LoopInv, GateInv, OnceInv, Closing
<1>7. CASE Continue
  BY <1>7, <1>f DEF Continue, TypeOK, LoopInv, GateInv, OnceInv, Closing
<1>8. ASSUME NEW t \in Tasks, FinalSuspend(t)
      PROVE  OnceInv'
  BY <1>8, <1>f DEF FinalSuspend, TypeOK, LoopInv, GateInv, OnceInv, Closing
<1>9. ASSUME NEW t \in Tasks, NEW s \in Slots, OnReady(t, s)
      PROVE  OnceInv'
  BY <1>9, <1>f DEF OnReady, TypeOK, LoopInv, GateInv, OnceInv, Closing
<1>10. ASSUME NEW t \in Tasks, ExchangeReady(t)
      PROVE  OnceInv'
  BY <1>10, <1>f DEF ExchangeReady, TypeOK, LoopInv, GateInv, OnceInv, Closing
<1>11. ASSUME NEW t \in Tasks, WakeParent(t)
      PROVE  OnceInv'
  BY <1>11, <1>f DEF WakeParent, TypeOK, LoopInv, GateInv, OnceInv, Closing
<1> QED
  BY <1>1, <1>2, <1>3, <1>4, <1>5, <1>6, <1>7, <1>8, <1>9, <1>10, <1>11 DEF Next, Parent, End

-----------------------------------------------------------------------------
\* The invariant holds in every reachable state.
THEOREM WhenAllInvariant == Spec => []IInv
<1>1. Init => IInv
  <2> SUFFICES ASSUME Init PROVE IInv
    OBVIOUS
  <2> USE WhenAllAssumption
  <2>1. task \in [Tasks -> TaskPc] /\ iIndex \in 1..(N + 1) /\ iLeft \in 0..N
    BY DEF Init, TaskPc
  <2>2. TypeOK
    BY <2>1 DEF Init, TypeOK, ParentPc
  <2>3. LoopInv
    BY DEF Init, LoopInv, Outstanding, Slots
  <2> QED
    BY <2>2, <2>3 DEF Init, IInv, LeftExact, GateInv, OnceInv, Closing
<1>2. IInv /\ [Next]_vars => IInv'
  <2>1. IInv /\ Next => IInv'
    BY LeftStep, TypeStep, LoopStep, GateStep, OnceStep DEF IInv
  <2>2. IInv /\ UNCHANGED vars => IInv'
    BY DEF vars, IInv, TypeOK, LeftExact, LoopInv, GateInv, OnceInv, Outstanding, Closing
  <2> QED
    BY <2>1, <2>2
<1> QED
  BY <1>1, <1>2, PTL DEF Spec

\* Type correctness.
THEOREM WhenAllTypeCorrect == Spec => []TypeOK
BY WhenAllInvariant, PTL DEF IInv

\* iLeft counts exactly the slots nobody has counted.
THEOREM WhenAllLeftExact == Spec => []LeftExact
BY WhenAllInvariant, PTL DEF IInv

\* The heap state outlives every thread that can still touch it.
THEOREM WhenAllStateAlive == Spec => []StateAlive
<1>1. IInv => StateAlive
  <2> SUFFICES ASSUME IInv, bFreed PROVE StateAlive
    BY DEF StateAlive
  <2>1. parent = "through"
    BY DEF IInv, OnceInv
  <2>2. iLeft = 0 /\ \A t \in Tasks : ~Closing(t)
    BY <2>1 DEF IInv, GateInv, TypeOK
  <2>3. Outstanding = {}
    BY <2>1, <2>2, OutstandingFinite DEF IInv, LeftExact
  <2> QED
    BY <2>2, <2>3 DEF StateAlive, Outstanding, Closing
<1> QED
  BY <1>1, WhenAllInvariant, PTL

\* The parent goes on only when every task has ended.
THEOREM WhenAllAllEnded == Spec => []AllEnded
<1>1. IInv => AllEnded
  <2> SUFFICES ASSUME IInv, parent \in {"scheduled", "through"}
               PROVE  \A s \in Slots : task[TaskOf[s]] # "run"
    BY DEF AllEnded
  <2>1. iLeft = 0
    BY DEF IInv, GateInv, TypeOK
  <2>2. Outstanding = {}
    BY <2>1, OutstandingFinite DEF IInv, LeftExact
  <2> QED
    BY <2>2 DEF IInv, LoopInv
<1> QED
  BY <1>1, WhenAllInvariant, PTL

\* The parent is scheduled once at most, and only while suspended.
THEOREM WhenAllScheduledOnce == Spec => []ScheduledOnce
<1>1. IInv => ScheduledOnce
  BY DEF IInv, GateInv, OnceInv, ScheduledOnce
<1> QED
  BY <1>1, WhenAllInvariant, PTL

\* WhenAll implements the safety part of Completion.
THEOREM WhenAllImplementsCompletion == Spec => Abstract!SafeSpec
<1>1. Init => Abstract!Init
  BY DEF Init, Abstract!Init, bDoneBar, waiterBar
<1>2. IInv /\ [Next]_vars => [Abstract!Next]_(Abstract!cvars)
  <2> SUFFICES ASSUME IInv, [Next]_vars
               PROVE  Abstract!Next \/ UNCHANGED <<bDoneBar, waiterBar>>
    BY DEF Abstract!cvars
  <2> USE DEF waiterBar, bDoneBar
  <2>t. TypeOK /\ LoopInv /\ GateInv
    BY DEF IInv
  <2>1. CASE ParentReady
    <3>1. bDoneBar' /\ ~bDoneBar /\ waiterBar' = waiterBar
      BY <2>1, <2>t DEF ParentReady, GateInv
    <3> QED
      BY <3>1 DEF Abstract!Next, Abstract!Complete
  <2>2. CASE ExchangeWaiting
    <3>1. CASE iGate = "Ready"
      <4>1. bDoneBar /\ bDoneBar' /\ waiterBar["parent"] = "before"
        BY <2>2, <3>1 DEF ExchangeWaiting
      <4>2. waiterBar' = [waiterBar EXCEPT !["parent"] = "through"]
        BY <2>2, <3>1 DEF ExchangeWaiting
      <4> QED
        BY <4>1, <4>2 DEF Abstract!Next, Abstract!Pass
    <3>2. CASE iGate # "Ready"
      <4>1. ~bDoneBar /\ ~bDoneBar' /\ waiterBar["parent"] = "before"
        BY <2>2, <3>2 DEF ExchangeWaiting
      <4>2. waiterBar' = [waiterBar EXCEPT !["parent"] = "parked"]
        BY <2>2, <3>2 DEF ExchangeWaiting
      <4> QED
        BY <4>1, <4>2 DEF Abstract!Next, Abstract!Park
    <3> QED
      BY <3>1, <3>2
  <2>3. ASSUME NEW t \in Tasks, ExchangeReady(t)
        PROVE  Abstract!Next
    <3>1. bDoneBar' /\ ~bDoneBar /\ waiterBar' = waiterBar
      BY <2>3, <2>t DEF ExchangeReady, GateInv
    <3> QED
      BY <3>1 DEF Abstract!Next, Abstract!Complete
  <2>4. ASSUME NEW t \in Tasks, WakeParent(t)
        PROVE  Abstract!Next
    <3>1. bDoneBar /\ bDoneBar' /\ waiterBar["parent"] = "parked"
      BY <2>4, <2>t DEF WakeParent, GateInv
    <3>2. waiterBar' = [waiterBar EXCEPT !["parent"] = "through"]
      BY <2>4, <2>t DEF WakeParent, GateInv
    <3> QED
      BY <3>1, <3>2 DEF Abstract!Next, Abstract!Wake
  <2>5. CASE \/ StoreLeft \/ LinkSlot \/ SeeReady \/ CountReady \/ Continue \/ UNCHANGED vars
             \/ \E t \in Tasks : FinalSuspend(t) \/ \E s \in Slots : OnReady(t, s)
    BY <2>5 DEF StoreLeft, LinkSlot, SeeReady, CountReady, Continue, vars, FinalSuspend, OnReady
  <2> QED
    BY <2>1, <2>2, <2>3, <2>4, <2>5 DEF Next, Parent, End
<1> QED
  BY <1>1, <1>2, WhenAllInvariant, PTL DEF Spec, Abstract!SafeSpec

\* What the parent and the slots owe each other, together.
THEOREM WhenAllSoundness == Spec => []WhenAllSound
<1>1. StateAlive /\ AllEnded /\ ScheduledOnce => WhenAllSound
  BY DEF WhenAllSound
<1> QED
  BY <1>1, WhenAllStateAlive, WhenAllAllEnded, WhenAllScheduledOnce, PTL

-----------------------------------------------------------------------------
(***************************************************************************)
(* TaskScope.  A join goes on when iActive is zero under the mutex.  That  *)
(* is enough because iActive is exact (ActiveExact) and because the scope  *)
(* was closed by whoever joined, so that no job is accepted afterwards     *)
(* (JoinInv).                                                              *)
(***************************************************************************)
\* The job in Start has been posted and cannot count down before Start unlocks.
StartInv == starting # None => starting \in T!Working

\* Who waits, who is being woken and who has gone on: the scope is closed, and from the
\* moment the waiters are taken no job is at work.
JoinInv ==
  /\ vWaiters # {} => bClosed
  /\ \A j \in Jobs : waking[j] # {} => bClosed /\ T!Working = {}
  /\ \A p \in Joiners : joiner[p] \in {"scheduled", "returned", "threw"} =>
                          bClosed /\ T!Working = {}

\* An exception is on its way to stError, or there is one already.
ErrorInv ==
  /\ thrown # {} => stError # None \/ \E j \in Jobs : job[j] = "failed"
  /\ \A p \in Joiners : joiner[p] = "returned" => thrown = {}

ScopeInv == T!TypeOK /\ StartInv /\ T!ActiveExact /\ JoinInv /\ ErrorInv

-----------------------------------------------------------------------------
\* Cardinality is the same inside the instance.
LEMMA ScopeCardinality ==
  ASSUME NEW Q
  PROVE  T!Cardinality(Q) = Cardinality(Q)
BY DEF T!Cardinality, Cardinality

\* Every step keeps the types; the count cannot go below zero because it is exact.
LEMMA ScopeTypeStep ==
  ASSUME ScopeInv, [T!Next]_T!vars
  PROVE  T!TypeOK'
<1> USE DEF T!joinVars
<1>1. ASSUME NEW j \in Jobs, T!StartPost(j) \/ T!StartRefused(j) \/ T!StartCount(j)
      PROVE  T!TypeOK'
  BY <1>1 DEF T!StartPost, T!StartRefused, T!StartCount, ScopeInv, T!TypeOK
<1>2. ASSUME NEW j \in Jobs, T!Return(j) \/ T!Throw(j) \/ T!Catch(j)
      PROVE  T!TypeOK'
  BY <1>2 DEF T!Return, T!Throw, T!Catch, ScopeInv, T!TypeOK
<1>3. ASSUME NEW j \in Jobs, T!Finish(j)
      PROVE  T!TypeOK'
  <2>1. iActive > 0
    <3>1. j \in T!Working /\ starting = None /\ j # None
      BY <1>3, ScopeAssumption DEF T!Finish, T!Unlocked, T!Working
    <3>2. IsFiniteSet(T!Working \ {starting}) /\ j \in T!Working \ {starting}
      BY <3>1, ScopeAssumption, FS_Subset DEF T!Working
    <3> QED
      BY <3>2, FS_CardinalityType, FS_EmptySet, ScopeCardinality DEF ScopeInv, T!ActiveExact
  <2> QED
    BY <1>3, <2>1 DEF T!Finish, ScopeInv, T!TypeOK
<1>4. ASSUME NEW j \in Jobs, NEW p \in Joiners, T!Wake(j, p)
      PROVE  T!TypeOK'
  BY <1>4 DEF T!Wake, ScopeInv, T!TypeOK
<1>5. ASSUME NEW p \in Joiners, T!AwaitSuspend(p) \/ T!AwaitResume(p)
      PROVE  T!TypeOK'
  BY <1>5 DEF T!AwaitSuspend, T!AwaitResume, ScopeInv, T!TypeOK
<1>6. CASE T!RequestStop \/ UNCHANGED T!vars
  BY <1>6 DEF T!RequestStop, T!vars, ScopeInv, T!TypeOK
<1> QED
  BY <1>1, <1>2, <1>3, <1>4, <1>5, <1>6 DEF T!Next, T!Start, T!Run, T!Join

\* How a step moves the jobs at work: StartPost adds one and holds the mutex, Finish takes
\* one, and nothing else changes who is at work.
LEMMA WorkingStep ==
  ASSUME ScopeInv, [T!Next]_T!vars
  PROVE  \/ \E j \in Jobs : T!StartPost(j) /\ T!Working' = T!Working \cup {j} /\ j \notin T!Working
         \/ \E j \in Jobs : T!Finish(j) /\ T!Working' = T!Working \ {j} /\ j \in T!Working
         \/ /\ T!Working' = T!Working
            /\ \/ \E j \in Jobs : T!StartCount(j)
               \/ iActive' = iActive /\ starting' = starting
<1> USE DEF T!joinVars, T!Working, ScopeInv, T!TypeOK
<1>1. ASSUME NEW j \in Jobs, T!StartPost(j)
      PROVE  T!Working' = T!Working \cup {j} /\ j \notin T!Working
  BY <1>1 DEF T!StartPost
<1>2. ASSUME NEW j \in Jobs, T!Finish(j)
      PROVE  T!Working' = T!Working \ {j} /\ j \in T!Working
  BY <1>2 DEF T!Finish
<1>3. ASSUME NEW j \in Jobs, T!StartCount(j)
      PROVE  T!Working' = T!Working
  BY <1>3 DEF T!StartCount
<1>4. ASSUME NEW j \in Jobs, T!StartRefused(j) \/ T!Return(j) \/ T!Throw(j) \/ T!Catch(j)
      PROVE  T!Working' = T!Working /\ iActive' = iActive /\ starting' = starting
  BY <1>4 DEF T!StartRefused, T!Return, T!Throw, T!Catch
<1>5. ASSUME NEW j \in Jobs, NEW p \in Joiners,
             T!Wake(j, p) \/ T!AwaitSuspend(p) \/ T!AwaitResume(p)
      PROVE  T!Working' = T!Working /\ iActive' = iActive /\ starting' = starting
  BY <1>5 DEF T!Wake, T!AwaitSuspend, T!AwaitResume
<1>6. ASSUME NEW p \in Joiners, T!AwaitSuspend(p) \/ T!AwaitResume(p)
      PROVE  T!Working' = T!Working /\ iActive' = iActive /\ starting' = starting
  BY <1>6 DEF T!AwaitSuspend, T!AwaitResume
<1>7. CASE T!RequestStop \/ UNCHANGED T!vars
  BY <1>7 DEF T!RequestStop, T!vars
<1> QED
  BY <1>1, <1>2, <1>3, <1>4, <1>5, <1>6, <1>7 DEF T!Next, T!Start, T!Run, T!Join

\* Every step keeps the count exact.
LEMMA ActiveStep ==
  ASSUME ScopeInv, [T!Next]_T!vars
  PROVE  StartInv' /\ T!ActiveExact'
<1>f. IsFiniteSet(T!Working) /\ None \notin T!Working /\ T!Working \subseteq Jobs
  BY ScopeAssumption, FS_Subset DEF T!Working
<1>g. iActive = Cardinality(T!Working \ {starting})
  BY ScopeCardinality DEF ScopeInv, T!ActiveExact
<1>1. ASSUME NEW j \in Jobs, T!StartPost(j), T!Working' = T!Working \cup {j}, j \notin T!Working
      PROVE  StartInv' /\ T!ActiveExact'
  <2>1. starting = None /\ starting' = j /\ iActive' = iActive
    BY <1>1 DEF T!StartPost, T!Unlocked
  <2>2. T!Working \ {starting} = T!Working /\ (T!Working \ {starting})' = T!Working
    BY <1>1, <1>f, <2>1
  <2> QED
    BY <1>1, <1>g, <2>1, <2>2, ScopeCardinality DEF StartInv, T!ActiveExact
<1>2. ASSUME NEW j \in Jobs, T!Finish(j), T!Working' = T!Working \ {j}, j \in T!Working
      PROVE  StartInv' /\ T!ActiveExact'
  <2>1. starting = None /\ starting' = None /\ iActive' = iActive - 1
    BY <1>2 DEF T!Finish, T!Unlocked
  <2>2. T!Working \ {starting} = T!Working /\ (T!Working \ {starting})' = T!Working \ {j}
    BY <1>2, <1>f, <2>1
  <2>3. Cardinality(T!Working \ {j}) = Cardinality(T!Working) - 1
    BY <1>2, <1>f, FS_AddElement, FS_RemoveElement, FS_CardinalityType, FS_EmptySet
  <2> QED
    BY <1>g, <2>1, <2>2, <2>3, ScopeCardinality DEF StartInv, T!ActiveExact
<1>3. ASSUME NEW j \in Jobs, T!StartCount(j), T!Working' = T!Working
      PROVE  StartInv' /\ T!ActiveExact'
  <2>1. starting = j /\ starting' = None /\ iActive' = iActive + 1 /\ j # None
    BY <1>3, ScopeAssumption DEF T!StartCount
  <2>2. j \in T!Working
    BY <2>1 DEF ScopeInv, StartInv
  <2>3. T!Working \ {starting} = T!Working \ {j} /\ (T!Working \ {starting})' = T!Working
    BY <1>3, <1>f, <2>1
  <2>4. Cardinality(T!Working \ {j}) = Cardinality(T!Working) - 1 /\ Cardinality(T!Working) \in Nat
    BY <2>2, <1>f, FS_AddElement, FS_RemoveElement, FS_CardinalityType, FS_EmptySet
  <2>5. iActive = Cardinality(T!Working) - 1
    BY <1>g, <2>3, <2>4
  <2>6. iActive' = Cardinality(T!Working)
    BY <2>1, <2>4, <2>5
  <2> QED
    BY <2>1, <2>3, <2>6, ScopeCardinality DEF StartInv, T!ActiveExact
<1>4. ASSUME T!Working' = T!Working, iActive' = iActive, starting' = starting
      PROVE  StartInv' /\ T!ActiveExact'
  BY <1>4, ScopeCardinality DEF ScopeInv, StartInv, T!ActiveExact
<1> QED
  BY <1>1, <1>2, <1>3, <1>4, WorkingStep

-----------------------------------------------------------------------------
\* Under the mutex a count of zero means that nobody is at work.
LEMMA NobodyAtWork ==
  ASSUME ScopeInv, T!Unlocked
  PROVE  /\ iActive = 0 => T!Working = {}
         /\ \A j \in T!Working : iActive = 1 => T!Working = {j}
<1>1. IsFiniteSet(T!Working) /\ None \notin T!Working
  BY ScopeAssumption, FS_Subset DEF T!Working
<1>2. T!Working \ {starting} = T!Working
  BY <1>1 DEF T!Unlocked
<1>3. iActive = Cardinality(T!Working)
  BY <1>2, ScopeCardinality DEF ScopeInv, T!ActiveExact
<1>4. iActive = 0 => T!Working = {}
  BY <1>1, <1>3, FS_EmptySet
<1>5. ASSUME NEW j \in T!Working, iActive = 1
      PROVE  T!Working = {j}
  <2>0. Cardinality(T!Working \ {j}) = Cardinality(T!Working) - 1
    BY <1>1, FS_AddElement, FS_RemoveElement, FS_CardinalityType, FS_EmptySet
  <2>1. Cardinality(T!Working \ {j}) = 0
    BY <1>3, <1>5, <2>0
  <2>2. IsFiniteSet(T!Working \ {j})
    BY <1>1, FS_Subset
  <2> QED
    BY <2>1, <2>2, FS_EmptySet
<1> QED
  BY <1>4, <1>5

\* Every step keeps JoinInv.
LEMMA JoinStep ==
  ASSUME ScopeInv, [T!Next]_T!vars
  PROVE  JoinInv'
<1> USE DEF T!joinVars
<1>t. T!TypeOK /\ JoinInv
  BY DEF ScopeInv
<1>1. ASSUME NEW j \in Jobs, T!StartPost(j)
      PROVE  JoinInv'
  BY <1>1, <1>t DEF T!StartPost, JoinInv, T!TypeOK
<1>2. ASSUME T!Working' = T!Working, UNCHANGED <<waking, T!joinVars>>
      PROVE  JoinInv'
  BY <1>2, <1>t DEF JoinInv
<1>3. ASSUME NEW j \in Jobs, \/ T!StartRefused(j) \/ T!StartCount(j)
                              \/ T!Return(j) \/ T!Throw(j) \/ T!Catch(j)
      PROVE  JoinInv'
  <2>1. T!Working' = T!Working
    BY <1>3, <1>t DEF T!StartRefused, T!StartCount, T!Return, T!Throw, T!Catch, T!Working, T!TypeOK
  <2> QED
    BY <1>2, <1>3, <2>1 DEF T!StartRefused, T!StartCount, T!Return, T!Throw, T!Catch
<1>4. ASSUME NEW j \in Jobs, T!Finish(j)
      PROVE  JoinInv'
  <2>1. j \in T!Working /\ T!Working' = T!Working \ {j} /\ T!Unlocked
    BY <1>4, <1>t DEF T!Finish, T!Working, T!TypeOK
  <2>2. CASE iActive = 1
    <3>1. T!Working' = {}
      BY <2>1, <2>2, NobodyAtWork
    <3> QED
      BY <1>4, <1>t, <2>2, <3>1 DEF T!Finish, JoinInv, T!TypeOK
  <2>3. CASE iActive # 1
    BY <1>4, <1>t, <2>1, <2>3 DEF T!Finish, JoinInv, T!TypeOK
  <2> QED
    BY <2>2, <2>3
<1>5. ASSUME NEW j \in Jobs, NEW p \in Joiners, T!Wake(j, p)
      PROVE  JoinInv'
  <2>1. T!Working' = T!Working
    BY <1>5 DEF T!Wake, T!Working
  <2> QED
    BY <1>5, <1>t, <2>1 DEF T!Wake, JoinInv, T!TypeOK
<1>6. ASSUME NEW p \in Joiners, T!AwaitSuspend(p)
      PROVE  JoinInv'
  <2>1. T!Working' = T!Working
    BY <1>6 DEF T!AwaitSuspend, T!Working
  <2>2. iActive = 0 => T!Working = {}
    BY <1>6, NobodyAtWork DEF T!AwaitSuspend
  <2> QED
    BY <1>6, <1>t, <2>1, <2>2 DEF T!AwaitSuspend, JoinInv, T!TypeOK
<1>7. ASSUME NEW p \in Joiners, T!AwaitResume(p)
      PROVE  JoinInv'
  <2>1. T!Working' = T!Working
    BY <1>7 DEF T!AwaitResume, T!Working
  <2> QED
    BY <1>7, <1>t, <2>1 DEF T!AwaitResume, JoinInv, T!TypeOK
<1>8. CASE T!RequestStop \/ UNCHANGED T!vars
  <2>1. T!Working' = T!Working
    BY <1>8 DEF T!RequestStop, T!vars, T!Working
  <2> QED
    BY <1>8, <1>t, <2>1 DEF T!RequestStop, T!vars, JoinInv
<1> QED
  BY <1>1, <1>3, <1>4, <1>5, <1>6, <1>7, <1>8 DEF T!Next, T!Start, T!Run, T!Join

\* Every step keeps ErrorInv: who throws is at work, so no join has gone on, and a join that
\* goes on finds no job between its exception and stError.
LEMMA ErrorStep ==
  ASSUME ScopeInv, [T!Next]_T!vars
  PROVE  ErrorInv'
<1> USE DEF T!joinVars
<1>t. T!TypeOK /\ JoinInv /\ ErrorInv
  BY DEF ScopeInv
<1>1. ASSUME NEW j \in Jobs, T!StartPost(j) \/ T!StartRefused(j) \/ T!StartCount(j) \/ T!Return(j)
      PROVE  ErrorInv'
  BY <1>1, <1>t DEF T!StartPost, T!StartRefused, T!StartCount, T!Return, ErrorInv, T!TypeOK
<1>2. ASSUME NEW j \in Jobs, T!Throw(j)
      PROVE  ErrorInv'
  <2>1. j \in T!Working
    BY <1>2 DEF T!Throw, T!Working
  <2>2. \A p \in Joiners : joiner'[p] # "returned"
    BY <1>2, <1>t, <2>1 DEF T!Throw, JoinInv
  <2>3. job'[j] = "failed"
    BY <1>2, <1>t DEF T!Throw, T!TypeOK
  <2> QED
    BY <2>2, <2>3 DEF ErrorInv
<1>3. ASSUME NEW j \in Jobs, T!Catch(j)
      PROVE  ErrorInv'
  <2>1. stError' # None
    BY <1>3, ScopeAssumption DEF T!Catch
  <2> QED
    BY <1>3, <1>t, <2>1 DEF T!Catch, ErrorInv
<1>4. ASSUME NEW j \in Jobs, T!Finish(j)
      PROVE  ErrorInv'
  BY <1>4, <1>t DEF T!Finish, ErrorInv, T!TypeOK
<1>5. ASSUME NEW j \in Jobs, NEW p \in Joiners, T!Wake(j, p)
      PROVE  ErrorInv'
  BY <1>5, <1>t DEF T!Wake, ErrorInv, T!TypeOK
<1>6. ASSUME NEW p \in Joiners, T!AwaitSuspend(p)
      PROVE  ErrorInv'
  BY <1>6, <1>t DEF T!AwaitSuspend, ErrorInv, T!TypeOK
<1>7. ASSUME NEW p \in Joiners, T!AwaitResume(p)
      PROVE  ErrorInv'
  <2>1. T!Working = {}
    BY <1>7, <1>t DEF T!AwaitResume, JoinInv
  <2>2. \A j \in Jobs : job[j] # "failed"
    BY <2>1 DEF T!Working
  <2> QED
    BY <1>7, <1>t, <2>2 DEF T!AwaitResume, ErrorInv, T!TypeOK
<1>8. CASE T!RequestStop \/ UNCHANGED T!vars
  BY <1>8, <1>t DEF T!RequestStop, T!vars, ErrorInv
<1> QED
  BY <1>1, <1>2, <1>3, <1>4, <1>5, <1>6, <1>7, <1>8 DEF T!Next, T!Start, T!Run, T!Join

-----------------------------------------------------------------------------
\* The inductive invariant of TaskScope.
THEOREM ScopeInvariant == T!Spec => []ScopeInv
<1>1. T!Init => ScopeInv
  <2> SUFFICES ASSUME T!Init PROVE ScopeInv
    OBVIOUS
  <2>1. T!Working = {} /\ Cardinality({}) = 0
    BY FS_EmptySet DEF T!Init, T!Working
  <2>2. T!ActiveExact
    BY <2>1, ScopeCardinality DEF T!Init, T!ActiveExact
  <2> QED
    BY <2>2 DEF T!Init, ScopeInv, T!TypeOK, StartInv, JoinInv, ErrorInv
<1>2. ScopeInv /\ [T!Next]_T!vars => ScopeInv'
  BY ScopeTypeStep, ActiveStep, JoinStep, ErrorStep DEF ScopeInv
<1> QED
  BY <1>1, <1>2, PTL DEF T!Spec

\* The types are kept, size_t iActive included.
THEOREM ScopeTypeCorrect == T!Spec => []T!TypeOK
BY ScopeInvariant, PTL DEF ScopeInv

\* A Join goes on only when no accepted job is left, hears of every exception, and the count
\* both rely on is exact: for any number of jobs and of joiners.
THEOREM ScopeSoundness == T!Spec => []ScopeSound
<1>1. ScopeInv => ScopeSound
  BY DEF ScopeInv, JoinInv, ErrorInv, ScopeSound, T!ScopeSound, T!JoinSound, T!ErrorSeen
<1> QED
  BY <1>1, ScopeInvariant, PTL
=============================================================================
