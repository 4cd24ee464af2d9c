--------------------------- MODULE CoroTaskProofs ---------------------------
(***************************************************************************)
(* Proofs about CoroTask, for every number of Task objects and of awaiting *)
(* coroutines.  The inductive invariant adds to the properties how far the *)
(* execution is (BodyInv): bReady is set by final_suspend alone, the list  *)
(* it walks exists only during the walk, and nobody gets past its co_await  *)
(* before bReady.                                                          *)
(***************************************************************************)
EXTENDS CoroTask, FiniteSetTheorems, SequenceTheorems, TLAPS

BodyInv ==
  /\ bReady <=> body \in {"walk", "finished", "gone"}
  /\ body # "walk" => vWalk = <<>>
  /\ \A p \in Parents : awaiter[p] \in {"scheduled", "resumed", "gone"} => bReady
  /\ stError => body # "run"

Rest == BodyInv /\ NoParkAfterReady /\ ErrorNotLost

IInv == TypeOK /\ ReferencesExact /\ WaitersLinked /\ Rest

-----------------------------------------------------------------------------
\* The referers are finite sets.
LEMMA FiniteReferers ==
  /\ IsFiniteSet(Live) /\ Cardinality(Live) \in Nat
  /\ IsFiniteSet(Holding) /\ Cardinality(Holding) \in Nat
<1>1. Live \subseteq Handles /\ Holding \subseteq Parents
  BY DEF Live, Holding
<1> QED
  BY <1>1, TaskAssumption, FS_Subset, FS_CardinalityType

\* Whoever has a reference finds the frame alive.
LEMMA ReferencePositive ==
  ASSUME IInv, Live # {} \/ Holding # {} \/ body # "gone"
  PROVE  iReferences > 0 /\ ~bDestroyed
<1>1. Live # {} => Cardinality(Live) > 0
  BY FiniteReferers, FS_AddElement, FS_RemoveElement, FS_CardinalityType, FS_EmptySet
<1>2. Holding # {} => Cardinality(Holding) > 0
  BY FiniteReferers, FS_AddElement, FS_RemoveElement, FS_CardinalityType, FS_EmptySet
<1> QED
  BY <1>1, <1>2, FiniteReferers DEF IInv, TypeOK, ReferencesExact

\* ReportError keeps the types it touches.
LEMMA ReportTypes ==
  ASSUME TypeOK, ReportError
  PROVE  bErrorReported' \in BOOLEAN /\ iReports' \in Nat
BY DEF TypeOK, ReportError

\* Release keeps the types it touches.
LEMMA ReleaseTypes ==
  ASSUME TypeOK, iReferences > 0, Release
  PROVE  /\ iReferences' \in Nat /\ bDestroyed' \in BOOLEAN
         /\ bErrorReported' \in BOOLEAN /\ iReports' \in Nat
<1>1. iReferences' \in Nat
  BY DEF TypeOK, Release
<1>b. bDestroyed' \in BOOLEAN
  BY DEF TypeOK, Release
<1>2. bErrorReported' \in BOOLEAN /\ iReports' \in Nat
  BY ReportTypes DEF TypeOK, Release
<1> QED
  BY <1>1, <1>b, <1>2

\* Every step keeps the types.
LEMMA TypeStep == IInv /\ [Next]_vars => TypeOK'
<1> SUFFICES ASSUME IInv, [Next]_vars PROVE TypeOK'
  OBVIOUS
<1> USE DEF IInv, frameVars, flagVars
<1>1. CASE Return
  BY <1>1 DEF Return, TypeOK, Body, AwaiterStates
<1>2. CASE Throw
  BY <1>2 DEF Throw, TypeOK, Body, AwaiterStates
<1>3. CASE UnhandledException
  <2>1. bErrorReported' \in BOOLEAN /\ iReports' \in Nat
    BY <1>3, ReportTypes DEF UnhandledException, TypeOK
  <2> QED
    BY <1>3, <2>1 DEF UnhandledException, TypeOK, Body, AwaiterStates
<1>4. CASE FinalSuspend
  BY <1>4 DEF FinalSuspend, TypeOK, Body, AwaiterStates
<1>5. CASE WakeWaiter
  BY <1>5 DEF WakeWaiter, TypeOK, Body, AwaiterStates
<1>6. CASE DetachFinished
  BY <1>6 DEF DetachFinished, TypeOK, Body, AwaiterStates
<1>7. CASE DrainDetached
  <2>1. iReferences > 0
    BY <1>7, ReferencePositive DEF DrainDetached, Live, Holding
  <2>2. /\ iReferences' \in Nat /\ bDestroyed' \in BOOLEAN
        /\ bErrorReported' \in BOOLEAN /\ iReports' \in Nat
    BY <1>7, <2>1, ReleaseTypes DEF DrainDetached
  <2> QED
    BY <1>7, <2>2 DEF DrainDetached, TypeOK, Body, AwaiterStates
<1>8. ASSUME NEW h \in Handles, Copy(h) PROVE TypeOK'
  BY <1>8 DEF Copy, TypeOK, Body, AwaiterStates
<1>9. ASSUME NEW h \in Handles, Drop(h) PROVE TypeOK'
  <2>1. iReferences > 0
    BY <1>9, ReferencePositive DEF Drop, Live, Holding
  <2>2. /\ iReferences' \in Nat /\ bDestroyed' \in BOOLEAN
        /\ bErrorReported' \in BOOLEAN /\ iReports' \in Nat
    BY <1>9, <2>1, ReleaseTypes DEF Drop
  <2> QED
    BY <1>9, <2>2 DEF Drop, TypeOK, Body, AwaiterStates
<1>10. CASE Start
  <2>1. bErrorReported' \in BOOLEAN /\ iReports' \in Nat
    BY <1>10, ReportTypes DEF Start, TypeOK
  <2> QED
    BY <1>10, <2>1 DEF Start, TypeOK, Body, AwaiterStates
<1>11. ASSUME NEW p \in Parents, CreateAwaiter(p) PROVE TypeOK'
  BY <1>11 DEF CreateAwaiter, TypeOK, Body, AwaiterStates
<1>12. ASSUME NEW p \in Parents, AwaitReady(p) PROVE TypeOK'
  BY <1>12 DEF AwaitReady, TypeOK, Body, AwaiterStates
<1>13. ASSUME NEW p \in Parents, AwaitSuspend(p) PROVE TypeOK'
  <2>1. <<p>> \o pWaiters \in Seq(Parents)
    BY <1>13, ConcatProperties DEF TypeOK
  <2> QED
    BY <1>13, <2>1 DEF AwaitSuspend, TypeOK, Body, AwaiterStates
<1>14. ASSUME NEW p \in Parents, AwaitResume(p) PROVE TypeOK'
  BY <1>14 DEF AwaitResume, TypeOK, Body, AwaiterStates
<1>15. ASSUME NEW p \in Parents, DestroyAwaiter(p) PROVE TypeOK'
  <2>1. iReferences > 0
    BY <1>15, ReferencePositive DEF DestroyAwaiter, Live, Holding
  <2>2. /\ iReferences' \in Nat /\ bDestroyed' \in BOOLEAN
        /\ bErrorReported' \in BOOLEAN /\ iReports' \in Nat
    BY <1>15, <2>1, ReleaseTypes DEF DestroyAwaiter
  <2> QED
    BY <1>15, <2>2 DEF DestroyAwaiter, TypeOK, Body, AwaiterStates
<1>16. CASE UNCHANGED vars
  BY <1>16 DEF vars, TypeOK, Body, AwaiterStates
<1> QED
  BY <1>1, <1>2, <1>3, <1>4, <1>5, <1>6, <1>7, <1>8, <1>9, <1>10, <1>11, <1>12, <1>13, <1>14,
     <1>15, <1>16
     DEF Next, Execute, Await

\* Every step keeps the control conjuncts and ErrorNotLost.
LEMMA RestStep == IInv /\ [Next]_vars => Rest'
<1> SUFFICES ASSUME IInv, [Next]_vars PROVE Rest'
  OBVIOUS
<1> USE DEF IInv, frameVars, flagVars
<1>1. CASE Return
  BY <1>1 DEF Return, TypeOK, Rest, BodyInv,
         NoParkAfterReady, ErrorNotLost, Live, Holding
<1>2. CASE Throw
  BY <1>2, ReferencePositive DEF Throw, TypeOK, Rest, BodyInv,
         NoParkAfterReady, ErrorNotLost, Live, Holding
<1>3. CASE UnhandledException
  BY <1>3, ReferencePositive DEF UnhandledException, ReportError, TypeOK, Rest, BodyInv,
         NoParkAfterReady, ErrorNotLost, Live, Holding
<1>4. CASE FinalSuspend
  BY <1>4 DEF FinalSuspend, TypeOK, Rest, BodyInv,
         NoParkAfterReady, ErrorNotLost, Live, Holding
<1>5. CASE WakeWaiter
  BY <1>5 DEF WakeWaiter, TypeOK, Rest, BodyInv,
         NoParkAfterReady, ErrorNotLost, Live, Holding
<1>6. CASE DetachFinished
  BY <1>6 DEF DetachFinished, TypeOK, Rest, BodyInv,
         NoParkAfterReady, ErrorNotLost, Live, Holding
<1>7. CASE DrainDetached
  BY <1>7, ReferencePositive DEF DrainDetached, Release, ReportError, TypeOK, Rest, BodyInv,
         NoParkAfterReady, ErrorNotLost, Live, Holding
<1>8. ASSUME NEW h \in Handles, Copy(h) PROVE Rest'
  BY <1>8 DEF Copy, TypeOK, Rest, BodyInv,
         NoParkAfterReady, ErrorNotLost, Live, Holding
<1>9. ASSUME NEW h \in Handles, Drop(h) PROVE Rest'
  BY <1>9, ReferencePositive DEF Drop, Release, ReportError, TypeOK, Rest, BodyInv,
         NoParkAfterReady, ErrorNotLost, Live, Holding
<1>10. CASE Start
  BY <1>10 DEF Start, ReportError, TypeOK, Rest, BodyInv,
         NoParkAfterReady, ErrorNotLost, Live, Holding
<1>11. ASSUME NEW p \in Parents, CreateAwaiter(p) PROVE Rest'
  BY <1>11 DEF CreateAwaiter, TypeOK, Rest, BodyInv,
         NoParkAfterReady, ErrorNotLost, Live, Holding
<1>12. ASSUME NEW p \in Parents, AwaitReady(p) PROVE Rest'
  BY <1>12 DEF AwaitReady, TypeOK, Rest, BodyInv,
         NoParkAfterReady, ErrorNotLost, Live, Holding
<1>13. ASSUME NEW p \in Parents, AwaitSuspend(p) PROVE Rest'
  BY <1>13 DEF AwaitSuspend, TypeOK, Rest, BodyInv,
         NoParkAfterReady, ErrorNotLost, Live, Holding
<1>14. ASSUME NEW p \in Parents, AwaitResume(p) PROVE Rest'
  BY <1>14 DEF AwaitResume, TypeOK, Rest, BodyInv,
         NoParkAfterReady, ErrorNotLost, Live, Holding
<1>15. ASSUME NEW p \in Parents, DestroyAwaiter(p) PROVE Rest'
  BY <1>15, ReferencePositive DEF DestroyAwaiter, Release, ReportError, TypeOK, Rest, BodyInv,
         NoParkAfterReady, ErrorNotLost, Live, Holding
<1>16. CASE UNCHANGED vars
  BY <1>16 DEF vars, TypeOK, Rest, BodyInv,
         NoParkAfterReady, ErrorNotLost, Live, Holding
<1> QED
  BY <1>1, <1>2, <1>3, <1>4, <1>5, <1>6, <1>7, <1>8, <1>9, <1>10, <1>11, <1>12, <1>13, <1>14,
     <1>15, <1>16
     DEF Next, Execute, Await

\* A step of Release by a referer that leaves: one reference and one referer
\* less, and the frame goes with the last one.
LEMMA ReleaseCounts ==
  ASSUME IInv, iReferences > 0, Release,
         Cardinality(Live') + Cardinality(Holding')
           + (IF body' = "gone" THEN 0 ELSE 1) = iReferences - 1
  PROVE  ReferencesExact'
<1>1. iReferences' = iReferences - 1
  BY DEF Release
<1>2. ~bDestroyed
  BY DEF IInv, ReferencesExact, TypeOK
<1>3. CASE iReferences = 1
  <2>1. bDestroyed' = TRUE
    BY <1>3 DEF Release
  <2> QED
    BY <1>1, <1>3, <2>1 DEF ReferencesExact
<1>4. CASE iReferences # 1
  <2>1. bDestroyed' = bDestroyed
    BY <1>4 DEF Release
  <2> QED
    BY <1>1, <1>2, <1>4, <2>1 DEF ReferencesExact, IInv, TypeOK
<1> QED
  BY <1>3, <1>4

\* Every step keeps the reference count exact.
LEMMA ReferencesStep == IInv /\ [Next]_vars => ReferencesExact'
<1> SUFFICES ASSUME IInv, [Next]_vars PROVE ReferencesExact'
  OBVIOUS
<1> USE DEF frameVars, flagVars
<1>t. TypeOK /\ ReferencesExact
  BY DEF IInv
<1>f. /\ IsFiniteSet(Live) /\ Cardinality(Live) \in Nat
      /\ IsFiniteSet(Holding) /\ Cardinality(Holding) \in Nat
  BY FiniteReferers
<1>1. CASE \/ Return \/ Throw \/ UnhandledException \/ FinalSuspend \/ WakeWaiter
           \/ DetachFinished \/ Start \/ UNCHANGED vars
           \/ \E p \in Parents : AwaitReady(p) \/ AwaitSuspend(p) \/ AwaitResume(p)
  <2> USE DEF Return, Throw, UnhandledException, FinalSuspend, WakeWaiter,
          DetachFinished, Start, vars, AwaitReady, AwaitSuspend, AwaitResume
  <2>1. Live' = Live
    BY <1>1 DEF Live
  <2>2. Holding' = Holding
    <3>1. CASE WakeWaiter
      <4>1. Head(vWalk) \in Parents /\ awaiter[Head(vWalk)] = "suspended"
        <5>1. vWalk # <<>> /\ Head(vWalk) = vWalk[1] /\ 1 \in 1..Len(vWalk)
          BY <3>1, <1>t DEF TypeOK
        <5> QED
          BY <5>1 DEF IInv, WaitersLinked, Members
      <4> QED
        BY <3>1, <4>1, <1>t DEF TypeOK, Holding
    <3>2. CASE ~WakeWaiter
      BY <1>1, <3>2, <1>t DEF TypeOK, Holding, AwaiterStates
    <3> QED
      BY <3>1, <3>2
  <2>3. iReferences' = iReferences /\ bDestroyed' = bDestroyed
        /\ (body' = "gone" <=> body = "gone")
    BY <1>1
  <2> QED
    BY <2>1, <2>2, <2>3, <1>t DEF ReferencesExact
<1>2. CASE DrainDetached
  <2>1. Live' = Live /\ Holding' = Holding
    BY <1>2 DEF DrainDetached, Live, Holding
  <2>2. iReferences > 0
    BY <1>2, ReferencePositive DEF DrainDetached
  <2> QED
    BY <1>2, <1>t, <1>f, <2>1, <2>2, ReleaseCounts DEF DrainDetached, ReferencesExact, TypeOK
<1>3. ASSUME NEW h \in Handles, Copy(h) PROVE ReferencesExact'
  <2>1. Live' = Live \cup {h} /\ h \notin Live /\ Holding' = Holding
    BY <1>3, <1>t DEF Copy, Live, Holding, TypeOK
  <2>2. Cardinality(Live') = Cardinality(Live) + 1
    BY <2>1, <1>f, FS_AddElement, FS_RemoveElement, FS_CardinalityType, FS_EmptySet
  <2>3. ~bDestroyed
    BY <1>3, ReferencePositive DEF Copy
  <2> QED
    <3>1. iReferences' = iReferences + 1 /\ bDestroyed' = bDestroyed /\ body' = body
      BY <1>3 DEF Copy
    <3> QED
      BY <3>1, <1>t, <1>f, <2>1, <2>2, <2>3 DEF ReferencesExact, TypeOK
<1>4. ASSUME NEW h \in Handles, Drop(h) PROVE ReferencesExact'
  <2>1. Live' = Live \ {h} /\ h \in Live /\ Holding' = Holding /\ body' = body
    BY <1>4, <1>t DEF Drop, Live, Holding, TypeOK
  <2>2. Cardinality(Live') = Cardinality(Live) - 1
    BY <2>1, <1>f, FS_AddElement, FS_RemoveElement, FS_CardinalityType, FS_EmptySet
  <2>3. iReferences > 0
    BY <2>1, ReferencePositive
  <2> QED
    BY <1>4, <1>t, <1>f, <2>1, <2>2, <2>3, ReleaseCounts DEF Drop, ReferencesExact, TypeOK
<1>5. ASSUME NEW p \in Parents, CreateAwaiter(p) PROVE ReferencesExact'
  <2>1. Holding' = Holding \cup {p} /\ p \notin Holding /\ Live' = Live
    BY <1>5, <1>t DEF CreateAwaiter, Live, Holding, TypeOK
  <2>2. Cardinality(Holding') = Cardinality(Holding) + 1
    BY <2>1, <1>f, FS_AddElement, FS_RemoveElement, FS_CardinalityType, FS_EmptySet
  <2>3. ~bDestroyed
    BY <1>5, ReferencePositive DEF CreateAwaiter
  <2> QED
    BY <1>5, <1>t, <1>f, <2>1, <2>2, <2>3 DEF CreateAwaiter, ReferencesExact, TypeOK
<1>6. ASSUME NEW p \in Parents, DestroyAwaiter(p) PROVE ReferencesExact'
  <2>1. Holding' = Holding \ {p} /\ p \in Holding /\ Live' = Live /\ body' = body
    BY <1>6, <1>t DEF DestroyAwaiter, Live, Holding, TypeOK
  <2>2. Cardinality(Holding') = Cardinality(Holding) - 1
    BY <2>1, <1>f, FS_AddElement, FS_RemoveElement, FS_CardinalityType, FS_EmptySet
  <2>3. iReferences > 0
    BY <2>1, ReferencePositive
  <2> QED
    BY <1>6, <1>t, <1>f, <2>1, <2>2, <2>3, ReleaseCounts
       DEF DestroyAwaiter, ReferencesExact, TypeOK
<1> QED
  BY <1>1, <1>2, <1>3, <1>4, <1>5, <1>6 DEF Next, Execute, Await

-----------------------------------------------------------------------------
\* Linking a new node in front of a list of distinct nodes.
LEMMA PushFront ==
  ASSUME NEW S, NEW s \in Seq(S), NEW x \in S
  PROVE  /\ Members(<<x>> \o s) = Members(s) \cup {x}
         /\ NoDuplicates(s) /\ x \notin Members(s) => NoDuplicates(<<x>> \o s)
<1> DEFINE t == <<x>> \o s
<1>1. /\ t \in Seq(S) /\ Len(t) = Len(s) + 1 /\ t[1] = x
      /\ \A i \in 1..Len(s) : t[i + 1] = s[i]
  BY ConcatProperties
<1>2. \A i \in 1..Len(t) : i = 1 \/ (i - 1 \in 1..Len(s) /\ t[i] = s[i - 1])
  BY <1>1
<1> HIDE DEF t
<1>3. Members(t) = Members(s) \cup {x}
  <2>1. Members(t) \subseteq Members(s) \cup {x}
    <3> SUFFICES ASSUME NEW i \in 1..Len(t) PROVE t[i] \in Members(s) \cup {x}
      BY DEF Members
    <3>1. CASE i = 1
      BY <3>1, <1>1
    <3>2. CASE i # 1
      BY <3>2, <1>2 DEF Members
    <3> QED
      BY <3>1, <3>2
  <2>2. Members(s) \subseteq Members(t)
    BY <1>1 DEF Members
  <2>3. x \in Members(t)
    BY <1>1 DEF Members
  <2> QED
    BY <2>1, <2>2, <2>3
<1>4. NoDuplicates(s) /\ x \notin Members(s) => NoDuplicates(t)
  <2> SUFFICES ASSUME NoDuplicates(s), x \notin Members(s),
                      NEW i \in 1..Len(t), NEW j \in 1..Len(t), t[i] = t[j]
               PROVE  i = j
    BY DEF NoDuplicates
  <2>1. \A k \in 1..Len(s) : s[k] # x
    BY DEF Members
  <2>2. CASE i = 1 \/ j = 1
    BY <2>1, <2>2, <1>1, <1>2
  <2>3. CASE i # 1 /\ j # 1
    <3>1. /\ i - 1 \in 1..Len(s) /\ j - 1 \in 1..Len(s) /\ s[i - 1] = s[j - 1]
      BY <2>3, <1>2
    <3>2. i - 1 = j - 1
      BY <3>1 DEF NoDuplicates
    <3> QED
      BY <3>2, <1>1
  <2> QED
    BY <2>2, <2>3
<1> QED
  BY <1>3, <1>4 DEF t

\* Taking the first node off a list of distinct nodes.
LEMMA PopFront ==
  ASSUME NEW S, NEW s \in Seq(S), s # <<>>, NoDuplicates(s)
  PROVE  /\ Head(s) \in S /\ Head(s) \in Members(s)
         /\ Members(Tail(s)) = Members(s) \ {Head(s)}
         /\ NoDuplicates(Tail(s))
<1>1. /\ Tail(s) \in Seq(S) /\ Len(Tail(s)) = Len(s) - 1 /\ Head(s) = s[1]
      /\ Len(s) \in Nat /\ Len(s) > 0
      /\ \A i \in 1..Len(Tail(s)) : Tail(s)[i] = s[i + 1]
  BY HeadTailProperties, EmptySeq
<1>2. Head(s) \in S /\ Head(s) \in Members(s)
  BY <1>1 DEF Members
<1>3. Members(Tail(s)) \subseteq Members(s) \ {Head(s)}
  BY <1>1 DEF Members, NoDuplicates
<1>4. Members(s) \ {Head(s)} \subseteq Members(Tail(s))
  <2> SUFFICES ASSUME NEW i \in 1..Len(s), s[i] # Head(s)
               PROVE  s[i] \in Members(Tail(s))
    BY DEF Members
  <2>1. i - 1 \in 1..Len(Tail(s)) /\ Tail(s)[i - 1] = s[i]
    BY <1>1
  <2> QED
    BY <2>1 DEF Members
<1>5. NoDuplicates(Tail(s))
  BY <1>1 DEF NoDuplicates
<1> QED
  BY <1>2, <1>3, <1>4, <1>5

\* Every step keeps the parked parents linked, each once.
LEMMA LinkedStep == IInv /\ [Next]_vars => WaitersLinked'
<1> SUFFICES ASSUME IInv, [Next]_vars PROVE WaitersLinked'
  OBVIOUS
<1> USE DEF frameVars, flagVars
<1>t. TypeOK /\ WaitersLinked /\ BodyInv
  BY DEF IInv, Rest
<1>e. Members(<<>>) = {} /\ NoDuplicates(<<>>)
  BY DEF Members, NoDuplicates
<1>1. CASE FinalSuspend
  <2>1. vWalk = <<>>
    BY <1>1, <1>t DEF FinalSuspend, BodyInv
  <2> QED
    BY <1>1, <1>t, <1>e, <2>1 DEF FinalSuspend, WaitersLinked
<1>2. CASE WakeWaiter
  <2>1. /\ Head(vWalk) \in Parents /\ Head(vWalk) \in Members(vWalk)
        /\ Members(Tail(vWalk)) = Members(vWalk) \ {Head(vWalk)}
        /\ NoDuplicates(Tail(vWalk))
    BY <1>2, <1>t, PopFront DEF WakeWaiter, TypeOK, WaitersLinked
  <2> QED
    BY <1>2, <1>t, <2>1 DEF WakeWaiter, TypeOK, WaitersLinked
<1>3. ASSUME NEW p \in Parents, AwaitSuspend(p) PROVE WaitersLinked'
  <2>1. CASE bReady
    BY <1>3, <2>1, <1>t DEF AwaitSuspend, TypeOK, WaitersLinked
  <2>2. CASE ~bReady
    <3>1. p \notin Members(pWaiters) \cup Members(vWalk)
      BY <1>3, <1>t DEF AwaitSuspend, WaitersLinked
    <3>2. Members(pWaiters') = Members(pWaiters) \cup {p} /\ NoDuplicates(pWaiters')
      <4>1. pWaiters' = <<p>> \o pWaiters /\ pWaiters \in Seq(Parents)
        BY <1>3, <2>2, <1>t DEF AwaitSuspend, TypeOK
      <4>2. NoDuplicates(pWaiters)
        BY <1>t DEF WaitersLinked
      <4> QED
        BY <4>1, <4>2, <3>1, PushFront
    <3> QED
      BY <1>3, <2>2, <3>1, <3>2, <1>t DEF AwaitSuspend, TypeOK, WaitersLinked
  <2> QED
    BY <2>1, <2>2
<1>4. CASE \/ Return \/ Throw \/ UnhandledException \/ DetachFinished \/ Start
           \/ DrainDetached \/ UNCHANGED vars \/ \E h \in Handles : Copy(h) \/ Drop(h)
  BY <1>4, <1>t DEF Return, Throw, UnhandledException, DetachFinished, Start,
                    DrainDetached, vars, Copy, Drop, WaitersLinked
<1>5. ASSUME NEW p \in Parents,
             CreateAwaiter(p) \/ AwaitReady(p) \/ AwaitResume(p) \/ DestroyAwaiter(p)
      PROVE  WaitersLinked'
  <2>1. pWaiters' = pWaiters /\ vWalk' = vWalk
    BY <1>5 DEF CreateAwaiter, AwaitReady, AwaitResume, DestroyAwaiter
  <2>2. {q \in Parents : awaiter'[q] = "suspended"} = {q \in Parents : awaiter[q] = "suspended"}
    BY <1>5, <1>t DEF CreateAwaiter, AwaitReady, AwaitResume, DestroyAwaiter, TypeOK
  <2> QED
    BY <2>1, <2>2, <1>t DEF WaitersLinked
<1> QED
  BY <1>1, <1>2, <1>3, <1>4, <1>5 DEF Next, Execute, Await

-----------------------------------------------------------------------------
\* A new task satisfies IInv.
LEMMA InitIInv == Init => IInv
<1> SUFFICES ASSUME Init PROVE IInv
  OBVIOUS
<1> USE TaskAssumption DEF Init
<1>1. TypeOK
  <2>1. handle \in [Handles -> {"new", "live", "dropped"}]
    OBVIOUS
  <2>2. awaiter \in [Parents -> AwaiterStates]
    BY DEF AwaiterStates
  <2>3. pWaiters \in Seq(Parents) /\ vWalk \in Seq(Parents) /\ body \in Body
    BY DEF Body
  <2>4. /\ bDetached \in BOOLEAN /\ bObserved \in BOOLEAN /\ bErrorReported \in BOOLEAN
        /\ bDestroyed \in BOOLEAN /\ bReady \in BOOLEAN /\ stError \in BOOLEAN
    BY Zenon
  <2> QED
    BY <2>1, <2>2, <2>3, <2>4 DEF TypeOK
<1>2. Live = {First} /\ Holding = {}
  BY DEF Live, Holding
<1>3. Cardinality(Live) = 1 /\ Cardinality(Holding) = 0
  BY <1>2, FS_EmptySet, FS_Singleton
<1>4. ReferencesExact
  BY <1>3 DEF ReferencesExact
<1>5. WaitersLinked
  BY DEF WaitersLinked, Members, NoDuplicates
<1>6. Rest
  BY DEF Rest, BodyInv, NoParkAfterReady, ErrorNotLost
<1> QED
  BY <1>1, <1>4, <1>5, <1>6 DEF IInv

\* IInv is an invariant of a task.
THEOREM TaskInvariant == Spec => []IInv
<1>1. IInv /\ [Next]_vars => IInv'
  BY TypeStep, ReferencesStep, LinkedStep, RestStep DEF IInv
<1> QED
  BY <1>1, InitIInv, PTL DEF Spec

\* The state of a task is well-typed: iReferences never goes below zero.
THEOREM TaskTypeCorrect == Spec => []TypeOK
BY TaskInvariant, PTL DEF IInv

\* The reference count is exact and the frame dies with the last reference.
THEOREM TaskReferencesExact == Spec => []ReferencesExact
BY TaskInvariant, PTL DEF IInv

\* final_suspend reads only nodes of parked parents, and every parked parent is
\* linked exactly once.
THEOREM TaskWaitersLinked == Spec => []WaitersLinked
BY TaskInvariant, PTL DEF IInv

\* Nobody parks on a finished task.
THEOREM TaskNoParkAfterReady == Spec => []NoParkAfterReady
<1>1. IInv => NoParkAfterReady
  BY DEF IInv, Rest
<1> QED
  BY <1>1, TaskInvariant, PTL

\* The exception of a task is rethrown or reported before the frame is gone, and
\* reported at most once.
THEOREM TaskErrorNotLost == Spec => []ErrorNotLost
<1>1. IInv => ErrorNotLost
  BY DEF IInv, Rest
<1> QED
  BY <1>1, TaskInvariant, PTL

\* A task implements the safety part of Completion, under the refinement mapping
\* of CoroTask: every step is a step of Completion or changes nothing there.
THEOREM TaskImplementsCompletion == Spec => Abstract!SafeSpec
<1>1. Init => Abstract!Init
  BY DEF Init, Abstract!Init, waiterBar
<1>2. IInv /\ [Next]_vars => [Abstract!Next]_(Abstract!cvars)
  <2> SUFFICES ASSUME IInv, [Next]_vars
               PROVE  Abstract!Next \/ UNCHANGED <<bReady, waiterBar>>
    BY DEF Abstract!cvars
  <2> USE DEF frameVars, flagVars
  <2>t. TypeOK /\ BodyInv
    BY DEF IInv, Rest
  <2>1. CASE FinalSuspend
    <3>1. ~bReady /\ bReady' /\ waiterBar' = waiterBar
      BY <2>1, <2>t DEF FinalSuspend, BodyInv, waiterBar
    <3> QED
      BY <3>1, <2>t DEF Abstract!Next, Abstract!Complete, TypeOK
  <2>2. CASE WakeWaiter
    <3> DEFINE q == Head(vWalk)
    <3>1. q \in Parents /\ awaiter[q] = "suspended" /\ bReady /\ bReady' = bReady
      <4>1. q \in Parents /\ q \in Members(vWalk)
        BY <2>2, <2>t, PopFront DEF WakeWaiter, TypeOK, IInv, WaitersLinked
      <4> QED
        BY <4>1, <2>2, <2>t DEF WakeWaiter, BodyInv, IInv, WaitersLinked
    <3>2. awaiter' = [awaiter EXCEPT ![q] = "scheduled"]
      BY <2>2 DEF WakeWaiter
    <3> HIDE DEF q
    <3>3. waiterBar' = [waiterBar EXCEPT ![q] = "through"] /\ waiterBar[q] = "parked"
      BY <3>1, <3>2, <2>t DEF waiterBar, TypeOK
    <3> QED
      BY <3>1, <3>3 DEF Abstract!Next, Abstract!Wake
  <2>3. ASSUME NEW p \in Parents, AwaitReady(p) \/ AwaitSuspend(p)
        PROVE  Abstract!Next \/ UNCHANGED <<bReady, waiterBar>>
    <3>1. waiterBar[p] = "before" /\ bReady' = bReady
      BY <2>3 DEF AwaitReady, AwaitSuspend, waiterBar
    <3>2. CASE bReady
      <4>1. waiterBar' = [waiterBar EXCEPT ![p] = "through"]
        BY <2>3, <3>2, <2>t DEF AwaitReady, AwaitSuspend, waiterBar, TypeOK
      <4> QED
        BY <3>1, <3>2, <4>1 DEF Abstract!Next, Abstract!Pass
    <3>3. CASE ~bReady /\ AwaitReady(p)
      BY <3>3, <2>t DEF AwaitReady, waiterBar, TypeOK
    <3>4. CASE ~bReady /\ AwaitSuspend(p)
      <4>1. waiterBar' = [waiterBar EXCEPT ![p] = "parked"]
        BY <3>4, <2>t DEF AwaitSuspend, waiterBar, TypeOK
      <4> QED
        BY <3>1, <3>4, <4>1 DEF Abstract!Next, Abstract!Park
    <3> QED
      BY <2>3, <3>2, <3>3, <3>4
  <2>4. ASSUME NEW p \in Parents,
               CreateAwaiter(p) \/ AwaitResume(p) \/ DestroyAwaiter(p)
        PROVE  UNCHANGED <<bReady, waiterBar>>
    BY <2>4, <2>t DEF CreateAwaiter, AwaitResume, DestroyAwaiter, waiterBar, TypeOK
  <2>5. CASE \/ Return \/ Throw \/ UnhandledException \/ DetachFinished \/ Start
             \/ DrainDetached \/ UNCHANGED vars \/ \E h \in Handles : Copy(h) \/ Drop(h)
    BY <2>5 DEF Return, Throw, UnhandledException, DetachFinished, Start,
                DrainDetached, vars, Copy, Drop, waiterBar
  <2> QED
    BY <2>1, <2>2, <2>3, <2>4, <2>5 DEF Next, Execute, Await
<1> QED
  BY <1>1, <1>2, TaskInvariant, PTL DEF Spec, Abstract!SafeSpec

\* What TaskPromiseBase owes its holders: references, waiters and the exception, together.
THEOREM TaskSoundness == Spec => []TaskSound
<1>1. ReferencesExact /\ WaitersLinked /\ ErrorNotLost => TaskSound
  BY DEF TaskSound
<1> QED
  BY <1>1, TaskReferencesExact, TaskWaitersLinked, TaskErrorNotLost, PTL
=============================================================================
