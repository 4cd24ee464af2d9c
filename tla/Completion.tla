----------------------------- MODULE Completion -----------------------------
(***************************************************************************)
(* What every awaitable of the framework promises: something completes     *)
(* once, a coroutine that comes before parks and is let through once, after *)
(* the completion, and a coroutine that comes later does not park at all.  *)
(* CoroTask, WhenAll and RpcCall are shown to implement this specification.*)
(***************************************************************************)
CONSTANT Waiters

VARIABLES bDone, waiter

cvars == <<bDone, waiter>>

Init == bDone = FALSE /\ waiter = [p \in Waiters |-> "before"]

Complete == ~bDone /\ bDone' = TRUE /\ UNCHANGED waiter

Park(p) ==
  /\ waiter[p] = "before" /\ ~bDone
  /\ waiter' = [waiter EXCEPT ![p] = "parked"]
  /\ UNCHANGED bDone

Pass(p) ==
  /\ waiter[p] = "before" /\ bDone
  /\ waiter' = [waiter EXCEPT ![p] = "through"]
  /\ UNCHANGED bDone

Wake(p) ==
  /\ waiter[p] = "parked" /\ bDone
  /\ waiter' = [waiter EXCEPT ![p] = "through"]
  /\ UNCHANGED bDone

Next == Complete \/ \E p \in Waiters : Park(p) \/ Pass(p) \/ Wake(p)

\* Nobody stays parked after the completion.
Spec == Init /\ [][Next]_cvars /\ \A p \in Waiters : WF_cvars(Wake(p))

SafeSpec == Init /\ [][Next]_cvars
=============================================================================
