----------------------------- MODULE MCRpcCall ------------------------------
(***************************************************************************)
(* Two calls for TLC.                                                      *)
(***************************************************************************)
EXTENDS RpcCall

CONSTANTS c1, c2

First == INSTANCE Completion
           WITH Waiters <- {c1}, bDone <- bDoneBar(c1), waiter <- waiterBar(c1)
Second == INSTANCE Completion
            WITH Waiters <- {c2}, bDone <- bDoneBar(c2), waiter <- waiterBar(c2)

\* Of each call: its caller parks only before the completion and is let through once,
\* after it, whoever completes the call.
ImplementsCompletion == First!Spec /\ Second!Spec
=============================================================================
