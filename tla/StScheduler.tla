---------------------------- MODULE StScheduler -----------------------------
(***************************************************************************)
(* The loop of a program built with _SINGLE_THREAD_: PumpOnce              *)
(* (oi_thread.cpp) resumes the coroutines of the queue (StScheduler,       *)
(* oi_coro.cpp) and then lets the network have its turn.  There is one     *)
(* thread; coroutines are posted by other coroutines and by callbacks of   *)
(* the network.                                                            *)
(***************************************************************************)
EXTENDS Naturals, SequencesExt

CONSTANTS Coroutines

Nobody == "nobody"

VARIABLES
  pc,          \* where the loop is
  g_st_queue,
  vBatch,      \* what Poll took from it
  running,     \* the coroutine being resumed
  suspended,   \* handles an awaiter holds
  done,        \* coroutines at their final suspend point
  bStop

vars == <<pc, g_st_queue, vBatch, running, suspended, done, bStop>>

Init ==
  /\ pc = "loop" /\ g_st_queue = <<>> /\ vBatch = <<>> /\ running = Nobody
  /\ suspended = Coroutines /\ done = {} /\ bStop = FALSE

\* Whoever holds the handle posts it, once.
Post(c) ==
  /\ c \in suspended /\ suspended' = suspended \ {c}
  /\ g_st_queue' = Append(g_st_queue, c)

-----------------------------------------------------------------------------
\* SingleThreadStartWork.
Loop ==
  /\ pc = "loop" /\ pc' = IF bStop THEN "exited" ELSE "poll"
  /\ UNCHANGED <<g_st_queue, vBatch, running, suspended, done, bStop>>

\* Poll takes the queue as it is on entry.
Poll ==
  /\ pc = "poll" /\ pc' = "batch" /\ vBatch' = g_st_queue /\ g_st_queue' = <<>>
  /\ UNCHANGED <<running, suspended, done, bStop>>

Resume ==
  /\ pc = "batch" /\ vBatch # <<>> /\ running = Nobody
  /\ running' = Head(vBatch) /\ vBatch' = Tail(vBatch)
  /\ UNCHANGED <<pc, g_st_queue, suspended, done, bStop>>

\* The coroutine posts another one: a parent that waited for it, or one it finished the wait of.
RunPosts(c) ==
  /\ running # Nobody /\ Post(c)
  /\ UNCHANGED <<pc, vBatch, running, done, bStop>>

\* It yields for no time, waits for something, or ends.
RunYields ==
  /\ running # Nobody /\ running' = Nobody /\ g_st_queue' = Append(g_st_queue, running)
  /\ UNCHANGED <<pc, vBatch, suspended, done, bStop>>

RunSuspends ==
  /\ running # Nobody /\ running' = Nobody /\ suspended' = suspended \cup {running}
  /\ UNCHANGED <<pc, g_st_queue, vBatch, done, bStop>>

RunEnds ==
  /\ running # Nobody /\ running' = Nobody /\ done' = done \cup {running}
  /\ UNCHANGED <<pc, g_st_queue, vBatch, suspended, bStop>>

\* Mutant: Poll goes on with what was posted meanwhile.
PumpOnce_UntilEmpty ==
  /\ pc = "batch" /\ running = Nobody /\ vBatch = <<>>
  /\ pc' = (IF g_st_queue # <<>> THEN "batch" ELSE "block")
  /\ vBatch' = g_st_queue /\ g_st_queue' = <<>>
  /\ UNCHANGED <<running, suspended, done, bStop>>

\* PumpOnce after Poll: PollWait may block only if nothing was queued meanwhile.
PumpOnce ==
  /\ pc = "batch" /\ running = Nobody /\ vBatch = <<>>
  /\ pc' = IF g_st_queue # <<>> THEN "nowait" ELSE "block"
  /\ UNCHANGED <<g_st_queue, vBatch, running, suspended, done, bStop>>

\* uv_run calls back; a callback may post a coroutine or finish a stop.
CallbackPosts(c) ==
  /\ pc \in {"nowait", "block", "events"} /\ Post(c) /\ pc' = "events"
  /\ UNCHANGED <<vBatch, running, done, bStop>>

CallbackStops ==
  /\ pc \in {"nowait", "block", "events"} /\ bStop' = TRUE /\ pc' = "events"
  /\ UNCHANGED <<g_st_queue, vBatch, running, suspended, done>>

\* uv_run returns: at once with UV_RUN_NOWAIT, else when something happened.
PollWaitReturns ==
  /\ pc \in {"nowait", "events"} /\ pc' = "loop"
  /\ UNCHANGED <<g_st_queue, vBatch, running, suspended, done, bStop>>

Next ==
  \/ Loop \/ Poll \/ Resume \/ RunYields \/ RunSuspends \/ RunEnds
  \/ PumpOnce \/ CallbackStops \/ PollWaitReturns
  \/ \E c \in Coroutines : RunPosts(c) \/ CallbackPosts(c)

Spec == Init /\ [][Next]_vars

\* The thread runs on, and a coroutine reaches its next suspension; nothing need happen on the
\* network.
FairSpec ==
  /\ Spec /\ WF_vars(Loop \/ Poll \/ Resume \/ PumpOnce \/ PollWaitReturns)
  /\ WF_vars(RunYields \/ RunSuspends \/ RunEnds)

-----------------------------------------------------------------------------
\* A queued coroutine is resumed although nothing ever happens on the network, and the network
\* has its turn although coroutines yield for ever (oi_coro.cpp:215, oi_thread.cpp:251).
EveryoneGetsATurn ==
  /\ \A c \in Coroutines :
       c \in ToSet(g_st_queue) ~> (running = c \/ pc = "exited")
  /\ []<>(pc \in {"nowait", "block", "exited"})
=============================================================================
