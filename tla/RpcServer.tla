----------------------------- MODULE RpcServer ------------------------------
(***************************************************************************)
(* The server side of RPC: ProtoSession cuts the bytes of a session into   *)
(* frames and times the frame that is incomplete (oi_rpc_session.cpp);     *)
(* DeliverRpc admits a request and starts its task, which gives the        *)
(* admission back when it ends, on any thread (oi_rpc_call.cpp).           *)
(*                                                                         *)
(* Bytes are whole frames and, at the end, perhaps a fragment of one.      *)
(* Answers to outgoing calls are the subject of RpcCall.  OnDataIn takes   *)
(* no time, but other threads act between two frames of one call of it.    *)
(***************************************************************************)
EXTENDS Integers, Sequences, FiniteSetsExt

CONSTANTS
  Sessions, Datagram,        \* the sessions, and those over UDP
  Sizes,                     \* body sizes
  iMaxCount, iMaxBytes, iSessionMaxCount, iSessionMaxBytes,
  FrameTimeout,              \* m_iFrameTimeoutMilliseconds, in ticks
  MaxFrames                  \* bound: frames of a session

NoTimer == -1
None == "none"
Frames == [kind : {"request", "notify"}, iBytes : Sizes] \cup {[kind |-> "bad"]}

\* What one read brings: bound, two frames.
Reads == UNION {[1..n -> Frames] : n \in 0..2}

ASSUME RpcAssumption ==
  /\ None \notin Sessions /\ Sizes \subseteq Nat /\ FrameTimeout \in Nat
  /\ iMaxCount \in Nat /\ iMaxBytes \in Nat
  /\ iSessionMaxCount \in Nat /\ iSessionMaxBytes \in Nat

VARIABLES
  closed,                    \* IsClosed()
  destroyed,                 \* the channel is gone and OnClose has run
  reading, vFrames,          \* the session in OnDataIn, and the frames still to cut
  partial, age,              \* stInputBuffer holds a fragment; ticks since its first byte
  timer,                     \* m_pIncompleteTimer: ticks left
  closing,                   \* timers whose uv_close has not completed
  refs,                      \* references on the session
  seen,                      \* frames so far
  stTotal, mSessions,        \* the usage; a count of zero is a missing entry
  leases                     \* the running tasks

sessionVars == <<closed, destroyed, partial, age, timer, closing, refs>>
readVars == <<reading, vFrames, seen>>
usageVars == <<stTotal, mSessions, leases>>
vars == <<sessionVars, readVars, usageVars>>

Zero == [iCount |-> 0, iBytes |-> 0]

Init ==
  /\ closed = [s \in Sessions |-> FALSE] /\ destroyed = closed /\ partial = closed
  /\ age = [s \in Sessions |-> 0] /\ closing = age /\ seen = age
  /\ timer = [s \in Sessions |-> NoTimer] /\ refs = [s \in Sessions |-> 1]
  /\ reading = None /\ vFrames = <<>>
  /\ stTotal = Zero /\ mSessions = [s \in Sessions |-> Zero] /\ leases = {}

-----------------------------------------------------------------------------
\* uv_close keeps the timer's reference until it completes.
CancelIncompleteTimer(s) ==
  /\ timer' = [timer EXCEPT ![s] = NoTimer]
  /\ closing' = [closing EXCEPT ![s] = @ + IF timer[s] = NoTimer THEN 0 ELSE 1]

\* Mutant: every byte that arrives restarts the timer.
ArmIncompleteTimer_Restart(s) ==
  /\ timer' = [timer EXCEPT ![s] = FrameTimeout]
  /\ refs' = [refs EXCEPT ![s] = @ + IF timer[s] = NoTimer THEN 1 ELSE 0]

\* The time a fragment has is not extended by more of its bytes.
ArmIncompleteTimer(s) ==
  IF timer[s] = NoTimer
  THEN timer' = [timer EXCEPT ![s] = FrameTimeout] /\ refs' = [refs EXCEPT ![s] = @ + 1]
  ELSE UNCHANGED <<timer, refs>>

\* OnDataIn begins with frames, the first of which may complete the fragment, and a fragment.
Receive(s, frames, rest) ==
  /\ reading = None /\ ~closed[s] /\ seen[s] + Len(frames) <= MaxFrames
  /\ frames # <<>> \/ rest
  /\ reading' = s /\ vFrames' = frames /\ seen' = [seen EXCEPT ![s] = @ + Len(frames)]
  /\ partial' = [partial EXCEPT ![s] = rest]
  /\ age' = [age EXCEPT ![s] = IF frames = <<>> /\ partial[s] THEN @ ELSE 0]
  /\ UNCHANGED <<closed, destroyed, timer, closing, refs, usageVars>>

\* A size over the limit or a header that cannot be read ends the session, and the loop.
BadFrame ==
  /\ reading # None /\ vFrames # <<>> /\ Head(vFrames).kind = "bad"
  /\ closed' = [closed EXCEPT ![reading] = @ \/ reading \notin Datagram]
  /\ vFrames' = <<>>
  /\ UNCHANGED <<destroyed, reading, partial, age, timer, closing, refs, seen, usageVars>>

\* Mutant: the limit of the session is checked after the count was taken.
Room_OffByOne(s, iBytes) ==
  /\ stTotal.iCount < iMaxCount /\ iBytes <= iMaxBytes - stTotal.iBytes
  /\ mSessions[s].iCount <= iSessionMaxCount /\ iBytes <= iSessionMaxBytes - mSessions[s].iBytes

\* The conditions of AcquireRpc.
Room(s, iBytes) ==
  /\ stTotal.iCount < iMaxCount /\ iBytes <= iMaxBytes - stTotal.iBytes
  /\ mSessions[s].iCount < iSessionMaxCount /\ iBytes <= iSessionMaxBytes - mSessions[s].iBytes

Plus(usage, iCount, iBytes) ==
  [iCount |-> usage.iCount + iCount, iBytes |-> usage.iBytes + iBytes]

\* A frame is cut: its timer ends, DeliverRpc admits it and starts the task.
DeliverRpc ==
  LET s == reading
      frame == Head(vFrames)
  IN
  /\ s # None /\ vFrames # <<>> /\ frame.kind # "bad" /\ Room(s, frame.iBytes)
  /\ vFrames' = Tail(vFrames) /\ CancelIncompleteTimer(s)
  /\ stTotal' = Plus(stTotal, 1, frame.iBytes)
  /\ mSessions' = [mSessions EXCEPT ![s] = Plus(@, 1, frame.iBytes)]
  /\ leases' = leases \cup {[sid |-> s, n |-> seen[s] - Len(vFrames), iBytes |-> frame.iBytes]}
  /\ UNCHANGED <<closed, destroyed, reading, partial, age, refs, seen>>

\* No room: a one-way message is dropped, a request answered with OI_ERR_BUSY, and if the answer
\* cannot be sent the session is closed; the frames behind it are cut all the same.
Busy ==
  LET s == reading
      frame == Head(vFrames)
  IN
  /\ s # None /\ vFrames # <<>> /\ frame.kind # "bad" /\ ~Room(s, frame.iBytes)
  /\ vFrames' = Tail(vFrames) /\ CancelIncompleteTimer(s)
  /\ \E sent \in BOOLEAN :
       closed' = [closed EXCEPT ![s] = @ \/ (frame.kind = "request" /\ ~sent)]
  /\ UNCHANGED <<destroyed, reading, partial, age, refs, seen, usageVars>>

\* The end of OnDataIn: what is left is a fragment, or nothing is kept.
OnDataInEnds ==
  LET s == reading IN
  /\ s # None /\ vFrames = <<>> /\ reading' = None
  /\ partial' = [partial EXCEPT ![s] = @ /\ ~closed[s] /\ s \notin Datagram]
  /\ IF s \in Datagram THEN UNCHANGED <<closed, timer, closing, refs>>
     ELSE IF closed[s] \/ ~partial[s] THEN CancelIncompleteTimer(s) /\ UNCHANGED <<closed, refs>>
     ELSE \/ ArmIncompleteTimer(s) /\ UNCHANGED <<closed, closing>>
          \/ /\ timer[s] = NoTimer   \* there is no memory for a timer
             /\ closed' = [closed EXCEPT ![s] = TRUE] /\ UNCHANGED <<timer, closing, refs>>
  /\ UNCHANGED <<destroyed, age, vFrames, seen, usageVars>>

Tick ==
  /\ reading = None /\ \A s \in Sessions : timer[s] # 0
  /\ \E s \in Sessions : timer[s] > 0
  /\ timer' = [s \in Sessions |-> IF timer[s] > 0 THEN timer[s] - 1 ELSE timer[s]]
  /\ age' = [s \in Sessions |-> IF partial[s] /\ ~closed[s] THEN age[s] + 1 ELSE age[s]]
  /\ UNCHANGED <<closed, destroyed, partial, closing, refs, readVars, usageVars>>

\* The callback of the timer.
TimerFires(s) ==
  /\ reading = None /\ timer[s] = 0 /\ CancelIncompleteTimer(s)
  /\ closed' = [closed EXCEPT ![s] = TRUE]
  /\ UNCHANGED <<destroyed, partial, age, refs, readVars, usageVars>>

\* The callback of uv_close.
TimerClosed(s) ==
  /\ reading = None /\ closing[s] > 0
  /\ closing' = [closing EXCEPT ![s] = @ - 1] /\ refs' = [refs EXCEPT ![s] = @ - 1]
  /\ UNCHANGED <<closed, destroyed, partial, age, timer, readVars, usageVars>>

\* CloseSession by any thread.
CloseSession(s) ==
  /\ ~closed[s] /\ closed' = [closed EXCEPT ![s] = TRUE]
  /\ UNCHANGED <<destroyed, partial, age, timer, closing, refs, readVars, usageVars>>

\* ProtoSession::OnClose.
OnClose(s) == CancelIncompleteTimer(s)

\* The channel of a closed session is destroyed on the poll thread.
Destroy(s) ==
  /\ reading = None /\ closed[s] /\ ~destroyed[s]
  /\ destroyed' = [destroyed EXCEPT ![s] = TRUE] /\ OnClose(s)
  /\ refs' = [refs EXCEPT ![s] = @ - 1]
  /\ UNCHANGED <<closed, partial, age, readVars, usageVars>>

\* The task ends, well or with an exception, and its closure with the lease.
TaskEnds(lease) ==
  /\ lease \in leases /\ leases' = leases \ {lease}
  /\ stTotal' = Plus(stTotal, -1, -lease.iBytes)
  /\ mSessions' = [mSessions EXCEPT ![lease.sid] =
                    IF @.iCount = 1 THEN Zero ELSE Plus(@, -1, -lease.iBytes)]
  /\ UNCHANGED <<sessionVars, readVars>>

Next ==
  \/ \E s \in Sessions, frames \in Reads, rest \in BOOLEAN :
       Receive(s, frames, rest)
  \/ BadFrame \/ DeliverRpc \/ Busy \/ OnDataInEnds \/ Tick
  \/ \E s \in Sessions : TimerFires(s) \/ TimerClosed(s) \/ CloseSession(s) \/ Destroy(s)
  \/ \E lease \in leases : TaskEnds(lease)

Spec == Init /\ [][Next]_vars

-----------------------------------------------------------------------------
(***************************************************************************)
(* Properties.                                                             *)
(***************************************************************************)
UsageOf(some) == [iCount |-> Cardinality(some), iBytes |-> MapThenSumSet(LAMBDA l : l.iBytes, some)]

\* The usage that admits requests is that of the tasks that run, in total and for each session,
\* and is within its limits, whatever order tasks end in and although their session is closed
\* meanwhile (oi_rpc_call.cpp:85, 104).
UsageExact ==
  /\ stTotal = UsageOf(leases) /\ stTotal.iCount <= iMaxCount /\ stTotal.iBytes <= iMaxBytes
  /\ \A s \in Sessions :
       /\ mSessions[s] = UsageOf({l \in leases : l.sid = s})
       /\ mSessions[s].iCount <= iSessionMaxCount /\ mSessions[s].iBytes <= iSessionMaxBytes

\* The timer of an open session is that of the fragment it holds: it counts from its first byte,
\* neither restarted by more of its bytes nor left from a frame before
\* (oi_rpc_session.cpp:39, 119).
FragmentDeadline ==
  \A s \in Sessions : reading # s /\ ~closed[s] =>
    timer[s] = IF partial[s] THEN FrameTimeout - age[s] ELSE NoTimer

\* A timer, or one that is being closed, keeps its session alive, and the session of a channel
\* that is gone has no timer that would go on (oi_rpc_session.cpp:22, 60, 74).
TimerHoldsSession ==
  \A s \in Sessions :
    /\ refs[s] = (IF destroyed[s] THEN 0 ELSE 1) + closing[s]
                 + (IF timer[s] = NoTimer THEN 0 ELSE 1)
    /\ destroyed[s] => timer[s] = NoTimer

\* The timer is that of the fragment the session holds (oi_rpc_session.cpp:39), and the session
\* it points to is there (oi_rpc_session.cpp:74).
TimerSound == FragmentDeadline /\ TimerHoldsSession
=============================================================================
