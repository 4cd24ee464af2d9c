------------------------------ MODULE LogServer -----------------------------
(***************************************************************************)
(* The log server (modules/logd): frames that sessions read go to a writer *)
(* thread within a limit of bytes; a session whose frame does not fit      *)
(* waits, keeps the frame, and is resumed in turn; Stop drains everything. *)
(*                                                                         *)
(* One level is modelled: the writer threads of the levels share only the  *)
(* accounts.  poll is the thread that runs OnDataIn and ResumeWaiting: the *)
(* poll thread, and after it has stopped the one that calls Stop.  Each    *)
(* action is one section under m_stBacklogLocker or m_stCacheLocker.       *)
(***************************************************************************)
EXTENDS Integers, Sequences, FiniteSets

CONSTANTS
  Sessions,
  LOG_FRAME_MAX, Title,     \* the longest payload, the length of the title
  m_iMaxPendingBytes,
  FramesPerRound,           \* frames that OnDataIn takes before it yields
  MaxFrames                 \* bound: frames of a session

Local == "local"            \* who writes a log of the process itself
NoOne == "none"

\* The text of a frame: the level takes one byte of the payload.  LogManager::Init demands a
\* limit of LOG_FRAME_MAX + Title - 1 at least, so that the longest text just fits.
FrameLengths == {0, LOG_FRAME_MAX - 1}

VARIABLES
  received,                 \* frames of a session that have been read
  stInputBuffer,            \* those it still keeps: their lengths
  m_bWaiting,
  m_iPendingBytes, m_vWaitingSessions, m_pResumingSession, m_bResumePosted, m_bStopping,
  m_vLogs, vWriting,        \* of the writer thread: who and how many bytes
  writer, m_bQuit,
  written,                  \* frames of a session that are in the file
  poll, stop                \* where the two threads are

inputVars == <<received, stInputBuffer>>
waitVars == <<m_bWaiting, m_vWaitingSessions>>
managerVars == <<m_iPendingBytes, m_pResumingSession, m_bResumePosted, m_bStopping>>
writerVars == <<m_vLogs, vWriting, writer, m_bQuit, written>>
vars == <<inputVars, waitVars, managerVars, writerVars, poll, stop>>

Idle == [at |-> "idle", sid |-> NoOne, frames |-> 0]

Init ==
  /\ received = [s \in Sessions |-> 0] /\ stInputBuffer = [s \in Sessions |-> <<>>]
  /\ m_bWaiting = [s \in Sessions |-> FALSE] /\ m_vWaitingSessions = <<>>
  /\ m_iPendingBytes = 0 /\ m_pResumingSession = NoOne /\ m_bResumePosted = FALSE
  /\ m_bStopping = FALSE
  /\ m_vLogs = <<>> /\ vWriting = <<>> /\ writer = "check" /\ m_bQuit = FALSE
  /\ written = [s \in Sessions |-> 0]
  /\ poll = Idle /\ stop = "running"

-----------------------------------------------------------------------------
(***************************************************************************)
(* The accounts.                                                           *)
(***************************************************************************)
SumBytes(logs) ==
  LET sum[n \in 0..Len(logs)] == IF n = 0 THEN 0 ELSE sum[n - 1] + logs[n].bytes
  IN sum[Len(logs)]

\* The logs of a session among some.
Count(logs, s) == Cardinality({i \in DOMAIN logs : logs[i].who = s})

\* WriteLog gives up without making the session wait.
TooLong(length) == length > m_iMaxPendingBytes - Title

Full(bytes) == bytes > m_iMaxPendingBytes - m_iPendingBytes

\* Mutant: a short frame passes those that wait.
MustWait_Overtakes(who, bytes) == Full(bytes)

\* WriteLog: no room, or others come first.
MustWait(who, bytes) ==
  \/ Full(bytes)
  \/ (m_pResumingSession # NoOne \/ m_vWaitingSessions # <<>>) /\ who # m_pResumingSession

\* ScheduleResume, with the values its caller leaves.
ScheduleResume(waiting, resuming, pending) ==
  m_bResumePosted' = (m_bResumePosted \/ ( /\ ~m_bStopping /\ resuming = NoOne /\ waiting # <<>>
                                           /\ Head(waiting).bytes <= m_iMaxPendingBytes - pending ))

\* QueueWaiter.
QueueWaiter(s, bytes) ==
  /\ m_vWaitingSessions' = Append(m_vWaitingSessions, [sid |-> s, bytes |-> bytes])
  /\ m_bWaiting' = [m_bWaiting EXCEPT ![s] = TRUE]
  /\ ScheduleResume(m_vWaitingSessions', m_pResumingSession, m_iPendingBytes)
  /\ UNCHANGED <<m_iPendingBytes, m_pResumingSession, m_bStopping>>

\* AddLog, and the account of it.
AddLog(who, bytes) ==
  /\ m_vLogs' = Append(m_vLogs, [who |-> who, bytes |-> bytes])
  /\ writer' = IF m_vLogs = <<>> /\ writer = "sleep" THEN "check" ELSE writer
  /\ m_iPendingBytes' = m_iPendingBytes + bytes

-----------------------------------------------------------------------------
(***************************************************************************)
(* OnDataIn and ResumeWaiting.                                             *)
(***************************************************************************)
\* A frame has been read; OnDataIn of a session that waits does nothing.
Receive(s, length) ==
  /\ stop = "running" /\ poll = Idle /\ received[s] < MaxFrames
  /\ received' = [received EXCEPT ![s] = @ + 1]
  /\ stInputBuffer' = [stInputBuffer EXCEPT ![s] = Append(@, length)]
  /\ poll' = IF m_bWaiting[s] THEN Idle ELSE [Idle EXCEPT !.at = "input", !.sid = s]
  /\ UNCHANGED <<waitVars, managerVars, writerVars, stop>>

\* DeferWrite: the round has had its share.
DeferWrite ==
  LET s == poll.sid IN
  /\ poll.at = "input" /\ stInputBuffer[s] # <<>> /\ poll.frames >= FramesPerRound
  /\ QueueWaiter(s, Head(stInputBuffer[s]) + Title)
  /\ poll' = [poll EXCEPT !.at = "ended"]
  /\ UNCHANGED <<inputVars, writerVars, stop>>

\* WriteLog of the next frame succeeds.
WriteFrame ==
  LET s == poll.sid
      bytes == Head(stInputBuffer[s]) + Title
  IN
  /\ poll.at = "input" /\ stInputBuffer[s] # <<>> /\ poll.frames < FramesPerRound
  /\ ~TooLong(Head(stInputBuffer[s])) /\ ~MustWait(s, bytes)
  /\ AddLog(s, bytes)
  /\ stInputBuffer' = [stInputBuffer EXCEPT ![s] = Tail(@)]
  /\ poll' = [poll EXCEPT !.frames = @ + 1]
  /\ UNCHANGED <<received, waitVars, m_pResumingSession, m_bResumePosted, m_bStopping, vWriting,
                 m_bQuit, written, stop>>

\* Mutant: the frame that was refused is dropped.
KeepRefused_Dropped(s) == stInputBuffer' = [stInputBuffer EXCEPT ![s] = Tail(@)]

\* The refused frame stays in the buffer.
KeepRefused(s) == UNCHANGED stInputBuffer

\* WriteLog of the next frame fails.
WriteRefused ==
  LET s == poll.sid
      length == Head(stInputBuffer[s])
  IN
  /\ poll.at = "input" /\ stInputBuffer[s] # <<>> /\ poll.frames < FramesPerRound
  /\ TooLong(length) \/ MustWait(s, length + Title)
  /\ IF TooLong(length) THEN UNCHANGED <<waitVars, managerVars>> ELSE QueueWaiter(s, length + Title)
  /\ KeepRefused(s) /\ poll' = [poll EXCEPT !.at = "ended"]
  /\ UNCHANGED <<received, writerVars, stop>>

\* OnDataIn returns, to the poll loop or to ResumeWaiting, which looks for the next in turn.
InputEnds ==
  /\ poll.at = "ended" \/ (poll.at = "input" /\ stInputBuffer[poll.sid] = <<>>)
  /\ poll' = Idle /\ m_pResumingSession' = NoOne
  /\ IF m_pResumingSession = NoOne THEN UNCHANGED m_bResumePosted
     ELSE ScheduleResume(m_vWaitingSessions, NoOne, m_iPendingBytes)
  /\ UNCHANGED <<inputVars, waitVars, m_iPendingBytes, m_bStopping, writerVars, stop>>

\* The first section of ResumeWaiting: the head of the queue fits, or nothing happens.
ResumeWaiting ==
  /\ poll = Idle /\ m_bResumePosted' = FALSE
  /\ IF m_vWaitingSessions = <<>> \/ Full(Head(m_vWaitingSessions).bytes)
     THEN UNCHANGED <<waitVars, m_pResumingSession, poll>>
     ELSE LET s == Head(m_vWaitingSessions).sid IN
          /\ m_vWaitingSessions' = Tail(m_vWaitingSessions) /\ m_pResumingSession' = s
          /\ m_bWaiting' = [m_bWaiting EXCEPT ![s] = FALSE]
          /\ poll' = [Idle EXCEPT !.at = "input", !.sid = s]
  /\ UNCHANGED <<inputVars, m_iPendingBytes, m_bStopping, writerVars>>

ResumeOnLoop == stop = "running" /\ m_bResumePosted /\ ResumeWaiting /\ UNCHANGED stop

\* A log of the process itself is dropped when it would have to wait.
WriteSelfLog(length) ==
  /\ stop = "running" /\ ~TooLong(length) /\ ~MustWait(Local, length + Title)
  /\ AddLog(Local, length + Title)
  /\ UNCHANGED <<inputVars, waitVars, m_pResumingSession, m_bResumePosted, m_bStopping, vWriting,
                 m_bQuit, written, poll, stop>>

-----------------------------------------------------------------------------
(***************************************************************************)
(* The writer thread.                                                      *)
(***************************************************************************)
WriterSleeps ==
  /\ writer = "check" /\ m_vLogs = <<>> /\ ~m_bQuit /\ writer' = "sleep"
  /\ UNCHANGED <<inputVars, waitVars, managerVars, m_vLogs, vWriting, m_bQuit, written, poll, stop>>

WriterTakes ==
  /\ writer = "check" /\ (m_vLogs # <<>> \/ m_bQuit)
  /\ writer' = IF m_vLogs = <<>> THEN "ended" ELSE "writing"
  /\ vWriting' = m_vLogs /\ m_vLogs' = <<>>
  /\ UNCHANGED <<inputVars, waitVars, managerVars, m_bQuit, written, poll, stop>>

\* The batch is in the file: CompleteWrite.
CompleteWrite ==
  /\ writer = "writing" /\ writer' = "check" /\ vWriting' = <<>>
  /\ written' = [s \in Sessions |-> written[s] + Count(vWriting, s)]
  /\ m_iPendingBytes' = m_iPendingBytes - SumBytes(vWriting)
  /\ stop' = IF stop = "wait" THEN "resume" ELSE stop    \* m_stBacklogCondition.Signal
  /\ ScheduleResume(m_vWaitingSessions, m_pResumingSession, m_iPendingBytes')
  /\ UNCHANGED <<inputVars, waitVars, m_pResumingSession, m_bStopping, m_vLogs, m_bQuit, poll>>

-----------------------------------------------------------------------------
(***************************************************************************)
(* LogManager::Stop, when the poll thread and the workers have stopped.    *)
(***************************************************************************)
StopBegins ==
  /\ stop = "running" /\ poll = Idle /\ stop' = "resume" /\ m_bStopping' = TRUE
  /\ UNCHANGED <<inputVars, waitVars, m_iPendingBytes, m_pResumingSession, m_bResumePosted,
                 writerVars, poll>>

StopResumes == stop = "resume" /\ ResumeWaiting /\ stop' = "check"

\* Nobody waits any more.
Drained == m_vWaitingSessions = <<>>

\* Under the lock: over, wait for the writer, or go round again.
StopChecks ==
  /\ stop = "check" /\ poll = Idle
  /\ stop' = IF Drained THEN "join"
             ELSE IF Full(Head(m_vWaitingSessions).bytes) THEN "wait"
             ELSE "resume"
  /\ m_bQuit' = (stop' = "join")
  /\ writer' = IF stop' = "join" /\ writer = "sleep" THEN "check" ELSE writer
  /\ UNCHANGED <<inputVars, waitVars, managerVars, m_vLogs, vWriting, written, poll>>

StopReturns ==
  /\ stop = "join" /\ writer = "ended" /\ stop' = "returned"
  /\ UNCHANGED <<inputVars, waitVars, managerVars, writerVars, poll>>

Threads ==
  \/ DeferWrite \/ WriteFrame \/ WriteRefused \/ InputEnds \/ ResumeOnLoop
  \/ StopResumes \/ StopChecks \/ StopReturns

Writer == WriterSleeps \/ WriterTakes \/ CompleteWrite

Next ==
  \/ \E s \in Sessions, length \in FrameLengths : Receive(s, length)
  \/ \E length \in FrameLengths : WriteSelfLog(length)
  \/ StopBegins \/ Threads \/ Writer

Spec == Init /\ [][Next]_vars

\* The threads run; the disk does not block for ever (a failure aborts the process).
FairSpec == Spec /\ SF_vars(Threads) /\ WF_vars(Writer)

-----------------------------------------------------------------------------
(***************************************************************************)
(* Properties.                                                             *)
(***************************************************************************)
\* No frame is lost, written twice or counted wrong, however often its session had to wait: the
\* frames of a session are in the file, with the writer or in its buffer, and the bytes of the
\* writer are the bytes of the account, within the limit (log_manager.cpp:213, 265).
NothingLost ==
  /\ \A s \in Sessions :
       received[s] = written[s] + Count(vWriting, s) + Count(m_vLogs, s) + Len(stInputBuffer[s])
  /\ m_iPendingBytes = SumBytes(vWriting) + SumBytes(m_vLogs)
  /\ m_iPendingBytes <= m_iMaxPendingBytes

\* "Stop ... returns when the logs are on disk" (log_manager.h): every complete frame that a
\* session has read, those of sessions that were waiting included.
StopDrains == stop = "returned" => written = received

\* A frame that has been read gets to the file, and Stop returns: no session waits for ever,
\* whether short frames and local logs keep coming or the longest frame just fits
\* (log_manager.cpp:57, 226, 274).
FramesGetWritten ==
  /\ \A s \in Sessions, n \in 1..MaxFrames : received[s] = n ~> written[s] >= n
  /\ stop # "running" ~> stop = "returned"
=============================================================================
