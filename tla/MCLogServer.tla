----------------------------- MODULE MCLogServer ----------------------------
(***************************************************************************)
(* The log server as one of the services of MCBackpressure, under names    *)
(* that the Redis proxy does not use.                                      *)
(***************************************************************************)
EXTENDS Integers

CONSTANTS Peers, LOG_FRAME_MAX, Title, m_iMaxLogBytes, FramesPerRound, MaxLogs

VARIABLES
  received, stInputBuffer, m_bWaiting, m_iPendingBytes, m_vWaitingSessions, m_pResumingSession,
  m_bResumePosted, m_bStopping, m_vLogs, vWriting, writer, m_bQuit, written, logPoll, stop

logVars ==
  <<received, stInputBuffer, m_bWaiting, m_iPendingBytes, m_vWaitingSessions, m_pResumingSession,
    m_bResumePosted, m_bStopping, m_vLogs, vWriting, writer, m_bQuit, written, logPoll, stop>>

L == INSTANCE LogServer WITH
       Sessions <- Peers, m_iMaxPendingBytes <- m_iMaxLogBytes, MaxFrames <- MaxLogs, poll <- logPoll

\* The limit is one that LogManager::Init accepts.
ASSUME LogAssumption ==
  /\ L!Local \notin Peers /\ L!NoOne \notin Peers
  /\ LOG_FRAME_MAX \in Nat \ {0} /\ Title \in Nat
  /\ m_iMaxLogBytes \in Nat /\ m_iMaxLogBytes >= LOG_FRAME_MAX + Title - 1

-----------------------------------------------------------------------------
\* No frame is lost or written twice (log_manager.cpp:213), and Stop returns only when
\* everything accepted is written (log_manager.cpp:57).
LogSound == L!NothingLost /\ L!StopDrains

\* The frames that wait are written (log_manager.cpp:245).
FramesGetWritten == L!FramesGetWritten
=============================================================================
