---------------------------- MODULE MCRedisServer ---------------------------
(***************************************************************************)
(* The Redis proxy as one of the services of MCBackpressure, under names   *)
(* that the log server does not use.                                       *)
(***************************************************************************)
EXTENDS Integers

CONSTANTS Clients, Lengths, m_iMaxPendingBytes, m_iMaxPendingCommands, iBudget, MaxInput

VARIABLES
  session, vCommands, bMore, m_bReadPaused, vPending, iPendingBytes, vPaused, vReady,
  bResuming, bResumeArmed, up, bDialing, hiredis, redisPoll

redisVars ==
  <<session, vCommands, bMore, m_bReadPaused, vPending, iPendingBytes, vPaused, vReady,
    bResuming, bResumeArmed, up, bDialing, hiredis, redisPoll>>

P == INSTANCE RedisServer WITH
       Sessions <- Clients, stInputBuffer <- vCommands, partial <- bMore, poll <- redisPoll

\* The limits are ones that RedisServer::Init accepts.
ASSUME ProxyAssumption ==
  /\ m_iMaxPendingBytes \in Nat \ {0} /\ m_iMaxPendingCommands \in Nat \ {0}
  /\ iBudget \in Nat \ {0} /\ Lengths \subseteq Nat /\ MaxInput \in Nat

-----------------------------------------------------------------------------
\* The credit taken is that of the commands hiredis has (redis_server.cpp:515), and somebody
\* will resume a paused session (redis_server.cpp:429).
ProxySound == P!CreditExact /\ P!PausedIsAttended

\* A paused session is resumed (redis_server.cpp:442).
PausedIsResumed == P!PausedIsResumed
=============================================================================
