----------------------------- MODULE MCClients ------------------------------
(***************************************************************************)
(* TLC instance of the clients whose replies carry no number: of Redis, of *)
(* HTTP servers and of the registry.  A behaviour is one of one of them,   *)
(* and system says which.                                                  *)
(***************************************************************************)
EXTENDS RedisClient

CONSTANTS q1, q2, pa, ps, pt

VARIABLES
  system,
  \* HttpClient
  client, httpCaller, httpGate, httpPosted, timers,
  \* RegistryClient
  pc, result, late, bConnected, bConnecting, bFailed, iSessionId, vPendingPulls, vDeferredPulls,
  bGot, vResponseList, attempt, sids, session, pullWire

httpVars == <<client, httpCaller, httpGate, httpPosted, timers>>
pullVars ==
  <<pc, result, late, bConnected, bConnecting, bFailed, iSessionId, vPendingPulls, vDeferredPulls,
    bGot, vResponseList, attempt, sids, session, pullWire>>

H == INSTANCE HttpClient WITH
       Requests <- {q1, q2}, MaxSid <- 3, m_bReuse <- TRUE,
       caller <- httpCaller, iGate <- httpGate, posted <- httpPosted
P == INSTANCE RegistryClient WITH
       Async <- {pa}, Sync <- {ps}, Periodic <- {pt}, iMaximumPendingPulls <- 2, MaxSid <- 2,
       wire <- pullWire

allVars == <<system, vars, httpVars, pullVars>>

InitAll == system \in {"redis", "http", "registry"} /\ Init /\ H!Init /\ P!Init

RedisNext == system = "redis" /\ Next /\ UNCHANGED <<system, httpVars, pullVars>>
HttpNext == system = "http" /\ H!Next /\ UNCHANGED <<system, vars, pullVars>>
PullNext == system = "registry" /\ P!Next /\ UNCHANGED <<system, vars, httpVars>>
NextAll == RedisNext \/ HttpNext \/ PullNext

\* The fairness of FairSpec, H!FairSpec and P!FairSpec, each in its own behaviours.
Fairness ==
  /\ \A c \in Calls : WF_vars(system = "redis" /\ CallerStep(c))
  /\ WF_vars(system = "redis" /\ PollStep) /\ WF_vars(system = "redis" /\ SweepTimeout)
  /\ WF_vars(system = "redis" /\ StopHandler)
  /\ \A c \in {q1, q2} : /\ WF_httpVars(system = "http" /\ H!ExchangeWaiting(c))
                         /\ WF_httpVars(system = "http" /\ H!EnqueueOnLoop(c, FALSE))
                         /\ WF_httpVars(system = "http" /\ H!OnTimeout(c))
  /\ WF_pullVars(system = "registry" /\ P!ExpirePulls)
  /\ \A c \in {pa, ps, pt} : WF_pullVars(system = "registry" /\ P!DeadlinePasses(c))
  /\ WF_pullVars(system = "registry" /\ (P!SyncRefused(ps) \/ P!SyncEnqueue(ps) \/ P!SyncGot(ps)
                                         \/ P!SyncGivesUp(ps) \/ P!SyncExpires(ps)))
  /\ \A s \in 1..2 : WF_pullVars(system = "registry" /\ P!OnDelSession(s))

SpecAll == InitAll /\ [][NextAll]_allVars /\ Fairness

-----------------------------------------------------------------------------
\* HttpClient: a request gets its own response (oi_http.cpp:711), and somebody will attend
\* to every request in the queue (oi_http.cpp:744).
HttpSound == H!ResponseMatches /\ H!QueueAttended

\* HttpClient: every request ends (oi_http.cpp:804).
RequestEnds == H!EveryCallEnds

\* RegistryClient: a pull gets its own reply (oi_registry.cpp:772).
PullMatches == P!PullMatches

\* RegistryClient: the flag of a connect is set only while one is under way
\* (oi_registry.cpp:406).
ConnectIsUnderWay == P!ConnectIsUnderWay

\* RegistryClient: every pull ends (oi_registry.cpp:521).
EveryPullEnds == P!EveryPullEnds
=============================================================================
