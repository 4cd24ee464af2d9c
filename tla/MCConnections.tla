--------------------------- MODULE MCConnections ----------------------------
(***************************************************************************)
(* TLC instance of the two ways to get a connection: ConnectWait, the      *)
(* client of a service that is awaited, and RouteConnection, the pool of   *)
(* routed calls.  A behaviour is one of either, and system says which.     *)
(***************************************************************************)
EXTENDS RouteConnection

CONSTANTS Waiters, Addresses, Name, None, MaxChanges

\* The service is found under a name, or at an address.
ASSUME WaitAssumption == Name \notin Addresses

VARIABLES
  system,
  thread, bDone, bResult, posted, sIpAddress, sEndpoint, bServiceSeen, bServiceDown,
  iConnectGeneration, bConnectPending, m_vConnectWaiters, resolves, connects, waitSessions,
  vWaiters, waitPoll, waitStop, changes, registered, completed

waitVars ==
  <<thread, bDone, bResult, posted, sIpAddress, sEndpoint, bServiceSeen, bServiceDown,
    iConnectGeneration, bConnectPending, m_vConnectWaiters, resolves, connects, waitSessions,
    vWaiters, waitPoll, waitStop, changes, registered, completed>>

W == INSTANCE ConnectWait WITH
       mSessionMap <- waitSessions, poll <- waitPoll, bStop <- waitStop

InitBoth ==
  /\ system \in {"wait", "route"} /\ W!Init /\ Init
  /\ bServiceSeen => system = "wait"

WaitNext == system = "wait" /\ W!Next /\ UNCHANGED <<system, vars>>

RouteNext == system = "route" /\ Next /\ UNCHANGED <<system, waitVars>>

\* The fairness of W!FairSpec and of FairSpec, each in its own behaviours.
Fairness ==
  /\ WF_waitVars(system = "wait" /\ W!Resolved) /\ WF_waitVars(system = "wait" /\ W!Connected)
  /\ WF_waitVars(system = "wait" /\ W!Completed)
  /\ \A w \in Waiters : /\ WF_waitVars(system = "wait" /\ W!StartConnect(w))
                        /\ WF_waitVars(system = "wait" /\ (W!Suspend(w) \/ W!Drop(w)))
  /\ WF_vars(system = "route" /\ Adopted) /\ WF_vars(system = "route" /\ Retire)
  /\ WF_vars(system = "route" /\ Retired)
  /\ \A c \in Calls : WF_vars(system = "route" /\ Ensure(c))
  /\ \A k \in Connections : SF_vars(system = "route" /\ Connecting(k))

SpecBoth == InitBoth /\ [][WaitNext \/ RouteNext]_<<system, waitVars, vars>> /\ Fairness

-----------------------------------------------------------------------------
\* ConnectWait: a waiter hears of its own generation (oi_session_manager.cpp:513), and a
\* session is of the address the service has (oi_session_manager.cpp:508).
WaitSound == W!WaitSound

\* ConnectWait: every waiter is resumed (oi_session_manager.cpp:115).
WaiterResumed == W!WaiterResumed
=============================================================================
