-------------------------- MODULE RouteConnection ---------------------------
(***************************************************************************)
(* The connections of named calls (oi_rpc_route.cpp) to one address: the   *)
(* pool creates one on demand and retires it when nobody has had a lease   *)
(* for the idle time; the connection holds calls while it connects.        *)
(*                                                                         *)
(* A call is an entry of the wait table (module RpcCall): it is bound,     *)
(* claimed for a session and sent, or gone (answered, expired, woken with  *)
(* an error).  Waking or claiming a call that is gone does nothing.        *)
(***************************************************************************)
EXTENDS Integers, FiniteSets

CONSTANTS
  Calls,
  MaxConnections,      \* bound: RouteConnection objects created for the address
  iHeldCount

\* An inbound request is not one of the calls.
ASSUME RouteAssumption == MaxConnections \in Nat /\ "task" \notin Calls

INVALID_SID == 0
NoConnection == 0
Connections == 1..MaxConnections
Task == "task"         \* an inbound request as a holder of the lease

VARIABLES
  caller,              \* where the caller is with its call
  route, target,       \* the connection it has a lease of, the session it sends to
  slot,                \* the call in the wait table
  client, bIdle, bStopped,                             \* RoutePool
  created,             \* how many connections there have been
  iSessionId, bConnecting, bPosted, bRetired, vHeld,   \* RouteConnection
  pLease,              \* who holds the lease
  attempt,             \* "none", or a resolve or a RouteConnector under way
  mSessionMap,         \* the sessions of RouteManager: connection and id
  closing,             \* sessions that the poll thread has still to reclaim
  sids,                \* ids given
  poll,                \* what the poll thread is doing with which connection
  bStop

callVars == <<caller, route, target, slot>>
poolVars == <<client, bIdle, bStopped, created>>
connVars == <<iSessionId, bConnecting, bPosted, bRetired, vHeld, attempt>>
sessionVars == <<mSessionMap, closing, sids>>
vars == <<callVars, poolVars, connVars, pLease, sessionVars, poll, bStop>>

Idle == [step |-> "idle", conn |-> NoConnection]
At(step, k) == [step |-> step, conn |-> k]

Init ==
  /\ caller = [c \in Calls |-> "new"] /\ route = [c \in Calls |-> NoConnection]
  /\ target = [c \in Calls |-> INVALID_SID] /\ slot = [c \in Calls |-> "bound"]
  /\ client = NoConnection /\ bIdle = FALSE /\ bStopped = FALSE /\ created = 0
  /\ iSessionId = [k \in Connections |-> INVALID_SID]
  /\ bConnecting = [k \in Connections |-> FALSE] /\ bPosted = [k \in Connections |-> FALSE]
  /\ bRetired = [k \in Connections |-> FALSE] /\ vHeld = [k \in Connections |-> {}]
  /\ attempt = [k \in Connections |-> "none"] /\ pLease = [k \in Connections |-> {}]
  /\ mSessionMap = {} /\ closing = {} /\ sids = 0
  /\ poll = Idle /\ bStop = FALSE

Goto(c, pc) == caller' = [caller EXCEPT ![c] = pc]

-----------------------------------------------------------------------------
(***************************************************************************)
(* A caller: ClientFor, Submit, and the lease until the call is over.      *)
(***************************************************************************)
\* ClientFor: the pool has stopped, or is full and does not know the address.
ClientRefused(c) ==
  /\ caller[c] = "new"
  /\ bStopped \/ bStop \/ client = NoConnection
  /\ Goto(c, "done") /\ slot' = [slot EXCEPT ![c] = "gone"]
  /\ UNCHANGED <<route, target, poolVars, connVars, pLease, sessionVars, poll, bStop>>

\* ClientFor under the pool's lock, up to Ensure.
ClientFor(c) ==
  LET k == IF client = NoConnection THEN created + 1 ELSE client IN
  /\ caller[c] = "new" /\ ~bStopped /\ ~bStop /\ k \in Connections
  /\ client' = k /\ created' = IF client = NoConnection THEN k ELSE created
  /\ bIdle' = FALSE
  /\ pLease' = [pLease EXCEPT ![k] = @ \cup {c}]
  /\ route' = [route EXCEPT ![c] = k] /\ Goto(c, "ensure")
  /\ UNCHANGED <<target, slot, bStopped, connVars, sessionVars, poll, bStop>>

\* Ensure, of ClientFor and of Submit: ask the poll thread for a connect unless one is due.
Ensure(c) ==
  LET k == route[c] IN
  /\ caller[c] \in {"ensure", "ensureheld"}
  /\ bPosted' = [bPosted EXCEPT ![k] =
                  @ \/ ~(bRetired[k] \/ bConnecting[k] \/ iSessionId[k] # INVALID_SID)]
  /\ Goto(c, IF caller[c] = "ensure" THEN "submit" ELSE "wait")
  /\ UNCHANGED <<route, target, slot, poolVars, iSessionId, bConnecting, bRetired, vHeld,
                 attempt, pLease, sessionVars, poll, bStop>>

\* Mutant: the connect that ClientFor has asked for will do.
AfterHold_NoEnsure == "wait"

\* A call that is held makes sure of a connect.
AfterHold == "ensureheld"

\* Submit under the connection's lock.
Submit(c) ==
  LET k == route[c]
      refused == bRetired[k] \/ (iSessionId[k] = INVALID_SID /\ Cardinality(vHeld[k]) >= iHeldCount)
  IN
  /\ caller[c] = "submit"
  /\ IF slot[c] = "gone"
     THEN Goto(c, "wait") /\ UNCHANGED <<target, slot, vHeld>>
     ELSE IF refused
     THEN Goto(c, "wait") /\ slot' = [slot EXCEPT ![c] = "gone"] /\ UNCHANGED <<target, vHeld>>
     ELSE IF iSessionId[k] # INVALID_SID
     THEN /\ Goto(c, "send") /\ slot' = [slot EXCEPT ![c] = "claimed"]
          /\ target' = [target EXCEPT ![c] = iSessionId[k]] /\ UNCHANGED vHeld
     ELSE /\ vHeld' = [vHeld EXCEPT ![k] = @ \cup {c}]
          /\ slot' = [slot EXCEPT ![c] = "held"] /\ Goto(c, AfterHold)
          /\ UNCHANGED target
  /\ UNCHANGED <<route, poolVars, iSessionId, bConnecting, bPosted, bRetired, attempt, pLease,
                 sessionVars, poll, bStop>>

\* SendBytesResult of a claimed call; a session that is closed refuses, and wakes it.
Send(c) ==
  /\ caller[c] = "send" /\ Goto(c, "wait")
  /\ slot' = [slot EXCEPT ![c] =
               IF @ # "gone" /\ \E s \in mSessionMap : s.sid = target[c] THEN "sent" ELSE "gone"]
  /\ UNCHANGED <<route, target, poolVars, connVars, pLease, sessionVars, poll, bStop>>

\* The call expires, is destroyed, or answered.
End(c) ==
  /\ caller[c] # "done" /\ slot[c] # "gone" /\ slot' = [slot EXCEPT ![c] = "gone"]
  /\ UNCHANGED <<caller, route, target, poolVars, connVars, pLease, sessionVars, poll, bStop>>

\* Whoever ends a held call drops it from the connection.
Drop(c) ==
  /\ slot[c] = "gone" /\ route[c] # NoConnection /\ c \in vHeld[route[c]]
  /\ vHeld' = [vHeld EXCEPT ![route[c]] = @ \ {c}]
  /\ UNCHANGED <<callVars, poolVars, iSessionId, bConnecting, bPosted, bRetired, attempt, pLease,
                 sessionVars, poll, bStop>>

\* The caller goes on and lets go of the lease.
Release(c) ==
  /\ caller[c] = "wait" /\ slot[c] = "gone" /\ c \notin vHeld[route[c]] /\ Goto(c, "done")
  /\ pLease' = [pLease EXCEPT ![route[c]] = @ \ {c}]
  /\ UNCHANGED <<route, target, slot, poolVars, connVars, sessionVars, poll, bStop>>

-----------------------------------------------------------------------------
(***************************************************************************)
(* The poll thread: connecting.                                            *)
(***************************************************************************)
\* Finish, with the id of the new session or INVALID_SID: the held calls are sent or woken.
Finish(k, sid) ==
  /\ bConnecting' = [bConnecting EXCEPT ![k] = FALSE]
  /\ iSessionId' = [iSessionId EXCEPT ![k] = sid]
  /\ vHeld' = [vHeld EXCEPT ![k] = {}]
  /\ attempt' = [attempt EXCEPT ![k] = "none"]
  /\ slot' = [c \in Calls |->
               IF c \notin vHeld[k] \/ slot[c] = "gone" THEN slot[c]
               ELSE IF sid = INVALID_SID THEN "gone" ELSE "sent"]

Begin(k) ==
  /\ poll = Idle /\ bPosted[k] /\ bPosted' = [bPosted EXCEPT ![k] = FALSE]
  /\ IF bRetired[k] \/ bConnecting[k] \/ iSessionId[k] # INVALID_SID
     THEN UNCHANGED <<bConnecting, attempt>>
     ELSE /\ bConnecting' = [bConnecting EXCEPT ![k] = TRUE]
          /\ attempt' = [attempt EXCEPT ![k] = "resolve"]
  /\ UNCHANGED <<callVars, poolVars, iSessionId, bRetired, vHeld, pLease, sessionVars, poll,
                 bStop>>

\* OnResolved with an address: Connect, unless the connection was retired meanwhile.
OnResolved(k) ==
  /\ poll = Idle /\ attempt[k] = "resolve"
  /\ IF ~bRetired[k]
     THEN attempt' = [attempt EXCEPT ![k] = "connect"]
          /\ UNCHANGED <<bConnecting, iSessionId, vHeld, slot>>
     ELSE Finish(k, INVALID_SID)
  /\ UNCHANGED <<caller, route, target, poolVars, bPosted, bRetired, pLease, sessionVars, poll,
                 bStop>>

\* The address does not resolve, the socket does not connect.
ConnectFailed(k) ==
  /\ poll = Idle /\ attempt[k] # "none"
  /\ Finish(k, INVALID_SID)
  /\ UNCHANGED <<caller, route, target, poolVars, bPosted, bRetired, pLease, sessionVars, poll,
                 bStop>>

\* Connected: Adopt puts the session into the map; Finish follows.
Adopt(k) ==
  /\ poll = Idle /\ attempt[k] = "connect"
  /\ sids' = sids + 1
  /\ mSessionMap' = mSessionMap \cup {[conn |-> k, sid |-> sids + 1]}
  /\ poll' = At("adopted", k)
  /\ UNCHANGED <<callVars, poolVars, connVars, pLease, closing, bStop>>

Adopted ==
  LET k == poll.conn IN
  /\ poll.step = "adopted" /\ poll' = Idle
  /\ Finish(k, sids)
  /\ UNCHANGED <<caller, route, target, poolVars, bPosted, bRetired, pLease, sessionVars, bStop>>

Disconnected(s) ==
  iSessionId' = [iSessionId EXCEPT ![s.conn] = IF @ = s.sid THEN INVALID_SID ELSE @]

\* The session ends, on any thread that knows it: ActiveClose. Its calls are failed.
CloseSession(s) ==
  /\ s \in mSessionMap /\ iSessionId[s.conn] = s.sid
  /\ mSessionMap' = mSessionMap \ {s} /\ closing' = closing \cup {s}
  /\ Disconnected(s)
  /\ UNCHANGED <<callVars, poolVars, bConnecting, bPosted, bRetired, vHeld, attempt, pLease, sids,
                 poll, bStop>>

\* The poll thread reclaims it: OnClose.
OnClose(s) ==
  /\ poll = Idle /\ s \in closing /\ closing' = closing \ {s}
  /\ Disconnected(s)
  /\ UNCHANGED <<callVars, poolVars, bConnecting, bPosted, bRetired, vHeld, attempt, pLease,
                 mSessionMap, sids, poll, bStop>>

\* An inbound request of the session holds the lease while it runs.
HoldTask(s) ==
  /\ poll = Idle /\ s \in mSessionMap
  /\ pLease' = [pLease EXCEPT ![s.conn] = @ \cup {Task}]
  /\ UNCHANGED <<callVars, poolVars, connVars, sessionVars, poll, bStop>>

TaskEnds(k) ==
  /\ Task \in pLease[k] /\ pLease' = [pLease EXCEPT ![k] = @ \ {Task}]
  /\ UNCHANGED <<callVars, poolVars, connVars, sessionVars, poll, bStop>>

-----------------------------------------------------------------------------
(***************************************************************************)
(* The poll thread: retiring.                                              *)
(***************************************************************************)
\* Mutant: the idle time is all that counts.
HasLease_Ignored == FALSE

HasLease == pLease[client] # {}

\* SweepRoutePool(false): the idle time is over when a second sweep finds no lease either.
Sweep ==
  /\ poll = Idle /\ client # NoConnection /\ ~bStopped
  /\ IF HasLease THEN bIdle' = FALSE /\ UNCHANGED <<client, poll>>
     ELSE IF ~bIdle THEN bIdle' = TRUE /\ UNCHANGED <<client, poll>>
     ELSE client' = NoConnection /\ poll' = At("retire", client) /\ UNCHANGED bIdle
  /\ UNCHANGED <<callVars, bStopped, created, connVars, pLease, sessionVars, bStop>>

\* StopRoutePool.
StopRoutePool ==
  /\ poll = Idle /\ bStop /\ ~bStopped /\ bStopped' = TRUE
  /\ client' = NoConnection
  /\ poll' = IF client = NoConnection THEN Idle ELSE At("retire", client)
  /\ UNCHANGED <<callVars, bIdle, created, connVars, pLease, sessionVars, bStop>>

\* Retire: no call comes in any more.
Retire ==
  /\ poll.step = "retire" /\ poll' = At("retired", poll.conn)
  /\ bRetired' = [bRetired EXCEPT ![poll.conn] = TRUE]
  /\ UNCHANGED <<callVars, poolVars, iSessionId, bConnecting, bPosted, vHeld, attempt, pLease,
                 sessionVars, bStop>>

\* Cancel the connector, close the session, wake the held calls. A resolve goes on.
Retired ==
  LET k == poll.conn IN
  /\ poll.step = "retired" /\ poll' = Idle
  /\ bConnecting' = [bConnecting EXCEPT ![k] = FALSE]
  /\ iSessionId' = [iSessionId EXCEPT ![k] = INVALID_SID]
  /\ attempt' = [attempt EXCEPT ![k] = IF @ = "connect" THEN "none" ELSE @]
  /\ slot' = [c \in Calls |-> IF c \in vHeld[k] THEN "gone" ELSE slot[c]]
  /\ vHeld' = [vHeld EXCEPT ![k] = {}]
  /\ LET open == {s \in mSessionMap : s.conn = k /\ s.sid = iSessionId[k]} IN
     mSessionMap' = mSessionMap \ open /\ closing' = closing \cup open
  /\ UNCHANGED <<caller, route, target, poolVars, bPosted, bRetired, pLease, sids, bStop>>

RequestStop ==
  /\ ~bStop /\ bStop' = TRUE
  /\ UNCHANGED <<callVars, poolVars, connVars, pLease, sessionVars, poll>>

-----------------------------------------------------------------------------
Connecting(k) == Begin(k) \/ OnResolved(k) \/ ConnectFailed(k) \/ Adopt(k)

Next ==
  \/ \E c \in Calls : \/ ClientRefused(c) \/ ClientFor(c) \/ Ensure(c) \/ Submit(c) \/ Send(c)
                      \/ End(c) \/ Drop(c) \/ Release(c)
  \/ \E k \in Connections : Connecting(k) \/ TaskEnds(k)
  \/ \E s \in mSessionMap : CloseSession(s) \/ HoldTask(s)
  \/ \E s \in closing : OnClose(s)
  \/ Adopted \/ Sweep \/ StopRoutePool \/ Retire \/ Retired \/ RequestStop

Spec == Init /\ [][Next]_vars

\* Threads go on, the loop runs what is posted, and a resolve or connect comes to an end.
FairSpec ==
  /\ Spec /\ WF_vars(Adopted) /\ WF_vars(Retire) /\ WF_vars(Retired)
  /\ \A c \in Calls : WF_vars(Ensure(c))
  /\ \A k \in Connections : SF_vars(Connecting(k))

-----------------------------------------------------------------------------
(***************************************************************************)
(* A connection that somebody has a lease of is retired only when the pool *)
(* stops: the sweep looks at the lease and ClientFor takes it under the    *)
(* same lock (oi_rpc_route.cpp:744).                                       *)
(***************************************************************************)
LeasedNotRetired == \A k \in Connections : bRetired[k] /\ pLease[k] # {} => bStopped

(***************************************************************************)
(* A connection knows its session and has at most one: a session that the  *)
(* connection has lost sight of, or that a retired connection still opens, *)
(* would stay connected for ever.                                          *)
(***************************************************************************)
SessionKnown ==
  \A s \in mSessionMap :
    \/ poll = At("adopted", s.conn)
    \/ iSessionId[s.conn] = s.sid /\ (bRetired[s.conn] => poll.conn = s.conn)

\* What the pool owes to its connections, together: a leased one is not retired, and each
\* knows its one session.
RouteSound == LeasedNotRetired /\ SessionKnown

(***************************************************************************)
(* A call that is held for a connect is sent or woken, also when the       *)
(* connect fails, another one ends at that moment or the connection is     *)
(* retired (Submit holds it first and asks for a connect afterwards).      *)
(***************************************************************************)
HeldIsEnded == \A c \in Calls : slot[c] = "held" ~> slot[c] \in {"sent", "gone"}
=============================================================================
