---------------------------- MODULE ConnectWait -----------------------------
(***************************************************************************)
(* co_await StartClient() of a SessionManager: waiters share the connect   *)
(* that is under way, generation after generation, while the registry      *)
(* moves the service, its name is resolved and sockets connect, fail or    *)
(* are too late.                                                           *)
(*                                                                         *)
(* The poll thread runs everything but StartClient itself, the await, and  *)
(* CloseSession.  A literal address resolves inside StartConnect and a     *)
(* connect may end inside it; later steps stand for both.  OnAddSession    *)
(* can re-enter the manager, which is why CompleteConnect is two steps; a  *)
(* connect that succeeds at once inside OnAddSession is left out.          *)
(***************************************************************************)
EXTENDS Integers, Sequences, FiniteSetsExt

CONSTANTS
  Waiters,
  Addresses,           \* where the service can be
  Name,                \* what the configuration gives instead of an address
  None,                \* no address, an awaiter that nobody holds
  MaxChanges           \* bound: services moved or gone (its return is free), cancels, closes

VARIABLES
  thread,              \* where the holder of an awaiter is
  bDone, bResult,      \* ConnectWait
  posted,              \* waiters whose StartConnect is queued
  sIpAddress, sEndpoint, bServiceSeen, bServiceDown,
  iConnectGeneration, bConnectPending, m_vConnectWaiters,
  resolves, connects,  \* what is under way: a resolve, a ConnectChannel
  mSessionMap,         \* a session: the endpoint it was given, and its peer
  vWaiters,            \* CompleteConnect: the waiters to finish after OnAddSession
  poll,                \* "idle", or "added" inside CompleteConnect
  bStop, changes,
  registered,          \* history: the generation a waiter was registered in
  completed            \* history: the generations that got a session

waitVars == <<thread, bDone, bResult>>
serviceVars == <<sIpAddress, sEndpoint, bServiceSeen, bServiceDown>>
connectVars == <<iConnectGeneration, bConnectPending, m_vConnectWaiters>>
flightVars == <<resolves, connects>>
addVars == <<poll, vWaiters>>
boundVars == <<bStop, changes>>
historyVars == <<registered, completed>>
vars == <<waitVars, posted, serviceVars, connectVars, flightVars, mSessionMap, addVars,
          boundVars, historyVars>>

\* The registry may have confirmed the configured host before the first StartClient.
Init ==
  /\ thread = [w \in Waiters |-> "new"]
  /\ bDone = [w \in Waiters |-> FALSE] /\ bResult = [w \in Waiters |-> FALSE]
  /\ posted = {}
  /\ sIpAddress = Name /\ sEndpoint = Name /\ bServiceSeen \in BOOLEAN /\ bServiceDown = FALSE
  /\ iConnectGeneration = 0 /\ bConnectPending = FALSE /\ m_vConnectWaiters = <<>>
  /\ resolves = {} /\ connects = {} /\ mSessionMap = {}
  /\ poll = "idle" /\ vWaiters = <<>>
  /\ bStop = FALSE /\ changes = 0
  /\ registered = [w \in Waiters |-> 0] /\ completed = {}

HasEndpoint(endpoint) == \E s \in mSessionMap : s.endpoint = endpoint

\* Finish, for the waiters of v whose awaiter is still held.
Finish(v, bResultLocal) ==
  LET ends == {w \in v : w # None /\ ~bDone[w] /\ thread[w] # "dropped"} IN
  /\ bDone' = [w \in Waiters |-> bDone[w] \/ w \in ends]
  /\ bResult' = [w \in Waiters |-> IF w \in ends THEN bResultLocal ELSE bResult[w]]
  /\ thread' = [w \in Waiters |->
                 IF w \in ends /\ thread[w] = "suspended" THEN "resumed" ELSE thread[w]]

FinishConnectWaiters(bResultLocal) ==
  Finish(Range(m_vConnectWaiters), bResultLocal) /\ m_vConnectWaiters' = <<>>

-----------------------------------------------------------------------------
(***************************************************************************)
(* The holder of an awaiter.                                               *)
(***************************************************************************)
\* The constructor of ConnectAwaiter: BeginConnect.
StartClient(w) ==
  /\ thread[w] = "new"
  /\ thread' = [thread EXCEPT ![w] = "begun"]
  /\ IF bStop
     THEN bDone' = [bDone EXCEPT ![w] = TRUE] /\ UNCHANGED posted
     ELSE posted' = posted \cup {w} /\ UNCHANGED bDone
  /\ UNCHANGED <<bResult, serviceVars, connectVars, flightVars, mSessionMap, addVars, boundVars,
                 historyVars>>

\* Mutant: bDone is read before the lock of the list.
Suspend_NoRecheck(w) ==
  /\ thread[w] = "begun"
  /\ thread' = [thread EXCEPT ![w] = "suspended"]
  /\ UNCHANGED <<bDone, bResult, posted, serviceVars, connectVars, flightVars, mSessionMap,
                 addVars, boundVars, historyVars>>

\* co_await: go on when it is done already.
Suspend(w) ==
  /\ thread[w] = "begun"
  /\ thread' = [thread EXCEPT ![w] = IF bDone[w] THEN "resumed" ELSE "suspended"]
  /\ UNCHANGED <<bDone, bResult, posted, serviceVars, connectVars, flightVars, mSessionMap,
                 addVars, boundVars, historyVars>>

\* StartClient() without co_await: the awaiter goes, the queued request keeps the state.
Drop(w) ==
  /\ thread[w] = "begun"
  /\ thread' = [thread EXCEPT ![w] = "dropped"]
  /\ UNCHANGED <<bDone, bResult, posted, serviceVars, connectVars, flightVars, mSessionMap,
                 addVars, boundVars, historyVars>>

-----------------------------------------------------------------------------
(***************************************************************************)
(* The poll thread.                                                        *)
(***************************************************************************)
Expired(w) == w = None \/ (thread[w] = "dropped" /\ w \notin posted)

\* The list without the expired waiters at its end.
PopExpired(v) == SubSeq(v, 1, Max({i \in DOMAIN v : ~Expired(v[i])} \cup {0}))

\* The connect of the next generation begins with the resolve.
Begin(v) ==
  /\ bConnectPending' = TRUE
  /\ iConnectGeneration' = iConnectGeneration + 1
  /\ m_vConnectWaiters' = v
  /\ resolves' = resolves \cup {iConnectGeneration + 1}

StartConnect(w) ==
  /\ w \in posted /\ posted' = posted \ {w}
  /\ IF bStop \/ bServiceDown
     THEN Finish({w}, FALSE) /\ UNCHANGED <<connectVars, resolves, registered>>
     ELSE IF ~bConnectPending /\ HasEndpoint(sIpAddress)
     THEN Finish({w}, TRUE) /\ UNCHANGED <<connectVars, resolves, registered>>
     ELSE LET v == Append(PopExpired(m_vConnectWaiters), w) IN
          /\ IF bConnectPending
             THEN /\ m_vConnectWaiters' = v
                  /\ registered' = [registered EXCEPT ![w] = iConnectGeneration]
                  /\ UNCHANGED <<bConnectPending, iConnectGeneration, resolves>>
             ELSE /\ Begin(v)
                  /\ registered' = [registered EXCEPT ![w] = iConnectGeneration + 1]
          /\ UNCHANGED waitVars
  /\ UNCHANGED <<serviceVars, connects, mSessionMap, addVars, boundVars, completed>>

Current(g) == g = iConnectGeneration /\ bConnectPending

\* AbortSession, which an old generation does not get through.
AbortSession(g) ==
  IF Current(g)
  THEN bConnectPending' = FALSE /\ FinishConnectWaiters(FALSE)
  ELSE UNCHANGED <<bConnectPending, m_vConnectWaiters, waitVars>>

\* ConnectResolver::OnResolved; a is the address, None when there is none.
OnResolved(g, a) ==
  /\ g \in resolves /\ resolves' = resolves \ {g}
  /\ sIpAddress # Name => a \in {sIpAddress, None}
  /\ IF ~Current(g)
     THEN UNCHANGED <<waitVars, serviceVars, connectVars, connects, completed>>
     ELSE IF bServiceDown \/ a = None
     THEN AbortSession(g) /\ UNCHANGED <<serviceVars, iConnectGeneration, connects, completed>>
     ELSE /\ sIpAddress' = a /\ sEndpoint' = a
          /\ IF HasEndpoint(a)
             THEN /\ bConnectPending' = FALSE /\ FinishConnectWaiters(TRUE)
                  /\ completed' = completed \cup {g}
                  /\ UNCHANGED connects
             ELSE /\ connects' = connects \cup {[gen |-> g, peer |-> a]}
                  /\ UNCHANGED <<bConnectPending, m_vConnectWaiters, waitVars, completed>>
          /\ UNCHANGED <<bServiceSeen, bServiceDown, iConnectGeneration>>
  /\ UNCHANGED <<posted, mSessionMap, addVars, boundVars, registered>>

\* The socket is not connected after all, or its descriptor cannot be duplicated.
ConnectFailed(c) ==
  /\ c \in connects /\ connects' = connects \ {c}
  /\ AbortSession(c.gen)
  /\ UNCHANGED <<posted, serviceVars, iConnectGeneration, resolves, mSessionMap, addVars,
                 boundVars, historyVars>>

\* Mutant: any pending connect will do.
Accepts_AnyGeneration(c) == bConnectPending /\ ~bServiceDown

\* Whether CompleteConnect keeps the socket.
Accepts(c) == Current(c.gen) /\ ~bServiceDown

TakeWaiters == vWaiters' = m_vConnectWaiters /\ m_vConnectWaiters' = <<>>

\* CompleteConnect up to AddSession.
CompleteConnect(c) ==
  /\ poll = "idle" /\ c \in connects /\ connects' = connects \ {c}
  /\ IF Accepts(c)
     THEN /\ TakeWaiters /\ bConnectPending' = FALSE
          /\ mSessionMap' = mSessionMap \cup {[endpoint |-> sIpAddress, peer |-> c.peer]}
          /\ completed' = completed \cup {c.gen}
          /\ poll' = "added"
     ELSE UNCHANGED <<m_vConnectWaiters, bConnectPending, mSessionMap, completed, addVars>>
  /\ UNCHANGED <<waitVars, posted, serviceVars, iConnectGeneration, resolves, boundVars,
                 registered>>

\* CompleteConnect after OnAddSession.
Completed ==
  /\ poll = "added" /\ poll' = "idle" /\ vWaiters' = <<>>
  /\ Finish(Range(vWaiters), TRUE)
  /\ UNCHANGED <<posted, serviceVars, connectVars, flightVars, mSessionMap, boundVars, historyVars>>

Change == changes < MaxChanges /\ changes' = changes + 1

CancelConnect ==
  /\ Change /\ bConnectPending
  /\ iConnectGeneration' = iConnectGeneration + 1 /\ bConnectPending' = FALSE
  /\ FinishConnectWaiters(FALSE)
  /\ UNCHANGED <<posted, serviceVars, flightVars, mSessionMap, addVars, bStop, historyVars>>

CloseSession(s) ==
  /\ Change /\ s \in mSessionMap /\ mSessionMap' = mSessionMap \ {s}
  /\ UNCHANGED <<waitVars, posted, serviceVars, connectVars, flightVars, addVars, bStop,
                 historyVars>>

CloseEndpoint(endpoint) == mSessionMap' = {s \in mSessionMap : s.endpoint # endpoint}

\* ApplyService: the name is no longer in the list.
ServiceDown ==
  /\ poll = "idle" /\ Change /\ bServiceSeen /\ ~bServiceDown
  /\ FinishConnectWaiters(FALSE)
  /\ iConnectGeneration' = iConnectGeneration + 1 /\ bConnectPending' = FALSE
  /\ bServiceDown' = TRUE /\ sEndpoint' = None
  /\ CloseEndpoint(sEndpoint)
  /\ UNCHANGED <<posted, sIpAddress, bServiceSeen, flightVars, addVars, bStop, historyVars>>

\* ApplyService: the service is at a.  The awaiter of its StartClient() is gone at once.
ServiceAt(a) ==
  /\ poll = "idle" /\ bServiceSeen' = TRUE
  /\ IF bServiceDown THEN UNCHANGED changes ELSE Change
  /\ IF ~bServiceDown /\ sEndpoint = a
     THEN UNCHANGED <<waitVars, sIpAddress, sEndpoint, bServiceDown, connectVars, resolves,
                      mSessionMap>>
     ELSE /\ Finish(Range(m_vConnectWaiters), FALSE)
          /\ bServiceDown' = FALSE /\ sEndpoint' = a /\ sIpAddress' = a
          /\ IF sEndpoint \notin {None, a} THEN CloseEndpoint(sEndpoint) ELSE UNCHANGED mSessionMap
          /\ IF HasEndpoint(a) \/ bStop
             THEN /\ iConnectGeneration' = iConnectGeneration + 1 /\ bConnectPending' = FALSE
                  /\ m_vConnectWaiters' = <<>> /\ UNCHANGED resolves
             ELSE /\ iConnectGeneration' = iConnectGeneration + 2 /\ bConnectPending' = TRUE
                  /\ m_vConnectWaiters' = <<None>>
                  /\ resolves' = resolves \cup {iConnectGeneration + 2}
  /\ UNCHANGED <<posted, connects, addVars, bStop, historyVars>>

RequestStop ==
  /\ ~bStop /\ bStop' = TRUE
  /\ UNCHANGED <<waitVars, posted, serviceVars, connectVars, flightVars, mSessionMap, addVars,
                 changes, historyVars>>

-----------------------------------------------------------------------------
Resolved == \E g \in resolves, a \in Addresses \cup {None} : OnResolved(g, a)
Connected == \E c \in connects : CompleteConnect(c) \/ ConnectFailed(c)

Next ==
  \/ \E w \in Waiters : StartClient(w) \/ Suspend(w) \/ Drop(w) \/ StartConnect(w)
  \/ Resolved \/ Connected \/ Completed
  \/ CancelConnect \/ ServiceDown \/ RequestStop
  \/ \E s \in mSessionMap : CloseSession(s)
  \/ \E a \in Addresses : ServiceAt(a)

Spec == Init /\ [][Next]_vars

\* The loop runs what is posted; a resolve and a connect come to an end.
FairSpec ==
  /\ Spec /\ WF_vars(Resolved) /\ WF_vars(Connected) /\ WF_vars(Completed)
  /\ \A w \in Waiters : WF_vars(StartConnect(w)) /\ WF_vars(Suspend(w) \/ Drop(w))

-----------------------------------------------------------------------------
(***************************************************************************)
(* The list holds the waiters of the connect under way and no others, and  *)
(* a waiter hears true only if the generation it was registered in got a   *)
(* session: OnAddSession can start the next generation before the waiters  *)
(* of this one are finished (oi_session_manager.cpp:513).                  *)
(***************************************************************************)
WaiterGeneration ==
  /\ \A w \in Range(m_vConnectWaiters) \ {None} :
       bConnectPending /\ registered[w] = iConnectGeneration
  /\ \A w \in Waiters : bResult[w] /\ registered[w] # 0 => registered[w] \in completed

(***************************************************************************)
(* A session in the map is connected to the endpoint it is filed under,    *)
(* whatever the registry said while its connect was under way: otherwise   *)
(* HasEndpoint and CloseEndpoint would speak of another service.           *)
(***************************************************************************)
SessionAddress == \A s \in mSessionMap : s.endpoint = s.peer

\* What CompleteConnect owes at once: the waiters of its own generation and no others, and a
\* session filed under its peer (oi_session_manager.cpp:506).
WaitSound == WaiterGeneration /\ SessionAddress

(***************************************************************************)
(* Whoever awaits StartClient() goes on, however often the service moves,  *)
(* the connect is cancelled, or its generation is overtaken.               *)
(***************************************************************************)
WaiterResumed == \A w \in Waiters : thread[w] = "suspended" ~> thread[w] = "resumed"
=============================================================================
