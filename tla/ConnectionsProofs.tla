-------------------------- MODULE ConnectionsProofs -------------------------
(***************************************************************************)
(* What is proved about connects: the pooled connections of named calls    *)
(* (module RouteConnection) and the waiters of StartClient (module         *)
(* ConnectWait, the instance W of MCConnections).                          *)
(***************************************************************************)
EXTENDS MCConnections, Sequences, WellFoundedInduction, TLAPS

-----------------------------------------------------------------------------
(***************************************************************************)
(* RouteConnection.  A connection that the pool gives out is not retired;  *)
(* one that is being retired has no lease unless the pool stops, and no    *)
(* session is left when its retirement is over.                            *)
(***************************************************************************)
Underway == {"ensure", "submit", "ensureheld", "send", "wait"}
Attempts == {"none", "resolve", "connect"}
Session == [conn : Connections, sid : Nat]

RouteType ==
  /\ caller \in [Calls -> Underway \cup {"new", "done"}]
  /\ route \in [Calls -> 0..MaxConnections]
  /\ client \in 0..MaxConnections /\ created \in 0..MaxConnections
  /\ bStopped \in BOOLEAN
  /\ iSessionId \in [Connections -> Nat] /\ bConnecting \in [Connections -> BOOLEAN]
  /\ bRetired \in [Connections -> BOOLEAN] /\ bPosted \in [Connections -> BOOLEAN]
  /\ attempt \in [Connections -> Attempts]
  /\ pLease \in [Connections -> SUBSET (Calls \cup {Task})]
  /\ mSessionMap \subseteq Session /\ closing \subseteq Session /\ sids \in Nat
  /\ \/ poll = Idle
     \/ poll.step \in {"adopted", "retire", "retired"} /\ poll.conn \in Connections
        /\ poll = At(poll.step, poll.conn)

\* The connection of the pool is the last that was created, it is not retired and not being
\* retired; connections to come are as they were at first.
PoolInv ==
  /\ client # NoConnection =>
       /\ client <= created /\ ~bRetired[client]
       /\ poll.step \in {"retire", "retired"} => poll.conn # client
  /\ poll.conn <= created
  /\ \A k \in Connections : k > created =>
       /\ ~bRetired[k] /\ ~bPosted[k] /\ attempt[k] = "none" /\ pLease[k] = {}
       /\ \A s \in mSessionMap : s.conn # k
  /\ \A k \in Connections : bRetired[k] /\ pLease[k] # {} => bStopped
  /\ poll.step \in {"retire", "retired"} => pLease[poll.conn] = {} \/ bStopped
  /\ poll.step = "retired" => bRetired[poll.conn]

\* Ids are given once.
SidInv ==
  /\ \A s \in mSessionMap \cup closing : s.sid \in 1..sids
  /\ \A s, r \in mSessionMap \cup closing : s.sid = r.sid => s = r
  /\ mSessionMap \cap closing = {}

\* While a connect is under way the connection has no session, until one is adopted.
AttemptInv ==
  /\ poll.step = "adopted" =>
       /\ attempt[poll.conn] = "connect" /\ ~bRetired[poll.conn]
       /\ \A s \in mSessionMap : s.conn = poll.conn => s.sid = sids
  /\ \A k \in Connections :
       /\ attempt[k] = "connect" /\ bRetired[k] => poll = At("retired", k)
       /\ attempt[k] # "none" => iSessionId[k] = INVALID_SID
       /\ attempt[k] # "none" /\ poll # At("adopted", k) => \A s \in mSessionMap : s.conn # k

\* Whoever has a call under way has a lease of its connection.
LeaseInv ==
  \A c \in Calls : caller[c] \in Underway => route[c] # NoConnection /\ c \in pLease[route[c]]

RouteInv == RouteType /\ PoolInv /\ SidInv /\ AttemptInv /\ SessionKnown /\ LeaseInv

\* The connection of a call that is under way, of ClientFor to Release, is not retired while
\* the pool runs (oi_rpc_route.cpp:646).
CallKeepsConnection ==
  \A c \in Calls : caller[c] \in Underway /\ bRetired[route[c]] => bStopped

\* What each conjunct is about: a step that leaves these variables alone keeps it.
LEMMA RouteKept ==
  /\ PoolInv /\ UNCHANGED <<client, created, bStopped, bRetired, bPosted, attempt, pLease,
                            mSessionMap, poll>> => PoolInv'
  /\ SidInv /\ UNCHANGED <<mSessionMap, closing, sids>> => SidInv'
  /\ AttemptInv /\ UNCHANGED <<attempt, bRetired, iSessionId, mSessionMap, sids, poll>>
       => AttemptInv'
  /\ SessionKnown /\ UNCHANGED <<iSessionId, bRetired, mSessionMap, poll>> => SessionKnown'
  /\ LeaseInv /\ UNCHANGED <<caller, route, pLease>> => LeaseInv'
BY DEF PoolInv, SidInv, AttemptInv, SessionKnown, LeaseInv

\* The steps of a caller that take no lease and let none go.
LEMMA CallerStep ==
  ASSUME RouteInv, NEW c \in Calls,
         \/ ClientRefused(c) \/ Ensure(c) \/ Submit(c) \/ Send(c) \/ End(c) \/ Drop(c)
  PROVE  RouteInv'
<1> USE RouteAssumption
<1>1. UNCHANGED <<route, client, created, bStopped, iSessionId, bConnecting, bRetired, attempt,
                  pLease, mSessionMap, closing, sids, poll>>
  BY DEF ClientRefused, Ensure, Submit, Send, End, Drop, callVars, poolVars, connVars, sessionVars
<1>2. /\ caller' \in [Calls -> Underway \cup {"new", "done"}]
      /\ \A d \in Calls : caller'[d] \in Underway => caller[d] \in Underway
  BY DEF RouteInv, RouteType, Underway, Goto, AfterHold, ClientRefused, Ensure, Submit, Send, End,
         Drop, callVars
<1>3. /\ bPosted' \in [Connections -> BOOLEAN]
      /\ \A k \in Connections : bPosted'[k] => bPosted[k] \/ k <= created
  <2>1. CASE Ensure(c)
    <3>1. caller[c] \in Underway
      BY <2>1 DEF Ensure, Underway
    <3>2. route[c] \in Connections /\ route[c] <= created
      BY <3>1 DEF RouteInv, RouteType, PoolInv, LeaseInv, NoConnection, Connections
    <3> QED
      BY <2>1, <3>2 DEF Ensure, RouteInv, RouteType
  <2> QED
    BY <2>1 DEF RouteInv, RouteType, ClientRefused, Submit, Send, End, Drop, connVars
<1>4. RouteType'
  BY <1>1, <1>2, <1>3 DEF RouteInv, RouteType
<1>5. PoolInv'
  BY <1>1, <1>3 DEF RouteInv, RouteType, PoolInv, Connections
<1>6. LeaseInv'
  BY <1>1, <1>2 DEF RouteInv, LeaseInv
<1> QED
  BY <1>1, <1>4, <1>5, <1>6, RouteKept DEF RouteInv

\* The steps that take a lease or let one go.  ClientFor takes one of the connection that the
\* pool gives out or of a new one; a task takes one of a connection with a session.
LEMMA LeaseStep ==
  ASSUME RouteInv,
         \/ \E c \in Calls : ClientFor(c) \/ Release(c)
         \/ \E s \in mSessionMap : HoldTask(s)
         \/ \E k \in Connections : TaskEnds(k)
  PROVE  RouteInv'
<1> USE RouteAssumption
<1>0. UNCHANGED <<bStopped, iSessionId, bConnecting, bPosted, bRetired, attempt,
                  mSessionMap, closing, sids, poll>>
  BY DEF ClientFor, Release, HoldTask, TaskEnds, connVars, poolVars, sessionVars
<1>1. CASE \E c \in Calls : ClientFor(c)
  <2> PICK c \in Calls : ClientFor(c)
    BY <1>1
  <2> DEFINE k == IF client = NoConnection THEN created + 1 ELSE client
  <2>1. /\ k \in Connections /\ client' = k /\ route' = [route EXCEPT ![c] = k]
        /\ created' = IF client = NoConnection THEN k ELSE created
        /\ pLease' = [pLease EXCEPT ![k] = @ \cup {c}]
        /\ caller' = [caller EXCEPT ![c] = "ensure"] /\ caller[c] = "new" /\ ~bStopped
    BY DEF ClientFor, Goto
  <2>2. ~bRetired[k] /\ k <= created' /\ created <= created'
        /\ (poll.step \in {"retire", "retired"} => poll.conn # k)
    BY <2>1 DEF RouteInv, RouteType, PoolInv, Connections, NoConnection
  <2> HIDE DEF k
  <2>3. RouteType'
    BY <1>0, <2>1, <2>2 DEF RouteInv, RouteType, Underway, Connections
  <2>4. PoolInv'
    <3>1. client' <= created' /\ ~bRetired'[client']
          /\ (poll'.step \in {"retire", "retired"} => poll'.conn # client')
      BY <1>0, <2>1, <2>2
    <3>2. poll'.conn <= created'
      BY <1>0, <2>1, <2>2 DEF RouteInv, RouteType, PoolInv, Idle, NoConnection, Connections
    <3>3. \A j \in Connections : j # k => pLease'[j] = pLease[j]
      BY <2>1 DEF RouteInv, RouteType
    <3>4. \A j \in Connections : j > created' => j > created /\ j # k
      BY <2>1, <2>2 DEF RouteInv, RouteType, Connections
    <3>5. poll.step \in {"retire", "retired"} => poll.conn \in Connections /\ poll.conn # k
      BY <2>2 DEF RouteInv, RouteType, Idle
    <3> QED
      BY <1>0, <2>2, <3>1, <3>2, <3>3, <3>4, <3>5 DEF RouteInv, PoolInv
  <2>5. LeaseInv'
    BY <2>1 DEF RouteInv, RouteType, LeaseInv, Connections, NoConnection
  <2> QED
    BY <1>0, <2>3, <2>4, <2>5, RouteKept DEF RouteInv
<1>2. CASE \E c \in Calls : Release(c)
  <2> PICK c \in Calls : Release(c)
    BY <1>2
  <2>1. /\ pLease' = [pLease EXCEPT ![route[c]] = @ \ {c}]
        /\ caller' = [caller EXCEPT ![c] = "done"] /\ UNCHANGED <<route, client, created>>
    BY DEF Release, Goto, poolVars
  <2>2. /\ pLease' \in [Connections -> SUBSET (Calls \cup {Task})]
        /\ \A k \in Connections : pLease'[k] \subseteq pLease[k]
    BY Zenon, <2>1 DEF RouteInv, RouteType
  <2>3. RouteType'
    BY <1>0, <2>1, <2>2 DEF RouteInv, RouteType, Underway
  <2>4. PoolInv'
    BY <1>0, <2>1, <2>2 DEF RouteInv, RouteType, PoolInv, Idle
  <2>5. LeaseInv'
    <3>1. \A d \in Calls : caller'[d] \in Underway => d # c /\ caller[d] \in Underway
      BY <2>1 DEF RouteInv, RouteType, Underway
    <3>2. \A d \in Calls, k \in Connections : d # c /\ d \in pLease[k] => d \in pLease'[k]
      BY <2>1 DEF RouteInv, RouteType
    <3> QED
      BY <2>1, <3>1, <3>2 DEF RouteInv, RouteType, LeaseInv, Connections, NoConnection
  <2> QED
    BY <1>0, <2>3, <2>4, <2>5, RouteKept DEF RouteInv
<1>3. CASE \E s \in mSessionMap : HoldTask(s)
  <2> PICK s \in mSessionMap : HoldTask(s)
    BY <1>3
  <2>1. /\ poll = Idle /\ pLease' = [pLease EXCEPT ![s.conn] = @ \cup {Task}]
        /\ UNCHANGED <<caller, route, client, created>>
    BY DEF HoldTask, callVars, poolVars
  <2>2. s.conn \in Connections /\ s.conn <= created /\ ~bRetired[s.conn]
    <3>1. s.conn \in Connections
      BY DEF RouteInv, RouteType, Session
    <3>2. poll.conn = 0 /\ poll.step = "idle"
      BY <2>1 DEF Idle, NoConnection
    <3>3. poll # At("adopted", s.conn)
      BY <3>2 DEF At
    <3>4. bRetired[s.conn] => poll.conn = s.conn
      BY <3>3 DEF RouteInv, SessionKnown
    <3>5. ~(s.conn > created)
      BY <3>1 DEF RouteInv, PoolInv
    <3> QED
      BY <3>1, <3>2, <3>4, <3>5, RouteAssumption DEF Connections, RouteInv, RouteType
  <2>3. RouteType'
    BY <1>0, <2>1, <2>2 DEF RouteInv, RouteType
  <2>4. PoolInv'
    BY Zenon, <1>0, <2>1, <2>2 DEF RouteInv, RouteType, PoolInv, Idle, Connections
  <2>5. LeaseInv'
    BY <2>1, <2>2 DEF RouteInv, RouteType, LeaseInv, Connections, NoConnection
  <2> QED
    BY <1>0, <2>3, <2>4, <2>5, RouteKept DEF RouteInv
<1>4. CASE \E k \in Connections : TaskEnds(k)
  <2> PICK k \in Connections : TaskEnds(k)
    BY <1>4
  <2>1. /\ pLease' = [pLease EXCEPT ![k] = @ \ {Task}]
        /\ UNCHANGED <<caller, route, client, created>>
    BY DEF TaskEnds, callVars, poolVars
  <2>2. /\ pLease' \in [Connections -> SUBSET (Calls \cup {Task})]
        /\ \A j \in Connections : pLease'[j] \subseteq pLease[j]
        /\ \A c \in Calls, j \in Connections : c \in pLease[j] => c \in pLease'[j]
    BY <2>1 DEF RouteInv, RouteType, Task
  <2>3. RouteType'
    BY <1>0, <2>1, <2>2 DEF RouteInv, RouteType
  <2>4. PoolInv'
    BY <1>0, <2>1, <2>2 DEF RouteInv, RouteType, PoolInv, Idle
  <2>5. LeaseInv'
    BY <2>1, <2>2 DEF RouteInv, RouteType, LeaseInv, Connections, NoConnection
  <2> QED
    BY <1>0, <2>3, <2>4, <2>5, RouteKept DEF RouteInv
<1> QED
  BY <1>1, <1>2, <1>3, <1>4

\* The poll thread between two tasks.
LEMMA AtIdle ==
  ASSUME poll = Idle
  PROVE  /\ poll.step = "idle" /\ poll.conn = 0
         /\ \A step \in {"adopted", "retire", "retired"}, k \in Connections : poll # At(step, k)
BY DEF Idle, At, NoConnection

\* Where the poll thread is when it is inside a step of two parts.
LEMMA AtStep ==
  ASSUME NEW step, NEW k
  PROVE  At(step, k).step = step /\ At(step, k).conn = k
         /\ \A st, j : At(step, k) = At(st, j) <=> step = st /\ k = j
BY DEF At

\* A connect begins, goes on, or fails.
LEMMA ConnectStep ==
  ASSUME RouteInv, NEW k \in Connections, Begin(k) \/ OnResolved(k) \/ ConnectFailed(k)
  PROVE  RouteInv'
<1> USE RouteAssumption
<1>1. /\ UNCHANGED <<caller, route, client, created, bStopped, bRetired, pLease, mSessionMap,
                     closing, sids, poll>>
      /\ poll = Idle
  BY DEF Begin, OnResolved, ConnectFailed, callVars, poolVars, sessionVars
<1>2. /\ bPosted' \in [Connections -> BOOLEAN]
      /\ \A j \in Connections : bPosted'[j] => bPosted[j]
  BY Zenon DEF Begin, OnResolved, ConnectFailed, RouteInv, RouteType
<1>3. /\ iSessionId' \in [Connections -> Nat]
      /\ \A j \in Connections : j # k => iSessionId'[j] = iSessionId[j]
      /\ iSessionId'[k] = iSessionId[k] \/ (iSessionId'[k] = INVALID_SID /\ attempt[k] # "none")
  BY DEF Begin, OnResolved, ConnectFailed, Finish, RouteInv, RouteType, INVALID_SID
<1>4. /\ attempt' \in [Connections -> Attempts]
      /\ \A j \in Connections : j # k => attempt'[j] = attempt[j]
      /\ \/ attempt'[k] = "none" \/ attempt'[k] = attempt[k]
         \/ attempt[k] = "resolve" /\ attempt'[k] = "connect" /\ ~bRetired[k]
         \/ attempt'[k] = "resolve" /\ bPosted[k] /\ iSessionId[k] = INVALID_SID
  BY DEF Begin, OnResolved, ConnectFailed, Finish, RouteInv, RouteType, Attempts
<1>5. bConnecting' \in [Connections -> BOOLEAN]
  BY Zenon DEF Begin, OnResolved, ConnectFailed, Finish, RouteInv, RouteType
<1>6. \A s \in mSessionMap : /\ s.conn \in Connections /\ iSessionId[s.conn] = s.sid /\ s.sid # 0
                             /\ ~bRetired[s.conn]
  <2> TAKE s \in mSessionMap
  <2>1. s.conn \in Connections /\ s.sid # 0
    BY DEF RouteInv, RouteType, SidInv, Session
  <2>2. poll # At("adopted", s.conn) /\ poll.conn # s.conn
    BY <1>1, <2>1, AtIdle DEF Connections
  <2> QED
    BY <2>1, <2>2 DEF RouteInv, SessionKnown
<1>7. attempt'[k] # "none" => \A s \in mSessionMap : s.conn # k
  <2>1. attempt[k] # "none" => \A s \in mSessionMap : s.conn # k
    BY <1>1, AtIdle DEF RouteInv, AttemptInv
  <2>2. iSessionId[k] = INVALID_SID => \A s \in mSessionMap : s.conn # k
    BY <1>6 DEF INVALID_SID
  <2> QED
    BY <1>4, <2>1, <2>2
<1>8. RouteType'
  BY <1>1, <1>2, <1>3, <1>4, <1>5 DEF RouteInv, RouteType
<1>9. PoolInv'
  BY Zenon, <1>1, <1>2, <1>4 DEF RouteInv, PoolInv
<1>10. AttemptInv'
  <2>1. poll'.step # "adopted"
    BY <1>1, AtIdle
  <2>2. \A j \in Connections : attempt'[j] = "connect" => ~bRetired[j]
    BY <1>1, <1>4, AtIdle DEF RouteInv, AttemptInv
  <2>3. \A j \in Connections : attempt'[j] # "none" =>
          iSessionId'[j] = INVALID_SID /\ \A s \in mSessionMap : s.conn # j
    <3>1. \A j \in Connections : attempt[j] # "none" =>
            iSessionId[j] = INVALID_SID /\ \A s \in mSessionMap : s.conn # j
      BY <1>1, AtIdle DEF RouteInv, AttemptInv
    <3>2. attempt'[k] # "none" => iSessionId'[k] = INVALID_SID
      BY <1>3, <1>4, <3>1
    <3> QED
      BY <1>3, <1>4, <1>7, <3>1, <3>2
  <2> QED
    BY Zenon, <1>1, <2>1, <2>2, <2>3 DEF AttemptInv
<1>11. SessionKnown'
  <2>1. \A s \in mSessionMap : iSessionId'[s.conn] = s.sid
    <3> TAKE s \in mSessionMap
    <3>1. s.conn = k => attempt[k] = "none"
      BY <1>1, AtIdle DEF RouteInv, AttemptInv
    <3> QED
      BY <1>3, <1>6, <3>1
  <2> QED
    BY <1>1, <1>6, <2>1 DEF SessionKnown
<1> QED
  BY <1>1, <1>8, <1>9, <1>10, <1>11, RouteKept DEF RouteInv

\* A session and its connection outside Adopt and Adopted.
LEMMA KnownSession ==
  ASSUME RouteInv, poll.step # "adopted", NEW s \in mSessionMap
  PROVE  /\ s.conn \in Connections /\ iSessionId[s.conn] = s.sid /\ s.sid # 0
         /\ attempt[s.conn] = "none" /\ (bRetired[s.conn] => poll.conn = s.conn)
<1>1. s.conn \in Connections /\ s.sid # 0
  BY DEF RouteInv, RouteType, SidInv, Session
<1>2. poll # At("adopted", s.conn)
  BY AtStep
<1> QED
  BY <1>1, <1>2 DEF RouteInv, SessionKnown, AttemptInv

\* The connect of k succeeds: its session is in the map before the connection knows it.
LEMMA AdoptStep ==
  ASSUME RouteInv, NEW k \in Connections, Adopt(k)
  PROVE  RouteInv'
<1> USE RouteAssumption
<1> DEFINE new == [conn |-> k, sid |-> sids + 1]
<1>1. /\ UNCHANGED <<caller, route, client, created, bStopped, iSessionId, bConnecting, bPosted,
                     bRetired, attempt, pLease, closing>>
      /\ poll = Idle /\ attempt[k] = "connect" /\ poll' = At("adopted", k)
      /\ sids' = sids + 1 /\ mSessionMap' = mSessionMap \cup {new}
  BY DEF Adopt, callVars, poolVars, connVars
<1>2. new \in Session /\ new.conn = k /\ new.sid = sids + 1 /\ sids \in Nat
  BY DEF Session, RouteInv, RouteType
<1> HIDE DEF new
<1>3. poll'.step = "adopted" /\ poll'.conn = k
  BY <1>1, AtStep
<1>4. ~bRetired[k] /\ \A s \in mSessionMap : s.conn # k
  BY <1>1, AtIdle DEF RouteInv, AttemptInv
<1>5. k <= created
  BY <1>1 DEF RouteInv, RouteType, PoolInv, Connections
<1>6. RouteType'
  BY <1>1, <1>2, <1>3 DEF RouteInv, RouteType
<1>7. PoolInv'
  BY SMTT(30), <1>1, <1>2, <1>3, <1>4, <1>5 DEF RouteInv, RouteType, PoolInv, Connections
<1>8. SidInv'
  <2>1. \A s \in mSessionMap \cup closing : s.sid \in 1..sids /\ s.sid # new.sid
    BY <1>2 DEF RouteInv, SidInv
  <2>2. /\ \A s, r \in mSessionMap \cup closing : s.sid = r.sid => s = r
        /\ mSessionMap \cap closing = {}
    BY Zenon DEF RouteInv, SidInv
  <2>3. /\ mSessionMap' \cup closing' = (mSessionMap \cup closing) \cup {new}
        /\ mSessionMap' \cap closing' = {}
    BY <1>1, <2>1, <2>2
  <2>4. new.sid \in 1..sids' /\ \A s \in mSessionMap \cup closing : s.sid \in 1..sids'
    BY <1>1, <1>2, <2>1
  <2>5. \A s, r \in (mSessionMap \cup closing) \cup {new} : s.sid = r.sid => s = r
    BY Zenon, <2>1, <2>2
  <2> QED
    BY Zenon, <2>3, <2>4, <2>5 DEF SidInv
<1>9. AttemptInv'
  <2>1. \A j \in Connections : poll # At("retired", j) /\ poll # At("adopted", j)
    BY <1>1, AtIdle
  <2>2. \A j \in Connections : j # k => poll' # At("adopted", j)
    BY <1>1, AtStep
  <2> QED
    BY <1>1, <1>2, <1>3, <1>4, <2>1, <2>2 DEF RouteInv, AttemptInv
<1>10. SessionKnown'
  <2>1. \A s \in mSessionMap : iSessionId[s.conn] = s.sid /\ ~bRetired[s.conn]
    <3>1. poll.step # "adopted" /\ poll.conn \notin Connections
      BY <1>1, AtIdle DEF Connections
    <3> QED
      BY <3>1, KnownSession
  <2> QED
    BY <1>1, <1>2, <2>1 DEF SessionKnown
<1> QED
  BY <1>1, <1>6, <1>7, <1>8, <1>9, <1>10, RouteKept DEF RouteInv

\* The connection learns of the session.
LEMMA AdoptedStep ==
  ASSUME RouteInv, Adopted
  PROVE  RouteInv'
<1> USE RouteAssumption
<1> DEFINE k == poll.conn
<1>1. /\ UNCHANGED <<caller, route, client, created, bStopped, bPosted, bRetired, pLease,
                     mSessionMap, closing, sids>>
      /\ poll.step = "adopted" /\ poll' = Idle
      /\ bConnecting' = [bConnecting EXCEPT ![k] = FALSE]
      /\ iSessionId' = [iSessionId EXCEPT ![k] = sids]
      /\ attempt' = [attempt EXCEPT ![k] = "none"]
  BY DEF Adopted, Finish, poolVars, sessionVars
<1>2. k \in Connections /\ poll = At("adopted", k)
  BY <1>1 DEF RouteInv, RouteType, Idle
<1>3. poll'.step = "idle" /\ poll'.conn = 0
  BY <1>1 DEF Idle, NoConnection
<1>4. ~bRetired[k] /\ \A s \in mSessionMap : s.conn = k => s.sid = sids
  BY <1>1 DEF RouteInv, AttemptInv
<1>5. \A j \in Connections : j # k => poll # At("adopted", j) /\ poll # At("retired", j)
  BY <1>2, AtStep
<1>6. \A s \in mSessionMap : s.conn \in Connections
  BY DEF RouteInv, RouteType, Session
<1> HIDE DEF k
<1>7. RouteType'
  BY <1>1, <1>2 DEF RouteInv, RouteType, Attempts
<1>8. PoolInv'
  BY <1>1, <1>2, <1>3 DEF RouteInv, RouteType, PoolInv
<1>9. AttemptInv'
  BY SMTT(30), <1>1, <1>2, <1>3, <1>4, <1>5, AtStep DEF RouteInv, RouteType, AttemptInv
<1>10. SessionKnown'
  <2> SUFFICES ASSUME NEW s \in mSessionMap
               PROVE  iSessionId'[s.conn] = s.sid /\ ~bRetired[s.conn]
    BY <1>1 DEF SessionKnown
  <2>1. CASE s.conn = k
    BY <2>1, <1>1, <1>2, <1>4 DEF RouteInv, RouteType
  <2>2. CASE s.conn # k
    <3>1. poll # At("adopted", s.conn) /\ poll.conn # s.conn
      BY <2>2, <1>5, <1>6 DEF k
    <3> QED
      BY <3>1, <2>2, <1>1, <1>6 DEF RouteInv, RouteType, SessionKnown
  <2> QED
    BY <2>1, <2>2
<1> QED
  BY <1>1, <1>7, <1>8, <1>9, <1>10, RouteKept DEF RouteInv

\* A session leaves the map, or its end is reclaimed: its id is nobody else's.
LEMMA CloseStep ==
  ASSUME RouteInv,
         \/ \E s \in mSessionMap : CloseSession(s)
         \/ \E s \in closing : OnClose(s)
  PROVE  RouteInv'
<1> USE RouteAssumption
<1>1. PICK s \in mSessionMap \cup closing :
        /\ UNCHANGED <<caller, route, client, created, bStopped, bConnecting, bPosted, bRetired,
                       attempt, pLease, sids, poll>>
        /\ Disconnected(s)
        /\ \/ s \in mSessionMap /\ mSessionMap' = mSessionMap \ {s} /\ closing' = closing \cup {s}
           \/ s \in closing /\ mSessionMap' = mSessionMap /\ closing' = closing \ {s}
  BY Zenon DEF CloseSession, OnClose, callVars, poolVars
<1>2. /\ iSessionId' \in [Connections -> Nat]
      /\ \A k \in Connections : iSessionId'[k] = iSessionId[k]
                                \/ (iSessionId'[k] = INVALID_SID /\ iSessionId[k] = s.sid)
  BY Zenon, <1>1 DEF Disconnected, RouteInv, RouteType, INVALID_SID
<1>3. mSessionMap' \subseteq mSessionMap /\ s \notin mSessionMap'
  BY <1>1 DEF RouteInv, SidInv
<1>4. \A r \in mSessionMap' : r.sid # s.sid
  BY <1>3 DEF RouteInv, SidInv
<1>5. RouteType'
  BY <1>1, <1>2 DEF RouteInv, RouteType
<1>6. PoolInv'
  BY Zenon, <1>1, <1>3 DEF RouteInv, PoolInv
<1>7. SidInv'
  BY <1>1 DEF RouteInv, SidInv
<1>8. AttemptInv'
  BY <1>1, <1>2, <1>3 DEF RouteInv, AttemptInv
<1>9. SessionKnown'
  <2>1. \A r \in mSessionMap : r.conn \in Connections
    BY DEF RouteInv, RouteType, Session
  <2> QED
    BY <1>1, <1>2, <1>3, <1>4, <2>1 DEF RouteInv, SessionKnown
<1> QED
  BY <1>1, <1>5, <1>6, <1>7, <1>8, <1>9, RouteKept DEF RouteInv

\* The pool gives a connection up: after a sweep found no lease, or because it stops.
LEMMA GiveUpStep ==
  ASSUME RouteInv, Sweep \/ StopRoutePool \/ RequestStop
  PROVE  RouteInv'
<1> USE RouteAssumption
<1>1. /\ UNCHANGED <<caller, route, created, iSessionId, bConnecting, bPosted, bRetired, attempt,
                     pLease, mSessionMap, closing, sids>>
      /\ bStopped => bStopped'
      /\ bStopped' \in BOOLEAN
  BY Zenon DEF Sweep, StopRoutePool, RequestStop, callVars, connVars, sessionVars, poolVars, RouteInv,
         RouteType
<1>2. \/ UNCHANGED <<client, poll>>
      \/ client' = NoConnection /\ poll' = Idle /\ poll = Idle
      \/ /\ client # NoConnection /\ client' = NoConnection
         /\ poll = Idle /\ poll' = At("retire", client)
         /\ pLease[client] = {} \/ bStopped'
  BY Zenon DEF Sweep, StopRoutePool, RequestStop, HasLease, poolVars
<1>3. CASE UNCHANGED <<client, poll>>
  <2>1. RouteType'
    BY <1>1, <1>3 DEF RouteInv, RouteType
  <2>2. PoolInv'
    BY <1>1, <1>3 DEF RouteInv, PoolInv
  <2> QED
    BY <1>1, <1>3, <2>1, <2>2, RouteKept DEF RouteInv
<1>4. CASE client' = NoConnection /\ poll' = Idle /\ poll = Idle
  <2>1. RouteType'
    BY <1>1, <1>4 DEF RouteInv, RouteType, NoConnection
  <2>2. PoolInv'
    BY <1>1, <1>4 DEF RouteInv, PoolInv, Idle
  <2> QED
    BY <1>1, <1>4, <2>1, <2>2, RouteKept DEF RouteInv
<1>5. CASE /\ client # NoConnection /\ client' = NoConnection
           /\ poll = Idle /\ poll' = At("retire", client)
           /\ pLease[client] = {} \/ bStopped'
  <2>1. client \in Connections /\ client <= created /\ ~bRetired[client]
    BY <1>5 DEF RouteInv, RouteType, PoolInv, NoConnection, Connections
  <2>2. poll'.step = "retire" /\ poll'.conn = client
    BY <1>5, AtStep
  <2>3. poll.step = "idle" /\ poll.conn \notin Connections
        /\ \A k \in Connections : poll # At("adopted", k) /\ poll # At("retired", k)
    BY <1>5, AtIdle DEF Connections
  <2>4. \A k \in Connections : poll' # At("adopted", k)
    BY <1>5, AtStep
  <2>5. \A s \in mSessionMap : iSessionId[s.conn] = s.sid /\ ~bRetired[s.conn]
    BY <2>3, KnownSession
  <2>6. RouteType'
    BY <1>1, <1>5, <2>1, <2>2 DEF RouteInv, RouteType, NoConnection
  <2>7. PoolInv'
    BY <1>1, <1>5, <2>1, <2>2 DEF RouteInv, PoolInv
  <2>8. AttemptInv'
    BY Zenon, <1>1, <2>2, <2>3, <2>4 DEF RouteInv, AttemptInv
  <2>9. SessionKnown'
    BY <1>1, <2>5 DEF SessionKnown
  <2> QED
    BY <1>1, <2>6, <2>7, <2>8, <2>9, RouteKept DEF RouteInv
<1> QED
  BY <1>2, <1>3, <1>4, <1>5

\* The connection is marked as retired.
LEMMA RetireStep ==
  ASSUME RouteInv, Retire
  PROVE  RouteInv'
<1> USE RouteAssumption
<1> DEFINE k == poll.conn
<1>1. /\ UNCHANGED <<caller, route, client, created, bStopped, iSessionId, bConnecting, bPosted,
                     attempt, pLease, mSessionMap, closing, sids>>
      /\ poll.step = "retire" /\ poll' = At("retired", k)
      /\ bRetired' = [bRetired EXCEPT ![k] = TRUE]
  BY DEF Retire, callVars, poolVars, sessionVars
<1>2. k \in Connections /\ poll'.step = "retired" /\ poll'.conn = k
  BY <1>1, AtStep DEF RouteInv, RouteType, Idle
<1>3. /\ bRetired' \in [Connections -> BOOLEAN] /\ bRetired'[k]
      /\ \A j \in Connections : j # k => bRetired'[j] = bRetired[j]
  BY <1>1, <1>2 DEF RouteInv, RouteType
<1>4. k # client /\ k <= created /\ (pLease[k] = {} \/ bStopped)
  BY <1>1, <1>2 DEF RouteInv, PoolInv, NoConnection, Connections
<1>5. \A j \in Connections : /\ poll # At("adopted", j) /\ poll # At("retired", j)
                             /\ poll' # At("adopted", j)
  BY <1>1, AtStep
<1>6. \A s \in mSessionMap : /\ s.conn \in Connections /\ iSessionId[s.conn] = s.sid
                             /\ (bRetired[s.conn] => s.conn = k)
  BY <1>1, KnownSession
<1> HIDE DEF k
<1>7. RouteType'
  BY <1>1, <1>2, <1>3 DEF RouteInv, RouteType
<1>8. PoolInv'
  BY SMTT(60), <1>1, <1>2, <1>3, <1>4 DEF RouteInv, RouteType, PoolInv, Connections, NoConnection
<1>9. AttemptInv'
  BY Zenon, <1>1, <1>2, <1>3, <1>5 DEF RouteInv, AttemptInv
<1>10. SessionKnown'
  BY Zenon, <1>1, <1>2, <1>3, <1>6 DEF SessionKnown
<1> QED
  BY <1>1, <1>7, <1>8, <1>9, <1>10, RouteKept DEF RouteInv

\* Its session is closed and its connect given up, but for the resolve.
LEMMA RetiredStep ==
  ASSUME RouteInv, Retired
  PROVE  RouteInv'
<1> USE RouteAssumption
<1> DEFINE k == poll.conn
           open == {s \in mSessionMap : s.conn = k /\ s.sid = iSessionId[k]}
<1>1. /\ UNCHANGED <<caller, route, client, created, bStopped, bPosted, bRetired, pLease, sids>>
      /\ poll.step = "retired" /\ poll' = Idle
      /\ bConnecting' = [bConnecting EXCEPT ![k] = FALSE]
      /\ iSessionId' = [iSessionId EXCEPT ![k] = INVALID_SID]
      /\ attempt' = [attempt EXCEPT ![k] = IF @ = "connect" THEN "none" ELSE @]
      /\ mSessionMap' = mSessionMap \ open /\ closing' = closing \cup open
  BY DEF Retired, poolVars
<1>2. k \in Connections /\ poll = At("retired", k) /\ bRetired[k]
  <2>1. poll # Idle
    BY <1>1 DEF Idle
  <2>2. k \in Connections /\ poll = At("retired", k)
    BY Zenon, <1>1, <2>1 DEF RouteInv, RouteType
  <2>3. bRetired[k]
    BY Zenon, <1>1 DEF RouteInv, PoolInv
  <2> QED
    BY Zenon, <2>2, <2>3
<1>3. poll'.step = "idle" /\ poll'.conn = 0
  BY Zenon, <1>1 DEF Idle, NoConnection
<1>4. \A s \in mSessionMap : /\ s.conn \in Connections /\ iSessionId[s.conn] = s.sid
                             /\ (bRetired[s.conn] => s.conn = k)
  BY <1>1, KnownSession
<1>5. open \subseteq mSessionMap /\ \A s \in mSessionMap' : s \in mSessionMap /\ s.conn # k
  BY <1>1, <1>4
<1>6. \A j \in Connections : /\ poll # At("adopted", j) /\ (j # k => poll # At("retired", j))
  BY <1>2, AtStep
<1> HIDE DEF k, open
<1>7. /\ iSessionId' \in [Connections -> Nat] /\ iSessionId'[k] = INVALID_SID
      /\ \A j \in Connections : j # k => iSessionId'[j] = iSessionId[j]
      /\ attempt' \in [Connections -> Attempts] /\ attempt'[k] # "connect"
      /\ \A j \in Connections : attempt'[j] = attempt[j] \/ attempt'[j] = "none"
      /\ bConnecting' \in [Connections -> BOOLEAN]
  BY <1>1, <1>2 DEF RouteInv, RouteType, INVALID_SID, Attempts
<1>8. RouteType'
  BY Zenon, <1>1, <1>5, <1>7 DEF RouteInv, RouteType
<1>9. PoolInv'
  <2>1. poll'.step \notin {"retire", "retired"} /\ poll'.step # "retired" /\ poll'.conn <= created
    BY <1>3 DEF RouteInv, RouteType
  <2>2. PoolInv /\ UNCHANGED <<client, created, bRetired, bPosted, pLease, bStopped>>
    BY Zenon, <1>1 DEF RouteInv
  <2>3. ASSUME NEW j \in Connections, j > created
        PROVE  /\ ~bRetired[j] /\ ~bPosted[j] /\ attempt'[j] = "none" /\ pLease[j] = {}
               /\ \A s \in mSessionMap' : s.conn # j
    BY Zenon, <1>5, <1>7, <2>2, <2>3 DEF PoolInv
  <2> QED
    BY Zenon, <2>1, <2>2, <2>3 DEF PoolInv
<1>10. SidInv'
  BY Zenon, <1>1, <1>5 DEF RouteInv, SidInv
<1>11. AttemptInv'
  BY <1>1, <1>2, <1>3, <1>5, <1>6, <1>7 DEF RouteInv, AttemptInv
<1>12. SessionKnown'
  BY Zenon, <1>1, <1>4, <1>5, <1>7 DEF SessionKnown
<1> QED
  BY <1>1, <1>8, <1>9, <1>10, <1>11, <1>12, RouteKept DEF RouteInv

\* The invariant of the pool and its connections: every step of the callers, of the tasks and
\* of the poll thread keeps it (oi_rpc_route.cpp:253, 646).
THEOREM RouteInvariant == Spec => []RouteInv
<1>1. Init => RouteInv
  <2> SUFFICES ASSUME Init PROVE RouteInv
    OBVIOUS
  <2>1. poll.conn = 0 /\ poll.step = "idle"
    BY DEF Init, Idle, NoConnection
  <2>2. RouteType
    <3>1. /\ caller \in [Calls -> Underway \cup {"new", "done"}]
          /\ route \in [Calls -> 0..MaxConnections]
      <4>1. caller = [c \in Calls |-> "new"] /\ route = [c \in Calls |-> 0]
        BY DEF Init, NoConnection
      <4> QED
        BY <4>1, RouteAssumption
    <3>2. /\ client \in 0..MaxConnections /\ created \in 0..MaxConnections
          /\ mSessionMap \subseteq Session /\ closing \subseteq Session /\ sids \in Nat
      <4>1. client = 0 /\ created = 0 /\ mSessionMap = {} /\ closing = {} /\ sids = 0
        BY DEF Init, NoConnection
      <4>2. MaxConnections \in Nat
        BY RouteAssumption
      <4> QED
        BY <4>1, <4>2
    <3>3. /\ iSessionId \in [Connections -> Nat] /\ bConnecting \in [Connections -> BOOLEAN]
          /\ bRetired \in [Connections -> BOOLEAN] /\ bPosted \in [Connections -> BOOLEAN]
          /\ attempt \in [Connections -> Attempts]
          /\ pLease \in [Connections -> SUBSET (Calls \cup {Task})]
      BY DEF Init, INVALID_SID, Attempts
    <3>4. bStopped \in BOOLEAN
      BY Zenon DEF Init
    <3> QED
      BY <3>1, <3>2, <3>3, <3>4 DEF RouteType, Init
  <2>3. PoolInv /\ SidInv /\ AttemptInv /\ SessionKnown /\ LeaseInv
    BY SMTT(60), <2>1, RouteAssumption DEF Init, PoolInv, SidInv, AttemptInv, SessionKnown, LeaseInv,
         Underway, NoConnection, Connections, INVALID_SID
  <2> QED
    BY <2>2, <2>3 DEF RouteInv
<1>2. RouteInv /\ [Next]_vars => RouteInv'
  <2> SUFFICES ASSUME RouteInv, [Next]_vars PROVE RouteInv'
    OBVIOUS
  <2>1. CASE UNCHANGED vars
    BY Zenon, <2>1 DEF vars, callVars, poolVars, connVars, sessionVars, RouteInv, RouteType, PoolInv,
                SidInv, AttemptInv, SessionKnown, LeaseInv
  <2>2. CASE Next
    BY <2>2, CallerStep, LeaseStep, ConnectStep, AdoptStep, AdoptedStep, CloseStep, GiveUpStep,
       RetireStep, RetiredStep DEF Next, Connecting
  <2> QED
    BY <2>1, <2>2
<1> QED
  BY <1>1, <1>2, PTL DEF Spec

\* For any number of calls and connections: a connection that somebody has a lease of is
\* retired only when the pool stops, and every session is known to its connection
\* (oi_rpc_route.cpp:646, 744).
THEOREM RouteSafe == Spec => []RouteSound
<1>1. RouteInv => RouteSound
  BY DEF RouteInv, PoolInv, RouteSound, LeasedNotRetired
<1> QED
  BY <1>1, RouteInvariant, PTL

\* A call has its lease from ClientFor to Release, so its connection is not retired under it
\* while the pool runs (oi_rpc_route.cpp:744).
THEOREM RouteKeepsCalls == Spec => []CallKeepsConnection
<1>1. RouteInv => CallKeepsConnection
  <2> SUFFICES ASSUME RouteInv, NEW c \in Calls, caller[c] \in Underway, bRetired[route[c]]
               PROVE  bStopped
    BY DEF CallKeepsConnection
  <2>1. route[c] \in Connections /\ pLease[route[c]] # {}
    BY RouteAssumption DEF RouteInv, RouteType, LeaseInv, NoConnection, Connections
  <2> QED
    BY <2>1 DEF RouteInv, PoolInv
<1> QED
  BY <1>1, RouteInvariant, PTL

-----------------------------------------------------------------------------
(***************************************************************************)
(* ConnectWait.  The waiters in the list are those of the pending          *)
(* generation, the waiters in CompleteConnect's hands are those of a       *)
(* generation that has got a session, and a connect that is still wanted   *)
(* goes to the address the service has.                                    *)
(***************************************************************************)
WaitType ==
  /\ thread \in [Waiters -> {"new", "begun", "suspended", "resumed", "dropped"}]
  /\ bDone \in [Waiters -> BOOLEAN] /\ bResult \in [Waiters -> BOOLEAN]
  /\ posted \subseteq Waiters
  /\ iConnectGeneration \in Nat /\ bConnectPending \in BOOLEAN
  /\ m_vConnectWaiters \in Seq(Waiters \cup {None}) /\ vWaiters \in Seq(Waiters \cup {None})
  /\ connects \subseteq [gen : Nat, peer : Addresses]
  /\ registered \in [Waiters -> Nat] /\ completed \subseteq Nat

\* Generations: each connect that is under way is of one that has begun, and the one that is
\* still wanted goes where the service is.
FlightInv ==
  /\ bConnectPending => iConnectGeneration # 0
  /\ 0 \notin completed
  /\ \A c \in connects :
       c.gen <= iConnectGeneration /\ (W!Current(c.gen) => c.peer = sIpAddress)

\* A waiter whose StartConnect has not run is registered nowhere and has heard nothing.
FreshInv ==
  \A w \in Waiters : thread[w] = "new" \/ w \in posted =>
    registered[w] = 0 /\ ~bResult[w] /\ ~(thread[w] = "new" /\ w \in posted)

\* Who heard true: the second half of WaiterGeneration.
HeardInv == \A w \in Waiters : bResult[w] /\ registered[w] # 0 => registered[w] \in completed

\* The waiters that CompleteConnect has taken.
HandsInv == \A w \in W!Range(vWaiters) \ {None} : registered[w] \in completed

WaitInv ==
  WaitType /\ FlightInv /\ FreshInv /\ HandsInv /\ W!WaiterGeneration /\ W!SessionAddress

-----------------------------------------------------------------------------
\* A set of numbers that is not empty has a least one.
LEMMA LeastNat ==
  ASSUME NEW T, T \subseteq Nat, T # {}
  PROVE  \E x \in T : \A y \in T : x <= y
<1> DEFINE R == OpToRel(<, Nat)
<1>1. IsWellFoundedOn(R, Nat)
  BY NatLessThanWellFounded
<1>2. \A x, y \in Nat : y < x => <<y, x>> \in R
  BY DEF OpToRel
<1> HIDE DEF R
<1>3. PICK x \in T : \A y \in T : ~(<<y, x>> \in R)
  BY Zenon, <1>1, WFMin
<1>4. \A y \in T : ~(y < x)
  BY Zenon, <1>2, <1>3
<1>5. \A y \in T : x <= y
  BY <1>4
<1> QED
  BY <1>5

\* The greatest of some of the numbers up to n.
LEMMA GreatestOf ==
  ASSUME NEW n \in Nat, NEW T, T \subseteq 0..n, T # {}
  PROVE  W!Max(T) \in T
<1> DEFINE U == {n - i : i \in T}
<1>1. U \subseteq Nat /\ U # {}
  <2>1. \A i \in T : n - i \in Nat
    OBVIOUS
  <2>2. PICK i \in T : TRUE
    BY Zenon
  <2>3. n - i \in U
    BY <2>2
  <2> QED
    BY <2>1, <2>3
<1>2. PICK x \in U : \A y \in U : x <= y
  BY Zenon, <1>1, LeastNat
<1>3. PICK i \in T : x = n - i
  BY <1>2
<1>4. \A j \in T : n - j \in U
  OBVIOUS
<1> HIDE DEF U
<1>5. \A j \in T : i >= j
  BY <1>2, <1>3, <1>4
<1>6. \E m \in T : \A j \in T : m >= j
  BY <1>5
<1> QED
  BY Zenon, <1>6 DEF W!Max

\* The lists of waiters.
LEMMA ListFacts ==
  ASSUME NEW v \in Seq(Waiters \cup {None})
  PROVE  /\ W!Range(v) \subseteq Waiters \cup {None}
         /\ W!Range(<<>>) = {} /\ W!Range(<<None>>) = {None}
         /\ <<>> \in Seq(Waiters \cup {None}) /\ <<None>> \in Seq(Waiters \cup {None})
         /\ \A w \in Waiters : /\ Append(v, w) \in Seq(Waiters \cup {None})
                               /\ W!Range(Append(v, w)) = W!Range(v) \cup {w}
<1>1. W!Range(v) \subseteq Waiters \cup {None}
  BY DEF W!Range
<1>2. W!Range(<<>>) = {} /\ W!Range(<<None>>) = {None}
  BY DEF W!Range
<1>3. ASSUME NEW w \in Waiters
      PROVE  /\ Append(v, w) \in Seq(Waiters \cup {None})
             /\ W!Range(Append(v, w)) = W!Range(v) \cup {w}
  <2>1. /\ Append(v, w) \in Seq(Waiters \cup {None}) /\ Len(Append(v, w)) = Len(v) + 1
        /\ Append(v, w)[Len(v) + 1] = w /\ \A i \in 1..Len(v) : Append(v, w)[i] = v[i]
    OBVIOUS
  <2>2. DOMAIN Append(v, w) = 1..(Len(v) + 1) /\ DOMAIN v = 1..Len(v) /\ Len(v) \in Nat
    BY <2>1
  <2>3. \A i \in 1..(Len(v) + 1) : i \in 1..Len(v) \/ i = Len(v) + 1
    BY <2>2
  <2>4. \A i \in 1..Len(v) : i \in 1..(Len(v) + 1)
    BY <2>2
  <2>5. Len(v) + 1 \in 1..(Len(v) + 1)
    BY <2>2
  <2> QED
    BY <2>1, <2>2, <2>3, <2>4, <2>5 DEF W!Range
<1> QED
  BY <1>1, <1>2, <1>3

\* What is left when the expired waiters at the end are popped.
LEMMA PopFacts ==
  ASSUME NEW v \in Seq(Waiters \cup {None})
  PROVE  /\ W!PopExpired(v) \in Seq(Waiters \cup {None})
         /\ W!Range(W!PopExpired(v)) \subseteq W!Range(v)
<1> DEFINE T == {i \in DOMAIN v : ~W!Expired(v[i])} \cup {0}
           m == W!Max(T)
<1>1. Len(v) \in Nat /\ DOMAIN v = 1..Len(v)
  OBVIOUS
<1>2. T \subseteq 0..Len(v) /\ T # {}
  BY <1>1
<1>3. m \in 0..Len(v)
  BY Zenon, <1>1, <1>2, GreatestOf
<1>4. W!PopExpired(v) = SubSeq(v, 1, m)
  BY DEF W!PopExpired
<1> HIDE DEF m
<1>5. /\ SubSeq(v, 1, m) \in Seq(Waiters \cup {None}) /\ Len(SubSeq(v, 1, m)) = m
      /\ \A i \in 1..m : SubSeq(v, 1, m)[i] = v[i]
  BY <1>1, <1>3
<1>6. DOMAIN SubSeq(v, 1, m) = 1..m /\ 1..m \subseteq DOMAIN v
  BY <1>1, <1>3, <1>5
<1> QED
  BY <1>4, <1>5, <1>6 DEF W!Range

\* Finish: who hears true is among the waiters it is called for.
LEMMA FinishFacts ==
  ASSUME WaitType, NEW v, NEW b \in BOOLEAN, W!Finish(v, b)
  PROVE  /\ thread' \in [Waiters -> {"new", "begun", "suspended", "resumed", "dropped"}]
         /\ bDone' \in [Waiters -> BOOLEAN] /\ bResult' \in [Waiters -> BOOLEAN]
         /\ \A w \in Waiters : bResult'[w] => bResult[w] \/ (b /\ w \in v \ {None})
         /\ \A w \in Waiters : thread'[w] = "new" <=> thread[w] = "new"
<1> DEFINE ends == {w \in v : w # None /\ ~bDone[w] /\ thread[w] # "dropped"}
<1>1. /\ bDone' = [w \in Waiters |-> bDone[w] \/ w \in ends]
      /\ bResult' = [w \in Waiters |-> IF w \in ends THEN b ELSE bResult[w]]
      /\ thread' = [w \in Waiters |->
                     IF w \in ends /\ thread[w] = "suspended" THEN "resumed" ELSE thread[w]]
  BY Zenon DEF W!Finish
<1>2. \A w \in Waiters : w \in ends => w \in v \ {None}
  OBVIOUS
<1> HIDE DEF ends
<1>3. bDone' \in [Waiters -> BOOLEAN]
  BY <1>1 DEF WaitType
<1>4. bResult' \in [Waiters -> BOOLEAN]
  BY <1>1 DEF WaitType
<1>5. thread' \in [Waiters -> {"new", "begun", "suspended", "resumed", "dropped"}]
  BY <1>1 DEF WaitType
<1>6. \A w \in Waiters : bResult'[w] => bResult[w] \/ (b /\ w \in v \ {None})
  BY <1>1, <1>2
<1>7. \A w \in Waiters : thread'[w] = "new" <=> thread[w] = "new"
  BY <1>1
<1> QED
  BY <1>3, <1>4, <1>5, <1>6, <1>7

\* What a step may tell the waiters: true to those whose generation has got a session, or who
\* were never registered.
LEMMA HeardFacts ==
  ASSUME WaitInv, UNCHANGED registered, posted' \subseteq posted,
         completed \subseteq completed', 0 \notin completed',
         \A w \in Waiters : thread'[w] = "new" => thread[w] = "new",
         \A w \in Waiters : bResult'[w] =>
           \/ bResult[w] \/ registered[w] \in completed'
           \/ registered[w] = 0 /\ thread[w] # "new" /\ w \notin posted'
  PROVE  /\ FreshInv'
         /\ HeardInv'
<1>1. FreshInv'
  BY DEF WaitInv, FreshInv
<1>2. HeardInv'
  BY DEF WaitInv, W!WaiterGeneration, HeardInv
<1> QED
  BY <1>1, <1>2

\* The waiters of the list are of the generation that is pending, which is not 0.
LEMMA ListedFacts ==
  ASSUME WaitInv, NEW w \in W!Range(m_vConnectWaiters) \ {None}
  PROVE  w \in Waiters /\ bConnectPending /\ registered[w] = iConnectGeneration /\ registered[w] # 0
<1>1. w \in Waiters
  BY Zenon, ListFacts DEF WaitInv, WaitType
<1> QED
  BY <1>1 DEF WaitInv, W!WaiterGeneration, FlightInv

\* The holder of an awaiter.
LEMMA HolderStep ==
  ASSUME WaitInv, NEW w \in Waiters, W!StartClient(w) \/ W!Suspend(w) \/ W!Drop(w)
  PROVE  WaitInv'
<1>1. UNCHANGED <<bResult, sIpAddress, W!connectVars, connects, waitSessions, vWaiters, registered,
                  completed>>
  BY DEF W!StartClient, W!Suspend, W!Drop, W!serviceVars, W!flightVars, W!addVars, W!historyVars
<1>2. /\ thread' \in [Waiters -> {"new", "begun", "suspended", "resumed", "dropped"}]
      /\ thread'[w] # "new" /\ \A x \in Waiters : x # w => thread'[x] = thread[x]
  BY Zenon DEF W!StartClient, W!Suspend, W!Drop, WaitInv, WaitType
<1>3. bDone' \in [Waiters -> BOOLEAN]
  BY Zenon DEF W!StartClient, W!Suspend, W!Drop, WaitInv, WaitType
<1>4. posted' = posted \/ (posted' = posted \cup {w} /\ thread[w] = "new")
  BY DEF W!StartClient, W!Suspend, W!Drop
<1>5. WaitType'
  BY <1>1, <1>2, <1>3, <1>4 DEF WaitInv, WaitType, W!connectVars
<1>6. FreshInv'
  <2>1. \A x \in Waiters : thread'[x] = "new" \/ x \in posted' =>
          (thread[x] = "new" \/ x \in posted) /\ ~(thread'[x] = "new" /\ x \in posted')
    <3> SUFFICES ASSUME NEW x \in Waiters, thread'[x] = "new" \/ x \in posted'
                 PROVE  (thread[x] = "new" \/ x \in posted) /\ ~(thread'[x] = "new" /\ x \in posted')
      OBVIOUS
    <3>1. CASE x = w
      BY <1>2, <1>4, <3>1
    <3>2. CASE x # w
      <4>1. thread'[x] = thread[x] /\ (x \in posted' <=> x \in posted)
        BY <1>2, <1>4, <3>2
      <4> QED
        BY Zenon, <4>1 DEF WaitInv, FreshInv
    <3> QED
      BY <3>1, <3>2
  <2> QED
    BY Zenon, <1>1, <2>1 DEF WaitInv, FreshInv
<1>7. FlightInv' /\ HandsInv' /\ W!WaiterGeneration' /\ W!SessionAddress'
  BY Zenon, <1>1 DEF WaitInv, FlightInv, HandsInv, W!WaiterGeneration, W!SessionAddress, W!Current,
              W!connectVars
<1> QED
  BY <1>5, <1>6, <1>7 DEF WaitInv

\* StartConnect without a connect: the waiter hears at once.
LEMMA StartedStep ==
  ASSUME WaitInv, NEW w \in Waiters, W!StartConnect(w),
         waitStop \/ bServiceDown \/ (~bConnectPending /\ W!HasEndpoint(sIpAddress))
  PROVE  WaitInv'
<1>1. /\ w \in posted /\ posted' = posted \ {w}
      /\ UNCHANGED <<sIpAddress, W!connectVars, connects, waitSessions, vWaiters, registered,
                     completed>>
  BY Zenon DEF W!StartConnect, W!serviceVars, W!addVars
<1>2. PICK b \in BOOLEAN : W!Finish({w}, b)
  BY Zenon DEF W!StartConnect
<1>3. /\ thread' \in [Waiters -> {"new", "begun", "suspended", "resumed", "dropped"}]
      /\ bDone' \in [Waiters -> BOOLEAN] /\ bResult' \in [Waiters -> BOOLEAN]
      /\ \A x \in Waiters : bResult'[x] => bResult[x] \/ x = w
      /\ \A x \in Waiters : thread'[x] = "new" <=> thread[x] = "new"
  <2>1. WaitType
    BY Zenon DEF WaitInv
  <2> QED
    BY <1>2, <2>1, FinishFacts
<1>4. registered[w] = 0 /\ thread[w] # "new" /\ w \notin posted'
  BY <1>1 DEF WaitInv, FreshInv
<1>5. WaitType'
  BY <1>1, <1>3 DEF WaitInv, WaitType, W!connectVars
<1>6. FlightInv' /\ HandsInv' /\ W!SessionAddress'
  BY Zenon, <1>1 DEF WaitInv, FlightInv, HandsInv, W!SessionAddress, W!Current, W!connectVars
<1>7. 0 \notin completed'
  BY <1>1 DEF WaitInv, FlightInv
<1>8. FreshInv' /\ HeardInv'
  BY <1>1, <1>3, <1>4, <1>7, HeardFacts
<1>9. W!WaiterGeneration'
  BY Zenon, <1>1, <1>8 DEF WaitInv, W!WaiterGeneration, HeardInv, W!connectVars
<1> QED
  BY <1>5, <1>6, <1>8, <1>9 DEF WaitInv

\* StartConnect with a connect: the waiter joins the pending generation or begins the next.
LEMMA JoinStep ==
  ASSUME WaitInv, NEW w \in Waiters, W!StartConnect(w),
         ~(waitStop \/ bServiceDown), ~(~bConnectPending /\ W!HasEndpoint(sIpAddress))
  PROVE  WaitInv'
<1> DEFINE v == Append(W!PopExpired(m_vConnectWaiters), w)
           g == IF bConnectPending THEN iConnectGeneration ELSE iConnectGeneration + 1
<1>1. /\ w \in posted /\ posted' = posted \ {w}
      /\ UNCHANGED <<sIpAddress, W!waitVars, connects, waitSessions, vWaiters, completed>>
      /\ m_vConnectWaiters' = v /\ bConnectPending' = TRUE /\ iConnectGeneration' = g
      /\ registered' = [registered EXCEPT ![w] = g]
  BY Zenon DEF W!StartConnect, W!Begin, W!serviceVars, W!addVars, WaitInv, WaitType
<1>2. v \in Seq(Waiters \cup {None}) /\ W!Range(v) \subseteq W!Range(m_vConnectWaiters) \cup {w}
  <2> DEFINE u == W!PopExpired(m_vConnectWaiters)
  <2>1. u \in Seq(Waiters \cup {None}) /\ W!Range(u) \subseteq W!Range(m_vConnectWaiters)
    BY Zenon, PopFacts DEF WaitInv, WaitType
  <2> HIDE DEF u
  <2>2. Append(u, w) \in Seq(Waiters \cup {None}) /\ W!Range(Append(u, w)) = W!Range(u) \cup {w}
    BY Zenon, <2>1, ListFacts
  <2> QED
    BY <2>1, <2>2 DEF u
<1>3. g \in Nat /\ g # 0 /\ (~bConnectPending => g = iConnectGeneration + 1)
      /\ (bConnectPending => g = iConnectGeneration) /\ iConnectGeneration \in Nat
  BY DEF WaitInv, WaitType, FlightInv
<1> HIDE DEF v, g
<1>4. /\ registered' \in [Waiters -> Nat] /\ registered'[w] = g
      /\ \A x \in Waiters : x # w => registered'[x] = registered[x]
  BY <1>1, <1>3 DEF WaitInv, WaitType
<1>5. registered[w] = 0 /\ ~bResult[w] /\ thread[w] # "new"
  BY <1>1 DEF WaitInv, FreshInv
<1>6. WaitType'
  BY <1>1, <1>2, <1>3, <1>4 DEF WaitInv, WaitType, W!waitVars
<1>7. FlightInv'
  <2>1. \A c \in connects : c.gen \in Nat /\ c.gen <= iConnectGeneration
    BY DEF WaitInv, WaitType, FlightInv
  <2>2. \A c \in connects : c.gen <= g /\ (c.gen = g => bConnectPending /\ g = iConnectGeneration)
    BY <1>3, <2>1
  <2> QED
    BY <1>1, <1>3, <2>2 DEF WaitInv, FlightInv, W!Current
<1>8. FreshInv'
  BY <1>1, <1>4, <1>5 DEF WaitInv, FreshInv, W!waitVars
<1>9. HandsInv'
  <2>1. \A x \in W!Range(vWaiters) \ {None} : x \in Waiters /\ x # w
    BY Zenon, <1>5, ListFacts DEF WaitInv, WaitType, HandsInv, FlightInv
  <2> QED
    BY <1>1, <1>4, <2>1 DEF WaitInv, HandsInv
<1>10. W!WaiterGeneration'
  <2>1. \A x \in W!Range(m_vConnectWaiters) \ {None} : x # w =>
          registered'[x] = iConnectGeneration /\ bConnectPending
    BY <1>4, ListedFacts
  <2>2. \A x \in W!Range(v) \ {None} : registered'[x] = g
    BY <1>2, <1>3, <1>4, <2>1
  <2> QED
    BY Zenon, <1>1, <1>4, <1>5, <2>2 DEF WaitInv, W!WaiterGeneration, W!waitVars
<1>11. W!SessionAddress'
  BY Zenon, <1>1 DEF WaitInv, W!SessionAddress
<1> QED
  BY <1>6, <1>7, <1>8, <1>9, <1>10, <1>11 DEF WaitInv

\* The list is finished: every waiter of the pending generation hears b, and true only when
\* the generation has got a session.
LEMMA ListFinished ==
  ASSUME WaitInv, NEW b \in BOOLEAN, W!Finish(W!Range(m_vConnectWaiters), b),
         UNCHANGED registered, posted' = posted,
         completed \subseteq completed', 0 \notin completed',
         b => iConnectGeneration \in completed'
  PROVE  /\ thread' \in [Waiters -> {"new", "begun", "suspended", "resumed", "dropped"}]
         /\ bDone' \in [Waiters -> BOOLEAN] /\ bResult' \in [Waiters -> BOOLEAN]
         /\ FreshInv'
         /\ HeardInv'
<1>1. /\ thread' \in [Waiters -> {"new", "begun", "suspended", "resumed", "dropped"}]
      /\ bDone' \in [Waiters -> BOOLEAN] /\ bResult' \in [Waiters -> BOOLEAN]
      /\ \A w \in Waiters :
           bResult'[w] => bResult[w] \/ (b /\ w \in W!Range(m_vConnectWaiters) \ {None})
      /\ \A w \in Waiters : thread'[w] = "new" <=> thread[w] = "new"
  BY FinishFacts DEF WaitInv
<1>2. \A w \in Waiters : bResult'[w] => bResult[w] \/ registered[w] \in completed'
  BY Zenon, <1>1, ListedFacts
<1> QED
  BY Zenon, <1>1, <1>2, HeardFacts

\* What the waiters need when the list is finished and taken, or taken without a word.
LEMMA GenerationOf ==
  ASSUME \/ m_vConnectWaiters' = <<>> \/ m_vConnectWaiters' = <<None>>,
         HeardInv'
  PROVE  W!WaiterGeneration' /\ m_vConnectWaiters' \in Seq(Waiters \cup {None})
<1>1. W!Range(m_vConnectWaiters') \ {None} = {}
  BY DEF W!Range
<1>2. m_vConnectWaiters' \in Seq(Waiters \cup {None})
  <2>1. <<>> \in Seq(Waiters \cup {None}) /\ <<None>> \in Seq(Waiters \cup {None})
    OBVIOUS
  <2> QED
    BY Zenon, <2>1
<1> QED
  BY <1>1, <1>2 DEF W!WaiterGeneration, HeardInv

\* AbortSession: of an old generation it does nothing.
LEMMA AbortFacts ==
  ASSUME WaitInv, NEW g, W!AbortSession(g), posted' = posted, connects' \subseteq connects,
         UNCHANGED <<sIpAddress, iConnectGeneration, waitSessions, vWaiters, registered, completed>>
  PROVE  WaitInv'
<1>0. 0 \notin completed' /\ W!SessionAddress' /\ HandsInv'
  BY DEF WaitInv, FlightInv, W!SessionAddress, HandsInv
<1>1. CASE W!Current(g)
  <2>1. /\ bConnectPending' = FALSE /\ m_vConnectWaiters' = <<>>
        /\ W!Finish(W!Range(m_vConnectWaiters), FALSE)
    BY Zenon, <1>1 DEF W!AbortSession, W!FinishConnectWaiters
  <2>2. /\ thread' \in [Waiters -> {"new", "begun", "suspended", "resumed", "dropped"}]
        /\ bDone' \in [Waiters -> BOOLEAN] /\ bResult' \in [Waiters -> BOOLEAN]
        /\ FreshInv'
        /\ HeardInv'
    BY Zenon, <1>0, <2>1, ListFinished
  <2>3. WaitType'
    <3>1. bConnectPending' \in BOOLEAN
      BY Zenon, <2>1
    <3>2. m_vConnectWaiters' \in Seq(Waiters \cup {None})
      BY <2>1, <2>2, GenerationOf
    <3> QED
      BY <2>2, <3>1, <3>2 DEF WaitInv, WaitType
  <2>4. FlightInv'
    BY <2>1 DEF WaitInv, FlightInv, W!Current
  <2> QED
    BY <1>0, <2>1, <2>2, <2>3, <2>4, GenerationOf DEF WaitInv
<1>2. CASE ~W!Current(g)
  <2>1. UNCHANGED <<bConnectPending, m_vConnectWaiters, W!waitVars>>
    BY <1>2 DEF W!AbortSession
  <2>2. WaitType'
    BY <2>1 DEF WaitInv, WaitType, W!waitVars
  <2>3. FlightInv'
    BY <2>1 DEF WaitInv, FlightInv, W!Current
  <2>4. FreshInv' /\ W!WaiterGeneration'
    BY Zenon, <2>1 DEF WaitInv, FreshInv, W!WaiterGeneration, W!waitVars
  <2> QED
    BY <1>0, <2>2, <2>3, <2>4 DEF WaitInv
<1> QED
  BY <1>1, <1>2

\* The resolve ends: the connect is over, goes to the address, or finds its session there.
LEMMA ResolvedStep ==
  ASSUME WaitInv, NEW g \in resolves, NEW a \in Addresses \cup {None}, W!OnResolved(g, a)
  PROVE  WaitInv'
<1>1. /\ posted' = posted /\ UNCHANGED <<waitSessions, vWaiters, registered, iConnectGeneration>>
      /\ sIpAddress # Name => a \in {sIpAddress, None}
  BY Zenon DEF W!OnResolved, W!addVars, W!connectVars, W!AbortSession
<1>2. CASE ~W!Current(g) \/ bServiceDown \/ a = None
  <2>1. W!AbortSession(g) /\ UNCHANGED <<sIpAddress, connects, completed>>
    BY Zenon, <1>2 DEF W!OnResolved, W!AbortSession, W!connectVars, W!serviceVars
  <2> QED
    BY <1>1, <2>1, AbortFacts
<1>3. CASE W!Current(g) /\ ~bServiceDown /\ a # None
  <2>1. sIpAddress' = a /\ a \in Addresses /\ g = iConnectGeneration /\ bConnectPending
    BY Zenon, <1>3 DEF W!OnResolved, W!Current
  <2>2. g # 0 /\ g \in Nat
    BY <2>1 DEF WaitInv, WaitType, FlightInv
  <2>3. \A c \in connects : c.gen = g => c.peer = a
    <3>1. \A c \in connects : c.gen = g => c.peer = sIpAddress /\ c.peer \in Addresses
      BY <2>1 DEF WaitInv, WaitType, FlightInv, W!Current
    <3> QED
      BY <1>1, <1>3, <3>1, WaitAssumption
  <2>4. CASE W!HasEndpoint(a)
    <3>1. /\ bConnectPending' = FALSE /\ m_vConnectWaiters' = <<>>
          /\ W!Finish(W!Range(m_vConnectWaiters), TRUE)
          /\ completed' = completed \cup {g} /\ connects' = connects
      BY Zenon, <1>3, <2>4 DEF W!OnResolved, W!FinishConnectWaiters
    <3>2. 0 \notin completed' /\ W!SessionAddress' /\ HandsInv'
      BY Zenon, <1>1, <2>2, <3>1 DEF WaitInv, FlightInv, W!SessionAddress, HandsInv
    <3>3. /\ thread' \in [Waiters -> {"new", "begun", "suspended", "resumed", "dropped"}]
          /\ bDone' \in [Waiters -> BOOLEAN] /\ bResult' \in [Waiters -> BOOLEAN]
          /\ FreshInv'
          /\ HeardInv'
      BY Zenon, <1>1, <2>1, <3>1, <3>2, ListFinished
    <3>4. WaitType'
      <4>1. bConnectPending' \in BOOLEAN
        BY Zenon, <3>1
      <4>2. m_vConnectWaiters' \in Seq(Waiters \cup {None})
        BY <3>1, <3>3, GenerationOf
      <4>3. completed' \subseteq Nat
        BY <2>2, <3>1 DEF WaitInv, WaitType
      <4> QED
        BY <1>1, <3>1, <3>3, <4>1, <4>2, <4>3 DEF WaitInv, WaitType
    <3>5. FlightInv'
      BY <1>1, <3>1, <3>2 DEF WaitInv, FlightInv, W!Current
    <3> QED
      BY <3>1, <3>2, <3>3, <3>4, <3>5, GenerationOf DEF WaitInv
  <2>5. CASE ~W!HasEndpoint(a)
    <3> DEFINE new == [gen |-> g, peer |-> a]
    <3>1. /\ connects' = connects \cup {new}
          /\ UNCHANGED <<bConnectPending, m_vConnectWaiters, W!waitVars, completed>>
      BY <1>3, <2>5 DEF W!OnResolved
    <3>2. new.gen = g /\ new.peer = a /\ new \in [gen : Nat, peer : Addresses]
      BY <2>1, <2>2
    <3> HIDE DEF new
    <3>3. WaitType'
      BY <1>1, <3>1, <3>2 DEF WaitInv, WaitType, W!waitVars
    <3>4. FlightInv'
      <4>1. g <= iConnectGeneration
        BY <2>1, <2>2
      <4> QED
        BY <1>1, <2>1, <2>3, <3>1, <3>2, <4>1 DEF WaitInv, FlightInv, W!Current
    <3>5. FreshInv' /\ HandsInv' /\ W!WaiterGeneration' /\ W!SessionAddress'
      BY Zenon, <1>1, <3>1 DEF WaitInv, FreshInv, HandsInv, W!WaiterGeneration, W!SessionAddress,
                        W!waitVars
    <3> QED
      BY <3>3, <3>4, <3>5 DEF WaitInv
  <2> QED
    BY <2>4, <2>5
<1> QED
  BY <1>2, <1>3

\* The socket is connected: while it is wanted its peer is where the service is, so the session
\* is filed under its peer, and the waiters that CompleteConnect takes are of its generation.
LEMMA ConnectedStep ==
  ASSUME WaitInv, NEW c \in connects, W!CompleteConnect(c) \/ W!ConnectFailed(c)
  PROVE  WaitInv'
<1>1. CASE W!ConnectFailed(c)
  <2>1. /\ posted' = posted /\ connects' \subseteq connects /\ W!AbortSession(c.gen)
        /\ UNCHANGED <<sIpAddress, iConnectGeneration, waitSessions, vWaiters, registered,
                       completed>>
    BY <1>1 DEF W!ConnectFailed, W!serviceVars, W!addVars, W!historyVars
  <2> QED
    BY <2>1, AbortFacts
<1>2. CASE W!CompleteConnect(c)
  <2>1. /\ posted' = posted /\ connects' \subseteq connects
        /\ UNCHANGED <<W!waitVars, sIpAddress, iConnectGeneration, registered>>
    BY Zenon, <1>2 DEF W!CompleteConnect, W!serviceVars
  <2>2. CASE ~W!Accepts(c)
    <3>1. UNCHANGED <<m_vConnectWaiters, bConnectPending, waitSessions, completed, vWaiters>>
      BY Zenon, <1>2, <2>2 DEF W!CompleteConnect, W!addVars
    <3>2. WaitType'
      BY <2>1, <3>1 DEF WaitInv, WaitType, W!waitVars
    <3>3. FlightInv'
      BY <2>1, <3>1 DEF WaitInv, FlightInv, W!Current
    <3>4. FreshInv' /\ HandsInv' /\ W!WaiterGeneration' /\ W!SessionAddress'
      BY Zenon, <2>1, <3>1 DEF WaitInv, FreshInv, HandsInv, W!WaiterGeneration, W!SessionAddress,
                        W!waitVars
    <3> QED
      BY <3>2, <3>3, <3>4 DEF WaitInv
  <2>3. CASE W!Accepts(c)
    <3> DEFINE new == [endpoint |-> sIpAddress, peer |-> c.peer]
    <3>1. /\ vWaiters' = m_vConnectWaiters /\ m_vConnectWaiters' = <<>>
          /\ bConnectPending' = FALSE /\ waitSessions' = waitSessions \cup {new}
          /\ completed' = completed \cup {c.gen}
      BY Zenon, <1>2, <2>3 DEF W!CompleteConnect, W!TakeWaiters
    <3>2. /\ c.gen = iConnectGeneration /\ c.peer = sIpAddress /\ c.gen # 0 /\ c.gen \in Nat
      BY <2>3 DEF W!Accepts, W!Current, WaitInv, WaitType, FlightInv
    <3>3. new.endpoint = new.peer
      BY <3>2
    <3> HIDE DEF new
    <3>4. W!SessionAddress'
      BY <3>1, <3>3 DEF WaitInv, W!SessionAddress
    <3>5. HandsInv'
      BY <2>1, <3>1, <3>2, ListedFacts DEF HandsInv
    <3>6. FreshInv' /\ HeardInv'
      BY Zenon, <2>1, <3>1 DEF WaitInv, FreshInv, W!WaiterGeneration, HeardInv, W!waitVars
    <3>7. W!WaiterGeneration' /\ m_vConnectWaiters' \in Seq(Waiters \cup {None})
      BY <3>1, <3>6, GenerationOf
    <3>8. WaitType'
      <4>1. bConnectPending' \in BOOLEAN
        BY Zenon, <3>1
      <4>2. completed' \subseteq Nat
        BY <3>1, <3>2 DEF WaitInv, WaitType
      <4> QED
        BY <2>1, <3>1, <3>7, <4>1, <4>2 DEF WaitInv, WaitType, W!waitVars
    <3>9. FlightInv'
      BY <2>1, <3>1, <3>2 DEF WaitInv, FlightInv, W!Current
    <3> QED
      BY <3>4, <3>5, <3>6, <3>7, <3>8, <3>9 DEF WaitInv
  <2> QED
    BY <2>2, <2>3
<1> QED
  BY <1>1, <1>2

\* After OnAddSession, whatever it started: the waiters taken hear of their own generation.
LEMMA CompletedStep ==
  ASSUME WaitInv, W!Completed
  PROVE  WaitInv'
<1>1. /\ posted' = posted /\ vWaiters' = <<>> /\ W!Finish(W!Range(vWaiters), TRUE)
      /\ UNCHANGED <<sIpAddress, W!connectVars, connects, waitSessions, registered, completed>>
  BY Zenon DEF W!Completed, W!serviceVars, W!flightVars, W!historyVars
<1>2. /\ thread' \in [Waiters -> {"new", "begun", "suspended", "resumed", "dropped"}]
      /\ bDone' \in [Waiters -> BOOLEAN] /\ bResult' \in [Waiters -> BOOLEAN]
      /\ \A w \in Waiters : bResult'[w] => bResult[w] \/ w \in W!Range(vWaiters) \ {None}
      /\ \A w \in Waiters : thread'[w] = "new" <=> thread[w] = "new"
  BY Zenon, <1>1, FinishFacts DEF WaitInv
<1>3. /\ 0 \notin completed'
      /\ \A w \in Waiters : bResult'[w] => bResult[w] \/ registered[w] \in completed'
  BY Zenon, <1>1, <1>2 DEF WaitInv, HandsInv, FlightInv
<1>4. FreshInv' /\ HeardInv'
  BY Zenon, <1>1, <1>2, <1>3, HeardFacts
<1>5. W!WaiterGeneration' /\ FlightInv' /\ W!SessionAddress'
  BY Zenon, <1>1, <1>4 DEF WaitInv, W!WaiterGeneration, HeardInv, FlightInv, W!SessionAddress, W!Current,
                    W!connectVars
<1>6. HandsInv' /\ vWaiters' \in Seq(Waiters \cup {None})
  <2>0. W!Range(<<>>) = {}
    BY DEF W!Range
  <2>1. vWaiters' = <<>> /\ W!Range(<<>>) = {}
    BY Zenon, <1>1, <2>0
  <2>2. HandsInv'
    BY Zenon, <2>1 DEF HandsInv, W!Range
  <2>3. vWaiters' \in Seq(Waiters \cup {None})
    BY <2>1
  <2> QED
    BY Zenon, <2>2, <2>3
<1>7. WaitType'
  BY <1>1, <1>2, <1>6 DEF WaitInv, WaitType, W!connectVars
<1> QED
  BY <1>4, <1>5, <1>6, <1>7 DEF WaitInv

\* A new generation, or none: the waiters of the old one hear false, and no connect that is
\* under way is of the new one.
LEMMA NextGeneration ==
  ASSUME WaitInv, W!Finish(W!Range(m_vConnectWaiters), FALSE), posted' = posted,
         UNCHANGED <<connects, vWaiters, registered, completed>>,
         iConnectGeneration' \in Nat, iConnectGeneration' > iConnectGeneration,
         bConnectPending' \in BOOLEAN,
         m_vConnectWaiters' = <<>> \/ m_vConnectWaiters' = <<None>>,
         waitSessions' \subseteq waitSessions
  PROVE  WaitInv'
<1>1. 0 \notin completed' /\ W!SessionAddress' /\ HandsInv'
  BY Zenon DEF WaitInv, FlightInv, W!SessionAddress, HandsInv
<1>2. /\ thread' \in [Waiters -> {"new", "begun", "suspended", "resumed", "dropped"}]
      /\ bDone' \in [Waiters -> BOOLEAN] /\ bResult' \in [Waiters -> BOOLEAN]
      /\ FreshInv'
      /\ HeardInv'
  BY Zenon, <1>1, ListFinished
<1>3. W!WaiterGeneration' /\ m_vConnectWaiters' \in Seq(Waiters \cup {None})
  BY <1>2, GenerationOf
<1>4. WaitType'
  BY <1>2, <1>3 DEF WaitInv, WaitType
<1>5. FlightInv'
  <2>1. \A c \in connects : c.gen \in Nat /\ c.gen <= iConnectGeneration
    BY DEF WaitInv, WaitType, FlightInv
  <2>2. \A c \in connects : c.gen < iConnectGeneration'
    BY <2>1 DEF WaitInv, WaitType
  <2>3. iConnectGeneration' # 0 /\ \A c \in connects : c.gen <= iConnectGeneration'
    BY <2>1, <2>2 DEF WaitInv, WaitType
  <2> QED
    BY <1>1, <2>1, <2>2, <2>3 DEF FlightInv, W!Current
<1> QED
  BY <1>1, <1>2, <1>3, <1>4, <1>5 DEF WaitInv

\* The connect is cancelled, the service goes or moves.
LEMMA ChangeStep ==
  ASSUME WaitInv, W!CancelConnect \/ W!ServiceDown \/ \E a \in Addresses : W!ServiceAt(a)
  PROVE  WaitInv'
<1>0. iConnectGeneration \in Nat
  BY DEF WaitInv, WaitType
<1>1. CASE W!CancelConnect \/ W!ServiceDown
  <2>1. /\ W!Finish(W!Range(m_vConnectWaiters), FALSE) /\ m_vConnectWaiters' = <<>>
        /\ posted' = posted /\ UNCHANGED <<connects, vWaiters, registered, completed>>
        /\ iConnectGeneration' = iConnectGeneration + 1 /\ bConnectPending' = FALSE
    BY Zenon, <1>1 DEF W!CancelConnect, W!ServiceDown, W!FinishConnectWaiters, W!flightVars, W!addVars,
                W!historyVars
  <2>2. waitSessions' \subseteq waitSessions
    BY Zenon, <1>1 DEF W!CancelConnect, W!ServiceDown, W!CloseEndpoint
  <2>3. iConnectGeneration' \in Nat /\ iConnectGeneration' > iConnectGeneration
    BY <1>0, <2>1
  <2>4. bConnectPending' \in BOOLEAN
    BY Zenon, <2>1
  <2> QED
    BY <2>1, <2>2, <2>3, <2>4, NextGeneration
<1>2. ASSUME NEW a \in Addresses, W!ServiceAt(a)
      PROVE  WaitInv'
  <2>1. posted' = posted /\ UNCHANGED <<connects, vWaiters, registered, completed>>
    BY Zenon, <1>2 DEF W!ServiceAt, W!addVars, W!historyVars
  <2>2. CASE ~bServiceDown /\ sEndpoint = a
    <3>1. UNCHANGED <<W!waitVars, sIpAddress, W!connectVars, waitSessions>>
      BY Zenon, <1>2, <2>2 DEF W!ServiceAt
    <3>2. WaitType'
      BY Zenon, <2>1, <3>1 DEF WaitInv, WaitType, W!waitVars, W!connectVars
    <3>3. FlightInv' /\ FreshInv' /\ HandsInv' /\ W!WaiterGeneration' /\ W!SessionAddress'
      BY Zenon, <2>1, <3>1 DEF WaitInv, FlightInv, FreshInv, HandsInv, W!WaiterGeneration,
                        W!SessionAddress,
                        W!Current, W!waitVars, W!connectVars
    <3> QED
      BY <3>2, <3>3 DEF WaitInv
  <2>3. CASE ~(~bServiceDown /\ sEndpoint = a)
    <3>1. W!Finish(W!Range(m_vConnectWaiters), FALSE)
      BY Zenon, <1>2, <2>3 DEF W!ServiceAt
    <3>2. waitSessions' \subseteq waitSessions
      BY Zenon, <1>2, <2>3 DEF W!ServiceAt, W!CloseEndpoint
    <3>3. \/ /\ iConnectGeneration' = iConnectGeneration + 1 /\ bConnectPending' = FALSE
             /\ m_vConnectWaiters' = <<>>
          \/ /\ iConnectGeneration' = iConnectGeneration + 2 /\ bConnectPending' = TRUE
             /\ m_vConnectWaiters' = <<None>>
      BY Zenon, <1>2, <2>3 DEF W!ServiceAt
    <3>4. /\ iConnectGeneration' \in Nat /\ iConnectGeneration' > iConnectGeneration
      BY <1>0, <3>3
    <3>5. bConnectPending' \in BOOLEAN
      BY Zenon, <3>3
    <3> QED
      BY <2>1, <3>1, <3>2, <3>3, <3>4, <3>5, NextGeneration
  <2> QED
    BY <2>2, <2>3
<1> QED
  BY <1>1, <1>2

\* A session closes, or the process stops.
LEMMA CloseOrStop ==
  ASSUME WaitInv, W!RequestStop \/ \E s \in waitSessions : W!CloseSession(s)
  PROVE  WaitInv'
<1>1. /\ UNCHANGED <<W!waitVars, posted, sIpAddress, W!connectVars, connects, vWaiters, registered,
                     completed>>
      /\ waitSessions' \subseteq waitSessions
  BY DEF W!RequestStop, W!CloseSession, W!serviceVars, W!flightVars, W!addVars, W!historyVars
<1>2. WaitType'
  BY <1>1 DEF WaitInv, WaitType, W!waitVars, W!connectVars
<1>3. FlightInv' /\ FreshInv' /\ HandsInv' /\ W!WaiterGeneration' /\ W!SessionAddress'
  BY Zenon, <1>1 DEF WaitInv, FlightInv, FreshInv, HandsInv, W!WaiterGeneration, W!SessionAddress,
              W!Current,
              W!waitVars, W!connectVars
<1> QED
  BY <1>2, <1>3 DEF WaitInv

\* The invariant of the waiters and their generations: every step of the holders of awaiters
\* and of the poll thread keeps it (oi_session_manager.cpp:506).
THEOREM WaitInvariant == W!Spec => []WaitInv
<1>1. W!Init => WaitInv
  <2> SUFFICES ASSUME W!Init PROVE WaitInv
    OBVIOUS
  <2>1. WaitType
    <3>1. /\ thread \in [Waiters -> {"new", "begun", "suspended", "resumed", "dropped"}]
          /\ bDone \in [Waiters -> BOOLEAN] /\ bResult \in [Waiters -> BOOLEAN]
          /\ registered \in [Waiters -> Nat]
      BY DEF W!Init
    <3>2. posted \subseteq Waiters /\ connects = {} /\ completed = {} /\ iConnectGeneration \in Nat
      BY DEF W!Init
    <3>3. /\ m_vConnectWaiters \in Seq(Waiters \cup {None})
          /\ vWaiters \in Seq(Waiters \cup {None})
      BY DEF W!Init
    <3>4. bConnectPending \in BOOLEAN
      BY Zenon DEF W!Init
    <3> QED
      BY <3>1, <3>2, <3>3, <3>4 DEF WaitType
  <2>2. FlightInv /\ FreshInv /\ HandsInv /\ W!WaiterGeneration /\ W!SessionAddress
    <3>1. W!Range(<<>>) = {}
      BY DEF W!Range
    <3>2. m_vConnectWaiters = <<>> /\ vWaiters = <<>>
      BY Zenon DEF W!Init
    <3>3. HandsInv
      BY Zenon, <3>1, <3>2 DEF HandsInv
    <3>4. W!WaiterGeneration
      BY <3>1, <3>2 DEF W!Init, W!WaiterGeneration
    <3>5. FlightInv
      BY DEF W!Init, FlightInv
    <3>6. FreshInv
      BY DEF W!Init, FreshInv
    <3>7. W!SessionAddress
      BY DEF W!Init, W!SessionAddress
    <3> QED
      BY Zenon, <3>3, <3>4, <3>5, <3>6, <3>7
  <2> QED
    BY <2>1, <2>2 DEF WaitInv
<1>2. WaitInv /\ [W!Next]_W!vars => WaitInv'
  <2> SUFFICES ASSUME WaitInv, [W!Next]_W!vars PROVE WaitInv'
    OBVIOUS
  <2>1. CASE UNCHANGED W!vars
    <3>1. UNCHANGED <<W!waitVars, posted, sIpAddress, W!connectVars, connects, vWaiters, registered,
                      completed, waitSessions>>
      BY <2>1 DEF W!vars, W!serviceVars, W!flightVars, W!addVars, W!historyVars
    <3>2. WaitType'
      BY <3>1 DEF WaitInv, WaitType, W!waitVars, W!connectVars
    <3> QED
      BY Zenon, <3>1, <3>2 DEF WaitInv, FlightInv, FreshInv, HandsInv, W!WaiterGeneration,
                        W!SessionAddress,
                        W!Current, W!waitVars, W!connectVars
  <2>2. CASE \E w \in Waiters : W!StartConnect(w)
    BY <2>2, StartedStep, JoinStep
  <2>3. CASE W!Next /\ ~\E w \in Waiters : W!StartConnect(w)
    BY <2>3, HolderStep, ResolvedStep, ConnectedStep, CompletedStep, ChangeStep, CloseOrStop
       DEF W!Next, W!Resolved, W!Connected
  <2> QED
    BY <2>1, <2>2, <2>3
<1> QED
  BY <1>1, <1>2, PTL DEF W!Spec

\* For any number of waiters, addresses and changes: a waiter hears true only when its own
\* generation has got a session, the list holds the pending generation and no other, and a
\* session is filed under its peer (oi_session_manager.cpp:506, 513).
THEOREM WaitSafe == W!Spec => []WaitSound
<1>1. WaitInv => WaitSound
  BY DEF WaitInv, WaitSound, W!WaitSound
<1> QED
  BY <1>1, WaitInvariant, PTL
=============================================================================
