----------------------------- MODULE HttpClient -----------------------------
(***************************************************************************)
(* Http::Client (oi_http.cpp): requests wait in a queue, one is in flight  *)
(* on the one connection, and each is published once: answered, failed or  *)
(* timed out.  A response carries no number, so that a connection on which *)
(* another response than the awaited one may come is closed.               *)
(*                                                                         *)
(* Callers await; everything else is a handler on the poll thread, and     *)
(* handlers call each other: a response may close the session, whose       *)
(* OnSessionClosed pumps the queue into a new connect.  The client is      *)
(* therefore one record, and the handlers are functions of it.  A connect  *)
(* that ends inside StartClient is a later step here, and the stop of the  *)
(* process is left out.                                                    *)
(***************************************************************************)
EXTENDS Integers, SequencesExt

CONSTANTS
  Requests,
  MaxSid,              \* bound: sessions of the client
  m_bReuse

None == "none"
Failed == "failed"
INVALID_SID == 0

VARIABLES
  client,              \* the client, see Init
  caller, iGate,       \* of a request
  posted,              \* requests whose EnqueueOnLoop is queued
  timers               \* requests whose timer is armed

vars == <<client, caller, iGate, posted, timers>>

Init ==
  /\ client = [queue |-> <<>>, flight |-> None, session |-> INVALID_SID, closed |-> FALSE,
               connecting |-> FALSE,                    \* m_bConnecting
               pending |-> FALSE,                       \* a connect of the SessionManager
               active |-> {},                           \* sessions that await a response
               sids |-> 0,                              \* sessions so far
               wire |-> [s \in 1..MaxSid |-> <<>>],     \* requests the peer will answer, in order
               done |-> [c \in Requests |-> None]]      \* what a request is published with
  /\ caller = [c \in Requests |-> "new"] /\ iGate = [c \in Requests |-> "Idle"]
  /\ posted = {} /\ timers = {}

-----------------------------------------------------------------------------
(***************************************************************************)
(* The handlers as functions of the client.                                *)
(***************************************************************************)
\* Publish: the first result counts.
Publish(x, c, result) ==
  IF c = None \/ x.done[c] # None THEN x ELSE [x EXCEPT !.done[c] = result]

\* The part of Pump that asks for a connection.
BeginConnect(x) ==
  IF x.closed \/ x.flight # None \/ x.queue = <<>> \/ x.connecting THEN x
  ELSE [x EXCEPT !.connecting = TRUE, !.pending = TRUE]

\* CloseSession of the current session, with the OnSessionClosed it calls.
CloseSession(x) ==
  BeginConnect([x EXCEPT !.session = INVALID_SID, !.active = @ \ {x.session}])

\* Pump: send the next request, or connect; a session that refuses the bytes is closed.
Pump(x, refuse) ==
  IF x.closed \/ x.flight # None \/ x.queue = <<>> THEN x
  ELSE IF x.session = INVALID_SID THEN BeginConnect(x)
  ELSE LET c == Head(x.queue)
           taken == [x EXCEPT !.queue = Tail(@)]
       IN IF refuse THEN CloseSession(Publish(taken, c, Failed))
          ELSE [taken EXCEPT !.flight = c, !.active = @ \cup {x.session},
                             !.wire[x.session] = Append(@, c)]

\* Mutant: the session is asked to close only, as for a request that is still queued.
AfterTimeout_Reused(x) == Pump([x EXCEPT !.active = @ \ {x.session}], FALSE)

\* OnTimeout of the request in flight: its answer may still come on this session.
AfterTimeout(x) == CloseSession(x)

\* OnHttpFinished: a response, or the failure to read one, on session s.
OnHttpFinished(x, s, result, drop, refuse) ==
  LET current == s = x.session
      y == [x EXCEPT !.active = @ \ {s}, !.flight = IF current THEN None ELSE @]
      z == IF current THEN Publish(y, x.flight, result) ELSE y
  IN IF drop /\ current THEN CloseSession(z) ELSE Pump(z, refuse)

\* OnConnectFailed: FailFront, and connect again for the others.
OnConnectFailed(x) ==
  LET y == [x EXCEPT !.pending = FALSE, !.connecting = FALSE] IN
  IF y.closed \/ y.queue = <<>> THEN y
  ELSE BeginConnect(Publish([y EXCEPT !.queue = Tail(@)], Head(y.queue), Failed))

\* Shutdown: what waits is failed, the connect cancelled, the session closed.
Shutdown(x) ==
  [x EXCEPT !.closed = TRUE, !.flight = None, !.queue = <<>>, !.pending = FALSE,
            !.session = INVALID_SID, !.active = @ \ {x.session},
            !.done = [c \in Requests |->
                       IF @[c] = None /\ (c = x.flight \/ c \in ToSet(x.queue)) THEN Failed
                       ELSE @[c]]]

\* A handler has run: Publish exchanged the gates of the requests it published.
Handled(x) ==
  LET new == {c \in Requests : client.done[c] = None /\ x.done[c] # None} IN
  /\ client' = x
  /\ iGate' = [c \in Requests |-> IF c \in new THEN "Ready" ELSE iGate[c]]
  /\ caller' = [c \in Requests |->
                 IF c \in new /\ iGate[c] = "Waiting" THEN "resumed" ELSE caller[c]]

-----------------------------------------------------------------------------
(***************************************************************************)
(* The callers.                                                            *)
(***************************************************************************)
\* await_suspend up to Enqueue, from a thread that is not the poll thread.
Enqueue(c) ==
  /\ caller[c] = "new" /\ caller' = [caller EXCEPT ![c] = "posted"]
  /\ posted' = posted \cup {c}
  /\ UNCHANGED <<client, iGate, timers>>

\* Mutant: a result that is there already is not noticed.
ExchangeWaiting_Always(c) ==
  /\ caller[c] = "posted" /\ caller' = [caller EXCEPT ![c] = "suspended"]
  /\ iGate' = [iGate EXCEPT ![c] = "Waiting"]
  /\ UNCHANGED <<client, posted, timers>>

\* The end of await_suspend.
ExchangeWaiting(c) ==
  /\ caller[c] = "posted"
  /\ caller' = [caller EXCEPT ![c] = IF iGate[c] = "Ready" THEN "resumed" ELSE "suspended"]
  /\ iGate' = [iGate EXCEPT ![c] = "Waiting"]
  /\ UNCHANGED <<client, posted, timers>>

-----------------------------------------------------------------------------
(***************************************************************************)
(* The poll thread.                                                        *)
(***************************************************************************)
EnqueueOnLoop(c, refuse) ==
  /\ c \in posted /\ posted' = posted \ {c}
  /\ IF client.closed
     THEN Handled(Publish(client, c, Failed)) /\ UNCHANGED timers
     ELSE /\ Handled(Pump([client EXCEPT !.queue = Append(@, c)], refuse))
          /\ timers' = timers \cup {c}

OnTimeout(c) ==
  LET x == Publish(client, c, Failed) IN
  /\ c \in timers /\ timers' = timers \ {c}
  /\ Handled(IF client.done[c] # None THEN client
             ELSE IF client.flight = c THEN AfterTimeout([x EXCEPT !.flight = None])
             ELSE [x EXCEPT !.queue = Remove(@, c)])
  /\ UNCHANGED posted

\* OnDataIn: the next response on a session, perhaps one that is closed but not reclaimed.
\* Nobody awaits it (OnIdleBytes), or it is read; drop: the connection is not kept.
OnDataIn(s, drop, refuse) ==
  LET x == [client EXCEPT !.wire[s] = Tail(@)] IN
  /\ client.wire[s] # <<>> /\ (drop \/ m_bReuse)
  /\ Handled(IF s \in client.active
             THEN OnHttpFinished(x, s, Head(client.wire[s]), drop, refuse)
             ELSE IF s = client.session THEN CloseSession(x)
             ELSE x)
  /\ UNCHANGED <<posted, timers>>

\* The response is malformed or too long.
Malformed ==
  /\ client.session \in client.active
  /\ Handled(OnHttpFinished(client, client.session, Failed, TRUE, FALSE))
  /\ UNCHANGED <<posted, timers>>

\* PassiveClose: FinishEof ends a response that the end of the connection delimits, or fails it.
SessionEnds ==
  LET s == client.session
      x == [client EXCEPT !.flight = None]
  IN
  /\ s # INVALID_SID
  /\ IF client.flight = None THEN Handled(CloseSession(client))
     ELSE \E result \in {Failed, Head(client.wire[s])} :
            Handled(CloseSession(Publish(x, client.flight, result)))
  /\ UNCHANGED <<posted, timers>>

\* OnAddSession: the connect has succeeded.
OnAddSession(refuse) ==
  LET s == client.sids + 1 IN
  /\ client.pending /\ s <= MaxSid
  /\ Handled(Pump([client EXCEPT !.sids = s, !.session = s, !.connecting = FALSE,
                                 !.pending = FALSE], refuse))
  /\ UNCHANGED <<posted, timers>>

ConnectFailed == client.pending /\ Handled(OnConnectFailed(client)) /\ UNCHANGED <<posted, timers>>

\* The owner gives the client up.
Close == ~client.closed /\ Handled(Shutdown(client)) /\ UNCHANGED <<posted, timers>>

Next ==
  \/ \E c \in Requests : Enqueue(c) \/ ExchangeWaiting(c) \/ OnTimeout(c)
  \/ \E c \in Requests, refuse \in BOOLEAN : EnqueueOnLoop(c, refuse)
  \/ \E s \in 1..MaxSid, drop, refuse \in BOOLEAN : OnDataIn(s, drop, refuse)
  \/ \E refuse \in BOOLEAN : OnAddSession(refuse)
  \/ Malformed \/ SessionEnds \/ ConnectFailed \/ Close

Spec == Init /\ [][Next]_vars

\* A caller that has begun to await gets to the end of await_suspend, the poll thread runs what
\* is posted to it, and an armed timer fires.  Nothing is asked of the peer.
FairSpec ==
  /\ Spec
  /\ \A c \in Requests : /\ WF_vars(ExchangeWaiting(c))
                         /\ WF_vars(EnqueueOnLoop(c, FALSE))
                         /\ WF_vars(OnTimeout(c))

-----------------------------------------------------------------------------
(***************************************************************************)
(* Properties.                                                             *)
(***************************************************************************)
\* A request that succeeds is published with the response to that request: the late response
\* of a request that has timed out never answers the next one, whatever connection it comes on
\* (oi_http.cpp:711, 804).
ResponseMatches == \A c \in Requests : client.done[c] \in {None, Failed, c}

\* Requests never wait without a reason: while the queue is not empty, a request is in flight
\* on the session the client holds, or a connect is under way whose end pumps the queue
\* (oi_http.cpp:744, 939, 953).
QueueAttended ==
  client.queue # <<>> => IF client.flight = None THEN client.connecting /\ client.pending
                         ELSE client.session \in client.active

\* Every awaited request ends: its caller goes on, even if the peer never answers and the
\* client is closed at any moment (oi_http.cpp:784, 874, 984).
EveryCallEnds == \A c \in Requests : caller[c] = "posted" ~> caller[c] = "resumed"
=============================================================================
