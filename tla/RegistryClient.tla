--------------------------- MODULE RegistryClient ---------------------------
(***************************************************************************)
(* The pulls of RegistryClient (oi_registry.cpp): three kinds of pull, of  *)
(* tasks, of threads that block and of a timer, share one connection whose *)
(* replies carry no number and are matched in order.                       *)
(*                                                                         *)
(* Each action is a section under stPendingMutex.  A pull that a section   *)
(* takes out of the queues belongs to it, so that FinishPull after the     *)
(* section is part of the action.  A reply is known by the pull it         *)
(* answers.  Registration and heartbeats are not part of this module.      *)
(***************************************************************************)
EXTENDS Integers, SequencesExt

CONSTANTS
  Async, Sync, Periodic,    \* the pulls, by kind
  iMaximumPendingPulls,
  MaxSid                    \* bound: sessions

Pulls == Async \cup Sync \cup Periodic
INVALID_SID == 0
None == "none"
Error == "error"            \* every code but OI_OK

VARIABLES
  pc,                       \* where the caller of a pull is
  result,                   \* what it was finished with, or applied
  late,                     \* pulls whose deadline has passed
  bConnected, bConnecting, bFailed, iSessionId,
  vPendingPulls,            \* pulls sent, with bSynchronous
  vDeferredPulls,           \* pulls that wait for the connect
  bGot, vResponseList,      \* the answer of the one pull that blocks
  attempt,                  \* whether the SessionManager has a connect under way
  sids, session,            \* sessions so far; "open" in the map, "closed", "deleted"
  wire                      \* the pulls sent on a session that the registry will answer

callVars == <<pc, result, late>>
flagVars == <<bConnected, bConnecting, bFailed, iSessionId>>
syncVars == <<bGot, vResponseList>>
netVars == <<attempt, sids, session, wire>>
vars == <<callVars, flagVars, vPendingPulls, vDeferredPulls, syncVars, netVars>>

Init ==
  /\ pc = [p \in Pulls |-> "new"] /\ result = [p \in Pulls |-> None] /\ late = {}
  /\ bConnected = FALSE /\ bConnecting = FALSE /\ bFailed = FALSE /\ iSessionId = INVALID_SID
  /\ vPendingPulls = <<>> /\ vDeferredPulls = <<>> /\ bGot = FALSE /\ vResponseList = None
  /\ attempt = FALSE /\ sids = 0 /\ session = [s \in 1..MaxSid |-> "none"]
  /\ wire = [s \in 1..MaxSid |-> <<>>]

Open == {s \in 1..MaxSid : session[s] = "open"}
PullsOf(pending) == {pending[i].pull : i \in DOMAIN pending}

\* FinishPull for a set of pulls; those that block or are the timer's have no callback.
Finish(some, code) ==
  /\ result' = [p \in Pulls |-> IF p \in some \cap Async THEN code ELSE result[p]]
  /\ pc' = [p \in Pulls |-> IF p \in some \cap Async THEN "done" ELSE pc[p]]

\* Connect while not connected: StartClient, which finds nothing to do if a session of the
\* endpoint is in the map.
Connect ==
  /\ bConnecting' = TRUE
  /\ bFailed' = (bFailed /\ bConnecting)
  /\ attempt' = (attempt \/ (~bConnecting /\ Open = {}))

\* The entry EnqueueSentPull adds; only a pull that blocks may write the shared answer.
Sent(p) == [pull |-> p, bSynchronous |-> p \in Sync]
CanEnqueuePull == Len(vPendingPulls) + Len(vDeferredPulls) < iMaximumPendingPulls

-----------------------------------------------------------------------------
(***************************************************************************)
(* Pulls begin.                                                            *)
(***************************************************************************)
\* PullAsync: refused, sent, deferred until the connect ends, or failed at once.
PullAsync(p) ==
  /\ p \in Async /\ pc[p] = "new"
  /\ IF ~CanEnqueuePull
     THEN Finish({p}, Error) /\ UNCHANGED <<flagVars, vPendingPulls, vDeferredPulls, attempt, wire>>
     ELSE IF ~bConnected
     THEN /\ Connect /\ vDeferredPulls' = Append(vDeferredPulls, p)
          /\ pc' = [pc EXCEPT ![p] = "wait"]
          /\ UNCHANGED <<bConnected, iSessionId, result, vPendingPulls, wire>>
     ELSE IF iSessionId \in Open
     THEN /\ vPendingPulls' = Append(vPendingPulls, Sent(p))
          /\ wire' = [wire EXCEPT ![iSessionId] = Append(@, p)]
          /\ pc' = [pc EXCEPT ![p] = "wait"]
          /\ UNCHANGED <<flagVars, vDeferredPulls, result, attempt>>
     ELSE Finish({p}, Error) /\ UNCHANGED <<flagVars, vPendingPulls, vDeferredPulls, attempt, wire>>
  /\ UNCHANGED <<late, syncVars, sids, session>>

\* Pull, of the timer: it connects, or sends.
PullConnects(p) ==
  /\ p \in Periodic /\ pc[p] = "new" /\ ~bConnected /\ Connect
  /\ UNCHANGED <<callVars, bConnected, iSessionId, vPendingPulls, vDeferredPulls, syncVars, sids,
                 session, wire>>

Pull(p) ==
  /\ p \in Periodic /\ pc[p] = "new" /\ bConnected /\ CanEnqueuePull /\ iSessionId \in Open
  /\ vPendingPulls' = Append(vPendingPulls, Sent(p))
  /\ wire' = [wire EXCEPT ![iSessionId] = Append(@, p)]
  /\ pc' = [pc EXCEPT ![p] = "sent"]
  /\ UNCHANGED <<result, late, flagVars, vDeferredPulls, syncVars, attempt, sids, session>>

\* PullSync, one at a time (stSyncMutex): Ensure begins a connect.
PullSync(p) ==
  /\ p \in Sync /\ pc[p] = "new" /\ \A q \in Sync : pc[q] \in {"new", "done"}
  /\ pc' = [pc EXCEPT ![p] = "ensure"]
  /\ IF bConnected THEN UNCHANGED <<bConnecting, bFailed, attempt>> ELSE Connect
  /\ UNCHANGED <<result, late, bConnected, iSessionId, vPendingPulls, vDeferredPulls, syncVars,
                 sids, session, wire>>

Return(p, value) ==
  pc' = [pc EXCEPT ![p] = "done"] /\ result' = [result EXCEPT ![p] = value]

\* Ensure fails (bFailed, or a second has passed), or there is no room.
SyncRefused(p) ==
  /\ p \in Sync /\ pc[p] = "ensure" /\ Return(p, Error)
  /\ ~bConnected \/ ~CanEnqueuePull
  /\ UNCHANGED <<late, flagVars, vPendingPulls, vDeferredPulls, syncVars, netVars>>

SyncEnqueue(p) ==
  /\ p \in Sync /\ pc[p] = "ensure" /\ bConnected /\ CanEnqueuePull /\ bGot' = FALSE
  /\ IF iSessionId \in Open
     THEN /\ vPendingPulls' = Append(vPendingPulls, Sent(p))
          /\ wire' = [wire EXCEPT ![iSessionId] = Append(@, p)]
          /\ pc' = [pc EXCEPT ![p] = "wait"]
     ELSE pc' = [pc EXCEPT ![p] = "expire"] /\ UNCHANGED <<vPendingPulls, wire>>
  /\ UNCHANGED <<result, late, flagVars, vDeferredPulls, vResponseList, attempt, sids, session>>

\* The answer is there; a code of an expired or broken connection comes without a list.
SyncGot(p) ==
  /\ p \in Sync /\ pc[p] = "wait" /\ bGot /\ Return(p, vResponseList)
  /\ UNCHANGED <<late, flagVars, vPendingPulls, vDeferredPulls, syncVars, netVars>>

\* The pull that blocks gives up its right to write the answer; its place in the queue stays.
Cancelled(pending) == [i \in DOMAIN pending |-> [pending[i] EXCEPT !.bSynchronous = FALSE]]

\* WaitFlag gave up: the connection failed or a second has passed.
SyncGivesUp(p) ==
  /\ p \in Sync /\ pc[p] = "wait" /\ ~bGot /\ (bFailed \/ p \in late)
  /\ vPendingPulls' = Cancelled(vPendingPulls) /\ pc' = [pc EXCEPT ![p] = "expire"]
  /\ UNCHANGED <<result, late, flagVars, vDeferredPulls, syncVars, netVars>>

-----------------------------------------------------------------------------
(***************************************************************************)
(* Deadlines.                                                              *)
(***************************************************************************)
\* The deadline of a pull in a queue, or of the thread that waits for it.
DeadlinePasses(p) ==
  /\ p \in PullsOf(vPendingPulls) \cup ToSet(vDeferredPulls) \/ (p \in Sync /\ pc[p] = "wait")
  /\ p \notin late
  /\ late' = late \cup {p}
  /\ UNCHANGED <<pc, result, flagVars, vPendingPulls, vDeferredPulls, syncVars, netVars>>

\* Mutant: the session is closed once the lock is released.
CloseExpired_Later(s) == session' = session

\* CloseSession under the lock: a later Connect must not find the session in the map.
CloseExpired(s) ==
  session' = IF s \in Open THEN [session EXCEPT ![s] = "closed"] ELSE session

\* The shared answer of a section that drops the pulls sent.
Dropped ==
  LET dropped == \E i \in DOMAIN vPendingPulls : vPendingPulls[i].bSynchronous IN
  /\ bGot' = (bGot \/ dropped)
  /\ vResponseList' = IF dropped THEN Error ELSE vResponseList

\* ExpirePulls, without its caller: deferred pulls that are late end; if one that was sent is
\* late, the whole connection is given up with all of them.
Expire ==
  LET expired == ToSet(vDeferredPulls) \cap late
      reset == PullsOf(vPendingPulls) \cap late # {}
      invalidated == IF reset THEN PullsOf(vPendingPulls) ELSE {}
      over == (expired \cup invalidated) \cap Async
  IN
  /\ vDeferredPulls' = SelectSeq(vDeferredPulls, LAMBDA p : p \notin late)
  /\ result' = [p \in Pulls |-> IF p \in over THEN Error ELSE result[p]]
  /\ IF reset
     THEN /\ vPendingPulls' = <<>> /\ iSessionId' = INVALID_SID /\ CloseExpired(iSessionId)
          /\ bConnected' = FALSE /\ bFailed' = TRUE /\ Dropped
     ELSE UNCHANGED <<vPendingPulls, iSessionId, session, bConnected, bFailed, syncVars>>
  /\ UNCHANGED <<late, bConnecting, attempt, sids, wire>>

Ended(p) == p \in Async /\ result'[p] # None

\* The timer.
ExpirePulls ==
  /\ (PullsOf(vPendingPulls) \cup ToSet(vDeferredPulls)) \cap late # {} /\ Expire
  /\ pc' = [p \in Pulls |-> IF Ended(p) THEN "done" ELSE pc[p]]

\* PullSync that gave up runs it too, and returns.
SyncExpires(p) ==
  /\ p \in Sync /\ pc[p] = "expire" /\ Expire
  /\ pc' = [q \in Pulls |-> IF q = p \/ Ended(q) THEN "done" ELSE pc[q]]

-----------------------------------------------------------------------------
(***************************************************************************)
(* The poll thread.                                                        *)
(***************************************************************************)
\* OnAddSession: pulls of an earlier connection fail, those deferred are sent if not late.
OnAddSession ==
  LET s == sids + 1
      now == SelectSeq(vDeferredPulls, LAMBDA p : p \notin late)
  IN
  /\ attempt /\ attempt' = FALSE /\ s <= MaxSid /\ sids' = s
  /\ session' = [session EXCEPT ![s] = "open"]
  /\ iSessionId' = s /\ bConnected' = TRUE /\ bConnecting' = FALSE /\ bFailed' = FALSE
  /\ vPendingPulls' = [i \in DOMAIN now |-> Sent(now[i])] /\ vDeferredPulls' = <<>>
  /\ wire' = [wire EXCEPT ![s] = now]
  /\ Finish(PullsOf(vPendingPulls) \cup (ToSet(vDeferredPulls) \cap late), Error)
  /\ UNCHANGED <<late, syncVars>>

\* Mutant: the deferred pulls are forgotten.
OnConnectFailed_Silent ==
  /\ attempt /\ attempt' = FALSE /\ bConnecting' = FALSE /\ bFailed' = TRUE
  /\ vDeferredPulls' = <<>>
  /\ UNCHANGED <<callVars, bConnected, iSessionId, vPendingPulls, syncVars, sids, session, wire>>

\* OnConnectFailed: the pulls that wait for the connect fail.
OnConnectFailed ==
  /\ attempt /\ attempt' = FALSE /\ bConnecting' = FALSE /\ bFailed' = TRUE
  /\ vDeferredPulls' = <<>> /\ Finish(ToSet(vDeferredPulls), Error)
  /\ UNCHANGED <<late, bConnected, iSessionId, vPendingPulls, syncVars, sids, session, wire>>

\* The session ends (PassiveClose, or a send that fails); OnDelSession comes later.
SessionEnds(s) ==
  /\ s \in Open /\ session' = [session EXCEPT ![s] = "closed"]
  /\ UNCHANGED <<callVars, flagVars, vPendingPulls, vDeferredPulls, syncVars, attempt, sids, wire>>

\* OnDelSession of the current session; of another one it returns at once.
OnDelSession(s) ==
  /\ session[s] = "closed" /\ session' = [session EXCEPT ![s] = "deleted"]
  /\ IF s = iSessionId
     THEN /\ iSessionId' = INVALID_SID /\ bConnected' = FALSE /\ bFailed' = TRUE
          /\ vPendingPulls' = <<>> /\ vDeferredPulls' = <<>>
          /\ Finish(PullsOf(vPendingPulls) \cup ToSet(vDeferredPulls), Error)
     ELSE UNCHANGED <<iSessionId, bConnected, bFailed, vPendingPulls, vDeferredPulls, pc, result>>
  /\ wire' = [wire EXCEPT ![s] = <<>>]
  /\ UNCHANGED <<late, bConnecting, syncVars, attempt, sids>>

\* Mutant: a frame of a connection that was given up is still taken.
Current_Any(s) == TRUE

\* Whether a frame is of the connection the pulls were sent on.
Current(s) == s = iSessionId

\* OnFrame: the reply belongs to the first pull; a frame of another session is dropped.
OnFrame(s) ==
  LET first == Head(vPendingPulls)
      got == IF first.pull \in late THEN Error ELSE Head(wire[s])
  IN
  /\ wire[s] # <<>> /\ wire' = [wire EXCEPT ![s] = Tail(@)]
  /\ IF ~Current(s) \/ vPendingPulls = <<>>
     THEN UNCHANGED <<vPendingPulls, syncVars, pc, result>>
     ELSE /\ vPendingPulls' = Tail(vPendingPulls)
          /\ IF first.pull \in Async
             THEN Finish({first.pull}, got) /\ UNCHANGED syncVars
             ELSE IF first.bSynchronous
             THEN bGot' = TRUE /\ vResponseList' = got /\ UNCHANGED <<pc, result>>
             ELSE /\ result' = [result EXCEPT ![first.pull] =
                                 IF first.pull \in Periodic THEN got ELSE @]
                  /\ UNCHANGED <<pc, syncVars>>
  /\ UNCHANGED <<late, flagVars, vDeferredPulls, attempt, sids, session>>

Next ==
  \/ \E p \in Pulls : \/ PullAsync(p) \/ PullConnects(p) \/ Pull(p) \/ PullSync(p)
                      \/ SyncRefused(p) \/ SyncEnqueue(p) \/ SyncGot(p) \/ SyncGivesUp(p)
                      \/ DeadlinePasses(p) \/ SyncExpires(p)
  \/ ExpirePulls \/ OnAddSession \/ OnConnectFailed
  \/ \E s \in 1..MaxSid : SessionEnds(s) \/ OnDelSession(s) \/ OnFrame(s)

Spec == Init /\ [][Next]_vars

\* Time passes, the timer fires, threads that block go on, sessions that ended are reclaimed.
FairSpec ==
  /\ Spec /\ WF_vars(ExpirePulls)
  /\ \A p \in Pulls : WF_vars(DeadlinePasses(p))
  /\ \A p \in Sync : WF_vars(SyncRefused(p) \/ SyncEnqueue(p) \/ SyncGot(p) \/ SyncGivesUp(p)
                             \/ SyncExpires(p))
  /\ \A s \in 1..MaxSid : WF_vars(OnDelSession(s))

-----------------------------------------------------------------------------
(***************************************************************************)
(* Properties.                                                             *)
(***************************************************************************)
\* A pull gets its own reply or an error: the replies of pulls that gave up, expired or were
\* sent on an earlier connection never answer another one, of whatever kind
\* (oi_registry.cpp:545, 772).
PullMatches == \A p \in Pulls : result[p] \in {None, Error, p}

\* The flag that keeps everyone from connecting is set only while a connect is under way whose
\* end will clear it; otherwise the client would never connect again
\* (oi_registry.cpp:406, 548).
ConnectIsUnderWay == bConnecting => attempt

\* Every pull ends: a task's callback is called and a blocked thread returns, with or without
\* an answer or a connection (oi_registry.cpp:521, 591, 875).
EveryPullEnds ==
  /\ \A p \in Async : pc[p] = "wait" ~> pc[p] = "done"
  /\ \A p \in Sync : pc[p] = "ensure" ~> pc[p] = "done"
=============================================================================
