--------------------------- MODULE RegistryServer ---------------------------
(***************************************************************************)
(* The registry (modules/registry): sessions register the address of one   *)
(* service name and id; the address is kept in Redis, where it expires,    *)
(* and in a snapshot that clients pull.                                    *)
(*                                                                         *)
(* One thread; the coroutines Register, Refresh, Withdraw and Reload each  *)
(* suspend while Redis runs a script, and everything else may happen       *)
(* meanwhile.  Redis runs the scripts in the order sent and answers in     *)
(* that order.  Its index of names and ids lists the key exactly while it  *)
(* exists, and is left out.                                                *)
(***************************************************************************)
EXTENDS Integers, Sequences

CONSTANTS
  Addresses,
  MaxSid,              \* bound: sessions
  MaxOutstanding,      \* bound: scripts under way when a request or a reload begins
  MaxFaults            \* bound: scripts not answered, and expiries while heartbeats are late

Sids == 1..MaxSid
None == "none"
NoSid == 0

VARIABLES
  m_vAlive, m_mBindings, m_vSnapshot, m_bReloading,
  sids, address,       \* sessions so far, and what each of them registers
  sent,                \* the scripts on the way to Redis
  replies,             \* those on the way back, with what they returned
  redis,               \* the value of the key
  failures, lapses     \* how many of the faults there have been

vars == <<m_vAlive, m_mBindings, m_vSnapshot, m_bReloading, sids, address, sent, replies, redis,
          failures, lapses>>

REG_TAKEN == "taken"
REG_OK == "ok"
REG_RENEWED == "renewed"
REG_FAILED == "failed" \* nothing came back

Task(op, s, v) == [op |-> op, sid |-> s, value |-> v]

Init ==
  /\ m_vAlive = {} /\ m_mBindings = [s \in Sids |-> None] /\ m_vSnapshot = None
  /\ m_bReloading = FALSE /\ sids = 0 /\ address = [s \in Sids |-> None]
  /\ sent = <<>> /\ replies = <<>> /\ redis = None
  /\ failures = 0 /\ lapses = 0

Outstanding == {sent[i] : i \in DOMAIN sent} \cup {replies[i].task : i \in DOMAIN replies}

\* A session has at most one request under way.
Busy(s) == \E t \in Outstanding : t.sid = s
Room == Len(sent) + Len(replies) < MaxOutstanding

-----------------------------------------------------------------------------
(***************************************************************************)
(* Sessions and requests.                                                  *)
(***************************************************************************)
OnAddSession(v) ==
  /\ sids < MaxSid /\ sids' = sids + 1 /\ m_vAlive' = m_vAlive \cup {sids'}
  /\ address' = [address EXCEPT ![sids'] = v]
  /\ UNCHANGED <<m_mBindings, m_vSnapshot, m_bReloading, sent, replies, redis, failures, lapses>>

\* The binding goes with the session, the snapshot at once, the key by Withdraw.
OnDelSession(s) ==
  /\ s \in m_vAlive /\ m_vAlive' = m_vAlive \ {s}
  /\ m_mBindings' = [m_mBindings EXCEPT ![s] = None]
  /\ address' = [address EXCEPT ![s] = None]
  /\ IF m_mBindings[s] = None THEN UNCHANGED <<m_vSnapshot, sent>>
     ELSE /\ m_vSnapshot' = None
          /\ sent' = Append(sent, Task("withdraw", NoSid, m_mBindings[s]))
  /\ UNCHANGED <<m_bReloading, sids, replies, redis, failures, lapses>>

\* Handle of a register request.
HandleRegister(s) ==
  /\ s \in m_vAlive /\ ~Busy(s) /\ Room /\ sent' = Append(sent, Task("register", s, address[s]))
  /\ UNCHANGED <<m_vAlive, m_mBindings, m_vSnapshot, m_bReloading, sids, address, replies,
                 redis, failures, lapses>>

\* Handle of a heartbeat; one without a binding is answered with a failure.
HandleHeartbeat(s) ==
  /\ s \in m_vAlive /\ ~Busy(s) /\ Room /\ m_mBindings[s] # None
  /\ sent' = Append(sent, Task("refresh", s, m_mBindings[s]))
  /\ UNCHANGED <<m_vAlive, m_mBindings, m_vSnapshot, m_bReloading, sids, address, replies,
                 redis, failures, lapses>>

\* The timer.
StartReload ==
  /\ ~m_bReloading /\ Room /\ m_bReloading' = TRUE
  /\ sent' = Append(sent, Task("list", NoSid, None))
  /\ UNCHANGED <<m_vAlive, m_mBindings, m_vSnapshot, sids, address, replies, redis, failures,
                 lapses>>

-----------------------------------------------------------------------------
(***************************************************************************)
(* Redis.                                                                  *)
(***************************************************************************)
\* kRegisterLua, kRefreshLua, kWithdrawLua and kListAllLua: the key afterwards, and the result.
Script(t) ==
  CASE t.op = "register" ->
         IF redis \in {None, t.value} THEN [key |-> t.value, result |-> REG_OK]
         ELSE [key |-> redis, result |-> REG_TAKEN]
    [] t.op = "refresh" ->
         IF redis = t.value THEN [key |-> redis, result |-> REG_OK]
         ELSE IF redis # None THEN [key |-> redis, result |-> REG_TAKEN]
         ELSE [key |-> t.value, result |-> REG_RENEWED]
    [] t.op = "withdraw" ->
         [key |-> IF redis = t.value THEN None ELSE redis, result |-> REG_OK]
    [] t.op = "list" -> [key |-> redis, result |-> redis]

Execute ==
  /\ sent # <<>> /\ sent' = Tail(sent) /\ redis' = Script(Head(sent)).key
  /\ replies' = Append(replies, [task |-> Head(sent), result |-> Script(Head(sent)).result])
  /\ UNCHANGED <<m_vAlive, m_mBindings, m_vSnapshot, m_bReloading, sids, address, failures,
                 lapses>>

\* CallRedis fails, after the script or before it.
ExecuteFails(ran) ==
  /\ sent # <<>> /\ failures + lapses < MaxFaults /\ failures' = failures + 1 /\ sent' = Tail(sent)
  /\ redis' = IF ran THEN Script(Head(sent)).key ELSE redis
  /\ replies' = Append(replies, [task |-> Head(sent), result |-> REG_FAILED])
  /\ UNCHANGED <<m_vAlive, m_mBindings, m_vSnapshot, m_bReloading, sids, address, lapses>>

Held == \E s \in m_vAlive : m_mBindings[s] = redis

\* The key expires: no session keeps it.
Expire ==
  /\ redis # None /\ ~Held /\ redis' = None
  /\ UNCHANGED <<m_vAlive, m_mBindings, m_vSnapshot, m_bReloading, sids, address, sent,
                 replies, failures, lapses>>

\* The key expires because the heartbeat is late.
Lapse ==
  /\ redis # None /\ Held /\ failures + lapses < MaxFaults /\ lapses' = lapses + 1 /\ redis' = None
  /\ UNCHANGED <<m_vAlive, m_mBindings, m_vSnapshot, m_bReloading, sids, address, sent,
                 replies, failures>>

-----------------------------------------------------------------------------
(***************************************************************************)
(* The coroutines go on.                                                   *)
(***************************************************************************)
Returned(op) == replies # <<>> /\ Head(replies).task.op = op /\ replies' = Tail(replies)
Got == Head(replies).result
Asked == Head(replies).task

\* Mutant: the session that died while Redis was asked has been cleaned up by OnDelSession.
RegisterOfDead_Forgotten(s, v) == UNCHANGED sent

\* Register finds that its session died: the key is withdrawn.
RegisterOfDead(s, v) ==
  sent' = IF Got = REG_OK THEN Append(sent, Task("withdraw", NoSid, v)) ELSE sent

Register ==
  LET s == Asked.sid
      v == Asked.value
  IN
  /\ Returned("register")
  /\ IF s \notin m_vAlive
     THEN RegisterOfDead(s, v) /\ UNCHANGED <<m_mBindings, m_vSnapshot>>
     ELSE /\ UNCHANGED sent
          /\ m_mBindings' = [m_mBindings EXCEPT ![s] = IF Got = REG_OK THEN v ELSE @]
          /\ m_vSnapshot' = IF Got = REG_OK THEN v ELSE m_vSnapshot
  /\ UNCHANGED <<m_vAlive, m_bReloading, sids, address, redis, failures, lapses>>

\* Refresh: the session is gone or bound to something else, refreshed, or has lost the key.
Refresh ==
  LET s == Asked.sid
      v == Asked.value
      written == Got \in {REG_OK, REG_RENEWED}
      found == s \in m_vAlive /\ m_mBindings[s] = v
      lost == found /\ Got = REG_TAKEN
  IN
  /\ Returned("refresh")
  /\ sent' = IF ~found /\ written THEN Append(sent, Task("withdraw", NoSid, v)) ELSE sent
  /\ m_mBindings' = [m_mBindings EXCEPT ![s] = IF lost THEN None ELSE @]
  /\ m_vSnapshot' = IF found /\ Got = REG_RENEWED THEN v
                    ELSE IF lost /\ m_vSnapshot = v THEN None
                    ELSE m_vSnapshot
  /\ UNCHANGED <<m_vAlive, m_bReloading, sids, address, redis, failures, lapses>>

\* Withdraw: a list asked for before it may have brought the entry back.
Withdraw ==
  /\ Returned("withdraw")
  /\ m_vSnapshot' = IF \E s \in Sids : m_mBindings[s] # None THEN m_vSnapshot ELSE None
  /\ UNCHANGED <<m_vAlive, m_mBindings, m_bReloading, sids, address, sent, redis, failures,
                 lapses>>

\* Mutant: a list that fails leaves the reload under way.
ReloadEnds_Pending == m_bReloading' = (Got = REG_FAILED)

ReloadEnds == m_bReloading' = FALSE

Reload ==
  /\ Returned("list") /\ ReloadEnds
  /\ m_vSnapshot' = IF Got = REG_FAILED THEN m_vSnapshot ELSE Got
  /\ UNCHANGED <<m_vAlive, m_mBindings, sids, address, sent, redis, failures, lapses>>

GoOn == Register \/ Refresh \/ Withdraw \/ Reload

Next ==
  \/ StartReload \/ Execute \/ Expire \/ Lapse \/ GoOn
  \/ \E ran \in BOOLEAN : ExecuteFails(ran)
  \/ \E s \in Sids : OnDelSession(s) \/ HandleRegister(s) \/ HandleHeartbeat(s)
  \/ \E v \in Addresses : OnAddSession(v)

Spec == Init /\ [][Next]_vars

\* Redis answers, coroutines go on, the reload timer fires, a registered session sends its
\* heartbeats, and a key nobody refreshes expires.
FairSpec ==
  /\ Spec /\ WF_vars(Execute) /\ WF_vars(GoOn) /\ SF_vars(StartReload) /\ WF_vars(Expire)
  /\ \A s \in Sids : SF_vars(HandleHeartbeat(s))

-----------------------------------------------------------------------------
(***************************************************************************)
(* Properties.                                                             *)
(***************************************************************************)
\* A key is never left to its expiry while Redis answers: it belongs to a live session that is
\* bound to its value, or a coroutine is under way that will bind or withdraw it, whatever
\* happened to the session while Redis was asked (registry_server.cpp:380, 426).
NoOrphanKey ==
  redis # None /\ failures = 0 => Held \/ \E t \in Outstanding : t.value = redis

\* The snapshot converges to the truth: once no session is bound to an address it leaves the
\* snapshot, and once the only bound address stays bound it is listed, even after lists,
\* heartbeats and withdrawals that crossed (registry_server.cpp:251, 371, 475).
SnapshotConverges ==
  \A v \in Addresses :
    /\ <>[](\A s \in Sids : m_mBindings[s] # v /\ ~Busy(s)) => <>[](m_vSnapshot # v)
    /\ <>[]({m_mBindings[s] : s \in Sids} \ {None} = {v}) => <>[](m_vSnapshot = v)
=============================================================================
