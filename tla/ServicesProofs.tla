--------------------------- MODULE ServicesProofs ---------------------------
(***************************************************************************)
(* Proofs about the servers of the service layer.  RegistryServer: no key  *)
(* of Redis is left to its expiry, by way of what the scripts that are     *)
(* under way may still write.  RpcServer: the usage of every session is    *)
(* the sum of its leases, and the fragment timer runs exactly while a      *)
(* frame is incomplete, by way of the numbers of the frames still to cut.  *)
(***************************************************************************)
EXTENDS MCServers, FiniteSetTheorems, WellFoundedInduction, TLAPS

-----------------------------------------------------------------------------
(* RegistryServer *)

Values == Addresses \cup {R!None}
Tasks == [op : {"register", "refresh", "withdraw"}, sid : Nat, value : Values]
         \cup {R!Task("list", R!NoSid, R!None)}
Results == Values \cup {R!REG_OK, R!REG_TAKEN, R!REG_RENEWED, R!REG_FAILED}

RegistryType ==
  /\ sids \in 0..MaxSid /\ m_vAlive \subseteq 1..sids
  /\ m_mBindings \in [R!Sids -> Values] /\ address \in [R!Sids -> Values]
  /\ sent \in Seq(Tasks) /\ replies \in Seq([task : Tasks, result : Results])
  /\ redis \in Values /\ failures \in Nat

\* A session registers one address: a script under way asks for nothing else, and nothing else is
\* bound.
AskedInv ==
  /\ \A t \in R!Outstanding :
       t.sid <= sids /\ (t.op = "register" /\ t.sid \in m_vAlive => t.value = address[t.sid])
  /\ \A s \in R!Sids : m_mBindings[s] \in {R!None, address[s]}
  /\ \A s \in R!Sids \ m_vAlive : address[s] = R!None

\* The reply tells a coroutine that the key has value v: it will bind v, or withdraw it.
Covers(r, v) ==
  /\ r.task.value = v
  /\ \/ r.task.op = "register" /\ r.result = R!REG_OK
     \/ r.task.op = "refresh" /\ r.result \in {R!REG_OK, R!REG_RENEWED}

\* The key is bound, or about to be written or withdrawn, or a coroutine is about to hear of it.
KeyInv ==
  redis # R!None /\ failures = 0 =>
    \/ R!Held
    \/ \E i \in DOMAIN sent : sent[i].value = redis
    \/ \E i \in DOMAIN replies : Covers(replies[i], redis)

\* A session is told that it has lost the key; if the key has its value again, the answer to the
\* script that wrote it comes after.
LostInv ==
  \A i \in DOMAIN replies :
    /\ replies[i].task.op = "refresh" /\ replies[i].result = R!REG_TAKEN
    /\ redis = replies[i].task.value /\ redis # R!None /\ failures = 0
    => \E j \in DOMAIN replies : j > i /\ Covers(replies[j], redis)

RegistryInv == RegistryType /\ AskedInv /\ KeyInv /\ LostInv


-----------------------------------------------------------------------------
\* What Append and Tail leave of a sequence.
LEMMA Pushed ==
  ASSUME NEW T, NEW q \in Seq(T), NEW x \in T
  PROVE  /\ Append(q, x) \in Seq(T) /\ Len(q) + 1 \in DOMAIN Append(q, x)
         /\ Append(q, x)[Len(q) + 1] = x
         /\ \A i \in DOMAIN q : i \in DOMAIN Append(q, x) /\ Append(q, x)[i] = q[i]
         /\ \A i \in DOMAIN q : i < Len(q) + 1
         /\ \A i \in DOMAIN Append(q, x) : i \in DOMAIN q \/ i = Len(q) + 1
  OBVIOUS

\* What Head and Tail are of a queue.
LEMMA Popped ==
  ASSUME NEW T, NEW q \in Seq(T), q # <<>>
  PROVE  /\ Head(q) \in T /\ Tail(q) \in Seq(T) /\ 1 \in DOMAIN q /\ Head(q) = q[1]
         /\ \A i \in DOMAIN Tail(q) : i + 1 \in DOMAIN q /\ Tail(q)[i] = q[i + 1]
         /\ \A i \in DOMAIN q : i # 1 => i - 1 \in DOMAIN Tail(q) /\ Tail(q)[i - 1] = q[i]
         /\ DOMAIN q \subseteq Nat /\ DOMAIN Tail(q) \subseteq Nat
  OBVIOUS

\* The two queues, and what they hold.
Ran(q) == {q[i] : i \in DOMAIN q}

\* What Append adds to the elements of a queue.
LEMMA RanPushed ==
  ASSUME NEW T, NEW q \in Seq(T), NEW x \in T
  PROVE  Ran(Append(q, x)) = Ran(q) \cup {x}
<1>1. \A y : y \in Ran(Append(q, x)) => y \in Ran(q) \cup {x}
  BY Pushed DEF Ran
<1>2. \A y : y \in Ran(q) \cup {x} => y \in Ran(Append(q, x))
  BY Pushed DEF Ran
<1> QED
  BY <1>1, <1>2

\* What Tail leaves of the elements of a queue.
LEMMA RanPopped ==
  ASSUME NEW T, NEW q \in Seq(T), q # <<>>
  PROVE  Ran(q) = Ran(Tail(q)) \cup {Head(q)}
<1>1. ASSUME NEW y \in Ran(q)
      PROVE  y \in Ran(Tail(q)) \cup {Head(q)}
  <2>1. PICK i \in DOMAIN q : y = q[i]
    BY DEF Ran
  <2>2. CASE i = 1
    BY <2>1, <2>2, Popped
  <2>3. CASE i # 1
    <3>1. i - 1 \in DOMAIN Tail(q) /\ Tail(q)[i - 1] = y
      BY <2>1, <2>3, Popped
    <3> QED
      BY <3>1 DEF Ran
  <2> QED
    BY <2>2, <2>3
<1>2. \A y : y \in Ran(Tail(q)) \cup {Head(q)} => y \in Ran(q)
  BY Popped DEF Ran
<1> QED
  BY <1>1, <1>2

Replies == [task : Tasks, result : Results]

\* The scripts under way, in terms of the two queues.
LEMMA OutstandingIs == R!Outstanding = Ran(sent) \cup {r.task : r \in Ran(replies)}
  BY DEF R!Outstanding, Ran

\* The elements of a queue are of its type.
LEMMA RanType ==
  ASSUME NEW T, NEW q \in Seq(T)
  PROVE  Ran(q) \subseteq T
  BY DEF Ran

\* What a script that is under way may be.
LEMMA TaskFacts ==
  ASSUME NEW t \in Tasks
  PROVE  /\ t.op \in {"register", "refresh", "withdraw", "list"} /\ t.sid \in Nat
         /\ t.value \in Values /\ (t.op = "list" => t.value = R!None)
  BY DEF Tasks, R!Task, R!NoSid, Values

\* A script that the registry sends is a Task.
LEMMA TaskType ==
  ASSUME NEW op \in {"register", "refresh", "withdraw"}, NEW s \in Nat, NEW v \in Values
  PROVE  /\ R!Task(op, s, v) \in Tasks /\ R!Task(op, s, v).op = op /\ R!Task(op, s, v).sid = s
         /\ R!Task(op, s, v).value = v
  BY DEF R!Task, Tasks

\* So is the one that Reload sends.
LEMMA ListType ==
  /\ R!Task("list", R!NoSid, R!None) \in Tasks /\ R!Task("list", R!NoSid, R!None).op = "list"
  /\ R!Task("list", R!NoSid, R!None).sid = R!NoSid
  BY DEF R!Task, Tasks

\* What a script returns and leaves in the key.
LEMMA ScriptType ==
  ASSUME NEW t \in Tasks, redis \in Values
  PROVE  R!Script(t).key \in Values /\ R!Script(t).result \in Results
<1>1. /\ t.op \in {"register", "refresh", "withdraw", "list"}
      /\ t.value \in Values /\ R!None \in Values
  BY TaskFacts DEF Values
<1>2. CASE t.op = "register"
  BY <1>1, <1>2 DEF R!Script, Results
<1>3. CASE t.op = "refresh"
  BY <1>1, <1>3 DEF R!Script, Results
<1>4. CASE t.op = "withdraw"
  BY <1>1, <1>4 DEF R!Script, Results
<1>5. CASE t.op = "list"
  BY <1>1, <1>5 DEF R!Script, Results
<1> QED
  BY <1>1, <1>2, <1>3, <1>4, <1>5

\* What every step does to the queues, and the type of what it leaves.
LEMMA RegistryTypeStep == RegistryType /\ [R!Next]_R!vars => RegistryType'
<1> SUFFICES ASSUME RegistryType, [R!Next]_R!vars
             PROVE  RegistryType'
  OBVIOUS
<1>0. /\ sids \in 0..MaxSid /\ MaxSid \in Nat /\ m_vAlive \subseteq 1..sids
      /\ m_mBindings \in [R!Sids -> Values] /\ address \in [R!Sids -> Values]
      /\ sent \in Seq(Tasks) /\ replies \in Seq(Replies) /\ redis \in Values /\ failures \in Nat
      /\ m_vAlive \subseteq R!Sids /\ R!NoSid \in Nat /\ R!None \in Values
      /\ \A s \in m_vAlive : s \in Nat
  BY RegistryAssumption DEF RegistryType, Replies, R!Sids, R!NoSid, Values
<1> DEFINE Rest == UNCHANGED <<m_vAlive, sids, m_mBindings, address, replies, redis, failures>>
<1>1. ASSUME NEW t \in Tasks, sent' = Append(sent, t), Rest
      PROVE  RegistryType'
  <2>1. sent' \in Seq(Tasks)
    BY <1>0, <1>1, Pushed
  <2> QED
    BY <1>0, <1>1, <2>1 DEF RegistryType, Replies
<1>2. ASSUME R!StartReload
      PROVE  RegistryType'
  <2>1. R!Task("list", R!NoSid, R!None) \in Tasks
    BY ListType
  <2> QED
    BY <1>1, <1>2, <2>1 DEF R!StartReload
<1>3. ASSUME NEW s \in R!Sids, R!HandleRegister(s)
      PROVE  RegistryType'
  <2>1. R!Task("register", s, address[s]) \in Tasks
    BY <1>0, TaskType DEF R!Sids
  <2> QED
    BY <1>1, <1>3, <2>1 DEF R!HandleRegister
<1>4. ASSUME NEW s \in R!Sids, R!HandleHeartbeat(s)
      PROVE  RegistryType'
  <2>1. R!Task("refresh", s, m_mBindings[s]) \in Tasks
    BY <1>0, TaskType DEF R!Sids
  <2> QED
    BY <1>1, <1>4, <2>1 DEF R!HandleHeartbeat
<1>5. ASSUME NEW s \in R!Sids, R!OnDelSession(s)
      PROVE  RegistryType'
  <2>1. R!Task("withdraw", R!NoSid, m_mBindings[s]) \in Tasks
    BY <1>0, TaskType
  <2>2. sent' \in Seq(Tasks)
    BY SMTT(30), <1>0, <1>5, <2>1, Pushed DEF R!OnDelSession
  <2>3. m_mBindings' \in [R!Sids -> Values] /\ address' \in [R!Sids -> Values]
    BY <1>0, <1>5 DEF R!OnDelSession
  <2>4. m_vAlive' \subseteq 1..sids
    BY <1>0, <1>5 DEF R!OnDelSession
  <2> QED
    BY <1>0, <1>5, <2>2, <2>3, <2>4 DEF R!OnDelSession, RegistryType, Replies
<1>6. ASSUME NEW v \in Addresses, R!OnAddSession(v)
      PROVE  RegistryType'
  <2>1. sids' \in 0..MaxSid /\ sids' = sids + 1 /\ m_vAlive' = m_vAlive \cup {sids'}
    BY <1>0, <1>6 DEF R!OnAddSession
  <2>2. m_vAlive' \subseteq 1..sids'
    BY <1>0, <2>1
  <2>3. address' \in [R!Sids -> Values]
    BY Zenon, <1>0, <1>6 DEF R!OnAddSession, Values
  <2> QED
    BY <1>0, <1>6, <2>1, <2>2, <2>3 DEF R!OnAddSession, RegistryType, Replies
<1>7. ASSUME NEW result \in Results, sent # <<>>, sent' = Tail(sent), redis' \in Values,
             replies' = Append(replies, [task |-> Head(sent), result |-> result]),
             failures' \in Nat, UNCHANGED <<m_vAlive, sids, m_mBindings, address>>
      PROVE  RegistryType'
  <2>1. Head(sent) \in Tasks /\ sent' \in Seq(Tasks)
    BY <1>0, <1>7, Popped
  <2>2. [task |-> Head(sent), result |-> result] \in Replies
    BY <1>7, <2>1 DEF Replies
  <2>3. replies' \in Seq(Replies)
    BY <1>0, <1>7, <2>2, Pushed
  <2> QED
    BY <1>0, <1>7, <2>1, <2>3 DEF RegistryType, Replies
<1>8. ASSUME R!Execute
      PROVE  RegistryType'
  <2>1. Head(sent) \in Tasks
    BY <1>0, <1>8, Popped DEF R!Execute
  <2>2. R!Script(Head(sent)).key \in Values /\ R!Script(Head(sent)).result \in Results
    BY <1>0, <2>1, ScriptType
  <2> QED
    BY <1>0, <1>7, <1>8, <2>2 DEF R!Execute
<1>9. ASSUME NEW ran \in BOOLEAN, R!ExecuteFails(ran)
      PROVE  RegistryType'
  <2>1. Head(sent) \in Tasks
    BY <1>0, <1>9, Popped DEF R!ExecuteFails
  <2>2. R!Script(Head(sent)).key \in Values /\ R!REG_FAILED \in Results
    BY <1>0, <2>1, ScriptType DEF Results
  <2>3. redis' \in Values /\ failures' \in Nat
    BY <1>0, <1>9, <2>2 DEF R!ExecuteFails
  <2> QED
    BY <1>0, <1>7, <1>9, <2>2, <2>3 DEF R!ExecuteFails
<1>10. ASSUME R!Expire \/ R!Lapse
       PROVE  RegistryType'
  BY Zenon, <1>0, <1>10 DEF R!Expire, R!Lapse, RegistryType, Replies
<1>11. ASSUME replies # <<>>, replies' = Tail(replies),
              sent' = sent \/ sent' = Append(sent, R!Task("withdraw", R!NoSid, R!Asked.value)),
              m_mBindings' \in [R!Sids -> Values],
              UNCHANGED <<m_vAlive, sids, address, redis, failures>>
       PROVE  RegistryType'
  <2>1. Head(replies) \in Replies /\ replies' \in Seq(Replies)
    BY <1>0, <1>11, Popped
  <2>2. R!Asked.value \in Values
    BY <2>1, TaskFacts DEF Replies, R!Asked
  <2>3. R!Task("withdraw", R!NoSid, R!Asked.value) \in Tasks
    BY <1>0, <2>2, TaskType
  <2>4. sent' \in Seq(Tasks)
    BY SMTT(30), <1>0, <1>11, <2>3, Pushed
  <2> QED
    BY <1>0, <1>11, <2>1, <2>4 DEF RegistryType, Replies
<1>12. ASSUME R!GoOn
       PROVE  RegistryType'
  <2>1. replies # <<>> /\ replies' = Tail(replies) /\ R!Asked.value \in Values
    <3>1. replies # <<>> /\ replies' = Tail(replies)
      BY Zenon, <1>12 DEF R!GoOn, R!Register, R!Refresh, R!Withdraw, R!Reload, R!Returned
    <3>2. Head(replies) \in Replies
      BY <1>0, <3>1, Popped
    <3> QED
      BY <3>1, <3>2, TaskFacts DEF Replies, R!Asked
  <2>2. CASE R!Register
    <3>1. m_mBindings' \in [R!Sids -> Values]
      BY <1>0, <2>1, <2>2 DEF R!Register
    <3> QED
      BY <1>11, <2>1, <2>2, <3>1 DEF R!Register, R!RegisterOfDead
  <2>3. CASE R!Refresh
    <3>1. m_mBindings' \in [R!Sids -> Values]
      BY Zenon, <1>0, <2>3 DEF R!Refresh
    <3> QED
      BY <1>11, <2>1, <2>3, <3>1 DEF R!Refresh
  <2>4. CASE R!Withdraw \/ R!Reload
    BY <1>0, <1>11, <2>1, <2>4 DEF R!Withdraw, R!Reload
  <2> QED
    BY <1>12, <2>2, <2>3, <2>4 DEF R!GoOn
<1>13. CASE UNCHANGED R!vars
  BY <1>0, <1>13 DEF R!vars, RegistryType, Replies
<1> QED
  BY <1>2, <1>3, <1>4, <1>5, <1>6, <1>8, <1>9, <1>10, <1>12, <1>13 DEF R!Next


\* The scripts under way after a step are those before it and, perhaps, one more.
LEMMA AskedStep == RegistryType /\ AskedInv /\ [R!Next]_R!vars => AskedInv'
<1> SUFFICES ASSUME RegistryType, AskedInv, [R!Next]_R!vars
             PROVE  AskedInv'
  OBVIOUS
<1>0. /\ sids \in 0..MaxSid /\ MaxSid \in Nat /\ m_vAlive \subseteq 1..sids
      /\ m_mBindings \in [R!Sids -> Values] /\ address \in [R!Sids -> Values]
      /\ sent \in Seq(Tasks) /\ replies \in Seq(Replies)
      /\ m_vAlive \subseteq R!Sids /\ R!NoSid \in Nat /\ R!NoSid <= sids /\ R!None \in Values
      /\ \A s \in m_vAlive : s \in Nat /\ s <= sids
  BY RegistryAssumption DEF RegistryType, Replies, R!Sids, R!NoSid, Values
<1>1. /\ \A t \in R!Outstanding : t.sid <= sids
      /\ \A t \in R!Outstanding :
           t.op = "register" /\ t.sid \in m_vAlive => t.value = address[t.sid]
      /\ \A s \in R!Sids : m_mBindings[s] \in {R!None, address[s]}
      /\ \A s \in R!Sids \ m_vAlive : address[s] = R!None
  BY DEF AskedInv
<1>2. \A t \in R!Outstanding : t.sid \in Nat
  <2>1. \A t \in Ran(sent) : t.sid \in Nat
    BY <1>0, RanType, TaskFacts
  <2>2. \A r \in Ran(replies) : r.task.sid \in Nat
    <3>1. \A r \in Ran(replies) : r \in Replies
      BY <1>0, RanType
    <3> QED
      BY <3>1, TaskFacts DEF Replies
  <2> QED
    BY <2>1, <2>2, OutstandingIs
<1>3. ASSUME NEW t \in Tasks, sent' = Append(sent, t), replies' = replies
      PROVE  R!Outstanding' = R!Outstanding \cup {t}
  <2>1. Ran(sent') = Ran(sent) \cup {t}
    BY <1>0, <1>3, RanPushed
  <2>2. R!Outstanding' = Ran(sent') \cup {r.task : r \in Ran(replies')}
    BY DEF R!Outstanding, Ran
  <2> QED
    BY <1>3, <2>1, <2>2, OutstandingIs
<1>4. ASSUME NEW result \in Results, sent # <<>>, sent' = Tail(sent),
             replies' = Append(replies, [task |-> Head(sent), result |-> result])
      PROVE  R!Outstanding' = R!Outstanding
  <2>1. Head(sent) \in Tasks /\ Ran(sent) = Ran(sent') \cup {Head(sent)}
    BY <1>0, <1>4, Popped, RanPopped
  <2>2. [task |-> Head(sent), result |-> result] \in Replies
    BY <1>4, <2>1 DEF Replies
  <2>3. Ran(replies') = Ran(replies) \cup {[task |-> Head(sent), result |-> result]}
    BY <1>0, <1>4, <2>2, RanPushed
  <2>4. R!Outstanding' = Ran(sent') \cup {r.task : r \in Ran(replies')}
    BY DEF R!Outstanding, Ran
  <2>5. {r.task : r \in Ran(replies')} = {r.task : r \in Ran(replies)} \cup {Head(sent)}
    <3> DEFINE new == [task |-> Head(sent), result |-> result]
    <3>1. new.task = Head(sent)
      OBVIOUS
    <3> HIDE DEF new
    <3>2. Ran(replies') = Ran(replies) \cup {new}
      BY <2>3 DEF new
    <3> QED
      BY <3>1, <3>2
  <2> QED
    BY <2>1, <2>4, <2>5, OutstandingIs
<1>5. ASSUME replies # <<>>, replies' = Tail(replies),
             sent' = sent \/ sent' = Append(sent, R!Task("withdraw", R!NoSid, R!Asked.value))
      PROVE  /\ R!Asked \in R!Outstanding /\ R!Asked \in Tasks
             /\ \A t \in R!Outstanding' :
                  t \in R!Outstanding \/ (t.op = "withdraw" /\ t.sid = R!NoSid)
  <2>1. Head(replies) \in Replies /\ Ran(replies) = Ran(replies') \cup {Head(replies)}
    BY <1>0, <1>5, Popped, RanPopped
  <2>2. R!Asked \in Tasks /\ R!Asked.value \in Values
    BY <2>1, TaskFacts DEF R!Asked, Replies
  <2> DEFINE w == R!Task("withdraw", R!NoSid, R!Asked.value)
  <2>3. w \in Tasks /\ w.op = "withdraw" /\ w.sid = R!NoSid
    BY <1>0, <2>2, TaskType
  <2> HIDE DEF w
  <2>4. Ran(sent') = Ran(sent) \/ Ran(sent') = Ran(sent) \cup {w}
    <3>1. CASE sent' = sent
      BY <3>1
    <3>2. CASE sent' = Append(sent, w)
      BY <1>0, <2>3, <3>2, RanPushed
    <3> QED
      BY <1>5, <3>1, <3>2 DEF w
  <2>5. R!Outstanding' = Ran(sent') \cup {r.task : r \in Ran(replies')}
    BY DEF R!Outstanding, Ran
  <2>6. R!Asked \in R!Outstanding
    BY <2>1, OutstandingIs DEF R!Asked
  <2> QED
    BY <2>1, <2>2, <2>3, <2>4, <2>5, <2>6, OutstandingIs
<1>6. ASSUME R!StartReload
      PROVE  AskedInv'
  <2> DEFINE t == R!Task("list", R!NoSid, R!None)
  <2>1. t \in Tasks /\ t.op = "list" /\ t.sid = R!NoSid
    BY ListType
  <2> HIDE DEF t
  <2>2. R!Outstanding' = R!Outstanding \cup {t}
    BY <1>3, <1>6, <2>1 DEF R!StartReload, t
  <2> QED
    BY <1>0, <1>1, <1>6, <2>1, <2>2 DEF R!StartReload, AskedInv
<1>7. ASSUME NEW s \in R!Sids, R!HandleRegister(s)
      PROVE  AskedInv'
  <2> DEFINE t == R!Task("register", s, address[s])
  <2>1. t \in Tasks /\ t.sid = s /\ t.value = address[s] /\ s \in m_vAlive
    BY <1>0, <1>7, TaskType DEF R!HandleRegister, R!Sids
  <2> HIDE DEF t
  <2>2. R!Outstanding' = R!Outstanding \cup {t}
    BY <1>3, <1>7, <2>1 DEF R!HandleRegister, t
  <2> QED
    BY <1>0, <1>1, <1>7, <2>1, <2>2 DEF R!HandleRegister, AskedInv
<1>8. ASSUME NEW s \in R!Sids, R!HandleHeartbeat(s)
      PROVE  AskedInv'
  <2> DEFINE t == R!Task("refresh", s, m_mBindings[s])
  <2>1. t \in Tasks /\ t.op = "refresh" /\ t.sid = s /\ s \in m_vAlive
    BY <1>0, <1>8, TaskType DEF R!HandleHeartbeat, R!Sids
  <2> HIDE DEF t
  <2>2. R!Outstanding' = R!Outstanding \cup {t}
    BY Zenon, <1>3, <1>8, <2>1 DEF R!HandleHeartbeat, t
  <2> QED
    BY <1>0, <1>1, <1>8, <2>1, <2>2 DEF R!HandleHeartbeat, AskedInv
<1>9. ASSUME NEW s \in R!Sids, R!OnDelSession(s)
      PROVE  AskedInv'
  <2> DEFINE t == R!Task("withdraw", R!NoSid, m_mBindings[s])
  <2>1. t \in Tasks /\ t.op = "withdraw" /\ t.sid = R!NoSid
    BY <1>0, TaskType
  <2> HIDE DEF t
  <2>2. replies' = replies /\ (sent' = sent \/ sent' = Append(sent, t))
    BY <1>9 DEF R!OnDelSession, t
  <2>3. R!Outstanding' = R!Outstanding \/ R!Outstanding' = R!Outstanding \cup {t}
    BY Zenon, <1>3, <2>1, <2>2 DEF R!Outstanding
  <2>4. /\ m_vAlive' = m_vAlive \ {s} /\ sids' = sids
        /\ address'[s] = R!None /\ m_mBindings'[s] = R!None
        /\ \A n \in R!Sids : n # s => address'[n] = address[n] /\ m_mBindings'[n] = m_mBindings[n]
    BY <1>0, <1>9 DEF R!OnDelSession
  <2> QED
    BY Zenon, <1>0, <1>1, <2>1, <2>3, <2>4 DEF AskedInv
<1>10. ASSUME NEW v \in Addresses, R!OnAddSession(v)
       PROVE  AskedInv'
  <2>1. /\ sids' = sids + 1 /\ sids' \in R!Sids /\ m_vAlive' = m_vAlive \cup {sids'}
        /\ m_mBindings' = m_mBindings /\ sent' = sent /\ replies' = replies
        /\ \A n \in R!Sids : n # sids' => address'[n] = address[n]
    BY <1>0, <1>10 DEF R!OnAddSession, R!Sids
  <2>2. R!Outstanding' = R!Outstanding
    BY Zenon, <2>1 DEF R!Outstanding
  <2>3. \A t \in R!Outstanding' : t.sid <= sids' /\ t.sid # sids'
    BY <1>0, <1>1, <1>2, <2>1, <2>2
  <2>4. m_mBindings[sids'] = R!None
    <3>1. sids' \notin m_vAlive
      BY <1>0, <2>1
    <3> QED
      BY <1>1, <2>1, <3>1
  <2> QED
    BY Zenon, <1>0, <1>1, <2>1, <2>2, <2>3, <2>4 DEF AskedInv
<1>11. ASSUME R!Execute \/ \E ran \in BOOLEAN : R!ExecuteFails(ran)
       PROVE  AskedInv'
  <2>1. sent # <<>> /\ sent' = Tail(sent)
    BY <1>11 DEF R!Execute, R!ExecuteFails
  <2>2. Head(sent) \in Tasks
    BY <1>0, <2>1, Popped
  <2>3. R!Script(Head(sent)).result \in Results /\ R!REG_FAILED \in Results
    BY <2>2, ScriptType DEF Results, RegistryType
  <2>4. R!Outstanding' = R!Outstanding
    BY <1>4, <1>11, <2>1, <2>3 DEF R!Execute, R!ExecuteFails
  <2> QED
    BY Zenon, <1>1, <1>11, <2>4 DEF R!Execute, R!ExecuteFails, AskedInv
<1>12. ASSUME R!Expire \/ R!Lapse
       PROVE  AskedInv'
  BY <1>12 DEF R!Expire, R!Lapse, AskedInv, R!Outstanding
<1>13. ASSUME replies # <<>>, replies' = Tail(replies),
              sent' = sent \/ sent' = Append(sent, R!Task("withdraw", R!NoSid, R!Asked.value)),
              UNCHANGED <<m_vAlive, sids, address>>,
              \A s \in R!Sids : m_mBindings'[s] \in {R!None, address[s]}
       PROVE  AskedInv'
  BY Zenon, <1>0, <1>1, <1>5, <1>13 DEF AskedInv
<1>14. ASSUME R!GoOn
       PROVE  AskedInv'
  <2>1. replies # <<>> /\ replies' = Tail(replies)
    BY Zenon, <1>14 DEF R!GoOn, R!Register, R!Refresh, R!Withdraw, R!Reload, R!Returned
  <2>2. CASE R!Register
    <3>1. sent' = sent \/ sent' = Append(sent, R!Task("withdraw", R!NoSid, R!Asked.value))
      BY <2>2 DEF R!Register, R!RegisterOfDead
    <3>2. R!Asked \in R!Outstanding /\ R!Asked.op = "register"
      BY <1>5, <2>1, <2>2, <3>1 DEF R!Register, R!Returned, R!Asked
    <3>3. \A s \in R!Sids : m_mBindings'[s] \in {R!None, address[s]}
      BY <1>0, <1>1, <2>2, <3>2 DEF R!Register
    <3> QED
      BY Zenon, <1>13, <2>1, <2>2, <3>1, <3>3 DEF R!Register
  <2>3. CASE R!Refresh
    <3>1. \A s \in R!Sids : m_mBindings'[s] \in {R!None, address[s]}
      BY Zenon, <1>0, <1>1, <2>3 DEF R!Refresh
    <3> QED
      BY Zenon, <1>13, <2>1, <2>3, <3>1 DEF R!Refresh
  <2>4. CASE R!Withdraw \/ R!Reload
    BY Zenon, <1>1, <1>13, <2>1, <2>4 DEF R!Withdraw, R!Reload
  <2> QED
    BY <1>14, <2>2, <2>3, <2>4 DEF R!GoOn
<1>15. CASE UNCHANGED R!vars
  BY SMTT(30), <1>15 DEF R!vars, AskedInv, R!Outstanding
<1> QED
  BY <1>6, <1>7, <1>8, <1>9, <1>10, <1>11, <1>12, <1>14, <1>15 DEF R!Next


-----------------------------------------------------------------------------
\* KeyInv and LostInv, step by step.
KeyAndLost == KeyInv /\ LostInv

\* A script joins the queue; the bindings may go if it withdraws what they held.
LEMMA KeyPush ==
  ASSUME RegistryType, KeyAndLost, NEW t \in Tasks,
         sent' = Append(sent, t), UNCHANGED <<replies, redis, failures>>,
         R!Held => R!Held' \/ t.value = redis
  PROVE  KeyAndLost'
<1>1. sent \in Seq(Tasks)
  BY DEF RegistryType
<1>2. \A i \in DOMAIN sent : i \in DOMAIN sent' /\ sent'[i] = sent[i]
  BY <1>1, Pushed
<1>3. Len(sent) + 1 \in DOMAIN sent' /\ sent'[Len(sent) + 1] = t
  BY <1>1, Pushed
<1>4. KeyInv'
  BY Zenon, <1>2, <1>3 DEF KeyAndLost, KeyInv, Covers
<1>5. LostInv'
  BY Zenon DEF KeyAndLost, LostInv, Covers
<1> QED
  BY <1>4, <1>5 DEF KeyAndLost

\* What the scripts do to the key: it changes to what the script asked for, which the reply
\* then covers, or it is gone; and a reply that says taken found another value.
LEMMA ScriptFacts ==
  ASSUME NEW t \in Tasks
  PROVE  /\ R!Script(t).key \in {redis, R!None, t.value}
         /\ R!Script(t).key = t.value /\ t.value # R!None
              => Covers([task |-> t, result |-> R!Script(t).result], t.value)
         /\ t.op = "refresh" /\ R!Script(t).result = R!REG_TAKEN => R!Script(t).key # t.value
<1>1. t.op \in {"register", "refresh", "withdraw", "list"} /\ (t.op = "list" => t.value = R!None)
  BY TaskFacts
<1>2. CASE t.op = "register"
  BY <1>2 DEF R!Script, Covers, R!REG_OK, R!REG_TAKEN, R!REG_RENEWED
<1>3. CASE t.op = "refresh"
  BY <1>3 DEF R!Script, Covers, R!REG_OK, R!REG_TAKEN, R!REG_RENEWED
<1>4. CASE t.op = "withdraw"
  BY <1>4 DEF R!Script
<1>5. CASE t.op = "list"
  BY <1>1, <1>5 DEF R!Script
<1> QED
  BY Zenon, <1>1, <1>2, <1>3, <1>4, <1>5

\* Redis runs the script at the head of the queue.
LEMMA KeyExecute ==
  ASSUME RegistryType, KeyAndLost, R!Execute
  PROVE  KeyAndLost'
<1> DEFINE t == Head(sent)
           r == [task |-> t, result |-> R!Script(t).result]
<1>1. sent \in Seq(Tasks) /\ replies \in Seq(Replies) /\ redis \in Values
  BY DEF RegistryType, Replies
<1>2. sent # <<>> /\ t \in Tasks
  BY <1>1, Popped DEF R!Execute
<1>3. r \in Replies /\ r.task = t /\ r.result = R!Script(t).result
  BY Zenon, <1>1, <1>2, ScriptType DEF Replies
<1>4. /\ sent' = Tail(sent) /\ replies' = Append(replies, r) /\ redis' = R!Script(t).key
      /\ failures' = failures /\ m_vAlive' = m_vAlive /\ m_mBindings' = m_mBindings
  BY DEF R!Execute
<1>5. /\ redis' \in {redis, R!None, t.value}
      /\ redis' = t.value /\ t.value # R!None => Covers(r, t.value)
      /\ t.op = "refresh" /\ r.result = R!REG_TAKEN => redis' # t.value
  BY Zenon, <1>2, <1>3, <1>4, ScriptFacts
<1>6. \A i \in DOMAIN sent : sent[i] = t \/ \E j \in DOMAIN sent' : sent'[j] = sent[i]
  <2> SUFFICES ASSUME NEW i \in DOMAIN sent, i # 1
               PROVE  i - 1 \in DOMAIN Tail(sent) /\ Tail(sent)[i - 1] = sent[i]
    BY Zenon, <1>1, <1>2, <1>4, Popped
  <2> QED
    BY <1>1, <1>2, Popped
<1> HIDE DEF t, r
<1> DEFINE n == Len(replies) + 1
<1>7. /\ n \in DOMAIN replies' /\ replies'[n] = r
      /\ \A i \in DOMAIN replies : i \in DOMAIN replies' /\ replies'[i] = replies[i] /\ i < n
      /\ \A i \in DOMAIN replies' : i \in DOMAIN replies \/ i = n
  BY <1>1, <1>3, <1>4, Pushed
<1> HIDE DEF n
<1>8. KeyInv'
  <2> SUFFICES ASSUME redis' # R!None, failures = 0
               PROVE  \/ R!Held'
                      \/ \E i \in DOMAIN sent' : sent'[i].value = redis'
                      \/ \E i \in DOMAIN replies' : Covers(replies'[i], redis')
    BY Zenon, <1>4 DEF KeyInv, Covers
  <2>1. CASE redis' = t.value
    BY Zenon, <1>5, <1>7, <2>1
  <2>2. CASE redis' # t.value
    <3>1. redis' = redis
      BY <1>5, <2>2
    <3>2. CASE R!Held
      BY Zenon, <1>4, <3>1, <3>2 DEF R!Held
    <3>3. CASE \E i \in DOMAIN sent : sent[i].value = redis
      BY <1>6, <2>2, <3>1, <3>3
    <3>4. CASE \E i \in DOMAIN replies : Covers(replies[i], redis)
      BY <1>7, <3>1, <3>4
    <3> QED
      BY Zenon, <3>1, <3>2, <3>3, <3>4 DEF KeyAndLost, KeyInv
  <2> QED
    BY Zenon, <2>1, <2>2
<1>9. LostInv'
  <2> SUFFICES ASSUME NEW i \in DOMAIN replies', replies'[i].task.op = "refresh",
                      replies'[i].result = R!REG_TAKEN, redis' = replies'[i].task.value,
                      redis' # R!None, failures = 0
               PROVE  \E j \in DOMAIN replies' : j > i /\ Covers(replies'[j], redis')
    BY <1>4 DEF LostInv, Covers
  <2>1. i # n
    BY Zenon, <1>3, <1>5, <1>7
  <2>2. i \in DOMAIN replies /\ replies'[i] = replies[i] /\ n > i
    BY Zenon, <1>1, <1>7, <2>1 DEF n
  <2>3. CASE redis' = redis
    <3>1. PICK j \in DOMAIN replies : j > i /\ Covers(replies[j], redis)
      BY <2>2, <2>3 DEF KeyAndLost, LostInv
    <3> QED
      BY <1>7, <2>3, <3>1
  <2>4. CASE redis' = t.value
    BY <1>5, <1>7, <2>2, <2>4
  <2> QED
    BY <1>5, <2>3, <2>4
<1> QED
  BY <1>8, <1>9 DEF KeyAndLost

\* A reply arrives: the bindings may go if the reply says taken or covers what replaces them.
LEMMA KeyReply ==
  ASSUME RegistryType, KeyAndLost, replies # <<>>, replies' = Tail(replies),
         UNCHANGED <<redis, failures>>,
         \A i \in DOMAIN sent : i \in DOMAIN sent' /\ sent'[i] = sent[i],
         redis # R!None /\ Covers(Head(replies), redis)
           => R!Held' \/ \E i \in DOMAIN sent' : sent'[i].value = redis,
         redis # R!None /\ R!Held
           => R!Held' \/ (R!Asked.op = "refresh" /\ R!Got = R!REG_TAKEN /\ redis = R!Asked.value)
  PROVE  KeyAndLost'
<1>1. replies \in Seq(Replies)
  BY DEF RegistryType, Replies
<1>2. /\ 1 \in DOMAIN replies /\ Head(replies) = replies[1]
      /\ \A i \in DOMAIN replies' : i + 1 \in DOMAIN replies /\ replies'[i] = replies[i + 1]
      /\ \A i \in DOMAIN replies :
           i # 1 => i - 1 \in DOMAIN replies' /\ replies'[i - 1] = replies[i]
      /\ DOMAIN replies \subseteq Nat /\ DOMAIN replies' \subseteq Nat
  BY Zenon, <1>1, Popped
<1>3. KeyInv'
  <2> SUFFICES ASSUME redis # R!None, failures = 0
               PROVE  \/ R!Held'
                      \/ \E i \in DOMAIN sent' : sent'[i].value = redis
                      \/ \E i \in DOMAIN replies' : Covers(replies'[i], redis)
    BY Zenon DEF KeyInv, Covers
  <2>1. ASSUME NEW j \in DOMAIN replies, j # 1, Covers(replies[j], redis)
        PROVE  \E i \in DOMAIN replies' : Covers(replies'[i], redis)
    <3>1. j - 1 \in DOMAIN replies' /\ replies'[j - 1] = replies[j]
      BY Zenon, <1>2, <2>1
    <3> QED
      BY Zenon, <2>1, <3>1
  <2>2. CASE R!Held /\ ~R!Held'
    <3>1. replies[1].task.op = "refresh" /\ replies[1].result = R!REG_TAKEN
          /\ redis = replies[1].task.value
      BY <1>2, <2>2 DEF R!Asked, R!Got
    <3>2. PICK j \in DOMAIN replies : j > 1 /\ Covers(replies[j], redis)
      BY <1>2, <3>1 DEF KeyAndLost, LostInv
    <3> QED
      BY <1>2, <2>1, <3>2
  <2>3. CASE \E i \in DOMAIN sent : sent[i].value = redis
    BY <2>3
  <2>4. CASE \E i \in DOMAIN replies : Covers(replies[i], redis)
    <3>1. PICK i \in DOMAIN replies : Covers(replies[i], redis)
      BY <2>4
    <3>2. CASE i = 1
      BY <1>2, <3>1, <3>2
    <3>3. CASE i # 1
      BY <2>1, <3>1, <3>3
    <3> QED
      BY Zenon, <3>2, <3>3
  <2> QED
    BY Zenon, <2>2, <2>3, <2>4 DEF KeyAndLost, KeyInv
<1>4. LostInv'
  <2> SUFFICES ASSUME NEW i \in DOMAIN replies', replies'[i].task.op = "refresh",
                      replies'[i].result = R!REG_TAKEN, redis = replies'[i].task.value,
                      redis # R!None, failures = 0
               PROVE  \E j \in DOMAIN replies' : j > i /\ Covers(replies'[j], redis)
    BY Zenon DEF LostInv, Covers
  <2>1. i + 1 \in DOMAIN replies /\ replies'[i] = replies[i + 1] /\ i \in Nat
    BY Zenon, <1>2
  <2>2. PICK j \in DOMAIN replies : j > i + 1 /\ Covers(replies[j], redis)
    BY Zenon, <2>1 DEF KeyAndLost, LostInv
  <2>3. j - 1 \in DOMAIN replies' /\ replies'[j - 1] = replies[j] /\ j \in Nat
    BY SMTT(30), <1>2, <2>1, <2>2
  <2>4. j - 1 > i
    BY <2>1, <2>2, <2>3
  <2> QED
    BY <2>2, <2>3, <2>4
<1> QED
  BY <1>3, <1>4 DEF KeyAndLost

\* Every step keeps KeyInv and LostInv.
LEMMA KeyStep == RegistryType /\ AskedInv /\ KeyAndLost /\ [R!Next]_R!vars => KeyAndLost'
<1> SUFFICES ASSUME RegistryType, AskedInv, KeyAndLost, [R!Next]_R!vars
             PROVE  KeyAndLost'
  OBVIOUS
<1>0. /\ m_vAlive \subseteq R!Sids /\ MaxSid \in Nat /\ sids \in 0..MaxSid
      /\ m_mBindings \in [R!Sids -> Values] /\ address \in [R!Sids -> Values]
      /\ sent \in Seq(Tasks) /\ replies \in Seq(Replies) /\ R!NoSid \in Nat
      /\ \A s \in R!Sids : s \in Nat
  BY RegistryAssumption DEF RegistryType, Replies, R!Sids, R!NoSid
<1>1. ASSUME R!StartReload
      PROVE  KeyAndLost'
  BY Zenon, <1>1, KeyPush, ListType DEF R!StartReload, R!Held
<1>2. ASSUME NEW s \in R!Sids, R!HandleRegister(s)
      PROVE  KeyAndLost'
  <2>1. R!Task("register", s, address[s]) \in Tasks
    BY <1>0, TaskType
  <2> QED
    BY <1>2, <2>1, KeyPush DEF R!HandleRegister, R!Held
<1>3. ASSUME NEW s \in R!Sids, R!HandleHeartbeat(s)
      PROVE  KeyAndLost'
  <2>1. R!Task("refresh", s, m_mBindings[s]) \in Tasks
    BY <1>0, TaskType
  <2> QED
    BY <1>3, <2>1, KeyPush DEF R!HandleHeartbeat, R!Held
<1>4. ASSUME NEW s \in R!Sids, R!OnDelSession(s)
      PROVE  KeyAndLost'
  <2>1. /\ m_vAlive' = m_vAlive \ {s} /\ replies' = replies /\ redis' = redis
        /\ failures' = failures
        /\ \A n \in R!Sids : n # s => m_mBindings'[n] = m_mBindings[n]
    BY <1>0, <1>4 DEF R!OnDelSession
  <2>2. CASE m_mBindings[s] = R!None
    <3>1. sent' = sent
      BY <1>4, <2>2 DEF R!OnDelSession
    <3>2. redis # R!None => (R!Held => R!Held')
      BY SMTT(30), <1>0, <2>1, <2>2 DEF R!Held
    <3>3. KeyInv'
      BY Zenon, <2>1, <3>1, <3>2 DEF KeyAndLost, KeyInv, Covers
    <3>4. LostInv'
      BY Zenon, <2>1 DEF KeyAndLost, LostInv, Covers
    <3> QED
      BY <3>3, <3>4 DEF KeyAndLost
  <2>3. CASE m_mBindings[s] # R!None
    <3> DEFINE t == R!Task("withdraw", R!NoSid, m_mBindings[s])
    <3>1. t \in Tasks /\ t.value = m_mBindings[s]
      BY <1>0, TaskType
    <3>2. sent' = Append(sent, t)
      BY <1>4, <2>3 DEF R!OnDelSession
    <3> HIDE DEF t
    <3>3. R!Held => R!Held' \/ t.value = redis
      BY SMTT(30), <1>0, <2>1, <3>1 DEF R!Held
    <3> QED
      BY Zenon, <2>1, <3>1, <3>2, <3>3, KeyPush
  <2> QED
    BY <2>2, <2>3
<1>5. ASSUME NEW v \in Addresses, R!OnAddSession(v)
      PROVE  KeyAndLost'
  <2>1. R!Held => R!Held'
    BY <1>5 DEF R!OnAddSession, R!Held
  <2> QED
    BY Zenon, <1>5, <2>1 DEF R!OnAddSession, KeyAndLost, KeyInv, LostInv, Covers
<1>6. ASSUME R!Execute
      PROVE  KeyAndLost'
  BY <1>6, KeyExecute
<1>7. ASSUME NEW ran \in BOOLEAN, R!ExecuteFails(ran)
      PROVE  KeyAndLost'
  <2>1. failures' # 0
    BY <1>7 DEF R!ExecuteFails, RegistryType
  <2> QED
    BY Zenon, <2>1 DEF KeyAndLost, KeyInv, LostInv
<1>8. ASSUME R!Expire \/ R!Lapse
      PROVE  KeyAndLost'
  BY Zenon, <1>8 DEF R!Expire, R!Lapse, KeyAndLost, KeyInv, LostInv
<1>9. ASSUME R!GoOn
      PROVE  KeyAndLost'
  <2>1. replies # <<>> /\ replies' = Tail(replies) /\ UNCHANGED <<redis, failures, m_vAlive>>
    BY Zenon, <1>9 DEF R!GoOn, R!Register, R!Refresh, R!Withdraw, R!Reload, R!Returned
  <2>2. Head(replies) \in Replies /\ R!Asked \in Tasks /\ R!Asked \in R!Outstanding
    <3>1. Head(replies) \in Replies /\ Head(replies) = replies[1] /\ 1 \in DOMAIN replies
      BY <1>0, <2>1, Popped
    <3> QED
      BY <3>1 DEF Replies, R!Asked, R!Outstanding
  <2> DEFINE w == R!Task("withdraw", R!NoSid, R!Asked.value)
  <2>3. w \in Tasks /\ w.value = R!Asked.value
    BY <1>0, <2>2, TaskFacts, TaskType
  <2> HIDE DEF w
  <2>4. ASSUME sent' = sent \/ sent' = Append(sent, w)
        PROVE  \A i \in DOMAIN sent : i \in DOMAIN sent' /\ sent'[i] = sent[i]
    BY <1>0, <2>3, <2>4, Pushed
  <2>5. ASSUME sent' = Append(sent, w)
        PROVE  \E i \in DOMAIN sent' : sent'[i].value = R!Asked.value
    BY <1>0, <2>3, <2>5, Pushed
  <2>6. CASE R!Register
    <3>1. R!Asked.op = "register"
      BY <2>6 DEF R!Register, R!Returned, R!Asked
    <3>2. CASE R!Asked.sid \notin m_vAlive
      <4>1. /\ m_mBindings' = m_mBindings
            /\ sent' = IF R!Got = R!REG_OK THEN Append(sent, w) ELSE sent
        BY <2>6, <3>2 DEF R!Register, R!RegisterOfDead, w
      <4>2. R!Held => R!Held'
        BY <2>1, <4>1 DEF R!Held
      <4>3. Covers(Head(replies), redis) => redis = R!Asked.value /\ R!Got = R!REG_OK
        BY <3>1 DEF Covers, R!Asked, R!Got
      <4> QED
        BY Zenon, <2>1, <2>4, <2>5, <4>1, <4>2, <4>3, KeyReply
    <3>3. CASE R!Asked.sid \in m_vAlive
      <4>1. /\ sent' = sent
            /\ m_mBindings' = [m_mBindings EXCEPT ![R!Asked.sid] =
                                IF R!Got = R!REG_OK THEN R!Asked.value ELSE @]
        BY <2>6, <3>3 DEF R!Register
      <4>2. m_mBindings[R!Asked.sid] \in {R!None, R!Asked.value}
        BY <1>0, <2>2, <3>1, <3>3 DEF AskedInv
      <4>3. redis # R!None => (R!Held => R!Held')
        BY <1>0, <2>1, <3>3, <4>1, <4>2 DEF R!Held
      <4>4. Covers(Head(replies), redis) => R!Held'
        <5>1. Covers(Head(replies), redis) => redis = R!Asked.value /\ R!Got = R!REG_OK
          BY <3>1 DEF Covers, R!Asked, R!Got
        <5>2. R!Got = R!REG_OK => m_mBindings'[R!Asked.sid] = R!Asked.value
          BY <1>0, <3>3, <4>1
        <5> QED
          BY <2>1, <3>3, <5>1, <5>2 DEF R!Held
      <4> QED
        BY Zenon, <2>1, <2>4, <4>1, <4>3, <4>4, KeyReply
    <3> QED
      BY <3>2, <3>3
  <2>7. CASE R!Refresh
    <3> DEFINE found == R!Asked.sid \in m_vAlive /\ m_mBindings[R!Asked.sid] = R!Asked.value
               written == R!Got \in {R!REG_OK, R!REG_RENEWED}
               lost == found /\ R!Got = R!REG_TAKEN
    <3>1. /\ R!Asked.op = "refresh"
          /\ sent' = IF ~found /\ written THEN Append(sent, w) ELSE sent
          /\ m_mBindings' = [m_mBindings EXCEPT ![R!Asked.sid] = IF lost THEN R!None ELSE @]
      BY <2>7 DEF R!Refresh, R!Returned, R!Asked, w
    <3>2. Covers(Head(replies), redis) => redis = R!Asked.value /\ written
      BY <3>1 DEF Covers, R!Asked, R!Got
    <3>3. written => R!Got # R!REG_TAKEN
      BY DEF R!REG_OK, R!REG_RENEWED, R!REG_TAKEN
    <3>4. found /\ written /\ redis = R!Asked.value => R!Held'
      BY <1>0, <2>1, <3>1, <3>3 DEF R!Held
    <3>5. redis # R!None /\ R!Held => R!Held' \/ (R!Got = R!REG_TAKEN /\ redis = R!Asked.value)
      BY <1>0, <2>1, <3>1 DEF R!Held
    <3> HIDE DEF found, written, lost
    <3> QED
      BY Zenon, <2>1, <2>4, <2>5, <3>1, <3>2, <3>4, <3>5, KeyReply
  <2>8. CASE R!Withdraw \/ R!Reload
    <3>1. sent' = sent /\ m_mBindings' = m_mBindings
      BY <2>8 DEF R!Withdraw, R!Reload
    <3>2. R!Asked.op \in {"withdraw", "list"}
      BY <2>8 DEF R!Withdraw, R!Reload, R!Returned, R!Asked
    <3>3. ~Covers(Head(replies), redis)
      BY <3>2 DEF Covers, R!Asked
    <3>4. R!Held => R!Held'
      BY <2>1, <3>1 DEF R!Held
    <3> QED
      BY <2>1, <2>4, <3>1, <3>3, <3>4, KeyReply
  <2> QED
    BY <1>9, <2>6, <2>7, <2>8 DEF R!GoOn
<1>10. CASE UNCHANGED R!vars
  BY Zenon, <1>10 DEF R!vars, KeyAndLost, KeyInv, LostInv, Covers, R!Held
<1> QED
  BY <1>1, <1>2, <1>3, <1>4, <1>5, <1>6, <1>7, <1>8, <1>9, <1>10 DEF R!Next

\* The first state satisfies the invariant.
LEMMA RegistryInit == R!Init => RegistryInv
<1> SUFFICES ASSUME R!Init PROVE RegistryInv
  OBVIOUS
<1>1. /\ m_vAlive = {} /\ m_mBindings = [s \in R!Sids |-> R!None]
      /\ address = [s \in R!Sids |-> R!None]
      /\ sids = 0 /\ sent = <<>> /\ replies = <<>> /\ redis = R!None /\ failures = 0
  BY DEF R!Init
<1>2. <<>> \in Seq(Tasks) /\ <<>> \in Seq([task : Tasks, result : Results]) /\ R!None \in Values
  BY DEF Values
<1>3. RegistryType
  BY <1>1, <1>2, RegistryAssumption DEF RegistryType
<1>4. DOMAIN sent = {} /\ DOMAIN replies = {}
  BY <1>1
<1>5. AskedInv
  BY <1>1, <1>4 DEF AskedInv, R!Outstanding
<1>6. KeyInv /\ LostInv
  BY Zenon, <1>1, <1>4 DEF KeyInv, LostInv
<1> QED
  BY <1>3, <1>5, <1>6 DEF RegistryInv

\* The inductive invariant of RegistryServer holds, whatever happens while Register, Refresh,
\* Withdraw and Reload wait for Redis (registry_server.cpp:325, 380).
THEOREM RegistryInvariant == R!Spec => []RegistryInv
<1>1. RegistryInv /\ [R!Next]_R!vars => RegistryInv'
  BY RegistryTypeStep, AskedStep, KeyStep DEF RegistryInv, KeyAndLost
<1> QED
  BY <1>1, RegistryInit, PTL DEF R!Spec

\* For any number of sessions and of scripts under way, no key is left to its expiry while Redis
\* answers: it is bound, or somebody is about to bind, write or withdraw it
\* (registry_server.cpp:380).
THEOREM RegistryNoOrphanKey == R!Spec => []NoOrphanKey
<1>1. RegistryInv => NoOrphanKey
  BY Zenon DEF RegistryInv, KeyInv, NoOrphanKey, R!NoOrphanKey, Covers, R!Outstanding
<1> QED
  BY <1>1, RegistryInvariant, PTL

-----------------------------------------------------------------------------
(* RpcServer: sums over finite sets *)

\* A set of naturals that is not empty has a least element.
LEMMA LeastNat ==
  ASSUME NEW T, T \subseteq Nat, T # {}
  PROVE  \E x \in T : \A y \in T : x <= y
<1> DEFINE Less == OpToRel(<, Nat)
<1>1. IsWellFoundedOn(Less, Nat)
  BY NatLessThanWellFounded
<1>2. \A x, y \in Nat : y < x => <<y, x>> \in Less
  BY DEF OpToRel
<1> HIDE DEF Less
<1>3. PICK x \in T : \A y \in T : ~(<<y, x>> \in Less)
  BY Zenon, <1>1, WFMin
<1>4. \A y \in T : ~(y < x)
  BY Zenon, <1>2, <1>3
<1>5. \A y \in T : x <= y
  BY <1>4
<1> QED
  BY <1>5


\* A finite set without one of its elements is smaller.
LEMMA Smaller ==
  ASSUME NEW s, IsFiniteSet(s), NEW x \in s
  PROVE  Cardinality(s \ {x}) < Cardinality(s)
  BY FS_RemoveElement, FS_CardinalityType, FS_Subset

\* Some finite sets that are not none have a smallest one: induction over finite sets.
LEMMA SmallestSet ==
  ASSUME NEW U, IsFiniteSet(U), NEW B, B \subseteq SUBSET U, B # {}
  PROVE  \E s \in B : IsFiniteSet(s) /\ \A x \in s : s \ {x} \notin B
<1>1. \A s \in B : IsFiniteSet(s) /\ Cardinality(s) \in Nat
  BY FS_Subset, FS_CardinalityType
<1> DEFINE N == {Cardinality(s) : s \in B}
<1>2. N \subseteq Nat /\ N # {}
  BY <1>1
<1>3. PICK n \in N : \A m \in N : n <= m
  BY Zenon, <1>2, LeastNat
<1>4. PICK s \in B : Cardinality(s) = n
  BY <1>3
<1>5. \A t \in B : n <= Cardinality(t)
  BY <1>3
<1>6. ASSUME NEW x \in s, s \ {x} \in B
      PROVE  FALSE
  <2>1. Cardinality(s \ {x}) < n
    BY <1>1, <1>4, Smaller
  <2> QED
    BY <1>1, <1>4, <1>5, <1>6, <2>1
<1> QED
  BY <1>1, <1>6

SumTable(g, U, w) ==
  /\ g \in [SUBSET U -> Int] /\ g[{}] = 0
  /\ \A s \in SUBSET U : \A x \in s : g[s] = w[x] + g[s \ {x}]

\* The table of the empty set.
LEMMA SumTableEmpty ==
  ASSUME NEW w
  PROVE  SumTable([s \in SUBSET {} |-> 0], {}, w)
  BY DEF SumTable

\* A table of a set without one element gives one of the set.
LEMMA SumTableAdd ==
  ASSUME NEW V, NEW y \in V, NEW w \in [V -> Int], NEW g, SumTable(g, V \ {y}, w)
  PROVE  \E k : SumTable(k, V, w)
<1> DEFINE k == [s \in SUBSET V |-> IF y \in s THEN w[y] + g[s \ {y}] ELSE g[s]]
<1>0. /\ g \in [SUBSET (V \ {y}) -> Int] /\ g[{}] = 0 /\ w[y] \in Int
      /\ \A s \in SUBSET (V \ {y}) : \A x \in s : g[s] = w[x] + g[s \ {x}]
  BY DEF SumTable
<1>1. \A s \in SUBSET V : s \ {y} \in SUBSET (V \ {y}) /\ (y \notin s => s \in SUBSET (V \ {y}))
  OBVIOUS
<1>2. \A s \in SUBSET V : k[s] = IF y \in s THEN w[y] + g[s \ {y}] ELSE g[s]
  OBVIOUS
<1>3. \A s \in SUBSET V : (IF y \in s THEN w[y] + g[s \ {y}] ELSE g[s]) \in Int
  BY <1>0, <1>1
<1>4. k \in [SUBSET V -> Int]
  BY Zenon, <1>3
<1>5. k[{}] = 0
  BY <1>0
<1> HIDE DEF k
<1>6. ASSUME NEW s \in SUBSET V, NEW x \in s
      PROVE  k[s] = w[x] + k[s \ {x}]
  <2>0. s \ {x} \in SUBSET V /\ w[x] \in Int
    OBVIOUS
  <2>1. CASE y \notin s
    <3>1. k[s] = g[s] /\ k[s \ {x}] = g[s \ {x}]
      BY Zenon, <1>2, <2>0, <2>1
    <3>2. g[s] = w[x] + g[s \ {x}]
      BY <1>0, <1>1, <2>1
    <3> QED
      BY <3>1, <3>2
  <2>2. CASE x = y
    <3>1. k[s] = w[y] + g[s \ {y}] /\ k[s \ {x}] = g[s \ {y}]
      BY Zenon, <1>2, <2>0, <2>2
    <3> QED
      BY <3>1, <2>2
  <2>3. CASE y \in s /\ x # y
    <3>1. k[s] = w[y] + g[s \ {y}] /\ k[s \ {x}] = w[y] + g[(s \ {x}) \ {y}]
      BY Zenon, <1>2, <2>0, <2>3
    <3>2. (s \ {x}) \ {y} = (s \ {y}) \ {x} /\ (s \ {y}) \ {x} \in SUBSET (V \ {y})
      OBVIOUS
    <3>3. x \in s \ {y} /\ s \ {y} \in SUBSET (V \ {y})
      BY <2>3
    <3>4. g[s \ {y}] = w[x] + g[(s \ {y}) \ {x}]
      BY <1>0, <3>3
    <3>5. g[(s \ {y}) \ {x}] \in Int
      BY <1>0, <3>2
    <3>6. k[s \ {x}] = w[y] + g[(s \ {y}) \ {x}]
      BY Zenon, <3>1, <3>2
    <3>7. k[s] = w[y] + (w[x] + g[(s \ {y}) \ {x}])
      BY <3>1, <3>4
    <3>8. \A i, j, n \in Int : i + (j + n) = j + (i + n)
      OBVIOUS
    <3> QED
      BY <1>0, <2>0, <3>5, <3>6, <3>7, <3>8
  <2> QED
    BY <2>1, <2>2, <2>3
<1>7. SumTable(k, V, w)
  BY Zenon, <1>4, <1>5, <1>6 DEF SumTable
<1> QED
  BY <1>7

\* Every finite set has a table of its sums.
LEMMA SumTableExists ==
  ASSUME NEW U, IsFiniteSet(U), NEW w \in [U -> Int]
  PROVE  \E g : SumTable(g, U, w)
<1> DEFINE Bad == {V \in SUBSET U : ~\E g : SumTable(g, V, w)}
<1> SUFFICES ASSUME Bad # {} PROVE FALSE
  OBVIOUS
<1>1. PICK V \in Bad : \A y \in V : V \ {y} \notin Bad
  BY Zenon, SmallestSet
<1>2. V # {}
  BY Zenon, SumTableEmpty
<1>3. PICK y \in V : TRUE
  BY <1>2
<1>4. PICK g : SumTable(g, V \ {y}, w)
  BY <1>1
<1> DEFINE v == [u \in V |-> w[u]]
<1>5. v \in [V -> Int] /\ \A u \in V : v[u] = w[u]
  OBVIOUS
<1> HIDE DEF v
<1>6. SumTable(g, V \ {y}, v)
  BY <1>4, <1>5 DEF SumTable
<1>7. PICK k : SumTable(k, V, v)
  BY <1>5, <1>6, SumTableAdd
<1>8. SumTable(k, V, w)
  BY Zenon, <1>5, <1>7 DEF SumTable
<1> QED
  BY <1>8

Pick(s) == CHOOSE x \in s : TRUE

IsFold(h, S, w) ==
  h = [s \in SUBSET S |-> IF s = {} THEN 0 ELSE w[Pick(s)] + h[s \ {Pick(s)}]]

\* A sum table satisfies the equation that defines a fold.
LEMMA TableFolds ==
  ASSUME NEW U, NEW w, NEW g, SumTable(g, U, w), NEW S \in SUBSET U
  PROVE  IsFold([s \in SUBSET S |-> g[s]], S, w)
<1> DEFINE h == [s \in SUBSET S |-> g[s]]
<1>1. ASSUME NEW s \in SUBSET S
      PROVE  g[s] = IF s = {} THEN 0 ELSE w[Pick(s)] + h[s \ {Pick(s)}]
  <2>1. s # {} => Pick(s) \in s
    BY DEF Pick
  <2>2. h[s \ {Pick(s)}] = g[s \ {Pick(s)}]
    OBVIOUS
  <2> QED
    BY Zenon, <2>1, <2>2 DEF SumTable
<1> QED
  BY Zenon, <1>1 DEF IsFold

\* Whatever satisfies the equation of a fold over a finite set is the sum.
LEMMA FoldIsSum ==
  ASSUME NEW U, IsFiniteSet(U), NEW w, NEW g, SumTable(g, U, w), NEW S \in SUBSET U,
         NEW h, IsFold(h, S, w)
  PROVE  h[S] = g[S]
<1> DEFINE Bad == {s \in SUBSET S : h[s] # g[s]}
<1>1. ASSUME Bad # {}
      PROVE  FALSE
  <2>1. IsFiniteSet(S)
    BY FS_Subset
  <2>2. PICK s \in Bad : \A x \in s : s \ {x} \notin Bad
    BY Zenon, <1>1, <2>1, SmallestSet
  <2>3. h[s] = IF s = {} THEN 0 ELSE w[Pick(s)] + h[s \ {Pick(s)}]
    BY Zenon, <2>2 DEF IsFold
  <2>4. s # {}
    BY Zenon, <2>2, <2>3 DEF SumTable
  <2>5. Pick(s) \in s
    <3>1. \E x : x \in s
      BY <2>4
    <3> QED
      BY <3>1 DEF Pick
  <2>6. h[s \ {Pick(s)}] = g[s \ {Pick(s)}]
    BY <2>2, <2>5
  <2>7. g[s] = w[Pick(s)] + g[s \ {Pick(s)}]
    BY <2>5 DEF SumTable
  <2> QED
    BY <2>2, <2>3, <2>4, <2>6, <2>7
<1> QED
  BY <1>1
-----------------------------------------------------------------------------
Leases == [sid : Sessions, n : Nat, iBytes : Nat]
Usages == [iCount : Int, iBytes : Int]

RpcType ==
  /\ closed \in [Sessions -> BOOLEAN] /\ destroyed \in [Sessions -> BOOLEAN]
  /\ partial \in [Sessions -> BOOLEAN]
  /\ age \in [Sessions -> Nat] /\ closing \in [Sessions -> Nat] /\ seen \in [Sessions -> Nat]
  /\ timer \in [Sessions -> Nat \cup {NoTimer}] /\ refs \in [Sessions -> Int]
  /\ reading \in Sessions \cup {None} /\ vFrames \in Seq(Frames)
  /\ mSessions \in [Sessions -> Usages]
  /\ leases \subseteq Leases /\ IsFiniteSet(leases)

\* The number a task has is that of its frame, and the frames still to cut come after it.
NumberInv ==
  /\ reading = None => vFrames = <<>>
  /\ reading # None => Len(vFrames) <= seen[reading]
  /\ \A l \in leases : l.n < seen[l.sid] - IF reading = l.sid THEN Len(vFrames) ELSE 0

\* What the timer of a session says before, during and after OnDataIn.
FragmentInv ==
  \A s \in Sessions :
    /\ s \in Datagram => timer[s] = NoTimer /\ (reading # s => ~partial[s])
    /\ ~closed[s] /\ reading # s =>
         IF partial[s] THEN age[s] <= FrameTimeout /\ timer[s] = FrameTimeout - age[s]
         ELSE timer[s] = NoTimer
    /\ ~closed[s] /\ reading = s =>
         \/ vFrames # <<>> /\ age[s] = 0
         \/ timer[s] = NoTimer /\ age[s] = 0
         \/ /\ vFrames = <<>> /\ partial[s]
            /\ age[s] <= FrameTimeout /\ timer[s] = FrameTimeout - age[s]

\* A destroyed session is closed, and is not the one that reads.
DestroyedInv == \A s \in Sessions : destroyed[s] => closed[s] /\ reading # s

RpcInv ==
  RpcType /\ NumberInv /\ FragmentInv /\ DestroyedInv /\ TimerHoldsSession /\ UsageExact

-----------------------------------------------------------------------------
\* What MapThenSumSet computes for leases is what a sum table says.
LEMMA BytesTable ==
  ASSUME NEW U, IsFiniteSet(U), NEW g, SumTable(g, U, [l \in U |-> l.iBytes]),
         NEW A \in SUBSET U
  PROVE  UsageOf(A).iBytes = g[A]
<1> DEFINE w == [l \in U |-> l.iBytes]
           Eq(h) == h = [s \in SUBSET A |->
                          IF s = {} THEN 0 ELSE Pick(s).iBytes + h[s \ {Pick(s)}]]
<1>1. UsageOf(A).iBytes = (CHOOSE h : Eq(h))[A]
  BY DEF UsageOf, MapThenSumSet, MapThenFoldSet, Pick
<1>2. \A s \in SUBSET A : s # {} => w[Pick(s)] = Pick(s).iBytes
  <2> SUFFICES ASSUME NEW s \in SUBSET A, s # {} PROVE w[Pick(s)] = Pick(s).iBytes
    OBVIOUS
  <2>1. \E x : x \in s
    OBVIOUS
  <2>2. Pick(s) \in s
    BY <2>1 DEF Pick
  <2> QED
    BY <2>2
<1>0. SumTable(g, U, w)
  OBVIOUS
<1> HIDE DEF w
<1>3. ASSUME NEW h
      PROVE  [s \in SUBSET A |-> IF s = {} THEN 0 ELSE Pick(s).iBytes + h[s \ {Pick(s)}]]
              = [s \in SUBSET A |-> IF s = {} THEN 0 ELSE w[Pick(s)] + h[s \ {Pick(s)}]]
  <2>1. \A s \in SUBSET A : (IF s = {} THEN 0 ELSE Pick(s).iBytes + h[s \ {Pick(s)}])
                            = (IF s = {} THEN 0 ELSE w[Pick(s)] + h[s \ {Pick(s)}])
    BY <1>2
  <2> QED
    BY <2>1, Zenon
<1>4. \A h : IsFold(h, A, w) <=> Eq(h)
  BY <1>3, Zenon DEF IsFold
<1>5. IsFold([s \in SUBSET A |-> g[s]], A, w)
  BY <1>0, TableFolds
<1> DEFINE H == CHOOSE h : Eq(h)
<1> HIDE DEF Eq
<1>6. Eq(H)
  BY <1>4, <1>5, Zenon
<1> HIDE DEF H
<1>7. IsFold(H, A, w)
  BY <1>4, <1>6
<1>8. H[A] = g[A]
  BY <1>0, <1>7, FoldIsSum
<1> QED
  BY <1>1, <1>8 DEF H

\* The usage of a finite set of tasks is a count and a number.
LEMMA UsageType ==
  ASSUME NEW A, IsFiniteSet(A), A \subseteq Leases
  PROVE  UsageOf(A) \in [iCount : Nat, iBytes : Int]
<1>1. [l \in A |-> l.iBytes] \in [A -> Int]
  BY DEF Leases
<1>2. PICK g : SumTable(g, A, [l \in A |-> l.iBytes])
  BY SMTT(30), <1>1, SumTableExists
<1>3. UsageOf(A).iBytes = g[A]
  BY <1>2, BytesTable
<1>4. g[A] \in Int
  BY <1>2 DEF SumTable
<1>5. Cardinality(A) \in Nat
  BY FS_CardinalityType
<1> QED
  BY <1>3, <1>4, <1>5 DEF UsageOf

\* No tasks use nothing.
LEMMA UsageEmpty == UsageOf({}) = Zero
<1>1. [l \in {} |-> l.iBytes] \in [{} -> Int] /\ IsFiniteSet({}) /\ Cardinality({}) = 0
  BY FS_EmptySet
<1>2. PICK g : SumTable(g, {}, [l \in {} |-> l.iBytes])
  BY Zenon, <1>1, SumTableExists
<1>3. UsageOf({}).iBytes = g[{}]
  BY Zenon, <1>1, <1>2, BytesTable
<1>4. g[{}] = 0
  BY <1>2 DEF SumTable
<1> QED
  BY <1>1, <1>3, <1>4 DEF UsageOf, Zero

\* A task that ends takes its own count and bytes away (TaskEnds).
LEMMA UsageRemove ==
  ASSUME NEW A, IsFiniteSet(A), A \subseteq Leases, NEW x \in A
  PROVE  UsageOf(A \ {x}) = Plus(UsageOf(A), -1, -x.iBytes)
<1>1. [l \in A |-> l.iBytes] \in [A -> Int]
  BY DEF Leases
<1>2. PICK g : SumTable(g, A, [l \in A |-> l.iBytes])
  BY <1>1, SumTableExists
<1>3. UsageOf(A).iBytes = g[A] /\ UsageOf(A \ {x}).iBytes = g[A \ {x}]
  BY <1>2, BytesTable
<1>4. g[A] = [l \in A |-> l.iBytes][x] + g[A \ {x}] /\ g[A \ {x}] \in Int
  BY Zenon, <1>2 DEF SumTable
<1>5. x.iBytes \in Int /\ g[A] = x.iBytes + g[A \ {x}]
  BY <1>4 DEF Leases
<1>6. UsageOf(A \ {x}).iBytes = UsageOf(A).iBytes + (-x.iBytes)
  BY <1>3, <1>4, <1>5
<1>7. Cardinality(A \ {x}) = Cardinality(A) + (-1)
  BY Zenon, FS_RemoveElement, FS_CardinalityType
<1>8. UsageOf(A \ {x}).iCount = UsageOf(A).iCount + (-1)
  BY <1>7 DEF UsageOf
<1> QED
  BY <1>6, <1>8 DEF UsageOf, Plus

\* A task that starts adds its own count and bytes (DeliverRpc).
LEMMA UsageAdd ==
  ASSUME NEW A, IsFiniteSet(A), A \subseteq Leases, NEW x \in Leases, x \notin A
  PROVE  UsageOf(A \cup {x}) = Plus(UsageOf(A), 1, x.iBytes)
<1> DEFINE B == A \cup {x}
<1>1. IsFiniteSet(B) /\ B \subseteq Leases /\ x \in B /\ B \ {x} = A
  BY FS_AddElement
<1> HIDE DEF B
<1>2. UsageOf(A) = Plus(UsageOf(B), -1, -x.iBytes)
  BY <1>1, UsageRemove
<1>3. UsageOf(B) \in [iCount : Nat, iBytes : Int] /\ x.iBytes \in Nat
  BY <1>1, UsageType DEF Leases
<1>4. /\ UsageOf(A).iCount = UsageOf(B).iCount + (-1)
      /\ UsageOf(A).iBytes = UsageOf(B).iBytes + (-x.iBytes)
  BY <1>2 DEF Plus
<1>5. /\ UsageOf(A).iCount + 1 = UsageOf(B).iCount
      /\ UsageOf(A).iBytes + x.iBytes = UsageOf(B).iBytes
  BY <1>3, <1>4
<1> QED
  BY <1>3, <1>5 DEF Plus, B

-----------------------------------------------------------------------------
\* The frame that DeliverRpc and Busy look at.
LEMMA FrameFacts ==
  ASSUME RpcType, vFrames # <<>>
  PROVE  /\ Head(vFrames) \in Frames /\ Tail(vFrames) \in Seq(Frames)
         /\ Len(Tail(vFrames)) = Len(vFrames) - 1 /\ Len(vFrames) \in Nat \ {0}
         /\ Head(vFrames).kind # "bad" => Head(vFrames).iBytes \in Nat
<1>1. vFrames \in Seq(Frames)
  BY DEF RpcType
<1>2. Head(vFrames) \in Frames /\ Tail(vFrames) \in Seq(Frames)
  BY <1>1
<1>3. Len(Tail(vFrames)) = Len(vFrames) - 1 /\ Len(vFrames) \in Nat \ {0}
  BY <1>1
<1>4. \A f \in Frames : f.kind # "bad" => f.iBytes \in Sizes
  BY DEF Frames
<1>5. Sizes \subseteq Nat
  BY RpcAssumption
<1> QED
  BY Zenon, <1>2, <1>3, <1>4, <1>5

\* What a read of at most two frames is.
LEMMA ReadFacts ==
  ASSUME NEW frames \in Reads
  PROVE  frames \in Seq(Frames) /\ Len(frames) \in Nat
<1>1. PICK m \in 0..2 : frames \in [1..m -> Frames]
  BY DEF Reads
<1> QED
  BY <1>1

\* Plus of a usage is a usage.
LEMMA PlusType ==
  ASSUME NEW u \in Usages, NEW i \in Int, NEW j \in Int
  PROVE  Plus(u, i, j) \in Usages
  BY DEF Plus, Usages

\* The first state is well-typed.
LEMMA RpcTypeInit == Init => RpcType
<1> SUFFICES ASSUME Init PROVE RpcType
  OBVIOUS
<1>1. /\ closed = [s \in Sessions |-> FALSE] /\ destroyed = closed /\ partial = closed
      /\ age = [s \in Sessions |-> 0] /\ closing = age /\ seen = age
      /\ timer = [s \in Sessions |-> NoTimer] /\ refs = [s \in Sessions |-> 1]
      /\ reading = None /\ vFrames = <<>> /\ leases = {}
  BY DEF Init
<1>2. <<>> \in Seq(Frames) /\ IsFiniteSet({})
  BY FS_EmptySet
<1>3. mSessions \in [Sessions -> Usages]
  BY DEF Init, Zero, Usages
<1> QED
  BY <1>1, <1>2, <1>3 DEF RpcType

\* Every step keeps the types.
LEMMA RpcTypeStep == RpcType /\ NumberInv /\ [Next]_vars => RpcType'
<1> SUFFICES ASSUME RpcType, NumberInv, [Next]_vars
             PROVE  RpcType'
  OBVIOUS
<1> USE DEF RpcType
<1>1. ASSUME NEW s \in Sessions, NEW frames \in Reads, NEW rest \in BOOLEAN,
             Receive(s, frames, rest)
      PROVE  RpcType'
  <2>1. frames \in Seq(Frames) /\ Len(frames) \in Nat
    BY ReadFacts
  <2>2. vFrames' \in Seq(Frames) /\ reading' \in Sessions
    BY <1>1, <2>1 DEF Receive
  <2>3. partial' \in [Sessions -> BOOLEAN] /\ age' \in [Sessions -> Nat]
    BY <1>1 DEF Receive
  <2>4. seen' \in [Sessions -> Nat]
    BY <1>1, <2>1 DEF Receive
  <2> QED
    BY SMTT(30), <1>1, <2>2, <2>3, <2>4 DEF Receive, usageVars
<1>2. ASSUME BadFrame
      PROVE  RpcType'
  <2>1. vFrames' = <<>> /\ <<>> \in Seq(Frames)
    BY <1>2 DEF BadFrame
  <2>2. closed' \in [Sessions -> BOOLEAN]
    BY <1>2 DEF BadFrame
  <2> QED
    BY <1>2, <2>1, <2>2 DEF BadFrame, usageVars
<1>3. ASSUME NEW s \in Sessions, CancelIncompleteTimer(s)
      PROVE  timer' \in [Sessions -> Nat \cup {NoTimer}] /\ closing' \in [Sessions -> Nat]
  BY SMTT(30), <1>3 DEF CancelIncompleteTimer
<1>4. ASSUME DeliverRpc
      PROVE  RpcType'
  <2>1. reading \in Sessions /\ vFrames # <<>> /\ Head(vFrames).kind # "bad"
    BY <1>4 DEF DeliverRpc
  <2>2. vFrames' = Tail(vFrames) /\ CancelIncompleteTimer(reading)
    BY <1>4 DEF DeliverRpc
  <2>3. timer' \in [Sessions -> Nat \cup {NoTimer}] /\ closing' \in [Sessions -> Nat]
    BY <1>3, <2>1, <2>2
  <2> DEFINE new == [sid |-> reading, n |-> seen[reading] - Len(vFrames),
                     iBytes |-> Head(vFrames).iBytes]
  <2>4. seen[reading] - Len(vFrames) \in Nat
    BY <2>1, FrameFacts, RpcAssumption DEF NumberInv
  <2>5. new \in Leases
    BY Zenon, <2>1, <2>4, FrameFacts DEF Leases
  <2>6. leases' = leases \cup {new}
    BY <1>4 DEF DeliverRpc
  <2> HIDE DEF new
  <2>7. leases' \subseteq Leases /\ IsFiniteSet(leases')
    BY Zenon, <2>5, <2>6, FS_AddElement
  <2>8. vFrames' \in Seq(Frames)
    BY <2>1, <2>2, FrameFacts
  <2>9. mSessions' \in [Sessions -> Usages]
    <3>1. Head(vFrames).iBytes \in Int /\ mSessions[reading] \in Usages
      BY SMTT(30), <2>1, FrameFacts
    <3>2. mSessions' = [mSessions EXCEPT ![reading] = Plus(@, 1, Head(vFrames).iBytes)]
      BY <1>4 DEF DeliverRpc
    <3>3. Plus(mSessions[reading], 1, Head(vFrames).iBytes) \in Usages
      BY <3>1, PlusType
    <3> QED
      BY Zenon, <3>2, <3>3
  <2> QED
    <3>1. UNCHANGED <<closed, destroyed, reading, partial, age, refs, seen>>
      BY Zenon, <1>4 DEF DeliverRpc
    <3> QED
      BY Zenon, <2>3, <2>7, <2>8, <2>9, <3>1
<1>5. ASSUME Busy
      PROVE  RpcType'
  <2>1. reading \in Sessions /\ vFrames # <<>> /\ Head(vFrames).kind # "bad"
    BY <1>5 DEF Busy
  <2>2. vFrames' = Tail(vFrames) /\ CancelIncompleteTimer(reading)
    BY <1>5 DEF Busy
  <2>3. timer' \in [Sessions -> Nat \cup {NoTimer}] /\ closing' \in [Sessions -> Nat]
    BY <1>3, <2>1, <2>2
  <2>4. vFrames' \in Seq(Frames)
    BY <2>1, <2>2, FrameFacts
  <2>5. PICK told \in BOOLEAN :
          closed' = [closed EXCEPT ![reading] =
                       @ \/ (Head(vFrames).kind = "request" /\ ~told)]
    BY Zenon, <1>5 DEF Busy
  <2>6. closed' \in [Sessions -> BOOLEAN]
    BY <2>1, <2>5
  <2> QED
    BY SMTT(30), <1>5, <2>3, <2>4, <2>6 DEF Busy, usageVars
<1>6. ASSUME OnDataInEnds
      PROVE  RpcType'
  <2>1. reading \in Sessions /\ reading' = None /\ vFrames' = vFrames
    BY <1>6 DEF OnDataInEnds
  <2>2. partial' \in [Sessions -> BOOLEAN]
    BY <1>6, <2>1 DEF OnDataInEnds
  <2>3. /\ closed' \in [Sessions -> BOOLEAN] /\ closing' \in [Sessions -> Nat]
        /\ timer' \in [Sessions -> Nat \cup {NoTimer}] /\ refs' \in [Sessions -> Int]
    <3>1. CASE UNCHANGED <<closed, timer, closing, refs>>
      BY <3>1
    <3>2. CASE CancelIncompleteTimer(reading) /\ UNCHANGED <<closed, refs>>
      BY <1>3, <2>1, <3>2
    <3>3. CASE ArmIncompleteTimer(reading) /\ UNCHANGED <<closed, closing>>
      <4>1. FrameTimeout \in Nat
        BY RpcAssumption
      <4>2. timer' \in [Sessions -> Nat \cup {NoTimer}]
        BY Zenon, <2>1, <3>3, <4>1 DEF ArmIncompleteTimer
      <4>3. refs' \in [Sessions -> Int]
        BY <2>1, <3>3 DEF ArmIncompleteTimer
      <4> QED
        BY <3>3, <4>2, <4>3
    <3>4. CASE closed' = [closed EXCEPT ![reading] = TRUE] /\ UNCHANGED <<timer, closing, refs>>
      BY <2>1, <3>4
    <3> QED
      BY Zenon, <1>6, <3>1, <3>2, <3>3, <3>4 DEF OnDataInEnds
  <2> QED
    BY <1>6, <2>1, <2>2, <2>3 DEF OnDataInEnds, usageVars
<1>7. ASSUME Tick
      PROVE  RpcType'
  <2>1. timer' \in [Sessions -> Nat \cup {NoTimer}] /\ age' \in [Sessions -> Nat]
    BY SMTT(30), <1>7 DEF Tick, NoTimer
  <2> QED
    BY <1>7, <2>1 DEF Tick, readVars, usageVars
<1>8. ASSUME NEW s \in Sessions, TimerFires(s)
      PROVE  RpcType'
  <2>1. timer' \in [Sessions -> Nat \cup {NoTimer}] /\ closing' \in [Sessions -> Nat]
    BY <1>3, <1>8 DEF TimerFires
  <2> QED
    BY Zenon, <1>8, <2>1 DEF TimerFires, readVars, usageVars
<1>9. ASSUME NEW s \in Sessions, TimerClosed(s)
      PROVE  RpcType'
  BY SMTT(30), <1>9 DEF TimerClosed, readVars, usageVars
<1>10. ASSUME NEW s \in Sessions, CloseSession(s)
       PROVE  RpcType'
  BY <1>10 DEF CloseSession, readVars, usageVars
<1>11. ASSUME NEW s \in Sessions, Destroy(s)
       PROVE  RpcType'
  <2>1. timer' \in [Sessions -> Nat \cup {NoTimer}] /\ closing' \in [Sessions -> Nat]
    BY <1>3, <1>11 DEF Destroy, OnClose
  <2>2. refs' \in [Sessions -> Int]
    BY <1>11 DEF Destroy
  <2>3. destroyed' \in [Sessions -> BOOLEAN]
    BY <1>11 DEF Destroy
  <2> QED
    BY <1>11, <2>1, <2>2, <2>3 DEF Destroy, readVars, usageVars
<1>12. ASSUME NEW lease \in leases, TaskEnds(lease)
       PROVE  RpcType'
  <2>1. leases' \subseteq Leases /\ IsFiniteSet(leases')
    BY <1>12, FS_RemoveElement DEF TaskEnds
  <2>2. Zero \in Usages /\ -lease.iBytes \in Int /\ lease.sid \in Sessions
    BY SMTT(30) DEF Usages, Zero, Leases
  <2>3. mSessions' \in [Sessions -> Usages]
    <3> DEFINE After(u) == IF u.iCount = 1 THEN Zero ELSE Plus(u, -1, -lease.iBytes)
    <3>1. mSessions' = [mSessions EXCEPT ![lease.sid] = After(@)]
      BY <1>12 DEF TaskEnds
    <3>2. Plus(mSessions[lease.sid], -1, -lease.iBytes) \in Usages
      BY <2>2, PlusType
    <3>3. After(mSessions[lease.sid]) \in Usages
      BY <2>2, <3>2
    <3> HIDE DEF After
    <3> QED
      BY Zenon, <3>1, <3>3
  <2>4. UNCHANGED <<sessionVars, readVars>>
    BY Zenon, <1>12 DEF TaskEnds
  <2>5. /\ closed' = closed /\ destroyed' = destroyed /\ partial' = partial /\ age' = age
        /\ closing' = closing /\ seen' = seen /\ timer' = timer /\ refs' = refs
        /\ reading' = reading /\ vFrames' = vFrames
    BY Zenon, <2>4 DEF sessionVars, readVars
  <2> QED
    BY Zenon, <2>1, <2>3, <2>5 DEF RpcType
<1>13. CASE UNCHANGED vars
  BY <1>13 DEF vars, sessionVars, readVars, usageVars
<1> QED
  BY Zenon, <1>1, <1>2, <1>4, <1>5, <1>6, <1>7, <1>8, <1>9, <1>10, <1>11, <1>12, <1>13 DEF Next

\* No step but the ones named here changes what NumberInv is about.
LEMMA NumberStep == RpcType /\ NumberInv /\ [Next]_vars => NumberInv'
<1> SUFFICES ASSUME RpcType, NumberInv, [Next]_vars
             PROVE  NumberInv'
  OBVIOUS
<1>0. /\ seen \in [Sessions -> Nat] /\ None \notin Sessions
      /\ \A l \in leases : l.sid \in Sessions /\ l.n \in Nat
      /\ Len(vFrames) \in Nat /\ reading \in Sessions \cup {None}
  BY SMTT(30), RpcAssumption DEF RpcType, Leases
<1>1. ASSUME NEW s \in Sessions, NEW frames \in Reads, NEW rest \in BOOLEAN,
             Receive(s, frames, rest)
      PROVE  NumberInv'
  <2>1. Len(frames) \in Nat
    BY ReadFacts
  <2>2. /\ reading = None /\ reading' = s /\ vFrames' = frames /\ leases' = leases
        /\ seen' = [seen EXCEPT ![s] = @ + Len(frames)]
    BY <1>1 DEF Receive, usageVars
  <2>3. seen'[s] = seen[s] + Len(frames) /\ \A t \in Sessions : t # s => seen'[t] = seen[t]
    BY <1>0, <2>2
  <2>4. \A l \in leases : l.n < seen[l.sid]
    BY <1>0, <2>2 DEF NumberInv
  <2>5. \A l \in leases : l.n < seen'[l.sid] - IF s = l.sid THEN Len(frames) ELSE 0
    BY <1>0, <2>1, <2>3, <2>4
  <2> QED
    BY <1>0, <2>1, <2>2, <2>3, <2>5 DEF NumberInv
<1>2. ASSUME BadFrame
      PROVE  NumberInv'
  <2>1. reading' = reading /\ vFrames' = <<>> /\ leases' = leases /\ seen' = seen
    BY <1>2 DEF BadFrame, usageVars
  <2>2. Len(vFrames') = 0
    BY <2>1
  <2> QED
    BY <1>0, <2>1, <2>2 DEF NumberInv
<1>3. ASSUME DeliverRpc
      PROVE  NumberInv'
  <2>1. /\ reading \in Sessions /\ reading' = reading /\ seen' = seen
        /\ vFrames # <<>> /\ vFrames' = Tail(vFrames)
        /\ leases' = leases \cup {[sid |-> reading, n |-> seen[reading] - Len(vFrames),
                                   iBytes |-> Head(vFrames).iBytes]}
    BY <1>0, <1>3 DEF DeliverRpc
  <2>2. Len(vFrames') = Len(vFrames) - 1 /\ Len(vFrames) \in Nat \ {0}
    BY <2>1, FrameFacts
  <2>3. \A l \in leases : l.n < seen'[l.sid] - IF reading = l.sid THEN Len(vFrames') ELSE 0
    BY <1>0, <2>1, <2>2 DEF NumberInv
  <2>4. \A l \in leases' : l \in leases \/ (l.sid = reading /\ l.n = seen[reading] - Len(vFrames))
    BY <2>1
  <2>5. seen[reading] - Len(vFrames) < seen[reading] - Len(vFrames')
    BY <1>0, <2>1, <2>2
  <2>6. \A l \in leases' : l.n < seen'[l.sid] - IF reading = l.sid THEN Len(vFrames') ELSE 0
    BY <2>1, <2>3, <2>4, <2>5
  <2> QED
    BY <1>0, <2>1, <2>2, <2>6 DEF NumberInv
<1>4. ASSUME Busy
      PROVE  NumberInv'
  <2>1. /\ reading \in Sessions /\ reading' = reading /\ seen' = seen /\ leases' = leases
        /\ vFrames # <<>> /\ vFrames' = Tail(vFrames)
    BY <1>0, <1>4 DEF Busy, usageVars
  <2>2. Len(vFrames') = Len(vFrames) - 1 /\ Len(vFrames) \in Nat \ {0}
    BY <2>1, FrameFacts
  <2> QED
    BY <1>0, <2>1, <2>2 DEF NumberInv
<1>5. ASSUME OnDataInEnds
      PROVE  NumberInv'
  <2>1. reading' = None /\ vFrames = <<>> /\ vFrames' = <<>> /\ leases' = leases /\ seen' = seen
    BY <1>5 DEF OnDataInEnds, usageVars
  <2>2. Len(vFrames) = 0
    BY <2>1
  <2> QED
    BY <1>0, <2>1, <2>2 DEF NumberInv
<1>6. ASSUME NEW lease \in leases, TaskEnds(lease)
      PROVE  NumberInv'
  BY <1>6 DEF TaskEnds, readVars, NumberInv
<1>7. CASE UNCHANGED <<readVars, leases>>
  BY <1>7 DEF readVars, NumberInv
<1> QED
  BY Zenon, <1>1, <1>2, <1>3, <1>4, <1>5, <1>6, <1>7
     DEF Next, Tick, TimerFires, TimerClosed, CloseSession, Destroy, usageVars, vars

\* What FragmentInv says of one session.
FragmentOf(s) ==
  /\ s \in Datagram => timer[s] = NoTimer /\ (reading # s => ~partial[s])
  /\ ~closed[s] /\ reading # s =>
       IF partial[s] THEN age[s] <= FrameTimeout /\ timer[s] = FrameTimeout - age[s]
       ELSE timer[s] = NoTimer
  /\ ~closed[s] /\ reading = s =>
       \/ vFrames # <<>> /\ age[s] = 0
       \/ timer[s] = NoTimer /\ age[s] = 0
       \/ /\ vFrames = <<>> /\ partial[s]
          /\ age[s] <= FrameTimeout /\ timer[s] = FrameTimeout - age[s]

\* The arithmetic of a deadline: armed, its timer has what the age leaves of FrameTimeout.
LEMMA TimerNames == ~(NoTimer > 0) /\ NoTimer \notin Nat
  BY DEF NoTimer

LEMMA ArmedAt ==
  ASSUME NEW a \in Nat, NEW f \in Nat, NEW m, NEW n, n = IF m = NoTimer THEN f ELSE m,
         (m = NoTimer /\ a = 0) \/ (a <= f /\ m = f - a)
  PROVE  a <= f /\ n = f - a
<1>1. 0 <= f /\ f = f - 0 /\ (a <= f => f - a \in Nat)
  OBVIOUS
<1> QED
  BY Zenon, <1>1, TimerNames

LEMMA TickedAt ==
  ASSUME NEW a \in Nat, NEW f \in Nat, NEW m, NEW n, m # 0, a <= f, m = f - a,
         n = IF m > 0 THEN m - 1 ELSE m
  PROVE  a + 1 <= f /\ n = f - (a + 1)
OBVIOUS

LEMMA TickedTimer ==
  ASSUME NEW m \in Nat \cup {NoTimer}, NEW n, m # 0, n = IF m > 0 THEN m - 1 ELSE m
  PROVE  n = NoTimer <=> m = NoTimer
  BY DEF NoTimer

\* The arithmetic of a reference count that is a sum of three.
LEMMA Moved == \A o, d \in Int, c \in Nat : o + (c + d) + 0 = o + c + d
OBVIOUS

LEMMA OneMore ==
  ASSUME NEW r \in Int, NEW o \in Int, NEW c \in Nat, r = o + c + 0
  PROVE  r + 1 = o + c + 1
OBVIOUS

LEMMA OneLess ==
  ASSUME NEW r \in Int, NEW o \in Int, NEW c \in Nat, NEW d \in Int, r = o + c + d
  PROVE  r - 1 = o + (c - 1) + d
OBVIOUS

LEMMA OneOff == \A c \in Nat, d \in Int : (1 + c + d) - 1 = 0 + c + d
OBVIOUS

\* Every step keeps FragmentInv: the timer runs exactly while a fragment is held, and what is
\* left of it is what its age leaves.
LEMMA FragmentStep == RpcType /\ FragmentInv /\ [Next]_vars => FragmentInv'
<1> SUFFICES ASSUME RpcType, FragmentInv, [Next]_vars, NEW t \in Sessions
             PROVE  FragmentOf(t)'
  BY DEF FragmentInv, FragmentOf
<1>0. /\ FragmentOf(t) /\ FrameTimeout \in Nat /\ t # None
      /\ closed[t] \in BOOLEAN /\ partial[t] \in BOOLEAN /\ age[t] \in Nat
      /\ timer[t] \in Nat \cup {NoTimer} /\ reading \in Sessions \cup {None}
  BY RpcAssumption DEF FragmentInv, FragmentOf, RpcType
<1>1. ASSUME NEW s \in Sessions, NEW frames \in Reads, NEW rest \in BOOLEAN,
             Receive(s, frames, rest)
      PROVE  FragmentOf(t)'
  <2>1. /\ reading = None /\ reading' = s /\ vFrames' = frames /\ (frames # <<>> \/ rest)
        /\ closed' = closed /\ timer' = timer /\ ~closed[s]
    BY <1>1 DEF Receive
  <2>2. /\ partial'[t] = IF t = s THEN rest ELSE partial[t]
        /\ age'[t] = IF t = s THEN (IF frames = <<>> /\ partial[t] THEN age[t] ELSE 0) ELSE age[t]
    BY <1>1 DEF Receive, RpcType
  <2> QED
    BY <1>0, <2>1, <2>2 DEF FragmentOf
<1>2. ASSUME BadFrame
      PROVE  FragmentOf(t)'
  <2>1. /\ reading \in Sessions /\ reading' = reading /\ vFrames # <<>>
        /\ partial' = partial /\ age' = age /\ timer' = timer
        /\ closed'[t] = IF t = reading THEN closed[t] \/ reading \notin Datagram ELSE closed[t]
    BY <1>0, <1>2 DEF BadFrame, RpcType
  <2> QED
    BY Zenon, <1>0, <2>1 DEF FragmentOf
<1>3. ASSUME NEW s \in Sessions, CancelIncompleteTimer(s)
      PROVE  timer'[t] = IF t = s THEN NoTimer ELSE timer[t]
  BY <1>3 DEF CancelIncompleteTimer, RpcType
<1>4. ASSUME DeliverRpc \/ Busy
      PROVE  FragmentOf(t)'
  <2>1. /\ reading \in Sessions /\ reading' = reading /\ vFrames # <<>>
        /\ partial' = partial /\ age' = age /\ CancelIncompleteTimer(reading)
    BY <1>0, <1>4 DEF DeliverRpc, Busy
  <2>2. timer'[t] = IF t = reading THEN NoTimer ELSE timer[t]
    BY <1>3, <2>1
  <2>3. closed'[t] \in BOOLEAN /\ (closed[t] => closed'[t]) /\ (t # reading => closed'[t] = closed[t])
    BY Zenon, <1>4, <2>1 DEF DeliverRpc, Busy, RpcType
  <2> QED
    BY Zenon, <1>0, <2>1, <2>2, <2>3 DEF FragmentOf
<1>5. ASSUME OnDataInEnds
      PROVE  FragmentOf(t)'
  <2>1. /\ reading \in Sessions /\ reading' = None /\ vFrames = <<>> /\ age' = age
        /\ partial'[t] = IF t = reading THEN partial[t] /\ ~closed[t] /\ t \notin Datagram
                         ELSE partial[t]
    BY <1>0, <1>5 DEF OnDataInEnds, RpcType
  <2>2. CASE t # reading
    <3>1. closed'[t] = closed[t] /\ timer'[t] = timer[t]
      BY <1>5, <2>1, <2>2 DEF OnDataInEnds, CancelIncompleteTimer, ArmIncompleteTimer, RpcType
    <3> QED
      BY <1>0, <2>1, <2>2, <3>1 DEF FragmentOf
  <2>3. CASE t = reading /\ t \in Datagram
    <3>1. closed' = closed /\ timer' = timer
      BY <1>5, <2>3 DEF OnDataInEnds
    <3> QED
      BY Zenon, <1>0, <2>1, <2>3, <3>1 DEF FragmentOf
  <2>4. CASE t = reading /\ t \notin Datagram /\ (closed[t] \/ ~partial[t])
    <3>1. closed' = closed /\ CancelIncompleteTimer(t)
      BY <1>5, <2>4 DEF OnDataInEnds
    <3> QED
      BY <1>0, <1>3, <2>1, <2>4, <3>1 DEF FragmentOf
  <2>5. CASE t = reading /\ t \notin Datagram /\ ~closed[t] /\ partial[t]
    <3>1. CASE ArmIncompleteTimer(t) /\ closed' = closed
      <4>1. timer'[t] = IF timer[t] = NoTimer THEN FrameTimeout ELSE timer[t]
        BY <3>1 DEF ArmIncompleteTimer, RpcType
      <4>2. \/ timer[t] = NoTimer /\ age[t] = 0
            \/ age[t] <= FrameTimeout /\ timer[t] = FrameTimeout - age[t]
        BY Zenon, <1>0, <2>1, <2>5 DEF FragmentOf
      <4>3. age[t] <= FrameTimeout /\ timer'[t] = FrameTimeout - age[t]
        <5>1. age[t] \in Nat /\ FrameTimeout \in Nat
          BY Zenon, <1>0
        <5> QED
          BY Zenon, <4>1, <4>2, <5>1, ArmedAt
      <4> QED
        BY Zenon, <1>0, <2>1, <2>5, <3>1, <4>3 DEF FragmentOf
    <3>2. CASE timer' = timer /\ closed' = [closed EXCEPT ![t] = TRUE]
      <4>1. closed'[t]
        BY <3>2 DEF RpcType
      <4> QED
        BY <1>0, <2>1, <2>5, <4>1 DEF FragmentOf
    <3> QED
      BY <1>5, <2>5, <3>1, <3>2 DEF OnDataInEnds
  <2> QED
    BY <2>2, <2>3, <2>4, <2>5
<1>6. ASSUME Tick
      PROVE  FragmentOf(t)'
  <2>1. /\ reading = None /\ reading' = reading /\ timer[t] # 0
        /\ closed' = closed /\ partial' = partial
        /\ timer'[t] = IF timer[t] > 0 THEN timer[t] - 1 ELSE timer[t]
        /\ age'[t] = IF partial[t] /\ ~closed[t] THEN age[t] + 1 ELSE age[t]
    BY <1>6 DEF Tick, RpcType, readVars
  <2>2. timer[t] = NoTimer => timer'[t] = NoTimer
    BY Zenon, <2>1, TimerNames
  <2>3. ASSUME partial[t], ~closed[t], age[t] <= FrameTimeout, timer[t] = FrameTimeout - age[t]
        PROVE  age'[t] <= FrameTimeout /\ timer'[t] = FrameTimeout - age'[t]
    <3>1. age'[t] = age[t] + 1
      BY Zenon, <2>1, <2>3
    <3>2. age[t] + 1 <= FrameTimeout /\ timer'[t] = FrameTimeout - (age[t] + 1)
      BY Zenon, <1>0, <2>1, <2>3, TickedAt
    <3> QED
      BY Zenon, <3>1, <3>2
  <2> QED
    BY Zenon, <1>0, <2>1, <2>2, <2>3 DEF FragmentOf
<1>7. ASSUME NEW s \in Sessions, TimerFires(s)
      PROVE  FragmentOf(t)'
  <2>1. /\ reading = None /\ reading' = None /\ partial' = partial /\ age' = age
        /\ closed'[t] = (closed[t] \/ t = s) /\ CancelIncompleteTimer(s)
    BY Zenon, <1>7 DEF TimerFires, RpcType, readVars
  <2> QED
    BY Zenon, <1>0, <1>3, <2>1 DEF FragmentOf
<1>8. ASSUME NEW s \in Sessions, CloseSession(s)
      PROVE  FragmentOf(t)'
  <2>1. closed'[t] = (closed[t] \/ t = s)
    BY Zenon, <1>8 DEF CloseSession, RpcType
  <2> QED
    BY Zenon, <1>0, <1>8, <2>1 DEF FragmentOf, CloseSession, readVars
<1>9. ASSUME NEW s \in Sessions, Destroy(s)
      PROVE  FragmentOf(t)'
  <2>1. /\ reading = None /\ reading' = None /\ partial' = partial /\ age' = age
        /\ closed' = closed /\ closed[s] /\ CancelIncompleteTimer(s)
    BY <1>9 DEF Destroy, OnClose, RpcType, readVars
  <2> QED
    BY Zenon, <1>0, <1>3, <2>1 DEF FragmentOf
<1>10. CASE UNCHANGED <<closed, partial, age, timer, reading, vFrames>>
  BY Zenon, <1>0, <1>10 DEF FragmentOf
<1> QED
  BY Zenon, <1>1, <1>2, <1>4, <1>5, <1>6, <1>7, <1>8, <1>9, <1>10
     DEF Next, TimerClosed, TaskEnds, readVars, sessionVars, vars

\* The references of a session that its channel and its timer have.
Own(s) == IF destroyed[s] THEN 0 ELSE 1
Timed(s) == IF timer[s] = NoTimer THEN 0 ELSE 1

\* What DestroyedInv and TimerHoldsSession say of one session.
HoldsOf(s) ==
  /\ destroyed[s] => closed[s] /\ reading # s /\ timer[s] = NoTimer
  /\ refs[s] = Own(s) + closing[s] + Timed(s)

\* Every step keeps the references of a session: its own, and one per timer.
LEMMA HoldsStep ==
  RpcType /\ DestroyedInv /\ TimerHoldsSession /\ [Next]_vars
    => DestroyedInv' /\ TimerHoldsSession'
<1> SUFFICES ASSUME RpcType, DestroyedInv, TimerHoldsSession, [Next]_vars, NEW t \in Sessions
             PROVE  HoldsOf(t)'
  BY DEF DestroyedInv, TimerHoldsSession, HoldsOf, Own, Timed
<1>0. /\ HoldsOf(t) /\ FrameTimeout \in Nat /\ t # None
      /\ closed[t] \in BOOLEAN /\ destroyed[t] \in BOOLEAN /\ closing[t] \in Nat
      /\ refs[t] \in Int /\ Own(t) \in Int /\ Timed(t) \in Int
      /\ timer[t] \in Nat \cup {NoTimer} /\ reading \in Sessions \cup {None}
  BY RpcAssumption DEF DestroyedInv, TimerHoldsSession, HoldsOf, RpcType, Own, Timed
<1>k. ASSUME destroyed'[t] = destroyed[t]
      PROVE  Own(t)' = Own(t)
  BY Zenon, <1>k DEF Own
<1>m. ASSUME timer'[t] = NoTimer <=> timer[t] = NoTimer
      PROVE  Timed(t)' = Timed(t)
  BY Zenon, <1>m DEF Timed
<1>n. ASSUME /\ destroyed'[t] = destroyed[t] /\ refs'[t] = refs[t] /\ closing'[t] = closing[t]
             /\ (timer'[t] = NoTimer <=> timer[t] = NoTimer)
             /\ (closed[t] => closed'[t]) /\ (reading' = t => reading = t \/ ~destroyed[t])
      PROVE  HoldsOf(t)'
  BY Zenon, <1>0, <1>k, <1>m, <1>n DEF HoldsOf
<1>1. ASSUME NEW s \in Sessions, NEW frames \in Reads, NEW rest \in BOOLEAN,
             Receive(s, frames, rest)
      PROVE  HoldsOf(t)'
  <2>1. UNCHANGED <<closed, destroyed, timer, closing, refs>> /\ reading' = s /\ ~closed[s]
    BY Zenon, <1>1 DEF Receive
  <2> QED
    BY Zenon, <1>0, <1>n, <2>1 DEF HoldsOf
<1>2. ASSUME NEW s \in Sessions, CancelIncompleteTimer(s)
      PROVE  /\ \A o \in Int : o + closing'[t] + Timed(t)' = o + closing[t] + Timed(t)
             /\ timer[t] = NoTimer \/ t = s => timer'[t] = NoTimer
  <2>1. CASE t = s
    <3>1. timer'[t] = NoTimer /\ closing'[t] = closing[t] + Timed(t)
      BY <1>0, <1>2, <2>1 DEF CancelIncompleteTimer, RpcType, Timed
    <3>2. Timed(t)' = 0
      BY Zenon, <3>1 DEF Timed
    <3> QED
      <4>1. closing[t] \in Nat /\ Timed(t) \in Int
        BY Zenon, <1>0
      <4>2. ASSUME NEW o \in Int
            PROVE  o + closing'[t] + Timed(t)' = o + closing[t] + Timed(t)
        <5>1. o + (closing[t] + Timed(t)) + 0 = o + closing[t] + Timed(t)
          BY Zenon, <4>1, Moved
        <5> QED
          BY Zenon, <3>1, <3>2, <5>1
      <4> QED
        BY Zenon, <3>1, <4>2
  <2>2. CASE t # s
    <3>1. timer'[t] = timer[t] /\ closing'[t] = closing[t]
      BY <1>2, <2>2 DEF CancelIncompleteTimer, RpcType
    <3>2. Timed(t)' = Timed(t)
      BY Zenon, <1>m, <3>1
    <3> QED
      BY Zenon, <2>2, <3>1, <3>2
  <2> QED
    BY <2>1, <2>2
<1>c. ASSUME NEW s \in Sessions, CancelIncompleteTimer(s), destroyed'[t] = destroyed[t],
             refs'[t] = refs[t], closed[t] => closed'[t], reading' = t => reading = t
      PROVE  HoldsOf(t)'
  <2>1. refs'[t] = Own(t)' + closing'[t] + Timed(t)'
    <3>1. Own(t)' = Own(t)
      BY Zenon, <1>c, <1>k
    <3>2. refs[t] = Own(t) + closing[t] + Timed(t)
      BY Zenon, <1>0 DEF HoldsOf
    <3>3. Own(t) + closing'[t] + Timed(t)' = Own(t) + closing[t] + Timed(t)
      BY Zenon, <1>0, <1>2, <1>c
    <3> QED
      BY Zenon, <1>c, <3>1, <3>2, <3>3
  <2> QED
    BY Zenon, <1>0, <1>2, <1>c, <2>1 DEF HoldsOf
<1>3. ASSUME BadFrame
      PROVE  HoldsOf(t)'
  <2>1. closed'[t] \in BOOLEAN /\ (closed[t] => closed'[t])
    BY Zenon, <1>0, <1>3 DEF BadFrame, RpcType
  <2> QED
    BY Zenon, <1>0, <1>3, <1>n, <2>1 DEF BadFrame
<1>4. ASSUME DeliverRpc \/ Busy
      PROVE  HoldsOf(t)'
  <2>1. /\ reading \in Sessions /\ reading' = reading /\ destroyed' = destroyed /\ refs' = refs
        /\ CancelIncompleteTimer(reading)
    BY Zenon, <1>0, <1>4 DEF DeliverRpc, Busy
  <2>2. closed'[t] \in BOOLEAN /\ (closed[t] => closed'[t])
    BY Zenon, <1>0, <1>4, <2>1 DEF DeliverRpc, Busy, RpcType
  <2> QED
    BY Zenon, <1>c, <2>1, <2>2
<1>5. ASSUME OnDataInEnds
      PROVE  HoldsOf(t)'
  <2>1. reading \in Sessions /\ reading' = None /\ destroyed' = destroyed
    BY <1>0, <1>5 DEF OnDataInEnds
  <2>2. CASE UNCHANGED <<closed, timer, closing, refs>>
    BY Zenon, <1>0, <1>n, <2>1, <2>2
  <2>3. CASE CancelIncompleteTimer(reading) /\ UNCHANGED <<closed, refs>>
    BY Zenon, <1>0, <1>c, <2>1, <2>3
  <2>4. CASE ArmIncompleteTimer(reading) /\ UNCHANGED <<closed, closing>>
    <3>1. CASE timer[reading] = NoTimer /\ t = reading
      <4>1. timer'[t] = FrameTimeout /\ refs'[t] = refs[t] + 1
        BY <2>1, <2>4, <3>1 DEF ArmIncompleteTimer, RpcType
      <4>2. FrameTimeout # NoTimer
        BY <1>0 DEF NoTimer
      <4>3. Timed(t) = 0 /\ Timed(t)' = 1 /\ Own(t)' = Own(t)
        BY Zenon, <1>k, <2>1, <3>1, <4>1, <4>2 DEF Timed
      <4>4. ~destroyed[t] /\ refs[t] = Own(t) + closing[t] + Timed(t)
        BY Zenon, <1>0, <3>1 DEF HoldsOf
      <4>5. refs'[t] = Own(t)' + closing'[t] + Timed(t)'
        <5>1. refs[t] \in Int /\ Own(t) \in Int /\ closing[t] \in Nat
          BY Zenon, <1>0
        <5>2. refs[t] = Own(t) + closing[t] + 0
          BY Zenon, <4>3, <4>4
        <5>3. refs[t] + 1 = Own(t) + closing[t] + 1
          BY Zenon, <5>1, <5>2, OneMore
        <5> QED
          BY Zenon, <2>4, <4>1, <4>3, <5>3
      <4> QED
        BY Zenon, <2>1, <4>4, <4>5 DEF HoldsOf
    <3>2. CASE ~(timer[reading] = NoTimer /\ t = reading)
      <4>1. timer'[t] = timer[t] /\ refs'[t] = refs[t]
        BY <2>1, <2>4, <3>2 DEF ArmIncompleteTimer, RpcType
      <4> QED
        BY Zenon, <1>0, <1>n, <2>1, <2>4, <4>1
    <3> QED
      BY <3>1, <3>2
  <2>5. CASE closed' = [closed EXCEPT ![reading] = TRUE] /\ UNCHANGED <<timer, closing, refs>>
    <3>1. closed'[t] \in BOOLEAN /\ (closed[t] => closed'[t])
      BY Zenon, <1>0, <2>5 DEF RpcType
    <3> QED
      BY Zenon, <1>0, <1>n, <2>1, <2>5, <3>1
  <2> QED
    BY <1>5, <2>2, <2>3, <2>4, <2>5 DEF OnDataInEnds
<1>6. ASSUME Tick
      PROVE  HoldsOf(t)'
  <2>1. /\ closed' = closed /\ destroyed' = destroyed /\ closing' = closing /\ refs' = refs
        /\ reading' = reading /\ timer[t] # 0
        /\ timer'[t] = IF timer[t] > 0 THEN timer[t] - 1 ELSE timer[t]
    BY Zenon, <1>6 DEF Tick, readVars
  <2>2. timer'[t] = NoTimer <=> timer[t] = NoTimer
    BY Zenon, <1>0, <2>1, TickedTimer
  <2> QED
    BY Zenon, <1>0, <1>n, <2>1, <2>2
<1>7. ASSUME NEW s \in Sessions, TimerFires(s)
      PROVE  HoldsOf(t)'
  <2>1. closed'[t] \in BOOLEAN /\ (closed[t] => closed'[t])
    BY Zenon, <1>0, <1>7 DEF TimerFires, RpcType
  <2>2. CancelIncompleteTimer(s) /\ destroyed' = destroyed /\ refs' = refs /\ reading' = reading
    BY Zenon, <1>7 DEF TimerFires, readVars
  <2> QED
    BY Zenon, <1>7, <1>c, <2>1, <2>2
<1>8. ASSUME NEW s \in Sessions, TimerClosed(s)
      PROVE  HoldsOf(t)'
  <2>1. UNCHANGED <<closed, destroyed, timer, reading>>
    BY Zenon, <1>8 DEF TimerClosed, readVars
  <2>2. \/ closing'[t] = closing[t] - 1 /\ refs'[t] = refs[t] - 1
        \/ closing'[t] = closing[t] /\ refs'[t] = refs[t]
    BY <1>8 DEF TimerClosed, RpcType
  <2>3. Own(t)' = Own(t) /\ Timed(t)' = Timed(t)
    BY Zenon, <1>k, <1>m, <2>1
  <2>4. refs[t] = Own(t) + closing[t] + Timed(t)
    BY Zenon, <1>0 DEF HoldsOf
  <2>5. refs'[t] = Own(t)' + closing'[t] + Timed(t)'
    <3>1. refs[t] \in Int /\ Own(t) \in Int /\ closing[t] \in Nat /\ Timed(t) \in Int
      BY Zenon, <1>0
    <3>2. refs[t] - 1 = Own(t) + (closing[t] - 1) + Timed(t)
      BY Zenon, <2>4, <3>1, OneLess
    <3> QED
      BY Zenon, <2>2, <2>3, <2>4, <3>2
  <2> QED
    BY Zenon, <1>0, <2>1, <2>5 DEF HoldsOf
<1>9. ASSUME NEW s \in Sessions, CloseSession(s)
      PROVE  HoldsOf(t)'
  <2>1. closed'[t] \in BOOLEAN /\ (closed[t] => closed'[t])
    BY Zenon, <1>0, <1>9 DEF CloseSession, RpcType
  <2> QED
    BY Zenon, <1>0, <1>9, <1>n, <2>1 DEF CloseSession, readVars
<1>10. ASSUME NEW s \in Sessions, Destroy(s)
       PROVE  HoldsOf(t)'
  <2>1. /\ reading = None /\ reading' = None /\ closed' = closed /\ closed[s] /\ ~destroyed[s]
        /\ CancelIncompleteTimer(s)
    BY <1>10 DEF Destroy, OnClose, readVars
  <2>2. destroyed'[t] = (destroyed[t] \/ t = s)
    BY Zenon, <1>0, <1>10 DEF Destroy, RpcType
  <2>3. refs'[t] = IF t = s THEN refs[t] - 1 ELSE refs[t]
    BY <1>10 DEF Destroy, RpcType
  <2>4. CASE t = s
    <3>1. Own(t) = 1 /\ Own(t)' = 0 /\ refs[t] = Own(t) + closing[t] + Timed(t)
      BY Zenon, <1>0, <2>1, <2>2, <2>4 DEF Own, HoldsOf
    <3>2. refs'[t] = Own(t)' + closing'[t] + Timed(t)'
      <4>1. closing[t] \in Nat /\ Timed(t) \in Int /\ 0 \in Int
        BY SMTT(30), <1>0
      <4>2. refs'[t] = (1 + closing[t] + Timed(t)) - 1
        BY Zenon, <2>3, <2>4, <3>1
      <4>3. (1 + closing[t] + Timed(t)) - 1 = 0 + closing[t] + Timed(t)
        BY Zenon, <4>1, OneOff
      <4>4. 0 + closing'[t] + Timed(t)' = 0 + closing[t] + Timed(t)
        BY Zenon, <1>2, <2>1, <4>1
      <4> QED
        BY Zenon, <3>1, <4>2, <4>3, <4>4
    <3> QED
      BY Zenon, <1>0, <1>2, <2>1, <2>4, <3>2 DEF HoldsOf
  <2>5. CASE t # s
    BY Zenon, <1>0, <1>c, <2>1, <2>2, <2>3, <2>5
  <2> QED
    BY Zenon, <2>4, <2>5
<1>11. CASE UNCHANGED <<sessionVars, reading>>
  BY Zenon, <1>0, <1>n, <1>11 DEF sessionVars
<1> QED
  BY Zenon, <1>1, <1>3, <1>4, <1>5, <1>6, <1>7, <1>8, <1>9, <1>10, <1>11
     DEF Next, TaskEnds, readVars, vars

-----------------------------------------------------------------------------
\* The tasks of a session.
Of(some, s) == {l \in some : l.sid = s}

\* The usage is exact: every admission adds a new task, every end removes one.
LEMMA UsageStep == RpcType /\ NumberInv /\ UsageExact /\ [Next]_vars => UsageExact'
<1> SUFFICES ASSUME RpcType, NumberInv, UsageExact, [Next]_vars
             PROVE  UsageExact'
  OBVIOUS
<1>0. /\ leases \subseteq Leases /\ IsFiniteSet(leases)
      /\ \A s : Of(leases, s) \subseteq Leases /\ IsFiniteSet(Of(leases, s))
  BY FS_Subset DEF RpcType, Of
<1>1. /\ stTotal = UsageOf(leases) /\ stTotal.iCount <= iMaxCount /\ stTotal.iBytes <= iMaxBytes
      /\ \A s \in Sessions :
           /\ mSessions[s] = UsageOf(Of(leases, s))
           /\ mSessions[s].iCount <= iSessionMaxCount /\ mSessions[s].iBytes <= iSessionMaxBytes
  BY Zenon DEF UsageExact, Of
<1>2. /\ stTotal \in [iCount : Nat, iBytes : Int]
      /\ \A s \in Sessions : mSessions[s] \in [iCount : Nat, iBytes : Int]
  BY Zenon, <1>0, <1>1, UsageType
<1>3. iMaxCount \in Nat /\ iMaxBytes \in Nat /\ iSessionMaxCount \in Nat /\ iSessionMaxBytes \in Nat
  BY RpcAssumption
<1>4. ASSUME DeliverRpc
      PROVE  UsageExact'
  <2> DEFINE new == [sid |-> reading, n |-> seen[reading] - Len(vFrames),
                     iBytes |-> Head(vFrames).iBytes]
             bytes == Head(vFrames).iBytes
  <2>1. /\ reading \in Sessions /\ vFrames # <<>> /\ bytes \in Nat
        /\ seen[reading] - Len(vFrames) \in Nat
    <3>1. reading # None /\ vFrames # <<>> /\ Head(vFrames).kind # "bad"
      BY Zenon, <1>4 DEF DeliverRpc
    <3>2. reading \in Sessions /\ vFrames \in Seq(Frames) /\ seen[reading] \in Nat
      BY Zenon, <3>1 DEF RpcType
    <3>3. Len(vFrames) <= seen[reading]
      BY Zenon, <3>1 DEF NumberInv
    <3>4. bytes \in Nat
      BY Zenon, <3>1, <3>2, FrameFacts
    <3> QED
      BY <3>1, <3>2, <3>3, <3>4
  <2>2. new \in Leases /\ new.sid = reading /\ new.iBytes = bytes
    BY <2>1 DEF Leases
  <2>3. new \notin leases
    BY SMTT(30), <2>1, FrameFacts DEF NumberInv, RpcType
  <2>4. /\ leases' = leases \cup {new} /\ stTotal' = Plus(stTotal, 1, bytes)
        /\ mSessions' = [mSessions EXCEPT ![reading] = Plus(@, 1, bytes)]
        /\ stTotal.iCount < iMaxCount /\ bytes <= iMaxBytes - stTotal.iBytes
        /\ mSessions[reading].iCount < iSessionMaxCount
        /\ bytes <= iSessionMaxBytes - mSessions[reading].iBytes
    BY Zenon, <1>4 DEF DeliverRpc, Room
  <2> HIDE DEF new, bytes
  <2>5. stTotal' = UsageOf(leases')
    BY <1>0, <1>1, <2>2, <2>3, <2>4, UsageAdd
  <2>6. stTotal'.iCount <= iMaxCount /\ stTotal'.iBytes <= iMaxBytes
    <3>1. stTotal'.iCount = stTotal.iCount + 1 /\ stTotal'.iBytes = stTotal.iBytes + bytes
      <4>1. /\ Plus(stTotal, 1, bytes).iCount = stTotal.iCount + 1
            /\ Plus(stTotal, 1, bytes).iBytes = stTotal.iBytes + bytes
        BY DEF Plus
      <4>2. stTotal' = Plus(stTotal, 1, bytes)
        BY Zenon, <2>4
      <4> QED
        BY Zenon, <4>1, <4>2
    <3>2. stTotal.iCount \in Nat /\ stTotal.iBytes \in Int /\ bytes \in Nat
      BY Zenon, <1>2, <2>1
    <3>3. stTotal.iCount < iMaxCount /\ bytes <= iMaxBytes - stTotal.iBytes
      BY Zenon, <2>4
    <3> QED
      BY <1>3, <3>1, <3>2, <3>3
  <2>7. ASSUME NEW s \in Sessions
        PROVE  /\ mSessions'[s] = UsageOf(Of(leases', s))
               /\ mSessions'[s].iCount <= iSessionMaxCount
               /\ mSessions'[s].iBytes <= iSessionMaxBytes
    <3>1. CASE s # reading
      <4>1. Of(leases', s) = Of(leases, s)
        BY <2>2, <2>4, <3>1 DEF Of
      <4>2. mSessions'[s] = mSessions[s]
        BY <2>4, <3>1
      <4> QED
        BY <1>1, <4>1, <4>2
    <3>2. CASE s = reading
      <4>1. Of(leases', s) = Of(leases, s) \cup {new} /\ new \notin Of(leases, s)
        BY <2>2, <2>3, <2>4, <3>2 DEF Of
      <4>2. mSessions'[s] = Plus(mSessions[s], 1, bytes)
        BY <2>4, <3>2 DEF RpcType
      <4>3. UsageOf(Of(leases', s)) = Plus(UsageOf(Of(leases, s)), 1, bytes)
        BY <1>0, <2>2, <4>1, UsageAdd
      <4>4. /\ mSessions'[s].iCount <= iSessionMaxCount
            /\ mSessions'[s].iBytes <= iSessionMaxBytes
        <5>1. /\ mSessions'[s].iCount = mSessions[s].iCount + 1
              /\ mSessions'[s].iBytes = mSessions[s].iBytes + bytes
          BY <4>2 DEF Plus
        <5>2. mSessions[s].iCount \in Nat /\ mSessions[s].iBytes \in Int
          BY <1>2
        <5>3. /\ bytes \in Nat /\ mSessions[s].iCount < iSessionMaxCount
              /\ bytes <= iSessionMaxBytes - mSessions[s].iBytes
          BY <2>1, <2>4, <3>2
        <5> QED
          BY <1>3, <5>1, <5>2, <5>3
      <4> QED
        BY <1>1, <4>2, <4>3, <4>4
    <3> QED
      BY Zenon, <3>1, <3>2
  <2> QED
    BY <2>5, <2>6, <2>7 DEF UsageExact, Of
<1>5. ASSUME NEW lease \in leases, TaskEnds(lease)
      PROVE  UsageExact'
  <2>1. lease \in Leases /\ lease.sid \in Sessions /\ lease.iBytes \in Nat
    BY <1>0 DEF Leases
  <2>2. /\ leases' = leases \ {lease} /\ stTotal' = Plus(stTotal, -1, -lease.iBytes)
        /\ mSessions' = [mSessions EXCEPT ![lease.sid] =
                          IF @.iCount = 1 THEN Zero ELSE Plus(@, -1, -lease.iBytes)]
    BY <1>5 DEF TaskEnds
  <2>3. stTotal' = UsageOf(leases')
    BY <1>0, <1>1, <2>2, UsageRemove
  <2>4. stTotal'.iCount <= iMaxCount /\ stTotal'.iBytes <= iMaxBytes
    BY <1>1, <1>2, <1>3, <2>1, <2>2 DEF Plus
  <2>5. ASSUME NEW s \in Sessions
        PROVE  /\ mSessions'[s] = UsageOf(Of(leases', s))
               /\ mSessions'[s].iCount <= iSessionMaxCount
               /\ mSessions'[s].iBytes <= iSessionMaxBytes
    <3>1. CASE s # lease.sid
      <4>1. Of(leases', s) = Of(leases, s)
        BY <2>2, <3>1 DEF Of
      <4>2. mSessions'[s] = mSessions[s]
        BY <2>2, <3>1
      <4> QED
        BY <1>1, <4>1, <4>2
    <3>2. CASE s = lease.sid
      <4>1. Of(leases', s) = Of(leases, s) \ {lease} /\ lease \in Of(leases, s)
        BY <2>2, <3>2 DEF Of
      <4>2. UsageOf(Of(leases', s)) = Plus(mSessions[s], -1, -lease.iBytes)
        BY Zenon, <1>0, <1>1, <4>1, UsageRemove
      <4>3. CASE mSessions[s].iCount = 1
        <5>1. mSessions'[s] = Zero
          BY <2>2, <3>2, <4>3 DEF RpcType
        <5>2. Cardinality(Of(leases', s)) = 0
          BY <4>2, <4>3 DEF UsageOf, Plus
        <5>3. IsFiniteSet(Of(leases', s))
          BY <1>0, <4>1, FS_RemoveElement
        <5>4. Of(leases', s) = {}
          BY <5>2, <5>3, FS_EmptySet
        <5> QED
          BY <1>3, <5>1, <5>4, UsageEmpty DEF Zero
      <4>4. CASE mSessions[s].iCount # 1
        <5>1. mSessions'[s] = Plus(mSessions[s], -1, -lease.iBytes)
          BY <2>2, <3>2, <4>4 DEF RpcType
        <5>2. /\ mSessions'[s].iCount <= iSessionMaxCount
              /\ mSessions'[s].iBytes <= iSessionMaxBytes
          <6>1. /\ mSessions'[s].iCount = mSessions[s].iCount - 1
                /\ mSessions'[s].iBytes = mSessions[s].iBytes - lease.iBytes
            <7>1. /\ mSessions'[s].iCount = mSessions[s].iCount + (-1)
                  /\ mSessions'[s].iBytes = mSessions[s].iBytes + (-lease.iBytes)
              <8>1. LET after == Plus(mSessions[s], -1, -lease.iBytes) IN
                    /\ after.iCount = mSessions[s].iCount + (-1)
                    /\ after.iBytes = mSessions[s].iBytes + (-lease.iBytes)
                BY DEF Plus
              <8> QED
                BY Zenon, <5>1, <8>1
            <7>2. /\ mSessions[s].iCount \in Nat /\ mSessions[s].iBytes \in Int
                  /\ lease.iBytes \in Int
              BY <1>2, <2>1
            <7> QED
              BY <7>1, <7>2
          <6>2. /\ mSessions[s].iCount \in Nat /\ mSessions[s].iBytes \in Int
                /\ mSessions[s].iCount <= iSessionMaxCount /\ mSessions[s].iBytes <= iSessionMaxBytes
            BY <1>1, <1>2
          <6> QED
            BY <1>3, <2>1, <6>1, <6>2
        <5> QED
          BY <4>2, <5>1, <5>2
      <4> QED
        BY <4>3, <4>4
    <3> QED
      BY <3>1, <3>2
  <2> QED
    BY <2>3, <2>4, <2>5 DEF UsageExact, Of
<1>6. CASE UNCHANGED usageVars
  BY <1>6 DEF usageVars, UsageExact
<1> QED
  BY Zenon, <1>4, <1>5, <1>6
     DEF Next, Receive, BadFrame, Busy, OnDataInEnds, Tick, TimerFires, TimerClosed, CloseSession,
         Destroy, vars

-----------------------------------------------------------------------------
\* The first state satisfies the invariant.
LEMMA RpcInit == Init => RpcInv
<1> SUFFICES ASSUME Init PROVE RpcInv
  OBVIOUS
<1>1. RpcType
  BY RpcTypeInit
<1>2. /\ \A s \in Sessions : /\ ~closed[s] /\ ~destroyed[s] /\ ~partial[s]
                             /\ closing[s] = 0 /\ timer[s] = NoTimer /\ refs[s] = 1
      /\ reading = None /\ vFrames = <<>> /\ leases = {}
  BY DEF Init
<1>3. NumberInv
  BY <1>2 DEF NumberInv
<1>4. FragmentInv
  BY <1>2, RpcAssumption DEF FragmentInv
<1>5. DestroyedInv /\ TimerHoldsSession
  BY <1>2 DEF DestroyedInv, TimerHoldsSession
<1>6. UsageExact
  <2>1. stTotal = Zero /\ \A s \in Sessions : mSessions[s] = Zero
    BY DEF Init
  <2>2. \A s \in Sessions : {l \in leases : l.sid = s} = {}
    BY <1>2
  <2> QED
    BY SMTT(30), <1>2, <2>1, <2>2, UsageEmpty, RpcAssumption DEF UsageExact, Zero
<1> QED
  BY <1>1, <1>3, <1>4, <1>5, <1>6 DEF RpcInv

\* The inductive invariant of RpcServer holds: in OnDataIn, in the timer of a fragment and with
\* tasks that end on any thread (oi_rpc_session.cpp:39, oi_rpc_call.cpp:104).
THEOREM RpcInvariant == Spec => []RpcInv
<1>1. RpcInv /\ [Next]_vars => RpcInv'
  BY RpcTypeStep, NumberStep, FragmentStep, HoldsStep, UsageStep DEF RpcInv
<1> QED
  BY <1>1, RpcInit, PTL DEF Spec

\* For any limits and any number of sessions, the usage that DeliverRpc checks is exactly that
\* of the running tasks, in all and per session, and within the limits (oi_rpc_call.cpp:104).
THEOREM RpcUsageExact == Spec => []UsageExact
<1>1. RpcInv => UsageExact
  BY DEF RpcInv
<1> QED
  BY <1>1, RpcInvariant, PTL

\* For any timeout and any number of sessions, a fragment is never held longer than its time, no
\* timer runs without one, and the session a timer points to is there (oi_rpc_session.cpp:39, 74).
THEOREM RpcTimerSound == Spec => []TimerSound
<1>1. RpcInv => TimerSound
  BY DEF RpcInv, FragmentInv, TimerSound, FragmentDeadline
<1> QED
  BY <1>1, RpcInvariant, PTL
====
